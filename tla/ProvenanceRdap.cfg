CONSTANTS
  Dates = {"d1"}
  NoDate = "nodate"
  OverrideIds = {"o1", "o2"}
  OverrideAdmins = {"m1", "m2"}
  MaxObservations = 3
  OverrideHorizon = 2
SPECIFICATION ProvenanceSpec
INVARIANT RdapNeverCurrent
CHECK_DEADLOCK FALSE
