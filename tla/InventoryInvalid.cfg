CONSTANTS
  Domains = {"d1"}
  Admins = {"a1"}
  GoogleSheets = {"sheet"}
  Workbooks = {"book"}
  MaxImports = 3
  MaxVersion = 5
SPECIFICATION Spec
PROPERTY InvalidRowsAreExcluded
CHECK_DEADLOCK FALSE
