----------------------------- MODULE RunLedger ------------------------------
(***************************************************************************)
(* What the execution of monitoring runs promises, without queue, workers, *)
(* leases or time.  An accepted run may be started; a started run is       *)
(* settled, with its evidence recorded in the same step or without any;    *)
(* and nothing happens to a settled run.  A run that is never started may  *)
(* stay accepted for ever.                                                 *)
(***************************************************************************)
CONSTANT Runs

VARIABLES
  state,    \* the state of each run
  evidence  \* the runs whose evidence is recorded

vars == <<state, evidence>>

Init ==
  /\ state = [r \in Runs |-> "absent"]
  /\ evidence = {}

Accept(r) ==
  /\ state[r] = "absent"
  /\ state' = [state EXCEPT ![r] = "accepted"]
  /\ UNCHANGED evidence

Start(r) ==
  /\ state[r] = "accepted"
  /\ state' = [state EXCEPT ![r] = "started"]
  /\ UNCHANGED evidence

Record(r) ==
  /\ state[r] = "started"
  /\ state' = [state EXCEPT ![r] = "completed"]
  /\ evidence' = evidence \cup {r}

Abandon(r) ==
  /\ state[r] = "started"
  /\ state' = [state EXCEPT ![r] = "failed"]
  /\ UNCHANGED evidence

Settle(r) == Record(r) \/ Abandon(r)

Next == \E r \in Runs : Accept(r) \/ Start(r) \/ Settle(r)

Spec == Init /\ [][Next]_vars
FairSpec == Spec /\ \A r \in Runs : WF_vars(Settle(r))
=============================================================================
