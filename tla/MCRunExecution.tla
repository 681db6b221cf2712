--------------------------- MODULE MCRunExecution ---------------------------
(***************************************************************************)
(* Small instances of RunExecution: two runs of one domain with a stream   *)
(* entry each, and two worker processes with one goroutine each.           *)
(***************************************************************************)
EXTENDS RunExecution

CONSTANTS r1, r2, d1, m1, m2, p1, p2, w1, w2

MCDomainOf == [r \in {r1, r2} |-> d1]
MCRunOf == [m \in {m1, m2} |-> IF m = m1 THEN r1 ELSE r2]
MCProcessOf == [w \in {w1, w2} |-> IF w = w1 THEN p1 ELSE p2]
=============================================================================
