--------------------------- MODULE MCCallDispatch ---------------------------
(***************************************************************************)
(* CallDispatch for TLC: of two calls one may still get its first line,    *)
(* the other has had its last.  Liveness is checked, so no symmetry is     *)
(* used.                                                                   *)
(***************************************************************************)
EXTENDS CallDispatch

CONSTANTS c1, c2

MCInit ==
  /\ \E talked \in BOOLEAN :
       record = [c \in Call |-> [open |-> TRUE, talk |-> c = c2 \/ talked]]
  /\ appends = [c \in Call |-> IF c = c2 THEN "over" ELSE "none"]
  /\ finishes = [f \in Finish |-> NoJob]
  /\ jobs = [f \in Finish |-> NoJob]
  /\ drainers = [d \in Drainer |-> Idle]
  /\ ingested = {} /\ shared = {} /\ faults = 0

MCSpec == MCInit /\ [][Next]_vars /\ Fairness

=============================================================================
