----------------------------- MODULE MCBooking -----------------------------
(***************************************************************************)
(* Values for the constants of Booking, and the states it starts from: an  *)
(* empty database with three requests to come, and one in which the staff  *)
(* has booked two appointments, with two to come.                          *)
(***************************************************************************)
EXTENDS Booking, TLC

CONSTANTS c1, q1, q2, q3, q4

Times == 0..4

From(s, e) == [start |-> s, end |-> e]

\* Two slots that do not overlap.
Slots == {From(0, 1), From(2, 4)}

Symmetry == Permutations({q1, q2, q3})

-----------------------------------------------------------------------------

Booking(s) == [New("book", "done", NoCall, FALSE, s, "appointment")
                 EXCEPT !.heard = "ok"]

Appointment(q, s) == [what |-> "appointment", slot |-> s, held |-> TRUE,
                      record |-> NoCall, by |-> q]

\* The handler of one booking has died.
Empty ==
  /\ rows = [q \in Request |-> NoRow]
  /\ req = [[q \in Request |-> NoRow] EXCEPT ![q4] =
              [Booking(From(0, 1)) EXCEPT !.heard = "lost"]]
  /\ before = {}
  /\ faults = MaxFaults

\* The staff has booked s and later t, in two requests.
Booked(s, t) ==
  /\ \E p \in {q1, q2, q3} :
       /\ rows = [[q \in Request |-> NoRow] EXCEPT ![q4] = Appointment(q4, s),
                                                   ![p] = Appointment(p, t)]
       /\ req = [[q \in Request |-> NoRow] EXCEPT ![q4] = Booking(s),
                                                  ![p] = Booking(t)]
       /\ before = {<<q4, p>>}
  /\ faults = 0

\* Two edits of the second appointment can mix to a range that clashes with
\* the first (0 to 4), or to one that ends before it starts.
MCInit ==
  /\ invocations = {}
  /\ Empty \/ Booked(From(1, 2), From(2, 3)) \/ Booked(From(3, 4), From(0, 3))

MCSpec == MCInit /\ [][Next]_vars

=============================================================================
