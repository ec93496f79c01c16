---------------------------- MODULE BookingProofs ----------------------------
(***************************************************************************)
(* Proofs about Booking, for any number of calls, slots and requests.      *)
(*                                                                         *)
(* A request that has passed its check holds a slot that nothing clashes   *)
(* with but what was written since, hence by a request that was handled at *)
(* the same time.  Its UPDATE leaves the row at that slot unless another   *)
(* request has changed the row since it was read again, and that one was   *)
(* handled at the same time too.  The two give NoDoubleBooking.            *)
(* WrittenOnce rests on what an earlier request has left, which stays      *)
(* there: later ones of the call never get past the places where they look *)
(* for it.                                                                 *)
(***************************************************************************)
EXTENDS Booking, TLAPS

-----------------------------------------------------------------------------
\* The inductive invariant.

\* The stages of each kind, and the rows edits start from.
Proper(q) ==
  /\ req[q].kind \in Tool =>
       /\ req[q].call \in Call /\ req[q].what = req[q].kind /\ req[q].of = NoRow
       /\ req[q].stage \in {"key", "session", "check", "write", "store", "done"}
  /\ req[q].kind = "extract" =>
       /\ req[q].of = NoRow
       /\ req[q].stage \in {"bind", "existing", "check", "write", "done"}
  /\ req[q].kind = "book" =>
       req[q].of = NoRow /\ req[q].stage \in {"check", "write", "done"}
  /\ req[q].kind \in {"edit", "cancel"} =>
       /\ req[q].of \in Request /\ rows[req[q].of] # NoRow
       /\ req[q].what = rows[req[q].of].what
       /\ req[q].stage \in {"read", "check", "save", "flush", "done"}
  /\ req[q].kind = "cancel" => req[q].drop /\ req[q].stage # "check"

Course == \A q \in Request : req[q] # NoRow => Proper(q)

Past == \A p, q \in Request : <<p, q>> \in before => Over(p) /\ req[q] # NoRow

\* Who has a row, what it says of its request, and what is known before.
HasRow(q) ==
  /\ req[q] # NoRow /\ req[q].stage \in {"store", "done"}
  /\ req[rows[q].by] # NoRow /\ req[rows[q].by].stage \in {"store", "done"}
  /\ req[q].linked => rows[q].record = req[q].call
  /\ req[q].kind \in Tool => rows[q].what = req[q].kind

Written ==
  /\ \A q \in Request : rows[q] # NoRow => HasRow(q)
  /\ \A q \in Request : req[q] # NoRow =>
       /\ req[q].stage # "done" => req[q].heard = "none"
       /\ req[q].stage \notin {"store", "done"} => req[q].status = "ok"
       /\ req[q].stage = "store" => (req[q].status = "ok" <=> rows[q] # NoRow)

Log ==
  \A i \in invocations :
    /\ Over(i.row) /\ req[i.row].kind = i.tool /\ req[i.row].call = i.call
    /\ i.status = "ok" => rows[i.row] # NoRow

\* A request that is about to write a held appointment.
Passed(q) ==
  \/ At(q, "write") /\ req[q].what = "appointment"
  \/ /\ At(q, "save") \/ At(q, "flush")
     /\ req[q].kind = "edit" /\ req[q].what = "appointment"

Guarded ==
  \A q \in Request : Passed(q) =>
    \A p \in Conflicts(q) : Overlapped(rows[p].by, q)

\* The columns that q does not write are as q wants them.
Agrees(q, row) ==
  /\ "start" \in req[q].diff \/ row.slot.start = req[q].slot.start
  /\ "end" \in req[q].diff \/ row.slot.end = req[q].slot.end
  /\ "held" \in req[q].diff \/ row.held = ~req[q].drop

Steady ==
  \A q \in Request :
    At(q, "flush") => \/ Agrees(q, rows[req[q].of])
                      \/ Contended(req[q].of, q)

\* A cancellation of the row of q that was handled at the same time is over.
CancelledMeanwhile(q) ==
  \E x \in Request : /\ Over(x) /\ req[x].of = req[q].of /\ req[x].drop
                     /\ Overlapped(x, q)

\* An edit of an appointment that is under way.
Edits(q) == /\ At(q, "check") \/ At(q, "save") \/ At(q, "flush")
            /\ req[q].kind = "edit" /\ req[q].what = "appointment"

Undone ==
  \A q \in Request :
    Edits(q) => rows[req[q].of].held \/ CancelledMeanwhile(q)

\* An earlier request whose row a later one of the call can find.
Before(p, q) ==
  /\ <<p, q>> \in before /\ rows[p] # NoRow
  /\ req[p].kind \in Tool \cup {"extract"}
  /\ req[p].call = req[q].call /\ VisibleTo(p, q)

Kept ==
  \A p, q \in Request : Before(p, q) =>
    /\ rows[q] = NoRow
    /\ req[q].stage \in {"key", "session", "bind", "existing", "done"}
    /\ Recorded(p) => req[q].stage # "existing"

IInv == /\ TypeOK /\ Course /\ Past /\ Written /\ Log
        /\ Guarded /\ Steady /\ Undone /\ NoDoubleBooking
        /\ Kept /\ AnswersTrue

LEMMA InitIInv == Init => IInv
<1>. SUFFICES ASSUME Init PROVE IInv
  OBVIOUS
<1>. USE DEF Init
<1>1. TypeOK
  BY BookingAssumption DEF TypeOK
<1>2. Course /\ Past /\ Written /\ Log
  BY DEF Course, Past, Written, Log
<1>3. /\ Guarded /\ Steady /\ Undone /\ NoDoubleBooking
      /\ Kept /\ AnswersTrue
  BY DEF Guarded, Passed, At, Steady, Undone, Edits, NoDoubleBooking, Kept, Before,
         AnswersTrue
<1>. QED  BY <1>1, <1>2, <1>3 DEF IInv

-----------------------------------------------------------------------------
\* What a step does to its request.

Fixed(q) ==
  /\ req'[q].kind = req[q].kind /\ req'[q].call = req[q].call
  /\ req'[q].linked = req[q].linked
  /\ req'[q].of = req[q].of /\ req'[q].drop = req[q].drop

Moves(q) == /\ req[q] \in Req /\ ~Over(q)
            /\ req' = [req EXCEPT ![q] = req'[q]] /\ req'[q] \in Req
            /\ Fixed(q)

LEMMA IsReq ==
  ASSUME TypeOK, NEW q \in Request, NEW stage, At(q, stage)
  PROVE  req[q] \in Req /\ req[q].stage = stage
BY DEF TypeOK, At

\* A request is replaced by a record that agrees with it in what is fixed.
LEMMA Moving ==
  ASSUME TypeOK, NEW q \in Request, req[q] \in Req, ~Over(q), NEW new \in Req,
         req' = [req EXCEPT ![q] = new],
         new.kind = req[q].kind, new.call = req[q].call, new.linked = req[q].linked,
         new.of = req[q].of, new.drop = req[q].drop
  PROVE  Moves(q) /\ req'[q] = new
BY DEF TypeOK, Moves, Fixed

Same(q) == /\ req'[q].slot = req[q].slot /\ req'[q].what = req[q].what
           /\ req'[q].diff = req[q].diff

LEMMA GoEffect ==
  ASSUME TypeOK, NEW q \in Request, req[q] \in Req, ~Over(q),
         NEW stage \in Stage, Go(q, stage)
  PROVE  /\ Moves(q) /\ Same(q) /\ req'[q].stage = stage
         /\ req'[q].status = req[q].status /\ req'[q].heard = req[q].heard
<1>. DEFINE new == [req[q] EXCEPT !.stage = stage]
<1>1. /\ new \in Req /\ new.stage = stage /\ new.diff = req[q].diff
      /\ new.what = req[q].what /\ new.status = req[q].status /\ new.heard = req[q].heard
      /\ new.kind = req[q].kind /\ new.call = req[q].call /\ new.linked = req[q].linked
      /\ new.slot = req[q].slot /\ new.of = req[q].of /\ new.drop = req[q].drop
  BY DEF Req
<1>2. req' = [req EXCEPT ![q] = new]
  BY DEF Go
<1>. HIDE DEF new
<1>. QED  BY <1>1, <1>2, Moving DEF Same

LEMMA AnswerEffect ==
  ASSUME TypeOK, NEW q \in Request, req[q] \in Req, ~Over(q),
         NEW a \in {"ok", "error", "lost"}, Answer(q, a)
  PROVE  /\ Moves(q) /\ Same(q) /\ req'[q].stage = "done"
         /\ req'[q].status = req[q].status /\ req'[q].heard \in {a, "lost"}
<1>1. PICK heard \in {a, "lost"} : req' = [req EXCEPT ![q].stage = "done", ![q].heard = heard]
  BY DEF Answer
<1>. DEFINE new == [req[q] EXCEPT !.stage = "done", !.heard = heard]
<1>2. /\ new \in Req /\ new.stage = "done" /\ new.diff = req[q].diff
      /\ new.what = req[q].what /\ new.status = req[q].status /\ new.heard = heard
      /\ new.kind = req[q].kind /\ new.call = req[q].call /\ new.linked = req[q].linked
      /\ new.slot = req[q].slot /\ new.of = req[q].of /\ new.drop = req[q].drop
  BY DEF Req, Stage
<1>3. req' = [req EXCEPT ![q] = new]
  BY <1>1 DEF TypeOK
<1>. HIDE DEF new
<1>. QED  BY <1>1, <1>2, <1>3, Moving DEF Same

\* A tool fails and stores that.
FailsTool(q) == req' = [req EXCEPT ![q].stage = "store", ![q].status = "error"]

LEMMA FailsToolEffect ==
  ASSUME TypeOK, NEW q \in Request, req[q] \in Req, ~Over(q), FailsTool(q)
  PROVE  /\ Moves(q) /\ Same(q) /\ req'[q].stage = "store"
         /\ req'[q].status = "error" /\ req'[q].heard = req[q].heard
<1>. DEFINE new == [req[q] EXCEPT !.stage = "store", !.status = "error"]
<1>1. /\ new \in Req /\ new.stage = "store" /\ new.diff = req[q].diff
      /\ new.what = req[q].what /\ new.status = "error" /\ new.heard = req[q].heard
      /\ new.kind = req[q].kind /\ new.call = req[q].call /\ new.linked = req[q].linked
      /\ new.slot = req[q].slot /\ new.of = req[q].of /\ new.drop = req[q].drop
  BY DEF Req, Stage
<1>2. req' = [req EXCEPT ![q] = new]
  BY DEF TypeOK, FailsTool
<1>. HIDE DEF new
<1>. QED  BY <1>1, <1>2, Moving DEF Same

\* An extraction whose slot is taken asks for a call back.
FallsBack(q) == req' = [req EXCEPT ![q].stage = "write", ![q].what = "callback"]

LEMMA FallsBackEffect ==
  ASSUME TypeOK, NEW q \in Request, req[q] \in Req, ~Over(q), FallsBack(q)
  PROVE  /\ Moves(q) /\ req'[q].what = "callback" /\ req'[q].stage = "write"
         /\ req'[q].status = req[q].status /\ req'[q].heard = req[q].heard
<1>. DEFINE new == [req[q] EXCEPT !.stage = "write", !.what = "callback"]
<1>1. /\ new \in Req /\ new.stage = "write" /\ new.diff = req[q].diff
      /\ new.what = "callback" /\ new.status = req[q].status /\ new.heard = req[q].heard
      /\ new.kind = req[q].kind /\ new.call = req[q].call /\ new.linked = req[q].linked
      /\ new.slot = req[q].slot /\ new.of = req[q].of /\ new.drop = req[q].drop
  BY DEF Req, Stage, Tool
<1>2. req' = [req EXCEPT ![q] = new]
  BY DEF TypeOK, FallsBack
<1>. HIDE DEF new
<1>. QED  BY <1>1, <1>2, Moving

\* An edit goes on with the slot it will save.
Goes(q, slot, stage) == req' = [req EXCEPT ![q].slot = slot, ![q].stage = stage]

LEMMA GoesEffect ==
  ASSUME TypeOK, NEW q \in Request, req[q] \in Req, ~Over(q),
         NEW slot \in TimeRange, NEW stage \in Stage, Goes(q, slot, stage)
  PROVE  /\ Moves(q) /\ req'[q].slot = slot /\ req'[q].what = req[q].what
         /\ req'[q].stage = stage
         /\ req'[q].status = req[q].status /\ req'[q].heard = req[q].heard
<1>. DEFINE new == [req[q] EXCEPT !.slot = slot, !.stage = stage]
<1>1. /\ new \in Req /\ new.stage = stage /\ new.slot = slot
      /\ new.what = req[q].what /\ new.status = req[q].status /\ new.heard = req[q].heard
      /\ new.kind = req[q].kind /\ new.call = req[q].call /\ new.linked = req[q].linked
      /\ new.of = req[q].of /\ new.drop = req[q].drop
  BY DEF Req
<1>2. req' = [req EXCEPT ![q] = new]
  BY DEF TypeOK, Goes
<1>. HIDE DEF new
<1>. QED  BY <1>1, <1>2, Moving

\* A save knows what its UPDATE will carry.
Carries(q, diff) == req' = [req EXCEPT ![q].stage = "flush", ![q].diff = diff]

LEMMA CarriesEffect ==
  ASSUME TypeOK, NEW q \in Request, req[q] \in Req, ~Over(q),
         NEW diff \in SUBSET Column, Carries(q, diff)
  PROVE  /\ Moves(q) /\ req'[q].diff = diff /\ req'[q].what = req[q].what
         /\ req'[q].slot = req[q].slot /\ req'[q].stage = "flush"
         /\ req'[q].status = req[q].status /\ req'[q].heard = req[q].heard
<1>. DEFINE new == [req[q] EXCEPT !.stage = "flush", !.diff = diff]
<1>1. /\ new \in Req /\ new.stage = "flush" /\ new.diff = diff /\ new.slot = req[q].slot
      /\ new.what = req[q].what /\ new.status = req[q].status /\ new.heard = req[q].heard
      /\ new.kind = req[q].kind /\ new.call = req[q].call /\ new.linked = req[q].linked
      /\ new.of = req[q].of /\ new.drop = req[q].drop
  BY DEF Req, Stage
<1>2. req' = [req EXCEPT ![q] = new]
  BY DEF TypeOK, Carries
<1>. HIDE DEF new
<1>. QED  BY <1>1, <1>2, Moving

-----------------------------------------------------------------------------
\* What each action does.

Tables == UNCHANGED <<rows, invocations>>

LEMMA FindKeyEffect ==
  ASSUME TypeOK, NEW q \in Request, FindKey(q)
  PROVE  /\ At(q, "key") /\ Moves(q) /\ Same(q) /\ Tables /\ UNCHANGED <<before, faults>>
         /\ req'[q].status = req[q].status
         /\ \/ /\ req'[q].stage = "session" /\ req'[q].heard = req[q].heard
            \/ /\ req'[q].stage = "done"
               /\ req'[q].heard = "lost" \/ \E i \in OfKey(q) : req'[q].heard = i.status
<1>1. At(q, "key") /\ UNCHANGED <<rows, invocations, before, faults>>
  BY DEF FindKey
<1>2. req[q] \in Req /\ ~Over(q)
  BY <1>1, IsReq DEF At, Over
<1>3. CASE Go(q, "session")
  BY <1>1, <1>2, <1>3, GoEffect DEF Stage, Tables
<1>4. CASE \E i \in OfKey(q) : Answer(q, i.status)
  <2>1. PICK i \in OfKey(q) : Answer(q, i.status)
    BY <1>4
  <2>2. i.status \in {"ok", "error"}
    BY DEF TypeOK, OfKey
  <2>. QED  BY <1>1, <1>2, <2>1, <2>2, AnswerEffect DEF Tables
<1>. QED  BY <1>3, <1>4 DEF FindKey

LEMMA FindSessionEffect ==
  ASSUME TypeOK, NEW q \in Request, FindSession(q)
  PROVE  /\ At(q, "session") /\ Moves(q) /\ Same(q) /\ Tables /\ UNCHANGED <<before, faults>>
         /\ \/ /\ Writes(q) # {} /\ req'[q].stage = "done"
               /\ req'[q].heard \in {"ok", "lost"} /\ req'[q].status = req[q].status
            \/ /\ Writes(q) = {} /\ req'[q].heard = req[q].heard
               /\ req'[q].stage = IF req[q].kind = "appointment" THEN "check" ELSE "write"
               /\ req'[q].status = req[q].status
            \/ /\ Writes(q) = {} /\ req'[q].heard = req[q].heard
               /\ req'[q].stage = "store" /\ req'[q].status = "error"
<1>1. At(q, "session") /\ UNCHANGED <<rows, invocations, before, faults>>
  BY DEF FindSession
<1>2. req[q] \in Req /\ ~Over(q)
  BY <1>1, IsReq DEF At, Over
<1>3. CASE Writes(q) # {} /\ Answer(q, "ok")
  BY <1>1, <1>2, <1>3, AnswerEffect DEF Tables
<1>4. CASE Writes(q) = {} /\ Go(q, IF req[q].kind = "appointment" THEN "check" ELSE "write")
  BY <1>1, <1>2, <1>4, GoEffect DEF Tables, Stage
<1>5. CASE Writes(q) = {} /\ FailsTool(q)
  BY <1>1, <1>2, <1>5, FailsToolEffect DEF Tables
<1>. QED  BY <1>3, <1>4, <1>5 DEF FindSession, FailsTool

LEMMA CheckEffect ==
  ASSUME TypeOK, NEW q \in Request, Check(q)
  PROVE  /\ At(q, "check") /\ Moves(q) /\ Tables /\ UNCHANGED <<before, faults>>
         /\ \/ /\ Conflicts(q) = {} /\ Same(q) /\ req'[q].heard = req[q].heard
               /\ req'[q].stage = IF req[q].kind = "edit" THEN "save" ELSE "write"
               /\ req'[q].status = req[q].status
            \/ /\ req[q].kind = "appointment" /\ Same(q) /\ req'[q].heard = req[q].heard
               /\ req'[q].stage = "store" /\ req'[q].status = "error"
            \/ /\ req[q].kind = "extract" /\ req'[q].heard = req[q].heard
               /\ req'[q].what = "callback"
               /\ req'[q].stage = "write" /\ req'[q].status = req[q].status
            \/ /\ req[q].kind \notin {"appointment", "extract"} /\ Same(q)
               /\ req'[q].stage = "done" /\ req'[q].status = req[q].status
               /\ req'[q].heard \in {"error", "lost"}
<1>1. At(q, "check") /\ UNCHANGED <<rows, invocations, before, faults>>
  BY DEF Check
<1>2. req[q] \in Req /\ ~Over(q)
  BY <1>1, IsReq DEF At, Over
<1>3. CASE Conflicts(q) = {} /\ Go(q, IF req[q].kind = "edit" THEN "save" ELSE "write")
  BY <1>1, <1>2, <1>3, GoEffect DEF Tables, Stage, Same
<1>4. CASE Refuse(q)
  <2>1. CASE req[q].kind = "appointment"
    <3>1. FailsTool(q)
      BY <1>4, <2>1 DEF Refuse, FailsTool
    <3>. QED  BY <1>1, <1>2, <2>1, <3>1, FailsToolEffect DEF Tables, Same
  <2>2. CASE req[q].kind = "extract"
    <3>1. FallsBack(q)
      BY <1>4, <2>2 DEF Refuse, FallsBack
    <3>. QED  BY <1>1, <1>2, <2>2, <3>1, FallsBackEffect DEF Tables
  <2>3. CASE req[q].kind \notin {"appointment", "extract"}
    <3>1. Answer(q, "error")
      BY <1>4, <2>3 DEF Refuse
    <3>. QED  BY <1>1, <1>2, <2>3, <3>1, AnswerEffect DEF Tables, Same
  <2>. QED  BY <2>1, <2>2, <2>3
<1>. QED  BY <1>3, <1>4 DEF Check

NewRow(q) == [what |-> req[q].what, slot |-> req[q].slot, held |-> TRUE,
              record |-> RecordOf(q), by |-> q]

LEMMA WriteEffect ==
  ASSUME TypeOK, NEW q \in Request, Write(q)
  PROVE  /\ At(q, "write") /\ Moves(q) /\ Same(q) /\ UNCHANGED <<invocations, before, faults>>
         /\ rows' = [rows EXCEPT ![q] = NewRow(q)] /\ NewRow(q) \in Row
         /\ req'[q].status = req[q].status
         /\ IF req[q].kind \in Tool
            THEN req'[q].stage = "store" /\ req'[q].heard = req[q].heard
            ELSE req'[q].stage = "done"
<1>1. /\ At(q, "write") /\ UNCHANGED <<invocations, before, faults>>
      /\ rows' = [rows EXCEPT ![q] = NewRow(q)]
  BY DEF Write, NewRow
<1>2. req[q] \in Req /\ ~Over(q)
  BY <1>1, IsReq DEF At, Over
<1>3. NewRow(q) \in Row
  <2>1. req[q].what \in Tool /\ req[q].slot \in TimeRange /\ RecordOf(q) \in Call \cup {NoCall}
    BY <1>2 DEF Req, RecordOf
  <2>. QED  BY <2>1 DEF NewRow, Row
<1>4. CASE req[q].kind \in Tool
  <2>1. Go(q, "store")
    BY <1>4 DEF Write
  <2>. QED  BY <1>1, <1>2, <1>3, <1>4, <2>1, GoEffect DEF Stage
<1>5. CASE req[q].kind \notin Tool
  <2>1. Answer(q, "ok")
    BY <1>5 DEF Write
  <2>. QED  BY <1>1, <1>2, <1>3, <1>5, <2>1, AnswerEffect
<1>. QED  BY <1>4, <1>5

Invocation(q) == [call |-> req[q].call, tool |-> req[q].kind, slot |-> req[q].slot,
                  status |-> req[q].status, row |-> q]

LEMMA StoreEffect ==
  ASSUME TypeOK, NEW q \in Request, Store(q)
  PROVE  /\ At(q, "store") /\ Moves(q) /\ Same(q) /\ UNCHANGED <<rows, before, faults>>
         /\ req'[q].stage = "done" /\ req'[q].status = req[q].status
         /\ \/ /\ req'[q].heard = "lost" /\ UNCHANGED invocations
            \/ /\ req'[q].heard \in {req[q].status, "lost"}
               /\ invocations' = invocations \cup {Invocation(q)}
<1>1. /\ At(q, "store") /\ UNCHANGED <<rows, before, faults>>
  BY DEF Store
<1>2. req[q] \in Req /\ ~Over(q) /\ req[q].status \in {"ok", "error"}
  BY <1>1, IsReq DEF At, Over, Req
<1>3. CASE OfKey(q) # {}
  BY <1>1, <1>2, <1>3, AnswerEffect DEF Store
<1>4. CASE OfKey(q) = {}
  <2>1. Answer(q, req[q].status) /\ invocations' = invocations \cup {Invocation(q)}
    BY <1>4 DEF Store, Invocation
  <2>. QED  BY <1>1, <1>2, <2>1, AnswerEffect
<1>. QED  BY <1>3, <1>4

LEMMA BindEffect ==
  ASSUME TypeOK, NEW q \in Request, Bind(q)
  PROVE  /\ At(q, "bind") /\ Moves(q) /\ Same(q) /\ Tables /\ UNCHANGED <<before, faults>>
         /\ req'[q].status = req[q].status
         /\ \/ req'[q].stage = "done"
            \/ /\ ~\E i \in invocations : i.call = req[q].call /\ i.status = "ok"
               /\ req'[q].stage = "existing" /\ req'[q].heard = req[q].heard
<1>1. At(q, "bind") /\ UNCHANGED <<rows, invocations, before, faults>>
  BY DEF Bind
<1>2. req[q] \in Req /\ ~Over(q)
  BY <1>1, IsReq DEF At, Over
<1>3. CASE \E i \in invocations : i.call = req[q].call /\ i.status = "ok"
  <2>1. Answer(q, "ok")
    BY <1>3 DEF Bind
  <2>. QED  BY <1>1, <1>2, <2>1, AnswerEffect DEF Tables
<1>4. CASE ~\E i \in invocations : i.call = req[q].call /\ i.status = "ok"
  <2>1. Go(q, "existing")
    BY <1>4 DEF Bind
  <2>. QED  BY <1>1, <1>2, <1>4, <2>1, GoEffect DEF Tables, Stage
<1>. QED  BY <1>3, <1>4

LEMMA FindExistingEffect ==
  ASSUME TypeOK, NEW q \in Request, FindExisting(q)
  PROVE  /\ At(q, "existing") /\ Moves(q) /\ Same(q) /\ Tables /\ UNCHANGED <<before, faults>>
         /\ req'[q].status = req[q].status
         /\ \/ req'[q].stage = "done"
            \/ /\ Existing(q) = {} /\ req'[q].heard = req[q].heard
               /\ req'[q].stage = IF req[q].what = "appointment" THEN "check" ELSE "write"
<1>1. At(q, "existing") /\ UNCHANGED <<rows, invocations, before, faults>>
  BY DEF FindExisting
<1>2. req[q] \in Req /\ ~Over(q)
  BY <1>1, IsReq DEF At, Over
<1>3. CASE Existing(q) # {}
  <2>1. Answer(q, "ok")
    BY <1>3 DEF FindExisting
  <2>. QED  BY <1>1, <1>2, <2>1, AnswerEffect DEF Tables
<1>4. CASE Existing(q) = {}
  <2>1. Go(q, IF req[q].what = "appointment" THEN "check" ELSE "write")
    BY <1>4 DEF FindExisting
  <2>. QED  BY <1>1, <1>2, <1>4, <2>1, GoEffect DEF Tables, Stage
<1>. QED  BY <1>3, <1>4

LEMMA MergedIs ==
  ASSUME NEW q \in Request, req[q] \in Req, NEW row \in Row,
         Merged(q, row).start <= Merged(q, row).end
  PROVE  Merged(q, row) \in TimeRange
<1>1. /\ req[q].slot.start \in Time /\ req[q].slot.end \in Time
      /\ row.slot.start \in Time /\ row.slot.end \in Time
  BY DEF Req, Row, TimeRange
<1>. QED  BY <1>1 DEF Merged, TimeRange

LEMMA ReadEffect ==
  ASSUME TypeOK, NEW q \in Request, rows[req[q].of] \in Row, Read(q)
  PROVE  /\ At(q, "read") /\ Moves(q) /\ Tables /\ UNCHANGED <<before, faults>>
         /\ req'[q].what = req[q].what /\ req'[q].status = req[q].status
         /\ LET row == rows[req[q].of] IN
            \/ req'[q].stage = "done"
            \/ /\ MayChange(row, req[q].kind)
               /\ req'[q].stage = IF req[q].kind = "edit" /\ row.what = "appointment"
                                  THEN "check" ELSE "save"
               /\ req'[q].heard = req[q].heard
<1>. DEFINE row == rows[req[q].of]
            slot == Merged(q, row)
            stage == IF req[q].kind = "edit" /\ row.what = "appointment"
                     THEN "check" ELSE "save"
<1>1. At(q, "read") /\ UNCHANGED <<rows, invocations, before, faults>>
  BY DEF Read
<1>2. req[q] \in Req /\ ~Over(q)
  BY <1>1, IsReq DEF At, Over
<1>3. CASE \E a \in {"ok", "error"} : Answer(q, a)
  BY <1>1, <1>2, <1>3, AnswerEffect DEF Tables, Same
<1>4. CASE MayChange(row, req[q].kind) /\ slot.start <= slot.end /\ Goes(q, slot, stage)
  <2>1. stage \in Stage /\ slot \in TimeRange
    BY <1>2, <1>4, MergedIs DEF Stage
  <2>. HIDE DEF row, slot, stage
  <2>2. /\ Moves(q) /\ req'[q].what = req[q].what /\ req'[q].stage = stage
        /\ req'[q].status = req[q].status /\ req'[q].heard = req[q].heard
    BY <1>2, <1>4, <2>1, GoesEffect
  <2>. QED  BY <1>1, <1>4, <2>2 DEF Tables, row, stage
<1>. QED  BY <1>3, <1>4 DEF Read, Goes

LEMMA SaveReadsEffect ==
  ASSUME TypeOK, NEW q \in Request, rows[req[q].of] \in Row, SaveReads(q)
  PROVE  /\ At(q, "save") /\ Moves(q) /\ Tables /\ UNCHANGED <<before, faults>>
         /\ req'[q].slot = req[q].slot /\ req'[q].what = req[q].what
         /\ req'[q].stage = "flush" /\ Differing(q, rows[req[q].of]) \subseteq req'[q].diff
         /\ req'[q].status = req[q].status /\ req'[q].heard = req[q].heard
<1>1. At(q, "save") /\ UNCHANGED <<rows, invocations, before, faults>>
  BY DEF SaveReads
<1>2. req[q] \in Req /\ ~Over(q)
  BY <1>1, IsReq DEF At, Over
<1>3. PICK status \in SUBSET {"held"} :
        Carries(q, Differing(q, rows[req[q].of]) \cup status)
  BY DEF SaveReads, Carries
<1>4. Differing(q, rows[req[q].of]) \cup status \in SUBSET Column
  BY DEF Differing, Column
<1>. QED  BY <1>1, <1>2, <1>3, <1>4, CarriesEffect DEF Tables

\* What an UPDATE makes of a row.
LEMMA UpdatedIs ==
  ASSUME NEW q \in Request, req[q] \in Req, NEW row \in Row,
         NEW new, new = Updated(q, row), new.slot.start <= new.slot.end
  PROVE  /\ new \in Row
         /\ new.what = row.what /\ new.record = row.record
         /\ new.by = IF req[q].diff = {} THEN row.by ELSE q
         /\ new.held = IF "held" \in req[q].diff THEN ~req[q].drop ELSE row.held
         /\ Agrees(q, row) => new.slot = req[q].slot /\ new.held = ~req[q].drop
         /\ req[q].diff = {} => new = row
<1>. DEFINE diff == req[q].diff
<1>1. /\ req[q].slot \in [start: Time, end: Time] /\ req[q].drop \in BOOLEAN
      /\ row.slot \in [start: Time, end: Time] /\ row.held \in BOOLEAN
  BY DEF Req, Row, TimeRange
<1>2. PICK a \in Time : a = IF "start" \in diff THEN req[q].slot.start ELSE row.slot.start
  BY <1>1
<1>3. PICK b \in Time : b = IF "end" \in diff THEN req[q].slot.end ELSE row.slot.end
  BY <1>1
<1>4. PICK h \in BOOLEAN : h = IF "held" \in diff THEN ~req[q].drop ELSE row.held
  BY <1>1
<1>5. PICK y \in Request : y = IF diff = {} THEN row.by ELSE q
  BY DEF Row
<1>6. new = [row EXCEPT !.slot = [start |-> a, end |-> b], !.held = h, !.by = y]
  BY <1>2, <1>3, <1>4, <1>5 DEF Updated
<1>7. /\ new.slot = [start |-> a, end |-> b] /\ new.held = h /\ new.by = y
      /\ new.what = row.what /\ new.record = row.record
  BY <1>6 DEF Row
<1>8. new.slot \in TimeRange
  BY <1>7 DEF TimeRange
<1>9. new \in Row
  BY <1>6, <1>7, <1>8 DEF Row
<1>10. Agrees(q, row) => new.slot = req[q].slot /\ new.held = ~req[q].drop
  BY <1>1, <1>2, <1>3, <1>4, <1>7 DEF Agrees
<1>11. diff = {} => new = row
  <2>1. diff = {} => new.slot = row.slot /\ h = row.held /\ y = row.by
    BY <1>1, <1>2, <1>3, <1>4, <1>5, <1>7
  <2>. QED  BY <1>9, <1>7, <2>1 DEF Row
<1>. QED  BY <1>4, <1>5, <1>7, <1>9, <1>10, <1>11

LEMMA SaveWritesEffect ==
  ASSUME TypeOK, NEW q \in Request, req[q].of \in Request, SaveWrites(q)
  PROVE  /\ At(q, "flush") /\ Moves(q) /\ Same(q) /\ UNCHANGED <<invocations, before, faults>>
         /\ req'[q].stage = "done" /\ req'[q].status = req[q].status
         /\ LET new == Updated(q, rows[req[q].of]) IN
            \/ UNCHANGED rows
            \/ /\ new.slot.start <= new.slot.end
               /\ rows' = [rows EXCEPT ![req[q].of] = new]
<1>1. At(q, "flush") /\ UNCHANGED <<invocations, before, faults>>
  BY DEF SaveWrites
<1>2. req[q] \in Req /\ ~Over(q)
  BY <1>1, IsReq DEF At, Over
<1>3. \E a \in {"ok", "lost"} : Answer(q, a)
  BY DEF SaveWrites
<1>4. \/ UNCHANGED rows
      \/ /\ Updated(q, rows[req[q].of]).slot.start <= Updated(q, rows[req[q].of]).slot.end
         /\ rows' = [rows EXCEPT ![req[q].of] = Updated(q, rows[req[q].of])]
  BY DEF SaveWrites
<1>. QED  BY <1>1, <1>2, <1>3, <1>4, AnswerEffect

LEMMA DiesEffect ==
  ASSUME TypeOK, NEW q \in Request, Dies(q)
  PROVE  /\ Moves(q) /\ Same(q) /\ Tables /\ UNCHANGED before
         /\ req'[q].stage = "done" /\ req'[q].status = req[q].status
         /\ req'[q].heard = "lost" /\ faults' \in 0..MaxFaults
<1>1. /\ req[q] # NoRow /\ ~Over(q) /\ Answer(q, "lost")
      /\ UNCHANGED <<rows, invocations, before>>
      /\ faults < MaxFaults /\ faults' = faults + 1
  BY DEF Dies
<1>2. req[q] \in Req
  BY <1>1 DEF TypeOK
<1>3. faults' \in 0..MaxFaults
  BY <1>1, BookingAssumption DEF TypeOK
<1>. QED  BY <1>1, <1>2, <1>3, AnswerEffect DEF Tables

\* Requests arrive at the first stage of their kind.
First(kind) == CASE kind \in Tool -> "key" [] kind = "extract" -> "bind"
                 [] kind = "book" -> "check" [] OTHER -> "read"

LEMMA ArriveEffect ==
  ASSUME TypeOK, NEW q \in Request, NEW r \in Req, Arrive(q, r)
  PROVE  /\ req' = [req EXCEPT ![q] = r] /\ req'[q] = r
         /\ UNCHANGED <<rows, invocations, faults>>
         /\ before' = before \cup {p \in Request : Over(p)} \X {q}
BY DEF TypeOK, Arrive

LEMMA NewIs ==
  ASSUME NEW kind \in Kind, NEW stage \in Stage, NEW c \in Call \cup {NoCall},
         NEW linked \in BOOLEAN, NEW s \in TimeRange, NEW what \in Tool,
         NEW r, r = New(kind, stage, c, linked, s, what)
  PROVE  /\ r \in Req /\ r.kind = kind /\ r.stage = stage /\ r.call = c
         /\ r.what = what /\ r.of = NoRow /\ r.status = "ok" /\ r.heard = "none"
BY DEF New, Req, Column

LEMMA ChangeIs ==
  ASSUME TypeOK, NEW kind \in {"edit", "cancel"}, NEW p \in Request, rows[p] # NoRow,
         NEW s \in TimeRange, NEW patch \in SUBSET {"start", "end"},
         NEW drop \in BOOLEAN, NEW r, r = Change(kind, p, s, patch, drop)
  PROVE  /\ r \in Req /\ r.kind = kind /\ r.stage = "read" /\ r.of = p /\ r.drop = drop
         /\ r.what = rows[p].what /\ r.status = "ok" /\ r.heard = "none"
<1>1. PICK what \in Tool : what = rows[p].what
  BY DEF TypeOK, Row
<1>2. r = [New(kind, "read", NoCall, FALSE, s, what)
             EXCEPT !.of = p, !.patch = patch, !.drop = drop]
  BY <1>1 DEF Change
<1>. QED  BY <1>1, <1>2 DEF New, Req, Kind, Stage, Column

\* What a request is when it arrives.
Arrived(r) ==
  /\ r.stage = First(r.kind) /\ r.status = "ok" /\ r.heard = "none"
  /\ r.kind \in Tool => r.call \in Call /\ r.what = r.kind /\ r.of = NoRow
  /\ r.kind \in {"extract", "book"} => r.of = NoRow
  /\ r.kind \in {"edit", "cancel"} =>
       r.of \in Request /\ rows[r.of] # NoRow /\ r.what = rows[r.of].what
  /\ r.kind = "cancel" => r.drop

LEMMA ArrivesEffect ==
  ASSUME TypeOK, NEW q \in Request, Arrives(q)
  PROVE  req[q] = NoRow /\ \E r \in Req : Arrive(q, r) /\ Arrived(r)
<1>. USE DEF First, Tool, Arrived
<1>0. req[q] = NoRow /\ Slot \subseteq TimeRange
  BY BookingAssumption DEF Arrives
<1>1. CASE \E c \in Call, linked \in BOOLEAN, t \in Tool, s \in Slot :
             ToolCalled(q, c, linked, t, s)
  <2>1. PICK c \in Call, linked \in BOOLEAN, t \in Tool, s \in Slot :
          ToolCalled(q, c, linked, t, s)
    BY <1>1
  <2>2. PICK r : r = New(t, "key", c, linked, s, t)
    OBVIOUS
  <2>3. /\ r \in Req /\ r.stage = "key" /\ r.kind = t /\ r.call = c
        /\ r.what = t /\ r.of = NoRow /\ r.status = "ok" /\ r.heard = "none"
    BY <1>0, <2>2, NewIs DEF Kind, Stage
  <2>4. Arrive(q, r)
    BY <2>1, <2>2 DEF ToolCalled
  <2>. QED  BY <1>0, <2>3, <2>4
<1>2. CASE \E c \in Call, t \in Tool, s \in Slot : ExtractAsked(q, c, t, s)
  <2>1. PICK c \in Call, t \in Tool, s \in Slot : ExtractAsked(q, c, t, s)
    BY <1>2
  <2>2. PICK r : r = New("extract", "bind", c, TRUE, s, t)
    OBVIOUS
  <2>3. /\ r \in Req /\ r.stage = "bind" /\ r.kind = "extract"
        /\ r.of = NoRow /\ r.status = "ok" /\ r.heard = "none"
    <3>1. PICK linked \in BOOLEAN : linked = TRUE
      OBVIOUS
    <3>2. r = New("extract", "bind", c, linked, s, t)
      BY <2>2, <3>1
    <3>. QED  BY <1>0, <3>2, NewIs DEF Kind, Stage
  <2>4. Arrive(q, r)
    BY <2>1, <2>2 DEF ExtractAsked
  <2>. QED  BY <1>0, <2>3, <2>4
<1>3. CASE \E s \in Slot : StaffBooks(q, s)
  <2>1. PICK s \in Slot : StaffBooks(q, s)
    BY <1>3
  <2>2. PICK r : r = New("book", "check", NoCall, FALSE, s, "appointment")
    OBVIOUS
  <2>3. /\ r \in Req /\ r.stage = "check" /\ r.kind = "book"
        /\ r.of = NoRow /\ r.status = "ok" /\ r.heard = "none"
    <3>1. PICK linked \in BOOLEAN : linked = FALSE
      OBVIOUS
    <3>2. r = New("book", "check", NoCall, linked, s, "appointment")
      BY <2>2, <3>1
    <3>. QED  BY <1>0, <3>2, NewIs DEF Kind, Stage
  <2>4. Arrive(q, r)
    BY <2>1, <2>2 DEF StaffBooks
  <2>. QED  BY <1>0, <2>3, <2>4
<1>4. CASE \E p \in Request, s \in Slot, patch \in SUBSET {"start", "end"},
             drop \in BOOLEAN : StaffEdits(q, p, s, patch, drop)
  <2>1. PICK p \in Request, s \in Slot, patch \in SUBSET {"start", "end"},
             drop \in BOOLEAN : StaffEdits(q, p, s, patch, drop)
    BY <1>4
  <2>2. PICK r : r = Change("edit", p, s, patch, drop)
    OBVIOUS
  <2>3. Arrive(q, r) /\ rows[p] # NoRow
    BY <2>1, <2>2 DEF StaffEdits
  <2>4. /\ r \in Req /\ r.kind = "edit" /\ r.stage = "read" /\ r.of = p
        /\ r.what = rows[p].what /\ r.status = "ok" /\ r.heard = "none"
    BY <1>0, <2>2, <2>3, ChangeIs
  <2>. QED  BY <1>0, <2>3, <2>4
<1>5. CASE \E p \in Request : StaffCancels(q, p)
  <2>1. PICK p \in Request : StaffCancels(q, p)
    BY <1>5
  <2>2. PICK r : r = Change("cancel", p, rows[p].slot, {}, TRUE)
    OBVIOUS
  <2>3. Arrive(q, r) /\ rows[p] # NoRow /\ rows[p].slot \in TimeRange
    BY <2>1, <2>2 DEF StaffCancels, TypeOK, Row
  <2>4. /\ r \in Req /\ r.kind = "cancel" /\ r.stage = "read" /\ r.of = p /\ r.drop
        /\ r.what = rows[p].what /\ r.status = "ok" /\ r.heard = "none"
    <3>1. PICK drop \in BOOLEAN : drop = TRUE
      OBVIOUS
    <3>2. r = Change("cancel", p, rows[p].slot, {}, drop)
      BY <2>2, <3>1
    <3>3. PICK patch \in SUBSET {"start", "end"} : patch = {}
      OBVIOUS
    <3>4. PICK s \in TimeRange : s = rows[p].slot
      BY <2>3
    <3>5. r = Change("cancel", p, s, patch, drop)
      BY <3>2, <3>3, <3>4
    <3>6. /\ r \in Req /\ r.kind = "cancel" /\ r.stage = "read" /\ r.of = p
          /\ r.drop = drop /\ r.what = rows[p].what /\ r.status = "ok" /\ r.heard = "none"
      BY <2>3, <3>5, ChangeIs
    <3>. QED  BY <3>1, <3>6
  <2>. QED  BY <1>0, <2>3, <2>4
<1>. QED  BY <1>1, <1>2, <1>3, <1>4, <1>5 DEF Arrives

-----------------------------------------------------------------------------
\* What all steps have in common.

Reads(q) == \/ FindKey(q) \/ FindSession(q) \/ Check(q) \/ Bind(q)
            \/ FindExisting(q) \/ Read(q) \/ SaveReads(q) \/ Dies(q)

Works(q) == Reads(q) \/ Write(q) \/ SaveWrites(q) \/ Store(q)

LEMMA Steps ==
  ASSUME [Next]_vars
  PROVE  (\E q \in Request : Arrives(q) \/ Works(q)) \/ UNCHANGED vars
BY DEF Next, Handles, Works, Reads

\* Edits and cancellations have a row.
LEMMA AtSave ==
  ASSUME TypeOK, Course, NEW q \in Request,
         At(q, "read") \/ At(q, "save") \/ At(q, "flush")
  PROVE  /\ req[q].kind \in {"edit", "cancel"} /\ req[q] \in Req
         /\ req[q].of \in Request /\ rows[req[q].of] \in Row
         /\ req[q].what = rows[req[q].of].what
         /\ req[q].kind = "cancel" => req[q].drop
<1>1. req[q] \in Req /\ req[q].stage \in {"read", "save", "flush"} /\ Proper(q)
  BY IsReq DEF Course, At
<1>2. req[q].kind \in Kind
  BY <1>1 DEF Req
<1>. QED  BY <1>1, <1>2 DEF Proper, Kind, TypeOK

\* Reading changes the request.
LEMMA ReadsOnly ==
  ASSUME TypeOK, Course, NEW q \in Request, Reads(q)
  PROVE  Moves(q) /\ Tables /\ before' = before /\ faults' \in 0..MaxFaults
<1>1. CASE Read(q) \/ SaveReads(q)
  <2>1. rows[req[q].of] \in Row
    BY <1>1, AtSave DEF Read, SaveReads
  <2>. QED  BY <1>1, <2>1, ReadEffect, SaveReadsEffect DEF TypeOK
<1>2. CASE Dies(q)
  BY <1>2, DiesEffect
<1>3. CASE FindKey(q) \/ FindSession(q)
  BY <1>3, FindKeyEffect, FindSessionEffect DEF TypeOK
<1>4. CASE Check(q) \/ Bind(q) \/ FindExisting(q)
  BY <1>4, CheckEffect, BindEffect, FindExistingEffect DEF TypeOK
<1>. QED  BY <1>1, <1>2, <1>3, <1>4 DEF Reads

LEMMA WorksMoves ==
  ASSUME TypeOK, Course, NEW q \in Request, Works(q)
  PROVE  /\ Moves(q) /\ before' = before /\ faults' \in 0..MaxFaults
         /\ req' \in [Request -> Req \cup {NoRow}]
         /\ req[q] # NoRow /\ req'[q] # NoRow
         /\ \A p \in Request \ {q} : req'[p] = req[p]
<1>1. Moves(q) /\ before' = before /\ faults' \in 0..MaxFaults
  <2>1. CASE Reads(q)
    BY <2>1, ReadsOnly
  <2>2. CASE SaveWrites(q)
    <3>1. req[q].of \in Request
      BY <2>2, AtSave DEF SaveWrites
    <3>. QED  BY <2>2, <3>1, SaveWritesEffect DEF TypeOK
  <2>3. CASE Write(q) \/ Store(q)
    BY <2>3, WriteEffect, StoreEffect DEF TypeOK
  <2>. QED  BY <2>1, <2>2, <2>3 DEF Works
<1>. QED  BY <1>1, BookingAssumption DEF Moves, TypeOK

\* All an UPDATE does is to assign columns of the row.
LEMMA WritesBack ==
  ASSUME TypeOK, Course, NEW q \in Request, SaveWrites(q)
  PROVE  /\ At(q, "flush") /\ Same(q) /\ req[q] \in Req
         /\ req[q].kind \in {"edit", "cancel"}
         /\ req[q].kind = "cancel" => req[q].drop
         /\ req'[q].stage = "done" /\ req'[q].status = req[q].status
         /\ UNCHANGED <<invocations, before, faults>>
         /\ \A p \in Request \ {req[q].of} : rows'[p] = rows[p]
         /\ LET p == req[q].of IN
              /\ p \in Request /\ rows[p] \in Row /\ rows'[p] \in Row
              /\ req[q].what = rows[p].what
              /\ rows'[p].what = rows[p].what /\ rows'[p].record = rows[p].record
              /\ rows' = rows \/ rows' = [rows EXCEPT ![p] = rows'[p]]
              /\ rows'[p] # rows[p] =>
                   /\ rows'[p].by = q
                   /\ rows'[p].held # rows[p].held => rows'[p].held = ~req[q].drop
                   /\ Agrees(q, rows[p]) =>
                        rows'[p].slot = req[q].slot /\ rows'[p].held = ~req[q].drop
<1>. DEFINE p == req[q].of
            row == rows[p]
            new == Updated(q, row)
<1>1. /\ At(q, "flush") /\ p \in Request /\ row \in Row /\ req[q] \in Req
      /\ req[q].kind \in {"edit", "cancel"}
      /\ req[q].kind = "cancel" => req[q].drop
      /\ req[q].what = row.what
  BY AtSave DEF SaveWrites
<1>2. /\ Same(q) /\ UNCHANGED <<invocations, before, faults>>
      /\ req'[q].stage = "done" /\ req'[q].status = req[q].status
      /\ \/ UNCHANGED rows
         \/ new.slot.start <= new.slot.end /\ rows' = [rows EXCEPT ![p] = new]
  BY <1>1, SaveWritesEffect
<1>3. CASE UNCHANGED rows
  BY <1>1, <1>2, <1>3
<1>4. CASE new.slot.start <= new.slot.end /\ rows' = [rows EXCEPT ![p] = new]
  <2>1. PICK n : n = new
    OBVIOUS
  <2>2. /\ n \in Row /\ n.what = row.what /\ n.record = row.record
        /\ n.by = IF req[q].diff = {} THEN row.by ELSE q
        /\ n.held = IF "held" \in req[q].diff THEN ~req[q].drop ELSE row.held
        /\ Agrees(q, row) => n.slot = req[q].slot /\ n.held = ~req[q].drop
        /\ req[q].diff = {} => n = row
    BY <1>1, <1>4, <2>1, UpdatedIs
  <2>3. rows' = [rows EXCEPT ![p] = n] /\ rows'[p] = n
    BY <1>1, <1>4, <2>1 DEF TypeOK
  <2>4. \A r \in Request \ {p} : rows'[r] = rows[r]
    BY <2>3 DEF TypeOK
  <2>. HIDE DEF new
  <2>. QED  BY <1>1, <1>2, <2>2, <2>3, <2>4
<1>. QED  BY <1>2, <1>3, <1>4

\* A row never goes, nor changes what it is of; a new one is the request's.
LEMMA RowsStay ==
  ASSUME TypeOK, Course, Written, NEW q \in Request, Works(q)
  PROVE  /\ rows' \in [Request -> Row \cup {NoRow}]
         /\ \A p \in Request : rows[p] # NoRow =>
              /\ rows'[p] # NoRow
              /\ rows'[p].what = rows[p].what /\ rows'[p].record = rows[p].record
         /\ \A p \in Request : rows[p] = NoRow /\ rows'[p] # NoRow => p = q /\ Write(q)
<1>1. CASE Reads(q) \/ Store(q)
  BY <1>1, ReadsOnly, StoreEffect DEF Tables, TypeOK
<1>2. CASE Write(q)
  <2>1. /\ At(q, "write") /\ rows' = [rows EXCEPT ![q] = NewRow(q)] /\ NewRow(q) \in Row
    BY <1>2, WriteEffect
  <2>2. rows[q] = NoRow
    BY <2>1 DEF Written, HasRow, At
  <2>. QED  BY <1>2, <2>1, <2>2 DEF TypeOK
<1>3. CASE SaveWrites(q)
  BY <1>3, WritesBack, BookingAssumption DEF TypeOK
<1>. QED  BY <1>1, <1>2, <1>3 DEF Works

\* What was over stays over, as it was.
LEMMA OverStays ==
  ASSUME TypeOK, Course, NEW q \in Request, Works(q), NEW p \in Request, Over(p)
  PROVE  p # q /\ req'[p] = req[p] /\ Over(p)'
BY WorksMoves DEF Moves, Over, At

-----------------------------------------------------------------------------
\* TypeOK, Course and Past.

LEMMA WorksTypeOK ==
  ASSUME TypeOK, Course, Written, NEW q \in Request, Works(q)
  PROVE  TypeOK'
<1>1. /\ before' = before /\ faults' \in 0..MaxFaults
      /\ req' \in [Request -> Req \cup {NoRow}]
      /\ rows' \in [Request -> Row \cup {NoRow}]
  BY WorksMoves, RowsStay
<1>2. CASE Store(q)
  <2>1. UNCHANGED invocations \/ invocations' = invocations \cup {Invocation(q)}
    BY <1>2, StoreEffect
  <2>2. Invocation(q) \in [call: Call, tool: Tool, slot: TimeRange,
                           status: {"ok", "error"}, row: Request]
    <3>1. req[q] \in Req /\ req[q].stage = "store" /\ Proper(q)
      BY <1>2, StoreEffect, IsReq DEF Course, At
    <3>2. req[q].kind \in Kind /\ req[q].slot \in TimeRange /\ req[q].status \in {"ok", "error"}
      BY <3>1 DEF Req
    <3>3. req[q].kind \in Tool /\ req[q].call \in Call
      BY <3>1, <3>2 DEF Proper, Kind
    <3>. QED  BY <3>2, <3>3 DEF Invocation
  <2>. QED  BY <1>1, <2>1, <2>2 DEF TypeOK
<1>3. CASE Reads(q) \/ Write(q) \/ SaveWrites(q)
  BY <1>1, <1>3, ReadsOnly, WriteEffect, WritesBack DEF Tables, TypeOK
<1>. QED  BY <1>2, <1>3 DEF Works

LEMMA ArrivesTypeOK ==
  ASSUME TypeOK, NEW q \in Request, Arrives(q)
  PROVE  TypeOK'
<1>1. PICK r \in Req : Arrive(q, r)
  BY ArrivesEffect
<1>2. /\ req' = [req EXCEPT ![q] = r] /\ UNCHANGED <<rows, invocations, faults>>
      /\ before' = before \cup {p \in Request : Over(p)} \X {q}
  BY <1>1, ArriveEffect
<1>. QED  BY <1>2 DEF TypeOK

LEMMA WorksPast ==
  ASSUME TypeOK, Course, Past, NEW q \in Request, Works(q)
  PROVE  Past'
BY WorksMoves, OverStays DEF Past

LEMMA ArrivesPast ==
  ASSUME TypeOK, Past, NEW q \in Request, Arrives(q)
  PROVE  Past'
<1>1. PICK r \in Req : Arrive(q, r)
  BY ArrivesEffect
<1>2. /\ req[q] = NoRow /\ req' = [req EXCEPT ![q] = r]
      /\ before' = before \cup {p \in Request : Over(p)} \X {q}
  BY <1>1, ArriveEffect, ArrivesEffect
<1>3. \A p \in Request : Over(p) => Over(p)'
  BY <1>2 DEF Over, At, TypeOK
<1>4. \A p \in Request : req[p] # NoRow \/ p = q => req'[p] # NoRow
  BY <1>2, BookingAssumption DEF TypeOK
<1>5. \A p, x \in Request : <<p, x>> \in before' => <<p, x>> \in before \/ (Over(p) /\ x = q)
  BY <1>2
<1>. QED  BY <1>3, <1>4, <1>5 DEF Past

LEMMA WorksCourse ==
  ASSUME TypeOK, Course, Written, NEW q \in Request, Works(q)
  PROVE  Course'
<1>. USE DEF Tool
<1>1. /\ Moves(q) /\ req[q] # NoRow /\ Proper(q) /\ req[q].kind \in Kind
      /\ \A p \in Request \ {q} : req'[p] = req[p]
  BY WorksMoves DEF Course, Moves, Req
<1>2. \A p \in Request : rows[p] # NoRow =>
        rows'[p] # NoRow /\ rows'[p].what = rows[p].what /\ rows'[p].record = rows[p].record
  BY RowsStay
<1>3. ASSUME NEW p \in Request \ {q}, req'[p] # NoRow
      PROVE  Proper(p)'
  <2>1. req'[p] = req[p] /\ Proper(p)
    BY <1>1, <1>3 DEF Course
  <2>. QED  BY <1>2, <2>1 DEF Proper
<1>4. Proper(q)'
  <2>. DEFINE to == req'[q].stage
  <2>1. /\ req[q].kind \in Tool =>
             to \in {"key", "session", "check", "write", "store", "done"}
        /\ req[q].kind = "extract" => to \in {"bind", "existing", "check", "write", "done"}
        /\ req[q].kind = "book" => to \in {"check", "write", "done"}
        /\ req[q].kind \in {"edit", "cancel"} =>
             to \in {"read", "check", "save", "flush", "done"}
        /\ req[q].kind = "cancel" => to # "check"
        /\ req'[q].what # req[q].what => req[q].kind = "extract"
    <3>1. CASE FindKey(q)
      BY <1>1, <3>1, FindKeyEffect DEF Proper, At, Kind, Same
    <3>2. CASE FindSession(q)
      BY <1>1, <3>2, FindSessionEffect DEF Proper, At, Kind, Same
    <3>3. CASE Check(q)
      BY <1>1, <3>3, CheckEffect DEF Proper, At, Kind, Same
    <3>4. CASE Bind(q) \/ FindExisting(q)
      BY <1>1, <3>4, BindEffect, FindExistingEffect DEF Proper, At, Kind, Same
    <3>5. CASE Read(q) \/ SaveReads(q)
      BY <1>1, <3>5, ReadEffect, SaveReadsEffect, AtSave
         DEF Proper, At, Kind, Read, SaveReads
    <3>6. CASE Dies(q)
      BY <1>1, <3>6, DiesEffect DEF Same
    <3>7. CASE Write(q)
      BY <1>1, <3>7, WriteEffect DEF Proper, At, Kind, Same
    <3>8. CASE SaveWrites(q) \/ Store(q)
      BY <1>1, <3>8, WritesBack, StoreEffect DEF Same
    <3>. QED  BY <3>1, <3>2, <3>3, <3>4, <3>5, <3>6, <3>7, <3>8 DEF Works, Reads
  <2>2. req[q].kind \in {"edit", "cancel"} =>
          /\ req[q].of \in Request /\ rows[req[q].of] # NoRow
          /\ req[q].what = rows[req[q].of].what
    BY <1>1 DEF Proper
  <2>. QED  BY <1>1, <1>2, <2>1, <2>2 DEF Proper, Moves, Fixed
<1>. QED  BY <1>3, <1>4 DEF Course

LEMMA ArrivesCourse ==
  ASSUME TypeOK, Course, NEW q \in Request, Arrives(q)
  PROVE  Course'
<1>1. PICK r \in Req : Arrive(q, r) /\ Arrived(r)
  BY ArrivesEffect
<1>2. /\ req' = [req EXCEPT ![q] = r] /\ req'[q] = r /\ UNCHANGED rows
  BY <1>1, ArriveEffect
<1>3. r.kind \in Kind
  BY DEF Req
<1>4. Proper(q)'
  BY <1>1, <1>2, <1>3 DEF Arrived, Proper, First, Kind, Tool
<1>5. ASSUME NEW p \in Request \ {q}, req'[p] # NoRow
      PROVE  Proper(p)'
  <2>1. req'[p] = req[p] /\ Proper(p)
    BY <1>2, <1>5 DEF Course, TypeOK
  <2>. QED  BY <1>2, <2>1 DEF Proper
<1>. QED  BY <1>4, <1>5 DEF Course

-----------------------------------------------------------------------------
\* Written, Log and AnswersTrue.

\* The one row a step may change bears the name of the request.
LEMMA RowsChange ==
  ASSUME TypeOK, Course, NEW q \in Request, Works(q), NEW p \in Request,
         rows'[p] # rows[p]
  PROVE  /\ rows'[p].by = q
         /\ \/ Write(q) /\ p = q /\ rows'[p] = NewRow(q)
            \/ SaveWrites(q) /\ p = req[q].of
         /\ \A r \in Request \ {p} : rows'[r] = rows[r]
<1>1. CASE Reads(q) \/ Store(q)
  BY <1>1, ReadsOnly, StoreEffect DEF Tables
<1>2. CASE Write(q)
  <2>1. rows' = [rows EXCEPT ![q] = NewRow(q)] /\ rows \in [Request -> Row \cup {NoRow}]
    BY <1>2, WriteEffect DEF TypeOK
  <2>2. NewRow(q).by = q
    BY DEF NewRow
  <2>. HIDE DEF NewRow
  <2>. QED  BY <1>2, <2>1, <2>2
<1>3. CASE SaveWrites(q)
  BY <1>3, WritesBack
<1>. QED  BY <1>1, <1>2, <1>3 DEF Works

\* A request that is not through has been told nothing, and stores next.
LEMMA WorksOn ==
  ASSUME TypeOK, Course, Written, NEW q \in Request, Works(q)
  PROVE  /\ req[q].heard = "none"
         /\ req'[q].stage # "done" => req'[q].heard = "none"
         /\ req[q].stage = "store" => req'[q].stage = "done"
         /\ req'[q].stage \notin {"store", "done"} => req'[q].status = "ok"
         /\ req'[q].stage = "store" =>
              \/ Write(q) /\ req'[q].status = "ok"
              \/ req'[q].status = "error" /\ rows'[q] = NoRow
<1>1. /\ req[q] # NoRow /\ req[q].stage # "done" /\ req[q].heard = "none"
      /\ req[q].stage # "store" => req[q].status = "ok" /\ rows[q] = NoRow
  BY WorksMoves DEF Moves, Over, At, Written, HasRow
<1>2. CASE Read(q) \/ SaveReads(q)
  BY <1>1, <1>2, AtSave, ReadEffect, SaveReadsEffect DEF Read, SaveReads, At
<1>3. CASE FindKey(q) \/ FindSession(q)
  BY <1>1, <1>3, FindKeyEffect, FindSessionEffect DEF Tables, At
<1>4. CASE Check(q)
  BY <1>1, <1>4, CheckEffect DEF Tables, At
<1>5. CASE Bind(q) \/ FindExisting(q)
  BY <1>1, <1>5, BindEffect, FindExistingEffect DEF At
<1>6. CASE Dies(q) \/ SaveWrites(q) \/ Store(q)
  BY <1>1, <1>6, DiesEffect, WritesBack, StoreEffect DEF At
<1>7. CASE Write(q)
  BY <1>1, <1>7, WriteEffect DEF At
<1>. QED  BY <1>2, <1>3, <1>4, <1>5, <1>6, <1>7 DEF Works, Reads

LEMMA WorksWritten ==
  ASSUME TypeOK, Course, Written, NEW q \in Request, Works(q)
  PROVE  Written'
<1>1. /\ Fixed(q) /\ req[q] # NoRow /\ req'[q] # NoRow /\ ~Over(q) /\ Proper(q)
      /\ \A p \in Request \ {q} : req'[p] = req[p]
  BY WorksMoves DEF Moves, Course
<1>2. ASSUME NEW p \in Request, rows'[p] # NoRow
      PROVE  HasRow(p)'
  <2>1. /\ rows'[p].by \in Request /\ req'[rows'[p].by] # NoRow
        /\ req'[rows'[p].by].stage \in {"store", "done"}
    <3>1. rows'[p] \in Row
      BY <1>2, RowsStay
    <3>2. rows'[p].by \in Request
      BY <3>1 DEF Row
    <3>3. CASE rows'[p] = rows[p]
      BY <1>1, <1>2, <3>2, <3>3, WorksOn DEF Written, HasRow, Over, At
    <3>4. CASE rows'[p] # rows[p]
      BY <1>1, <3>4, RowsChange, WriteEffect, WritesBack
    <3>. QED  BY <3>2, <3>3, <3>4
  <2>2. CASE rows[p] # NoRow
    <3>1. /\ rows'[p].what = rows[p].what /\ rows'[p].record = rows[p].record
      BY <2>2, RowsStay
    <3>2. HasRow(p)
      BY <2>2 DEF Written
    <3>3. req'[p].stage \in {"store", "done"}
      BY <1>1, <3>2, WorksOn DEF HasRow, Over, At
    <3>4. /\ req'[p] # NoRow /\ req'[p].linked = req[p].linked
          /\ req'[p].call = req[p].call /\ req'[p].kind = req[p].kind
      BY <1>1, <3>2 DEF HasRow, Fixed
    <3>. QED  BY <2>1, <3>1, <3>2, <3>3, <3>4 DEF HasRow
  <2>3. CASE rows[p] = NoRow
    <3>1. p = q /\ Write(q)
      BY <1>2, <2>3, RowsStay
    <3>2. /\ req'[q].stage \in {"store", "done"} /\ rows'[q] = NewRow(q)
      BY <3>1, WriteEffect DEF TypeOK
    <3>3. /\ req[q].linked => NewRow(q).record = req[q].call
          /\ req[q].kind \in Tool => NewRow(q).what = req[q].kind
      BY <1>1 DEF NewRow, RecordOf, Proper
    <3>. QED  BY <1>1, <2>1, <3>1, <3>2, <3>3 DEF HasRow, Fixed
  <2>. QED  BY <2>2, <2>3
<1>3. ASSUME NEW p \in Request \ {q}, req'[p] # NoRow
      PROVE  /\ req'[p].stage # "done" => req'[p].heard = "none"
             /\ req'[p].stage \notin {"store", "done"} => req'[p].status = "ok"
             /\ req'[p].stage = "store" => (req'[p].status = "ok" <=> rows'[p] # NoRow)
  <2>1. req'[p] = req[p] /\ (rows'[p] # NoRow <=> rows[p] # NoRow)
    BY <1>1, RowsStay
  <2>. QED  BY <1>3, <2>1 DEF Written
<1>4. /\ req'[q].stage # "done" => req'[q].heard = "none"
      /\ req'[q].stage \notin {"store", "done"} => req'[q].status = "ok"
      /\ req'[q].stage = "store" => (req'[q].status = "ok" <=> rows'[q] # NoRow)
  <2>1. Write(q) => rows'[q] # NoRow
    BY WriteEffect, BookingAssumption DEF TypeOK
  <2>. QED  BY <2>1, WorksOn
<1>. QED  BY <1>2, <1>3, <1>4 DEF Written

LEMMA WorksLog ==
  ASSUME TypeOK, Course, Written, Log, NEW q \in Request, Works(q)
  PROVE  Log'
<1>1. ASSUME NEW i \in invocations
      PROVE  /\ Over(i.row)' /\ req'[i.row].kind = i.tool /\ req'[i.row].call = i.call
             /\ i.status = "ok" => rows'[i.row] # NoRow
  <2>1. i.row \in Request
    BY DEF TypeOK
  <2>. QED  BY <2>1, OverStays, RowsStay DEF Log
<1>2. CASE Store(q)
  <2>1. /\ req[q].stage = "store" /\ Fixed(q) /\ req'[q] # NoRow /\ req[q] # NoRow
        /\ req'[q].stage = "done" /\ rows' = rows
    BY <1>2, StoreEffect, WorksMoves DEF Moves, At
  <2>2. req[q].status = "ok" => rows[q] # NoRow
    BY <2>1 DEF Written
  <2>3. ASSUME NEW i, i = Invocation(q)
        PROVE  /\ Over(i.row)' /\ req'[i.row].kind = i.tool /\ req'[i.row].call = i.call
               /\ i.status = "ok" => rows'[i.row] # NoRow
    BY <2>1, <2>2, <2>3 DEF Invocation, Over, At, Fixed
  <2>4. \A i \in invocations' : i \in invocations \/ i = Invocation(q)
    BY <1>2, StoreEffect
  <2>. QED  BY <1>1, <2>3, <2>4 DEF Log, Over, At
<1>3. CASE ~Store(q)
  <2>1. invocations' = invocations
    BY <1>3, ReadsOnly, WriteEffect, WritesBack DEF Works, Tables
  <2>. QED  BY <1>1, <2>1 DEF Log, Over, At
<1>. QED  BY <1>2, <1>3

LEMMA WorksAnswersTrue ==
  ASSUME TypeOK, Course, Written, Log, AnswersTrue, NEW q \in Request, Works(q)
  PROVE  AnswersTrue'
<1>1. /\ Fixed(q) /\ req[q] # NoRow /\ ~Over(q)
      /\ \A p \in Request \ {q} : req'[p] = req[p]
  BY WorksMoves DEF Moves
\* A row that answers goes on to answer.
<1>2. ASSUME NEW x \in Request, rows[x] # NoRow
      PROVE  rows'[x] # NoRow /\ rows'[x].what = rows[x].what /\ req'[x].call = req[x].call
  BY <1>1, <1>2, RowsStay DEF Fixed
<1>3. ASSUME NEW p \in Request \ {q}, req'[p] # NoRow, req'[p].kind \in Tool
      PROVE  /\ req'[p].heard = "ok" =>
                  \E x \in Request : /\ rows'[x] # NoRow /\ rows'[x].what = req'[p].kind
                                     /\ req'[x].call = req'[p].call
             /\ req'[p].heard = "error" => rows'[p] = NoRow
  <2>1. req'[p] = req[p]
    BY <1>1
  <2>2. rows'[p] # NoRow => rows[p] # NoRow
    BY RowsStay
  <2>3. req[p].heard = "ok" =>
          \E x \in Request : /\ rows[x] # NoRow /\ rows[x].what = req[p].kind
                             /\ req[x].call = req[p].call
    BY <1>3, <2>1 DEF AnswersTrue
  <2>4. req[p].heard = "error" => rows[p] = NoRow
    BY <1>3, <2>1 DEF AnswersTrue
  <2>. QED  BY <1>2, <2>1, <2>2, <2>3, <2>4
\* An invocation that succeeded has its row.
<1>4. ASSUME NEW i \in invocations, i.call = req[q].call, i.tool = req[q].kind,
             i.status = "ok", req[q].kind \in Tool
      PROVE  \E x \in Request : /\ rows[x] # NoRow /\ rows[x].what = req[q].kind
                                /\ req[x].call = req[q].call
  <2>1. i.row \in Request
    BY DEF TypeOK
  <2>. QED  BY <1>4, <2>1 DEF Log, Written, HasRow
<1>5. ASSUME req[q].kind \in Tool
      PROVE  /\ req'[q].heard = "ok" =>
                  \E x \in Request : /\ rows[x] # NoRow /\ rows[x].what = req[q].kind
                                     /\ req[x].call = req[q].call
             /\ req'[q].heard = "error" => rows'[q] = NoRow
  <2>1. /\ req[q].heard = "none"
        /\ req[q].stage \notin {"store", "done"} => rows[q] = NoRow
        /\ req[q].stage = "store" => (req[q].status = "ok" <=> rows[q] # NoRow)
    BY <1>1 DEF Written, HasRow, Over, At
  <2>2. CASE FindKey(q)
    BY <1>4, <1>5, <2>1, <2>2, FindKeyEffect DEF OfKey, Tables, At
  <2>3. CASE FindSession(q)
    BY <1>4, <1>5, <2>1, <2>3, FindSessionEffect DEF Writes, Tables
  <2>4. CASE Check(q)
    BY <1>5, <2>1, <2>4, CheckEffect DEF Tables, At
  <2>5. CASE Write(q)
    BY <1>5, <2>1, <2>5, WriteEffect
  <2>6. CASE Store(q)
    BY <1>5, <2>1, <2>6, StoreEffect DEF Written, HasRow, At
  <2>7. CASE Dies(q)
    BY <2>7, DiesEffect
  <2>8. CASE Bind(q) \/ FindExisting(q) \/ Read(q) \/ SaveReads(q) \/ SaveWrites(q)
    BY <1>1, <1>5, <2>8, BindEffect, FindExistingEffect, AtSave
       DEF Course, Proper, At, Read, SaveReads, SaveWrites, Tool
  <2>. QED  BY <2>2, <2>3, <2>4, <2>5, <2>6, <2>7, <2>8 DEF Works, Reads
<1>6. ASSUME req'[q].kind \in Tool
      PROVE  /\ req'[q].heard = "ok" =>
                  \E x \in Request : /\ rows'[x] # NoRow /\ rows'[x].what = req'[q].kind
                                     /\ req'[x].call = req'[q].call
             /\ req'[q].heard = "error" => rows'[q] = NoRow
  BY <1>1, <1>2, <1>5, <1>6 DEF Fixed
<1>. QED  BY <1>3, <1>6 DEF AnswersTrue

\* An arrival leaves the rows and the log alone.
LEMMA ArrivesRest ==
  ASSUME TypeOK, Written, Log, AnswersTrue, NEW q \in Request, Arrives(q)
  PROVE  Written' /\ Log' /\ AnswersTrue'
<1>1. PICK r \in Req : Arrive(q, r) /\ Arrived(r)
  BY ArrivesEffect
<1>2. /\ req[q] = NoRow /\ req'[q] = r /\ UNCHANGED <<rows, invocations>>
      /\ req' = [req EXCEPT ![q] = r]
  BY <1>1, ArriveEffect, ArrivesEffect
<1>3. \A p \in Request \ {q} : req'[p] = req[p]
  BY <1>2 DEF TypeOK
<1>4. rows[q] = NoRow /\ req'[q] # NoRow /\ r.stage \notin {"store", "done"}
  BY <1>1, <1>2, BookingAssumption DEF Written, HasRow, Arrived, First
<1>5. Written'
  <2>1. \A p \in Request : rows[p] # NoRow => rows[p].by \in Request
    BY DEF TypeOK, Row
  <2>2. ASSUME NEW p \in Request, rows[p] # NoRow
        PROVE  HasRow(p)'
    <3>1. p # q /\ req'[p] = req[p] /\ HasRow(p) /\ rows[p].by \in Request \ {q}
      BY <1>2, <1>3, <1>4, <2>1, <2>2 DEF Written, HasRow
    <3>. QED  BY <1>2, <1>3, <3>1 DEF HasRow
  <2>. QED  BY <1>1, <1>2, <1>3, <1>4, <2>2 DEF Written, Arrived
<1>6. Log'
  <2>1. \A i \in invocations : i.row \in Request
    BY DEF TypeOK
  <2>. QED  BY <1>2, <1>3, <2>1 DEF Log, Over, At
<1>7. AnswersTrue'
  <2>1. \A x \in Request : rows[x] # NoRow => req'[x] = req[x]
    BY <1>3, <1>4
  <2>2. ASSUME NEW p \in Request, req'[p] # NoRow, req'[p].kind \in Tool
        PROVE  /\ req'[p].heard = "ok" =>
                    \E x \in Request : /\ rows[x] # NoRow /\ rows[x].what = req'[p].kind
                                       /\ req'[x].call = req'[p].call
               /\ req'[p].heard = "error" => rows[p] = NoRow
    BY <1>1, <1>2, <1>3, <2>1, <2>2 DEF AnswersTrue, Arrived
  <2>. QED  BY <1>2, <2>2 DEF AnswersTrue
<1>. QED  BY <1>5, <1>6, <1>7

-----------------------------------------------------------------------------
\* Guarded, Steady, Undone and NoDoubleBooking.

\* Requests that are both not through overlap.
LEMMA Together ==
  ASSUME Past, NEW p \in Request, NEW q \in Request, ~Over(p), ~Over(q)
  PROVE  Overlapped(p, q) /\ Overlapped(q, p)
BY DEF Past, Overlapped

\* Only a check that found no conflict lets a request pass, and it keeps the
\* slot it has checked.
LEMMA PassesByCheck ==
  ASSUME TypeOK, Course, NEW q \in Request, Works(q), Passed(q)'
  PROVE  /\ rows' = rows /\ req'[q].slot = req[q].slot
         /\ Conflicts(q) = {} \/ Passed(q)
<1>1. /\ Fixed(q) /\ Proper(q) /\ req[q].kind \in Kind /\ req[q] # NoRow
      /\ req'[q].what = "appointment"
      /\ \/ req'[q].stage = "write"
         \/ req'[q].stage \in {"save", "flush"} /\ req[q].kind = "edit"
  <2>1. Fixed(q) /\ Proper(q) /\ req[q].kind \in Kind /\ req[q] # NoRow
    BY WorksMoves DEF Moves, Course, Req
  <2>. QED  BY <2>1 DEF Passed, At, Fixed
<1>2. CASE Check(q)
  BY <1>1, <1>2, CheckEffect DEF Tables, Same
<1>3. CASE FindSession(q)
  BY <1>1, <1>3, FindSessionEffect DEF Same, Proper, At, Kind, Tool
<1>4. CASE FindExisting(q)
  BY <1>1, <1>4, FindExistingEffect DEF Same
<1>5. CASE Read(q)
  <2>1. rows[req[q].of] \in Row /\ req[q].what = rows[req[q].of].what
    BY <1>5, AtSave DEF Read
  <2>. QED  BY <1>1, <1>5, <2>1, ReadEffect
<1>6. CASE SaveReads(q)
  <2>1. rows[req[q].of] \in Row
    BY <1>6, AtSave DEF SaveReads
  <2>2. /\ At(q, "save") /\ rows' = rows /\ req'[q].slot = req[q].slot
        /\ req'[q].what = req[q].what /\ req'[q].stage = "flush"
    BY <1>6, <2>1, SaveReadsEffect DEF Tables
  <2>. QED  BY <1>1, <2>2 DEF Passed
<1>7. CASE FindKey(q) \/ Bind(q) \/ Dies(q) \/ Write(q) \/ SaveWrites(q) \/ Store(q)
  BY <1>1, <1>7, FindKeyEffect, BindEffect, DiesEffect, WriteEffect, WritesBack, StoreEffect
<1>. QED  BY <1>2, <1>3, <1>4, <1>5, <1>6, <1>7 DEF Works, Reads

LEMMA WorksGuarded ==
  ASSUME TypeOK, Course, Past, Guarded, NEW q \in Request, Works(q)
  PROVE  Guarded'
<1>1. /\ ~Over(q) /\ Fixed(q) /\ before' = before
      /\ \A p \in Request \ {q} : req'[p] = req[p]
  BY WorksMoves DEF Moves
<1>2. ASSUME NEW x \in Request \ {q}, Passed(x)', NEW p \in Conflicts(x)'
      PROVE  Overlapped(rows'[p].by, x)
  <2>1. req'[x] = req[x] /\ Passed(x) /\ ~Over(x) /\ p \in Request
    BY <1>1, <1>2 DEF Passed, At, Over, Conflicts
  <2>2. CASE rows'[p] = rows[p]
    <3>1. p \in Conflicts(x)
      BY <1>2, <2>1, <2>2 DEF Conflicts
    <3>. QED  BY <2>1, <2>2, <3>1 DEF Guarded
  <2>3. CASE rows'[p] # rows[p]
    <3>1. rows'[p].by = q
      BY <2>1, <2>3, RowsChange
    <3>. QED  BY <1>1, <2>1, <3>1, Together
  <2>. QED  BY <2>2, <2>3
<1>3. ASSUME Passed(q)', NEW p \in Conflicts(q)'
      PROVE  Overlapped(rows'[p].by, q)
  <2>1. /\ rows' = rows /\ req'[q].slot = req[q].slot /\ req'[q].of = req[q].of
        /\ Conflicts(q) = {} \/ Passed(q)
    BY <1>1, <1>3, PassesByCheck DEF Fixed
  <2>2. p \in Conflicts(q)
    BY <1>3, <2>1 DEF Conflicts
  <2>. QED  BY <2>1, <2>2 DEF Guarded
<1>. QED  BY <1>1, <1>2, <1>3 DEF Guarded, Overlapped

\* Who has edited the row at the same time stays who has.
LEMMA ContendedStays ==
  ASSUME TypeOK, Course, NEW q \in Request, Works(q),
         NEW p \in Request, NEW x \in Request, Contended(p, x)
  PROVE  Contended(p, x)'
<1>1. PICK y \in Request \ {x} : req[y] # NoRow /\ req[y].of = p /\ Overlapped(y, x)
  BY DEF Contended
<1>2. req'[y] # NoRow /\ req'[y].of = req[y].of /\ before' = before
  <2>1. /\ req'[q] # NoRow /\ req'[q].of = req[q].of /\ before' = before
        /\ \A r \in Request \ {q} : req'[r] = req[r]
    BY WorksMoves DEF Moves, Fixed
  <2>. QED  BY <1>1, <2>1
<1>. QED  BY <1>1, <1>2 DEF Contended, Overlapped

LEMMA WorksSteady ==
  ASSUME TypeOK, Course, Past, Written, Steady, NEW q \in Request, Works(q)
  PROVE  Steady'
<1>1. /\ ~Over(q) /\ Fixed(q) /\ before' = before /\ req[q] # NoRow
      /\ \A p \in Request \ {q} : req'[p] = req[p]
  BY WorksMoves DEF Moves
<1>2. ASSUME NEW x \in Request \ {q}, At(x, "flush")'
      PROVE  Agrees(x, rows[req[x].of])' \/ Contended(req[x].of, x)'
  <2>. DEFINE p == req[x].of
  <2>1. req'[x] = req[x] /\ At(x, "flush") /\ ~Over(x)
    BY <1>1, <1>2 DEF At, Over
  <2>2. p \in Request /\ rows[p] \in Row
    BY <2>1, AtSave
  <2>3. CASE rows'[p] = rows[p]
    <3>1. Agrees(x, rows[p]) \/ Contended(p, x)
      BY <2>1 DEF Steady
    <3>. QED  BY <2>1, <2>2, <2>3, <3>1, ContendedStays DEF Agrees
  <2>4. CASE rows'[p] # rows[p]
    <3>1. req[q].of = p
      BY <2>2, <2>4, RowsChange, RowsStay, WriteEffect, BookingAssumption
         DEF Written, HasRow, At
    <3>2. Contended(p, x)
      BY <1>1, <2>1, <3>1, Together DEF Contended
    <3>. QED  BY <2>1, <2>2, <3>2, ContendedStays
  <2>. QED  BY <2>3, <2>4
<1>3. ASSUME At(q, "flush")'
      PROVE  Agrees(q, rows[req[q].of])'
  <2>1. SaveReads(q)
    <3>1. req'[q].stage = "flush"
      BY <1>3 DEF At
    <3>2. CASE Read(q)
      <4>1. rows[req[q].of] \in Row
        BY <3>2, AtSave DEF Read
      <4>. QED  BY <3>1, <3>2, <4>1, ReadEffect
    <3>. QED  BY <3>1, <3>2, FindKeyEffect, FindSessionEffect, CheckEffect, BindEffect,
                 FindExistingEffect, DiesEffect, WriteEffect, WritesBack, StoreEffect
              DEF Works, Reads
  <2>2. rows[req[q].of] \in Row /\ req[q] \in Req
    BY <2>1, AtSave DEF SaveReads
  <2>3. /\ rows' = rows /\ req'[q].slot = req[q].slot
        /\ Differing(q, rows[req[q].of]) \subseteq req'[q].diff
    BY <2>1, <2>2, SaveReadsEffect DEF Tables
  <2>4. rows[req[q].of].held \in BOOLEAN /\ req[q].drop \in BOOLEAN
    BY <2>2 DEF Row, Req
  <2>. QED  BY <1>1, <2>3, <2>4 DEF Agrees, Differing, Fixed
<1>. QED  BY <1>2, <1>3 DEF Steady

LEMMA WorksUndone ==
  ASSUME TypeOK, Course, Past, Written, Undone, NEW q \in Request, Works(q)
  PROVE  Undone'
<1>1. /\ ~Over(q) /\ Fixed(q) /\ before' = before /\ req[q] # NoRow
      /\ \A p \in Request \ {q} : req'[p] = req[p]
  BY WorksMoves DEF Moves
\* A cancellation that is over stays so.
<1>2. ASSUME NEW x \in Request, req'[x].of = req[x].of, CancelledMeanwhile(x)
      PROVE  CancelledMeanwhile(x)'
  <2>1. PICK y \in Request : /\ Over(y) /\ req[y].of = req[x].of /\ req[y].drop
                             /\ Overlapped(y, x)
    BY <1>2 DEF CancelledMeanwhile
  <2>2. Over(y)' /\ req'[y] = req[y]
    BY <2>1, OverStays
  <2>. QED  BY <1>1, <1>2, <2>1, <2>2 DEF CancelledMeanwhile, Overlapped
<1>3. ASSUME NEW x \in Request \ {q}, Edits(x)'
      PROVE  rows'[req'[x].of].held \/ CancelledMeanwhile(x)'
  <2>. DEFINE p == req[x].of
  <2>1. req'[x] = req[x] /\ Edits(x) /\ ~Over(x) /\ req[x] # NoRow
    BY <1>1, <1>3 DEF Edits, At, Over
  <2>2. p \in Request /\ rows[p] \in Row
    BY <2>1 DEF Course, Proper, Edits, TypeOK
  <2>3. rows[p].held \/ CancelledMeanwhile(x)
    BY <2>1 DEF Undone
  <2>4. CASE rows'[p] = rows[p] \/ CancelledMeanwhile(x)
    BY <1>2, <2>1, <2>3, <2>4
  <2>5. CASE rows'[p] # rows[p] /\ rows[p].held /\ ~rows'[p].held
    <3>1. SaveWrites(q) /\ p = req[q].of
      BY <2>2, <2>5, RowsChange, RowsStay, WriteEffect, BookingAssumption
         DEF Written, HasRow, At
    <3>2. Over(q)' /\ rows'[p].held = ~req[q].drop
      BY <1>1, <2>5, <3>1, WritesBack, WorksMoves DEF Over, At
    <3>3. Overlapped(q, x)
      BY <1>1, <2>1, Together
    <3>. QED  BY <1>1, <2>1, <2>5, <3>1, <3>2, <3>3 DEF CancelledMeanwhile, Overlapped, Fixed
  <2>. QED  BY <2>1, <2>3, <2>4, <2>5
<1>4. ASSUME Edits(q)'
      PROVE  rows'[req'[q].of].held \/ CancelledMeanwhile(q)'
  <2>1. /\ req'[q].of = req[q].of /\ req[q].kind = "edit" /\ Proper(q)
        /\ req'[q].what = "appointment" /\ req'[q].stage \in {"check", "save", "flush"}
    BY <1>1, <1>4 DEF Edits, Fixed, At, Course
  <2>2. rows[req[q].of] \in Row /\ req[q].what = rows[req[q].of].what
    BY <1>1, <2>1 DEF Proper, TypeOK
  <2>3. CASE Read(q)
    <3>1. /\ req'[q].what = req[q].what /\ rows' = rows
          /\ MayChange(rows[req[q].of], req[q].kind)
      BY <2>1, <2>2, <2>3, ReadEffect DEF Tables
    <3>. QED  BY <2>1, <2>2, <3>1 DEF MayChange
  <2>4. CASE Check(q)
    <3>1. At(q, "check") /\ rows' = rows /\ req'[q].what = req[q].what
      BY <2>1, <2>4, CheckEffect DEF Tables, Same
    <3>2. Edits(q)
      BY <2>1, <3>1 DEF Edits
    <3>. QED  BY <1>2, <2>1, <3>1, <3>2 DEF Undone
  <2>5. CASE SaveReads(q)
    <3>1. At(q, "save") /\ rows' = rows /\ req'[q].what = req[q].what
      BY <2>2, <2>5, SaveReadsEffect DEF Tables
    <3>2. Edits(q)
      BY <2>1, <3>1 DEF Edits
    <3>. QED  BY <1>2, <2>1, <3>1, <3>2 DEF Undone
  <2>6. CASE ~Read(q) /\ ~Check(q) /\ ~SaveReads(q)
    <3>1. req[q].stage \in {"key", "session", "bind", "existing", "write", "store"}
          \/ req'[q].stage = "done"
      BY <2>6, FindKeyEffect, FindSessionEffect, BindEffect, FindExistingEffect,
         DiesEffect, WriteEffect, WritesBack, StoreEffect DEF Works, Reads, At
    <3>. QED  BY <1>1, <2>1, <3>1 DEF Proper
  <2>. QED  BY <2>3, <2>4, <2>5, <2>6
<1>. QED  BY <1>3, <1>4 DEF Undone

\* A request that has written keeps its slot.
LEMMA WriterStays ==
  ASSUME TypeOK, Course, Written, NEW q \in Request, Works(q),
         NEW p \in Request, rows[p] # NoRow
  PROVE  LET w == rows[p].by IN
         /\ w \in Request
         /\ req'[w].slot = req[w].slot /\ req'[w].kind = req[w].kind
<1>. DEFINE w == rows[p].by
<1>1. w \in Request /\ req[w] # NoRow /\ req[w].stage \in {"store", "done"}
  BY DEF TypeOK, Row, Written, HasRow
<1>2. /\ \A r \in Request \ {q} : req'[r] = req[r]
      /\ Fixed(q) /\ ~Over(q) /\ req[q] # NoRow
  BY WorksMoves DEF Moves
<1>3. CASE w = q
  <2>1. req[q].stage = "store"
    BY <1>1, <1>2, <1>3 DEF Over, At
  <2>2. Store(q) \/ Dies(q)
    BY <2>1, FindKeyEffect, FindSessionEffect, CheckEffect, BindEffect, FindExistingEffect,
       WriteEffect, WritesBack DEF Works, Reads, Read, SaveReads, At
  <2>. QED  BY <1>2, <1>3, <2>2, StoreEffect, DiesEffect DEF Same, Fixed
<1>. QED  BY <1>1, <1>2, <1>3

LEMMA MixedStays ==
  ASSUME TypeOK, Course, Written, NEW q \in Request, Works(q),
         NEW p \in Request, rows[p] # NoRow, rows'[p] = rows[p], Mixed(p)
  PROVE  Mixed(p)'
BY WriterStays, ContendedStays DEF Mixed

\* A held appointment is written by a request that had passed, at its slot,
\* or is a mix.
LEMMA WritesHeld ==
  ASSUME TypeOK, Course, Steady, NEW q \in Request, Works(q), NEW p \in Request,
         rows'[p] # rows[p], rows'[p].what = "appointment", rows'[p].held
  PROVE  /\ rows'[p].by = q
         /\ \A r \in Request \ {p} : rows'[r] = rows[r] /\ r # req[q].of
         /\ (Passed(q) /\ rows'[p].slot = req[q].slot) \/ Mixed(p)'
<1>1. /\ rows'[p].by = q
      /\ \A r \in Request \ {p} : rows'[r] = rows[r]
      /\ \/ Write(q) /\ p = q /\ rows'[p] = NewRow(q)
         \/ SaveWrites(q) /\ p = req[q].of
  BY RowsChange
<1>2. CASE Write(q) /\ p = q /\ rows'[p] = NewRow(q)
  <2>1. req[q].what = "appointment" /\ rows'[p].slot = req[q].slot
    BY <1>2 DEF NewRow
  <2>2. At(q, "write") /\ req[q] \in Req /\ req[q].stage = "write" /\ Proper(q)
    BY <1>2, WriteEffect, IsReq DEF Course, At
  <2>3. req[q].of = NoRow
    BY <2>2 DEF Proper, Req, Kind
  <2>. QED  BY <1>1, <2>1, <2>2, <2>3, BookingAssumption DEF Passed
<1>3. CASE SaveWrites(q) /\ p = req[q].of
  <2>1. /\ At(q, "flush") /\ Same(q) /\ req[q].kind \in {"edit", "cancel"}
        /\ req[q].kind = "cancel" => req[q].drop
        /\ req[q].what = rows[p].what /\ rows'[p].what = rows[p].what
        /\ Agrees(q, rows[p]) => rows'[p].slot = req[q].slot /\ rows'[p].held = ~req[q].drop
    <3>1. /\ At(q, "flush") /\ Same(q) /\ req[q].kind \in {"edit", "cancel"}
          /\ req[q].kind = "cancel" => req[q].drop
      BY <1>3, WritesBack
    <3>2. /\ req[q].what = rows[p].what /\ rows'[p].what = rows[p].what
          /\ Agrees(q, rows[p]) => rows'[p].slot = req[q].slot /\ rows'[p].held = ~req[q].drop
      BY <1>3, WritesBack
    <3>. QED  BY <3>1, <3>2
  <2>2. CASE req[q].kind = "edit" /\ rows'[p].slot = req[q].slot
    BY <1>1, <1>3, <2>1, <2>2 DEF Passed
  <2>3. CASE req[q].kind = "cancel" \/ rows'[p].slot # req[q].slot
    <3>1. Contended(p, q)
      BY <1>3, <2>1, <2>3 DEF Steady
    <3>2. req'[q].kind = req[q].kind /\ req'[q].slot = req[q].slot
      BY <2>1, WorksMoves DEF Moves, Fixed, Same
    <3>. QED  BY <1>1, <1>3, <2>3, <3>1, <3>2, ContendedStays DEF Mixed
  <2>. QED  BY <2>1, <2>2, <2>3
<1>. QED  BY <1>1, <1>2, <1>3

LEMMA WorksNoDoubleBooking ==
  ASSUME TypeOK, Course, Written, Guarded, Steady, NoDoubleBooking,
         NEW q \in Request, Works(q)
  PROVE  NoDoubleBooking'
<1>. DEFINE Held(p) == rows'[p] # NoRow /\ rows'[p].what = "appointment" /\ rows'[p].held
<1>1. before' = before
  BY WorksMoves
<1>2. ASSUME NEW p \in Request, NEW r \in Request, p # r, Held(p), Held(r),
             rows'[p] # rows[p], RangesOverlap(rows'[p].slot, rows'[r].slot)
      PROVE  \/ Mixed(p)'
             \/ /\ Overlapped(rows'[p].by, rows'[r].by)
                /\ Overlapped(rows'[r].by, rows'[p].by)
  <2>1. /\ rows'[p].by = q /\ rows'[r] = rows[r] /\ r # req[q].of
        /\ (Passed(q) /\ rows'[p].slot = req[q].slot) \/ Mixed(p)'
    BY <1>2, WritesHeld
  <2>2. CASE Passed(q) /\ rows'[p].slot = req[q].slot
    <3>1. r \in Conflicts(q)
      BY <1>2, <2>1, <2>2 DEF Conflicts
    <3>2. Overlapped(rows[r].by, q)
      BY <2>2, <3>1 DEF Guarded
    <3>. QED  BY <2>1, <3>2 DEF Overlapped
  <2>. QED  BY <2>1, <2>2
<1>3. ASSUME NEW p \in Request, NEW r \in Request, p # r, Held(p), Held(r),
             RangesOverlap(rows'[p].slot, rows'[r].slot)
      PROVE  Overlapped(rows'[p].by, rows'[r].by) \/ Mixed(p)' \/ Mixed(r)'
  <2>1. CASE rows'[p] # rows[p]
    BY <1>2, <1>3, <2>1
  <2>2. CASE rows'[r] # rows[r]
    <3>1. RangesOverlap(rows'[r].slot, rows'[p].slot)
      BY <1>3 DEF RangesOverlap
    <3>. QED  BY <1>2, <1>3, <2>2, <3>1
  <2>3. CASE rows'[p] = rows[p] /\ rows'[r] = rows[r]
    <3>1. Overlapped(rows[p].by, rows[r].by) \/ Mixed(p) \/ Mixed(r)
      BY <1>3, <2>3 DEF NoDoubleBooking
    <3>. QED  BY <1>3, <2>3, <3>1, MixedStays
  <2>. QED  BY <2>1, <2>2, <2>3
<1>. QED  BY <1>1, <1>3 DEF NoDoubleBooking, Overlapped

\* An arrival comes after what is over, and overlaps the rest.
LEMMA ArrivesBooking ==
  ASSUME TypeOK, Course, Written, Guarded, Steady, Undone, NoDoubleBooking,
         NEW q \in Request, Arrives(q)
  PROVE  Guarded' /\ Steady' /\ Undone' /\ NoDoubleBooking'
<1>1. PICK r \in Req : Arrive(q, r) /\ Arrived(r)
  BY ArrivesEffect
<1>2. /\ req[q] = NoRow /\ req'[q] = r /\ UNCHANGED rows /\ req' = [req EXCEPT ![q] = r]
      /\ before' = before \cup {p \in Request : Over(p)} \X {q}
  BY <1>1, ArriveEffect, ArrivesEffect
<1>3. r.stage \notin {"write", "save", "flush"} /\ (r.stage = "check" => r.kind = "book")
  BY <1>1 DEF Arrived, First, Req, Kind
<1>4. \A p \in Request \ {q} : req'[p] = req[p]
  BY <1>2 DEF TypeOK
<1>5. \A p \in Request : rows[p] # NoRow => rows[p].by \in Request \ {q}
  BY <1>2 DEF Written, HasRow, TypeOK, Row
<1>6. \A x, y \in Request \ {q} : Overlapped(x, y) => Overlapped(x, y)'
  BY <1>2 DEF Overlapped
<1>7. ASSUME NEW p \in Request, NEW x \in Request \ {q}, Contended(p, x)
      PROVE  Contended(p, x)'
  <2>1. PICK y \in Request \ {x} : req[y] # NoRow /\ req[y].of = p /\ Overlapped(y, x)
    BY <1>7 DEF Contended
  <2>2. y # q
    BY <1>2, <2>1
  <2>. QED  BY <1>4, <1>6, <2>1, <2>2 DEF Contended
<1>8. Guarded'
  <2>1. ASSUME NEW x \in Request, Passed(x)', NEW p \in Conflicts(x)'
        PROVE  Overlapped(rows[p].by, x)'
    <3>1. x # q /\ req'[x] = req[x] /\ Passed(x)
      BY <1>2, <1>3, <1>4, <2>1 DEF Passed, At
    <3>2. p \in Conflicts(x) /\ p \in Request /\ rows[p] # NoRow
      BY <1>2, <2>1, <3>1 DEF Conflicts
    <3>3. Overlapped(rows[p].by, x)
      BY <3>1, <3>2 DEF Guarded
    <3>. QED  BY <1>2, <1>5, <3>1, <3>2, <3>3 DEF Overlapped
  <2>. QED  BY <2>1 DEF Guarded
<1>9. Steady'
  <2>1. ASSUME NEW x \in Request, At(x, "flush")'
        PROVE  Agrees(x, rows[req[x].of])' \/ Contended(req[x].of, x)'
    <3>1. x # q /\ req'[x] = req[x] /\ At(x, "flush")
      BY <1>2, <1>3, <1>4, <2>1 DEF At
    <3>2. req[x].of \in Request
      BY <3>1, AtSave
    <3>3. Agrees(x, rows[req[x].of]) \/ Contended(req[x].of, x)
      BY <3>1 DEF Steady
    <3>. QED  BY <1>2, <1>7, <3>1, <3>2, <3>3 DEF Agrees
  <2>. QED  BY <2>1 DEF Steady
<1>10. Undone'
  <2>1. ASSUME NEW x \in Request, Edits(x)'
        PROVE  rows[req'[x].of].held \/ CancelledMeanwhile(x)'
    <3>1. x # q /\ req'[x] = req[x] /\ Edits(x)
      BY <1>2, <1>3, <1>4, <2>1 DEF Edits, At
    <3>2. CASE CancelledMeanwhile(x)
      <4>1. PICK y \in Request : /\ Over(y) /\ req[y].of = req[x].of /\ req[y].drop
                                 /\ Overlapped(y, x)
        BY <3>2 DEF CancelledMeanwhile
      <4>2. y # q
        BY <1>2, <4>1 DEF Over, At
      <4>. QED  BY <1>4, <1>6, <3>1, <4>1, <4>2 DEF CancelledMeanwhile, Over, At
    <3>. QED  BY <3>1, <3>2 DEF Undone
  <2>. QED  BY <1>2, <2>1 DEF Undone
<1>11. NoDoubleBooking'
  <2>1. ASSUME NEW p \in Request, rows[p] # NoRow, Mixed(p)
        PROVE  Mixed(p)'
    BY <1>2, <1>4, <1>5, <1>7, <2>1 DEF Mixed
  <2>. QED  BY <1>2, <1>5, <2>1 DEF NoDoubleBooking, Overlapped
<1>. QED  BY <1>8, <1>9, <1>10, <1>11

-----------------------------------------------------------------------------
\* Kept.

LEMMA WorksKept ==
  ASSUME TypeOK, Course, Past, Written, Log, Kept, NEW q \in Request, Works(q)
  PROVE  Kept'
<1>1. /\ ~Over(q) /\ Fixed(q) /\ before' = before /\ req[q] # NoRow
      /\ Proper(q) /\ req[q].kind \in Kind
      /\ \A p \in Request \ {q} : req'[p] = req[p]
  BY WorksMoves DEF Moves, Course, Req
<1>2. ASSUME NEW p \in Request \ {q}
      PROVE  Recorded(p)' <=> Recorded(p)
  <2>1. CASE invocations' = invocations
    BY <2>1 DEF Recorded
  <2>2. CASE invocations' = invocations \cup {Invocation(q)}
    BY <2>2 DEF Recorded, Invocation
  <2>. QED  BY <2>1, <2>2, ReadsOnly, WriteEffect, WritesBack, StoreEffect DEF Works, Tables
<1>3. ASSUME NEW p \in Request, NEW x \in Request, Before(p, x)'
      PROVE  p # q /\ Before(p, x) /\ (Recorded(p)' <=> Recorded(p))
  <2>1. p # q /\ req'[p] = req[p]
    BY <1>1, <1>3 DEF Before, Past
  <2>2. rows[p] # NoRow
    BY <1>3, <2>1, RowsStay DEF Before
  <2>3. req'[x].kind = req[x].kind /\ req'[x].call = req[x].call
    BY <1>1 DEF Fixed
  <2>. QED  BY <1>1, <1>2, <1>3, <2>1, <2>2, <2>3 DEF Before, VisibleTo
<1>4. ASSUME NEW p \in Request, Before(p, q), p # q
      PROVE  /\ req'[q].stage \in {"key", "session", "bind", "existing", "done"}
             /\ Recorded(p) => req'[q].stage # "existing"
             /\ ~Write(q)
  <2>1. /\ req[q].stage \in {"key", "session", "bind", "existing"}
        /\ Recorded(p) => req[q].stage # "existing"
    BY <1>1, <1>4 DEF Kept, Over, At
  <2>2. ASSUME Recorded(p)
        PROVE  \E i \in invocations : i.call = req[q].call /\ i.status = "ok"
                                      /\ i.tool = req[p].kind
    BY <1>4, <2>2 DEF Recorded, Log, Before
  <2>3. Write(q) => req[q].stage = "write"
    BY WriteEffect DEF At
  <2>4. CASE FindKey(q)
    BY <2>4, <2>3, FindKeyEffect DEF At
  <2>5. CASE FindSession(q)
    <3>1. req[q].kind \in Tool
      BY <1>1, <2>5, FindSessionEffect DEF Proper, Kind, At
    <3>2. Recorded(p) /\ req[q].kind = req[p].kind
      BY <1>4, <3>1 DEF Before, VisibleTo, Tool
    <3>3. Writes(q) # {}
      BY <2>2, <3>2 DEF Writes
    <3>4. req'[q].stage = "done"
      BY <2>5, <3>3, FindSessionEffect
    <3>. QED  BY <2>1, <3>4, WriteEffect DEF At
  <2>6. CASE Bind(q)
    BY <2>2, <2>6, <2>3, BindEffect DEF At
  <2>7. CASE FindExisting(q)
    <3>1. /\ At(q, "existing") /\ (req'[q].stage = "done" \/ Existing(q) = {})
      BY <2>7, FindExistingEffect
    <3>2. req[q].kind = "extract"
      BY <1>1, <3>1 DEF Proper, Kind, At
    <3>3. ~Recorded(p) /\ req[p].linked
      BY <1>4, <2>1, <3>1, <3>2 DEF Before, VisibleTo, At, Tool
    <3>4. p \in Existing(q)
      BY <1>4, <3>3 DEF Before, Written, HasRow, Existing
    <3>. QED  BY <3>1, <3>4, WriteEffect DEF At
  <2>8. CASE Dies(q)
    BY <2>1, <2>8, DiesEffect, WriteEffect DEF At
  <2>9. CASE \/ Check(q) \/ Read(q) \/ SaveReads(q) \/ SaveWrites(q)
             \/ Write(q) \/ Store(q)
    BY <2>1, <2>9, CheckEffect, WriteEffect, StoreEffect DEF Read, SaveReads, SaveWrites, At
  <2>. QED  BY <2>1, <2>4, <2>5, <2>6, <2>7, <2>8, <2>9, <2>3 DEF Works, Reads
<1>5. ASSUME NEW p \in Request, NEW x \in Request, Before(p, x)'
      PROVE  /\ rows'[x] = NoRow
             /\ req'[x].stage \in {"key", "session", "bind", "existing", "done"}
             /\ Recorded(p)' => req'[x].stage # "existing"
  <2>1. p # q /\ Before(p, x) /\ (Recorded(p)' <=> Recorded(p))
    BY <1>3, <1>5
  <2>2. /\ rows[x] = NoRow
        /\ req[x].stage \in {"key", "session", "bind", "existing", "done"}
        /\ Recorded(p) => req[x].stage # "existing"
    BY <2>1 DEF Kept
  <2>3. CASE x = q
    BY <1>4, <2>1, <2>2, <2>3, RowsStay
  <2>4. CASE x # q
    BY <1>1, <2>1, <2>2, <2>4, RowsStay
  <2>. QED  BY <2>3, <2>4
<1>. QED  BY <1>5 DEF Kept

LEMMA ArrivesKept ==
  ASSUME TypeOK, Past, Written, Kept, NEW q \in Request, Arrives(q)
  PROVE  Kept'
<1>1. PICK r \in Req : Arrive(q, r) /\ Arrived(r)
  BY ArrivesEffect
<1>2. /\ req[q] = NoRow /\ req'[q] = r /\ UNCHANGED <<rows, invocations>>
      /\ req' = [req EXCEPT ![q] = r]
      /\ before' = before \cup {p \in Request : Over(p)} \X {q}
  BY <1>1, ArriveEffect, ArrivesEffect
<1>3. \A p \in Request \ {q} : req'[p] = req[p]
  BY <1>2 DEF TypeOK
<1>4. rows[q] = NoRow
  BY <1>2 DEF Written, HasRow
<1>5. ASSUME NEW p \in Request, NEW x \in Request, Before(p, x)'
      PROVE  /\ rows[x] = NoRow
             /\ req'[x].stage \in {"key", "session", "bind", "existing", "done"}
             /\ Recorded(p) => req'[x].stage # "existing"
  <2>1. p # q /\ rows[p] # NoRow
    BY <1>2, <1>4, <1>5 DEF Before
  <2>2. CASE x = q
    <3>1. r.kind \in Tool \cup {"extract"}
      BY <1>2, <1>3, <1>5, <2>1, <2>2 DEF Before, VisibleTo
    <3>2. r.stage \in {"key", "bind"}
      BY <1>1, <3>1 DEF Arrived, First, Tool
    <3>. QED  BY <1>2, <1>4, <2>2, <3>2
  <2>3. CASE x # q
    <3>1. <<p, x>> \in before
      BY <1>2, <1>5, <2>3 DEF Before
    <3>2. Before(p, x)
      BY <1>2, <1>3, <1>5, <2>1, <2>3, <3>1 DEF Before, VisibleTo, Recorded
    <3>. QED  BY <1>3, <2>3, <3>2 DEF Kept
  <2>. QED  BY <2>2, <2>3
<1>. QED  BY <1>2, <1>5 DEF Kept, Recorded

-----------------------------------------------------------------------------
LEMMA NextIInv == IInv /\ [Next]_vars => IInv'
<1>. SUFFICES ASSUME IInv, [Next]_vars PROVE IInv'
  OBVIOUS
<1>. USE DEF IInv
<1>1. ASSUME NEW q \in Request, Arrives(q) PROVE IInv'
  BY <1>1, ArrivesTypeOK, ArrivesCourse, ArrivesPast, ArrivesRest, ArrivesBooking, ArrivesKept
<1>2. ASSUME NEW q \in Request, Works(q) PROVE IInv'
  BY <1>2, WorksTypeOK, WorksCourse, WorksPast, WorksWritten, WorksLog, WorksAnswersTrue,
     WorksGuarded, WorksSteady, WorksUndone, WorksNoDoubleBooking, WorksKept
<1>3. CASE UNCHANGED vars
  <2>1. TypeOK' /\ Course' /\ Past' /\ Written' /\ Log'
    BY <1>3 DEF vars, TypeOK, Course, Proper, Past, Written, HasRow, Log, Over, At
  <2>2. Guarded' /\ AnswersTrue'
    BY <1>3 DEF vars, Guarded, Passed, At, Conflicts, Overlapped, AnswersTrue
  <2>3. Steady' /\ Undone'
    BY <1>3 DEF vars, Steady, Agrees, Contended, Undone, Edits, CancelledMeanwhile,
                Over, At, Overlapped
  <2>4. NoDoubleBooking'
    <3>1. \A p \in Request : Mixed(p)' <=> Mixed(p)
      BY <1>3 DEF vars, Mixed, Contended, Overlapped
    <3>. QED  BY <1>3, <3>1 DEF vars, NoDoubleBooking, Overlapped
  <2>5. Kept'
    BY <1>3 DEF vars, Kept, Before, VisibleTo, Recorded
  <2>. QED  BY <2>1, <2>2, <2>3, <2>4, <2>5
<1>. QED  BY <1>1, <1>2, <1>3, Steps

\* IInv holds of every behaviour.
THEOREM Invariance == Spec => []IInv
<1>. QED  BY InitIInv, NextIInv, PTL DEF Spec

\* The tables hold what their columns may hold.
THEOREM TypeCorrect == Spec => []TypeOK
<1>1. IInv => TypeOK
  BY DEF IInv
<1>. QED  BY <1>1, Invariance, PTL

\* Only requests that were handled at the same time book a slot twice
\* (booking.py, ensure_slot_available), or mix an appointment into it
\* (repositories/postgres/appointments.py, save).
THEOREM NoDoubleBookingHolds == Spec => []NoDoubleBooking
<1>1. IInv => NoDoubleBooking
  BY DEF IInv
<1>. QED  BY <1>1, Invariance, PTL

\* What a request of a call has written is found by all later ones of its
\* tool and by later extractions (tool_execution.py, intent_extract.py).
THEOREM WrittenOnceHolds == Spec => []WrittenOnce
<1>1. IInv => WrittenOnce
  BY DEF IInv, Kept, Before, WrittenOnce
<1>. QED  BY <1>1, Invariance, PTL

\* A success that is heard has its row, and a refusal has none
\* (tool_execution.py).
THEOREM AnswersTrueHolds == Spec => []AnswersTrue
<1>1. IInv => AnswersTrue
  BY DEF IInv
<1>. QED  BY <1>1, Invariance, PTL

\* A cancelled appointment is held again only by an edit that was handled at
\* the same time as a cancellation (routes/appointments.py).
THEOREM CancelledStaysHolds == Spec => CancelledStays
<1>1. ASSUME IInv, [Next]_vars, NEW p \in Request, rows[p] # NoRow,
             rows[p].what = "appointment", ~rows[p].held, rows'[p].held
      PROVE  \E q, x \in Request :
               /\ SaveWrites(q) /\ req[q].of = p
               /\ Over(x) /\ req[x].of = p /\ req[x].drop
               /\ Overlapped(x, q)
  <2>1. rows'[p] # rows[p]
    BY <1>1
  <2>2. PICK q \in Request : Works(q)
    <3>1. \A q \in Request : Arrives(q) => rows' = rows
      BY <1>1, ArrivesEffect, ArriveEffect DEF IInv
    <3>. QED  BY <1>1, <2>1, <3>1, Steps DEF vars
  <2>3. SaveWrites(q) /\ p = req[q].of
    <3>1. ~(Write(q) /\ p = q)
      BY <1>1, WriteEffect DEF IInv, Written, HasRow, At
    <3>. QED  BY <1>1, <2>1, <2>2, <3>1, RowsChange DEF IInv
  <2>4. /\ At(q, "flush") /\ req[q].kind \in {"edit", "cancel"}
        /\ req[q].kind = "cancel" => req[q].drop
        /\ req[q].what = rows[p].what
        /\ rows'[p].held # rows[p].held => rows'[p].held = ~req[q].drop
    BY <1>1, <2>1, <2>3, WritesBack DEF IInv
  <2>5. Edits(q)
    BY <1>1, <2>4 DEF Edits
  <2>6. CancelledMeanwhile(q)
    BY <1>1, <2>3, <2>5 DEF IInv, Undone
  <2>. QED  BY <2>3, <2>6 DEF CancelledMeanwhile
<1>2. IInv /\ [Next]_vars =>
        [\A p \in Request :
           (/\ rows[p] # NoRow /\ rows[p].what = "appointment" /\ ~rows[p].held
            /\ rows'[p].held)
           => \E q, x \in Request :
                /\ SaveWrites(q) /\ req[q].of = p
                /\ Over(x) /\ req[x].of = p /\ req[x].drop
                /\ Overlapped(x, q)]_rows
  BY <1>1
<1>. QED  BY <1>2, Invariance, PTL DEF Spec, CancelledStays
=============================================================================
