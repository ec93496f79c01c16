------------------------------- MODULE Booking -------------------------------
(***************************************************************************)
(* Appointments and callback tasks, and everybody who writes them: the     *)
(* tools of a voice agent in its call (tool_client.py, tool_execution.py), *)
(* the extraction of intents from a transcript (intent_extract.py) and the *)
(* staff on the dashboard (routes/appointments.py, callback_tasks.py).     *)
(*                                                                         *)
(* Every database call of the API is a transaction of its own and nothing  *)
(* holds a lock from one to the next, so a request is a sequence of steps  *)
(* between which others run.  A request stands for the row it creates.     *)
(* A save is two steps even so: Postgres runs at READ COMMITTED, and the   *)
(* UPDATE carries only the columns that differed when the row was read     *)
(* again (appointments.py, callback_tasks.py).                             *)
(*                                                                         *)
(* Of the data only what the checks compare is kept: pending and confirmed *)
(* are "held", and so are open and done.  Business hours, the grid and the *)
(* notice of a service are a free refusal.  All appointments are those of  *)
(* one voice agent instance; without an instance nothing is checked.       *)
(***************************************************************************)
EXTENDS Integers, FiniteSets

CONSTANTS
  Call,        \* calls; a call is also the session id of its tools (the room)
  Time,        \* points in time
  Slot,        \* the time ranges that are asked for
  Request,     \* requests to the API: the bound of the model
  MaxFaults,   \* bound: handlers that die
  NoRow, NoCall

VARIABLES
  rows,         \* the appointment or task a request created
  invocations,  \* table tool_invocations, unique by call, tool and arguments
  req,          \* the requests
  before,       \* history: <<p, q>> if p was over when q arrived
  faults

vars == <<rows, invocations, req, before, faults>>

Tool == {"appointment", "callback"}
Kind == Tool \cup {"extract", "book", "edit", "cancel"}

Stage == {"key", "session", "bind", "existing", "read", "check", "write",
          "save", "flush", "store", "done"}

\* What the schema demands of the slot of a row.
TimeRange == {s \in [start: Time, end: Time] : s.start <= s.end}

\* ranges_overlap.
RangesOverlap(s, t) == s.start < t.end /\ t.start < s.end

\* The columns of a row that an edit may change.
Column == {"start", "end", "held"}

\* by, a history: the last request that changed a column.
Row == [what: Tool, slot: TimeRange, held: BOOLEAN,
        record: Call \cup {NoCall}, by: Request]

\* linked: the payload names the call's record; what: the kind of row to
\* write; of: the request whose row is edited; patch: what an edit names of
\* the slot; drop: it cancels; diff: the columns its UPDATE will carry;
\* heard: what the client was answered.
Req == [kind: Kind, stage: Stage, call: Call \cup {NoCall},
        linked: BOOLEAN, slot: TimeRange, of: Request \cup {NoRow},
        patch: SUBSET {"start", "end"}, drop: BOOLEAN, diff: SUBSET Column,
        what: Tool, status: {"ok", "error"},
        heard: {"none", "ok", "error", "lost"}]

ASSUME BookingAssumption ==
  /\ NoCall \notin Call /\ NoRow \notin Request \cup Row \cup Req
  /\ Time \subseteq Int /\ Slot \subseteq TimeRange
  /\ MaxFaults \in Nat

TypeOK ==
  /\ rows \in [Request -> Row \cup {NoRow}]
  /\ invocations \subseteq [call: Call, tool: Tool, slot: TimeRange,
                            status: {"ok", "error"}, row: Request]
  /\ req \in [Request -> Req \cup {NoRow}]
  /\ before \subseteq Request \X Request
  /\ faults \in 0..MaxFaults

Init ==
  /\ rows = [q \in Request |-> NoRow]
  /\ invocations = {}
  /\ req = [q \in Request |-> NoRow]
  /\ before = {}
  /\ faults = 0

-----------------------------------------------------------------------------
\* Requests arrive.

At(q, stage) == req[q] # NoRow /\ req[q].stage = stage

Over(q) == At(q, "done")

Arrive(q, r) ==
  /\ req' = [req EXCEPT ![q] = r]
  /\ before' = before \cup {p \in Request : Over(p)} \X {q}
  /\ UNCHANGED <<rows, invocations, faults>>

New(kind, stage, c, linked, s, what) ==
  [kind |-> kind, stage |-> stage, call |-> c, linked |-> linked, slot |-> s,
   of |-> NoRow, patch |-> {}, drop |-> FALSE, diff |-> {}, what |-> what,
   status |-> "ok", heard |-> "none"]

\* ToolInvocationClient.invoke: a write is posted once.  The key is the
\* marker, that is the tool and its arguments; the same one can come again
\* from a second job in the room.  The record is not known yet if the start
\* of the call has failed so far.
ToolCalled(q, c, linked, tool, s) ==
  Arrive(q, New(tool, "key", c, linked, s, tool))

\* An explicit extraction, or the one after a finish or an edited record;
\* the transcript asks for an appointment at s or for a call back.
ExtractAsked(q, c, what, s) ==
  /\ what = "callback" => s = CHOOSE any \in Slot : TRUE
  /\ Arrive(q, New("extract", "bind", c, TRUE, s, what))

StaffBooks(q, s) ==
  Arrive(q, New("book", "check", NoCall, FALSE, s, "appointment"))

Change(kind, p, s, patch, drop) ==
  [New(kind, "read", NoCall, FALSE, s, rows[p].what)
     EXCEPT !.of = p, !.patch = patch, !.drop = drop]

\* PATCH of a row: its start or its end or both to that of s and, if drop, its
\* status to cancelled; complete and reopen of a callback task are such edits
\* too.
StaffEdits(q, p, s, patch, drop) ==
  /\ rows[p] # NoRow
  /\ rows[p].what = "callback" => patch = {}
  /\ patch = {} => s = CHOOSE any \in Slot : TRUE
  /\ Arrive(q, Change("edit", p, s, patch, drop))

StaffCancels(q, p) ==
  /\ rows[p] # NoRow /\ rows[p].what = "appointment"
  /\ Arrive(q, Change("cancel", p, rows[p].slot, {}, TRUE))

-----------------------------------------------------------------------------
\* What the handlers do, one transaction each.

Go(q, stage) == req' = [req EXCEPT ![q].stage = stage]

\* The handler is through.  The agent waits five seconds for a tool
\* (ToolInvocationClient._post_once) and may have given up before.
Answer(q, a) ==
  \E heard \in {a} \cup (IF req[q].kind \in Tool THEN {"lost"} ELSE {}) :
    req' = [req EXCEPT ![q].stage = "done", ![q].heard = heard]

OfKey(q) == {i \in invocations : /\ i.call = req[q].call
                                 /\ i.tool = req[q].kind
                                 /\ i.slot = req[q].slot}

\* execute: an invocation with the same key answers, failed or not.
FindKey(q) ==
  /\ At(q, "key")
  /\ \/ \E i \in OfKey(q) : Answer(q, i.status)
     \/ OfKey(q) = {} /\ Go(q, "session")
  /\ UNCHANGED <<rows, invocations, before, faults>>

\* Slip: any successful write of the session answers.
WritesAnyTool(q) ==
  {i \in invocations : i.call = req[q].call /\ i.status = "ok"}

\* _existing_successful_write.
Writes(q) ==
  {i \in invocations : /\ i.call = req[q].call
                       /\ i.tool = req[q].kind
                       /\ i.status = "ok"}

\* ... so does a successful write of the session with the same tool; a record
\* that staff has deleted is an error that is stored.
FindSession(q) ==
  /\ At(q, "session")
  /\ \/ Writes(q) # {} /\ Answer(q, "ok")
     \/ Writes(q) = {} /\ Go(q, IF req[q].kind = "appointment" THEN "check"
                                ELSE "write")
     \/ /\ Writes(q) = {} /\ req[q].linked
        /\ req' = [req EXCEPT ![q].stage = "store", ![q].status = "error"]
  /\ UNCHANGED <<rows, invocations, before, faults>>

\* Slip: only what the staff has booked or moved is in the way.
ConflictsOfStaff(q) ==
  {p \in Request : /\ rows[p] # NoRow /\ rows[p].what = "appointment"
                   /\ rows[p].held /\ p # req[q].of
                   /\ req[rows[p].by].kind \in {"book", "edit"}
                   /\ RangesOverlap(req[q].slot, rows[p].slot)}

\* overlapping_occupants: the other held appointments the slot clashes with.
Conflicts(q) ==
  {p \in Request : /\ rows[p] # NoRow /\ rows[p].what = "appointment"
                   /\ rows[p].held /\ p # req[q].of
                   /\ RangesOverlap(req[q].slot, rows[p].slot)}

\* SlotUnavailableError: a tool stores its error, an extraction falls back to
\* a callback task, the staff gets a 409.
Refuse(q) ==
  CASE req[q].kind = "appointment" ->
         req' = [req EXCEPT ![q].stage = "store", ![q].status = "error"]
    [] req[q].kind = "extract" ->
         req' = [req EXCEPT ![q].stage = "write", ![q].what = "callback"]
    [] OTHER -> Answer(q, "error")

\* ensure_slot_available; a free slot may be refused for other reasons.
Check(q) ==
  /\ At(q, "check")
  /\ \/ Refuse(q)
     \/ /\ Conflicts(q) = {}
        /\ Go(q, IF req[q].kind = "edit" THEN "save" ELSE "write")
  /\ UNCHANGED <<rows, invocations, before, faults>>

\* Slip: an unknown record is stored as an empty id.
RecordOfEmpty(q) == IF req[q].linked THEN req[q].call ELSE NoRow

\* appointments.create or callbacks.create.
RecordOf(q) == IF req[q].linked THEN req[q].call ELSE NoCall

Write(q) ==
  /\ At(q, "write")
  /\ rows' = [rows EXCEPT ![q] = [what |-> req[q].what, slot |-> req[q].slot,
                                  held |-> TRUE, record |-> RecordOf(q),
                                  by |-> q]]
  /\ IF req[q].kind \in Tool THEN Go(q, "store") ELSE Answer(q, "ok")
  /\ UNCHANGED <<invocations, before, faults>>

\* _store, under the unique index: the loser's error is not caught, and its
\* row stays.
Store(q) ==
  /\ At(q, "store")
  /\ IF OfKey(q) # {} THEN Answer(q, "lost") /\ UNCHANGED invocations
     ELSE /\ Answer(q, req[q].status)
          /\ invocations' = invocations \cup
               {[call |-> req[q].call, tool |-> req[q].kind,
                 slot |-> req[q].slot, status |-> req[q].status, row |-> q]}
  /\ UNCHANGED <<rows, before, faults>>

\* persist_extracted_intents: nothing to do if a tool of the call wrote, ...
Bind(q) ==
  /\ At(q, "bind")
  /\ IF \E i \in invocations : i.call = req[q].call /\ i.status = "ok"
     THEN Answer(q, "ok") ELSE Go(q, "existing")
  /\ UNCHANGED <<rows, invocations, before, faults>>

\* Slip: only appointments of the call are looked for.
ExistingAppointments(q) ==
  {p \in Request : /\ rows[p] # NoRow /\ rows[p].record = req[q].call
                   /\ rows[p].what = "appointment"}

\* find_by_call_record_id, of appointments and of callbacks.
Existing(q) ==
  {p \in Request : rows[p] # NoRow /\ rows[p].record = req[q].call}

\* ... or if the record has an appointment or a callback task.
FindExisting(q) ==
  /\ At(q, "existing")
  /\ IF Existing(q) # {} THEN Answer(q, "ok")
     ELSE Go(q, IF req[q].what = "appointment" THEN "check" ELSE "write")
  /\ UNCHANGED <<rows, invocations, before, faults>>

\* Slip: a cancelled appointment is edited like any other.
MayChangeAny(r, kind) == TRUE

\* A cancelled appointment cannot be modified or cancelled again.
MayChange(r, kind) == r.what = "callback" \/ r.held

\* model_copy: the slot of the row but for what the edit names.
Merged(q, row) ==
  [start |-> IF "start" \in req[q].patch THEN req[q].slot.start ELSE row.slot.start,
   end   |-> IF "end"   \in req[q].patch THEN req[q].slot.end   ELSE row.slot.end]

\* get: the row an edit or a cancellation starts from, which is the whole row
\* it will save.  A callback task is not checked.
Read(q) ==
  /\ At(q, "read")
  /\ LET row  == rows[req[q].of]
         slot == Merged(q, row)
     IN  \/ /\ ~MayChange(row, req[q].kind)
            /\ Answer(q, IF req[q].kind = "cancel" THEN "ok" ELSE "error")
         \/ /\ MayChange(row, req[q].kind) /\ slot.end < slot.start
            /\ Answer(q, "error")
         \/ /\ MayChange(row, req[q].kind) /\ slot.start <= slot.end
            /\ req' = [req EXCEPT
                 ![q].slot = slot,
                 ![q].stage = IF req[q].kind = "edit" /\ row.what = "appointment"
                              THEN "check" ELSE "save"]
  /\ UNCHANGED <<rows, invocations, before, faults>>

\* The columns in which the row to save differs from the one in the table.  Of
\* two held rows one may be pending and the other confirmed, or open and done.
Differing(q, row) ==
  (IF req[q].slot.start # row.slot.start THEN {"start"} ELSE {}) \cup
  (IF req[q].slot.end # row.slot.end THEN {"end"} ELSE {}) \cup
  (IF row.held = req[q].drop THEN {"held"} ELSE {})

\* save: the row is read again and all its columns are assigned.
SaveReads(q) ==
  /\ At(q, "save")
  /\ LET row == rows[req[q].of]
     IN  \E status \in IF row.held THEN {{}, {"held"}} ELSE {{}} :
           req' = [req EXCEPT ![q].stage = "flush",
                              ![q].diff = Differing(q, row) \cup status]
  /\ UNCHANGED <<rows, invocations, before, faults>>

\* The UPDATE of a save, on the row as it is by now.
Updated(q, row) ==
  LET diff == req[q].diff
  IN  [row EXCEPT
         !.slot = [start |-> IF "start" \in diff THEN req[q].slot.start ELSE @.start,
                   end   |-> IF "end"   \in diff THEN req[q].slot.end   ELSE @.end],
         !.held = IF "held" \in diff THEN ~req[q].drop ELSE @,
         !.by   = IF diff = {} THEN @ ELSE q]

\* ... and commit: the UPDATE, which the check constraint of the table may
\* refuse.
SaveWrites(q) ==
  /\ At(q, "flush")
  /\ LET p   == req[q].of
         new == Updated(q, rows[p])
     IN  \/ /\ new.slot.start <= new.slot.end
            /\ rows' = [rows EXCEPT ![p] = new]
            /\ Answer(q, "ok")
         \/ /\ new.slot.end < new.slot.start
            /\ rows' = rows
            /\ Answer(q, "lost")
  /\ UNCHANGED <<invocations, before, faults>>

-----------------------------------------------------------------------------
\* What goes wrong.

\* A database error in a handler, or the API process dies under it.
Dies(q) ==
  /\ req[q] # NoRow /\ ~Over(q)
  /\ faults < MaxFaults
  /\ faults' = faults + 1
  /\ Answer(q, "lost")
  /\ UNCHANGED <<rows, invocations, before>>

-----------------------------------------------------------------------------

Arrives(q) ==
  /\ req[q] = NoRow
  /\ \/ \E c \in Call, linked \in BOOLEAN, t \in Tool, s \in Slot :
          ToolCalled(q, c, linked, t, s)
     \/ \E c \in Call, t \in Tool, s \in Slot : ExtractAsked(q, c, t, s)
     \/ \E s \in Slot : StaffBooks(q, s)
     \/ \E p \in Request, s \in Slot, patch \in SUBSET {"start", "end"},
           drop \in BOOLEAN : StaffEdits(q, p, s, patch, drop)
     \/ \E p \in Request : StaffCancels(q, p)

Handles(q) ==
  \/ FindKey(q) \/ FindSession(q) \/ Bind(q) \/ FindExisting(q)
  \/ Read(q) \/ Check(q) \/ Write(q) \/ SaveReads(q) \/ SaveWrites(q) \/ Store(q)

Next == \E q \in Request : Arrives(q) \/ Handles(q) \/ Dies(q)

Spec == Init /\ [][Next]_vars

-----------------------------------------------------------------------------
\* Properties.

Overlapped(p, q) == <<p, q>> \notin before /\ <<q, p>> \notin before

\* Another edit or cancellation of p was handled at the same time as q.
Contended(p, q) ==
  \E x \in Request \ {q} : req[x] # NoRow /\ req[x].of = p /\ Overlapped(x, q)

\* The last to change p left it at a slot it has not checked, because it
\* wrote only its own columns beside another's.
Mixed(p) ==
  LET q == rows[p].by
  IN  /\ req[q].kind = "cancel" \/ req[q].slot # rows[p].slot
      /\ Contended(p, q)

\* A slot is booked twice only by two requests that were handled at the same
\* time, or with an appointment whose start and end come from two edits of it
\* that were: without a constraint in the database, checking first and writing
\* later (booking.py:35) protects against everyone who was through.
NoDoubleBooking ==
  \A p, r \in Request :
    (/\ p # r /\ rows[p] # NoRow /\ rows[r] # NoRow
     /\ rows[p].what = "appointment" /\ rows[r].what = "appointment"
     /\ rows[p].held /\ rows[r].held
     /\ RangesOverlap(rows[p].slot, rows[r].slot))
    => \/ Overlapped(rows[p].by, rows[r].by)
       \/ Mixed(p) \/ Mixed(r)

\* What a finished request left for later ones to find: an invocation that
\* succeeded, or for an extraction a row that names the record.
Recorded(p) == \E i \in invocations : i.row = p /\ i.status = "ok"

VisibleTo(p, q) ==
  \/ req[q].kind = req[p].kind /\ req[p].kind \in Tool /\ Recorded(p)
  \/ req[q].kind = "extract"
       /\ (Recorded(p) \/ req[p].linked)

\* Once a request of a call has written and has been answered, no later call
\* of the same tool and no later extraction of that call writes a second row,
\* also when the first client never heard the answer.
WrittenOnce ==
  \A p, q \in Request :
    (/\ <<p, q>> \in before /\ rows[p] # NoRow
     /\ req[p].kind \in Tool \cup {"extract"}
     /\ req[p].call = req[q].call /\ VisibleTo(p, q))
    => rows[q] = NoRow

\* What a caller is told is true: a success has its row, from this or an
\* earlier request of the call, and a refusal has left none.
AnswersTrue ==
  \A q \in Request :
    (req[q] # NoRow /\ req[q].kind \in Tool) =>
      /\ req[q].heard = "ok" =>
           \E p \in Request : /\ rows[p] # NoRow
                              /\ rows[p].what = req[q].kind
                              /\ req[p].call = req[q].call
      /\ req[q].heard = "error" => rows[q] = NoRow

\* A cancelled appointment is held again only when an edit is saved that was
\* handled at the same time as a cancellation: a status it had read before
\* wins over the later one, never an edit that began after it.
CancelledStays ==
  [][\A p \in Request :
       (/\ rows[p] # NoRow /\ rows[p].what = "appointment" /\ ~rows[p].held
        /\ rows'[p].held)
       => \E q, x \in Request :
            /\ SaveWrites(q) /\ req[q].of = p
            /\ Over(x) /\ req[x].of = p /\ req[x].drop
            /\ Overlapped(x, q)]_rows

=============================================================================
