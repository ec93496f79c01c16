---------------------------- MODULE CallSession ----------------------------
(***************************************************************************)
(* One phone or web call on its way into the call record: the voice agent  *)
(* (apps/runtime/voice-agent, call_lifecycle.py and its callers) posts the *)
(* start of the call, its final transcript messages and its end, and the   *)
(* control-plane API (apps/control-plane/api, services/call_lifecycle.py)  *)
(* reads the record, decides, and saves it back whole.                     *)
(*                                                                         *)
(* The agent awaits one request at a time (_write_lock), but a request it  *)
(* gave up, after 5 seconds or because the call ended, goes on at the API, *)
(* where every await is a point at which other handlers run.  `abandoned'  *)
(* remembers that this happened.                                           *)
(***************************************************************************)
EXTENDS Naturals, Sequences, FiniteSets

CONSTANTS
  MaxFinals,     \* bound of the model: final messages of the call
  BufferLimit,   \* _MAX_PENDING_MESSAGES (4096 in the code)
  Closer,        \* callers of request_finish: close event, director, shutdown
  Gathered,      \* those of them the session's main task waits for
  HasProviderId, \* the start payload carries a provider_call_id
  Recorded,      \* direction "inbound" and recording egress configured
  Profiled,      \* the assistant has an insights_profile
  MaxFaults      \* bound of the model: failures of agent, API or network

ASSUME SessionAssumption ==
  /\ MaxFinals \in Nat
  /\ BufferLimit \in Nat \ {0}
  /\ Gathered \subseteq Closer
  /\ HasProviderId \in BOOLEAN
  /\ Recorded \in BOOLEAN
  /\ Profiled \in BOOLEAN
  /\ MaxFaults \in Nat

Final       == 1 .. MaxFinals         \* messages, by their sequence number
Rec         == 1 .. 2                 \* records: one per /start of the call
MaxRequests == 2 * MaxFinals + 3      \* no call needs more, see README
Req         == 1 .. MaxRequests

VARIABLES
  phase,      \* what the holder of _write_lock does; "idle": nobody holds it
  recordId,   \* self.record_id, 0 for None
  buffer,     \* self._pending_messages
  waiting,    \* messages of the tasks that queue for _write_lock
  batch,      \* messages a flush has still to post
  rounds,     \* flushes to go, the running one included
  said,       \* orchestrator._sequence
  closing,    \* orchestrator._closed
  caller,     \* where each caller of request_finish is
  committed,  \* self._finish_committed
  httpOpen,   \* the session's httpx client is open
  cur,        \* the request the agent awaits, 0 for none
  sent,       \* number of requests sent so far
  req,        \* the requests and how far the API got with each
  status,     \* call_records.status, "absent" while there is no row
  msgs,       \* the record's call_messages rows
  queued,     \* messages in the record's dispatch job, {} while there is none
  faults,     \* failures so far
  abandoned,  \* history: the agent gave up a request the API still worked on
  missed,     \* history: messages whose post got no verdict or was cancelled,
              \* and those a full buffer dropped
  acked       \* history: a /finish was answered

agent   == <<phase, recordId, buffer, waiting, batch, rounds, said, closing,
             caller, committed, httpOpen>>
wire    == <<cur, sent, req>>
db      == <<status, msgs, queued>>
history == <<faults, abandoned, missed, acked>>
vars    == <<agent, wire, db, history>>

Working == {"sent", "creating", "recording", "saving", "queueing"}
Failed  == {"error", "rejected", "lost"}
Stage   == Working \cup Failed \cup {"none", "ok", "done"}

Request == [kind  : {"none", "start", "append", "finish"},
            msg   : {0} \cup Final,
            rec   : {0} \cup Rec,
            stage : Stage,
            copy  : SUBSET Final]

NoRequest == [kind |-> "none", msg |-> 0, rec |-> 0, stage |-> "none",
              copy |-> {}]

TypeOK ==
  /\ phase \in {"booting", "starting", "idle", "appending", "restarting",
                "flushing", "finishing", "over"}
  /\ recordId \in {0} \cup Rec
  /\ buffer \in Seq(Final) /\ Len(buffer) <= BufferLimit
  /\ waiting \in Seq(Final)
  /\ batch \in Seq(Final)
  /\ rounds \in 0 .. 2
  /\ said \in 0 .. MaxFinals
  /\ closing \in BOOLEAN
  /\ caller \in [Closer -> {"out", "yielding", "sender", "sending", "done"}]
  /\ committed \in BOOLEAN
  /\ httpOpen \in BOOLEAN
  /\ cur \in {0} \cup Req
  /\ sent \in 0 .. MaxRequests
  /\ req \in [Req -> Request]
  /\ status \in [Rec -> {"absent", "in_progress", "ended"}]
  /\ msgs \in [Rec -> SUBSET Final]
  /\ queued \in [Rec -> SUBSET Final]
  /\ faults \in Nat
  /\ abandoned \in BOOLEAN
  /\ missed \subseteq Final
  /\ acked \in BOOLEAN

Init ==
  /\ phase = "booting"
  /\ recordId = 0
  /\ buffer = <<>> /\ waiting = <<>> /\ batch = <<>>
  /\ rounds = 0
  /\ said = 0
  /\ closing = FALSE
  /\ caller = [k \in Closer |-> "out"]
  /\ committed = FALSE
  /\ httpOpen = TRUE
  /\ cur = 0
  /\ sent = 0
  /\ req = [q \in Req |-> NoRequest]
  /\ status = [r \in Rec |-> "absent"]
  /\ msgs = [r \in Rec |-> {}]
  /\ queued = [r \in Rec |-> {}]
  /\ faults = 0
  /\ abandoned = FALSE
  /\ missed = {}
  /\ acked = FALSE

----------------------------------------------------------------------------
(* Requests, as the agent sees them *)

Of(kind) == {q \in Req : req[q].kind = kind}

\* self._http.post: a closed client raises at once.
Post(kind, m, r) ==
  /\ sent < MaxRequests
  /\ sent' = sent + 1
  /\ cur' = sent + 1
  /\ req' = [req EXCEPT ![sent + 1] =
               [kind |-> kind, msg |-> m, rec |-> r, copy |-> {},
                stage |-> IF httpOpen THEN "sent" ELSE "lost"]]

PostMessage(m) == Post("append", m, recordId)
PostStart ==
  /\ Cardinality(Of("start")) < 2
  /\ Post("start", 0, Cardinality(Of("start")) + 1)

\* A request nobody will hear of again keeps nothing but its kind.
Closed(q) == [NoRequest EXCEPT !.kind = req[q].kind, !.stage = "done"]

Answered == cur # 0 /\ req[cur].stage = "ok"

\* A response below 400.
Succeeds ==
  /\ Answered
  /\ cur' = 0
  /\ req' = [req EXCEPT ![cur] = Closed(cur)]
  /\ UNCHANGED <<sent, faults, abandoned>>

\* An error response, a broken connection, or no answer within five seconds or
\* before the client is closed; in these two cases the API's handler goes on.
Fails ==
  /\ cur # 0
  /\ cur' = 0
  /\ \/ /\ req[cur].stage \in Failed
        /\ req' = [req EXCEPT ![cur] = Closed(cur)]
        /\ UNCHANGED <<faults, abandoned>>
     \/ /\ req[cur].stage \in Working
        /\ \/ httpOpen /\ faults < MaxFaults /\ faults' = faults + 1
           \/ ~httpOpen /\ UNCHANGED faults
        /\ abandoned' = TRUE
        /\ UNCHANGED req
  /\ UNCHANGED sent

\* The awaiting task is cancelled: the answer is lost, the handler goes on.
Waits == cur # 0 /\ req[cur].stage \in Working

GiveUp ==
  /\ cur' = 0
  /\ req' = IF cur = 0 \/ Waits THEN req ELSE [req EXCEPT ![cur] = Closed(cur)]
  /\ abandoned' = (abandoned \/ Waits)
  /\ UNCHANGED sent

----------------------------------------------------------------------------
(* The agent during the call *)

Live == phase \notin {"booting", "starting", "over"}

\* Slip: the buffer grows without limit.
BufferedUnbounded(m) == Append(buffer, m)

\* _buffer_message drops the oldest message when the buffer is full.
Buffered(m) ==
  Append(IF Len(buffer) < BufferLimit THEN buffer ELSE Tail(buffer), m)

\* start_from_dispatch, before the voice session exists.
Boot ==
  /\ phase = "booting"
  /\ phase' = "starting"
  /\ PostStart
  /\ UNCHANGED <<recordId, buffer, waiting, batch, rounds, said, closing,
                 caller, committed, httpOpen, db, history>>

\* A failed start is only logged; finish will try it again.
StartReturns ==
  /\ phase = "starting"
  /\ phase' = "idle"
  /\ \/ Succeeds /\ recordId' = req[cur].rec
     \/ Fails /\ UNCHANGED recordId
  /\ UNCHANGED <<buffer, waiting, batch, rounds, said, closing, caller,
                 committed, httpOpen, db, missed, acked>>

\* handle_user_final or handle_assistant_final numbers the message and its
\* task queues for the lock.
Speak ==
  /\ Live /\ ~closing /\ said < MaxFinals
  /\ said' = said + 1
  /\ waiting' = Append(waiting, said + 1)
  /\ UNCHANGED <<phase, recordId, buffer, batch, rounds, closing, caller,
                 committed, httpOpen, wire, db, history>>

\* append_final under the lock, which is handed on in order.
AppendFinal ==
  /\ phase = "idle" /\ waiting # <<>>
  /\ waiting' = Tail(waiting)
  /\ \/ /\ recordId = 0
        /\ buffer' = Buffered(Head(waiting))
        /\ missed' = missed \cup (IF Len(buffer) < BufferLimit THEN {}
                                 ELSE {Head(buffer)})
        /\ UNCHANGED <<phase, wire>>
     \/ /\ recordId # 0
        /\ phase' = "appending"
        /\ PostMessage(Head(waiting))
        /\ UNCHANGED <<buffer, missed>>
  /\ UNCHANGED <<recordId, batch, rounds, said, closing, caller, committed,
                 httpOpen, db, faults, abandoned, acked>>

\* The post of m failed, and not because the API refused the message.
Miss(m) ==
  missed' = missed \cup (IF req[cur].stage = "rejected" THEN {} ELSE {m})

\* A message whose post failed is kept for the end of the call.
AppendReturns ==
  /\ phase = "appending"
  /\ phase' = "idle"
  /\ \/ Succeeds /\ UNCHANGED <<buffer, missed>>
     \/ /\ Fails
        /\ buffer' = Buffered(req[cur].msg)
        /\ Miss(req[cur].msg)
  /\ UNCHANGED <<recordId, waiting, batch, rounds, said, closing, caller,
                 committed, httpOpen, db, acked>>

----------------------------------------------------------------------------
(* The agent at the end of the call *)

\* Slip: the flag that /finish is on its way is not looked at.
FinishStartedCommittedOnly == committed
FinishStarted ==
  committed \/ \E k \in Closer : caller[k] \in {"sender", "sending"}

\* request_finish: mark_closed cancels the message tasks, the one that holds
\* the lock included; then finish passes its first critical section.
RequestFinish(k) ==
  /\ Live /\ caller[k] = "out"
  /\ closing' = TRUE
  /\ waiting' = <<>>
  /\ missed' = missed \cup {waiting[i] : i \in DOMAIN waiting}
                      \cup (IF phase = "appending" THEN {req[cur].msg} ELSE {})
  /\ \/ phase = "appending" /\ phase' = "idle" /\ GiveUp
     \/ phase # "appending" /\ UNCHANGED <<phase, wire, abandoned>>
  /\ caller' = [caller EXCEPT ![k] = IF FinishStarted THEN "done"
                                     ELSE "yielding"]
  /\ UNCHANGED <<recordId, buffer, batch, rounds, said, committed, httpOpen,
                 db, faults, acked>>

\* The second critical section, after sleep(0): one caller becomes the sender.
ChooseSender(k) ==
  /\ Live /\ caller[k] = "yielding"
  /\ caller' = [caller EXCEPT ![k] = IF FinishStarted THEN "done" ELSE "sender"]
  /\ UNCHANGED <<phase, recordId, buffer, waiting, batch, rounds, said, closing,
                 committed, httpOpen, wire, db, history>>

\* Slip: the newest message is popped first.
FlushNewestFirst(n) ==
  /\ phase' = "flushing"
  /\ rounds' = n
  /\ batch' = [i \in DOMAIN buffer |-> buffer[Len(buffer) + 1 - i]]
  /\ buffer' = <<>>

\* Take everything buffered and post it once more.
Flush(n) ==
  /\ phase' = "flushing"
  /\ rounds' = n
  /\ batch' = buffer
  /\ buffer' = <<>>

\* _send_finish gets the lock; without a record it retries the start first.
BeginFinish(k) ==
  /\ phase = "idle" /\ caller[k] = "sender"
  /\ caller' = [caller EXCEPT ![k] = "sending"]
  /\ \/ /\ recordId = 0
        /\ phase' = "restarting"
        /\ PostStart
        /\ UNCHANGED <<rounds, batch, buffer>>
     \/ /\ recordId # 0
        /\ Flush(1)
        /\ UNCHANGED wire
  /\ UNCHANGED <<recordId, waiting, said, closing, committed, httpOpen,
                 db, history>>

\* The finally clause of finish: whatever came of it, it is not tried again.
Commit ==
  /\ phase' = "idle"
  /\ committed' = TRUE
  /\ caller' = [k \in Closer |-> IF caller[k] = "sending" THEN "done"
                                 ELSE caller[k]]

\* A retried start flushes the buffer before _send_finish does so again; when
\* it fails too, the end of the call is dropped.
RestartReturns ==
  /\ phase = "restarting"
  /\ \/ /\ Succeeds
        /\ recordId' = req[cur].rec
        /\ Flush(2)
        /\ UNCHANGED <<committed, caller>>
     \/ /\ Fails
        /\ Commit
        /\ UNCHANGED <<recordId, rounds, batch, buffer>>
  /\ UNCHANGED <<waiting, said, closing, httpOpen, db, missed, acked>>

\* _post_message_unlocked for the next pending message.
FlushNext ==
  /\ phase = "flushing" /\ cur = 0 /\ batch # <<>>
  /\ PostMessage(Head(batch))
  /\ UNCHANGED <<agent, db, history>>

\* Slip: a message stays in the batch until the API accepts it.
FlushReturnsInsists ==
  /\ phase = "flushing" /\ cur # 0
  /\ \/ Succeeds /\ batch' = Tail(batch)
     \/ Fails /\ UNCHANGED batch
  /\ UNCHANGED <<phase, recordId, buffer, waiting, rounds, said, closing,
                 caller, committed, httpOpen, db, missed, acked>>

FlushReturns ==
  /\ phase = "flushing" /\ cur # 0
  /\ batch' = Tail(batch)
  /\ \/ Succeeds /\ UNCHANGED <<buffer, missed>>
     \/ /\ Fails
        /\ buffer' = Buffered(Head(batch))
        /\ Miss(Head(batch))
  /\ UNCHANGED <<phase, recordId, waiting, rounds, said, closing, caller,
                 committed, httpOpen, db, acked>>

\* The batch is through: flush again what a retried start left, then finish.
FlushEnds ==
  /\ phase = "flushing" /\ cur = 0 /\ batch = <<>>
  /\ \/ /\ rounds = 2
        /\ Flush(1)
        /\ UNCHANGED wire
     \/ /\ rounds = 1
        /\ rounds' = 0
        /\ phase' = "finishing"
        /\ Post("finish", 0, recordId)
        /\ UNCHANGED <<batch, buffer>>
  /\ UNCHANGED <<recordId, waiting, said, closing, caller, committed, httpOpen,
                 db, history>>

\* A failed /finish is logged and counted, nothing more.
FinishReturns ==
  /\ phase = "finishing"
  /\ \/ Succeeds /\ acked' = TRUE
     \/ Fails /\ UNCHANGED acked
  /\ Commit
  /\ UNCHANGED <<recordId, buffer, waiting, batch, rounds, said, closing,
                 httpOpen, db, missed>>

\* A caller returned, which sets `closed', and the gathered ones are through:
\* the session's main task leaves `async with httpx.AsyncClient', even while
\* the shutdown callback is still sending.
CloseClient ==
  /\ Live /\ httpOpen
  /\ \E k \in Closer : caller[k] = "done"
  /\ \A k \in Gathered : caller[k] \in {"out", "done"}
  /\ httpOpen' = FALSE
  /\ UNCHANGED <<phase, recordId, buffer, waiting, batch, rounds, said, closing,
                 caller, committed, wire, db, history>>

\* The job process is killed.
Kill ==
  /\ phase # "over" /\ faults < MaxFaults
  /\ faults' = faults + 1
  /\ phase' = "over"
  /\ GiveUp
  /\ UNCHANGED <<recordId, buffer, waiting, batch, rounds, said, closing,
                 caller, committed, httpOpen, db, missed, acked>>

----------------------------------------------------------------------------
(* The API: a handler runs until its next await *)

\* A reply nobody awaits is gone.
Reply(q, stage) ==
  req' = [req EXCEPT ![q] = IF q = cur THEN [@ EXCEPT !.stage = stage]
                            ELSE Closed(q)]

Handling(q, kind, stage) == req[q].kind = kind /\ req[q].stage = stage

OfTheCall(r) == \/ HasProviderId /\ status[r] # "absent"
                \/ status[r] = "in_progress"

\* start: by provider call id, whatever the status, then by room in progress.
StartLookup(q) ==
  /\ Handling(q, "start", "sent")
  /\ \/ \E r \in Rec :
          /\ OfTheCall(r)
          /\ req' = [req EXCEPT ![q] =
                       IF q = cur THEN [@ EXCEPT !.stage = "ok", !.rec = r]
                       ELSE Closed(q)]
     \/ /\ \A r \in Rec : ~OfTheCall(r)
        /\ req' = [req EXCEPT ![q].stage = "creating"]
  /\ UNCHANGED <<agent, cur, sent, db, history>>

\* Slip: the row is inserted without the unique indexes.
StartCreateNoIndex(q) ==
  /\ Handling(q, "start", "creating")
  /\ status' = [status EXCEPT ![req[q].rec] = "in_progress"]
  /\ Reply(q, "ok")
  /\ UNCHANGED <<agent, cur, sent, msgs, queued, history>>

\* The insert, under the two partial unique indexes of call_records.
StartCreate(q) ==
  /\ Handling(q, "start", "creating")
  /\ \/ /\ \E r \in Rec : OfTheCall(r)
        /\ Reply(q, "error")
        /\ UNCHANGED status
     \/ /\ \A r \in Rec : ~OfTheCall(r)
        /\ status' = [status EXCEPT ![req[q].rec] = "in_progress"]
        /\ IF Recorded THEN req' = [req EXCEPT ![q].stage = "recording"]
           ELSE Reply(q, "ok")
  /\ UNCHANGED <<agent, cur, sent, msgs, queued, history>>

\* PostgresCallRecordRepository.save of a record read earlier, as one step at
\* its commit.  The UPDATE carries only columns that differ from the row as
\* save loaded it, so a status put back to in_progress may or may not be
\* written; rows committed since the DELETE stay beside the inserted ones, and
\* where their keys meet the save fails.
Save(q, st, new, next) ==
  LET r == req[q].rec
      stale == msgs[r] # req[q].copy \/ status[r] # "in_progress"
  IN \/ \E s \in {st} \cup (IF st = "ended" THEN {} ELSE {status[r]}),
           n \in {new} \cup (IF new \cap msgs[r] = {} THEN {new \cup msgs[r]}
                           ELSE {}) :
          /\ s = "in_progress" => \A o \in Rec \ {r} : status[o] # s
          /\ status' = [status EXCEPT ![r] = s]
          /\ msgs' = [msgs EXCEPT ![r] = n]
          /\ next
     \/ /\ stale
        /\ Reply(q, "error")
        /\ UNCHANGED <<status, msgs>>

\* After the egress call, which never raises, the record built at the start,
\* without messages, is saved a second time.
SaveRecording(q) ==
  /\ Handling(q, "start", "recording")
  /\ Save(q, "in_progress", {}, Reply(q, "ok"))
  /\ UNCHANGED <<agent, cur, sent, queued, history>>

\* Slip: the new message replaces the record's list.
AppendReadForgets(q) ==
  /\ Handling(q, "append", "sent")
  /\ status[req[q].rec] = "in_progress"
  /\ req' = [req EXCEPT ![q].stage = "saving", ![q].copy = {}]
  /\ UNCHANGED <<agent, cur, sent, db, history>>

\* append_message up to its save: 409 once the call ended or when the sequence
\* does not increase, 200 for a message the record has.
AppendRead(q) ==
  LET r == req[q].rec
      m == req[q].msg
  IN /\ Handling(q, "append", "sent")
     /\ \/ /\ \/ status[r] # "in_progress"
              \/ m \notin msgs[r] /\ \E n \in msgs[r] : m < n
           /\ Reply(q, "rejected")
        \/ /\ status[r] = "in_progress" /\ m \in msgs[r]
           /\ Reply(q, "ok")
        \/ /\ status[r] = "in_progress" /\ \A n \in msgs[r] : n < m
           /\ req' = [req EXCEPT ![q].stage = "saving", ![q].copy = msgs[r]]
     /\ UNCHANGED <<agent, cur, sent, db, history>>

AppendSave(q) ==
  /\ Handling(q, "append", "saving")
  /\ Save(q, "in_progress", req[q].copy \cup {req[q].msg}, Reply(q, "ok"))
  /\ UNCHANGED <<agent, cur, sent, queued, history>>

\* Slip: the dispatch job is queued ahead of the save.
FinishReadQueuesFirst(q) ==
  /\ Handling(q, "finish", "sent")
  /\ req' = [req EXCEPT ![q].stage = "queueing", ![q].copy = msgs[req[q].rec]]
  /\ UNCHANGED <<agent, cur, sent, db, history>>

\* finish up to its save; a call that ended already is returned as it is.
FinishRead(q) ==
  LET r == req[q].rec
  IN /\ Handling(q, "finish", "sent")
     /\ \/ /\ status[r] # "in_progress"
           /\ Reply(q, "ok")
        \/ /\ status[r] = "in_progress"
           /\ req' = [req EXCEPT ![q].stage = "saving", ![q].copy = msgs[r]]
     /\ UNCHANGED <<agent, cur, sent, db, history>>

\* The save hands back the messages it wrote or those its session had loaded.
\* (try_extract_intents, which follows, writes appointments and callbacks only
\* and never raises.)
FinishSave(q) ==
  /\ Handling(q, "finish", "saving")
  /\ Save(q, "ended", req[q].copy,
          \E body \in {req[q].copy, msgs[req[q].rec]} :
            req' = [req EXCEPT ![q].stage = "queueing", ![q].copy = body])
  /\ UNCHANGED <<agent, cur, sent, queued, history>>

\* try_enqueue_ended_call: one job for each call, none without a profile or
\* without messages, and no exception gets out.
FinishEnqueue(q) ==
  LET r == req[q].rec
  IN /\ Handling(q, "finish", "queueing")
     /\ \/ /\ Profiled /\ queued[r] = {}
           /\ queued' = [queued EXCEPT ![r] = req[q].copy]
        \/ UNCHANGED queued
     /\ Reply(q, "ok")
     /\ UNCHANGED <<agent, cur, sent, status, msgs, history>>

----------------------------------------------------------------------------
(* Failures of the API and of the network *)

Fault == faults < MaxFaults /\ faults' = faults + 1

\* The request never arrives, or the answer does not come back.
Drop ==
  /\ Fault
  /\ cur # 0 /\ req[cur].stage \in {"sent", "ok", "error", "rejected"}
  /\ req' = [req EXCEPT ![cur].stage = "lost"]
  /\ UNCHANGED <<agent, cur, sent, db, abandoned, missed, acked>>

\* A database error ends the handler before its next write.
HandlerError(q) ==
  /\ Fault
  /\ req[q].stage \in Working \ {"queueing"}
  /\ Reply(q, "error")
  /\ UNCHANGED <<agent, cur, sent, db, abandoned, missed, acked>>

\* The API process restarts: its handlers are gone.
ApiCrash ==
  /\ Fault
  /\ req' = [q \in Req |->
               IF req[q].stage \notin Working THEN req[q]
               ELSE IF q = cur THEN [req[q] EXCEPT !.stage = "lost"]
               ELSE Closed(q)]
  /\ UNCHANGED <<agent, cur, sent, db, abandoned, missed, acked>>

----------------------------------------------------------------------------

AgentStep ==
  \/ Boot \/ StartReturns \/ AppendFinal \/ AppendReturns
  \/ (\E k \in Closer : ChooseSender(k) \/ BeginFinish(k))
  \/ RestartReturns \/ FlushNext \/ FlushReturns \/ FlushEnds
  \/ FinishReturns

Handle(q) ==
  \/ StartLookup(q) \/ StartCreate(q) \/ SaveRecording(q)
  \/ AppendRead(q) \/ AppendSave(q)
  \/ FinishRead(q) \/ FinishSave(q) \/ FinishEnqueue(q)

Next ==
  \/ AgentStep \/ Speak \/ (\E k \in Closer : RequestFinish(k))
  \/ CloseClient \/ Kill
  \/ (\E q \in Req : Handle(q) \/ HandlerError(q))
  \/ Drop \/ ApiCrash

Spec == Init /\ [][Next]_vars

\* The event loops of agent and API run every task that can go on.
Fairness == WF_vars(AgentStep) /\ WF_vars(\E q \in Req : Handle(q))

FairSpec == Spec /\ Fairness

----------------------------------------------------------------------------
(* Properties *)

\* One call, one /finish: however many of the close event, the director and
\* the shutdown callback ask for it, and in whatever order they reach the two
\* critical sections of finish (DECISIONS.md:66).
OneFinishRequest == Cardinality(Of("finish")) <= 1

\* One call, one record: a start that is tried again finds the record of the
\* first or is refused.  Without a provider call id only the room tells them
\* apart, and a first start still under way when the call has ended escapes it.
OneRecord ==
  HasProviderId \/ ~abandoned =>
    Cardinality({r \in Rec : status[r] # "absent"}) <= 1

\* As long as the agent never left a request behind, the whole-record saves of
\* different handlers do not undo each other: no ended call is reopened and no
\* stored message disappears.
NothingUndone ==
  [][~abandoned' => \A r \in Rec :
       /\ status[r] = "ended" => status'[r] = "ended"
       /\ msgs[r] \subseteq msgs'[r]]_vars

\* Under the same condition, what Call Insights will be sent is the transcript
\* of a call that has ended, as the record has it.
QueuedIsTranscript ==
  ~abandoned => \A r \in Rec :
    queued[r] # {} => queued[r] = msgs[r] /\ status[r] = "ended"

\* Under the same condition, once the agent has the answer to its /finish and
\* no message was dropped, cancelled or left without an answer, the record is
\* ended and holds the whole call, what was spoken before a late start included.
WholeTranscript ==
  acked /\ missed = {} /\ ~abandoned =>
    status[recordId] = "ended" /\ msgs[recordId] = 1 .. said

\* Once anyone asked for the end of the call, the one attempt to report it
\* comes to an end: no retry loop, no caller waiting for another.
HangUpSettles == closing ~> (committed \/ phase = "over")

\* What the API's error message and its test say of an ended call: it stays
\* ended.  A save that was under way when the agent hung up reopens it.
EndedStaysEnded ==
  [][\A r \in Rec : status[r] = "ended" => status'[r] = "ended"]_vars

=============================================================================
