-------------------------- MODULE CallRecordProofs --------------------------
(***************************************************************************)
(* Theorems about the call record in CallSession: what the handlers of the *)
(* API, each saving the whole record it read, do to one another's work,    *)
(* and that no message gets lost on the way from the agent to the record.  *)
(***************************************************************************)
EXTENDS CallSessionProofs

\* A start whose record may still be inserted.
Starting(q) == req[q].kind = "start" /\ req[q].stage \in {"sent", "creating"}

\* Records are numbered by the starts; a start has its number to itself until
\* it finds or inserts a record, and everything else is about an existing one.
RecordInv ==
  /\ \A q \in Req :
       /\ Open(q) /\ req[q].kind = "start" =>
            req[q].rec <= Cardinality(Of("start")) /\ req[q].copy = {}
       /\ Starting(q) => status[req[q].rec] = "absent"
       /\ Open(q) /\ (req[q].kind # "start" \/ req[q].stage \in {"recording", "ok"}) =>
            status[req[q].rec] # "absent"
  /\ \A p, q \in Req :
       Starting(p) /\ Starting(q) /\ req[p].rec = req[q].rec => p = q
  /\ \A r \in Rec :
       /\ status[r] # "absent" => r <= Cardinality(Of("start"))
       /\ status[r] = "absent" => msgs[r] = {}

AgentInv ==
  /\ recordId # 0 => status[recordId] # "absent"
  /\ phase \in {"booting", "starting"} => ~committed

\* While the agent has left no request behind, only the one it awaits is being
\* handled, and what that handler read is still what the record holds.
QuietInv ==
  ~abandoned =>
    /\ \A q \in Req :
         /\ req[q].stage \in Working => q = cur
         /\ req[q].stage \in {"saving", "recording"} =>
              /\ status[req[q].rec] = "in_progress"
              /\ req[q].copy = msgs[req[q].rec]
         /\ req[q].stage = "queueing" =>
              /\ status[req[q].rec] = "ended"
              /\ req[q].copy = msgs[req[q].rec]
    /\ (\E r \in Rec : status[r] = "ended") => Of("finish") # {}

OnlyRecord ==
  HasProviderId \/ ~abandoned =>
    \A r, s \in Rec : status[r] # "absent" /\ status[s] # "absent" => r = s

RInv == IInv /\ RecordInv /\ AgentInv /\ QuietInv /\ OnlyRecord /\ QueuedIsTranscript

----------------------------------------------------------------------------
(* What a handler does to its request and to the record *)

Others(q) ==
  /\ \A p \in Req : p # q => req'[p] = req[p]
  /\ req'[q].kind = req[q].kind
  /\ UNCHANGED <<agent, cur, sent, abandoned>>

Same(q) == req'[q].rec = req[q].rec /\ req'[q].copy = req[q].copy

Answers(q, stage) ==
  \/ q # cur /\ req'[q].stage = "done"
  \/ q = cur /\ req'[q].stage = stage /\ Same(q)

LEMMA ReplyAnswers ==
  ASSUME TypeOK, NEW q \in Req, NEW stage, Reply(q, stage),
         UNCHANGED <<agent, cur, sent, abandoned>>
  PROVE  Others(q) /\ Answers(q, stage)
<1>1. req \in [Req -> Request]
  BY DEF TypeOK
<1>2. CASE q = cur
  <2>1. req' = [req EXCEPT ![q] = [req[q] EXCEPT !.stage = stage]]
    BY <1>2 DEF Reply
  <2>2. \A p \in Req : p # q => req'[p] = req[p]
    BY <1>1, <2>1
  <2>3. req'[q] = [req[q] EXCEPT !.stage = stage]
    BY <1>1, <2>1
  <2>4. req'[q].kind = req[q].kind /\ req'[q].stage = stage /\ Same(q)
    BY <1>1, <2>3 DEF Request, Same
  <2>. QED  BY <1>2, <2>2, <2>4 DEF Others, Answers
<1>3. CASE q # cur
  <2>1. req' = [req EXCEPT ![q] = Closed(q)]
    BY <1>3 DEF Reply
  <2>. QED  BY <1>1, <1>3, <2>1, ClosedRequest DEF Others, Answers
<1>. QED  BY <1>2, <1>3

LEMMA AdvanceFacts ==
  ASSUME TypeOK, NEW q \in Req, NEW stage, UNCHANGED <<agent, cur, sent, abandoned>>
  PROVE  /\ req' = [req EXCEPT ![q].stage = stage] =>
              Others(q) /\ req'[q].stage = stage /\ Same(q)
         /\ \A copy :
              req' = [req EXCEPT ![q].stage = stage, ![q].copy = copy] =>
                /\ Others(q) /\ req'[q].stage = stage
                /\ req'[q].rec = req[q].rec /\ req'[q].copy = copy
<1>1. req \in [Req -> Request] /\ req[q] \in Request
  BY DEF TypeOK
<1>2. ASSUME req' = [req EXCEPT ![q].stage = stage]
      PROVE  Others(q) /\ req'[q].stage = stage /\ Same(q)
  <2>1. req'[q] = [req[q] EXCEPT !.stage = stage]
    BY <1>1, <1>2
  <2>. QED  BY <1>1, <1>2, <2>1 DEF Others, Same, Request
<1>3. ASSUME NEW copy, req' = [req EXCEPT ![q].stage = stage, ![q].copy = copy]
      PROVE  /\ Others(q) /\ req'[q].stage = stage
             /\ req'[q].rec = req[q].rec /\ req'[q].copy = copy
  <2>1. req'[q] = [req[q] EXCEPT !.stage = stage, !.copy = copy]
    BY <1>1, <1>3
  <2>2. \A p \in Req : p # q => req'[p] = req[p]
    BY <1>1, <1>3
  <2>. QED  BY <1>1, <2>1, <2>2 DEF Others, Request
<1>. QED  BY <1>2, <1>3

\* The record of a handler's request, and the others.
Spares(r) == \A o \in Rec : o # r => status'[o] = status[o] /\ msgs'[o] = msgs[o]

\* A save that went through, and one that failed.
Saved(q, st, new) ==
  /\ Spares(req[q].rec)
  /\ status'[req[q].rec] \in {st, status[req[q].rec]}
  /\ st = "ended" => status'[req[q].rec] = "ended"
  /\ msgs'[req[q].rec] \in {new, new \cup msgs[req[q].rec]}

LEMMA SaveFacts ==
  ASSUME TypeOK, NEW q \in Req, req[q].rec \in Rec, NEW st, NEW new, NEW next,
         Save(q, st, new, next)
  PROVE  \/ next /\ Saved(q, st, new)
         \/ Reply(q, "error") /\ UNCHANGED <<status, msgs>>
<1>. DEFINE r == req[q].rec
<1>1. CASE Reply(q, "error") /\ UNCHANGED <<status, msgs>>
  BY <1>1
<1>2. ASSUME NEW s \in {st} \cup (IF st = "ended" THEN {} ELSE {status[r]}),
             NEW n \in {new} \cup (IF new \cap msgs[r] = {} THEN {new \cup msgs[r]}
                                 ELSE {}),
             status' = [status EXCEPT ![r] = s], msgs' = [msgs EXCEPT ![r] = n]
      PROVE  Saved(q, st, new)
  <2>1. Spares(r) /\ status'[r] = s /\ msgs'[r] = n
    BY <1>2 DEF TypeOK, Spares
  <2>. QED  BY <1>2, <2>1 DEF Saved
<1>. QED  BY <1>1, <1>2, Zenon DEF Save

\* What keeps the records straight when a handler moves on.
Orderly(q) ==
  LET r == req[q].rec
  IN /\ Spares(r)
     /\ status[r] # "absent" => status'[r] # "absent"
     /\ status'[r] # "absent" => status[r] # "absent" \/ Starting(q)
     /\ status'[r] = "absent" => msgs'[r] = {}
     /\ req'[q].stage # "done" =>
          /\ req'[q].rec <= Cardinality(Of("start"))
          /\ req[q].kind = "start" => req'[q].copy = {}
          /\ req[q].kind # "start" \/ req'[q].stage \in {"recording", "ok"} =>
               status'[req'[q].rec] # "absent"
          /\ Starting(q)' => Starting(q) /\ req'[q].rec = r /\ status'[r] = "absent"

\* What keeps them quiet.
Calm(q) ==
  /\ req'[q].stage \in {"saving", "recording"} =>
       /\ status'[req'[q].rec] = "in_progress"
       /\ req'[q].copy = msgs'[req'[q].rec]
  /\ req'[q].stage = "queueing" =>
       /\ status'[req'[q].rec] = "ended"
       /\ req'[q].copy = msgs'[req'[q].rec]
  /\ (\E r \in Rec : status'[r] = "ended") =>
       req[q].kind = "finish" \/ \E r \in Rec : status[r] = "ended"

LEMMA SameFinishesAndStarts ==
  ASSUME NEW q \in Req, Others(q)
  PROVE  \A kind : Of(kind)' = Of(kind)
BY DEF Others, Of

LEMMA OrderlyKeeps ==
  ASSUME TypeOK, WireInv, RecordInv, NEW q \in Req, Open(q), Others(q), Orderly(q)
  PROVE  RecordInv'
<1>. DEFINE c == Cardinality(Of("start"))
<1>1. Cardinality(Of("start"))' = c
  BY SameFinishesAndStarts
<1>. HIDE DEF c
<1>2. req[q].rec \in Rec
  BY DEF WireInv
<1>3. \A p \in Req : p # q => req'[p] = req[p]
  BY DEF Others
<1>4. ASSUME NEW p \in Req, p # q
      PROVE  /\ Open(p)' = Open(p) /\ Starting(p)' = Starting(p)
             /\ Starting(p) => status'[req[p].rec] = "absent"
             /\ Open(p) /\ status[req[p].rec] # "absent" =>
                  status'[req[p].rec] # "absent"
  <2>1. Open(p)' = Open(p) /\ Starting(p)' = Starting(p)
    BY <1>3, <1>4 DEF Open, Starting
  <2>2. Starting(p) => Open(p)
    BY DEF Starting, Open
  <2>3. Open(p) => req[p].rec \in Rec
    BY DEF WireInv
  <2>4. CASE req[p].rec = req[q].rec
    BY <1>4, <2>1, <2>2, <2>4 DEF Orderly, RecordInv
  <2>5. CASE req[p].rec # req[q].rec
    BY <1>4, <2>1, <2>2, <2>3, <2>5 DEF Orderly, Spares, RecordInv
  <2>. QED  BY <2>4, <2>5, <2>1
<1>5. ASSUME NEW p \in Req
      PROVE  /\ Open(p)' /\ req'[p].kind = "start" =>
                  req'[p].rec <= c /\ req'[p].copy = {}
             /\ Starting(p)' => status'[req'[p].rec] = "absent"
             /\ Open(p)' /\ (req'[p].kind # "start"
                             \/ req'[p].stage \in {"recording", "ok"}) =>
                  status'[req'[p].rec] # "absent"
  <2>1. CASE p # q
    BY <1>3, <1>4, <2>1 DEF RecordInv, c
  <2>2. CASE p = q
    BY <2>2 DEF Orderly, Others, Open, Starting, c
  <2>. QED  BY <2>1, <2>2
<1>6. ASSUME NEW o \in Req, NEW p \in Req,
             Starting(o)', Starting(p)', req'[o].rec = req'[p].rec
      PROVE  o = p
  <2>1. ASSUME NEW x \in Req, Starting(x)'
        PROVE  Starting(x) /\ req'[x].rec = req[x].rec
    <3>1. CASE x # q
      BY <1>3, <1>4, <2>1, <3>1
    <3>2. CASE x = q
      BY <2>1, <3>2 DEF Orderly, Starting
    <3>. QED  BY <3>1, <3>2
  <2>. QED  BY <1>6, <2>1 DEF RecordInv
<1>7. ASSUME NEW r \in Rec
      PROVE  /\ status'[r] # "absent" => r <= c
             /\ status'[r] = "absent" => msgs'[r] = {}
  <2>1. CASE r # req[q].rec
    BY <2>1 DEF Orderly, Spares, RecordInv, c
  <2>2. CASE r = req[q].rec
    BY <2>2 DEF Orderly, RecordInv, Starting, Open, c
  <2>. QED  BY <2>1, <2>2
<1>. QED  BY <1>1, <1>5, <1>6, <1>7 DEF RecordInv, c

LEMMA CalmKeeps ==
  ASSUME TypeOK, QuietInv, NEW q \in Req, req[q].stage \in Working, Others(q),
         ~abandoned => Calm(q)
  PROVE  QuietInv'
<1>. SUFFICES ASSUME ~abandoned' PROVE QuietInv'
  BY DEF QuietInv
<1>1. ~abandoned /\ cur' = cur
  BY DEF Others
<1>2. q = cur /\ Calm(q)
  BY <1>1 DEF QuietInv
<1>3. ASSUME NEW p \in Req, p # q
      PROVE  req'[p].stage \notin Working
  BY <1>1, <1>2, <1>3 DEF QuietInv, Others
<1>4. (\E r \in Rec : status'[r] = "ended") => Of("finish")' # {}
  BY <1>1, <1>2, SameFinishesAndStarts DEF Calm, QuietInv, Of
<1>5. "saving" \in Working /\ "recording" \in Working /\ "queueing" \in Working
  BY DEF Working
<1>6. \A p \in Req : req'[p].stage \in Working => p = cur'
  BY <1>1, <1>2, <1>3
<1>7. \A p \in Req :
        /\ req'[p].stage \in {"saving", "recording"} =>
             /\ status'[req'[p].rec] = "in_progress"
             /\ req'[p].copy = msgs'[req'[p].rec]
        /\ req'[p].stage = "queueing" =>
             /\ status'[req'[p].rec] = "ended"
             /\ req'[p].copy = msgs'[req'[p].rec]
  BY <1>2, <1>3, <1>5 DEF Calm
<1>. QED  BY <1>4, <1>6, <1>7 DEF QuietInv, Working

LEMMA OpenFacts ==
  ASSUME WireInv, RecordInv, NEW q \in Req, Open(q)
  PROVE  /\ req[q].rec \in Rec
         /\ req[q].rec <= Cardinality(Of("start"))
         /\ req[q].kind = "start" => req[q].copy = {}
         /\ (req[q].kind # "start" \/ req[q].stage \in {"recording", "ok"}) =>
              status[req[q].rec] # "absent"
         /\ \A r \in Rec : status[r] = "absent" => msgs[r] = {}
BY DEF WireInv, RecordInv

\* An answer changes no record.
LEMMA AnswerKeeps ==
  ASSUME WireInv, RecordInv, NEW q \in Req, Open(q), Others(q),
         NEW stage \in {"ok", "error", "rejected", "lost"}, Answers(q, stage),
         UNCHANGED <<status, msgs>>,
         req[q].kind = "start" /\ stage = "ok" => status[req[q].rec] # "absent"
  PROVE  Orderly(q) /\ Calm(q)
<1>1. UNCHANGED <<status, msgs>> => Spares(req[q].rec)
  BY DEF Spares
<1>2. req'[q].stage # "done" => req'[q].stage = stage /\ Same(q)
  BY DEF Answers
<1>3. ~Starting(q)'
  BY <1>2 DEF Starting
<1>. QED  BY <1>1, <1>2, <1>3, OpenFacts DEF Orderly, Calm, Same

LEMMA SavedKeeps ==
  ASSUME WireInv, RecordInv, NEW q \in Req, Open(q), Others(q), ~Starting(q)',
         NEW st \in {"in_progress", "ended"}, NEW new, Saved(q, st, new),
         status[req[q].rec] # "absent",
         req'[q].stage = "done" \/ Same(q)
           \/ (req'[q].rec = req[q].rec /\ req[q].kind # "start")
  PROVE  Orderly(q)
<1>1. status'[req[q].rec] # "absent" /\ Spares(req[q].rec)
  BY DEF Saved
<1>. QED  BY <1>1, OpenFacts DEF Orderly, Same

LEMMA FailedSaveKeeps ==
  ASSUME TypeOK, WireInv, RecordInv, NEW q \in Req, Open(q), Reply(q, "error"),
         UNCHANGED <<status, msgs, agent, cur, sent, abandoned>>
  PROVE  Others(q) /\ Orderly(q) /\ Calm(q)
<1>1. Others(q) /\ Answers(q, "error")
  BY ReplyAnswers
<1>. QED  BY <1>1, AnswerKeeps

\* What a handler promises: its request and its record stay in order, and, if
\* the agent never left a request behind, nothing it does comes as a surprise.
Keeps(q) == Others(q) /\ Orderly(q) /\ (~abandoned => Calm(q))

LEMMA StartLookupKeeps ==
  ASSUME TypeOK, WireInv, RecordInv, NEW q \in Req, Open(q), StartLookup(q)
  PROVE  Keeps(q)
<1>1. /\ Handling(q, "start", "sent")
      /\ UNCHANGED <<agent, cur, sent, abandoned, status, msgs>>
  BY DEF StartLookup, db, history
<1>2. Spares(req[q].rec) /\ Starting(q)
  BY <1>1 DEF Spares, Starting, Handling
<1>3. ASSUME NEW r \in Rec, OfTheCall(r),
             req' = [req EXCEPT ![q] =
                       IF q = cur THEN [@ EXCEPT !.stage = "ok", !.rec = r]
                       ELSE Closed(q)]
      PROVE  Keeps(q)
  <2>1. req \in [Req -> Request] /\ req[q] \in Request
    BY DEF TypeOK
  <2>2. status[r] # "absent"
    BY <1>3 DEF OfTheCall
  <2>3. r <= Cardinality(Of("start"))
    BY <2>2 DEF RecordInv
  <2>4. \A p \in Req : p # q => req'[p] = req[p]
    BY <1>3, <2>1
  <2>5. CASE q # cur
    <3>1. req'[q] = Closed(q)
      BY <1>3, <2>1, <2>5
    <3>2. Others(q) /\ req'[q].stage = "done"
      BY <1>1, <2>4, <3>1, ClosedRequest DEF Others
    <3>. QED  BY <1>1, <1>2, <3>2, OpenFacts DEF Keeps, Orderly, Calm, Starting
  <2>6. CASE q = cur
    <3>1. req'[q] = [req[q] EXCEPT !.stage = "ok", !.rec = r]
      BY <1>3, <2>1, <2>6
    <3>2. /\ req'[q].stage = "ok" /\ req'[q].rec = r
          /\ req'[q].copy = req[q].copy /\ req'[q].kind = req[q].kind
      BY <2>1, <3>1 DEF Request
    <3>3. Others(q)
      BY <1>1, <2>4, <3>2 DEF Others
    <3>. QED  BY <1>1, <1>2, <2>2, <2>3, <3>2, <3>3, OpenFacts
         DEF Keeps, Orderly, Calm, Starting
  <2>. QED  BY <2>5, <2>6
<1>4. CASE req' = [req EXCEPT ![q].stage = "creating"]
  <2>1. Others(q) /\ req'[q].stage = "creating" /\ Same(q)
    BY <1>1, <1>4, AdvanceFacts
  <2>2. status[req[q].rec] = "absent"
    BY <1>2 DEF RecordInv
  <2>. QED  BY <1>1, <1>2, <2>1, <2>2, OpenFacts
       DEF Keeps, Orderly, Calm, Same, Starting, Handling
<1>. QED  BY <1>3, <1>4 DEF StartLookup

LEMMA StartCreateKeeps ==
  ASSUME TypeOK, WireInv, RecordInv, NEW q \in Req, Open(q), StartCreate(q)
  PROVE  Keeps(q)
<1>1. /\ Handling(q, "start", "creating")
      /\ UNCHANGED <<agent, cur, sent, abandoned, msgs>>
  BY DEF StartCreate, history
<1>2. Starting(q) /\ status[req[q].rec] = "absent" /\ msgs[req[q].rec] = {}
  BY <1>1, OpenFacts DEF Starting, Handling, RecordInv
<1>3. CASE Reply(q, "error") /\ UNCHANGED status
  BY <1>1, <1>3, FailedSaveKeeps DEF Keeps
<1>4. CASE status' = [status EXCEPT ![req[q].rec] = "in_progress"]
  <2>1. status'[req[q].rec] = "in_progress" /\ Spares(req[q].rec)
    BY <1>1, <1>4, OpenFacts DEF TypeOK, Spares
  <2>2. ~\E r \in Rec : status'[r] = "ended" /\ status[r] # "ended"
    BY <1>4 DEF TypeOK
  <2>3. CASE Reply(q, "ok")
    <3>1. Others(q) /\ Answers(q, "ok")
      BY <1>1, <2>3, ReplyAnswers
    <3>. QED  BY <1>1, <1>2, <2>1, <2>2, <3>1, OpenFacts
         DEF Keeps, Orderly, Calm, Answers, Same, Starting, Handling
  <2>4. CASE req' = [req EXCEPT ![q].stage = "recording"]
    <3>1. Others(q) /\ req'[q].stage = "recording" /\ Same(q)
      BY <1>1, <2>4, AdvanceFacts
    <3>. QED  BY <1>1, <1>2, <2>1, <2>2, <3>1, OpenFacts
         DEF Keeps, Orderly, Calm, Same, Starting, Handling
  <2>. QED  BY <1>2, <1>3, <1>4, <2>3, <2>4 DEF StartCreate
<1>. QED  BY <1>3, <1>4 DEF StartCreate

\* The two saves that end with an answer.
LEMMA AnsweredSaveKeeps ==
  ASSUME TypeOK, WireInv, RecordInv, NEW q \in Req, Open(q),
         status[req[q].rec] # "absent", NEW new,
         Save(q, "in_progress", new, Reply(q, "ok")),
         UNCHANGED <<agent, cur, sent, abandoned>>
  PROVE  Keeps(q)
<1>1. CASE Reply(q, "error") /\ UNCHANGED <<status, msgs>>
  BY <1>1, FailedSaveKeeps DEF Keeps
<1>2. CASE Reply(q, "ok") /\ Saved(q, "in_progress", new)
  <2>1. Others(q) /\ Answers(q, "ok")
    BY <1>2, ReplyAnswers
  <2>2. (req'[q].stage = "done" \/ Same(q)) /\ ~Starting(q)'
    BY <2>1 DEF Answers, Starting
  <2>3. req'[q].stage \in {"done", "ok"}
    BY <2>1 DEF Answers
  <2>4. Orderly(q)
    BY <1>2, <2>1, <2>2, SavedKeeps
  <2>5. Calm(q)
    BY <1>2, <2>3 DEF Calm, Saved, Spares
  <2>. QED  BY <2>1, <2>4, <2>5 DEF Keeps
<1>. QED  BY <1>1, <1>2, SaveFacts, OpenFacts

LEMMA SaveRecordingKeeps ==
  ASSUME TypeOK, WireInv, RecordInv, NEW q \in Req, Open(q), SaveRecording(q)
  PROVE  Keeps(q)
<1>1. status[req[q].rec] # "absent"
  BY OpenFacts DEF SaveRecording, Handling
<1>. QED  BY <1>1, AnsweredSaveKeeps DEF SaveRecording, history

LEMMA AppendSaveKeeps ==
  ASSUME TypeOK, WireInv, RecordInv, NEW q \in Req, Open(q), AppendSave(q)
  PROVE  Keeps(q)
<1>1. status[req[q].rec] # "absent"
  BY OpenFacts DEF AppendSave, Handling
<1>. QED  BY <1>1, AnsweredSaveKeeps DEF AppendSave, history

\* Reading the record: an answer at once, or a copy for the save.
LEMMA ReadKeeps ==
  ASSUME TypeOK, WireInv, RecordInv, NEW q \in Req, AppendRead(q) \/ FinishRead(q)
  PROVE  Keeps(q)
<1>1. /\ req[q].kind \in {"append", "finish"} /\ req[q].stage = "sent"
      /\ UNCHANGED <<agent, cur, sent, abandoned, status, msgs>>
  BY DEF AppendRead, FinishRead, Handling, db, history
<1>2. Open(q)
  BY <1>1 DEF Open
<1>3. ASSUME NEW stage \in {"ok", "rejected"}, Reply(q, stage)
      PROVE  Keeps(q)
  <2>1. Others(q) /\ Answers(q, stage)
    BY <1>1, <1>3, ReplyAnswers
  <2>. QED  BY <1>1, <1>2, <2>1, AnswerKeeps DEF Keeps
<1>4. CASE /\ status[req[q].rec] = "in_progress"
           /\ req' = [req EXCEPT ![q].stage = "saving",
                                 ![q].copy = msgs[req[q].rec]]
  <2>1. /\ Others(q) /\ req'[q].stage = "saving"
        /\ req'[q].rec = req[q].rec /\ req'[q].copy = msgs[req[q].rec]
    BY <1>1, <1>4, AdvanceFacts
  <2>2. Spares(req[q].rec) /\ ~Starting(q)'
    BY <1>1, <2>1 DEF Spares, Starting
  <2>. QED  BY <1>1, <1>2, <1>4, <2>1, <2>2, OpenFacts DEF Keeps, Orderly, Calm
<1>. QED  BY <1>3, <1>4 DEF AppendRead, FinishRead

LEMMA FinishSaveKeeps ==
  ASSUME TypeOK, WireInv, RecordInv, QuietInv, NEW q \in Req, FinishSave(q)
  PROVE  Keeps(q)
<1>. DEFINE r == req[q].rec
<1>1. /\ req[q].kind = "finish" /\ req[q].stage = "saving"
      /\ UNCHANGED <<agent, cur, sent, abandoned>>
  BY DEF FinishSave, Handling, history
<1>2. Open(q) /\ r \in Rec /\ status[r] # "absent"
  BY <1>1, OpenFacts DEF Open
<1>3. CASE Reply(q, "error") /\ UNCHANGED <<status, msgs>>
  BY <1>1, <1>2, <1>3, FailedSaveKeeps DEF Keeps
<1>4. ASSUME NEW body \in {req[q].copy, msgs[r]},
             req' = [req EXCEPT ![q].stage = "queueing", ![q].copy = body],
             Saved(q, "ended", req[q].copy)
      PROVE  Keeps(q)
  <2>1. /\ Others(q) /\ req'[q].stage = "queueing"
        /\ req'[q].rec = r /\ req'[q].copy = body
    BY <1>1, <1>4, AdvanceFacts
  <2>2. ~Starting(q)'
    BY <2>1 DEF Starting
  <2>3. Orderly(q)
    BY <1>1, <1>2, <1>4, <2>1, <2>2, SavedKeeps
  <2>4. ASSUME ~abandoned PROVE Calm(q)
    <3>1. req[q].copy = msgs[r]
      BY <1>1, <2>4 DEF QuietInv
    <3>2. status'[r] = "ended" /\ msgs'[r] = body
      BY <1>4, <3>1 DEF Saved
    <3>. QED  BY <1>1, <2>1, <3>2 DEF Calm
  <2>. QED  BY <2>1, <2>3, <2>4 DEF Keeps
<1>5. \/ /\ \E body \in {req[q].copy, msgs[r]} :
              req' = [req EXCEPT ![q].stage = "queueing", ![q].copy = body]
         /\ Saved(q, "ended", req[q].copy)
      \/ Reply(q, "error") /\ UNCHANGED <<status, msgs>>
  <2>. DEFINE next == \E body \in {req[q].copy, msgs[r]} :
                req' = [req EXCEPT ![q].stage = "queueing", ![q].copy = body]
  <2>1. Save(q, "ended", req[q].copy, next)
    BY DEF FinishSave
  <2>. HIDE DEF next
  <2>2. (next /\ Saved(q, "ended", req[q].copy))
          \/ (Reply(q, "error") /\ UNCHANGED <<status, msgs>>)
    BY <1>2, <2>1, SaveFacts
  <2>. QED  BY <2>2 DEF next
<1>. QED  BY <1>3, <1>4, <1>5

LEMMA FinishEnqueueKeeps ==
  ASSUME TypeOK, WireInv, RecordInv, NEW q \in Req, FinishEnqueue(q)
  PROVE  Keeps(q)
<1>1. /\ req[q].kind = "finish" /\ req[q].stage = "queueing"
      /\ UNCHANGED <<agent, cur, sent, abandoned, status, msgs>>
  BY DEF FinishEnqueue, Handling, history
<1>2. Open(q) /\ Others(q) /\ Answers(q, "ok")
  BY <1>1, ReplyAnswers DEF FinishEnqueue, Open
<1>. QED  BY <1>1, <1>2, AnswerKeeps DEF Keeps

LEMMA HandlerKeeps ==
  ASSUME TypeOK, WireInv, RecordInv, QuietInv, NEW q \in Req,
         Handle(q) \/ HandlerError(q)
  PROVE  Open(q) /\ req[q].stage \in Working /\ Keeps(q)
<1>1. Open(q) /\ req[q].stage \in Working
  BY DEF Handle, HandlerError, StartLookup, StartCreate, SaveRecording,
     AppendRead, AppendSave, FinishRead, FinishSave, FinishEnqueue, Handling,
     Open, Working
<1>2. CASE HandlerError(q)
  <2>1. Reply(q, "error") /\ UNCHANGED <<status, msgs, agent, cur, sent, abandoned>>
    BY <1>2 DEF HandlerError, db
  <2>. QED  BY <1>1, <2>1, FailedSaveKeeps DEF Keeps
<1>. QED
  BY <1>1, <1>2, StartLookupKeeps, StartCreateKeeps, SaveRecordingKeeps,
     AppendSaveKeeps, ReadKeeps, FinishSaveKeeps, FinishEnqueueKeeps DEF Handle

----------------------------------------------------------------------------
(* What the agent and the network do to the requests *)

\* Requests close or are lost, the records stay.
Fades ==
  /\ \A q \in Req :
       /\ req'[q].kind = req[q].kind
       /\ \/ req'[q] = req[q]
          \/ req'[q].stage = "done"
          \/ Open(q) /\ req'[q].stage = "lost" /\ Same(q)
  /\ UNCHANGED <<status, msgs>>
  /\ abandoned => abandoned'
  /\ ~abandoned' => \A q \in Req : req'[q].stage \in Working => q = cur'

LEMMA FadesKeep ==
  ASSUME RecordInv, QuietInv, Fades
  PROVE  RecordInv' /\ QuietInv'
<1>1. \A kind : Of(kind)' = Of(kind)
  BY DEF Fades, Of
<1>2. \A q \in Req :
        /\ Open(q)' => Open(q) /\ Same(q)
        /\ Starting(q)' => Starting(q)
        /\ Open(q)' /\ req'[q].stage # "lost" => req'[q] = req[q]
  BY DEF Fades, Open, Starting, Same
<1>3. RecordInv'
  <2>1. \A q \in Req :
          /\ Open(q)' /\ req'[q].kind = "start" =>
               req'[q].rec <= Cardinality(Of("start")) /\ req'[q].copy = {}
          /\ Starting(q)' => status'[req'[q].rec] = "absent"
          /\ Open(q)' /\ (req'[q].kind # "start"
                          \/ req'[q].stage \in {"recording", "ok"}) =>
               status'[req'[q].rec] # "absent"
    BY <1>2 DEF Fades, RecordInv, Same, Starting, Open
  <2>2. \A p, q \in Req :
          Starting(p)' /\ Starting(q)' /\ req'[p].rec = req'[q].rec => p = q
    BY <1>2 DEF RecordInv, Same, Starting, Open
  <2>3. \A r \in Rec :
          /\ status'[r] # "absent" => r <= Cardinality(Of("start"))
          /\ status'[r] = "absent" => msgs'[r] = {}
    BY DEF Fades, RecordInv
  <2>. QED  BY <1>1, <2>1, <2>2, <2>3 DEF RecordInv
<1>4. QuietInv'
  <2>. SUFFICES ASSUME ~abandoned' PROVE QuietInv'
    BY DEF QuietInv
  <2>1. ~abandoned /\ UNCHANGED <<status, msgs>>
    BY DEF Fades
  <2>2. \A q \in Req : req'[q].stage \in {"saving", "recording", "queueing"} =>
          req'[q] = req[q]
    BY <1>2 DEF Open
  <2>3. (\E r \in Rec : status'[r] = "ended") => Of("finish")' # {}
    BY <1>1, <2>1 DEF QuietInv
  <2>. QED  BY <2>1, <2>2, <2>3 DEF QuietInv, Fades
<1>. QED  BY <1>3, <1>4

\* The current request closes; while it is being handled, this leaves it behind.
LEMMA ReleaseFades ==
  ASSUME TypeOK, QuietInv, UNCHANGED <<status, msgs>>, Succeeds \/ Fails \/ GiveUp
  PROVE  Fades
<1>1. Releases /\ cur' = 0
  BY ReturnReleases, GiveUpReleases DEF Releases
<1>2. \A q \in Req : /\ req'[q].kind = req[q].kind
                     /\ req'[q] = req[q] \/ req'[q].stage = "done"
  BY <1>1, ClosedRequest DEF Releases, TypeOK
<1>3. "done" \notin Working /\ "ok" \notin Working /\ Failed \cap Working = {}
  BY DEF Working, Failed
<1>4. abandoned => abandoned'
  BY Zenon DEF Succeeds, Fails, GiveUp
<1>5. ASSUME ~abandoned', NEW q \in Req, req'[q].stage \in Working
      PROVE  FALSE
  <2>1. req'[q] = req[q] /\ q = cur
    BY <1>2, <1>3, <1>4, <1>5 DEF QuietInv
  <2>2. CASE Succeeds
    <3>1. req'[cur] = Closed(cur)
      BY <2>1, <2>2 DEF Succeeds, TypeOK
    <3>. QED  BY <1>3, <1>5, <2>1, <3>1, ClosedRequest
  <2>3. CASE Fails
    <3>1. req' = [req EXCEPT ![cur] = Closed(cur)]
      BY <1>5, <2>3, Zenon DEF Fails
    <3>2. req'[cur] = Closed(cur)
      BY <2>1, <3>1 DEF TypeOK
    <3>. QED  BY <1>3, <1>5, <2>1, <3>2, ClosedRequest
  <2>4. CASE GiveUp
    <3>1. ~Waits
      BY <1>5, <2>4, Zenon DEF GiveUp
    <3>. QED  BY <1>5, <2>1, <3>1, ReqFacts DEF Waits
  <2>. QED  BY <2>2, <2>3, <2>4
<1>. QED  BY <1>2, <1>4, <1>5 DEF Fades

\* Nothing happens to the requests.
LEMMA StillFades ==
  ASSUME QuietInv, UNCHANGED <<wire, status, msgs, abandoned>>
  PROVE  Fades
BY DEF Fades, wire, QuietInv

LEMMA NetworkFades ==
  ASSUME TypeOK, WireInv, QuietInv, Drop \/ ApiCrash
  PROVE  Fades
<1>1. UNCHANGED <<agent, cur, sent, status, msgs, abandoned>>
  BY DEF Drop, ApiCrash, db
<1>2. "done" \notin Working /\ "lost" \notin Working
  BY DEF Working
<1>3. ASSUME Drop PROVE Fades
  <2>1. cur \in Req /\ Open(cur) /\ req' = [req EXCEPT ![cur].stage = "lost"]
    BY <1>3 DEF Drop, TypeOK, WireInv
  <2>2. Others(cur) /\ req'[cur].stage = "lost" /\ Same(cur)
    BY <1>1, <2>1, AdvanceFacts
  <2>. QED  BY <1>1, <1>2, <2>1, <2>2 DEF Others, Fades, QuietInv
<1>4. ASSUME ApiCrash PROVE Fades
  <2>1. ASSUME NEW q \in Req
        PROVE  /\ req'[q].kind = req[q].kind
               /\ \/ req'[q] = req[q]
                  \/ req'[q].stage = "done"
                  \/ Open(q) /\ req'[q].stage = "lost" /\ Same(q)
               /\ req'[q].stage \notin Working
    <3>1. req[q] \in Request
      BY DEF TypeOK
    <3>2. CASE req[q].stage \notin Working
      BY <1>4, <3>2 DEF ApiCrash
    <3>3. CASE req[q].stage \in Working /\ q = cur
      <4>1. req'[q] = [req[q] EXCEPT !.stage = "lost"]
        BY <1>4, <3>3 DEF ApiCrash
      <4>. QED  BY <1>2, <3>1, <3>3, <4>1 DEF Request, Working, Open, Same
    <3>4. CASE req[q].stage \in Working /\ q # cur
      <4>1. req'[q] = Closed(q)
        BY <1>4, <3>4 DEF ApiCrash
      <4>. QED  BY <1>2, <4>1, ClosedRequest
    <3>. QED  BY <3>2, <3>3, <3>4
  <2>. QED  BY <1>1, <2>1 DEF Fades
<1>. QED  BY <1>3, <1>4

\* A new request finds nothing under way: a start gets a number of its own, the
\* others are about the record the agent was told of.
LEMMA PostKeeps ==
  ASSUME TypeOK, WireInv, RecordInv, QuietInv, cur = 0,
         NEW kind \in {"start", "append", "finish"}, NEW m, NEW r \in Rec,
         Post(kind, m, r), UNCHANGED <<status, msgs, abandoned>>,
         \/ kind = "start" /\ r = Cardinality(Of("start")) + 1
         \/ kind # "start" /\ status[r] # "absent"
  PROVE  RecordInv' /\ QuietInv'
<1>. DEFINE c == Cardinality(Of("start"))
<1>1. IsFiniteSet(Of("start")) /\ c \in Nat
  <2>1. IsFiniteSet(Req)
    BY FS_Interval, SessionAssumption DEF Req, MaxRequests
  <2>2. IsFiniteSet(Of("start"))
    BY <2>1, FS_Subset DEF Of
  <2>. QED  BY <2>2, FS_CardinalityType
<1>2. PICK n \in Req : n = sent + 1 /\ cur' = n /\ req[n].kind = "none"
  BY ReqFacts DEF Post, TypeOK, Req, WireInv
<1>3. /\ \A q \in Req : q # n => req'[q] = req[q]
      /\ req'[n].kind = kind /\ req'[n].rec = r /\ req'[n].copy = {}
      /\ req'[n].stage \in {"sent", "lost"}
  BY <1>2 DEF Post, TypeOK
<1>4. c' = IF kind = "start" THEN c + 1 ELSE c
  <2>1. CASE kind = "start"
    <3>1. Of("start")' = Of("start") \cup {n} /\ n \notin Of("start")
      BY <1>2, <1>3, <2>1 DEF Of
    <3>. QED  BY <1>1, <2>1, <3>1, FS_AddElement
  <2>2. CASE kind # "start"
    <3>1. Of("start")' = Of("start")
      BY <1>2, <1>3, <2>2 DEF Of
    <3>. QED  BY <2>2, <3>1
  <2>. QED  BY <2>1, <2>2
<1>5. c <= c'
  BY <1>1, <1>4
<1>6. kind = "start" => r = c' /\ status[r] = "absent" /\ ~(r <= c)
  <2>1. kind = "start" => r = c + 1 /\ ~(r <= c)
    BY <1>1
  <2>. QED  BY <1>4, <2>1 DEF RecordInv
<1>. HIDE DEF c
<1>7. ASSUME NEW q \in Req
      PROVE  /\ Open(q)' /\ req'[q].kind = "start" =>
                  req'[q].rec <= c' /\ req'[q].copy = {}
             /\ Starting(q)' => status'[req'[q].rec] = "absent"
             /\ Open(q)' /\ (req'[q].kind # "start"
                             \/ req'[q].stage \in {"recording", "ok"}) =>
                  status'[req'[q].rec] # "absent"
  <2>1. CASE q = n
    <3>1. c' <= c'
      BY <1>1, <1>4
    <3>. QED  BY <1>3, <1>6, <2>1, <3>1 DEF Open, Starting
  <2>2. CASE q # n
    <3>1. req'[q] = req[q]
      BY <1>3, <2>2
    <3>2. Open(q) => req[q].rec \in Nat
      BY DEF WireInv, Rec
    <3>3. Open(q) /\ req[q].rec <= c => req[q].rec <= c'
      BY <1>1, <1>4, <3>2
    <3>. QED  BY <3>1, <3>3 DEF RecordInv, Open, Starting, c
  <2>. QED  BY <2>1, <2>2
<1>8. ASSUME NEW p \in Req, NEW q \in Req,
             Starting(p)', Starting(q)', req'[p].rec = req'[q].rec
      PROVE  p = q
  <2>1. ASSUME NEW x \in Req, x # n, Starting(x)'
        PROVE  Starting(x) /\ req'[x].rec = req[x].rec /\ req[x].rec <= c
    BY <1>3, <2>1 DEF Starting, RecordInv, Open, c
  <2>2. Starting(n)' => kind = "start" /\ req'[n].rec = r
    BY <1>3 DEF Starting
  <2>. QED  BY <1>6, <1>8, <2>1, <2>2 DEF RecordInv
<1>9. ASSUME NEW x \in Rec
      PROVE  /\ status'[x] # "absent" => x <= c'
             /\ status'[x] = "absent" => msgs'[x] = {}
  <2>1. x <= c => x <= c'
    BY <1>1, <1>4 DEF Rec
  <2>. QED  BY <2>1 DEF RecordInv, c
<1>10. RecordInv'
  BY <1>7, <1>8, <1>9 DEF RecordInv, c
<1>11. QuietInv'
  <2>. SUFFICES ASSUME ~abandoned' PROVE QuietInv'
    BY DEF QuietInv
  <2>1. ~abandoned /\ \A q \in Req : req[q].stage \notin Working
    BY ReqFacts DEF QuietInv
  <2>2. \A q \in Req : q # n => req'[q].stage \notin Working
    BY <1>3, <2>1
  <2>3. Of("finish") # {} => Of("finish")' # {}
    BY <1>2, <1>3 DEF Of
  <2>4. "saving" \in Working /\ "recording" \in Working /\ "queueing" \in Working
    BY DEF Working
  <2>5. \A q \in Req : req'[q].stage \notin {"saving", "recording", "queueing"}
    BY <1>3, <2>2, <2>4
  <2>6. \A q \in Req : req'[q].stage \in Working => q = cur'
    BY <1>2, <2>2
  <2>. QED  BY <2>1, <2>3, <2>5, <2>6 DEF QuietInv
<1>. QED  BY <1>10, <1>11

----------------------------------------------------------------------------
(* The invariant *)

LEMMA AgentFades ==
  ASSUME TypeOK, QuietInv,
         \/ StartReturns \/ AppendReturns \/ RestartReturns \/ FlushReturns
         \/ FinishReturns \/ Kill \/ Speak \/ CloseClient
         \/ \E k \in Closer : RequestFinish(k) \/ ChooseSender(k)
         \/ UNCHANGED vars
  PROVE  Fades
<1>1. CASE \/ StartReturns \/ AppendReturns \/ RestartReturns \/ FlushReturns
           \/ FinishReturns \/ Kill
  <2>1. UNCHANGED <<status, msgs>> /\ (Succeeds \/ Fails \/ GiveUp)
    BY <1>1 DEF StartReturns, AppendReturns, RestartReturns, FlushReturns,
       FinishReturns, Kill, db
  <2>. QED  BY <2>1, ReleaseFades
<1>2. CASE \E k \in Closer : RequestFinish(k)
  <2>1. /\ UNCHANGED <<status, msgs>>
        /\ GiveUp \/ UNCHANGED <<wire, abandoned>>
    BY <1>2 DEF RequestFinish, db
  <2>. QED  BY <2>1, ReleaseFades, StillFades
<1>3. CASE \/ Speak \/ CloseClient \/ (\E k \in Closer : ChooseSender(k))
           \/ UNCHANGED vars
  BY <1>3, StillFades DEF Speak, CloseClient, ChooseSender, db, history, vars
<1>. QED  BY <1>1, <1>2, <1>3

LEMMA AgentPosts ==
  ASSUME IInv, RecordInv, AgentInv, QuietInv,
         \/ Boot \/ AppendFinal \/ FlushNext \/ FlushEnds
         \/ \E k \in Closer : BeginFinish(k)
  PROVE  RecordInv' /\ QuietInv'
<1>. TypeOK /\ WireInv /\ PhaseInv
  BY DEF IInv
<1>1. UNCHANGED <<status, msgs, abandoned>>
  BY DEF Boot, AppendFinal, FlushNext, FlushEnds, BeginFinish, db, history
<1>2. cur = 0
  BY DEF Boot, AppendFinal, FlushNext, FlushEnds, BeginFinish, PhaseInv
<1>3. ASSUME PostStart PROVE RecordInv' /\ QuietInv'
  <2>1. Cardinality(Of("start")) + 1 \in Rec
    BY <1>3, StartCount DEF PostStart
  <2>. QED  BY <1>1, <1>2, <1>3, <2>1, PostKeeps DEF PostStart
<1>4. ASSUME NEW kind \in {"append", "finish"}, NEW m, recordId # 0,
             Post(kind, m, recordId)
      PROVE  RecordInv' /\ QuietInv'
  <2>1. recordId \in Rec /\ status[recordId] # "absent"
    BY <1>4 DEF AgentInv, TypeOK
  <2>. QED  BY <1>1, <1>2, <1>4, <2>1, PostKeeps
<1>5. ASSUME UNCHANGED wire PROVE RecordInv' /\ QuietInv'
  BY <1>1, <1>5, StillFades, FadesKeep
<1>6. \/ PostStart \/ UNCHANGED wire
      \/ recordId # 0 /\ (\/ PostMessage(Head(waiting)) \/ PostMessage(Head(batch))
                          \/ Post("finish", 0, recordId))
  BY DEF Boot, AppendFinal, FlushNext, FlushEnds, BeginFinish, PhaseInv
<1>. QED  BY <1>3, <1>4, <1>5, <1>6 DEF PostMessage

LEMMA NextRecordInv ==
  ASSUME IInv, RecordInv, AgentInv, QuietInv, [Next]_vars
  PROVE  RecordInv' /\ QuietInv'
<1>. TypeOK /\ WireInv
  BY DEF IInv
<1>1. ASSUME NEW q \in Req, Handle(q) \/ HandlerError(q)
      PROVE  RecordInv' /\ QuietInv'
  BY <1>1, HandlerKeeps, OrderlyKeeps, CalmKeeps DEF Keeps
<1>2. CASE Drop \/ ApiCrash
  BY <1>2, NetworkFades, FadesKeep
<1>3. CASE \/ StartReturns \/ AppendReturns \/ RestartReturns \/ FlushReturns
           \/ FinishReturns \/ Kill \/ Speak \/ CloseClient
           \/ (\E k \in Closer : RequestFinish(k) \/ ChooseSender(k))
           \/ UNCHANGED vars
  BY <1>3, AgentFades, FadesKeep
<1>4. CASE \/ Boot \/ AppendFinal \/ FlushNext \/ FlushEnds
           \/ \E k \in Closer : BeginFinish(k)
  BY <1>4, AgentPosts
<1>. QED  BY <1>1, <1>2, <1>3, <1>4 DEF Next, AgentStep

\* An ended record is left alone and no message disappears.
Kept ==
  \A r \in Rec :
    /\ status[r] = "ended" => status'[r] = "ended" /\ msgs'[r] = msgs[r]
    /\ msgs[r] \subseteq msgs'[r]

LEMMA HandlerUndoesNothing ==
  ASSUME TypeOK, WireInv, RecordInv, QuietInv, ~abandoned,
         NEW q \in Req, Handle(q) \/ HandlerError(q)
  PROVE  Kept
<1>. DEFINE r == req[q].rec
<1>1. Open(q) /\ r \in Rec
  BY HandlerKeeps DEF WireInv
<1>2. ASSUME UNCHANGED <<status, msgs>> PROVE Kept
  BY <1>2 DEF Kept
<1>3. CASE StartLookup(q) \/ AppendRead(q) \/ FinishRead(q) \/ HandlerError(q)
  BY <1>2, <1>3 DEF StartLookup, AppendRead, FinishRead, HandlerError, db
<1>4. CASE FinishEnqueue(q)
  BY <1>2, <1>4 DEF FinishEnqueue
<1>5. CASE StartCreate(q)
  <2>1. status[r] = "absent" /\ UNCHANGED msgs
    BY <1>5 DEF StartCreate, Handling, Starting, RecordInv
  <2>2. status' = status \/ status' = [status EXCEPT ![r] = "in_progress"]
    BY <1>5 DEF StartCreate
  <2>. QED  BY <1>1, <2>1, <2>2 DEF TypeOK, Kept
<1>6. ASSUME NEW st \in {"in_progress", "ended"}, NEW new, Saved(q, st, new),
             status[r] = "in_progress", msgs[r] \subseteq new
      PROVE  Kept
  BY <1>1, <1>6 DEF Saved, Spares, Kept
<1>7. ASSUME NEW st \in {"in_progress", "ended"}, NEW new, NEW next,
             Save(q, st, new, next),
             status[r] = "in_progress", msgs[r] \subseteq new
      PROVE  Kept
  BY <1>1, <1>2, <1>6, <1>7, SaveFacts
<1>8. req[q].stage \in {"saving", "recording"} =>
        status[r] = "in_progress" /\ req[q].copy = msgs[r]
  BY DEF QuietInv
<1>9. CASE SaveRecording(q)
  <2>1. req[q].copy = {} /\ req[q].stage = "recording"
    BY <1>1, <1>9, OpenFacts DEF SaveRecording, Handling
  <2>2. status[r] = "in_progress" /\ msgs[r] \subseteq {}
    BY <1>8, <2>1
  <2>. QED  BY <1>7, <1>9, <2>2 DEF SaveRecording
<1>10. CASE AppendSave(q)
  <2>1. status[r] = "in_progress" /\ msgs[r] \subseteq req[q].copy \cup {req[q].msg}
    BY <1>8, <1>10 DEF AppendSave, Handling
  <2>. QED  BY <1>7, <1>10, <2>1 DEF AppendSave
<1>11. CASE FinishSave(q)
  <2>1. status[r] = "in_progress" /\ msgs[r] \subseteq req[q].copy
    BY <1>8, <1>11 DEF FinishSave, Handling
  <2>2. Saved(q, "ended", req[q].copy) \/ UNCHANGED <<status, msgs>>
    <3>. DEFINE next == \E body \in {req[q].copy, msgs[r]} :
                req' = [req EXCEPT ![q].stage = "queueing", ![q].copy = body]
    <3>1. Save(q, "ended", req[q].copy, next)
      BY <1>11 DEF FinishSave
    <3>. HIDE DEF next
    <3>. QED  BY <1>1, <3>1, SaveFacts
  <2>. QED  BY <1>2, <1>6, <2>1, <2>2
<1>. QED
  BY <1>3, <1>4, <1>5, <1>9, <1>10, <1>11 DEF Handle

\* What the other steps do: none of them touches a record.
LEMMA RestKeepsRecords ==
  ASSUME [Next]_vars, ~\E q \in Req : Handle(q) \/ HandlerError(q)
  PROVE  UNCHANGED <<status, msgs, queued>>
<1>1. CASE \/ Boot \/ StartReturns \/ AppendFinal \/ AppendReturns \/ RestartReturns
           \/ FlushNext \/ FlushReturns \/ FlushEnds \/ FinishReturns
           \/ Speak \/ CloseClient \/ Kill \/ Drop \/ ApiCrash \/ UNCHANGED vars
  BY <1>1 DEF Boot, StartReturns, AppendFinal, AppendReturns, RestartReturns,
     FlushNext, FlushReturns, FlushEnds, FinishReturns, Speak, CloseClient, Kill,
     Drop, ApiCrash, db, vars
<1>2. ASSUME NEW k \in Closer, ChooseSender(k) \/ BeginFinish(k) \/ RequestFinish(k)
      PROVE  UNCHANGED <<status, msgs, queued>>
  BY <1>2 DEF ChooseSender, BeginFinish, RequestFinish, db
<1>. QED  BY <1>1, <1>2 DEF Next, AgentStep

LEMMA AbandonedStays ==
  ASSUME TypeOK, WireInv, QuietInv, RecordInv, [Next]_vars, ~abandoned'
  PROVE  ~abandoned
<1>1. ASSUME NEW q \in Req, Handle(q) \/ HandlerError(q) PROVE ~abandoned
  BY <1>1, HandlerKeeps DEF Keeps, Others
<1>2. CASE Drop \/ ApiCrash
  BY <1>2, NetworkFades DEF Fades
<1>3. CASE \/ StartReturns \/ AppendReturns \/ RestartReturns \/ FlushReturns
           \/ FinishReturns \/ Kill \/ Speak \/ CloseClient
           \/ (\E k \in Closer : RequestFinish(k) \/ ChooseSender(k))
           \/ UNCHANGED vars
  BY <1>3, AgentFades DEF Fades
<1>4. CASE \/ Boot \/ AppendFinal \/ FlushNext \/ FlushEnds
           \/ \E k \in Closer : BeginFinish(k)
  BY <1>4 DEF Boot, AppendFinal, FlushNext, FlushEnds, BeginFinish, history
<1>. QED  BY <1>1, <1>2, <1>3, <1>4 DEF Next, AgentStep

LEMMA NextKept ==
  ASSUME IInv, RecordInv, QuietInv, [Next]_vars, ~abandoned'
  PROVE  Kept
<1>. TypeOK /\ WireInv
  BY DEF IInv
<1>1. ~abandoned
  BY AbandonedStays
<1>2. CASE \E q \in Req : Handle(q) \/ HandlerError(q)
  BY <1>1, <1>2, HandlerUndoesNothing
<1>3. CASE ~\E q \in Req : Handle(q) \/ HandlerError(q)
  BY <1>3, RestKeepsRecords DEF Kept
<1>. QED  BY <1>2, <1>3

\* A record, once inserted, is there; only an insert makes one.
LEMMA HandlerStatus ==
  ASSUME TypeOK, WireInv, RecordInv, QuietInv, NEW q \in Req,
         Handle(q) \/ HandlerError(q)
  PROVE  /\ \A r \in Rec : status[r] # "absent" => status'[r] # "absent"
         /\ \A r \in Rec : status[r] = "absent" /\ status'[r] # "absent" =>
              /\ req[q].kind = "start" /\ req[q].stage = "creating"
              /\ r = req[q].rec /\ \A o \in Rec : ~OfTheCall(o)
<1>1. Open(q) /\ Orderly(q) /\ Others(q)
  BY HandlerKeeps DEF Keeps
<1>2. \A r \in Rec : status[r] # "absent" => status'[r] # "absent"
  BY <1>1 DEF Orderly, Spares
<1>3. ASSUME NEW r \in Rec, status[r] = "absent", status'[r] # "absent"
      PROVE  /\ req[q].kind = "start" /\ req[q].stage = "creating"
             /\ r = req[q].rec /\ \A o \in Rec : ~OfTheCall(o)
  <2>1. r = req[q].rec /\ Starting(q)
    BY <1>1, <1>3 DEF Orderly, Spares
  <2>2. CASE StartCreate(q)
    BY <1>3, <2>1, <2>2 DEF StartCreate, Handling
  <2>3. CASE StartLookup(q) \/ HandlerError(q)
    BY <1>3, <2>3 DEF StartLookup, HandlerError, db
  <2>. QED
    BY <2>1, <2>2, <2>3 DEF Starting, Handle, SaveRecording, AppendRead,
       AppendSave, FinishRead, FinishSave, FinishEnqueue, Handling
<1>. QED  BY <1>2, <1>3

LEMMA NextAgentInv ==
  ASSUME IInv, RecordInv, AgentInv, QuietInv, [Next]_vars
  PROVE  AgentInv'
<1>. TypeOK /\ WireInv /\ PhaseInv
  BY DEF IInv
<1>1. \A r \in Rec : status[r] # "absent" => status'[r] # "absent"
  <2>1. CASE \E q \in Req : Handle(q) \/ HandlerError(q)
    BY <2>1, HandlerStatus
  <2>2. CASE ~\E q \in Req : Handle(q) \/ HandlerError(q)
    BY <2>2, RestKeepsRecords
  <2>. QED  BY <2>1, <2>2
<1>2. recordId' = recordId \/ (Succeeds /\ recordId' = req[cur].rec)
  <2>1. CASE ApiStep
    BY <2>1, ApiWireStep DEF agent
  <2>2. CASE StartReturns \/ RestartReturns
    BY <2>2 DEF StartReturns, RestartReturns
  <2>3. CASE Boot \/ AppendFinal \/ AppendReturns \/ FlushNext \/ FlushReturns
             \/ FlushEnds \/ FinishReturns \/ Speak \/ CloseClient \/ Kill
             \/ UNCHANGED vars
    BY <2>3 DEF Boot, AppendFinal, AppendReturns, FlushNext, FlushReturns,
       FlushEnds, FinishReturns, Speak, CloseClient, Kill, agent, vars
  <2>4. ASSUME NEW k \in Closer, ChooseSender(k) \/ BeginFinish(k) \/ RequestFinish(k)
        PROVE  recordId' = recordId
    BY <2>4 DEF ChooseSender, BeginFinish, RequestFinish
  <2>. QED  BY <2>1, <2>2, <2>3, <2>4 DEF Next, AgentStep, ApiStep
<1>3. recordId' # 0 => status'[recordId'] # "absent"
  <2>1. CASE recordId' = recordId
    BY <1>1, <2>1 DEF AgentInv, TypeOK
  <2>2. CASE Succeeds /\ recordId' = req[cur].rec
    <3>1. cur \in Req /\ req[cur].stage = "ok" /\ Open(cur)
      BY <2>2 DEF Succeeds, Answered, TypeOK, Open
    <3>. QED  BY <1>1, <2>2, <3>1, OpenFacts
  <2>. QED  BY <1>2, <2>1, <2>2
<1>4. phase' \in {"booting", "starting"} => ~committed'
  <2>1. CASE ApiStep \/ UNCHANGED vars
    BY <2>1, ApiWireStep DEF agent, vars, AgentInv
  <2>2. CASE Boot \/ Speak \/ CloseClient
    BY <2>2 DEF Boot, Speak, CloseClient, AgentInv
  <2>3. CASE StartReturns \/ AppendFinal \/ AppendReturns \/ RestartReturns
             \/ FlushReturns \/ FlushEnds \/ FinishReturns \/ Kill
    <3>1. phase' \notin {"booting", "starting"}
      BY <2>3 DEF StartReturns, AppendFinal, AppendReturns, RestartReturns,
         FlushReturns, FlushEnds, FinishReturns, Kill, Flush, Commit
    <3>. QED  BY <3>1
  <2>4. CASE FlushNext
    BY <2>4 DEF FlushNext, agent, AgentInv
  <2>5. ASSUME NEW k \in Closer, ChooseSender(k) \/ BeginFinish(k) \/ RequestFinish(k)
        PROVE  phase' \in {"booting", "starting"} => ~committed'
    BY <2>5 DEF ChooseSender, BeginFinish, RequestFinish, Flush, Live, AgentInv
  <2>. QED  BY <2>1, <2>2, <2>3, <2>4, <2>5 DEF Next, AgentStep, ApiStep
<1>. QED  BY <1>3, <1>4 DEF AgentInv

\* An insert finds no record of the call: by its provider id, or because the
\* only start under way is the one the agent awaits before the call has ended.
LEMMA NextOnlyRecord == RInv /\ [Next]_vars => OnlyRecord'
<1>. SUFFICES ASSUME RInv, [Next]_vars, HasProviderId \/ ~abandoned'
              PROVE  \A r, s \in Rec :
                       status'[r] # "absent" /\ status'[s] # "absent" => r = s
  BY DEF OnlyRecord
<1>. TypeOK /\ WireInv /\ PhaseInv /\ FinishInv /\ RecordInv /\ AgentInv /\ QuietInv
  BY DEF RInv, IInv
<1>1. HasProviderId \/ ~abandoned
  BY AbandonedStays
<1>2. \A r, s \in Rec : status[r] # "absent" /\ status[s] # "absent" => r = s
  BY <1>1 DEF RInv, OnlyRecord
<1>3. ASSUME NEW q \in Req, Handle(q) \/ HandlerError(q), NEW r \in Rec,
             status[r] = "absent", status'[r] # "absent"
      PROVE  \A o \in Rec : status[o] = "absent"
  <2>1. /\ req[q].kind = "start" /\ req[q].stage = "creating"
        /\ \A o \in Rec : ~OfTheCall(o)
    BY <1>3, HandlerStatus
  <2>2. CASE HasProviderId
    BY <2>1, <2>2 DEF OfTheCall
  <2>3. CASE ~abandoned
    <3>1. cur = q /\ cur # 0
      BY <2>1, <2>3, ReqFacts DEF QuietInv, Working
    <3>2. phase \in {"starting", "restarting"}
      BY <2>1, <3>1 DEF PhaseInv, TypeOK
    <3>3. Of("finish") = {}
      BY <3>2 DEF FinishInv, AgentInv
    <3>4. \A o \in Rec : status[o] # "ended" /\ status[o] # "in_progress"
      BY <2>1, <2>3, <3>3 DEF QuietInv, OfTheCall
    <3>. QED  BY <3>4 DEF TypeOK
  <2>. QED  BY <1>1, <2>2, <2>3
<1>4. CASE \E q \in Req : Handle(q) \/ HandlerError(q)
  <2>1. PICK q \in Req : Handle(q) \/ HandlerError(q)
    BY <1>4
  <2>2. CASE \A o \in Rec : status'[o] # "absent" => status[o] # "absent"
    BY <1>2, <2>2
  <2>3. CASE \E o \in Rec : status[o] = "absent" /\ status'[o] # "absent"
    <3>1. \A o \in Rec : status'[o] # "absent" => o = req[q].rec
      BY <1>3, <2>1, <2>3, HandlerStatus
    <3>. QED  BY <3>1
  <2>. QED  BY <2>2, <2>3
<1>5. CASE ~\E q \in Req : Handle(q) \/ HandlerError(q)
  BY <1>2, <1>5, RestKeepsRecords
<1>. QED  BY <1>4, <1>5

LEMMA NextQueued == RInv /\ [Next]_vars => QueuedIsTranscript'
<1>. SUFFICES ASSUME RInv, [Next]_vars, ~abandoned', NEW r \in Rec, queued'[r] # {}
              PROVE  queued'[r] = msgs'[r] /\ status'[r] = "ended"
  BY DEF QueuedIsTranscript
<1>. TypeOK /\ WireInv /\ IInv /\ RecordInv /\ QuietInv
  BY DEF RInv, IInv
<1>1. ~abandoned /\ Kept
  BY AbandonedStays, NextKept
<1>2. queued[r] # {} => queued[r] = msgs[r] /\ status[r] = "ended"
  BY <1>1 DEF RInv, QueuedIsTranscript
<1>3. CASE queued'[r] = queued[r]
  BY <1>1, <1>2, <1>3 DEF Kept
<1>4. ASSUME NEW q \in Req, FinishEnqueue(q), queued'[r] # queued[r]
      PROVE  queued'[r] = msgs'[r] /\ status'[r] = "ended"
  <2>1. /\ queued' = [queued EXCEPT ![req[q].rec] = req[q].copy]
        /\ UNCHANGED <<status, msgs>>
    BY <1>4 DEF FinishEnqueue
  <2>2. r = req[q].rec /\ queued'[r] = req[q].copy
    BY <1>4, <2>1 DEF TypeOK
  <2>3. status[r] = "ended" /\ req[q].copy = msgs[r]
    BY <1>1, <1>4, <2>2 DEF FinishEnqueue, Handling, QuietInv
  <2>. QED  BY <2>1, <2>2, <2>3
<1>5. ASSUME NEW q \in Req, Handle(q) \/ HandlerError(q), ~FinishEnqueue(q)
      PROVE  UNCHANGED queued
  BY <1>5 DEF Handle, HandlerError, StartLookup, StartCreate, SaveRecording,
     AppendRead, AppendSave, FinishRead, FinishSave, db
<1>6. CASE ~\E q \in Req : Handle(q) \/ HandlerError(q)
  BY <1>3, <1>6, RestKeepsRecords
<1>. QED  BY <1>3, <1>4, <1>5, <1>6

LEMMA InitRInv == Init => RInv
<1>. SUFFICES ASSUME Init PROVE RInv
  OBVIOUS
<1>1. IInv
  BY InitIInv
<1>2. \A q \in Req : ~Open(q) /\ ~Starting(q) /\ req[q].stage = "none"
  BY DEF Init, NoRequest, Open, Starting
<1>3. \A r \in Rec : status[r] = "absent" /\ msgs[r] = {} /\ queued[r] = {}
  BY DEF Init
<1>4. RecordInv
  BY <1>2, <1>3 DEF RecordInv
<1>5. AgentInv
  BY DEF Init, AgentInv
<1>6. QuietInv
  BY <1>2, <1>3 DEF QuietInv, Working
<1>7. OnlyRecord /\ QueuedIsTranscript
  BY <1>3 DEF OnlyRecord, QueuedIsTranscript
<1>. QED  BY <1>1, <1>4, <1>5, <1>6, <1>7 DEF RInv

LEMMA RecordInvariance == Spec => []RInv
<1>1. RInv /\ [Next]_vars => RInv'
  <2>. SUFFICES ASSUME RInv, [Next]_vars PROVE RInv'
    OBVIOUS
  <2>1. IInv'
    BY NextTypeOK, NextWireStep, WireKept, NextPhaseInv, NextFinishInv DEF RInv, IInv
  <2>2. RecordInv' /\ AgentInv' /\ QuietInv'
    BY NextRecordInv, NextAgentInv DEF RInv
  <2>3. OnlyRecord' /\ QueuedIsTranscript'
    BY NextOnlyRecord, NextQueued
  <2>. QED  BY <2>1, <2>2, <2>3 DEF RInv
<1>. QED  BY <1>1, InitRInv, PTL DEF Spec

\* A start that is tried again finds the record of the first or is refused.
THEOREM OneRecordHolds == Spec => []OneRecord
<1>1. RInv => OneRecord
  <2>. SUFFICES ASSUME RInv, HasProviderId \/ ~abandoned
                PROVE  Cardinality({r \in Rec : status[r] # "absent"}) <= 1
    BY DEF OneRecord
  <2>. DEFINE S == {r \in Rec : status[r] # "absent"}
  <2>1. \A r, s \in S : r = s
    BY DEF RInv, OnlyRecord
  <2>. HIDE DEF S
  <2>2. CASE S = {}
    BY <2>2, FS_EmptySet DEF S
  <2>3. ASSUME NEW r \in S PROVE Cardinality(S) <= 1
    <3>1. S = {r}
      BY <2>1, <2>3
    <3>2. Cardinality({r}) = 1
      BY FS_Singleton, Zenon
    <3>. QED  BY <3>1, <3>2
  <2>. QED  BY <2>2, <2>3 DEF S
<1>. QED  BY <1>1, RecordInvariance, PTL

\* As long as the agent never left a request behind, no handler's save of the
\* whole record undoes what another one stored.
THEOREM NothingUndoneHolds == Spec => NothingUndone
<1>1. RInv /\ [Next]_vars =>
        [~abandoned' => \A r \in Rec :
           /\ status[r] = "ended" => status'[r] = "ended"
           /\ msgs[r] \subseteq msgs'[r]]_vars
  BY NextKept DEF RInv, Kept
<1>. QED  BY <1>1, RecordInvariance, PTL DEF Spec, NothingUndone

\* Under the same condition, what is queued for Call Insights is the transcript
\* the record of an ended call keeps.
THEOREM QueuedIsTranscriptHolds == Spec => []QueuedIsTranscript
<1>1. RInv => QueuedIsTranscript
  BY DEF RInv
<1>. QED  BY <1>1, RecordInvariance, PTL

----------------------------------------------------------------------------
(* The whole transcript *)

\* Where the agent is in the call: nothing is said before the session starts,
\* nothing waits once anyone asked for its end, and what the agent posts is
\* about the record it was told of.
CourseInv ==
  /\ phase \in {"booting", "starting"} =>
       said = 0 /\ buffer = <<>> /\ waiting = <<>> /\ ~closing
  /\ phase \in {"booting", "starting", "restarting"} => recordId = 0
  /\ closing => waiting = <<>> /\ phase # "appending"
  /\ \A k \in Closer : caller[k] # "out" => closing
  /\ committed => closing /\ phase \in {"idle", "over"}
  /\ acked => committed /\ recordId # 0
  /\ cur # 0 /\ req[cur].kind # "start" => req[cur].rec = recordId
  /\ phase = "flushing" /\ cur # 0 => req[cur].msg = Head(batch)

\* The request a handler works on stays about the same record and message.
LEMMA HandlerSubject ==
  ASSUME TypeOK, WireInv, NEW q \in Req, Handle(q) \/ HandlerError(q),
         req[q].kind # "start"
  PROVE  req'[q].stage = "done" \/ req'[q].rec = req[q].rec
<1>1. UNCHANGED <<agent, cur, sent, abandoned>>
  BY DEF Handle, HandlerError, StartLookup, StartCreate, SaveRecording,
     AppendRead, AppendSave, FinishRead, FinishSave, FinishEnqueue, history
<1>2. ASSUME NEW stage, Reply(q, stage)
      PROVE  req'[q].stage = "done" \/ req'[q].rec = req[q].rec
  BY <1>1, <1>2, ReplyAnswers DEF Answers, Same
<1>3. ASSUME NEW stage, NEW copy,
             req' = [req EXCEPT ![q].stage = stage, ![q].copy = copy]
      PROVE  req'[q].rec = req[q].rec
  BY <1>1, <1>3, AdvanceFacts
<1>4. CASE AppendRead(q) \/ FinishRead(q) \/ FinishEnqueue(q) \/ HandlerError(q)
  BY <1>2, <1>3, <1>4 DEF AppendRead, FinishRead, FinishEnqueue, HandlerError
<1>5. CASE AppendSave(q)
  BY <1>2, <1>5 DEF AppendSave, Save
<1>6. CASE FinishSave(q)
  <2>. DEFINE next == \E body \in {req[q].copy, msgs[req[q].rec]} :
                req' = [req EXCEPT ![q].stage = "queueing", ![q].copy = body]
  <2>1. Save(q, "ended", req[q].copy, next)
    BY <1>6 DEF FinishSave
  <2>2. next => req'[q].rec = req[q].rec
    BY <1>3
  <2>. HIDE DEF next
  <2>. QED  BY <1>2, <2>1, <2>2 DEF Save
<1>. QED
  BY <1>4, <1>5, <1>6 DEF Handle, StartLookup, StartCreate, SaveRecording, Handling

\* So does the request the agent awaits.
LEMMA AwaitedSubject ==
  ASSUME TypeOK, WireInv, ApiStep, cur # 0
  PROVE  /\ cur' = cur /\ req'[cur].kind = req[cur].kind
         /\ req'[cur].msg = req[cur].msg
         /\ req[cur].kind # "start" => req'[cur].rec = req[cur].rec
<1>1. cur \in Req /\ cur' = cur /\ req \in [Req -> Request]
  BY ApiWireStep DEF TypeOK
<1>2. ASSUME NEW q \in Req, Moves(q)
      PROVE  /\ req'[cur].kind = req[cur].kind /\ req'[cur].msg = req[cur].msg
             /\ q # cur => req'[cur] = req[cur]
             /\ q = cur => req'[cur].stage # "done"
  BY <1>1, <1>2 DEF Moves
<1>3. ASSUME NEW q \in Req, Handle(q) \/ HandlerError(q)
      PROVE  /\ req'[cur].kind = req[cur].kind /\ req'[cur].msg = req[cur].msg
             /\ req[cur].kind # "start" => req'[cur].rec = req[cur].rec
  BY <1>2, <1>3, HandlerMoves, HandlerSubject
<1>4. CASE Drop
  <2>1. req'[cur] = [req[cur] EXCEPT !.stage = "lost"]
    BY <1>1, <1>4 DEF Drop
  <2>. QED  BY <1>1, <2>1 DEF Request
<1>5. CASE ApiCrash
  BY <1>1, <1>5, CrashedRequest DEF WireInv, Open
<1>. QED  BY <1>1, <1>3, <1>4, <1>5 DEF ApiStep

\* A request just posted says what it was posted for.
LEMMA PostedRequest ==
  ASSUME TypeOK, NEW kind, NEW m, NEW r, Post(kind, m, r)
  PROVE  /\ cur' \in Req /\ cur' # 0
         /\ req'[cur'].kind = kind /\ req'[cur'].msg = m /\ req'[cur'].rec = r
         /\ req'[cur'].stage \in {"sent", "lost"}
<1>1. sent + 1 \in Req /\ cur' = sent + 1
  BY ReqFacts DEF Post, TypeOK, Req
<1>2. req'[sent + 1] = [kind |-> kind, msg |-> m, rec |-> r, copy |-> {},
                        stage |-> IF httpOpen THEN "sent" ELSE "lost"]
  BY <1>1 DEF Post, TypeOK
<1>. QED  BY <1>1, <1>2, ReqFacts

\* Someone is sending the end of the call, so it was asked for.
LEMMA SenderCloses ==
  ASSUME FinishInv, CourseInv, phase \in {"restarting", "flushing", "finishing"}
  PROVE  closing /\ waiting = <<>> /\ ~committed /\ ~acked
BY DEF FinishInv, CourseInv

LEMMA NextCourseInv == RInv /\ CourseInv /\ [Next]_vars => CourseInv'
<1>. SUFFICES ASSUME RInv, CourseInv, [Next]_vars PROVE CourseInv'
  OBVIOUS
<1>. TypeOK /\ WireInv /\ PhaseInv /\ FinishInv /\ AgentInv
  BY DEF RInv, IInv
<1>1. CASE ApiStep
  <2>1. UNCHANGED <<agent, cur>> /\ acked' = acked
    <3>1. acked' = acked
      BY <1>1 DEF ApiStep, Handle, HandlerError, StartLookup, StartCreate,
         SaveRecording, AppendRead, AppendSave, FinishRead, FinishSave,
         FinishEnqueue, Drop, ApiCrash, history
    <3>. QED  BY <1>1, <3>1, ApiWireStep
  <2>2. cur # 0 => /\ req'[cur].kind = req[cur].kind
                   /\ req'[cur].msg = req[cur].msg
                   /\ req[cur].kind # "start" => req'[cur].rec = req[cur].rec
    BY <1>1, AwaitedSubject
  <2>. QED  BY <2>1, <2>2 DEF CourseInv, agent
<1>2. CASE Boot
  <2>1. req'[cur'].kind = "start"
    BY <1>2, PostedRequest DEF Boot, PostStart
  <2>. QED  BY <1>2, <2>1 DEF Boot, CourseInv, history
<1>3. CASE StartReturns
  <2>1. cur' = 0 /\ phase' = "idle"
    BY <1>3 DEF StartReturns, Succeeds, Fails
  <2>. QED  BY <1>3, <2>1 DEF StartReturns, CourseInv, AgentInv
<1>4. CASE Speak
  BY <1>4 DEF Speak, CourseInv, wire, history, Live
<1>5. CASE AppendFinal
  <2>1. ~closing
    BY <1>5 DEF AppendFinal, CourseInv
  <2>2. CASE recordId = 0
    BY <1>5, <2>1, <2>2 DEF AppendFinal, CourseInv, wire
  <2>3. CASE recordId # 0
    <3>1. req'[cur'].rec = recordId
      BY <1>5, <2>3, PostedRequest DEF AppendFinal, PostMessage
    <3>. QED  BY <1>5, <2>1, <2>3, <3>1 DEF AppendFinal, CourseInv
  <2>. QED  BY <2>2, <2>3
<1>6. CASE AppendReturns
  <2>1. cur' = 0 /\ phase' = "idle"
    BY <1>6 DEF AppendReturns, Succeeds, Fails
  <2>. QED  BY <1>6, <2>1 DEF AppendReturns, CourseInv
<1>7. ASSUME NEW k \in Closer, RequestFinish(k) PROVE CourseInv'
  <2>1. /\ closing' /\ waiting' = <<>>
        /\ phase' = (IF phase = "appending" THEN "idle" ELSE phase)
        /\ UNCHANGED <<recordId, buffer, batch, committed, acked>>
        /\ cur' = 0 \/ UNCHANGED wire
        /\ phase \notin {"booting", "starting"}
    BY <1>7 DEF RequestFinish, GiveUp, Live
  <2>. QED  BY <2>1 DEF CourseInv, wire
<1>8. ASSUME NEW k \in Closer, ChooseSender(k) PROVE CourseInv'
  <2>1. closing
    BY <1>8 DEF ChooseSender, CourseInv
  <2>. QED  BY <1>8, <2>1 DEF ChooseSender, CourseInv, wire, history
<1>9. ASSUME NEW k \in Closer, BeginFinish(k) PROVE CourseInv'
  <2>1. closing /\ ~committed /\ cur = 0
    BY <1>9 DEF BeginFinish, CourseInv, FinishInv, PhaseInv
  <2>2. /\ caller' = [caller EXCEPT ![k] = "sending"]
        /\ UNCHANGED <<recordId, waiting, said, closing, committed, acked>>
    BY <1>9 DEF BeginFinish, history
  <2>3. CASE recordId = 0
    <3>1. phase' = "restarting" /\ req'[cur'].kind = "start"
      BY <1>9, <2>3, PostedRequest DEF BeginFinish, PostStart
    <3>. QED  BY <2>1, <2>2, <2>3, <3>1 DEF CourseInv
  <2>4. CASE recordId # 0
    <3>1. phase' = "flushing" /\ UNCHANGED wire
      BY <1>9, <2>4 DEF BeginFinish, Flush
    <3>. QED  BY <2>1, <2>2, <2>4, <3>1 DEF CourseInv, wire
  <2>. QED  BY <2>3, <2>4
<1>10. CASE RestartReturns
  <2>1. closing /\ waiting = <<>> /\ ~acked
    BY <1>10, SenderCloses DEF RestartReturns
  <2>2. cur' = 0 /\ UNCHANGED <<waiting, closing, acked>>
    BY <1>10 DEF RestartReturns, Succeeds, Fails
  <2>3. phase' \in {"idle", "flushing"} /\ (committed' => phase' = "idle")
    <3>1. CASE Flush(2) /\ UNCHANGED <<committed, caller>>
      BY <1>10, <3>1, SenderCloses DEF Flush, RestartReturns
    <3>2. CASE Commit
      BY <3>2 DEF Commit
    <3>. QED  BY <1>10, <3>1, <3>2 DEF RestartReturns
  <2>. QED  BY <2>1, <2>2, <2>3 DEF CourseInv
<1>11. CASE FlushNext
  <2>1. req'[cur'].rec = recordId /\ req'[cur'].msg = Head(batch)
    BY <1>11, PostedRequest DEF FlushNext, PostMessage
  <2>. QED  BY <1>11, <2>1 DEF FlushNext, agent, history, CourseInv
<1>12. CASE FlushReturns
  <2>1. cur' = 0
    BY <1>12 DEF FlushReturns, Succeeds, Fails
  <2>. QED  BY <1>12, <2>1 DEF FlushReturns, CourseInv
<1>13. CASE FlushEnds
  <2>1. /\ UNCHANGED <<recordId, waiting, said, closing, caller, committed, acked>>
        /\ phase = "flushing" /\ cur = 0
    BY <1>13 DEF FlushEnds, history
  <2>2. CASE Flush(1) /\ UNCHANGED wire
    BY <2>1, <2>2 DEF Flush, CourseInv, wire
  <2>3. CASE phase' = "finishing" /\ Post("finish", 0, recordId)
    <3>1. req'[cur'].rec = recordId
      BY <2>3, PostedRequest
    <3>. QED  BY <2>1, <2>3, <3>1 DEF CourseInv
  <2>. QED  BY <1>13, <2>2, <2>3 DEF FlushEnds
<1>14. CASE FinishReturns
  <2>1. cur' = 0 /\ phase' = "idle" /\ committed' /\ recordId # 0
    BY <1>14 DEF FinishReturns, Commit, Succeeds, Fails, PhaseInv
  <2>2. closing /\ waiting = <<>>
    BY <1>14, SenderCloses DEF FinishReturns
  <2>. QED  BY <1>14, <2>1, <2>2 DEF FinishReturns, CourseInv
<1>15. CASE CloseClient
  BY <1>15 DEF CloseClient, CourseInv, wire, history
<1>16. CASE Kill
  BY <1>16 DEF Kill, GiveUp, CourseInv
<1>17. CASE UNCHANGED vars
  BY <1>17 DEF vars, agent, wire, history, CourseInv
<1>. QED
  BY <1>1, <1>2, <1>3, <1>4, <1>5, <1>6, <1>7, <1>8, <1>9, <1>10, <1>11, <1>12,
     <1>13, <1>14, <1>15, <1>16, <1>17 DEF Next, AgentStep, ApiStep

\* s holds the messages that were said after the first n, in order; the record
\* holds those n.
HoldsFrom(s, n) == said = n + Len(s) /\ \A i \in DOMAIN s : s[i] = n + i
Stored(n)       == msgs[recordId] = 1 .. n

\* The message under way is the next the record needs, until the API has it.
Posted ==
  LET m     == req[cur].msg
      stage == req[cur].stage
  IN /\ stage # "rejected"
     /\ stage \in {"sent", "saving"} => Stored(m - 1)
     /\ stage = "ok" => Stored(m)

\* Every message said is in the record, under way, or kept for later, each once
\* and in order, wherever in the call the agent is.
Faithful ==
  /\ recordId = 0 =>
       /\ \A r \in Rec : msgs[r] = {}
       /\ \A i \in DOMAIN buffer : buffer[i] = i
       /\ HoldsFrom(waiting, Len(buffer))
  /\ recordId # 0 /\ phase = "idle" =>
       /\ buffer = <<>>
       /\ Stored(said - Len(waiting))
       /\ HoldsFrom(waiting, said - Len(waiting))
  /\ phase = "appending" =>
       buffer = <<>> /\ HoldsFrom(waiting, req[cur].msg) /\ Posted
  /\ phase = "flushing" =>
       /\ buffer = <<>>
       /\ HoldsFrom(batch, said - Len(batch))
       /\ IF cur = 0 THEN Stored(said - Len(batch)) ELSE Posted
  /\ phase = "finishing" =>
       /\ buffer = <<>>
       /\ Stored(said)
       /\ req[cur].stage = "ok" => status[recordId] = "ended"
  /\ acked => Stored(said) /\ status[recordId] = "ended"

FaithInv == ~abandoned /\ missed = {} => Faithful

LEMMA MissedGrows ==
  ASSUME [Next]_vars PROVE missed \subseteq missed'
<1>1. CASE ApiStep
  BY <1>1 DEF ApiStep, Handle, HandlerError, StartLookup, StartCreate,
     SaveRecording, AppendRead, AppendSave, FinishRead, FinishSave,
     FinishEnqueue, Drop, ApiCrash, history
<1>2. CASE \/ Boot \/ StartReturns \/ AppendFinal \/ AppendReturns
           \/ (\E k \in Closer : ChooseSender(k) \/ BeginFinish(k) \/ RequestFinish(k))
           \/ RestartReturns \/ FlushNext \/ FlushReturns \/ FlushEnds
           \/ FinishReturns \/ Speak \/ CloseClient \/ Kill \/ UNCHANGED vars
  BY <1>2 DEF Boot, StartReturns, AppendFinal, AppendReturns, ChooseSender,
     BeginFinish, RequestFinish, RestartReturns, FlushNext, FlushReturns,
     FlushEnds, FinishReturns, Speak, CloseClient, Kill, Miss, vars, history
<1>. QED  BY <1>1, <1>2 DEF Next, AgentStep, ApiStep

\* A return of the awaited post that leaves nothing behind and misses nothing.
LEMMA FaithfulReturn ==
  ASSUME TypeOK, QuietInv, Posted, Succeeds \/ (Fails /\ Miss(req[cur].msg)),
         ~abandoned', missed' = {}
  PROVE  Succeeds /\ req[cur].stage = "ok"
<1>1. CASE Fails /\ Miss(req[cur].msg)
  <2>1. req[cur].stage = "rejected"
    BY <1>1 DEF Miss
  <2>. QED  BY <2>1 DEF Posted
<1>. QED  BY <1>1 DEF Succeeds, Answered

\* Where no request is awaited, the API has nothing of this call to do.
LEMMA ApiRests ==
  ASSUME RInv, ~abandoned, cur = 0, ApiStep
  PROVE  UNCHANGED <<agent, cur, status, msgs, acked>>
<1>. TypeOK /\ WireInv /\ RecordInv /\ QuietInv
  BY DEF RInv, IInv
<1>1. ASSUME NEW q \in Req, Handle(q) \/ HandlerError(q) PROVE FALSE
  BY <1>1, HandlerKeeps, ReqFacts DEF QuietInv
<1>. QED  BY <1>1 DEF ApiStep, Drop, ApiCrash, db

\* What the handler of the awaited request may be, by the request's kind; the
\* other failures only lose the request or its answer.
LEMMA AwaitedHandler ==
  ASSUME RInv, ~abandoned, cur # 0, ApiStep
  PROVE  /\ cur \in Req /\ cur' = cur /\ Open(cur) /\ req[cur].rec \in Rec
         /\ \/ Handle(cur)
            \/ /\ UNCHANGED <<status, msgs>>
               /\ req'[cur].stage \in {req[cur].stage, "error", "lost"}
<1>. TypeOK /\ WireInv /\ RecordInv /\ QuietInv
  BY DEF RInv, IInv
<1>1. cur \in Req /\ cur' = cur /\ Open(cur) /\ req[cur].rec \in Rec
  BY ApiWireStep DEF TypeOK, WireInv
<1>2. ASSUME NEW q \in Req, Handle(q) \/ HandlerError(q) PROVE q = cur
  BY <1>2, HandlerKeeps DEF QuietInv
<1>3. CASE HandlerError(cur)
  <2>1. Reply(cur, "error") /\ UNCHANGED <<agent, cur, sent, abandoned, status, msgs>>
    BY <1>3 DEF HandlerError, db
  <2>2. Answers(cur, "error")
    BY <1>1, <2>1, ReplyAnswers
  <2>3. req[cur].stage \in Working
    BY <1>1, <1>3, HandlerKeeps
  <2>. QED  BY <1>1, <2>1, <2>2, <2>3 DEF Answers, Working
<1>4. CASE Drop
  <2>1. req'[cur].stage = "lost" /\ UNCHANGED <<status, msgs>>
    <3>1. UNCHANGED <<agent, cur, sent, abandoned, status, msgs>>
      BY <1>4 DEF Drop, db
    <3>. QED  BY <1>1, <1>4, <3>1, AdvanceFacts DEF Drop
  <2>. QED  BY <1>1, <2>1
<1>5. CASE ApiCrash
  <2>1. UNCHANGED <<status, msgs>>
    BY <1>5 DEF ApiCrash, db
  <2>2. CASE req[cur].stage \in Working
    <3>1. req'[cur] = [req[cur] EXCEPT !.stage = "lost"]
      BY <1>1, <1>5, <2>2 DEF ApiCrash
    <3>2. req'[cur].stage = "lost"
      BY <1>1, <3>1 DEF TypeOK, Request
    <3>. QED  BY <1>1, <2>1, <2>2, <3>2 DEF Working
  <2>3. CASE req[cur].stage \notin Working
    <3>1. req'[cur] = req[cur]
      BY <1>1, <1>5, <2>3 DEF ApiCrash
    <3>. QED  BY <1>1, <2>1, <2>3, <3>1 DEF Working
  <2>. QED  BY <2>2, <2>3
<1>. QED  BY <1>1, <1>2, <1>3, <1>4, <1>5 DEF ApiStep

\* A start stores no message.
LEMMA StartStoresNothing ==
  ASSUME RInv, ~abandoned, cur # 0, ApiStep, req[cur].kind = "start",
         \A r \in Rec : msgs[r] = {}
  PROVE  \A r \in Rec : msgs'[r] = {}
<1>. TypeOK /\ WireInv /\ RecordInv /\ QuietInv
  BY DEF RInv, IInv
<1>1. cur \in Req /\ req[cur].rec \in Rec /\ (Handle(cur) \/ UNCHANGED msgs)
  BY AwaitedHandler
<1>2. CASE StartLookup(cur) \/ StartCreate(cur) \/ UNCHANGED msgs
  BY <1>2 DEF StartLookup, StartCreate, db
<1>3. CASE SaveRecording(cur)
  <2>1. Saved(cur, "in_progress", {}) \/ UNCHANGED msgs
    BY <1>1, <1>3, SaveFacts DEF SaveRecording
  <2>2. CASE Saved(cur, "in_progress", {})
    BY <1>1, <2>2 DEF Saved, Spares
  <2>. QED  BY <2>1, <2>2
<1>. QED
  BY <1>1, <1>2, <1>3 DEF Handle, AppendRead, AppendSave, FinishRead,
     FinishSave, FinishEnqueue, Handling

\* A call is not over while a message of it is posted.
LEMMA PostedInProgress ==
  ASSUME RInv, CourseInv, ~abandoned, phase \in {"appending", "flushing"}
  PROVE  recordId \in Rec /\ status[recordId] = "in_progress"
<1>1. recordId \in Rec /\ status[recordId] # "absent"
  BY DEF RInv, IInv, TypeOK, PhaseInv, AgentInv
<1>2. ~committed
  BY DEF CourseInv
<1>3. Of("finish") = {}
  BY <1>2 DEF RInv, IInv, FinishInv
<1>4. status[recordId] # "ended"
  BY <1>1, <1>3 DEF RInv, QuietInv
<1>. QED  BY <1>1, <1>4 DEF RInv, IInv, TypeOK

LEMMA UpTo ==
  ASSUME NEW m \in Nat \ {0}
  PROVE  /\ m \notin 1 .. (m - 1) /\ \A n \in 1 .. (m - 1) : n < m
         /\ (1 .. (m - 1)) \cup {m} = 1 .. m
OBVIOUS

\* The API takes the next message as the next message.
LEMMA ApiKeepsPosted ==
  ASSUME RInv, CourseInv, ~abandoned, cur # 0, ApiStep,
         phase \in {"appending", "flushing"}, Posted
  PROVE  Posted'
<1>. DEFINE m == req[cur].msg
            r == req[cur].rec
<1>. TypeOK /\ WireInv /\ RecordInv /\ QuietInv /\ PhaseInv
  BY DEF RInv, IInv
<1>1. /\ req[cur].kind = "append" /\ m \in Final /\ r = recordId
      /\ recordId' = recordId /\ cur' = cur /\ req'[cur].msg = m
  BY AwaitedMessage, AwaitedSubject, ApiWireStep DEF PhaseInv, CourseInv, agent
<1>2. m \in Nat \ {0} /\ recordId \in Rec /\ status[recordId] = "in_progress"
  BY <1>1, PostedInProgress, SessionAssumption DEF Final
<1>3. /\ cur \in Req /\ Open(cur)
      /\ \/ Handle(cur)
         \/ /\ UNCHANGED <<status, msgs>>
            /\ req'[cur].stage \in {req[cur].stage, "error", "lost"}
  BY AwaitedHandler
<1>4. ASSUME UNCHANGED msgs, req'[cur].stage \in {req[cur].stage, "error", "lost"}
      PROVE  Posted'
  BY <1>1, <1>4 DEF Posted, Stored
<1>5. CASE AppendRead(cur)
  <2>1. Stored(m - 1) /\ UNCHANGED msgs
    BY <1>5 DEF AppendRead, Handling, Posted, db
  <2>2. m \notin msgs[r] /\ \A n \in msgs[r] : n < m
    BY <1>1, <1>2, <2>1, UpTo DEF Stored
  <2>3. ~\E n \in msgs[r] : m < n
    <3>. SUFFICES ASSUME NEW n \in msgs[r] PROVE ~(m < n)
      OBVIOUS
    <3>1. n < m /\ n \in Nat
      BY <1>1, <1>2, <2>2 DEF TypeOK, Final
    <3>. QED  BY <1>2, <3>1
  <2>4. req' = [req EXCEPT ![cur].stage = "saving", ![cur].copy = msgs[r]]
    BY <1>1, <1>2, <1>5, <2>2, <2>3 DEF AppendRead
  <2>5. req'[cur].stage = "saving"
    BY <1>3, <1>5, <2>4, AdvanceFacts DEF AppendRead, history
  <2>. QED  BY <1>1, <2>1, <2>5 DEF Posted, Stored
<1>6. CASE AppendSave(cur)
  <2>1. /\ req[cur].stage = "saving" /\ UNCHANGED <<agent, cur, sent, abandoned>>
        /\ Save(cur, "in_progress", req[cur].copy \cup {m}, Reply(cur, "ok"))
    BY <1>6 DEF AppendSave, Handling, history
  <2>2. req[cur].copy = msgs[r] /\ msgs[r] = 1 .. (m - 1)
    BY <1>1, <1>3, <2>1 DEF QuietInv, Posted, Stored
  <2>3. CASE Reply(cur, "error") /\ UNCHANGED <<status, msgs>>
    BY <1>3, <1>4, <2>1, <2>3, ReplyAnswers DEF Answers
  <2>4. CASE Reply(cur, "ok") /\ Saved(cur, "in_progress", req[cur].copy \cup {m})
    <3>1. req'[cur].stage = "ok"
      BY <1>3, <2>1, <2>4, ReplyAnswers DEF Answers
    <3>2. msgs'[r] = 1 .. m
      <4>1. req[cur].copy \cup {m} = 1 .. m
        BY <1>2, <2>2, UpTo
      <4>2. (1 .. m) \cup msgs[r] = 1 .. m
        BY <2>2, <4>1
      <4>. QED  BY <2>4, <4>1, <4>2 DEF Saved
    <3>. QED  BY <1>1, <3>1, <3>2 DEF Posted, Stored
  <2>5. \/ Reply(cur, "ok") /\ Saved(cur, "in_progress", req[cur].copy \cup {m})
        \/ Reply(cur, "error") /\ UNCHANGED <<status, msgs>>
    <3>. DEFINE next == Reply(cur, "ok")
                new  == req[cur].copy \cup {m}
    <3>1. Save(cur, "in_progress", new, next)
      BY <2>1
    <3>. HIDE DEF next, new
    <3>2. (next /\ Saved(cur, "in_progress", new))
            \/ (Reply(cur, "error") /\ UNCHANGED <<status, msgs>>)
      BY <1>1, <1>2, <1>3, <3>1, SaveFacts
    <3>. QED  BY <3>2 DEF next, new
  <2>. QED  BY <2>3, <2>4, <2>5
<1>7. Handle(cur) => AppendRead(cur) \/ AppendSave(cur)
  BY <1>1 DEF Handle, StartLookup, StartCreate, SaveRecording, FinishRead,
     FinishSave, FinishEnqueue, Handling
<1>. QED  BY <1>3, <1>4, <1>5, <1>6, <1>7

\* The API ends the record as the agent filled it, and says so afterwards.
LEMMA ApiKeepsFinishing ==
  ASSUME RInv, CourseInv, ~abandoned, ApiStep, phase = "finishing",
         NEW n \in Nat, Stored(n),
         req[cur].stage = "ok" => status[recordId] = "ended"
  PROVE  /\ msgs'[recordId] = 1 .. n
         /\ req'[cur].stage = "ok" => status'[recordId] = "ended"
<1>. DEFINE r == req[cur].rec
<1>. TypeOK /\ WireInv /\ RecordInv /\ QuietInv /\ PhaseInv /\ AgentInv
  BY DEF RInv, IInv
<1>1. /\ cur # 0 /\ req[cur].kind = "finish" /\ r = recordId
      /\ recordId' = recordId /\ cur' = cur
  BY AwaitedSubject, ApiWireStep DEF PhaseInv, CourseInv, agent
<1>2. /\ cur \in Req /\ Open(cur) /\ r \in Rec
      /\ \/ Handle(cur)
         \/ /\ UNCHANGED <<status, msgs>>
            /\ req'[cur].stage \in {req[cur].stage, "error", "lost"}
  BY <1>1, AwaitedHandler
<1>3. status[r] \in {"in_progress", "ended"}
  BY <1>1, <1>2, ReqFacts DEF AgentInv, TypeOK
<1>4. CASE FinishRead(cur)
  <2>1. UNCHANGED <<status, msgs, agent, cur, sent, abandoned>>
    BY <1>4 DEF FinishRead, db, history
  <2>2. CASE status[r] # "in_progress"
    BY <1>1, <1>3, <2>1, <2>2 DEF Stored
  <2>3. CASE status[r] = "in_progress"
    <3>1. req'[cur].stage = "saving"
      BY <1>2, <1>4, <2>1, <2>3, AdvanceFacts DEF FinishRead
    <3>. QED  BY <1>1, <2>1, <3>1 DEF Stored
  <2>. QED  BY <2>2, <2>3
<1>5. CASE FinishSave(cur)
  <2>. DEFINE next == \E body \in {req[cur].copy, msgs[r]} :
                req' = [req EXCEPT ![cur].stage = "queueing", ![cur].copy = body]
  <2>1. /\ req[cur].stage = "saving" /\ UNCHANGED <<agent, cur, sent, abandoned>>
        /\ Save(cur, "ended", req[cur].copy, next)
    BY <1>5 DEF FinishSave, Handling, history
  <2>2. req[cur].copy = msgs[r]
    BY <1>2, <2>1 DEF QuietInv
  <2>3. CASE Reply(cur, "error") /\ UNCHANGED <<status, msgs>>
    <3>1. req'[cur].stage = "error"
      BY <1>2, <2>1, <2>3, ReplyAnswers DEF Answers
    <3>. QED  BY <1>1, <2>3, <3>1 DEF Stored
  <2>4. CASE next /\ Saved(cur, "ended", req[cur].copy)
    <3>1. req'[cur].stage = "queueing"
      <4>1. PICK body \in {req[cur].copy, msgs[r]} :
              req' = [req EXCEPT ![cur].stage = "queueing", ![cur].copy = body]
        BY <2>4
      <4>. QED  BY <1>2, <2>1, <4>1, AdvanceFacts
    <3>2. msgs'[r] = msgs[r]
      BY <2>2, <2>4 DEF Saved
    <3>. QED  BY <1>1, <3>1, <3>2 DEF Stored
  <2>. HIDE DEF next
  <2>. QED  BY <1>2, <2>1, <2>3, <2>4, SaveFacts
<1>6. CASE FinishEnqueue(cur)
  <2>1. status[r] = "ended" /\ UNCHANGED <<status, msgs>>
    BY <1>2, <1>6 DEF FinishEnqueue, Handling, QuietInv
  <2>. QED  BY <1>1, <2>1 DEF Stored
<1>7. Handle(cur) => FinishRead(cur) \/ FinishSave(cur) \/ FinishEnqueue(cur)
  BY <1>1 DEF Handle, StartLookup, StartCreate, SaveRecording, AppendRead,
     AppendSave, Handling
<1>8. CASE /\ UNCHANGED <<status, msgs>>
           /\ req'[cur].stage \in {req[cur].stage, "error", "lost"}
  BY <1>1, <1>8 DEF Stored
<1>. QED  BY <1>2, <1>4, <1>5, <1>6, <1>7, <1>8

LEMMA ApiFaithful ==
  ASSUME RInv, CourseInv, ~abandoned, Faithful, ApiStep
  PROVE  Faithful'
<1>. TypeOK /\ WireInv /\ QuietInv /\ PhaseInv
  BY DEF RInv, IInv
<1>1. UNCHANGED <<agent, cur>>
  BY ApiWireStep
<1>2. acked' = acked
  BY DEF ApiStep, Handle, HandlerError, StartLookup, StartCreate, SaveRecording,
     AppendRead, AppendSave, FinishRead, FinishSave, FinishEnqueue, Drop,
     ApiCrash, history
<1>3. CASE cur = 0
  <2>1. UNCHANGED <<status, msgs>>
    BY <1>3, ApiRests
  <2>2. phase \notin {"appending", "finishing"}
    BY <1>3 DEF PhaseInv
  <2>. QED  BY <1>1, <1>2, <1>3, <2>1, <2>2
       DEF agent, Faithful, Stored, HoldsFrom
<1>4. CASE cur # 0
  <2>1. phase \notin {"booting", "idle", "over"} /\ ~acked
    BY <1>4 DEF PhaseInv, CourseInv
  <2>2. CASE phase \in {"starting", "restarting"}
    <3>1. recordId = 0 /\ \A r \in Rec : msgs'[r] = {}
      BY <1>4, <2>2, StartStoresNothing DEF PhaseInv, CourseInv, Faithful
    <3>. QED  BY <1>1, <1>2, <2>1, <2>2, <3>1 DEF agent, Faithful, HoldsFrom
  <2>3. CASE phase \in {"appending", "flushing"}
    <3>1. Posted' /\ recordId # 0 /\ req'[cur].msg = req[cur].msg
      BY <1>4, <2>3, ApiKeepsPosted, AwaitedSubject DEF Faithful, PhaseInv
    <3>. QED  BY <1>1, <1>2, <1>4, <2>1, <2>3, <3>1 DEF agent, Faithful, HoldsFrom
  <2>4. CASE phase = "finishing"
    <3>1. /\ Stored(said)' /\ recordId # 0
          /\ req'[cur].stage = "ok" => status'[recordId] = "ended"
      <4>1. said \in Nat /\ Stored(said) /\ said' = said
        BY <1>1, <2>4, SessionAssumption DEF Faithful, TypeOK, agent
      <4>2. /\ msgs'[recordId] = 1 .. said
            /\ req'[cur].stage = "ok" => status'[recordId] = "ended"
        BY <2>4, <4>1, ApiKeepsFinishing DEF Faithful
      <4>. QED  BY <1>1, <2>4, <4>1, <4>2 DEF PhaseInv, Stored, agent
    <3>. QED  BY <1>1, <1>2, <2>1, <2>4, <3>1 DEF agent, Faithful
  <2>. QED  BY <2>1, <2>2, <2>3, <2>4 DEF TypeOK
<1>. QED  BY <1>3, <1>4

LEMMA HoldsFromFacts ==
  ASSUME NEW s \in Seq(Final), NEW n \in Int
  PROVE  /\ s # <<>> /\ HoldsFrom(s, n) =>
              Head(s) = n + 1 /\ HoldsFrom(Tail(s), n + 1)
         /\ HoldsFrom(s, n) => n = said - Len(s) /\ (s = <<>> => n = said)
         /\ said \in Nat /\ said + 1 \in Final /\ HoldsFrom(s, n) =>
              LET t == Append(s, said + 1)
              IN said + 1 = n + Len(t) /\ \A i \in DOMAIN t : t[i] = n + i
         /\ said = n => HoldsFrom(<<>>, n)
<1>. Final \subseteq Nat
  BY DEF Final
<1>1. ASSUME s # <<>>, HoldsFrom(s, n)
      PROVE  Head(s) = n + 1 /\ HoldsFrom(Tail(s), n + 1)
  <2>1. Head(s) = s[1] /\ 1 \in DOMAIN s /\ Len(Tail(s)) = Len(s) - 1
    BY <1>1
  <2>2. \A i \in DOMAIN Tail(s) : Tail(s)[i] = s[i + 1] /\ i + 1 \in DOMAIN s
    BY <1>1
  <2>3. \A i \in DOMAIN Tail(s) : n + (i + 1) = (n + 1) + i
    BY <1>1
  <2>. QED  BY <1>1, <2>1, <2>2, <2>3 DEF HoldsFrom
<1>2. ASSUME HoldsFrom(s, n)
      PROVE  n = said - Len(s) /\ (s = <<>> => n = said)
  BY <1>2 DEF HoldsFrom
<1>3. ASSUME said \in Nat, said + 1 \in Final, HoldsFrom(s, n),
             NEW t, t = Append(s, said + 1)
      PROVE  said + 1 = n + Len(t) /\ \A i \in DOMAIN t : t[i] = n + i
  <2>1. Len(t) = Len(s) + 1 /\ said = n + Len(s) /\ t[Len(s) + 1] = said + 1
    BY <1>3 DEF HoldsFrom
  <2>2. ASSUME NEW i \in DOMAIN t, i # Len(s) + 1 PROVE t[i] = n + i
    <3>1. i \in DOMAIN s /\ t[i] = s[i]
      BY <1>3, <2>2
    <3>. QED  BY <1>3, <3>1 DEF HoldsFrom
  <2>. QED  BY <2>1, <2>2
<1>4. said = n => HoldsFrom(<<>>, n)
  BY DEF HoldsFrom
<1>. QED  BY <1>1, <1>2, <1>3, <1>4

\* Before the record is known the buffer takes what is said, in order.
LEMMA BufferFaithful ==
  ASSUME TypeOK, phase = "idle", AppendFinal, recordId = 0, Faithful, missed' = {}
  PROVE  Faithful'
<1>. DEFINE m == Head(waiting)
            n == Len(buffer)
<1>1. /\ waiting \in Seq(Final) /\ waiting # <<>> /\ waiting' = Tail(waiting)
      /\ buffer' = Buffered(m)
      /\ missed' = missed \cup (IF n < BufferLimit THEN {} ELSE {Head(buffer)})
      /\ UNCHANGED <<recordId, phase, said, msgs, status, acked>>
  BY DEF AppendFinal, TypeOK, db
<1>2. n < BufferLimit /\ buffer' = Append(buffer, m) /\ buffer \in Seq(Final)
  BY <1>1, Zenon DEF Buffered, TypeOK
<1>3. m = n + 1 /\ HoldsFrom(Tail(waiting), n + 1) /\ m \in Final
  <2>1. n \in Int
    BY <1>2
  <2>. QED  BY <1>1, <2>1, HoldsFromFacts DEF Faithful
<1>4. Len(buffer') = n + 1 /\ \A i \in DOMAIN buffer' : buffer'[i] = i
  <2>1. \A i \in DOMAIN buffer : buffer[i] = i
    BY DEF Faithful
  <2>. QED  BY <1>2, <1>3, <2>1
<1>5. HoldsFrom(waiting, Len(buffer))'
  BY <1>1, <1>3, <1>4 DEF HoldsFrom
<1>. QED  BY <1>1, <1>4, <1>5 DEF Faithful, Stored

\* Before the record is known the agent only listens and asks for a start.
LEMMA EarlyFaithful ==
  ASSUME recordId = 0, Faithful, ~acked',
         UNCHANGED <<recordId, buffer, waiting, said, msgs>>,
         phase' \notin {"appending", "flushing", "finishing"}
  PROVE  Faithful'
BY DEF Faithful, HoldsFrom

\* Steps that leave the messages and the awaited request where they are.
LEMMA StillFaithful ==
  ASSUME Faithful,
         UNCHANGED <<phase, recordId, buffer, waiting, batch, said, acked, cur,
                     req, status, msgs>>
  PROVE  Faithful'
BY DEF Faithful, HoldsFrom, Stored, Posted

LEMMA StartFaithful ==
  ASSUME RInv, CourseInv, Faithful, StartReturns \/ RestartReturns
  PROVE  Faithful'
<1>. TypeOK /\ WireInv /\ PhaseInv /\ FinishInv
  BY DEF RInv, IInv
<1>1. /\ recordId = 0 /\ ~acked /\ cur \in Req /\ waiting = <<>>
      /\ UNCHANGED <<waiting, said, acked, msgs, status>>
  BY SenderCloses, Zenon
     DEF StartReturns, RestartReturns, CourseInv, PhaseInv, db, TypeOK
<1>2. CASE Succeeds /\ recordId' = req[cur].rec
  <2>1. recordId' # 0 /\ Stored(0)' /\ cur' = 0
    <3>1. req[cur].rec \in Rec /\ cur' = 0
      BY <1>1, <1>2, ReqFacts DEF WireInv, Succeeds
    <3>2. msgs'[req[cur].rec] = {}
      BY <1>1, <3>1 DEF Faithful
    <3>. QED  BY <1>2, <3>1, <3>2, ReqFacts DEF Stored
  <2>2. CASE StartReturns
    <3>1. said = 0 /\ buffer = <<>>
      BY <2>2 DEF StartReturns, CourseInv
    <3>2. buffer' = buffer /\ phase' = "idle"
      BY <2>2 DEF StartReturns
    <3>. QED  BY <1>1, <2>1, <3>1, <3>2 DEF Faithful, HoldsFrom
  <2>3. CASE RestartReturns
    <3>1. phase' = "flushing" /\ batch' = buffer /\ buffer' = <<>>
      BY <1>1, <1>2, <2>1, <2>3 DEF RestartReturns, Flush
    <3>2. said = Len(buffer) /\ \A i \in DOMAIN buffer : buffer[i] = i
      <4>1. Len(buffer) \in Nat /\ HoldsFrom(<<>>, Len(buffer))
        BY <1>1 DEF Faithful, TypeOK
      <4>. QED  BY <1>1, <4>1 DEF Faithful, HoldsFrom
    <3>3. buffer \in Seq(Final)
      BY DEF TypeOK
    <3>4. said' - Len(batch') = 0 /\ HoldsFrom(batch, 0)'
      BY <1>1, <3>1, <3>2, <3>3 DEF HoldsFrom
    <3>. QED  BY <1>1, <2>1, <3>1, <3>4 DEF Faithful
  <2>. QED  BY <2>2, <2>3
<1>3. CASE recordId' = recordId
  <2>1. phase' = "idle" /\ buffer' = buffer
    <3>1. CASE StartReturns
      BY <3>1 DEF StartReturns
    <3>2. CASE RestartReturns
      <4>1. req[cur].rec # 0
        BY <1>1, ReqFacts DEF WireInv
      <4>. QED  BY <1>1, <1>3, <3>2, <4>1 DEF RestartReturns, Commit
    <3>. QED  BY <3>1, <3>2
  <2>. QED  BY <1>1, <1>3, <2>1, EarlyFaithful
<1>. QED  BY <1>2, <1>3 DEF StartReturns, RestartReturns

LEMMA SpeakFaithful ==
  ASSUME RInv, CourseInv, Faithful, Speak PROVE Faithful'
<1>. TypeOK /\ FinishInv /\ PhaseInv
  BY DEF RInv, IInv
<1>1. /\ ~closing /\ ~acked /\ said' = said + 1 /\ waiting' = Append(waiting, said + 1)
      /\ UNCHANGED <<phase, recordId, buffer, batch, acked, cur, req, status, msgs>>
  BY DEF Speak, CourseInv, wire, db, history
<1>2. phase \in {"idle", "appending"}
  BY <1>1, SenderCloses DEF Speak, Live, TypeOK
<1>3. /\ waiting \in Seq(Final) /\ said \in Nat /\ said + 1 \in Final
      /\ Len(waiting') = Len(waiting) + 1 /\ Len(waiting) \in Nat
  BY <1>1, SessionAssumption DEF Speak, TypeOK, Final
<1>4. ASSUME NEW n \in Int, HoldsFrom(waiting, n)
      PROVE  said' = n + Len(waiting') /\ \A i \in DOMAIN waiting' : waiting'[i] = n + i
  BY <1>1, <1>3, <1>4, HoldsFromFacts
<1>5. CASE recordId = 0
  <2>1. Len(buffer) \in Int /\ phase = "idle"
    BY <1>2, <1>5 DEF TypeOK, PhaseInv
  <2>2. HoldsFrom(waiting, Len(buffer))'
    BY <1>1, <1>4, <1>5, <2>1 DEF Faithful, HoldsFrom
  <2>. QED  BY <1>1, <1>5, <2>1, <2>2 DEF Faithful
<1>6. CASE recordId # 0 /\ phase = "idle"
  <2>1. said' - Len(waiting') = said - Len(waiting) /\ said - Len(waiting) \in Int
    BY <1>1, <1>3
  <2>2. HoldsFrom(waiting, said - Len(waiting))'
    BY <1>1, <1>4, <1>6, <2>1 DEF Faithful, HoldsFrom
  <2>. QED  BY <1>1, <1>6, <2>1, <2>2 DEF Faithful, Stored
<1>7. CASE recordId # 0 /\ phase = "appending"
  <2>1. req[cur].msg \in Int
    BY <1>7, AwaitedMessage DEF RInv, IInv, PhaseInv, Final
  <2>2. HoldsFrom(waiting, req[cur].msg)'
    BY <1>1, <1>4, <1>7, <2>1 DEF Faithful, HoldsFrom
  <2>. QED  BY <1>1, <1>7, <2>2 DEF Faithful, Posted, Stored
<1>. QED  BY <1>2, <1>5, <1>6, <1>7

LEMMA AppendFaithful ==
  ASSUME RInv, CourseInv, Faithful, AppendFinal \/ AppendReturns,
         ~abandoned', missed' = {}
  PROVE  Faithful'
<1>. TypeOK /\ WireInv /\ FinishInv /\ PhaseInv /\ QuietInv
  BY DEF RInv, IInv
<1>1. CASE AppendFinal /\ recordId = 0
  BY <1>1, BufferFaithful DEF AppendFinal
<1>2. CASE AppendFinal /\ recordId # 0
  <2>. DEFINE m == Head(waiting)
              n == said - Len(waiting)
  <2>1. /\ phase = "idle" /\ phase' = "appending" /\ waiting # <<>>
        /\ waiting' = Tail(waiting) /\ PostMessage(m)
        /\ UNCHANGED <<recordId, buffer, said, acked, status, msgs>>
    BY <1>2 DEF AppendFinal, db
  <2>2. n \in Int /\ waiting \in Seq(Final) /\ HoldsFrom(waiting, n) /\ Stored(n)
    BY <1>2, <2>1 DEF Faithful, TypeOK
  <2>3. m = n + 1 /\ HoldsFrom(Tail(waiting), n + 1)
    BY <2>1, <2>2, HoldsFromFacts
  <2>4. req'[cur'].msg = m /\ req'[cur'].stage \in {"sent", "lost"}
    BY <2>1, PostedRequest DEF PostMessage
  <2>5. m - 1 = n
    BY <2>2, <2>3
  <2>6. Posted' /\ HoldsFrom(waiting, req[cur].msg)'
    BY <2>1, <2>2, <2>3, <2>4, <2>5 DEF Posted, Stored, HoldsFrom
  <2>. QED  BY <1>2, <2>1, <2>4, <2>6 DEF Faithful, CourseInv, Stored
<1>3. CASE AppendReturns
  <2>1. /\ phase = "appending" /\ phase' = "idle" /\ recordId # 0
        /\ UNCHANGED <<recordId, waiting, said, acked, status, msgs>>
    BY <1>3 DEF AppendReturns, PhaseInv, db
  <2>2. Posted /\ HoldsFrom(waiting, req[cur].msg) /\ buffer = <<>>
    BY <2>1 DEF Faithful
  <2>3. Succeeds /\ req[cur].stage = "ok"
    <3>1. Succeeds \/ (Fails /\ Miss(req[cur].msg))
      BY <1>3 DEF AppendReturns
    <3>. QED  BY <2>2, <3>1, FaithfulReturn
  <2>4. buffer' = buffer
    <3>1. ~Fails
      BY <2>3 DEF Succeeds, Fails, Failed, Working
    <3>. QED  BY <1>3, <3>1 DEF AppendReturns
  <2>5. req[cur].msg = said - Len(waiting) /\ Stored(req[cur].msg)
    <3>1. req[cur].msg \in Int /\ waiting \in Seq(Final)
      BY <2>1, AwaitedMessage DEF PhaseInv, Final, TypeOK
    <3>. QED  BY <2>2, <2>3, <3>1, HoldsFromFacts DEF Posted
  <2>6. ~acked
    BY <2>1 DEF CourseInv
  <2>. QED  BY <2>1, <2>2, <2>4, <2>5, <2>6 DEF Faithful, Stored, HoldsFrom
<1>. QED  BY <1>1, <1>2, <1>3

\* What a flush that leaves nothing behind does with its head.
LEMMA FlushFaithful ==
  ASSUME RInv, CourseInv, Faithful, FlushNext \/ FlushReturns,
         ~abandoned', missed' = {}
  PROVE  Faithful'
<1>. DEFINE m == Head(batch)
            n == said - Len(batch)
<1>. TypeOK /\ WireInv /\ FinishInv /\ PhaseInv /\ QuietInv
  BY DEF RInv, IInv
<1>1. /\ phase = "flushing" /\ batch # <<>> /\ ~acked /\ recordId # 0
      /\ UNCHANGED <<phase, recordId, said, acked, status, msgs>>
  BY SenderCloses DEF FlushNext, FlushReturns, PhaseInv, agent, db, history
<1>2. /\ n \in Int /\ batch \in Seq(Final) /\ HoldsFrom(batch, n) /\ buffer = <<>>
  BY <1>1 DEF Faithful, TypeOK
<1>3. m = n + 1 /\ HoldsFrom(Tail(batch), n + 1)
  BY <1>1, <1>2, HoldsFromFacts
<1>4. CASE FlushNext
  <2>1. Stored(n) /\ UNCHANGED <<batch, buffer>>
    BY <1>1, <1>4 DEF FlushNext, Faithful, agent
  <2>2. cur' # 0 /\ req'[cur'].msg = m /\ req'[cur'].stage \in {"sent", "lost"}
    BY <1>4, PostedRequest DEF FlushNext, PostMessage
  <2>3. m - 1 = n
    BY <1>2, <1>3
  <2>4. Posted'
    BY <1>1, <2>1, <2>2, <2>3 DEF Posted, Stored
  <2>5. HoldsFrom(batch, said - Len(batch))'
    BY <1>1, <1>2, <2>1 DEF HoldsFrom
  <2>. QED  BY <1>1, <1>2, <2>1, <2>2, <2>4, <2>5 DEF Faithful
<1>5. CASE FlushReturns
  <2>1. Posted /\ req[cur].msg = m /\ batch' = Tail(batch) /\ cur' = 0
    BY <1>1, <1>5 DEF FlushReturns, Faithful, CourseInv, Succeeds, Fails
  <2>2. Succeeds /\ req[cur].stage = "ok"
    <3>1. Succeeds \/ (Fails /\ Miss(req[cur].msg))
      BY <1>5, <2>1 DEF FlushReturns
    <3>. QED  BY <2>1, <3>1, FaithfulReturn
  <2>3. buffer' = buffer
    <3>1. ~Fails
      BY <2>2 DEF Succeeds, Fails, Failed, Working
    <3>. QED  BY <1>5, <3>1 DEF FlushReturns
  <2>4. Stored(m)
    BY <2>1, <2>2 DEF Posted
  <2>5. said - Len(Tail(batch)) = m
    <3>1. Tail(batch) \in Seq(Final) /\ n + 1 \in Int
      BY <1>1, <1>2
    <3>. QED  BY <1>3, <3>1, HoldsFromFacts
  <2>6. Stored(said - Len(batch))' /\ HoldsFrom(batch, said - Len(batch))'
    BY <1>1, <1>3, <2>1, <2>4, <2>5 DEF Stored, HoldsFrom
  <2>. QED  BY <1>1, <1>2, <2>1, <2>3, <2>6 DEF Faithful
<1>. QED  BY <1>4, <1>5

LEMMA EndFaithful ==
  ASSUME RInv, CourseInv, Faithful, NEW k \in Closer, BeginFinish(k) \/ FlushEnds
  PROVE  Faithful'
<1>. TypeOK /\ WireInv /\ FinishInv /\ PhaseInv
  BY DEF RInv, IInv
<1>1. /\ closing /\ waiting = <<>> /\ ~acked /\ cur = 0 /\ said \in Nat
      /\ UNCHANGED <<recordId, waiting, said, acked, status, msgs>>
  <2>1. CASE BeginFinish(k)
    BY <2>1, SessionAssumption
       DEF BeginFinish, CourseInv, FinishInv, PhaseInv, db, history, TypeOK
  <2>2. CASE FlushEnds
    BY <2>2, SenderCloses, SessionAssumption DEF FlushEnds, db, history, TypeOK
  <2>. QED  BY <2>1, <2>2
<1>2. CASE BeginFinish(k) /\ recordId = 0
  BY <1>1, <1>2, EarlyFaithful DEF BeginFinish
<1>3. CASE ~(BeginFinish(k) /\ recordId = 0)
  <2>1. recordId # 0 /\ buffer = <<>> /\ Stored(said)
    <3>1. CASE BeginFinish(k)
      <4>1. phase = "idle" /\ recordId # 0 /\ said - Len(waiting) = said
        BY <1>1, <1>3, <3>1 DEF BeginFinish
      <4>. QED  BY <4>1 DEF Faithful
    <3>2. CASE FlushEnds
      <4>1. /\ phase = "flushing" /\ cur = 0 /\ recordId # 0
            /\ said - Len(batch) = said
        BY <1>1, <3>2 DEF FlushEnds, PhaseInv
      <4>. QED  BY <4>1 DEF Faithful
    <3>. QED  BY <3>1, <3>2
  <2>2. CASE Flush(1) /\ UNCHANGED wire
    <3>1. phase' = "flushing" /\ batch' = <<>> /\ buffer' = <<>> /\ cur' = 0
      BY <1>1, <2>1, <2>2 DEF Flush, wire
    <3>2. said' - Len(batch') = said
      BY <1>1, <3>1
    <3>3. Stored(said - Len(batch))' /\ HoldsFrom(batch, said - Len(batch))'
      BY <1>1, <2>1, <3>1, <3>2 DEF Stored, HoldsFrom
    <3>. QED  BY <1>1, <2>1, <3>1, <3>3 DEF Faithful
  <2>3. CASE /\ phase' = "finishing" /\ Post("finish", 0, recordId)
             /\ UNCHANGED buffer
    <3>1. req'[cur'].stage \in {"sent", "lost"}
      BY <2>3, PostedRequest
    <3>. QED  BY <1>1, <2>1, <2>3, <3>1 DEF Faithful, Stored
  <2>. QED  BY <1>3, <2>1, <2>2, <2>3 DEF BeginFinish, FlushEnds
<1>. QED  BY <1>2, <1>3

LEMMA HangUpFaithful ==
  ASSUME RInv, CourseInv, Faithful, missed' = {},
         FinishReturns \/ Kill \/ \E k \in Closer : RequestFinish(k)
  PROVE  Faithful'
<1>. TypeOK /\ WireInv /\ FinishInv /\ PhaseInv
  BY DEF RInv, IInv
<1>1. CASE FinishReturns
  <2>1. /\ phase = "finishing" /\ phase' = "idle" /\ recordId # 0 /\ ~acked
        /\ waiting = <<>> /\ said \in Nat
        /\ UNCHANGED <<recordId, buffer, waiting, said, status, msgs>>
    BY <1>1, SenderCloses, SessionAssumption
       DEF FinishReturns, Commit, PhaseInv, db, TypeOK
  <2>2. acked' => req[cur].stage = "ok"
    BY <1>1, <2>1 DEF FinishReturns, Succeeds, Answered
  <2>3. buffer = <<>> /\ Stored(said)
        /\ (acked' => status[recordId] = "ended")
    BY <2>1, <2>2 DEF Faithful
  <2>4. said - Len(waiting) = said /\ HoldsFrom(<<>>, said)
    BY <2>1 DEF HoldsFrom
  <2>. QED  BY <2>1, <2>3, <2>4 DEF Faithful, Stored, HoldsFrom
<1>2. CASE Kill
  <2>1. phase' = "over"
        /\ UNCHANGED <<recordId, buffer, waiting, said, acked, status, msgs>>
    BY <1>2 DEF Kill, db
  <2>. QED  BY <2>1 DEF Faithful, Stored, HoldsFrom
<1>3. ASSUME NEW k \in Closer, RequestFinish(k) PROVE Faithful'
  <2>1. phase # "appending" /\ waiting = <<>>
    <3>1. phase # "appending" /\ {waiting[i] : i \in DOMAIN waiting} = {}
      BY <1>3 DEF RequestFinish
    <3>2. waiting \in Seq(Final) /\ DOMAIN waiting = {}
      BY <3>1 DEF TypeOK
    <3>. QED  BY <3>1, <3>2
  <2>2. UNCHANGED <<phase, recordId, buffer, waiting, batch, said, acked, cur,
                    req, status, msgs>>
    BY <1>3, <2>1 DEF RequestFinish, wire, db
  <2>. QED  BY <2>2, StillFaithful
<1>. QED  BY <1>1, <1>2, <1>3

LEMMA NextFaithInv == RInv /\ CourseInv /\ FaithInv /\ [Next]_vars => FaithInv'
<1>. SUFFICES ASSUME RInv, CourseInv, FaithInv, [Next]_vars,
                     ~abandoned', missed' = {}
              PROVE  Faithful'
  BY DEF FaithInv
<1>. TypeOK /\ WireInv /\ RecordInv /\ QuietInv
  BY DEF RInv, IInv
<1>1. ~abandoned /\ Faithful
  BY AbandonedStays, MissedGrows DEF FaithInv
<1>2. CASE ApiStep
  BY <1>1, <1>2, ApiFaithful
<1>3. CASE Boot
  BY <1>1, <1>3, EarlyFaithful DEF Boot, CourseInv, db, history
<1>4. CASE StartReturns \/ RestartReturns
  BY <1>1, <1>4, StartFaithful
<1>5. CASE Speak
  BY <1>1, <1>5, SpeakFaithful
<1>6. CASE AppendFinal \/ AppendReturns
  BY <1>1, <1>6, AppendFaithful
<1>7. CASE FlushNext \/ FlushReturns
  BY <1>1, <1>7, FlushFaithful
<1>8. CASE FlushEnds \/ \E k \in Closer : BeginFinish(k)
  <2>1. Closer # {}
    BY <1>8 DEF FlushEnds, RInv, IInv, FinishInv
  <2>. QED  BY <1>1, <1>8, <2>1, EndFaithful
<1>9. CASE FinishReturns \/ Kill \/ \E k \in Closer : RequestFinish(k)
  BY <1>1, <1>9, HangUpFaithful
<1>10. CASE CloseClient \/ UNCHANGED vars \/ \E k \in Closer : ChooseSender(k)
  BY <1>1, <1>10, StillFaithful
     DEF CloseClient, ChooseSender, vars, agent, wire, db, history
<1>. QED
  BY <1>2, <1>3, <1>4, <1>5, <1>6, <1>7, <1>8, <1>9, <1>10
     DEF Next, AgentStep, ApiStep

LEMMA InitFaithInv == Init => CourseInv /\ FaithInv
<1>. SUFFICES ASSUME Init PROVE CourseInv /\ FaithInv
  OBVIOUS
<1>1. HoldsFrom(waiting, Len(buffer)) /\ \A i \in DOMAIN buffer : buffer[i] = i
  BY DEF Init, HoldsFrom
<1>. QED  BY <1>1 DEF Init, CourseInv, FaithInv, Faithful

\* An answered /finish of a call that dropped, cancelled and left behind no
\* message found the record ended with the whole call in it, however often the
\* API failed and whatever was said before the record was known.
THEOREM WholeTranscriptHolds == Spec => []WholeTranscript
<1>1. RInv /\ CourseInv /\ FaithInv /\ [Next]_vars => CourseInv' /\ FaithInv'
  BY NextCourseInv, NextFaithInv
<1>2. FaithInv => WholeTranscript
  BY DEF FaithInv, Faithful, Stored, WholeTranscript
<1>. QED  BY <1>1, <1>2, InitFaithInv, RecordInvariance, PTL DEF Spec

=============================================================================
