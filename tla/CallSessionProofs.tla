------------------------- MODULE CallSessionProofs -------------------------
(***************************************************************************)
(* Theorems about CallSession, for any number of messages, callers of      *)
(* request_finish and failures: the inductive invariant and OneFinish-     *)
(* Request, then how the end of the call comes about: how many requests it *)
(* takes, and the rank that each step of the agent lowers.                 *)
(***************************************************************************)
EXTENDS CallSession, FiniteSetTheorems, TLAPS

\* A request that its handler or the agent still has something to do with.
Open(q) == req[q].stage \notin {"none", "done"}

\* A request that is open says what it is about; the agent awaits an open one.
WireInv ==
  /\ \A q \in Req :
       /\ Open(q) => req[q].rec \in Rec /\ req[q].kind # "none"
       /\ Open(q) /\ req[q].kind = "append" => req[q].msg \in Final
       /\ q > sent => req[q].kind = "none"
  /\ cur # 0 => Open(cur)

\* The holder of the lock awaits what its phase says.
PhaseInv ==
  /\ phase \in {"booting", "idle", "over"} => cur = 0
  /\ phase \in {"starting", "restarting"} => cur # 0 /\ req[cur].kind = "start"
  /\ phase = "appending" => cur # 0 /\ req[cur].kind = "append"
  /\ phase = "finishing" => cur # 0 /\ req[cur].kind = "finish"
  /\ phase = "flushing" /\ cur # 0 => req[cur].kind = "append" /\ batch # <<>>
  /\ phase \in {"appending", "flushing", "finishing"} => recordId # 0

\* One caller of finish sends it, in one attempt that leaves `committed'.
FinishInv ==
  /\ \A j, k \in Closer :
       caller[j] \in {"sender", "sending"} /\ caller[k] \in {"sender", "sending"}
         => j = k
  /\ committed => \A k \in Closer : caller[k] \notin {"sender", "sending"}
  /\ phase \in {"restarting", "flushing", "finishing"} =>
       ~committed /\ \E k \in Closer : caller[k] = "sending"
  /\ \A q \in Of("finish") : phase \in {"finishing", "over"} \/ committed
  /\ \A p, q \in Of("finish") : p = q

IInv == TypeOK /\ WireInv /\ PhaseInv /\ FinishInv

LEMMA ReqFacts ==
  MaxRequests \in Nat /\ Req \subseteq Nat /\ 0 \notin Req /\ 0 \notin Rec
BY SessionAssumption DEF MaxRequests, Req, Rec

LEMMA StartCount ==
  ASSUME Cardinality(Of("start")) < 2
  PROVE  Cardinality(Of("start")) + 1 \in Rec
<1>1. IsFiniteSet(Req)
  BY FS_Interval, SessionAssumption DEF Req, MaxRequests
<1>2. IsFiniteSet(Of("start"))
  BY <1>1, FS_Subset DEF Of
<1>3. Cardinality(Of("start")) \in Nat
  BY <1>2, FS_CardinalityType
<1>. QED  BY <1>3 DEF Rec

LEMMA BufferedType ==
  ASSUME buffer \in Seq(Final), Len(buffer) <= BufferLimit, NEW m \in Final
  PROVE  Buffered(m) \in Seq(Final) /\ Len(Buffered(m)) <= BufferLimit
<1>. BufferLimit \in Nat \ {0}
  BY SessionAssumption
<1>1. CASE Len(buffer) < BufferLimit
  BY <1>1 DEF Buffered
<1>2. CASE ~(Len(buffer) < BufferLimit)
  <2>1. buffer # <<>> /\ Tail(buffer) \in Seq(Final)
        /\ Len(Tail(buffer)) = Len(buffer) - 1
    BY <1>2
  <2>. QED  BY <1>2, <2>1 DEF Buffered
<1>. QED  BY <1>1, <1>2

----------------------------------------------------------------------------
(* What a step does to the requests *)

\* The agent sends one, about a record and, if it appends, a message.
Sends(kind) ==
  /\ sent + 1 \in Req
  /\ sent' = sent + 1
  /\ cur' = sent + 1
  /\ \E e \in Request :
       /\ req' = [req EXCEPT ![sent + 1] = e]
       /\ e.kind = kind
       /\ e.stage \in {"sent", "lost"}
       /\ e.rec \in Rec
       /\ kind = "append" => e.msg \in Final

\* The agent stops awaiting the current one.
Releases ==
  /\ cur' = 0
  /\ sent' = sent
  /\ \/ req' = req
     \/ cur # 0 /\ req' = [req EXCEPT ![cur] = Closed(cur)]

\* The API takes one further, or it is lost on the way.
Moves(q) ==
  /\ cur' = cur
  /\ sent' = sent
  /\ Open(q)
  /\ \E e \in Request :
       /\ req' = [req EXCEPT ![q] = e]
       /\ e.kind = req[q].kind
       /\ \/ e.stage = "done" /\ q # cur
          \/ e.stage \notin {"none", "done"} /\ e.rec \in Rec /\ e.msg = req[q].msg

LEMMA PostSends ==
  ASSUME TypeOK, NEW kind \in {"start", "append", "finish"},
         NEW m \in {0} \cup Final, NEW r \in Rec,
         kind = "append" => m \in Final, Post(kind, m, r)
  PROVE  Sends(kind)
<1>1. sent + 1 \in Req
  BY ReqFacts DEF Post, TypeOK, Req
<1>. DEFINE e == [kind |-> kind, msg |-> m, rec |-> r, copy |-> {},
                  stage |-> IF httpOpen THEN "sent" ELSE "lost"]
<1>2. e \in Request
  BY DEF Request, Stage, Working, Failed
<1>3. req' = [req EXCEPT ![sent + 1] = e]
  BY DEF Post
<1>4. /\ e.kind = kind /\ e.stage \in {"sent", "lost"} /\ e.rec \in Rec
      /\ kind = "append" => e.msg \in Final
  OBVIOUS
<1>. QED  BY <1>1, <1>2, <1>3, <1>4 DEF Sends, Post

LEMMA PostStartSends == TypeOK /\ PostStart => Sends("start")
BY PostSends, StartCount DEF PostStart

LEMMA PostMessageSends ==
  ASSUME TypeOK, recordId # 0, NEW m \in Final, PostMessage(m)
  PROVE  Sends("append")
BY PostSends DEF PostMessage, TypeOK

LEMMA ReturnReleases ==
  ASSUME Succeeds \/ Fails PROVE Releases /\ cur # 0
BY DEF Succeeds, Fails, Answered, Releases

LEMMA GiveUpReleases == GiveUp => Releases
BY DEF GiveUp, Releases

LEMMA ReplyMoves ==
  ASSUME TypeOK, WireInv, NEW q \in Req, Open(q), cur' = cur, sent' = sent,
         NEW stage \in {"ok", "error", "rejected"}, Reply(q, stage)
  PROVE  Moves(q)
<1>1. req[q] \in Request
  BY DEF TypeOK
<1>2. CASE q = cur
  <2>. DEFINE e == [req[q] EXCEPT !.stage = stage]
  <2>1. req' = [req EXCEPT ![q] = e]
    BY <1>2 DEF Reply
  <2>2. e \in Request /\ e.kind = req[q].kind /\ e.stage = stage
        /\ e.rec = req[q].rec /\ e.msg = req[q].msg
    BY <1>1 DEF Request, Stage, Working, Failed
  <2>3. req[q].rec \in Rec
    BY DEF WireInv
  <2>. QED  BY <2>1, <2>2, <2>3 DEF Moves
<1>3. CASE q # cur
  <2>1. req' = [req EXCEPT ![q] = Closed(q)]
    BY <1>3 DEF Reply
  <2>2. Closed(q) \in Request /\ Closed(q).kind = req[q].kind
        /\ Closed(q).stage = "done"
    BY <1>1 DEF Closed, NoRequest, Request, Stage, Working, Failed
  <2>. QED  BY <1>3, <2>1, <2>2 DEF Moves
<1>. QED  BY <1>2, <1>3

LEMMA AdvanceMoves ==
  ASSUME TypeOK, WireInv, NEW q \in Req, Open(q), cur' = cur, sent' = sent,
         NEW stage \in {"creating", "recording", "saving", "queueing", "lost"},
         NEW copy \in SUBSET Final,
         \/ req' = [req EXCEPT ![q].stage = stage]
         \/ req' = [req EXCEPT ![q].stage = stage, ![q].copy = copy]
  PROVE  Moves(q)
<1>1. req[q] \in Request /\ req[q].rec \in Rec
  BY DEF TypeOK, WireInv
<1>2. CASE req' = [req EXCEPT ![q].stage = stage]
  <2>. DEFINE e == [req[q] EXCEPT !.stage = stage]
  <2>1. req' = [req EXCEPT ![q] = e]
    BY <1>2
  <2>2. e \in Request /\ e.kind = req[q].kind /\ e.stage = stage
        /\ e.rec = req[q].rec /\ e.msg = req[q].msg
    BY <1>1 DEF Request, Stage, Working, Failed
  <2>. QED  BY <1>1, <2>1, <2>2 DEF Moves
<1>3. CASE req' = [req EXCEPT ![q].stage = stage, ![q].copy = copy]
  <2>. DEFINE e == [req[q] EXCEPT !.stage = stage, !.copy = copy]
  <2>1. req' = [req EXCEPT ![q] = e]
    BY <1>3, <1>1 DEF TypeOK
  <2>2. e \in Request /\ e.kind = req[q].kind /\ e.stage = stage
        /\ e.rec = req[q].rec /\ e.msg = req[q].msg
    BY <1>1 DEF Request, Stage, Working, Failed
  <2>. QED  BY <1>1, <2>1, <2>2 DEF Moves
<1>. QED  BY <1>2, <1>3

LEMMA HandlerMoves ==
  ASSUME TypeOK, WireInv, NEW q \in Req, Handle(q) \/ HandlerError(q)
  PROVE  Moves(q) /\ UNCHANGED agent
<1>. UNCHANGED <<agent, cur, sent>> /\ Open(q)
  BY DEF Handle, HandlerError, StartLookup, StartCreate, SaveRecording,
     AppendRead, AppendSave, FinishRead, FinishSave, FinishEnqueue, Handling,
     Open, Working
<1>. {} \in SUBSET Final
  OBVIOUS
<1>1. CASE StartLookup(q)
  <2>1. CASE req' = [req EXCEPT ![q].stage = "creating"]
    BY <2>1, AdvanceMoves
  <2>2. ASSUME NEW r \in Rec,
               req' = [req EXCEPT ![q] =
                         IF q = cur THEN [@ EXCEPT !.stage = "ok", !.rec = r]
                         ELSE Closed(q)]
        PROVE  Moves(q)
    <3>1. req[q] \in Request
      BY DEF TypeOK
    <3>. DEFINE e == IF q = cur THEN [req[q] EXCEPT !.stage = "ok", !.rec = r]
                     ELSE Closed(q)
    <3>2. req' = [req EXCEPT ![q] = e]
      BY <2>2, <3>1 DEF TypeOK
    <3>3. CASE q = cur
      <4>1. e \in Request /\ e.kind = req[q].kind /\ e.stage = "ok"
            /\ e.rec = r /\ e.msg = req[q].msg
        BY <3>1, <3>3 DEF Request, Stage, Working, Failed
      <4>. QED  BY <3>2, <4>1 DEF Moves
    <3>4. CASE q # cur
      <4>1. e \in Request /\ e.kind = req[q].kind /\ e.stage = "done"
        BY <3>1, <3>4 DEF Closed, NoRequest, Request, Stage, Working, Failed
      <4>. QED  BY <3>2, <3>4, <4>1 DEF Moves
    <3>. QED  BY <3>3, <3>4
  <2>. QED  BY <1>1, <2>1, <2>2 DEF StartLookup
<1>2. CASE StartCreate(q)
  BY <1>2, ReplyMoves, AdvanceMoves DEF StartCreate
<1>3. CASE SaveRecording(q)
  BY <1>3, ReplyMoves DEF SaveRecording, Save
<1>4. CASE AppendRead(q)
  <2>1. req[q].rec \in Rec /\ msgs[req[q].rec] \in SUBSET Final
    BY DEF WireInv, TypeOK
  <2>. QED  BY <1>4, <2>1, ReplyMoves, AdvanceMoves DEF AppendRead
<1>5. CASE AppendSave(q)
  BY <1>5, ReplyMoves DEF AppendSave, Save
<1>6. CASE FinishRead(q)
  <2>1. req[q].rec \in Rec /\ msgs[req[q].rec] \in SUBSET Final
    BY DEF WireInv, TypeOK
  <2>. QED  BY <1>6, <2>1, ReplyMoves, AdvanceMoves DEF FinishRead
<1>7. CASE FinishSave(q)
  <2>1. req[q].rec \in Rec /\ msgs[req[q].rec] \in SUBSET Final
        /\ req[q].copy \in SUBSET Final
    BY DEF WireInv, TypeOK, Request
  <2>2. ASSUME NEW body \in {req[q].copy, msgs[req[q].rec]},
               req' = [req EXCEPT ![q].stage = "queueing", ![q].copy = body]
        PROVE  Moves(q)
    BY <2>1, <2>2, AdvanceMoves
  <2>. QED  BY <1>7, <2>2, ReplyMoves DEF FinishSave, Save
<1>8. CASE FinishEnqueue(q)
  BY <1>8, ReplyMoves DEF FinishEnqueue
<1>9. CASE HandlerError(q)
  BY <1>9, ReplyMoves DEF HandlerError
<1>. QED  BY <1>1, <1>2, <1>3, <1>4, <1>5, <1>6, <1>7, <1>8, <1>9 DEF Handle

LEMMA DropMoves ==
  ASSUME TypeOK, WireInv, Drop
  PROVE  cur \in Req /\ Moves(cur)
<1>1. cur \in Req /\ Open(cur) /\ cur' = cur /\ sent' = sent
  BY DEF Drop, TypeOK, WireInv
<1>. QED  BY <1>1, AdvanceMoves DEF Drop

\* What every step does to the requests is one of these.
WireStep ==
  \/ \E kind \in {"start", "append", "finish"} : Sends(kind)
  \/ Releases
  \/ \E q \in Req : Moves(q)
  \/ ApiCrash
  \/ UNCHANGED wire

LEMMA CrashedRequest ==
  ASSUME TypeOK, ApiCrash, NEW q \in Req
  PROVE  /\ cur' = cur /\ sent' = sent
         /\ req'[q] \in Request /\ req'[q].kind = req[q].kind
         /\ \/ req'[q] = req[q]
            \/ q # cur /\ req'[q].stage = "done"
            \/ /\ q = cur /\ Open(q) /\ req'[q].stage = "lost"
               /\ req'[q].rec = req[q].rec /\ req'[q].msg = req[q].msg
<1>1. req[q] \in Request /\ cur' = cur /\ sent' = sent
  BY DEF TypeOK, ApiCrash
<1>2. CASE req[q].stage \notin Working
  BY <1>1, <1>2 DEF ApiCrash
<1>3. CASE req[q].stage \in Working /\ q = cur
  <2>1. req'[q] = [req[q] EXCEPT !.stage = "lost"]
    BY <1>3 DEF ApiCrash
  <2>. QED  BY <1>1, <1>3, <2>1 DEF Request, Stage, Working, Failed, Open
<1>4. CASE req[q].stage \in Working /\ q # cur
  <2>1. req'[q] = Closed(q)
    BY <1>4 DEF ApiCrash
  <2>. QED  BY <1>1, <1>4, <2>1
       DEF Closed, NoRequest, Request, Stage, Working, Failed
<1>. QED  BY <1>2, <1>3, <1>4

LEMMA ClosedRequest ==
  ASSUME TypeOK, NEW q \in Req
  PROVE  /\ Closed(q) \in Request
         /\ Closed(q).kind = req[q].kind /\ Closed(q).stage = "done"
<1>1. req[q] \in Request
  BY DEF TypeOK
<1>. QED  BY <1>1 DEF Closed, NoRequest, Request, Stage, Working, Failed

\* Only sending makes a request of a kind.
LEMMA SentKind ==
  ASSUME TypeOK, NEW kind \in {"start", "append", "finish"}, Sends(kind)
  PROVE  /\ cur' \in Req
         /\ \A q \in Req : req'[q].kind = IF q = cur' THEN kind ELSE req[q].kind
BY DEF TypeOK, Sends

LEMMA SameKinds ==
  ASSUME TypeOK,
         Releases \/ (\E p \in Req : Moves(p)) \/ ApiCrash \/ UNCHANGED wire
  PROVE  \A q \in Req : req'[q].kind = req[q].kind
<1>. SUFFICES ASSUME NEW q \in Req PROVE req'[q].kind = req[q].kind
  OBVIOUS
<1>1. req \in [Req -> Request]
  BY DEF TypeOK
<1>2. CASE Releases
  BY <1>1, <1>2, ClosedRequest DEF Releases, TypeOK
<1>3. ASSUME NEW p \in Req, Moves(p) PROVE req'[q].kind = req[q].kind
  BY <1>1, <1>3 DEF Moves
<1>4. CASE ApiCrash
  BY <1>4, CrashedRequest
<1>. QED  BY <1>2, <1>3, <1>4 DEF wire

LEMMA WireKept ==
  ASSUME TypeOK, WireInv, WireStep
  PROVE  /\ WireInv'
         /\ cur' \in {0} \cup Req /\ sent' \in 0 .. MaxRequests
         /\ req' \in [Req -> Request]
<1>. USE ReqFacts
<1>1. req \in [Req -> Request] /\ cur \in {0} \cup Req /\ sent \in 0 .. MaxRequests
  BY DEF TypeOK
<1>2. ASSUME NEW kind \in {"start", "append", "finish"}, Sends(kind)
      PROVE  /\ WireInv'
             /\ cur' \in {0} \cup Req /\ sent' \in 0 .. MaxRequests
             /\ req' \in [Req -> Request]
  <2>1. PICK e \in Request : /\ req' = [req EXCEPT ![sent + 1] = e]
                             /\ e.kind = kind
                             /\ e.stage \in {"sent", "lost"}
                             /\ e.rec \in Rec
                             /\ kind = "append" => e.msg \in Final
    BY <1>2 DEF Sends
  <2>2. sent' = sent + 1 /\ cur' = sent + 1 /\ sent + 1 \in Req
    BY <1>2 DEF Sends
  <2>3. sent' \in 0 .. MaxRequests /\ req' \in [Req -> Request]
    BY <1>1, <2>1, <2>2 DEF Req
  <2>4. \A q \in Req : q # sent + 1 => req'[q] = req[q]
    BY <1>1, <2>1
  <2>5. req'[sent + 1] = e
    BY <1>1, <2>1, <2>2
  <2>6. \A q \in Req : q > sent + 1 => q > sent
    BY <1>1 DEF Req
  <2>7. ~(sent + 1 > sent + 1)
    BY <1>1
  <2>. QED  BY <1>1, <2>1, <2>2, <2>3, <2>4, <2>5, <2>6, <2>7 DEF WireInv, Open
<1>3. CASE Releases
  BY <1>1, <1>3, ClosedRequest DEF Releases, WireInv, Open
<1>4. ASSUME NEW p \in Req, Moves(p)
      PROVE  /\ WireInv'
             /\ cur' \in {0} \cup Req /\ sent' \in 0 .. MaxRequests
             /\ req' \in [Req -> Request]
  <2>1. PICK e \in Request :
          /\ req' = [req EXCEPT ![p] = e]
          /\ e.kind = req[p].kind
          /\ \/ e.stage = "done" /\ p # cur
             \/ /\ e.stage \notin {"none", "done"} /\ e.rec \in Rec
                /\ e.msg = req[p].msg
    BY <1>4 DEF Moves
  <2>2. sent' = sent /\ cur' = cur /\ Open(p)
    BY <1>4 DEF Moves
  <2>3. req' \in [Req -> Request]
    BY <1>1, <2>1
  <2>4. \A q \in Req : q # p => req'[q] = req[q]
    BY <1>1, <2>1
  <2>5. req'[p] = e
    BY <1>1, <2>1
  <2>. QED  BY <1>1, <2>1, <2>2, <2>3, <2>4, <2>5 DEF WireInv, Open
<1>5. CASE ApiCrash
  <2>1. cur' = cur /\ sent' = sent
    BY <1>5 DEF ApiCrash
  <2>2. req' \in [Req -> Request]
    <3>1. req' = [q \in Req |-> req'[q]]
      BY <1>5 DEF ApiCrash
    <3>. QED  BY <3>1, <1>5, CrashedRequest
  <2>. QED  BY <1>1, <1>5, <2>1, <2>2, CrashedRequest DEF WireInv, Open
<1>6. CASE UNCHANGED wire
  BY <1>1, <1>6 DEF wire, WireInv, Open
<1>. QED  BY <1>2, <1>3, <1>4, <1>5, <1>6 DEF WireStep

\* The steps of the API and of the network.
ApiStep == (\E q \in Req : Handle(q) \/ HandlerError(q)) \/ Drop \/ ApiCrash

LEMMA ApiWireStep ==
  ASSUME TypeOK, WireInv, ApiStep
  PROVE  /\ (\E q \in Req : Moves(q)) \/ ApiCrash
         /\ UNCHANGED <<agent, cur>>
<1>1. ASSUME NEW q \in Req, Handle(q) \/ HandlerError(q)
      PROVE  Moves(q) /\ UNCHANGED <<agent, cur>>
  BY <1>1, HandlerMoves DEF Moves
<1>2. CASE Drop
  BY <1>2, DropMoves DEF Drop
<1>3. CASE ApiCrash
  BY <1>3 DEF ApiCrash
<1>. QED  BY <1>1, <1>2, <1>3 DEF ApiStep

LEMMA HeadTail ==
  ASSUME NEW s \in Seq(Final), s # <<>>
  PROVE  Head(s) \in Final /\ Tail(s) \in Seq(Final)
OBVIOUS

LEMMA AgentWireStep ==
  ASSUME TypeOK, WireInv, PhaseInv
  PROVE  /\ Boot => Sends("start")
         /\ StartReturns => Releases
         /\ AppendFinal => Sends("append") \/ UNCHANGED wire
         /\ AppendReturns => Releases
         /\ \A k \in Closer :
              /\ RequestFinish(k) => Releases \/ UNCHANGED wire
              /\ BeginFinish(k) => Sends("start") \/ UNCHANGED wire
         /\ RestartReturns => Releases
         /\ FlushNext => Sends("append")
         /\ FlushReturns => Releases
         /\ FlushEnds => Sends("finish") \/ UNCHANGED wire
         /\ FinishReturns => Releases
         /\ Kill => Releases
<1>1. Boot => Sends("start")
  BY PostStartSends DEF Boot
<1>2. StartReturns => Releases
  BY ReturnReleases DEF StartReturns
<1>3. AppendFinal => Sends("append") \/ UNCHANGED wire
  BY HeadTail, PostMessageSends DEF AppendFinal, TypeOK
<1>4. AppendReturns => Releases
  BY ReturnReleases DEF AppendReturns
<1>5. \A k \in Closer : RequestFinish(k) => Releases \/ UNCHANGED wire
  BY GiveUpReleases DEF RequestFinish
<1>6. \A k \in Closer : BeginFinish(k) => Sends("start") \/ UNCHANGED wire
  BY PostStartSends DEF BeginFinish
<1>7. RestartReturns => Releases
  BY ReturnReleases DEF RestartReturns
<1>8. FlushNext => Sends("append")
  BY HeadTail, PostMessageSends DEF FlushNext, TypeOK, PhaseInv
<1>9. FlushReturns => Releases
  BY ReturnReleases DEF FlushReturns
<1>10. FlushEnds => Sends("finish") \/ UNCHANGED wire
  <2>1. ASSUME phase = "flushing", Post("finish", 0, recordId) PROVE Sends("finish")
    <3>1. recordId \in Rec
      BY <2>1 DEF PhaseInv, TypeOK
    <3>. QED  BY <2>1, <3>1, PostSends
  <2>. QED  BY <2>1 DEF FlushEnds
<1>11. FinishReturns => Releases
  BY ReturnReleases DEF FinishReturns
<1>12. Kill => Releases
  BY GiveUpReleases DEF Kill
<1>. QED
  BY <1>1, <1>2, <1>3, <1>4, <1>5, <1>6, <1>7, <1>8, <1>9, <1>10, <1>11, <1>12

LEMMA NextWireStep == IInv /\ [Next]_vars => WireStep
<1>. SUFFICES ASSUME TypeOK, WireInv, PhaseInv, [Next]_vars PROVE WireStep
  BY DEF IInv
<1>1. CASE ApiStep
  BY <1>1, ApiWireStep DEF WireStep
<1>2. CASE UNCHANGED vars
  BY <1>2 DEF vars, WireStep
<1>3. CASE Speak \/ CloseClient \/ \E k \in Closer : ChooseSender(k)
  BY <1>3 DEF Speak, CloseClient, ChooseSender, WireStep
<1>4. CASE Boot \/ StartReturns \/ AppendFinal \/ AppendReturns
           \/ (\E k \in Closer : RequestFinish(k) \/ BeginFinish(k))
           \/ RestartReturns \/ FlushNext \/ FlushReturns \/ FlushEnds
           \/ FinishReturns \/ Kill
  BY <1>4, AgentWireStep DEF WireStep
<1>. QED  BY <1>1, <1>2, <1>3, <1>4 DEF Next, AgentStep, ApiStep

----------------------------------------------------------------------------
(* Type correctness *)

\* The part of TypeOK that is about the agent, and the part about the database.
AgentType ==
  /\ phase \in {"booting", "starting", "idle", "appending", "restarting",
                "flushing", "finishing", "over"}
  /\ recordId \in {0} \cup Rec
  /\ buffer \in Seq(Final) /\ Len(buffer) <= BufferLimit
  /\ waiting \in Seq(Final)
  /\ batch \in Seq(Final)
  /\ rounds \in 0 .. 2
  /\ said \in 0 .. MaxFinals
  /\ caller \in [Closer -> {"out", "yielding", "sender", "sending", "done"}]
  /\ missed \subseteq Final

FlagType ==
  /\ closing \in BOOLEAN
  /\ committed \in BOOLEAN
  /\ httpOpen \in BOOLEAN
  /\ acked \in BOOLEAN

DbType ==
  /\ status \in [Rec -> {"absent", "in_progress", "ended"}]
  /\ msgs \in [Rec -> SUBSET Final]
  /\ queued \in [Rec -> SUBSET Final]

FaultType == faults \in Nat /\ abandoned \in BOOLEAN

LEMMA SaveType ==
  ASSUME TypeOK, NEW q \in Req, req[q].rec \in Rec,
         NEW st \in {"in_progress", "ended"}, NEW new \in SUBSET Final,
         NEW next, Save(q, st, new, next)
  PROVE  /\ status' \in [Rec -> {"absent", "in_progress", "ended"}]
         /\ msgs' \in [Rec -> SUBSET Final]
<1>. DEFINE r == req[q].rec
<1>1. status[r] \in {"absent", "in_progress", "ended"} /\ msgs[r] \in SUBSET Final
  BY DEF TypeOK
<1>2. CASE UNCHANGED <<status, msgs>>
  BY <1>2 DEF TypeOK
<1>3. CASE ~UNCHANGED <<status, msgs>>
  <2>1. PICK s \in {st, status[r]}, n \in {new, new \cup msgs[r]} :
          /\ status' = [status EXCEPT ![r] = s]
          /\ msgs' = [msgs EXCEPT ![r] = n]
    BY <1>3, Zenon DEF Save
  <2>2. s \in {"absent", "in_progress", "ended"} /\ n \in SUBSET Final
    BY <1>1
  <2>. QED  BY <2>1, <2>2 DEF TypeOK
<1>. QED  BY <1>2, <1>3

LEMMA ApiType ==
  ASSUME TypeOK, WireInv, ApiStep
  PROVE  AgentType' /\ FlagType' /\ DbType' /\ FaultType'
<1>. USE DEF DbType, FaultType
<1>1. UNCHANGED agent
  BY ApiWireStep
<1>2. ASSUME NEW q \in Req, Handle(q)
      PROVE  DbType' /\ UNCHANGED history
  <2>1. Open(q) /\ req[q].rec \in Rec /\ req[q].copy \in SUBSET Final
    BY <1>2 DEF Handle, StartLookup, StartCreate, SaveRecording, AppendRead,
       AppendSave, FinishRead, FinishSave, FinishEnqueue, Handling, Open,
       WireInv, TypeOK, Request
  <2>2. CASE StartLookup(q) \/ AppendRead(q) \/ FinishRead(q)
    BY <2>2 DEF StartLookup, AppendRead, FinishRead, db, TypeOK
  <2>3. CASE StartCreate(q)
    BY <2>1, <2>3 DEF StartCreate, TypeOK
  <2>4. CASE SaveRecording(q)
    BY <2>1, <2>4, SaveType DEF SaveRecording, TypeOK
  <2>5. CASE AppendSave(q)
    <3>1. req[q].msg \in Final
      BY <2>1, <2>5 DEF AppendSave, Handling, WireInv
    <3>. QED  BY <2>1, <2>5, <3>1, SaveType DEF AppendSave, TypeOK
  <2>6. CASE FinishSave(q)
    BY <2>1, <2>6, SaveType DEF FinishSave, TypeOK
  <2>7. CASE FinishEnqueue(q)
    BY <2>1, <2>7 DEF FinishEnqueue, TypeOK
  <2>. QED  BY <1>2, <2>2, <2>3, <2>4, <2>5, <2>6, <2>7 DEF Handle
<1>3. DbType' /\ UNCHANGED <<missed, acked>> /\ FaultType'
  <2>1. CASE \E q \in Req : Handle(q)
    BY <1>2, <2>1 DEF history, TypeOK
  <2>2. CASE (\E q \in Req : HandlerError(q)) \/ Drop \/ ApiCrash
    BY <2>2 DEF HandlerError, Drop, ApiCrash, Fault, db, TypeOK
  <2>. QED  BY <2>1, <2>2 DEF ApiStep
<1>. QED  BY <1>1, <1>3 DEF agent, AgentType, FlagType, TypeOK

LEMMA AwaitedMessage ==
  ASSUME TypeOK, WireInv, cur # 0, req[cur].kind = "append"
  PROVE  req[cur].msg \in Final
BY DEF TypeOK, WireInv

LEMMA ReturnFaults == TypeOK /\ (Succeeds \/ Fails) => FaultType'
<1>. SUFFICES ASSUME TypeOK, Succeeds \/ Fails PROVE FaultType'
  OBVIOUS
<1>1. CASE Succeeds
  BY <1>1 DEF Succeeds, TypeOK, FaultType
<1>2. CASE Fails
  <2>1. faults' \in {faults, faults + 1}
    BY <1>2 DEF Fails
  <2>2. abandoned' = abandoned \/ abandoned' = TRUE
    BY <1>2, Zenon DEF Fails
  <2>3. abandoned' \in BOOLEAN
    BY <2>2, Zenon DEF TypeOK
  <2>. QED  BY <2>1, <2>3 DEF TypeOK, FaultType
<1>. QED  BY <1>1, <1>2

LEMMA GiveUpFaults ==
  TypeOK /\ GiveUp /\ faults' \in {faults, faults + 1} => FaultType'
<1>. SUFFICES ASSUME TypeOK, GiveUp, faults' \in {faults, faults + 1} PROVE FaultType'
  OBVIOUS
<1>1. (abandoned \/ Waits) \in BOOLEAN
  OBVIOUS
<1>2. abandoned' \in BOOLEAN
  BY <1>1, Zenon DEF GiveUp
<1>. QED  BY <1>2 DEF TypeOK, FaultType

LEMMA TailsTyped ==
  ASSUME TypeOK
  PROVE  /\ waiting # <<>> => Head(waiting) \in Final /\ Tail(waiting) \in Seq(Final)
         /\ buffer # <<>> => Head(buffer) \in Final
         /\ batch # <<>> => Head(batch) \in Final /\ Tail(batch) \in Seq(Final)
         /\ {waiting[i] : i \in DOMAIN waiting} \subseteq Final
BY HeadTail DEF TypeOK

LEMMA EmptyTyped == <<>> \in Seq(Final) /\ Len(<<>>) <= BufferLimit
BY SessionAssumption

LEMMA AgentStepFlags ==
  ASSUME TypeOK, Next, ~ApiStep
  PROVE  FlagType' /\ UNCHANGED db /\ FaultType'
<1>1. CASE Boot \/ Speak \/ FlushNext \/ FlushEnds \/ CloseClient
           \/ \E k \in Closer : ChooseSender(k) \/ BeginFinish(k)
  BY <1>1 DEF Boot, Speak, FlushNext, FlushEnds, CloseClient, ChooseSender,
     BeginFinish, agent, history, TypeOK, FlagType, FaultType
<1>2. CASE AppendFinal
  BY <1>2 DEF AppendFinal, TypeOK, FlagType, FaultType
<1>3. CASE StartReturns \/ AppendReturns \/ FlushReturns
  <2>1. (Succeeds \/ Fails) /\ UNCHANGED db
    BY <1>3 DEF StartReturns, AppendReturns, FlushReturns
  <2>5. FaultType'
    BY <2>1, ReturnFaults
  <2>2. UNCHANGED <<closing, committed, httpOpen, acked>>
    BY <1>3 DEF StartReturns, AppendReturns, FlushReturns
  <2>. QED  BY <2>1, <2>2, <2>5 DEF TypeOK, FlagType
<1>4. CASE RestartReturns \/ FinishReturns
  <2>1. (Succeeds \/ Fails) /\ UNCHANGED db
    BY <1>4 DEF RestartReturns, FinishReturns
  <2>5. FaultType'
    BY <2>1, ReturnFaults
  <2>2. UNCHANGED <<closing, httpOpen>>
    BY <1>4 DEF RestartReturns, FinishReturns
  <2>3. /\ committed' = committed \/ committed' = TRUE
        /\ acked' = acked \/ acked' = TRUE
    BY <1>4, Zenon DEF RestartReturns, FinishReturns, Commit
  <2>4. committed' \in BOOLEAN /\ acked' \in BOOLEAN
    BY <2>3, Zenon DEF TypeOK
  <2>. QED  BY <2>1, <2>2, <2>4, <2>5 DEF TypeOK, FlagType
<1>5. ASSUME NEW k \in Closer, RequestFinish(k)
      PROVE  FlagType' /\ UNCHANGED db /\ FaultType'
  <2>1. FlagType' /\ UNCHANGED db
    BY <1>5 DEF RequestFinish, TypeOK, FlagType
  <2>2. CASE phase = "appending"
    BY <1>5, <2>1, <2>2, GiveUpFaults DEF RequestFinish
  <2>3. CASE phase # "appending"
    BY <1>5, <2>1, <2>3 DEF RequestFinish, TypeOK, FaultType
  <2>. QED  BY <2>2, <2>3
<1>6. CASE Kill
  <2>1. FaultType' /\ UNCHANGED db
    BY <1>6, GiveUpFaults DEF Kill
  <2>. QED  BY <1>6, <2>1 DEF Kill, TypeOK, FlagType
<1>. QED
  BY <1>1, <1>2, <1>3, <1>4, <1>5, <1>6 DEF Next, AgentStep, ApiStep

LEMMA AgentStepType ==
  ASSUME TypeOK, WireInv, PhaseInv, Next, ~ApiStep
  PROVE  AgentType'
<1>. USE DEF TypeOK, AgentType
<1>1. CASE Boot
  BY <1>1 DEF Boot, history
<1>2. CASE StartReturns
  <2>1. cur \in Req /\ req[cur].rec \in {0} \cup Rec
    BY <1>2 DEF StartReturns, PhaseInv, Request
  <2>. QED  BY <1>2, <2>1 DEF StartReturns
<1>3. CASE Speak
  <2>1. said + 1 \in Final /\ said + 1 \in 0 .. MaxFinals
    BY <1>3, SessionAssumption DEF Speak, Final
  <2>2. Append(waiting, said + 1) \in Seq(Final)
    BY <2>1
  <2>. QED  BY <1>3, <2>1, <2>2 DEF Speak, history
<1>4. CASE AppendFinal
  <2>1. Len(buffer) < BufferLimit \/ Head(buffer) \in Final
    <3>1. Len(buffer) >= BufferLimit => buffer # <<>>
      BY SessionAssumption
    <3>. QED  BY <3>1, TailsTyped, SessionAssumption
  <2>2. missed' \subseteq Final
    BY <1>4, <2>1 DEF AppendFinal
  <2>3. buffer' \in Seq(Final) /\ Len(buffer') <= BufferLimit
    BY <1>4, TailsTyped, BufferedType DEF AppendFinal
  <2>. QED  BY <1>4, <2>2, <2>3, TailsTyped DEF AppendFinal
<1>5. CASE AppendReturns
  <2>1. req[cur].msg \in Final
    BY <1>5, AwaitedMessage DEF AppendReturns, PhaseInv
  <2>2. buffer' \in Seq(Final) /\ Len(buffer') <= BufferLimit /\ missed' \subseteq Final
    BY <1>5, <2>1, BufferedType DEF AppendReturns, Miss
  <2>. QED  BY <1>5, <2>2 DEF AppendReturns
<1>6. ASSUME NEW k \in Closer, RequestFinish(k) PROVE AgentType'
  <2>1. phase = "appending" => req[cur].msg \in Final
    BY AwaitedMessage DEF PhaseInv
  <2>2. missed' \subseteq Final
    BY <1>6, <2>1, TailsTyped DEF RequestFinish
  <2>. QED  BY <1>6, <2>2, EmptyTyped DEF RequestFinish
<1>7. ASSUME NEW k \in Closer, ChooseSender(k) PROVE AgentType'
  BY <1>7 DEF ChooseSender, history
<1>8. ASSUME NEW k \in Closer, BeginFinish(k) PROVE AgentType'
  <2>1. CASE recordId = 0
    BY <1>8, <2>1 DEF BeginFinish, history
  <2>2. CASE recordId # 0
    <3>1. Flush(1) /\ caller' = [caller EXCEPT ![k] = "sending"]
          /\ UNCHANGED <<recordId, waiting, said, missed>>
      BY <1>8, <2>2 DEF BeginFinish, history
    <3>. QED  BY <3>1, EmptyTyped DEF Flush
  <2>. QED  BY <2>1, <2>2
<1>9. CASE RestartReturns
  <2>1. cur \in Req /\ req[cur].rec \in {0} \cup Rec
    BY <1>9 DEF RestartReturns, PhaseInv, Request
  <2>2. CASE Succeeds /\ recordId' = req[cur].rec /\ Flush(2) /\ UNCHANGED caller
    BY <1>9, <2>1, <2>2, EmptyTyped DEF RestartReturns, Flush
  <2>3. CASE Commit /\ UNCHANGED <<recordId, rounds, batch, buffer>>
    BY <1>9, <2>3 DEF RestartReturns, Commit
  <2>. QED  BY <1>9, <2>2, <2>3 DEF RestartReturns
<1>10. CASE FlushNext
  BY <1>10 DEF FlushNext, agent, history
<1>11. CASE FlushReturns
  <2>1. batch # <<>>
    BY <1>11 DEF FlushReturns, PhaseInv
  <2>2. buffer' \in Seq(Final) /\ Len(buffer') <= BufferLimit /\ missed' \subseteq Final
    BY <1>11, <2>1, TailsTyped, BufferedType DEF FlushReturns, Miss
  <2>. QED  BY <1>11, <2>1, <2>2, TailsTyped DEF FlushReturns
<1>12. CASE FlushEnds
  <2>1. CASE Flush(1)
    BY <1>12, <2>1, EmptyTyped DEF FlushEnds, Flush, history
  <2>2. CASE rounds' = 0 /\ phase' = "finishing" /\ UNCHANGED <<batch, buffer>>
    BY <1>12, <2>2 DEF FlushEnds, history
  <2>. QED  BY <1>12, <2>1, <2>2 DEF FlushEnds
<1>13. CASE FinishReturns
  BY <1>13 DEF FinishReturns, Commit
<1>14. CASE CloseClient
  BY <1>14 DEF CloseClient, history
<1>15. CASE Kill
  BY <1>15 DEF Kill
<1>. QED
  BY <1>1, <1>2, <1>3, <1>4, <1>5, <1>6, <1>7, <1>8, <1>9, <1>10, <1>11, <1>12,
     <1>13, <1>14, <1>15 DEF Next, AgentStep, ApiStep

LEMMA NextTypeOK == IInv /\ [Next]_vars => TypeOK'
<1>. SUFFICES ASSUME IInv, [Next]_vars PROVE TypeOK'
  OBVIOUS
<1>. TypeOK /\ WireInv /\ PhaseInv
  BY DEF IInv
<1>1. /\ cur' \in {0} \cup Req /\ sent' \in 0 .. MaxRequests
      /\ req' \in [Req -> Request]
  BY NextWireStep, WireKept
<1>2. AgentType' /\ FlagType' /\ DbType' /\ FaultType'
  <2>1. CASE ApiStep
    BY <2>1, ApiType
  <2>2. CASE Next /\ ~ApiStep
    BY <2>2, AgentStepType, AgentStepFlags DEF db, DbType, TypeOK
  <2>3. CASE UNCHANGED vars
    BY <2>3 DEF vars, agent, wire, db, history, AgentType, FlagType, DbType,
       FaultType, TypeOK
  <2>. QED  BY <2>1, <2>2, <2>3
<1>. QED  BY <1>1, <1>2 DEF TypeOK, AgentType, FlagType, DbType, FaultType

----------------------------------------------------------------------------
(* One request to finish the call *)

LEMMA ApiKeeps ==
  ASSUME IInv, ApiStep
  PROVE  PhaseInv' /\ FinishInv'
<1>1. UNCHANGED <<agent, cur>> /\ \A q \in Req : req'[q].kind = req[q].kind
  BY ApiWireStep, SameKinds DEF IInv
<1>2. cur \in {0} \cup Req
  BY DEF IInv, TypeOK
<1>3. PhaseInv'
  BY <1>1, <1>2 DEF IInv, PhaseInv, agent
<1>4. Of("finish")' = Of("finish")
  BY <1>1 DEF Of
<1>. QED  BY <1>1, <1>3, <1>4 DEF IInv, FinishInv, agent

LEMMA NextPhaseInv == IInv /\ [Next]_vars => PhaseInv'
<1>. SUFFICES ASSUME IInv, [Next]_vars PROVE PhaseInv'
  OBVIOUS
<1>. TypeOK /\ WireInv /\ PhaseInv
  BY DEF IInv
<1>1. CASE ApiStep
  BY <1>1, ApiKeeps
<1>2. CASE Boot
  BY <1>2, AgentWireStep, SentKind, ReqFacts DEF Boot, PhaseInv
<1>3. CASE StartReturns \/ AppendReturns \/ FinishReturns \/ Kill
  <2>1. cur' = 0
    BY <1>3, AgentWireStep DEF Releases
  <2>2. phase' \in {"idle", "over"}
    BY <1>3 DEF StartReturns, AppendReturns, FinishReturns, Commit, Kill
  <2>. QED  BY <2>1, <2>2 DEF PhaseInv
<1>4. CASE Speak \/ CloseClient \/ \E k \in Closer : ChooseSender(k)
  BY <1>4 DEF Speak, CloseClient, ChooseSender, wire, PhaseInv
<1>5. CASE AppendFinal
  <2>1. CASE recordId = 0
    BY <1>5, <2>1 DEF AppendFinal, wire, PhaseInv
  <2>2. CASE recordId # 0
    <3>1. Sends("append") /\ phase' = "appending" /\ recordId' = recordId
      BY <1>5, <2>2, TailsTyped, PostMessageSends DEF AppendFinal
    <3>2. cur' \in Req /\ req'[cur'].kind = "append"
      BY <3>1, SentKind
    <3>. QED  BY <2>2, <3>1, <3>2, ReqFacts DEF PhaseInv
  <2>. QED  BY <2>1, <2>2
<1>6. ASSUME NEW k \in Closer, RequestFinish(k) PROVE PhaseInv'
  BY <1>6 DEF RequestFinish, GiveUp, wire, PhaseInv
<1>7. ASSUME NEW k \in Closer, BeginFinish(k) PROVE PhaseInv'
  <2>1. CASE recordId = 0
    <3>1. Sends("start") /\ phase' = "restarting"
      BY <1>7, <2>1, PostStartSends DEF BeginFinish
    <3>2. cur' \in Req /\ req'[cur'].kind = "start"
      BY <3>1, SentKind
    <3>. QED  BY <3>1, <3>2, ReqFacts DEF PhaseInv
  <2>2. CASE recordId # 0
    BY <1>7, <2>2 DEF BeginFinish, Flush, wire, PhaseInv
  <2>. QED  BY <2>1, <2>2
<1>8. CASE RestartReturns
  <2>1. cur' = 0 /\ req[cur].rec # 0
    BY <1>8, AgentWireStep, ReqFacts
       DEF Releases, RestartReturns, WireInv, PhaseInv, TypeOK
  <2>2. phase' = "idle" \/ (phase' = "flushing" /\ recordId' = req[cur].rec)
    <3>1. CASE recordId' = req[cur].rec /\ Flush(2)
      BY <3>1 DEF Flush
    <3>2. CASE Commit
      BY <3>2 DEF Commit
    <3>. QED  BY <1>8, <3>1, <3>2 DEF RestartReturns
  <2>. QED  BY <2>1, <2>2 DEF PhaseInv
<1>9. CASE FlushNext
  <2>1. cur' \in Req /\ req'[cur'].kind = "append"
    BY <1>9, AgentWireStep, SentKind
  <2>. QED  BY <1>9, <2>1, ReqFacts DEF FlushNext, agent, PhaseInv
<1>10. CASE FlushReturns
  <2>1. cur' = 0
    BY <1>10, AgentWireStep DEF Releases
  <2>. QED  BY <1>10, <2>1 DEF FlushReturns, PhaseInv
<1>11. CASE FlushEnds
  <2>1. CASE Flush(1) /\ UNCHANGED wire
    BY <1>11, <2>1 DEF FlushEnds, Flush, wire, PhaseInv
  <2>2. CASE phase' = "finishing" /\ Post("finish", 0, recordId)
    <3>1. recordId \in Rec /\ recordId' = recordId
      BY <1>11 DEF FlushEnds, PhaseInv, TypeOK
    <3>2. cur' \in Req /\ req'[cur'].kind = "finish"
      BY <2>2, <3>1, PostSends, SentKind
    <3>. QED  BY <2>2, <3>1, <3>2, ReqFacts DEF PhaseInv
  <2>. QED  BY <1>11, <2>1, <2>2 DEF FlushEnds
<1>12. CASE UNCHANGED vars
  BY <1>12 DEF vars, agent, wire, PhaseInv
<1>. QED
  BY <1>1, <1>2, <1>3, <1>4, <1>5, <1>6, <1>7, <1>8, <1>9, <1>10, <1>11, <1>12
     DEF Next, AgentStep, ApiStep

\* Whoever finishes has not committed, so nothing was sent for it before.
LEMMA NextFinishInv == IInv /\ [Next]_vars => FinishInv'
<1>. SUFFICES ASSUME IInv, [Next]_vars PROVE FinishInv'
  OBVIOUS
<1>. TypeOK /\ WireInv /\ PhaseInv /\ FinishInv
  BY DEF IInv
<1>. DEFINE SameFinishes == Of("finish")' = Of("finish")
<1>0. (\/ Releases \/ UNCHANGED wire \/ Sends("start") \/ Sends("append"))
         => SameFinishes
  <2>1. ASSUME \A q \in Req : req'[q].kind = "finish" <=> req[q].kind = "finish"
        PROVE  SameFinishes
    BY <2>1 DEF Of
  <2>2. CASE Releases \/ UNCHANGED wire
    BY <2>1, <2>2, SameKinds
  <2>3. ASSUME NEW kind \in {"start", "append"}, Sends(kind)
        PROVE  SameFinishes
    <3>1. cur' \in Req /\ req[cur'].kind = "none" /\ sent + 1 = cur'
      BY <2>3, SentKind, ReqFacts DEF Sends, WireInv, TypeOK
    <3>. QED  BY <2>1, <2>3, <3>1, SentKind
  <2>. QED  BY <2>2, <2>3
<1>. HIDE DEF SameFinishes
<1>1. CASE ApiStep
  BY <1>1, ApiKeeps
<1>2. CASE Boot \/ StartReturns \/ AppendFinal \/ AppendReturns
  <2>1. SameFinishes
    BY <1>0, <1>2, AgentWireStep
  <2>2. /\ phase \notin {"restarting", "flushing", "finishing", "over"}
        /\ phase' \in {"starting", "idle", "appending"}
        /\ UNCHANGED <<caller, committed>>
    BY <1>2 DEF Boot, StartReturns, AppendFinal, AppendReturns
  <2>. QED  BY <2>1, <2>2 DEF FinishInv, SameFinishes
<1>3. CASE Speak \/ CloseClient
  BY <1>0, <1>3 DEF Speak, CloseClient, FinishInv, SameFinishes
<1>4. ASSUME NEW k \in Closer, RequestFinish(k) PROVE FinishInv'
  <2>1. SameFinishes
    BY <1>0, <1>4, AgentWireStep
  <2>2. UNCHANGED committed
    BY <1>4 DEF RequestFinish
  <2>3. phase' = phase \/ (phase = "appending" /\ phase' = "idle")
    BY <1>4 DEF RequestFinish
  <2>4. caller[k] = "out" /\ caller'[k] \in {"done", "yielding"}
    BY <1>4 DEF RequestFinish, TypeOK
  <2>5. \A j \in Closer : j # k => caller'[j] = caller[j]
    BY <1>4 DEF RequestFinish, TypeOK
  <2>6. \A j \in Closer :
          /\ caller[j] = "sending" => caller'[j] = "sending"
          /\ caller'[j] \in {"sender", "sending"} => caller[j] = caller'[j]
    BY <2>4, <2>5
  <2>7. \A q \in Of("finish") : phase' \in {"finishing", "over"} \/ committed'
    BY <2>2, <2>3 DEF FinishInv
  <2>8. phase' \in {"restarting", "flushing", "finishing"} =>
          ~committed' /\ \E j \in Closer : caller'[j] = "sending"
    BY <2>2, <2>3, <2>6 DEF FinishInv
  <2>9. committed' => \A j \in Closer : caller'[j] \notin {"sender", "sending"}
    BY <2>2, <2>6 DEF FinishInv
  <2>10. \A i, j \in Closer :
           caller'[i] \in {"sender", "sending"} /\ caller'[j] \in {"sender", "sending"}
             => i = j
    BY <2>6 DEF FinishInv
  <2>. QED  BY <2>1, <2>7, <2>8, <2>9, <2>10 DEF FinishInv, SameFinishes
<1>5. ASSUME NEW k \in Closer, ChooseSender(k) PROVE FinishInv'
  <2>1. SameFinishes /\ UNCHANGED <<phase, committed>>
    BY <1>0, <1>5 DEF ChooseSender
  <2>2. CASE FinishStarted
    BY <1>5, <2>1, <2>2 DEF ChooseSender, TypeOK, FinishInv, SameFinishes
  <2>3. CASE ~FinishStarted
    BY <1>5, <2>1, <2>3 DEF ChooseSender, FinishStarted, TypeOK, FinishInv, SameFinishes
  <2>. QED  BY <2>2, <2>3
<1>6. ASSUME NEW k \in Closer, BeginFinish(k) PROVE FinishInv'
  <2>1. SameFinishes
    BY <1>0, <1>6, AgentWireStep
  <2>2. /\ phase = "idle" /\ phase' \in {"restarting", "flushing"}
        /\ caller[k] = "sender" /\ caller' = [caller EXCEPT ![k] = "sending"]
        /\ UNCHANGED committed
    BY <1>6 DEF BeginFinish, Flush
  <2>3. ~committed /\ Of("finish") = {}
    BY <2>2 DEF FinishInv
  <2>. QED  BY <2>1, <2>2, <2>3 DEF TypeOK, FinishInv, SameFinishes
<1>7. CASE RestartReturns
  <2>1. SameFinishes
    BY <1>0, <1>7, AgentWireStep
  <2>2. CASE phase' = "flushing" /\ UNCHANGED <<committed, caller>>
    <3>1. phase = "restarting"
      BY <1>7 DEF RestartReturns
    <3>. QED  BY <2>1, <2>2, <3>1 DEF FinishInv, SameFinishes
  <2>3. CASE Commit
    <3>2. PICK k \in Closer : caller[k] = "sending"
      BY <1>7 DEF RestartReturns, FinishInv
    <3>3. \A j \in Closer : caller'[j] \notin {"sender", "sending"}
      BY <2>3, <3>2 DEF Commit, FinishInv
    <3>. QED  BY <2>1, <2>3, <3>3 DEF Commit, FinishInv, SameFinishes
  <2>. QED  BY <1>7, <2>2, <2>3 DEF RestartReturns, Flush
<1>8. CASE FlushNext \/ FlushReturns
  <2>1. SameFinishes
    BY <1>0, <1>8, AgentWireStep
  <2>. QED  BY <1>8, <2>1 DEF FlushNext, FlushReturns, agent, FinishInv, SameFinishes
<1>9. CASE FlushEnds
  <2>1. phase = "flushing" /\ UNCHANGED <<committed, caller>>
    BY <1>9 DEF FlushEnds
  <2>2. CASE Flush(1) /\ UNCHANGED wire
    BY <1>0, <2>1, <2>2 DEF Flush, FinishInv, SameFinishes
  <2>3. CASE phase' = "finishing" /\ Post("finish", 0, recordId)
    <3>1. recordId \in Rec
      BY <2>1 DEF PhaseInv, TypeOK
    <3>2. \A q \in Req : req'[q].kind = IF q = cur' THEN "finish" ELSE req[q].kind
      BY <2>3, <3>1, PostSends, SentKind
    <3>3. Of("finish") = {}
      BY <2>1 DEF FinishInv
    <3>4. \A q \in Of("finish")' : q = cur'
      BY <3>2, <3>3 DEF Of
    <3>. QED  BY <2>1, <2>3, <3>4 DEF FinishInv
  <2>. QED  BY <1>9, <2>2, <2>3 DEF FlushEnds
<1>10. CASE FinishReturns
  <2>1. SameFinishes
    BY <1>0, <1>10, AgentWireStep
  <2>. QED  BY <1>10, <2>1 DEF FinishReturns, Commit, TypeOK, FinishInv, SameFinishes
<1>11. CASE Kill
  <2>1. SameFinishes
    BY <1>0, <1>11, AgentWireStep
  <2>. QED  BY <1>11, <2>1 DEF Kill, FinishInv, SameFinishes
<1>12. CASE UNCHANGED vars
  BY <1>0, <1>12 DEF vars, agent, FinishInv, SameFinishes
<1>. QED
  BY <1>1, <1>2, <1>3, <1>4, <1>5, <1>6, <1>7, <1>8, <1>9, <1>10, <1>11, <1>12
     DEF Next, AgentStep, ApiStep

LEMMA InitIInv == Init => IInv
<1>. SUFFICES ASSUME Init PROVE IInv
  OBVIOUS
<1>. USE DEF Init, NoRequest
<1>1. TypeOK
  <2>1. NoRequest \in Request
    BY DEF Request, Stage
  <2>2. 0 \in 0 .. MaxFinals /\ 0 \in 0 .. MaxRequests /\ 0 \in 0 .. 2
    BY SessionAssumption, ReqFacts
  <2>. HIDE DEF NoRequest
  <2>. QED  BY <2>1, <2>2, EmptyTyped DEF TypeOK
<1>2. WireInv
  BY DEF WireInv, Open
<1>3. PhaseInv /\ FinishInv
  BY DEF PhaseInv, FinishInv, Of
<1>. QED  BY <1>1, <1>2, <1>3 DEF IInv

LEMMA Invariance == Spec => []IInv
<1>1. IInv /\ [Next]_vars => IInv'
  BY NextTypeOK, NextWireStep, WireKept, NextPhaseInv, NextFinishInv DEF IInv
<1>. QED  BY <1>1, InitIInv, PTL DEF Spec

\* Every variable keeps its type, whatever fails and whenever the call ends.
THEOREM TypeCorrect == Spec => []TypeOK
<1>1. IInv => TypeOK
  BY DEF IInv
<1>. QED  BY <1>1, Invariance, PTL

\* However many callers ask for the end of the call, and in whatever order
\* they reach the two critical sections of finish, one request goes out.
THEOREM OneFinishRequestHolds == Spec => []OneFinishRequest
<1>1. IInv => OneFinishRequest
  <2>. SUFFICES ASSUME IInv PROVE Cardinality(Of("finish")) <= 1
    BY DEF OneFinishRequest
  <2>1. CASE Of("finish") = {}
    BY <2>1, FS_EmptySet
  <2>2. ASSUME NEW q \in Of("finish") PROVE Cardinality(Of("finish")) <= 1
    <3>1. Of("finish") = {q}
      BY <2>2 DEF IInv, FinishInv
    <3>. QED  BY <3>1, FS_Singleton
  <2>. QED  BY <2>1, <2>2
<1>. QED  BY <1>1, Invariance, PTL

----------------------------------------------------------------------------
(* The end of the call comes to an end *)

\* A call that closes has nothing left to say but what is buffered, and until
\* the end is committed some caller of finish is on its way.
ClosingInv ==
  /\ closing => phase \notin {"booting", "starting", "appending"} /\ waiting = <<>>
  /\ committed => closing
  /\ \A k \in Closer : caller[k] # "out" => closing
  /\ \A k \in Closer : caller[k] = "sending" =>
       phase \in {"restarting", "flushing", "finishing", "over"}
  /\ closing /\ ~committed /\ phase # "over" =>
       \E k \in Closer : caller[k] \in {"yielding", "sender", "sending"}

\* The steps that leave alone what ClosingInv is about, or change only phases
\* before the end.
LEMMA EarlyClosing ==
  ASSUME IInv, ClosingInv,
         \/ Boot \/ StartReturns \/ Speak \/ AppendFinal \/ AppendReturns
         \/ FlushNext \/ FlushReturns \/ CloseClient \/ ApiStep \/ UNCHANGED vars
  PROVE  ClosingInv'
<1>. TypeOK /\ WireInv
  BY DEF IInv
<1>1. CASE FlushNext \/ FlushReturns \/ CloseClient \/ ApiStep \/ UNCHANGED vars
  <2>1. UNCHANGED <<phase, waiting, closing, committed, caller>>
    BY <1>1, ApiWireStep DEF FlushNext, FlushReturns, CloseClient, vars, agent
  <2>. QED  BY <2>1 DEF ClosingInv
<1>2. CASE Boot \/ StartReturns \/ AppendFinal \/ AppendReturns
  <2>1. /\ phase \in {"booting", "starting", "appending"} \/ waiting # <<>>
        /\ phase # "over" /\ UNCHANGED <<closing, committed, caller>>
        /\ phase \notin {"restarting", "flushing", "finishing", "over"}
    BY <1>2 DEF Boot, StartReturns, AppendFinal, AppendReturns
  <2>2. ~closing
    BY <2>1 DEF ClosingInv
  <2>. QED  BY <2>1, <2>2 DEF ClosingInv
<1>3. CASE Speak
  BY <1>3 DEF Speak, ClosingInv
<1>. QED  BY <1>1, <1>2, <1>3

LEMMA NextClosingInv == IInv /\ ClosingInv /\ [Next]_vars => ClosingInv'
<1>. SUFFICES ASSUME IInv, ClosingInv, [Next]_vars PROVE ClosingInv'
  OBVIOUS
<1>. caller \in [Closer -> {"out", "yielding", "sender", "sending", "done"}]
  BY DEF IInv, TypeOK
<1>1. ASSUME NEW k \in Closer, RequestFinish(k) PROVE ClosingInv'
  <2>1. /\ closing' /\ waiting' = <<>> /\ UNCHANGED committed
        /\ phase' = (IF phase = "appending" THEN "idle" ELSE phase)
        /\ phase \notin {"booting", "starting", "over"} /\ caller[k] = "out"
        /\ caller' = [caller EXCEPT ![k] = IF FinishStarted THEN "done" ELSE "yielding"]
    BY <1>1 DEF RequestFinish, Live
  <2>2. /\ \A j \in Closer : j # k => caller'[j] = caller[j]
        /\ caller'[k] = IF FinishStarted THEN "done" ELSE "yielding"
    BY <2>1
  <2>3. ~committed => \E j \in Closer : caller'[j] \in {"yielding", "sender", "sending"}
    BY <2>1, <2>2 DEF FinishStarted
  <2>. QED  BY <2>1, <2>2, <2>3 DEF ClosingInv
<1>2. ASSUME NEW k \in Closer, ChooseSender(k) PROVE ClosingInv'
  <2>1. /\ UNCHANGED <<phase, waiting, closing, committed>> /\ caller[k] = "yielding"
        /\ caller' = [caller EXCEPT ![k] = IF FinishStarted THEN "done" ELSE "sender"]
    BY <1>2 DEF ChooseSender
  <2>2. /\ \A j \in Closer : j # k => caller'[j] = caller[j]
        /\ caller'[k] = IF FinishStarted THEN "done" ELSE "sender"
    BY <2>1
  <2>3. ~committed => \E j \in Closer : caller'[j] \in {"yielding", "sender", "sending"}
    BY <2>1, <2>2 DEF FinishStarted
  <2>. QED  BY <2>1, <2>2, <2>3 DEF ClosingInv
<1>3. ASSUME NEW k \in Closer, BeginFinish(k) PROVE ClosingInv'
  <2>1. /\ UNCHANGED <<waiting, closing, committed>> /\ caller[k] = "sender"
        /\ phase' \in {"restarting", "flushing"}
        /\ caller' = [caller EXCEPT ![k] = "sending"]
    BY <1>3 DEF BeginFinish, Flush
  <2>. QED  BY <2>1 DEF ClosingInv
<1>4. CASE RestartReturns \/ FinishReturns
  <2>1. /\ UNCHANGED <<waiting, closing>> /\ phase \in {"restarting", "finishing"}
        /\ Commit \/ (phase' = "flushing" /\ UNCHANGED <<committed, caller>>)
    BY <1>4 DEF RestartReturns, FinishReturns, Flush
  <2>2. closing
    BY <2>1 DEF IInv, FinishInv, PhaseInv, ClosingInv
  <2>3. CASE Commit
    <3>1. committed' /\ phase' = "idle"
          /\ \A k \in Closer : caller'[k] # "sending" /\ (caller'[k] # "out" => caller[k] # "out")
      BY <2>3 DEF Commit
    <3>. QED  BY <2>1, <2>2, <3>1 DEF ClosingInv
  <2>4. CASE phase' = "flushing" /\ UNCHANGED <<committed, caller>>
    BY <2>1, <2>2, <2>4 DEF ClosingInv
  <2>. QED  BY <2>1, <2>3, <2>4
<1>5. CASE FlushEnds
  BY <1>5 DEF FlushEnds, Flush, ClosingInv
<1>6. CASE Kill
  BY <1>6 DEF Kill, ClosingInv
<1>. QED
  BY <1>1, <1>2, <1>3, <1>4, <1>5, <1>6, EarlyClosing DEF Next, AgentStep, ApiStep

\* 1 while the agent awaits an answer.
Awaiting == IF cur = 0 THEN 0 ELSE 1

\* One start, then one post of each message that was said, and at the end one
\* start again, at most two posts of what is buffered, and one finish.
CountInv ==
  /\ phase \in {"booting", "starting"} =>
       /\ recordId = 0 /\ said = 0 /\ buffer = <<>> /\ waiting = <<>>
       /\ sent = IF phase = "booting" THEN 0 ELSE 1
  /\ phase \in {"idle", "appending"} /\ ~committed =>
       /\ sent + Len(waiting) <= said + 1
       /\ Len(buffer) + Len(waiting) + Awaiting <= said
       /\ recordId = 0 => sent = 1
  /\ phase = "restarting" => sent = 2 /\ Len(buffer) <= said
  /\ phase = "flushing" =>
       /\ rounds \in {1, 2}
       /\ Len(buffer) + Len(batch) <= said
       /\ Len(buffer) + Len(batch) <= BufferLimit
       /\ rounds = 2 => sent + Len(batch) <= said + 2 + Awaiting
       /\ rounds = 1 => sent + Len(batch) <= 2 * said + 2 + Awaiting
  /\ sent <= 2 * said + 3

LEMMA Lengths ==
  ASSUME TypeOK
  PROVE  /\ Len(buffer) \in Nat /\ Len(waiting) \in Nat /\ Len(batch) \in Nat
         /\ Len(buffer) <= BufferLimit /\ BufferLimit \in Nat
         /\ said \in Nat /\ sent \in Nat /\ Len(<<>>) = 0
         /\ buffer = <<>> => Len(buffer) = 0
         /\ waiting # <<>> => Len(waiting) > 0 /\ Len(Tail(waiting)) = Len(waiting) - 1
         /\ batch # <<>> => Len(batch) > 0 /\ Len(Tail(batch)) = Len(batch) - 1
         /\ batch = <<>> => Len(batch) = 0
BY SessionAssumption, ReqFacts DEF TypeOK

LEMMA BufferedLength ==
  ASSUME TypeOK, NEW m \in Final
  PROVE  Len(Buffered(m)) \in Nat /\ Len(Buffered(m)) <= Len(buffer) + 1
<1>. BufferLimit \in Nat \ {0} /\ buffer \in Seq(Final)
  BY SessionAssumption DEF TypeOK
<1>1. CASE Len(buffer) < BufferLimit
  BY <1>1 DEF Buffered
<1>2. CASE ~(Len(buffer) < BufferLimit)
  <2>1. buffer # <<>> /\ Tail(buffer) \in Seq(Final) /\ Len(Tail(buffer)) = Len(buffer) - 1
    BY <1>2
  <2>. QED  BY <1>2, <2>1 DEF Buffered
<1>. QED  BY <1>1, <1>2

\* Sending counts one more request and begins to await it; returning ends that.
LEMMA SendCounts ==
  ASSUME TypeOK, NEW kind, Sends(kind)
  PROVE  sent' = sent + 1 /\ cur' # 0 /\ Awaiting' = 1
BY DEF TypeOK, Sends, Awaiting

LEMMA ReleaseCounts ==
  ASSUME Releases PROVE sent' = sent /\ cur' = 0 /\ Awaiting' = 0
BY DEF Releases, Awaiting

LEMMA StillCounts ==
  ASSUME UNCHANGED wire PROVE sent' = sent /\ cur' = cur /\ Awaiting' = Awaiting
BY DEF wire, Awaiting

\* The call until somebody asks for its end.
LEMMA TalkCounts ==
  ASSUME IInv, ClosingInv, CountInv,
         Boot \/ StartReturns \/ Speak \/ AppendFinal \/ AppendReturns
  PROVE  CountInv'
<1>. TypeOK /\ WireInv /\ PhaseInv
  BY DEF IInv
<1>. USE Lengths
<1>1. CASE Boot
  <2>1. Sends("start") /\ phase' = "starting" /\ phase = "booting"
        /\ UNCHANGED <<recordId, said, buffer, waiting>>
    BY <1>1, AgentWireStep DEF Boot
  <2>. QED  BY <2>1, SendCounts DEF CountInv
<1>2. CASE StartReturns
  <2>1. Releases /\ phase' = "idle" /\ phase = "starting"
        /\ UNCHANGED <<said, buffer, waiting>>
    BY <1>2, AgentWireStep DEF StartReturns
  <2>. QED  BY <2>1, ReleaseCounts DEF CountInv
<1>3. CASE Speak
  <2>1. /\ said' = said + 1 /\ waiting' = Append(waiting, said + 1)
        /\ phase \notin {"booting", "starting"}
        /\ UNCHANGED <<phase, recordId, buffer, batch, rounds, committed>> /\ UNCHANGED wire
    BY <1>3 DEF Speak, Live
  <2>2. Len(waiting') = Len(waiting) + 1
    BY <2>1 DEF TypeOK
  <2>3. Awaiting \in {0, 1}
    BY DEF Awaiting
  <2>4. /\ Len(buffer') = Len(buffer) /\ Len(batch') = Len(batch)
        /\ sent' = sent /\ Awaiting' = Awaiting
    BY <2>1, StillCounts
  <2>5. sent' <= 2 * said' + 3
    BY <2>1, <2>4 DEF CountInv
  <2>6. phase' \in {"idle", "appending"} /\ ~committed' =>
          /\ sent' + Len(waiting') <= said' + 1
          /\ Len(buffer') + Len(waiting') + Awaiting' <= said'
          /\ recordId' = 0 => sent' = 1
    BY <2>1, <2>2, <2>3, <2>4 DEF CountInv
  <2>7. phase' = "restarting" => sent' = 2 /\ Len(buffer') <= said'
    BY <2>1, <2>4 DEF CountInv
  <2>8. phase' = "flushing" =>
          /\ rounds' \in {1, 2}
          /\ Len(buffer') + Len(batch') <= said'
          /\ Len(buffer') + Len(batch') <= BufferLimit
          /\ rounds' = 2 => sent' + Len(batch') <= said' + 2 + Awaiting'
          /\ rounds' = 1 => sent' + Len(batch') <= 2 * said' + 2 + Awaiting'
    <3>. SUFFICES ASSUME phase = "flushing"
                  PROVE  /\ rounds \in {1, 2}
                         /\ Len(buffer) + Len(batch) <= said'
                         /\ Len(buffer) + Len(batch) <= BufferLimit
                         /\ rounds = 2 => sent + Len(batch) <= said' + 2 + Awaiting
                         /\ rounds = 1 => sent + Len(batch) <= 2 * said' + 2 + Awaiting
      BY <2>1, <2>4
    <3>1. /\ rounds \in {1, 2}
          /\ Len(buffer) + Len(batch) <= said
          /\ Len(buffer) + Len(batch) <= BufferLimit
          /\ rounds = 2 => sent + Len(batch) <= said + 2 + Awaiting
          /\ rounds = 1 => sent + Len(batch) <= 2 * said + 2 + Awaiting
      BY DEF CountInv
    <3>2. said' = said + 1 /\ 2 * said' = 2 * said + 2
      BY <2>1
    <3>3. Len(buffer) + Len(batch) <= said'
      BY <3>1, <3>2
    <3>4. rounds = 2 => sent + Len(batch) <= said' + 2 + Awaiting
      <4>1. /\ sent + Len(batch) \in Nat /\ said + 2 + Awaiting \in Nat
            /\ said' + 2 + Awaiting = (said + 2 + Awaiting) + 1
        BY <2>3, <3>2
      <4>. QED  BY <3>1, <4>1
    <3>5. rounds = 1 => sent + Len(batch) <= 2 * said' + 2 + Awaiting
      <4>1. /\ sent + Len(batch) \in Nat /\ 2 * said + 2 + Awaiting \in Nat
            /\ 2 * said' + 2 + Awaiting = (2 * said + 2 + Awaiting) + 2
        BY <2>3, <3>2
      <4>. QED  BY <3>1, <4>1
    <3>. QED  BY <3>1, <3>3, <3>4, <3>5
  <2>. QED  BY <2>1, <2>5, <2>6, <2>7, <2>8 DEF CountInv
<1>4. CASE AppendFinal
  <2>1. /\ phase = "idle" /\ waiting # <<>> /\ waiting' = Tail(waiting)
        /\ ~committed /\ cur = 0 /\ UNCHANGED <<recordId, said, committed>>
    BY <1>4 DEF AppendFinal, ClosingInv, PhaseInv
  <2>2. CASE recordId = 0
    <3>1. UNCHANGED wire /\ phase' = "idle" /\ buffer' = Buffered(Head(waiting))
      BY <1>4, <2>1, <2>2 DEF AppendFinal
    <3>2. Len(buffer') \in Nat /\ Len(buffer') <= Len(buffer) + 1
      BY <2>1, <3>1, TailsTyped, BufferedLength
    <3>. QED  BY <2>1, <3>1, <3>2, StillCounts DEF CountInv, Awaiting
  <2>3. CASE recordId # 0
    <3>1. Sends("append") /\ phase' = "appending" /\ UNCHANGED buffer
      BY <1>4, <2>1, <2>3, TailsTyped, PostMessageSends DEF AppendFinal
    <3>. QED  BY <2>1, <2>3, <3>1, SendCounts DEF CountInv, Awaiting
  <2>. QED  BY <2>2, <2>3
<1>5. CASE AppendReturns
  <2>1. /\ Releases /\ phase' = "idle" /\ phase = "appending" /\ Awaiting = 1
        /\ recordId # 0 /\ UNCHANGED <<recordId, said, waiting, committed>>
    BY <1>5, AgentWireStep DEF AppendReturns, PhaseInv, Awaiting
  <2>2. Len(buffer') \in Nat /\ Len(buffer') <= Len(buffer) + 1
    <3>1. req[cur].msg \in Final
      BY <1>5, AwaitedMessage DEF AppendReturns, PhaseInv
    <3>. QED  BY <1>5, <3>1, BufferedLength DEF AppendReturns
  <2>. QED  BY <2>1, <2>2, ReleaseCounts DEF CountInv
<1>. QED  BY <1>1, <1>2, <1>3, <1>4, <1>5

LEMMA FlushLengths ==
  ASSUME NEW n, Flush(n)
  PROVE  /\ phase' = "flushing" /\ rounds' = n /\ Len(buffer') = 0
         /\ batch' = buffer /\ Len(batch') = Len(buffer)
BY DEF Flush

\* _send_finish begins: with a record it flushes, without it starts again.
LEMMA BeginCounts ==
  ASSUME IInv, ClosingInv, CountInv, NEW k \in Closer, BeginFinish(k)
  PROVE  CountInv'
<1>. TypeOK /\ WireInv /\ PhaseInv
  BY DEF IInv
<1>. USE Lengths
<1>1. /\ phase = "idle" /\ caller[k] = "sender" /\ ~committed /\ cur = 0
      /\ waiting = <<>> /\ UNCHANGED <<recordId, said>>
  BY DEF BeginFinish, IInv, FinishInv, PhaseInv, ClosingInv
<1>2. sent <= said + 1 /\ Len(buffer) <= said /\ (recordId = 0 => sent = 1)
  BY <1>1 DEF CountInv, Awaiting
<1>3. CASE recordId = 0
  <2>1. Sends("start") /\ phase' = "restarting" /\ UNCHANGED buffer
    BY <1>3, PostStartSends DEF BeginFinish
  <2>. QED  BY <1>1, <1>2, <1>3, <2>1, SendCounts DEF CountInv
<1>4. CASE recordId # 0
  <2>1. Flush(1) /\ UNCHANGED wire
    BY <1>4 DEF BeginFinish
  <2>. QED  BY <1>1, <1>2, <2>1, FlushLengths, StillCounts DEF CountInv, Awaiting
<1>. QED  BY <1>3, <1>4

\* The flushes: what the first one could not post is posted once more.
LEMMA FlushCounts ==
  ASSUME IInv, ClosingInv, CountInv,
         RestartReturns \/ FlushNext \/ FlushReturns \/ FlushEnds \/ FinishReturns
  PROVE  CountInv'
<1>. TypeOK /\ WireInv /\ PhaseInv
  BY DEF IInv
<1>. USE Lengths
<1>1. CASE RestartReturns
  <2>1. Releases /\ phase = "restarting" /\ UNCHANGED said
    BY <1>1, AgentWireStep DEF RestartReturns
  <2>2. CASE Flush(2)
    BY <2>1, <2>2, FlushLengths, ReleaseCounts DEF CountInv
  <2>3. CASE Commit
    BY <2>1, <2>3, ReleaseCounts DEF CountInv, Commit
  <2>. QED  BY <1>1, <2>2, <2>3 DEF RestartReturns
<1>2. CASE FlushNext
  <2>1. /\ Sends("append") /\ phase = "flushing" /\ cur = 0 /\ batch # <<>>
        /\ UNCHANGED <<phase, said, buffer, batch, rounds>>
    BY <1>2, AgentWireStep DEF FlushNext, agent
  <2>2. /\ rounds \in {1, 2}
        /\ Len(buffer) + Len(batch) <= said
        /\ Len(buffer) + Len(batch) <= BufferLimit
        /\ rounds = 2 => sent + Len(batch) <= said + 2
        /\ rounds = 1 => sent + Len(batch) <= 2 * said + 2
    BY <2>1 DEF CountInv, Awaiting
  <2>3. Len(batch) > 0 /\ sent' = sent + 1 /\ Awaiting' = 1
    BY <2>1, SendCounts
  <2>. QED  BY <2>1, <2>2, <2>3 DEF CountInv
<1>3. CASE FlushReturns
  <2>1. /\ Releases /\ phase = "flushing" /\ batch # <<>> /\ batch' = Tail(batch)
        /\ Awaiting = 1 /\ UNCHANGED <<phase, said, rounds>>
    BY <1>3, AgentWireStep DEF FlushReturns, PhaseInv, Awaiting
  <2>2. Len(buffer') \in Nat /\ Len(buffer') <= Len(buffer) + 1
    BY <1>3, <2>1, TailsTyped, BufferedLength DEF FlushReturns
  <2>3. /\ rounds \in {1, 2}
        /\ Len(buffer) + Len(batch) <= said
        /\ Len(buffer) + Len(batch) <= BufferLimit
        /\ rounds = 2 => sent + Len(batch) <= said + 3
        /\ rounds = 1 => sent + Len(batch) <= 2 * said + 3
        /\ sent <= 2 * said + 3
    BY <2>1 DEF CountInv
  <2>4. /\ sent' = sent /\ Awaiting' = 0
        /\ Len(batch') = Len(batch) - 1 /\ Len(batch') \in Nat
    BY <2>1, ReleaseCounts
  <2>5. /\ Len(buffer') + Len(batch') <= said
        /\ Len(buffer') + Len(batch') <= BufferLimit
    BY <2>2, <2>3, <2>4
  <2>6. /\ rounds = 2 => sent + Len(batch') <= said + 2
        /\ rounds = 1 => sent + Len(batch') <= 2 * said + 2
    BY <2>3, <2>4
  <2>. QED  BY <2>1, <2>3, <2>4, <2>5, <2>6 DEF CountInv
<1>4. CASE FlushEnds
  <2>1. /\ phase = "flushing" /\ cur = 0 /\ batch = <<>> /\ UNCHANGED said
    BY <1>4 DEF FlushEnds
  <2>2. /\ Len(buffer) <= said
        /\ rounds = 2 => sent <= said + 2
        /\ rounds = 1 => sent <= 2 * said + 2
    BY <2>1 DEF CountInv, Awaiting
  <2>3. CASE rounds = 2 /\ Flush(1) /\ UNCHANGED wire
    BY <2>1, <2>2, <2>3, FlushLengths, StillCounts DEF CountInv, Awaiting
  <2>4. CASE rounds = 1 /\ phase' = "finishing" /\ Post("finish", 0, recordId)
    <3>1. recordId \in Rec
      BY <2>1 DEF PhaseInv, TypeOK
    <3>2. Sends("finish")
      BY <2>4, <3>1, PostSends
    <3>. QED  BY <2>1, <2>2, <2>4, <3>2, SendCounts DEF CountInv
  <2>. QED  BY <1>4, <2>3, <2>4 DEF FlushEnds
<1>5. CASE FinishReturns
  <2>1. Releases /\ phase' = "idle" /\ committed' /\ UNCHANGED said
    BY <1>5, AgentWireStep DEF FinishReturns, Commit
  <2>. QED  BY <2>1, ReleaseCounts DEF CountInv
<1>. QED  BY <1>1, <1>2, <1>3, <1>4, <1>5

LEMMA NextCountInv == IInv /\ ClosingInv /\ CountInv /\ [Next]_vars => CountInv'
<1>. SUFFICES ASSUME IInv, ClosingInv, CountInv, [Next]_vars PROVE CountInv'
  OBVIOUS
<1>. TypeOK /\ WireInv /\ PhaseInv
  BY DEF IInv
<1>. USE Lengths
<1>1. ASSUME NEW k \in Closer, RequestFinish(k) PROVE CountInv'
  <2>1. /\ UNCHANGED <<recordId, buffer, batch, rounds, said, committed>>
        /\ waiting' = <<>> /\ phase \notin {"booting", "starting", "over"}
    BY <1>1 DEF RequestFinish, Live
  <2>2. CASE phase = "appending"
    <3>1. Releases /\ phase' = "idle" /\ recordId # 0
      BY <1>1, <2>2, GiveUpReleases DEF RequestFinish, PhaseInv
    <3>2. Awaiting = 1
      BY <2>2 DEF PhaseInv, Awaiting
    <3>. QED  BY <2>1, <2>2, <3>1, <3>2, ReleaseCounts DEF CountInv
  <2>3. CASE phase # "appending"
    <3>1. UNCHANGED phase /\ UNCHANGED wire
      BY <1>1, <2>3 DEF RequestFinish
    <3>2. Awaiting \in {0, 1}
      BY DEF Awaiting
    <3>. QED  BY <2>1, <2>3, <3>1, <3>2, StillCounts DEF CountInv
  <2>. QED  BY <2>2, <2>3
<1>2. CASE Kill
  <2>1. Releases /\ phase' = "over" /\ UNCHANGED said
    BY <1>2, AgentWireStep DEF Kill
  <2>. QED  BY <2>1, ReleaseCounts DEF CountInv
<1>3. CASE ApiStep \/ CloseClient \/ (\E k \in Closer : ChooseSender(k)) \/ UNCHANGED vars
  <2>1. /\ UNCHANGED <<phase, recordId, buffer, waiting, batch, rounds, said, committed>>
        /\ cur' = cur
    BY <1>3, ApiWireStep DEF CloseClient, ChooseSender, vars, agent, wire
  <2>2. sent' = sent
    BY <1>3, ApiWireStep DEF Moves, ApiCrash, CloseClient, ChooseSender, vars, wire
  <2>. QED  BY <2>1, <2>2 DEF CountInv, Awaiting
<1>. QED
  BY <1>1, <1>2, <1>3, TalkCounts, BeginCounts, FlushCounts DEF Next, AgentStep, ApiStep

----------------------------------------------------------------------------
(* How far the agent is from having reported the end *)

Rank ==
  CASE phase = "idle" /\ ~committed -> 4 * Len(buffer) + 6
    [] phase = "restarting" -> 4 * Len(buffer) + 5
    [] phase = "flushing" /\ rounds = 2 ->
         4 * Len(batch) + 2 * Len(buffer) + 4 - Awaiting
    [] phase = "flushing" /\ rounds # 2 -> 2 * Len(batch) + 2 - Awaiting
    [] phase = "finishing" -> 1
    [] OTHER -> 0

LEMMA RankIs ==
  /\ phase = "idle" /\ ~committed => Rank = 4 * Len(buffer) + 6
  /\ phase = "idle" /\ committed => Rank = 0
  /\ phase = "restarting" => Rank = 4 * Len(buffer) + 5
  /\ phase = "flushing" /\ rounds = 2 =>
       Rank = 4 * Len(batch) + 2 * Len(buffer) + 4 - Awaiting
  /\ phase = "flushing" /\ rounds # 2 => Rank = 2 * Len(batch) + 2 - Awaiting
  /\ phase = "finishing" => Rank = 1
  /\ phase = "over" => Rank = 0
BY DEF Rank

LEMMA RankBound ==
  ASSUME IInv, ClosingInv, CountInv, closing
  PROVE  Rank \in 0 .. 4 * BufferLimit + 6
<1>. TypeOK
  BY DEF IInv
<1>. USE Lengths
<1>1. Awaiting \in {0, 1}
  BY DEF Awaiting
<1>2. CASE phase = "flushing" /\ rounds = 2
  <2>1. Len(buffer) + Len(batch) <= BufferLimit
    BY <1>2 DEF CountInv
  <2>. QED  BY <1>1, <1>2, <2>1, RankIs
<1>3. CASE phase = "flushing" /\ rounds # 2
  <2>1. Len(batch) <= BufferLimit
    BY <1>3 DEF CountInv
  <2>. QED  BY <1>1, <1>3, <2>1, RankIs
<1>4. CASE phase \in {"idle", "restarting", "finishing", "over"}
  BY <1>4, RankIs
<1>. QED  BY <1>2, <1>3, <1>4 DEF TypeOK, ClosingInv

\* Every step of the agent but a choice among callers brings the end nearer, and
\* no step of anybody moves it away.
LEMMA RankFalls ==
  ASSUME IInv, ClosingInv, CountInv, closing, AgentStep
  PROVE  Rank' < Rank \/ ((\E k \in Closer : ChooseSender(k)) /\ Rank' = Rank)
<1>. TypeOK /\ WireInv /\ PhaseInv
  BY DEF IInv
<1>. USE Lengths
<1>1. phase \notin {"booting", "starting", "appending"} /\ waiting = <<>>
  BY DEF ClosingInv
<1>2. CASE \E k \in Closer : ChooseSender(k)
  <2>1. UNCHANGED <<phase, committed, buffer, batch, rounds, cur>>
    BY <1>2 DEF ChooseSender, wire
  <2>2. Rank' = Rank
    BY <2>1 DEF Rank, Awaiting
  <2>. QED  BY <1>2, <2>2
<1>3. ASSUME NEW k \in Closer, BeginFinish(k) PROVE Rank' < Rank
  <2>1. phase = "idle" /\ ~committed /\ UNCHANGED committed
    BY <1>3 DEF BeginFinish, IInv, FinishInv
  <2>2. Rank = 4 * Len(buffer) + 6
    BY <2>1, RankIs
  <2>3. CASE phase' = "restarting" /\ UNCHANGED buffer
    <3>1. Rank' = 4 * Len(buffer) + 5
      BY <2>3 DEF Rank
    <3>. QED  BY <2>2, <3>1
  <2>4. CASE Flush(1) /\ UNCHANGED wire
    <3>1. Rank' = 2 * Len(buffer) + 2 - Awaiting'
      BY <2>4, FlushLengths DEF Rank
    <3>. QED  BY <2>2, <3>1 DEF Awaiting
  <2>. QED  BY <1>3, <2>3, <2>4 DEF BeginFinish
<1>4. CASE RestartReturns
  <2>1. Releases /\ phase = "restarting" /\ Rank = 4 * Len(buffer) + 5
    BY <1>4, AgentWireStep, RankIs DEF RestartReturns
  <2>2. CASE Flush(2)
    <3>1. Rank' = 4 * Len(batch') + 2 * Len(buffer') + 4 - Awaiting'
      BY <2>2, FlushLengths DEF Rank
    <3>. QED  BY <2>1, <2>2, <3>1, FlushLengths, ReleaseCounts
  <2>3. CASE Commit
    BY <2>1, <2>3 DEF Commit, Rank
  <2>. QED  BY <1>4, <2>2, <2>3 DEF RestartReturns
<1>5. CASE FlushNext
  <2>1. /\ Awaiting = 0 /\ Awaiting' = 1 /\ phase = "flushing"
        /\ UNCHANGED <<phase, rounds, batch, buffer>>
    BY <1>5, AgentWireStep, SendCounts DEF FlushNext, agent, Awaiting
  <2>2. CASE rounds = 2
    <3>1. Rank = 4 * Len(batch) + 2 * Len(buffer) + 4 /\ Rank' = 4 * Len(batch) + 2 * Len(buffer) + 3
      BY <2>1, <2>2 DEF Rank
    <3>. QED  BY <3>1
  <2>3. CASE rounds # 2
    <3>1. Rank = 2 * Len(batch) + 2 /\ Rank' = 2 * Len(batch) + 1
      BY <2>1, <2>3 DEF Rank
    <3>. QED  BY <3>1
  <2>. QED  BY <2>2, <2>3
<1>6. CASE FlushReturns
  <2>1. /\ Releases /\ phase = "flushing" /\ batch # <<>> /\ batch' = Tail(batch)
        /\ Awaiting = 1 /\ UNCHANGED <<phase, rounds>>
    BY <1>6, AgentWireStep DEF FlushReturns, PhaseInv, Awaiting
  <2>2. Len(buffer') \in Nat /\ Len(buffer') <= Len(buffer) + 1
    BY <1>6, <2>1, TailsTyped, BufferedLength DEF FlushReturns
  <2>3. Awaiting' = 0 /\ Len(batch') = Len(batch) - 1
    BY <2>1, ReleaseCounts
  <2>4. CASE rounds = 2
    <3>1. /\ Rank = 4 * Len(batch) + 2 * Len(buffer) + 3
          /\ Rank' = 4 * Len(batch') + 2 * Len(buffer') + 4
      BY <2>1, <2>2, <2>3, <2>4 DEF Rank
    <3>. QED  BY <2>2, <2>3, <3>1
  <2>5. CASE rounds # 2
    <3>1. Rank = 2 * Len(batch) + 1 /\ Rank' = 2 * Len(batch') + 2
      BY <2>1, <2>3, <2>5 DEF Rank
    <3>. QED  BY <2>3, <3>1
  <2>. QED  BY <2>4, <2>5
<1>7. CASE FlushEnds
  <2>1. phase = "flushing" /\ Awaiting = 0 /\ Len(batch) = 0
    BY <1>7 DEF FlushEnds, Awaiting
  <2>2. CASE rounds = 2 /\ Flush(1) /\ UNCHANGED wire
    <3>1. Rank = 2 * Len(buffer) + 4 /\ Rank' = 2 * Len(buffer) + 2
      BY <2>1, <2>2, FlushLengths, StillCounts DEF Rank
    <3>. QED  BY <3>1
  <2>3. CASE rounds = 1 /\ phase' = "finishing"
    BY <2>1, <2>3 DEF Rank
  <2>. QED  BY <1>7, <2>2, <2>3 DEF FlushEnds
<1>8. CASE FinishReturns
  BY <1>8 DEF FinishReturns, Commit, Rank
<1>. QED
  BY <1>1, <1>2, <1>3, <1>4, <1>5, <1>6, <1>7, <1>8
     DEF AgentStep, Boot, StartReturns, AppendFinal, AppendReturns

LEMMA RankNeverRises ==
  ASSUME IInv, ClosingInv, CountInv, closing, [Next]_vars
  PROVE  Rank' <= Rank
<1>. TypeOK /\ WireInv /\ PhaseInv
  BY DEF IInv
<1>0. Rank \in Int
  BY RankBound, Lengths
<1>1. CASE AgentStep
  <2>1. Rank' < Rank \/ Rank' = Rank
    BY <1>1, RankFalls
  <2>2. CASE Rank' = Rank
    BY <1>0, <2>2
  <2>3. CASE Rank' < Rank /\ Rank' # Rank
    <3>1. IInv' /\ ClosingInv' /\ CountInv' /\ closing'
      BY NextTypeOK, NextWireStep, WireKept, NextPhaseInv, NextFinishInv, NextClosingInv,
         NextCountInv, <1>1
         DEF IInv, AgentStep, Boot, StartReturns, AppendFinal, AppendReturns, ChooseSender,
             BeginFinish, RestartReturns, FlushNext, FlushReturns, FlushEnds, FinishReturns, agent
    <3>2. Rank' \in Int
      <4>1. (IInv /\ ClosingInv /\ CountInv /\ closing => Rank \in 0 .. 4 * BufferLimit + 6)'
        BY RankBound, PTL
      <4>. QED  BY <3>1, <4>1
    <3>. QED  BY <1>0, <2>3, <3>2
  <2>. QED  BY <2>1, <2>2, <2>3
<1>2. CASE Kill
  BY <1>0, <1>2, RankBound, Lengths DEF Kill, Rank
<1>3. CASE \/ ApiStep \/ CloseClient \/ Speak \/ UNCHANGED vars
           \/ \E k \in Closer : RequestFinish(k)
  <2>1. UNCHANGED <<phase, committed, buffer, batch, rounds>> /\ cur' = cur
    <3>1. CASE \E k \in Closer : RequestFinish(k)
      <4>1. phase # "appending"
        BY DEF ClosingInv
      <4>. QED  BY <3>1, <4>1 DEF RequestFinish, wire
    <3>. QED  BY <1>3, <3>1, ApiWireStep DEF CloseClient, Speak, vars, agent, wire
  <2>2. Rank' = Rank
    BY <2>1 DEF Rank, Awaiting
  <2>. QED  BY <1>0, <2>2
<1>. QED  BY <1>1, <1>2, <1>3 DEF Next, ApiStep

LEMMA EndInvariance == Spec => [](IInv /\ ClosingInv /\ CountInv)
<1>1. Init => ClosingInv /\ CountInv
  <2>. SUFFICES ASSUME Init PROVE ClosingInv /\ CountInv
    OBVIOUS
  <2>1. ClosingInv
    BY DEF Init, ClosingInv
  <2>2. /\ phase = "booting" /\ recordId = 0 /\ said = 0 /\ sent = 0
        /\ buffer = <<>> /\ waiting = <<>>
    BY DEF Init
  <2>3. CountInv
    BY <2>2 DEF CountInv
  <2>. QED  BY <2>1, <2>3
<1>2. IInv /\ ClosingInv /\ CountInv /\ [Next]_vars => (ClosingInv /\ CountInv)'
  BY NextClosingInv, NextCountInv
<1>. QED  BY <1>1, <1>2, Invariance, PTL DEF Spec

LEMMA AtMostOne ==
  ASSUME NEW S, NEW x, S \subseteq {x} PROVE Cardinality(S) < 2
<1>1. S = {} \/ S = {x}
  OBVIOUS
<1>2. Cardinality({}) = 0 /\ Cardinality({x}) = 1
  BY FS_EmptySet, FS_Singleton
<1>3. CASE S = {}
  BY <1>2, <1>3
<1>4. CASE S = {x}
  BY <1>2, <1>4
<1>. QED  BY <1>1, <1>3, <1>4

\* Where the agent is about to post a request, and where it is to be a start.
PostsNext ==
  \/ phase = "booting"
  \/ phase = "idle" /\ waiting # <<>>
  \/ phase = "idle" /\ \E k \in Closer : caller[k] = "sender"
  \/ phase = "flushing" /\ cur = 0

PostsStart ==
  \/ phase = "booting"
  \/ phase = "idle" /\ recordId = 0 /\ \E k \in Closer : caller[k] = "sender"

\* However many requests fail and whenever the call ends, no message is posted
\* more than twice, and two starts and one finish do: the agent sends at most
\* 2 * said + 3 requests, so that the model's bounds on requests and starts
\* never keep it from posting (call_lifecycle.py tries nothing a third time).
THEOREM RequestsSuffice ==
  Spec => [](/\ sent <= 2 * said + 3
             /\ PostsNext => sent < MaxRequests
             /\ PostsStart => Cardinality(Of("start")) < 2)
<1>1. IInv /\ ClosingInv /\ CountInv =>
        /\ sent <= 2 * said + 3
        /\ PostsNext => sent < MaxRequests
        /\ PostsStart => Cardinality(Of("start")) < 2
  <2>. SUFFICES ASSUME IInv, ClosingInv, CountInv
                PROVE  /\ sent <= 2 * said + 3
                       /\ PostsNext => sent < MaxRequests
                       /\ PostsStart => Cardinality(Of("start")) < 2
    OBVIOUS
  <2>. TypeOK /\ WireInv /\ PhaseInv
    BY DEF IInv
  <2>. USE Lengths
  <2>1. MaxFinals \in Nat /\ said \in 0 .. MaxFinals
    BY SessionAssumption DEF TypeOK
  <2>2. phase = "idle" /\ waiting # <<>> => ~committed /\ cur = 0
    BY DEF ClosingInv, PhaseInv
  <2>3. \A k \in Closer : phase = "idle" /\ caller[k] = "sender" => ~committed /\ cur = 0
    BY DEF IInv, FinishInv, PhaseInv
  <2>4. sent <= 2 * said + 3
    BY DEF CountInv
  <2>5. PostsNext => sent <= 2 * said + 2
    BY <2>2, <2>3 DEF PostsNext, CountInv, Awaiting
  <2>6. PostsNext => sent < MaxRequests
    BY <2>1, <2>5 DEF MaxRequests
  <2>7. PostsStart => sent <= 1
    BY <2>3 DEF PostsStart, CountInv
  <2>8. PostsStart => Cardinality(Of("start")) < 2
    <3>. SUFFICES ASSUME sent <= 1 PROVE Cardinality(Of("start")) < 2
      BY <2>7
    <3>1. \A q \in Of("start") : q \in Nat /\ q = 1
      BY DEF Of, WireInv, Req
    <3>2. Of("start") \subseteq {1}
      BY <3>1
    <3>. QED  BY <3>2, AtMostOne
  <2>. QED  BY <2>4, <2>6, <2>8
<1>. QED  BY <1>1, EndInvariance, PTL

\* While the end of the call is wanted and not settled, somebody is responsible
\* for it and can go on: a caller is between the critical sections of finish, or
\* the sender gets the lock, or the next message of a flush is due, or the agent
\* awaits a request that the API works on or that has come back.
THEOREM SomebodyFinishes ==
  Spec => [](closing /\ ~committed /\ phase # "over" =>
               \/ \E k \in Closer : caller[k] = "yielding"
               \/ phase = "idle" /\ \E k \in Closer : caller[k] = "sender"
               \/ phase = "flushing" /\ cur = 0
               \/ /\ phase \in {"restarting", "flushing", "finishing"}
                  /\ cur # 0 /\ req[cur].stage \in Working \cup Failed \cup {"ok"})
<1>1. IInv /\ ClosingInv /\ CountInv =>
        (closing /\ ~committed /\ phase # "over" =>
           \/ \E k \in Closer : caller[k] = "yielding"
           \/ phase = "idle" /\ \E k \in Closer : caller[k] = "sender"
           \/ phase = "flushing" /\ cur = 0
           \/ /\ phase \in {"restarting", "flushing", "finishing"}
              /\ cur # 0 /\ req[cur].stage \in Working \cup Failed \cup {"ok"})
  <2>. SUFFICES ASSUME IInv, ClosingInv, closing, ~committed, phase # "over"
                PROVE  \/ \E k \in Closer : caller[k] = "yielding"
                       \/ phase = "idle" /\ \E k \in Closer : caller[k] = "sender"
                       \/ phase = "flushing" /\ cur = 0
                       \/ /\ phase \in {"restarting", "flushing", "finishing"}
                          /\ cur # 0 /\ req[cur].stage \in Working \cup Failed \cup {"ok"}
    OBVIOUS
  <2>1. phase \in {"idle", "restarting", "flushing", "finishing"}
    BY DEF IInv, TypeOK, ClosingInv
  <2>2. phase \in {"restarting", "finishing"} => cur # 0
    BY DEF IInv, PhaseInv
  <2>3. cur # 0 => req[cur].stage \in Working \cup Failed \cup {"ok"}
    BY DEF IInv, TypeOK, WireInv, Open, Request, Stage
  <2>4. phase = "idle" => \E k \in Closer : caller[k] \in {"yielding", "sender"}
    BY DEF ClosingInv
  <2>. QED  BY <2>1, <2>2, <2>3, <2>4
<1>. QED  BY <1>1, EndInvariance, PTL

\* Once the end of the call is wanted, every step of the agent except a choice
\* among the callers brings it nearer, nothing moves it away, and it is never
\* farther than 4 * BufferLimit + 6 steps: no retry goes round in a circle. This
\* is what HangUpSettles rests on besides fairness.
THEOREM EndComesNearer ==
  Spec => /\ [](closing => Rank \in 0 .. 4 * BufferLimit + 6)
          /\ [][closing =>
                  /\ Rank' <= Rank
                  /\ AgentStep => Rank' < Rank \/ \E k \in Closer : ChooseSender(k)]_vars
<1>. DEFINE Nearer == closing =>
              /\ Rank' <= Rank
              /\ AgentStep => Rank' < Rank \/ \E k \in Closer : ChooseSender(k)
<1>1. IInv /\ ClosingInv /\ CountInv => (closing => Rank \in 0 .. 4 * BufferLimit + 6)
  BY RankBound
<1>2. IInv /\ ClosingInv /\ CountInv /\ [Next]_vars => [Nearer]_vars
  BY RankFalls, RankNeverRises
<1>. HIDE DEF Nearer
<1>3. Spec => [](closing => Rank \in 0 .. 4 * BufferLimit + 6) /\ [][Nearer]_vars
  BY <1>1, <1>2, EndInvariance, PTL DEF Spec
<1>. QED  BY <1>3 DEF Nearer

=============================================================================
