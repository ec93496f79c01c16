----------------------------- MODULE VoiceTurns -----------------------------
(***************************************************************************)
(* One telephone conversation as the voice agent runs it: the realtime     *)
(* session with Qwen (qwen_realtime.py), the director that applies         *)
(* ConversationPolicy to what Qwen and the tools report, and the job that  *)
(* owns both (server.py).  All of it runs on one event loop: an action is  *)
(* what happens between two awaits, the calls from Qwen's handler through  *)
(* the director back into Qwen's session included.                         *)
(*                                                                         *)
(* Turns are detected by the server (session.py:18), so the branches for a *)
(* client that detects them are never taken.  The audio itself is left     *)
(* out: what a test on its level decides is a choice of the action.        *)
(*                                                                         *)
(* External, as the code uses them: Qwen's server, which sends the events  *)
(* of one response after the other, and LiveKit's AgentSession, which      *)
(* speaks what it was told to say one text at a time.                      *)
(***************************************************************************)
EXTENDS ConversationPolicy, Integers, FiniteSets

CONSTANTS
  MaxResponses,   \* bound: responses the server opens
  MaxTools        \* bound: tool calls of the conversation

ASSUME BoundsAssumption == MaxResponses \in Nat /\ MaxTools \in Nat

VARIABLES
  stage,      \* of the job: "starting", "live", "over"
  director,   \* the director's ConversationState
  qwen,       \* QwenRealtimeSession
  server,     \* Qwen's server and what is on its way to it
  speech,     \* texts AgentSession has been asked to say and has not begun
  tools,      \* [made: calls so far, running: calls without a result]
  finishing,  \* request_finish: "no", "asked" or "sent"
  seen        \* history, for the properties only

vars == <<stage, director, qwen, server, speech, tools, finishing, seen>>

Response == 1..MaxResponses
None == 0

\* say: the one future in _pending_generations is "waiting", or "given_up"
\* when AgentSession has cancelled it; "speaking" once a response is its own.
Qwen == [closed: BOOLEAN, accepts: BOOLEAN, active: Response \cup {None},
         suppressed: SUBSET Response, cancelPending: BOOLEAN,
         speech: BOOLEAN, confirming: BOOLEAN, smart: BOOLEAN,
         smartResp: Response \cup {None},
         say: {"none", "waiting", "given_up", "speaking"},
         sayResp: Response \cup {None}]

\* vad: the server hears speech; owed: it has a turn to answer; creates and
\* cancel: a response.create, a response.cancel it has not acted on.
Server == [opened: Response \cup {None}, vad: BOOLEAN, owed: BOOLEAN,
           creates: 0..MaxResponses, cancel: BOOLEAN]

NewQwen == [closed |-> FALSE, accepts |-> FALSE, active |-> None,
            suppressed |-> {}, cancelPending |-> FALSE, speech |-> FALSE,
            confirming |-> FALSE, smart |-> FALSE, smartResp |-> None,
            say |-> "none", sayResp |-> None]

\* _terminate and _close_generations.
ClosedQwen == [NewQwen EXCEPT !.closed = TRUE]

NewServer == [opened |-> None, vad |-> FALSE, owed |-> FALSE, creates |-> 0,
              cancel |-> FALSE]

\* asks: finish requests of the director; greets: greetings said; spokeFirst:
\* the caller spoke before; cut: the director cancelled the active response;
\* cutSay: it cancelled a text whose response was not created yet.
Seen == [asks: Nat, greets: Nat, spokeFirst: BOOLEAN, cut: BOOLEAN,
         cutSay: BOOLEAN]

TypeOK ==
  /\ stage \in {"starting", "live", "over"}
  /\ director \in State
  /\ qwen \in Qwen
  /\ server \in Server
  /\ speech \in Nat
  /\ tools \in [made: 0..MaxTools, running: 0..MaxTools]
  /\ finishing \in {"no", "asked", "sent"}
  /\ seen \in Seen

Init ==
  /\ stage = "starting"
  /\ director = NewState
  /\ qwen = NewQwen
  /\ server = NewServer
  /\ speech = 0
  /\ tools = [made |-> 0, running |-> 0]
  /\ finishing = "no"
  /\ seen = [asks |-> 0, greets |-> 0, spokeFirst |-> FALSE,
             cut |-> FALSE, cutSay |-> FALSE]

-----------------------------------------------------------------------------
\* From an event to what it makes the session do.

Running == stage # "over" /\ ~qwen.closed

\* QwenRealtimeSession.interrupt: mark the response in progress and ask the
\* server to cancel it, or mark the one that is about to be created.
Cancels(q) == q.active # None /\ q.active \notin q.suppressed

\* Slip: a response that is about to be created is forgotten.
InterruptedActive(q) ==
  IF q.active # None THEN [q EXCEPT !.suppressed = @ \cup {q.active}] ELSE q

Interrupted(q) ==
  IF q.active # None THEN [q EXCEPT !.suppressed = @ \cup {q.active}]
  ELSE IF q.say = "waiting" THEN [q EXCEPT !.cancelPending = TRUE]
  ELSE q

\* director.handle(e) and apply_ux: session.interrupt() drops what waits to
\* be said and interrupts Qwen (external); session.say() queues a text.
Says(acts) == acts \ {"cancel_assistant", "request_finish"}

QwenAfter(q, acts) ==
  IF "cancel_assistant" \in acts THEN Interrupted(q) ELSE q

ServerAfter(sv, q, acts) ==
  [sv EXCEPT !.cancel = @ \/ ("cancel_assistant" \in acts /\ Cancels(q))]

\* What the director's answer r does besides; q is Qwen's session when the
\* director answers.
Perform(r, q) ==
  LET cut == "cancel_assistant" \in r.acts
      created == q.active # None /\ qwen.active = None
  IN  /\ director' = r.s
      /\ speech' = (IF cut THEN 0 ELSE speech) + Cardinality(Says(r.acts))
      /\ finishing' = IF "request_finish" \in r.acts /\ finishing = "no"
                      THEN "asked" ELSE finishing
      /\ seen' = [seen EXCEPT
           !.asks = @ + (IF "request_finish" \in r.acts THEN 1 ELSE 0),
           !.greets = @ + (IF "speak_greeting" \in r.acts THEN 1 ELSE 0),
           !.spokeFirst = @ \/ (qwen.speech /\ seen.greets = 0),
           !.cut = q.active # None /\ (@ \/ cut \/ (seen.cutSay /\ created)),
           !.cutSay = (@ /\ ~created)
                        \/ (cut /\ q.active = None /\ q.say = "waiting")]

\* The director hears e while Qwen's session is q; sv is the server then.
Hear(e, q, sv) ==
  LET r == Apply(director, e)
  IN  /\ Perform(r, q)
      /\ qwen' = QwenAfter(q, r.acts)
      /\ server' = ServerAfter(sv, q, r.acts)

NothingHeard == UNCHANGED <<director, speech, finishing, seen>>

-----------------------------------------------------------------------------
\* Speech of the caller, as the server's VAD reports it.

\* session.updated: from here on audio is sent.
SessionUpdated ==
  /\ Running /\ ~qwen.accepts
  /\ qwen' = [qwen EXCEPT !.accepts = TRUE]
  /\ UNCHANGED <<stage, server, tools>> /\ NothingHeard

\* _handle_input_speech_started.  While a response is active the interrupt
\* waits for a confirmation; the director is told at once.
SpeechStarted ==
  /\ Running /\ qwen.accepts /\ ~server.vad
  /\ IF qwen.speech
     THEN /\ server' = [server EXCEPT !.vad = TRUE]
          /\ UNCHANGED qwen /\ NothingHeard
     ELSE LET begun == [qwen EXCEPT !.speech = TRUE, !.smart = TRUE,
                                    !.smartResp = None,
                                    !.confirming = qwen.active # None]
          IN  Hear("user_speech_start",
                   IF qwen.active # None THEN begun ELSE Interrupted(begun),
                   [server EXCEPT !.vad = TRUE])
  /\ UNCHANGED <<stage, tools>>

\* _handle_input_speech_stopped: a turn the server takes back is not
\* reported to the director.
SpeechStopped(valid) ==
  /\ Running /\ server.vad
  /\ LET q == [qwen EXCEPT !.speech = FALSE, !.confirming = FALSE,
                           !.smart = @ /\ valid,
                           !.smartResp = IF valid THEN @ ELSE None]
         sv == [server EXCEPT !.vad = FALSE, !.owed = @ \/ valid]
     IN  IF valid THEN Hear("user_speech_end", q, sv)
         ELSE qwen' = q /\ server' = sv /\ NothingHeard
  /\ UNCHANGED <<stage, tools>>

\* _force_end_speech_turn, by the watchdog of a speech that never stops;
\* heard: some audio was sent, so there is something to commit.
ForceEndSpeechTurn(heard) ==
  /\ Running /\ qwen.speech
  /\ qwen' = [qwen EXCEPT !.speech = FALSE, !.confirming = FALSE,
                          !.smart = @ /\ heard,
                          !.smartResp = IF heard THEN @ ELSE None]
  /\ server' = [server EXCEPT !.owed = @ \/ heard]
  /\ UNCHANGED <<stage, tools>> /\ NothingHeard

\* _arm_barge_in_confirm: 0.55 s later, with enough audio (confirmed) or not.
BargeInConfirm(confirmed) ==
  /\ Running /\ qwen.confirming
  /\ LET q == [qwen EXCEPT !.confirming = FALSE]
     IN  /\ qwen' = IF confirmed /\ qwen.speech THEN Interrupted(q) ELSE q
         /\ server' = [server EXCEPT !.cancel =
              @ \/ (confirmed /\ qwen.speech /\ Cancels(q))]
  /\ UNCHANGED <<stage, tools>> /\ NothingHeard

\* A final transcript that passes the gate; it may come late.
TranscriptCompleted ==
  /\ Running /\ qwen.accepts
  /\ Hear("transcript_final", qwen, server)
  /\ UNCHANGED <<stage, tools>>

-----------------------------------------------------------------------------
\* Responses.

\* The server opens a response, to answer a turn or a response.create, and
\* _handle_response_created runs: whatever it answers, the response goes to
\* the first future that waits.
ResponseCreated(forTurn) ==
  LET id == server.opened + 1
      q0 == [qwen EXCEPT !.active = id]
      r  == Apply(director, "assistant_response_start")
      q1 == QwenAfter(q0, r.acts)
      q2 == IF q1.cancelPending
            THEN [q1 EXCEPT !.cancelPending = FALSE,
                            !.suppressed = @ \cup {id}] ELSE q1
      initiated == qwen.say \in {"waiting", "given_up"}
      q3 == IF initiated THEN [q2 EXCEPT !.say = "speaking", !.sayResp = id]
            ELSE IF q2.smart /\ id \notin q2.suppressed
                 THEN [q2 EXCEPT !.smartResp = id] ELSE q2
  IN  /\ Running /\ qwen.active = None /\ server.opened < MaxResponses
      /\ IF forTurn THEN server.owed ELSE server.creates > 0
      /\ Perform(r, q0)
      /\ qwen' = q3
      /\ server' = [ServerAfter(server, q0, r.acts) EXCEPT
           !.opened = id,
           !.owed = @ /\ ~forTurn,
           !.creates = IF forTurn THEN @ ELSE @ - 1,
           !.cancel = @ \/ q1.cancelPending]
      /\ UNCHANGED <<stage, tools>>

\* _handle_audio_delta: the audio of a suppressed response is dropped.
AudioDelta ==
  /\ Running /\ qwen.active # None
  /\ qwen.active \notin qwen.suppressed
  /\ Hear("assistant_response_start", qwen, server)
  /\ UNCHANGED <<stage, tools>>

\* _handle_response_done.  The greeting is not told from any other text that
\* was said; a cancel that crosses it stays on its way.
ResponseDone ==
  LET id == qwen.active
      said == qwen.say = "speaking" /\ qwen.sayResp = id
      q0 == [qwen EXCEPT !.active = None]
      q1 == IF said THEN [q0 EXCEPT !.say = "none", !.sayResp = None]
            ELSE IF qwen.smartResp = id
                 THEN [q0 EXCEPT !.smart = FALSE, !.smartResp = None] ELSE q0
      r  == Apply(director, IF said THEN "greeting_finished"
                            ELSE "assistant_response_done")
  IN  /\ Running /\ id # None
      /\ Perform(r, q1)
      /\ qwen' = [QwenAfter(q1, r.acts) EXCEPT !.suppressed = @ \ {id}]
      /\ \E crossed \in BOOLEAN :
           server' = [server EXCEPT !.cancel = @ /\ crossed]
      /\ UNCHANGED <<stage, tools>>

\* _handle_server_error, the errors that keep the session: a cancel that
\* found no response, a create that found one.  The first also forgets that
\* the next response is to be cancelled, for whichever cancel it was meant.
CancelRefused ==
  /\ Running /\ server.cancel /\ qwen.active = None
  /\ qwen' = [qwen EXCEPT !.cancelPending = FALSE]
  /\ server' = [server EXCEPT !.cancel = FALSE]
  /\ seen' = [seen EXCEPT !.cutSay = FALSE]
  /\ UNCHANGED <<stage, director, speech, tools, finishing>>

CreateRefused ==
  /\ Running /\ server.creates > 0 /\ qwen.active # None
  /\ server' = [server EXCEPT !.creates = @ - 1]
  /\ UNCHANGED <<stage, qwen, tools>> /\ NothingHeard

-----------------------------------------------------------------------------
\* What AgentSession says (external), and Qwen's say.

\* Slip: a response in progress is no reason to refuse.
SayRefusedTwice == qwen.say # "none" \/ qwen.smart

\* QwenRealtimeSession.say: refused while anything else is going on; the
\* text is then lost.
SayRefused ==
  qwen.active # None \/ qwen.say # "none" \/ qwen.smart

SpeakNext ==
  /\ Running /\ speech > 0
  /\ speech' = speech - 1
  /\ IF SayRefused THEN UNCHANGED <<qwen, server>>
     ELSE /\ server.creates < MaxResponses
          /\ qwen' = [qwen EXCEPT !.say = "waiting"]
          /\ server' = [server EXCEPT !.creates = @ + 1]
  /\ UNCHANGED <<stage, director, tools, finishing, seen>>

\* AgentSession cancels the future of a text that was interrupted.
GiveUpSay ==
  /\ Running /\ qwen.say = "waiting" /\ qwen.cancelPending
  /\ qwen' = [qwen EXCEPT !.say = "given_up"]
  /\ UNCHANGED <<stage, server, tools>> /\ NothingHeard

-----------------------------------------------------------------------------
\* The director's own timers, and the tools.

\* _loop: some deadlines are due and expire_due handles them.
TimersExpire(due) ==
  /\ stage = "live" /\ director.phase # "closed"
  /\ due # {} /\ due \subseteq director.timers
  /\ LET r == ExpireDue(director, due)
     IN  /\ Perform(r, qwen)
         /\ qwen' = QwenAfter(qwen, r.acts)
         /\ server' = ServerAfter(server, qwen, r.acts)
  /\ UNCHANGED <<stage, tools>>

\* ToolOrchestrator.handle_assistant_final with a marker it has not seen.
ToolStarts ==
  /\ stage = "live" /\ finishing \in {"no", "asked"}
  /\ tools.made < MaxTools
  /\ director.phase \notin {"closing", "closed"}
  /\ Hear("tool_request", qwen, server)
  /\ tools' = [made |-> tools.made + 1, running |-> tools.running + 1]
  /\ UNCHANGED stage

\* The invocation returns: retries, timeouts and errors are a failure.
ToolReturns(success) ==
  /\ stage = "live" /\ tools.running > 0
  /\ Hear(IF success THEN "tool_success" ELSE "tool_failure", qwen, server)
  /\ tools' = [tools EXCEPT !.running = @ - 1]
  /\ UNCHANGED stage

-----------------------------------------------------------------------------
\* The job.

\* What is on its way to or from Qwen is lost with the connection.
QwenGone == qwen' = ClosedQwen /\ server' = NewServer /\ speech' = 0

\* _speak_with_optional_lifecycle after session.start: SESSION_READY, the
\* greeting, GREETING_STARTED, and the timer task.
Ready ==
  /\ stage = "starting"
  /\ LET r == Apply(director, "session_ready")
         s == IF "speak_greeting" \in r.acts
              THEN Apply(r.s, "greeting_started").s ELSE r.s
     IN  Perform(R(s, r.acts), qwen)
  /\ stage' = "live"
  /\ UNCHANGED <<qwen, server, tools>>

\* session.start raises: request_finish, and the error ends the job.
StartFails ==
  /\ stage = "starting"
  /\ stage' = "over" /\ finishing' = "sent"
  /\ QwenGone /\ UNCHANGED <<director, tools, seen>>

\* AgentSession closes (external: Qwen's session first), be it because the
\* worker shuts the job down: request_finish without the director.
SessionCloses ==
  /\ stage # "over" /\ finishing = "no"
  /\ finishing' = "asked"
  /\ QwenGone /\ UNCHANGED <<stage, director, tools, seen>>

\* request_finish begins: mark_closed cancels the tools, and the call record
\* is being finished over HTTP.
RequestFinish ==
  /\ stage # "over" /\ finishing = "asked"
  /\ finishing' = "sent"
  /\ tools' = [tools EXCEPT !.running = 0]
  /\ UNCHANGED <<stage, director, qwen, server, speech, seen>>

\* The finish has its answer and sets `closed`: the finally block stops the
\* timers, and Qwen's session goes with the job.
JobEnds ==
  /\ stage = "live" /\ finishing = "sent"
  /\ stage' = "over"
  /\ QwenGone /\ UNCHANGED <<director, tools, finishing, seen>>

\* Qwen's session terminates.  told: the socket closed or the server failed,
\* which the director hears of; a failed writer it does not.
QwenLost(told) ==
  /\ Running
  /\ LET r == Apply(director, "provider_lost")
     IN  IF told THEN Perform(r, ClosedQwen) ELSE NothingHeard
  /\ qwen' = ClosedQwen /\ server' = NewServer
  /\ UNCHANGED <<stage, tools>>

-----------------------------------------------------------------------------

QwenNext ==
  \/ SessionUpdated \/ SpeechStarted \/ TranscriptCompleted
  \/ \E valid \in BOOLEAN : SpeechStopped(valid)
  \/ \E heard \in BOOLEAN : ForceEndSpeechTurn(heard)
  \/ \E confirmed \in BOOLEAN : BargeInConfirm(confirmed)
  \/ \E forTurn \in BOOLEAN : ResponseCreated(forTurn)
  \/ AudioDelta \/ ResponseDone \/ CancelRefused \/ CreateRefused
  \/ SpeakNext \/ GiveUpSay
  \/ \E told \in BOOLEAN : QwenLost(told)

JobNext ==
  \/ Ready \/ StartFails \/ SessionCloses \/ RequestFinish \/ JobEnds
  \/ \E due \in SUBSET Timer : TimersExpire(due)
  \/ ToolStarts
  \/ \E success \in BOOLEAN : ToolReturns(success)

Next == QwenNext \/ JobNext

Spec == Init /\ [][Next]_vars

-----------------------------------------------------------------------------
\* Properties.

\* No event in any order makes assert_invariants raise inside Qwen's reader,
\* and a conversation that closes has asked for its finish exactly once.
PolicyAsserts ==
  /\ AssertInvariants(director)
  /\ seen.asks = director.finishes
  /\ director.finishes = 1 => director.phase = "closed"

\* Once the director has cancelled the assistant, nothing of the response it
\* cancelled is played, not even if it was created only afterwards (unless
\* the refusal of an earlier cancel came in between, see CancelRefused).
LateAudioDropped ==
  qwen.active # None /\ seen.cut => qwen.active \in qwen.suppressed

\* The greeting is said at most once, and never to a caller who spoke first.
GreetsOnce == seen.greets =< 1 /\ (seen.spokeFirst => seen.greets = 0)

\* The client never waits for a second generation while one is active, and
\* the ids it suppresses do not pile up over a long call.
OneGeneration ==
  /\ qwen.say \in {"waiting", "given_up"} => qwen.active = None
  /\ qwen.say = "speaking" => qwen.sayResp = qwen.active /\ qwen.active # None
  /\ qwen.suppressed \subseteq {qwen.active}

\* A conversation that has begun is bound to end, whatever the caller, Qwen
\* and the tools do or fail to do: until it closes its session deadline is
\* armed, and once it closes the job has been asked for its finish.
EndIsComing ==
  stage = "live" =>
    IF director.phase = "closed" THEN finishing # "no"
    ELSE "session" \in director.timers

=============================================================================
