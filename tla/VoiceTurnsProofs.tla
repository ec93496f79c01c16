--------------------------- MODULE VoiceTurnsProofs ---------------------------
(***************************************************************************)
(* Proofs about VoiceTurns and the rules of ConversationPolicy, for any    *)
(* number of prompts, responses and tool calls.                            *)
(*                                                                         *)
(* First the rules on their own: whatever event a living conversation      *)
(* meets, it lives on with its session deadline or ends and asks for its   *)
(* finish.  Then the invariant of the session: what the director knows,    *)
(* what Qwen's client has marked and what has been asked for agree.        *)
(***************************************************************************)
EXTENDS VoiceTurns, FiniteSetTheorems, TLAPS

-----------------------------------------------------------------------------
\* The rules.

Alive(s) == s \in State /\ s.phase \notin {"closing", "closed"} /\ s.finishes = 0

Ended(s) == s \in State /\ s.phase = "closed" /\ s.finishes = 1 /\ ~s.tool

\* t goes on from s: the session deadline stays, and so does what is known of
\* the greeting.
Calm(s, t) ==
  /\ Alive(t)
  /\ "session" \in s.timers => "session" \in t.timers
  /\ t.greetingStarted = s.greetingStarted
  /\ s.early => t.early \/ s.greetingStarted

Outcome(s, r) ==
  /\ r.acts \subseteq ActionKind \ {"speak_greeting"}
  /\ \/ Calm(s, r.s) /\ "request_finish" \notin r.acts
     \/ Ended(r.s) /\ "request_finish" \in r.acts

LEMMA CalmChain ==
  ASSUME NEW s, NEW t, NEW u, Calm(s, t), Calm(t, u)
  PROVE  Calm(s, u)
BY DEF Calm

LEMMA EnterCalm ==
  ASSUME NEW s, Alive(s), NEW p \in Phase \ {"closing", "closed"}
  PROVE  Calm(s, Enter(s, p)) /\ Enter(s, p).early = s.early
BY DEF Alive, Enter, Calm, State

LEMMA ArmCalm ==
  ASSUME NEW s, Alive(s), NEW ts \in SUBSET Timer
  PROVE  Calm(s, Arm(s, ts)) /\ Arm(s, ts).early = s.early
BY DEF Alive, Arm, Calm, State

LEMMA DisarmCalm ==
  ASSUME NEW s, Alive(s), NEW ts \in SUBSET Timer, "session" \notin ts
  PROVE  Calm(s, Disarm(s, ts)) /\ Disarm(s, ts).early = s.early
BY DEF Alive, Disarm, Calm, State

\* The end of many handlers: another phase, with deadlines.
LEMMA ArmEnterCalm ==
  ASSUME NEW s, Alive(s), NEW p \in Phase \ {"closing", "closed"}, NEW ts \in SUBSET Timer
  PROVE  Calm(s, Arm(Enter(s, p), ts)) /\ Arm(Enter(s, p), ts).early = s.early
<1>1. Calm(s, Enter(s, p)) /\ Enter(s, p).early = s.early
  BY EnterCalm
<1>2. Calm(Enter(s, p), Arm(Enter(s, p), ts)) /\ Arm(Enter(s, p), ts).early = Enter(s, p).early
  BY <1>1, ArmCalm DEF Calm
<1>. QED  BY <1>1, <1>2, CalmChain

LEMMA FinishEnds ==
  ASSUME NEW s, Alive(s), NEW st \in {"completed", "failed"}
  PROVE  Ended(Finish(s, st).s) /\ Finish(s, st).acts = {"request_finish"}
<1>. DEFINE t == [s EXCEPT !.phase = "closed", !.finishes = 1, !.status = st,
                           !.tool = FALSE, !.active = 0, !.userSpeaking = FALSE,
                           !.timers = {}]
<1>1. t \in State /\ t.phase = "closed" /\ t.finishes = 1 /\ t.tool = FALSE
  <2>. DEFINE u == [s EXCEPT !.phase = "closed", !.finishes = 1, !.status = st]
              v == [u EXCEPT !.tool = FALSE, !.active = 0]
              w == [v EXCEPT !.userSpeaking = FALSE, !.timers = {}]
  <2>1. u \in State /\ u.phase = "closed" /\ u.finishes = 1
    BY DEF Alive, State, Phase
  <2>. HIDE DEF u
  <2>2. v \in State /\ v.phase = "closed" /\ v.finishes = 1 /\ v.tool = FALSE
    BY <2>1 DEF State
  <2>. HIDE DEF v
  <2>3. w \in State /\ w.phase = "closed" /\ w.finishes = 1 /\ w.tool = FALSE
    BY <2>2 DEF State
  <2>4. t = w
    BY DEF u, v, w
  <2>. QED  BY <2>3, <2>4
<1>2. ~(s.finishes >= 1)
  BY DEF Alive
<1>3. Finish(s, st) = R(t, {"request_finish"})
  BY <1>2 DEF Finish
<1>. HIDE DEF t
<1>. QED  BY <1>1, <1>3 DEF R, Ended

\* A calm step that asks for nothing, or for acts of the session.
LEMMA CalmOutcome ==
  ASSUME NEW s, NEW t, NEW acts, Calm(s, t),
         acts \subseteq ActionKind \ {"speak_greeting", "request_finish"}
  PROVE  Outcome(s, R(t, acts))
BY DEF Outcome, R, ActionKind

\* The flags a handler sets before it changes the phase.
LEMMA FlagsCalm ==
  ASSUME NEW s, Alive(s)
  PROVE  /\ Calm(s, [s EXCEPT !.active = 0]) /\ [s EXCEPT !.active = 0].early = s.early
         /\ Calm(s, [s EXCEPT !.userSpeaking = FALSE])
         /\ Calm(s, [s EXCEPT !.active = 1, !.bridge = FALSE])
         /\ Calm(s, [s EXCEPT !.active = 0, !.suppressed = FALSE])
         /\ Calm(s, [s EXCEPT !.tool = TRUE, !.bridge = FALSE])
         /\ Calm(s, [s EXCEPT !.tool = FALSE, !.bridge = FALSE])
         /\ Calm(s, [s EXCEPT !.active = 1])
         /\ Calm(s, [s EXCEPT !.bridge = TRUE])
         /\ Calm(s, [s EXCEPT !.prompts = @ + 1, !.active = 1])
<1>0. s.prompts + 1 \in Nat
  <2>1. s.prompts \in Nat
    BY DEF Alive, State
  <2>. QED  BY <2>1
<1>. USE DEF Alive, State, Calm
<1>1. Calm(s, [s EXCEPT !.active = 0]) /\ [s EXCEPT !.active = 0].early = s.early
  OBVIOUS
<1>2. Calm(s, [s EXCEPT !.userSpeaking = FALSE])
  OBVIOUS
<1>3. Calm(s, [s EXCEPT !.active = 1, !.bridge = FALSE])
  OBVIOUS
<1>4. Calm(s, [s EXCEPT !.active = 0, !.suppressed = FALSE])
  OBVIOUS
<1>5. Calm(s, [s EXCEPT !.tool = TRUE, !.bridge = FALSE])
  OBVIOUS
<1>6. Calm(s, [s EXCEPT !.tool = FALSE, !.bridge = FALSE])
  OBVIOUS
<1>7. Calm(s, [s EXCEPT !.active = 1])
  OBVIOUS
<1>8. Calm(s, [s EXCEPT !.bridge = TRUE])
  OBVIOUS
<1>9. Calm(s, [s EXCEPT !.prompts = @ + 1, !.active = 1])
  <2>1. \A n \in Nat : Calm(s, [s EXCEPT !.prompts = n, !.active = 1])
    OBVIOUS
  <2>. QED  BY <1>0, <2>1
<1>. QED  BY <1>1, <1>2, <1>3, <1>4, <1>5, <1>6, <1>7, <1>8, <1>9

\* Flags, deadlines off, another phase, deadlines on.
LEMMA FourSteps ==
  ASSUME NEW s, NEW t, Calm(s, t), NEW off \in SUBSET (Timer \ {"session"}),
         NEW p \in Phase \ {"closing", "closed"}, NEW on \in SUBSET Timer
  PROVE  /\ Calm(s, Arm(Enter(Disarm(t, off), p), on))
         /\ Calm(s, Arm(Enter(t, p), on))
         /\ Calm(s, Disarm(t, off))
<1>1. Calm(t, Disarm(t, off))
  BY DisarmCalm DEF Calm
<1>2. Calm(s, Disarm(t, off)) /\ Alive(Disarm(t, off))
  BY <1>1, CalmChain DEF Calm
<1>3. Calm(Disarm(t, off), Arm(Enter(Disarm(t, off), p), on))
  BY <1>2, ArmEnterCalm
<1>4. Calm(t, Arm(Enter(t, p), on))
  BY ArmEnterCalm DEF Calm
<1>. QED  BY <1>2, <1>3, <1>4, CalmChain

LEMMA SpeechOutcome ==
  ASSUME NEW s, Alive(s)
  PROVE  /\ Outcome(s, UserSpeechStart(s))
         /\ UserSpeechStart(s).s.early \/ s.greetingStarted
         /\ Outcome(s, UserSpeechEnd(s)) /\ Outcome(s, TranscriptFinal(s))
<1>. DEFINE talking == s.phase = "assistant_speaking" \/ s.active # 0
            heard == [Disarm(s, {"silence"}) EXCEPT !.userSpeaking = TRUE,
                        !.early = ~s.greetingStarted, !.suppressed = talking]
            quiet == IF talking THEN Disarm([heard EXCEPT !.active = 0], {"limit"})
                                ELSE heard
            armed == Arm(quiet, {"idle"})
            acts == IF talking THEN {"cancel_assistant"} ELSE {}
<1>1. s.greetingStarted \in BOOLEAN /\ talking \in BOOLEAN
  BY DEF Alive, State
<1>2. Calm(s, heard) /\ heard.early = ~s.greetingStarted
  <2>1. Calm(s, Disarm(s, {"silence"}))
    BY DisarmCalm DEF Timer
  <2>. HIDE DEF talking
  <2>2. Calm(Disarm(s, {"silence"}), heard)
    BY <1>1, <2>1 DEF Calm, Alive, State
  <2>3. heard.early = ~s.greetingStarted
    BY <2>1 DEF Calm, Alive, State
  <2>. QED  BY <2>1, <2>2, <2>3, CalmChain
<1>3. Calm(s, quiet) /\ quiet.early = ~s.greetingStarted
  <2>1. CASE talking
    <3>. HIDE DEF heard
    <3>1. Calm(heard, [heard EXCEPT !.active = 0]) /\ [heard EXCEPT !.active = 0].early = heard.early
      BY <1>2, FlagsCalm DEF Calm
    <3>. DEFINE u == [heard EXCEPT !.active = 0]
    <3>. HIDE DEF u
    <3>2. Calm(u, Disarm(u, {"limit"})) /\ Disarm(u, {"limit"}).early = u.early
      BY <3>1, DisarmCalm DEF Calm, Timer, u
    <3>. QED  BY <1>2, <2>1, <3>1, <3>2, CalmChain DEF u
  <2>2. CASE ~talking
    BY <1>2, <2>2
  <2>. QED  BY <2>1, <2>2
<1>. HIDE DEF quiet
<1>4. Calm(s, armed) /\ armed.early = ~s.greetingStarted
  <2>1. Calm(quiet, armed) /\ armed.early = quiet.early
    BY <1>3, ArmCalm DEF Calm, Timer
  <2>. QED  BY <1>3, <2>1, CalmChain
<1>. HIDE DEF armed
<1>5. Calm(s, Enter(armed, "user_speaking")) /\ Enter(armed, "user_speaking").early = armed.early
  <2>1. /\ Calm(armed, Enter(armed, "user_speaking"))
        /\ Enter(armed, "user_speaking").early = armed.early
    BY <1>4, EnterCalm DEF Calm, Phase
  <2>. QED  BY <1>4, <2>1, CalmChain
<1>6. UserSpeechStart(s) = R(Enter(armed, "user_speaking"), acts)
  BY DEF UserSpeechStart, Alive, armed, quiet
<1>7. acts \subseteq ActionKind \ {"speak_greeting", "request_finish"}
  BY DEF ActionKind
<1>8. Outcome(s, UserSpeechStart(s)) /\ (UserSpeechStart(s).s.early \/ s.greetingStarted)
  <2>. HIDE DEF acts
  <2>1. Outcome(s, UserSpeechStart(s))
    BY <1>5, <1>6, <1>7, CalmOutcome
  <2>2. UserSpeechStart(s).s = Enter(armed, "user_speaking")
    BY <1>6 DEF R
  <2>. QED  BY <1>1, <1>4, <1>5, <2>1, <2>2
<1>9. Outcome(s, UserSpeechEnd(s)) /\ Outcome(s, TranscriptFinal(s))
  <2>. DEFINE done == [s EXCEPT !.userSpeaking = FALSE]
  <2>1. Calm(s, done)
    BY FlagsCalm
  <2>2. UserSpeechEnd(s) = R(Arm(Enter(done, "thinking"), {"idle"}), {})
        /\ TranscriptFinal(s) = R(Arm(Enter(done, "thinking"), {"idle"}), {})
    BY DEF UserSpeechEnd, TranscriptFinal, Alive
  <2>. HIDE DEF done
  <2>3. Calm(s, Arm(Enter(done, "thinking"), {"idle"}))
    BY <2>1, FourSteps DEF Phase, Timer
  <2>. QED  BY <2>2, <2>3, CalmOutcome
<1>. QED  BY <1>8, <1>9

LEMMA ResponseOutcome ==
  ASSUME NEW s, Alive(s)
  PROVE  /\ Outcome(s, AssistantResponseStart(s)) /\ Outcome(s, AssistantResponseDone(s))
         /\ Outcome(s, GreetingFinished(s))
<1>. USE DEF Phase, Timer
<1>1. Outcome(s, AssistantResponseStart(s))
  <2>1. CASE s.suppressed
    <3>1. AssistantResponseStart(s) = R(s, {})
      BY <2>1 DEF AssistantResponseStart, Alive
    <3>2. Calm(s, s)
      BY DEF Calm
    <3>. QED  BY <3>1, <3>2, CalmOutcome
  <2>2. CASE ~s.suppressed
    <3>. DEFINE u == [s EXCEPT !.active = 1, !.bridge = FALSE]
    <3>1. AssistantResponseStart(s) =
            R(Arm(Enter(Disarm(u, {"silence", "bridge"}), "assistant_speaking"),
                  {"limit", "idle"}), {})
      BY <2>2 DEF AssistantResponseStart, Alive
    <3>2. Calm(s, u)
      BY FlagsCalm
    <3>. HIDE DEF u
    <3>3. Calm(s, Arm(Enter(Disarm(u, {"silence", "bridge"}), "assistant_speaking"),
                      {"limit", "idle"}))
      BY <3>2, FourSteps
    <3>. QED  BY <3>1, <3>3, CalmOutcome
  <2>. QED  BY <2>1, <2>2
<1>2. Outcome(s, AssistantResponseDone(s))
  <2>. DEFINE u == [s EXCEPT !.active = 0, !.suppressed = FALSE]
  <2>1. \/ AssistantResponseDone(s) = R(Disarm(u, {"limit"}), {})
        \/ AssistantResponseDone(s) =
             R(Arm(Enter(Disarm(u, {"limit"}), "waiting_for_user"), {"silence", "idle"}), {})
    BY DEF AssistantResponseDone
  <2>2. Calm(s, u)
    BY FlagsCalm
  <2>. HIDE DEF u
  <2>3. /\ Calm(s, Disarm(u, {"limit"}))
        /\ Calm(s, Arm(Enter(Disarm(u, {"limit"}), "waiting_for_user"), {"silence", "idle"}))
    BY <2>2, FourSteps
  <2>. QED  BY <2>1, <2>3, CalmOutcome
<1>3. Outcome(s, GreetingFinished(s))
  <2>. DEFINE u == [s EXCEPT !.active = 0]
  <2>1. GreetingFinished(s) =
          R(Arm(Enter(Disarm(u, {"limit"}), "waiting_for_user"), {"silence", "idle"}), {})
    BY DEF GreetingFinished
  <2>2. Calm(s, u)
    BY FlagsCalm
  <2>. HIDE DEF u
  <2>3. Calm(s, Arm(Enter(Disarm(u, {"limit"}), "waiting_for_user"), {"silence", "idle"}))
    BY <2>2, FourSteps
  <2>. QED  BY <2>1, <2>3, CalmOutcome
<1>. QED  BY <1>1, <1>2, <1>3

LEMMA ToolOutcome ==
  ASSUME NEW s, Alive(s)
  PROVE  /\ Outcome(s, ToolRequest(s))
         /\ \A success \in BOOLEAN : Outcome(s, ToolResult(s, success))
<1>. USE DEF Phase, Timer
<1>1. Outcome(s, ToolRequest(s))
  <2>. DEFINE u == [s EXCEPT !.tool = TRUE, !.bridge = FALSE]
  <2>1. ToolRequest(s) =
          R(Arm(Enter(Disarm(u, {"silence"}), "tool_running"), {"bridge", "idle"}), {})
    BY DEF ToolRequest, Alive
  <2>2. Calm(s, u)
    BY FlagsCalm
  <2>. HIDE DEF u
  <2>3. Calm(s, Arm(Enter(Disarm(u, {"silence"}), "tool_running"), {"bridge", "idle"}))
    BY <2>2, FourSteps
  <2>. QED  BY <2>1, <2>3, CalmOutcome
<1>2. ASSUME NEW success \in BOOLEAN
      PROVE  Outcome(s, ToolResult(s, success))
  <2>. DEFINE u == [s EXCEPT !.tool = FALSE, !.bridge = FALSE]
              after == Disarm(u, {"bridge"})
  <2>1. Calm(s, after)
    <3>1. Calm(s, u)
      BY FlagsCalm
    <3>. HIDE DEF u
    <3>. QED  BY <3>1, FourSteps
  <2>2. CASE success
    <3>1. ToolResult(s, success) = R(Arm(Enter(after, "waiting_for_user"), {"silence", "idle"}), {})
      BY <2>2 DEF ToolResult
    <3>. HIDE DEF after
    <3>2. Calm(s, Arm(Enter(after, "waiting_for_user"), {"silence", "idle"}))
      BY <2>1, FourSteps
    <3>. QED  BY <3>1, <3>2, CalmOutcome
  <2>3. CASE ~success
    <3>. DEFINE v == [after EXCEPT !.active = 1]
    <3>1. ToolResult(s, success) =
            R(Arm(Enter(v, "assistant_speaking"), {"idle"}), {"speak_tool_failure"})
      BY <2>3 DEF ToolResult
    <3>. HIDE DEF after
    <3>2. Calm(s, v)
      BY <2>1, FlagsCalm, CalmChain DEF Calm
    <3>. HIDE DEF v
    <3>3. Calm(s, Arm(Enter(v, "assistant_speaking"), {"idle"}))
      BY <3>2, FourSteps
    <3>4. {"speak_tool_failure"} \subseteq ActionKind \ {"speak_greeting", "request_finish"}
      BY DEF ActionKind
    <3>. QED  BY <3>1, <3>3, <3>4, CalmOutcome
  <2>. QED  BY <2>2, <2>3
<1>. QED  BY <1>1, <1>2

\* A conversation that finishes, with a word before.
LEMMA FinishOutcome ==
  ASSUME NEW s, Alive(s), NEW st \in {"completed", "failed"}
  PROVE  /\ Outcome(s, Finish(s, st))
         /\ \A acts \in SUBSET (ActionKind \ {"speak_greeting"}) :
              Outcome(s, R(Finish(s, st).s, acts \cup Finish(s, st).acts))
BY FinishEnds DEF Outcome, R, ActionKind

LEMMA TimerOutcome ==
  ASSUME NEW s, Alive(s)
  PROVE  /\ Outcome(s, SilenceTimer(s)) /\ Outcome(s, IdleTimer(s))
         /\ Outcome(s, SessionTimer(s)) /\ Outcome(s, AssistantLimitTimer(s))
         /\ Outcome(s, ToolBridgeTimer(s))
<1>. USE DEF Timer
<1>1. Calm(s, s) /\ Outcome(s, R(s, {}))
  <2>1. Calm(s, s)
    BY DEF Calm
  <2>. QED  BY <2>1, CalmOutcome
<1>2. \A ts \in SUBSET (Timer \ {"session"}) : Calm(s, Disarm(s, ts)) /\ Outcome(s, R(Disarm(s, ts), {}))
  BY <1>1, FourSteps, CalmOutcome DEF Phase
<1>3. Outcome(s, SilenceTimer(s))
  <2>1. CASE s.userSpeaking \/ s.phase # "waiting_for_user"
    BY <1>2, <2>1 DEF SilenceTimer
  <2>2. CASE ~(s.userSpeaking \/ s.phase # "waiting_for_user") /\ s.prompts >= MaxPrompts
    <3>1. SilenceTimer(s) = R(Finish(s, "completed").s,
                              {"speak_polite_close"} \cup Finish(s, "completed").acts)
      BY <2>2 DEF SilenceTimer
    <3>2. {"speak_polite_close"} \in SUBSET (ActionKind \ {"speak_greeting"})
      BY DEF ActionKind
    <3>. QED  BY <3>1, <3>2, FinishOutcome
  <2>3. CASE ~(s.userSpeaking \/ s.phase # "waiting_for_user") /\ ~(s.prompts >= MaxPrompts)
    <3>. DEFINE u == [s EXCEPT !.prompts = @ + 1, !.active = 1]
    <3>1. SilenceTimer(s) = R(Arm(u, {"silence", "idle"}), {"speak_silence_prompt"})
      BY <2>3 DEF SilenceTimer
    <3>2. Calm(s, u)
      BY FlagsCalm
    <3>. HIDE DEF u
    <3>3. Calm(s, Arm(u, {"silence", "idle"}))
      BY <3>2, ArmCalm, CalmChain DEF Calm
    <3>4. {"speak_silence_prompt"} \subseteq ActionKind \ {"speak_greeting", "request_finish"}
      BY DEF ActionKind
    <3>. QED  BY <3>1, <3>3, <3>4, CalmOutcome
  <2>. QED  BY <2>1, <2>2, <2>3
<1>4. Outcome(s, IdleTimer(s))
  BY <1>1, FinishOutcome DEF IdleTimer
<1>5. Outcome(s, SessionTimer(s))
  <2>1. {"speak_session_limit"} \in SUBSET (ActionKind \ {"speak_greeting"})
    BY DEF ActionKind
  <2>. QED  BY <2>1, FinishOutcome DEF SessionTimer
<1>6. Outcome(s, AssistantLimitTimer(s))
  <2>. DEFINE off == Disarm(s, {"limit"})
              u == [off EXCEPT !.phase = "waiting_for_user", !.active = 0, !.suppressed = TRUE]
  <2>1. Calm(s, off) /\ Outcome(s, R(off, {}))
    BY <1>2
  <2>2. \/ AssistantLimitTimer(s) = R(off, {})
        \/ AssistantLimitTimer(s) = R(Arm(u, {"silence", "idle"}), {"cancel_assistant"})
    BY DEF AssistantLimitTimer
  <2>. HIDE DEF off
  <2>3. Calm(off, u)
    BY <2>1 DEF Calm, Alive, State, Phase
  <2>. HIDE DEF u
  <2>4. Calm(u, Arm(u, {"silence", "idle"}))
    BY <2>3, ArmCalm DEF Calm
  <2>5. {"cancel_assistant"} \subseteq ActionKind \ {"speak_greeting", "request_finish"}
    BY DEF ActionKind
  <2>. QED  BY <2>1, <2>2, <2>3, <2>4, <2>5, CalmChain, CalmOutcome
<1>7. Outcome(s, ToolBridgeTimer(s))
  <2>. DEFINE off == Disarm(s, {"bridge"})
              u == [off EXCEPT !.bridge = TRUE]
  <2>1. Calm(s, off) /\ Outcome(s, R(off, {}))
    BY <1>2
  <2>2. \/ ToolBridgeTimer(s) = R(off, {}) \/ ToolBridgeTimer(s) = R(s, {})
        \/ ToolBridgeTimer(s) = R(u, {"speak_tool_bridge"})
    BY DEF ToolBridgeTimer
  <2>. HIDE DEF off
  <2>3. Calm(off, u)
    BY <2>1, FlagsCalm DEF Calm
  <2>. HIDE DEF u
  <2>4. {"speak_tool_bridge"} \subseteq ActionKind \ {"speak_greeting", "request_finish"}
    BY DEF ActionKind
  <2>. QED  BY <1>1, <2>1, <2>2, <2>3, <2>4, CalmChain, CalmOutcome
<1>. QED  BY <1>3, <1>4, <1>5, <1>6, <1>7

\* The events of a conversation that has begun.
Later == Event \ {"session_ready", "greeting_started"}

LEMMA ApplyOutcome ==
  ASSUME NEW s, Alive(s), NEW e \in Later
  PROVE  /\ Outcome(s, Apply(s, e))
         /\ e = "user_speech_start" => Apply(s, e).s.early \/ s.greetingStarted
<1>. USE DEF Apply, Alive
<1>1. CASE e \in {"user_speech_start", "user_speech_end", "transcript_final"}
  BY <1>1, SpeechOutcome
<1>2. CASE e \in {"assistant_response_start", "assistant_response_done", "greeting_finished"}
  BY <1>2, ResponseOutcome
<1>3. CASE e \in {"tool_request", "tool_success", "tool_failure"}
  BY <1>3, ToolOutcome
<1>4. CASE e \in {"provider_lost", "hangup"}
  BY <1>4, FinishOutcome
<1>5. CASE e \in Timer
  BY <1>5, TimerOutcome DEF Timer
<1>. QED  BY <1>1, <1>2, <1>3, <1>4, <1>5 DEF Later, Event

LEMMA ApplyEnded == ASSUME NEW s, Ended(s), NEW e PROVE Apply(s, e) = R(s, {})
BY DEF Ended, Apply

\* expire_due: one deadline after the other.
LEMMA ExpireOutcome ==
  ASSUME NEW s, NEW r, Outcome(s, r), NEW t \in Timer, NEW due
  PROVE  Outcome(s, Expire(r, t, due))
<1>1. CASE t \notin due
  BY <1>1 DEF Expire
<1>2. CASE t \in due
  <2>. DEFINE a == Apply(r.s, t)
  <2>1. Expire(r, t, due) = R(a.s, r.acts \cup a.acts)
    BY <1>2 DEF Expire
  <2>2. CASE Ended(r.s)
    <3>1. a = R(r.s, {})
      BY <2>2, ApplyEnded
    <3>2. "request_finish" \in r.acts
      BY <2>2 DEF Outcome, Calm, Alive, Ended
    <3>. QED  BY <2>1, <2>2, <3>1, <3>2 DEF Outcome, R
  <2>3. CASE Calm(s, r.s) /\ "request_finish" \notin r.acts
    <3>1. Outcome(r.s, a)
      BY <2>3, ApplyOutcome DEF Calm, Later, Event, Timer
    <3>. HIDE DEF a
    <3>2. CASE Calm(r.s, a.s) /\ "request_finish" \notin a.acts
      BY <2>1, <2>3, <3>1, <3>2, CalmChain DEF Outcome, R
    <3>3. CASE Ended(a.s) /\ "request_finish" \in a.acts
      BY <2>1, <3>1, <3>3 DEF Outcome, R
    <3>. QED  BY <3>1, <3>2, <3>3 DEF Outcome
  <2>. QED  BY <2>2, <2>3 DEF Outcome
<1>. QED  BY <1>1, <1>2

LEMMA ExpireDueOutcome ==
  ASSUME NEW s, Alive(s), NEW due
  PROVE  Outcome(s, ExpireDue(s, due))
<1>1. Outcome(s, R(s, {}))
  <2>1. Calm(s, s)
    BY DEF Calm
  <2>. QED  BY <2>1, CalmOutcome
<1>. DEFINE a == Expire(R(s, {}), "session", due)
            b == Expire(a, "limit", due)
            c == Expire(b, "bridge", due)
            d == Expire(c, "idle", due)
<1>2. Outcome(s, a)
  BY <1>1, ExpireOutcome DEF Timer
<1>. HIDE DEF a
<1>3. Outcome(s, b)
  BY <1>2, ExpireOutcome DEF Timer
<1>. HIDE DEF b
<1>4. Outcome(s, c)
  BY <1>3, ExpireOutcome DEF Timer
<1>. HIDE DEF c
<1>5. Outcome(s, d)
  BY <1>4, ExpireOutcome DEF Timer
<1>. HIDE DEF d
<1>6. Outcome(s, Expire(d, "silence", due))
  BY <1>5, ExpireOutcome DEF Timer
<1>7. ExpireDue(s, due) = Expire(d, "silence", due)
  BY DEF ExpireDue, a, b, c, d
<1>. QED  BY <1>6, <1>7

\* SESSION_READY, and GREETING_STARTED if there is a greeting.
LEMMA ReadyOutcome ==
  ASSUME NEW s, Alive(s)
  PROVE  LET r == Apply(s, "session_ready")
             t == IF "speak_greeting" \in r.acts THEN Apply(r.s, "greeting_started").s ELSE r.s
         IN  /\ Alive(t) /\ "session" \in t.timers /\ r.acts \subseteq {"speak_greeting"}
             /\ "speak_greeting" \in r.acts => ~s.early
<1>. DEFINE r == Apply(s, "session_ready")
            started == Arm(s, {"session", "idle"})
            spoke == [started EXCEPT !.greetingStarted = TRUE, !.userSpeaking = TRUE]
            g == [started EXCEPT !.phase = "assistant_speaking", !.greetingStarted = TRUE,
                                 !.greetings = 1, !.active = 1]
            greeted == Arm(g, {"limit"})
            hello == IF \/ s.phase = "assistant_speaking"
                        \/ CanTransition(s.phase, "assistant_speaking")
                     THEN greeted ELSE started
<1>1. Alive(started) /\ "session" \in started.timers /\ started.early = s.early
  <2>1. Calm(s, started) /\ started.early = s.early
    BY ArmCalm DEF Timer
  <2>2. "session" \in started.timers
    BY DEF Arm, Alive, State
  <2>. QED  BY <2>1, <2>2 DEF Calm
<1>2. \/ r = R(started, {})
      \/ r = R(Enter(spoke, "user_speaking"), {})
      \/ r = R(hello, {"speak_greeting"}) /\ ~started.early
  <2>1. r = SessionReady(s)
    BY DEF Apply, Alive
  <2>. HIDE DEF r
  <2>. QED  BY <2>1 DEF SessionReady
<1>. HIDE DEF r, started
<1>3. Alive(spoke) /\ "session" \in spoke.timers
  BY <1>1 DEF Alive, State
<1>. HIDE DEF spoke
<1>4. Alive(Enter(spoke, "user_speaking")) /\ "session" \in Enter(spoke, "user_speaking").timers
  BY <1>3, EnterCalm DEF Calm, Phase
<1>5. Alive(greeted) /\ "session" \in greeted.timers
  <2>1. Alive(g) /\ "session" \in g.timers
    BY <1>1 DEF Alive, State, Phase
  <2>. HIDE DEF g
  <2>. QED  BY <2>1, ArmCalm DEF Calm, Timer
<1>. HIDE DEF greeted
<1>6. Alive(hello) /\ "session" \in hello.timers
  BY <1>1, <1>5
<1>. HIDE DEF hello
<1>7. /\ Alive(r.s) /\ "session" \in r.s.timers /\ r.acts \subseteq {"speak_greeting"}
      /\ "speak_greeting" \in r.acts => ~s.early
  BY <1>1, <1>2, <1>4, <1>6 DEF R
<1>8. LET u == Apply(r.s, "greeting_started").s
      IN  Alive(u) /\ "session" \in u.timers
  <2>. DEFINE u == [r.s EXCEPT !.greetingStarted = TRUE, !.greetings = 1]
  <2>1. Apply(r.s, "greeting_started").s = u
    BY <1>7 DEF Apply, GreetingStarted, Alive, R
  <2>2. Alive(u) /\ "session" \in u.timers
    BY <1>7 DEF Alive, State
  <2>. HIDE DEF u
  <2>. QED  BY <2>1, <2>2
<1>. QED  BY <1>7, <1>8 DEF r

-----------------------------------------------------------------------------
\* The inductive invariant.

\* The director asks for its finish when it ends, and the job then knows.
Dir ==
  /\ Alive(director) \/ Ended(director)
  /\ seen.asks = director.finishes
  /\ Ended(director) => finishing # "no"

\* Until the session is ready nothing is said, and a caller who speaks is
\* remembered.
Greets ==
  stage = "starting" =>
    /\ seen.greets = 0
    /\ Alive(director) =>
         /\ ~director.greetingStarted
         /\ qwen.speech \/ seen.spokeFirst => director.early

\* What was cut is suppressed, or will be once it is created.
Cut ==
  ~qwen.closed =>
    /\ qwen.active = None => ~seen.cut
    /\ seen.cutSay => qwen.cancelPending
    /\ qwen.active # None /\ seen.cut => qwen.active \in qwen.suppressed

Gen == OneGeneration /\ (qwen.closed => qwen.active = None)

IInv == /\ TypeOK /\ tools.running =< tools.made
        /\ Dir /\ EndIsComing /\ GreetsOnce /\ Greets /\ Gen /\ Cut

LEMMA InitIInv == Init => IInv
<1>. SUFFICES ASSUME Init PROVE IInv
  OBVIOUS
<1>. USE BoundsAssumption DEF Init
<1>1. Alive(director) /\ ~director.greetingStarted /\ director.finishes = 0
  BY DEF NewState, Alive, State, Phase
<1>2. qwen \in Qwen /\ server \in Server
  BY DEF NewQwen, Qwen, NewServer, Server
<1>3. seen \in Seen /\ tools \in [made: 0..MaxTools, running: 0..MaxTools]
  BY DEF Seen
<1>4. TypeOK
  BY <1>1, <1>2, <1>3 DEF TypeOK, Alive
<1>5. Dir /\ EndIsComing
  BY <1>1 DEF Dir, EndIsComing, Alive, Ended
<1>6. GreetsOnce /\ Greets
  BY <1>1 DEF GreetsOnce, Greets, NewQwen
<1>7. Gen /\ Cut
  BY DEF Gen, OneGeneration, Cut, NewQwen
<1>. QED  BY <1>4, <1>5, <1>6, <1>7 DEF IInv

-----------------------------------------------------------------------------
\* What the director answers, and what is done about it.

Reply(r) ==
  /\ r.acts \subseteq ActionKind \ {"speak_greeting"}
  /\ \/ Alive(director) /\ Calm(director, r.s) /\ "request_finish" \notin r.acts
     \/ Alive(director) /\ Ended(r.s) /\ "request_finish" \in r.acts
     \/ Ended(director) /\ r.s = director /\ r.acts = {}

LEMMA ApplyReply ==
  ASSUME Dir, NEW e \in Later
  PROVE  /\ Reply(Apply(director, e))
         /\ /\ e = "user_speech_start"
            /\ Alive(director)
            => Apply(director, e).s.early \/ director.greetingStarted
<1>1. CASE Alive(director)
  BY <1>1, ApplyOutcome DEF Reply, Outcome
<1>2. CASE Ended(director)
  <2>1. Apply(director, e) = R(director, {})
    BY <1>2, ApplyEnded
  <2>2. ~Alive(director)
    BY <1>2 DEF Alive, Ended
  <2>. QED  BY <1>2, <2>1, <2>2 DEF Reply, R
<1>. QED  BY <1>1, <1>2 DEF Dir

LEMMA TimersReply ==
  ASSUME Dir, director.phase # "closed", NEW due
  PROVE  Reply(ExpireDue(director, due))
<1>1. Alive(director)
  BY DEF Dir, Ended
<1>. QED  BY <1>1, ExpireDueOutcome DEF Reply, Outcome

LEMMA SaysCounted ==
  ASSUME NEW acts \in SUBSET ActionKind
  PROVE  Cardinality(Says(acts)) \in Nat
<1>1. IsFiniteSet({"speak_greeting", "speak_silence_prompt"})
      /\ IsFiniteSet({"speak_polite_close", "speak_session_limit"})
      /\ IsFiniteSet({"speak_tool_bridge", "speak_tool_failure"})
  <2>1. ASSUME NEW x, NEW y PROVE IsFiniteSet({x, y})
    <3>1. {x, y} = {x} \cup {y}
      OBVIOUS
    <3>2. IsFiniteSet({x}) /\ IsFiniteSet({y})
      BY FS_Singleton
    <3>3. IsFiniteSet({x} \cup {y})
      BY <3>2, FS_Union
    <3>. QED  BY <3>1, <3>3
  <2>. QED  BY <2>1
<1>2. IsFiniteSet({"speak_greeting", "speak_silence_prompt"}
                  \cup {"speak_polite_close", "speak_session_limit"}
                  \cup {"speak_tool_bridge", "speak_tool_failure"})
  BY <1>1, FS_Union
<1>3. Says(acts) \subseteq {"speak_greeting", "speak_silence_prompt"}
                  \cup {"speak_polite_close", "speak_session_limit"}
                  \cup {"speak_tool_bridge", "speak_tool_failure"}
  BY DEF Says, ActionKind
<1>4. IsFiniteSet(Says(acts))
  BY <1>2, <1>3, FS_Subset
<1>. QED  BY <1>4, FS_CardinalityType

\* The director cancels the assistant.
CutBy(r) == "cancel_assistant" \in r.acts

LEMMA Performed ==
  ASSUME TypeOK, NEW r, NEW q, Perform(r, q), r.acts \subseteq ActionKind
  PROVE  /\ director' = r.s /\ speech' \in Nat
         /\ finishing' \in {"no", "asked", "sent"}
         /\ finishing # "no" => finishing' # "no"
         /\ "request_finish" \in r.acts => finishing' # "no"
         /\ seen' \in Seen
         /\ seen'.asks = seen.asks + (IF "request_finish" \in r.acts THEN 1 ELSE 0)
         /\ seen'.greets = seen.greets + (IF "speak_greeting" \in r.acts THEN 1 ELSE 0)
         /\ seen'.spokeFirst = (seen.spokeFirst \/ (qwen.speech /\ seen.greets = 0))
         /\ seen'.cut = (q.active # None
              /\ (seen.cut \/ CutBy(r) \/ (seen.cutSay /\ qwen.active = None)))
         /\ seen'.cutSay = ((seen.cutSay /\ ~(q.active # None /\ qwen.active = None))
              \/ (CutBy(r) /\ q.active = None /\ q.say = "waiting"))
<1>. DEFINE a == seen.asks + (IF "request_finish" \in r.acts THEN 1 ELSE 0)
            g == seen.greets + (IF "speak_greeting" \in r.acts THEN 1 ELSE 0)
            f == seen.spokeFirst \/ (qwen.speech /\ seen.greets = 0)
            created == q.active # None /\ qwen.active = None
            c == q.active # None /\ (seen.cut \/ CutBy(r) \/ (seen.cutSay /\ created))
            d == (seen.cutSay /\ ~created)
                   \/ (CutBy(r) /\ q.active = None /\ q.say = "waiting")
<1>1. /\ seen.asks \in Nat /\ seen.greets \in Nat /\ seen.spokeFirst \in BOOLEAN
      /\ seen.cutSay \in BOOLEAN /\ qwen.speech \in BOOLEAN
  BY DEF TypeOK, Seen, Qwen
<1>2. a \in Nat /\ g \in Nat
  BY <1>1
<1>3. f \in BOOLEAN /\ c \in BOOLEAN /\ d \in BOOLEAN
  BY <1>1
<1>4. seen' = [seen EXCEPT !.asks = a, !.greets = g, !.spokeFirst = f, !.cut = c, !.cutSay = d]
  BY DEF Perform, CutBy
<1>5. c = (q.active # None
              /\ (seen.cut \/ CutBy(r) \/ (seen.cutSay /\ qwen.active = None)))
  OBVIOUS
<1>6. d = ((seen.cutSay /\ ~(q.active # None /\ qwen.active = None))
              \/ (CutBy(r) /\ q.active = None /\ q.say = "waiting"))
  OBVIOUS
<1>7. /\ a = seen.asks + (IF "request_finish" \in r.acts THEN 1 ELSE 0)
      /\ g = seen.greets + (IF "speak_greeting" \in r.acts THEN 1 ELSE 0)
      /\ f = (seen.spokeFirst \/ (qwen.speech /\ seen.greets = 0))
  OBVIOUS
<1>. HIDE DEF a, g, f, c, d
<1>8. /\ seen' \in Seen /\ seen'.asks = a /\ seen'.greets = g /\ seen'.spokeFirst = f
      /\ seen'.cut = c /\ seen'.cutSay = d
  BY <1>2, <1>3, <1>4 DEF TypeOK, Seen
<1>9. speech' \in Nat
  <2>1. Cardinality(Says(r.acts)) \in Nat
    BY SaysCounted
  <2>2. speech \in Nat
    BY DEF TypeOK
  <2>3. speech' = (IF "cancel_assistant" \in r.acts THEN 0 ELSE speech) + Cardinality(Says(r.acts))
    BY DEF Perform
  <2>. QED  BY <2>1, <2>2, <2>3
<1>10. /\ director' = r.s /\ finishing' \in {"no", "asked", "sent"}
       /\ finishing # "no" => finishing' # "no"
       /\ "request_finish" \in r.acts => finishing' # "no"
  BY DEF Perform, TypeOK
<1>. QED  BY <1>5, <1>6, <1>7, <1>8, <1>9, <1>10

\* An answer keeps what is known of the director, of the greeting and of the
\* end; only a caller's first words can bring speech.
LEMMA ReplyKeeps ==
  ASSUME IInv, NEW r, NEW q, Reply(r), Perform(r, q), stage' = stage,
         qwen'.speech /\ Alive(director') /\ ~director.greetingStarted
           => qwen.speech \/ director'.early
  PROVE  /\ director' \in State /\ speech' \in Nat
         /\ finishing' \in {"no", "asked", "sent"} /\ seen' \in Seen
         /\ Dir' /\ EndIsComing' /\ GreetsOnce' /\ Greets'
<1>. USE DEF IInv
<1>1. r.acts \subseteq ActionKind /\ "speak_greeting" \notin r.acts
  BY DEF Reply, ActionKind
<1>2. /\ director' = r.s /\ speech' \in Nat
      /\ finishing' \in {"no", "asked", "sent"}
      /\ finishing # "no" => finishing' # "no"
      /\ "request_finish" \in r.acts => finishing' # "no"
      /\ seen' \in Seen
      /\ seen'.asks = seen.asks + (IF "request_finish" \in r.acts THEN 1 ELSE 0)
      /\ seen'.greets = seen.greets + (IF "speak_greeting" \in r.acts THEN 1 ELSE 0)
      /\ seen'.spokeFirst = (seen.spokeFirst \/ (qwen.speech /\ seen.greets = 0))
  BY <1>1, Performed
<1>3. seen.asks \in Nat /\ seen.greets \in Nat /\ seen.asks = director.finishes
  BY DEF TypeOK, Seen, Dir
<1>4. seen'.greets = seen.greets
  BY <1>1, <1>2, <1>3
<1>5. GreetsOnce'
  BY <1>2, <1>4 DEF GreetsOnce
<1>6. CASE Alive(director) /\ Calm(director, r.s) /\ "request_finish" \notin r.acts
  <2>1. seen'.asks = director'.finishes
    BY <1>2, <1>3, <1>6 DEF Alive, Calm
  <2>2. Alive(director')
    BY <1>2, <1>6 DEF Calm
  <2>3. Dir'
    <3>1. ~Ended(director')
      BY <2>2 DEF Alive, Ended
    <3>. QED  BY <2>1, <2>2, <3>1 DEF Dir
  <2>4. EndIsComing'
    BY <1>2, <1>6, <2>2 DEF EndIsComing, Alive, Calm
  <2>5. Greets'
    BY <1>2, <1>4, <1>6, <2>2 DEF Greets, Calm
  <2>. QED  BY <1>2, <1>5, <2>2, <2>3, <2>4, <2>5 DEF Alive
<1>7. CASE Alive(director) /\ Ended(r.s) /\ "request_finish" \in r.acts
  <2>1. seen'.asks = director'.finishes
    BY <1>2, <1>3, <1>7 DEF Alive, Ended
  <2>2. Ended(director') /\ ~Alive(director')
    BY <1>2, <1>7 DEF Alive, Ended
  <2>3. Dir' /\ EndIsComing'
    BY <1>2, <1>7, <2>1, <2>2 DEF Dir, EndIsComing, Ended
  <2>4. Greets'
    BY <1>4, <2>2 DEF Greets
  <2>. QED  BY <1>2, <1>5, <2>2, <2>3, <2>4 DEF Ended
<1>8. CASE Ended(director) /\ r.s = director /\ r.acts = {}
  <2>1. seen'.asks = director'.finishes
    BY <1>2, <1>3, <1>8
  <2>2. Ended(director') /\ ~Alive(director')
    BY <1>2, <1>8 DEF Alive, Ended
  <2>3. Dir' /\ EndIsComing'
    BY <1>2, <1>8, <2>1, <2>2 DEF Dir, EndIsComing, Ended
  <2>4. Greets'
    BY <1>4, <2>2 DEF Greets
  <2>. QED  BY <1>2, <1>5, <2>2, <2>3, <2>4 DEF Ended
<1>. QED  BY <1>6, <1>7, <1>8 DEF Reply

-----------------------------------------------------------------------------
\* What becomes of Qwen's session.

LEMMA InterruptedIs ==
  ASSUME NEW q \in Qwen
  PROVE  LET p == Interrupted(q)
         IN  /\ p \in Qwen
             /\ p.closed = q.closed /\ p.active = q.active /\ p.speech = q.speech
             /\ p.say = q.say /\ p.sayResp = q.sayResp
             /\ p.suppressed = IF q.active # None THEN q.suppressed \cup {q.active}
                                ELSE q.suppressed
             /\ q.cancelPending => p.cancelPending
             /\ q.active = None /\ q.say = "waiting" => p.cancelPending
<1>1. CASE q.active # None
  <2>1. q.suppressed \cup {q.active} \in SUBSET Response
    BY <1>1 DEF Qwen
  <2>. QED  BY <1>1, <2>1 DEF Interrupted, Qwen
<1>2. CASE q.active = None /\ q.say = "waiting"
  <2>1. Interrupted(q) = [q EXCEPT !.cancelPending = TRUE]
    BY <1>2 DEF Interrupted
  <2>. QED  BY <1>2, <2>1 DEF Qwen
<1>3. CASE q.active = None /\ q.say # "waiting"
  <2>1. Interrupted(q) = q
    BY <1>3 DEF Interrupted
  <2>. QED  BY <1>3, <2>1
<1>. QED  BY <1>1, <1>2, <1>3

LEMMA QwenAfterIs ==
  ASSUME NEW q \in Qwen, NEW acts
  PROVE  LET p == QwenAfter(q, acts)
         IN  /\ p \in Qwen
             /\ p.closed = q.closed /\ p.active = q.active /\ p.speech = q.speech
             /\ p.say = q.say /\ p.sayResp = q.sayResp
             /\ p.suppressed = IF "cancel_assistant" \in acts /\ q.active # None
                                THEN q.suppressed \cup {q.active} ELSE q.suppressed
             /\ q.cancelPending => p.cancelPending
             /\ "cancel_assistant" \in acts /\ q.active = None /\ q.say = "waiting"
                  => p.cancelPending
<1>1. CASE "cancel_assistant" \in acts
  BY <1>1, InterruptedIs DEF QwenAfter
<1>2. CASE "cancel_assistant" \notin acts
  BY <1>2 DEF QwenAfter
<1>. QED  BY <1>1, <1>2

LEMMA ServerAfterIs ==
  ASSUME NEW sv \in Server, NEW q, NEW acts
  PROVE  ServerAfter(sv, q, acts) \in Server
<1>. DEFINE c == sv.cancel \/ ("cancel_assistant" \in acts /\ Cancels(q))
<1>1. c \in BOOLEAN
  BY DEF Server
<1>2. ServerAfter(sv, q, acts) = [sv EXCEPT !.cancel = c]
  BY DEF ServerAfter
<1>. HIDE DEF c
<1>. QED  BY <1>1, <1>2 DEF Server

\* p differs from q in what no property of the responses looks at.
SameResponse(q, p) ==
  /\ p.closed = q.closed /\ p.active = q.active /\ p.suppressed = q.suppressed
  /\ p.say = q.say /\ p.sayResp = q.sayResp
  /\ q.cancelPending => p.cancelPending

\* A session with the same response, interrupted or not, whether or not the
\* director has heard of anything.
LEMMA AnsweredKeeps ==
  ASSUME IInv, NEW r, r.acts \subseteq ActionKind, NEW q \in Qwen, Perform(r, q),
         SameResponse(qwen, q), qwen' = QwenAfter(q, r.acts)
  PROVE  qwen' \in Qwen /\ qwen'.speech = q.speech /\ Gen' /\ Cut'
<1>1. qwen \in Qwen /\ Gen /\ Cut
  BY DEF IInv, TypeOK
<1>2. /\ qwen' \in Qwen
      /\ qwen'.closed = qwen.closed /\ qwen'.active = qwen.active
      /\ qwen'.speech = q.speech
      /\ qwen'.say = qwen.say /\ qwen'.sayResp = qwen.sayResp
      /\ qwen'.suppressed = IF CutBy(r) /\ qwen.active # None
                            THEN qwen.suppressed \cup {qwen.active} ELSE qwen.suppressed
      /\ qwen.cancelPending => qwen'.cancelPending
      /\ CutBy(r) /\ qwen.active = None /\ qwen.say = "waiting" => qwen'.cancelPending
  <2>1. /\ qwen' \in Qwen
        /\ qwen'.closed = q.closed /\ qwen'.active = q.active /\ qwen'.speech = q.speech
        /\ qwen'.say = q.say /\ qwen'.sayResp = q.sayResp
        /\ qwen'.suppressed = IF "cancel_assistant" \in r.acts /\ q.active # None
                              THEN q.suppressed \cup {q.active} ELSE q.suppressed
        /\ q.cancelPending => qwen'.cancelPending
        /\ "cancel_assistant" \in r.acts /\ q.active = None /\ q.say = "waiting"
             => qwen'.cancelPending
    BY QwenAfterIs
  <2>. QED  BY <2>1 DEF SameResponse, CutBy
<1>3. /\ seen'.cut = (qwen.active # None /\ (seen.cut \/ CutBy(r)))
      /\ seen'.cutSay => seen.cutSay \/ (CutBy(r) /\ qwen.active = None /\ qwen.say = "waiting")
  <2>1. /\ seen'.cut = (q.active # None
              /\ (seen.cut \/ CutBy(r) \/ (seen.cutSay /\ qwen.active = None)))
        /\ seen'.cutSay = ((seen.cutSay /\ ~(q.active # None /\ qwen.active = None))
              \/ (CutBy(r) /\ q.active = None /\ q.say = "waiting"))
    BY Performed DEF IInv
  <2>. QED  BY <2>1 DEF SameResponse
<1>4. Gen'
  BY <1>1, <1>2 DEF Gen, OneGeneration
<1>5. Cut'
  BY <1>1, <1>2, <1>3 DEF Cut
<1>. QED  BY <1>2, <1>4, <1>5

LEMMA UnheardIInv ==
  ASSUME IInv, NothingHeard, UNCHANGED <<stage, tools>>, server' \in Server,
         qwen' \in Qwen, qwen'.speech => qwen.speech, Gen', Cut'
  PROVE  IInv'
<1>1. TypeOK' /\ (tools.running =< tools.made)'
  BY DEF IInv, TypeOK, NothingHeard
<1>2. Dir' /\ EndIsComing' /\ GreetsOnce' /\ Greets'
  BY DEF IInv, Dir, EndIsComing, GreetsOnce, Greets, NothingHeard
<1>. QED  BY <1>1, <1>2 DEF IInv

LEMMA UnheardKeeps ==
  ASSUME IInv, NothingHeard, UNCHANGED <<stage, tools>>, server' \in Server,
         qwen' \in Qwen, SameResponse(qwen, qwen'), qwen'.speech => qwen.speech
  PROVE  IInv'
<1>1. Gen' /\ Cut'
  BY DEF IInv, SameResponse, Gen, OneGeneration, Cut, NothingHeard
<1>. QED  BY <1>1, UnheardIInv

\* The director hears of an event while the response stays what it is.
LEMMA HearKeeps ==
  ASSUME IInv, NEW e \in Later, NEW q \in Qwen, NEW sv \in Server, Hear(e, q, sv),
         SameResponse(qwen, q), q.speech => qwen.speech \/ e = "user_speech_start",
         stage' = stage, tools' \in [made: 0..MaxTools, running: 0..MaxTools],
         tools'.running =< tools'.made
  PROVE  IInv'
<1>. DEFINE r == Apply(director, e)
<1>1. Perform(r, q) /\ qwen' = QwenAfter(q, r.acts) /\ server' = ServerAfter(sv, q, r.acts)
  BY DEF Hear
<1>2. Reply(r) /\ (e = "user_speech_start" /\ Alive(director) => r.s.early \/ director.greetingStarted)
  BY ApplyReply DEF IInv
<1>. HIDE DEF r
<1>3. r.acts \subseteq ActionKind
  BY <1>2 DEF Reply
<1>4. qwen' \in Qwen /\ qwen'.speech = q.speech /\ Gen' /\ Cut'
  BY <1>1, <1>3, AnsweredKeeps
<1>5. server' \in Server
  BY <1>1, ServerAfterIs
<1>6. qwen'.speech /\ Alive(director') /\ ~director.greetingStarted
        => qwen.speech \/ director'.early
  <2>1. director' = r.s
    BY <1>1 DEF Perform
  <2>2. Alive(r.s) => Alive(director)
    BY <1>2 DEF Reply, Alive, Ended
  <2>. QED  BY <1>2, <1>4, <2>1, <2>2
<1>7. /\ director' \in State /\ speech' \in Nat
      /\ finishing' \in {"no", "asked", "sent"} /\ seen' \in Seen
      /\ Dir' /\ EndIsComing' /\ GreetsOnce' /\ Greets'
  BY <1>1, <1>2, <1>6, ReplyKeeps
<1>8. TypeOK'
  BY <1>4, <1>5, <1>7 DEF TypeOK, IInv
<1>. QED  BY <1>4, <1>7, <1>8 DEF IInv

-----------------------------------------------------------------------------
\* The actions: speech of the caller.

LEMMA SessionUpdatedKeeps == IInv /\ SessionUpdated => IInv'
<1>. SUFFICES ASSUME IInv, SessionUpdated PROVE IInv'
  OBVIOUS
<1>1. qwen \in Qwen /\ server \in Server
  BY DEF IInv, TypeOK
<1>2. qwen' \in Qwen /\ SameResponse(qwen, qwen') /\ qwen'.speech = qwen.speech
  BY <1>1 DEF SessionUpdated, SameResponse, Qwen
<1>. QED  BY <1>1, <1>2, UnheardKeeps DEF SessionUpdated

LEMMA SpeechStartedKeeps == IInv /\ SpeechStarted => IInv'
<1>. SUFFICES ASSUME IInv, SpeechStarted PROVE IInv'
  OBVIOUS
<1>1. qwen \in Qwen /\ server \in Server
      /\ tools \in [made: 0..MaxTools, running: 0..MaxTools] /\ tools.running =< tools.made
  BY DEF IInv, TypeOK
<1>. DEFINE sv == [server EXCEPT !.vad = TRUE]
<1>2. sv \in Server
  BY <1>1 DEF Server
<1>3. CASE qwen.speech
  <2>1. server' = sv /\ qwen' = qwen /\ NothingHeard /\ UNCHANGED <<stage, tools>>
    BY <1>3 DEF SpeechStarted
  <2>. QED  BY <1>1, <1>2, <2>1, UnheardKeeps DEF SameResponse
<1>4. CASE ~qwen.speech
  <2>. DEFINE c == qwen.active # None
              begun == [qwen EXCEPT !.speech = TRUE, !.smart = TRUE, !.smartResp = None,
                                    !.confirming = c]
              q == IF qwen.active # None THEN begun ELSE Interrupted(begun)
  <2>1. Hear("user_speech_start", q, sv) /\ UNCHANGED <<stage, tools>>
    BY <1>4 DEF SpeechStarted
  <2>2. c \in BOOLEAN
    OBVIOUS
  <2>3. /\ begun \in Qwen /\ begun.closed = qwen.closed /\ begun.active = qwen.active
        /\ begun.suppressed = qwen.suppressed /\ begun.say = qwen.say
        /\ begun.sayResp = qwen.sayResp /\ begun.cancelPending = qwen.cancelPending
    <3>. HIDE DEF c
    <3>. QED  BY <1>1, <2>2 DEF Qwen
  <2>. HIDE DEF begun
  <2>4. q \in Qwen /\ SameResponse(qwen, q)
    <3>1. CASE qwen.active # None
      BY <2>3, <3>1 DEF SameResponse
    <3>2. CASE qwen.active = None
      BY <2>3, <3>2, InterruptedIs DEF SameResponse
    <3>. QED  BY <3>1, <3>2
  <2>. HIDE DEF q, sv
  <2>. QED  BY <1>1, <1>2, <2>1, <2>4, HearKeeps DEF Later, Event
<1>. QED  BY <1>3, <1>4

LEMMA SpeechStoppedKeeps ==
  ASSUME IInv, NEW valid \in BOOLEAN, SpeechStopped(valid)
  PROVE  IInv'
<1>1. qwen \in Qwen /\ server \in Server
      /\ tools \in [made: 0..MaxTools, running: 0..MaxTools] /\ tools.running =< tools.made
  BY DEF IInv, TypeOK
<1>. DEFINE m == qwen.smart /\ valid
            mr == IF valid THEN qwen.smartResp ELSE None
            o == server.owed \/ valid
            q == [qwen EXCEPT !.speech = FALSE, !.confirming = FALSE,
                              !.smart = m, !.smartResp = mr]
            sv == [server EXCEPT !.vad = FALSE, !.owed = o]
<1>2. m \in BOOLEAN /\ mr \in Response \cup {None} /\ o \in BOOLEAN
  BY <1>1 DEF Qwen, Server
<1>3. /\ IF valid THEN Hear("user_speech_end", q, sv)
         ELSE qwen' = q /\ server' = sv /\ NothingHeard
      /\ UNCHANGED <<stage, tools>>
  BY DEF SpeechStopped
<1>. HIDE DEF m, mr, o
<1>4. q \in Qwen /\ SameResponse(qwen, q) /\ ~q.speech /\ sv \in Server
  BY <1>1, <1>2 DEF SameResponse, Qwen, Server
<1>. HIDE DEF q, sv
<1>5. CASE valid
  BY <1>1, <1>3, <1>4, <1>5, HearKeeps DEF Later, Event
<1>6. CASE ~valid
  BY <1>1, <1>3, <1>4, <1>6, UnheardKeeps
<1>. QED  BY <1>5, <1>6

LEMMA ForceEndSpeechTurnKeeps ==
  ASSUME IInv, NEW heard \in BOOLEAN, ForceEndSpeechTurn(heard)
  PROVE  IInv'
<1>1. qwen \in Qwen /\ server \in Server
  BY DEF IInv, TypeOK
<1>. DEFINE m == qwen.smart /\ heard
            mr == IF heard THEN qwen.smartResp ELSE None
            o == server.owed \/ heard
            q == [qwen EXCEPT !.speech = FALSE, !.confirming = FALSE,
                              !.smart = m, !.smartResp = mr]
            sv == [server EXCEPT !.owed = o]
<1>2. m \in BOOLEAN /\ mr \in Response \cup {None} /\ o \in BOOLEAN
  BY <1>1 DEF Qwen, Server
<1>3. qwen' = q /\ server' = sv /\ NothingHeard /\ UNCHANGED <<stage, tools>>
  BY DEF ForceEndSpeechTurn
<1>. HIDE DEF m, mr, o
<1>4. q \in Qwen /\ SameResponse(qwen, q) /\ ~q.speech /\ sv \in Server
  BY <1>1, <1>2 DEF SameResponse, Qwen, Server
<1>. HIDE DEF q, sv
<1>. QED  BY <1>3, <1>4, UnheardKeeps

\* The confirmed interruption marks the response, whoever was told.
LEMMA BargeInConfirmKeeps ==
  ASSUME IInv, NEW confirmed \in BOOLEAN, BargeInConfirm(confirmed)
  PROVE  IInv'
<1>1. qwen \in Qwen /\ server \in Server /\ Gen /\ Cut
  BY DEF IInv, TypeOK
<1>. DEFINE q == [qwen EXCEPT !.confirming = FALSE]
            c == server.cancel \/ (confirmed /\ qwen.speech /\ Cancels(q))
<1>2. c \in BOOLEAN
  BY <1>1 DEF Server
<1>3. /\ qwen' = IF confirmed /\ qwen.speech THEN Interrupted(q) ELSE q
      /\ server' = [server EXCEPT !.cancel = c]
      /\ UNCHANGED <<stage, tools>> /\ NothingHeard
  BY DEF BargeInConfirm
<1>. HIDE DEF c
<1>4. server' \in Server
  BY <1>1, <1>2, <1>3 DEF Server
<1>5. q \in Qwen /\ SameResponse(qwen, q) /\ q.speech = qwen.speech
  BY <1>1 DEF SameResponse, Qwen
<1>. HIDE DEF q
<1>6. CASE ~(confirmed /\ qwen.speech)
  BY <1>3, <1>4, <1>5, <1>6, UnheardKeeps
<1>7. CASE confirmed /\ qwen.speech
  <2>1. /\ qwen' \in Qwen
        /\ qwen'.closed = qwen.closed /\ qwen'.active = qwen.active /\ qwen'.speech = qwen.speech
        /\ qwen'.say = qwen.say /\ qwen'.sayResp = qwen.sayResp
        /\ qwen'.suppressed = IF qwen.active # None THEN qwen.suppressed \cup {qwen.active}
                              ELSE qwen.suppressed
        /\ qwen.cancelPending => qwen'.cancelPending
    <3>1. /\ qwen' \in Qwen
          /\ qwen'.closed = q.closed /\ qwen'.active = q.active /\ qwen'.speech = q.speech
          /\ qwen'.say = q.say /\ qwen'.sayResp = q.sayResp
          /\ qwen'.suppressed = IF q.active # None THEN q.suppressed \cup {q.active}
                                ELSE q.suppressed
          /\ q.cancelPending => qwen'.cancelPending
      BY <1>3, <1>5, <1>7, InterruptedIs
    <3>. QED  BY <1>5, <3>1 DEF SameResponse
  <2>2. Gen'
    BY <1>1, <2>1 DEF Gen, OneGeneration
  <2>3. Cut'
    BY <1>1, <1>3, <2>1 DEF Cut, NothingHeard
  <2>. QED  BY <1>3, <1>4, <2>1, <2>2, <2>3, UnheardIInv
<1>. QED  BY <1>6, <1>7

LEMMA TranscriptCompletedKeeps == IInv /\ TranscriptCompleted => IInv'
<1>. SUFFICES ASSUME IInv, TranscriptCompleted PROVE IInv'
  OBVIOUS
<1>1. qwen \in Qwen /\ server \in Server
      /\ tools \in [made: 0..MaxTools, running: 0..MaxTools] /\ tools.running =< tools.made
  BY DEF IInv, TypeOK
<1>2. Hear("transcript_final", qwen, server) /\ UNCHANGED <<stage, tools>>
  BY DEF TranscriptCompleted
<1>. QED  BY <1>1, <1>2, HearKeeps DEF Later, Event, SameResponse

-----------------------------------------------------------------------------
\* The actions: responses.

\* A cancel that the director asked for before the response was created finds
\* it when it is: the pending cancel, or the answer to its creation.
LEMMA ResponseCreatedKeeps ==
  ASSUME IInv, NEW forTurn \in BOOLEAN, ResponseCreated(forTurn)
  PROVE  IInv'
<1>1. /\ qwen \in Qwen /\ server \in Server /\ Gen /\ Cut /\ Dir /\ TypeOK
      /\ tools \in [made: 0..MaxTools, running: 0..MaxTools] /\ tools.running =< tools.made
  BY DEF IInv, TypeOK
<1>. DEFINE id == server.opened + 1
            q0 == [qwen EXCEPT !.active = id]
            r  == Apply(director, "assistant_response_start")
            q1 == QwenAfter(q0, r.acts)
            q2 == IF q1.cancelPending
                  THEN [q1 EXCEPT !.cancelPending = FALSE,
                                  !.suppressed = @ \cup {id}] ELSE q1
            initiated == qwen.say \in {"waiting", "given_up"}
            q3 == IF initiated THEN [q2 EXCEPT !.say = "speaking", !.sayResp = id]
                  ELSE IF q2.smart /\ id \notin q2.suppressed
                       THEN [q2 EXCEPT !.smartResp = id] ELSE q2
            o == server.owed /\ ~forTurn
            n == IF forTurn THEN server.creates ELSE server.creates - 1
            sv == ServerAfter(server, q0, r.acts)
            c == sv.cancel \/ q1.cancelPending
<1>2. /\ ~qwen.closed /\ qwen.active = None /\ server.opened < MaxResponses
      /\ IF forTurn THEN server.owed ELSE server.creates > 0
      /\ Perform(r, q0) /\ qwen' = q3
      /\ server' = [sv EXCEPT !.opened = id, !.owed = @ /\ ~forTurn,
                              !.creates = IF forTurn THEN @ ELSE @ - 1, !.cancel = c]
      /\ UNCHANGED <<stage, tools>>
  BY DEF ResponseCreated, Running
<1>3. id \in Response /\ id # None /\ n \in 0..MaxResponses
  BY <1>1, <1>2, BoundsAssumption DEF Server, Response, None
<1>4. Reply(r)
  BY <1>1, ApplyReply DEF Later, Event
<1>5. r.acts \subseteq ActionKind
  BY <1>4 DEF Reply
<1>. HIDE DEF id, r
<1>6. /\ q0 \in Qwen /\ q0.active = id /\ q0.closed = qwen.closed
      /\ q0.suppressed = qwen.suppressed /\ q0.say = qwen.say /\ q0.sayResp = qwen.sayResp
      /\ q0.speech = qwen.speech /\ q0.cancelPending = qwen.cancelPending
  BY <1>1, <1>3 DEF Qwen
<1>. HIDE DEF q0
<1>7. /\ q1 \in Qwen /\ q1.active = id /\ q1.closed = qwen.closed
      /\ q1.say = qwen.say /\ q1.sayResp = qwen.sayResp /\ q1.speech = qwen.speech
      /\ q1.suppressed = IF CutBy(r) THEN qwen.suppressed \cup {id} ELSE qwen.suppressed
      /\ qwen.cancelPending => q1.cancelPending
  <2>1. /\ q1 \in Qwen
        /\ q1.closed = q0.closed /\ q1.active = q0.active /\ q1.speech = q0.speech
        /\ q1.say = q0.say /\ q1.sayResp = q0.sayResp
        /\ q1.suppressed = IF "cancel_assistant" \in r.acts /\ q0.active # None
                            THEN q0.suppressed \cup {q0.active} ELSE q0.suppressed
        /\ q0.cancelPending => q1.cancelPending
    BY <1>6, QwenAfterIs
  <2>. QED  BY <1>3, <1>6, <2>1 DEF CutBy
<1>. HIDE DEF q1
<1>8. /\ q2 \in Qwen /\ q2.active = id /\ q2.closed = qwen.closed
      /\ q2.say = qwen.say /\ q2.sayResp = qwen.sayResp /\ q2.speech = qwen.speech
      /\ q2.suppressed = IF q1.cancelPending THEN q1.suppressed \cup {id} ELSE q1.suppressed
  <2>1. CASE q1.cancelPending
    <3>1. q1.suppressed \cup {id} \in SUBSET Response
      BY <1>3, <1>7 DEF Qwen
    <3>. QED  BY <1>7, <2>1, <3>1 DEF Qwen
  <2>2. CASE ~q1.cancelPending
    BY <1>7, <2>2
  <2>. QED  BY <2>1, <2>2
<1>. HIDE DEF q2
<1>9. /\ q3 \in Qwen /\ q3.active = id /\ q3.closed = qwen.closed
      /\ q3.speech = qwen.speech /\ q3.suppressed = q2.suppressed
      /\ IF initiated THEN q3.say = "speaking" /\ q3.sayResp = id
         ELSE q3.say = qwen.say /\ q3.sayResp = qwen.sayResp
  <2>1. CASE initiated
    <3>. DEFINE t == [q2 EXCEPT !.say = "speaking", !.sayResp = id]
    <3>1. /\ t \in Qwen /\ t.active = q2.active /\ t.closed = q2.closed
          /\ t.speech = q2.speech /\ t.suppressed = q2.suppressed
          /\ t.say = "speaking" /\ t.sayResp = id
      BY <1>3, <1>8 DEF Qwen
    <3>2. q3 = t
      BY <2>1
    <3>. HIDE DEF t, q3
    <3>. QED  BY <1>8, <2>1, <3>1, <3>2
  <2>2. CASE ~initiated
    <3>. DEFINE t == [q2 EXCEPT !.smartResp = id]
    <3>1. /\ t \in Qwen /\ t.active = q2.active /\ t.closed = q2.closed
          /\ t.speech = q2.speech /\ t.suppressed = q2.suppressed
          /\ t.say = q2.say /\ t.sayResp = q2.sayResp
      BY <1>3, <1>8 DEF Qwen
    <3>2. q3 = t \/ q3 = q2
      BY <2>2
    <3>. HIDE DEF t, q3, initiated
    <3>. QED  BY <1>8, <2>2, <3>1, <3>2
  <2>. QED  BY <2>1, <2>2
<1>10. qwen' = q3
  BY <1>2
<1>. HIDE DEF q3
<1>11. server' \in Server
  <2>1. sv \in Server
    BY <1>1, ServerAfterIs
  <2>2. sv.owed = server.owed /\ sv.creates = server.creates
    BY <1>1 DEF ServerAfter, Server
  <2>3. (sv.owed /\ ~forTurn) \in BOOLEAN
        /\ (IF forTurn THEN sv.creates ELSE sv.creates - 1) \in 0..MaxResponses
    BY <1>3, <2>2
  <2>4. c \in BOOLEAN
    BY <1>7, <2>1 DEF Server, Qwen
  <2>. DEFINE oo == sv.owed /\ ~forTurn
              nn == IF forTurn THEN sv.creates ELSE sv.creates - 1
  <2>5. server' = [sv EXCEPT !.opened = id, !.owed = oo, !.creates = nn, !.cancel = c]
    BY <1>2
  <2>6. oo \in BOOLEAN /\ nn \in 0..MaxResponses
    BY <2>3
  <2>. HIDE DEF oo, nn, c, sv
  <2>. QED  BY <1>3, <2>1, <2>4, <2>5, <2>6 DEF Server
<1>12. Gen'
  <2>1. qwen.suppressed = {}
    <3>1. None \notin Response
      BY DEF None, Response
    <3>. QED  BY <1>1, <1>2, <3>1 DEF Gen, OneGeneration, Qwen
  <2>2. q3.suppressed \subseteq {id}
    BY <1>7, <1>8, <1>9, <2>1
  <2>3. CASE initiated
    BY <1>2, <1>3, <1>9, <1>10, <2>2, <2>3 DEF Gen, OneGeneration
  <2>4. CASE ~initiated
    <3>1. qwen.say # "speaking"
      BY <1>1, <1>2 DEF Gen, OneGeneration
    <3>. QED  BY <1>2, <1>3, <1>9, <1>10, <2>2, <2>4, <3>1 DEF Gen, OneGeneration
  <2>. QED  BY <2>3, <2>4
<1>13. Cut'
  <2>1. /\ seen'.cut = (q0.active # None
              /\ (seen.cut \/ CutBy(r) \/ (seen.cutSay /\ qwen.active = None)))
        /\ seen'.cutSay = ((seen.cutSay /\ ~(q0.active # None /\ qwen.active = None))
              \/ (CutBy(r) /\ q0.active = None /\ q0.say = "waiting"))
    BY <1>1, <1>2, <1>5, Performed
  <2>2. ~seen'.cutSay
    BY <1>2, <1>3, <1>6, <2>1
  <2>3. seen'.cut => CutBy(r) \/ seen.cutSay
    BY <1>1, <1>2, <2>1 DEF Cut
  <2>4. seen.cutSay => q1.cancelPending
    BY <1>1, <1>2, <1>7 DEF Cut
  <2>5. CutBy(r) \/ q1.cancelPending => id \in q3.suppressed
    BY <1>7, <1>8, <1>9
  <2>. QED  BY <1>3, <1>9, <1>10, <2>2, <2>3, <2>4, <2>5 DEF Cut
<1>14. /\ director' \in State /\ speech' \in Nat
       /\ finishing' \in {"no", "asked", "sent"} /\ seen' \in Seen
       /\ Dir' /\ EndIsComing' /\ GreetsOnce' /\ Greets'
  BY <1>2, <1>4, <1>9, <1>10, ReplyKeeps
<1>15. TypeOK'
  BY <1>1, <1>2, <1>9, <1>10, <1>11, <1>14 DEF TypeOK
<1>. QED  BY <1>1, <1>2, <1>12, <1>13, <1>14, <1>15 DEF IInv

LEMMA AudioDeltaKeeps == IInv /\ AudioDelta => IInv'
<1>. SUFFICES ASSUME IInv, AudioDelta PROVE IInv'
  OBVIOUS
<1>1. qwen \in Qwen /\ server \in Server
      /\ tools \in [made: 0..MaxTools, running: 0..MaxTools] /\ tools.running =< tools.made
  BY DEF IInv, TypeOK
<1>2. Hear("assistant_response_start", qwen, server) /\ UNCHANGED <<stage, tools>>
  BY DEF AudioDelta
<1>. QED  BY <1>1, <1>2, HearKeeps DEF Later, Event, SameResponse

LEMMA ResponseDoneKeeps == IInv /\ ResponseDone => IInv'
<1>. SUFFICES ASSUME IInv, ResponseDone PROVE IInv'
  OBVIOUS
<1>1. /\ qwen \in Qwen /\ server \in Server /\ Gen /\ Cut /\ Dir /\ TypeOK
      /\ tools \in [made: 0..MaxTools, running: 0..MaxTools] /\ tools.running =< tools.made
  BY DEF IInv, TypeOK
<1>. DEFINE id == qwen.active
            said == qwen.say = "speaking" /\ qwen.sayResp = id
            q0 == [qwen EXCEPT !.active = None]
            q1 == IF said THEN [q0 EXCEPT !.say = "none", !.sayResp = None]
                  ELSE IF qwen.smartResp = id
                       THEN [q0 EXCEPT !.smart = FALSE, !.smartResp = None] ELSE q0
            e == IF said THEN "greeting_finished" ELSE "assistant_response_done"
            r == Apply(director, e)
            p == QwenAfter(q1, r.acts)
<1>2. /\ ~qwen.closed /\ id # None /\ Perform(r, q1)
      /\ qwen' = [p EXCEPT !.suppressed = @ \ {id}]
      /\ UNCHANGED <<stage, tools>>
  BY DEF ResponseDone, Running
<1>3. e \in Later
  BY DEF Later, Event
<1>. HIDE DEF e
<1>4. Reply(r)
  BY <1>1, <1>3, ApplyReply
<1>5. r.acts \subseteq ActionKind
  BY <1>4 DEF Reply
<1>. HIDE DEF r
<1>6. PICK crossed \in BOOLEAN : server' = [server EXCEPT !.cancel = @ /\ crossed]
  BY DEF ResponseDone
<1>7. server' \in Server
  <2>. DEFINE c == server.cancel /\ crossed
  <2>1. c \in BOOLEAN
    BY <1>1 DEF Server
  <2>2. server' = [server EXCEPT !.cancel = c]
    BY <1>6
  <2>. HIDE DEF c
  <2>. QED  BY <1>1, <2>1, <2>2 DEF Server
<1>8. /\ q0 \in Qwen /\ q0.active = None /\ q0.closed = qwen.closed
      /\ q0.suppressed = qwen.suppressed /\ q0.say = qwen.say /\ q0.sayResp = qwen.sayResp
      /\ q0.speech = qwen.speech /\ q0.cancelPending = qwen.cancelPending
  BY <1>1 DEF Qwen
<1>. HIDE DEF q0
<1>9. /\ q1 \in Qwen /\ q1.active = None /\ q1.closed = qwen.closed
      /\ q1.suppressed = qwen.suppressed /\ q1.speech = qwen.speech
      /\ q1.cancelPending = qwen.cancelPending
      /\ q1.say = IF said THEN "none" ELSE qwen.say
  <2>1. CASE said
    <3>. DEFINE t == [q0 EXCEPT !.say = "none", !.sayResp = None]
    <3>1. /\ t \in Qwen /\ t.active = q0.active /\ t.closed = q0.closed
          /\ t.suppressed = q0.suppressed /\ t.speech = q0.speech
          /\ t.cancelPending = q0.cancelPending /\ t.say = "none"
      BY <1>8 DEF Qwen
    <3>2. q1 = t
      BY <2>1
    <3>. HIDE DEF t, q1, said
    <3>. QED  BY <1>8, <2>1, <3>1, <3>2
  <2>2. CASE ~said
    <3>. DEFINE t == [q0 EXCEPT !.smart = FALSE, !.smartResp = None]
    <3>1. /\ t \in Qwen /\ t.active = q0.active /\ t.closed = q0.closed
          /\ t.suppressed = q0.suppressed /\ t.speech = q0.speech
          /\ t.cancelPending = q0.cancelPending /\ t.say = q0.say
      BY <1>8 DEF Qwen
    <3>2. q1 = t \/ q1 = q0
      BY <2>2
    <3>. HIDE DEF t, q1, said
    <3>. QED  BY <1>8, <2>2, <3>1, <3>2
  <2>. QED  BY <2>1, <2>2
<1>10. q1.say = "none"
  <2>1. CASE said
    BY <1>9, <2>1
  <2>2. CASE ~said
    BY <1>1, <1>2, <1>9, <2>2 DEF Gen, OneGeneration, Qwen
  <2>. QED  BY <2>1, <2>2
<1>. HIDE DEF q1, said
<1>11. /\ p \in Qwen /\ p.active = None /\ p.closed = qwen.closed /\ p.say = "none"
       /\ p.suppressed = qwen.suppressed /\ p.speech = qwen.speech
       /\ qwen.cancelPending => p.cancelPending
  <2>1. /\ p \in Qwen
        /\ p.closed = q1.closed /\ p.active = q1.active /\ p.speech = q1.speech
        /\ p.say = q1.say
        /\ p.suppressed = IF "cancel_assistant" \in r.acts /\ q1.active # None
                           THEN q1.suppressed \cup {q1.active} ELSE q1.suppressed
        /\ q1.cancelPending => p.cancelPending
    BY <1>9, QwenAfterIs
  <2>. QED  BY <1>9, <1>10, <2>1
<1>. HIDE DEF p
<1>12. /\ qwen' \in Qwen /\ qwen'.active = None /\ qwen'.closed = qwen.closed
       /\ qwen'.say = "none" /\ qwen'.suppressed = qwen.suppressed \ {id}
       /\ qwen'.speech = qwen.speech
       /\ qwen.cancelPending => qwen'.cancelPending
  <2>. DEFINE d == p.suppressed \ {id}
  <2>1. d \in SUBSET Response /\ d = qwen.suppressed \ {id}
    BY <1>11 DEF Qwen
  <2>2. qwen' = [p EXCEPT !.suppressed = d]
    BY <1>2
  <2>. HIDE DEF d
  <2>. QED  BY <1>11, <2>1, <2>2 DEF Qwen
<1>13. Gen'
  BY <1>1, <1>2, <1>12 DEF Gen, OneGeneration
<1>14. Cut'
  <2>1. /\ seen'.cut = (q1.active # None
              /\ (seen.cut \/ CutBy(r) \/ (seen.cutSay /\ qwen.active = None)))
        /\ seen'.cutSay = ((seen.cutSay /\ ~(q1.active # None /\ qwen.active = None))
              \/ (CutBy(r) /\ q1.active = None /\ q1.say = "waiting"))
    BY <1>1, <1>2, <1>5, Performed
  <2>2. ~seen'.cut /\ (seen'.cutSay => seen.cutSay)
    BY <1>9, <1>10, <2>1
  <2>. QED  BY <1>1, <1>2, <1>12, <2>2 DEF Cut
<1>15. /\ director' \in State /\ speech' \in Nat
       /\ finishing' \in {"no", "asked", "sent"} /\ seen' \in Seen
       /\ Dir' /\ EndIsComing' /\ GreetsOnce' /\ Greets'
  BY <1>2, <1>4, <1>12, ReplyKeeps
<1>16. TypeOK'
  BY <1>1, <1>2, <1>7, <1>12, <1>15 DEF TypeOK
<1>. QED  BY <1>1, <1>2, <1>13, <1>14, <1>15, <1>16 DEF IInv

\* The refusal forgets both what was to be cancelled and who asked for it.
LEMMA CancelRefusedKeeps == IInv /\ CancelRefused => IInv'
<1>. SUFFICES ASSUME IInv, CancelRefused PROVE IInv'
  OBVIOUS
<1>1. qwen \in Qwen /\ server \in Server /\ seen \in Seen /\ Gen /\ Cut
  BY DEF IInv, TypeOK
<1>2. /\ qwen' \in Qwen /\ qwen'.closed = qwen.closed /\ qwen'.active = qwen.active
      /\ qwen'.suppressed = qwen.suppressed /\ qwen'.say = qwen.say
      /\ qwen'.sayResp = qwen.sayResp /\ qwen'.speech = qwen.speech
  BY <1>1 DEF CancelRefused, Qwen
<1>3. server' \in Server
  BY <1>1 DEF CancelRefused, Server
<1>4. /\ seen' \in Seen /\ seen'.asks = seen.asks /\ seen'.greets = seen.greets
      /\ seen'.spokeFirst = seen.spokeFirst /\ seen'.cut = seen.cut /\ ~seen'.cutSay
  BY <1>1 DEF CancelRefused, Seen
<1>5. UNCHANGED <<stage, director, speech, tools, finishing>>
  BY DEF CancelRefused
<1>6. Gen'
  BY <1>1, <1>2 DEF Gen, OneGeneration
<1>7. Cut'
  BY <1>1, <1>2, <1>4 DEF Cut
<1>8. TypeOK' /\ (tools.running =< tools.made)'
  BY <1>2, <1>3, <1>4, <1>5 DEF IInv, TypeOK
<1>9. Dir' /\ EndIsComing' /\ GreetsOnce' /\ Greets'
  BY <1>2, <1>4, <1>5 DEF IInv, Dir, EndIsComing, GreetsOnce, Greets
<1>. QED  BY <1>6, <1>7, <1>8, <1>9 DEF IInv

LEMMA CreateRefusedKeeps == IInv /\ CreateRefused => IInv'
<1>. SUFFICES ASSUME IInv, CreateRefused PROVE IInv'
  OBVIOUS
<1>1. qwen \in Qwen /\ server \in Server
  BY DEF IInv, TypeOK
<1>2. server' \in Server
  <2>. DEFINE n == server.creates - 1
  <2>1. n \in 0..MaxResponses
    BY <1>1, BoundsAssumption DEF CreateRefused, Server
  <2>2. server' = [server EXCEPT !.creates = n]
    BY DEF CreateRefused
  <2>. HIDE DEF n
  <2>. QED  BY <1>1, <2>1, <2>2 DEF Server
<1>. QED  BY <1>1, <1>2, UnheardKeeps DEF CreateRefused, SameResponse

LEMMA SpeakNextKeeps == IInv /\ SpeakNext => IInv'
<1>. SUFFICES ASSUME IInv, SpeakNext PROVE IInv'
  OBVIOUS
<1>1. qwen \in Qwen /\ server \in Server /\ speech \in Nat /\ Gen /\ Cut
  BY DEF IInv, TypeOK
<1>2. UNCHANGED <<stage, director, tools, finishing, seen>> /\ speech' \in Nat
  BY <1>1 DEF SpeakNext
<1>3. /\ qwen' \in Qwen /\ server' \in Server /\ qwen'.speech = qwen.speech
      /\ Gen' /\ Cut'
  <2>1. CASE SayRefused
    <3>1. qwen' = qwen /\ server' = server
      BY <2>1 DEF SpeakNext
    <3>. QED  BY <1>1, <1>2, <3>1 DEF Gen, OneGeneration, Cut
  <2>2. CASE ~SayRefused
    <3>1. /\ qwen' = [qwen EXCEPT !.say = "waiting"]
          /\ server' = [server EXCEPT !.creates = @ + 1]
          /\ server.creates < MaxResponses
      BY <2>2 DEF SpeakNext
    <3>2. qwen.active = None
      BY <2>2 DEF SayRefused
    <3>3. /\ qwen' \in Qwen /\ qwen'.closed = qwen.closed /\ qwen'.active = qwen.active
          /\ qwen'.suppressed = qwen.suppressed /\ qwen'.say = "waiting"
          /\ qwen'.speech = qwen.speech /\ qwen'.cancelPending = qwen.cancelPending
      BY <1>1, <3>1 DEF Qwen
    <3>4. server' \in Server
      <4>. DEFINE n == server.creates + 1
      <4>1. n \in 0..MaxResponses
        BY <1>1, <3>1, BoundsAssumption DEF Server
      <4>2. server' = [server EXCEPT !.creates = n]
        BY <3>1
      <4>. HIDE DEF n
      <4>. QED  BY <1>1, <4>1, <4>2 DEF Server
    <3>5. Gen'
      BY <1>1, <3>2, <3>3 DEF Gen, OneGeneration
    <3>6. Cut'
      BY <1>1, <1>2, <3>3 DEF Cut
    <3>. QED  BY <3>3, <3>4, <3>5, <3>6
  <2>. QED  BY <2>1, <2>2
<1>4. TypeOK' /\ (tools.running =< tools.made)'
  BY <1>2, <1>3 DEF IInv, TypeOK
<1>5. Dir' /\ EndIsComing' /\ GreetsOnce' /\ Greets'
  BY <1>2, <1>3 DEF IInv, Dir, EndIsComing, GreetsOnce, Greets
<1>. QED  BY <1>3, <1>4, <1>5 DEF IInv

LEMMA GiveUpSayKeeps == IInv /\ GiveUpSay => IInv'
<1>. SUFFICES ASSUME IInv, GiveUpSay PROVE IInv'
  OBVIOUS
<1>1. qwen \in Qwen /\ server \in Server /\ Gen /\ Cut
  BY DEF IInv, TypeOK
<1>2. /\ qwen' \in Qwen /\ qwen'.closed = qwen.closed /\ qwen'.active = qwen.active
      /\ qwen'.suppressed = qwen.suppressed /\ qwen'.say = "given_up"
      /\ qwen'.speech = qwen.speech /\ qwen'.cancelPending = qwen.cancelPending
  BY <1>1 DEF GiveUpSay, Qwen
<1>3. Gen'
  BY <1>1, <1>2 DEF Gen, OneGeneration, GiveUpSay
<1>4. Cut'
  BY <1>1, <1>2 DEF Cut, GiveUpSay, NothingHeard
<1>. QED  BY <1>1, <1>2, <1>3, <1>4, UnheardIInv DEF GiveUpSay

-----------------------------------------------------------------------------
\* The actions: the connection, timers, tools and the job.

LEMMA ClosedIs ==
  /\ ClosedQwen \in Qwen /\ ClosedQwen.closed /\ ~ClosedQwen.speech
  /\ ClosedQwen.active = None /\ ClosedQwen.suppressed = {} /\ ClosedQwen.say = "none"
  /\ NewServer \in Server
<1>1. NewQwen \in Qwen /\ NewServer \in Server
  BY BoundsAssumption DEF NewQwen, Qwen, NewServer, Server
<1>. QED  BY <1>1 DEF ClosedQwen, NewQwen, Qwen

LEMMA ClosedKeeps ==
  ASSUME qwen' = ClosedQwen
  PROVE  Gen' /\ Cut' /\ qwen' \in Qwen /\ ~qwen'.speech
BY ClosedIs DEF Gen, OneGeneration, Cut

LEMMA QwenLostKeeps ==
  ASSUME IInv, NEW told \in BOOLEAN, QwenLost(told)
  PROVE  IInv'
<1>. DEFINE r == Apply(director, "provider_lost")
<1>1. /\ IF told THEN Perform(r, ClosedQwen) ELSE NothingHeard
      /\ qwen' = ClosedQwen /\ server' = NewServer /\ UNCHANGED <<stage, tools>>
  BY DEF QwenLost
<1>2. Gen' /\ Cut' /\ qwen' \in Qwen /\ ~qwen'.speech /\ server' \in Server
  BY <1>1, ClosedKeeps, ClosedIs
<1>3. CASE told
  <2>1. Reply(r)
    BY ApplyReply DEF IInv, Later, Event
  <2>. HIDE DEF r
  <2>2. /\ director' \in State /\ speech' \in Nat
        /\ finishing' \in {"no", "asked", "sent"} /\ seen' \in Seen
        /\ Dir' /\ EndIsComing' /\ GreetsOnce' /\ Greets'
    BY <1>1, <1>2, <1>3, <2>1, ReplyKeeps
  <2>3. TypeOK'
    BY <1>1, <1>2, <2>2 DEF IInv, TypeOK
  <2>. QED  BY <1>1, <1>2, <2>2, <2>3 DEF IInv
<1>4. CASE ~told
  BY <1>1, <1>2, <1>4, UnheardIInv
<1>. QED  BY <1>3, <1>4

LEMMA TimersExpireKeeps ==
  ASSUME IInv, NEW due, TimersExpire(due)
  PROVE  IInv'
<1>1. /\ qwen \in Qwen /\ server \in Server /\ TypeOK
      /\ tools.running =< tools.made
  BY DEF IInv, TypeOK
<1>. DEFINE r == ExpireDue(director, due)
<1>2. /\ Perform(r, qwen) /\ qwen' = QwenAfter(qwen, r.acts)
      /\ server' = ServerAfter(server, qwen, r.acts)
      /\ UNCHANGED <<stage, tools>> /\ director.phase # "closed"
  BY DEF TimersExpire
<1>3. Reply(r)
  BY <1>2, TimersReply DEF IInv
<1>. HIDE DEF r
<1>4. r.acts \subseteq ActionKind
  BY <1>3 DEF Reply
<1>5. qwen' \in Qwen /\ qwen'.speech = qwen.speech /\ Gen' /\ Cut'
  BY <1>1, <1>2, <1>4, AnsweredKeeps DEF SameResponse
<1>6. server' \in Server
  BY <1>1, <1>2, ServerAfterIs
<1>7. /\ director' \in State /\ speech' \in Nat
      /\ finishing' \in {"no", "asked", "sent"} /\ seen' \in Seen
      /\ Dir' /\ EndIsComing' /\ GreetsOnce' /\ Greets'
  BY <1>2, <1>3, <1>5, ReplyKeeps
<1>8. TypeOK'
  BY <1>1, <1>2, <1>5, <1>6, <1>7 DEF TypeOK
<1>. QED  BY <1>1, <1>2, <1>5, <1>7, <1>8 DEF IInv

LEMMA ToolStartsKeeps == IInv /\ ToolStarts => IInv'
<1>. SUFFICES ASSUME IInv, ToolStarts PROVE IInv'
  OBVIOUS
<1>1. qwen \in Qwen /\ server \in Server
      /\ tools \in [made: 0..MaxTools, running: 0..MaxTools] /\ tools.running =< tools.made
  BY DEF IInv, TypeOK
<1>2. /\ Hear("tool_request", qwen, server) /\ stage' = stage /\ tools.made < MaxTools
      /\ tools' = [made |-> tools.made + 1, running |-> tools.running + 1]
  BY DEF ToolStarts
<1>3. /\ tools' \in [made: 0..MaxTools, running: 0..MaxTools]
      /\ tools'.running =< tools'.made
  BY <1>1, <1>2, BoundsAssumption
<1>. QED  BY <1>1, <1>2, <1>3, HearKeeps DEF Later, Event, SameResponse

LEMMA ToolReturnsKeeps ==
  ASSUME IInv, NEW success \in BOOLEAN, ToolReturns(success)
  PROVE  IInv'
<1>1. qwen \in Qwen /\ server \in Server
      /\ tools \in [made: 0..MaxTools, running: 0..MaxTools] /\ tools.running =< tools.made
  BY DEF IInv, TypeOK
<1>. DEFINE e == IF success THEN "tool_success" ELSE "tool_failure"
            n == tools.running - 1
<1>2. /\ Hear(e, qwen, server) /\ stage' = stage /\ tools.running > 0
      /\ tools' = [tools EXCEPT !.running = n]
  BY DEF ToolReturns
<1>3. e \in Later /\ e # "user_speech_start"
  BY DEF Later, Event
<1>4. n \in 0..MaxTools /\ n =< tools.made
  BY <1>1, <1>2, BoundsAssumption
<1>. HIDE DEF e, n
<1>5. /\ tools' \in [made: 0..MaxTools, running: 0..MaxTools]
      /\ tools'.running =< tools'.made
  BY <1>1, <1>2, <1>4
<1>. QED  BY <1>1, <1>2, <1>3, <1>5, HearKeeps DEF SameResponse

\* The greeting: said once, by a job that was starting.
LEMMA ReadyKeeps == IInv /\ Ready => IInv'
<1>. SUFFICES ASSUME IInv, Ready PROVE IInv'
  OBVIOUS
<1>. DEFINE r == Apply(director, "session_ready")
            s == IF "speak_greeting" \in r.acts
                 THEN Apply(r.s, "greeting_started").s ELSE r.s
            a == R(s, r.acts)
<1>1. /\ stage = "starting" /\ stage' = "live" /\ Perform(a, qwen)
      /\ UNCHANGED <<qwen, server, tools>>
  BY DEF Ready
<1>2. TypeOK /\ Dir /\ Greets /\ GreetsOnce /\ Gen /\ Cut /\ seen \in Seen
  BY DEF IInv, TypeOK
<1>3. \/ Alive(director) /\ Alive(s) /\ "session" \in s.timers
         /\ r.acts \subseteq {"speak_greeting"}
         /\ ("speak_greeting" \in r.acts => ~director.early)
      \/ Ended(director) /\ s = director /\ r.acts = {}
  <2>1. CASE Alive(director)
    BY <2>1, ReadyOutcome
  <2>2. CASE Ended(director)
    <3>1. r = R(director, {})
      BY <2>2, ApplyEnded
    <3>2. r.s = director /\ r.acts = {}
      BY <3>1 DEF R
    <3>. HIDE DEF r
    <3>. QED  BY <2>2, <3>2
  <2>. QED  BY <1>2, <2>1, <2>2 DEF Dir
<1>4. a.s = s /\ a.acts = r.acts
  BY DEF R
<1>. HIDE DEF r, s, a
<1>5. a.acts \subseteq {"speak_greeting"} /\ ~CutBy(a) /\ "request_finish" \notin a.acts
  BY <1>3, <1>4 DEF CutBy
<1>6. a.acts \subseteq ActionKind
  BY <1>5 DEF ActionKind
<1>7. /\ director' = a.s /\ speech' \in Nat
      /\ finishing' \in {"no", "asked", "sent"}
      /\ finishing # "no" => finishing' # "no"
      /\ seen' \in Seen
      /\ seen'.asks = seen.asks + (IF "request_finish" \in a.acts THEN 1 ELSE 0)
      /\ seen'.greets = seen.greets + (IF "speak_greeting" \in a.acts THEN 1 ELSE 0)
      /\ seen'.spokeFirst = (seen.spokeFirst \/ (qwen.speech /\ seen.greets = 0))
      /\ seen'.cut = (qwen.active # None
           /\ (seen.cut \/ CutBy(a) \/ (seen.cutSay /\ qwen.active = None)))
      /\ seen'.cutSay = ((seen.cutSay /\ ~(qwen.active # None /\ qwen.active = None))
           \/ (CutBy(a) /\ qwen.active = None /\ qwen.say = "waiting"))
  BY <1>1, <1>2, <1>6, Performed
<1>8. director' = s
  BY <1>4, <1>7
<1>9. Dir'
  <2>1. seen.asks \in Nat /\ seen.asks = director.finishes
    BY <1>2 DEF Seen, Dir
  <2>2. seen'.asks = seen.asks
    BY <1>5, <1>7, <2>1
  <2>3. CASE Alive(director) /\ Alive(s)
    <3>1. ~Ended(s)
      BY <2>3 DEF Alive, Ended
    <3>2. s.finishes = director.finishes
      BY <2>3 DEF Alive
    <3>. QED  BY <1>8, <2>1, <2>2, <2>3, <3>1, <3>2 DEF Dir
  <2>4. CASE Ended(director) /\ s = director
    BY <1>2, <1>7, <1>8, <2>1, <2>2, <2>4 DEF Dir
  <2>. QED  BY <1>3, <2>3, <2>4
<1>10. EndIsComing'
  <2>1. CASE Alive(s) /\ "session" \in s.timers
    BY <1>8, <2>1 DEF EndIsComing, Alive
  <2>2. CASE Ended(director) /\ s = director
    BY <1>2, <1>7, <1>8, <2>2 DEF EndIsComing, Dir, Ended
  <2>. QED  BY <1>3, <2>1, <2>2
<1>11. GreetsOnce'
  <2>1. seen.greets = 0
    BY <1>1, <1>2 DEF Greets
  <2>2. CASE "speak_greeting" \notin a.acts
    BY <1>7, <2>1, <2>2 DEF GreetsOnce
  <2>3. CASE "speak_greeting" \in a.acts
    <3>1. Alive(director) /\ ~director.early
      BY <1>3, <1>4, <2>3
    <3>2. ~qwen.speech /\ ~seen.spokeFirst
      BY <1>1, <1>2, <3>1 DEF Greets
    <3>3. seen'.greets = 1
      BY <1>7, <2>1, <2>3
    <3>4. ~seen'.spokeFirst
      BY <1>7, <3>2
    <3>. QED  BY <3>3, <3>4 DEF GreetsOnce
  <2>. QED  BY <2>2, <2>3
<1>12. Greets'
  BY <1>1 DEF Greets
<1>13. Gen' /\ Cut'
  <2>1. Gen'
    BY <1>1, <1>2 DEF Gen, OneGeneration
  <2>2. Cut'
    BY <1>1, <1>2, <1>5, <1>7 DEF Cut
  <2>. QED  BY <2>1, <2>2
<1>14. TypeOK'
  <2>1. s \in State
    BY <1>3 DEF Alive, Ended
  <2>. QED  BY <1>1, <1>2, <1>7, <1>8, <2>1 DEF TypeOK
<1>. QED  BY <1>1, <1>9, <1>10, <1>11, <1>12, <1>13, <1>14 DEF IInv

LEMMA StartFailsKeeps == IInv /\ StartFails => IInv'
<1>. SUFFICES ASSUME IInv, StartFails PROVE IInv'
  OBVIOUS
<1>1. /\ stage' = "over" /\ finishing' = "sent" /\ speech' = 0
      /\ qwen' = ClosedQwen /\ server' = NewServer /\ UNCHANGED <<director, tools, seen>>
  BY DEF StartFails, QwenGone
<1>2. Gen' /\ Cut' /\ qwen' \in Qwen /\ server' \in Server
  BY <1>1, ClosedKeeps, ClosedIs
<1>3. TypeOK' /\ (tools.running =< tools.made)'
  BY <1>1, <1>2 DEF IInv, TypeOK
<1>4. Dir' /\ EndIsComing' /\ GreetsOnce' /\ Greets'
  BY <1>1 DEF IInv, Dir, EndIsComing, GreetsOnce, Greets
<1>. QED  BY <1>2, <1>3, <1>4 DEF IInv

LEMMA SessionClosesKeeps == IInv /\ SessionCloses => IInv'
<1>. SUFFICES ASSUME IInv, SessionCloses PROVE IInv'
  OBVIOUS
<1>1. /\ stage' = stage /\ finishing' = "asked" /\ speech' = 0
      /\ qwen' = ClosedQwen /\ server' = NewServer /\ UNCHANGED <<director, tools, seen>>
  BY DEF SessionCloses, QwenGone
<1>2. Gen' /\ Cut' /\ qwen' \in Qwen /\ ~qwen'.speech /\ server' \in Server
  BY <1>1, ClosedKeeps, ClosedIs
<1>3. TypeOK' /\ (tools.running =< tools.made)'
  BY <1>1, <1>2 DEF IInv, TypeOK
<1>4. Dir' /\ EndIsComing' /\ GreetsOnce' /\ Greets'
  BY <1>1, <1>2 DEF IInv, Dir, EndIsComing, GreetsOnce, Greets
<1>. QED  BY <1>2, <1>3, <1>4 DEF IInv

LEMMA RequestFinishKeeps == IInv /\ RequestFinish => IInv'
<1>. SUFFICES ASSUME IInv, RequestFinish PROVE IInv'
  OBVIOUS
<1>1. /\ finishing' = "sent" /\ tools' = [tools EXCEPT !.running = 0]
      /\ UNCHANGED <<stage, director, qwen, server, speech, seen>>
  BY DEF RequestFinish
<1>2. tools \in [made: 0..MaxTools, running: 0..MaxTools]
  BY DEF IInv, TypeOK
<1>3. /\ tools' \in [made: 0..MaxTools, running: 0..MaxTools] /\ tools'.running =< tools'.made
  BY <1>1, <1>2, BoundsAssumption
<1>4. TypeOK'
  BY <1>1, <1>3 DEF IInv, TypeOK
<1>5. Dir' /\ EndIsComing' /\ GreetsOnce' /\ Greets' /\ Gen' /\ Cut'
  BY <1>1 DEF IInv, Dir, EndIsComing, GreetsOnce, Greets, Gen, OneGeneration, Cut
<1>. QED  BY <1>3, <1>4, <1>5 DEF IInv

LEMMA JobEndsKeeps == IInv /\ JobEnds => IInv'
<1>. SUFFICES ASSUME IInv, JobEnds PROVE IInv'
  OBVIOUS
<1>1. /\ stage' = "over" /\ speech' = 0 /\ qwen' = ClosedQwen /\ server' = NewServer
      /\ UNCHANGED <<director, tools, finishing, seen>>
  BY DEF JobEnds, QwenGone
<1>2. Gen' /\ Cut' /\ qwen' \in Qwen /\ server' \in Server
  BY <1>1, ClosedKeeps, ClosedIs
<1>3. TypeOK' /\ (tools.running =< tools.made)'
  BY <1>1, <1>2 DEF IInv, TypeOK
<1>4. Dir' /\ EndIsComing' /\ GreetsOnce' /\ Greets'
  BY <1>1 DEF IInv, Dir, EndIsComing, GreetsOnce, Greets
<1>. QED  BY <1>2, <1>3, <1>4 DEF IInv

LEMMA NextIInv == IInv /\ [Next]_vars => IInv'
<1>. SUFFICES ASSUME IInv, [Next]_vars PROVE IInv'
  OBVIOUS
<1>1. CASE QwenNext
  BY <1>1, SessionUpdatedKeeps, SpeechStartedKeeps, TranscriptCompletedKeeps,
     SpeechStoppedKeeps, ForceEndSpeechTurnKeeps, BargeInConfirmKeeps,
     ResponseCreatedKeeps, AudioDeltaKeeps, ResponseDoneKeeps, CancelRefusedKeeps,
     CreateRefusedKeeps, SpeakNextKeeps, GiveUpSayKeeps, QwenLostKeeps
     DEF QwenNext
<1>2. CASE JobNext
  BY <1>2, ReadyKeeps, StartFailsKeeps, SessionClosesKeeps, RequestFinishKeeps,
     JobEndsKeeps, TimersExpireKeeps, ToolStartsKeeps, ToolReturnsKeeps DEF JobNext
<1>3. CASE UNCHANGED vars
  BY <1>3 DEF vars, IInv, TypeOK, Dir, EndIsComing, GreetsOnce, Greets, Gen,
              OneGeneration, Cut
<1>. QED  BY <1>1, <1>2, <1>3 DEF Next

-----------------------------------------------------------------------------
\* The theorems.

\* The invariant holds of every conversation, however long.
THEOREM Invariance == Spec => []IInv
BY InitIInv, NextIInv, PTL DEF Spec

\* Every variable keeps its type.
THEOREM TypeCorrect == Spec => []TypeOK
<1>1. IInv => TypeOK
  BY DEF IInv
<1>. QED  BY <1>1, Invariance, PTL

\* assert_invariants never raises inside Qwen's reader, and a conversation
\* that closes has asked for its finish exactly once.
THEOREM PolicyAssertsHolds == Spec => []PolicyAsserts
<1>1. IInv => PolicyAsserts
  <2>. SUFFICES ASSUME IInv PROVE PolicyAsserts
    OBVIOUS
  <2>1. seen.asks = director.finishes /\ (Alive(director) \/ Ended(director))
    BY DEF IInv, Dir
  <2>2. director.greetings \in {0, 1} /\ director.active \in {0, 1}
    BY <2>1 DEF Alive, Ended, State
  <2>3. director.greetings =< 1 /\ director.active =< 1
    BY <2>2
  <2>4. CASE Alive(director)
    BY <2>1, <2>3, <2>4 DEF PolicyAsserts, AssertInvariants, Alive
  <2>5. CASE Ended(director)
    BY <2>1, <2>3, <2>5 DEF PolicyAsserts, AssertInvariants, Ended
  <2>. QED  BY <2>1, <2>4, <2>5
<1>. QED  BY <1>1, Invariance, PTL

\* The greeting is said at most once, never to a caller who spoke first.
THEOREM GreetsOnceHolds == Spec => []GreetsOnce
<1>1. IInv => GreetsOnce
  BY DEF IInv
<1>. QED  BY <1>1, Invariance, PTL

\* A conversation that has begun always has its end ahead of it: the armed
\* session deadline, or the finish the job was asked for.
THEOREM EndIsComingHolds == Spec => []EndIsComing
<1>1. IInv => EndIsComing
  BY DEF IInv
<1>. QED  BY <1>1, Invariance, PTL

\* One generation at a time, and no list of suppressed ids that grows.
THEOREM OneGenerationHolds == Spec => []OneGeneration
<1>1. IInv => OneGeneration
  BY DEF IInv, Gen
<1>. QED  BY <1>1, Invariance, PTL

\* What the director cancelled is not played, created already or not.
THEOREM LateAudioDroppedHolds == Spec => []LateAudioDropped
<1>1. IInv => LateAudioDropped
  BY DEF IInv, Gen, Cut, LateAudioDropped
<1>. QED  BY <1>1, Invariance, PTL

=============================================================================
