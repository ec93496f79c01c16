------------------------- MODULE ConversationPolicy -------------------------
(***************************************************************************)
(* The rules of a telephone conversation (conversation.py): what each      *)
(* event does to the director's state and what it asks the session to do.  *)
(*                                                                         *)
(* A deadline is armed or not; when an armed one falls due is up to the    *)
(* clock (VoiceTurns!TimersExpire).  greeting_finished, tool_succeeded,    *)
(* last_activity_at and session_started_at are written and never read, and *)
(* the texts spoken are configuration, so they are left out.               *)
(***************************************************************************)
EXTENDS Naturals

CONSTANT MaxPrompts   \* VoiceUxSettings.max_silence_prompts

ASSUME MaxPromptsAssumption == MaxPrompts \in Nat

Phase == {"waiting_for_user", "user_speaking", "thinking",
          "assistant_speaking", "tool_running", "closing", "closed"}

\* The deadlines of ConversationState.
Timer == {"session", "limit", "bridge", "idle", "silence"}

\* The actions apply_ux performs; the others are trace marks.
ActionKind == {"speak_greeting", "speak_silence_prompt", "speak_polite_close",
               "speak_session_limit", "speak_tool_bridge",
               "speak_tool_failure", "cancel_assistant", "request_finish"}

State == [phase: Phase, greetings: {0, 1}, greetingStarted: BOOLEAN,
          prompts: Nat, finishes: {0, 1}, active: {0, 1}, tool: BOOLEAN,
          userSpeaking: BOOLEAN, early: BOOLEAN, suppressed: BOOLEAN,
          bridge: BOOLEAN, timers: SUBSET Timer,
          status: {"", "completed", "failed"}]

NewState == [phase |-> "waiting_for_user", greetings |-> 0,
             greetingStarted |-> FALSE, prompts |-> 0, finishes |-> 0,
             active |-> 0, tool |-> FALSE, userSpeaking |-> FALSE,
             early |-> FALSE, suppressed |-> FALSE, bridge |-> FALSE,
             timers |-> {}, status |-> ""]

\* What assert_invariants raises on.
AssertInvariants(s) ==
  /\ s.greetings =< 1 /\ s.active =< 1 /\ s.finishes =< 1
  /\ s.phase = "closed" => s.finishes = 1 /\ ~s.tool
  /\ s.phase = "closing" => ~(s.tool /\ s.finishes > 0)

-----------------------------------------------------------------------------

\* LEGAL_TRANSITIONS: a caller who is speaking is not talked over, and the
\* last two phases are left in one direction only.
CanTransition(p, q) ==
  /\ p # q
  /\ p = "user_speaking" => q \notin {"assistant_speaking", "tool_running"}
  /\ p = "closing" => q = "closed"
  /\ p # "closed"

\* _enter: an illegal change of phase is dropped without a word.
Enter(s, p) == IF CanTransition(s.phase, p) THEN [s EXCEPT !.phase = p] ELSE s

Arm(s, ts)    == [s EXCEPT !.timers = @ \cup ts]
Disarm(s, ts) == [s EXCEPT !.timers = @ \ ts]

R(s, acts) == [s |-> s, acts |-> acts]

\* Slip: a tool that still runs is not forgotten.
FinishKeepsTool(s, st) ==
  IF s.finishes >= 1
  THEN R(Enter(s, "closed"), {})
  ELSE R([s EXCEPT !.phase = "closed", !.finishes = 1, !.status = st,
                   !.active = 0, !.userSpeaking = FALSE, !.timers = {}],
         {"request_finish"})

\* _finish: straight through "closing" to "closed".
Finish(s, st) ==
  IF s.finishes >= 1
  THEN R(Enter(s, "closed"), {})
  ELSE R([s EXCEPT !.phase = "closed", !.finishes = 1, !.status = st,
                   !.tool = FALSE, !.active = 0, !.userSpeaking = FALSE,
                   !.timers = {}],
         {"request_finish"})

-----------------------------------------------------------------------------
\* The handlers.

\* Slip: the caller who spoke first is greeted all the same.
SessionReadyGreets(s) ==
  LET started == Arm(s, {"session", "idle"})
  IN  IF started.greetings >= 1 \/ started.greetingStarted
      THEN R(started, {})
      ELSE R(Arm([started EXCEPT !.phase = "assistant_speaking",
                    !.greetingStarted = TRUE, !.greetings = 1, !.active = 1],
                 {"limit"}), {"speak_greeting"})

\* Slip: with a caller who spoke first, no deadline is set.
SessionReadyUnlimited(s) ==
  IF s.early
  THEN R(Enter([s EXCEPT !.greetingStarted = TRUE, !.userSpeaking = TRUE],
               "user_speaking"), {})
  ELSE R(Arm([s EXCEPT !.phase = "assistant_speaking", !.greetings = 1,
                 !.greetingStarted = TRUE, !.active = 1],
             {"session", "idle", "limit"}), {"speak_greeting"})

SessionReady(s) ==
  LET started == Arm(s, {"session", "idle"})
      greeted == Arm([started EXCEPT !.phase = "assistant_speaking",
                        !.greetingStarted = TRUE, !.greetings = 1,
                        !.active = 1], {"limit"})
  IN  IF started.greetings >= 1 \/ started.greetingStarted
      THEN R(started, {})
      ELSE IF started.early
      THEN R(Enter([started EXCEPT !.greetingStarted = TRUE,
                                   !.userSpeaking = TRUE], "user_speaking"), {})
      ELSE R(IF \/ s.phase = "assistant_speaking"
                \/ CanTransition(s.phase, "assistant_speaking")
             THEN greeted ELSE started, {"speak_greeting"})

GreetingStarted(s) ==
  R([s EXCEPT !.greetingStarted = TRUE, !.greetings = 1], {})

GreetingFinished(s) ==
  R(Arm(Enter(Disarm([s EXCEPT !.active = 0], {"limit"}), "waiting_for_user"),
        {"silence", "idle"}), {})

UserSpeechStart(s) ==
  LET talking == s.phase = "assistant_speaking" \/ s.active # 0
      heard == [Disarm(s, {"silence"}) EXCEPT !.userSpeaking = TRUE,
                  !.early = ~s.greetingStarted, !.suppressed = talking]
      quiet == IF talking THEN Disarm([heard EXCEPT !.active = 0], {"limit"})
                          ELSE heard
  IN  IF s.phase = "closing" THEN R(s, {})
      ELSE R(Enter(Arm(quiet, {"idle"}), "user_speaking"),
             IF talking THEN {"cancel_assistant"} ELSE {})

UserSpeechEnd(s) ==
  LET done == [s EXCEPT !.userSpeaking = FALSE]
  IN  IF s.phase = "closing" THEN R(done, {})
      ELSE R(Arm(Enter(done, "thinking"), {"idle"}), {})

\* Only accepted finals reach the director: the gate in front of it has
\* dropped the others.
TranscriptFinal(s) ==
  R(Arm(Enter([s EXCEPT !.userSpeaking = FALSE], "thinking"), {"idle"}), {})

\* Slip: generations are counted up.
AssistantResponseStartCounts(s) ==
  IF s.phase = "closing" THEN R(s, {"cancel_assistant"})
  ELSE IF s.suppressed THEN R(s, {})
  ELSE R(Arm(Enter(Disarm([s EXCEPT !.active = @ + 1, !.bridge = FALSE],
                          {"silence", "bridge"}), "assistant_speaking"),
             {"limit", "idle"}), {})

\* Also the handler of the first audio, which arrives with every delta.
AssistantResponseStart(s) ==
  IF s.phase = "closing" THEN R(s, {"cancel_assistant"})
  ELSE IF s.suppressed THEN R(s, {})
  ELSE R(Arm(Enter(Disarm([s EXCEPT !.active = 1, !.bridge = FALSE],
                          {"silence", "bridge"}), "assistant_speaking"),
             {"limit", "idle"}), {})

AssistantResponseDone(s) ==
  LET cleared == Disarm([s EXCEPT !.active = 0, !.suppressed = FALSE],
                        {"limit"})
  IN  IF s.userSpeaking \/ s.phase \in {"user_speaking", "closing"}
      THEN R(cleared, {})
      ELSE R(Arm(Enter(cleared, "waiting_for_user"), {"silence", "idle"}), {})

ToolRequest(s) ==
  IF s.phase = "closing" THEN R(s, {})
  ELSE R(Arm(Enter(Disarm([s EXCEPT !.tool = TRUE, !.bridge = FALSE],
                          {"silence"}), "tool_running"),
             {"bridge", "idle"}), {})

ToolResult(s, success) ==
  LET after == Disarm([s EXCEPT !.tool = FALSE, !.bridge = FALSE], {"bridge"})
  IN  IF success
      THEN R(Arm(Enter(after, "waiting_for_user"), {"silence", "idle"}), {})
      ELSE R(Arm(Enter([after EXCEPT !.active = 1], "assistant_speaking"),
                 {"idle"}), {"speak_tool_failure"})

SilenceTimer(s) ==
  IF s.userSpeaking \/ s.phase # "waiting_for_user"
  THEN R(Disarm(s, {"silence"}), {})
  ELSE IF s.prompts >= MaxPrompts
  THEN R(Finish(s, "completed").s,
         {"speak_polite_close"} \cup Finish(s, "completed").acts)
  ELSE R(Arm([s EXCEPT !.prompts = @ + 1, !.active = 1], {"silence", "idle"}),
         {"speak_silence_prompt"})

\* A deadline that is passed over here stays armed, and due.
IdleTimer(s) ==
  IF \/ s.tool \/ s.phase = "tool_running"
     \/ s.phase = "assistant_speaking" /\ s.active # 0
     \/ s.userSpeaking
  THEN R(s, {})
  ELSE Finish(s, "completed")

SessionTimer(s) ==
  R(Finish(s, "completed").s,
    {"speak_session_limit"} \cup Finish(s, "completed").acts)

AssistantLimitTimer(s) ==
  LET off == Disarm(s, {"limit"})
  IN  IF s.phase # "assistant_speaking" THEN R(off, {})
      ELSE R(Arm([off EXCEPT !.phase = "waiting_for_user", !.active = 0,
                             !.suppressed = TRUE], {"silence", "idle"}),
             {"cancel_assistant"})

ToolBridgeTimer(s) ==
  LET off == Disarm(s, {"bridge"})
  IN  IF s.phase # "tool_running" \/ ~s.tool THEN R(off, {})
      ELSE IF s.bridge THEN R(s, {})
      ELSE R([off EXCEPT !.bridge = TRUE], {"speak_tool_bridge"})

-----------------------------------------------------------------------------

Event == {"session_ready", "greeting_started", "greeting_finished",
          "user_speech_start", "user_speech_end", "transcript_final",
          "assistant_response_start", "assistant_response_done",
          "tool_request", "tool_success", "tool_failure",
          "provider_lost", "hangup"} \cup Timer

\* ConversationPolicy.apply: nothing happens to a closed conversation.
\* "provider_lost" is PROVIDER_DISCONNECT and PROVIDER_ERROR, "hangup" is
\* PARTICIPANT_DISCONNECT and HANGUP; an interrupt is a speech start.
Apply(s, e) ==
  IF s.phase = "closed" THEN R(s, {})
  ELSE CASE e = "session_ready"            -> SessionReady(s)
         [] e = "greeting_started"         -> GreetingStarted(s)
         [] e = "greeting_finished"        -> GreetingFinished(s)
         [] e = "user_speech_start"        -> UserSpeechStart(s)
         [] e = "user_speech_end"          -> UserSpeechEnd(s)
         [] e = "transcript_final"         -> TranscriptFinal(s)
         [] e = "assistant_response_start" -> AssistantResponseStart(s)
         [] e = "assistant_response_done"  -> AssistantResponseDone(s)
         [] e = "tool_request"             -> ToolRequest(s)
         [] e = "tool_success"             -> ToolResult(s, TRUE)
         [] e = "tool_failure"             -> ToolResult(s, FALSE)
         [] e = "provider_lost"            -> Finish(s, "failed")
         [] e = "hangup"                   -> Finish(s, "completed")
         [] e = "silence"                  -> SilenceTimer(s)
         [] e = "idle"                     -> IdleTimer(s)
         [] e = "session"                  -> SessionTimer(s)
         [] e = "limit"                    -> AssistantLimitTimer(s)
         [] e = "bridge"                   -> ToolBridgeTimer(s)

\* One of the deadlines that were due.
Expire(r, t, due) ==
  IF t \notin due THEN r
  ELSE R(Apply(r.s, t).s, r.acts \cup Apply(r.s, t).acts)

\* ConversationDirector.expire_due: the deadlines that were due when it
\* began, in its order; a closed conversation ignores the rest.
ExpireDue(s, due) ==
  LET first  == Expire(Expire(R(s, {}), "session", due), "limit", due)
      second == Expire(Expire(first, "bridge", due), "idle", due)
  IN  Expire(second, "silence", due)

=============================================================================
