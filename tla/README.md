# YinoVoice in TLA+

Specifications of the parts of YinoVoice in which several parties share state:
the telephone conversation of the voice agent, the way a call travels from the
agent into its record and on to Call Insights, booking, the configuration of a
voice agent instance, the analysis jobs of Call Insights and its report mail.
TLC checks them on small instances; TLAPS proves the central properties for
every value of the constants. Paths below are relative to the repository root.

## 1. The system

| Part | State it keeps | Operations | Talks to |
|---|---|---|---|
| Voice agent (`apps/runtime/voice-agent`, a LiveKit job process for each call) | in memory: conversation phase, deadlines and flags; the Qwen session's active and suppressed responses; record id, buffer of messages, finish flags | turns with the Qwen realtime model, barge-in, timers, tool calls; start, append, finish of the call record | Qwen (websocket), API (HTTP, 5 s timeout), LiveKit |
| Control-plane API (`apps/control-plane/api`, FastAPI) | Postgres: `call_records`, `call_messages`, `insights_dispatch_jobs`, `appointments`, `callback_tasks`, `tool_invocations`, `voice_agent_instances`, `instance_config_revisions` | call sessions (start, messages, finish), tools and booking, intent extraction, dashboard edits, publish and roll back, delete and purge, drain loop to Call Insights | LiveKit (recording), Call Insights |
| Call Insights, analysis (`apps/call-insights/src`, Node) | SQLite (WAL): `events`, `calls`, `jobs`, `analyses`; one directory of reports for each call | webhook and ingest routes, `AnalysisWorker` (poll, claim, analyse, report, plan mail, succeed or fail, retry), lease recovery at start, manual retry, shutdown, the replay CLI on the same database | AI provider, mail outbox |
| Call Insights, mail (`tools/mail`) and retention (`scripts/retain-runtime.ts`) | `mail_outbox`, `runtime_metadata` | claim, SMTP, verdict, lease recovery; removal of calls after 90 days | the outbox the planner fills; SMTP server |
| Web (`apps/control-plane/web`, Vue) | none | pages over the API | API |
| Packages, contracts, deployment, scripts | formats, one-shot I/O | | |

What is hard, and what makes each part correct:

* *Conversation.* Qwen's events, the caller's speech, five timers, tool results
  and the end of the job meet on one event loop in any order; a cancel and the
  response it was meant for cross each other on the wire; a text is asked for
  before its response exists. Correct means: the policy's assertions never fire
  inside the reader, cancelled speech stays silent, the greeting is said once
  and not over the caller, one generation at a time, and every conversation is
  bound to end.
* *Call sessions.* The API reads a record, awaits, and saves it back whole,
  without a version column or lock; the agent times out, cancels and closes its
  client while a handler runs on. Several callbacks ask for the finish at once.
  Correct means: one finish, one record, an ended call stays ended, and the
  transcript that is stored and queued is the whole one.
* *Delivery to Call Insights.* At-least-once sending from a table without lease,
  with finishes that race and calls that are reopened. Correct means: one event
  for each call, nothing that ended is left out but where finishes overlap, every
  job settles.
* *Tools and booking.* Check, write and the idempotency entry are transactions of
  their own; the agent stops waiting after five seconds; tools, extraction and
  staff write the same tables. Correct means: slots, rows and answers agree
  wherever requests do not overlap.
* *Configuration.* Edits and rollbacks are protected by a version, publications
  by a unique number, purges by foreign keys. Correct means: no update is lost,
  revisions are numbered in the order of their contents.
* *Analysis jobs.* Two operating-system processes (server, replay CLI) share
  one SQLite file. There is no owner token in a job, only a status and a lease
  of 15 minutes that nobody renews. Correct means: one owner at a time, success
  only with report and mail in place, success is final, automatic retries end,
  duplicate webhooks do not make second jobs, pending jobs get a result.
* *Mail.* The SMTP server's acceptance and the row that records it cannot be one
  transaction. Correct means: never accepted twice, an honest verdict, bounded
  attempts, and a verdict for every message also when its sender vanished.

PROJECT.json lists every hazard at its line with the properties that cover it.

## 2. Modules

| Module | Models |
|---|---|
| `ConversationPolicy` | `conversation.py`: what each event does to the director's state and asks for; no variables |
| `VoiceTurns` | one conversation: Qwen session, director, tools, job; composes `ConversationPolicy` |
| `CallSession` | agent's lifecycle client and the API's call-session handlers |
| `CallDispatch` | finish handlers, queue of ended calls, drain loops |
| `Booking` | tools, extraction and staff on appointments and callback tasks |
| `InstanceConfig` | edit, publish, roll back, delete, restore, purge of an instance |
| `InsightsJobs` | ingestion, worker, pipeline, planner, server life cycle, replay CLI |
| `MailPromise` | what report mail promises, without workers, leases or retries |
| `MailOutbox` | planner rows, mail workers, retention; refines `MailPromise` |
| `VoiceTurnsProofs`, `CallSessionProofs`, `CallRecordProofs`, `CallDispatchProofs`, `BookingProofs`, `InstanceConfigProofs`, `InsightsJobsProofs`, `MailOutboxProofs` | theorems |
| `MC...` | values of constants for TLC |

An ended call passes through three of them: `VoiceTurns` decides that it ends
(`finishing`), `CallSession` records it and queues its job, `CallDispatch` carries
jobs to Call Insights, whose ingestion `InsightsJobs` begins with. Each module
repeats of its neighbour only what it needs: `CallDispatch` its record saves,
`CallSession` a queued flag, `VoiceTurns` a finish that has its answer.

### ConversationPolicy and VoiceTurns

A policy state is the record `State`, the fields of `ConversationState`; a handler
`_on_...` is an operator of the same name from a state to `R(s, acts)`, the new
state and the set of actions `apply_ux` performs. Deadlines are a set of armed
timers: when an armed one is due is the clock's choice, and `ExpireDue` handles
those that were due in the order of `expire_due`, each seeing what the last did.
`Enter` drops an illegal change of phase without a word, as `_enter` does.

In `VoiceTurns`, `qwen` are the fields of `QwenRealtimeSession`, `server` is what
Qwen's server knows and what is on its way (external), `speech` counts the texts
LiveKit has been asked to say (external: one at a time), `tools` the calls
without a result, `finishing` how far `request_finish` is. One action is one
callback of the event loop with everything it calls: `Hear` passes an event
through the director and back into the session (`Perform`, `QwenAfter`,
`ServerAfter`), because `_notify_conversation` is synchronous. So a response that
is created may be cancelled by the answer of the director within the same
action. Audio levels, noise gates and echo are free choices of the actions
(`SpeechStopped(valid)`, `BargeInConfirm(confirmed)`). Turns are detected by the
server (`session.py:18`); the branches for a client that detects them are never
taken and not modelled. `seen` is history for the properties.

### CallSession

One call, two sides. The agent's variables are the fields of
`CallLifecycleClient` (`recordId`, `buffer`, `committed`) and of the orchestrator
(`said`, `closing`); `phase` is what the holder of `_write_lock` does, `waiting`
the tasks that queue for it, and `caller[k]` how far each caller of
`request_finish` is in the two critical sections of `finish`. `req` holds each
HTTP request and how far its handler got; `cur` is the one the agent awaits. A
handler runs from one await that matters to the next: look-up and insert of a
start, the recording call and the second save after it, read and save of append
and finish, and the dispatch job. `Save` is
`PostgresCallRecordRepository.save` at its commit, under READ COMMITTED:

* the UPDATE carries only columns that differ from the row as it was loaded, so
  a save that writes an unchanged `in_progress` may or may not overwrite a
  concurrent end;
* the messages are deleted and inserted again: rows committed after the DELETE
  survive beside the new ones, or their keys collide and the save fails.

A request leaves the agent's sight in three ways: the answer takes more than five
seconds, the awaiting task is cancelled (`mark_closed`), or the shared client is
closed. In each the handler goes on, and the history variable `abandoned` notes
it. `missed` notes messages the agent gave up: no answer, cancelled, or dropped
from a full buffer; a message the API *refused* is not in it.

Simplifications: `get` reads the row and its messages in one step (the code uses
two SELECTs); the reason of the end (`completed`, `interrupted`, `failed` and its
ranking) is one value "ended"; the dispatch job gets the messages the finish read
first, which are those its save read again while nothing was abandoned, the case
`QueuedIsTranscript` is about (`CallDispatch` has both reads); recording columns are left out, their save is
not; intent extraction after the finish is in `Booking`.

### CallDispatch

A finish stands for the end it records and for the event id computed from it, so
a job is named by its finish. `record` keeps of a call whether it is in progress
and whether there are messages; `appends` is one transcript line of each call that
read the record early and may save it late, which reopens the call. A save is two
steps, as in `Booking`: the second read (`FinishReadsAgain`, `AppendReadsAgain`)
decides whether the status is written and which messages `save` returns (the
sessions do not expire on commit, and a loaded collection is not loaded again);
the second step replaces the messages, except those committed while it deletes.
`Enqueue` is `try_enqueue_ended_call` with the unique `call_id`. `Claim` reads the
oldest due job and marks nothing; `Post` chooses the answer and, independently
of it, whether a request without an answer was ingested; `Mark` writes whatever
the loop holds. Times are the facts the query asks for (`due`). One API process
is deployed; the model has as many loops as `Drainer`, because nothing in the
code relies on one. `mark_retry` and `mark_failed` read their row first too; a
mark of another loop in between has the effect of one before or after both, so
`Mark` is one step. Calls of instances without an Insights profile queue nothing
and are left out.

### Booking

A request stands for the row it creates. `req[q].stage` is the next transaction
of its handler: "key" (idempotency key), "session" (an earlier successful write),
"check" (`ensure_slot_available`), "write", "store" (the invocation) for a tool;
"bind", "existing" and then the same for an extraction; "check", "write" for a
booking by the staff; "read", "check", "save", "flush" for an edit or a
cancellation. `Answer` may lose the answer of a tool (five seconds) and never
anybody else's. `before` is history: who was through when whose request arrived;
the properties are about such pairs, because for requests that overlap the code
promises nothing.

A slot is a pair of times and its start and end are columns of their own: a PATCH
names either or both (`patch`, merged into the row read first), and `save` takes
two steps. `SaveReads` is the second read, at READ COMMITTED, which fixes the
columns the UPDATE will carry (`diff`); `SaveWrites` is that UPDATE on the row as
it is by then, and the check constraint `slot_end >= slot_start`, which can refuse
it. So of two edits of one row each may keep columns of the other: the slot then is
one that neither has checked, and a cancellation may be undone or an edit dropped.
`rows[p].by` is history, the last request that changed a column of `p`. Opening hours,
grid, notice and horizon (`services/availability.py`) are a free refusal in
`Check`: no property depends on which free slots are refused.

### InstanceConfig

A content is named by the request that wrote it. An edit or rollback begins when
its author loads the instance (`Opens`, the `expected_version` of the form) and its
handler later reads it again (`Begin`). `Save` is the repository's: an UPDATE in the
version that was read, and an INSERT where no row is left. `PickNumber` and `Add`
are the two transactions of `record_snapshot`. `HardDelete` meets the foreign keys
of `call_records` and `instance_config_revisions`. `revived` is history: a save has
inserted a purged instance again.

### InsightsJobs

`status`, `attempts`, `lastError`, `jobId` and `expired` are the columns of
`jobs`; `event` the `events` table; `analysed`, `report` and `outbox` the results
of a run. `pc`, `work`, `fault` are a process's place in `processNextJob`, its
job, and the error its `catch` holds. One action is one synchronous stretch of
the Node process that another process can see as a whole: each SQLite
transaction, and each await of the pipeline, is a boundary. So `FailJob`,
`CheckRetry` and `RetryJob` are three steps (two transactions and the read
between them) and `BeginReport`, `FinishReport` two (manifest removed, manifest
written). `Ingest` performs all of `ingest`: event, call and job rows. `Crash`
strikes between any two steps; `LeaseExpires` stands for the clock. `Catch` sends
an error to the place of the `catch` clause with its category, because only the
category decides about a retry.

### MailOutbox and MailPromise

`row`, `attempts`, `due`, `expired`, `aged` are a `mail_outbox` row; times are
replaced by the facts the queries ask for (`next_attempt_at <= now`, lease older
than the cutoff, older than retention). `pc`, `work`, `verdict` are a worker in
`runOnce`. `accepted` counts what the SMTP server took, which the program cannot
see. `SendMail` chooses among acceptance, acceptance whose answer is lost, a
temporary and a permanent refusal; `Decide` keeps the status that follows from
it, and `Record` or `RecordThrows` writes it. The analysis job is reduced to
what retention and planning see of it (`job`); its full behaviour is
`InsightsJobs`. The refinement maps pending and sending to "open".

## 3. Runs

| Run | Instance | States | Shows |
|---|---|---|---|
| `voice_turns` | 2 responses, 1 tool call, 1 silence prompt | 0.58 M | policy assertions, cancelled audio, greeting, one generation, bound to end |
| `call_session` | inbound recorded call, 3 messages, buffer of 2, 2 callers of finish, 2 faults | 0.40 M | one finish, one record, whole and unharmed transcript; `HangUpSettles` |
| `call_dispatch` | 2 calls, one with a late line, 2 finishes, 2 loops, 2 faults | 0.62 M | one event for each call, nothing left out, sent is final; `JobsSettle` |
| `booking` | 3 starts (see below), 4 requests, times 0 to 4, 2 slots to ask for, 1 call, 1 fault, symmetry | 1.8 M | slots, rows and answers |
| `instance_config` | 4 requests, symmetry | 1.1 M | no lost update, numbered in order |
| `insights_jobs` | 1 call, events e1 and e2 of it and a skipped e4, one server, one replay CLI, 4 claims, 2 faults | 1.0 M | single owner, whole report, queued mail, retry budget, idempotent ingestion, final success |
| `insights_live` | 2 calls, 1 server, 2 attempts, 3 claims, 1 fault | 0.58 M | `PendingDrains` |
| `mail_outbox` | 1 call, its customer mail, 2 workers, 3 attempts, 3 faults, call delivered again after retention, shadow then live | 59 k | at most once, honest verdict, attempts, refinement; `MailSettles` |
| `replay_reports` | 2 calls, 1 server, 1 replay CLI, no fault | | violation, see section 5 |
| `retention` | no mail worker | | violation |
| `reopened_call` | web call, 1 message, no fault | | violation |
| `purge` | 2 requests | | violation |

Bounds.

* `voice_turns`: two responses are a response that is cancelled and the one that
  comes after it, with a late cancel, a text in between and an answer to a turn;
  one tool call is a tool that fails, succeeds or never returns. One prompt is a
  silence that prompts and one that closes. `director.prompts` and `seen` stay
  bounded because a silence timer beyond the last prompt ends the conversation.
* `call_session`: a buffer of 2 with 3 messages overflows. `MaxRequests`
  (2 * `MaxFinals` + 3) is no restriction: at most two starts and one finish, and
  each message is posted twice at most (when spoken and in one flush, or in the
  two flushes of a retried start). Theorem `RequestsSuffice` proves it: whenever
  the agent is about to post, a request, and where needed a start, is left.
* `call_dispatch`: two finishes can race for one call, or end two; the late line
  of one call can be its first or another; two loops can hold one job; two faults
  are a lost answer and a restart.
* `booking`: from the empty database, where the fault is a booking that died,
  three requests are to come, the least with an edit between two others, or an
  extraction after a tool and beside another. From two booked appointments two
  are to come, with a fault: two edits of one row whose mixed columns clash with
  the other, or would end before they start, and an edit beside a cancellation.
  The two starts with bookings are reached from `Init` by requests of the staff
  that follow each other; three edits of one row are left to the proof, which
  covers every set of times and requests.
* `instance_config`: two publications around a rollback with an edit between
  them; a purge, an open edit that revives and two requests after it.
* `insights_jobs`: `MaxClaims` bounds `attempts`, which manual retries and
  recoveries let grow for ever; it exceeds `MaxAttempts`, so exhaustion and
  claims beyond it occur. One job suffices for races between owners, because no
  statement of the store touches two jobs except the claim order, and two jobs
  are used where that order matters (`insights_live`, `replay_reports`). Two
  faults allow a crash during the recovery from a crash.
* `mail_outbox`: two workers allow a lease to run out under a live sender. One
  kind of mail suffices: rows of different kinds share nothing but the call.
  `MaxAttempts` is lowered from 5 to 3: its only use is the comparison.

`CHECK_DEADLOCK FALSE` everywhere: webhooks stop, calls end, requests run out.

Fairness. Jobs: systemd restarts a server, its interval timer keeps calling
`runOnce`, every provider request has a timeout; a started CLI runs on; no
webhook and no operator is obliged to act. Mail: the worker is restarted, its
timer ticks, SMTP calls return, time passes. Sessions: the event loops of agent
and API run each task that can go on; speech, hang-up, failures and the closing
of the client are not forced. Dispatch: the loop wakes every two seconds for as
long as the process lives and systemd restarts it, a post ends after ten
seconds, the time of a job comes; finishes and transcript lines are not forced.
All of it is weak fairness. `VoiceTurns`, `Booking` and `InstanceConfig` state no
fairness: that a conversation ends is stated as the safety property that its
session deadline is armed (`EndIsComing`), and a request that stops half way is a
case of the other two.

Every property of a passing run has a mutant: an alternative definition, marked
"Slip" in the module, that a plausible change to the code would produce and that
TLC must find in violation.

## 4. Theorems

For all values of the constants, from the named assumptions on them.

*VoiceTurnsProofs.* First the policy alone: an event that meets a living
conversation leaves it alive with its session deadline, or ends it and asks for
the finish (`Outcome`); `ApplyOutcome` says so of every event, `ExpireDueOutcome` of
any set of deadlines that are due at once. Then `IInv`: the director is alive or
ended and has asked as often as it has finished (`Dir`); until the session is ready
nothing is said and a caller who speaks is remembered (`Greets`); one generation
(`Gen`); and what was cut is suppressed, or a cancel is pending that will suppress
it when it is created (`Cut`). `Cut` is what makes `LateAudioDropped` inductive: a
cancel before the response exists has to survive until `ResponseCreated`. Every
action that lets the director hear something goes through `ReplyKeeps` and
`AnsweredKeeps` (`HearKeeps`). All properties of the run are theorems.

*CallSessionProofs.* `IInv` is the type, `WireInv` (an open request says what it
is about, the awaited one is open), `PhaseInv` (the holder of the lock awaits what
its phase says) and `FinishInv`. The last carries `OneFinishRequest`: at most one
caller is past the second critical section, none once `committed` is set, and a
/finish that exists means that the sender is done with its flushes. Every step is
first reduced to one of five shapes of change to the requests (`WireStep`).

A second part is about the way to the end. `ClosingInv`: once the end is wanted
nothing is waiting to be said, and until it is committed some caller of
`request_finish` is on its way. `CountInv` counts the requests: one start, one post
for each message, and at the end one start again, two rounds over the buffer and
one finish; it gives `RequestsSuffice`. `Rank` bounds the steps left for what is
buffered. `SomebodyFinishes` (somebody responsible can go on) and
`EndComesNearer` (each step of the agent lowers the rank, no failure raises it)
are the safety core of `HangUpSettles`; what remains to TLC is that fairness turns
"can go on" into "goes on". The choice of a sender lowers no rank, but can happen
once for each caller only.

*CallRecordProofs.* `RInv` adds what relates requests to records. `RecordInv`: a
start has a number of its own until its insert, everything else is about an
existing record. `QuietInv`: while nothing was abandoned, only the awaited request
is being handled, and the copy its handler read is still what the record holds.
That is what makes whole-record saves harmless, and `OneRecord` (an insert while
the call has no other handler cannot follow its end), `NothingUndone` and
`QueuedIsTranscript` follow. Each handler is shown once to keep its request and its
record in order (`Keeps`), each agent step to close, lose or post a request
(`Fades`, `PostKeeps`).

`WholeTranscript` follows the messages: while none was missed and no request
abandoned, every message said is stored, awaited, waiting, in the batch of the
flush or in the buffer, each once and in the order spoken (`FaithInv`). `CourseInv`
says which of these can be in use in which phase. A message that the API refuses
because of its number does not count as missed, so the proof has to show that
none is refused: what is posted is always the next message the record needs.

*CallDispatchProofs.* Everything rests on the unique call of a job: a queued job
belongs to a finish that is through and is the only one of its call (`Unique`), so
what was ingested is what is queued (`Delivery`). A finish that began with
messages still finds them when its save reads again, and still has them when it
comes to the queue, unless a finish it overlapped removed them (`Talks`); that
two finishes overlap is read off what each found to be through when it began
(`After`). That a sent job stays sent needs
to know in whose hands it is (`Hands`): a job that is no longer pending and was
never in two hands is in nobody's. With one loop, as the process is deployed,
the marking of shared jobs stays empty, and `SettledIsFinalWithOneLoop` needs no
exception: the updates of `mark_sent`, `mark_retry` and `mark_failed`, which do not
look at the status, never meet a job that has settled.

*BookingProofs.* `Guarded`: a request that has passed its check holds a slot that
clashes only with rows whose last writers it overlapped: whoever writes after the
check was not through when the request came. What an UPDATE leaves is the checked
slot unless somebody else changed the row since it was read
(`Agrees`, `Steady`), and that somebody is an edit or a cancellation that
overlapped: the row counts as `Mixed`. `Undone` follows a cancellation in the same
way, from a row that is no longer held back to a finished request that cancelled it.
`Kept`: a request that began when an earlier one of its call had left a row to be
found is at a stage where it still looks for it, or through, and has no row. The rest is bookkeeping: the stages of each kind
and the row an edit has read (`Course`), who has a row (`Written`), and what
invocations say (`Log`).

*InstanceConfigProofs.* `Gapless`: no number below a revision or a picked number
is missing. `Versions`: as long as no purged instance was revived, the row has the
highest version anybody has seen or recorded, and a request that has seen it has
seen its content. `Order`: what was recorded before a handler began has no higher
version and a lower number than what the handler records. `PublishedInOrder` and
`NoLostUpdate` follow. `NoLostUpdate` excepts instances that were purged and
revived. `KeepInv` shows that there are none among those the API creates with
their first revision, because `hard_delete` meets the foreign key: `NeverPurged`,
and `EveryUpdateKept`, which is `NoLostUpdate` without the exception. The exception
is for rows without a revision: seeded ones, or ones whose snapshot failed.

*InsightsJobsProofs.* `TypeInv` (the type and `Registers`: what `work`, `fault`
and `target` can be at each `pc`) is inductive by itself. `OneOwner` is not: a
step needs to know that a process at work holds a *running* job, so that a claim,
which takes a pending one, cannot meet another owner; `OwnerInv` says so while no
lease was overrun. `SucceededIsFinal` follows from the guards of the status
updates (`succeedJob`, `failJob` and release demand "running") under `TypeInv`,
overrun leases included. `QueueInv` carries the queued mail from `PlanOutbox` to
`SucceedJob` through other processes' steps, `ReportInv` the same for analysis
and report, where it needs `OwnerInv`: a second owner would remove the manifest.
`IngestInv` relates events and jobs and needs a cardinality argument on the set
of accepted events. `BudgetInv` counts: every claim that has ended pays for at
most one failure, every failure for at most one retry of the workers' own, and
a process between `failJob` and `retryJob` has its claim still to spend. So the
number of automatic retries stays below `MaxAttempts` although the updates
compare `attempts`, which manual retries and recoveries raise as well. With no
replay CLI `EveryReportQueued` is a theorem too
(`EveryReportQueuedWithoutReplay`). With one server as well, recovery happens
only when nobody is at work, and `WholeReport` needs no exception
(`NoOverrunWithOneServer`).

*MailOutboxProofs.* `IInv` is the type, `Flights` (the row of a worker in flight,
and two workers never on one row unless its lease ran out), `Knowledge` (what a
held verdict says about acceptance) and `RowFacts` (what each status says about
acceptance and attempts). `AcceptedOnce`, `HonestVerdict` and `AttemptsBounded`
follow, and with `IInv` each step of `MailOutbox` is a step of `MailPromise` or
leaves its variables unchanged (`Implementation`). With one worker, the
deployment of the service file, the row of a live sender stays "sending" for as
long as SMTP takes, and what the sender decided is what is written unless it
crashes or SQLite fails (`VerdictLandsWithOneWorker`).

Every safety property of a passing run is a theorem. Only model-checked is
liveness (`PendingDrains`, `MailSettles`, `HangUpSettles`, `JobsSettle`), which the
prover does not support; of `HangUpSettles` the variant is proved, see above.

## 5. Where the code and its documents differ

* **Replay swallows mail** (`replay_reports`). `replay --wait` works off the
  oldest job, of whichever call, with the outbox planner off. A live call's job
  succeeds without mail. Without that CLI no report is lost
  (`EveryReportQueuedWithoutReplay`).
* **Retention of pending mail** (`retention`). Pending mail is skipped only while
  it is younger than the retention period, and the mail service is installed
  disabled.
* **A call that ended is reopened** (`reopened_call`). No failure is needed:
  hanging up cancels the agent's append, but the API's handler goes on and its
  whole-record save puts `in_progress` back after the finish. Nothing finishes
  the call again. `NothingUndone`, `QueuedIsTranscript` and `WholeTranscript` say
  that requests left behind are the only way to such damage.
* **A purge that the foreign key refuses** (`purge`). Every instance created
  through the API has a first revision, whose foreign key does not cascade:
  no such instance can ever be purged (theorem `NeverPurged`).

Seen while modelling, and stated in the properties as their conditions rather
than as runs of their own:

* Two tool calls of a session that overlap both write, although
  `tests/test_tool_invocation_api.py:223` and
  `docs/platform/superpowers/specs/2026-08-19-midcall-tool-bypass-design.md:77-84`
  speak of one write for each session (`WrittenOnce`); two requests that overlap
  can book one slot (`NoDoubleBooking`).
* Two edits of one appointment that overlap can leave it with the start of one
  and the end of the other, confirmed and on top of another appointment, although
  each slot was free when it was checked: the ORM's UPDATE carries the columns
  that differ from its own second read
  (`repositories/postgres/appointments.py:134-157`). `NoDoubleBooking` names
  this case (`Mixed`). An edit beside a cancellation confirms the appointment
  again, never an edit that began after it (`CancelledStays`).
* A finish whose handler dies between its save and the enqueue is never queued,
  nor is a call whose messages an overlapping finish removed, one that had begun
  before there were any (`EndedIsQueued`, `Wiped`); a transient failure whose process dies before `retryJob`
  stays failed until somebody retries it by hand (`PendingDrains`).
* The confirmation that delays a barge-in (`_arm_barge_in_confirm`) does not
  delay the director, which cancels at once when speech starts.
* A turn the server takes back, or the watchdog ends, is not reported: the
  director's `user_speaking` stays set, the idle timer is passed over, and only
  the session limit ends such a call. A failure phrase that is refused leaves
  the phase "assistant_speaking" without a limit, with the same effect.
* After an interrupted greeting `suppress_late_audio` stays set until the next
  response is done, so that response does not change the phase.
* Speech that began and ended before the session was ready still makes the
  first phase "user_speaking". A late transcript ends a newer speech for the
  director.
* Two tools at once share one `active_tool` flag: the first result clears it.
* A text is counted as said by whichever response comes first, also one that
  the server opened to answer a turn; the refusal of an old cancel forgets a
  pending one (`LateAudioDropped` excludes that).

## 6. Not modelled

* *The dashboard on call records* (PUT, delete, restore, recording upload):
  whole-record saves of another actor. `CallSession` checks the same save for the
  agent; a stale PUT that brings a deleted record back has no property.
* *Ranking of finish reasons*, recording columns, livekit egress states.
* *An instance that moves to another tenant*, knowledge documents, templates,
  accounts and sessions, phone numbers, schedules, notifications: single rows in
  one transaction each, without a protocol between them.
* *Calendar arithmetic* (`services/availability.py`: windows, grid, notice,
  time zones): a free refusal in `Booking`.
* *Extraction of intents* from text, transcript filters, prompts, report layout:
  text processing. Their results are choices of the actions that use them.
* *Worker registry, drain and health* (`worker.py`, `ops.py`): LiveKit assigns jobs
  and drains workers; the code counts and reports.
* *Web dashboard, importers, deployment and operations scripts*, and the older
  copy of the voice agent under `deploy/`: pages, one-shot I/O, and code that is
  not the one that is developed.

These, above all the dashboard, the importers, the scripts, the table definitions
and the second copy of the agent, are most of the repository's lines. What they
leave is control flow of one request or one page, so the map covers the parts in
which several parties share state and only a small share of all lines.
