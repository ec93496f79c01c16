---------------------------- MODULE InsightsJobs ----------------------------
(***************************************************************************)
(* The analysis side of Call Insights (apps/call-insights): provider       *)
(* events become one job per call in SQLite, and the workers of several    *)
(* operating-system processes drain the job table.  A process is either an *)
(* API server, whose poll loop runs until it is stopped, or a replay CLI   *)
(* started with --wait, which drains the same table until its own job is   *)
(* no longer pending.  Each BEGIN IMMEDIATE transaction is one atomic step *)
(* and every await of the pipeline is a point where other processes, a     *)
(* crash or a shutdown can come in between.                                *)
(*                                                                         *)
(* Time appears only as the 15-minute lease of a running job: the lease of *)
(* any running job may run out, whether or not its owner still works on    *)
(* it, and `overrun' remembers that a job was taken from a live owner.     *)
(***************************************************************************)
EXTENDS Naturals, FiniteSets

CONSTANTS
  Call,         \* call identities (profile, call_id)
  Event,        \* provider event ids
  EventCall,    \* the call an event reports: [Event -> Call]
  SkipEvent,    \* events the normaliser classes as "skip"
  Server,       \* API server processes, each with an analysis worker
  Replay,       \* replay CLI processes started with --wait
  ReplayEvent,  \* events an operator has replay fixtures of
  OutboundMode, \* OUTBOUND_MODE of the servers: "off", "shadow" or "live"
  AfterCutover, \* calls that ended at or after MAIL_CUTOVER_NOT_BEFORE
  MailOff,      \* calls of channel "yino" whose profile has mail disabled
  MaxAttempts,  \* MAX_ANALYSIS_JOB_ATTEMPTS (3 in the code)
  MaxClaims,    \* bound of the model: claims of one job
  MaxFaults,    \* bound of the model: crashes and shutdowns
  NoCall        \* not a call

Proc == Server \cup Replay

ASSUME ConstantsAssumption ==
  /\ EventCall \in [Event -> Call]
  /\ NoCall \notin Call
  /\ IsFiniteSet(Call)
  /\ Server \cap Replay = {}
  /\ ReplayEvent \subseteq Event
  /\ MaxAttempts \in Nat \ {0}
  /\ MaxClaims \in Nat
  /\ MaxFaults \in Nat
  /\ OutboundMode \in {"off", "shadow", "live"}

VARIABLES
  event,       \* events.status per event id, "new" while there is no row
  status,      \* jobs.status per call, "none" while there is no row
  attempts,    \* jobs.attempts
  lastError,   \* jobs.last_error: "none", "retryable" or "fatal"
  jobId,       \* jobs.job_id, the claim order
  expired,     \* jobs.updated_at is older than the lease
  analysed,    \* the analyses table has a row for the call
  report,      \* artifact directory: "absent", "partial" or "complete"
  outbox,      \* status the call's two mail_outbox rows were inserted with
  pc,          \* where a process is in its worker cycle
  work,        \* the call whose job the process claimed
  fault,       \* category of the error the pipeline caught
  target,      \* the call a replay CLI waits for
  closing,     \* servers whose shutdown has begun
  faults,      \* crashes and shutdowns so far
  overrun,     \* history: a lease was recovered while its owner was at work
  autoRetries, \* history: retries the workers made on their own, per call
  replayed     \* history: calls whose job a replay CLI claimed

db    == <<event, status, attempts, lastError, jobId, expired>>
files == <<analysed, report, outbox>>
mem   == <<pc, work, fault, target, closing>>
hist  == <<faults, overrun, autoRetries, replayed>>
vars  == <<db, files, mem, hist>>

JobStatus == {"none", "pending", "running", "succeeded", "failed"}
ErrorKind == {"none", "retryable", "fatal"}

\* Places in the worker cycle at which a process still owes its job a result.
AtWork == {"claimed", "analysing", "rendering", "writing", "planning",
           "succeeding", "failing"}
Place  == AtWork \cup {"down", "recovering", "looping", "idle",
                       "checking", "retrying"}

Holds(p, c) == pc[p] \in AtWork /\ work[p] = c

TypeOK ==
  /\ event \in [Event -> {"new", "accepted", "duplicate", "skipped"}]
  /\ status \in [Call -> JobStatus]
  /\ attempts \in [Call -> Nat]
  /\ lastError \in [Call -> ErrorKind]
  /\ jobId \in [Call -> Nat]
  /\ expired \in [Call -> BOOLEAN]
  /\ analysed \in [Call -> BOOLEAN]
  /\ report \in [Call -> {"absent", "partial", "complete"}]
  /\ outbox \in [Call -> {"none", "suppressed", "pending"}]
  /\ pc \in [Proc -> Place]
  /\ work \in [Proc -> Call \cup {NoCall}]
  /\ fault \in [Proc -> ErrorKind]
  /\ target \in [Proc -> Call \cup {NoCall}]
  /\ closing \subseteq Server
  /\ faults \in Nat
  /\ overrun \in BOOLEAN
  /\ autoRetries \in [Call -> Nat]
  /\ replayed \subseteq Call

Init ==
  /\ event = [e \in Event |-> "new"]
  /\ status = [c \in Call |-> "none"]
  /\ attempts = [c \in Call |-> 0]
  /\ lastError = [c \in Call |-> "none"]
  /\ jobId = [c \in Call |-> 0]
  /\ expired = [c \in Call |-> FALSE]
  /\ analysed = [c \in Call |-> FALSE]
  /\ report = [c \in Call |-> "absent"]
  /\ outbox = [c \in Call |-> "none"]
  /\ pc = [p \in Proc |-> "down"]
  /\ work = [p \in Proc |-> NoCall]
  /\ fault = [p \in Proc |-> "none"]
  /\ target = [p \in Proc |-> NoCall]
  /\ closing = {}
  /\ faults = 0
  /\ overrun = FALSE
  /\ autoRetries = [c \in Call |-> 0]
  /\ replayed = {}

----------------------------------------------------------------------------
(* Helpers of the store *)

\* UPDATE jobs SET status, last_error, updated_at = now for one row.
SetJob(c, st, err) ==
  /\ status' = [status EXCEPT ![c] = st]
  /\ lastError' = [lastError EXCEPT ![c] = err]
  /\ expired' = [expired EXCEPT ![c] = FALSE]

\* The row recoverStaleRunningJobs and recoverStaleRunningJob select.
Stale(c) == status[c] = "running" /\ expired[c]

\* Both recoveries put rows back to pending whatever their attempts, and
\* leave last_error and attempts as they are.
Recover(cs) ==
  /\ status' = [c \in Call |-> IF c \in cs THEN "pending" ELSE status[c]]
  /\ expired' = [c \in Call |-> expired[c] /\ c \notin cs]
  /\ overrun' = (overrun \/ \E c \in cs, p \in Proc : Holds(p, c))
  /\ UNCHANGED <<event, attempts, lastError, jobId>>

\* A job's place in ORDER BY created_at, job_id: one more than the jobs so far.
NextJobId == Cardinality({c \in Call : status[c] # "none"}) + 1

\* Slip: the calls table is not consulted, so a second event restarts the job.
IngestRowsAnyEvent(e) ==
  /\ event[e] = "new"
  /\ event' = [event EXCEPT ![e] = "accepted"]
  /\ SetJob(EventCall[e], "pending", "none")
  /\ attempts' = [attempts EXCEPT ![EventCall[e]] = 0]
  /\ jobId' = [jobId EXCEPT ![EventCall[e]] = NextJobId]

\* SqliteStore.ingest.  A known event id returns before it writes anything.
IngestRows(e) ==
  LET c == EventCall[e] IN
  \/ /\ event[e] # "new"
     /\ UNCHANGED db
  \/ /\ event[e] = "new" /\ e \in SkipEvent
     /\ event' = [event EXCEPT ![e] = "skipped"]
     /\ UNCHANGED <<status, attempts, lastError, jobId, expired>>
  \/ /\ event[e] = "new" /\ e \notin SkipEvent /\ status[c] # "none"
     /\ event' = [event EXCEPT ![e] = "duplicate"]
     /\ UNCHANGED <<status, attempts, lastError, jobId, expired>>
  \/ /\ event[e] = "new" /\ e \notin SkipEvent /\ status[c] = "none"
     /\ event' = [event EXCEPT ![e] = "accepted"]
     /\ SetJob(c, "pending", "none")
     /\ attempts' = [attempts EXCEPT ![c] = 0]
     /\ jobId' = [jobId EXCEPT ![c] = NextJobId]

\* Slip: the selection does not filter on status = 'pending'.
ClaimableRunning == {c \in Call : /\ status[c] \in {"pending", "running"}
                                  /\ attempts[c] < MaxClaims}
\* Slip: the attempt limit of automatic retries also limits claims.
ClaimableBelowLimit == {c \in Call : /\ status[c] = "pending"
                                     /\ attempts[c] < MaxAttempts}

\* What claimNextJob may select: the pending row with the smallest id.
Claimable == {c \in Call : status[c] = "pending" /\ attempts[c] < MaxClaims}
Oldest(c) == c \in Claimable /\ \A d \in Claimable : jobId[c] <= jobId[d]

\* OutboxPlanner.plan of process p: a replay CLI always has the off planner,
\* and ON CONFLICT DO NOTHING keeps rows that are already there.
PlannedRows(p, c) ==
  IF outbox[c] # "none" THEN outbox[c]
  ELSE IF p \in Replay \/ OutboundMode = "off" \/ c \in MailOff THEN "none"
  ELSE IF OutboundMode = "live" /\ c \in AfterCutover THEN "pending"
  ELSE "suppressed"

----------------------------------------------------------------------------
(* Ends of a worker cycle *)

\* runOnce resolved: a server waits for the next poll, or is gone once its
\* shutdown waited for it; a replay CLI looks at its own job again.
CycleDone(p) ==
  /\ pc' = [pc EXCEPT ![p] = IF p \in Replay THEN "looping"
                             ELSE IF p \in closing THEN "down" ELSE "idle"]
  /\ work' = [work EXCEPT ![p] = NoCall]
  /\ fault' = [fault EXCEPT ![p] = "none"]
  /\ closing' = closing \ {p}
  /\ UNCHANGED target

\* The process is gone with everything it held in memory.
Gone(p) ==
  /\ pc' = [pc EXCEPT ![p] = "down"]
  /\ work' = [work EXCEPT ![p] = NoCall]
  /\ fault' = [fault EXCEPT ![p] = "none"]
  /\ target' = [target EXCEPT ![p] = NoCall]
  /\ closing' = closing \ {p}

\* runOnce rejected: a server reports degraded health and polls again; a
\* replay CLI ends, because its job is running, terminal or stalled.
CycleThrew(p) == IF p \in Replay THEN Gone(p) ELSE CycleDone(p)

Goto(p, there) ==
  /\ pc' = [pc EXCEPT ![p] = there]
  /\ UNCHANGED <<work, fault, target, closing>>

\* The catch of AnalysisPipeline.process with an error of category err.
Catch(p, err) ==
  /\ pc' = [pc EXCEPT ![p] = "failing"]
  /\ fault' = [fault EXCEPT ![p] = err]
  /\ UNCHANGED <<work, target, closing>>

----------------------------------------------------------------------------
(* Events and processes *)

\* A webhook delivery, or a replay CLI without --wait.
Ingest(e) ==
  /\ IngestRows(e)
  /\ UNCHANGED <<files, mem, hist>>

\* serve(): recovery is the first thing a starting worker does, once.
ServerStart(p) ==
  /\ pc[p] = "down"
  /\ pc' = [pc EXCEPT ![p] = "idle"]
  /\ Recover({c \in Call : Stale(c)})
  /\ UNCHANGED <<files, work, fault, target, closing, faults, autoRetries,
                 replayed>>

\* runPreparedReplay with --wait: the event is ingested before anything else;
\* a skipped event has no job to wait for.
ReplayStart(p, e) ==
  /\ pc[p] = "down"
  /\ e \in ReplayEvent \ SkipEvent
  /\ IngestRows(e)
  /\ pc' = [pc EXCEPT ![p] = "recovering"]
  /\ target' = [target EXCEPT ![p] = EventCall[e]]
  /\ UNCHANGED <<files, work, fault, closing, hist>>

\* recoverStaleRunningJob touches only the requested job.
ReplayRecover(p) ==
  /\ pc[p] = "recovering"
  /\ Recover({c \in {target[p]} : Stale(c)})
  /\ Goto(p, "looping")
  /\ UNCHANGED <<files, faults, autoRetries, replayed>>

\* while (job?.status === "pending") ...: otherwise the CLI reports the job
\* as active, succeeded or failed, and ends.
ReplayLoop(p) ==
  /\ pc[p] = "looping"
  /\ IF status[target[p]] = "pending" THEN Goto(p, "idle") ELSE Gone(p)
  /\ UNCHANGED <<db, files, hist>>

\* runOnce found nothing to claim: replay_job_stalled, or the job is no longer
\* pending; either way the CLI ends.
ReplayStalls(p) ==
  /\ p \in Replay /\ pc[p] = "idle"
  /\ Claimable = {}
  /\ Gone(p)
  /\ UNCHANGED <<db, files, hist>>

\* closeRuntime: an idle worker stops at once, a busy one is waited for.
Shutdown(p) ==
  /\ p \in Server \ closing /\ pc[p] # "down" /\ faults < MaxFaults
  /\ faults' = faults + 1
  /\ IF pc[p] = "idle"
     THEN Gone(p)
     ELSE closing' = closing \cup {p} /\ UNCHANGED <<pc, work, fault, target>>
  /\ UNCHANGED <<db, files, overrun, autoRetries, replayed>>

\* The process is killed between any two of its steps.
Crash(p) ==
  /\ pc[p] # "down" /\ faults < MaxFaults
  /\ faults' = faults + 1
  /\ Gone(p)
  /\ UNCHANGED <<db, files, overrun, autoRetries, replayed>>

\* Fifteen minutes have passed since the running job's row was updated.
LeaseExpires(c) ==
  /\ status[c] = "running" /\ ~expired[c]
  /\ expired' = [expired EXCEPT ![c] = TRUE]
  /\ UNCHANGED <<event, status, attempts, lastError, jobId, files, mem, hist>>

\* POST /v1/jobs/:jobId/retry, served by a process that is not in the middle
\* of the synchronous stretch from failJob to retryJob.
ManualRetry(s, c) ==
  /\ pc[s] \notin {"down", "checking", "retrying"} /\ s \notin closing
  /\ status[c] = "failed"
  /\ SetJob(c, "pending", "none")
  /\ UNCHANGED <<event, attempts, jobId, files, mem, hist>>

----------------------------------------------------------------------------
(* One worker cycle: claim, pipeline, result, automatic retry *)

ClaimNextJob(p, c) ==
  /\ pc[p] = "idle" /\ p \notin closing
  /\ Oldest(c)
  /\ SetJob(c, "running", lastError[c])
  /\ attempts' = [attempts EXCEPT ![c] = @ + 1]
  /\ pc' = [pc EXCEPT ![p] = "claimed"]
  /\ work' = [work EXCEPT ![p] = c]
  /\ replayed' = IF p \in Replay THEN replayed \cup {c} ELSE replayed
  /\ UNCHANGED <<event, jobId, files, fault, target, closing, faults, overrun,
                 autoRetries>>

\* Slip: a stored analysis is taken to mean that its artifacts exist too.
LoadSkipsReport(p) ==
  /\ pc[p] = "claimed"
  /\ Goto(p, IF analysed[work[p]] THEN "planning" ELSE "analysing")
  /\ UNCHANGED <<db, files, hist>>

\* The call, profile and stored analysis are read; a stored analysis is used
\* again instead of asking the AI provider.
Load(p) ==
  /\ pc[p] = "claimed"
  /\ \/ Goto(p, IF analysed[work[p]] THEN "rendering" ELSE "analysing")
     \/ Catch(p, "fatal")
  /\ UNCHANGED <<db, files, hist>>

\* analyzeCall, analyzeQuality and saveAnalysis: only both answers are stored.
Analyse(p) ==
  /\ pc[p] = "analysing"
  /\ \/ /\ analysed' = [analysed EXCEPT ![work[p]] = TRUE]
        /\ Goto(p, "rendering")
     \/ /\ Catch(p, "retryable")
        /\ UNCHANGED analysed
  /\ UNCHANGED <<db, report, outbox, hist>>

\* AiProviderShutdownError: releaseRunningJobForShutdown, which throws when
\* the row is not running; the attempt stays counted.
ReleaseForShutdown(p) ==
  /\ pc[p] = "analysing" /\ p \in closing
  /\ IF status[work[p]] = "running"
     THEN SetJob(work[p], "pending", "none")
     ELSE UNCHANGED <<status, lastError, expired>>
  /\ Gone(p)
  /\ UNCHANGED <<event, attempts, jobId, files, hist>>

\* ArtifactWriter.write prepares the directory and removes the manifest.
BeginReport(p) ==
  /\ pc[p] = "rendering"
  /\ \/ /\ report' = [report EXCEPT ![work[p]] = "partial"]
        /\ Goto(p, "writing")
     \/ /\ Catch(p, "retryable")
        /\ UNCHANGED report
  /\ UNCHANGED <<db, analysed, outbox, hist>>

\* The manifest is the last file written; a failure removes it again.
FinishReport(p) ==
  /\ pc[p] = "writing"
  /\ \/ /\ report' = [report EXCEPT ![work[p]] = "complete"]
        /\ Goto(p, "planning")
     \/ /\ report' = [report EXCEPT ![work[p]] = "partial"]
        /\ Catch(p, "retryable")
  /\ UNCHANGED <<db, analysed, outbox, hist>>

\* Slip: a planning error is swallowed.
PlanOutboxBestEffort(p) ==
  /\ pc[p] = "planning"
  /\ Goto(p, "succeeding")
  /\ outbox' \in {outbox, [outbox EXCEPT ![work[p]] = PlannedRows(p, work[p])]}
  /\ UNCHANGED <<db, analysed, report, hist>>

PlanOutbox(p) ==
  /\ pc[p] = "planning"
  /\ \/ /\ outbox' = [outbox EXCEPT ![work[p]] = PlannedRows(p, work[p])]
        /\ Goto(p, "succeeding")
     \/ /\ Catch(p, "retryable")
        /\ UNCHANGED outbox
  /\ UNCHANGED <<db, analysed, report, hist>>

\* succeedJob needs a running row; otherwise, or when SQLite stays busy, the
\* pipeline's catch takes over.
SucceedJob(p) ==
  /\ pc[p] = "succeeding"
  /\ \/ /\ status[work[p]] = "running"
        /\ SetJob(work[p], "succeeded", "none")
        /\ CycleDone(p)
     \/ /\ Catch(p, "retryable")
        /\ UNCHANGED <<status, lastError, expired>>
  /\ UNCHANGED <<event, attempts, jobId, files, hist>>

\* Slip: the UPDATE does not ask for status = 'running'.
FailJobAnyStatus(p) ==
  /\ pc[p] = "failing"
  /\ SetJob(work[p], "failed", fault[p])
  /\ Goto(p, "checking")
  /\ UNCHANGED <<event, attempts, jobId, files, hist>>
\* Slip: the values of status and last_error are bound in the wrong order.
FailJobSwapped(p) ==
  /\ pc[p] = "failing"
  /\ status[work[p]] = "running"
  /\ SetJob(work[p], fault[p], "failed")
  /\ Goto(p, "checking")
  /\ UNCHANGED <<event, attempts, jobId, files, hist>>

\* failJob needs a running row.
FailJob(p) ==
  /\ pc[p] = "failing"
  /\ status[work[p]] = "running"
  /\ SetJob(work[p], "failed", fault[p])
  /\ Goto(p, "checking")
  /\ UNCHANGED <<event, attempts, jobId, files, hist>>

\* Slip: <= in the comparison with the limit.
CheckRetryOnceMore(p) ==
  /\ pc[p] = "checking"
  /\ IF /\ status[work[p]] = "failed"
        /\ attempts[work[p]] <= MaxAttempts
        /\ lastError[work[p]] = "retryable"
     THEN Goto(p, "retrying")
     ELSE CycleDone(p)
  /\ UNCHANGED <<db, files, hist>>

\* processNextJob reads the row again and decides about an automatic retry.
CheckRetry(p) ==
  /\ pc[p] = "checking"
  /\ IF /\ status[work[p]] = "failed"
        /\ attempts[work[p]] < MaxAttempts
        /\ lastError[work[p]] = "retryable"
     THEN Goto(p, "retrying")
     ELSE CycleDone(p)
  /\ UNCHANGED <<db, files, hist>>

\* retryJob, a transaction of its own, needs a failed row.
RetryJob(p) ==
  /\ pc[p] = "retrying"
  /\ status[work[p]] = "failed"
  /\ SetJob(work[p], "pending", "none")
  /\ autoRetries' = [autoRetries EXCEPT ![work[p]] = @ + 1]
  /\ CycleDone(p)
  /\ UNCHANGED <<event, attempts, jobId, files, faults, overrun, replayed>>

\* failJob or retryJob threw: the row has another status, or SQLite stayed
\* busy beyond its timeout.  The row is left as it is.
StoreThrows(p) ==
  /\ pc[p] \in {"failing", "retrying"}
  /\ CycleThrew(p)
  /\ UNCHANGED <<db, files, hist>>

Cycle(p) ==
  \/ \E c \in Call : ClaimNextJob(p, c)
  \/ Load(p) \/ Analyse(p) \/ ReleaseForShutdown(p)
  \/ BeginReport(p) \/ FinishReport(p) \/ PlanOutbox(p) \/ SucceedJob(p)
  \/ FailJob(p) \/ CheckRetry(p) \/ RetryJob(p) \/ StoreThrows(p)

Next ==
  \/ \E e \in Event : Ingest(e)
  \/ \E s \in Server : ServerStart(s) \/ Shutdown(s)
  \/ \E s \in Server, c \in Call : ManualRetry(s, c)
  \/ \E r \in Replay, e \in Event : ReplayStart(r, e)
  \/ \E r \in Replay : ReplayRecover(r) \/ ReplayLoop(r) \/ ReplayStalls(r)
  \/ \E p \in Proc : Crash(p) \/ Cycle(p)
  \/ \E c \in Call : LeaseExpires(c)

\* systemd restarts a server, its poll timer keeps running cycles, and an
\* await of the pipeline settles (every provider request has a timeout).  A
\* replay CLI that was started runs on.  Nothing obliges a webhook or an
\* operator to act.
Fairness ==
  /\ \A s \in Server : WF_vars(ServerStart(s)) /\ WF_vars(Cycle(s))
  /\ \A r \in Replay : WF_vars(\/ ReplayRecover(r) \/ ReplayLoop(r)
                                \/ ReplayStalls(r) \/ Cycle(r))

Spec     == Init /\ [][Next]_vars
FairSpec == Spec /\ Fairness

----------------------------------------------------------------------------
(* Properties *)

\* As long as no lease was recovered under a live owner, two processes never
\* work on the same job: claims, recoveries, shutdown releases and retries of
\* all processes together hand a job to one owner at a time
\* (sqlite-store.ts 330-407, there is no owner token in the row).
OneOwner ==
  ~overrun => \A p, q \in Proc, c \in Call :
                Holds(p, c) /\ Holds(q, c) => p = q

\* As long as no lease was recovered under a live owner, a succeeded job has
\* its analysis stored and a complete artifact set with a manifest, although
\* every re-run of a recovered job starts by removing the manifest
\* (analysis-pipeline.ts 120-145, artifact-writer.ts 78-157).
WholeReport ==
  ~overrun => \A c \in Call :
                status[c] = "succeeded" => analysed[c] /\ report[c] = "complete"

\* A succeeded job is never put back or failed, not even by an owner whose
\* lease ran out and whose result comes after that of the next owner.
SucceededIsFinal ==
  [][\A c \in Call : status[c] = "succeeded" => status'[c] = "succeeded"]_vars

\* In live mode a succeeded call that ended after the cutover has its mail
\* queued, through crashes between planning and success, repeated runs and
\* lapsed leases, unless a replay CLI claimed its job.
ReportsQueued ==
  \A c \in Call :
    /\ OutboundMode = "live" /\ c \in AfterCutover \ MailOff
    /\ status[c] = "succeeded" /\ c \notin replayed
    => outbox[c] = "pending"

\* The workers retry a job on their own at most MaxAttempts - 1 times: every
\* further claim goes back to a lease recovery, a shutdown release or an
\* operator, however their steps interleave with a pending retry decision.
AutoRetryBudget == \A c \in Call : autoRetries[c] < MaxAttempts

\* Each call has a job exactly when one of its events was accepted, and never
\* through two of them, in whatever order and however often events arrive.
IngestedOnce ==
  \A c \in Call :
    LET accepted == {e \in Event : EventCall[e] = c /\ event[e] = "accepted"}
    IN  Cardinality(accepted) = IF status[c] = "none" THEN 0 ELSE 1

\* A running job nobody works on: its owner is gone, or gave it up when SQLite
\* stayed busy.  Only a later start of a worker can find it.
Orphaned(c) == status[c] = "running" /\ \A p \in Proc : ~Holds(p, c)

\* A pending job reaches a result or is orphaned by a dying owner; it is not
\* left pending behind other jobs, retries and restarts.  (The last disjunct
\* is the bound on claims.)
PendingDrains ==
  \A c \in Call :
    status[c] = "pending" ~> \/ status[c] \in {"succeeded", "failed"}
                             \/ Orphaned(c)
                             \/ attempts[c] >= MaxClaims

\* README.md:3-5, the application "durably plans outbound reports": in live
\* mode a succeeded call that ended after the cutover, and that nobody asked
\* a replay CLI to run, has its mail queued.
EveryReportQueued ==
  \A c \in Call \ {EventCall[e] : e \in ReplayEvent} :
    /\ OutboundMode = "live" /\ c \in AfterCutover \ MailOff
    /\ status[c] = "succeeded"
    => outbox[c] = "pending"

=============================================================================
