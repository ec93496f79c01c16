---------------------------- MODULE CallDispatch ----------------------------
(***************************************************************************)
(* From the finish of a call to Call Insights: the finish handler of the   *)
(* control plane queues a job for the ended call (call_lifecycle.py,       *)
(* insights_dispatch.py), and a loop of the API process posts one due job  *)
(* after the other (insights_http.py, app.py).                             *)
(*                                                                         *)
(* Every database call is a transaction of its own, so finishes of one     *)
(* call, a transcript line that is being saved and the loop interleave.    *)
(* A save is two steps even so: at READ COMMITTED the UPDATE carries only  *)
(* the columns that differ from what it read again, and it returns the     *)
(* messages it read again, which the session does not expire.              *)
(* One API process is deployed, hence one loop; nothing in the code relies *)
(* on it, and the model has as many as it is given.                        *)
(*                                                                         *)
(* A finish stands for the end it records and for the event id that is     *)
(* computed from it.  Modelled are calls of instances with an Insights     *)
(* profile: without one nothing is queued.  Times are left out: when a job *)
(* is due again is a choice, so attempts, which only set the delay (10 s   *)
(* to 900 s), are left out too.  Call Insights is external: a set of ids   *)
(* it has ingested (InsightsJobs models it).                               *)
(***************************************************************************)
EXTENDS Naturals, FiniteSets

CONSTANTS
  Call,
  Finish,      \* finish requests: the bound of the model
  Drainer,     \* loops that post jobs
  MaxFaults,   \* bound: failed posts, dying handlers and loops
  NoJob

VARIABLES
  record,    \* the call records
  appends,   \* append_message, once per call: its stage
  finishes,  \* the finish handlers
  jobs,      \* table insights_dispatch_jobs: a job is named by its finish
  drainers,  \* the loops
  ingested,  \* the events Call Insights has
  shared,    \* history: jobs two loops had in their hands at the same time
  faults

vars == <<record, appends, finishes, jobs, drainers, ingested, shared, faults>>

\* open: the status is in_progress; talk: there are messages.
Record == [open: BOOLEAN, talk: BOOLEAN]

\* was: the record as it was read; ends: its save writes the status; seen: it
\* found messages when it read again; after, a history: the finishes that were
\* through when this one began; "lost" has saved the end of a call and has
\* gone without queueing it.
Handler == [call: Call, was: Record, ends: BOOLEAN, seen: BOOLEAN,
            after: SUBSET Finish,
            stage: {"save", "flush", "enqueue", "done", "refused", "lost"}]

Job == [status: {"pending", "sent", "failed"}, due: BOOLEAN, no: Nat]

Loop == [job: Finish \cup {NoJob}, result: {"none", "ok", "retry", "fail"}]

ASSUME DispatchAssumption ==
  /\ NoJob \notin Finish \cup Handler \cup Job
  /\ IsFiniteSet(Finish) /\ MaxFaults \in Nat

Idle == [job |-> NoJob, result |-> "none"]

TypeOK ==
  /\ record \in [Call -> Record]
  /\ appends \in [Call -> {"none", "read", "adds", "reopens", "over"}]
  /\ finishes \in [Finish -> Handler \cup {NoJob}]
  /\ jobs \in [Finish -> Job \cup {NoJob}]
  /\ drainers \in [Drainer -> Loop]
  /\ ingested \subseteq Finish
  /\ shared \subseteq Finish
  /\ faults \in 0..MaxFaults

\* Calls in progress, somewhere in their course.
Init ==
  /\ \E talked \in [Call -> BOOLEAN] :
       record = [c \in Call |-> [open |-> TRUE, talk |-> talked[c]]]
  /\ appends = [c \in Call |-> "none"]
  /\ finishes = [f \in Finish |-> NoJob]
  /\ jobs = [f \in Finish |-> NoJob]
  /\ drainers = [d \in Drainer |-> Idle]
  /\ ingested = {} /\ shared = {} /\ faults = 0

-----------------------------------------------------------------------------
\* A line of the transcript (CallLifecycleService.append_message).

AppendReads(c) ==
  /\ appends[c] = "none" /\ record[c].open
  /\ appends' = [appends EXCEPT ![c] = "read"]
  /\ UNCHANGED <<record, finishes, jobs, drainers, ingested, shared, faults>>

\* save reads again: the status differs if a finish came in between.
AppendReadsAgain(c) ==
  /\ appends[c] = "read"
  /\ appends' = [appends EXCEPT ![c] = IF record[c].open THEN "adds" ELSE "reopens"]
  /\ UNCHANGED <<record, finishes, jobs, drainers, ingested, shared, faults>>

\* ... and writes what differs, and the messages in place of all there are.
AppendSaves(c) ==
  /\ appends[c] \in {"adds", "reopens"}
  /\ appends' = [appends EXCEPT ![c] = "over"]
  /\ record' = [record EXCEPT ![c].open = @ \/ appends[c] = "reopens",
                               ![c].talk = TRUE]
  /\ UNCHANGED <<finishes, jobs, drainers, ingested, shared, faults>>

-----------------------------------------------------------------------------
\* The finish handler (CallLifecycleService.finish).

Stands(f, stage) == finishes[f] # NoJob /\ finishes[f].stage = stage

\* The handler is through.
Through(f) == finishes[f] # NoJob /\ finishes[f].stage \in {"done", "refused", "lost"}

GoOn(f, stage) == finishes' = [finishes EXCEPT ![f].stage = stage]

\* A finish, the first one, a retry of the agent's or one of a second job in
\* the room.  _require_active: what is finished is returned as it is.
FinishReads(f, c) ==
  /\ finishes[f] = NoJob
  /\ finishes' = [finishes EXCEPT ![f] =
       [call |-> c, was |-> record[c], ends |-> FALSE, seen |-> FALSE,
        after |-> {g \in Finish : Through(g)},
        stage |-> IF record[c].open THEN "save" ELSE "refused"]]
  /\ UNCHANGED <<record, appends, jobs, drainers, ingested, shared, faults>>

\* save reads again: if another finish came in between, its status may be
\* the same.
FinishReadsAgain(f) ==
  /\ Stands(f, "save")
  /\ LET now == record[finishes[f].call]
     IN  \E ends \in BOOLEAN :
           /\ now.open => ends
           /\ finishes' = [finishes EXCEPT ![f].stage = "flush", ![f].ends = ends,
                                            ![f].seen = now.talk]
  /\ UNCHANGED <<record, appends, jobs, drainers, ingested, shared, faults>>

\* ... and writes: the messages it began with replace those there are, but for
\* such as are committed while it deletes.
FinishSaves(f) ==
  /\ Stands(f, "flush")
  /\ \E stay \in BOOLEAN :
       record' = [record EXCEPT
         ![finishes[f].call].open = @ /\ ~finishes[f].ends,
         ![finishes[f].call].talk = finishes[f].was.talk \/ (stay /\ @)]
  /\ GoOn(f, "enqueue")
  /\ UNCHANGED <<appends, jobs, drainers, ingested, shared, faults>>

JobsOf(c) ==
  {f \in Finish : jobs[f] # NoJob /\ finishes[f] # NoJob /\ finishes[f].call = c}

\* Slip: only a job that still waits counts as there.
EnqueueUnsent(f) ==
  /\ Stands(f, "enqueue")
  /\ GoOn(f, "done")
  /\ jobs' = IF \/ ~finishes[f].seen
                \/ \E g \in JobsOf(finishes[f].call) : jobs[g].status = "pending"
             THEN jobs
             ELSE [jobs EXCEPT ![f] =
               [status |-> "pending", due |-> TRUE,
                no |-> Cardinality({g \in Finish : jobs[g] # NoJob}) + 1]]
  /\ UNCHANGED <<record, appends, drainers, ingested, shared, faults>>

\* Slip: whether the call has ended is asked of the database once more.
EnqueueEnded(f) ==
  /\ Stands(f, "enqueue")
  /\ GoOn(f, "done")
  /\ jobs' = IF \/ ~finishes[f].seen \/ JobsOf(finishes[f].call) # {}
                \/ record[finishes[f].call].open
             THEN jobs
             ELSE [jobs EXCEPT ![f] =
               [status |-> "pending", due |-> TRUE,
                no |-> Cardinality({g \in Finish : jobs[g] # NoJob}) + 1]]
  /\ UNCHANGED <<record, appends, drainers, ingested, shared, faults>>

\* try_enqueue_ended_call of what save returned.  The unique index on the call
\* decides between two: the loser is given the job that is there.
Enqueue(f) ==
  /\ Stands(f, "enqueue")
  /\ GoOn(f, "done")
  /\ jobs' = IF ~finishes[f].seen \/ JobsOf(finishes[f].call) # {}
             THEN jobs
             ELSE [jobs EXCEPT ![f] =
               [status |-> "pending", due |-> TRUE,
                no |-> Cardinality({g \in Finish : jobs[g] # NoJob}) + 1]]
  /\ UNCHANGED <<record, appends, drainers, ingested, shared, faults>>

\* The handler dies, or the database fails it; an error of the enqueue is
\* swallowed and has the same effect.
FinishFails(f) ==
  /\ finishes[f] # NoJob
  /\ finishes[f].stage \in {"save", "flush", "enqueue"}
  /\ faults < MaxFaults
  /\ faults' = faults + 1
  /\ GoOn(f, IF finishes[f].stage = "enqueue" THEN "lost" ELSE "refused")
  /\ UNCHANGED <<record, appends, jobs, drainers, ingested, shared>>

-----------------------------------------------------------------------------
\* The loop (_insights_drain_loop, drain_once).

\* Slip: whatever has not failed is due.
DueUnlessFailed(f) ==
  jobs[f] # NoJob /\ jobs[f].status # "failed" /\ jobs[f].due

Due(f) == jobs[f] # NoJob /\ jobs[f].status = "pending" /\ jobs[f].due

\* claim_due: the oldest due job.  It is read, not marked.
Claim(d) ==
  /\ drainers[d] = Idle
  /\ \E f \in Finish :
       /\ Due(f) /\ \A g \in Finish : Due(g) => jobs[f].no =< jobs[g].no
       /\ drainers' = [drainers EXCEPT ![d].job = f]
       /\ shared' = shared \cup
            (IF \E e \in Drainer : drainers[e].job = f THEN {f} ELSE {})
  /\ UNCHANGED <<record, appends, finishes, jobs, ingested, faults>>

\* post_ended_call: 200 and 202 are "ok"; 408, 429, 5xx and a request without
\* an answer, which may have been ingested, are "retry"; the rest is "fail".
Post(d) ==
  /\ drainers[d].job # NoJob /\ drainers[d].result = "none"
  /\ \E result \in {"ok", "retry", "fail"}, arrives \in BOOLEAN :
       /\ result = "ok" => arrives
       /\ result = "fail" => ~arrives
       /\ result = "retry" => faults < MaxFaults
       /\ faults' = faults + (IF result = "retry" THEN 1 ELSE 0)
       /\ drainers' = [drainers EXCEPT ![d].result = result]
       /\ ingested' = ingested \cup
            (IF arrives THEN {drainers[d].job} ELSE {})
  /\ UNCHANGED <<record, appends, finishes, jobs, shared>>

\* Slip: the row gets the result in place of the status it stands for.
MarkResult(d) ==
  /\ drainers[d].job # NoJob /\ drainers[d].result # "none"
  /\ jobs' = [jobs EXCEPT
       ![drainers[d].job].status = drainers[d].result,
       ![drainers[d].job].due = @ /\ drainers[d].result # "retry"]
  /\ drainers' = [drainers EXCEPT ![d] = Idle]
  /\ UNCHANGED <<record, appends, finishes, ingested, shared, faults>>

\* mark_sent, mark_retry and mark_failed, whatever has become of the job.  The
\* latter two read the row first; another loop's mark in between has the effect
\* of one before or after both.
Mark(d) ==
  /\ drainers[d].job # NoJob /\ drainers[d].result # "none"
  /\ jobs' = [jobs EXCEPT
       ![drainers[d].job].status = CASE drainers[d].result = "ok"    -> "sent"
                                     [] drainers[d].result = "retry" -> "pending"
                                     [] drainers[d].result = "fail"  -> "failed",
       ![drainers[d].job].due = @ /\ drainers[d].result # "retry"]
  /\ drainers' = [drainers EXCEPT ![d] = Idle]
  /\ UNCHANGED <<record, appends, finishes, ingested, shared, faults>>

\* next_attempt_at has come.
FallsDue(f) ==
  /\ jobs[f] # NoJob /\ ~jobs[f].due
  /\ jobs' = [jobs EXCEPT ![f].due = TRUE]
  /\ UNCHANGED <<record, appends, finishes, drainers, ingested, shared, faults>>

\* Slip: the loop ends with its first error.
LoopFailsForGood(d) ==
  /\ drainers[d].job # NoJob
  /\ faults < MaxFaults
  /\ faults' = faults + 1
  /\ drainers' = [drainers EXCEPT ![d].result = "ok", ![d].job = NoJob]
  /\ UNCHANGED <<record, appends, finishes, jobs, ingested, shared>>

\* Any other error is logged and the loop goes on; or the process is restarted.
LoopFails(d) ==
  /\ drainers[d].job # NoJob
  /\ faults < MaxFaults
  /\ faults' = faults + 1
  /\ drainers' = [drainers EXCEPT ![d] = Idle]
  /\ UNCHANGED <<record, appends, finishes, jobs, ingested, shared>>

-----------------------------------------------------------------------------

CallNext ==
  \/ \E c \in Call : AppendReads(c) \/ AppendReadsAgain(c) \/ AppendSaves(c)
  \/ \E f \in Finish : \/ \E c \in Call : FinishReads(f, c)
                       \/ FinishReadsAgain(f) \/ FinishSaves(f) \/ Enqueue(f) \/ FinishFails(f)

LoopNext ==
  \/ \E d \in Drainer : Claim(d) \/ Post(d) \/ Mark(d) \/ LoopFails(d)
  \/ \E f \in Finish : FallsDue(f)

Next == CallNext \/ LoopNext

Spec == Init /\ [][Next]_vars

\* The loop runs every two seconds for as long as the process lives, which
\* systemd restarts; a post ends after ten seconds; time passes.
Fairness ==
  /\ \A d \in Drainer : WF_vars(Claim(d)) /\ WF_vars(Post(d)) /\ WF_vars(Mark(d))
  /\ \A f \in Finish : WF_vars(FallsDue(f))

FairSpec == Spec /\ Fairness

-----------------------------------------------------------------------------
\* Properties.

\* Call Insights hears of one end of a call, the one that was queued, and has
\* heard of it when the job is marked as sent: although answers are lost and
\* jobs posted twice, finishes of a call race, and a late transcript line can
\* reopen it to be finished again (insights_dispatch.py, the unique call_id).
DeliveredOnce ==
  \A f \in Finish :
    jobs[f] # NoJob =>
      /\ {g \in ingested : finishes[g].call = finishes[f].call} \subseteq {f}
      /\ jobs[f].status = "sent" => f \in ingested

\* A finish of the call of f that was handled at the same time had begun
\* before there were messages, and its save has removed them again.
Wiped(f) ==
  \E g \in Finish :
    /\ finishes[g] # NoJob /\ finishes[g].stage \in {"enqueue", "done", "lost"}
    /\ finishes[g].call = finishes[f].call /\ ~finishes[g].was.talk
    /\ g \notin finishes[f].after /\ f \notin finishes[g].after

\* A finish that has saved the end of a call with messages and has been
\* answered leaves a job of that call, its own or an earlier one, whichever
\* of several racing finishes the record shows, or a late line that reopens
\* it, unless a finish that overlapped wiped the messages from under it
\* (call_lifecycle.py:198).
EndedIsQueued ==
  \A f \in Finish :
    Stands(f, "done") /\ finishes[f].was.talk
    => JobsOf(finishes[f].call) # {} \/ Wiped(f)

\* What is sent stays sent: only two loops that had the job in their hands at
\* the same time can put it back (mark_retry is unconditional).
SentIsFinal ==
  [][\A f \in Finish :
       jobs[f] # NoJob /\ jobs[f].status = "sent" /\ f \notin shared
       => jobs'[f].status = "sent"]_vars

\* Once the network holds, every job is sent or refused for good, and no
\* older job that waits or fails keeps a younger one from it.
JobsSettle ==
  \A f \in Finish :
    <>[](jobs[f] = NoJob \/ jobs[f].status \in {"sent", "failed"})

=============================================================================
