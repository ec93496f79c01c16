------------------------- MODULE InsightsJobsProofs -------------------------
(***************************************************************************)
(* Theorems about InsightsJobs, for any number of calls, events, servers   *)
(* and replay processes and any bounds.                                    *)
(***************************************************************************)
EXTENDS InsightsJobs, FiniteSetTheorems, TLAPS

\* A process in the middle of a cycle has a call to work on.
Registers ==
  \A p \in Proc :
    pc[p] \in AtWork \cup {"checking", "retrying"} => work[p] \in Call

TypeInv == TypeOK /\ Registers

\* The id given to a new job is a natural number.
LEMMA NextJobIdType == NextJobId \in Nat
<1>1. IsFiniteSet({c \in Call : status[c] # "none"})
  BY ConstantsAssumption, FS_Subset
<1>2. Cardinality({c \in Call : status[c] # "none"}) \in Nat
  BY <1>1, FS_CardinalityType
<1>. QED  BY <1>2 DEF NextJobId

LEMMA InitTypeInv == Init => TypeInv
<1>. SUFFICES ASSUME Init PROVE TypeInv
  OBVIOUS
<1>1. TypeOK
  BY DEF Init, TypeOK, AtWork, Place, JobStatus, ErrorKind
<1>2. Registers
  BY DEF Init, Registers, AtWork
<1>. QED  BY <1>1, <1>2 DEF TypeInv

\* Ingesting an event keeps the tables well-typed.
LEMMA IngestRowsType ==
  ASSUME TypeInv, NEW e \in Event, IngestRows(e)
  PROVE  /\ event' \in [Event -> {"new", "accepted", "duplicate", "skipped"}]
         /\ status' \in [Call -> JobStatus]
         /\ attempts' \in [Call -> Nat]
         /\ lastError' \in [Call -> ErrorKind]
         /\ jobId' \in [Call -> Nat]
         /\ expired' \in [Call -> BOOLEAN]
<1>1. EventCall[e] \in Call
  BY ConstantsAssumption
<1>. USE DEF TypeInv, TypeOK, JobStatus, ErrorKind
<1>2. CASE UNCHANGED db
  BY <1>2 DEF db
<1>3. CASE event' = [event EXCEPT ![e] = "skipped"]
           /\ UNCHANGED <<status, attempts, lastError, jobId, expired>>
  BY <1>3
<1>4. CASE event' = [event EXCEPT ![e] = "duplicate"]
           /\ UNCHANGED <<status, attempts, lastError, jobId, expired>>
  BY <1>4
<1>5. CASE /\ event' = [event EXCEPT ![e] = "accepted"]
           /\ SetJob(EventCall[e], "pending", "none")
           /\ attempts' = [attempts EXCEPT ![EventCall[e]] = 0]
           /\ jobId' = [jobId EXCEPT ![EventCall[e]] = NextJobId]
  BY <1>1, <1>5, NextJobIdType DEF SetJob
<1>. QED
  BY <1>2, <1>3, <1>4, <1>5 DEF IngestRows

LEMMA NextTypeInv == TypeInv /\ [Next]_vars => TypeInv'
<1>. SUFFICES ASSUME TypeInv, [Next]_vars PROVE TypeInv'
  OBVIOUS
<1>. USE DEF TypeInv, TypeOK, Registers, db, files, mem, hist
<1>1. ASSUME NEW e \in Event, Ingest(e) PROVE TypeInv'
  BY <1>1, IngestRowsType DEF Ingest
<1>2. ASSUME NEW s \in Server, ServerStart(s) PROVE TypeInv'
  BY <1>2 DEF ServerStart, Recover, JobStatus, Place, AtWork, Proc
<1>3. ASSUME NEW s \in Server, Shutdown(s) PROVE TypeInv'
  BY <1>3 DEF Shutdown, Gone, Place, AtWork, ErrorKind, Proc
<1>4. ASSUME NEW s \in Server, NEW c \in Call, ManualRetry(s, c)
      PROVE TypeInv'
  BY <1>4 DEF ManualRetry, SetJob, JobStatus, ErrorKind
<1>5. ASSUME NEW r \in Replay, NEW e \in Event, ReplayStart(r, e)
      PROVE TypeInv'
  BY <1>5, IngestRowsType, ConstantsAssumption
  DEF ReplayStart, Place, AtWork, Proc
<1>6. ASSUME NEW r \in Replay, ReplayRecover(r) PROVE TypeInv'
  BY <1>6 DEF ReplayRecover, Recover, Goto, JobStatus, Place, AtWork, Proc
<1>7. ASSUME NEW r \in Replay, ReplayLoop(r) PROVE TypeInv'
  BY <1>7 DEF ReplayLoop, Goto, Gone, Place, AtWork, ErrorKind, Proc
<1>8. ASSUME NEW r \in Replay, ReplayStalls(r) PROVE TypeInv'
  BY <1>8 DEF ReplayStalls, Gone, Place, AtWork, ErrorKind, Proc
<1>9. ASSUME NEW p \in Proc, Crash(p) PROVE TypeInv'
  BY <1>9 DEF Crash, Gone, Place, AtWork, ErrorKind
<1>10. ASSUME NEW p \in Proc, Cycle(p) PROVE TypeInv'
  <2>1. ASSUME NEW c \in Call, ClaimNextJob(p, c) PROVE TypeInv'
    BY <2>1 DEF ClaimNextJob, SetJob, JobStatus, Place, AtWork
  <2>2. ASSUME Load(p) PROVE TypeInv'
    BY <2>2 DEF Load, Goto, Catch, Place, AtWork, ErrorKind
  <2>3. ASSUME Analyse(p) PROVE TypeInv'
    <3>1. work[p] \in Call
      BY <2>3 DEF Analyse, AtWork
    <3>2. TypeOK'
      <4>1. CASE /\ analysed' = [analysed EXCEPT ![work[p]] = TRUE]
                 /\ Goto(p, "rendering")
        BY <2>3, <3>1, <4>1 DEF Analyse, Goto, Place, AtWork
      <4>2. CASE Catch(p, "retryable") /\ UNCHANGED analysed
        BY <2>3, <4>2 DEF Analyse, Catch, Place, AtWork, ErrorKind
      <4>. QED  BY <2>3, <4>1, <4>2 DEF Analyse
    <3>3. Registers'
      BY <2>3 DEF Analyse, Goto, Catch, AtWork
    <3>. QED  BY <3>2, <3>3
  <2>4. ASSUME ReleaseForShutdown(p) PROVE TypeInv'
    <3>1. work[p] \in Call
      BY <2>4 DEF ReleaseForShutdown, AtWork
    <3>2. TypeOK'
      <4>1. CASE SetJob(work[p], "pending", "none")
        BY <2>4, <3>1, <4>1 DEF ReleaseForShutdown, SetJob, Gone, JobStatus,
                                Place, AtWork, ErrorKind
      <4>2. CASE UNCHANGED <<status, lastError, expired>>
        BY <2>4, <4>2 DEF ReleaseForShutdown, Gone, Place, AtWork, ErrorKind
      <4>. QED  BY <2>4, <4>1, <4>2 DEF ReleaseForShutdown
    <3>3. Registers'
      BY <2>4 DEF ReleaseForShutdown, Gone, AtWork
    <3>. QED  BY <3>2, <3>3
  <2>5. ASSUME BeginReport(p) PROVE TypeInv'
    BY <2>5 DEF BeginReport, Goto, Catch, Place, AtWork, ErrorKind
  <2>6. ASSUME FinishReport(p) PROVE TypeInv'
    BY <2>6 DEF FinishReport, Goto, Catch, Place, AtWork, ErrorKind
  <2>7. ASSUME PlanOutbox(p) PROVE TypeInv'
    BY <2>7 DEF PlanOutbox, PlannedRows, Goto, Catch, Place, AtWork, ErrorKind
  <2>8. ASSUME SucceedJob(p) PROVE TypeInv'
    <3>1. work[p] \in Call
      BY <2>8 DEF SucceedJob, AtWork
    <3>2. TypeOK'
      <4>1. CASE SetJob(work[p], "succeeded", "none") /\ CycleDone(p)
        BY <2>8, <3>1, <4>1 DEF SucceedJob, SetJob, CycleDone, JobStatus,
                                Place, AtWork, ErrorKind
      <4>2. CASE /\ Catch(p, "retryable")
                 /\ UNCHANGED <<status, lastError, expired>>
        BY <2>8, <4>2 DEF SucceedJob, Catch, Place, AtWork, ErrorKind
      <4>. QED  BY <2>8, <4>1, <4>2 DEF SucceedJob
    <3>3. Registers'
      BY <2>8 DEF SucceedJob, CycleDone, Catch, AtWork
    <3>. QED  BY <3>2, <3>3
  <2>9. ASSUME FailJob(p) PROVE TypeInv'
    BY <2>9 DEF FailJob, SetJob, Goto, JobStatus, Place, AtWork, ErrorKind
  <2>10. ASSUME CheckRetry(p) PROVE TypeInv'
    BY <2>10 DEF CheckRetry, CycleDone, Goto, Place, AtWork, ErrorKind
  <2>11. ASSUME RetryJob(p) PROVE TypeInv'
    BY <2>11 DEF RetryJob, SetJob, CycleDone, JobStatus, Place, AtWork,
                 ErrorKind
  <2>12. ASSUME StoreThrows(p) PROVE TypeInv'
    BY <2>12 DEF StoreThrows, CycleThrew, CycleDone, Gone, Place, AtWork,
                 ErrorKind
  <2>. QED
    BY <1>10, <2>1, <2>2, <2>3, <2>4, <2>5, <2>6, <2>7, <2>8, <2>9, <2>10,
       <2>11, <2>12 DEF Cycle
<1>11. ASSUME NEW c \in Call, LeaseExpires(c) PROVE TypeInv'
  BY <1>11 DEF LeaseExpires
<1>12. CASE UNCHANGED vars
  BY <1>12 DEF vars, NextJobId
<1>. QED
  BY <1>1, <1>2, <1>3, <1>4, <1>5, <1>6, <1>7, <1>8, <1>9, <1>10, <1>11,
     <1>12 DEF Next

\* Every table, artifact state and process register keeps its type.
THEOREM TypeCorrect == Spec => []TypeOK
<1>1. TypeInv => TypeOK
  BY DEF TypeInv
<1>. QED
  BY <1>1, InitTypeInv, NextTypeInv, PTL DEF Spec

THEOREM TypeInvariance == Spec => []TypeInv
BY InitTypeInv, NextTypeInv, PTL DEF Spec

----------------------------------------------------------------------------
(* One owner per job *)

\* A job somebody works on is running, and nobody else works on it.
Owners ==
  \A p \in Proc, c \in Call :
    Holds(p, c) => /\ status[c] = "running"
                   /\ \A q \in Proc : Holds(q, c) => q = p

OwnerInv == ~overrun => Owners

\* A step after which every owner was an owner of a running job before.
LEMMA OwnersFrame ==
  ASSUME Owners,
         \A p \in Proc, c \in Call :
           Holds(p, c)' => Holds(p, c) /\ status'[c] = "running"
  PROVE  Owners'
<1>. SUFFICES ASSUME NEW p \in Proc, NEW c \in Call, Holds(p, c)'
              PROVE  /\ status'[c] = "running"
                     /\ \A q \in Proc : Holds(q, c)' => q = p
  BY DEF Owners
<1>. QED  BY DEF Owners

\* Ingestion gives a new job to nobody and leaves every other job alone.
LEMMA IngestRowsFrame ==
  ASSUME TypeInv, NEW e \in Event, IngestRows(e), NEW c \in Call,
         status[c] # "none"
  PROVE  status'[c] = status[c]
BY ConstantsAssumption DEF TypeInv, TypeOK, IngestRows, SetJob, db

\* A recovery that takes no job from a live owner leaves the others' alone.
LEMMA RecoverFrame ==
  ASSUME TypeInv, NEW cs \in SUBSET Call, Recover(cs), ~overrun',
         NEW p \in Proc, NEW c \in Call, Holds(p, c)
  PROVE  ~overrun /\ status'[c] = status[c]
BY DEF TypeInv, TypeOK, Recover

LEMMA NextOwner == TypeInv /\ OwnerInv /\ [Next]_vars => OwnerInv'
<1>. SUFFICES ASSUME TypeInv, OwnerInv, [Next]_vars, ~overrun' PROVE Owners'
  BY DEF OwnerInv
<1>. USE DEF db, files, mem, hist
<1>a. ASSUME overrun' = overrun PROVE Owners
  BY <1>a DEF OwnerInv
<1>b. \A p \in Proc, c \in Call : Owners /\ Holds(p, c) => status[c] = "running"
  BY DEF Owners
<1>1. ASSUME NEW e \in Event, Ingest(e) PROVE Owners'
  BY <1>1, <1>a, <1>b, OwnersFrame, IngestRowsFrame DEF Ingest, Holds
<1>2. ASSUME NEW s \in Server, ServerStart(s) PROVE Owners'
  <2>1. Recover({c \in Call : Stale(c)}) /\ pc' = [pc EXCEPT ![s] = "idle"]
        /\ work' = work
    BY <1>2 DEF ServerStart
  <2>2. ~overrun
    BY <2>1 DEF Recover
  <2>3. \A p \in Proc, c \in Call : Holds(p, c)' => Holds(p, c)
    BY <2>1 DEF Holds, TypeInv, TypeOK, AtWork, Proc
  <2>. QED
    BY <2>1, <2>2, <2>3, <1>b, OwnersFrame, RecoverFrame DEF OwnerInv
<1>3. ASSUME NEW s \in Server, Shutdown(s) PROVE Owners'
  BY <1>3, <1>a, <1>b, OwnersFrame
  DEF Shutdown, Gone, Holds, AtWork, TypeInv, TypeOK, Proc
<1>4. ASSUME NEW s \in Server, NEW c \in Call, ManualRetry(s, c) PROVE Owners'
  BY <1>4, <1>a, <1>b, OwnersFrame
  DEF ManualRetry, SetJob, Holds, TypeInv, TypeOK
<1>5. ASSUME NEW r \in Replay, NEW e \in Event, ReplayStart(r, e)
      PROVE Owners'
  BY <1>5, <1>a, <1>b, OwnersFrame, IngestRowsFrame
  DEF ReplayStart, Holds, AtWork, TypeInv, TypeOK, Proc
<1>6. ASSUME NEW r \in Replay, ReplayRecover(r) PROVE Owners'
  <2>1. Recover({c \in {target[r]} : Stale(c)})
        /\ pc' = [pc EXCEPT ![r] = "looping"] /\ work' = work
    BY <1>6 DEF ReplayRecover, Goto
  <2>2. ~overrun
    BY <2>1 DEF Recover
  <2>3. \A p \in Proc, c \in Call : Holds(p, c)' => Holds(p, c)
    BY <2>1 DEF Holds, TypeInv, TypeOK, AtWork, Proc
  <2>4. \A p \in Proc, c \in Call : Holds(p, c) => status'[c] = status[c]
    BY <2>1 DEF Recover, TypeInv, TypeOK
  <2>. QED
    BY <2>1, <2>2, <2>3, <2>4, <1>b, OwnersFrame DEF OwnerInv
<1>7. ASSUME NEW r \in Replay, ReplayLoop(r) PROVE Owners'
  BY <1>7, <1>a, <1>b, OwnersFrame
  DEF ReplayLoop, Goto, Gone, Holds, AtWork, TypeInv, TypeOK, Proc
<1>8. ASSUME NEW r \in Replay, ReplayStalls(r) PROVE Owners'
  BY <1>8, <1>a, <1>b, OwnersFrame
  DEF ReplayStalls, Gone, Holds, AtWork, TypeInv, TypeOK, Proc
<1>9. ASSUME NEW p \in Proc, Crash(p) PROVE Owners'
  BY <1>9, <1>a, <1>b, OwnersFrame
  DEF Crash, Gone, Holds, AtWork, TypeInv, TypeOK
<1>10. ASSUME NEW p \in Proc, Cycle(p) PROVE Owners'
  <2>1. ASSUME NEW c \in Call, ClaimNextJob(p, c) PROVE Owners'
    <3>1. status[c] = "pending" /\ Owners
      BY <2>1, <1>a DEF ClaimNextJob, Oldest, Claimable
    <3>2. \A q \in Proc : ~Holds(q, c)
      BY <3>1 DEF Owners
    <3>3. \A q \in Proc, d \in Call :
            Holds(q, d)' <=> IF q = p THEN d = c ELSE Holds(q, d)
      BY <2>1 DEF ClaimNextJob, Holds, AtWork, TypeInv, TypeOK
    <3>4. status' = [status EXCEPT ![c] = "running"]
      BY <2>1 DEF ClaimNextJob, SetJob
    <3>. QED
      BY <3>1, <3>2, <3>3, <3>4 DEF Owners, TypeInv, TypeOK
  <2>2. ASSUME Load(p) PROVE Owners'
    BY <2>2, <1>a, <1>b, OwnersFrame
    DEF Load, Goto, Catch, Holds, AtWork, TypeInv, TypeOK
  <2>3. ASSUME Analyse(p) PROVE Owners'
    BY <2>3, <1>a, <1>b, OwnersFrame
    DEF Analyse, Goto, Catch, Holds, AtWork, TypeInv, TypeOK
  <2>4. ASSUME ReleaseForShutdown(p) PROVE Owners'
    <3>1. Owners /\ Holds(p, work[p]) /\ work[p] \in Call
      BY <2>4, <1>a DEF ReleaseForShutdown, Holds, AtWork, TypeInv, Registers
    <3>2. \A q \in Proc, d \in Call : Holds(q, d)' => q # p /\ Holds(q, d)
      BY <2>4 DEF ReleaseForShutdown, Gone, Holds, AtWork, TypeInv, TypeOK
    <3>3. \A d \in Call : d # work[p] => status'[d] = status[d]
      BY <2>4 DEF ReleaseForShutdown, SetJob, TypeInv, TypeOK
    <3>. QED  BY <3>1, <3>2, <3>3, <1>b, OwnersFrame DEF Owners
  <2>5. ASSUME BeginReport(p) PROVE Owners'
    BY <2>5, <1>a, <1>b, OwnersFrame
    DEF BeginReport, Goto, Catch, Holds, AtWork, TypeInv, TypeOK
  <2>6. ASSUME FinishReport(p) PROVE Owners'
    BY <2>6, <1>a, <1>b, OwnersFrame
    DEF FinishReport, Goto, Catch, Holds, AtWork, TypeInv, TypeOK
  <2>7. ASSUME PlanOutbox(p) PROVE Owners'
    BY <2>7, <1>a, <1>b, OwnersFrame
    DEF PlanOutbox, Goto, Catch, Holds, AtWork, TypeInv, TypeOK
  <2>8. ASSUME SucceedJob(p) PROVE Owners'
    <3>1. Owners /\ Holds(p, work[p]) /\ work[p] \in Call
      BY <2>8, <1>a DEF SucceedJob, Holds, AtWork, TypeInv, Registers
    <3>2. CASE SetJob(work[p], "succeeded", "none") /\ CycleDone(p)
      <4>1. \A q \in Proc, d \in Call : Holds(q, d)' => q # p /\ Holds(q, d)
        BY <3>2 DEF CycleDone, Holds, AtWork, TypeInv, TypeOK
      <4>2. \A d \in Call : d # work[p] => status'[d] = status[d]
        BY <3>2 DEF SetJob, TypeInv, TypeOK
      <4>. QED  BY <3>1, <4>1, <4>2, <1>b, OwnersFrame DEF Owners
    <3>3. CASE /\ Catch(p, "retryable")
               /\ UNCHANGED <<status, lastError, expired>>
      BY <3>1, <3>3, <1>b, OwnersFrame
      DEF Catch, Holds, AtWork, TypeInv, TypeOK
    <3>. QED  BY <2>8, <3>2, <3>3 DEF SucceedJob
  <2>9. ASSUME FailJob(p) PROVE Owners'
    <3>1. Owners /\ Holds(p, work[p]) /\ work[p] \in Call
      BY <2>9, <1>a DEF FailJob, Holds, AtWork, TypeInv, Registers
    <3>2. \A q \in Proc, d \in Call : Holds(q, d)' => q # p /\ Holds(q, d)
      BY <2>9 DEF FailJob, Goto, Holds, AtWork, TypeInv, TypeOK
    <3>3. \A d \in Call : d # work[p] => status'[d] = status[d]
      BY <2>9 DEF FailJob, SetJob, TypeInv, TypeOK
    <3>. QED  BY <3>1, <3>2, <3>3, <1>b, OwnersFrame DEF Owners
  <2>10. ASSUME CheckRetry(p) PROVE Owners'
    BY <2>10, <1>a, <1>b, OwnersFrame
    DEF CheckRetry, Goto, CycleDone, Holds, AtWork, TypeInv, TypeOK
  <2>11. ASSUME RetryJob(p) PROVE Owners'
    <3>1. Owners /\ status[work[p]] = "failed"
      BY <2>11, <1>a DEF RetryJob
    <3>2. \A q \in Proc, d \in Call : Holds(q, d)' => Holds(q, d)
      BY <2>11 DEF RetryJob, CycleDone, Holds, AtWork, TypeInv, TypeOK
    <3>3. \A d \in Call : d # work[p] => status'[d] = status[d]
      BY <2>11 DEF RetryJob, SetJob, TypeInv, TypeOK
    <3>. QED  BY <3>1, <3>2, <3>3, <1>b, OwnersFrame
  <2>12. ASSUME StoreThrows(p) PROVE Owners'
    BY <2>12, <1>a, <1>b, OwnersFrame
    DEF StoreThrows, CycleThrew, CycleDone, Gone, Holds, AtWork, TypeInv,
        TypeOK
  <2>. QED
    BY <1>10, <2>1, <2>2, <2>3, <2>4, <2>5, <2>6, <2>7, <2>8, <2>9, <2>10,
       <2>11, <2>12 DEF Cycle
<1>11. ASSUME NEW c \in Call, LeaseExpires(c) PROVE Owners'
  BY <1>11, <1>a, <1>b, OwnersFrame DEF LeaseExpires, Holds
<1>12. CASE UNCHANGED vars
  BY <1>12, <1>a, <1>b, OwnersFrame DEF vars, Holds
<1>. QED
  BY <1>1, <1>2, <1>3, <1>4, <1>5, <1>6, <1>7, <1>8, <1>9, <1>10, <1>11,
     <1>12 DEF Next

\* As long as no live owner's lease was recovered, no two processes work on
\* the same job (the transactions of sqlite-store.ts 330-407 without an owner
\* token).
THEOREM OneOwnerHolds == Spec => []OneOwner
<1>1. Init => OwnerInv
  BY DEF Init, OwnerInv, Owners, Holds, AtWork
<1>2. OwnerInv => OneOwner
  BY DEF OwnerInv, Owners, OneOwner
<1>. QED
  BY <1>1, <1>2, InitTypeInv, NextTypeInv, NextOwner, PTL DEF Spec

----------------------------------------------------------------------------
(* Succeeded jobs *)

\* Every statement that changes a status names the status it expects, and
\* none expects "succeeded".
LEMMA NextSucceeded ==
  ASSUME TypeInv, [Next]_vars, NEW c \in Call, status[c] = "succeeded"
  PROVE  status'[c] = "succeeded"
<1>. USE DEF db, files, mem, hist, TypeInv, TypeOK
<1>1. ASSUME NEW e \in Event, IngestRows(e) PROVE status'[c] = "succeeded"
  BY <1>1, IngestRowsFrame
<1>2. ASSUME NEW cs \in SUBSET Call, Recover(cs), c \notin cs
      PROVE  status'[c] = "succeeded"
  BY <1>2 DEF Recover
<1>3. ASSUME NEW s \in Server, ServerStart(s) PROVE status'[c] = "succeeded"
  BY <1>3, <1>2 DEF ServerStart, Stale
<1>4. ASSUME NEW r \in Replay, ReplayRecover(r) PROVE status'[c] = "succeeded"
  BY <1>4 DEF ReplayRecover, Recover, Stale
<1>5. ASSUME NEW p \in Proc, Cycle(p) PROVE status'[c] = "succeeded"
  <2>1. ASSUME NEW d \in Call, ClaimNextJob(p, d)
        PROVE  status'[c] = "succeeded"
    BY <2>1 DEF ClaimNextJob, Oldest, Claimable, SetJob
  <2>2. ASSUME ReleaseForShutdown(p) PROVE status'[c] = "succeeded"
    BY <2>2 DEF ReleaseForShutdown, SetJob
  <2>3. ASSUME SucceedJob(p) PROVE status'[c] = "succeeded"
    BY <2>3 DEF SucceedJob, SetJob
  <2>4. ASSUME FailJob(p) PROVE status'[c] = "succeeded"
    BY <2>4 DEF FailJob, SetJob
  <2>5. ASSUME RetryJob(p) PROVE status'[c] = "succeeded"
    BY <2>5 DEF RetryJob, SetJob
  <2>. QED
    BY <1>5, <2>1, <2>2, <2>3, <2>4, <2>5
    DEF Cycle, Load, Analyse, BeginReport, FinishReport, PlanOutbox,
        CheckRetry, StoreThrows
<1>6. ASSUME NEW s \in Server, NEW d \in Call, ManualRetry(s, d)
      PROVE  status'[c] = "succeeded"
  BY <1>6 DEF ManualRetry, SetJob
<1>. QED
  BY <1>1, <1>3, <1>4, <1>5, <1>6
  DEF Next, Ingest, Shutdown, ReplayStart, ReplayLoop, ReplayStalls, Crash,
      LeaseExpires, vars

\* No interleaving of owners, recoveries and retries, overrun leases
\* included, puts a succeeded job back or fails it.
THEOREM SucceededStays == Spec => SucceededIsFinal
<1>1. TypeInv /\ [Next]_vars
        => [\A c \in Call : status[c] = "succeeded"
                              => status'[c] = "succeeded"]_vars
  BY NextSucceeded
<1>. QED
  BY <1>1, TypeInvariance, PTL DEF Spec, SucceededIsFinal

----------------------------------------------------------------------------
(* Queued mail *)

\* Calls whose mail the live planner has to queue.
Due(c) == OutboundMode = "live" /\ c \in AfterCutover \ MailOff

\* No suppressed row blocks a due call's mail, a replay CLI's claims are on
\* record, and a server that reached succeedJob has planned.
QueueInv ==
  /\ \A c \in Call : Due(c) => outbox[c] # "suppressed"
  /\ \A r \in Replay, c \in Call : Holds(r, c) => c \in replayed
  /\ \A s \in Server, c \in Call :
       pc[s] = "succeeding" /\ work[s] = c /\ Due(c) => outbox[c] = "pending"
  /\ \A c \in Call :
       Due(c) /\ status[c] = "succeeded" /\ c \notin replayed
         => outbox[c] = "pending"

\* A step that plans nothing and lets no process reach succeedJob.
LEMMA QueueFrame ==
  ASSUME QueueInv, outbox' = outbox, replayed' = replayed,
         \A p \in Proc, c \in Call :
           /\ Holds(p, c)' => Holds(p, c)
           /\ pc'[p] = "succeeding" /\ work'[p] = c
                => pc[p] = "succeeding" /\ work[p] = c,
         \A c \in Call : status'[c] = "succeeded" => status[c] = "succeeded"
  PROVE  QueueInv'
<1>1. \A c \in Call : Due(c)' = Due(c)
  BY DEF Due
<1>2. (\A r \in Replay, c \in Call : Holds(r, c) => c \in replayed)'
  BY DEF QueueInv, Proc
<1>3. (\A s \in Server, c \in Call :
         pc[s] = "succeeding" /\ work[s] = c /\ Due(c) => outbox[c] = "pending")'
  BY <1>1 DEF QueueInv, Proc
<1>. QED  BY <1>1, <1>2, <1>3 DEF QueueInv

\* No recovery makes a job succeed.
LEMMA RecoverSucceedsNone ==
  ASSUME TypeInv, NEW cs, Recover(cs), NEW c \in Call,
         status'[c] = "succeeded"
  PROVE  status[c] = "succeeded"
BY DEF TypeInv, TypeOK, Recover

LEMMA IngestSucceedsNone ==
  ASSUME TypeInv, NEW e \in Event, IngestRows(e), NEW c \in Call,
         status'[c] = "succeeded"
  PROVE  status[c] = "succeeded"
BY ConstantsAssumption DEF TypeInv, TypeOK, IngestRows, SetJob, db

LEMMA NextQueue == TypeInv /\ QueueInv /\ [Next]_vars => QueueInv'
<1>. SUFFICES ASSUME TypeInv, QueueInv, [Next]_vars PROVE QueueInv'
  OBVIOUS
<1>. USE DEF db, files, mem, hist
<1>1. ASSUME NEW e \in Event, Ingest(e) PROVE QueueInv'
  BY <1>1, QueueFrame, IngestSucceedsNone DEF Ingest, Holds
<1>2. ASSUME NEW s \in Server, ServerStart(s) PROVE QueueInv'
  BY <1>2, QueueFrame, RecoverSucceedsNone
  DEF ServerStart, Holds, AtWork, Proc, TypeInv, TypeOK
<1>3. ASSUME NEW s \in Server, Shutdown(s) PROVE QueueInv'
  BY <1>3, QueueFrame
  DEF Shutdown, Gone, Holds, AtWork, Proc, TypeInv, TypeOK
<1>4. ASSUME NEW s \in Server, NEW c \in Call, ManualRetry(s, c)
      PROVE QueueInv'
  BY <1>4, QueueFrame DEF ManualRetry, SetJob, Holds, TypeInv, TypeOK
<1>5. ASSUME NEW r \in Replay, NEW e \in Event, ReplayStart(r, e)
      PROVE QueueInv'
  BY <1>5, QueueFrame, IngestSucceedsNone
  DEF ReplayStart, Holds, AtWork, Proc, TypeInv, TypeOK
<1>6. ASSUME NEW r \in Replay, ReplayRecover(r) PROVE QueueInv'
  BY <1>6, QueueFrame, RecoverSucceedsNone
  DEF ReplayRecover, Goto, Holds, AtWork, Proc, TypeInv, TypeOK
<1>7. ASSUME NEW r \in Replay, ReplayLoop(r) PROVE QueueInv'
  BY <1>7, QueueFrame
  DEF ReplayLoop, Goto, Gone, Holds, AtWork, Proc, TypeInv, TypeOK
<1>8. ASSUME NEW r \in Replay, ReplayStalls(r) PROVE QueueInv'
  BY <1>8, QueueFrame
  DEF ReplayStalls, Gone, Holds, AtWork, Proc, TypeInv, TypeOK
<1>9. ASSUME NEW p \in Proc, Crash(p) PROVE QueueInv'
  BY <1>9, QueueFrame DEF Crash, Gone, Holds, AtWork, TypeInv, TypeOK
<1>10. ASSUME NEW p \in Proc, Cycle(p) PROVE QueueInv'
  <2>1. ASSUME NEW c \in Call, ClaimNextJob(p, c) PROVE QueueInv'
    <3>1. \A q \in Proc, d \in Call :
            Holds(q, d)' <=> IF q = p THEN d = c ELSE Holds(q, d)
      BY <2>1 DEF ClaimNextJob, Holds, AtWork, TypeInv, TypeOK
    <3>2. \A s \in Server : pc'[s] = "succeeding"
                              => pc[s] = "succeeding" /\ work'[s] = work[s]
      BY <2>1 DEF ClaimNextJob, TypeInv, TypeOK, Proc
    <3>3. /\ outbox' = outbox
          /\ \A d \in Call : status'[d] = "succeeded"
                               => status[d] = "succeeded"
      BY <2>1 DEF ClaimNextJob, SetJob, TypeInv, TypeOK
    <3>4. replayed' = IF p \in Replay THEN replayed \cup {c} ELSE replayed
      BY <2>1 DEF ClaimNextJob
    <3>5. (\A r \in Replay, d \in Call : Holds(r, d) => d \in replayed)'
      BY <3>1, <3>4 DEF QueueInv, Proc
    <3>6. (\A s \in Server, d \in Call :
             pc[s] = "succeeding" /\ work[s] = d /\ Due(d)
               => outbox[d] = "pending")'
      BY <3>2, <3>3 DEF QueueInv, Due
    <3>. QED  BY <3>3, <3>4, <3>5, <3>6 DEF QueueInv, Due
  <2>2. ASSUME Load(p) PROVE QueueInv'
    BY <2>2, QueueFrame
    DEF Load, Goto, Catch, Holds, AtWork, TypeInv, TypeOK
  <2>3. ASSUME Analyse(p) PROVE QueueInv'
    BY <2>3, QueueFrame
    DEF Analyse, Goto, Catch, Holds, AtWork, TypeInv, TypeOK
  <2>4. ASSUME ReleaseForShutdown(p) PROVE QueueInv'
    BY <2>4, QueueFrame
    DEF ReleaseForShutdown, SetJob, Gone, Holds, AtWork, TypeInv, TypeOK
  <2>5. ASSUME BeginReport(p) PROVE QueueInv'
    BY <2>5, QueueFrame
    DEF BeginReport, Goto, Catch, Holds, AtWork, TypeInv, TypeOK
  <2>6. ASSUME FinishReport(p) PROVE QueueInv'
    BY <2>6, QueueFrame
    DEF FinishReport, Goto, Catch, Holds, AtWork, TypeInv, TypeOK
  <2>7. ASSUME PlanOutbox(p) PROVE QueueInv'
    <3>1. work[p] \in Call /\ Holds(p, work[p])
      BY <2>7 DEF PlanOutbox, Holds, AtWork, TypeInv, Registers
    <3>2. CASE Catch(p, "retryable") /\ UNCHANGED outbox
      BY <2>7, <3>2, QueueFrame
      DEF PlanOutbox, Catch, Holds, AtWork, TypeInv, TypeOK
    <3>3. CASE /\ outbox' = [outbox EXCEPT ![work[p]] = PlannedRows(p, work[p])]
               /\ Goto(p, "succeeding")
      <4>1. status' = status /\ replayed' = replayed
        BY <2>7 DEF PlanOutbox
      <4>2. \A q \in Proc, d \in Call : Holds(q, d)' => Holds(q, d)
        BY <3>1, <3>3 DEF Goto, Holds, AtWork, TypeInv, TypeOK
      <4>3. \A d \in Call :
              /\ outbox[d] = "pending" => outbox'[d] = "pending"
              /\ Due(d) => outbox'[d] # "suppressed"
        BY <3>1, <3>3 DEF PlannedRows, Due, QueueInv, TypeInv, TypeOK
      <4>4. p \in Server /\ Due(work[p]) => outbox'[work[p]] = "pending"
        <5>1. ASSUME p \in Server, Due(work[p])
              PROVE  PlannedRows(p, work[p]) = "pending"
          BY <3>1, <5>1, ConstantsAssumption
          DEF PlannedRows, Due, QueueInv, TypeInv, TypeOK
        <5>. QED  BY <3>1, <3>3, <5>1 DEF TypeInv, TypeOK
      <4>5. \A s \in Server : pc'[s] = "succeeding"
                                => /\ s = p \/ pc[s] = "succeeding"
                                   /\ work'[s] = work[s]
        BY <3>3 DEF Goto, TypeInv, TypeOK, Proc
      <4>6. (\A s \in Server, d \in Call :
               pc[s] = "succeeding" /\ work[s] = d /\ Due(d)
                 => outbox[d] = "pending")'
        BY <4>3, <4>4, <4>5 DEF QueueInv, Due
      <4>7. (\A r \in Replay, d \in Call : Holds(r, d) => d \in replayed)'
        BY <4>1, <4>2 DEF QueueInv, Proc
      <4>8. (\A d \in Call : Due(d) /\ status[d] = "succeeded"
                              /\ d \notin replayed => outbox[d] = "pending")'
        BY <4>1, <4>3 DEF QueueInv, Due
      <4>. QED  BY <4>3, <4>6, <4>7, <4>8 DEF QueueInv, Due
    <3>. QED  BY <2>7, <3>2, <3>3 DEF PlanOutbox
  <2>8. ASSUME SucceedJob(p) PROVE QueueInv'
    <3>1. work[p] \in Call /\ Holds(p, work[p])
      BY <2>8 DEF SucceedJob, Holds, AtWork, TypeInv, Registers
    <3>2. CASE /\ Catch(p, "retryable")
               /\ UNCHANGED <<status, lastError, expired>>
      BY <2>8, <3>2, QueueFrame
      DEF SucceedJob, Catch, Holds, AtWork, TypeInv, TypeOK
    <3>3. CASE SetJob(work[p], "succeeded", "none") /\ CycleDone(p)
      <4>1. outbox' = outbox /\ replayed' = replayed
        BY <2>8 DEF SucceedJob
      <4>2. \A q \in Proc, d \in Call :
              /\ Holds(q, d)' => Holds(q, d)
              /\ pc'[q] = "succeeding" /\ work'[q] = d
                   => pc[q] = "succeeding" /\ work[q] = d
        BY <3>3 DEF CycleDone, Holds, AtWork, TypeInv, TypeOK
      <4>3. Due(work[p]) /\ work[p] \notin replayed
              => outbox[work[p]] = "pending"
        BY <2>8, <3>1 DEF SucceedJob, QueueInv, Proc
      <4>4. \A d \in Call : status'[d] = "succeeded"
                              => d = work[p] \/ status[d] = "succeeded"
        BY <3>1, <3>3 DEF SetJob, TypeInv, TypeOK
      <4>5. (\A r \in Replay, d \in Call : Holds(r, d) => d \in replayed)'
        BY <4>1, <4>2 DEF QueueInv, Proc
      <4>6. (\A s \in Server, d \in Call :
               pc[s] = "succeeding" /\ work[s] = d /\ Due(d)
                 => outbox[d] = "pending")'
        BY <4>1, <4>2 DEF QueueInv, Due, Proc
      <4>. QED  BY <4>1, <4>3, <4>4, <4>5, <4>6 DEF QueueInv, Due
    <3>. QED  BY <2>8, <3>2, <3>3 DEF SucceedJob
  <2>9. ASSUME FailJob(p) PROVE QueueInv'
    BY <2>9, QueueFrame
    DEF FailJob, SetJob, Goto, Holds, AtWork, TypeInv, TypeOK, ErrorKind
  <2>10. ASSUME CheckRetry(p) PROVE QueueInv'
    BY <2>10, QueueFrame
    DEF CheckRetry, Goto, CycleDone, Holds, AtWork, TypeInv, TypeOK
  <2>11. ASSUME RetryJob(p) PROVE QueueInv'
    BY <2>11, QueueFrame
    DEF RetryJob, SetJob, CycleDone, Holds, AtWork, TypeInv, TypeOK
  <2>12. ASSUME StoreThrows(p) PROVE QueueInv'
    BY <2>12, QueueFrame
    DEF StoreThrows, CycleThrew, CycleDone, Gone, Holds, AtWork, TypeInv,
        TypeOK
  <2>. QED
    BY <1>10, <2>1, <2>2, <2>3, <2>4, <2>5, <2>6, <2>7, <2>8, <2>9, <2>10,
       <2>11, <2>12 DEF Cycle
<1>11. ASSUME NEW c \in Call, LeaseExpires(c) PROVE QueueInv'
  BY <1>11, QueueFrame DEF LeaseExpires, Holds
<1>12. CASE UNCHANGED vars
  BY <1>12, QueueFrame DEF vars, Holds
<1>. QED
  BY <1>1, <1>2, <1>3, <1>4, <1>5, <1>6, <1>7, <1>8, <1>9, <1>10, <1>11,
     <1>12 DEF Next

\* A due call that succeeded without the help of a replay CLI has its mail
\* queued, whatever crashed, lapsed or ran twice before.
THEOREM ReportsQueuedHolds == Spec => []ReportsQueued
<1>1. Init => QueueInv
  BY DEF Init, QueueInv, Holds, AtWork, Proc
<1>2. QueueInv => ReportsQueued
  BY DEF QueueInv, ReportsQueued, Due
<1>. QED
  BY <1>1, <1>2, InitTypeInv, NextTypeInv, NextQueue, PTL DEF Spec

\* Where no replay CLI is ever started with --wait, every due report is queued:
\* what run replay_reports refutes fails for that CLI's sake alone.
THEOREM EveryReportQueuedWithoutReplay ==
  ASSUME Replay = {} PROVE Spec => []EveryReportQueued
<1>1. Init => replayed = {}
  BY DEF Init
<1>2. replayed = {} /\ [Next]_vars => (replayed = {})'
  BY DEF Next, vars, db, files, mem, hist, Ingest, ServerStart, Shutdown,
     ManualRetry, Crash, LeaseExpires, Cycle, ClaimNextJob, Load, Analyse,
     ReleaseForShutdown, BeginReport, FinishReport, PlanOutbox, SucceedJob,
     FailJob, CheckRetry, RetryJob, StoreThrows
<1>3. replayed = {} /\ ReportsQueued => EveryReportQueued
  BY DEF ReportsQueued, EveryReportQueued
<1>. QED
  BY <1>1, <1>2, <1>3, ReportsQueuedHolds, PTL DEF Spec

----------------------------------------------------------------------------
(* Whole reports *)

\* Past the analysis the owner's call is analysed, past the writing its
\* artifacts are complete, and both stay so once the job has succeeded.
Reported ==
  /\ \A p \in Proc, c \in Call :
       pc[p] \in {"rendering", "writing", "planning", "succeeding"}
         /\ work[p] = c => analysed[c]
  /\ \A p \in Proc, c \in Call :
       pc[p] \in {"planning", "succeeding"} /\ work[p] = c
         => report[c] = "complete"
  /\ \A c \in Call :
       status[c] = "succeeded" => analysed[c] /\ report[c] = "complete"

ReportInv == ~overrun => Reported

\* A step that writes no analysis or artifact and advances nobody's pipeline.
LEMMA ReportFrame ==
  ASSUME Reported, analysed' = analysed, report' = report,
         \A p \in Proc :
           pc'[p] \in {"rendering", "writing", "planning", "succeeding"}
             => pc[p] = pc'[p] /\ work[p] = work'[p],
         \A c \in Call : status'[c] = "succeeded" => status[c] = "succeeded"
  PROVE  Reported'
BY DEF Reported

\* Writing to the one owned job leaves the succeeded ones alone.
LEMMA OwnedUnlikeOthers ==
  ASSUME Owners, TypeInv, NEW p \in Proc, pc[p] \in AtWork
  PROVE  /\ work[p] \in Call
         /\ status[work[p]] = "running"
         /\ \A q \in Proc : pc[q] \in AtWork /\ work[q] = work[p] => q = p
BY DEF Owners, Holds, TypeInv, Registers

LEMMA NextReport == TypeInv /\ OwnerInv /\ ReportInv /\ [Next]_vars => ReportInv'
<1>. SUFFICES ASSUME TypeInv, OwnerInv, ReportInv, [Next]_vars, ~overrun'
              PROVE  Reported'
  BY DEF ReportInv
<1>. USE DEF db, files, mem, hist
<1>a. ASSUME overrun' = overrun PROVE Reported /\ Owners
  BY <1>a DEF ReportInv, OwnerInv
<1>b. ASSUME NEW cs, Recover(cs) PROVE Reported
  BY <1>b DEF ReportInv, Recover
<1>1. ASSUME NEW e \in Event, Ingest(e) PROVE Reported'
  BY <1>1, <1>a, ReportFrame, IngestSucceedsNone DEF Ingest
<1>2. ASSUME NEW s \in Server, ServerStart(s) PROVE Reported'
  BY <1>2, <1>b, ReportFrame, RecoverSucceedsNone
  DEF ServerStart, Proc, TypeInv, TypeOK
<1>3. ASSUME NEW s \in Server, Shutdown(s) PROVE Reported'
  BY <1>3, <1>a, ReportFrame DEF Shutdown, Gone, Proc, TypeInv, TypeOK
<1>4. ASSUME NEW s \in Server, NEW c \in Call, ManualRetry(s, c)
      PROVE Reported'
  BY <1>4, <1>a, ReportFrame DEF ManualRetry, SetJob, TypeInv, TypeOK
<1>5. ASSUME NEW r \in Replay, NEW e \in Event, ReplayStart(r, e)
      PROVE Reported'
  BY <1>5, <1>a, ReportFrame, IngestSucceedsNone
  DEF ReplayStart, Proc, TypeInv, TypeOK
<1>6. ASSUME NEW r \in Replay, ReplayRecover(r) PROVE Reported'
  BY <1>6, <1>b, ReportFrame, RecoverSucceedsNone
  DEF ReplayRecover, Goto, Proc, TypeInv, TypeOK
<1>7. ASSUME NEW r \in Replay, ReplayLoop(r) PROVE Reported'
  BY <1>7, <1>a, ReportFrame DEF ReplayLoop, Goto, Gone, Proc, TypeInv, TypeOK
<1>8. ASSUME NEW r \in Replay, ReplayStalls(r) PROVE Reported'
  BY <1>8, <1>a, ReportFrame DEF ReplayStalls, Gone, Proc, TypeInv, TypeOK
<1>9. ASSUME NEW p \in Proc, Crash(p) PROVE Reported'
  BY <1>9, <1>a, ReportFrame DEF Crash, Gone, TypeInv, TypeOK
<1>10. ASSUME NEW p \in Proc, Cycle(p) PROVE Reported'
  <2>1. ASSUME NEW c \in Call, ClaimNextJob(p, c) PROVE Reported'
    BY <2>1, <1>a, ReportFrame DEF ClaimNextJob, SetJob, TypeInv, TypeOK
  <2>2. ASSUME Load(p) PROVE Reported'
    <3>1. Reported /\ work[p] \in Call /\ pc[p] = "claimed"
      BY <2>2, <1>a DEF Load, AtWork, TypeInv, Registers
    <3>2. /\ \A q \in Proc : q # p => pc'[q] = pc[q]
          /\ pc'[p] \in {"rendering", "analysing", "failing"}
          /\ pc'[p] = "rendering" => analysed[work[p]]
          /\ UNCHANGED <<work, analysed, report, status>>
      BY <2>2 DEF Load, Goto, Catch, TypeInv, TypeOK
    <3>. QED  BY <3>1, <3>2 DEF Reported
  <2>3. ASSUME Analyse(p) PROVE Reported'
    <3>1. Reported /\ work[p] \in Call
      BY <2>3, <1>a DEF Analyse, AtWork, TypeInv, Registers
    <3>2. /\ \A q \in Proc : q # p => pc'[q] = pc[q]
          /\ pc'[p] \in {"rendering", "failing"}
          /\ UNCHANGED <<work, report, status>>
      BY <2>3 DEF Analyse, Goto, Catch, TypeInv, TypeOK
    <3>3. /\ \A c \in Call : analysed[c] => analysed'[c]
          /\ pc'[p] = "rendering" => analysed'[work[p]]
      <4>1. CASE analysed' = [analysed EXCEPT ![work[p]] = TRUE]
        BY <3>1, <4>1 DEF TypeInv, TypeOK
      <4>2. CASE Catch(p, "retryable") /\ UNCHANGED analysed
        BY <4>2 DEF Catch, TypeInv, TypeOK
      <4>. QED  BY <2>3, <4>1, <4>2 DEF Analyse
    <3>. QED  BY <3>1, <3>2, <3>3 DEF Reported
  <2>4. ASSUME ReleaseForShutdown(p) PROVE Reported'
    BY <2>4, <1>a, ReportFrame
    DEF ReleaseForShutdown, SetJob, Gone, TypeInv, TypeOK
  <2>5. ASSUME BeginReport(p) PROVE Reported'
    <3>1. Reported /\ Owners /\ pc[p] = "rendering" /\ pc[p] \in AtWork
      BY <2>5, <1>a DEF BeginReport, AtWork
    <3>2. /\ \A q \in Proc : q # p => pc'[q] = pc[q]
          /\ pc'[p] \in {"writing", "failing"}
          /\ UNCHANGED <<work, analysed, status>>
          /\ \A c \in Call : c # work[p] => report'[c] = report[c]
      BY <2>5 DEF BeginReport, Goto, Catch, TypeInv, TypeOK
    <3>. QED  BY <3>1, <3>2, OwnedUnlikeOthers DEF Reported, AtWork
  <2>6. ASSUME FinishReport(p) PROVE Reported'
    <3>1. Reported /\ Owners /\ pc[p] = "writing" /\ pc[p] \in AtWork
      BY <2>6, <1>a DEF FinishReport, AtWork
    <3>2. work[p] \in Call
      BY <3>1, OwnedUnlikeOthers
    <3>3. /\ \A q \in Proc : q # p => pc'[q] = pc[q]
          /\ pc'[p] \in {"planning", "failing"}
          /\ pc'[p] = "planning" => report'[work[p]] = "complete"
          /\ UNCHANGED <<work, analysed, status>>
          /\ \A c \in Call : c # work[p] => report'[c] = report[c]
      BY <2>6, <3>2 DEF FinishReport, Goto, Catch, TypeInv, TypeOK
    <3>. QED  BY <3>1, <3>3, OwnedUnlikeOthers DEF Reported, AtWork
  <2>7. ASSUME PlanOutbox(p) PROVE Reported'
    <3>1. Reported /\ pc[p] = "planning"
      BY <2>7, <1>a DEF PlanOutbox
    <3>2. /\ \A q \in Proc : q # p => pc'[q] = pc[q]
          /\ pc'[p] \in {"succeeding", "failing"}
          /\ UNCHANGED <<work, analysed, report, status>>
      BY <2>7 DEF PlanOutbox, Goto, Catch, TypeInv, TypeOK
    <3>. QED  BY <3>1, <3>2 DEF Reported
  <2>8. ASSUME SucceedJob(p) PROVE Reported'
    <3>1. Reported /\ pc[p] = "succeeding" /\ work[p] \in Call
      BY <2>8, <1>a DEF SucceedJob, AtWork, TypeInv, Registers
    <3>2. /\ \A q \in Proc : q # p => pc'[q] = pc[q] /\ work'[q] = work[q]
          /\ pc'[p] \in {"looping", "down", "idle", "failing"}
          /\ UNCHANGED <<analysed, report>>
      BY <2>8 DEF SucceedJob, CycleDone, Catch, TypeInv, TypeOK
    <3>3. \A c \in Call : status'[c] = "succeeded"
                            => c = work[p] \/ status[c] = "succeeded"
      BY <2>8 DEF SucceedJob, SetJob, TypeInv, TypeOK
    <3>. QED  BY <3>1, <3>2, <3>3 DEF Reported
  <2>9. ASSUME FailJob(p) PROVE Reported'
    BY <2>9, <1>a, ReportFrame
    DEF FailJob, SetJob, Goto, TypeInv, TypeOK, ErrorKind
  <2>10. ASSUME CheckRetry(p) PROVE Reported'
    BY <2>10, <1>a, ReportFrame
    DEF CheckRetry, Goto, CycleDone, TypeInv, TypeOK
  <2>11. ASSUME RetryJob(p) PROVE Reported'
    BY <2>11, <1>a, ReportFrame
    DEF RetryJob, SetJob, CycleDone, TypeInv, TypeOK
  <2>12. ASSUME StoreThrows(p) PROVE Reported'
    BY <2>12, <1>a, ReportFrame
    DEF StoreThrows, CycleThrew, CycleDone, Gone, TypeInv, TypeOK
  <2>. QED
    BY <1>10, <2>1, <2>2, <2>3, <2>4, <2>5, <2>6, <2>7, <2>8, <2>9, <2>10,
       <2>11, <2>12 DEF Cycle
<1>11. ASSUME NEW c \in Call, LeaseExpires(c) PROVE Reported'
  BY <1>11, <1>a, ReportFrame DEF LeaseExpires
<1>12. CASE UNCHANGED vars
  BY <1>12, <1>a, ReportFrame DEF vars
<1>. QED
  BY <1>1, <1>2, <1>3, <1>4, <1>5, <1>6, <1>7, <1>8, <1>9, <1>10, <1>11,
     <1>12 DEF Next

\* A succeeded job has a stored analysis and a complete artifact set, as long
\* as no live owner's lease was recovered.
THEOREM WholeReportHolds == Spec => []WholeReport
<1>1. Init => ReportInv /\ OwnerInv
  BY DEF Init, ReportInv, Reported, OwnerInv, Owners, Holds, AtWork
<1>2. ReportInv => WholeReport
  BY DEF ReportInv, Reported, WholeReport
<1>. QED
  BY <1>1, <1>2, InitTypeInv, NextTypeInv, NextOwner, NextReport, PTL
  DEF Spec

----------------------------------------------------------------------------
(* One job per call *)

AcceptedOf(c) == {e \in Event : EventCall[e] = c /\ event[e] = "accepted"}

\* A call without a job has no accepted event, one with a job has just one.
IngestInv ==
  \A c \in Call : IF status[c] = "none" THEN AcceptedOf(c) = {}
                  ELSE \E e \in Event : AcceptedOf(c) = {e}

\* A step that writes no event and creates or deletes no job.
LEMMA IngestFrame ==
  ASSUME IngestInv, event' = event,
         \A c \in Call : status'[c] = "none" <=> status[c] = "none"
  PROVE  IngestInv'
<1>1. \A c \in Call : AcceptedOf(c)' = AcceptedOf(c)
  BY DEF AcceptedOf
<1>. QED  BY <1>1 DEF IngestInv

LEMMA IngestRowsOnce ==
  ASSUME TypeInv, IngestInv, NEW e \in Event, IngestRows(e)
  PROVE  IngestInv'
<1>. DEFINE c == EventCall[e]
<1>1. c \in Call
  BY ConstantsAssumption
<1>. USE DEF TypeInv, TypeOK
<1>2. CASE UNCHANGED db
  BY <1>2, IngestFrame DEF db
<1>3. CASE /\ event[e] = "new" /\ event' \in {[event EXCEPT ![e] = "skipped"],
                                           [event EXCEPT ![e] = "duplicate"]}
           /\ status' = status
  <2>1. \A d \in Call : AcceptedOf(d)' = AcceptedOf(d)
    BY <1>3 DEF AcceptedOf
  <2>. QED  BY <1>3, <2>1 DEF IngestInv
<1>4. CASE /\ event[e] = "new" /\ status[c] = "none"
           /\ event' = [event EXCEPT ![e] = "accepted"]
           /\ status' = [status EXCEPT ![c] = "pending"]
  <2>1. AcceptedOf(c) = {}
    BY <1>1, <1>4 DEF IngestInv
  <2>2. AcceptedOf(c)' = {e}
    BY <1>4, <2>1 DEF AcceptedOf
  <2>3. \A d \in Call : d # c => AcceptedOf(d)' = AcceptedOf(d)
    BY <1>4 DEF AcceptedOf
  <2>. QED  BY <1>1, <1>4, <2>2, <2>3 DEF IngestInv
<1>. QED
  BY <1>2, <1>3, <1>4 DEF IngestRows, SetJob

\* A recovery changes no row that is not running.
LEMMA RecoverKeepsRows ==
  ASSUME TypeInv, NEW cs, Recover(cs), \A c \in cs : Stale(c), NEW c \in Call
  PROVE  status'[c] = "none" <=> status[c] = "none"
BY DEF TypeInv, TypeOK, Recover, Stale

LEMMA NextIngest == TypeInv /\ IngestInv /\ [Next]_vars => IngestInv'
<1>. SUFFICES ASSUME TypeInv, IngestInv, [Next]_vars PROVE IngestInv'
  OBVIOUS
<1>. USE DEF db, files, mem, hist
<1>1. ASSUME NEW e \in Event, IngestRows(e) PROVE IngestInv'
  BY <1>1, IngestRowsOnce
<1>2. ASSUME NEW s \in Server, ServerStart(s) PROVE IngestInv'
  <2>1. Recover({c \in Call : Stale(c)}) /\ event' = event
    BY <1>2 DEF ServerStart, Recover
  <2>. QED  BY <2>1, IngestFrame, RecoverKeepsRows
<1>3. ASSUME NEW r \in Replay, ReplayRecover(r) PROVE IngestInv'
  <2>1. Recover({c \in {target[r]} : Stale(c)}) /\ event' = event
    BY <1>3 DEF ReplayRecover, Recover
  <2>. QED  BY <2>1, IngestFrame, RecoverKeepsRows
<1>4. ASSUME NEW s \in Server, NEW c \in Call, ManualRetry(s, c)
      PROVE IngestInv'
  BY <1>4, IngestFrame DEF ManualRetry, SetJob, TypeInv, TypeOK
<1>5. ASSUME NEW p \in Proc, Cycle(p) PROVE IngestInv'
  <2>. USE DEF TypeInv, TypeOK
  <2>1. ASSUME NEW d \in Call, ClaimNextJob(p, d) PROVE IngestInv'
    BY <2>1, IngestFrame DEF ClaimNextJob, Oldest, Claimable, SetJob
  <2>2. ASSUME ReleaseForShutdown(p) PROVE IngestInv'
    BY <2>2, IngestFrame DEF ReleaseForShutdown, SetJob
  <2>3. ASSUME SucceedJob(p) PROVE IngestInv'
    BY <2>3, IngestFrame DEF SucceedJob, SetJob
  <2>4. ASSUME FailJob(p) PROVE IngestInv'
    BY <2>4, IngestFrame DEF FailJob, SetJob
  <2>5. ASSUME RetryJob(p) PROVE IngestInv'
    BY <2>5, IngestFrame DEF RetryJob, SetJob
  <2>6. CASE UNCHANGED db
    BY <2>6, IngestFrame
  <2>. QED
    BY <1>5, <2>1, <2>2, <2>3, <2>4, <2>5, <2>6, IngestFrame
    DEF Cycle, Load, Analyse, BeginReport, FinishReport, PlanOutbox,
        CheckRetry, StoreThrows
<1>. QED
  BY <1>1, <1>2, <1>3, <1>4, <1>5, IngestFrame
  DEF Next, Ingest, Shutdown, ReplayStart, ReplayLoop, ReplayStalls, Crash,
      LeaseExpires, vars

\* However often and in whatever order events arrive, each call gets its job
\* from exactly one of them.
THEOREM IngestedOnceHolds == Spec => []IngestedOnce
<1>1. Init => IngestInv
  BY DEF Init, IngestInv, AcceptedOf
<1>2. IngestInv => IngestedOnce
  <2>. SUFFICES ASSUME IngestInv, NEW c \in Call
                PROVE  Cardinality(AcceptedOf(c))
                         = IF status[c] = "none" THEN 0 ELSE 1
    BY DEF IngestedOnce, AcceptedOf
  <2>. QED  BY FS_EmptySet, FS_Singleton DEF IngestInv
<1>. QED
  BY <1>1, <1>2, InitTypeInv, NextTypeInv, NextIngest, PTL DEF Spec

----------------------------------------------------------------------------
(* The budget of automatic retries *)

\* The processes that failed a call's job and may still retry it, and those
\* of them that have decided to.
Deciding(c) == {p \in Proc : pc[p] \in {"checking", "retrying"} /\ work[p] = c}
Retrying(c) == {p \in Proc : pc[p] = "retrying" /\ work[p] = c}

\* Every claim is good for one failure, and every failure for one retry: the
\* retries made, those that may still come and the running claim are no more
\* than the claims.  So one more decision, made below MaxAttempts claims, stays
\* within the budget.  The sets are finite although Proc need not be.
BudgetOf(c) ==
  /\ IsFiniteSet(Deciding(c))
  /\ status[c] = "none" => attempts[c] = 0
  /\ autoRetries[c] + Cardinality(Deciding(c))
       + (IF status[c] = "running" THEN 1 ELSE 0) <= attempts[c]
  /\ autoRetries[c] + Cardinality(Retrying(c)) < MaxAttempts

BudgetInv == \A c \in Call : BudgetOf(c)

\* The numbers BudgetOf adds up are natural numbers.
LEMMA BudgetTypes ==
  ASSUME TypeInv, NEW c \in Call, IsFiniteSet(Deciding(c))
  PROVE  /\ attempts[c] \in Nat /\ autoRetries[c] \in Nat
         /\ IsFiniteSet(Retrying(c))
         /\ Cardinality(Deciding(c)) \in Nat
         /\ Cardinality(Retrying(c)) \in Nat
         /\ Cardinality(Retrying(c)) <= Cardinality(Deciding(c))
<1>1. Retrying(c) \in SUBSET Deciding(c)
  BY DEF Retrying, Deciding
<1>. QED
  BY <1>1, FS_Subset, FS_CardinalityType DEF TypeInv, TypeOK

\* A step after which no more processes decide about the job, and that makes
\* no retry and no job a running one.
LEMMA BudgetFrame ==
  ASSUME TypeInv, NEW c \in Call, BudgetOf(c),
         Deciding(c)' \subseteq Deciding(c), Retrying(c)' \subseteq Retrying(c),
         attempts'[c] = attempts[c], autoRetries'[c] = autoRetries[c],
         status'[c] = "running" => status[c] = "running",
         status'[c] = "none" => status[c] = "none"
  PROVE  BudgetOf(c)'
<1>1. IsFiniteSet(Deciding(c))
  BY DEF BudgetOf
<1>2. /\ IsFiniteSet(Deciding(c)') /\ Cardinality(Deciding(c)') \in Nat
      /\ Cardinality(Deciding(c)') <= Cardinality(Deciding(c))
  BY <1>1, FS_Subset, FS_CardinalityType
<1>3. /\ Cardinality(Retrying(c)') \in Nat
      /\ Cardinality(Retrying(c)') <= Cardinality(Retrying(c))
  BY <1>1, BudgetTypes, FS_Subset, FS_CardinalityType
<1>4. MaxAttempts \in Nat
  BY ConstantsAssumption
<1>5. autoRetries[c] + Cardinality(Deciding(c)')
        + (IF status'[c] = "running" THEN 1 ELSE 0) <= attempts[c]
  BY <1>1, <1>2, BudgetTypes DEF BudgetOf
<1>6. autoRetries[c] + Cardinality(Retrying(c)') < MaxAttempts
  BY <1>1, <1>3, <1>4, BudgetTypes DEF BudgetOf
<1>. QED  BY <1>2, <1>5, <1>6 DEF BudgetOf

\* Steps of a process that was not deciding and is not going to.
LEMMA DecidersFrame ==
  ASSUME NEW c \in Call,
         \A p \in Proc :
           /\ pc'[p] = "checking" => pc[p] = "checking" /\ work'[p] = work[p]
           /\ pc'[p] = "retrying" => pc[p] = "retrying" /\ work'[p] = work[p]
  PROVE  Deciding(c)' \subseteq Deciding(c) /\ Retrying(c)' \subseteq Retrying(c)
BY DEF Deciding, Retrying

\* An ingested event starts a job without attempts, and only where none is.
LEMMA IngestBudget ==
  ASSUME TypeInv, BudgetInv, NEW e \in Event, IngestRows(e), NEW c \in Call,
         Deciding(c)' \subseteq Deciding(c), Retrying(c)' \subseteq Retrying(c),
         autoRetries' = autoRetries
  PROVE  BudgetOf(c)'
<1>1. /\ attempts'[c] = attempts[c]
      /\ status'[c] = "running" => status[c] = "running"
      /\ status'[c] = "none" => status[c] = "none"
  <2>1. CASE UNCHANGED <<status, attempts>>
    BY <2>1
  <2>2. CASE /\ status[EventCall[e]] = "none"
             /\ SetJob(EventCall[e], "pending", "none")
             /\ attempts' = [attempts EXCEPT ![EventCall[e]] = 0]
    BY <2>2, ConstantsAssumption DEF BudgetInv, BudgetOf, SetJob, TypeInv, TypeOK
  <2>. QED  BY <2>1, <2>2 DEF IngestRows, db
<1>. QED  BY <1>1, BudgetFrame DEF BudgetInv

\* A process that fails its job uses up the running claim.
LEMMA FailBudget ==
  ASSUME TypeInv, BudgetInv, NEW p \in Proc, FailJob(p), NEW c \in Call
  PROVE  BudgetOf(c)'
<1>1. /\ pc[p] = "failing" /\ status[work[p]] = "running"
      /\ pc' = [pc EXCEPT ![p] = "checking"]
      /\ status' = [status EXCEPT ![work[p]] = "failed"]
      /\ UNCHANGED <<work, attempts, autoRetries>>
  BY DEF FailJob, SetJob, Goto, hist
<1>2. CASE work[p] # c
  <2>1. Deciding(c)' \subseteq Deciding(c) /\ Retrying(c)' \subseteq Retrying(c)
    BY <1>1, <1>2 DEF Deciding, Retrying, TypeInv, TypeOK
  <2>2. status'[c] = status[c]
    BY <1>1, <1>2 DEF TypeInv, TypeOK
  <2>. QED  BY <1>1, <2>1, <2>2, BudgetFrame DEF BudgetInv
<1>3. CASE work[p] = c
  <2>1. IsFiniteSet(Deciding(c))
    BY DEF BudgetInv, BudgetOf
  <2>2. Deciding(c)' = Deciding(c) \cup {p} /\ p \notin Deciding(c)
    BY <1>1, <1>3 DEF Deciding, TypeInv, TypeOK
  <2>3. /\ IsFiniteSet(Deciding(c)')
        /\ Cardinality(Deciding(c)') = Cardinality(Deciding(c)) + 1
    BY <2>1, <2>2, FS_AddElement
  <2>4. Retrying(c)' = Retrying(c)
    BY <1>1 DEF Retrying, TypeInv, TypeOK
  <2>5. status'[c] = "failed"
    BY <1>1, <1>3 DEF TypeInv, TypeOK
  <2>6. autoRetries[c] + Cardinality(Deciding(c)) + 1 <= attempts[c]
    BY <1>1, <1>3 DEF BudgetInv, BudgetOf
  <2>7. autoRetries[c] + (Cardinality(Deciding(c)) + 1) + 0 <= attempts[c]
    BY <2>1, <2>6, BudgetTypes
  <2>8. autoRetries[c] + Cardinality(Retrying(c)) < MaxAttempts
    BY DEF BudgetInv, BudgetOf
  <2>. QED  BY <1>1, <2>3, <2>4, <2>5, <2>7, <2>8 DEF BudgetOf
<1>. QED  BY <1>2, <1>3

\* Below MaxAttempts claims there is room for one more retry.
LEMMA CheckBudget ==
  ASSUME TypeInv, BudgetInv, NEW p \in Proc, CheckRetry(p), NEW c \in Call
  PROVE  BudgetOf(c)'
<1>. UNCHANGED <<status, attempts, autoRetries>> /\ pc[p] = "checking"
  BY DEF CheckRetry, db, hist
<1>1. CASE CycleDone(p)
  <2>1. Deciding(c)' \subseteq Deciding(c) /\ Retrying(c)' \subseteq Retrying(c)
    BY <1>1, DecidersFrame DEF CycleDone, TypeInv, TypeOK
  <2>. QED  BY <2>1, BudgetFrame DEF BudgetInv
<1>2. CASE attempts[work[p]] < MaxAttempts /\ Goto(p, "retrying")
  <2>1. Deciding(c)' = Deciding(c)
    BY <1>2 DEF Goto, Deciding, TypeInv, TypeOK
  <2>2. CASE work[p] # c
    <3>1. Retrying(c)' = Retrying(c)
      BY <1>2, <2>2 DEF Goto, Retrying, TypeInv, TypeOK
    <3>. QED  BY <2>1, <3>1, BudgetFrame DEF BudgetInv
  <2>3. CASE work[p] = c
    <3>1. IsFiniteSet(Deciding(c)) /\ Retrying(c)' \in SUBSET Deciding(c)
      BY <2>1 DEF BudgetInv, BudgetOf, Deciding, Retrying
    <3>2. /\ Cardinality(Retrying(c)') \in Nat
          /\ Cardinality(Retrying(c)') <= Cardinality(Deciding(c))
      BY <3>1, FS_Subset, FS_CardinalityType
    <3>3. autoRetries[c] + Cardinality(Deciding(c)) <= attempts[c]
      BY <3>1, BudgetTypes DEF BudgetInv, BudgetOf
    <3>4. autoRetries[c] + Cardinality(Retrying(c)') < MaxAttempts
      BY <1>2, <2>3, <3>1, <3>2, <3>3, BudgetTypes, ConstantsAssumption
    <3>. QED  BY <2>1, <3>4 DEF BudgetInv, BudgetOf
  <2>. QED  BY <2>2, <2>3
<1>. QED  BY <1>1, <1>2 DEF CheckRetry

\* A retry that is made is no longer one that may come.
LEMMA RetryBudget ==
  ASSUME TypeInv, BudgetInv, NEW p \in Proc, RetryJob(p), NEW c \in Call
  PROVE  BudgetOf(c)'
<1>1. /\ pc[p] = "retrying" /\ work[p] \in Call
      /\ status' = [status EXCEPT ![work[p]] = "pending"]
      /\ autoRetries' = [autoRetries EXCEPT ![work[p]] = @ + 1]
      /\ attempts' = attempts
  BY DEF RetryJob, SetJob, TypeInv, Registers
<1>2. /\ \A q \in Proc : q # p => pc'[q] = pc[q] /\ work'[q] = work[q]
      /\ pc'[p] \notin {"checking", "retrying"}
  BY DEF RetryJob, CycleDone, TypeInv, TypeOK
<1>3. CASE work[p] # c
  <2>1. Deciding(c)' \subseteq Deciding(c) /\ Retrying(c)' \subseteq Retrying(c)
    BY <1>2, DecidersFrame
  <2>2. status'[c] = status[c] /\ autoRetries'[c] = autoRetries[c]
    BY <1>1, <1>3 DEF TypeInv, TypeOK
  <2>. QED  BY <1>1, <2>1, <2>2, BudgetFrame DEF BudgetInv
<1>4. CASE work[p] = c
  <2>1. IsFiniteSet(Deciding(c))
    BY DEF BudgetInv, BudgetOf
  <2>2. /\ Deciding(c)' = Deciding(c) \ {p} /\ p \in Deciding(c)
        /\ Retrying(c)' = Retrying(c) \ {p} /\ p \in Retrying(c)
    BY <1>1, <1>2, <1>4 DEF Deciding, Retrying
  <2>3. /\ IsFiniteSet(Deciding(c)')
        /\ Cardinality(Deciding(c)') = Cardinality(Deciding(c)) - 1
        /\ Cardinality(Retrying(c)') = Cardinality(Retrying(c)) - 1
    <3>1. IsFiniteSet(Retrying(c))
      BY <2>1, BudgetTypes
    <3>2. /\ IsFiniteSet(Deciding(c) \ {p})
          /\ Cardinality(Deciding(c) \ {p}) = Cardinality(Deciding(c)) - 1
      BY <2>1, <2>2, FS_RemoveElement
    <3>3. Cardinality(Retrying(c) \ {p}) = Cardinality(Retrying(c)) - 1
      BY <2>2, <3>1, FS_RemoveElement
    <3>. QED  BY <2>2, <3>2, <3>3
  <2>4. status'[c] = "pending" /\ autoRetries'[c] = autoRetries[c] + 1
    BY <1>1, <1>4 DEF TypeInv, TypeOK
  <2>5. (autoRetries[c] + 1) + (Cardinality(Deciding(c)) - 1) + 0 <= attempts[c]
    BY <2>1, BudgetTypes DEF BudgetInv, BudgetOf
  <2>6. (autoRetries[c] + 1) + (Cardinality(Retrying(c)) - 1) < MaxAttempts
    BY <2>1, BudgetTypes DEF BudgetInv, BudgetOf
  <2>. QED  BY <1>1, <2>3, <2>4, <2>5, <2>6 DEF BudgetOf
<1>. QED  BY <1>3, <1>4

\* A claim adds an attempt and makes one job run.
LEMMA ClaimBudget ==
  ASSUME TypeInv, BudgetInv, NEW p \in Proc, NEW d \in Call, ClaimNextJob(p, d),
         NEW c \in Call
  PROVE  BudgetOf(c)'
<1>1. /\ status[d] = "pending"
      /\ status' = [status EXCEPT ![d] = "running"]
      /\ attempts' = [attempts EXCEPT ![d] = @ + 1]
      /\ autoRetries' = autoRetries
  BY DEF ClaimNextJob, Oldest, Claimable, SetJob
<1>2. Deciding(c)' \subseteq Deciding(c) /\ Retrying(c)' \subseteq Retrying(c)
  BY DecidersFrame DEF ClaimNextJob, TypeInv, TypeOK
<1>3. CASE c # d
  <2>1. status'[c] = status[c] /\ attempts'[c] = attempts[c]
    BY <1>1, <1>3 DEF TypeInv, TypeOK
  <2>. QED  BY <1>1, <1>2, <2>1, BudgetFrame DEF BudgetInv
<1>4. CASE c = d
  <2>1. IsFiniteSet(Deciding(c))
    BY DEF BudgetInv, BudgetOf
  <2>2. /\ IsFiniteSet(Deciding(c)') /\ Cardinality(Deciding(c)') \in Nat
        /\ Cardinality(Deciding(c)') <= Cardinality(Deciding(c))
    BY <1>2, <2>1, FS_Subset, FS_CardinalityType
  <2>3. /\ Cardinality(Retrying(c)') \in Nat
        /\ Cardinality(Retrying(c)') <= Cardinality(Retrying(c))
    BY <1>2, <2>1, BudgetTypes, FS_Subset, FS_CardinalityType
  <2>4. status'[c] = "running" /\ attempts'[c] = attempts[c] + 1
    BY <1>1, <1>4 DEF TypeInv, TypeOK
  <2>5. autoRetries[c] + Cardinality(Deciding(c)) + 0 <= attempts[c]
    BY <1>1, <1>4 DEF BudgetInv, BudgetOf
  <2>6. autoRetries[c] + Cardinality(Deciding(c)') + 1 <= attempts[c] + 1
    BY <2>1, <2>2, <2>5, BudgetTypes
  <2>7. autoRetries[c] + Cardinality(Retrying(c)') < MaxAttempts
    BY <2>1, <2>3, BudgetTypes, ConstantsAssumption DEF BudgetInv, BudgetOf
  <2>. QED  BY <1>1, <2>2, <2>4, <2>6, <2>7 DEF BudgetOf
<1>. QED  BY <1>3, <1>4

LEMMA NextBudget == TypeInv /\ BudgetInv /\ [Next]_vars => BudgetInv'
<1>. SUFFICES ASSUME TypeInv, BudgetInv, [Next]_vars, NEW c \in Call
              PROVE  BudgetOf(c)'
  BY DEF BudgetInv
<1>. USE DEF db, files, mem, hist
<1>a. BudgetOf(c)
  BY DEF BudgetInv
<1>b. ASSUME UNCHANGED <<status, attempts, autoRetries>>,
             \A p \in Proc :
               /\ pc'[p] = "checking" => pc[p] = "checking" /\ work'[p] = work[p]
               /\ pc'[p] = "retrying" => pc[p] = "retrying" /\ work'[p] = work[p]
      PROVE  BudgetOf(c)'
  BY <1>a, <1>b, DecidersFrame, BudgetFrame
<1>c. ASSUME NEW cs, Recover(cs), UNCHANGED autoRetries,
             \A p \in Proc :
               /\ pc'[p] = "checking" => pc[p] = "checking" /\ work'[p] = work[p]
               /\ pc'[p] = "retrying" => pc[p] = "retrying" /\ work'[p] = work[p]
      PROVE  BudgetOf(c)'
  <2>1. /\ attempts' = attempts
        /\ status'[c] = "running" => status[c] = "running"
        /\ status'[c] = "none" => status[c] = "none"
    BY <1>c DEF Recover
  <2>. QED  BY <1>a, <1>c, <2>1, DecidersFrame, BudgetFrame
<1>1. ASSUME NEW e \in Event, Ingest(e) PROVE BudgetOf(c)'
  <2>1. Deciding(c)' = Deciding(c) /\ Retrying(c)' = Retrying(c)
    BY <1>1 DEF Ingest, Deciding, Retrying
  <2>. QED  BY <1>1, <2>1, IngestBudget DEF Ingest
<1>2. ASSUME NEW s \in Server, ServerStart(s) PROVE BudgetOf(c)'
  BY <1>2, <1>c DEF ServerStart, TypeInv, TypeOK, Proc
<1>3. ASSUME NEW s \in Server, Shutdown(s) PROVE BudgetOf(c)'
  BY <1>3, <1>b DEF Shutdown, Gone, TypeInv, TypeOK, Proc
<1>4. ASSUME NEW s \in Server, NEW d \in Call, ManualRetry(s, d)
      PROVE  BudgetOf(c)'
  <2>1. Deciding(c)' = Deciding(c) /\ Retrying(c)' = Retrying(c)
    BY <1>4 DEF ManualRetry, Deciding, Retrying
  <2>. QED
    BY <1>4, <1>a, <2>1, BudgetFrame DEF ManualRetry, SetJob, TypeInv, TypeOK
<1>5. ASSUME NEW r \in Replay, NEW e \in Event, ReplayStart(r, e)
      PROVE  BudgetOf(c)'
  <2>1. Deciding(c)' \subseteq Deciding(c) /\ Retrying(c)' \subseteq Retrying(c)
    BY <1>5, DecidersFrame DEF ReplayStart, TypeInv, TypeOK, Proc
  <2>. QED  BY <1>5, <2>1, IngestBudget DEF ReplayStart
<1>6. ASSUME NEW r \in Replay, ReplayRecover(r) PROVE BudgetOf(c)'
  BY <1>6, <1>c DEF ReplayRecover, Goto, TypeInv, TypeOK, Proc
<1>7. ASSUME NEW r \in Replay, ReplayLoop(r) PROVE BudgetOf(c)'
  BY <1>7, <1>b DEF ReplayLoop, Goto, Gone, TypeInv, TypeOK, Proc
<1>8. ASSUME NEW r \in Replay, ReplayStalls(r) PROVE BudgetOf(c)'
  BY <1>8, <1>b DEF ReplayStalls, Gone, TypeInv, TypeOK, Proc
<1>9. ASSUME NEW p \in Proc, Crash(p) PROVE BudgetOf(c)'
  BY <1>9, <1>b DEF Crash, Gone, TypeInv, TypeOK
<1>10. ASSUME NEW p \in Proc, Cycle(p) PROVE BudgetOf(c)'
  <2>1. ASSUME NEW d \in Call, ClaimNextJob(p, d) PROVE BudgetOf(c)'
    BY <2>1, ClaimBudget
  <2>2. ASSUME Load(p) \/ Analyse(p) \/ BeginReport(p) \/ FinishReport(p)
               \/ PlanOutbox(p)
        PROVE  BudgetOf(c)'
    BY <2>2, <1>b
    DEF Load, Analyse, BeginReport, FinishReport, PlanOutbox, Goto, Catch,
        TypeInv, TypeOK
  <2>3. ASSUME ReleaseForShutdown(p) PROVE BudgetOf(c)'
    <3>1. Deciding(c)' \subseteq Deciding(c) /\ Retrying(c)' \subseteq Retrying(c)
      BY <2>3, DecidersFrame DEF ReleaseForShutdown, Gone, TypeInv, TypeOK
    <3>. QED
      BY <2>3, <1>a, <3>1, BudgetFrame
      DEF ReleaseForShutdown, SetJob, TypeInv, TypeOK
  <2>4. ASSUME SucceedJob(p) PROVE BudgetOf(c)'
    <3>1. Deciding(c)' \subseteq Deciding(c) /\ Retrying(c)' \subseteq Retrying(c)
      BY <2>4, DecidersFrame DEF SucceedJob, CycleDone, Catch, TypeInv, TypeOK
    <3>. QED
      BY <2>4, <1>a, <3>1, BudgetFrame DEF SucceedJob, SetJob, TypeInv, TypeOK
  <2>5. ASSUME StoreThrows(p) PROVE BudgetOf(c)'
    BY <2>5, <1>b
    DEF StoreThrows, CycleThrew, CycleDone, Gone, TypeInv, TypeOK
  <2>. QED
    BY <1>10, <2>1, <2>2, <2>3, <2>4, <2>5, FailBudget, CheckBudget, RetryBudget
    DEF Cycle
<1>11. ASSUME NEW d \in Call, LeaseExpires(d) PROVE BudgetOf(c)'
  BY <1>11, <1>b DEF LeaseExpires
<1>12. CASE UNCHANGED vars
  BY <1>12, <1>b DEF vars
<1>. QED
  BY <1>1, <1>2, <1>3, <1>4, <1>5, <1>6, <1>7, <1>8, <1>9, <1>10, <1>11,
     <1>12 DEF Next

\* Whatever crashes, lapses and is retried by hand in between, the workers
\* retry a job on their own fewer than MaxAttempts times.
THEOREM AutoRetryBudgetHolds == Spec => []AutoRetryBudget
<1>1. Init => BudgetInv
  <2>. SUFFICES ASSUME Init, NEW c \in Call PROVE BudgetOf(c)
    BY DEF BudgetInv
  <2>1. Deciding(c) = {} /\ Retrying(c) = {}
    BY DEF Init, Deciding, Retrying
  <2>2. IsFiniteSet({}) /\ Cardinality({}) = 0
    BY FS_EmptySet
  <2>. QED  BY <2>1, <2>2, ConstantsAssumption DEF Init, BudgetOf
<1>2. TypeInv /\ BudgetInv => AutoRetryBudget
  <2>. SUFFICES ASSUME TypeInv, BudgetInv, NEW c \in Call
                PROVE  autoRetries[c] < MaxAttempts
    BY DEF AutoRetryBudget
  <2>1. IsFiniteSet(Deciding(c))
        /\ autoRetries[c] + Cardinality(Retrying(c)) < MaxAttempts
    BY DEF BudgetInv, BudgetOf
  <2>. QED  BY <2>1, BudgetTypes, ConstantsAssumption
<1>. QED
  BY <1>1, <1>2, InitTypeInv, NextTypeInv, NextBudget, PTL DEF Spec

----------------------------------------------------------------------------
(* One server and no replay CLI, as deployed *)

\* A process that starts is at no job, so that the recovery of a lone server
\* meets no live owner.
LEMMA NextNoOverrun ==
  ASSUME Replay = {}, \A p, q \in Server : p = q,
         TypeInv, ~overrun, [Next]_vars
  PROVE  ~overrun'
<1>1. ASSUME NEW s \in Server, ServerStart(s) PROVE ~overrun'
  <2>1. \A c \in Call, p \in Proc : ~Holds(p, c)
    BY <1>1 DEF ServerStart, Holds, AtWork, Proc
  <2>. QED  BY <1>1, <2>1 DEF ServerStart, Recover
<1>2. CASE \E s \in Server : ServerStart(s)
  BY <1>1, <1>2
<1>3. UNCHANGED overrun \/ \E s \in Server : ServerStart(s)
  BY DEF Next, vars, hist, Ingest, Shutdown, ManualRetry, Crash, LeaseExpires, Cycle,
     ClaimNextJob, Load, Analyse, ReleaseForShutdown, BeginReport, FinishReport,
     PlanOutbox, SucceedJob, FailJob, CheckRetry, RetryJob, StoreThrows
<1>. QED  BY <1>2, <1>3

\* With one server and no replay CLI no lease is ever recovered under a live
\* owner, so that WholeReport holds without its exception: every succeeded job
\* has its analysis and a complete report, however often its lease runs out
\* (the recovery of analysis-worker.ts runs at startup only).
THEOREM NoOverrunWithOneServer ==
  ASSUME Replay = {}, \A p, q \in Server : p = q
  PROVE  Spec => [](/\ ~overrun
                    /\ \A c \in Call : status[c] = "succeeded" =>
                         analysed[c] /\ report[c] = "complete")
<1>1. Init => ~overrun
  BY DEF Init
<1>2. TypeInv /\ ~overrun /\ [Next]_vars => (~overrun)'
  BY NextNoOverrun
<1>3. ~overrun /\ WholeReport =>
        /\ ~overrun
        /\ \A c \in Call : status[c] = "succeeded" =>
             analysed[c] /\ report[c] = "complete"
  BY DEF WholeReport
<1>. QED
  BY <1>1, <1>2, <1>3, TypeInvariance, WholeReportHolds, PTL DEF Spec

=============================================================================
