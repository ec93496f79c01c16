----------------------------- MODULE MailOutbox -----------------------------
(***************************************************************************)
(* The mail side of Call Insights: the analysis pipeline plans two rows of *)
(* mail_outbox per call, mail worker processes claim due rows and hand     *)
(* them to SMTP, a lease turns rows of vanished senders into "uncertain",  *)
(* and the daily retention job scrubs the rows of calls it deletes.  Every *)
(* BEGIN IMMEDIATE transaction is one step; between two of them a worker   *)
(* may crash, and other workers, the pipeline and retention may step in.   *)
(*                                                                         *)
(* Time is three facts about a row or call: a retry delay is over (`due'), *)
(* the 15-minute sending lease ran out (`expired'), and 90 days went by    *)
(* without an update (`aged', callRow "old", job "stalled").               *)
(***************************************************************************)
EXTENDS Naturals, FiniteSets

CONSTANTS
  Call,         \* call identities
  Kind,         \* kinds of report: customer and quality
  Worker,       \* mail worker processes
  Modes,        \* outbound modes the API servers run with over time
  AfterCutover, \* calls that ended at or after MAIL_CUTOVER_NOT_BEFORE
  MaxAttempts,  \* MAX_ATTEMPTS (5 in the code)
  MaxFaults,    \* bound of the model: crashes and SQLite failures
  MaxIngests,   \* bound of the model: deliveries that create a call
  NoMail        \* not a message

Mail == Call \X Kind

ASSUME MailAssumption ==
  /\ Modes \subseteq {"off", "shadow", "live"}
  /\ MaxAttempts \in Nat \ {0}
  /\ MaxFaults \in Nat
  /\ MaxIngests \in Nat
  /\ NoMail \notin Mail

VARIABLES
  row,       \* mail_outbox.status, "none" while there is no row
  attempts,  \* mail_outbox.attempts
  due,       \* next_attempt_at is NULL or past
  expired,   \* updated_at is older than the sending lease
  aged,      \* updated_at is older than the retention period
  callRow,   \* row of calls: "absent", "fresh" or received 90 days ago ("old")
  job,       \* analysis job: "none", "active", "stalled", "succeeded", "failed"
  html,      \* the call's artifact directory holds its reports
  pc,        \* where a mail worker is in runOnce
  work,      \* the row the worker claimed
  verdict,   \* the status the worker is about to write
  faults,    \* crashes and SQLite failures so far
  ingests,   \* deliveries so far that created a call
  accepted,  \* history: how often the SMTP server accepted the message
  scrubbed   \* history: messages retention closed as "failed"

rows   == <<row, attempts, due, expired, aged>>
calls  == <<callRow, job, html, ingests>>
mem    == <<pc, work, verdict>>
outer  == <<accepted, scrubbed>>
vars   == <<rows, calls, mem, faults, outer>>

RowStatus == {"none", "suppressed", "pending", "sending", "sent", "failed",
              "uncertain"}
Busy      == {"claimed", "building", "sending", "recording"}

TypeOK ==
  /\ row \in [Mail -> RowStatus]
  /\ attempts \in [Mail -> Nat]
  /\ due \in [Mail -> BOOLEAN]
  /\ expired \in [Mail -> BOOLEAN]
  /\ aged \in [Mail -> BOOLEAN]
  /\ callRow \in [Call -> {"absent", "fresh", "old"}]
  /\ job \in [Call -> {"none", "active", "stalled", "succeeded", "failed"}]
  /\ html \in [Call -> BOOLEAN]
  /\ pc \in [Worker -> Busy \cup {"down", "idle", "claiming"}]
  /\ work \in [Worker -> Mail \cup {NoMail}]
  /\ verdict \in [Worker -> {"none", "pending", "sent", "failed", "uncertain"}]
  /\ faults \in Nat
  /\ ingests \in Nat
  /\ accepted \in [Mail -> Nat]
  /\ scrubbed \subseteq Mail

Init ==
  /\ row = [m \in Mail |-> "none"]
  /\ attempts = [m \in Mail |-> 0]
  /\ due = [m \in Mail |-> TRUE]
  /\ expired = [m \in Mail |-> FALSE]
  /\ aged = [m \in Mail |-> FALSE]
  /\ callRow = [c \in Call |-> "absent"]
  /\ job = [c \in Call |-> "none"]
  /\ html = [c \in Call |-> FALSE]
  /\ pc = [w \in Worker |-> "down"]
  /\ work = [w \in Worker |-> NoMail]
  /\ verdict = [w \in Worker |-> "none"]
  /\ faults = 0
  /\ ingests = 0
  /\ accepted = [m \in Mail |-> 0]
  /\ scrubbed = {}

MailOf(c)     == {c} \X Kind
InFlight(m)   == \E w \in Worker : pc[w] \in Busy /\ work[w] = m
Unsettled(m)  == row[m] \in {"pending", "sending"}

----------------------------------------------------------------------------
(* The call and its analysis, as far as mail depends on them *)

\* An event creates the call and its job; after retention it may do so again.
CallArrives(c) ==
  /\ callRow[c] = "absent" /\ ingests < MaxIngests
  /\ callRow' = [callRow EXCEPT ![c] = "fresh"]
  /\ job' = [job EXCEPT ![c] = "active"]
  /\ ingests' = ingests + 1
  /\ UNCHANGED <<rows, html, mem, faults, outer>>

\* The artifact writer puts the reports in place, each by an atomic rename.
WriteReports(c) ==
  /\ job[c] = "active"
  /\ html' = [html EXCEPT ![c] = TRUE]
  /\ UNCHANGED <<rows, callRow, job, ingests, mem, faults, outer>>

\* Slip: the mode is stored where the status belongs.
PlannedStatusMode(c, mode) ==
  IF mode = "live" /\ c \in AfterCutover THEN "pending" ELSE mode

PlannedStatus(c, mode) ==
  IF mode = "live" /\ c \in AfterCutover THEN "pending" ELSE "suppressed"

\* enqueueMailBatch: both rows in one transaction, ON CONFLICT DO NOTHING.
Plan(c, mode) ==
  /\ job[c] = "active" /\ html[c] /\ mode # "off"
  /\ row' = [m \in Mail |-> IF m \in MailOf(c) /\ row[m] = "none"
                            THEN PlannedStatus(c, mode) ELSE row[m]]
  /\ UNCHANGED <<attempts, due, expired, aged, calls, mem, faults, outer>>

\* The job ends, or a failed one is retried.
JobTurns(c) ==
  /\ \/ job[c] \in {"active", "stalled"}
        /\ job' \in {[job EXCEPT ![c] = "succeeded"],
                     [job EXCEPT ![c] = "failed"]}
     \/ job[c] \in {"failed", "stalled"}
        /\ job' = [job EXCEPT ![c] = "active"]
  /\ UNCHANGED <<rows, callRow, html, ingests, mem, faults, outer>>

----------------------------------------------------------------------------
(* Time *)

RetryDelayEnds(m) ==
  /\ row[m] = "pending" /\ ~due[m]
  /\ due' = [due EXCEPT ![m] = TRUE]
  /\ UNCHANGED <<row, attempts, expired, aged, calls, mem, faults, outer>>

\* Nothing ties the lease to the sender's SMTP connection.
LeaseExpires(m) ==
  /\ row[m] = "sending" /\ ~expired[m]
  /\ expired' = [expired EXCEPT ![m] = TRUE]
  /\ UNCHANGED <<row, attempts, due, aged, calls, mem, faults, outer>>

\* Ninety days without an update.  No SMTP connection lasts that long.
CallAges(c) ==
  /\ callRow[c] = "fresh"
  /\ callRow' = [callRow EXCEPT ![c] = "old"]
  /\ UNCHANGED <<rows, job, html, ingests, mem, faults, outer>>

JobStalls(c) ==
  /\ callRow[c] = "old" /\ job[c] = "active"
  /\ job' = [job EXCEPT ![c] = "stalled"]
  /\ UNCHANGED <<rows, callRow, html, ingests, mem, faults, outer>>

MailAges(m) ==
  /\ callRow[m[1]] = "old" /\ Unsettled(m) /\ ~aged[m] /\ ~InFlight(m)
  /\ aged' = [aged EXCEPT ![m] = TRUE]
  /\ expired' = [expired EXCEPT ![m] = TRUE]
  /\ due' = [due EXCEPT ![m] = TRUE]
  /\ UNCHANGED <<row, attempts, calls, mem, faults, outer>>

----------------------------------------------------------------------------
(* Retention *)

\* The selection of expired calls: what keeps a call is a recent update of an
\* unfinished job or message, not the unfinished job or message as such.
Removable(c) ==
  /\ callRow[c] = "old"
  /\ job[c] # "active"
  /\ \A m \in MailOf(c) : Unsettled(m) => aged[m]

\* Slip: the outbox rows are deleted with the call.
RetainDeletesMail(c) ==
  /\ Removable(c)
  /\ row' = [m \in Mail |-> IF m \in MailOf(c) THEN "none" ELSE row[m]]
  /\ callRow' = [callRow EXCEPT ![c] = "absent"]
  /\ job' = [job EXCEPT ![c] = "none"]
  /\ html' = [html EXCEPT ![c] = FALSE]
  /\ UNCHANGED <<attempts, due, expired, aged, ingests, mem, faults, outer>>

\* retainRuntime: the directory goes first, then the outbox rows are scrubbed
\* and the other tables cleared, all in one transaction.
Retain(c) ==
  LET open == {m \in MailOf(c) : Unsettled(m)} IN
  /\ Removable(c)
  /\ row' = [m \in Mail |-> IF m \in open THEN "failed" ELSE row[m]]
  /\ scrubbed' = scrubbed \cup open
  /\ callRow' = [callRow EXCEPT ![c] = "absent"]
  /\ job' = [job EXCEPT ![c] = "none"]
  /\ html' = [html EXCEPT ![c] = FALSE]
  /\ UNCHANGED <<attempts, due, expired, aged, ingests, mem, faults, accepted>>

\* A crash or error after rmSync: SQLite rolls back, the files stay deleted.
RetainFails(c) ==
  /\ Removable(c) /\ faults < MaxFaults
  /\ html' = [html EXCEPT ![c] = FALSE]
  /\ faults' = faults + 1
  /\ UNCHANGED <<rows, callRow, job, ingests, mem, outer>>

----------------------------------------------------------------------------
(* The mail worker: MailWorker.runOnce *)

Goto(w, there) ==
  /\ pc' = [pc EXCEPT ![w] = there]
  /\ UNCHANGED <<work, verdict>>

\* The worker decided which status to write next.
Decide(w, v) ==
  /\ pc' = [pc EXCEPT ![w] = "recording"]
  /\ verdict' = [verdict EXCEPT ![w] = v]
  /\ UNCHANGED work

\* completeCycle, the tick's catch, or the end of the process.
Forget(w, there) ==
  /\ pc' = [pc EXCEPT ![w] = there]
  /\ work' = [work EXCEPT ![w] = NoMail]
  /\ verdict' = [verdict EXCEPT ![w] = "none"]

Start(w) ==
  /\ pc[w] = "down"
  /\ Goto(w, "idle")
  /\ UNCHANGED <<rows, calls, faults, outer>>

\* The process dies at any point.  A requested close waits for the running
\* tick, so it is a crash of an idle worker.
Crash(w) ==
  /\ pc[w] # "down" /\ faults < MaxFaults
  /\ faults' = faults + 1
  /\ Forget(w, "down")
  /\ UNCHANGED <<rows, calls, outer>>

\* Slip: only rows without attempts left are given up.
RecoverLastAttempts(w) ==
  LET stale == {m \in Mail : /\ row[m] = "sending" /\ expired[m]
                             /\ attempts[m] >= MaxAttempts} IN
  /\ pc[w] = "idle"
  /\ Goto(w, "claiming")
  /\ row' = [m \in Mail |-> IF m \in stale THEN "uncertain" ELSE row[m]]
  /\ expired' = [m \in Mail |-> expired[m] /\ m \notin stale]
  /\ aged' = [m \in Mail |-> aged[m] /\ m \notin stale]
  /\ UNCHANGED <<attempts, due, calls, faults, outer>>

\* recoverStaleSendingMail, at the start of every tick.
RecoverStale(w) ==
  LET stale == {m \in Mail : row[m] = "sending" /\ expired[m]} IN
  /\ pc[w] = "idle"
  /\ Goto(w, "claiming")
  /\ row' = [m \in Mail |-> IF m \in stale THEN "uncertain" ELSE row[m]]
  /\ expired' = [m \in Mail |-> expired[m] /\ m \notin stale]
  /\ aged' = [m \in Mail |-> aged[m] /\ m \notin stale]
  /\ UNCHANGED <<attempts, due, calls, faults, outer>>

Claimable == {m \in Mail : row[m] = "pending" /\ due[m]}

\* claimNextMail: any of the due rows may be the one due first.
Claim(w, m) ==
  /\ pc[w] = "claiming" /\ m \in Claimable
  /\ row' = [row EXCEPT ![m] = "sending"]
  /\ attempts' = [attempts EXCEPT ![m] = @ + 1]
  /\ expired' = [expired EXCEPT ![m] = FALSE]
  /\ aged' = [aged EXCEPT ![m] = FALSE]
  /\ pc' = [pc EXCEPT ![w] = "claimed"]
  /\ work' = [work EXCEPT ![w] = m]
  /\ UNCHANGED <<due, verdict, calls, faults, outer>>

NothingDue(w) ==
  /\ pc[w] = "claiming" /\ Claimable = {}
  /\ Goto(w, "idle")
  /\ UNCHANGED <<rows, calls, faults, outer>>

\* isAfterCutover: the end of the call is read again; a call that is gone
\* counts as one before the cutover.
CheckCutover(w) ==
  LET c == work[w][1] IN
  /\ pc[w] = "claimed"
  /\ IF callRow[c] # "absent" /\ c \in AfterCutover
     THEN Goto(w, "building") ELSE Decide(w, "failed")
  /\ UNCHANGED <<rows, calls, faults, outer>>

\* buildMessage: recipients may not resolve, the report must be readable.
BuildMessage(w) ==
  /\ pc[w] = "building"
  /\ \/ html[work[w][1]] /\ Goto(w, "sending")
     \/ Decide(w, "failed")
  /\ UNCHANGED <<rows, calls, faults, outer>>

\* Slip: neither the limit nor the delay table ends the retries.
AfterTemporaryForever(n) == "pending"

\* What handleSendFailure makes of an explicit temporary rejection.
AfterTemporary(n) == IF n >= MaxAttempts THEN "failed" ELSE "pending"

\* Slip: an error that leaves the outcome open counts as a final failure.
SendMailDoubtFails(w) ==
  LET m == work[w] IN
  /\ pc[w] = "sending"
  /\ \/ /\ accepted' = [accepted EXCEPT ![m] = @ + 1]
        /\ Decide(w, "sent")
     \/ /\ accepted' \in {accepted, [accepted EXCEPT ![m] = @ + 1]}
        /\ Decide(w, "failed")
  /\ UNCHANGED <<rows, calls, faults, scrubbed>>

\* sendMail and handleSendFailure: accepted; rejected for good; rejected with
\* a 4xx reply; or an error that leaves open whether it was accepted.
SendMail(w) ==
  LET m == work[w] IN
  /\ pc[w] = "sending"
  /\ \/ /\ accepted' = [accepted EXCEPT ![m] = @ + 1]
        /\ Decide(w, "sent")
     \/ /\ \/ Decide(w, "failed")
           \/ Decide(w, AfterTemporary(attempts[m]))
        /\ UNCHANGED accepted
     \/ /\ accepted' \in {accepted, [accepted EXCEPT ![m] = @ + 1]}
        /\ Decide(w, "uncertain")
  /\ UNCHANGED <<rows, calls, faults, scrubbed>>

\* Slip: the UPDATE does not ask for status = 'sending'.
RecordAnyStatus(w) ==
  LET m == work[w] IN
  /\ pc[w] = "recording"
  /\ row' = [row EXCEPT ![m] = verdict[w]]
  /\ due' = [due EXCEPT ![m] = verdict[w] # "pending"]
  /\ expired' = [expired EXCEPT ![m] = FALSE]
  /\ aged' = [aged EXCEPT ![m] = FALSE]
  /\ Forget(w, "idle")
  /\ UNCHANGED <<attempts, calls, faults, outer>>

\* updateSendingMail: the verdict is written to a row that is still sending.
Record(w) ==
  LET m == work[w] IN
  /\ pc[w] = "recording" /\ row[m] = "sending"
  /\ row' = [row EXCEPT ![m] = verdict[w]]
  /\ due' = [due EXCEPT ![m] = verdict[w] # "pending"]
  /\ expired' = [expired EXCEPT ![m] = FALSE]
  /\ aged' = [aged EXCEPT ![m] = FALSE]
  /\ Forget(w, "idle")
  /\ UNCHANGED <<attempts, calls, faults, outer>>

\* updateSendingMail threw: after markMailSent the worker tries to write
\* "uncertain", otherwise the error ends the tick.
RecordThrows(w) ==
  /\ pc[w] = "recording"
  /\ \/ row[work[w]] # "sending" /\ UNCHANGED faults
     \/ row[work[w]] = "sending" /\ faults < MaxFaults /\ faults' = faults + 1
  /\ IF verdict[w] = "sent" THEN Decide(w, "uncertain") ELSE Forget(w, "idle")
  /\ UNCHANGED <<rows, calls, outer>>

Tick(w) ==
  \/ RecoverStale(w) \/ NothingDue(w) \/ (\E m \in Mail : Claim(w, m))
  \/ CheckCutover(w) \/ BuildMessage(w) \/ SendMail(w) \/ Record(w)
  \/ RecordThrows(w)

Next ==
  \/ \E c \in Call : \/ CallArrives(c) \/ WriteReports(c) \/ JobTurns(c)
                     \/ \E mode \in Modes : Plan(c, mode)
                     \/ CallAges(c) \/ JobStalls(c)
                     \/ Retain(c) \/ RetainFails(c)
  \/ \E m \in Mail : RetryDelayEnds(m) \/ LeaseExpires(m) \/ MailAges(m)
  \/ \E w \in Worker : Start(w) \/ Crash(w) \/ Tick(w)

\* systemd restarts the worker, its timer keeps ticking, SMTP calls return,
\* and time passes.
Fairness ==
  /\ \A w \in Worker : WF_vars(Start(w)) /\ WF_vars(Tick(w))
  /\ \A m \in Mail : WF_vars(RetryDelayEnds(m)) /\ WF_vars(LeaseExpires(m))

Spec     == Init /\ [][Next]_vars
FairSpec == Spec /\ Fairness

----------------------------------------------------------------------------
(* Properties *)

\* The SMTP server accepts a message at most once, through crashes between
\* sending and recording, lapsed leases, retries, several workers, repeated
\* planning, and retention followed by a new delivery of the same event.
AcceptedOnce == \A m \in Mail : accepted[m] <= 1

\* A row says "sent" only of a message that was accepted, and "failed" only of
\* one that was not, except where retention closed an abandoned row.
HonestVerdict ==
  \A m \in Mail :
    /\ row[m] = "sent" => accepted[m] = 1
    /\ row[m] = "failed" /\ m \notin scrubbed => accepted[m] = 0

\* A message is tried at most MaxAttempts times; the retry delay table of the
\* code has one entry less, so a pending row always has a delay to wait for.
AttemptsBounded ==
  \A m \in Mail :
    /\ attempts[m] <= MaxAttempts
    /\ row[m] = "pending" => attempts[m] < MaxAttempts

\* Every queued message gets its final status, also when its sender vanished.
MailSettles ==
  \A m \in Mail : Unsettled(m) ~> row[m] \in {"sent", "failed", "uncertain"}

Verdict(m) == IF row[m] = "none" THEN "unqueued"
              ELSE IF Unsettled(m) THEN "open" ELSE row[m]

Promise == INSTANCE MailPromise
             WITH verdict <- [m \in Mail |-> Verdict(m)]

\* The outbox, its workers and retention implement MailPromise.
KeepsPromise == Promise!Spec

\* README.md:250-252, "Retention removes terminal call PII and artifacts ...
\* pending analysis or mail is skipped": no unsent message was ever closed by
\* retention together with its call.
PendingMailSkipped == scrubbed = {}

=============================================================================
