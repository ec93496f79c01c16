-------------------------- MODULE MailOutboxProofs --------------------------
(***************************************************************************)
(* Theorems about MailOutbox, for any number of calls, workers, attempts,  *)
(* crashes and deliveries.                                                 *)
(***************************************************************************)
EXTENDS MailOutbox, TLAPS

\* A worker busy with a message is the only one, and the message is still
\* "sending", or was given up as "uncertain" behind the worker's back.
Flights ==
  \A w \in Worker :
    pc[w] \in Busy =>
      /\ work[w] \in Mail
      /\ row[work[w]] \in {"sending", "uncertain"}
      /\ row[work[w]] = "sending" => ~aged[work[w]]
      /\ \A v \in Worker : pc[v] \in Busy /\ work[v] = work[w] => v = w

\* What a worker knows about its message is true.
Knowledge ==
  \A w \in Worker :
    /\ pc[w] \in {"claimed", "building", "sending"} => accepted[work[w]] = 0
    /\ pc[w] = "recording" =>
         /\ verdict[w] \in {"sent", "failed", "pending", "uncertain"}
         /\ verdict[w] = "sent" => accepted[work[w]] = 1
         /\ verdict[w] \in {"failed", "pending"} => accepted[work[w]] = 0
         /\ verdict[w] = "pending" => attempts[work[w]] < MaxAttempts

\* What a row says about its message is true.
RowFacts ==
  \A m \in Mail :
    /\ accepted[m] <= 1
    /\ row[m] \in {"none", "suppressed", "pending"} => accepted[m] = 0
    /\ row[m] = "sent" => accepted[m] = 1
    /\ row[m] = "failed" /\ m \notin scrubbed => accepted[m] = 0
    /\ row[m] = "none" => attempts[m] = 0
    /\ row[m] = "pending" => attempts[m] < MaxAttempts
    /\ attempts[m] <= MaxAttempts

IInv == TypeOK /\ Flights /\ Knowledge /\ RowFacts

LEMMA InitIInv == Init => IInv
<1>. SUFFICES ASSUME Init PROVE IInv
  OBVIOUS
<1>1. TypeOK
  BY DEF Init, TypeOK, RowStatus, Busy
<1>2. Flights /\ Knowledge
  BY DEF Init, Flights, Knowledge, Busy
<1>3. RowFacts
  BY MailAssumption DEF Init, RowFacts
<1>. QED  BY <1>1, <1>2, <1>3 DEF IInv

LEMMA NextTypeOK == IInv /\ [Next]_vars => TypeOK'
<1>. SUFFICES ASSUME TypeOK, Flights, [Next]_vars PROVE TypeOK'
  BY DEF IInv
<1>. USE DEF TypeOK, rows, calls, mem, outer, RowStatus, Busy
<1>1. ASSUME NEW c \in Call, CallArrives(c) PROVE TypeOK'
  BY <1>1 DEF CallArrives
<1>2. ASSUME NEW c \in Call, WriteReports(c) PROVE TypeOK'
  BY <1>2 DEF WriteReports
<1>3. ASSUME NEW c \in Call, JobTurns(c) PROVE TypeOK'
  BY <1>3 DEF JobTurns
<1>4. ASSUME NEW c \in Call, NEW mode \in Modes, Plan(c, mode) PROVE TypeOK'
  BY <1>4 DEF Plan, PlannedStatus
<1>5. ASSUME NEW c \in Call, CallAges(c) PROVE TypeOK'
  BY <1>5 DEF CallAges
<1>6. ASSUME NEW c \in Call, JobStalls(c) PROVE TypeOK'
  BY <1>6 DEF JobStalls
<1>7. ASSUME NEW c \in Call, Retain(c) PROVE TypeOK'
  <2>1. {m \in MailOf(c) : Unsettled(m)} \subseteq Mail
    BY DEF MailOf, Mail
  <2>. QED  BY <1>7, <2>1 DEF Retain
<1>8. ASSUME NEW c \in Call, RetainFails(c) PROVE TypeOK'
  BY <1>8 DEF RetainFails
<1>9. ASSUME NEW m \in Mail, RetryDelayEnds(m) PROVE TypeOK'
  BY <1>9 DEF RetryDelayEnds
<1>10. ASSUME NEW m \in Mail, LeaseExpires(m) PROVE TypeOK'
  BY <1>10 DEF LeaseExpires
<1>11. ASSUME NEW m \in Mail, MailAges(m) PROVE TypeOK'
  BY <1>11 DEF MailAges
<1>12. ASSUME NEW w \in Worker, Start(w) PROVE TypeOK'
  BY <1>12 DEF Start, Goto
<1>13. ASSUME NEW w \in Worker, Crash(w) PROVE TypeOK'
  BY <1>13 DEF Crash, Forget
<1>14. ASSUME NEW w \in Worker, Tick(w) PROVE TypeOK'
  <2>1. ASSUME RecoverStale(w) PROVE TypeOK'
    BY <2>1 DEF RecoverStale, Goto
  <2>2. ASSUME NothingDue(w) PROVE TypeOK'
    BY <2>2 DEF NothingDue, Goto
  <2>3. ASSUME NEW m \in Mail, Claim(w, m) PROVE TypeOK'
    BY <2>3 DEF Claim
  <2>4. ASSUME CheckCutover(w) PROVE TypeOK'
    BY <2>4 DEF CheckCutover, Goto, Decide
  <2>5. ASSUME BuildMessage(w) PROVE TypeOK'
    BY <2>5 DEF BuildMessage, Goto, Decide
  <2>6. ASSUME SendMail(w) PROVE TypeOK'
    <3>1. work[w] \in Mail
      BY <2>6 DEF SendMail, Flights
    <3>2. accepted' \in [Mail -> Nat]
      BY <2>6, <3>1 DEF SendMail
    <3>3. /\ pc' = [pc EXCEPT ![w] = "recording"]
          /\ verdict' \in [Worker -> {"none", "pending", "sent", "failed",
                                      "uncertain"}]
          /\ UNCHANGED work
      BY <2>6 DEF SendMail, Decide, AfterTemporary
    <3>. QED  BY <2>6, <3>2, <3>3 DEF SendMail
  <2>7. ASSUME Record(w) PROVE TypeOK'
    <3>1. work[w] \in Mail /\ row[work[w]] = "sending"
      BY <2>7 DEF Record, Flights
    <3>2. row' \in [Mail -> RowStatus]
      BY <2>7, <3>1 DEF Record
    <3>3. UNCHANGED <<attempts, callRow, job, html, ingests, faults, accepted,
                      scrubbed>>
      BY <2>7 DEF Record
    <3>4. /\ due' \in [Mail -> BOOLEAN] /\ expired' \in [Mail -> BOOLEAN]
          /\ aged' \in [Mail -> BOOLEAN]
      BY <2>7, <3>1 DEF Record
    <3>5. /\ pc' \in [Worker -> Busy \cup {"down", "idle", "claiming"}]
          /\ work' \in [Worker -> Mail \cup {NoMail}]
          /\ verdict' \in [Worker -> {"none", "pending", "sent", "failed",
                                      "uncertain"}]
      BY <2>7 DEF Record, Forget
    <3>. QED  BY <3>2, <3>3, <3>4, <3>5
  <2>8. ASSUME RecordThrows(w) PROVE TypeOK'
    BY <2>8 DEF RecordThrows, Decide, Forget
  <2>. QED
    BY <1>14, <2>1, <2>2, <2>3, <2>4, <2>5, <2>6, <2>7, <2>8 DEF Tick
<1>15. CASE UNCHANGED vars
  BY <1>15 DEF vars
<1>. QED
  BY <1>1, <1>2, <1>3, <1>4, <1>5, <1>6, <1>7, <1>8, <1>9, <1>10, <1>11,
     <1>12, <1>13, <1>14, <1>15 DEF Next

\* A step that touches neither workers nor what Flights, Knowledge and
\* RowFacts say about rows.
LEMMA QuietStep ==
  ASSUME IInv,
         UNCHANGED <<row, attempts, pc, work, verdict, accepted, scrubbed>>,
         \A w \in Worker : pc[w] \in Busy => aged'[work[w]] = aged[work[w]]
  PROVE  Flights' /\ Knowledge' /\ RowFacts'
BY DEF IInv, Flights, Knowledge, RowFacts, Busy

\* A step of one worker that leaves the rows alone and is not a claim.
LEMMA WorkerStep ==
  ASSUME IInv, NEW w \in Worker,
         UNCHANGED <<row, attempts, aged, accepted, scrubbed>>,
         \A v \in Worker \ {w} : /\ pc'[v] = pc[v] /\ work'[v] = work[v]
                                 /\ verdict'[v] = verdict[v],
         pc'[w] \in Busy => pc[w] \in Busy /\ work'[w] = work[w],
         pc'[w] \in {"claimed", "building", "sending"}
           => accepted[work[w]] = 0,
         pc'[w] = "recording" =>
           /\ verdict'[w] \in {"sent", "failed", "uncertain"}
           /\ verdict'[w] = "sent" => accepted[work[w]] = 1
           /\ verdict'[w] = "failed" => accepted[work[w]] = 0
  PROVE  Flights' /\ Knowledge' /\ RowFacts'
<1>1. Flights'
  BY DEF IInv, Flights
<1>2. Knowledge'
  BY DEF IInv, Knowledge, Flights, Busy
<1>3. RowFacts'
  BY DEF IInv, RowFacts
<1>. QED  BY <1>1, <1>2, <1>3

LEMMA NextFacts == IInv /\ [Next]_vars => Flights' /\ Knowledge' /\ RowFacts'
<1>. DEFINE Goal == Flights' /\ Knowledge' /\ RowFacts'
<1>. SUFFICES ASSUME IInv, [Next]_vars PROVE Goal
  OBVIOUS
<1>. USE DEF rows, calls, mem, outer
<1>t. TypeOK /\ Flights /\ Knowledge /\ RowFacts
  BY DEF IInv
<1>1. ASSUME NEW c \in Call,
             CallArrives(c) \/ WriteReports(c) \/ JobTurns(c) \/ CallAges(c)
             \/ JobStalls(c) \/ RetainFails(c)
      PROVE  Goal
  BY <1>1, QuietStep
  DEF CallArrives, WriteReports, JobTurns, CallAges, JobStalls, RetainFails
<1>2. ASSUME NEW c \in Call, NEW mode \in Modes, Plan(c, mode) PROVE Goal
  <2>1. \A m \in Mail : row'[m] = row[m]
                        \/ /\ row[m] = "none"
                           /\ row'[m] \in {"pending", "suppressed"}
    BY <1>2 DEF Plan, PlannedStatus
  <2>2. UNCHANGED <<attempts, aged, pc, work, verdict, accepted, scrubbed>>
    BY <1>2 DEF Plan
  <2>3. \A m \in Mail : attempts[m] = 0 => attempts[m] < MaxAttempts
    BY MailAssumption
  <2>4. Flights' /\ Knowledge'
    BY <1>t, <2>1, <2>2 DEF Flights, Knowledge
  <2>5. RowFacts'
    BY <1>t, <2>1, <2>2, <2>3 DEF RowFacts
  <2>. QED  BY <2>4, <2>5
<1>3. ASSUME NEW c \in Call, Retain(c) PROVE Goal
  <2>. DEFINE open == {m \in MailOf(c) : Unsettled(m)}
  <2>1. /\ \A m \in Mail : row'[m] = IF m \in open THEN "failed" ELSE row[m]
        /\ scrubbed' = scrubbed \cup open
        /\ UNCHANGED <<attempts, aged, pc, work, verdict, accepted>>
    BY <1>3 DEF Retain
  <2>2. \A m \in open : aged[m] /\ row[m] \in {"pending", "sending"}
    BY <1>3 DEF Retain, Removable, Unsettled
  <2>3. \A w \in Worker : pc[w] \in Busy => row'[work[w]] = row[work[w]]
    BY <1>t, <2>1, <2>2 DEF Flights
  <2>4. Flights' /\ Knowledge'
    BY <1>t, <2>1, <2>3 DEF Flights, Knowledge
  <2>5. RowFacts'
    BY <1>t, <2>1 DEF RowFacts
  <2>. QED  BY <2>4, <2>5
<1>4. ASSUME NEW m \in Mail, RetryDelayEnds(m) \/ LeaseExpires(m) PROVE Goal
  BY <1>4, QuietStep DEF RetryDelayEnds, LeaseExpires
<1>5. ASSUME NEW m \in Mail, MailAges(m) PROVE Goal
  <2>1. \A w \in Worker : pc[w] \in Busy => work[w] # m
    BY <1>5 DEF MailAges, InFlight
  <2>2. \A w \in Worker : pc[w] \in Busy => aged'[work[w]] = aged[work[w]]
    BY <1>5, <1>t, <2>1 DEF MailAges, TypeOK, Flights
  <2>. QED  BY <1>5, <2>2, QuietStep DEF MailAges
<1>6. ASSUME NEW w \in Worker, Start(w) PROVE Goal
  BY <1>6, <1>t, WorkerStep DEF Start, Goto, TypeOK, Busy
<1>7. ASSUME NEW w \in Worker, Crash(w) PROVE Goal
  BY <1>7, <1>t, WorkerStep DEF Crash, Forget, TypeOK, Busy
<1>8. ASSUME NEW w \in Worker, RecoverStale(w) PROVE Goal
  <2>1. \A m \in Mail : \/ row'[m] = row[m] /\ aged'[m] = aged[m]
                        \/ row[m] = "sending" /\ row'[m] = "uncertain"
    BY <1>8, <1>t DEF RecoverStale, TypeOK
  <2>2. UNCHANGED <<attempts, work, verdict, accepted, scrubbed>>
    BY <1>8 DEF RecoverStale, Goto
  <2>3. /\ pc[w] \notin Busy /\ pc'[w] \notin Busy
        /\ \A v \in Worker \ {w} : pc'[v] = pc[v]
    BY <1>8, <1>t DEF RecoverStale, Goto, TypeOK, Busy
  <2>4. Flights'
    BY <1>t, <2>1, <2>2, <2>3 DEF Flights
  <2>5. Knowledge'
    BY <1>t, <2>2, <2>3 DEF Knowledge, Busy
  <2>6. RowFacts'
    BY <1>t, <2>1, <2>2 DEF RowFacts
  <2>. QED  BY <2>4, <2>5, <2>6
<1>9. ASSUME NEW w \in Worker, NothingDue(w) PROVE Goal
  BY <1>9, <1>t, WorkerStep DEF NothingDue, Goto, TypeOK, Busy
<1>10. ASSUME NEW w \in Worker, NEW m \in Mail, Claim(w, m) PROVE Goal
  <2>1. /\ row[m] = "pending" /\ pc[w] \notin Busy
        /\ row' = [row EXCEPT ![m] = "sending"]
        /\ attempts' = [attempts EXCEPT ![m] = @ + 1]
        /\ aged' = [aged EXCEPT ![m] = FALSE]
        /\ UNCHANGED <<verdict, accepted, scrubbed>>
    BY <1>10 DEF Claim, Claimable, Busy
  <2>2. /\ pc'[w] = "claimed" /\ work'[w] = m
        /\ \A v \in Worker \ {w} : pc'[v] = pc[v] /\ work'[v] = work[v]
    BY <1>10, <1>t DEF Claim, TypeOK
  <2>3. \A v \in Worker : pc[v] \in Busy => work[v] \in Mail /\ work[v] # m
    BY <1>t, <2>1 DEF Flights
  <2>4. \A d \in Mail : d # m => /\ row'[d] = row[d] /\ aged'[d] = aged[d]
                                 /\ attempts'[d] = attempts[d]
    BY <1>t, <2>1 DEF TypeOK
  <2>5. row'[m] = "sending" /\ ~aged'[m] /\ attempts'[m] = attempts[m] + 1
    BY <1>t, <2>1 DEF TypeOK
  <2>6. Flights'
    BY <1>t, <2>2, <2>3, <2>4, <2>5 DEF Flights
  <2>7. Knowledge'
    <3>1. accepted[m] = 0
      BY <1>t, <2>1 DEF RowFacts
    <3>. QED  BY <1>t, <3>1, <2>1, <2>2, <2>3, <2>4 DEF Knowledge, Busy
  <2>8. RowFacts'
    <3>1. attempts[m] \in Nat /\ attempts[m] < MaxAttempts /\ MaxAttempts \in Nat
      BY <1>t, <2>1, MailAssumption DEF RowFacts, TypeOK
    <3>. QED  BY <1>t, <3>1, <2>1, <2>4, <2>5 DEF RowFacts
  <2>. QED  BY <2>6, <2>7, <2>8
<1>11. ASSUME NEW w \in Worker, CheckCutover(w) PROVE Goal
  BY <1>11, <1>t, WorkerStep
  DEF CheckCutover, Goto, Decide, TypeOK, Busy, Knowledge
<1>12. ASSUME NEW w \in Worker, BuildMessage(w) PROVE Goal
  BY <1>12, <1>t, WorkerStep
  DEF BuildMessage, Goto, Decide, TypeOK, Busy, Knowledge
<1>13. ASSUME NEW w \in Worker, SendMail(w) PROVE Goal
  <2>. DEFINE m == work[w]
  <2>1. /\ pc[w] = "sending" /\ pc[w] \in Busy
        /\ UNCHANGED <<row, attempts, aged, work, scrubbed>>
    BY <1>13 DEF SendMail, Decide, Busy
  <2>2. m \in Mail /\ row[m] \in {"sending", "uncertain"} /\ accepted[m] = 0
    BY <1>t, <2>1 DEF Flights, Knowledge
  <2>3. /\ pc'[w] = "recording"
        /\ \A v \in Worker \ {w} : pc'[v] = pc[v] /\ verdict'[v] = verdict[v]
    BY <1>13, <1>t DEF SendMail, Decide, TypeOK
  <2>4. /\ accepted'[m] \in {0, 1}
        /\ \A d \in Mail : d # m => accepted'[d] = accepted[d]
    BY <1>13, <1>t, <2>2 DEF SendMail, TypeOK
  <2>5. \/ verdict'[w] = "sent" /\ accepted'[m] = 1
        \/ verdict'[w] = "failed" /\ accepted'[m] = 0
        \/ /\ verdict'[w] = "pending" /\ accepted'[m] = 0
           /\ attempts[m] < MaxAttempts
        \/ verdict'[w] = "uncertain"
    <3>1. attempts[m] \in Nat /\ MaxAttempts \in Nat
      BY <1>t, <2>2, MailAssumption DEF TypeOK
    <3>. QED
      BY <1>13, <1>t, <2>2, <3>1
      DEF SendMail, Decide, AfterTemporary, TypeOK
  <2>6. Flights'
    BY <1>t, <2>1, <2>3 DEF Flights, Busy
  <2>7. \A v \in Worker \ {w} : pc[v] \in Busy => work[v] # m /\ work[v] \in Mail
    BY <1>t, <2>1 DEF Flights
  <2>8. Knowledge'
    BY <1>t, <2>1, <2>3, <2>4, <2>5, <2>7 DEF Knowledge, Busy
  <2>9. RowFacts'
    BY <1>t, <2>1, <2>2, <2>4 DEF RowFacts
  <2>. QED  BY <2>6, <2>8, <2>9
<1>14. ASSUME NEW w \in Worker, Record(w) PROVE Goal
  <2>. DEFINE m == work[w]
  <2>1. /\ pc[w] = "recording" /\ pc[w] \in Busy /\ row[m] = "sending"
        /\ UNCHANGED <<attempts, accepted, scrubbed>>
    BY <1>14 DEF Record, Busy
  <2>2. m \in Mail
    BY <1>t, <2>1 DEF Flights
  <2>3. /\ pc'[w] = "idle"
        /\ \A v \in Worker \ {w} : /\ pc'[v] = pc[v] /\ work'[v] = work[v]
                                   /\ verdict'[v] = verdict[v]
    BY <1>14, <1>t DEF Record, Forget, TypeOK
  <2>4. /\ row'[m] = verdict[w]
        /\ \A d \in Mail : d # m => row'[d] = row[d] /\ aged'[d] = aged[d]
    BY <1>14, <1>t, <2>2 DEF Record, TypeOK
  <2>5. \A v \in Worker \ {w} : pc[v] \in Busy => work[v] # m /\ work[v] \in Mail
    BY <1>t, <2>1 DEF Flights
  <2>6. Flights'
    BY <1>t, <2>3, <2>4, <2>5 DEF Flights, Busy
  <2>7. Knowledge'
    BY <1>t, <2>1, <2>3, <2>5 DEF Knowledge, Busy
  <2>8. RowFacts'
    BY <1>t, <2>1, <2>2, <2>4 DEF RowFacts, Knowledge
  <2>. QED  BY <2>6, <2>7, <2>8
<1>15. ASSUME NEW w \in Worker, RecordThrows(w) PROVE Goal
  BY <1>15, <1>t, WorkerStep DEF RecordThrows, Decide, Forget, TypeOK, Busy
<1>16. CASE UNCHANGED vars
  BY <1>16, QuietStep DEF vars
<1>. QED
  BY <1>1, <1>2, <1>3, <1>4, <1>5, <1>6, <1>7, <1>8, <1>9, <1>10, <1>11,
     <1>12, <1>13, <1>14, <1>15, <1>16 DEF Next, Tick

THEOREM Invariance == Spec => []IInv
<1>1. IInv /\ [Next]_vars => IInv'
  BY NextTypeOK, NextFacts DEF IInv
<1>. QED
  BY <1>1, InitIInv, PTL DEF Spec

----------------------------------------------------------------------------
(* What the runs check on small instances *)

\* Rows, registers and histories keep their types.
THEOREM TypeCorrect == Spec => []TypeOK
BY Invariance, PTL DEF IInv

\* No message is accepted twice by the SMTP server.
THEOREM AcceptedOnceHolds == Spec => []AcceptedOnce
<1>1. IInv => AcceptedOnce
  BY DEF IInv, RowFacts, AcceptedOnce
<1>. QED  BY <1>1, Invariance, PTL

\* "sent" is said only of accepted messages, "failed" only of others.
THEOREM HonestVerdictHolds == Spec => []HonestVerdict
<1>1. IInv => HonestVerdict
  BY DEF IInv, RowFacts, HonestVerdict
<1>. QED  BY <1>1, Invariance, PTL

\* No message is tried more than MaxAttempts times.
THEOREM AttemptsBoundedHolds == Spec => []AttemptsBounded
<1>1. IInv => AttemptsBounded
  BY DEF IInv, RowFacts, AttemptsBounded
<1>. QED  BY <1>1, Invariance, PTL

----------------------------------------------------------------------------
(* The outbox implements MailPromise *)

PVerdict == [m \in Mail |-> Verdict(m)]

\* A step that leaves statuses and histories alone is a stutter.
LEMMA Stutter ==
  ASSUME UNCHANGED <<row, accepted>>
  PROVE  UNCHANGED <<PVerdict, accepted>>
BY DEF PVerdict, Verdict, Unsettled

\* Rows that go from one set of statuses to another move their verdicts.
LEMMA VerdictMoves ==
  ASSUME NEW ms \in SUBSET Mail, NEW v,
         \A m \in Mail : row'[m] = row[m] \/ m \in ms,
         \A m \in ms : Verdict(m)' = v
  PROVE  PVerdict' = [m \in Mail |-> IF m \in ms THEN v ELSE PVerdict[m]]
<1>1. \A m \in Mail : Verdict(m)' = IF m \in ms THEN v ELSE Verdict(m)
  BY DEF Verdict, Unsettled
<1>. QED  BY <1>1 DEF PVerdict

LEMMA StepImplements ==
  ASSUME IInv, IInv', [Next]_vars
  PROVE  [Promise!Next]_<<PVerdict, accepted>>
<1>. DEFINE Goal == [Promise!Next]_<<PVerdict, accepted>>
<1>. USE DEF rows, calls, mem, outer
<1>t. TypeOK /\ Flights /\ Knowledge /\ RowFacts
  BY DEF IInv
<1>1. CASE UNCHANGED <<row, accepted>>
  BY <1>1, Stutter
<1>2. ASSUME NEW c \in Call, NEW mode \in Modes, Plan(c, mode) PROVE Goal
  <2>. DEFINE ms == {m \in MailOf(c) : row[m] = "none"}
  <2>. PICK v : v = IF PlannedStatus(c, mode) = "pending"
                    THEN "open" ELSE "suppressed"
    OBVIOUS
  <2>1. ms \in SUBSET Mail
    BY DEF MailOf, Mail
  <2>2. \A m \in Mail : row'[m] = IF m \in ms THEN PlannedStatus(c, mode)
                                  ELSE row[m]
    BY <1>2 DEF Plan
  <2>3. \A m \in ms : Verdict(m)' = v
    BY <2>1, <2>2 DEF Verdict, Unsettled, PlannedStatus
  <2>4. PVerdict' = [m \in Mail |-> IF m \in ms THEN v ELSE PVerdict[m]]
    <3>1. \A m \in Mail : Verdict(m)' = IF m \in ms THEN v ELSE Verdict(m)
      BY <2>2, <2>3 DEF Verdict, Unsettled
    <3>. QED  BY <3>1 DEF PVerdict
  <2>5. \A m \in ms : PVerdict[m] = "unqueued"
    BY <2>1 DEF PVerdict, Verdict
  <2>6. accepted' = accepted
    BY <1>2 DEF Plan
  <2>7. v \in {"open", "suppressed"}
    OBVIOUS
  <2>8. Promise!Queue(ms, v)
    BY <2>4, <2>5, <2>6, <2>7 DEF Promise!Queue, PVerdict
  <2>. QED  BY <2>1, <2>7, <2>8 DEF Promise!Next, Promise!Verdict
<1>3. ASSUME NEW c \in Call, Retain(c) PROVE Goal
  <2>. DEFINE ms == {m \in MailOf(c) : Unsettled(m)}
  <2>1. ms \in SUBSET Mail
    BY DEF MailOf, Mail
  <2>2. /\ \A m \in Mail : row'[m] = IF m \in ms THEN "failed" ELSE row[m]
        /\ accepted' = accepted
    BY <1>3 DEF Retain
  <2>3. \A m \in ms : Verdict(m)' = "failed"
    BY <2>1, <2>2 DEF Verdict, Unsettled
  <2>4. PVerdict' = [m \in Mail |-> IF m \in ms THEN "failed" ELSE PVerdict[m]]
    BY <2>1, <2>2, <2>3, VerdictMoves
  <2>5. \A m \in ms : PVerdict[m] = "open"
    BY <2>1 DEF PVerdict, Verdict, Unsettled
  <2>6. Promise!Scrub(ms)
    BY <2>2, <2>4, <2>5 DEF Promise!Scrub, PVerdict
  <2>. QED  BY <2>1, <2>6 DEF Promise!Next
<1>4. ASSUME NEW w \in Worker, RecoverStale(w) PROVE Goal
  <2>. DEFINE ms == {m \in Mail : row[m] = "sending" /\ expired[m]}
  <2>1. ms \in SUBSET Mail
    OBVIOUS
  <2>2. /\ \A m \in Mail : row'[m] = IF m \in ms THEN "uncertain" ELSE row[m]
        /\ accepted' = accepted
    BY <1>4 DEF RecoverStale
  <2>3. \A m \in ms : Verdict(m)' = "uncertain"
    BY <2>1, <2>2 DEF Verdict, Unsettled
  <2>4. PVerdict' = [m \in Mail |-> IF m \in ms THEN "uncertain"
                                    ELSE PVerdict[m]]
    BY <2>1, <2>2, <2>3, VerdictMoves
  <2>5. \A m \in ms : PVerdict[m] = "open"
    BY <2>1 DEF PVerdict, Verdict, Unsettled
  <2>6. Promise!GiveUp(ms)
    BY <2>2, <2>4, <2>5 DEF Promise!GiveUp, PVerdict
  <2>. QED  BY <2>1, <2>6 DEF Promise!Next
<1>5. ASSUME NEW w \in Worker, NEW m \in Mail, Claim(w, m) PROVE Goal
  <2>1. /\ row[m] = "pending" /\ row' = [row EXCEPT ![m] = "sending"]
        /\ accepted' = accepted
    BY <1>5 DEF Claim, Claimable
  <2>2. \A d \in Mail : Verdict(d)' = Verdict(d)
    BY <1>t, <2>1 DEF Verdict, Unsettled, TypeOK
  <2>. QED  BY <2>1, <2>2 DEF PVerdict
<1>6. ASSUME NEW w \in Worker, SendMail(w) PROVE Goal
  <2>. DEFINE m == work[w]
  <2>1. pc[w] = "sending" /\ pc[w] \in Busy /\ row' = row
    BY <1>6 DEF SendMail, Busy
  <2>2. m \in Mail /\ row[m] \in {"sending", "uncertain"} /\ accepted[m] = 0
    BY <1>t, <2>1 DEF Flights, Knowledge
  <2>3. accepted' = accepted \/ accepted' = [accepted EXCEPT ![m] = @ + 1]
    BY <1>6 DEF SendMail
  <2>4. PVerdict' = PVerdict
    BY <2>1 DEF PVerdict, Verdict, Unsettled
  <2>5. PVerdict[m] \in {"open", "uncertain"}
    BY <2>2 DEF PVerdict, Verdict, Unsettled
  <2>6. CASE accepted' = accepted
    BY <2>4, <2>6
  <2>7. CASE accepted' = [accepted EXCEPT ![m] = @ + 1]
    <3>1. accepted' = [accepted EXCEPT ![m] = 1]
      BY <1>t, <2>2, <2>7 DEF TypeOK
    <3>2. Promise!Accept(m)
      BY <2>2, <2>4, <2>5, <3>1 DEF Promise!Accept, PVerdict
    <3>. QED  BY <2>2, <3>2 DEF Promise!Next
  <2>. QED  BY <2>3, <2>6, <2>7
<1>7. ASSUME NEW w \in Worker, Record(w) PROVE Goal
  <2>. PICK m, v : m = work[w] /\ v = verdict[w]
    OBVIOUS
  <2>1. /\ pc[w] = "recording" /\ pc[w] \in Busy /\ row[m] = "sending"
        /\ row' = [row EXCEPT ![m] = v] /\ accepted' = accepted
    BY <1>7 DEF Record, Busy
  <2>2. m \in Mail /\ v \in {"sent", "failed", "pending", "uncertain"}
    BY <1>t, <2>1 DEF Flights, Knowledge
  <2>3. /\ v = "sent" => accepted[m] = 1
        /\ v = "failed" => accepted[m] = 0
    BY <1>t, <2>1 DEF Knowledge
  <2>4. /\ row'[m] = v
        /\ \A d \in Mail : row'[d] = row[d] \/ d \in {m}
    BY <1>t, <2>1, <2>2 DEF TypeOK
  <2>5. PVerdict[m] = "open"
    BY <2>1, <2>2 DEF PVerdict, Verdict, Unsettled
  <2>6. CASE v = "pending"
    <3>1. \A d \in Mail : Verdict(d)' = Verdict(d)
      BY <2>1, <2>4, <2>6 DEF Verdict, Unsettled
    <3>. QED  BY <2>1, <3>1 DEF PVerdict
  <2>7. CASE v # "pending"
    <3>1. Verdict(m)' = v
      BY <2>2, <2>4, <2>7 DEF Verdict, Unsettled
    <3>2. PVerdict' = [d \in Mail |-> IF d \in {m} THEN v ELSE PVerdict[d]]
      <4>1. \A d \in Mail : Verdict(d)' = IF d \in {m} THEN v ELSE Verdict(d)
        BY <2>4, <3>1 DEF Verdict, Unsettled
      <4>. QED  BY <4>1 DEF PVerdict
    <3>3. CASE v = "uncertain"
      <4>1. Promise!GiveUp({m})
        BY <2>1, <2>5, <3>2, <3>3 DEF Promise!GiveUp, PVerdict
      <4>2. {m} \in SUBSET Mail
        BY <2>2
      <4>. QED  BY <4>1, <4>2 DEF Promise!Next
    <3>4. CASE v \in {"sent", "failed"}
      <4>1. PVerdict' = [PVerdict EXCEPT ![m] = v]
        BY <3>2 DEF PVerdict
      <4>2. Promise!Decide(m, v)
        BY <2>1, <2>3, <2>5, <3>4, <4>1 DEF Promise!Decide, PVerdict
      <4>3. v \in Promise!Verdict
        BY <3>4 DEF Promise!Verdict
      <4>. QED  BY <2>2, <4>2, <4>3 DEF Promise!Next
    <3>. QED  BY <2>2, <2>7, <3>3, <3>4
  <2>. QED  BY <2>6, <2>7
<1>. QED
  BY <1>1, <1>2, <1>3, <1>4, <1>5, <1>6, <1>7
  DEF Next, Tick, vars, CallArrives, WriteReports, JobTurns, CallAges,
      JobStalls, RetainFails, RetryDelayEnds, LeaseExpires, MailAges, Start,
      Crash, NothingDue, CheckCutover, BuildMessage, RecordThrows

\* The outbox with its workers, leases and retention keeps MailPromise.
THEOREM Implementation == Spec => KeepsPromise
<1>1. Init => Promise!Init
  BY DEF Init, Promise!Init, Verdict
<1>2. IInv /\ IInv' /\ [Next]_vars => [Promise!Next]_(Promise!promise)
  BY StepImplements DEF Promise!promise, PVerdict
<1>. QED
  BY <1>1, <1>2, Invariance, PTL DEF Spec, KeepsPromise, Promise!Spec

----------------------------------------------------------------------------
(* One mail worker, as deployed *)

\* The row a worker has in its hands is still marked as being sent.
Held == \A w \in Worker : pc[w] \in Busy => row[work[w]] = "sending"

\* Only another worker's recovery can take a row from its sender: retention
\* looks at old rows, and a row in flight is not old.
LEMMA NextHeld ==
  ASSUME \A v, w \in Worker : v = w, IInv, Held, [Next]_vars
  PROVE  Held'
<1>. USE DEF Held, IInv, TypeOK, Flights, Busy
<1>1. ASSUME NEW c \in Call, NEW mode \in Modes, Plan(c, mode) PROVE Held'
  BY <1>1 DEF Plan, mem
<1>2. ASSUME NEW c \in Call, Retain(c) PROVE Held'
  <2>1. ASSUME NEW m \in MailOf(c), row[m] = "sending" PROVE aged[m]
    BY <1>2, <2>1 DEF Retain, Removable, Unsettled
  <2>2. UNCHANGED mem /\ \A m \in Mail : m \notin MailOf(c) \/ ~Unsettled(m) => row'[m] = row[m]
    BY <1>2 DEF Retain
  <2>. QED  BY <2>1, <2>2 DEF mem
<1>3. ASSUME NEW w \in Worker, RecoverStale(w) PROVE Held'
  BY <1>3 DEF RecoverStale, Goto
<1>4. ASSUME NEW w \in Worker, NEW m \in Mail, Claim(w, m) PROVE Held'
  BY <1>4 DEF Claim
<1>5. ASSUME NEW w \in Worker, Record(w) PROVE Held'
  BY <1>5 DEF Record, Forget
<1>6. ASSUME NEW w \in Worker,
             \/ NothingDue(w) \/ CheckCutover(w) \/ BuildMessage(w)
             \/ SendMail(w) \/ RecordThrows(w)
      PROVE  Held'
  BY <1>6 DEF NothingDue, CheckCutover, BuildMessage, SendMail, RecordThrows, Goto,
     Decide, Forget, rows
<1>7. ASSUME NEW w \in Worker, Start(w) \/ Crash(w) PROVE Held'
  BY <1>7 DEF Start, Crash, Goto, Forget, rows
<1>8. CASE UNCHANGED <<row, pc, work>>
  BY <1>8
<1>. QED
  BY <1>1, <1>2, <1>3, <1>4, <1>5, <1>6, <1>7, <1>8
  DEF Next, Tick, vars, rows, mem, CallArrives, WriteReports, JobTurns, CallAges,
      JobStalls, RetainFails, RetryDelayEnds, LeaseExpires, MailAges

\* With one mail worker the lease of a live sender never matters: its row stays
\* "sending" until the sender records its verdict, however long SMTP takes, and
\* a verdict is written as decided unless the worker crashes or SQLite fails
\* (recoverStaleSendingMail runs in the same tick loop that sends).
THEOREM VerdictLandsWithOneWorker ==
  ASSUME \A v, w \in Worker : v = w
  PROVE  Spec =>
           /\ [](\A w \in Worker : pc[w] \in Busy => row[work[w]] = "sending")
           /\ [][\A w \in Worker :
                   pc[w] = "recording" /\ <<pc[w], verdict[w]>>' # <<pc[w], verdict[w]>>
                   => row'[work[w]] = verdict[w] \/ faults' = faults + 1]_vars
<1>. DEFINE Lands ==
       \A w \in Worker :
         pc[w] = "recording" /\ <<pc[w], verdict[w]>>' # <<pc[w], verdict[w]>>
         => row'[work[w]] = verdict[w] \/ faults' = faults + 1
<1>1. Init => Held
  BY DEF Init, Held, Busy
<1>2. IInv /\ Held /\ [Next]_vars => Held'
  BY NextHeld
<1>3. IInv /\ Held /\ [Next]_vars => [Lands]_vars
  <2>. SUFFICES ASSUME IInv, Held, Next, NEW w \in Worker, pc[w] = "recording",
                       <<pc[w], verdict[w]>>' # <<pc[w], verdict[w]>>
                PROVE  row'[work[w]] = verdict[w] \/ faults' = faults + 1
    OBVIOUS
  <2>1. row[work[w]] = "sending" /\ work[w] \in Mail /\ row \in [Mail -> RowStatus]
    BY DEF Held, IInv, Flights, TypeOK, Busy
  <2>2. \/ \E v \in Worker : Start(v) \/ Crash(v) \/ Tick(v)
        \/ UNCHANGED mem
    BY DEF Next, CallArrives, WriteReports, JobTurns, Plan, CallAges, JobStalls, Retain,
       RetainFails, RetryDelayEnds, LeaseExpires, MailAges
  <2>3. Start(w) \/ Crash(w) \/ Tick(w)
    BY <2>2 DEF mem
  <2>4. Crash(w) \/ Record(w) \/ RecordThrows(w)
    BY <2>3 DEF Start, Tick, RecoverStale, NothingDue, Claim, CheckCutover, BuildMessage,
       SendMail
  <2>. QED  BY <2>1, <2>4 DEF Crash, Record, RecordThrows
<1>4. (\A w \in Worker : pc[w] \in Busy => row[work[w]] = "sending") <=> Held
  BY DEF Held
<1>. HIDE DEF Lands
<1>5. Spec => []Held /\ [][Lands]_vars
  BY <1>1, <1>2, <1>3, Invariance, PTL DEF Spec
<1>. QED  BY <1>4, <1>5, PTL DEF Lands

=============================================================================
