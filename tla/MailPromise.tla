----------------------------- MODULE MailPromise -----------------------------
(***************************************************************************)
(* What the report mail of Call Insights promises, without workers, leases *)
(* or retries: a queued message reaches the mail provider at most once,    *)
(* and its row ends with a verdict that the provider's side bears out.     *)
(* MailOutbox is shown to implement this module.                           *)
(***************************************************************************)
EXTENDS Naturals

CONSTANT Mail   \* one message: a call and a kind of report

VARIABLES
  verdict,   \* "unqueued", "open", "sent", "failed", "uncertain" or "suppressed"
  accepted   \* how often the provider accepted the message

promise == <<verdict, accepted>>

Verdict == {"unqueued", "open", "sent", "failed", "uncertain", "suppressed"}

Init ==
  /\ verdict = [m \in Mail |-> "unqueued"]
  /\ accepted = [m \in Mail |-> 0]

\* The messages of a report are queued or suppressed together.
Queue(ms, v) ==
  /\ v \in {"open", "suppressed"}
  /\ \A m \in ms : verdict[m] = "unqueued"
  /\ verdict' = [m \in Mail |-> IF m \in ms THEN v ELSE verdict[m]]
  /\ UNCHANGED accepted

\* The provider takes the message, perhaps after its sender was given up.
Accept(m) ==
  /\ verdict[m] \in {"open", "uncertain"}
  /\ accepted[m] = 0
  /\ accepted' = [accepted EXCEPT ![m] = 1]
  /\ UNCHANGED verdict

\* Only what the provider took is "sent", only what it did not is "failed".
Decide(m, v) ==
  /\ verdict[m] = "open"
  /\ \/ v = "sent" /\ accepted[m] = 1
     \/ v = "failed" /\ accepted[m] = 0
  /\ verdict' = [verdict EXCEPT ![m] = v]
  /\ UNCHANGED accepted

\* Nobody can tell any more whether the messages were taken.
GiveUp(ms) ==
  /\ \A m \in ms : verdict[m] = "open"
  /\ verdict' = [m \in Mail |-> IF m \in ms THEN "uncertain" ELSE verdict[m]]
  /\ UNCHANGED accepted

\* Retention closes abandoned messages without asking how far they got.
Scrub(ms) ==
  /\ \A m \in ms : verdict[m] = "open"
  /\ verdict' = [m \in Mail |-> IF m \in ms THEN "failed" ELSE verdict[m]]
  /\ UNCHANGED accepted

Next ==
  \/ \E ms \in SUBSET Mail : \/ \E v \in Verdict : Queue(ms, v)
                             \/ GiveUp(ms) \/ Scrub(ms)
  \/ \E m \in Mail : Accept(m) \/ \E v \in Verdict : Decide(m, v)

Spec == Init /\ [][Next]_promise

=============================================================================
