---------------------------- MODULE MCMailOutbox ----------------------------
(***************************************************************************)
(* Values for the constants of MailOutbox.                                 *)
(***************************************************************************)
EXTENDS MailOutbox, TLC

CONSTANTS c1, w1, w2

\* The servers accepted in shadow mode first and went live later.
ShadowThenLive == {"shadow", "live"}
LiveOnly       == {"live"}

TwoWorkers == {w1, w2}
\* The mail service is installed disabled (README.md:209).
NoWorker   == {}

=============================================================================
