--------------------------- MODULE MCInsightsJobs ---------------------------
(***************************************************************************)
(* Values for the constants of InsightsJobs.  The call of the first two    *)
(* events ended after the mail cutover, that of the third before it.       *)
(***************************************************************************)
EXTENDS InsightsJobs, TLC

CONSTANTS c1, c2, e1, e2, e3, e4, s1, s2, r1

\* One call reported twice, and a third event to skip: every interleaving of
\* the processes on one job.
OneCall       == {c1}
OneCallEvents == {e1, e2, e4}
OneCallOf     == (e1 :> c1) @@ (e2 :> c1) @@ (e4 :> c1)
Skipped       == {e4}

\* Two calls, so that one job can wait behind another.
TwoCalls       == {c1, c2}
TwoCallsEvents == {e1, e3}
TwoCallsOf     == (e1 :> c1) @@ (e3 :> c2)

LiveCalls == {c1}

\* The operator replays the old call, never the live one.
ReplayOfOther == {e3}

=============================================================================
