--------------------------- MODULE MCCallSession ---------------------------
(***************************************************************************)
(* Small calls for TLC: the close event, which the session's main task     *)
(* waits for, and the shutdown callback, which it does not.                *)
(***************************************************************************)
EXTENDS CallSession

CONSTANTS close, shutdown

MCCloser   == {close, shutdown}
MCGathered == {close}

=============================================================================
