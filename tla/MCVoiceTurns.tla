---------------------------- MODULE MCVoiceTurns ----------------------------
(***************************************************************************)
(* VoiceTurns for TLC: the constants are numbers, given in the .cfg files. *)
(***************************************************************************)
EXTENDS VoiceTurns

=============================================================================
