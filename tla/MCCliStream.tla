---------------------------- MODULE MCCliStream ----------------------------
(***************************************************************************)
(* CliStream for TLC: one run with up to three lines of any kind, which is *)
(* one that is handled, one whose callback is pending and one behind it.   *)
(* MCMemoryIntent has the assumptions on the marker in what is streamed.   *)
(***************************************************************************)
EXTENDS CliStream, MCMemoryIntent
=============================================================================
