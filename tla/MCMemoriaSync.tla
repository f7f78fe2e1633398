--------------------------- MODULE MCMemoriaSync ---------------------------
(***************************************************************************)
(* MemoriaSync for TLC: two texts that may be repeated, and a line that    *)
(* says nothing.                                                           *)
(***************************************************************************)
EXTENDS MemoriaSync

CONSTANTS hello, bye, blank

MCText == {hello, bye, blank}
MCBad  == {blank}
=============================================================================
