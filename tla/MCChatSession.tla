--------------------------- MODULE MCChatSession ---------------------------
(***************************************************************************)
(* ChatSession for TLC: one user (users share nothing but the state file), *)
(* three messages: one that opens a session, one with /new, one that may   *)
(* fall back.  Message 2 is long, so that its summary queues before it.    *)
(***************************************************************************)
EXTENDS ChatSession

CONSTANT alice

MCUser == {alice}
MCLong == {2}
=============================================================================
