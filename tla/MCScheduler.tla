---------------------------- MODULE MCScheduler ----------------------------
(***************************************************************************)
(* Scheduler for TLC: the one user of the bot, a schedule whose contents   *)
(* may be replaced, and a cron expression that does not parse.             *)
(***************************************************************************)
EXTENDS Scheduler

CONSTANTS alice, daily, weekly, broken

MCUser    == {alice}
MCContent == {daily, weekly, broken}
MCBad     == {broken}
=============================================================================
