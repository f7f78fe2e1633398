------------------------------- MODULE Shutdown -------------------------------
(***************************************************************************)
(* How a service of TeleNexus goes down: the signal handlers of main.ts    *)
(* and runner.ts, the child processes that core/process-runner.ts keeps    *)
(* count of, and the requests that the web server waits for.               *)
(*                                                                         *)
(* A child leads a process group in which a helper (a browser) may live    *)
(* on; one that holds the child's pipes delays its close event.            *)
(***************************************************************************)
EXTENDS Naturals

CONSTANTS
  Req,      (* pieces of work that call the CLI *)
  Held,     (* those the server waits for: requests without a stream *)
  MaxRuns   (* bound: runs of the CLI for one of them *)

VARIABLES
  service,  (* main or runner *)
  proc,     (* up, closing, exited, or killed by the signal's default action *)
  req,      (* none, open, done *)
  leader,   (* of a child: unborn, alive, ended *)
  helper,   (* in its group: none, free, holding the pipes *)
  live,     (* liveChildren *)
  timers    (* the children whose group is to be sent SIGKILL *)

svars == <<service, proc, req, leader, helper, live, timers>>

Child == [req : Req, run : 1 .. MaxRuns]

Init ==
  /\ service \in {"main", "runner"}
  /\ proc = "up"
  /\ req = [r \in Req |-> "none"]
  /\ leader = [c \in Child |-> "unborn"]
  /\ helper = [c \in Child |-> "none"]
  /\ live = {} /\ timers = {}

Runs == proc \in {"up", "closing"}

(* SIGKILL to the groups of these children. *)
Kill(children) ==
  /\ leader' = [c \in Child |-> IF c \in children THEN "ended" ELSE leader[c]]
  /\ helper' = [c \in Child |-> IF c \in children THEN "none" ELSE helper[c]]

----------------------------------------------------------------------------
(* Work, and the processes it runs *)

Arrives(r) ==
  /\ proc = "up" /\ req[r] = "none"
  /\ req' = [req EXCEPT ![r] = "open"]
  /\ UNCHANGED <<service, proc, leader, helper, live, timers>>

(* A run that has ended, or was given up: runProcess does not wait for it. *)
Over(c) == leader[c] # "unborn" /\ (c \notin live \/ c \in timers)

(* Work that is in the queue goes on when the service is closing. *)
Spawn(c) ==
  /\ Runs /\ req[c.req] = "open"
  /\ leader[c] = "unborn"
  /\ \A n \in 1 .. c.run - 1 : Over([c EXCEPT !.run = n])
  /\ leader' = [leader EXCEPT ![c] = "alive"]
  /\ live' = live \cup {c}
  /\ UNCHANGED <<service, proc, req, helper, timers>>

HelperComes(c) ==
  /\ leader[c] = "alive" /\ helper[c] = "none"
  /\ \E h \in {"free", "holding"} : helper' = [helper EXCEPT ![c] = h]
  /\ UNCHANGED <<service, proc, req, leader, live, timers>>

LeaderEnds(c) ==
  /\ leader[c] = "alive"
  /\ leader' = [leader EXCEPT ![c] = "ended"]
  /\ UNCHANGED <<service, proc, req, helper, live, timers>>

HelperEnds(c) ==
  /\ helper[c] # "none"
  /\ helper' = [helper EXCEPT ![c] = "none"]
  /\ UNCHANGED <<service, proc, req, leader, live, timers>>

(* trackChildProcess, on close *)
Forgets(c) ==
  /\ Runs /\ c \in live
  /\ leader[c] = "ended" /\ helper[c] # "holding"
  /\ live' = live \ {c}
  /\ UNCHANGED <<service, proc, req, leader, helper, timers>>

(* The time limit of the run, or an abort: terminateProcessTree. *)
GivesUp(c) ==
  /\ Runs /\ c \in live \ timers
  /\ timers' = timers \cup {c}
  /\ UNCHANGED <<service, proc, req, leader, helper, live>>

(* The escalation, whether the child has exited or not. *)
Escalates(c) ==
  /\ Runs /\ c \in timers
  /\ timers' = timers \ {c}
  /\ Kill({c})
  /\ UNCHANGED <<service, proc, req, live>>

Answered(r) ==
  /\ Runs /\ req[r] = "open"
  /\ \A c \in Child : c.req = r /\ leader[c] # "unborn" => Over(c)
  /\ req' = [req EXCEPT ![r] = "done"]
  /\ UNCHANGED <<service, proc, leader, helper, live, timers>>

----------------------------------------------------------------------------
(* Going down *)

(* The hook on exit: SIGKILL to what is still kept count of. *)
Exit ==
  /\ proc' = "exited"
  /\ Kill(live)
  /\ UNCHANGED <<service, req, live>>

(* terminateAllChildren; streams are ended, the server takes no more.      *)
Signal ==
  /\ proc = "up"
  /\ proc' = "closing"
  /\ timers' = timers \cup live
  /\ UNCHANGED <<service, req, leader, helper, live>>

ServerCloses ==
  /\ proc = "closing"
  /\ \A r \in Held : req[r] # "open"
  /\ Exit /\ UNCHANGED timers

(* The runner goes after three seconds in any case. *)
LimitPasses ==
  /\ service = "runner" /\ proc = "closing"
  /\ Exit /\ UNCHANGED timers

(* The handler once more: a server that is closed already calls back. *)
SignalAgain ==
  /\ proc = "closing"
  /\ Exit
  /\ timers' = timers \cup live

(* The runner's handlers are for one time: the same signal kills it. *)
SignalKills ==
  /\ service = "runner" /\ proc = "closing"
  /\ proc' = "killed"
  /\ UNCHANGED <<service, req, leader, helper, live, timers>>

----------------------------------------------------------------------------
Next ==
  \/ \E r \in Req : Arrives(r) \/ Answered(r)
  \/ \E c \in Child :
       \/ Spawn(c) \/ HelperComes(c) \/ LeaderEnds(c) \/ HelperEnds(c)
       \/ Forgets(c) \/ GivesUp(c) \/ Escalates(c)
  \/ Signal \/ ServerCloses \/ LimitPasses \/ SignalAgain \/ SignalKills

SSpec == Init /\ [][Next]_svars

----------------------------------------------------------------------------
Alive(c) == leader[c] = "alive" \/ helper[c] # "none"

(* A service that has gone down through its handlers, on the first signal  *)
(* or a second one, leaves no child behind, nor a helper that its child    *)
(* had not closed without, also of work that began while it was closing.   *)
NoRunIsLeft ==
  proc = "exited" =>
    \A c \in Child : Alive(c) => leader[c] = "ended" /\ helper[c] = "free" /\ c \notin live
=============================================================================
