----------------------------- MODULE CliStream -----------------------------
(***************************************************************************)
(* One streamed run of the opencode command line                           *)
(* (src/core/cli-agent-base.ts, runStreamChat; the killing of its process  *)
(* group is terminateProcessTree in src/core/process-runner.ts).           *)
(*                                                                         *)
(* The child writes lines and ends; its time limit, /abort and a rate      *)
(* limit seen on stderr stop it.  Lines are handled one after the other in *)
(* a promise chain that waits for the caller's callback, which is slow (it *)
(* edits a chat message), may throw, or may never return.  Whatever comes  *)
(* first has to settle the run, once, with a result that fits.             *)
(*                                                                         *)
(* An action is what happens between two awaits of this process, or a step *)
(* of the child.  A line is what its parse leaves of it: "text", "tool"    *)
(* (a status for the chat), "error" (the upstream refused).                *)
(***************************************************************************)
EXTENDS Naturals, Sequences, FiniteSets

CONSTANT MaxLine   (* bound: lines the child writes *)

ASSUME MaxLineAssumption == MaxLine \in Nat

Line == {"text", "tool", "error"}

VARIABLES
  (* the child *)
  leader,      (* the CLI process is alive *)
  helper,      (* a process of its group is alive and holds the pipes *)
  out,         (* the lines it has written *)
  exit,        (* how the CLI ended: "ok", "fail", or a signal *)
  notFound,    (* stderr says that the session does not exist *)
  sent,        (* what the group has been sent *)
  (* the chain of lines *)
  chained,     (* how many lines the data handler has put in the chain *)
  begun,       (* parsedLineCount *)
  at,          (* the callback the chain waits for *)
  text,        (* aggregatedText: how many lines of text are in it *)
  upstream,    (* upstreamError *)
  started,     (* the start event has been sent *)
  (* the flags *)
  resumed,     (* the run continues a session *)
  timer,       (* the time limit is running *)
  timedOut, rateLimited, aborted,
  released,    (* drainReleased *)
  settled,
  (* the end *)
  pc,          (* where the close handler is; "open" before the event *)
  verdict,     (* the result it has decided on *)
  result,      (* what the caller was given, "none" before *)
  late         (* history: text was sent to the callback after the last event *)

childVars == <<leader, helper, out, exit, notFound, sent>>
lineVars  == <<chained, begun, at, text, upstream, started, late>>
flagVars  == <<timer, timedOut, rateLimited, aborted, released>>
endVars   == <<settled, pc, verdict, result>>
lvars     == <<childVars, lineVars, flagVars, endVars, resumed>>

LInit ==
  /\ leader = TRUE /\ helper = FALSE /\ out = <<>> /\ exit = "none"
  /\ notFound = FALSE /\ sent = "none"
  /\ chained = 0 /\ begun = 0 /\ at = "none" /\ text = 0
  /\ upstream = FALSE /\ started = FALSE /\ late = FALSE
  /\ resumed \in BOOLEAN
  /\ timer = TRUE /\ timedOut = FALSE /\ rateLimited = FALSE /\ aborted = FALSE
  /\ released = FALSE /\ settled = FALSE
  /\ pc = "open" /\ verdict = "none" /\ result = "none"

----------------------------------------------------------------------------
(* The child *)

Writes ==
  /\ leader /\ Len(out) < MaxLine
  /\ \E l \in Line : out' = Append(out, l)
  /\ UNCHANGED <<leader, helper, exit, notFound, sent, lineVars, flagVars, endVars, resumed>>

(* A tool or a browser of its group: comes and goes, and may stay behind.  *)
HelperComesOrGoes ==
  /\ helper \/ leader
  /\ helper' = ~ helper
  /\ UNCHANGED <<leader, out, exit, notFound, sent, lineVars, flagVars, endVars, resumed>>

(* By itself, killed from outside, or on SIGTERM, which it may also answer *)
(* with an exit of its own.                                                *)
LeaderExits ==
  /\ leader
  /\ leader' = FALSE
  /\ exit' \in {"ok", "fail", "SIGKILL"} \cup (IF sent = "none" THEN {} ELSE {"SIGTERM"})
  /\ notFound' \in IF exit' = "fail" THEN BOOLEAN ELSE {FALSE}
  /\ UNCHANGED <<helper, out, sent, lineVars, flagVars, endVars, resumed>>

(* terminateProcessTree, five seconds later: SIGKILL to the group, whether *)
(* the CLI itself still lives or only what it has left behind.             *)
Escalate ==
  /\ sent = "SIGTERM"
  /\ sent' = "SIGKILL"
  /\ leader' = FALSE /\ helper' = FALSE
  /\ exit' = IF leader THEN "SIGKILL" ELSE exit
  /\ UNCHANGED <<out, notFound, lineVars, flagVars, endVars, resumed>>

(* terminateProcessTree: SIGTERM to the group. *)
Terminate == sent' = IF sent = "none" THEN "SIGTERM" ELSE sent

----------------------------------------------------------------------------
(* The chain of lines *)

(* stdout "data": complete lines are appended to the chain. *)
Data ==
  /\ pc = "open" /\ chained < Len(out)
  /\ chained' \in chained + 1 .. Len(out)
  /\ UNCHANGED <<childVars, begun, at, text, upstream, started, late, flagVars, endVars, resumed>>

(* The last event has been handed to the callback. *)
Ended == pc \in {"last", "end"}

SendText ==
  /\ text' = text + 1
  /\ late' = (late \/ Ended)

(* The next line: an error is noted, a text or a status goes to the        *)
(* callback, after the start event if that has not been sent.              *)
LineBegins ==
  /\ at = "none" /\ begun < chained
  /\ begun' = begun + 1
  /\ \/ /\ out[begun + 1] = "error"
        /\ upstream' = TRUE
        /\ UNCHANGED <<at, text, started, late>>
     \/ /\ out[begun + 1] # "error" /\ ~ started
        /\ started' = TRUE /\ at' = "start"
        /\ UNCHANGED <<text, upstream, late>>
     \/ /\ out[begun + 1] # "error" /\ started
        /\ at' = "event"
        /\ IF out[begun + 1] = "text" THEN SendText ELSE UNCHANGED <<text, late>>
        /\ UNCHANGED <<upstream, started>>
  /\ UNCHANGED <<childVars, chained, flagVars, endVars, resumed>>

(* The callback returns. *)
CallbackReturns ==
  /\ \/ /\ at = "start" /\ at' = "event"
        /\ IF out[begun] = "text" THEN SendText ELSE UNCHANGED <<text, late>>
     \/ /\ at = "event" /\ at' = "none"
        /\ UNCHANGED <<text, late>>
  /\ UNCHANGED <<childVars, chained, begun, upstream, started, flagVars, endVars, resumed>>

(* clearTimeout(timer) *)
TimerOff == FALSE

(* It throws: the lines that came in the same batch are dropped, and the   *)
(* run fails unless it is settled.  The child is not told.                 *)
CallbackThrows ==
  /\ at # "none" /\ at' = "none"
  /\ begun' \in begun .. chained
  /\ settled' = TRUE
  /\ IF settled THEN UNCHANGED <<timer, result>>
                ELSE timer' = TimerOff /\ result' = "callback-error"
  /\ UNCHANGED <<childVars, chained, text, upstream, started, late,
                 timedOut, rateLimited, aborted, released, pc, verdict, resumed>>

(* A status is sent after a long silence, and nobody waits for it. *)
Heartbeat ==
  /\ pc = "open" /\ ~ settled /\ ~ rateLimited
  /\ ~ started /\ started' = TRUE
  /\ UNCHANGED <<childVars, chained, begun, at, text, upstream, late, flagVars, endVars, resumed>>

----------------------------------------------------------------------------
(* What stops a run *)

Closed == pc # "open"

(* `closed`: from then on the process id may be somebody else's. *)
MayBeReused == Closed

(* Variant: who waits for the chain goes on waiting. *)
KeepWaiting == released

(* releaseDrain() *)
Release == TRUE

(* stopChild *)
StopChild ==
  /\ \/ ~ MayBeReused /\ Terminate
     \/ MayBeReused /\ UNCHANGED sent
  /\ released' = Release

(* The time limit. *)
TimeOut ==
  /\ timer /\ timer' = FALSE
  /\ timedOut' = TRUE
  /\ StopChild
  /\ UNCHANGED <<leader, helper, out, exit, notFound, lineVars, rateLimited, aborted, endVars,
                 resumed>>

(* The abort signal; nobody aborts a run that has been answered, and the   *)
(* listener goes when the run is settled.                                  *)
Abort ==
  /\ ~ settled /\ ~ aborted
  /\ aborted' = TRUE
  /\ StopChild
  /\ UNCHANGED <<leader, helper, out, exit, notFound, lineVars, timer, timedOut, rateLimited,
                 endVars, resumed>>

(* stderr "data" matches the pattern of a rate limit. *)
RateLimit ==
  /\ pc = "open"
  /\ ~ rateLimited /\ rateLimited' = TRUE
  /\ timer' = FALSE
  /\ Terminate
  /\ UNCHANGED <<leader, helper, out, exit, notFound, lineVars, timedOut, aborted, released,
                 endVars, resumed>>

(* The process could not be started at all: "error". *)
SpawnFails ==
  /\ ~ settled /\ out = <<>> /\ leader /\ ~ helper /\ sent = "none"
  /\ leader' = FALSE
  /\ settled' = TRUE /\ timer' = FALSE /\ result' = "spawn-error" /\ pc' = "end"
  /\ UNCHANGED <<helper, out, exit, notFound, sent, lineVars, timedOut, rateLimited, aborted,
                 released, verdict, resumed>>

----------------------------------------------------------------------------
(* The close handler *)

(* Variant: the complaint on stderr is enough. *)
NotFoundPrinted == resumed /\ notFound

(* parsedLineCount === 0 as well *)
SessionMissing == resumed /\ begun = 0 /\ notFound

(* The result, from the text t and the error u there are in the end: the   *)
(* first of these that applies.                                            *)
Verdict(v, t, u) ==
  \/ aborted /\ v = "aborted"
  \/ ~ aborted /\ u /\ v = "upstream-error"
  \/ /\ ~ aborted /\ ~ u /\ exit # "ok"
     /\ \/ rateLimited /\ v = "rate-limit"
        \/ ~ rateLimited /\ (timedOut \/ exit = "SIGTERM") /\ v = "timeout"
        \/ /\ ~ rateLimited /\ ~ timedOut /\ exit # "SIGTERM"
           /\ \/ t > 0 /\ v = "answer"
              \/ t = 0 /\ SessionMissing /\ v = "session-missing"
              \/ t = 0 /\ ~ SessionMissing /\ v = "process-error"
  \/ /\ ~ aborted /\ ~ u /\ exit = "ok"
     /\ \/ timedOut /\ v = "timeout"
        \/ ~ timedOut /\ t = 0 /\ begun = 0 /\ v = "empty"
        \/ ~ timedOut /\ t = 0 /\ begun > 0 /\ v = "follow-up"
        \/ ~ timedOut /\ t > 0 /\ v = "answer"

(* The last line when it came without a line end, and so is in stdoutBuffer*)
(* only.                                                                   *)
Trailing(l) == chained < Len(out) /\ out[Len(out)] = l

(* settled = true, then the buffer, then the verdict.  Two of them end the *)
(* run with no event; one asks the CLI again; the others send the last     *)
(* event, after the start event if need be, but for a time-out.            *)
Settle ==
  /\ settled' = TRUE /\ timer' = TimerOff
  /\ text' = IF Trailing("text") THEN text + 1 ELSE text
  /\ upstream' = (upstream \/ Trailing("error"))
  /\ \E v \in {"aborted", "upstream-error", "rate-limit", "timeout", "answer",
               "session-missing", "process-error", "empty", "follow-up"} :
       /\ Verdict(v, text', upstream')
       /\ verdict' = v
       /\ \/ /\ v \in {"session-missing", "process-error"}
             /\ result' = v /\ pc' = "end"
          \/ v = "follow-up" /\ pc' = "follow" /\ UNCHANGED result
          \/ /\ v \notin {"session-missing", "process-error", "follow-up"}
             /\ pc' = "last" /\ UNCHANGED result
       /\ started' = (started \/ (pc' = "last" /\ v # "timeout"))

(* Variant: close never waits for the chain. *)
NoNeedToWait == TRUE

(* The result is taken for a fixed message, whatever lines are left. *)
DecidesAtOnce == aborted \/ timedOut \/ rateLimited

(* Variant: the "exit" event, with processes of the group still there. *)
CliGone == ~ leader

(* The "close" event: nobody holds the pipes any more. *)
GroupGone == ~ leader /\ ~ helper

(* "close": the group is gone and its output has been read. *)
Close ==
  /\ pc = "open" /\ GroupGone
  /\ chained + 1 >= Len(out)
  /\ \/ settled /\ pc' = "end"
        /\ UNCHANGED <<settled, timer, text, upstream, started, verdict, result>>
     \/ ~ settled /\ DecidesAtOnce /\ Settle
     \/ ~ settled /\ ~ DecidesAtOnce /\ pc' = "wait"
        /\ UNCHANGED <<settled, timer, text, upstream, started, verdict, result>>
  /\ UNCHANGED <<childVars, chained, begun, at, late,
                 timedOut, rateLimited, aborted, released, resumed>>

(* Variant: the callback of the last line may still be at work. *)
NoLineLeft == begun = chained

(* lineProcessing is resolved. *)
ChainIsThrough == at = "none" /\ begun = chained

(* Promise.race([lineProcessing, drainReleased]) *)
WaitEnds ==
  /\ pc = "wait"
  /\ ChainIsThrough \/ released
  /\ \/ settled /\ pc' = "end"
        /\ UNCHANGED <<settled, timer, text, upstream, started, verdict, result>>
     \/ ~ settled /\ Settle
  /\ UNCHANGED <<childVars, chained, begun, at, late,
                 timedOut, rateLimited, aborted, released, resumed>>

(* chatStructured asks for a summary of what the tools did: a run of its   *)
(* own, with its own time limit; it may fail.                              *)
FollowUpEnds ==
  /\ pc = "follow"
  /\ \/ pc' = "last" /\ started' = TRUE /\ UNCHANGED result
     \/ pc' = "end" /\ result' = "process-error" /\ UNCHANGED started
  /\ UNCHANGED <<childVars, chained, begun, at, text, upstream, late, flagVars, settled, verdict,
                 resumed>>

(* The callback has taken the last event, or thrown. *)
LastEventTaken ==
  /\ pc = "last" /\ pc' = "end"
  /\ result' \in {verdict, "callback-error"}
  /\ UNCHANGED <<childVars, lineVars, flagVars, settled, verdict, resumed>>

LNext ==
  \/ Writes \/ HelperComesOrGoes \/ LeaderExits \/ Escalate
  \/ Data \/ LineBegins \/ CallbackReturns \/ CallbackThrows \/ Heartbeat
  \/ TimeOut \/ Abort \/ RateLimit \/ SpawnFails
  \/ Close \/ WaitEnds \/ FollowUpEnds \/ LastEventTaken

(* Timers fire, SIGKILL is obeyed, the output of a process that is gone is *)
(* read, and the callback comes back from the last event.  Nothing is      *)
(* assumed of the child or of the callback for a line.                     *)
LFairness ==
  /\ WF_lvars(TimeOut) /\ WF_lvars(Escalate) /\ WF_lvars(Data)
  /\ WF_lvars(Close) /\ WF_lvars(WaitEnds)
  /\ WF_lvars(FollowUpEnds) /\ WF_lvars(LastEventTaken)

LSpec == LInit /\ [][LNext]_lvars /\ LFairness

----------------------------------------------------------------------------
(* Properties *)

Stopped  == aborted \/ timedOut \/ rateLimited
Count(l) == Cardinality({i \in 1 .. Len(out) : out[i] = l})

(* A run that nobody stopped tells all the child said, however slow the    *)
(* callback is: an answer has every line of text, and an error of the      *)
(* upstream is never taken for an answer, an empty output or a crash.      *)
ResultTellsAll ==
  verdict # "none" /\ ~ Stopped =>
    /\ verdict = "answer" => text = Count("text")
    /\ Count("error") > 0 => verdict = "upstream-error"

(* No text reaches the callback after the last event, except from a run    *)
(* that was stopped, or that the callback has made to fail.                *)
NothingAfterTheEnd == late => Stopped \/ result = "callback-error"

(* Only a run that has not come to any line is reported as one of a session*)
(* that does not exist, on which the pipeline runs the whole turn again: it*)
(* must not do twice what tools have done.                                 *)
MissingDidNothing == verdict = "session-missing" => chained = 0

(* No run is answered while its child is alive, unless a callback threw.   *)
NoChildLeft == result \notin {"none", "callback-error"} => ~ leader /\ ~ helper

(* The time limit and the abort do not signal a process that has closed:   *)
(* its number may belong to another one by then.                           *)
NoSignalAfterClose == [][sent' = "SIGTERM" /\ sent = "none" => pc = "open"]_lvars

(* Every run is answered, even with a child that ignores SIGTERM, one that *)
(* leaves a process behind, or a callback that never returns from a line.  *)
RunIsAnswered == <>(result # "none")
=============================================================================
