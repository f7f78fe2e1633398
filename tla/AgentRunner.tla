---------------------------- MODULE AgentRunner ----------------------------
(***************************************************************************)
(* Requests that DynamicAIAgent (src/core/agent.ts, in the main process)   *)
(* sends to the runner (src/runner.ts, a process of its own).              *)
(*                                                                         *)
(* The agent counts failures in a row and, after Threshold of them, leaves *)
(* the runner alone for a while and works locally; it also works locally   *)
(* on a request that has failed.  The runner takes the requests of a lane  *)
(* one after the other.  Between them is a connection that breaks, a time  *)
(* limit on silence, and a user who aborts: each side finds out on its own *)
(* that the other one has gone.                                            *)
(*                                                                         *)
(* Chats and schedules have an agent and a lane each; this is one of them. *)
(* An action is what happens between two awaits of one of the processes.   *)
(* A request that has been settled makes room for another one.  A fault is *)
(* a broken connection or the death of the runner.                         *)
(***************************************************************************)
EXTENDS Faults, Sequences, FiniteSets

CONSTANTS
  Req,         (* requests of one agent at a time *)
  Threshold,   (* runnerFailureThreshold *)
  FallbackToLocal

ASSUME AgentAssumption ==
  Threshold \in Nat \ {0} /\ FallbackToLocal \in BOOLEAN

Kind == {"chat", "stream", "summarize"}

VARIABLES
  (* the agent *)
  cl,        (* where the call is *)
  kind,      (* chat and summarize go to /run, stream to /run/stream *)
  failures,  (* consecutiveRunnerFailures *)
  open,      (* runnerOpenUntil is in the future *)
  streak,    (* history: failures since the last success, up to Threshold *)
  (* the connection *)
  link,      (* "up"; "broken": the agent does not know; "lost": it does; *)
             (* "dead": it never will; "over": the exchange has ended      *)
  heads,     (* the response has begun *)
  (* the runner *)
  srv,       (* where the handler is *)
  lane,      (* laneQueues: who runs, and who waits behind *)
  ctl,       (* the handler's AbortController has aborted *)
  child,     (* its child process: "stopped" when it has been sent SIGTERM   *)
  resp       (* the response it has sent *)

agentVars  == <<cl, kind>>
circuit    == <<failures, open, streak>>
linkVars   == <<link, heads>>
runnerVars == <<srv, lane, ctl, child, resp>>
avars      == <<agentVars, circuit, linkVars, runnerVars, faults>>

AInit ==
  /\ cl = [r \in Req |-> "idle"] /\ kind = [r \in Req |-> "chat"]
  /\ failures = 0 /\ open = FALSE /\ streak = 0
  /\ link = [r \in Req |-> "none"] /\ heads = [r \in Req |-> FALSE]
  /\ srv = [r \in Req |-> "none"] /\ lane = <<>>
  /\ ctl = [r \in Req |-> FALSE] /\ child = [r \in Req |-> "none"]
  /\ resp = [r \in Req |-> "none"]
  /\ faults = 0

----------------------------------------------------------------------------
(* The agent: streamChat and executeTask, up to and after their await *)

MarkRunnerFailure ==
  /\ failures' = IF failures + 1 >= Threshold THEN 0 ELSE failures + 1
  /\ open' = (open \/ failures + 1 >= Threshold)
  /\ streak' = IF streak < Threshold THEN streak + 1 ELSE streak

(* Variant: the failures are not forgotten. *)
FailuresKept == failures

FailuresAfterSuccess == 0

MarkRunnerSuccess ==
  failures' = FailuresAfterSuccess /\ open' = FALSE /\ streak' = 0

Fallback == IF FallbackToLocal THEN "local" ELSE "failed"

(* To the runner, unless it is to be left alone. *)
WhereTo == IF open THEN Fallback ELSE "waiting"

(* Nothing is left of the request before, on either side. *)
Settled(r) ==
  /\ cl[r] \notin {"waiting", "local"}
  /\ srv[r] \in {"none", "over"} /\ child[r] \in {"none", "dead"}

(* A new call, up to the request to the runner.  (One whose signal has     *)
(* aborted already returns at once.)                                       *)
Send(r) ==
  /\ Settled(r)
  /\ \E k \in Kind : kind' = [kind EXCEPT ![r] = k]
  /\ cl' = [cl EXCEPT ![r] = WhereTo]
  /\ link' = [link EXCEPT ![r] = IF open THEN "none" ELSE "up"]
  /\ heads' = [heads EXCEPT ![r] = FALSE] /\ srv' = [srv EXCEPT ![r] = "none"]
  /\ ctl' = [ctl EXCEPT ![r] = FALSE] /\ child' = [child EXCEPT ![r] = "none"]
  /\ resp' = [resp EXCEPT ![r] = "none"]
  /\ UNCHANGED <<circuit, lane, faults>>

(* An answer that does not serve: the failure is counted, and the work is  *)
(* done here.                                                              *)
Failed(r) ==
  /\ cl' = [cl EXCEPT ![r] = Fallback]
  /\ MarkRunnerFailure

(* The runner says ok when the call has returned, whatever came out of it. *)
NotOk(r) == resp[r] = "fail"

(* "end" of the response.  A stream without a result in it is a failure.   *)
HasCome(r) == link[r] = "up" /\ resp[r] # "none"

(* The whole response has come.  A call of the CLI that has failed is an   *)
(* answer too, and for the circuit a success.                              *)
Reply(r) ==
  /\ cl[r] = "waiting" /\ HasCome(r)
  /\ link' = [link EXCEPT ![r] = "over"]
  /\ \/ NotOk(r) /\ Failed(r)
     \/ /\ ~ NotOk(r)
        /\ cl' = [cl EXCEPT ![r] = "answered"] /\ MarkRunnerSuccess
  /\ UNCHANGED <<kind, heads, runnerVars, faults>>

(* req.setTimeout: the connection has been silent for runnerTimeoutMs. *)
TimeOut(r) ==
  /\ cl[r] = "waiting" /\ link[r] = "up"
  /\ link' = [link EXCEPT ![r] = "lost"]
  /\ Failed(r)
  /\ UNCHANGED <<kind, heads, runnerVars, faults>>

(* Variant: nobody listens for errors of the request. *)
AtAnyTime(r) == TRUE

CutShort(r) == heads[r]

(* The agent is told of a broken connection: "error" on the request.  But  *)
(* when it is closed without a reset after the response has begun, there   *)
(* is neither "error" nor "end" (nobody listens for "aborted"), and the    *)
(* time limit has gone with the socket.                                    *)
LossSeen(r) ==
  /\ cl[r] = "waiting" /\ link[r] = "broken"
  /\ \/ link' = [link EXCEPT ![r] = "lost"] /\ Failed(r)
     \/ /\ CutShort(r)
        /\ link' = [link EXCEPT ![r] = "dead"]
        /\ UNCHANGED <<cl, circuit>>
  /\ UNCHANGED <<kind, heads, runnerVars, faults>>

(* The signal closes a request that is still open, and a cancelled request *)
(* is no failure.  Nobody gives summarize a signal.                        *)
UserAborts(r) ==
  /\ cl[r] = "waiting" /\ link[r] \in {"up", "broken"} /\ kind[r] # "summarize"
  /\ cl' = [cl EXCEPT ![r] = "cancelled"]
  /\ link' = [link EXCEPT ![r] = "lost"]
  /\ UNCHANGED <<kind, circuit, heads, runnerVars, faults>>

(* Local work ends, of itself or of an abort: CliStream has the details. *)
LocalEnds(r) ==
  /\ cl[r] = "local" /\ cl' = [cl EXCEPT ![r] = "answered"]
  /\ UNCHANGED <<kind, circuit, linkVars, runnerVars, faults>>

(* runnerOpenUntil passes. *)
CooldownEnds ==
  /\ open /\ open' = FALSE
  /\ UNCHANGED <<agentVars, failures, streak, linkVars, runnerVars, faults>>

----------------------------------------------------------------------------
(* The runner *)

(* A request is here; it has a controller, which a closed response aborts. *)
AtTheDoor(r) == srv[r] = "none" /\ link[r] = "up"

(* The request has been read; withLane queues it. *)
Arrive(r) ==
  /\ AtTheDoor(r)
  /\ srv' = [srv EXCEPT ![r] = "queued"] /\ lane' = Append(lane, r)
  /\ UNCHANGED <<agentVars, circuit, linkVars, ctl, child, resp, faults>>

(* Variant: the lane is not waited for. *)
AnyTurn(r) == srv[r] = "queued"

(* prev of withLane is resolved. *)
MyTurn(r) == srv[r] = "queued" /\ Head(lane) = r

(* Variant: who waits after r waits for ever. *)
LaneKept(r) == lane

(* settle() of withLane, in its finally *)
LaneWithout(r) ==
  LET i == CHOOSE n \in DOMAIN lane : lane[n] = r
  IN  SubSeq(lane, 1, i - 1) \o SubSeq(lane, i + 1, Len(lane))

(* Whatever it is, a response that nobody has closed begins with it.       *)
BeginsToCome(r) == heads[r] \/ link[r] = "up"

(* The call in the lane is over and the handler writes the answer a.       *)
CallEnds(r, a) ==
  /\ srv' = [srv EXCEPT ![r] = "over"]
  /\ lane' = LaneWithout(r)
  /\ resp' = [resp EXCEPT ![r] = a]
  /\ heads' = [heads EXCEPT ![r] = BeginsToCome(r)]

(* What comes of a call, which is for its caller to tell apart: an answer, *)
(* also one without text ("ok"), a failure of the CLI that is returned as  *)
(* one ("bad"), or one that is thrown ("fail").                            *)

(* Exit code 0; there may be an error of the upstream in the output.       *)
ExitedWell == {"ok", "bad"}

(* Another one: the session is missing, the upstream refused, or else. *)
ExitedBadly == {"bad", "fail"}

(* The time limit, or a rate limit on stderr. *)
CutOff == {"bad"}

(* summarize catches everything. *)
Summarized == {"ok"}

(* controller.signal.throwIfAborted(): after an abort nobody is answered. *)
Answer(r, outcomes) ==
  IF ctl[r] THEN {"none"} ELSE IF kind[r] = "summarize" THEN Summarized ELSE outcomes

(* Variant: the abort is not looked at before the work starts. *)
NobodyAsks(r) == FALSE

(* signal?.throwIfAborted() *)
Unwanted(r) == ctl[r]

(* executeChatProcess, or the like for a stream and a summary *)
StartCli(r) ==
  /\ srv' = [srv EXCEPT ![r] = "running"]
  /\ child' = [child EXCEPT ![r] = "alive"]
  /\ UNCHANGED <<lane, ctl, resp, heads>>

Begin(r) ==
  /\ MyTurn(r)
  /\ \/ /\ Unwanted(r) /\ UNCHANGED <<ctl, child>> /\ CallEnds(r, "none")
     \/ ~ Unwanted(r) /\ StartCli(r)
  /\ UNCHANGED <<agentVars, circuit, link, faults>>

(* /run/stream: the first event is written, and the head with it. *)
FirstEvent(r) ==
  /\ kind[r] = "stream" /\ srv[r] = "running" /\ link[r] = "up" /\ ~ heads[r]
  /\ heads' = [heads EXCEPT ![r] = TRUE]
  /\ UNCHANGED <<agentVars, circuit, link, runnerVars, faults>>

(* The child ends by itself; unless its call is over already, its result   *)
(* is the answer.                                                          *)
ChildExits(r) ==
  /\ child[r] = "alive"
  /\ child' = [child EXCEPT ![r] = "dead"]
  /\ \E a \in Answer(r, ExitedWell \cup ExitedBadly) : CallEnds(r, a)
  /\ UNCHANGED <<agentVars, circuit, link, ctl, faults>>

(* SIGKILL, at the latest.  A stream has waited for the child to close,    *)
(* and takes the answer of one that had exited well before it was stopped. *)
StoppedChildDies(r) ==
  /\ child[r] = "stopped"
  /\ child' = [child EXCEPT ![r] = "dead"]
  /\ IF srv[r] = "running"
       THEN \E a \in Answer(r, ExitedWell) : CallEnds(r, a)
       ELSE UNCHANGED <<srv, lane, resp, heads>>
  /\ UNCHANGED <<agentVars, circuit, link, ctl, faults>>

(* terminateProcessTree; runProcess, behind /run, does not wait for the    *)
(* child to go.                                                            *)
StopChild(r, answers) ==
  /\ child' = [child EXCEPT ![r] = "stopped"]
  /\ IF kind[r] = "stream"
       THEN UNCHANGED <<srv, lane, resp, heads>>
       ELSE \E a \in answers : CallEnds(r, a)

(* The child's own time limit, or a rate limit. *)
ChildTimesOut(r) ==
  /\ child[r] = "alive" /\ StopChild(r, Answer(r, CutOff))
  /\ UNCHANGED <<agentVars, circuit, link, ctl, faults>>

(* cancelOnDisconnect: the response is closed before its end.  summarize   *)
(* takes no signal.                                                        *)
Disconnect(r) ==
  /\ srv[r] \in {"queued", "running"} /\ link[r] # "up" /\ ~ ctl[r]
  /\ ctl' = [ctl EXCEPT ![r] = TRUE]
  /\ IF child[r] = "alive" /\ kind[r] # "summarize"
       THEN StopChild(r, {"none"})
       ELSE UNCHANGED <<srv, lane, child, resp, heads>>
  /\ UNCHANGED <<agentVars, circuit, link, faults>>

----------------------------------------------------------------------------
(* Faults *)

(* A connection breaks, or is refused. *)
LinkBreaks(r) ==
  /\ Fault
  /\ link[r] = "up"
  /\ link' = [link EXCEPT ![r] = "broken"]
  /\ UNCHANGED <<agentVars, circuit, heads, runnerVars>>

(* The runner dies, and its container with all children; it is started     *)
(* again.                                                                  *)
RunnerDies ==
  /\ Fault
  /\ \E r \in Req : srv[r] \in {"queued", "running"}
  /\ link' = [r \in Req |-> IF link[r] = "up" THEN "broken" ELSE link[r]]
  /\ srv' = [r \in Req |-> IF srv[r] = "none" THEN "none" ELSE "over"]
  /\ child' = [r \in Req |-> IF child[r] = "none" THEN "none" ELSE "dead"]
  /\ lane' = <<>>
  /\ UNCHANGED <<agentVars, circuit, heads, ctl, resp>>

----------------------------------------------------------------------------

AgentStep(r) ==
  \/ Send(r) \/ Reply(r) \/ TimeOut(r) \/ LossSeen(r) \/ UserAborts(r)
  \/ LocalEnds(r)

RunnerStep(r) ==
  \/ Arrive(r) \/ Begin(r) \/ FirstEvent(r) \/ ChildExits(r)
  \/ StoppedChildDies(r) \/ ChildTimesOut(r) \/ Disconnect(r)

ANext ==
  \/ \E r \in Req : AgentStep(r) \/ RunnerStep(r) \/ LinkBreaks(r)
  \/ CooldownEnds \/ RunnerDies

(* Timers fire, SIGKILL is obeyed, either side notices a closed socket,    *)
(* and the lane's promises are followed.  Nothing is assumed of users, of  *)
(* faults, or of a child's ending by itself.                               *)
AFairness == \A r \in Req :
  /\ WF_avars(Reply(r)) /\ WF_avars(TimeOut(r)) /\ WF_avars(LossSeen(r))
  /\ WF_avars(LocalEnds(r)) /\ WF_avars(Begin(r)) /\ WF_avars(Disconnect(r))
  /\ WF_avars(ChildTimesOut(r)) /\ WF_avars(StoppedChildDies(r))

ASpec == AInit /\ [][ANext]_avars /\ AFairness

----------------------------------------------------------------------------
(* Properties *)

AgentTypeOK ==
  /\ open \in BOOLEAN
  /\ kind \in [Req -> Kind]
  /\ cl \in
       [Req -> {"idle", "waiting", "local", "answered", "cancelled", "failed"}]
  /\ {heads, ctl} \subseteq [Req -> BOOLEAN]
  /\ failures < Threshold /\ streak =< Threshold
  /\ link \in [Req -> {"none", "up", "broken", "lost", "dead", "over"}]
  /\ srv \in [Req -> {"none", "queued", "running", "over"}]
  /\ Len(lane) = Cardinality({r \in Req : srv[r] \in {"queued", "running"}})
  /\ child \in [Req -> {"none", "alive", "stopped", "dead"}]
  /\ resp \in [Req -> {"none", "ok", "bad", "fail"}]

(* isRunnerCircuitOpen: it is open only after Threshold failures in a row; *)
(* no success, of whatever request, has come between or after them.        *)
OpensOnStreak == AgentTypeOK /\ (open => streak = Threshold)

(* activeLaneCounts, which the retention asks whether the lanes are idle:  *)
(* at most one child of the lane is at work, and none while it is idle,    *)
(* except for those that have been told to stop.                           *)
OneChildAtWork ==
  LET atWork == {r \in Req : child[r] = "alive"} IN
  /\ Cardinality(atWork) =< 1
  /\ (\A r \in Req : srv[r] # "running") => atWork = {}

(* executeTask: a chat whose client has gone, as far as the runner knows,  *)
(* is neither begun nor gone on with.                                      *)
NoWorkForTheGone ==
  \A r \in Req : ctl[r] /\ kind[r] # "summarize" => child[r] # "alive"

(* withLane: every request in the lane gets its turn, whoever has gone,    *)
(* timed out or refused to die before it.                                  *)
LaneMoves == \A r \in Req : srv[r] = "queued" ~> srv[r] # "queued"

(* callRunner, callRunnerStream: whatever happens to the runner or the     *)
(* connection, the request comes back to its caller, except when it is cut *)
(* in the middle of a response.                                            *)
CallsEnd ==
  \A r \in Req : cl[r] = "waiting" ~>
    \/ cl[r] # "waiting"
    \/ link[r] = "dead" /\ heads[r]
=============================================================================
