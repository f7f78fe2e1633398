----------------------------- MODULE WorkerProofs -----------------------------
(*****************************************************************************)
(* Proofs about the workers that are stopped in the middle of what they do:  *)
(* the runner with its lane and its circuit (AgentRunner), and the worker    *)
(* of the vector index (VectorIndex).                                        *)
(*****************************************************************************)
EXTENDS AgentRunner, VectorIndex, FiniteSetTheorems, TLAPS

----------------------------------------------------------------------------
(*****************************************************************************)
(* AgentRunner, for any set of requests and any Threshold.  The circuit      *)
(* counts what it has seen, the lane holds the requests whose handler is     *)
(* not over, and a child that nobody has stopped is the one the first of     *)
(* them waits for.                                                           *)
(*****************************************************************************)

(* The circuit counts what it has seen: the failures since they were last  *)
(* put back are among those of the streak.                                 *)
CountInv ==
  /\ failures \in Nat /\ streak \in Nat
  /\ failures < Threshold /\ failures <= streak /\ streak <= Threshold

CircuitInv == CountInv /\ open \in BOOLEAN /\ (open => streak = Threshold)

(* A request is in the lane, once, while its handler is between withLane   *)
(* and settle(), and who runs is the first.                                *)
InLane(r) == srv[r] \in {"queued", "running"}

LaneInv ==
  /\ lane \in Seq(Req)
  /\ \A n \in 1 .. Len(lane) : InLane(lane[n])
  /\ \A r \in Req : InLane(r) => \E n \in 1 .. Len(lane) : lane[n] = r
  /\ \A m, n \in 1 .. Len(lane) : lane[m] = lane[n] => m = n
  /\ \A r \in Req : srv[r] = "running" => Len(lane) > 0 /\ lane[1] = r

(* A child that nobody has stopped is the one its handler waits for, and   *)
(* belongs to a client that is still there, or to a summary.               *)
ChildInv ==
  \A r \in Req : child[r] = "alive" =>
    srv[r] = "running" /\ (ctl[r] => kind[r] = "summarize")

SideTypeOK ==
  /\ kind \in [Req -> Kind]
  /\ cl \in
       [Req -> {"idle", "waiting", "local", "answered", "cancelled", "failed"}]
  /\ heads \in [Req -> BOOLEAN] /\ ctl \in [Req -> BOOLEAN]
  /\ link \in [Req -> {"none", "up", "broken", "lost", "dead", "over"}]
  /\ srv \in [Req -> {"none", "queued", "running", "over"}]
  /\ child \in [Req -> {"none", "alive", "stopped", "dead"}]
  /\ resp \in [Req -> {"none", "ok", "bad", "fail"}]

RunnerInv == SideTypeOK /\ CircuitInv /\ LaneInv /\ ChildInv

----------------------------------------------------------------------------
(* The lane *)

(* A request that leaves the lane, from whatever place in it: the others   *)
(* stay in their order.                                                    *)
LEMMA LaneWithoutOne ==
  ASSUME LaneInv, NEW r \in Req, InLane(r)
  PROVE  \E i \in 1 .. Len(lane) :
           /\ lane[i] = r
           /\ LaneWithout(r) \in Seq(Req)
           /\ Len(LaneWithout(r)) = Len(lane) - 1
           /\ \A n \in 1 .. Len(lane) - 1 :
                LaneWithout(r)[n] = IF n < i THEN lane[n] ELSE lane[n + 1]
<1> DEFINE i == CHOOSE n \in DOMAIN lane : lane[n] = r
           a == SubSeq(lane, 1, i - 1)
           b == SubSeq(lane, i + 1, Len(lane))
<1>0. lane \in Seq(Req)
  BY DEF LaneInv
<1>1. i \in 1 .. Len(lane) /\ lane[i] = r
  BY DEF LaneInv
<1>2. LaneWithout(r) = a \o b
  BY DEF LaneWithout
<1> HIDE DEF i
<1>3. a \in Seq(Req) /\ Len(a) = i - 1 /\ \A n \in 1 .. i - 1 : a[n] = lane[n]
  BY <1>0, <1>1
<1>4. b \in Seq(Req) /\ Len(b) = Len(lane) - i /\ \A n \in 1 .. Len(lane) - i : b[n] = lane[i + n]
  BY <1>0, <1>1
<1> HIDE DEF a, b
<1>5. /\ a \o b \in Seq(Req) /\ Len(a \o b) = Len(a) + Len(b)
      /\ \A n \in 1 .. Len(a) : (a \o b)[n] = a[n]
      /\ \A n \in Len(a) + 1 .. Len(a) + Len(b) : (a \o b)[n] = b[n - Len(a)]
  BY <1>3, <1>4
<1>6. \A n \in i .. Len(lane) - 1 : (a \o b)[n] = lane[n + 1]
  <2> TAKE n \in i .. Len(lane) - 1
  <2>1. /\ n \in Len(a) + 1 .. Len(a) + Len(b)
        /\ n - Len(a) \in 1 .. Len(lane) - i /\ i + (n - Len(a)) = n + 1
    BY <1>0, <1>1, <1>3, <1>4
  <2> QED
    BY <1>4, <1>5, <2>1
<1>7. \A n \in 1 .. i - 1 : (a \o b)[n] = lane[n]
  BY <1>3, <1>5
<1>8. Len(a \o b) = Len(lane) - 1
  BY <1>0, <1>1, <1>3, <1>4, <1>5
<1> QED
  BY <1>0, <1>1, <1>2, <1>5, <1>6, <1>7, <1>8

(* So the lane is in order when the handler of r is over. *)
LEMMA LeavingTheLane ==
  ASSUME LaneInv, SideTypeOK, NEW r \in Req, InLane(r), lane[1] = r,
         lane' = LaneWithout(r), srv' = [srv EXCEPT ![r] = "over"]
  PROVE  LaneInv'
<1>1. PICK i \in 1 .. Len(lane) :
        /\ lane[i] = r
        /\ lane' \in Seq(Req)
        /\ Len(lane') = Len(lane) - 1
        /\ \A n \in 1 .. Len(lane) - 1 :
             lane'[n] = IF n < i THEN lane[n] ELSE lane[n + 1]
  BY LaneWithoutOne
<1>2. i = 1 /\ lane \in Seq(Req)
  BY <1>1 DEF LaneInv
<1>3. \A n \in 1 .. Len(lane') : lane'[n] = lane[n + 1] /\ lane[n + 1] \in Req /\ lane[n + 1] # r
  BY <1>1, <1>2 DEF LaneInv
<1>4. \A s \in Req : srv'[s] = IF s = r THEN "over" ELSE srv[s]
  BY DEF SideTypeOK
<1>5. \A n \in 1 .. Len(lane') : srv'[lane'[n]] \in {"queued", "running"}
  BY <1>1, <1>3, <1>4 DEF LaneInv, InLane
<1>6. ASSUME NEW s \in Req, InLane(s)'
      PROVE  \E n \in 1 .. Len(lane') : lane'[n] = s
  <2>1. s # r /\ InLane(s)
    BY <1>4, <1>6 DEF InLane
  <2>2. PICK n \in 1 .. Len(lane) : lane[n] = s
    BY <2>1 DEF LaneInv
  <2>3. n - 1 \in 1 .. Len(lane') /\ (n - 1) + 1 = n
    BY <1>1, <1>2, <2>1, <2>2
  <2> QED
    BY <1>3, <2>2, <2>3
<1>7. ASSUME NEW m \in 1 .. Len(lane'), NEW n \in 1 .. Len(lane'), lane'[m] = lane'[n]
      PROVE  m = n
  BY <1>1, <1>2, <1>3, <1>7 DEF LaneInv
<1>8. ASSUME NEW s \in Req, srv'[s] = "running"
      PROVE  FALSE
  BY <1>4, <1>8 DEF LaneInv
<1> QED
  BY <1>1, <1>3, <1>5, <1>6, <1>7, <1>8 DEF LaneInv, InLane

(* A request that comes goes behind the others. *)
LEMMA EnteringTheLane ==
  ASSUME LaneInv, SideTypeOK, NEW r \in Req, ~ InLane(r),
         lane' = Append(lane, r), srv' = [srv EXCEPT ![r] = "queued"]
  PROVE  LaneInv'
<1>1. /\ lane \in Seq(Req) /\ lane' \in Seq(Req) /\ Len(lane') = Len(lane) + 1
      /\ \A n \in 1 .. Len(lane) : lane'[n] = lane[n] /\ lane[n] \in Req /\ lane[n] # r
      /\ lane'[Len(lane) + 1] = r
  BY DEF LaneInv
<1>2. \A s \in Req : srv'[s] = IF s = r THEN "queued" ELSE srv[s]
  BY DEF SideTypeOK
<1>3. \A n \in 1 .. Len(lane') : srv'[lane'[n]] \in {"queued", "running"}
  <2> TAKE n \in 1 .. Len(lane')
  <2>1. CASE n = Len(lane) + 1
    BY <1>1, <1>2, <2>1 DEF InLane
  <2>2. CASE n \in 1 .. Len(lane)
    BY <1>1, <1>2, <2>2 DEF LaneInv, InLane
  <2> QED
    BY <1>1, <2>1, <2>2
<1>4. ASSUME NEW s \in Req, InLane(s)'
      PROVE  \E n \in 1 .. Len(lane') : lane'[n] = s
  <2>1. CASE s = r
    BY <1>1, <2>1
  <2>2. CASE s # r
    <3>1. InLane(s)
      BY <1>2, <1>4, <2>2 DEF InLane
    <3> QED
      BY <1>1, <3>1 DEF LaneInv
  <2> QED
    BY <2>1, <2>2
<1>5. ASSUME NEW m \in 1 .. Len(lane'), NEW n \in 1 .. Len(lane'), lane'[m] = lane'[n]
      PROVE  m = n
  BY <1>1, <1>5 DEF LaneInv
<1>6. ASSUME NEW s \in Req, srv'[s] = "running"
      PROVE  Len(lane') > 0 /\ lane'[1] = s
  BY <1>1, <1>2, <1>6 DEF LaneInv
<1> QED
  BY <1>1, <1>3, <1>4, <1>5, <1>6 DEF LaneInv, InLane

----------------------------------------------------------------------------
(* The steps *)

LEMMA AgentInitInv == AInit => RunnerInv
<1> SUFFICES ASSUME AInit PROVE RunnerInv
  OBVIOUS
<1>1. SideTypeOK /\ LaneInv /\ ChildInv
  BY DEF AInit, SideTypeOK, LaneInv, ChildInv, InLane, Kind
<1>2. CountInv
  BY AgentAssumption DEF AInit, CountInv
<1>3. open = FALSE
  BY DEF AInit
<1> QED
  BY <1>1, <1>2, <1>3 DEF RunnerInv, CircuitInv

(* A failure or a success keeps the circuit in order. *)
LEMMA CircuitMarked ==
  ASSUME CircuitInv, MarkRunnerFailure \/ MarkRunnerSuccess
  PROVE  CircuitInv'
<1>1. CASE MarkRunnerFailure
  <2>1. CountInv'
    BY <1>1, AgentAssumption DEF CircuitInv, CountInv, MarkRunnerFailure
  <2>2. failures + 1 >= Threshold => streak' = Threshold
    BY <1>1, AgentAssumption DEF CircuitInv, CountInv, MarkRunnerFailure
  <2>3. streak = Threshold => streak' = Threshold
    BY <1>1, AgentAssumption DEF MarkRunnerFailure
  <2>4. open' = (open \/ failures + 1 >= Threshold) /\ (open => streak = Threshold)
    BY <1>1 DEF CircuitInv, MarkRunnerFailure
  <2> HIDE DEF CountInv
  <2>5. open' \in BOOLEAN /\ (open' => streak' = Threshold)
    BY <2>2, <2>3, <2>4, Zenon
  <2> QED
    BY <2>1, <2>5 DEF CircuitInv
<1>2. CASE MarkRunnerSuccess
  <2>1. CountInv'
    BY <1>2, AgentAssumption DEF CountInv, MarkRunnerSuccess, FailuresAfterSuccess
  <2>2. open' = FALSE
    BY <1>2 DEF MarkRunnerSuccess
  <2> QED
    BY <2>1, <2>2 DEF CircuitInv
<1> QED
  BY <1>1, <1>2

LEMMA AgentStepInv ==
  ASSUME RunnerInv, NEW r \in Req, AgentStep(r)
  PROVE  RunnerInv'
<1> USE DEF RunnerInv
<1>f. Fallback \in {"local", "failed"} /\ WhereTo \in {"local", "failed", "waiting"}
  BY DEF Fallback, WhereTo
<1>1. CASE Send(r)
  <2>1. SideTypeOK' /\ CircuitInv'
    BY <1>1, <1>f DEF Send, SideTypeOK, CircuitInv, CountInv, circuit
  <2>2. \A s \in Req : InLane(s)' = InLane(s) /\ (srv'[s] = "running" <=> srv[s] = "running")
    BY <1>1 DEF Send, Settled, InLane, SideTypeOK
  <2>3. LaneInv'
    BY <1>1, <2>2 DEF LaneInv, Send
  <2>4. ChildInv'
    BY <1>1 DEF ChildInv, Send, Settled, SideTypeOK
  <2> QED
    BY <2>1, <2>3, <2>4
<1>2. ASSUME cl' \in [Req -> {"idle", "waiting", "local", "answered", "cancelled", "failed"}],
             link' \in [Req -> {"none", "up", "broken", "lost", "dead", "over"}],
             UNCHANGED <<kind, heads, runnerVars, faults>>, CircuitInv'
      PROVE  RunnerInv'
  BY <1>2 DEF SideTypeOK, LaneInv, ChildInv, InLane, runnerVars
<1>c. UNCHANGED circuit => CircuitInv'
  BY DEF circuit, CircuitInv, CountInv
<1>3. CASE Reply(r)
  BY <1>2, <1>3, <1>f, CircuitMarked DEF Reply, Failed, SideTypeOK
<1>4. CASE TimeOut(r)
  BY <1>2, <1>4, <1>f, CircuitMarked DEF TimeOut, Failed, SideTypeOK
<1>5. CASE LossSeen(r)
  BY <1>2, <1>5, <1>c, <1>f, CircuitMarked DEF LossSeen, Failed, SideTypeOK
<1>6. CASE UserAborts(r)
  BY <1>2, <1>6, <1>c DEF UserAborts, SideTypeOK
<1>7. CASE LocalEnds(r)
  BY <1>2, <1>7, <1>c DEF LocalEnds, SideTypeOK, linkVars
<1> QED
  BY <1>1, <1>3, <1>4, <1>5, <1>6, <1>7 DEF AgentStep

(* The handler of r is over. *)
LEMMA CallEndsInv ==
  ASSUME RunnerInv, NEW r \in Req, InLane(r), lane[1] = r,
         NEW a \in {"none", "ok", "bad", "fail"}, CallEnds(r, a),
         child' \in [Req -> {"none", "alive", "stopped", "dead"}],
         \A s \in Req : child'[s] = "alive" => child[s] = "alive" /\ s # r,
         ctl' \in [Req -> BOOLEAN], \A s \in Req \ {r} : ctl'[s] = ctl[s],
         UNCHANGED <<agentVars, circuit, link>>
  PROVE  RunnerInv'
<1> USE DEF RunnerInv
<1>1. SideTypeOK'
  BY DEF SideTypeOK, CallEnds, BeginsToCome, agentVars
<1>2. CircuitInv'
  BY DEF CircuitInv, CountInv, circuit
<1>3. LaneInv'
  BY LeavingTheLane DEF CallEnds
<1>4. ChildInv'
  BY DEF ChildInv, CallEnds, SideTypeOK, agentVars
<1> QED
  BY <1>1, <1>2, <1>3, <1>4

(* What the handler answers is a kind of response. *)
LEMMA AnswerIsResponse ==
  ASSUME NEW r, NEW S \in SUBSET {"ok", "bad", "fail"}
  PROVE  Answer(r, S) \subseteq {"none", "ok", "bad", "fail"}
BY DEF Answer, Summarized

LEMMA RunnerStepInv ==
  ASSUME RunnerInv, NEW r \in Req, RunnerStep(r)
  PROVE  RunnerInv'
<1> USE DEF RunnerInv
<1>c. UNCHANGED circuit => CircuitInv'
  BY DEF circuit, CircuitInv, CountInv
<1>l. UNCHANGED <<srv, lane>> => LaneInv'
  BY DEF LaneInv, InLane
<1>r. srv[r] = "running" => InLane(r) /\ lane[1] = r
  BY DEF LaneInv, InLane
<1>a. child[r] = "alive" => srv[r] = "running"
  BY DEF ChildInv
<1>1. CASE Arrive(r)
  <2>1. ~ InLane(r)
    BY <1>1 DEF Arrive, AtTheDoor, InLane
  <2>2. SideTypeOK' /\ CircuitInv' /\ ChildInv'
    BY <1>1, <1>c, <1>a DEF Arrive, AtTheDoor, SideTypeOK, ChildInv, agentVars, linkVars
  <2>3. LaneInv'
    BY <1>1, <2>1, EnteringTheLane DEF Arrive
  <2> QED
    BY <2>2, <2>3
<1>2. CASE Begin(r)
  <2>1. InLane(r) /\ lane[1] = r /\ Len(lane) > 0
    BY <1>2 DEF Begin, MyTurn, InLane, LaneInv
  <2>2. CASE Unwanted(r) /\ UNCHANGED <<ctl, child>> /\ CallEnds(r, "none")
    <3>1. \A s \in Req : child'[s] = "alive" => child[s] = "alive" /\ s # r
      BY <1>2, <1>a, <2>2 DEF Begin, MyTurn
    <3>2. /\ child' \in [Req -> {"none", "alive", "stopped", "dead"}]
          /\ ctl' \in [Req -> BOOLEAN] /\ \A s \in Req \ {r} : ctl'[s] = ctl[s]
          /\ UNCHANGED <<agentVars, circuit, link>>
      BY <1>2, <2>2 DEF Begin, SideTypeOK
    <3> QED
      BY <2>1, <2>2, <3>1, <3>2, CallEndsInv
  <2>3. CASE ~ Unwanted(r) /\ StartCli(r)
    <3>1. SideTypeOK' /\ CircuitInv'
      BY <1>2, <1>c, <2>3 DEF Begin, StartCli, SideTypeOK, agentVars
    <3>2. \A s \in Req : srv'[s] = IF s = r THEN "running" ELSE srv[s]
      BY <2>3 DEF StartCli, SideTypeOK
    <3>3. lane' = lane /\ \A s \in Req : InLane(s)' = InLane(s)
      BY <2>1, <2>3, <3>2 DEF StartCli, InLane
    <3>4. LaneInv'
      BY <2>1, <3>2, <3>3 DEF LaneInv
    <3>5. ChildInv'
      BY <1>2, <2>3 DEF ChildInv, Begin, StartCli, Unwanted, SideTypeOK, agentVars
    <3> QED
      BY <3>1, <3>4, <3>5
  <2> QED
    BY <1>2, <2>2, <2>3 DEF Begin
<1>3. CASE FirstEvent(r)
  <2>1. UNCHANGED <<agentVars, circuit, link, runnerVars>> /\ heads' \in [Req -> BOOLEAN]
    BY <1>3 DEF FirstEvent, SideTypeOK
  <2> QED
    BY <1>c, <1>l, <2>1 DEF SideTypeOK, ChildInv, agentVars, runnerVars
<1>4. CASE ChildExits(r)
  <2>1. PICK a \in Answer(r, ExitedWell \cup ExitedBadly) : CallEnds(r, a)
    BY <1>4 DEF ChildExits
  <2>2. a \in {"none", "ok", "bad", "fail"}
    BY AnswerIsResponse, <2>1 DEF ExitedWell, ExitedBadly
  <2>3. /\ child' \in [Req -> {"none", "alive", "stopped", "dead"}]
        /\ \A s \in Req : child'[s] = "alive" => child[s] = "alive" /\ s # r
        /\ ctl' \in [Req -> BOOLEAN] /\ \A s \in Req \ {r} : ctl'[s] = ctl[s]
        /\ UNCHANGED <<agentVars, circuit, link>>
    BY <1>4 DEF ChildExits, SideTypeOK
  <2>4. InLane(r) /\ lane[1] = r
    BY <1>4, <1>a, <1>r DEF ChildExits
  <2> QED
    BY <2>1, <2>2, <2>3, <2>4, CallEndsInv
<1>5. CASE StoppedChildDies(r)
  <2>1. /\ child' \in [Req -> {"none", "alive", "stopped", "dead"}]
        /\ \A s \in Req : child'[s] = "alive" => child[s] = "alive" /\ s # r
        /\ ctl' \in [Req -> BOOLEAN] /\ UNCHANGED ctl
        /\ UNCHANGED <<agentVars, circuit, link>>
    BY <1>5 DEF StoppedChildDies, SideTypeOK
  <2>2. CASE srv[r] = "running"
    <3>1. PICK a \in Answer(r, ExitedWell) : CallEnds(r, a)
      BY <1>5, <2>2 DEF StoppedChildDies
    <3>2. a \in {"none", "ok", "bad", "fail"}
      BY AnswerIsResponse, <3>1 DEF ExitedWell
    <3> QED
      BY <1>r, <2>1, <2>2, <3>1, <3>2, CallEndsInv
  <2>3. CASE srv[r] # "running"
    <3>1. UNCHANGED <<srv, lane, resp, heads>>
      BY <1>5, <2>3 DEF StoppedChildDies
    <3> QED
      BY <1>c, <1>l, <2>1, <3>1 DEF SideTypeOK, ChildInv, agentVars
  <2> QED
    BY <2>2, <2>3
<1>s. ASSUME NEW S \in SUBSET {"none", "ok", "bad", "fail"}, StopChild(r, S),
             child[r] = "alive",
             ctl' \in [Req -> BOOLEAN], \A s \in Req \ {r} : ctl'[s] = ctl[s],
             UNCHANGED <<agentVars, circuit, link>>
      PROVE  RunnerInv'
  <2>1. /\ child' \in [Req -> {"none", "alive", "stopped", "dead"}]
        /\ \A s \in Req : child'[s] = "alive" => child[s] = "alive" /\ s # r
    BY <1>s DEF StopChild, SideTypeOK
  <2>2. CASE kind[r] = "stream"
    <3>1. UNCHANGED <<srv, lane, resp, heads>>
      BY <1>s, <2>2 DEF StopChild
    <3> QED
      BY <1>c, <1>l, <1>s, <2>1, <3>1 DEF SideTypeOK, ChildInv, agentVars
  <2>3. CASE kind[r] # "stream"
    <3>1. PICK a \in S : CallEnds(r, a)
      BY <1>s, <2>3 DEF StopChild
    <3> QED
      BY <1>a, <1>r, <1>s, <2>1, <3>1, CallEndsInv
  <2> QED
    BY <2>2, <2>3
<1>6. CASE ChildTimesOut(r)
  <2>1. Answer(r, CutOff) \subseteq {"none", "ok", "bad", "fail"}
    BY AnswerIsResponse DEF CutOff
  <2>2. /\ child[r] = "alive" /\ StopChild(r, Answer(r, CutOff))
        /\ ctl' \in [Req -> BOOLEAN] /\ UNCHANGED ctl
        /\ UNCHANGED <<agentVars, circuit, link>>
    BY <1>6 DEF ChildTimesOut, SideTypeOK
  <2> QED
    BY <1>s, <2>1, <2>2
<1>7. CASE Disconnect(r)
  <2>1. /\ ctl' \in [Req -> BOOLEAN] /\ \A s \in Req \ {r} : ctl'[s] = ctl[s]
        /\ UNCHANGED <<agentVars, circuit, link>>
    BY <1>7 DEF Disconnect, SideTypeOK
  <2>2. CASE child[r] = "alive" /\ kind[r] # "summarize"
    <3>1. StopChild(r, {"none"})
      BY <1>7, <2>2 DEF Disconnect
    <3> QED
      BY <1>s, <2>1, <2>2, <3>1
  <2>3. CASE ~ (child[r] = "alive" /\ kind[r] # "summarize")
    <3>1. UNCHANGED <<srv, lane, child, resp, heads>>
      BY <1>7, <2>3 DEF Disconnect
    <3> QED
      BY <1>c, <1>l, <2>1, <2>3, <3>1 DEF SideTypeOK, ChildInv, agentVars
  <2> QED
    BY <2>2, <2>3
<1> QED
  BY <1>1, <1>2, <1>3, <1>4, <1>5, <1>6, <1>7 DEF RunnerStep

LEMMA AgentNextInv == RunnerInv /\ [ANext]_avars => RunnerInv'
<1> SUFFICES ASSUME RunnerInv, [ANext]_avars PROVE RunnerInv'
  OBVIOUS
<1>1. ASSUME NEW r \in Req, AgentStep(r) \/ RunnerStep(r)
      PROVE  RunnerInv'
  BY <1>1, AgentStepInv, RunnerStepInv
<1> USE DEF RunnerInv
<1>2. ASSUME NEW r \in Req, LinkBreaks(r)
      PROVE  RunnerInv'
  BY <1>2 DEF LinkBreaks, SideTypeOK, CircuitInv, CountInv, LaneInv, ChildInv, InLane, agentVars,
              circuit, runnerVars
<1>3. CASE CooldownEnds
  <2>1. SideTypeOK' /\ LaneInv' /\ ChildInv'
    BY <1>3 DEF CooldownEnds, SideTypeOK, LaneInv, ChildInv, InLane, agentVars, linkVars,
                runnerVars
  <2>2. CircuitInv'
    BY <1>3 DEF CooldownEnds, CircuitInv, CountInv
  <2> QED
    BY <2>1, <2>2
<1>4. CASE RunnerDies
  <2>1. SideTypeOK' /\ CircuitInv'
    BY <1>4 DEF RunnerDies, SideTypeOK, CircuitInv, CountInv, agentVars, circuit
  <2>2. LaneInv' /\ ChildInv'
    BY <1>4 DEF RunnerDies, LaneInv, ChildInv, InLane
  <2> QED
    BY <2>1, <2>2
<1>5. CASE UNCHANGED avars
  BY <1>5 DEF avars, agentVars, circuit, linkVars, runnerVars, SideTypeOK, CircuitInv, CountInv,
              LaneInv, ChildInv, InLane
<1> QED
  BY <1>1, <1>2, <1>3, <1>4, <1>5 DEF ANext

(* The inductive invariant holds of every reachable state. *)
THEOREM RunnerInvariance == ASpec => []RunnerInv
<1>1. AInit => RunnerInv
  BY AgentInitInv
<1>2. RunnerInv /\ [ANext]_avars => RunnerInv'
  BY AgentNextInv
<1> QED
  BY <1>1, <1>2, PTL DEF ASpec

(* The length of the lane is the number of the handlers in it: what        *)
(* laneQueues counts is what /stats and the retention get.                 *)
LEMMA LaneIsCounted ==
  ASSUME LaneInv
  PROVE  Len(lane) = Cardinality({r \in Req : InLane(r)})
<1> DEFINE S == {r \in Req : InLane(r)}
<1>0. lane \in Seq(Req) /\ Len(lane) \in Nat
  BY DEF LaneInv
<1>1. lane \in Bijection(1 .. Len(lane), S)
  BY <1>0 DEF LaneInv, Bijection, Injection, Surjection, IsInjective
<1>2. ExistsBijection(1 .. Len(lane), S)
  BY <1>1 DEF ExistsBijection
<1> HIDE DEF S
<1>3. Cardinality(S) = Len(lane)
  BY <1>0, <1>2, FS_CountingElements
<1> QED
  BY <1>3 DEF S

(* isRunnerCircuitOpen: for any Threshold and in whatever order requests   *)
(* end, an open circuit has seen as many failures in a row, and nothing    *)
(* else since.                                                             *)
THEOREM CircuitOpensOnStreak == ASpec => []OpensOnStreak
<1>1. RunnerInv => OpensOnStreak
  <2> SUFFICES ASSUME RunnerInv PROVE OpensOnStreak
    OBVIOUS
  <2>1. Len(lane) = Cardinality({r \in Req : srv[r] \in {"queued", "running"}})
    BY LaneIsCounted DEF RunnerInv, InLane
  <2> QED
    BY <2>1 DEF RunnerInv, OpensOnStreak, AgentTypeOK, SideTypeOK, CircuitInv, CountInv
<1> QED
  BY <1>1, RunnerInvariance, PTL

(* withLane: of any number of requests at most one has a child at work,    *)
(* and what activeLaneCounts says of an idle lane is true.                 *)
THEOREM OneChildIsAtWork == ASpec => []OneChildAtWork
<1>1. RunnerInv => OneChildAtWork
  <2> SUFFICES ASSUME RunnerInv PROVE OneChildAtWork
    OBVIOUS
  <2> DEFINE atWork == {r \in Req : child[r] = "alive"}
  <2>1. atWork \subseteq {lane[1]}
    BY DEF RunnerInv, ChildInv, LaneInv
  <2>2. Cardinality(atWork) <= 1
    <3>1. IsFiniteSet({lane[1]}) /\ Cardinality({lane[1]}) = 1
      BY FS_Singleton
    <3> HIDE DEF atWork
    <3> QED
      BY <2>1, <3>1, FS_Subset
  <2>3. (\A r \in Req : srv[r] # "running") => atWork = {}
    BY DEF RunnerInv, ChildInv
  <2> QED
    BY <2>2, <2>3 DEF OneChildAtWork
<1> QED
  BY <1>1, RunnerInvariance, PTL

(* executeTask: in no order of leaving, waiting and starting is a child at *)
(* work for a chat whose client the runner knows to have gone.             *)
THEOREM GoneAreNotWorkedFor == ASpec => []NoWorkForTheGone
<1>1. RunnerInv => NoWorkForTheGone
  BY DEF RunnerInv, ChildInv, NoWorkForTheGone
<1> QED
  BY <1>1, RunnerInvariance, PTL

----------------------------------------------------------------------------
(*****************************************************************************)
(* VectorIndex, for any set of memories, any size of a batch and any number  *)
(* of versions and failures: the type of the variables and the safety        *)
(* properties.                                                               *)
(*****************************************************************************)

(* A round knows whether it rebuilds: the marker is there exactly then, and *)
(* a round that does not rebuild has an index to add to.                    *)
RoundKnowsStore ==
  /\ pc # "idle" => full = marker
  /\ pc # "idle" /\ ~full => exists
  /\ pc \in {"cleaning", "embedding", "committing", "unmarking"} => exists

(* What is not in the payload is no newer than what the round starts from, *)
(* and what is in it is no older than the cursor.                          *)
PayloadIsTheRest ==
  pc \in {"opening", "cleaning", "embedding", "committing"} =>
    \A m \in Memory :
      /\ m \notin changed => payload[m] <= IF full THEN 0 ELSE cursor[m]
      /\ m \in changed /\ ~full => cursor[m] <= payload[m]

(* After the ingest the payload is in the index. *)
PayloadIsIn ==
  /\ pc = "committing" => \A m \in changed \ excl : vec[m] = payload[m]
  /\ pc = "unmarking" => \A m \in Memory \ sched : vec[m] >= cursor[m]

StaleIsOut ==
  pc \in {"embedding", "committing", "unmarking"} => \A m \in excl : vec[m] = 0

IInv ==
  /\ VectorTypeOK
  /\ excl \subseteq sched
  /\ RoundKnowsStore
  /\ PayloadIsTheRest
  /\ PayloadIsIn
  /\ StaleIsOut
  /\ ReadyIsComplete
  /\ TroubleShows

----------------------------------------------------------------------------
LEMMA NothingYet == None \in [Memory -> Versions] /\ 0 \in 0 .. MaxFault
  BY VectorAssumption, FaultAssumption DEF None, Versions

LEMMA InitIInv == Init => IInv
<1> SUFFICES ASSUME Init PROVE IInv
  OBVIOUS
<1>1. VectorTypeOK
  BY NothingYet DEF Init, VectorTypeOK
<1>2. QED
  BY <1>1 DEF Init, IInv, RoundKnowsStore, PayloadIsTheRest, PayloadIsIn, StaleIsOut,
     ReadyIsComplete, Ready, TroubleShows

(* What the payload has, together with what was there, is as new as the    *)
(* payload: the cursor may be saved.                                       *)
LEMMA CommitIsCovered ==
  ASSUME IInv, pc = "committing"
  PROVE  Ready \/ full => \A m \in Memory \ sched : vec[m] >= payload[m]
<1> SUFFICES ASSUME Ready \/ full, NEW m \in Memory \ sched
             PROVE  vec[m] >= payload[m]
  OBVIOUS
<1>1. CASE m \in changed
  BY <1>1 DEF IInv, PayloadIsIn, VectorTypeOK, Versions
<1>2. CASE m \notin changed
  <2>1. payload[m] <= IF full THEN 0 ELSE cursor[m]
    BY <1>2 DEF IInv, PayloadIsTheRest
  <2>2. CASE full
    BY <2>1, <2>2 DEF IInv, VectorTypeOK, Versions
  <2>3. CASE ~full
    BY <2>1, <2>3 DEF IInv, ReadyIsComplete, VectorTypeOK, Versions
  <2>4. QED
    BY <2>2, <2>3
<1>3. QED
  BY <1>1, <1>2

(* What Memoria does to its memories meanwhile does not matter.            *)
LEMMA SourceSteps ==
  ASSUME IInv, NEW m \in Memory, Remember(m) \/ Schedule(m)
  PROVE  IInv'
<1>1. CASE Remember(m)
  BY <1>1, VectorAssumption DEF Remember, IInv, VectorTypeOK, Versions, disk, status, process, round,
     RoundKnowsStore, PayloadIsTheRest, PayloadIsIn, StaleIsOut, ReadyIsComplete, Ready,
     TroubleShows
<1>2. CASE Schedule(m)
  BY <1>2 DEF Schedule, IInv, VectorTypeOK, disk, status, process, round,
     RoundKnowsStore, PayloadIsTheRest, PayloadIsIn, StaleIsOut, ReadyIsComplete, Ready,
     TroubleShows
<1>3. QED
  BY <1>1, <1>2

LEMMA TickStep == ASSUME IInv, Tick PROVE IInv'
  BY DEF Tick, Save, At, StoreMissing, IInv, VectorTypeOK, source, process,
     RoundKnowsStore, PayloadIsTheRest, PayloadIsIn, StaleIsOut, ReadyIsComplete, Ready,
     TroubleShows

LEMMA BuildStep == ASSUME IInv, Build PROVE IInv'
<1> USE DEF IInv, Build, Save, status, At, source, disk, process
<1>1. VectorTypeOK'
  BY DEF VectorTypeOK
<1>2. PayloadIsTheRest'
  BY DEF PayloadIsTheRest, VectorTypeOK, Versions
<1>3. RoundKnowsStore' /\ (excl \subseteq sched)'
  BY DEF RoundKnowsStore
<1>4. PayloadIsIn' /\ StaleIsOut' /\ ReadyIsComplete'
  BY DEF PayloadIsIn, StaleIsOut, ReadyIsComplete, Ready
<1>5. TroubleShows'
  BY DEF TroubleShows
<1>6. QED
  BY <1>1, <1>2, <1>3, <1>4, <1>5

LEMMA OpenStep == ASSUME IInv, OpenStore PROVE IInv'
  BY DEF OpenStore, At, IInv, VectorTypeOK, source, status, process,
     RoundKnowsStore, PayloadIsTheRest, PayloadIsIn, StaleIsOut, ReadyIsComplete, Ready,
     TroubleShows

LEMMA CleanStep == ASSUME IInv, RemoveStale PROVE IInv'
<1> USE DEF IInv, RemoveStale, At, source, status, process, round
<1>1. VectorTypeOK'
  BY VectorAssumption DEF VectorTypeOK, Versions
<1>2. RoundKnowsStore' /\ PayloadIsTheRest' /\ PayloadIsIn' /\ TroubleShows'
      /\ (excl \subseteq sched)'
  BY DEF RoundKnowsStore, PayloadIsTheRest, PayloadIsIn, TroubleShows
<1>3. StaleIsOut'
  BY DEF StaleIsOut, VectorTypeOK
<1>4. ReadyIsComplete'
  BY DEF ReadyIsComplete, Ready, VectorTypeOK
<1>5. QED
  BY <1>1, <1>2, <1>3, <1>4

LEMMA WriteStep == ASSUME IInv, WriteBatch PROVE IInv'
<1> USE DEF IInv, WriteBatch, At, source, status, process, round
<1>1. PICK b \in Batches : vec' = [m \in Memory |-> IF m \in b THEN payload[m] ELSE vec[m]]
  OBVIOUS
<1>2. b \subseteq changed \ excl
  BY DEF Batches, Pending
<1>3. VectorTypeOK'
  BY <1>1 DEF VectorTypeOK
<1>4. RoundKnowsStore' /\ PayloadIsTheRest' /\ PayloadIsIn' /\ TroubleShows'
      /\ (excl \subseteq sched)'
  BY DEF RoundKnowsStore, PayloadIsTheRest, PayloadIsIn, TroubleShows
<1>5. StaleIsOut'
  BY <1>1, <1>2 DEF StaleIsOut, VectorTypeOK
<1>6. ReadyIsComplete'
  <2> SUFFICES ASSUME Ready', NEW m \in Memory \ sched
               PROVE  vec'[m] >= cursor[m]
    BY DEF ReadyIsComplete
  <2>1. Ready /\ ~full
    BY DEF Ready, RoundKnowsStore
  <2>2. CASE m \in b
    BY <1>1, <1>2, <2>1, <2>2 DEF PayloadIsTheRest, VectorTypeOK, Versions
  <2>3. CASE m \notin b
    BY <1>1, <2>1, <2>3 DEF ReadyIsComplete
  <2>4. QED
    BY <2>2, <2>3
<1>7. QED
  BY <1>3, <1>4, <1>5, <1>6

LEMMA DoneStep == ASSUME IInv, IngestDone PROVE IInv'
<1> USE DEF IInv, IngestDone, Save, status, At, source, disk, round
<1>1. VectorTypeOK'
  BY DEF VectorTypeOK
<1>2. RoundKnowsStore' /\ PayloadIsTheRest' /\ StaleIsOut' /\ ReadyIsComplete'
      /\ (excl \subseteq sched)'
  BY DEF RoundKnowsStore, PayloadIsTheRest, StaleIsOut, ReadyIsComplete, Ready
<1>3. PayloadIsIn'
  BY DEF PayloadIsIn, Pending
<1>4. TroubleShows'
  BY DEF TroubleShows
<1>5. QED
  BY <1>1, <1>2, <1>3, <1>4

LEMMA CommitStep == ASSUME IInv, Commit PROVE IInv'
<1> USE DEF IInv, Commit, At, source, status, process, round
<1>1. Ready \/ full
  BY DEF RoundKnowsStore, Ready
<1>2. \A m \in Memory \ sched : vec[m] >= payload[m]
  BY <1>1, CommitIsCovered
<1>3. VectorTypeOK'
  BY DEF VectorTypeOK
<1>4. RoundKnowsStore' /\ PayloadIsTheRest' /\ StaleIsOut' /\ TroubleShows'
      /\ (excl \subseteq sched)'
  BY DEF RoundKnowsStore, PayloadIsTheRest, StaleIsOut, TroubleShows
<1>5. PayloadIsIn' /\ ReadyIsComplete'
  BY <1>2 DEF PayloadIsIn, ReadyIsComplete
<1>6. QED
  BY <1>3, <1>4, <1>5

LEMMA UnmarkStep == ASSUME IInv, Unmark PROVE IInv'
<1> USE DEF IInv, Unmark, Save, status, At, source, process, round
<1>1. VectorTypeOK'
  BY DEF VectorTypeOK
<1>2. ReadyIsComplete'
  BY DEF ReadyIsComplete, PayloadIsIn
<1>3. TroubleShows'
  BY DEF TroubleShows, Ready, RoundKnowsStore
<1>4. RoundKnowsStore' /\ PayloadIsTheRest' /\ PayloadIsIn' /\ StaleIsOut'
      /\ (excl \subseteq sched)'
  BY DEF RoundKnowsStore, PayloadIsTheRest, PayloadIsIn, StaleIsOut
<1>5. QED
  BY <1>1, <1>2, <1>3, <1>4

LEMMA FailStep == ASSUME IInv, Fail PROVE IInv'
<1> USE DEF IInv, Fail, SaveError, Save, source, round
<1>1. VectorTypeOK'
  <2>1. faults' \in 0 .. MaxFault
    BY FaultAssumption DEF Fault, VectorTypeOK
  <2>2. cursor' \in [Memory -> Versions] /\ {marker', maintained'} \subseteq BOOLEAN
    BY DEF VectorTypeOK
  <2>3. QED
    BY <2>1, <2>2 DEF VectorTypeOK
<1>2. ReadyIsComplete'
  <2> SUFFICES ASSUME exists, ~marker' PROVE \A m \in Memory \ sched : vec[m] >= cursor'[m]
    BY DEF ReadyIsComplete, Ready
  <2>1. CASE marker' # marker
    BY <2>1 DEF PayloadIsIn
  <2>2. CASE marker' = marker /\ cursor' = cursor
    BY <2>2 DEF ReadyIsComplete, Ready
  <2>3. CASE marker' = marker /\ pc = "committing" /\ cursor' = payload
    BY <2>3, CommitIsCovered DEF Ready
  <2>4. QED
    BY <2>1, <2>2, <2>3
<1>3. RoundKnowsStore' /\ PayloadIsTheRest' /\ PayloadIsIn' /\ StaleIsOut'
      /\ TroubleShows' /\ (excl \subseteq sched)'
  BY DEF RoundKnowsStore, PayloadIsTheRest, PayloadIsIn, StaleIsOut, TroubleShows
<1>4. QED
  BY <1>1, <1>2, <1>3

(* A child that hangs may have saved the cursor, no more. *)
LEMMA HangStep == ASSUME IInv, ChildHangs PROVE IInv'
<1> USE DEF IInv, ChildHangs, source, status, process, round
<1>1. VectorTypeOK'
  <2>1. faults' \in 0 .. MaxFault
    BY FaultAssumption DEF Fault, VectorTypeOK
  <2>2. QED
    BY <2>1 DEF VectorTypeOK
<1>2. ReadyIsComplete'
  <2>1. CASE cursor' = cursor
    BY <2>1 DEF ReadyIsComplete, Ready
  <2>2. CASE pc = "committing" /\ cursor' = payload
    BY <2>2, CommitIsCovered DEF ReadyIsComplete, Ready
  <2>3. QED
    BY <2>1, <2>2
<1>3. RoundKnowsStore' /\ PayloadIsTheRest' /\ PayloadIsIn' /\ StaleIsOut'
      /\ TroubleShows' /\ (excl \subseteq sched)'
  BY DEF RoundKnowsStore, PayloadIsTheRest, PayloadIsIn, StaleIsOut, TroubleShows
<1>4. QED
  BY <1>1, <1>2, <1>3

(* A round that fails before its marker is there changes nothing but what  *)
(* is said of it.                                                          *)
LEMMA TickFailsStep == ASSUME IInv, TickFails PROVE IInv'
<1> USE DEF IInv, TickFails, At, SaveError, Save, source, disk, process, round
<1>1. VectorTypeOK'
  <2>1. faults' \in 0 .. MaxFault
    BY FaultAssumption DEF Fault, VectorTypeOK
  <2>2. QED
    BY <2>1 DEF VectorTypeOK
<1>2. RoundKnowsStore' /\ PayloadIsTheRest' /\ PayloadIsIn' /\ StaleIsOut'
      /\ (excl \subseteq sched)' /\ ReadyIsComplete'
  BY DEF RoundKnowsStore, PayloadIsTheRest, PayloadIsIn, StaleIsOut, ReadyIsComplete, Ready
<1>3. TroubleShows'
  BY DEF TroubleShows
<1>4. QED
  BY <1>1, <1>2, <1>3

(* Stop, Exit, Crash, Restart: the files stay as they are. *)
LEMMA ProcessSteps ==
  ASSUME IInv, Stop \/ Exit \/ Crash \/ Restart
  PROVE  IInv'
<1> USE VectorAssumption DEF IInv, VectorTypeOK, source, disk, status, round, RoundKnowsStore,
        PayloadIsTheRest, PayloadIsIn, StaleIsOut, ReadyIsComplete, Ready, TroubleShows
<1>1. CASE Stop
  BY <1>1, FaultAssumption DEF Stop, Fault
<1>2. CASE Exit
  BY <1>2 DEF Exit, Down
<1>3. CASE Crash
  <2>1. faults' \in 0 .. MaxFault
    BY <1>3, FaultAssumption DEF Crash, Fault
  <2>2. QED
    BY <1>3, <2>1 DEF Crash, Down
<1>4. CASE Restart
  BY <1>4 DEF Restart
<1>5. QED
  BY <1>1, <1>2, <1>3, <1>4

LEMMA LoseStep == ASSUME IInv, LoseIndex PROVE IInv'
<1> USE DEF IInv, LoseIndex, source, status, process, round
<1>1. VectorTypeOK'
  <2>1. faults' \in 0 .. MaxFault
    BY VectorAssumption, FaultAssumption DEF Fault, VectorTypeOK
  <2>2. QED
    BY <2>1, NothingYet DEF VectorTypeOK
<1>2. QED
  BY <1>1 DEF RoundKnowsStore, PayloadIsTheRest, PayloadIsIn, StaleIsOut, ReadyIsComplete,
     Ready, TroubleShows

LEMMA StutterStep == ASSUME IInv, UNCHANGED vvars PROVE IInv'
  BY DEF vvars, source, disk, status, process, round, IInv, VectorTypeOK,
     RoundKnowsStore, PayloadIsTheRest, PayloadIsIn, StaleIsOut, ReadyIsComplete, Ready,
     TroubleShows

----------------------------------------------------------------------------
(* The inductive invariant holds in every reachable state. *)
THEOREM VectorInvariance == VSpec => []IInv
<1>1. Init => IInv
  BY InitIInv
<1>2. IInv /\ [Next]_vvars => IInv'
  BY SourceSteps, TickStep, BuildStep, OpenStep, CleanStep, WriteStep, DoneStep,
     CommitStep, UnmarkStep, FailStep, HangStep, TickFailsStep, ProcessSteps, LoseStep, StutterStep DEF Next, Round
<1>3. QED
  BY <1>1, <1>2, PTL DEF VSpec

(* Every variable of the worker, its files and its database keeps its type. *)
THEOREM VectorTypeCorrect == VSpec => []VectorTypeOK
<1>1. IInv => VectorTypeOK
  BY DEF IInv
<1>2. QED
  BY <1>1, VectorInvariance, PTL

(* An index that may be asked has every chat memory the cursor stands for, *)
(* across failures, crashes, stops and losses of the file.                 *)
THEOREM ReadyIndexIsComplete == VSpec => []ReadyIsComplete
<1>1. IInv => ReadyIsComplete
  BY DEF IInv
<1>2. QED
  BY <1>1, VectorInvariance, PTL

(* What an ingest was to leave out is not in the index once it is through. *)
THEOREM ScheduleStaysOut == VSpec => []ScheduleIsLeftOut
<1>1. IInv => ScheduleIsLeftOut
  BY DEF IInv, StaleIsOut, ScheduleIsLeftOut
<1>2. QED
  BY <1>1, VectorInvariance, PTL

(* createVectorWorker.tick: between two rounds, an index that cannot be    *)
(* asked has an error in the status file, unless there was nothing to      *)
(* index, or save('error') in its catch failed as well.                    *)
THEOREM TroubleIsShown == VSpec => []TroubleShows
<1>1. IInv => TroubleShows
  BY DEF IInv
<1>2. QED
  BY <1>1, VectorInvariance, PTL
=============================================================================
