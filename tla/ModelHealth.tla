----------------------------- MODULE ModelHealth -----------------------------
(***************************************************************************)
(* The periodic check of the model (src/services/model-health-check.ts) as *)
(* the main process starts it (main.ts): a probe, unless a real success in *)
(* the window shows that the model is alive, a decision on the state in a  *)
(* file, and an alert to the administrator.                                *)
(*                                                                         *)
(* A failure is a kind of trouble of the model; what opencode says of it   *)
(* is reduced to what interpretProbeOutput looks at.  Time is in ticks:    *)
(* a check, a probe's time limit and an alert are not overslept.  A fault  *)
(* is a restart, a write or an alert that gets lost.                       *)
(***************************************************************************)
EXTENDS Integers, Faults

CONSTANTS
  Interval,   (* MODEL_HEALTH_CHECK_INTERVAL_MS *)
  Window,     (* exemptionWindowMs: the interval, by default *)
  Timeout,    (* MODEL_HEALTH_CHECK_TIMEOUT_MS *)
  Remind,     (* MODEL_HEALTH_REMIND_MS *)
  MaxTime,    (* bound: the clock *)
  MaxTurn     (* bound: changes of the model *)

(* As by default, a probe ends before the next one begins. *)
ASSUME HealthAssumption ==
  /\ {Interval, Window, Timeout, Remind} \subseteq Nat \ {0}
  /\ Timeout < Interval
  /\ {MaxTime, MaxTurn} \subseteq Nat

VARIABLES
  now,
  model,        (* how the model is *)
  turned,       (* since when it is well, throttled or down *)
  turns,
  started,      (* when the process was started *)
  due,          (* when the interval's next check runs *)
  lastSuccess,  (* lastOpencodeSuccessAt; Never at first *)
  probing,      (* the time `at' of the check whose probe runs, or Never *)
  disk,         (* the state in the file *)
  alert,        (* the alert that is being sent, or none *)
  knows,        (* what the last alert that arrived said *)
  said,         (* the last alert of the failure that goes on: its signature and time *)
  lostWrite     (* the last state did not get into the file *)

world  == <<model, turned, turns>>
timing == <<now, started, due>>
hvars  == <<world, timing, lastSuccess, probing, disk, alert, knows, faults, said, lostWrite>>

Never == -1

----------------------------------------------------------------------------
(* What opencode leaves behind *)

(* The exit code, the line of an exhausted quota, the hits of the rate     *)
(* limit pattern (two stand for more), the pattern of an invalid model,    *)
(* and the error event: none, one without status code, or its status.      *)
Output(code, quota, hits, invalid, event) ==
  [code |-> code, quota |-> quota, hits |-> hits, invalid |-> invalid, event |-> event]

Code == {0, 1}

(* opencode 1.15 exits with 0 also after an upstream error, 1.18 with 1;   *)
(* a quota line ends the run before it exits, and a silent model has no    *)
(* output.                                                                 *)
Says(kind) ==
  CASE kind = "well"      -> {Output(0, FALSE, h, FALSE, "none") : h \in 0 .. 1}
    [] kind = "throttled" -> {Output(c, FALSE, 2, FALSE, e) : c \in Code, e \in {"none", "429"}}
    [] kind = "gone"      -> {Output(c, FALSE, 0, TRUE, e) : c \in Code, e \in {"none", "410"}}
    [] kind = "outdated"  -> {Output(c, FALSE, 0, FALSE, "426") : c \in Code}
    [] kind = "odd"       -> {Output(c, FALSE, 0, FALSE, "plain") : c \in Code}
    [] kind = "quota"     -> {Output(1, TRUE, h, FALSE, "none") : h \in 1 .. 2}
    [] OTHER              -> {}

Kind == {"well", "throttled", "gone", "outdated", "odd", "quota", "silent"}

(* Down: no request is served.  A throttled model serves some. *)
Class(kind) == IF kind \in {"well", "throttled"} THEN kind ELSE "down"

Good == [ok |-> TRUE, category |-> "none", status |-> FALSE]
Bad(category, status) == [ok |-> FALSE, category |-> category, status |-> status]

(* classifyUpstreamStatus *)
StatusClass(event) ==
  CASE event = "429" -> "rate-limited"
    [] event = "410" -> "model-invalid"
    [] event = "426" -> "client-outdated"
    [] OTHER         -> "upstream-error"

(* classifyFailure *)
FailureClass(o) ==
  CASE o.quota    -> "quota-exhausted"
    [] o.hits > 0 -> "rate-limited"
    [] OTHER      -> IF o.invalid THEN "model-invalid" ELSE "unknown"

(* interpretProbeOutput: what the upstream said counts before the code.    *)
Interpret(o) ==
  IF o.quota THEN Bad("quota-exhausted", FALSE)
  ELSE IF o.event \notin {"none", "plain"} THEN Bad(StatusClass(o.event), TRUE)
  ELSE IF o.hits >= 2 THEN Bad("rate-limited", FALSE)
  ELSE IF o.invalid THEN Bad("model-invalid", FALSE)
  ELSE IF o.event = "plain" THEN Bad("upstream-error", FALSE)
  ELSE IF o.code = 0 THEN Good
  ELSE Bad(FailureClass(o), FALSE)

(* What a probe may find. *)
Finds(kind) ==
  IF kind = "silent" THEN {Bad("unknown", FALSE)} ELSE {Interpret(o) : o \in Says(kind)}

(* A run emits opencode_done when it exits with 0 or its stdout has an     *)
(* error event.                                                            *)
Done(o) == o.code = 0 \/ o.event # "none"

(* Variant: any opencode_done is a success. *)
AnyDone(o) == Done(o)

(* isRealSuccessEvent *)
IsRealSuccess(o) == Done(o) /\ ~o.invalid /\ o.event = "none"

----------------------------------------------------------------------------
(* decideAlert *)

State(status, signature, since, lastAlertAt) ==
  [status |-> status, signature |-> signature, since |-> since, lastAlertAt |-> lastAlertAt]

NoSignature == Good
NoState == State("none", NoSignature, 0, 0)

Decision(kind, next) == [kind |-> kind, next |-> next]

Recovered(prev, at) == State("healthy", NoSignature, at, at)

(* Variant: a reminder does not count as an alert. *)
NotCounted(prev, at) == prev

Reminded(prev, at) == [prev EXCEPT !.lastAlertAt = at]

DecideGood(prev, at) ==
  CASE prev.status = "failing" -> Decision("recovered", Recovered(prev, at))
    [] prev.status = "healthy" -> Decision("none", prev)
    [] OTHER                   -> Decision("none", State("healthy", NoSignature, at, 0))

(* The signature of a failure is its category and whether it has a status. *)
DecideBad(prev, outcome, at) ==
  LET fresh == State("failing", outcome, at, at) IN
  CASE prev.status # "failing"               -> Decision("new-failure", fresh)
    [] prev.status = "failing" /\ prev.signature # outcome -> Decision("changed-failure", fresh)
    [] prev.status = "failing" /\ prev.signature = outcome ->
         IF at - prev.lastAlertAt >= Remind
         THEN Decision("reminder", Reminded(prev, at)) ELSE Decision("none", prev)

NoAlert == [signature |-> NoSignature, at |-> Never]

DecideAlert(prev, outcome, at) ==
  IF outcome.ok THEN DecideGood(prev, at) ELSE DecideBad(prev, outcome, at)

----------------------------------------------------------------------------
(* The world *)

HInit ==
  /\ now = 0 /\ started = 0 /\ due = 0
  /\ model \in Kind /\ turned = 0 /\ turns = 0
  /\ lastSuccess = Never /\ probing = Never
  /\ disk = NoState
  /\ alert = "none" /\ knows = "nothing"
  /\ faults = 0
  /\ said = NoAlert /\ lostWrite = FALSE

Turns ==
  /\ turns < MaxTurn
  /\ model' \in Kind \ {model}
  /\ turned' = IF Class(model') = Class(model) THEN turned ELSE now
  /\ turns' = turns + 1
  /\ UNCHANGED <<timing, lastSuccess, probing, disk, alert, knows, faults, said, lostWrite>>

(* Time does not pass over what is to be done. *)
Ticks ==
  /\ now < MaxTime
  /\ due > now /\ alert = "none"
  /\ probing # Never => now - probing < Timeout
  /\ now' = now + 1
  /\ UNCHANGED <<world, started, due, lastSuccess, probing, disk, alert, knows, faults,
                 said, lostWrite>>

(* The event hook of the main process hears of a user's run. *)
RunSucceeds ==
  /\ \E o \in Says(model) : IsRealSuccess(o)
  /\ lastSuccess # now
  /\ lastSuccess' = now
  /\ UNCHANGED <<world, timing, probing, disk, alert, knows, faults, said, lostWrite>>

----------------------------------------------------------------------------
(* runOnce *)

Exempt == lastSuccess # Never /\ now - lastSuccess < Window

(* The alert that is told of last, as long as its failure goes on. *)
Noted(outcome, d, at) ==
  CASE outcome.ok -> NoAlert
    [] ~outcome.ok /\ d.kind # "none" -> [signature |-> outcome, at |-> at]
    [] OTHER -> IF said.signature = outcome THEN said ELSE NoAlert

(* After the probe: readState, decideAlert, writeState, which only records *)
(* that it failed, and the alert.                                          *)
Concludes(outcome, at) ==
  LET d == DecideAlert(disk, outcome, at) IN
  /\ \/ disk' = d.next /\ lostWrite' = FALSE /\ UNCHANGED faults
     \/ disk' \in {disk, NoState} /\ lostWrite' = TRUE /\ Fault
  /\ alert' = d.kind
  /\ said' = Noted(outcome, d, at)

(* The interval's check; the first one runs at once. *)
Checks ==
  /\ due = now /\ probing = Never /\ alert = "none"
  /\ due' = now + Interval
  /\ \/ Exempt /\ Concludes(Good, now) /\ UNCHANGED probing
     \/ ~Exempt /\ probing' = now /\ UNCHANGED <<disk, alert, faults, said, lostWrite>>
  /\ UNCHANGED <<world, now, started, lastSuccess, knows>>

(* The probe ends; a silent model's only by its time limit. *)
ProbeEnds ==
  /\ probing # Never
  /\ model = "silent" => now - probing = Timeout
  /\ \E outcome \in Finds(model) : Concludes(outcome, probing)
  /\ probing' = Never
  /\ UNCHANGED <<world, timing, lastSuccess, knows>>

(* The alert arrives, or the connector swallows that it did not. *)
AlertEnds ==
  /\ alert # "none"
  /\ alert' = "none"
  /\ \/ knows' = (IF alert = "recovered" THEN "well" ELSE "failing") /\ UNCHANGED faults
     \/ Fault /\ UNCHANGED knows
  /\ UNCHANGED <<world, timing, lastSuccess, probing, disk, said, lostWrite>>

Restarts ==
  /\ Fault
  /\ started' = now /\ due' = now
  /\ lastSuccess' = Never /\ probing' = Never /\ alert' = "none"
  /\ UNCHANGED <<world, now, disk, knows, said, lostWrite>>

HNext ==
  Turns \/ Ticks \/ RunSucceeds \/ Checks \/ ProbeEnds \/ AlertEnds \/ Restarts

HSpec == HInit /\ [][HNext]_hvars
----------------------------------------------------------------------------
(* Properties *)

Later(a, b) == IF a > b THEN a ELSE b

(* A healthy state has no signature, a failing one the signature of a      *)
(* failure, and its last alert is not older than the failure.              *)
HealthTypeOK ==
  /\ now \in 0 .. MaxTime /\ model \in Kind /\ turned \in 0 .. now
  /\ started \in 0 .. now /\ due \in now .. now + Interval
  /\ {lastSuccess, probing} \subseteq {Never} \cup 0 .. now
  /\ disk.status \in {"none", "healthy", "failing"}
  /\ {disk.since, disk.lastAlertAt} \subseteq 0 .. now
  /\ disk.status = "failing" => ~disk.signature.ok /\ disk.since <= disk.lastAlertAt
  /\ disk.status # "failing" => disk.signature = NoSignature
  /\ alert \in {"none", "new-failure", "changed-failure", "reminder", "recovered"}
  /\ knows \in {"nothing", "failing", "well"}
  /\ faults \in 0 .. MaxFault
  /\ probing # Never => alert = "none" /\ now - probing <= Timeout

(* Every fault may cost an alert, which then is repeated as a reminder. *)
Slack == faults * (Remind + Interval + Timeout)

(* When no request has been served for so long that the window is over and *)
(* a check has ended, the last word to the administrator was that the      *)
(* model fails, however opencode exits and whatever traffic there was.     *)
TroubleIsTold ==
  /\ HealthTypeOK
  /\ Class(model) = "down" /\ now > Later(turned, started) + Window + Interval + Timeout + Slack
    => knows = "failing"

(* A failure that goes on, with one signature, is not told again before    *)
(* the time of a reminder, over restarts too, unless its state was lost.   *)
AlertsApart ==
  [][said'.signature = said.signature /\ said'.at # said.at =>
       said'.at - said.at >= Remind \/ lostWrite]_hvars
=============================================================================
