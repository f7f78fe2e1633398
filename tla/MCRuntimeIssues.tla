-------------------------- MODULE MCRuntimeIssues --------------------------
(* Sequences of errors, other events, waits, and a snapshot that cannot be *)
(* written, from which the state of RuntimeIssues is reached.              *)
EXTENDS RuntimeIssues

MCSnapshots == <<"s1", "s2">>

(* a1 and a2 are of one scope and begin alike, a3 is of that scope too. *)
MCScope(issue)       == IF issue \in {"a1", "a2", "a3"} THEN "a" ELSE issue
MCFingerprint(issue) == IF issue \in {"a1", "a2"} THEN "a1" ELSE issue
Scopes == {"a", "b", "s1"}

(* What comes from outside. *)
Record(issue)   == [kind |-> "issue", value |-> issue, ticks |-> 0]
WaitFor(ticks)  == [kind |-> "wait", value |-> "", ticks |-> ticks]
Event           == [kind |-> "event", value |-> "", ticks |-> 0]
Refresh         == [kind |-> "refresh", value |-> "", ticks |-> 0]
Purge           == [kind |-> "purge", value |-> "", ticks |-> 0]
Broken(is)      == [kind |-> IF is THEN "break" ELSE "mend", value |-> "s1", ticks |-> 0]

Respond(before, in, record(_, _)) ==
  LET s == [before EXCEPT !.rounds = 0] IN
    CASE in.kind = "issue"   -> record(s, in.value)
      [] in.kind = "event"   -> EmitEvent(s)
      [] in.kind = "refresh" -> WriteContextSnapshots(s)
      [] in.kind = "wait"    -> Wait(s, in.ticks)
      [] in.kind = "purge"   -> PurgeOldRuntimeIssues(s, s.now - AlertWindow)
      [] in.kind = "break"   -> [s EXCEPT !.broken = {in.value}]
      [] in.kind = "mend"    -> [s EXCEPT !.broken = {}]

(* Every state that up to n of the inputs lead to. *)
ReachedBy(inputs, n, respond(_, _)) ==
  FoldLeft(LAMBDA all, k : all \cup {respond(s, in) : s \in all, in \in inputs},
           {Start(Scopes)}, [k \in 1 .. n |-> k])

AllInputs == {Record("a1"), Record("a2"), Record("b"), Event, Refresh, Purge,
              WaitFor(1), WaitFor(3), Broken(TRUE), Broken(FALSE)}
Errors    == {Record("a1"), Record("a2"), Record("a3"), WaitFor(1), WaitFor(2), WaitFor(3)}

Real(s, in) == Respond(s, in, RecordRuntimeIssue)
OfAll    == ReachedBy(AllInputs, 5, Real)
OfErrors == ReachedBy(Errors, 6, Real)

----------------------------------------------------------------------------
(* errors.ts: the buffer is bounded and in the order of its times, and an  *)
(* issue has no two entries within the window.                             *)
BufferIsGood(s) ==
  /\ Len(s.issues) <= RecentIssueLimit
  /\ \A i, j \in DOMAIN s.issues : i < j =>
       /\ s.issues[i].ts <= s.issues[j].ts
       /\ s.issues[i].issue = s.issues[j].issue => s.issues[j].ts - s.issues[i].ts > DedupeWindow

(* Variant: an entry that is met again stays where it is. *)
StaysInPlace(s, issue) ==
  IF SameIssue(s, issue) # {}
  THEN [s EXCEPT !.issues[Max(SameIssue(s, issue))].ts = s.now]
  ELSE RecordRuntimeIssue(s, issue)

ASSUME BufferHolds == \A s \in OfAll \cup OfErrors : BufferIsGood(s)
ASSUME BufferCheckNotices ==
  \E s \in ReachedBy(Errors, 5, LAMBDA s, in : Respond(s, in, StaysInPlace)) : ~BufferIsGood(s)

(* event-projector.ts: the last event is always written, if not at once    *)
(* then by the timer, and runs are apart.  Only a snapshot that can be     *)
(* written is asked for.                                                   *)
LastEventIsWritten(s) ==
  /\ s.due = NotDue => s.files["s2"].events = s.events
  /\ s.due # NotDue => s.now < s.due /\ s.due <= s.now + MinInterval
  /\ \A i \in 1 .. Len(s.runs) - 1 : s.runs[i + 1] - s.runs[i] >= MinInterval

(* Variant: what comes too early is left to the next event. *)
NoTimer(s, in) == [Real(s, in) EXCEPT !.due = NotDue]

ASSUME ProjectorHolds == \A s \in OfAll \cup OfErrors : LastEventIsWritten(s)
ASSUME ProjectorCheckNotices == \E s \in ReachedBy(AllInputs, 3, NoTimer) : ~LastEventIsWritten(s)

(* context-snapshots.ts: the rounds that a call may start are bounded, and *)
(* a failure is recorded once for as long as it lasts.                     *)
RoundsAreBounded(s) == s.rounds <= 2

FailuresAreReportedOnce ==
  \A s \in OfAll : \A in \in {Refresh, Event, WaitFor(3)} :
    "s1" \in s.failing /\ "s1" \in s.broken => Real(s, in).reports = s.reports

ASSUME RoundsHold == (\A s \in OfAll : RoundsAreBounded(s)) /\ FailuresAreReportedOnce

(* error-alerter.ts: alerts about a scope are apart, and where its rows    *)
(* alone reach the threshold there has been an alert.                      *)
AlertsAreGood(s) ==
  /\ \A i, j \in DOMAIN s.alerts :
       i < j /\ s.alerts[i].scope = s.alerts[j].scope => s.alerts[j].at - s.alerts[i].at >= AlertCooldown
  /\ LET rows   == {r.ts : r \in {x \in s.rows : Scope(x.issue) = "a"}}
         newest == Max(rows)
     IN Cardinality({t \in rows : t >= newest - AlertWindow}) >= AlertThreshold =>
          \E a \in ToSet(s.alerts) : a.scope = "a" /\ a.at > newest - AlertCooldown

(* Variant: the alert waits for one error more than the threshold. *)
OneMore(s, issue) ==
  LET t == RecordRuntimeIssue(s, issue)
  IN IF Len(t.stamps["a"]) = AlertThreshold THEN [t EXCEPT !.alerts = s.alerts] ELSE t

ASSUME AlertsHold == \A s \in OfAll \cup OfErrors : AlertsAreGood(s)
ASSUME AlertCheckNotices ==
  \E s \in ReachedBy(Errors, 5, LAMBDA s, in : Respond(s, in, OneMore)) : ~AlertsAreGood(s)

(* One error that comes again and again within the window is one entry:    *)
(* it has one row, which grows old, and there is no alert, however long it *)
(* goes on.                                                                *)
ASSUME LastingErrorIsQuiet ==
  \E s \in ReachedBy({Record("a1"), WaitFor(2)}, 10, Real) :
    /\ s.now > AlertWindow /\ s.issues # <<>> /\ s.issues[1].ts = s.now
    /\ Cardinality(s.rows) = 1 /\ s.alerts = <<>>

(* The snapshot that an issue's own event writes lacks the issue's row.    *)
ASSUME RowComesLate ==
  \E s \in OfAll : s.due = NotDue /\ s.rows # {} /\ s.files["s2"].rows = {}
=============================================================================
