--------------------------- MODULE RuntimeIssues ---------------------------
(***************************************************************************)
(* What the main process does about an error: the buffer of recent issues  *)
(* (utils/errors.ts), the event that makes the projector write the context *)
(* snapshots (services/event-projector.ts, context-snapshots.ts), the rows *)
(* of services/issue-store.ts and the alert of services/error-alerter.ts.  *)
(*                                                                         *)
(* All of it is synchronous, so a call is an operator on the state; but it *)
(* may come back to itself: an issue is an event, an event may write the   *)
(* snapshots, and a snapshot that cannot be written is an issue.           *)
(***************************************************************************)
EXTENDS Integers, Sequences, FiniteSets, FiniteSetsExt, SequencesExt

CONSTANTS
  RecentIssueLimit,   \* entries of the buffer
  DedupeWindow,       \* within it an issue is the same one
  MinInterval,        \* between two rounds of snapshots that events ask for
  AlertThreshold, AlertWindow, AlertCooldown,
  Snapshots,          \* the names of the snapshots, in order
  Scope(_),           \* of an issue
  Fingerprint(_)      \* of an issue: its scope and the beginning of its message

NotDue == -1

(* now       the clock                                                     *)
(* issues    recentIssues, entries [ts, issue]                             *)
(* rows      table runtime_issues                                          *)
(* stamps    timestamps of the alerter, by scope; alerts, those it sent    *)
(* lastRun, due   lastRunAt and the timer of the projector                 *)
(* broken    snapshots that cannot be written; failing, failingSnapshots   *)
(* events, files, runs, rounds, reports   what happened so far: events,    *)
(*           what each snapshot tells, the projector's runs, rounds of the *)
(*           snapshots since the last input, and failures recorded         *)
Start(scopes) ==
  [now |-> 0, issues |-> <<>>, rows |-> {}, stamps |-> [c \in scopes |-> <<>>], alerts |-> <<>>,
   lastRun |-> -MinInterval, due |-> NotDue, broken |-> {}, failing |-> {},
   events |-> 0, files |-> [n \in ToSet(Snapshots) |-> [events |-> 0, rows |-> {}]],
   runs |-> <<>>, rounds |-> 0, reports |-> 0]

----------------------------------------------------------------------------
(* The two hooks of an issue, in the order of their registration. *)

AppendRuntimeIssue(s, issue) ==
  IF \E r \in s.rows : Fingerprint(r.issue) = Fingerprint(issue) /\ r.ts >= s.now - DedupeWindow
  THEN s
  ELSE [s EXCEPT !.rows = @ \cup {[ts |-> s.now, issue |-> issue]}]

PurgeOldRuntimeIssues(s, before) == [s EXCEPT !.rows = {r \in @ : r.ts >= before}]

(* When the last alert about a scope was sent: at first, never. *)
LastAlerted(s, c) == Max({-AlertCooldown} \cup {a.at : a \in {x \in ToSet(s.alerts) : x.scope = c}})

Alerter(s, issue) ==
  LET c      == Scope(issue)
      stamps == Append(SelectSeq(s.stamps[c], LAMBDA t : t >= s.now - AlertWindow), s.now)
      alert  == Len(stamps) >= AlertThreshold /\ s.now - LastAlerted(s, c) >= AlertCooldown
  IN [s EXCEPT !.stamps[c] = stamps,
               !.alerts = IF alert THEN Append(@, [at |-> s.now, scope |-> c]) ELSE @]

----------------------------------------------------------------------------
(* The entry that is found from the end, before one that is too old. *)
SameIssue(s, issue) ==
  {i \in DOMAIN s.issues :
     /\ s.issues[i].issue = issue
     /\ \A j \in i .. Len(s.issues) : s.now - s.issues[j].ts <= DedupeWindow}

MovedToEnd(s, i) ==
  [s EXCEPT !.issues = Append(RemoveAt(@, i), [ts |-> s.now, issue |-> @[i].issue])]

Trimmed(s) ==
  [s EXCEPT !.issues = SubSeq(@, Max({0, Len(@) - RecentIssueLimit}) + 1, Len(@))]

RECURSIVE RecordRuntimeIssue(_, _)

(* A failure is recorded when it begins, and after it is marked: the round *)
(* that the record may start does not record it again.                     *)
WriteSnapshot(s, name) ==
  CASE name \notin s.broken ->
         [s EXCEPT !.failing = @ \ {name},
                   !.files[name] = [events |-> s.events, rows |-> s.rows]]
    [] name \in s.broken /\ name \in s.failing -> s
    [] OTHER ->
         RecordRuntimeIssue([s EXCEPT !.failing = @ \cup {name}, !.reports = @ + 1], name)

WriteContextSnapshots(s) ==
  FoldLeft(WriteSnapshot, [s EXCEPT !.rounds = @ + 1], Snapshots)

Run(s) == WriteContextSnapshots([s EXCEPT !.lastRun = s.now, !.runs = Append(@, s.now)])

(* An event of one of the eight types that the projector listens to. *)
EmitEvent(before) ==
  LET s == [before EXCEPT !.events = @ + 1] IN
    CASE s.due # NotDue -> s
      [] s.due = NotDue /\ s.now - s.lastRun >= MinInterval -> Run(s)
      [] OTHER -> [s EXCEPT !.due = s.lastRun + MinInterval]

RecordRuntimeIssue(s, issue) ==
  IF SameIssue(s, issue) # {} THEN MovedToEnd(s, Max(SameIssue(s, issue)))
  ELSE LET pushed  == [s EXCEPT !.issues = Append(@, [ts |-> s.now, issue |-> issue])]
           trimmed == Trimmed(EmitEvent(pushed))
       IN Alerter(AppendRuntimeIssue(trimmed, issue), issue)

(* The timer of the projector, and time. *)
Tick(before) ==
  LET s == [before EXCEPT !.now = @ + 1] IN
    IF s.due = s.now THEN Run([s EXCEPT !.due = NotDue]) ELSE s

Wait(s, ticks) == FoldLeft(LAMBDA t, k : Tick(t), s, [k \in 1 .. ticks |-> k])
=============================================================================
