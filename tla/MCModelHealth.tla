--------------------------- MODULE MCModelHealth ---------------------------
(***************************************************************************)
(* ModelHealth for TLC: a check every two ticks, reminders after five, and *)
(* as much time as a failure, a fault and their deadline take.  What else  *)
(* tells the user of trouble is evaluated beside it: other errors in       *)
(* MCRuntimeIssues, the log of events and the pinned message here.         *)
(***************************************************************************)
EXTENDS ModelHealth, MCRuntimeIssues, EventLog, PinnedStatus

----------------------------------------------------------------------------
(* The log: writes, restarts and days, in every order, of one and of two   *)
(* processes.                                                              *)
NextDay(s) == [s EXCEPT !.today = @ + 1]

LogStates(processes, n, rotate(_, _)) ==
  FoldLeft(LAMBDA all, k : all \cup {NextDay(s) : s \in all}
                           \cup {rotate(s, p) : s \in all, p \in processes}
                           \cup {Restart(s, p) : s \in all, p \in processes},
           {LogStart(processes)}, [k \in 1 .. n |-> k])

(* A line that is not older than the files that are kept is in one file. *)
LinesAreKept(s) ==
  \A l \in s.lines : l.day >= s.today - RetentionDays =>
    Cardinality({x \in {s.file.lines} \cup {r.lines : r \in s.rotated} : l \in x}) = 1

(* Variant: old files go by the days in their names. *)
PurgedByName(before, p) ==
  LET s == AppendLine(before, p)
  IN [s EXCEPT !.rotated = {r \in @ : r.name > s.today - RetentionDays}]

(* The audit log has one writer and keeps its lines. *)
ASSUME OneWriterKeeps == \A s \in LogStates({"runner"}, 8, AppendLine) : LinesAreKept(s)
ASSUME LogCheckNotices == \E s \in LogStates({"runner"}, 8, PurgedByName) : ~LinesAreKept(s)

(* events.jsonl has two.  core/message-pipeline.ts:350 writes to it what   *)
(* is to be kept for seven days, but the first line that the second of the *)
(* processes writes on a day puts the new file, with what the first wrote  *)
(* on that day, in the place of the file of the day before.                *)
ASSUME TwoWritersLoseTheDayBefore ==
  \E s \in LogStates({"main", "runner"}, 5, AppendLine) :
    ~LinesAreKept(s) /\ \E l \in s.lines : l.day = s.today - 1 /\ ~\E r \in s.rotated : l \in r.lines

----------------------------------------------------------------------------
(* The pinned message: errors that come and expire, events, refreshes, and *)
(* edits that are answered sooner or later, or fail.                       *)
(* What may be next where an edit is answered within the given time. *)
After(s, slowest, fail, clock(_)) ==
  {OnEvent([s EXCEPT !.errors = e]) : e \in {1, 2}}
  \cup {RefreshPinned([s EXCEPT !.errors = e]) : e \in {s.errors, 1}}
  \cup {Dispose(s)}
  \cup {EditDone(s, k) : k \in DOMAIN s.edits}
  \cup (IF fail THEN {EditFailed(s, k) : k \in DOMAIN s.edits} ELSE {})
  \cup (IF \A k \in DOMAIN s.edits : s.now - s.edits[k].at < slowest THEN {clock(s)} ELSE {})

PinnedStates(slowest, fail, n, clock(_)) ==
  FoldLeft(LAMBDA all, k : all \cup UNION {After(s, slowest, fail, clock) : s \in all},
           {Placed(TRUE), Placed(FALSE)}, [k \in 1 .. n |-> k])

(* With no edit on its way and no timer set, the message, if there is one, *)
(* shows what was last given to update.                                    *)
ShowsTheLast(s) == s.placed /\ s.edits = <<>> /\ s.timer = NoValue => s.shown = s.lastErrors

(* Variant: the timer fires, and what came meanwhile is not sent. *)
PendingIsDropped(s) ==
  Clock(IF s.timer = s.now + 1 THEN [s EXCEPT !.pending = NoValue] ELSE s)

(* It does where edits are answered before the next is due, and succeed. *)
ASSUME PromptEditsShowTheLast == \A s \in PinnedStates(1, FALSE, 8, Clock) : ShowsTheLast(s)
ASSUME PinnedCheckNotices == \E s \in PinnedStates(1, FALSE, 6, PendingIsDropped) : ~ShowsTheLast(s)

(* It does not after an edit that failed, which no refresh repeats, nor    *)
(* where an edit takes longer than the throttle: what goes back to the     *)
(* text before it is taken for unchanged.                                  *)
ASSUME FailedEditStays ==
  \E s \in PinnedStates(1, TRUE, 3, Clock) : ~ShowsTheLast(s) /\ RefreshPinned(s) = s /\ Flush(Send(s)).edits = <<>>
ASSUME SlowEditStays ==
  \E s \in PinnedStates(9, FALSE, 7, Clock) : ~ShowsTheLast(s) /\ RefreshPinned(s) = s
=============================================================================
