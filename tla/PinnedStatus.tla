---------------------------- MODULE PinnedStatus ----------------------------
(***************************************************************************)
(* The pinned message that shows how the system is: its source             *)
(* (services/pinned-status.ts), of which the number of recent errors       *)
(* stands for all, and the throttled edits of PinnedStatusManager          *)
(* (services/pinned-status-manager.ts).                                    *)
(***************************************************************************)
EXTENDS Integers, Sequences, SequencesExt

CONSTANT ThrottleTicks

NoValue == -1

(* errors    what is the case; lastErrors, what was last given to update   *)
(* shown     what the message shows; rendered, lastRenderedText            *)
(* pending, timer, lastFlush   of the manager                              *)
(* edits     the edits that have no answer yet, [text, at]                 *)
Placed(placed) ==
  [now |-> ThrottleTicks, errors |-> 0, lastErrors |-> 0, shown |-> 0, rendered |-> 0,
   pending |-> NoValue, timer |-> NoValue, lastFlush |-> 0, edits |-> <<>>, placed |-> placed]

(* The snapshot is given up before the edit, which may fail. *)
Flush(s) ==
  IF s.pending = NoValue \/ ~s.placed THEN s
  ELSE LET t == [s EXCEPT !.pending = NoValue] IN
    IF s.pending = s.rendered THEN t
    ELSE [t EXCEPT !.lastFlush = s.now,
                   !.edits = Append(@, [text |-> s.pending, at |-> s.now])]

Update(before, text) ==
  LET s == [before EXCEPT !.pending = text] IN
    CASE s.timer # NoValue -> s
      [] s.timer = NoValue /\ s.now - s.lastFlush >= ThrottleTicks -> Flush(s)
      [] OTHER -> [s EXCEPT !.timer = s.lastFlush + ThrottleTicks]

(* The k-th of the edits on their way.  One that Telegram does not take    *)
(* counts as rendered like one that it does: the connector only logs it.   *)
Answered(s, k)   == [s EXCEPT !.rendered = s.edits[k].text, !.edits = RemoveAt(@, k)]
EditDone(s, k)   == [Answered(s, k) EXCEPT !.shown = s.edits[k].text]
EditFailed(s, k) == Answered(s, k)

Dispose(s) == [s EXCEPT !.timer = NoValue, !.placed = FALSE]

Clock(before) ==
  LET s == [before EXCEPT !.now = @ + 1]
  IN IF s.timer = s.now THEN Flush([s EXCEPT !.timer = NoValue]) ELSE s

(* An event asks for an update, the regular refresh only for a change. *)
Send(s) == Update([s EXCEPT !.lastErrors = s.errors], s.errors)
OnEvent(s) == Send(s)
RefreshPinned(s) == IF s.errors # s.lastErrors THEN Send(s) ELSE s
=============================================================================
