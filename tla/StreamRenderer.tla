--------------------------- MODULE StreamRenderer ---------------------------
(***************************************************************************)
(* The reply to one message while it streams, and its end                  *)
(* (src/core/telegram-stream-renderer.ts, driven by message-pipeline.ts),  *)
(* on top of TelegramCalls.                                                *)
(*                                                                         *)
(* Progress is shown in a native draft or in a message that is edited.     *)
(* Events and intervals ask for updates, which go through a chain of       *)
(* promises one after another; then finalize or fail waits for the chain   *)
(* and says how it ended.  So there is never more than one call to wait    *)
(* for, and at says what the renderer waits for.  Throttles and texts are  *)
(* left out: an event or a tick asks for an update, or does not.           *)
(***************************************************************************)
EXTENDS TelegramCalls

CONSTANTS
  MaxEditFailures,  (* maxEditFailures *)
  MaxPiece,         (* bound: messages that an answer is cut into *)
  MaxQueued,        (* bound: updates that wait in the chain *)
  MaxUpdate         (* bound: updates *)

ASSUME RendererAssumption ==
  /\ {MaxEditFailures, MaxPiece} \subseteq Nat \ {0}
  /\ {MaxQueued, MaxUpdate} \subseteq Nat

VARIABLES
  native,    (* a private chat with a connector that knows drafts *)
  asNew,     (* finalizeAsNewMessage *)
  display,   (* what shows the progress *)
  shown,     (* its message *)
  life,      (* lifecycle *)
  goal,      (* what the pipeline ends the reply with: nothing yet, answer, empty, error *)
  pieces,    (* the messages the answer is cut into *)
  at,        (* the call the renderer waits for *)
  queued,    (* the updates that wait in updateChain *)
  updates,   (* updates so far *)
  fails,     (* consecutiveEditFailures *)
  disabled,  (* streamingDisabled *)
  intervals  (* some interval is running *)

setting == <<native, asNew>>
ending  == <<life, goal, pieces>>
stream  == <<queued, updates, fails, disabled>>
rvars   == <<tvars, setting, display, shown, ending, at, stream, intervals>>

Progress  == Shows("progress", 0)
Failure   == Shows("error", 0)
Answer(k) == Shows("answer", k)

RInit ==
  /\ TInit
  /\ native \in BOOLEAN /\ asNew \in BOOLEAN
  /\ display = "idle" /\ shown = 0
  /\ life = "active" /\ goal = "none" /\ pieces = 0
  /\ at = "idle"
  /\ queued = 0 /\ updates = 0 /\ fails = 0 /\ disabled = FALSE
  /\ intervals = FALSE

Ok     == result = "ok"
Thrown == result = "thrown"

(* Variant: a failure to send is only logged. *)
Logged == result \in {"ok", "thrown"}

(* sendMessage with throwOnError *)
IsSent == Ok

(* sendPlaceholder retries as by default, also after a time-out. *)
SendPlaceholder == Call("send", Progress, 0, Options(ApiRetryCount, TRUE, FALSE))

SendDraft == Call("draft", Progress, 0, Options(0, TRUE, FALSE))

Edit(text, formatted) == Call("edit", text, shown, Options(0, TRUE, formatted))

----------------------------------------------------------------------------
(* The beginning *)

(* startProgressDisplay *)
Start ==
  /\ at = "idle"
  /\ \/ native /\ SendDraft /\ at' = "startDraft"
     \/ ~native /\ SendPlaceholder /\ at' = "startPlace"
  /\ UNCHANGED <<setting, display, shown, ending, stream, intervals>>

(* The intervals are set when the display is there; typing, without one.   *)
StartDraftEnds ==
  /\ at = "startDraft"
  /\ \/ Ok /\ NoCall /\ display' = "draft" /\ at' = "stream" /\ intervals' = TRUE
     \/ Thrown /\ SendPlaceholder /\ at' = "startPlace" /\ UNCHANGED <<display, intervals>>
  /\ UNCHANGED <<setting, shown, ending, stream>>

MessageOf(id) == CHOOSE m \in DOMAIN chat : chat[m].by = id

(* A placeholder, the first display or in place of a draft that failed.    *)
PlaceholderEnds ==
  /\ at \in {"startPlace", "fallback"}
  /\ NoCall
  /\ \/ Ok /\ display' = "message" /\ shown' = MessageOf(call.id) /\ UNCHANGED disabled
     \/ Thrown /\ display' = "unavailable" /\ disabled' = (disabled \/ at = "fallback")
        /\ UNCHANGED shown
  /\ at' = "stream"
  /\ intervals' = (life = "active")
  /\ UNCHANGED <<setting, ending, queued, updates, fails>>

----------------------------------------------------------------------------
(* Progress *)

(* renderReasoning, renderStatus, maybeFlush, rotateThinkingMessage and    *)
(* refreshDraft: an event or a tick asks for an update.                    *)
AskForUpdate ==
  /\ life = "active" /\ intervals /\ ~disabled
  /\ display \in {"draft", "message"}
  /\ updates < MaxUpdate /\ queued < MaxQueued
  /\ updates' = updates + 1
  /\ queued' = queued + 1
  /\ UNCHANGED <<tvars, setting, display, shown, ending, at, fails, disabled, intervals>>

ChainMoves == at = "stream" /\ queued > 0 /\ queued' = queued - 1

(* updateProgressDisplay, when its turn in the chain has come. *)
UpdateBegins ==
  /\ ChainMoves
  /\ life = "active"
  /\ \/ display = "draft" /\ SendDraft /\ at' = "draft"
     \/ display = "message" /\ Edit(Progress, FALSE) /\ at' = "edit"
  /\ UNCHANGED <<setting, display, shown, ending, updates, fails, disabled, intervals>>

UpdateIsLate ==
  /\ ChainMoves
  /\ life # "active" \/ display = "unavailable"
  /\ UNCHANGED <<tvars, setting, display, shown, ending, at>>
  /\ UNCHANGED <<updates, fails, disabled, intervals>>

(* transitionDraftToFallback when it failed *)
DraftUpdateEnds ==
  /\ at = "draft"
  /\ \/ Ok /\ NoCall /\ at' = "stream"
     \/ Thrown /\ SendPlaceholder /\ at' = "fallback"
  /\ UNCHANGED <<setting, display, shown, ending, stream, intervals>>

EditEnds ==
  /\ at = "edit"
  /\ NoCall
  /\ at' = "stream"
  /\ \/ Ok /\ fails' = 0 /\ UNCHANGED disabled
     \/ Thrown /\ fails' = fails + 1 /\ disabled' = (disabled \/ fails' >= MaxEditFailures)
  /\ UNCHANGED <<setting, display, shown, ending, queued, updates, intervals>>

----------------------------------------------------------------------------
(* The end *)

StopTimers == intervals' = FALSE

(* The pipeline calls finalize, with an answer or without any text, or     *)
(* fail.                                                                   *)
End(what) ==
  /\ life = "active"
  /\ at \notin {"idle", "startDraft", "startPlace"}
  /\ life' = "finalizing"
  /\ goal' = what
  /\ pieces' \in IF what = "answer" THEN 1 .. MaxPiece ELSE {0}
  /\ StopTimers
  /\ UNCHANGED <<tvars, setting, display, shown, at, stream>>

(* Variant: finalize and fail do not wait for updates that are under way.  *)
DoNotWait == at \in {"stream", "draft", "edit", "fallback"}

(* awaitUpdate *)
ChainIsDone == at = "stream" /\ queued = 0

SendPiece(k) == Call("send", Answer(k), 0, Options(2, FALSE, TRUE)) /\ at' = "send"
SendFailure  == Call("send", Failure, 0, Options(1, FALSE, TRUE)) /\ at' = "failSend"

Over(state) == life' = state /\ at' = "over"

Outcome == IF goal = "error" THEN "failed" ELSE "completed"

(* clearProgressDisplay.  The connector's deleteMessage does not throw, so *)
(* its result does not matter, and the marker that would replace a message *)
(* that cannot be deleted is never written.                                *)
ClearDisplay ==
  /\ display' = "unavailable"
  /\ \/ display = "message" /\ Call("delete", Shows("deleted", 0), shown, Options(1, TRUE, FALSE))
        /\ at' = "delete" /\ UNCHANGED life
     \/ display # "message" /\ NoCall /\ Over(Outcome)
  /\ UNCHANGED shown

(* finalize and fail after awaitUpdate: the answer goes into the progress  *)
(* message, if it may and fits, or is sent.                                *)
Deliver ==
  /\ life = "finalizing" /\ ChainIsDone
  /\ \/ goal = "answer" /\ SendPiece(1) /\ UNCHANGED <<display, shown, life>>
     \/ /\ goal = "answer" /\ ~asNew /\ display = "message"
        /\ Edit(Answer(1), TRUE)
        /\ at' = "inPlace"
        /\ UNCHANGED <<display, shown, life>>
     \/ goal = "empty" /\ ClearDisplay
     \/ goal = "error" /\ SendFailure /\ UNCHANGED <<display, shown, life>>
  /\ UNCHANGED <<setting, goal, pieces, stream, intervals>>

(* finalize throws, and the pipeline calls fail. *)
FinalizeThrows ==
  /\ goal' = "error" /\ SendFailure
  /\ UNCHANGED <<display, shown, life>>

(* A piece is sent: the next one, or the progress is cleared. *)
PieceEnds ==
  /\ at = "send"
  /\ \/ /\ IsSent /\ UNCHANGED goal
        /\ \/ call.text.piece < pieces /\ SendPiece(call.text.piece + 1)
              /\ UNCHANGED <<display, shown, life>>
           \/ call.text.piece = pieces /\ ClearDisplay
     \/ Thrown /\ FinalizeThrows
  /\ UNCHANGED <<setting, pieces, stream, intervals>>

(* The answer is in the progress message; if it grew over one message by   *)
(* its formatting, editMessage sends the rest as it sends anything else.   *)
InPlaceEnds ==
  /\ at = "inPlace"
  /\ \/ /\ Ok /\ UNCHANGED <<goal, shown>>
        /\ \/ /\ call.text.piece < pieces
              /\ Call("send", Answer(call.text.piece + 1), 0, Options(ApiRetryCount, TRUE, TRUE))
              /\ UNCHANGED <<at, display, life>>
           \/ call.text.piece = pieces /\ NoCall /\ display' = "unavailable" /\ Over("completed")
     \/ Thrown /\ FinalizeThrows
  /\ UNCHANGED <<setting, pieces, stream, intervals>>

DeleteEnds ==
  /\ at = "delete"
  /\ Ok \/ Thrown
  /\ NoCall
  /\ Over(Outcome)
  /\ UNCHANGED <<setting, display, shown, goal, pieces, stream, intervals>>

(* The error message is sent; if not, it is shown where the progress was.  *)
FailSendEnds ==
  /\ at = "failSend"
  /\ \/ Ok /\ ClearDisplay
     \/ /\ Thrown /\ UNCHANGED <<display, shown>>
        /\ \/ display = "message" /\ Edit(Failure, FALSE)
              /\ at' = "failEdit" /\ UNCHANGED life
           \/ display = "draft" /\ SendDraft /\ at' = "failEdit" /\ UNCHANGED life
           \/ display = "unavailable" /\ NoCall /\ Over("failed")
  /\ UNCHANGED <<setting, goal, pieces, stream, intervals>>

FailEditEnds ==
  /\ at = "failEdit"
  /\ Ok \/ Thrown
  /\ NoCall
  /\ Over("failed")
  /\ UNCHANGED <<setting, display, shown, goal, pieces, stream, intervals>>

Goes ==
  \/ Start \/ StartDraftEnds \/ PlaceholderEnds
  \/ UpdateBegins \/ UpdateIsLate \/ DraftUpdateEnds \/ EditEnds
  \/ Deliver \/ PieceEnds \/ InPlaceEnds \/ DeleteEnds \/ FailSendEnds \/ FailEditEnds

Ends == \E what \in {"answer", "empty", "error"} : End(what)

Connector ==
  TNext /\ UNCHANGED <<setting, display, shown, ending, at, stream, intervals>>

CallSettles ==
  Settles /\ UNCHANGED <<setting, display, shown, ending, at, stream, intervals>>

RNext == Goes \/ Ends \/ AskForUpdate \/ Connector

(* Continuations run, an attempt has its time limit, and the turn in the   *)
(* queue is answered in the end (CliStream's RunIsAnswered; ChatSession has*)
(* the turn whose call never returns, which is left out here).             *)
RFairness == WF_rvars(Goes) /\ WF_rvars(CallSettles) /\ WF_rvars(Ends)

RSpec == RInit /\ [][RNext]_rvars /\ RFairness
----------------------------------------------------------------------------
(* Properties *)

IsOver == life \in {"completed", "failed"}

(* The variables have their types, and the intervals of a reply run only   *)
(* while it is active (finalize and fail stop them before anything else).  *)
RenderTypeOK ==
  /\ TypeOfCalls
  /\ {native, asNew, disabled, intervals} \subseteq BOOLEAN
  /\ display \in {"idle", "draft", "message", "unavailable"}
  /\ shown \in 0 .. Len(chat)
  /\ display = "message" => shown # 0
  /\ life \in {"active", "finalizing", "completed", "failed"}
  /\ goal \in {"none", "answer", "empty", "error"}
  /\ pieces \in 0 .. MaxPiece /\ queued \in 0 .. MaxQueued
  /\ (at \in {"idle", "stream", "over"}) = (result = "none")
  /\ intervals => life = "active"
  /\ IsOver = (at = "over")

Showing(text) == {m \in DOMAIN chat : chat[m].text = text}

(* An edit that its caller had given up wrote m last. *)
Overtaken(m) == chat[m].last \in gaveUp /\ chat[m].last # chat[m].by

(* When a reply is completed with an answer, and from the moment its       *)
(* progress message may be deleted, every piece of it is in the chat; only *)
(* the piece that was edited into the progress message may have been       *)
(* overwritten, by a progress edit that came late.                         *)
AnswerIsThere ==
  goal = "answer" /\ (life = "completed" \/ at = "delete") =>
    \A k \in 1 .. pieces :
      \/ Showing(Answer(k)) # {}
      \/ k = 1 /\ ~asNew /\ shown # 0 /\ Overtaken(shown)

(* No piece of an answer is sent twice, whatever times out and is retried: *)
(* of two copies one came by a request whose connection broke or, when the *)
(* answer outgrew the progress message, by one that timed out.             *)
AnswerOnce ==
  \A k \in 1 .. pieces : \A m, n \in Showing(Answer(k)) :
    m # n => \E c \in {m, n} :
      chat[c].by \in cut \cup (IF k > 1 /\ ~asNew THEN gaveUp ELSE {})

(* When a reply is over, no message goes on showing progress, unless       *)
(* Telegram did not do what it was asked in time: the message was sent for *)
(* a placeholder that had been given up, a late edit wrote it, or the last *)
(* call, about this message, was not executed.                             *)
NothingLeftBehind ==
  /\ RenderTypeOK
  /\ IsOver => \A m \in Showing(Progress) :
       \/ chat[m].last \in gaveUp
       \/ call.msg = m /\ ~taken

(* A reply comes to an end, whatever Telegram does. *)
ReplyEnds == <>IsOver
=============================================================================
