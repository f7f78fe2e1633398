--------------------------- MODULE TelegramIntake ---------------------------
(***************************************************************************)
(* What a user sends by Telegram, on its way to the pipeline: the bot's    *)
(* launch and its long polling (connectors/telegram.ts, on Telegraf), the  *)
(* download of pictures, and the pictures without a text, which wait for   *)
(* one (consumePendingImages).  One user: the others have their own.       *)
(*                                                                         *)
(* Updates are numbered in the order they were sent, and a picture is      *)
(* named after its update.                                                 *)
(***************************************************************************)
EXTENDS Naturals

VARIABLES
  sent,        (* how many updates there are *)
  kind,        (* of each *)
  confirmed,   (* Telegram delivers what comes after these *)
  delivered,   (* the last update this process has got *)
  launch,      (* initialize(): trying, ready, failed *)
  polling,     (* Telegraf's: off, starting, on *)
  downloading, (* the pictures that are being fetched *)
  pending,     (* pendingImageByUser *)
  joined       (* history: which picture went on with which message *)

telegraf == <<confirmed, delivered, launch, polling>>
ivars == <<sent, kind, telegraf, downloading, pending, joined>>

Update == Nat \ {0}
Kind   == {"text", "command", "photo", "captioned"}

Init ==
  /\ sent = 0 /\ kind \in [Update -> Kind]
  /\ confirmed = 0 /\ delivered = 0
  /\ launch = "trying" /\ polling = "off"
  /\ downloading = {} /\ pending = {} /\ joined = {}

UserSends ==
  /\ sent' = sent + 1
  /\ UNCHANGED <<kind, telegraf, downloading, pending, joined>>

----------------------------------------------------------------------------
(* initialize.  An attempt that fails and may be repeated is repeated after*)
(* a while: that leaves things as they are.                                *)

(* Telegraf polls, or has not said so in time and start-up goes on.        *)
Launches ==
  /\ launch = "trying"
  /\ launch' = "ready"
  /\ polling' \in {"on", "starting"}
  /\ UNCHANGED <<sent, kind, confirmed, delivered, downloading, pending, joined>>

LaunchFails ==
  /\ launch = "trying"
  /\ launch' = "failed"
  /\ UNCHANGED <<sent, kind, confirmed, delivered, polling, downloading, pending, joined>>

LateStart ==
  /\ polling = "starting"
  /\ polling' = "on"
  /\ UNCHANGED <<sent, kind, confirmed, delivered, launch, downloading, pending, joined>>

(* The promise of launch() is rejected after it was taken for ready: a     *)
(* conflict with another instance, or a handler that took too long.        *)
(* settleReject does nothing any more, and nobody polls.  Telegraf may     *)
(* still confirm what it has got.                                          *)
GoesDeaf ==
  /\ polling # "off"
  /\ polling' = "off"
  /\ confirmed' \in {confirmed, delivered}
  /\ UNCHANGED <<sent, kind, delivered, launch, downloading, pending, joined>>

(* The process is stopped, or crashes, and starts again. *)
Restart ==
  /\ confirmed' \in {confirmed, delivered}
  /\ delivered' = confirmed'
  /\ launch' = "trying" /\ polling' = "off"
  /\ downloading' = {} /\ pending' = {}
  /\ UNCHANGED <<sent, kind, joined>>

----------------------------------------------------------------------------
(* consumePendingImages *)

Joins(images, m) == joined \cup {<<i, m>> : i \in images}

(* A message with a text takes the pictures that wait; a command leaves    *)
(* them.  Of several texts in a batch the first takes them.                *)
TextsArrive(batch) ==
  LET texts == {u \in batch : kind[u] = "text"}
  IN  \/ /\ texts = {}
         /\ UNCHANGED <<pending, joined>>
      \/ \E first \in texts :
           /\ \A u \in texts : first <= u
           /\ joined' = Joins(pending, first)
           /\ pending' = {}

(* The next batch, when the handlers of the last are through; asking for it*)
(* confirms the last.  Texts are handled at once, pictures are fetched.    *)
Polls ==
  /\ polling = "on" /\ downloading = {}
  /\ \E last \in delivered + 1 .. sent :
       LET batch == delivered + 1 .. last
       IN  /\ confirmed' = delivered /\ delivered' = last
           /\ downloading' = {u \in batch : kind[u] \in {"photo", "captioned"}}
           /\ TextsArrive(batch)
  /\ UNCHANGED <<sent, kind, launch, polling>>

(* A picture without a text waits for one; with a caption it is a message. *)
Downloaded(u) ==
  /\ u \in downloading
  /\ downloading' = downloading \ {u}
  /\ \/ /\ kind[u] = "photo"
        /\ pending' = pending \cup {u} /\ joined' = joined
     \/ /\ kind[u] = "captioned"
        /\ pending' = {} /\ joined' = Joins(pending \cup {u}, u)
  /\ UNCHANGED <<sent, kind, telegraf>>

(* Too large, gone, or unreachable: the user is told. *)
DownloadFails(u) ==
  /\ u \in downloading
  /\ downloading' = downloading \ {u}
  /\ UNCHANGED <<sent, kind, telegraf, pending, joined>>

(* pendingImageTtlMs.  The code drops them when the next message comes;    *)
(* nothing sees them in between.                                           *)
Expires ==
  /\ pending' = {}
  /\ UNCHANGED <<sent, kind, telegraf, downloading, joined>>

Next ==
  \/ UserSends
  \/ Launches \/ LaunchFails \/ LateStart \/ GoesDeaf \/ Restart
  \/ Polls
  \/ \E u \in Update : Downloaded(u) \/ DownloadFails(u)
  \/ Expires

Spec == Init /\ [][Next]_ivars

----------------------------------------------------------------------------
IntakeTypeOK ==
  /\ sent \in Nat /\ confirmed \in Nat /\ delivered \in Nat
  /\ kind \in [Update -> Kind]
  /\ downloading \subseteq Update /\ pending \subseteq Update
  /\ joined \subseteq Update \X Update

(* A picture goes on with one text message at most, and with one that was  *)
(* sent after it: through slow downloads, other pictures with a caption,   *)
(* restarts and updates that are delivered again.                          *)
OneLaterText ==
  \A i, t \in Update :
    <<i, t>> \in joined /\ kind[t] = "text" =>
      /\ i < t
      /\ \A s \in Update : <<i, s>> \in joined /\ kind[s] = "text" => s = t
=============================================================================
