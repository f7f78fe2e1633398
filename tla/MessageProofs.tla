---------------------------- MODULE MessageProofs -----------------------------
(*****************************************************************************)
(* Proofs about what becomes of a message: the pictures that are sent        *)
(* without a text (TelegramIntake), the reflections that follow a silence    *)
(* (SilenceTimer), and the reply while it streams and at its end             *)
(* (StreamRenderer).                                                         *)
(*****************************************************************************)
EXTENDS TelegramIntake, SilenceTimer, StreamRenderer, FiniteSetTheorems, TLAPS

----------------------------------------------------------------------------
(*****************************************************************************)
(* TelegramIntake: where a picture that was sent without a text ends up.     *)
(*****************************************************************************)

LEMMA IntakeTypeStep ==
  ASSUME IntakeTypeOK, [Next]_ivars
  PROVE  IntakeTypeOK'
<1>. USE DEF IntakeTypeOK, telegraf
<1>1. CASE UserSends
  BY <1>1 DEF UserSends
<1>2. CASE Launches \/ LaunchFails \/ LateStart \/ GoesDeaf
  BY <1>2 DEF Launches, LaunchFails, LateStart, GoesDeaf
<1>3. CASE Restart
  BY <1>3 DEF Restart
<1>4. CASE Polls
  <2>1. PICK last \in delivered + 1 .. sent :
          LET batch == delivered + 1 .. last
          IN  /\ confirmed' = delivered /\ delivered' = last
              /\ downloading' = {u \in batch : kind[u] \in {"photo", "captioned"}}
              /\ TextsArrive(batch)
    BY <1>4 DEF Polls
  <2>2. delivered + 1 .. last \subseteq Update
    BY DEF Update
  <2>3. pending' \subseteq Update /\ joined' \subseteq Update \X Update
    BY <2>1, <2>2 DEF TextsArrive, Joins
  <2>. QED
    BY <1>4, <2>1, <2>2, <2>3 DEF Polls
<1>5. ASSUME NEW u \in Update, Downloaded(u)
      PROVE  IntakeTypeOK'
  BY <1>5 DEF Downloaded, Joins
<1>6. ASSUME NEW u \in Update, DownloadFails(u)
      PROVE  IntakeTypeOK'
  BY <1>6 DEF DownloadFails
<1>7. CASE Expires
  BY <1>7 DEF Expires
<1>8. CASE UNCHANGED ivars
  BY <1>8 DEF ivars
<1>. QED
  BY <1>1, <1>2, <1>3, <1>4, <1>5, <1>6, <1>7, <1>8 DEF Next

(* A picture that has gone on with a text is not among those that may go   *)
(* on with another: Telegram had it confirmed before that text came.       *)
Settled(i) == i <= confirmed /\ i \notin pending /\ i \notin downloading

IntakeInv ==
  /\ confirmed <= delivered
  /\ \A i \in pending \cup downloading : i <= delivered
  /\ pending \cap downloading = {}
  /\ OneLaterText
  /\ \A i, t \in Update : <<i, t>> \in joined /\ kind[t] = "text" => Settled(i)

LEMMA IntakeStep ==
  ASSUME IntakeTypeOK, IntakeInv, [Next]_ivars
  PROVE  IntakeInv'
<1>. USE DEF IntakeTypeOK, telegraf, IntakeInv, OneLaterText, Settled, Update
<1>1. CASE UserSends
  BY <1>1 DEF UserSends
<1>2. CASE Launches \/ LaunchFails \/ LateStart \/ GoesDeaf
  <2>1. /\ UNCHANGED <<kind, delivered, downloading, pending, joined>>
        /\ confirmed' \in {confirmed, delivered}
    BY <1>2 DEF Launches, LaunchFails, LateStart, GoesDeaf
  <2>2. confirmed <= confirmed' /\ confirmed' <= delivered
    BY <2>1
  <2>. QED
    BY <2>1, <2>2
<1>3. CASE Restart
  BY <1>3 DEF Restart
<1>4. CASE Polls
  <2>1. PICK last \in delivered + 1 .. sent :
          LET batch == delivered + 1 .. last
          IN  /\ confirmed' = delivered /\ delivered' = last
              /\ downloading' = {u \in batch : kind[u] \in {"photo", "captioned"}}
              /\ TextsArrive(batch)
    BY <1>4 DEF Polls
  <2>2. downloading = {} /\ kind' = kind
    BY <1>4 DEF Polls
  <2>3. last \in Nat /\ delivered < last
    OBVIOUS
  <2>4. \A u \in downloading' : delivered < u /\ u <= last
    BY <2>1
  <2>5. CASE UNCHANGED <<pending, joined>>
    BY <2>1, <2>2, <2>3, <2>4, <2>5
  <2>6. ASSUME NEW first \in delivered + 1 .. last,
               kind[first] = "text",
               joined' = Joins(pending, first), pending' = {}
        PROVE  IntakeInv'
    <3>1. \A i, t \in Update :
            <<i, t>> \in joined' <=> <<i, t>> \in joined \/ (i \in pending /\ t = first)
      BY <2>6 DEF Joins
    <3>2. \A i \in pending : i < first /\ i <= confirmed'
      BY <2>1, <2>6
    <3>3. \A i, t \in Update :
            <<i, t>> \in joined /\ kind[t] = "text" => i \notin pending /\ i <= confirmed'
      BY <2>1
    <3>4. OneLaterText'
      BY <2>2, <3>1, <3>2, <3>3
    <3>5. \A i, t \in Update : <<i, t>> \in joined' /\ kind[t] = "text" => i <= confirmed'
      BY <3>1, <3>2, <3>3
    <3>6. \A i \in Update : i <= confirmed' => i \notin downloading'
      BY <2>1, <2>4
    <3>. QED
      BY <2>1, <2>2, <2>3, <2>4, <2>6, <3>4, <3>5, <3>6
  <2>. QED
    BY <2>1, <2>5, <2>6 DEF TextsArrive
<1>5. ASSUME NEW u \in Update, Downloaded(u)
      PROVE  IntakeInv'
  <2>1. CASE kind[u] = "photo"
    BY <1>5, <2>1 DEF Downloaded
  <2>2. CASE kind[u] = "captioned"
    <3>1. \A i, t \in Update :
            <<i, t>> \in joined' /\ kind[t] = "text" => <<i, t>> \in joined
      BY <1>5, <2>2 DEF Downloaded, Joins
    <3>. QED
      BY <1>5, <2>2, <3>1 DEF Downloaded
  <2>. QED
    BY <1>5, <2>1, <2>2 DEF Downloaded
<1>6. ASSUME NEW u \in Update, DownloadFails(u)
      PROVE  IntakeInv'
  BY <1>6 DEF DownloadFails
<1>7. CASE Expires
  BY <1>7 DEF Expires
<1>8. CASE UNCHANGED ivars
  BY <1>8 DEF ivars
<1>. QED
  BY <1>1, <1>2, <1>3, <1>4, <1>5, <1>6, <1>7, <1>8 DEF Next

----------------------------------------------------------------------------
(* consumePendingImages with the handlers of initialize: no picture goes on*)
(* with two texts or with a text from before it, though downloads overtake *)
(* each other and updates come again after a restart.                      *)
THEOREM OneLaterTextAlways == Spec => []OneLaterText
<1>1. Init => IntakeTypeOK /\ IntakeInv
  BY DEF Init, IntakeTypeOK, IntakeInv, OneLaterText
<1>2. IntakeTypeOK /\ IntakeInv /\ [Next]_ivars => IntakeTypeOK' /\ IntakeInv'
  BY IntakeTypeStep, IntakeStep
<1>3. IntakeInv => OneLaterText
  BY DEF IntakeInv
<1>. QED
  BY <1>1, <1>2, <1>3, PTL DEF Spec

----------------------------------------------------------------------------
(*****************************************************************************)
(* SilenceTimer, for any number of messages, reflections and faults.  What   *)
(* a reflection has looked at stands before its row in the table, so that a  *)
(* message after all reflections is news.                                    *)
(*****************************************************************************)

Row == [what : {"message", "reflection", "failure"}, msg : Nat]

Reflecting ==
  [type : {"silence", "manual"}, source : Nat, seen : SUBSET Nat, at : {"working", "sending"}]

SilenceTypes ==
  /\ rows \in Seq(Row) /\ aged \in Nat /\ arrived \in Nat
  /\ unsaved \subseteq Nat /\ looked \subseteq Nat /\ timers \subseteq Nat /\ seq \in Nat
  /\ reflecting \subseteq Reflecting

(* The numbers of the messages that are saved. *)
Saved == {rows[i].msg : i \in {k \in 1 .. Len(rows) : rows[k].what = "message"}}

(* A message is saved once, and is looked at after it is saved. *)
SavedInv ==
  /\ \A m \in unsaved \cup Saved : m <= arrived
  /\ unsaved \cap Saved = {}
  /\ looked \subseteq Saved
  /\ \A r \in reflecting : r.seen \subseteq Saved

(* What has been looked at stands before the row of a reflection. *)
LookedInv ==
  \A i \in 1 .. Len(rows) : rows[i].what = "message" /\ rows[i].msg \in looked =>
    \E j \in 1 .. Len(rows) : j > i /\ rows[j].what \in {"reflection", "failure"}

SilenceInv == SilenceTypes /\ SavedInv /\ LookedInv

LEMMA SavedNumbers == SilenceTypes => Saved \subseteq Nat
<1> SUFFICES ASSUME SilenceTypes, NEW i \in 1 .. Len(rows) PROVE rows[i].msg \in Nat
  BY DEF Saved
<1>1. rows[i] \in Row
  BY DEF SilenceTypes
<1> QED
  BY <1>1 DEF Row

(* A reflection that looks sees messages that are saved, and a silent one  *)
(* one that nobody has looked at.                                          *)
LEMMA LooksFacts ==
  ASSUME SilenceInv, NEW type \in {"silence", "manual"}, NEW source \in Nat,
         Looks(type, source), NEW r \in reflecting', r \notin reflecting
  PROVE  /\ r \in Reflecting /\ r.type = type /\ r.seen \subseteq Saved
         /\ type = "silence" => ~(r.seen \subseteq looked)
<1>1. /\ (type = "silence" => HasNews) /\ Messages # {}
      /\ r = Reflection(type, source, {rows[i].msg : i \in Messages}, "working")
  BY DEF Looks
<1>2. r.type = type /\ r.seen = {rows[i].msg : i \in Messages}
  BY <1>1 DEF Reflection
<1>3. rows \in Seq(Row) /\ aged \in Nat /\ Len(rows) \in Nat /\ DOMAIN rows = 1 .. Len(rows)
  BY DEF SilenceInv, SilenceTypes
<1>4. /\ Messages \subseteq {k \in 1 .. Len(rows) : rows[k].what = "message"}
      /\ \A i \in Messages : i > aged
  BY <1>3 DEF Messages, Recent
<1>5. r.seen \subseteq Saved
  BY <1>2, <1>4 DEF Saved
<1>6. ASSUME type = "silence" PROVE ~(r.seen \subseteq looked)
  <2>1. PICK i \in Messages : \A j \in Reflections : i > j
    <3>1. CASE Reflections = {}
      BY <3>1, <1>1
    <3>2. CASE Reflections # {}
      BY <3>2, <1>1, <1>6 DEF HasNews
    <3> QED
      BY <3>1, <3>2
  <2>2. i \in 1 .. Len(rows) /\ rows[i].what = "message" /\ i > aged
    BY <1>4
  <2>3. rows[i].msg \notin looked
    <3>1. SUFFICES ASSUME rows[i].msg \in looked PROVE FALSE
      OBVIOUS
    <3>2. PICK j \in 1 .. Len(rows) : j > i /\ rows[j].what \in {"reflection", "failure"}
      BY <2>2, <3>1 DEF SilenceInv, LookedInv
    <3>3. j > aged
      BY <1>3, <2>2, <3>2
    <3>4. j \in Reflections
      BY <1>3, <3>2, <3>3 DEF Reflections, Recent, ReflectionKinds
    <3> QED
      BY <1>3, <2>1, <2>2, <3>2, <3>4
  <2> QED
    BY <1>2, <2>3
<1>7. r \in Reflecting
  <2>1. r.seen \subseteq Nat
    BY <1>5, SavedNumbers DEF SilenceInv
  <2> QED
    BY <1>1, <1>2, <2>1 DEF Reflection, Reflecting
<1> QED
  BY <1>2, <1>5, <1>6, <1>7

LEMMA SilenceInitInv == SilInit => SilenceInv
  BY DEF SilInit, SilenceInv, SilenceTypes, SavedInv, LookedInv, Saved, Row

(* What is appended to the table is its last row. *)
LEMMA AppendedRow ==
  ASSUME rows \in Seq(Row), NEW row \in Row, rows' = Append(rows, row)
  PROVE  /\ rows' \in Seq(Row) /\ Len(rows) \in Nat /\ Len(rows') = Len(rows) + 1
         /\ \A i \in 1 .. Len(rows) : rows'[i] = rows[i]
         /\ rows'[Len(rows) + 1] = row
  OBVIOUS

LEMMA SilenceKept ==
  ASSUME SilenceInv, UNCHANGED <<rows, arrived, looked, aged>>, unsaved' \subseteq unsaved,
         timers' \subseteq Nat, seq' \in Nat,
         \A r \in reflecting' : r \in reflecting \/ (r \in Reflecting /\ r.seen \subseteq Saved)
  PROVE  SilenceInv'
<1>1. Saved' = Saved
  BY DEF Saved
<1>2. SilenceTypes'
  BY <1>1 DEF SilenceInv, SilenceTypes, SavedInv
<1>3. SavedInv'
  BY <1>1 DEF SilenceInv, SavedInv
<1>4. LookedInv'
  BY DEF SilenceInv, LookedInv
<1> QED
  BY <1>2, <1>3, <1>4 DEF SilenceInv

LEMMA SilenceStepInv == SilenceInv /\ [SilNext]_svars => SilenceInv'
<1> SUFFICES ASSUME SilenceInv, [SilNext]_svars PROVE SilenceInv'
  OBVIOUS
<1>1. /\ rows \in Seq(Row) /\ Len(rows) \in Nat /\ aged \in Nat /\ arrived \in Nat
      /\ unsaved \subseteq Nat /\ looked \subseteq Nat /\ timers \subseteq Nat /\ seq \in Nat
      /\ reflecting \subseteq Reflecting
  BY DEF SilenceInv, SilenceTypes
<1>2. SetTimer \/ KeepsTimers => timers' \subseteq Nat /\ seq' \in Nat
  <2>1. seq + 1 \in Nat
    BY <1>1
  <2>2. SetTimer => timers' = {seq + 1} /\ seq' = seq + 1
    BY DEF SetTimer, OnlyNewTimer
  <2>3. KeepsTimers => timers' = timers /\ seq' = seq
    BY DEF KeepsTimers
  <2> QED
    BY <1>1, <2>1, <2>2, <2>3
<1>3. CASE Arrives
  <2>1. /\ arrived' = arrived + 1 /\ unsaved' \subseteq unsaved \cup {arrived + 1}
        /\ timers' \subseteq Nat /\ seq' \in Nat
        /\ UNCHANGED <<rows, aged, reflecting, looked>>
    BY <1>2, <1>3 DEF Arrives, table, history
  <2>2. Saved' = Saved
    BY <2>1 DEF Saved
  <2>3. Saved \subseteq Nat /\ arrived + 1 \notin Saved
    BY <1>1, SavedNumbers DEF SilenceInv, SavedInv
  <2>4. SilenceTypes'
    BY <1>1, <2>1 DEF SilenceTypes
  <2>5. SavedInv'
    <3>1. \A m \in unsaved' \cup Saved : m <= arrived'
      BY <1>1, <2>1, <2>3 DEF SilenceInv, SavedInv
    <3>2. unsaved' \cap Saved = {}
      BY <2>1, <2>3 DEF SilenceInv, SavedInv
    <3> QED
      BY <2>1, <2>2, <3>1, <3>2 DEF SilenceInv, SavedInv
  <2>6. LookedInv'
    BY <2>1 DEF SilenceInv, LookedInv
  <2> QED
    BY <2>4, <2>5, <2>6 DEF SilenceInv
<1>4. CASE \E m \in unsaved : Saves(m)
  <2>1. PICK m \in unsaved : Saves(m)
    BY <1>4
  <2>2. /\ unsaved' = unsaved \ {m} /\ rows' = Append(rows, Message(m))
        /\ UNCHANGED <<aged, timers, seq, reflecting, arrived, looked>>
    BY <2>1 DEF Saves, counts
  <2>3. Message(m) \in Row /\ Message(m).what = "message" /\ Message(m).msg = m
    BY <1>1 DEF Message, Row
  <2>4. /\ rows' \in Seq(Row) /\ Len(rows') = Len(rows) + 1
        /\ \A i \in 1 .. Len(rows) : rows'[i] = rows[i]
        /\ rows'[Len(rows) + 1] = Message(m)
    BY <1>1, <2>2, <2>3, AppendedRow
  <2>5. Saved' = Saved \cup {m}
    <3>1. {k \in 1 .. Len(rows') : rows'[k].what = "message"}
            = {k \in 1 .. Len(rows) : rows[k].what = "message"} \cup {Len(rows) + 1}
      BY <1>1, <2>3, <2>4
    <3> QED
      BY <1>1, <2>3, <2>4, <3>1 DEF Saved
  <2>6. SilenceTypes'
    BY <1>1, <2>2, <2>4 DEF SilenceTypes
  <2>7. SavedInv'
    BY <2>2, <2>5 DEF SilenceInv, SavedInv
  <2>8. LookedInv'
    <3>1. m \notin looked
      BY DEF SilenceInv, SavedInv
    <3>2. SUFFICES ASSUME NEW i \in 1 .. Len(rows'), rows'[i].what = "message",
                          rows'[i].msg \in looked
                   PROVE  \E j \in 1 .. Len(rows') :
                            j > i /\ rows'[j].what \in {"reflection", "failure"}
      BY <2>2 DEF LookedInv
    <3>3. i \in 1 .. Len(rows) /\ rows'[i] = rows[i]
      BY <1>1, <2>3, <2>4, <3>1, <3>2
    <3>4. PICK j \in 1 .. Len(rows) : j > i /\ rows[j].what \in {"reflection", "failure"}
      BY <3>2, <3>3 DEF SilenceInv, LookedInv
    <3> QED
      BY <1>1, <2>4, <3>4
  <2> QED
    BY <2>6, <2>7, <2>8 DEF SilenceInv
<1>5. CASE \E n \in timers : Fires(n)
  <2>1. PICK n \in timers : Fires(n)
    BY <1>5
  <2>2. /\ UNCHANGED <<rows, arrived, looked, aged, unsaved>>
        /\ timers' \subseteq Nat /\ seq' \in Nat
    BY <2>1, <1>1 DEF Fires, table, counts, history
  <2>3. Looks("silence", n) \/ UNCHANGED reflecting
    BY <2>1 DEF Fires
  <2>4. \A r \in reflecting' : r \in reflecting \/ (r \in Reflecting /\ r.seen \subseteq Saved)
    BY <1>1, <2>3, LooksFacts
  <2> QED
    BY <2>2, <2>4, SilenceKept
<1>6. CASE Manual
  <2>1. /\ UNCHANGED <<rows, arrived, looked, aged, unsaved, timers, seq>>
        /\ Looks("manual", 0)
    BY <1>6 DEF Manual, table, history
  <2>2. \A r \in reflecting' : r \in reflecting \/ (r \in Reflecting /\ r.seen \subseteq Saved)
    BY <2>1, LooksFacts
  <2> QED
    BY <1>1, <2>1, <2>2, SilenceKept
<1>7. CASE \E r \in reflecting : Concludes(r)
  <2>1. PICK r \in reflecting : Concludes(r)
    BY <1>7
  <2>2. PICK what \in {"reflection", "failure"} : rows' = Append(rows, Notice(what))
    BY <2>1 DEF Concludes
  <2>3. /\ reflecting' = (reflecting \ {r}) \cup {[r EXCEPT !.at = "sending"]}
        /\ looked' = looked \cup r.seen
        /\ UNCHANGED <<aged, arrived, unsaved, timers, seq>>
    BY <2>1 DEF Concludes
  <2>4. Notice(what) \in Row /\ Notice(what).what = what
    BY DEF Notice, Row
  <2>5. /\ rows' \in Seq(Row) /\ Len(rows') = Len(rows) + 1
        /\ \A i \in 1 .. Len(rows) : rows'[i] = rows[i]
        /\ rows'[Len(rows) + 1] = Notice(what)
    BY <1>1, <2>2, <2>4, AppendedRow
  <2>6. Saved' = Saved
    <3>1. {k \in 1 .. Len(rows') : rows'[k].what = "message"}
            = {k \in 1 .. Len(rows) : rows[k].what = "message"}
      BY <1>1, <2>4, <2>5
    <3> QED
      BY <2>5, <3>1 DEF Saved
  <2>7. [r EXCEPT !.at = "sending"] \in Reflecting /\ [r EXCEPT !.at = "sending"].seen = r.seen
    BY <1>1 DEF Reflecting
  <2>8. SilenceTypes'
    <3>1. looked' \subseteq Nat
      BY <1>1, <2>3 DEF Reflecting
    <3>2. reflecting' \subseteq Reflecting
      BY <1>1, <2>3, <2>7
    <3> QED
      BY <1>1, <2>3, <2>5, <3>1, <3>2 DEF SilenceTypes
  <2>9. SavedInv'
    <3>1. \A s \in reflecting' : s.seen \subseteq Saved
      BY <2>3, <2>7 DEF SilenceInv, SavedInv
    <3>2. looked' \subseteq Saved
      BY <2>3 DEF SilenceInv, SavedInv
    <3> QED
      BY <2>3, <2>6, <3>1, <3>2 DEF SilenceInv, SavedInv
  <2>10. LookedInv'
    <3>1. SUFFICES ASSUME NEW i \in 1 .. Len(rows'), rows'[i].what = "message"
                   PROVE  \E j \in 1 .. Len(rows') :
                            j > i /\ rows'[j].what \in {"reflection", "failure"}
      BY DEF LookedInv
    <3>2. i # Len(rows) + 1
      BY <2>4, <2>5, <3>1
    <3>3. Len(rows) + 1 \in 1 .. Len(rows') /\ Len(rows) + 1 > i
      BY <1>1, <2>5, <3>2
    <3> QED
      BY <2>4, <2>5, <3>3
  <2> QED
    BY <2>8, <2>9, <2>10 DEF SilenceInv
<1>8. CASE \E r \in reflecting : Sent(r)
  <2>1. /\ UNCHANGED <<rows, arrived, looked, aged, unsaved>> /\ reflecting' \subseteq reflecting
        /\ timers' \subseteq Nat /\ seq' \in Nat
    BY <1>2, <1>8 DEF Sent, table, counts, history
  <2> QED
    BY <2>1, SilenceKept
<1>9. CASE GoesDown
  <2>1. /\ unsaved' = {} /\ reflecting' = {} /\ aged' \in aged .. Len(rows)
        /\ timers' = {} /\ seq' = 0
        /\ UNCHANGED <<rows, arrived, looked>>
    BY <1>9 DEF GoesDown, history
  <2>2. SilenceTypes'
    BY <1>1, <2>1 DEF SilenceTypes
  <2>3. SavedInv' /\ LookedInv'
    BY <2>1 DEF SilenceInv, SavedInv, LookedInv, Saved
  <2> QED
    BY <2>2, <2>3 DEF SilenceInv
<1>10. CASE ComesUp
  <2>1. /\ UNCHANGED <<rows, arrived, looked, aged, unsaved>>
        /\ timers' \subseteq Nat /\ seq' \in Nat
    BY <1>2, <1>10 DEF ComesUp, table, counts, history
  <2>2. Looks("silence", 0) \/ UNCHANGED reflecting
    BY <1>10 DEF ComesUp
  <2>3. \A r \in reflecting' : r \in reflecting \/ (r \in Reflecting /\ r.seen \subseteq Saved)
    BY <2>2, LooksFacts
  <2> QED
    BY <2>1, <2>3, SilenceKept
<1>11. CASE UNCHANGED svars
  BY <1>1, <1>11, SilenceKept DEF svars, table, counts, history
<1> QED
  BY <1>3, <1>4, <1>5, <1>6, <1>7, <1>8, <1>9, <1>10, <1>11 DEF SilNext, Reflects

THEOREM SilenceInvariance == SilSpec => []SilenceInv
<1>1. SilInit => SilenceInv
  BY SilenceInitInv
<1>2. SilenceInv /\ [SilNext]_svars => SilenceInv'
  BY SilenceStepInv
<1> QED
  BY <1>1, <1>2, PTL DEF SilSpec

(* However messages, timers, reflections, failures and restarts come       *)
(* between each other, a silent reflection looks at a message that no      *)
(* reflection before it has looked at.                                     *)
THEOREM SilenceAloneTriggersNothing == SilSpec => OnlyForNews
<1> DEFINE Step ==
      \A r \in reflecting' \ reflecting :
        r.type = "silence" /\ r.at = "working" => ~(r.seen \subseteq looked)
<1>1. SilenceInv /\ [SilNext]_svars => [Step]_svars
  <2> SUFFICES ASSUME SilenceInv, SilNext, NEW r \in reflecting' \ reflecting,
                      r.type = "silence", r.at = "working"
               PROVE  ~(r.seen \subseteq looked)
    OBVIOUS
  <2>1. ASSUME NEW type \in {"silence", "manual"}, NEW source \in Nat, Looks(type, source) PROVE ~(r.seen \subseteq looked)
    BY <2>1, LooksFacts
  <2>2. CASE reflecting' \subseteq reflecting
    BY <2>2
  <2>3. CASE \E n \in timers : Fires(n)
    BY <2>1, <2>2, <2>3 DEF Fires, SilenceInv, SilenceTypes
  <2>4. CASE Manual
    BY <2>1, <2>4 DEF Manual
  <2>5. CASE \E s \in reflecting : Concludes(s)
    <3>1. PICK s \in reflecting : Concludes(s)
      BY <2>5
    <3>2. r = [s EXCEPT !.at = "sending"] /\ s \in Reflecting
      BY <3>1 DEF Concludes, SilenceInv, SilenceTypes
    <3>3. r.at # "working"
      BY <3>2 DEF Reflecting
    <3> QED
      BY <3>3
  <2>6. CASE ComesUp
    BY <2>1, <2>2, <2>6 DEF ComesUp
  <2>7. CASE Arrives \/ (\E m \in unsaved : Saves(m)) \/ (\E s \in reflecting : Sent(s)) \/ GoesDown
    BY <2>7 DEF Arrives, Saves, Sent, GoesDown
  <2> QED
    BY <2>3, <2>4, <2>5, <2>6, <2>7 DEF SilNext, Reflects
<1> QED
  BY <1>1, SilenceInvariance, PTL DEF SilSpec, OnlyForNews
----------------------------------------------------------------------------
(*****************************************************************************)
(* StreamRenderer: the reply to one message, and the calls of the connector  *)
(* below it (TelegramCalls).                                                 *)
(*****************************************************************************)

(* What the renderer may wait for, and what before it delivers anything.     *)
Ats == {"idle", "stream", "over", "startDraft", "startPlace", "fallback", "draft", "edit",
        "send", "inPlace", "delete", "failSend", "failEdit"}
Before == {"idle", "stream", "startDraft", "startPlace", "fallback", "draft", "edit"}
Whats == {"nothing", "progress", "error", "answer", "deleted"}
TextType    == [what : Whats, piece : Nat]
RequestType == [id : Nat, op : {"none", "send", "edit", "delete", "draft"}, text : TextType,
                msg : Nat]
MessageType == [text : TextType, by : Nat, last : Nat]

(* The types of the calls, and that only finitely many requests are under    *)
(* way or given up: so that there always is a new number.                    *)
CallsOK ==
  /\ call \in RequestType /\ wire \subseteq RequestType /\ IsFiniteSet(wire)
  /\ gaveUp \subseteq Nat /\ IsFiniteSet(gaveUp) /\ cut \subseteq gaveUp
  /\ options \in [retries : Nat, retryOnTimeout : BOOLEAN, formatted : BOOLEAN]
  /\ chat \in Seq(MessageType)
  /\ left \in 0 .. options.retries /\ taken \in BOOLEAN
  /\ result \in {"none", "waiting", "ok", "thrown"} /\ faults \in 0 .. MaxFault

(* The types of the renderer. It waits for something exactly while there is  *)
(* a call, and before it is told to end it has delivered nothing.            *)
RenderOK ==
  /\ {native, asNew, disabled, intervals} \subseteq BOOLEAN
  /\ display \in {"idle", "draft", "message", "unavailable"}
  /\ shown \in 0 .. Len(chat)
  /\ display = "message" => shown # 0
  /\ life \in {"active", "finalizing", "completed", "failed"}
  /\ goal \in {"none", "answer", "empty", "error"}
  /\ goal = "answer" => pieces # 0
  /\ pieces \in 0 .. MaxPiece /\ queued \in 0 .. MaxQueued
  /\ at \in Ats
  /\ (at \in {"idle", "stream", "over"}) = (result = "none")
  /\ intervals => life = "active"
  /\ IsOver = (at = "over")
  /\ life = "active" => at \in Before
  /\ at \in {"idle", "startDraft", "startPlace"} => life = "active"

(* No two requests share a number, none that is under way has written        *)
(* anything yet, a message is known by the request that sent it, and only    *)
(* the progress message is ever written again.                               *)
NumbersInv ==
  /\ \A r, q \in wire : r.id = q.id => r = q
  /\ \A r \in wire, m \in DOMAIN chat : r.id # chat[m].by /\ r.id # chat[m].last
  /\ \A m, n \in DOMAIN chat : chat[m].by = chat[n].by => m = n
  /\ \A m \in DOMAIN chat : m # shown => chat[m].last = chat[m].by

(* The call that is waited for was executed or is under way; what else is    *)
(* under way was given up, or deletes. A call that failed after all its      *)
(* attempts, the last of which was executed, was given up.                   *)
CallInv ==
  /\ \A r \in wire : r.id = call.id => r = call
  /\ result = "waiting" => taken \/ call \in wire
  /\ result = "ok" => taken
  /\ taken => call \notin wire
  /\ \A r \in wire : \/ r = call /\ result = "waiting"
                     \/ r.op \in {"send", "edit"} /\ r.id \in gaveUp
                     \/ r.op = "delete"
  /\ result = "thrown" /\ taken /\ call.op \in {"send", "edit"} => call.id \in gaveUp

Is(op, what) == call.op = op /\ call.text.what = what

(* What the renderer waits for is what it has called for, about the message  *)
(* that shows the progress.                                                  *)
AtInv ==
  /\ at \in {"startDraft", "draft"} => call.op = "draft"
  /\ at \in {"startPlace", "fallback"} => Is("send", "progress")
  /\ at \in {"idle", "startDraft", "startPlace", "draft", "fallback"} => shown = 0
  /\ at = "edit" => Is("edit", "progress")
  /\ at = "send" => Is("send", "answer") /\ ~options.retryOnTimeout
  /\ at = "inPlace" =>
       /\ ~asNew /\ shown # 0
       /\ \/ Is("edit", "answer") /\ call.text.piece = 1
          \/ Is("send", "answer") /\ call.text.piece > 1
  /\ at \in {"send", "inPlace"} => goal = "answer" /\ call.text.piece \in 1 .. pieces
  /\ at = "delete" => Is("delete", "deleted")
  /\ at = "failSend" => Is("send", "error")
  /\ at = "failEdit" => Is("edit", "error") \/ (call.op = "draft" /\ shown = 0)
  /\ at \in {"failSend", "failEdit"} => goal = "error"
  /\ call.op \in {"edit", "delete"} => call.msg = shown /\ shown # 0
  /\ at \notin {"delete", "over"} => (display = "message" <=> shown # 0)

(* What may still be executed: edits of the progress message, which carry no *)
(* piece but the first; a deletion only when nothing else is to come.        *)
WireInv ==
  \A r \in wire :
    /\ r.op \in {"edit", "delete"} => r.msg = shown /\ shown # 0
    /\ r.op \in {"send", "edit"} => r.text.what \in {"progress", "answer", "error"}
    /\ r.op = "delete" => r.text.what = "deleted" /\ at \in {"delete", "over"}
    /\ r.op = "edit" /\ r.text.what = "answer" => r.text.piece = 1

(* Until the end, no message is deleted.                                     *)
DeletedInv ==
  at \notin {"delete", "over"} => \A m \in DOMAIN chat : chat[m].text.what # "deleted"

(* Progress is shown by the progress message alone, but for messages that    *)
(* were given up, or whose number is about to be taken as the message's.     *)
ProgressInv ==
  \A m \in DOMAIN chat : chat[m].text.what = "progress" =>
    \/ chat[m].last \in gaveUp
    \/ m = shown
    \/ at \in {"startPlace", "fallback"} /\ taken /\ chat[m].by = call.id

(* Piece k of the answer has a message of its own, or the first is in the    *)
(* progress message (or was: an edit that was given up came later).          *)
Posted(k) == \E m \in DOMAIN chat \ {shown} : chat[m].text = Answer(k)

InPlace ==
  /\ ~asNew /\ shown # 0
  /\ chat[shown].text = Answer(1) \/ Overtaken(shown)
  /\ chat[shown].text.what # "deleted" /\ \A r \in wire : r.op # "delete"

(* A call that was executed has left its trace in the chat.                  *)
DoneInv ==
  result # "none" /\ taken =>
    /\ call.op = "send" => \E m \in DOMAIN chat \ {shown} :
                             chat[m].by = call.id /\ chat[m].text = call.text
    /\ call.op = "edit" => chat[shown].text = call.text \/ Overtaken(shown)
    /\ call.op = "delete" => chat[shown].text.what = "deleted"

(* The pieces up to the one that is being sent are there; at the end all     *)
(* are.                                                                      *)
PiecesInv ==
  /\ at = "send" => \A k \in 1 .. call.text.piece - 1 : Posted(k)
  /\ at = "inPlace" => /\ call.text.piece > 1 => InPlace
                       /\ \A k \in 2 .. call.text.piece - 1 : Posted(k)
  /\ at = "delete" /\ goal = "answer" => \A k \in 1 .. pieces : Posted(k)
  /\ goal = "answer" /\ life = "completed" =>
       \A k \in 1 .. pieces : Posted(k) \/ (k = 1 /\ InPlace)

(* What NothingLeftBehind says, from the end on.                             *)
OverInv ==
  at = "over" => \A m \in DOMAIN chat : chat[m].text.what = "progress" =>
                   \/ chat[m].last \in gaveUp
                   \/ call.op \in {"edit", "delete"} /\ call.msg = m /\ ~taken

(* The requests that sent piece k, or still may, and those of them that may  *)
(* do so twice: their caller repeats what it cannot know to be lost.         *)
Copies(k) ==
  {chat[m].by : m \in {n \in DOMAIN chat : n # shown /\ chat[n].text = Answer(k)}}
    \cup {r.id : r \in {q \in wire : q.op = "send" /\ q.text = Answer(k)}}
Blamed(k) == cut \cup (IF k > 1 /\ ~asNew THEN gaveUp ELSE {})
(* The answer is in the progress message, or on its way there.               *)
Edited ==
  \/ shown # 0 /\ chat[shown].text.what = "answer"
  \/ \E r \in wire : r.op = "edit" /\ r.text.what = "answer"

(* At most one request for each piece cannot be blamed. The first piece is   *)
(* either sent or edited in, and no piece is sent before its turn.           *)
OnceInv ==
  /\ \A k \in Nat \ {0} : \A x, y \in Copies(k) \ Blamed(k) : x = y
  /\ shown # 0 /\ chat[shown].text.what = "answer" => chat[shown].text.piece = 1
  /\ Edited => Copies(1) = {}
  /\ at = "send" => ~Edited
  /\ at = "inPlace" => Copies(1) = {}
  /\ at \in {"send", "inPlace"} =>
       /\ call.op = "send" => Copies(call.text.piece) \ Blamed(call.text.piece) \subseteq {call.id}
       /\ \A k \in Nat : k > call.text.piece => Copies(k) = {}
  /\ at \in Before => ~Edited /\ \A k \in Nat \ {0} : Copies(k) = {}

RenderInv ==
  /\ CallsOK /\ RenderOK /\ NumbersInv /\ CallInv /\ AtInv /\ WireInv /\ DeletedInv /\ ProgressInv
  /\ DoneInv /\ PiecesInv /\ OverInv /\ OnceInv

----------------------------------------------------------------------------
(* The numbers of the requests *)

LEMMA NumbersAreFinite ==
  ASSUME NEW w, IsFiniteSet(w), CallsOK
  PROVE  IsFiniteSet(Numbers(w))
<1>1. IsFiniteSet({r.id : r \in w})
  <2>. DEFINE f == [r \in w |-> r.id]
  <2>1. f \in Surjection(w, {r.id : r \in w})
    BY DEF Surjection
  <2>. QED
    BY <2>1, FS_Surjection
<1>2. IsFiniteSet(DOMAIN chat)
  <2>1. DOMAIN chat = 1 .. Len(chat) /\ Len(chat) \in Nat
    BY DEF CallsOK
  <2>. QED
    BY <2>1, FS_Interval
<1>3. IsFiniteSet({chat[m].by : m \in DOMAIN chat})
  <2>. DEFINE f == [m \in DOMAIN chat |-> chat[m].by]
  <2>1. f \in Surjection(DOMAIN chat, {chat[m].by : m \in DOMAIN chat})
    BY DEF Surjection
  <2>. QED
    BY <1>2, <2>1, FS_Surjection
<1>4. IsFiniteSet({chat[m].last : m \in DOMAIN chat})
  <2>. DEFINE f == [m \in DOMAIN chat |-> chat[m].last]
  <2>1. f \in Surjection(DOMAIN chat, {chat[m].last : m \in DOMAIN chat})
    BY DEF Surjection
  <2>. QED
    BY <1>2, <2>1, FS_Surjection
<1>5. Numbers(w) = (({call.id} \cup {r.id : r \in w}) \cup gaveUp)
                     \cup ({chat[m].by : m \in DOMAIN chat} \cup {chat[m].last : m \in DOMAIN chat})
  BY DEF Numbers
<1>6. IsFiniteSet({call.id} \cup {r.id : r \in w})
  BY <1>1, FS_Singleton, FS_Union
<1>7. IsFiniteSet(({call.id} \cup {r.id : r \in w}) \cup gaveUp)
  BY <1>6, FS_Union DEF CallsOK
<1>8. IsFiniteSet({chat[m].by : m \in DOMAIN chat} \cup {chat[m].last : m \in DOMAIN chat})
  BY <1>3, <1>4, FS_Union
<1>9. IsFiniteSet((({call.id} \cup {r.id : r \in w}) \cup gaveUp)
        \cup ({chat[m].by : m \in DOMAIN chat} \cup {chat[m].last : m \in DOMAIN chat}))
  BY <1>7, <1>8, FS_Union
<1>. QED
  BY <1>5, <1>9

(* An attempt has a number of its own. *)
LEMMA ANumberIsFree ==
  ASSUME NEW T, IsFiniteSet(T)
  PROVE  LET i == CHOOSE i \in 1 .. Cardinality(T) + 1 : i \notin T IN i \in Nat /\ i \notin T
<1>1. Cardinality(T) \in Nat
  BY FS_CardinalityType
<1>2. \E i \in 1 .. Cardinality(T) + 1 : i \notin T
  <2>. SUFFICES ASSUME 1 .. Cardinality(T) + 1 \subseteq T
                PROVE  FALSE
    OBVIOUS
  <2>1. Cardinality(1 .. Cardinality(T) + 1) = Cardinality(T) + 1
    BY <1>1, FS_Interval
  <2>2. Cardinality(1 .. Cardinality(T) + 1) <= Cardinality(T)
    BY FS_Subset
  <2>. QED
    BY <1>1, <2>1, <2>2
<1>. QED
  BY <1>1, <1>2

LEMMA AttemptIsNew ==
  ASSUME CallsOK, NEW r \in RequestType, NEW retries, NEW w, w \subseteq wire, Attempt(r, retries, w)
  PROVE  /\ call' \in RequestType
         /\ call'.op = r.op /\ call'.text = r.text /\ call'.msg = r.msg
         /\ call'.id \notin Numbers(w)
         /\ wire' = w \cup {call'}
         /\ taken' = FALSE /\ left' = retries /\ result' = "waiting"
<1>1. IsFiniteSet(w)
  BY FS_Subset DEF CallsOK
<1>. DEFINE T == Numbers(w)
            n == CHOOSE i \in 1 .. Cardinality(T) + 1 : i \notin T
<1>2. n \in Nat /\ n \notin T
  <2>1. IsFiniteSet(T)
    BY <1>1, NumbersAreFinite
  <2>. HIDE DEF T
  <2>. QED
    BY <2>1, ANumberIsFree
<1>3. call' = [r EXCEPT !.id = n]
  BY DEF Attempt
<1>. HIDE DEF n
<1>4. call' \in RequestType /\ call'.id = n
      /\ call'.op = r.op /\ call'.text = r.text /\ call'.msg = r.msg
  BY <1>2, <1>3 DEF RequestType
<1>. QED
  BY <1>2, <1>4 DEF Attempt

(* What the numbers are not. *)
LEMMA NewIsDifferent ==
  ASSUME NEW w, NEW i, i \notin Numbers(w)
  PROVE  /\ i # call.id /\ i \notin gaveUp
         /\ \A r \in w : i # r.id
         /\ \A m \in DOMAIN chat : i # chat[m].by /\ i # chat[m].last
  BY DEF Numbers

----------------------------------------------------------------------------
OptionsType == [retries : Nat, retryOnTimeout : BOOLEAN, formatted : BOOLEAN]
Ops == {"send", "edit", "delete", "draft"}

(* A call is made: what it does to the calls, and what it leaves alone.      *)
LEMMA CallIsMade ==
  ASSUME CallsOK, NumbersInv, CallInv, result # "waiting", shown' = shown,
         NEW op \in Ops, NEW text \in TextType, NEW msg \in Nat, NEW o \in OptionsType,
         Call(op, text, msg, o)
  PROVE  /\ CallsOK' /\ NumbersInv' /\ CallInv' /\ DoneInv'
         /\ call'.op = op /\ call'.text = text /\ call'.msg = msg /\ options' = o
         /\ \A m \in DOMAIN chat : chat[m].by # call'.id
         /\ \A r \in wire : r.id # call'.id
         /\ wire' = wire \cup {call'}
         /\ taken' = FALSE /\ result' = "waiting" /\ UNCHANGED <<chat, gaveUp, cut>>
<1>1. /\ call' \in RequestType /\ call'.op = op /\ call'.text = text /\ call'.msg = msg
      /\ call'.id \notin Numbers(wire)
      /\ wire' = wire \cup {call'}
      /\ taken' = FALSE /\ left' = o.retries /\ result' = "waiting" /\ options' = o
      /\ UNCHANGED <<chat, gaveUp, cut, faults>>
  <2>1. Request(0, op, text, msg) \in RequestType
        /\ Request(0, op, text, msg).op = op /\ Request(0, op, text, msg).text = text
        /\ Request(0, op, text, msg).msg = msg
    BY DEF Request, RequestType, Ops
  <2>2. Attempt(Request(0, op, text, msg), o.retries, wire) /\ options' = o
        /\ UNCHANGED <<chat, gaveUp, cut, faults>>
    BY DEF Call
  <2>. QED
    BY <2>1, <2>2, AttemptIsNew
<1>2. /\ call'.id # call.id /\ call'.id \notin gaveUp
      /\ \A r \in wire : call'.id # r.id
      /\ \A m \in DOMAIN chat : call'.id # chat[m].by /\ call'.id # chat[m].last
  BY <1>1, NewIsDifferent
<1>3. CallsOK'
  <2>1. IsFiniteSet(wire')
    BY <1>1, FS_AddElement DEF CallsOK
  <2>2. left' \in 0 .. options'.retries
    BY <1>1 DEF OptionsType
  <2>. QED
    BY <1>1, <2>1, <2>2 DEF CallsOK, OptionsType
<1>4. NumbersInv'
  BY <1>1, <1>2 DEF NumbersInv
<1>5. CallInv'
  BY <1>1, <1>2 DEF CallInv
<1>6. DoneInv'
  BY <1>1 DEF DoneInv
<1>. QED
  BY <1>1, <1>2, <1>3, <1>4, <1>5, <1>6

LEMMA NoCallIsMade ==
  ASSUME CallsOK, CallInv, result # "waiting", NoCall
  PROVE  /\ CallsOK' /\ CallInv' /\ DoneInv'
         /\ result' = "none" /\ UNCHANGED <<call, taken, wire, chat, gaveUp, cut>>
<1>1. /\ result' = "none" /\ left' = 0 /\ options' = Options(0, TRUE, FALSE)
      /\ UNCHANGED <<call, taken, wire, chat, gaveUp, cut, faults>>
  BY DEF NoCall, netVars
<1>2. CallsOK'
  BY <1>1 DEF CallsOK, Options
<1>3. CallInv'
  BY <1>1 DEF CallInv
<1>. QED
  BY <1>1, <1>2, <1>3 DEF DoneInv

(* The pieces of an answer that are on their way or there.                   *)
LEMMA CopiesOfCall ==
  ASSUME wire' = wire \cup {call'}, chat' = chat, shown' = shown
  PROVE  /\ \A k : Copies(k)' = Copies(k) \cup (IF call'.op = "send" /\ call'.text = Answer(k)
                                                THEN {call'.id} ELSE {})
         /\ Edited' <=> Edited \/ (call'.op = "edit" /\ call'.text.what = "answer")
<1>1. ASSUME NEW k
      PROVE  Copies(k)' = Copies(k) \cup (IF call'.op = "send" /\ call'.text = Answer(k)
                                          THEN {call'.id} ELSE {})
  <2>1. {r.id : r \in {q \in wire \cup {call'} : q.op = "send" /\ q.text = Answer(k)}}
          = {r.id : r \in {q \in wire : q.op = "send" /\ q.text = Answer(k)}}
             \cup (IF call'.op = "send" /\ call'.text = Answer(k) THEN {call'.id} ELSE {})
    OBVIOUS
  <2>. QED
    BY <2>1 DEF Copies, Answer, Shows
<1>2. Edited' <=> Edited \/ (call'.op = "edit" /\ call'.text.what = "answer")
  BY DEF Edited
<1>. QED
  BY <1>1, <1>2

----------------------------------------------------------------------------
(* Telegram executes a request. *)

LEMMA WhatIsExecuted ==
  ASSUME CallsOK, RenderOK, WireInv, NEW r \in wire, Takes(r)
  PROVE  /\ chat' \in Seq(MessageType) /\ DOMAIN chat \subseteq DOMAIN chat' /\ Len(chat) <= Len(chat')
         /\ \A m \in DOMAIN chat : chat'[m].by = chat[m].by /\ (m # shown => chat'[m] = chat[m])
         /\ shown # 0 => /\ shown \in DOMAIN chat
                         /\ \/ chat'[shown] = chat[shown]
                            \/ /\ r.op = "delete" \/ (r.op = "edit" /\ chat[shown].text.what # "deleted")
                               /\ chat'[shown].text = r.text /\ chat'[shown].last = r.id
         /\ \A m \in DOMAIN chat' \ DOMAIN chat :
              m # shown /\ m = Len(chat) + 1
              /\ r.op = "send" /\ chat'[m] = [text |-> r.text, by |-> r.id, last |-> r.id]
         /\ r.op = "send" => \E m \in DOMAIN chat' \ {shown} : chat'[m].by = r.id /\ chat'[m].text = r.text
         /\ r.op = "delete" => chat'[shown].text = r.text
         /\ r.op = "edit" /\ chat[shown].text.what # "deleted" =>
              chat'[shown].text = r.text /\ chat'[shown].last = r.id
<1>1. /\ chat \in Seq(MessageType) /\ DOMAIN chat = 1 .. Len(chat) /\ Len(chat) \in Nat
      /\ r \in RequestType /\ shown \in 0 .. Len(chat)
      /\ r.op \in {"edit", "delete"} => r.msg = shown /\ shown # 0
  BY DEF CallsOK, RenderOK, WireInv
<1>2. \A m \in DOMAIN chat : chat[m] \in MessageType
  BY <1>1
<1>3. CASE r.op = "send"
  <2>. DEFINE new == [text |-> r.text, by |-> r.id, last |-> r.id]
  <2>1. chat' = Append(chat, new)
    BY <1>3 DEF Takes, Effect
  <2>2. new \in MessageType
    BY <1>1 DEF MessageType, RequestType
  <2>3. /\ chat' \in Seq(MessageType) /\ DOMAIN chat' = 1 .. Len(chat) + 1
        /\ Len(chat') = Len(chat) + 1
        /\ \A m \in DOMAIN chat : chat'[m] = chat[m]
        /\ chat'[Len(chat) + 1] = new
    BY <1>1, <2>1, <2>2
  <2>. QED
    BY <1>1, <1>3, <2>3
<1>4. CASE r.op = "delete" \/ (r.op = "edit" /\ chat[shown].text.what # "deleted")
  <2>1. shown \in DOMAIN chat /\ r.msg = shown
    BY <1>1, <1>4
  <2>2. chat' = [chat EXCEPT ![shown].text = r.text, ![shown].last = r.id]
    <3>1. CASE r.op = "delete"
      BY <2>1, <3>1 DEF Takes, Effect
    <3>2. CASE r.op = "edit" /\ chat[shown].text.what # "deleted"
      BY <2>1, <3>2 DEF Takes, Effect
    <3>. QED
      BY <1>4, <3>1, <3>2
  <2>. DEFINE new == [chat[shown] EXCEPT !.text = r.text, !.last = r.id]
  <2>3. chat' = [chat EXCEPT ![shown] = new]
    BY <2>1, <2>2
  <2>4. /\ new \in MessageType /\ new.text = r.text /\ new.last = r.id
        /\ new.by = chat[shown].by
    BY <1>1, <1>2, <2>1 DEF MessageType, RequestType
  <2>. HIDE DEF new
  <2>5. /\ chat' \in Seq(MessageType) /\ DOMAIN chat' = DOMAIN chat /\ Len(chat') = Len(chat)
        /\ \A m \in DOMAIN chat : m # shown => chat'[m] = chat[m]
        /\ chat'[shown] = new
    BY <1>1, <2>1, <2>3, <2>4
  <2>. QED
    BY <1>1, <1>4, <2>1, <2>4, <2>5
<1>5. CASE r.op # "send" /\ r.op # "delete" /\ ~(r.op = "edit" /\ chat[shown].text.what # "deleted")
  <2>1. chat' = chat
    BY <1>1, <1>5 DEF Takes, Effect
  <2>. QED
    BY <1>1, <1>5, <2>1
<1>. QED
  BY <1>3, <1>4, <1>5

RenderFrame == UNCHANGED <<setting, display, shown, ending, at, stream, intervals>>

LEMMA TakesStep ==
  ASSUME RenderInv, NEW r \in wire, Takes(r), RenderFrame
  PROVE  RenderInv'
<1>1. /\ CallsOK /\ RenderOK /\ NumbersInv /\ CallInv /\ AtInv /\ WireInv /\ DeletedInv
      /\ ProgressInv /\ DoneInv /\ PiecesInv /\ OverInv /\ OnceInv
  BY DEF RenderInv
<1>2. /\ UNCHANGED <<native, asNew, display, shown, life, goal, pieces, at, queued, updates,
                     fails, disabled, intervals>>
      /\ UNCHANGED <<call, left, options, result, gaveUp, cut, faults>>
      /\ wire' = wire \ {r} /\ taken' = (taken \/ r = call)
  BY DEF RenderFrame, setting, ending, stream, Takes
<1>. DEFINE NewAre ==
       \A m \in DOMAIN chat' \ DOMAIN chat :
         m # shown /\ m = Len(chat) + 1
         /\ r.op = "send" /\ chat'[m] = [text |-> r.text, by |-> r.id, last |-> r.id]
<1>3. /\ chat' \in Seq(MessageType) /\ DOMAIN chat \subseteq DOMAIN chat' /\ Len(chat) <= Len(chat')
      /\ \A m \in DOMAIN chat : chat'[m].by = chat[m].by /\ (m # shown => chat'[m] = chat[m])
      /\ shown # 0 => /\ shown \in DOMAIN chat
                      /\ \/ chat'[shown] = chat[shown]
                         \/ /\ r.op = "delete" \/ (r.op = "edit" /\ chat[shown].text.what # "deleted")
                            /\ chat'[shown].text = r.text /\ chat'[shown].last = r.id
      /\ r.op = "send" => \E m \in DOMAIN chat' \ {shown} : chat'[m].by = r.id /\ chat'[m].text = r.text
      /\ r.op = "delete" => chat'[shown].text = r.text
      /\ r.op = "edit" /\ chat[shown].text.what # "deleted" =>
           chat'[shown].text = r.text /\ chat'[shown].last = r.id
  BY <1>1, WhatIsExecuted
<1>4. NewAre
  BY <1>1, WhatIsExecuted
<1>5. /\ DOMAIN chat = 1 .. Len(chat) /\ DOMAIN chat' = 1 .. Len(chat')
      /\ Len(chat) \in Nat /\ Len(chat') \in Nat /\ shown \in 0 .. Len(chat)
      /\ r \in RequestType /\ call \in RequestType
  BY <1>1, <1>3 DEF CallsOK, RenderOK
<1>6. CallsOK'
  <2>1. IsFiniteSet(wire')
    BY <1>1, <1>2, FS_Subset DEF CallsOK
  <2>. QED
    BY <1>1, <1>2, <1>3, <2>1 DEF CallsOK
<1>7. RenderOK'
  BY <1>1, <1>2, <1>3, <1>5 DEF RenderOK, IsOver
<1>8. NumbersInv'
  <2>1. \A m \in DOMAIN chat' : \A n \in DOMAIN chat' : chat'[m].by = chat'[n].by => m = n
    BY <1>1, <1>3, <1>4 DEF NumbersInv
  <2>2. \A m \in DOMAIN chat' : m # shown => chat'[m].last = chat'[m].by
    BY <1>1, <1>3, <1>4 DEF NumbersInv
  <2>3. \A q \in wire \ {r}, m \in DOMAIN chat' : q.id # chat'[m].by /\ q.id # chat'[m].last
    <3>. SUFFICES ASSUME NEW q \in wire \ {r}, NEW m \in DOMAIN chat'
                  PROVE  q.id # chat'[m].by /\ q.id # chat'[m].last
      OBVIOUS
    <3>1. q.id # r.id
      BY <1>1 DEF NumbersInv
    <3>2. CASE m \notin DOMAIN chat
      BY <1>4, <3>1, <3>2
    <3>3. CASE m \in DOMAIN chat /\ m # shown
      BY <1>1, <1>3, <3>3 DEF NumbersInv
    <3>4. CASE m \in DOMAIN chat /\ m = shown
      <4>1. shown # 0
        BY <1>5, <3>4
      <4>. QED
        BY <1>1, <1>3, <3>1, <3>4, <4>1 DEF NumbersInv
    <3>. QED
      BY <3>2, <3>3, <3>4
  <2>. QED
    BY <1>1, <1>2, <2>1, <2>2, <2>3 DEF NumbersInv
<1>9. CallInv'
  BY <1>1, <1>2 DEF CallInv
<1>10. AtInv'
  BY <1>1, <1>2 DEF AtInv, Is
<1>11. WireInv'
  BY <1>1, <1>2 DEF WireInv
(* A request that is not waited for *)
<1>12. \/ r = call /\ result = "waiting"
       \/ r.op \in {"send", "edit"} /\ r.id \in gaveUp
       \/ r.op = "delete"
  BY <1>1 DEF CallInv
<1>13. /\ r.op \in {"edit", "delete"} => r.msg = shown /\ shown # 0
       /\ r.op \in {"send", "edit"} => r.text.what \in {"progress", "answer", "error"}
       /\ r.op = "delete" => r.text.what = "deleted" /\ at \in {"delete", "over"}
       /\ r.op = "edit" /\ r.text.what = "answer" => r.text.piece = 1
  BY <1>1 DEF WireInv
<1>14. DeletedInv'
  <2>. SUFFICES ASSUME at \notin {"delete", "over"}, NEW m \in DOMAIN chat'
                PROVE  chat'[m].text.what # "deleted"
    BY <1>2 DEF DeletedInv
  <2>1. CASE m \notin DOMAIN chat
    BY <1>4, <1>13, <2>1
  <2>2. CASE m \in DOMAIN chat
    BY <1>1, <1>3, <1>5, <1>13, <2>2 DEF DeletedInv
  <2>. QED
    BY <2>1, <2>2
<1>15. ProgressInv'
  <2>. SUFFICES ASSUME NEW m \in DOMAIN chat', chat'[m].text.what = "progress", m # shown
                PROVE  \/ chat'[m].last \in gaveUp
                       \/ at \in {"startPlace", "fallback"} /\ taken' /\ chat'[m].by = call.id
    BY <1>2 DEF ProgressInv
  <2>1. CASE m \notin DOMAIN chat
    <3>1. /\ chat'[m].last = r.id /\ chat'[m].by = r.id /\ r.op = "send"
          /\ r.text.what = "progress"
      BY <1>4, <2>1
    <3>2. CASE r = call /\ result = "waiting"
      <4>1. at \in {"startPlace", "fallback"}
        BY <1>1, <3>1, <3>2 DEF AtInv, RenderOK, Ats, Is
      <4>. QED
        BY <1>2, <3>1, <3>2, <4>1
    <3>. QED
      BY <1>12, <3>1, <3>2
  <2>2. CASE m \in DOMAIN chat
    BY <1>1, <1>2, <1>3, <2>2 DEF ProgressInv
  <2>. QED
    BY <2>1, <2>2
<1>16. DoneInv'
  <2>. SUFFICES ASSUME result # "none", taken'
                PROVE  /\ call.op = "send" => \E m \in DOMAIN chat' \ {shown} :
                                                chat'[m].by = call.id /\ chat'[m].text = call.text
                       /\ call.op = "edit" => chat'[shown].text = call.text \/ Overtaken(shown)'
                       /\ call.op = "delete" => chat'[shown].text.what = "deleted"
    BY <1>2 DEF DoneInv
  <2>1. CASE r = call
    <3>1. call.op = "edit" => chat[shown].text.what # "deleted"
      <4>1. call.op = "edit" => at \notin {"delete", "over"} /\ shown # 0
        BY <1>1 DEF AtInv, RenderOK, Is
      <4>. QED
        BY <1>1, <1>5, <4>1 DEF DeletedInv
    <3>. QED
      BY <1>3, <1>13, <2>1, <3>1
  <2>2. CASE r # call
    <3>1. taken
      BY <1>2, <2>2
    <3>2. ASSUME call.op = "edit"
          PROVE  chat'[shown].text = call.text \/ Overtaken(shown)'
      <4>1. at \notin {"delete", "over"} /\ shown # 0 /\ shown \in DOMAIN chat
        BY <1>1, <1>5, <3>2 DEF AtInv, RenderOK, Is
      <4>2. chat[shown].text = call.text \/ Overtaken(shown)
        BY <1>1, <3>1, <3>2 DEF DoneInv
      <4>3. CASE chat'[shown] = chat[shown]
        BY <1>2, <4>2, <4>3 DEF Overtaken
      <4>4. CASE chat'[shown] # chat[shown]
        <5>1. r.op = "edit" /\ chat'[shown].last = r.id /\ r.id \in gaveUp
          BY <1>3, <1>12, <1>13, <2>2, <4>1, <4>4
        <5>2. r.id # chat[shown].by /\ chat'[shown].by = chat[shown].by
          BY <1>1, <1>3, <4>1 DEF NumbersInv
        <5>. QED
          BY <1>2, <5>1, <5>2 DEF Overtaken
      <4>. QED
        BY <4>3, <4>4
    <3>3. ASSUME call.op = "send"
          PROVE  \E m \in DOMAIN chat' \ {shown} : chat'[m].by = call.id /\ chat'[m].text = call.text
      BY <1>1, <1>3, <3>1, <3>3 DEF DoneInv
    <3>4. ASSUME call.op = "delete"
          PROVE  chat'[shown].text.what = "deleted"
      <4>1. chat[shown].text.what = "deleted" /\ shown # 0
        BY <1>1, <3>1, <3>4 DEF DoneInv, AtInv
      <4>. QED
        BY <1>1, <1>3, <1>13, <4>1
    <3>. QED
      BY <3>2, <3>3, <3>4
  <2>. QED
    BY <2>1, <2>2
<1>17. \A k : Posted(k) => Posted(k)'
  BY <1>2, <1>3 DEF Posted, Answer, Shows
<1>18. InPlace /\ ~(r = call /\ result = "waiting") => InPlace'
  <2>. SUFFICES ASSUME InPlace, ~(r = call /\ result = "waiting")
                PROVE  InPlace'
    OBVIOUS
  <2>1. r.op # "delete" /\ shown \in DOMAIN chat /\ shown # 0
    BY <1>5 DEF InPlace
  <2>2. CASE chat'[shown] = chat[shown]
    BY <1>2, <2>2 DEF InPlace, Overtaken, Answer, Shows
  <2>3. CASE chat'[shown] # chat[shown]
    <3>1. r.op = "edit" /\ chat'[shown].last = r.id /\ chat'[shown].text = r.text /\ r.id \in gaveUp
      BY <1>3, <1>12, <2>1, <2>3
    <3>2. r.id # chat[shown].by /\ chat'[shown].by = chat[shown].by
      BY <1>1, <1>3, <2>1 DEF NumbersInv
    <3>3. r.text.what # "deleted"
      BY <1>13, <3>1
    <3>. QED
      BY <1>2, <3>1, <3>2, <3>3 DEF InPlace, Overtaken
  <2>. QED
    BY <2>2, <2>3
<1>19. PiecesInv'
  <2>1. at = "inPlace" /\ call.text.piece > 1 => InPlace'
    <3>. SUFFICES ASSUME at = "inPlace", call.text.piece > 1
                  PROVE  InPlace'
      OBVIOUS
    <3>1. call.op = "send" /\ InPlace
      BY <1>1 DEF AtInv, PiecesInv, Is
    <3>2. CASE r # call
      BY <1>18, <3>1, <3>2
    <3>3. CASE r = call
      <4>1. chat'[shown] = chat[shown] /\ shown \in DOMAIN chat
        BY <1>3, <3>1, <3>3 DEF InPlace
      <4>. QED
        BY <1>2, <3>1, <4>1 DEF InPlace, Overtaken, Answer, Shows
    <3>. QED
      BY <3>2, <3>3
  <2>2. goal = "answer" /\ life = "completed" =>
          \A k \in 1 .. pieces : Posted(k)' \/ (k = 1 /\ InPlace')
    <3>. SUFFICES ASSUME goal = "answer", life = "completed", NEW k \in 1 .. pieces
                  PROVE  Posted(k)' \/ (k = 1 /\ InPlace')
      OBVIOUS
    <3>1. result # "waiting"
      BY <1>1 DEF RenderOK, IsOver
    <3>2. Posted(k) \/ (k = 1 /\ InPlace)
      BY <1>1 DEF PiecesInv
    <3>. QED
      BY <1>17, <1>18, <3>1, <3>2
  <2>. QED
    BY <1>1, <1>2, <1>17, <2>1, <2>2 DEF PiecesInv
<1>20. OverInv'
  <2>. SUFFICES ASSUME at = "over", NEW m \in DOMAIN chat', chat'[m].text.what = "progress"
                PROVE  \/ chat'[m].last \in gaveUp
                       \/ call.op \in {"edit", "delete"} /\ call.msg = m /\ ~taken'
    BY <1>2 DEF OverInv
  <2>1. result = "none"
    BY <1>1 DEF RenderOK
  <2>2. CASE m \notin DOMAIN chat
    BY <1>4, <1>12, <2>1, <2>2
  <2>3. CASE m \in DOMAIN chat /\ chat'[m] = chat[m]
    <3>1. \/ chat[m].last \in gaveUp
          \/ call.op \in {"edit", "delete"} /\ call.msg = m /\ ~taken
      BY <1>1, <2>3 DEF OverInv
    <3>2. CASE r = call /\ call.op \in {"edit", "delete"} /\ call.msg = m
      BY <1>3, <1>12, <1>13, <2>1, <2>3, <3>2
    <3>. QED
      BY <1>2, <2>3, <3>1, <3>2
  <2>4. CASE m \in DOMAIN chat /\ chat'[m] # chat[m]
    BY <1>3, <1>5, <1>12, <1>13, <2>1, <2>4
  <2>. QED
    BY <2>2, <2>3, <2>4
<1>21. \A k : Copies(k)' \subseteq Copies(k)
  <2>. SUFFICES ASSUME NEW k, NEW x \in Copies(k)'
                PROVE  x \in Copies(k)
    OBVIOUS
  <2>1. CASE \E m \in DOMAIN chat' : m # shown /\ chat'[m].text = Answer(k) /\ x = chat'[m].by
    <3>1. PICK m \in DOMAIN chat' : m # shown /\ chat'[m].text = Answer(k) /\ x = chat'[m].by
      BY <2>1
    <3>2. CASE m \in DOMAIN chat
      BY <1>3, <3>1, <3>2 DEF Copies
    <3>3. CASE m \notin DOMAIN chat
      BY <1>4, <3>1, <3>3 DEF Copies
    <3>. QED
      BY <3>2, <3>3
  <2>2. CASE \E q \in wire \ {r} : q.op = "send" /\ q.text = Answer(k) /\ x = q.id
    BY <2>2 DEF Copies
  <2>. QED
    BY <1>2, <2>1, <2>2 DEF Copies, Answer, Shows
<1>22. Edited' => Edited
  <2>. SUFFICES ASSUME Edited'
                PROVE  Edited
    OBVIOUS
  <2>1. CASE \E q \in wire \ {r} : q.op = "edit" /\ q.text.what = "answer"
    BY <2>1 DEF Edited
  <2>2. CASE shown # 0 /\ chat'[shown].text.what = "answer"
    BY <1>3, <1>13, <2>2 DEF Edited
  <2>. QED
    BY <1>2, <2>1, <2>2 DEF Edited
<1>23. \A k : Blamed(k)' = Blamed(k)
  BY <1>2 DEF Blamed
<1>24. OnceInv'
  <2>1. shown # 0 /\ chat'[shown].text.what = "answer" => chat'[shown].text.piece = 1
    BY <1>1, <1>3, <1>13 DEF OnceInv
  <2>. QED
    BY <1>1, <1>2, <1>21, <1>22, <1>23, <2>1 DEF OnceInv
<1>. QED
  BY <1>6, <1>7, <1>8, <1>9, <1>10, <1>11, <1>14, <1>15, <1>16, <1>19, <1>20, <1>24 DEF RenderInv

LEMMA ReturnsStep ==
  ASSUME RenderInv, Returns, RenderFrame
  PROVE  RenderInv'
<1>1. /\ UNCHANGED <<native, asNew, display, shown, life, goal, pieces, at, queued, updates,
                     fails, disabled, intervals>>
      /\ UNCHANGED <<call, taken, left, options, wire, chat, gaveUp, cut, faults>>
      /\ result = "waiting" /\ taken /\ result' = "ok"
  BY DEF RenderFrame, setting, ending, stream, Returns, Waiting, netVars
<1>. USE <1>1 DEF RenderInv
<1>2. CallsOK' /\ NumbersInv' /\ WireInv' /\ DeletedInv' /\ ProgressInv'
  BY DEF CallsOK, NumbersInv, WireInv, DeletedInv, ProgressInv
<1>3. RenderOK'
  BY DEF RenderOK, IsOver
<1>4. CallInv'
  BY DEF CallInv
<1>5. AtInv'
  BY DEF AtInv, Is
<1>6. DoneInv'
  BY DEF DoneInv, Overtaken
<1>7. PiecesInv'
  BY DEF PiecesInv, Posted, InPlace, Overtaken
<1>8. OverInv'
  BY DEF OverInv
<1>9. OnceInv'
  <2>1. /\ \A k : Copies(k)' = Copies(k) /\ Blamed(k)' = Blamed(k)
        /\ Edited' => Edited
    BY <1>1 DEF Copies, Blamed, Edited, Answer, Shows
  <2>. QED
    BY <1>1, <2>1 DEF OnceInv
<1>. QED
  BY <1>2, <1>3, <1>4, <1>5, <1>6, <1>7, <1>8, <1>9

(* An attempt fails, and there is one more or the call has failed.           *)
LEMMA RetriesOrThrows ==
  ASSUME CallsOK, NEW retryable \in BOOLEAN, NEW w, w \subseteq wire, RetryOrThrow(retryable, w)
  PROVE  /\ options' = options /\ left' \in 0 .. options.retries
         /\ \/ /\ retryable
               /\ call' \in RequestType
               /\ call'.op = call.op /\ call'.text = call.text /\ call'.msg = call.msg
               /\ call'.id # call.id /\ call'.id \notin Numbers(w)
               /\ wire' = w \cup {call'} /\ taken' = FALSE /\ result' = "waiting"
            \/ call' = call /\ wire' = w /\ taken' = taken /\ result' = "thrown"
<1>1. CASE retryable /\ left > 0
  <2>1. Attempt(call, left - 1, w) /\ options' = options
    BY <1>1 DEF RetryOrThrow
  <2>2. left - 1 \in 0 .. options.retries
    BY <1>1 DEF CallsOK
  <2>3. call \in RequestType
    BY DEF CallsOK
  <2>4. /\ call' \in RequestType
        /\ call'.op = call.op /\ call'.text = call.text /\ call'.msg = call.msg
        /\ call'.id \notin Numbers(w)
        /\ wire' = w \cup {call'}
        /\ taken' = FALSE /\ left' = left - 1 /\ result' = "waiting"
    BY <2>1, <2>3, AttemptIsNew
  <2>5. call'.id # call.id
    BY <2>4, NewIsDifferent
  <2>. QED
    BY <1>1, <2>1, <2>2, <2>4, <2>5
<1>2. CASE ~(retryable /\ left > 0)
  <2>1. result' = "thrown" /\ wire' = w /\ UNCHANGED <<call, taken, left, options>>
    BY <1>2 DEF RetryOrThrow
  <2>. QED
    BY <2>1 DEF CallsOK
<1>. QED
  BY <1>1, <1>2

AttemptEnds(w) ==
  /\ result = "waiting"
  /\ chat' = chat /\ gaveUp \subseteq gaveUp' /\ gaveUp' \subseteq gaveUp \cup {call.id}
  /\ cut \subseteq cut' /\ cut' \subseteq gaveUp'
  /\ options' \in OptionsType /\ options'.retryOnTimeout = options.retryOnTimeout
  /\ left' \in 0 .. options'.retries /\ faults' \in 0 .. MaxFault
  /\ call \in w => call.op # "draft"
  /\ (taken \/ call \in w) /\ call.op \in {"send", "edit"} => call.id \in gaveUp'
  /\ \/ /\ (taken \/ call \in w) /\ call.op \in {"send", "edit"} =>
             call.id \in cut' \/ options.retryOnTimeout
        /\ call' \in RequestType
        /\ call'.op = call.op /\ call'.text = call.text /\ call'.msg = call.msg
        /\ call'.id # call.id /\ call'.id \notin Numbers(w)
        /\ wire' = w \cup {call'} /\ taken' = FALSE /\ result' = "waiting"
     \/ call' = call /\ wire' = w /\ taken' = taken /\ result' = "thrown"

LEMMA AnAttemptEnds ==
  ASSUME CallsOK, CallInv, IsRefused \/ ParseRefused \/ ConnectionBreaks \/ TimesOut
  PROVE  AttemptEnds(wire) \/ AttemptEnds(wire \ {call})
<1>1. /\ gaveUp \subseteq Nat /\ cut \subseteq gaveUp /\ faults \in 0 .. MaxFault
      /\ options \in OptionsType /\ call \in RequestType
      /\ taken => call \notin wire
  BY DEF CallsOK, CallInv, OptionsType
<1>2. Writing \subseteq {call.id} /\ (call.op \in {"send", "edit"} => call.id \in Writing)
  BY DEF Writing
<1>3. Fault => faults' \in 0 .. MaxFault
  BY <1>1, FaultAssumption DEF Fault
<1>4. CASE IsRefused
  <2>1. PICK retryable \in BOOLEAN : RetryOrThrow(retryable, wire \ {call})
    BY <1>4 DEF IsRefused
  <2>2. result = "waiting" /\ call \in wire /\ Fault /\ UNCHANGED <<chat, gaveUp, cut>>
    BY <1>4 DEF IsRefused, Waiting
  <2>. DEFINE w == wire \ {call}
  <2>. HIDE DEF w
  <2>3. /\ options' = options /\ left' \in 0 .. options.retries
        /\ \/ /\ call' \in RequestType
              /\ call'.op = call.op /\ call'.text = call.text /\ call'.msg = call.msg
              /\ call'.id # call.id /\ call'.id \notin Numbers(w)
              /\ wire' = w \cup {call'} /\ taken' = FALSE /\ result' = "waiting"
           \/ call' = call /\ wire' = w /\ taken' = taken /\ result' = "thrown"
    <3>1. w \subseteq wire /\ RetryOrThrow(retryable, w)
      BY <2>1 DEF w
    <3>. QED
      BY <3>1, RetriesOrThrows
  <2>4. ~taken /\ call \notin w
    BY <1>1, <2>2 DEF w
  <2>5. /\ call \in w => call.op # "draft"
        /\ (taken \/ call \in w) /\ call.op \in {"send", "edit"} =>
             call.id \in gaveUp' /\ (call.id \in cut' \/ options.retryOnTimeout)
    BY <2>4
  <2>6. AttemptEnds(w)
    BY <1>1, <1>3, <2>2, <2>3, <2>5 DEF AttemptEnds
  <2>. QED
    BY <2>6 DEF w
<1>5. CASE ParseRefused
  <2>1. /\ result = "waiting" /\ call \in wire /\ Fault /\ UNCHANGED <<chat, gaveUp, cut>>
        /\ options' = [options EXCEPT !.formatted = FALSE]
        /\ Attempt(call, options.retries, wire \ {call})
    BY <1>5 DEF ParseRefused, Waiting
  <2>2. /\ options' \in OptionsType /\ options'.retryOnTimeout = options.retryOnTimeout
        /\ options.retries \in 0 .. options'.retries
    <3>1. options' \in OptionsType
      BY <1>1, <2>1 DEF OptionsType
    <3>2. options'.retryOnTimeout = options.retryOnTimeout
      BY <1>1, <2>1 DEF OptionsType
    <3>3. options'.retries = options.retries /\ options.retries \in Nat
      BY <1>1, <2>1 DEF OptionsType
    <3>. QED
      BY <3>1, <3>2, <3>3
  <2>3. /\ call' \in RequestType
        /\ call'.op = call.op /\ call'.text = call.text /\ call'.msg = call.msg
        /\ call'.id \notin Numbers(wire \ {call})
        /\ wire' = (wire \ {call}) \cup {call'}
        /\ taken' = FALSE /\ left' = options.retries /\ result' = "waiting"
    BY <1>1, <2>1, AttemptIsNew
  <2>4. call'.id # call.id
    BY <2>3, NewIsDifferent
  <2>. QED
    BY <1>1, <1>3, <2>1, <2>2, <2>3, <2>4 DEF AttemptEnds
<1>6. CASE ConnectionBreaks
  <2>. DEFINE w == wire \ {r \in {call} : r.op = "draft"}
  <2>1. /\ result = "waiting" /\ Fault /\ chat' = chat
        /\ gaveUp' = gaveUp \cup Writing /\ cut' = cut \cup Writing
        /\ RetryOrThrow(TRUE, w)
    BY <1>6 DEF ConnectionBreaks, Waiting
  <2>2. w \in {wire, wire \ {call}} /\ (call \in w => call.op # "draft")
    OBVIOUS
  <2>. HIDE DEF w
  <2>3. /\ options' = options /\ left' \in 0 .. options.retries
        /\ \/ /\ call' \in RequestType
              /\ call'.op = call.op /\ call'.text = call.text /\ call'.msg = call.msg
              /\ call'.id # call.id /\ call'.id \notin Numbers(w)
              /\ wire' = w \cup {call'} /\ taken' = FALSE /\ result' = "waiting"
           \/ call' = call /\ wire' = w /\ taken' = taken /\ result' = "thrown"
    BY <2>1, <2>2, RetriesOrThrows
  <2>4. AttemptEnds(w)
    BY <1>1, <1>2, <1>3, <2>1, <2>2, <2>3 DEF AttemptEnds
  <2>. QED
    BY <2>2, <2>4
<1>7. CASE TimesOut
  <2>1. /\ result = "waiting" /\ chat' = chat /\ cut' = cut
        /\ gaveUp' = gaveUp \cup (IF taken \/ call \in wire' THEN Writing ELSE {})
    BY <1>7 DEF TimesOut, LimitRuns, Waiting
  <2>2. PICK w \in {wire, wire \ {call}} :
          /\ RetryOrThrow(options.retryOnTimeout, w) /\ (faults' = faults \/ Fault)
          /\ call \in w => call.op # "draft"
    BY <1>7 DEF TimesOut, TimeOutRetried
  <2>3. /\ options' = options /\ left' \in 0 .. options.retries
        /\ \/ /\ options.retryOnTimeout
              /\ call' \in RequestType
              /\ call'.op = call.op /\ call'.text = call.text /\ call'.msg = call.msg
              /\ call'.id # call.id /\ call'.id \notin Numbers(w)
              /\ wire' = w \cup {call'} /\ taken' = FALSE /\ result' = "waiting"
           \/ call' = call /\ wire' = w /\ taken' = taken /\ result' = "thrown"
    <3>1. options.retryOnTimeout \in BOOLEAN
      BY <1>1 DEF OptionsType
    <3>. QED
      BY <2>2, <3>1, RetriesOrThrows
  <2>4. AttemptEnds(w)
    BY <1>1, <1>2, <1>3, <2>1, <2>2, <2>3 DEF AttemptEnds
  <2>. QED
    BY <2>2, <2>4
<1>. QED
  BY <1>4, <1>5, <1>6, <1>7

LEMMA AttemptEndsStep ==
  ASSUME RenderInv, NEW w \in {wire, wire \ {call}}, AttemptEnds(w), RenderFrame
  PROVE  RenderInv'
<1>1. /\ CallsOK /\ RenderOK /\ NumbersInv /\ CallInv /\ AtInv /\ WireInv /\ DeletedInv
      /\ ProgressInv /\ DoneInv /\ PiecesInv /\ OverInv /\ OnceInv
  BY DEF RenderInv
<1>2. UNCHANGED <<native, asNew, display, shown, life, goal, pieces, at, queued, updates,
                  fails, disabled, intervals>>
  BY DEF RenderFrame, setting, ending, stream
<1>3. /\ result = "waiting" /\ result' \in {"waiting", "thrown"}
      /\ chat' = chat /\ gaveUp \subseteq gaveUp' /\ gaveUp' \subseteq gaveUp \cup {call.id}
      /\ cut \subseteq cut' /\ cut' \subseteq gaveUp'
      /\ options' \in OptionsType /\ options'.retryOnTimeout = options.retryOnTimeout
      /\ left' \in 0 .. options'.retries /\ faults' \in 0 .. MaxFault
      /\ call \in w => call.op # "draft"
      /\ (taken \/ call \in w) /\ call.op \in {"send", "edit"} => call.id \in gaveUp'
      /\ call' \in RequestType /\ call \in RequestType
      /\ call'.op = call.op /\ call'.text = call.text /\ call'.msg = call.msg
  BY <1>1 DEF AttemptEnds, CallsOK
<1>4. \/ /\ (taken \/ call \in w) /\ call.op \in {"send", "edit"} =>
              call.id \in cut' \/ options.retryOnTimeout
         /\ call'.id # call.id /\ call'.id \notin Numbers(w)
         /\ wire' = w \cup {call'} /\ taken' = FALSE /\ result' = "waiting"
      \/ call' = call /\ wire' = w /\ taken' = taken /\ result' = "thrown"
  BY DEF AttemptEnds
<1>5. CASE call' = call /\ wire' = w /\ taken' = taken /\ result' = "thrown"
  <2>1. w \subseteq wire
    OBVIOUS
  <2>2. CallsOK'
    <3>1. IsFiniteSet(w)
      BY <1>1, <2>1, FS_Subset DEF CallsOK
    <3>2. IsFiniteSet(gaveUp')
      <4>1. IsFiniteSet(gaveUp \cup {call.id})
        BY <1>1, FS_AddElement DEF CallsOK
      <4>. QED
        BY <1>3, <4>1, FS_Subset
    <3>3. gaveUp' \subseteq Nat
      BY <1>1, <1>3 DEF CallsOK, RequestType
    <3>. QED
      BY <1>1, <1>3, <1>5, <2>1, <3>1, <3>2, <3>3 DEF CallsOK, OptionsType
  <2>3. RenderOK'
    BY <1>1, <1>2, <1>3, <1>5 DEF RenderOK, IsOver
  <2>4. NumbersInv' /\ WireInv' /\ DeletedInv'
    BY <1>1, <1>2, <1>3, <1>5, <2>1 DEF NumbersInv, WireInv, DeletedInv
  <2>5. CallInv'
    <3>1. call.op # "none"
      BY <1>1, <1>3 DEF AtInv, RenderOK, Ats, Is
    <3>2. call \in w => call.op \in {"send", "edit", "delete"}
      BY <1>3, <3>1 DEF RequestType
    <3>. QED
      BY <1>1, <1>3, <1>5, <2>1, <3>2 DEF CallInv
  <2>6. AtInv'
    BY <1>1, <1>2, <1>3, <1>5 DEF AtInv, Is
  <2>7. ProgressInv'
    BY <1>1, <1>2, <1>3, <1>5 DEF ProgressInv
  <2>8. DoneInv'
    BY <1>1, <1>2, <1>3, <1>5 DEF DoneInv, Overtaken
  <2>9. PiecesInv' /\ OverInv'
    BY <1>1, <1>2, <1>3, <1>5, <2>1 DEF PiecesInv, Posted, InPlace, Overtaken, OverInv
  <2>10. OnceInv'
    <3>1. \A k : Copies(k)' \subseteq Copies(k) /\ Blamed(k) \subseteq Blamed(k)'
      BY <1>2, <1>3, <1>5, <2>1 DEF Copies, Blamed, Answer, Shows
    <3>2. Edited' => Edited
      BY <1>2, <1>3, <1>5, <2>1 DEF Edited
    <3>. QED
      BY <1>1, <1>2, <1>3, <1>5, <3>1, <3>2 DEF OnceInv
  <2>. QED
    BY <2>2, <2>3, <2>4, <2>5, <2>6, <2>7, <2>8, <2>9, <2>10 DEF RenderInv
<1>6. CASE /\ (taken \/ call \in w) /\ call.op \in {"send", "edit"} =>
                call.id \in cut' \/ options.retryOnTimeout
           /\ call'.id # call.id /\ call'.id \notin Numbers(w)
           /\ wire' = w \cup {call'} /\ taken' = FALSE /\ result' = "waiting"
  <2>1. /\ call'.id # call.id /\ call'.id \notin gaveUp /\ call'.id \notin gaveUp'
        /\ \A r \in wire : call'.id # r.id
        /\ \A m \in DOMAIN chat : call'.id # chat[m].by /\ call'.id # chat[m].last
    <3>1. /\ call'.id # call.id /\ call'.id \notin gaveUp
          /\ \A r \in w : call'.id # r.id
          /\ \A m \in DOMAIN chat : call'.id # chat[m].by /\ call'.id # chat[m].last
      BY <1>6, NewIsDifferent
    <3>. QED
      BY <1>3, <3>1
  <2>2. w \subseteq wire
    OBVIOUS
  <2>3. CallsOK'
    <3>1. IsFiniteSet(wire')
      BY <1>1, <1>6, <2>2, FS_Subset, FS_AddElement DEF CallsOK
    <3>2. IsFiniteSet(gaveUp')
      <4>1. IsFiniteSet(gaveUp \cup {call.id})
        BY <1>1, FS_AddElement DEF CallsOK
      <4>. QED
        BY <1>3, <4>1, FS_Subset
    <3>3. gaveUp' \subseteq Nat
      BY <1>1, <1>3 DEF CallsOK, RequestType
    <3>. QED
      BY <1>1, <1>3, <1>6, <2>2, <3>1, <3>2, <3>3 DEF CallsOK, OptionsType
  <2>4. RenderOK'
    BY <1>1, <1>2, <1>3, <1>6 DEF RenderOK, IsOver
  <2>5. NumbersInv'
    BY <1>1, <1>2, <1>3, <1>6, <2>1, <2>2 DEF NumbersInv
  <2>6. call.op # "none"
    BY <1>1, <1>3 DEF AtInv, RenderOK, Ats, Is
  <2>7. CallInv'
    <3>1. call \in w => call.op \in {"send", "edit", "delete"}
      BY <1>3, <2>6 DEF RequestType
    <3>. QED
      BY <1>1, <1>3, <1>6, <2>1, <2>2, <3>1 DEF CallInv
  <2>8. AtInv'
    BY <1>1, <1>2, <1>3 DEF AtInv, Is
  <2>9. call.op \in {"edit", "delete"} => call.msg = shown /\ shown # 0
    BY <1>1 DEF AtInv
  <2>10. /\ call.op \in {"send", "edit"} => call.text.what \in {"progress", "answer", "error"}
         /\ call.op = "delete" => call.text.what = "deleted" /\ at \in {"delete", "over"}
         /\ call.op = "edit" /\ call.text.what = "answer" => call.text.piece = 1
    BY <1>1, <1>3 DEF AtInv, RenderOK, Ats, Is
  <2>11. WireInv'
    BY <1>1, <1>2, <1>3, <1>6, <2>2, <2>9, <2>10 DEF WireInv
  <2>12. DeletedInv'
    BY <1>1, <1>2, <1>3 DEF DeletedInv
  <2>13. ProgressInv'
    BY <1>1, <1>2, <1>3, <1>6 DEF ProgressInv, NumbersInv, AtInv, Is
  <2>14. DoneInv'
    BY <1>6 DEF DoneInv
  <2>15. PiecesInv'
    <3>1. life # "completed" /\ at # "over"
      BY <1>1, <1>3 DEF RenderOK, IsOver
    <3>2. at = "inPlace" => call'.op # "delete"
      BY <1>1, <1>3 DEF AtInv, Is
    <3>3. at = "inPlace" /\ InPlace => InPlace'
      BY <1>2, <1>3, <1>6, <2>2, <3>2 DEF InPlace, Overtaken, Answer, Shows
    <3>4. \A k : Posted(k)' = Posted(k)
      BY <1>2, <1>3 DEF Posted, Answer, Shows
    <3>. QED
      BY <1>1, <1>2, <1>3, <3>1, <3>3, <3>4 DEF PiecesInv
  <2>16. OverInv'
    BY <1>1, <1>2, <1>3 DEF OverInv, RenderOK
  <2>17. /\ \A k : Copies(k)' \subseteq Copies(k) \cup (IF call.op = "send" /\ call.text = Answer(k)
                                                       THEN {call'.id} ELSE {})
         /\ \A k : Blamed(k) \subseteq Blamed(k)'
    BY <1>2, <1>3, <1>6, <2>2 DEF Copies, Blamed, Answer, Shows
  <2>18. Edited' => Edited \/ (call.op = "edit" /\ call.text.what = "answer")
    BY <1>2, <1>3, <1>6, <2>2 DEF Edited
  (* What the attempt has sent so far is its caller's to answer for.       *)
  <2>19. ASSUME NEW k, call.op = "send", call.text = Answer(k), call.id \in Copies(k)'
         PROVE  call.id \in Blamed(k)'
    <3>1. taken \/ call \in w
      <4>1. CASE \E m \in DOMAIN chat : chat[m].by = call.id
        BY <1>1, <1>3, <4>1 DEF NumbersInv, CallInv
      <4>2. CASE \E r \in w : r.id = call.id
        BY <1>1, <2>2, <4>2 DEF CallInv
      <4>. QED
        BY <1>2, <1>3, <1>6, <2>19, <4>1, <4>2 DEF Copies
    <3>2. at \in {"send", "inPlace"}
      BY <1>1, <1>3, <2>19 DEF AtInv, RenderOK, Ats, Is, Answer, Shows
    <3>3. CASE at = "send"
      BY <1>1, <1>6, <2>19, <3>1, <3>3 DEF AtInv, Blamed
    <3>4. CASE at = "inPlace"
      <4>1. k > 1 /\ ~asNew
        BY <1>1, <2>19, <3>4 DEF AtInv, Is, Answer, Shows
      <4>. QED
        BY <1>2, <1>3, <2>19, <3>1, <4>1 DEF Blamed
    <3>. QED
      BY <3>2, <3>3, <3>4
  <2>20. ASSUME call.op = "send", call.text.what = "answer"
         PROVE  /\ at \in {"send", "inPlace"} /\ call.text.piece \in Nat \ {0}
                /\ call.text = Answer(call.text.piece)
                /\ Copies(call.text.piece) \ Blamed(call.text.piece) \subseteq {call.id}
                /\ at = "inPlace" => call.text.piece > 1
    <3>1. at \in {"send", "inPlace"}
      BY <1>1, <1>3, <2>20 DEF AtInv, RenderOK, Ats, Is
    <3>2. call.text.piece \in Nat \ {0} /\ (at = "inPlace" => call.text.piece > 1)
      BY <1>1, <2>20, <3>1 DEF AtInv, RenderOK, Is
    <3>3. call.text = Answer(call.text.piece)
      BY <1>3, <2>20 DEF RequestType, TextType, Answer, Shows
    <3>4. Copies(call.text.piece) \ Blamed(call.text.piece) \subseteq {call.id}
      BY <1>1, <2>20, <3>1 DEF OnceInv
    <3>. QED
      BY <3>1, <3>2, <3>3, <3>4
  <2>21. \A k, i : Answer(k) = Answer(i) => k = i
    BY DEF Answer, Shows
  <2>22. \A k : Answer(k).what = "answer"
    BY DEF Answer, Shows
  <2>23. ASSUME NEW k \in Nat \ {0}, call.op = "send", call.text = Answer(k)
         PROVE  Copies(k)' \ Blamed(k)' \subseteq {call'.id}
    <3>1. Copies(k) \ Blamed(k) \subseteq {call.id}
      BY <2>20, <2>21, <2>22, <2>23
    <3>. QED
      BY <2>17, <2>19, <2>23, <3>1
  <2>24. OnceInv'
    <3>1. \A k \in Nat \ {0} : \A x, y \in Copies(k)' \ Blamed(k)' : x = y
      <4>. SUFFICES ASSUME NEW k \in Nat \ {0}, NEW x \in Copies(k)' \ Blamed(k)',
                           NEW y \in Copies(k)' \ Blamed(k)'
                    PROVE  x = y
        OBVIOUS
      <4>1. CASE call.op = "send" /\ call.text = Answer(k)
        BY <2>23, <4>1
      <4>2. CASE ~(call.op = "send" /\ call.text = Answer(k))
        BY <1>1, <2>17, <4>2 DEF OnceInv
      <4>. QED
        BY <4>1, <4>2
    <3>2. shown # 0 /\ chat[shown].text.what = "answer" => chat[shown].text.piece = 1
      BY <1>1 DEF OnceInv
    <3>3. Edited' => Copies(1)' = {}
      BY <1>1, <1>3, <2>10, <2>17, <2>18, <2>20, <2>21, <2>22 DEF OnceInv, AtInv, RenderOK, Ats, Is
    <3>4. at = "send" => ~Edited'
      BY <1>1, <2>18 DEF OnceInv, AtInv, Is
    <3>5. at = "inPlace" => Copies(1)' = {}
      BY <1>1, <2>17, <2>20, <2>21, <2>22 DEF OnceInv
    <3>6. at \in {"send", "inPlace"} =>
            /\ call.op = "send" => Copies(call.text.piece)' \ Blamed(call.text.piece)' \subseteq {call'.id}
            /\ \A k \in Nat : k > call.text.piece => Copies(k)' = {}
      <4>. SUFFICES ASSUME at \in {"send", "inPlace"}
                    PROVE  /\ call.op = "send" =>
                                Copies(call.text.piece)' \ Blamed(call.text.piece)' \subseteq {call'.id}
                           /\ \A k \in Nat : k > call.text.piece => Copies(k)' = {}
        OBVIOUS
      <4>1. call.text.what = "answer" /\ call.text.piece \in Nat
        BY <1>1 DEF AtInv, RenderOK, Is
      <4>2. call.op = "send" =>
              Copies(call.text.piece)' \ Blamed(call.text.piece)' \subseteq {call'.id}
        <5>. SUFFICES ASSUME call.op = "send"
                      PROVE  Copies(call.text.piece)' \ Blamed(call.text.piece)' \subseteq {call'.id}
          OBVIOUS
        <5>1. PICK i \in Nat \ {0} : i = call.text.piece /\ call.text = Answer(i)
          BY <2>20, <4>1
        <5>2. Copies(i)' \ Blamed(i)' \subseteq {call'.id} /\ i = call'.text.piece
          BY <1>3, <2>23, <5>1
        <5>. QED
          BY <5>2 DEF Copies, Blamed
      <4>3. ASSUME NEW k \in Nat, k > call.text.piece
            PROVE  Copies(k)' = {}
        <5>1. call.text # Answer(k)
          BY <4>1, <4>3 DEF Answer, Shows
        <5>2. Copies(k) = {}
          BY <1>1, <4>3 DEF OnceInv
        <5>. QED
          BY <2>17, <5>1, <5>2
      <4>. QED
        BY <4>2, <4>3
    <3>7. at \in Before => ~Edited' /\ \A k \in Nat \ {0} : Copies(k)' = {}
      BY <1>1, <1>3, <2>17, <2>18, <2>22 DEF OnceInv, AtInv, RenderOK, Is, Before
    <3>. QED
      BY <1>2, <1>3, <3>1, <3>2, <3>3, <3>4, <3>5, <3>6, <3>7 DEF OnceInv
  <2>. QED
    BY <2>3, <2>4, <2>5, <2>7, <2>8, <2>11, <2>12, <2>13, <2>14, <2>15, <2>16, <2>24 DEF RenderInv
<1>. QED
  BY <1>4, <1>5, <1>6

----------------------------------------------------------------------------
(* The renderer goes on. *)

LEMMA ProgressIsCalled ==
  ASSUME RenderInv, at \in Before, at' \in Before,
         UNCHANGED <<life, goal, pieces, asNew, shown, chat, gaveUp, cut>>,
         \/ wire' = wire
         \/ /\ wire' = wire \cup {call'} /\ call'.text = Progress
            /\ call'.op \in {"send", "edit", "draft"}
            /\ call'.op = "edit" => call'.msg = shown /\ shown # 0
  PROVE  WireInv' /\ DeletedInv' /\ PiecesInv' /\ OverInv' /\ OnceInv'
<1>1. /\ RenderOK /\ WireInv /\ DeletedInv /\ PiecesInv /\ OnceInv
      /\ at \notin {"delete", "over", "send", "inPlace"}
      /\ at' \notin {"delete", "over", "send", "inPlace"}
  BY DEF RenderInv, Before
<1>2. WireInv'
  <2>1. Progress.what = "progress"
    BY DEF Progress, Shows
  <2>2. ASSUME NEW r \in wire
        PROVE  /\ r.op \in {"edit", "delete"} => r.msg = shown /\ shown # 0
               /\ r.op \in {"send", "edit"} => r.text.what \in {"progress", "answer", "error"}
               /\ r.op # "delete"
               /\ r.op = "edit" /\ r.text.what = "answer" => r.text.piece = 1
    BY <1>1 DEF WireInv
  <2>. QED
    BY <2>1, <2>2 DEF WireInv
<1>3. DeletedInv'
  BY <1>1 DEF DeletedInv
<1>4. PiecesInv'
  BY <1>1 DEF PiecesInv, RenderOK, IsOver
<1>5. OverInv'
  BY <1>1 DEF OverInv
<1>6. /\ \A k : Copies(k)' = Copies(k) /\ Blamed(k)' = Blamed(k)
      /\ Edited' => Edited
  <2>1. \A k : Answer(k) # Progress
    BY DEF Answer, Progress, Shows
  <2>2. Progress.what # "answer"
    BY DEF Progress, Shows
  <2>3. CASE wire' = wire
    BY <2>3 DEF Copies, Blamed, Edited, Answer, Shows
  <2>4. CASE wire' = wire \cup {call'} /\ call'.text = Progress
    <3>1. \A k : Blamed(k)' = Blamed(k)
      BY DEF Blamed
    <3>. QED
      BY <2>1, <2>2, <2>4, <3>1, CopiesOfCall
  <2>. QED
    BY <2>3, <2>4
<1>7. OnceInv'
  BY <1>1, <1>6 DEF OnceInv
<1>. QED
  BY <1>2, <1>3, <1>4, <1>5, <1>7

LEMMA NotWaited ==
  ASSUME RenderOK, at \in {"idle", "stream", "over"} \/ Ok \/ Thrown
  PROVE  result # "waiting"
  BY DEF RenderOK, Ok, Thrown

LEMMA RendererTypes ==
  /\ {Progress, Failure, Shows("deleted", 0)} \subseteq TextType
  /\ \A k \in Nat : Answer(k) \in TextType
  /\ \A n \in Nat, b, c \in BOOLEAN : Options(n, b, c) \in OptionsType
  /\ ApiRetryCount \in Nat
  BY CallsAssumption DEF Progress, Failure, Shows, Answer, TextType, Whats, Options, OptionsType

LEMMA DraftIsSent ==
  ASSUME RenderInv, result # "waiting", shown' = shown, SendDraft
  PROVE  /\ CallsOK' /\ NumbersInv' /\ CallInv' /\ DoneInv'
         /\ call'.op = "draft" /\ call'.text = Progress /\ wire' = wire \cup {call'}
         /\ taken' = FALSE /\ result' = "waiting" /\ UNCHANGED <<chat, gaveUp, cut>>
  BY CallIsMade, RendererTypes DEF SendDraft, RenderInv, Ops

LEMMA PlaceholderIsSent ==
  ASSUME RenderInv, result # "waiting", shown' = shown, SendPlaceholder
  PROVE  /\ CallsOK' /\ NumbersInv' /\ CallInv' /\ DoneInv'
         /\ call'.op = "send" /\ call'.text = Progress /\ wire' = wire \cup {call'}
         /\ taken' = FALSE /\ result' = "waiting" /\ UNCHANGED <<chat, gaveUp, cut>>
  BY CallIsMade, RendererTypes DEF SendPlaceholder, RenderInv, Ops

LEMMA StartStep ==
  ASSUME RenderInv, Start
  PROVE  RenderInv'
<1>1. /\ at = "idle" /\ result = "none" /\ life = "active" /\ shown = 0
      /\ UNCHANGED <<native, asNew, display, shown, life, goal, pieces, queued, updates,
                     fails, disabled, intervals>>
  BY DEF RenderInv, RenderOK, AtInv, Start, setting, ending, stream
<1>2. /\ CallsOK' /\ NumbersInv' /\ CallInv' /\ DoneInv'
      /\ call'.text = Progress /\ wire' = wire \cup {call'}
      /\ taken' = FALSE /\ result' = "waiting" /\ UNCHANGED <<chat, gaveUp, cut>>
      /\ \/ at' = "startDraft" /\ call'.op = "draft"
         \/ at' = "startPlace" /\ call'.op = "send"
  BY <1>1, DraftIsSent, PlaceholderIsSent DEF Start
<1>3. RenderOK'
  BY <1>1, <1>2 DEF RenderInv, RenderOK, IsOver, Ats, Before
<1>4. AtInv'
  BY <1>1, <1>2 DEF RenderInv, AtInv, Is, Progress, Shows
<1>5. WireInv' /\ DeletedInv' /\ PiecesInv' /\ OverInv' /\ OnceInv'
  BY <1>1, <1>2, ProgressIsCalled DEF Before
<1>6. ProgressInv'
  BY <1>1, <1>2 DEF RenderInv, ProgressInv
<1>. QED
  BY <1>2, <1>3, <1>4, <1>5, <1>6 DEF RenderInv

LEMMA StartDraftEndsStep ==
  ASSUME RenderInv, StartDraftEnds
  PROVE  RenderInv'
<1>1. /\ at = "startDraft" /\ result # "waiting" /\ life = "active" /\ shown = 0
      /\ UNCHANGED <<native, asNew, shown, life, goal, pieces, queued, updates, fails, disabled>>
  BY NotWaited DEF RenderInv, RenderOK, AtInv, StartDraftEnds, setting, ending, stream, Ok, Thrown
<1>2. CASE Ok /\ NoCall /\ display' = "draft" /\ at' = "stream" /\ intervals' = TRUE
  <2>1. /\ CallsOK' /\ CallInv' /\ DoneInv'
        /\ result' = "none" /\ UNCHANGED <<call, taken, wire, chat, gaveUp, cut>>
    BY <1>1, <1>2, NoCallIsMade DEF RenderInv
  <2>2. NumbersInv'
    BY <1>1, <2>1 DEF RenderInv, NumbersInv
  <2>3. RenderOK'
    BY <1>1, <1>2, <2>1 DEF RenderInv, RenderOK, IsOver, Ats, Before
  <2>4. AtInv'
    BY <1>1, <1>2, <2>1 DEF RenderInv, AtInv, Is
  <2>5. WireInv' /\ DeletedInv' /\ PiecesInv' /\ OverInv' /\ OnceInv'
    BY <1>1, <1>2, <2>1, ProgressIsCalled DEF Before
  <2>6. ProgressInv'
    BY <1>1, <2>1 DEF RenderInv, ProgressInv
  <2>. QED
    BY <2>1, <2>2, <2>3, <2>4, <2>5, <2>6 DEF RenderInv
<1>3. CASE SendPlaceholder /\ at' = "startPlace" /\ UNCHANGED <<display, intervals>>
  <2>1. /\ CallsOK' /\ NumbersInv' /\ CallInv' /\ DoneInv'
        /\ call'.op = "send" /\ call'.text = Progress /\ wire' = wire \cup {call'}
        /\ taken' = FALSE /\ result' = "waiting" /\ UNCHANGED <<chat, gaveUp, cut>>
    BY <1>1, <1>3, PlaceholderIsSent
  <2>2. RenderOK'
    BY <1>1, <1>3, <2>1 DEF RenderInv, RenderOK, IsOver, Ats, Before
  <2>3. AtInv'
    BY <1>1, <1>3, <2>1 DEF RenderInv, AtInv, Is, Progress, Shows
  <2>4. WireInv' /\ DeletedInv' /\ PiecesInv' /\ OverInv' /\ OnceInv'
    BY <1>1, <1>3, <2>1, ProgressIsCalled DEF Before
  <2>5. ProgressInv'
    BY <1>1, <2>1 DEF RenderInv, ProgressInv
  <2>. QED
    BY <2>1, <2>2, <2>3, <2>4, <2>5 DEF RenderInv
<1>. QED
  BY <1>2, <1>3 DEF StartDraftEnds

LEMMA PlaceholderEndsStep ==
  ASSUME RenderInv, PlaceholderEnds
  PROVE  RenderInv'
<1>1. /\ at \in {"startPlace", "fallback"} /\ at' = "stream" /\ shown = 0 /\ NoCall
      /\ result \in {"ok", "thrown"}
      /\ call.op = "send" /\ call.text.what = "progress"
      /\ UNCHANGED <<native, asNew, life, goal, pieces, queued, updates, fails>>
      /\ intervals' = (life = "active")
      /\ chat \in Seq(MessageType) /\ DOMAIN chat = 1 .. Len(chat) /\ Len(chat) \in Nat
  BY DEF RenderInv, CallsOK, AtInv, Is, PlaceholderEnds, setting, ending, Ok, Thrown
<1>2. /\ CallsOK' /\ CallInv' /\ DoneInv'
      /\ result' = "none" /\ UNCHANGED <<call, taken, wire, chat, gaveUp, cut>>
  BY <1>1, NoCallIsMade DEF RenderInv
<1>3. \/ /\ taken /\ display' = "message" /\ shown' \in DOMAIN chat
         /\ chat[shown'].by = call.id /\ chat[shown'].text = call.text
         /\ \A m \in DOMAIN chat : chat[m].by = call.id => m = shown'
      \/ /\ display' = "unavailable" /\ shown' = shown
         /\ taken => call.id \in gaveUp
  <2>1. CASE Ok /\ display' = "message" /\ shown' = MessageOf(call.id)
    <3>1. taken
      BY <2>1 DEF RenderInv, CallInv, Ok
    <3>2. PICK m \in DOMAIN chat : chat[m].by = call.id /\ chat[m].text = call.text
      BY <1>1, <3>1 DEF RenderInv, DoneInv
    <3>3. \A n \in DOMAIN chat : chat[n].by = call.id => n = m
      BY <3>2 DEF RenderInv, NumbersInv
    <3>4. MessageOf(call.id) = m
      BY <3>2, <3>3 DEF MessageOf
    <3>. QED
      BY <2>1, <3>1, <3>2, <3>3, <3>4
  <2>2. CASE Thrown /\ display' = "unavailable" /\ shown' = shown
    BY <1>1, <2>2 DEF RenderInv, CallInv, Thrown
  <2>. QED
    BY <2>1, <2>2 DEF PlaceholderEnds
<1>4. NumbersInv'
  BY <1>1, <1>2, <1>3 DEF RenderInv, NumbersInv
<1>5. RenderOK'
  <2>1. shown' \in 0 .. Len(chat)
    BY <1>1, <1>3
  <2>2. disabled \in BOOLEAN /\ (disabled' = disabled \/ disabled' = (disabled \/ at = "fallback"))
    BY DEF RenderInv, RenderOK, PlaceholderEnds
  <2>3. disabled' \in BOOLEAN
    BY <2>2
  <2>. QED
    BY <1>1, <1>2, <1>3, <2>1, <2>3 DEF RenderInv, RenderOK, IsOver, Ats, Before
<1>6. AtInv'
  BY <1>1, <1>2, <1>3 DEF RenderInv, AtInv, Is
<1>7. WireInv'
  BY <1>1, <1>2 DEF RenderInv, WireInv
<1>8. DeletedInv' /\ OverInv'
  BY <1>1, <1>2 DEF RenderInv, DeletedInv, OverInv
<1>9. ProgressInv'
  <2>. SUFFICES ASSUME NEW m \in DOMAIN chat, chat[m].text.what = "progress", m # shown'
                PROVE  chat[m].last \in gaveUp
    BY <1>2 DEF ProgressInv
  <2>1. \/ chat[m].last \in gaveUp
        \/ taken /\ chat[m].by = call.id
    BY <1>1 DEF RenderInv, ProgressInv
  <2>2. chat[m].last = chat[m].by
    BY <1>1 DEF RenderInv, NumbersInv
  <2>. QED
    BY <1>3, <2>1, <2>2
<1>10. PiecesInv'
  BY <1>1, <1>2 DEF RenderInv, RenderOK, IsOver, PiecesInv
<1>11. OnceInv'
  <2>1. ~Edited /\ \A k \in Nat \ {0} : Copies(k) = {}
    BY <1>1 DEF RenderInv, OnceInv, Before
  <2>2. shown' # 0 => chat[shown'].text.what = "progress"
    BY <1>1, <1>3
  <2>3. ~Edited'
    BY <1>2, <2>1, <2>2 DEF Edited
  <2>4. \A k : Copies(k)' \subseteq Copies(k)
    BY <1>1, <1>2 DEF Copies, Answer, Shows
  <2>. QED
    BY <1>1, <1>2, <2>1, <2>2, <2>3, <2>4 DEF OnceInv
<1>. QED
  BY <1>2, <1>4, <1>5, <1>6, <1>7, <1>8, <1>9, <1>10, <1>11 DEF RenderInv

LEMMA EditIsMade ==
  ASSUME RenderInv, result # "waiting", shown' = shown,
         NEW text \in TextType, NEW formatted \in BOOLEAN, Edit(text, formatted)
  PROVE  /\ CallsOK' /\ NumbersInv' /\ CallInv' /\ DoneInv'
         /\ call'.op = "edit" /\ call'.text = text /\ call'.msg = shown /\ wire' = wire \cup {call'}
         /\ taken' = FALSE /\ result' = "waiting" /\ UNCHANGED <<chat, gaveUp, cut>>
<1>1. shown \in Nat /\ CallsOK /\ NumbersInv /\ CallInv
  BY DEF RenderInv, RenderOK, CallsOK
<1>2. Options(0, TRUE, formatted) \in OptionsType
  BY RendererTypes
<1>. QED
  BY <1>1, <1>2, CallIsMade DEF Edit, Ops

LEMMA UpdateBeginsStep ==
  ASSUME RenderInv, UpdateBegins
  PROVE  RenderInv'
<1>1. /\ at = "stream" /\ result = "none" /\ queued' \in 0 .. MaxQueued
      /\ UNCHANGED <<native, asNew, display, shown, life, goal, pieces, updates, fails, disabled,
                     intervals>>
  <2>1. queued \in 0 .. MaxQueued /\ (at = "stream" => result = "none")
    BY DEF RenderInv, RenderOK
  <2>2. at = "stream" /\ queued > 0 /\ queued' = queued - 1
    BY DEF UpdateBegins, ChainMoves
  <2>3. queued' \in 0 .. MaxQueued
    BY <2>1, <2>2, RendererAssumption
  <2>. QED
    BY <2>1, <2>2, <2>3 DEF UpdateBegins, setting, ending
<1>2. /\ CallsOK' /\ NumbersInv' /\ CallInv' /\ DoneInv'
      /\ call'.text = Progress /\ wire' = wire \cup {call'}
      /\ taken' = FALSE /\ result' = "waiting" /\ UNCHANGED <<chat, gaveUp, cut>>
      /\ \/ at' = "draft" /\ call'.op = "draft" /\ shown = 0
         \/ at' = "edit" /\ call'.op = "edit" /\ call'.msg = shown /\ shown # 0
  <2>1. display = "message" <=> shown # 0
    BY <1>1 DEF RenderInv, AtInv
  <2>2. CASE display = "draft" /\ SendDraft /\ at' = "draft"
    BY <1>1, <2>1, <2>2, DraftIsSent
  <2>3. CASE display = "message" /\ Edit(Progress, FALSE) /\ at' = "edit"
    BY <1>1, <2>1, <2>3, EditIsMade, RendererTypes
  <2>. QED
    BY <2>2, <2>3 DEF UpdateBegins
<1>3. RenderOK'
  BY <1>1, <1>2 DEF RenderInv, RenderOK, IsOver, Ats, Before
<1>4. AtInv'
  BY <1>1, <1>2 DEF RenderInv, AtInv, Is, Progress, Shows
<1>5. WireInv' /\ DeletedInv' /\ PiecesInv' /\ OverInv' /\ OnceInv'
  BY <1>1, <1>2, ProgressIsCalled DEF Before
<1>6. ProgressInv'
  BY <1>1, <1>2 DEF RenderInv, ProgressInv
<1>. QED
  BY <1>2, <1>3, <1>4, <1>5, <1>6 DEF RenderInv

(* Nothing is called, nothing delivered: an update is asked for or dropped.  *)
LEMMA QuietStep ==
  ASSUME RenderInv, AskForUpdate \/ UpdateIsLate \/ UNCHANGED rvars
  PROVE  RenderInv'
<1>1. /\ UNCHANGED <<native, asNew, display, shown, life, goal, pieces, at, disabled, intervals>>
      /\ UNCHANGED <<call, taken, left, options, result, wire, chat, gaveUp, cut, faults>>
  BY DEF AskForUpdate, UpdateIsLate, rvars, tvars, callVars, netVars, setting, ending, stream
<1>2. queued' \in 0 .. MaxQueued
  BY RendererAssumption DEF RenderInv, RenderOK, AskForUpdate, UpdateIsLate, ChainMoves, rvars, stream
<1>3. CallsOK' /\ NumbersInv' /\ WireInv' /\ DeletedInv' /\ ProgressInv' /\ OverInv'
  BY <1>1 DEF RenderInv, CallsOK, NumbersInv, WireInv, DeletedInv, ProgressInv, OverInv
<1>4. RenderOK'
  BY <1>1, <1>2 DEF RenderInv, RenderOK, IsOver
<1>5. CallInv' /\ AtInv'
  BY <1>1 DEF RenderInv, CallInv, AtInv, Is
<1>6. DoneInv' /\ PiecesInv'
  BY <1>1 DEF RenderInv, DoneInv, PiecesInv, Posted, InPlace, Overtaken
<1>7. OnceInv'
  <2>1. /\ \A k : Copies(k)' = Copies(k) /\ Blamed(k)' = Blamed(k)
        /\ Edited' = Edited
    BY <1>1 DEF Copies, Blamed, Edited, Answer, Shows
  <2>. QED
    BY <1>1, <2>1 DEF RenderInv, OnceInv
<1>. QED
  BY <1>3, <1>4, <1>5, <1>6, <1>7 DEF RenderInv

LEMMA UpdateEndsStep ==
  ASSUME RenderInv, DraftUpdateEnds \/ EditEnds
  PROVE  RenderInv'
<1>1. /\ at \in {"draft", "edit"} /\ result # "waiting"
      /\ UNCHANGED <<native, asNew, display, shown, life, goal, pieces, queued, intervals>>
      /\ at = "draft" => shown = 0
  BY DEF RenderInv, AtInv, DraftUpdateEnds, EditEnds, setting, ending, stream, Ok, Thrown
<1>2. disabled' \in BOOLEAN
  <2>1. disabled \in BOOLEAN
        /\ (disabled' = disabled \/ disabled' = (disabled \/ fails' >= MaxEditFailures))
    BY DEF RenderInv, RenderOK, DraftUpdateEnds, EditEnds, stream
  <2>. QED
    BY <2>1
<1>3. CASE NoCall /\ at' = "stream"
  <2>1. /\ CallsOK' /\ CallInv' /\ DoneInv'
        /\ result' = "none" /\ UNCHANGED <<call, taken, wire, chat, gaveUp, cut>>
    BY <1>1, <1>3, NoCallIsMade DEF RenderInv
  <2>2. NumbersInv'
    BY <1>1, <2>1 DEF RenderInv, NumbersInv
  <2>3. RenderOK'
    BY <1>1, <1>2, <1>3, <2>1 DEF RenderInv, RenderOK, IsOver, Ats, Before
  <2>4. AtInv'
    BY <1>1, <1>3, <2>1 DEF RenderInv, AtInv, Is
  <2>5. WireInv' /\ DeletedInv' /\ PiecesInv' /\ OverInv' /\ OnceInv'
    BY <1>1, <1>3, <2>1, ProgressIsCalled DEF Before
  <2>6. ProgressInv'
    BY <1>1, <2>1 DEF RenderInv, ProgressInv
  <2>. QED
    BY <2>1, <2>2, <2>3, <2>4, <2>5, <2>6 DEF RenderInv
<1>4. CASE SendPlaceholder /\ at = "draft" /\ at' = "fallback"
  <2>1. /\ CallsOK' /\ NumbersInv' /\ CallInv' /\ DoneInv'
        /\ call'.op = "send" /\ call'.text = Progress /\ wire' = wire \cup {call'}
        /\ taken' = FALSE /\ result' = "waiting" /\ UNCHANGED <<chat, gaveUp, cut>>
    BY <1>1, <1>4, PlaceholderIsSent
  <2>2. RenderOK'
    BY <1>1, <1>2, <1>4, <2>1 DEF RenderInv, RenderOK, IsOver, Ats, Before
  <2>3. AtInv'
    BY <1>1, <1>4, <2>1 DEF RenderInv, AtInv, Is, Progress, Shows
  <2>4. WireInv' /\ DeletedInv' /\ PiecesInv' /\ OverInv' /\ OnceInv'
    BY <1>1, <1>4, <2>1, ProgressIsCalled DEF Before
  <2>5. ProgressInv'
    BY <1>1, <2>1 DEF RenderInv, ProgressInv
  <2>. QED
    BY <2>1, <2>2, <2>3, <2>4, <2>5 DEF RenderInv
<1>. QED
  BY <1>3, <1>4 DEF DraftUpdateEnds, EditEnds

LEMMA EndStep ==
  ASSUME RenderInv, NEW what \in {"answer", "empty", "error"}, End(what)
  PROVE  RenderInv'
<1>1. /\ life = "active" /\ life' = "finalizing" /\ goal' = what /\ intervals' = FALSE
      /\ at \notin {"idle", "startDraft", "startPlace"} /\ pieces' \in 0 .. MaxPiece
      /\ what = "answer" => pieces' # 0
      /\ UNCHANGED <<native, asNew, display, shown, at, queued, disabled>>
      /\ UNCHANGED <<call, taken, left, options, result, wire, chat, gaveUp, cut, faults>>
  BY RendererAssumption DEF End, StopTimers, tvars, callVars, netVars, setting, stream
<1>2. at \in Before
  BY <1>1 DEF RenderInv, RenderOK
<1>3. CallsOK' /\ NumbersInv' /\ CallInv' /\ DoneInv'
  BY <1>1 DEF RenderInv, CallsOK, NumbersInv, CallInv, DoneInv, Overtaken
<1>4. RenderOK'
  <2>1. IsOver' = FALSE /\ (at = "over") = FALSE
    BY <1>1, <1>2 DEF IsOver, Before
  <2>. QED
    BY <1>1, <1>2, <2>1 DEF RenderInv, RenderOK
<1>5. AtInv'
  BY <1>1, <1>2 DEF RenderInv, AtInv, Is, Before
<1>6. WireInv' /\ DeletedInv' /\ ProgressInv' /\ OverInv'
  BY <1>1 DEF RenderInv, WireInv, DeletedInv, ProgressInv, OverInv
<1>7. PiecesInv'
  BY <1>1, <1>2 DEF PiecesInv, Before
<1>8. OnceInv'
  <2>1. /\ \A k : Copies(k)' = Copies(k) /\ Blamed(k)' = Blamed(k)
        /\ Edited' = Edited
    BY <1>1 DEF Copies, Blamed, Edited, Answer, Shows
  <2>. QED
    BY <1>1, <2>1 DEF RenderInv, OnceInv
<1>. QED
  BY <1>3, <1>4, <1>5, <1>6, <1>7, <1>8 DEF RenderInv

----------------------------------------------------------------------------
(* The end of a reply *)

LEMMA SendIsMade ==
  ASSUME RenderInv, result # "waiting", shown' = shown,
         NEW text \in TextType, NEW o \in OptionsType, Call("send", text, 0, o)
  PROVE  /\ CallsOK' /\ NumbersInv' /\ CallInv' /\ DoneInv'
         /\ call'.op = "send" /\ call'.text = text /\ options' = o /\ wire' = wire \cup {call'}
         /\ taken' = FALSE /\ result' = "waiting" /\ UNCHANGED <<chat, gaveUp, cut>>
  BY CallIsMade DEF RenderInv, Ops

(* The error is told. *)
LEMMA SendFailureStep ==
  ASSUME RenderInv, result # "waiting", SendFailure, goal' = "error",
         at \in {"stream", "send", "inPlace"}, life # "active",
         UNCHANGED <<native, asNew, display, shown, life, pieces, queued, disabled, intervals>>
  PROVE  RenderInv'
<1>1. /\ at' = "failSend" /\ CallsOK' /\ NumbersInv' /\ CallInv' /\ DoneInv'
      /\ call'.op = "send" /\ call'.text = Failure /\ wire' = wire \cup {call'}
      /\ taken' = FALSE /\ result' = "waiting" /\ UNCHANGED <<chat, gaveUp, cut>>
  BY SendIsMade, RendererTypes DEF SendFailure
<1>2. RenderOK'
  BY <1>1 DEF RenderInv, RenderOK, IsOver, Ats, Before
<1>3. AtInv'
  BY <1>1 DEF RenderInv, AtInv, Is, Failure, Shows
<1>4. WireInv' /\ DeletedInv'
  BY <1>1 DEF RenderInv, WireInv, DeletedInv, Failure, Shows
<1>5. ProgressInv'
  BY <1>1 DEF RenderInv, ProgressInv
<1>6. PiecesInv' /\ OverInv'
  BY <1>1 DEF PiecesInv, OverInv
<1>7. OnceInv'
  <2>1. /\ \A k : Copies(k)' = Copies(k) /\ Blamed(k)' = Blamed(k)
        /\ Edited' => Edited
    <3>1. \A k : Failure # Answer(k)
      BY DEF Failure, Answer, Shows
    <3>2. \A k : Blamed(k)' = Blamed(k)
      BY <1>1 DEF Blamed
    <3>. QED
      BY <1>1, <3>1, <3>2, CopiesOfCall
  <2>. QED
    BY <1>1, <2>1 DEF RenderInv, OnceInv, Before
<1>. QED
  BY <1>1, <1>2, <1>3, <1>4, <1>5, <1>6, <1>7 DEF RenderInv

(* The display is cleared: what is left in the chat is not progress.         *)
LEMMA ClearDisplayStep ==
  ASSUME RenderInv, result # "waiting", ClearDisplay, life # "active",
         at \in {"stream", "send", "failSend"},
         goal = "answer" => \A k \in 1 .. pieces : Posted(k),
         goal # "none",
         UNCHANGED <<native, asNew, goal, pieces, queued, disabled, intervals>>
  PROVE  RenderInv'
<1>1. shown' = shown /\ display' = "unavailable" /\ shown \in Nat /\ (display = "message" <=> shown # 0)
  BY DEF ClearDisplay, RenderInv, RenderOK, CallsOK, AtInv
<1>2. CASE /\ display = "message" /\ at' = "delete" /\ life' = life
           /\ Call("delete", Shows("deleted", 0), shown, Options(1, TRUE, FALSE))
  <2>1. /\ CallsOK' /\ NumbersInv' /\ CallInv' /\ DoneInv'
        /\ call'.op = "delete" /\ call'.text = Shows("deleted", 0) /\ call'.msg = shown
        /\ wire' = wire \cup {call'}
        /\ taken' = FALSE /\ result' = "waiting" /\ UNCHANGED <<chat, gaveUp, cut>>
    BY <1>1, <1>2, CallIsMade, RendererTypes DEF RenderInv, Ops
  <2>2. RenderOK'
    BY <1>1, <1>2, <2>1 DEF RenderInv, RenderOK, IsOver, Ats, Before
  <2>3. AtInv'
    BY <1>1, <1>2, <2>1 DEF RenderInv, AtInv, Is, Shows
  <2>4. WireInv' /\ DeletedInv'
    BY <1>1, <1>2, <2>1 DEF RenderInv, WireInv, DeletedInv, Shows
  <2>5. ProgressInv' /\ OverInv'
    BY <1>1, <1>2, <2>1 DEF RenderInv, ProgressInv, OverInv
  <2>6. PiecesInv'
    BY <1>1, <1>2, <2>1 DEF PiecesInv, Posted, RenderInv, RenderOK, IsOver, Answer, Shows
  <2>7. OnceInv'
    <3>1. /\ \A k : Copies(k)' = Copies(k) /\ Blamed(k)' = Blamed(k)
          /\ Edited' => Edited
      <4>1. \A k : Blamed(k)' = Blamed(k)
        BY <2>1 DEF Blamed
      <4>. QED
        BY <1>1, <2>1, <4>1, CopiesOfCall
    <3>. QED
      BY <1>1, <1>2, <2>1, <3>1 DEF RenderInv, OnceInv, Before
  <2>. QED
    BY <2>1, <2>2, <2>3, <2>4, <2>5, <2>6, <2>7 DEF RenderInv
<1>3. CASE display # "message" /\ NoCall /\ Over(Outcome)
  <2>1. /\ CallsOK' /\ CallInv' /\ DoneInv'
        /\ result' = "none" /\ UNCHANGED <<call, taken, wire, chat, gaveUp, cut>>
        /\ at' = "over" /\ life' = Outcome /\ Outcome \in {"failed", "completed"}
    BY <1>3, NoCallIsMade DEF RenderInv, Over, Outcome
  <2>2. NumbersInv' /\ WireInv' /\ DeletedInv' /\ ProgressInv'
    BY <1>1, <2>1 DEF RenderInv, NumbersInv, WireInv, DeletedInv, ProgressInv
  <2>3. RenderOK'
    BY <1>1, <2>1 DEF RenderInv, RenderOK, IsOver, Ats
  <2>4. AtInv'
    BY <1>1, <2>1 DEF RenderInv, AtInv, Is
  <2>5. PiecesInv'
    BY <1>1, <2>1 DEF PiecesInv, Posted, Answer, Shows
  <2>6. OverInv'
    <3>. SUFFICES ASSUME NEW m \in DOMAIN chat, chat[m].text.what = "progress"
                  PROVE  chat[m].last \in gaveUp
      BY <2>1 DEF OverInv
    <3>1. m # 0
      BY DEF RenderInv, CallsOK
    <3>. QED
      BY <1>1, <1>3, <3>1 DEF RenderInv, ProgressInv
  <2>7. OnceInv'
    <3>1. /\ \A k : Copies(k)' = Copies(k) /\ Blamed(k)' = Blamed(k)
          /\ Edited' => Edited
      BY <1>1, <2>1 DEF Copies, Blamed, Edited, Answer, Shows
    <3>. QED
      BY <1>1, <2>1, <3>1 DEF RenderInv, OnceInv, Before
  <2>. QED
    BY <2>1, <2>2, <2>3, <2>4, <2>5, <2>6, <2>7 DEF RenderInv
<1>. QED
  BY <1>2, <1>3 DEF ClearDisplay

(* A piece is sent, those before it being there and those after it not       *)
(* sent yet.                                                                 *)
LEMMA SendPieceStep ==
  ASSUME RenderInv, result # "waiting", at \in {"stream", "send"}, life # "active",
         NEW p \in 1 .. pieces, SendPiece(p), goal = "answer",
         \A k \in 1 .. p - 1 : Posted(k),
         ~Edited, \A k \in Nat : k >= p => Copies(k) = {},
         UNCHANGED <<native, asNew, display, shown, life, goal, pieces, queued, disabled, intervals>>
  PROVE  RenderInv'
<1>1. p \in Nat \ {0} /\ Answer(p) \in TextType /\ Answer(p).what = "answer" /\ Answer(p).piece = p
  BY RendererTypes DEF RenderInv, RenderOK, Answer, Shows
<1>2. /\ at' = "send" /\ CallsOK' /\ NumbersInv' /\ CallInv' /\ DoneInv'
      /\ call'.op = "send" /\ call'.text = Answer(p) /\ ~options'.retryOnTimeout
      /\ wire' = wire \cup {call'}
      /\ taken' = FALSE /\ result' = "waiting" /\ UNCHANGED <<chat, gaveUp, cut>>
  <2>1. Options(2, FALSE, TRUE) \in OptionsType /\ ~Options(2, FALSE, TRUE).retryOnTimeout
    BY RendererTypes DEF Options
  <2>. QED
    BY <1>1, <2>1, SendIsMade DEF SendPiece
<1>3. RenderOK'
  BY <1>2 DEF RenderInv, RenderOK, IsOver, Ats, Before
<1>4. AtInv'
  BY <1>1, <1>2 DEF RenderInv, AtInv, Is
<1>5. WireInv' /\ DeletedInv'
  BY <1>1, <1>2 DEF RenderInv, WireInv, DeletedInv
<1>6. ProgressInv' /\ OverInv'
  BY <1>2 DEF RenderInv, ProgressInv, OverInv
<1>7. PiecesInv'
  BY <1>1, <1>2 DEF PiecesInv, Posted, RenderInv, RenderOK, IsOver, Answer, Shows
<1>8. OnceInv'
  <2>1. \A k : Blamed(k)' = Blamed(k)
    BY <1>2 DEF Blamed
  <2>2. \A k : Copies(k)' = Copies(k) \cup (IF Answer(p) = Answer(k) THEN {call'.id} ELSE {})
    BY <1>2, CopiesOfCall
  <2>3. ~Edited'
    BY <1>2, CopiesOfCall
  <2>4. \A k : Answer(p) = Answer(k) => k = p
    BY DEF Answer, Shows
  <2>5. \A k \in Nat \ {0} : \A x, y \in Copies(k)' \ Blamed(k)' : x = y
    <3>1. \A k \in Nat \ {0} : \A x, y \in Copies(k) \ Blamed(k) : x = y
      BY DEF RenderInv, OnceInv
    <3>2. Copies(p) = {}
      BY <1>1
    <3>. QED
      BY <2>1, <2>2, <2>4, <3>1, <3>2
  <2>6. \A k \in Nat : k > p => Copies(k)' = {}
    BY <1>1, <2>2, <2>4
  <2>7. Copies(p)' \subseteq {call'.id}
    BY <1>1, <2>2
  <2>8. \A i : i = call'.text.piece => i = p
    BY <1>1, <1>2
  <2>9. shown # 0 /\ chat[shown].text.what = "answer" => chat[shown].text.piece = 1
    BY DEF RenderInv, OnceInv
  <2>10. Copies(call.text.piece)' \subseteq {call'.id}
    BY <2>7, <2>8 DEF Copies
  <2>. QED
    BY <1>1, <1>2, <2>3, <2>5, <2>6, <2>8, <2>9, <2>10 DEF OnceInv, Before
<1>. QED
  BY <1>2, <1>3, <1>4, <1>5, <1>6, <1>7, <1>8 DEF RenderInv

(* The answer goes into the progress message, and what does not fit in new   *)
(* ones behind it.                                                           *)
LEMMA InPlacePieceStep ==
  ASSUME RenderInv, result # "waiting", at \in {"stream", "inPlace"}, at' = "inPlace",
         life # "active", goal = "answer", ~asNew, shown # 0, NEW p \in 1 .. pieces,
         \/ p = 1 /\ Edit(Answer(1), TRUE)
         \/ p > 1 /\ Call("send", Answer(p), 0, Options(ApiRetryCount, TRUE, TRUE)) /\ InPlace,
         \A k \in 2 .. p - 1 : Posted(k),
         Copies(1) = {}, \A k \in Nat : k >= p => Copies(k) = {},
         UNCHANGED <<native, asNew, display, shown, life, goal, pieces, queued, disabled, intervals>>
  PROVE  RenderInv'
<1>1. p \in Nat \ {0} /\ Answer(p) \in TextType /\ Answer(p).what = "answer" /\ Answer(p).piece = p
  BY RendererTypes DEF RenderInv, RenderOK, Answer, Shows
<1>2. /\ CallsOK' /\ NumbersInv' /\ CallInv' /\ DoneInv'
      /\ call'.text = Answer(p) /\ wire' = wire \cup {call'}
      /\ taken' = FALSE /\ result' = "waiting" /\ UNCHANGED <<chat, gaveUp, cut>>
      /\ \/ p = 1 /\ call'.op = "edit" /\ call'.msg = shown
         \/ p > 1 /\ call'.op = "send" /\ InPlace
  <2>1. CASE p = 1 /\ Edit(Answer(1), TRUE)
    BY <1>1, <2>1, EditIsMade
  <2>2. CASE p > 1 /\ Call("send", Answer(p), 0, Options(ApiRetryCount, TRUE, TRUE)) /\ InPlace
    <3>1. Options(ApiRetryCount, TRUE, TRUE) \in OptionsType
      BY RendererTypes
    <3>. QED
      BY <1>1, <2>2, <3>1, SendIsMade
  <2>. QED
    BY <2>1, <2>2
<1>3. RenderOK'
  BY <1>2 DEF RenderInv, RenderOK, IsOver, Ats, Before
<1>4. AtInv'
  BY <1>1, <1>2 DEF RenderInv, AtInv, Is
<1>5. WireInv' /\ DeletedInv'
  BY <1>1, <1>2 DEF RenderInv, WireInv, DeletedInv
<1>6. ProgressInv' /\ OverInv'
  BY <1>2 DEF RenderInv, ProgressInv, OverInv
<1>7. PiecesInv'
  <2>1. InPlace => InPlace'
    BY <1>2 DEF InPlace, Overtaken, Answer, Shows
  <2>2. \A k : Posted(k) => Posted(k)'
    BY <1>2 DEF Posted, Answer, Shows
  <2>3. life # "completed"
    BY DEF RenderInv, RenderOK, IsOver
  <2>. QED
    BY <1>1, <1>2, <2>1, <2>2, <2>3 DEF PiecesInv
<1>8. OnceInv'
  <2>1. \A k : Blamed(k)' = Blamed(k)
    BY <1>2 DEF Blamed
  <2>2. \A k : Copies(k)' = Copies(k) \cup (IF call'.op = "send" /\ Answer(p) = Answer(k)
                                            THEN {call'.id} ELSE {})
    BY <1>2, CopiesOfCall
  <2>3. \A k : Answer(p) = Answer(k) => k = p
    BY DEF Answer, Shows
  <2>4. \A k \in Nat \ {0} : \A x, y \in Copies(k)' \ Blamed(k)' : x = y
    <3>1. \A k \in Nat \ {0} : \A x, y \in Copies(k) \ Blamed(k) : x = y
      BY DEF RenderInv, OnceInv
    <3>2. Copies(p) = {}
      BY <1>1
    <3>. QED
      BY <2>1, <2>2, <2>3, <3>1, <3>2
  <2>5. \A k \in Nat : k > p => Copies(k)' = {}
    BY <1>1, <2>2, <2>3
  <2>6. Copies(p)' \subseteq {call'.id}
    BY <1>1, <2>2
  <2>7. Copies(1)' = {}
    BY <1>2, <2>2, <2>3
  <2>8. \A i : i = call'.text.piece => i = p
    BY <1>1, <1>2
  <2>9. shown # 0 /\ chat[shown].text.what = "answer" => chat[shown].text.piece = 1
    BY DEF RenderInv, OnceInv
  <2>10. Copies(call.text.piece)' \subseteq {call'.id}
    BY <2>6, <2>8 DEF Copies
  <2>. QED
    BY <1>1, <1>2, <2>4, <2>5, <2>7, <2>8, <2>9, <2>10 DEF OnceInv, Before
<1>. QED
  BY <1>2, <1>3, <1>4, <1>5, <1>6, <1>7, <1>8 DEF RenderInv

LEMMA DeliverStep ==
  ASSUME RenderInv, Deliver
  PROVE  RenderInv'
<1>1. /\ at = "stream" /\ life = "finalizing" /\ result = "none"
      /\ UNCHANGED <<native, asNew, goal, pieces, queued, disabled, intervals>>
      /\ ~Edited /\ \A k \in Nat \ {0} : Copies(k) = {}
  BY DEF RenderInv, RenderOK, OnceInv, Before, Deliver, ChainIsDone, setting, stream
<1>2. CASE goal = "answer" /\ SendPiece(1) /\ UNCHANGED <<display, shown, life>>
  <2>1. 1 \in 1 .. pieces
    BY <1>2 DEF RenderInv, RenderOK
  <2>. QED
    BY <1>1, <1>2, <2>1, SendPieceStep
<1>3. CASE /\ goal = "answer" /\ ~asNew /\ display = "message" /\ Edit(Answer(1), TRUE)
           /\ at' = "inPlace" /\ UNCHANGED <<display, shown, life>>
  <2>1. 1 \in 1 .. pieces /\ shown # 0
    BY <1>1, <1>3 DEF RenderInv, RenderOK, AtInv
  <2>2. \A k \in 2 .. 1 - 1 : Posted(k)
    OBVIOUS
  <2>3. /\ Copies(1) = {} /\ \A k \in Nat : k >= 1 => Copies(k) = {}
        /\ result # "waiting" /\ life # "active"
    BY <1>1
  <2>. QED
    BY <1>1, <1>3, <2>1, <2>2, <2>3, InPlacePieceStep
<1>4. CASE goal = "empty" /\ ClearDisplay
  BY <1>1, <1>4, ClearDisplayStep
<1>5. CASE goal = "error" /\ SendFailure /\ UNCHANGED <<display, shown, life>>
  BY <1>1, <1>5, SendFailureStep
<1>. QED
  BY <1>2, <1>3, <1>4, <1>5 DEF Deliver

LEMMA PieceEndsStep ==
  ASSUME RenderInv, PieceEnds
  PROVE  RenderInv'
<1>1. /\ at = "send" /\ result # "waiting" /\ life # "active" /\ goal = "answer"
      /\ call.op = "send" /\ call.text.what = "answer" /\ call.text.piece \in 1 .. pieces
      /\ UNCHANGED <<native, asNew, pieces, queued, disabled, intervals>>
      /\ pieces \in Nat
  BY DEF RenderInv, RenderOK, AtInv, Is, Before, PieceEnds, setting, stream, IsSent, Ok, Thrown
<1>2. PICK p \in Nat \ {0} : p = call.text.piece /\ p <= pieces
  BY <1>1
<1>3. /\ ~Edited /\ \A k \in Nat : k > p => Copies(k) = {}
      /\ \A k \in 1 .. p - 1 : Posted(k)
  BY <1>1, <1>2 DEF RenderInv, OnceInv, PiecesInv
<1>4. IsSent => \A k \in 1 .. p : Posted(k)
  <2>. SUFFICES ASSUME IsSent
                PROVE  Posted(p)
    BY <1>2, <1>3
  <2>1. taken /\ result # "none"
    BY DEF RenderInv, CallInv, IsSent, Ok
  <2>2. call.text = Answer(p)
    BY <1>1, <1>2 DEF RenderInv, CallsOK, RequestType, TextType, Answer, Shows
  <2>. QED
    BY <1>1, <2>1, <2>2 DEF RenderInv, DoneInv, Posted
<1>5. CASE /\ IsSent /\ goal' = goal /\ call.text.piece < pieces
           /\ SendPiece(call.text.piece + 1) /\ UNCHANGED <<display, shown, life>>
  <2>1. PICK q \in 1 .. pieces : q = call.text.piece + 1 /\ q = p + 1
    BY <1>1, <1>2, <1>5
  <2>2. SendPiece(q) /\ (\A k \in 1 .. q - 1 : Posted(k)) /\ \A k \in Nat : k >= q => Copies(k) = {}
    BY <1>2, <1>3, <1>4, <1>5, <2>1
  <2>. QED
    BY <1>1, <1>3, <1>5, <2>2, SendPieceStep
<1>6. CASE IsSent /\ goal' = goal /\ call.text.piece = pieces /\ ClearDisplay
  <2>1. \A k \in 1 .. pieces : Posted(k)
    BY <1>2, <1>4, <1>6
  <2>. QED
    BY <1>1, <1>6, <2>1, ClearDisplayStep
<1>7. CASE Thrown /\ FinalizeThrows
  BY <1>1, <1>7, SendFailureStep DEF FinalizeThrows
<1>. QED
  BY <1>5, <1>6, <1>7 DEF PieceEnds

(* A call has ended with which the reply is over.                            *)
LEMMA OverStep ==
  ASSUME RenderInv, result # "waiting", NoCall, at' = "over", life' \in {"failed", "completed"},
         shown' = shown, display' \in {display, "unavailable"},
         life' = "completed" /\ goal = "answer" =>
           \A k \in 1 .. pieces : Posted(k) \/ (k = 1 /\ InPlace),
         \A m \in DOMAIN chat : m = shown /\ chat[m].text.what = "progress" =>
           \/ chat[m].last \in gaveUp
           \/ call.op \in {"edit", "delete"} /\ call.msg = m /\ ~taken,
         at \notin {"startPlace", "fallback"}, life # "active",
         UNCHANGED <<native, asNew, goal, pieces, queued, disabled, intervals>>
  PROVE  RenderInv'
<1>1. /\ CallsOK' /\ CallInv' /\ DoneInv'
      /\ result' = "none" /\ UNCHANGED <<call, taken, wire, chat, gaveUp, cut>>
  BY NoCallIsMade DEF RenderInv
<1>2. NumbersInv' /\ WireInv' /\ DeletedInv' /\ ProgressInv'
  BY <1>1 DEF RenderInv, NumbersInv, WireInv, DeletedInv, ProgressInv
<1>3. RenderOK'
  BY <1>1 DEF RenderInv, RenderOK, IsOver, Ats
<1>4. AtInv'
  BY <1>1 DEF RenderInv, AtInv, Is
<1>5. PiecesInv'
  BY <1>1 DEF PiecesInv, Posted, InPlace, Overtaken, Answer, Shows
<1>6. OverInv'
  BY <1>1 DEF RenderInv, ProgressInv, OverInv
<1>7. OnceInv'
  <2>1. /\ \A k : Copies(k)' = Copies(k) /\ Blamed(k)' = Blamed(k)
        /\ Edited' => Edited
    BY <1>1 DEF Copies, Blamed, Edited, Answer, Shows
  <2>. QED
    BY <1>1, <2>1 DEF RenderInv, OnceInv, Before
<1>. QED
  BY <1>1, <1>2, <1>3, <1>4, <1>5, <1>6, <1>7 DEF RenderInv

LEMMA InPlaceEndsStep ==
  ASSUME RenderInv, InPlaceEnds
  PROVE  RenderInv'
<1>1. /\ at = "inPlace" /\ result # "waiting" /\ life # "active" /\ goal = "answer"
      /\ ~asNew /\ shown # 0 /\ call.text.what = "answer" /\ call.text.piece \in 1 .. pieces
      /\ \/ call.op = "edit" /\ call.text.piece = 1
         \/ call.op = "send" /\ call.text.piece > 1
      /\ UNCHANGED <<native, asNew, pieces, queued, disabled, intervals>>
      /\ pieces \in Nat
  <2>1. /\ at = "inPlace" /\ result # "waiting"
        /\ UNCHANGED <<native, asNew, pieces, queued, disabled, intervals>>
    BY DEF InPlaceEnds, setting, stream, Ok, Thrown
  <2>2. life # "active" /\ pieces \in Nat
    BY <2>1 DEF RenderInv, RenderOK, Before
  <2>3. /\ goal = "answer" /\ call.text.piece \in 1 .. pieces
        /\ ~asNew /\ shown # 0 /\ call.text.what = "answer"
        /\ \/ call.op = "edit" /\ call.text.piece = 1
           \/ call.op = "send" /\ call.text.piece > 1
    BY <2>1 DEF RenderInv, AtInv, Is
  <2>. QED
    BY <2>1, <2>2, <2>3
<1>2. PICK p \in Nat \ {0} : p = call.text.piece /\ p <= pieces
  BY <1>1
<1>3. /\ Copies(1) = {} /\ \A k \in Nat : k > p => Copies(k) = {}
      /\ \A k \in 2 .. p - 1 : Posted(k)
      /\ p > 1 => InPlace
  BY <1>1, <1>2 DEF RenderInv, OnceInv, PiecesInv
<1>4. Ok => InPlace /\ \A k \in 2 .. p : Posted(k)
  <2>. SUFFICES ASSUME Ok
                PROVE  InPlace /\ \A k \in 2 .. p : Posted(k)
    OBVIOUS
  <2>1. taken /\ result # "none"
    BY DEF RenderInv, CallInv, Ok
  <2>2. call.text = Answer(p)
    BY <1>1, <1>2 DEF RenderInv, CallsOK, RequestType, TextType, Answer, Shows
  <2>3. CASE call.op = "send"
    <3>1. p > 1
      BY <1>1, <1>2, <2>3
    <3>2. Posted(p)
      BY <2>1, <2>2, <2>3 DEF RenderInv, DoneInv, Posted
    <3>. QED
      BY <1>3, <3>1, <3>2
  <2>4. CASE call.op = "edit"
    <3>1. p = 1
      BY <1>1, <1>2, <2>4
    <3>2. chat[shown].text = Answer(1) \/ Overtaken(shown)
      BY <2>1, <2>2, <2>4, <3>1 DEF RenderInv, DoneInv
    <3>3. shown \in DOMAIN chat
      BY <1>1 DEF RenderInv, RenderOK, CallsOK
    <3>4. chat[shown].text.what # "deleted" /\ \A r \in wire : r.op # "delete"
      BY <1>1, <3>3 DEF RenderInv, DeletedInv, WireInv
    <3>. QED
      BY <1>1, <3>1, <3>2, <3>4 DEF InPlace
  <2>. QED
    BY <1>1, <2>3, <2>4
<1>5. CASE /\ Ok /\ UNCHANGED <<goal, shown>> /\ call.text.piece < pieces
           /\ Call("send", Answer(call.text.piece + 1), 0, Options(ApiRetryCount, TRUE, TRUE))
           /\ UNCHANGED <<at, display, life>>
  <2>1. PICK q \in 1 .. pieces : q = call.text.piece + 1 /\ q = p + 1
    BY <1>1, <1>2, <1>5
  <2>2. /\ q > 1 /\ Call("send", Answer(q), 0, Options(ApiRetryCount, TRUE, TRUE)) /\ InPlace
        /\ \A k \in 2 .. q - 1 : Posted(k)
        /\ \A k \in Nat : k >= q => Copies(k) = {}
    <3>1. q > 1 /\ \A k \in Nat : k >= q => Copies(k) = {}
      BY <1>2, <1>3, <2>1
    <3>2. InPlace /\ \A k \in 2 .. q - 1 : Posted(k)
      BY <1>2, <1>4, <1>5, <2>1
    <3>. QED
      BY <1>5, <2>1, <3>1, <3>2
  <2>. QED
    BY <1>1, <1>3, <1>5, <2>2, InPlacePieceStep
<1>6. CASE /\ Ok /\ UNCHANGED <<goal, shown>> /\ call.text.piece = pieces
           /\ NoCall /\ display' = "unavailable" /\ Over("completed")
  <2>1. \A k \in 1 .. pieces : Posted(k) \/ (k = 1 /\ InPlace)
    BY <1>2, <1>4, <1>6
  <2>2. shown \in DOMAIN chat /\ chat[shown].text.what = "progress" => chat[shown].last \in gaveUp
    BY <1>4, <1>6 DEF InPlace, Overtaken, Answer, Shows
  <2>3. at' = "over" /\ life' = "completed"
    BY <1>6 DEF Over
  <2>. QED
    BY <1>1, <1>6, <2>1, <2>2, <2>3, OverStep
<1>7. CASE Thrown /\ FinalizeThrows
  BY <1>1, <1>7, SendFailureStep DEF FinalizeThrows
<1>. QED
  BY <1>5, <1>6, <1>7 DEF InPlaceEnds

LEMMA DeleteEndsStep ==
  ASSUME RenderInv, DeleteEnds
  PROVE  RenderInv'
<1>1. /\ at = "delete" /\ result \in {"ok", "thrown"} /\ life # "active" /\ NoCall
      /\ at' = "over" /\ life' = Outcome /\ Outcome \in {"failed", "completed"}
      /\ call.op = "delete" /\ call.msg = shown
      /\ UNCHANGED <<native, asNew, display, shown, goal, pieces, queued, disabled, intervals>>
  BY DEF RenderInv, RenderOK, AtInv, Is, Before, DeleteEnds, Over, Outcome, setting, stream, Ok, Thrown
<1>2. goal = "answer" => \A k \in 1 .. pieces : Posted(k)
  BY <1>1 DEF RenderInv, PiecesInv
<1>3. taken => chat[shown].text.what = "deleted"
  BY <1>1 DEF RenderInv, DoneInv
<1>. QED
  BY <1>1, <1>2, <1>3, OverStep

LEMMA FailSendEndsStep ==
  ASSUME RenderInv, FailSendEnds
  PROVE  RenderInv'
<1>1. /\ at = "failSend" /\ result # "waiting" /\ life # "active" /\ goal = "error"
      /\ UNCHANGED <<native, asNew, goal, pieces, queued, disabled, intervals>>
      /\ display = "message" <=> shown # 0
  BY DEF RenderInv, RenderOK, AtInv, Before, FailSendEnds, setting, stream, Ok, Thrown
<1>2. CASE Ok /\ ClearDisplay
  BY <1>1, <1>2, ClearDisplayStep
<1>3. CASE /\ UNCHANGED <<display, shown, life>> /\ at' = "failEdit"
           /\ \/ display = "message" /\ Edit(Failure, FALSE)
              \/ display = "draft" /\ SendDraft
  <2>1. /\ CallsOK' /\ NumbersInv' /\ CallInv' /\ DoneInv' /\ wire' = wire \cup {call'}
        /\ taken' = FALSE /\ result' = "waiting" /\ UNCHANGED <<chat, gaveUp, cut>>
        /\ \/ call'.op = "edit" /\ call'.text = Failure /\ call'.msg = shown /\ shown # 0
           \/ call'.op = "draft" /\ shown = 0
    <3>1. CASE display = "message" /\ Edit(Failure, FALSE)
      BY <1>1, <1>3, <3>1, EditIsMade, RendererTypes
    <3>2. CASE display = "draft" /\ SendDraft
      BY <1>1, <1>3, <3>2, DraftIsSent
    <3>. QED
      BY <1>3, <3>1, <3>2
  <2>2. Failure.what = "error"
    BY DEF Failure, Shows
  <2>3. RenderOK'
    BY <1>1, <1>3, <2>1 DEF RenderInv, RenderOK, IsOver, Ats, Before
  <2>4. AtInv'
    BY <1>1, <1>3, <2>1, <2>2 DEF RenderInv, AtInv, Is
  <2>5. WireInv' /\ DeletedInv'
    BY <1>1, <1>3, <2>1, <2>2 DEF RenderInv, WireInv, DeletedInv
  <2>6. ProgressInv' /\ OverInv' /\ PiecesInv'
    BY <1>1, <1>3, <2>1 DEF RenderInv, ProgressInv, OverInv, PiecesInv
  <2>7. OnceInv'
    <3>1. \A k : Blamed(k)' = Blamed(k)
      BY <1>1, <2>1 DEF Blamed
    <3>2. /\ \A k : Copies(k)' = Copies(k)
          /\ Edited' => Edited
      BY <1>3, <2>1, <2>2, CopiesOfCall
    <3>. QED
      BY <1>1, <1>3, <2>1, <3>1, <3>2 DEF RenderInv, OnceInv, Before
  <2>. QED
    BY <2>1, <2>3, <2>4, <2>5, <2>6, <2>7 DEF RenderInv
<1>4. CASE UNCHANGED <<display, shown>> /\ display = "unavailable" /\ NoCall /\ Over("failed")
  <2>1. shown = 0 /\ at' = "over" /\ life' = "failed"
    BY <1>1, <1>4 DEF Over
  <2>2. \A m \in DOMAIN chat : m # shown
    BY <2>1 DEF RenderInv, CallsOK
  <2>. QED
    BY <1>1, <1>4, <2>1, <2>2, OverStep
<1>. QED
  BY <1>2, <1>3, <1>4 DEF FailSendEnds

LEMMA FailEditEndsStep ==
  ASSUME RenderInv, FailEditEnds
  PROVE  RenderInv'
<1>1. /\ at = "failEdit" /\ result \in {"ok", "thrown"} /\ life # "active" /\ NoCall
      /\ at' = "over" /\ life' = "failed"
      /\ \/ call.op = "edit" /\ call.text.what = "error" /\ call.msg = shown
         \/ call.op = "draft" /\ shown = 0
      /\ UNCHANGED <<native, asNew, display, shown, goal, pieces, queued, disabled, intervals>>
  BY DEF RenderInv, RenderOK, AtInv, Is, Before, FailEditEnds, Over, setting, stream, Ok, Thrown
<1>2. \A m \in DOMAIN chat : m # 0
  BY DEF RenderInv, CallsOK
<1>3. call.op = "edit" /\ taken => chat[shown].text = call.text \/ Overtaken(shown)
  BY <1>1 DEF RenderInv, DoneInv
<1>. QED
  BY <1>1, <1>2, <1>3, OverStep DEF Overtaken

----------------------------------------------------------------------------
LEMMA RenderInit ==
  ASSUME RInit
  PROVE  RenderInv
<1>1. /\ call = NoRequest /\ taken = FALSE /\ left = 0 /\ options = Options(0, TRUE, FALSE)
      /\ result = "none" /\ wire = {} /\ chat = <<>> /\ gaveUp = {} /\ cut = {} /\ faults = 0
      /\ native \in BOOLEAN /\ asNew \in BOOLEAN /\ display = "idle" /\ shown = 0
      /\ life = "active" /\ goal = "none" /\ pieces = 0 /\ at = "idle" /\ queued = 0
      /\ disabled = FALSE /\ intervals = FALSE
  BY DEF RInit, TInit
<1>2. DOMAIN chat = {} /\ IsFiniteSet(wire) /\ IsFiniteSet(gaveUp)
  BY <1>1, FS_EmptySet
<1>3. CallsOK
  <2>1. call \in RequestType
    BY <1>1 DEF NoRequest, Request, RequestType, TextType, Whats, Shows
  <2>2. /\ options \in [retries : Nat, retryOnTimeout : BOOLEAN, formatted : BOOLEAN]
        /\ left \in 0 .. options.retries
    BY <1>1 DEF Options
  <2>3. chat \in Seq(MessageType)
    BY <1>1
  <2>4. faults \in 0 .. MaxFault
    BY <1>1, FaultAssumption
  <2>5. /\ wire \subseteq RequestType /\ gaveUp \subseteq Nat /\ cut \subseteq gaveUp
        /\ taken \in BOOLEAN /\ result \in {"none", "waiting", "ok", "thrown"}
    BY <1>1
  <2>. QED
    BY <1>2, <2>1, <2>2, <2>3, <2>4, <2>5 DEF CallsOK
<1>4. RenderOK
  <2>1. shown \in 0 .. Len(chat) /\ pieces \in 0 .. MaxPiece /\ queued \in 0 .. MaxQueued
    BY <1>1, RendererAssumption
  <2>2. {native, asNew, disabled, intervals} \subseteq BOOLEAN /\ ~intervals
    BY <1>1
  <2>3. IsOver = (at = "over") /\ at \in Ats /\ at \in Before
    BY <1>1 DEF IsOver, Ats, Before
  <2>4. (at \in {"idle", "stream", "over"}) = (result = "none")
    BY <1>1
  <2>. QED
    BY <1>1, <2>1, <2>2, <2>3, <2>4 DEF RenderOK
<1>5. NumbersInv /\ CallInv /\ WireInv /\ DeletedInv /\ ProgressInv /\ DoneInv
  BY <1>1, <1>2 DEF NumbersInv, CallInv, WireInv, DeletedInv, ProgressInv, DoneInv
<1>6. AtInv
  BY <1>1 DEF AtInv, NoRequest, Request
<1>7. PiecesInv /\ OverInv
  BY <1>1 DEF PiecesInv, OverInv
<1>8. OnceInv
  BY <1>1, <1>2 DEF OnceInv, Copies, Edited
<1>. QED
  BY <1>3, <1>4, <1>5, <1>6, <1>7, <1>8 DEF RenderInv

LEMMA RenderStep ==
  ASSUME RenderInv, [RNext]_rvars
  PROVE  RenderInv'
<1>1. CASE Goes
  BY <1>1, StartStep, StartDraftEndsStep, PlaceholderEndsStep, UpdateBeginsStep, QuietStep,
     UpdateEndsStep, DeliverStep, PieceEndsStep, InPlaceEndsStep, DeleteEndsStep,
     FailSendEndsStep, FailEditEndsStep DEF Goes
<1>2. CASE Ends
  BY <1>2, EndStep DEF Ends
<1>3. CASE AskForUpdate \/ UNCHANGED rvars
  BY <1>3, QuietStep
<1>4. CASE Connector
  <2>1. RenderFrame
    BY <1>4 DEF Connector, RenderFrame
  <2>2. ASSUME NEW r \in wire, Takes(r)
        PROVE  RenderInv'
    BY <2>1, <2>2, TakesStep
  <2>3. CASE Returns
    BY <2>1, <2>3, ReturnsStep
  <2>4. CASE IsRefused \/ ParseRefused \/ ConnectionBreaks \/ TimesOut
    <3>1. AttemptEnds(wire) \/ AttemptEnds(wire \ {call})
      BY <2>4, AnAttemptEnds DEF RenderInv
    <3>. QED
      BY <2>1, <3>1, AttemptEndsStep
  <2>. QED
    BY <1>4, <2>2, <2>3, <2>4 DEF Connector, TNext, Settles
<1>. QED
  BY <1>1, <1>2, <1>3, <1>4 DEF RNext

(* Every state of a reply is one that RenderInv describes. *)
THEOREM RenderInvariant == RSpec => []RenderInv
<1>1. RInit => RenderInv
  BY RenderInit
<1>2. RenderInv /\ [RNext]_rvars => RenderInv'
  BY RenderStep
<1>. QED
  BY <1>1, <1>2, PTL DEF RSpec

(* When a reply is completed with an answer, and from the moment its         *)
(* progress message may be deleted, every piece of the answer is in the      *)
(* chat, whatever the connector lost, refused or executed late; only the     *)
(* piece that was edited into the progress message may have been overwritten *)
(* by an edit that came late.                                                *)
THEOREM AnswersAreThere == RSpec => []AnswerIsThere
<1>1. RenderInv => AnswerIsThere
  <2>. SUFFICES ASSUME RenderInv, goal = "answer", life = "completed" \/ at = "delete",
                       NEW k \in 1 .. pieces
                PROVE  \/ Showing(Answer(k)) # {}
                       \/ k = 1 /\ ~asNew /\ shown # 0 /\ Overtaken(shown)
    BY DEF AnswerIsThere
  <2>1. Posted(k) \/ (k = 1 /\ InPlace)
    BY DEF RenderInv, PiecesInv
  <2>2. CASE Posted(k)
    BY <2>2 DEF Posted, Showing
  <2>3. CASE k = 1 /\ InPlace
    <3>1. shown \in DOMAIN chat
      BY <2>3 DEF RenderInv, RenderOK, CallsOK, InPlace
    <3>. QED
      BY <2>3, <3>1 DEF InPlace, Showing
  <2>. QED
    BY <2>1, <2>2, <2>3
<1>. QED
  BY <1>1, RenderInvariant, PTL

(* Of two copies of a piece of the answer one came by a request whose        *)
(* connection broke or, when the answer outgrew the progress message, by one *)
(* that timed out: no other retry sends a piece again.                       *)
THEOREM AnswersComeOnce == RSpec => []AnswerOnce
<1>1. RenderInv => AnswerOnce
  <2>. SUFFICES ASSUME RenderInv, NEW k \in 1 .. pieces,
                       NEW m \in Showing(Answer(k)), NEW n \in Showing(Answer(k)), m # n
                PROVE  \E c \in {m, n} : chat[c].by \in Blamed(k)
    BY DEF AnswerOnce, Blamed
  <2>1. /\ m \in DOMAIN chat /\ chat[m].text = Answer(k) /\ n \in DOMAIN chat /\ chat[n].text = Answer(k)
        /\ Answer(k).what = "answer" /\ Answer(k).piece = k /\ k \in Nat \ {0}
        /\ \A i \in DOMAIN chat : i # 0
    BY DEF RenderInv, RenderOK, CallsOK, Showing, Answer, Shows
  <2>2. CASE m # shown /\ n # shown
    <3>1. chat[m].by \in Copies(k) /\ chat[n].by \in Copies(k) /\ chat[m].by # chat[n].by
      BY <2>1, <2>2 DEF Copies, RenderInv, NumbersInv
    <3>. QED
      BY <2>1, <3>1 DEF RenderInv, OnceInv
  <2>3. CASE m = shown \/ n = shown
    <3>1. shown # 0 /\ chat[shown].text.what = "answer" /\ k = 1
      BY <2>1, <2>3 DEF RenderInv, OnceInv
    <3>2. Copies(1) = {}
      BY <3>1 DEF RenderInv, OnceInv, Edited
    <3>. QED
      BY <2>1, <2>3, <3>1, <3>2 DEF Copies
  <2>. QED
    BY <2>2, <2>3
<1>. QED
  BY <1>1, RenderInvariant, PTL

(* When a reply is over, no message goes on showing progress, unless         *)
(* Telegram did not do in time what it was asked: finalize and fail wait for *)
(* the updates that are under way, and clear what is shown after them.       *)
THEOREM NothingIsLeftBehind == RSpec => []NothingLeftBehind
<1>1. RenderInv => TypeOfCalls
  <2>. SUFFICES ASSUME RenderInv
                PROVE  TypeOfCalls
    OBVIOUS
  <2>1. \A m \in DOMAIN chat : chat[m] \in MessageType
    BY DEF RenderInv, CallsOK
  <2>2. \A r \in wire : r.id \in Nat
    BY DEF RenderInv, CallsOK, RequestType
  <2>3. call.id \in Nat /\ gaveUp \subseteq Nat
    BY DEF RenderInv, CallsOK, RequestType
  <2>4. Numbers(wire) \subseteq Nat
    BY <2>1, <2>2, <2>3 DEF Numbers, MessageType
  <2>5. {taken, options.retryOnTimeout, options.formatted} \subseteq BOOLEAN
    BY DEF RenderInv, CallsOK
  <2>. QED
    BY <2>4, <2>5 DEF RenderInv, CallsOK, NumbersInv, TypeOfCalls
<1>2. RenderInv => RenderTypeOK
  BY <1>1 DEF RenderInv, RenderOK, RenderTypeOK
<1>3. RenderInv /\ IsOver => \A m \in Showing(Progress) :
                               chat[m].last \in gaveUp \/ (call.msg = m /\ ~taken)
  <2>1. RenderInv /\ IsOver => at = "over" /\ OverInv
    BY DEF RenderInv, RenderOK
  <2>. QED
    BY <2>1 DEF OverInv, Showing, Progress, Shows
<1>4. RenderInv => NothingLeftBehind
  BY <1>2, <1>3 DEF NothingLeftBehind
<1>. QED
  BY <1>4, RenderInvariant, PTL
=============================================================================
