---------------------------- MODULE SilenceTimer ----------------------------
(***************************************************************************)
(* The silence timer of one user and the reflections ("follow-ups") it     *)
(* triggers (src/core/scheduler.ts, scheduler-helpers.ts), with what the   *)
(* message pipeline and the message table have to do with them.            *)
(*                                                                         *)
(* An arriving message sets the timer before it is in the table, where a   *)
(* long one gets only after a turn in the queue.  A timer that fires looks *)
(* at the table, and its reflection waits for the queue and for the agent, *)
(* so messages, other reflections and a restart may come in between.       *)
(* Delays are left out: a timer that is set may fire.  A fault is a        *)
(* restart or a reflection that fails.                                     *)
(***************************************************************************)
EXTENDS Faults, Sequences, FiniteSets

CONSTANTS
  MaxMsg,     (* bound: messages of the user, commands included *)
  MaxManual   (* bound: manual reflections *)

ASSUME SilenceAssumption == {MaxMsg, MaxManual} \subseteq Nat

VARIABLES
  up,          (* the process runs, with its start behind it *)
  arrived,     (* the messages so far *)
  unsaved,     (* those that are on their way to the table *)
  rows,        (* the table: messages, and reflections that ended or failed *)
  aged,        (* how many rows are older than 24 hours *)
  timers,      (* the numbers of the timeouts that may still fire *)
  seq,         (* silenceTimerSeq *)
  reflecting,  (* the reflections that are in progress *)
  manuals,
  looked,      (* the messages a reflection has looked at and ended *)
  excused      (* the messages that are saved when no timer is set, or while
                  a reflection is in progress that does not know them *)

table   == <<rows, aged>>
counts  == <<arrived, manuals, faults>>
history == <<looked, excused>>
svars   == <<up, unsaved, table, timers, seq, reflecting, counts, history>>

Message(m) == [what |-> "message", msg |-> m]
Notice(what) == [what |-> what, msg |-> 0]

(* A reflection: what triggered it, the number of its timer (0: none), the *)
(* messages in its prompt, and how far it is.                              *)
Reflection(type, source, seen, at) ==
  [type |-> type, source |-> source, seen |-> seen, at |-> at]

SilInit ==
  /\ up = TRUE
  /\ arrived = 0 /\ unsaved = {} /\ rows = <<>> /\ aged = 0
  /\ timers = {} /\ seq = 0
  /\ reflecting = {} /\ manuals = 0 /\ faults = 0
  /\ looked = {} /\ excused = {}

----------------------------------------------------------------------------
(* The timer *)

(* scheduleSilenceTimer clears the timer before. *)
OnlyNewTimer == {seq + 1}

SetTimer == timers' = OnlyNewTimer /\ seq' = seq + 1

KeepsTimers == UNCHANGED <<timers, seq>>

(* A message or a command arrives (runCommandPreflight). *)
Arrives ==
  /\ up /\ arrived < MaxMsg
  /\ arrived' = arrived + 1
  /\ SetTimer
  /\ unsaved' \in {unsaved, unsaved \cup {arrived + 1}}
  /\ UNCHANGED <<up, table, reflecting, manuals, faults, history>>

(* persistUserMessage: at once, or after the summary of a long message. *)
Saves(m) ==
  /\ m \in unsaved
  /\ unsaved' = unsaved \ {m}
  /\ rows' = Append(rows, Message(m))
  /\ excused' = IF timers = {} \/ reflecting # {} THEN excused \cup {m} ELSE excused
  /\ UNCHANGED <<up, aged, timers, seq, reflecting, counts, looked>>

----------------------------------------------------------------------------
(* Reflections *)

(* getExtendedHistory: the rows of the last 24 hours. *)
Recent == {i \in DOMAIN rows : i > aged}

Messages == {i \in Recent : rows[i].what = "message"}

(* Variant: the notice of a failure is not taken for a reflection. *)
OnlySuccess == {"reflection"}

(* isReflectionMessage *)
ReflectionKinds == {"reflection", "failure"}

Reflections == {i \in Recent : rows[i].what \in ReflectionKinds}

(* Variant: the first message counts, not the last. *)
FirstIsNew == \A i \in Messages, r \in Reflections : i > r

(* hasUserActivitySinceLastReflection *)
HasNews == Reflections = {} \/ \E i \in Messages : \A r \in Reflections : i > r

(* triggerReflection up to its turn in the queue: it returns early, and    *)
(* then sets no timer, or takes the messages of the last day.              *)
Looks(type, source) ==
  IF (type = "silence" => HasNews) /\ Messages # {}
  THEN reflecting' = reflecting \cup
         {Reflection(type, source, {rows[i].msg : i \in Messages}, "working")}
  ELSE UNCHANGED reflecting

Fires(n) ==
  /\ up /\ n \in timers
  /\ timers' = timers \ {n}
  /\ IF n = seq THEN Looks("silence", n) ELSE UNCHANGED reflecting
  /\ UNCHANGED <<up, unsaved, table, seq, counts, history>>

(* /reflect and the web console *)
Manual ==
  /\ up /\ manuals < MaxManual
  /\ manuals' = manuals + 1
  /\ Looks("manual", 0)
  /\ UNCHANGED <<up, unsaved, table, timers, seq, arrived, faults, history>>

(* The agent has answered, or failed; the outcome is saved, then sent.     *)
Concludes(r) ==
  /\ r \in reflecting /\ r.at = "working"
  /\ \/ rows' = Append(rows, Notice("reflection")) /\ UNCHANGED faults
     \/ rows' = Append(rows, Notice("failure")) /\ Fault
  /\ reflecting' = (reflecting \ {r}) \cup {[r EXCEPT !.at = "sending"]}
  /\ looked' = looked \cup r.seen
  /\ UNCHANGED <<up, unsaved, aged, timers, seq, arrived, manuals, excused>>

(* A silent reflection sets the timer again, if nothing else has since.    *)
SetsAgain(r) == r.type = "silence" /\ (r.source # 0 => r.source = seq)

Sent(r) ==
  /\ r \in reflecting /\ r.at = "sending"
  /\ reflecting' = reflecting \ {r}
  /\ IF SetsAgain(r) THEN SetTimer ELSE KeepsTimers
  /\ UNCHANGED <<up, unsaved, table, counts, history>>

----------------------------------------------------------------------------
(* Restarts *)

(* The process goes down; meanwhile some of the table may get old. *)
GoesDown ==
  /\ up /\ Fault
  /\ up' = FALSE
  /\ unsaved' = {} /\ timers' = {} /\ seq' = 0 /\ reflecting' = {}
  /\ aged' \in aged .. Len(rows)
  /\ UNCHANGED <<rows, arrived, manuals, history>>

(* checkStartupActivity: the last row decides on how long it has been      *)
(* silent.                                                                 *)
ComesUp ==
  /\ ~up
  /\ up' = TRUE
  /\ \/ (aged < Len(rows) \/ rows = <<>>) /\ SetTimer /\ UNCHANGED reflecting
     \/ rows # <<>> /\ Looks("silence", 0) /\ KeepsTimers
  /\ UNCHANGED <<unsaved, table, counts, history>>

Reflects == (\E n \in timers : Fires(n)) \/ \E r \in reflecting : Concludes(r) \/ Sent(r)

SilNext ==
  \/ Arrives \/ \E m \in unsaved : Saves(m)
  \/ Reflects \/ Manual \/ GoesDown \/ ComesUp

(* Timeouts fire, a turn in the queue is answered in the end (ChatSession  *)
(* has the one whose call is cut short and never returns; it is left out   *)
(* here), and a process that went down is started again.                   *)
SilSpec ==
  SilInit /\ [][SilNext]_svars /\ WF_svars(Reflects) /\ WF_svars(ComesUp)

----------------------------------------------------------------------------
(* Properties *)

(* A silent reflection has something to look at that no reflection has     *)
(* looked at: silence alone, and a failure, trigger none.                  *)
OnlyForNews ==
  [][\A r \in reflecting' \ reflecting :
       r.type = "silence" /\ r.at = "working" => ~(r.seen \subseteq looked)]_svars

(* A message that is saved while the timer is set and no reflection is in  *)
(* progress is looked at in the end, unless it gets a day old before.      *)
IsOld(m) == \E i \in 1 .. aged : rows[i] = Message(m)
IsSaved(m) == \E i \in DOMAIN rows : rows[i] = Message(m)

FollowedUp ==
  \A m \in 1 .. MaxMsg : IsSaved(m) /\ m \notin excused ~> m \in looked \/ IsOld(m)
=============================================================================
