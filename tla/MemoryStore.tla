----------------------------- MODULE MemoryStore -----------------------------
(***************************************************************************)
(* The messages of a user in the database (core/memory.ts), with the index *)
(* of their texts (messages_fts) and that of their summaries               *)
(* (messages_summary_fts), which are tables of their own.  The statements  *)
(* of an operation are not in a transaction.  The main process runs one    *)
(* operation at a time, but the command-line tools (tools/memory-cli.ts    *)
(* and others) are processes with statements of their own, and each of     *)
(* them rebuilds the index of the summaries as it starts.  A fault is a    *)
(* crash, or a statement that fails.                                       *)
(*                                                                         *)
(* A text is the number of the message; a summary with its tags is a       *)
(* version: 0 none, 1 as stored, 2 by memory-cli, 3 by a follow-up.        *)
(***************************************************************************)
EXTENDS Faults, FiniteSets, FiniteSetsExt

CONSTANTS
  UserTurn,   (* the messages of the user that get a turn *)
  NoTurn,     (* the origin of what the scheduler stores *)
  MaxMsg,     (* bound: rows ever stored *)
  MaxCli      (* bound: command-line tools started *)

ASSUME MemoryAssumption ==
  /\ NoTurn \notin UserTurn
  /\ {MaxMsg, MaxCli} \subseteq Nat

Main == "main"
Cli  == "cli"
Proc == {Main, Cli}

VARIABLES
  messages,   (* id -> [msg, role, turn, ts, sum, mid] *)
  last,       (* rows ever stored, which AUTOINCREMENT remembers *)
  now,        (* the time of the last row *)
  fts,        (* messages_fts: rowid -> the message it was made of *)
  sfts,       (* messages_summary_fts: rowid -> [msg, sum] *)
  at,         (* the statement a process runs next *)
  job,        (* what its operation works on *)
  turns,      (* how far the turn of a message is *)
  key,        (* the time of the turn's reply, which the follow-up goes by *)
  started,    (* command-line tools so far *)
  mixed,      (* history: two operations were under way together *)
  ftsSound, sftsSound  (* history: nothing has disturbed the index (since it was rebuilt) *)

tables  == <<messages, last, now, fts, sfts>>
bounds  == <<started, faults>>
history == <<mixed, ftsSound, sftsSound>>
mvars   == <<tables, at, job, turns, key, bounds, history>>

Ids       == 1 .. MaxMsg
Versions  == 0 .. 3
Summary   == [msg : Ids, sum : Versions]
Empty     == [i \in {} |-> 0]
NoJob     == [id |-> 0, msg |-> 0, ids |-> {}, sum |-> 0, ts |-> 0, by |-> NoTurn,
              snap |-> Empty]
Resting(p) == at[p] \in {"down", "idle", "command"}
AllRest   == \A p \in Proc : Resting(p)

MemoryTypeOK ==
  /\ DOMAIN messages \subseteq Ids /\ DOMAIN fts \subseteq Ids /\ DOMAIN sfts \subseteq Ids
  /\ \A i \in DOMAIN messages :
       messages[i] \in [msg : Ids, role : {"user", "model"}, turn : UserTurn \cup {NoTurn},
                    ts : Ids, sum : Versions, mid : BOOLEAN]
  /\ \A i \in DOMAIN fts : fts[i] \in Ids
  /\ \A i \in DOMAIN sfts : sfts[i] \in Summary
  /\ last \in 0 .. MaxMsg /\ now \in 0 .. MaxMsg
  /\ turns \in [UserTurn -> {"new", "saving", "open", "replying", "answered", "ended"}]
  /\ key \in [UserTurn -> 0 .. MaxMsg]

MemoryInit ==
  /\ messages = Empty /\ last = 0 /\ now = 0 /\ fts = Empty /\ sfts = Empty
  /\ at = [p \in Proc |-> IF p = Main THEN "idle" ELSE "down"]
  /\ job = [p \in Proc |-> NoJob]
  /\ turns = [t \in UserTurn |-> "new"] /\ key = [t \in UserTurn |-> 0]
  /\ started = 0 /\ faults = 0
  /\ mixed = FALSE /\ ftsSound = TRUE /\ sftsSound = TRUE

----------------------------------------------------------------------------
(* Tables *)

Put(i, v, table) == [j \in DOMAIN table \cup {i} |-> IF j = i THEN v ELSE table[j]]
Without(table, ids) == [i \in DOMAIN table \ ids |-> table[i]]

(* The rowid of a new row: AUTOINCREMENT does not use one twice. *)
MaxPlusOne == IF DOMAIN messages = {} THEN 1 ELSE Max(DOMAIN messages) + 1

NextId == last + 1

(* The rows with a summary, as the index has them. *)
Summarised == {i \in DOMAIN messages : messages[i].sum # 0}
SummariesOf == [i \in Summarised |-> [msg |-> messages[i].msg, sum |-> messages[i].sum]]

----------------------------------------------------------------------------
(* Operations begin and end *)

Begins(p, statement) ==
  /\ at' = [at EXCEPT ![p] = statement]
  /\ mixed' = \E q \in Proc \ {p} : ~Resting(q)
  /\ UNCHANGED <<ftsSound, sftsSound>>

Goes(p, statement) == at' = [at EXCEPT ![p] = statement] /\ UNCHANGED history

GoesOn(p, statement) == Goes(p, statement) /\ UNCHANGED <<job, turns>>

(* A constructor that fails ends the process. *)
Rest(p) ==
  IF p = Main /\ at[p] \notin {"read summaries", "rebuild"} THEN "idle" ELSE "down"

(* What becomes of the turn whose row was being stored. *)
TurnGoes(p, ok) ==
  LET t == job[p].by IN
  IF p = Cli \/ t = NoTurn THEN UNCHANGED turns
  ELSE turns' = [turns EXCEPT ![t] =
         CASE @ = "saving"   -> IF ok THEN "open" ELSE "ended"
           [] @ = "replying" -> IF ok THEN "answered" ELSE "ended"
           [] OTHER          -> @]

Finishes(p) ==
  /\ at' = [at EXCEPT ![p] = Rest(p)]
  /\ job' = [job EXCEPT ![p] = NoJob]
  /\ TurnGoes(p, TRUE)
  /\ ftsSound' = (ftsSound /\ ~mixed)
  /\ sftsSound' = (sftsSound /\ ~mixed)
  /\ UNCHANGED mixed

(* An exception leaves the rest of the statements undone. *)
Throws(p) ==
  /\ at' = [at EXCEPT ![p] = Rest(p)]
  /\ job' = [job EXCEPT ![p] = NoJob]
  /\ TurnGoes(p, FALSE)
  /\ ftsSound' = FALSE /\ sftsSound' = FALSE
  /\ UNCHANGED mixed

----------------------------------------------------------------------------
(* addMessage *)

AddMessage(role, t, sum) ==
  /\ at[Main] = "idle" /\ last < MaxMsg
  /\ \E ts \in {now, now + 1} \ {0} :
       /\ now' = ts
       /\ messages' = Put(NextId, [msg |-> last + 1, role |-> role, turn |-> t, ts |-> ts,
                                   sum |-> sum,
                                   mid |-> \E u \in UserTurn : turns[u] = "open"],
                          messages)
       /\ key' = IF role = "model" /\ t # NoTurn THEN [key EXCEPT ![t] = ts] ELSE key
  /\ last' = last + 1
  /\ job' = [job EXCEPT ![Main] = [NoJob EXCEPT !.id = NextId, !.msg = last + 1,
                                                !.sum = sum, !.by = t]]
  /\ Begins(Main, "index text")
  /\ UNCHANGED <<fts, sfts, bounds>>

(* persistUserMessage, before the turn gets into the queue. *)
UserWrites(t) ==
  /\ turns[t] = "new"
  /\ turns' = [turns EXCEPT ![t] = "saving"]
  /\ \E sum \in {0, 1} : AddMessage("user", t, sum)

(* persistModelResponse *)
ReplyComes(t) ==
  /\ turns[t] = "open"
  /\ turns' = [turns EXCEPT ![t] = "replying"]
  /\ AddMessage("model", t, 0)

(* An empty answer or an error message is not stored. *)
TurnFails(t) ==
  /\ turns[t] = "open"
  /\ turns' = [turns EXCEPT ![t] = "ended"]
  /\ UNCHANGED <<tables, at, job, key, bounds, history>>

(* persistSchedulerMessage *)
SchedulerWrites == AddMessage("model", NoTurn, 0) /\ UNCHANGED turns

(* A rowid that is there already is a constraint that fails. *)
IndexText(p) ==
  /\ at[p] = "index text"
  /\ IF job[p].id \in DOMAIN fts
     THEN Throws(p) /\ UNCHANGED fts
     ELSE /\ fts' = Put(job[p].id, job[p].msg, fts)
          /\ GoesOn(p, "clear summary")
  /\ UNCHANGED <<messages, last, now, sfts, key, bounds>>

(* syncSummaryFtsRow *)
ClearSummary(p) ==
  /\ at[p] = "clear summary"
  /\ sfts' = Without(sfts, {job[p].id})
  /\ IF job[p].sum = 0 THEN Finishes(p) ELSE GoesOn(p, "index summary")
  /\ UNCHANGED <<messages, last, now, fts, key, bounds>>

IndexSummary(p) ==
  /\ at[p] = "index summary"
  /\ IF job[p].id \in DOMAIN sfts
     THEN Throws(p) /\ UNCHANGED sfts
     ELSE /\ sfts' = Put(job[p].id, [msg |-> job[p].msg, sum |-> job[p].sum], sfts)
          /\ Finishes(p)
  /\ UNCHANGED <<messages, last, now, fts, key, bounds>>

----------------------------------------------------------------------------
(* updateMessageMetadata and updateMessageMetadataById *)

Replies(ts) == {i \in DOMAIN messages : messages[i].role = "model" /\ messages[i].ts = ts}

(* maybeSendSummaryFollowup, when the summary has come. *)
FollowUp(t) ==
  /\ turns[t] = "answered" /\ at[Main] = "idle"
  /\ turns' = [turns EXCEPT ![t] = "ended"]
  /\ IF Replies(key[t]) = {}
     THEN UNCHANGED <<job, at, history>>
     ELSE \E i \in Replies(key[t]) :
            /\ job' = [job EXCEPT ![Main] = [NoJob EXCEPT !.id = i, !.sum = 3, !.ts = key[t]]]
            /\ Begins(Main, "update")
  /\ UNCHANGED <<tables, key, bounds>>

(* memory-cli tag, with a summary or with tags only. *)
Tag(i, withSummary) ==
  /\ at[Cli] = "command" /\ i \in DOMAIN messages
  /\ job' = [job EXCEPT ![Cli] = [NoJob EXCEPT !.id = i, !.sum = IF withSummary THEN 2 ELSE 0]]
  /\ Begins(Cli, "update")
  /\ UNCHANGED <<tables, turns, key, bounds>>

(* By time the update goes to every row of that time. *)
Updated(p) ==
  DOMAIN messages \cap (IF job[p].ts = 0 THEN {job[p].id} ELSE Replies(job[p].ts))

(* COALESCE: a summary stays if there is no other one; the tags are new.   *)
NewSummary(p, sum) == IF job[p].sum # 0 THEN job[p].sum ELSE IF sum # 0 THEN 2 ELSE 0

Update(p) ==
  /\ at[p] = "update"
  /\ messages' = [i \in DOMAIN messages |->
                    IF i \in Updated(p) THEN [messages[i] EXCEPT !.sum = NewSummary(p, @)]
                    ELSE messages[i]]
  /\ at' = [at EXCEPT ![p] = "read again"]
  /\ sftsSound' = (sftsSound /\ Updated(p) \subseteq {job[p].id})
  /\ UNCHANGED <<last, now, fts, sfts, job, turns, key, bounds, mixed, ftsSound>>

(* Variant: the index gets what was given instead of what is in the row. *)
UseGiven(p) ==
  /\ at[p] = "read again"
  /\ IF job[p].id \in DOMAIN messages
     THEN /\ job' = [job EXCEPT ![p].msg = messages[job[p].id].msg]
          /\ Goes(p, "clear summary") /\ UNCHANGED turns
     ELSE Throws(p)
  /\ UNCHANGED <<tables, key, bounds>>

(* Reading the fields of a row that is gone is a TypeError. *)
ReadAgain(p) ==
  /\ at[p] = "read again"
  /\ IF job[p].id \in DOMAIN messages
     THEN /\ job' = [job EXCEPT ![p].sum = messages[job[p].id].sum,
                                ![p].msg = messages[job[p].id].msg]
          /\ Goes(p, "clear summary") /\ UNCHANGED turns
     ELSE Throws(p)
  /\ UNCHANGED <<tables, key, bounds>>

----------------------------------------------------------------------------
(* deleteRecentMessages and clear *)

Recent(n) ==
  {ids \in SUBSET DOMAIN messages :
     /\ Cardinality(ids) = Min({n, Cardinality(DOMAIN messages)})
     /\ \A i \in ids, j \in DOMAIN messages \ ids : messages[i].ts >= messages[j].ts}

(* memory-cli forget *)
ForgetRecent(n) ==
  /\ at[Cli] = "command" /\ messages # Empty
  /\ \E ids \in Recent(n) : job' = [job EXCEPT ![Cli] = [NoJob EXCEPT !.ids = ids]]
  /\ Begins(Cli, "delete rows")
  /\ UNCHANGED <<tables, turns, key, bounds>>

DeleteRows(p) ==
  /\ at[p] = "delete rows"
  /\ messages' = Without(messages, job[p].ids)
  /\ Goes(p, "delete texts")
  /\ UNCHANGED <<last, now, fts, sfts, job, turns, key, bounds>>

DeleteTexts(p) ==
  /\ at[p] = "delete texts"
  /\ fts' = Without(fts, job[p].ids)
  /\ Goes(p, "delete summaries")
  /\ UNCHANGED <<messages, last, now, sfts, job, turns, key, bounds>>

DeleteSummaries(p) ==
  /\ at[p] = "delete summaries"
  /\ sfts' = Without(sfts, job[p].ids)
  /\ Finishes(p)
  /\ UNCHANGED <<messages, last, now, fts, key, bounds>>

(* /reset, and memory-cli clear: by user, where forget goes by id. *)
Clear(p) ==
  /\ at[p] = IF p = Main THEN "idle" ELSE "command"
  /\ messages # Empty \/ fts # Empty \/ sfts # Empty
  /\ messages' = Empty
  /\ job' = [job EXCEPT ![p] = NoJob]
  /\ Begins(p, "clear texts")
  /\ UNCHANGED <<last, now, fts, sfts, turns, key, bounds>>

ClearTexts(p) ==
  /\ at[p] = "clear texts"
  /\ fts' = Empty
  /\ Goes(p, "clear summaries")
  /\ UNCHANGED <<messages, last, now, sfts, job, turns, key, bounds>>

ClearSummaries(p) ==
  /\ at[p] = "clear summaries"
  /\ sfts' = Empty
  /\ Finishes(p)
  /\ UNCHANGED <<messages, last, now, fts, key, bounds>>

----------------------------------------------------------------------------
(* The constructor: rebuildSummaryFtsIndex *)

Starts(p) ==
  /\ at[p] = "down"
  /\ IF p = Cli THEN started < MaxCli /\ started' = started + 1 ELSE UNCHANGED started
  /\ job' = [job EXCEPT ![p] = NoJob]
  /\ Begins(p, "read summaries")
  /\ UNCHANGED <<tables, turns, key, faults>>

(* The rows are read before the transaction. *)
ReadSummaries(p) ==
  /\ at[p] = "read summaries"
  /\ job' = [job EXCEPT ![p].snap = SummariesOf]
  /\ Goes(p, "rebuild")
  /\ UNCHANGED <<tables, turns, key, bounds>>

Rebuild(p) ==
  /\ at[p] = "rebuild"
  /\ sfts' = job[p].snap
  /\ at' = [at EXCEPT ![p] = IF p = Main THEN "idle" ELSE "command"]
  /\ job' = [job EXCEPT ![p] = NoJob]
  /\ sftsSound' = ~mixed
  /\ UNCHANGED <<messages, last, now, fts, turns, key, bounds, mixed, ftsSound>>

(* A tool that only reads or works on the schedules. *)
Exits ==
  /\ at[Cli] = "command"
  /\ at' = [at EXCEPT ![Cli] = "down"]
  /\ UNCHANGED <<tables, job, turns, key, bounds, history>>

----------------------------------------------------------------------------
(* What goes wrong *)

(* A statement waits for a lock for too long. *)
StatementFails(p) ==
  /\ Fault
  /\ ~Resting(p)
  /\ Throws(p)
  /\ UNCHANGED <<tables, key, started>>

Dies(p) ==
  /\ Fault
  /\ at[p] # "down"
  /\ at' = [at EXCEPT ![p] = "down"]
  /\ job' = [job EXCEPT ![p] = NoJob]
  /\ turns' = IF p = Cli THEN turns
              ELSE [t \in UserTurn |-> IF turns[t] = "new" THEN "new" ELSE "ended"]
  /\ ftsSound' = (ftsSound /\ Resting(p))
  /\ sftsSound' = (sftsSound /\ Resting(p))
  /\ UNCHANGED <<tables, key, started, mixed>>

----------------------------------------------------------------------------
Callers ==
  \/ \E t \in UserTurn : UserWrites(t) \/ ReplyComes(t) \/ TurnFails(t) \/ FollowUp(t)
  \/ SchedulerWrites
  \/ \E i \in DOMAIN messages, b \in BOOLEAN : Tag(i, b)
  \/ \E n \in 1 .. 2 : ForgetRecent(n)
  \/ \E p \in Proc : Clear(p) \/ Starts(p)
  \/ Exits

Statement(p) ==
  \/ IndexText(p) \/ ClearSummary(p) \/ IndexSummary(p)
  \/ Update(p) \/ ReadAgain(p)
  \/ DeleteRows(p) \/ DeleteTexts(p) \/ DeleteSummaries(p)
  \/ ClearTexts(p) \/ ClearSummaries(p)
  \/ ReadSummaries(p) \/ Rebuild(p)

MemoryNext ==
  \/ Callers
  \/ \E p \in Proc : Statement(p) \/ StatementFails(p) \/ Dies(p)

MemorySpec == MemoryInit /\ [][MemoryNext]_mvars

----------------------------------------------------------------------------
(* What a search for the text of a message finds: search joins the index   *)
(* with the rows by id; searchSummaries joins both indexes, keeps the rows *)
(* with a summary, and looks at the summaries themselves too.              *)
TextHits(m) == {i \in DOMAIN messages \cap DOMAIN fts : fts[i] = m}

SummaryHits(m) ==
  {i \in Summarised : \/ messages[i].msg = m
                      \/ i \in DOMAIN sfts /\ sfts[i].msg = m
                      \/ i \in TextHits(m)}

(* A row of an index that outlived its message never makes a search come   *)
(* up with another message.                                                *)
SearchMatches ==
  \A m \in Ids : \A i \in TextHits(m) \cup SummaryHits(m) : messages[i].msg = m

(* When everything is at rest, the texts are all in their index if no two  *)
(* operations met and none was cut; the summaries even after that, once a  *)
(* process has rebuilt their index alone.                                  *)
IndexesAgree ==
  /\ MemoryTypeOK
  /\ AllRest /\ ftsSound => fts = [i \in DOMAIN messages |-> messages[i].msg]
  /\ AllRest /\ sftsSound => sfts = SummariesOf

----------------------------------------------------------------------------
(* getRecentConversation: ids are in the order of time. *)
Before(i) == {j \in DOMAIN messages : j < i}

(* Variant: a message of the user anywhere before. *)
AfterAnyUser(i) == \E j \in Before(i) : messages[j].role = "user"

AfterUser(i) == Before(i) # {} /\ messages[Max(Before(i))].role = "user"
Conversation == {i \in DOMAIN messages : messages[i].role = "user" \/ AfterUser(i)}

RepliesTo(t) == {i \in DOMAIN messages : messages[i].role = "model" /\ messages[i].turn = t}

(* What the scheduler stored is shown as a reply only if it came during a  *)
(* turn, or behind a message whose reply is not there.                     *)
ConversationIsChat ==
  \A i \in Conversation :
    messages[i].role = "model" /\ messages[i].turn = NoTurn =>
      messages[i].mid \/ RepliesTo(messages[Max(Before(i))].turn) = {}
=============================================================================
