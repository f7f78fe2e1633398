-------------------------- MODULE SessionRetention --------------------------
(***************************************************************************)
(* The retention of opencode sessions                                      *)
(* (src/services/opencode-session-retention.ts): once an hour it reads     *)
(* which sessions chats are bound to, asks the database for the oldest     *)
(* sessions, deletes the expired ones that nobody is bound to, and now and *)
(* then compacts the database and truncates its WAL file.                  *)
(*                                                                         *)
(* The main process chats and writes the bindings to a file; the retention *)
(* runs in the runner, another process, which reads that file whenever its *)
(* round starts, a half-written one too.  An action of the round is what   *)
(* happens between two awaits.                                             *)
(*                                                                         *)
(* A session expires after 30 days without update, and a round takes       *)
(* minutes: sessions grow old between the rounds.  A fault is a write that *)
(* fails, a command that fails or finds the database busy, or a restart.   *)
(***************************************************************************)
EXTENDS Faults, SequencesExt

CONSTANTS
  User,         (* chat users *)
  MaxSession,   (* bound: sessions ever opened, numbered in order of opening *)
  BatchLimit    (* RETENTION_BATCH_LIMIT *)

Session   == 1 .. MaxSession
NoSession == 0

ASSUME RetentionAssumption ==
  /\ MaxSession \in Nat
  /\ BatchLimit \in Nat \ {0}

VARIABLES
  bound,       (* ChatSessionStore.bindings, in the main process *)
  file,        (* chat-session-state.json *)
  writing,     (* the main process is in writeFileSync *)
  turn,        (* the session each user's turn is in, NoSession for none *)
  own,         (* the users whose turn runs in the process of the retention *)
  opened,      (* number of sessions opened so far *)
  old,         (* the expired sessions, longest without update first *)
  fresh,       (* the other sessions in the database *)
  recent,      (* some session was updated within RECLAIM_QUIET_MS *)
  pc,          (* where the round of the retention is *)
  protected,   (* protectedIds *)
  toDelete,    (* what is left of toDelete *)
  seen,        (* stats, once the database has answered *)
  freePages,   (* the free pages reach RECLAIM_FREELIST_RATIO *)
  wal,         (* the WAL file, "big" after a VACUUM *)
  walPending,  (* state.walTruncatePending *)
  reclaimed,   (* less than RECLAIM_MIN_INTERVAL_MS since state.lastReclaimAt *)
  (* history, read by the properties only *)
  writeLost,   (* a write of the file has once failed or been cut off *)
  walForgotten (* a VACUUM was cut off, or a restart forgot its WAL file *)

chatVars  == <<bound, file, writing, turn, own, opened, writeLost>>
dbVars    == <<old, fresh, recent>>
roundVars == <<pc, protected, toDelete, seen>>
spaceVars == <<freePages, wal, walPending, reclaimed, walForgotten>>
rvars     == <<chatVars, dbVars, roundVars, spaceVars, faults>>

Unbound  == [u \in User |-> NoSession]
Whole(b) == [whole |-> TRUE, bound |-> b]
Torn     == [whole |-> FALSE, bound |-> Unbound]
NoStats  == [quiet |-> FALSE, free |-> FALSE]
Ids(b)   == {b[u] : u \in User} \ {NoSession}

RInit ==
  /\ bound = Unbound /\ file = Whole(Unbound) /\ writing = FALSE
  /\ turn = Unbound /\ own = {} /\ opened = 0
  /\ old = <<>> /\ fresh = {} /\ recent = FALSE
  /\ pc = "rest" /\ protected = {} /\ toDelete = {} /\ seen = NoStats
  /\ freePages = FALSE /\ wal = "small" /\ walPending = FALSE /\ reclaimed = FALSE
  /\ faults = 0 /\ writeLost = FALSE /\ walForgotten = FALSE

----------------------------------------------------------------------------
(* The main process.  It writes the file in one synchronous call, but not  *)
(* in one step of the file system.                                         *)

Stored == ToSet(old) \cup fresh

(* s is not among the expired sessions any more. *)
NotOld(s) ==
  \/ s \notin ToSet(old) /\ UNCHANGED old
  \/ \E i \in 1 .. Len(old) : old[i] = s /\ old' = RemoveAt(old, i)

(* The session is written to. *)
Touch(s) == NotOld(s) /\ fresh' = fresh \cup {s} /\ recent' = TRUE

KeepBindings == UNCHANGED <<bound, file, writing, writeLost, faults>>

(* set and clear write the file when the map changes, and only then.  A    *)
(* file that cannot be opened stays what it is; the failure is recorded    *)
(* and the map in memory has changed.                                      *)
Rebind(u, s) ==
  \/ bound[u] = s /\ KeepBindings
  \/ /\ bound[u] # s
     /\ bound' = [bound EXCEPT ![u] = s]
     /\ \/ writing' = TRUE /\ file' = Torn /\ UNCHANGED <<writeLost, faults>>
        \/ Fault /\ writeLost' = TRUE /\ UNCHANGED <<file, writing>>

(* A turn goes on with the bound session when opencode still has it, and   *)
(* otherwise gives the binding up and opens one.  It runs in the runner,   *)
(* or in the main process.                                                 *)
TurnStarts(u) ==
  /\ ~ writing /\ turn[u] = NoSession
  /\ \/ /\ bound[u] \in Stored
        /\ turn' = [turn EXCEPT ![u] = bound[u]]
        /\ Touch(bound[u])
        /\ KeepBindings /\ UNCHANGED opened
     \/ /\ bound[u] \notin Stored
        /\ opened < MaxSession
        /\ opened' = opened + 1
        /\ turn' = [turn EXCEPT ![u] = opened + 1]
        /\ Touch(opened + 1)
        /\ Rebind(u, NoSession)
  /\ own' \in {own, own \cup {u}}
  /\ UNCHANGED <<roundVars, spaceVars>>

(* The turn ends and binds its session, or ends without an answer.  What   *)
(* it wrote may have used free pages up.                                   *)
TurnEnds(u) ==
  /\ ~ writing /\ turn[u] # NoSession
  /\ \/ Rebind(u, turn[u])
     \/ KeepBindings
  /\ turn' = [turn EXCEPT ![u] = NoSession]
  /\ own' = own \ {u}
  /\ IF turn[u] \in Stored THEN Touch(turn[u]) ELSE UNCHANGED dbVars
  /\ freePages' \in {freePages, FALSE}
  /\ UNCHANGED <<opened, roundVars, wal, walPending, reclaimed, walForgotten>>

(* /new, when its turn starts: the binding is cleared. *)
Unbind(u) ==
  /\ ~ writing /\ turn[u] = NoSession /\ bound[u] # NoSession
  /\ Rebind(u, NoSession)
  /\ UNCHANGED <<turn, own, opened, dbVars, roundVars, spaceVars>>

(* writeFileSync has written it all. *)
WriteEnds ==
  /\ writing
  /\ writing' = FALSE /\ file' = Whole(bound)
  /\ UNCHANGED <<bound, turn, own, opened, writeLost, dbVars, roundVars, spaceVars, faults>>

(* writeFileSync fails halfway. *)
WriteFails ==
  /\ writing /\ Fault
  /\ writing' = FALSE /\ writeLost' = TRUE
  /\ UNCHANGED <<bound, file, turn, own, opened, dbVars, roundVars, spaceVars>>

(* The main process goes down, its turns with it: the runner stops a run   *)
(* whose connection closes.  It comes up with the bindings of the file, or *)
(* with none when it cannot read them.                                     *)
MainRestarts ==
  /\ Fault
  /\ bound' = file.bound
  /\ writing' = FALSE /\ writeLost' = (writeLost \/ writing)
  /\ turn' = Unbound /\ own' = {}
  /\ UNCHANGED <<file, opened, dbVars, roundVars, spaceVars>>

----------------------------------------------------------------------------
(* A round of the retention *)

(* Keeps what a step that leaves the database's space alone keeps. *)
RoundOnly == UNCHANGED <<chatVars, dbVars, spaceVars>>

Rest == pc' = "rest" /\ protected' = {} /\ toDelete' = {} /\ seen' = NoStats

(* setInterval: readProtectedIds() throws on a file it cannot parse, and   *)
(* the round is skipped.                                                   *)
RoundStarts ==
  /\ pc = "rest"
  /\ file.whole
  /\ pc' = "query" /\ protected' = Ids(file.bound)
  /\ UNCHANGED <<toDelete, seen, faults>>
  /\ RoundOnly

(* Variant: bound sessions take up places of the batch. *)
PlainLimit == BatchLimit

(* limit + protectedIds.size *)
QueryLimit == BatchLimit + Cardinality(protected)

(* Variant: only the age counts. *)
AnyExpired(s) == TRUE

Unprotected(s) == s \notin protected

(* The places, among the oldest sessions that were asked for, of those     *)
(* that are expired and not protected.                                     *)
Candidates == {i \in 1 .. Len(old) : i =< QueryLimit /\ Unprotected(old[i])}

(* selectSessionsToDelete: the oldest of them, at most `limit`. *)
Selected ==
  {old[i] : i \in {j \in Candidates : Cardinality({k \in Candidates : k < j}) < BatchLimit}}

(* queryCandidates answers, or fails. *)
QueryAnswers ==
  /\ pc = "query"
  /\ \/ /\ pc' = "delete" /\ toDelete' = Selected
        /\ UNCHANGED <<protected, seen, faults>>
     \/ Fault /\ Rest
  /\ RoundOnly

(* A session is deleted, or its deletion fails and is left to a later      *)
(* round.  (Which one goes first makes no difference here.)                *)
DeleteNext ==
  /\ pc = "delete"
  /\ \E s \in toDelete :
       /\ toDelete' = toDelete \ {s}
       /\ \/ /\ NotOld(s) /\ fresh' = fresh \ {s}
             /\ freePages' \in {freePages, TRUE}
             /\ UNCHANGED faults
          \/ Fault /\ UNCHANGED <<old, fresh, freePages>>
  /\ UNCHANGED <<chatVars, recent, pc, protected, seen, wal, walPending, reclaimed, walForgotten>>

(* maybeReclaimSpace: a truncation that is due, or a VACUUM unless there   *)
(* was one within the day; both ask the database first.                    *)
SpaceStarts ==
  /\ pc = "delete" /\ toDelete = {}
  /\ \/ (walPending \/ ~ reclaimed) /\ pc' = "stats" /\ UNCHANGED <<protected, toDelete, seen>>
     \/ ~ walPending /\ reclaimed /\ Rest
  /\ UNCHANGED faults
  /\ RoundOnly

(* The database evaluates the query; its answer travels. *)
StatsRead ==
  /\ pc = "stats"
  /\ \/ /\ pc' = "statsRead" /\ seen' = [quiet |-> ~ recent, free |-> freePages]
        /\ UNCHANGED <<protected, toDelete, faults>>
     \/ Fault /\ Rest
  /\ RoundOnly

(* isQuiet: no run of this process now, no update in the database then. *)
Quiet == own = {} /\ seen.quiet

(* The answer is there: retry the truncation, start a VACUUM, or rest. *)
StatsAnswer ==
  /\ pc = "statsRead"
  /\ \/ Quiet /\ walPending /\ pc' = "truncate"
        /\ UNCHANGED <<protected, toDelete, seen>>
     \/ Quiet /\ ~ walPending /\ seen.free /\ pc' = "vacuum"
        /\ UNCHANGED <<protected, toDelete, seen>>
     \/ ~ Quiet /\ Rest
     \/ ~ walPending /\ ~ seen.free /\ Rest
  /\ UNCHANGED faults
  /\ RoundOnly

(* A VACUUM ends: the database is in the WAL file now.  One that fails or  *)
(* is cut off by its time limit may have written there too.                *)
VacuumEnds ==
  /\ pc = "vacuum"
  /\ \/ /\ wal' = "big" /\ freePages' = FALSE /\ reclaimed' = TRUE
        /\ pc' = "truncate" /\ walForgotten' = FALSE
        /\ UNCHANGED <<protected, toDelete, seen, faults>>
     \/ /\ Fault /\ Rest
        /\ wal' \in {wal, "big"} /\ freePages' \in {freePages, FALSE}
        /\ walForgotten' = (walForgotten \/ wal' = "big")
        /\ UNCHANGED reclaimed
  /\ UNCHANGED <<chatVars, dbVars, walPending>>

(* Variant: only an answer of the database is retried, not its failure. *)
PendingAfterAnswer(answer) == IF answer = "failed" THEN walPending ELSE answer = "busy"

(* state.walTruncatePending after an attempt *)
PendingAfter(answer) == answer # "done"

(* attemptWalTruncate: truncated, or busy for another connection, or the   *)
(* command failed, be it after the fact.                                   *)
TruncateEnds ==
  /\ pc = "truncate"
  /\ \E answer \in {"done", "busy", "failed"} :
       /\ walPending' = PendingAfter(answer)
       /\ wal' \in CASE answer = "done" -> {"small"}
                     [] answer = "busy" -> {wal}
                     [] OTHER -> {wal, "small"}
       /\ \/ answer = "done" /\ UNCHANGED faults
          \/ answer # "done" /\ Fault
  /\ Rest
  /\ UNCHANGED <<chatVars, dbVars, freePages, reclaimed, walForgotten>>

(* The runner goes down with its runs and its round; `reclaimState` is     *)
(* only in its memory.  A VACUUM that it had started may have been done.   *)
RunnerRestarts ==
  /\ Fault
  /\ Rest
  /\ turn' = [u \in User |-> IF u \in own THEN NoSession ELSE turn[u]]
  /\ own' = {}
  /\ wal' \in IF pc = "vacuum" THEN {wal, "big"} ELSE {wal}
  /\ walPending' = FALSE /\ reclaimed' = FALSE
  /\ walForgotten' = (walForgotten \/ wal' = "big")
  /\ UNCHANGED <<bound, file, writing, opened, writeLost, dbVars, freePages>>

----------------------------------------------------------------------------
(* Time passes *)

(* A session that is not in use passes the retention period. *)
Expires ==
  /\ pc = "rest" /\ ~ writing
  /\ \E s \in fresh \ Ids(turn) : old' = Append(old, s) /\ fresh' = fresh \ {s}
  /\ UNCHANGED <<chatVars, recent, roundVars, spaceVars, faults>>

(* Five minutes without an update; a long tool call does not make one. *)
QuietPasses ==
  /\ recent /\ recent' = FALSE
  /\ UNCHANGED <<chatVars, old, fresh, roundVars, spaceVars, faults>>

DayPasses ==
  /\ pc = "rest" /\ reclaimed /\ reclaimed' = FALSE
  /\ UNCHANGED <<chatVars, dbVars, roundVars, freePages, wal, walPending, walForgotten, faults>>

RoundStep == \/ QueryAnswers \/ DeleteNext \/ SpaceStarts
             \/ StatsRead \/ StatsAnswer \/ VacuumEnds \/ TruncateEnds

RNext ==
  \/ \E u \in User : TurnStarts(u) \/ TurnEnds(u) \/ Unbind(u)
  \/ WriteEnds \/ WriteFails \/ MainRestarts
  \/ RoundStarts \/ RoundStep \/ RunnerRestarts
  \/ Expires \/ QuietPasses \/ DayPasses

(* The hourly timer goes on starting rounds, whose commands have time      *)
(* limits, and a synchronous write ends.                                   *)
RFairness == WF_rvars(RoundStarts) /\ WF_rvars(RoundStep) /\ WF_rvars(WriteEnds)

RSpec == RInit /\ [][RNext]_rvars /\ RFairness

----------------------------------------------------------------------------
(* Properties *)

(* A session that the round removes from the database. *)
Removed(s) == s \in Stored /\ s \notin Stored'

(* A session that a chat is bound to, or that a turn is running in, is     *)
(* never deleted, whatever the round saw of the state file and however     *)
(* long ago: as long as the file could be written when the map changed.    *)
SparesBoundAndRunning ==
  [][\A s \in Session :
       Removed(s) => writeLost \/ s \notin Ids(bound) \cup Ids(turn)]_rvars

(* A session that has expired unbound is deleted some day, however many    *)
(* older sessions are bound and whatever fails now and then, unless a      *)
(* restart brings its binding back or the state file is unusable.          *)
ExpiredIsCollected ==
  \A s \in Session :
    s \in ToSet(old) \ Ids(bound) ~> s \in Ids(bound) \/ s \notin Stored \/ writeLost

(* No VACUUM starts while a run of the same process is active, though the  *)
(* question whether there is one is put before the database is asked.      *)
VacuumSparesOwnRuns == [][pc # "vacuum" /\ pc' = "vacuum" => own = {}]_rvars

(* A WAL file that a VACUUM of this process has blown up is never lost     *)
(* sight of, whatever becomes of the attempts to truncate it; until it is  *)
(* truncated there is no further VACUUM.                                   *)
BigWalIsRemembered ==
  /\ wal = "big" /\ ~ walForgotten => walPending \/ pc = "truncate"
  /\ pc = "vacuum" => ~ walPending
=============================================================================
