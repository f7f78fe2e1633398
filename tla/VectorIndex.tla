----------------------------- MODULE VectorIndex -----------------------------
(***************************************************************************)
(* The worker that keeps the vector index of the memories                  *)
(* (docker/memoria-entrypoint.mjs), the ingest it runs in a child process  *)
(* (docker/memoria-vector-ingest.mjs), and the gate in front of the recall *)
(* (docker/memoria-vector-recall.mjs).                                     *)
(*                                                                         *)
(* A memory has a version, which grows when its text changes; 0 is a       *)
(* memory that is not there yet.  The cursor that Memoria saves for a      *)
(* target is the versions it stands for, and the payload Memoria builds    *)
(* has the memories that are newer.  The index lives in a local file.  It  *)
(* can get lost between two rounds of the worker, not within one.  That is *)
(* a fault, as is a step that fails, a crash, and a stop.                  *)
(***************************************************************************)
EXTENDS Faults, FiniteSets

CONSTANTS
  Memory,
  BatchSize,   (* MEMORIA_EMBED_BATCH *)
  MaxVersion   (* bound: versions of a memory *)

ASSUME VectorAssumption ==
  /\ BatchSize \in Nat \ {0}
  /\ MaxVersion \in Nat

VARIABLES
  mem,         (* Memoria's database: the version of each memory *)
  sched,       (* the memories in the scheduler's scope *)
  exists,      (* whether the file of the index is there *)
  vec,         (* the version each vector was made of; 0: no vector *)
  marker,      (* rebuild-pending *)
  cursor,      (* the versions at the saved cursor *)
  phase,       (* in the status file: idle, working, error *)
  unsaid,      (* history: the last failure could not be written there *)
  up,
  stopped,
  maintained,
  pc,          (* where the round is; idle: not busy; hung: its child hangs *)
  full,        (* the payload is built for a target without a cursor *)
  payload,     (* the versions when the payload was built *)
  changed,     (* the memories in it *)
  excl,        (* the names the ingest leaves out *)
  fresh        (* history: no round since the start or the loss of the index *)

source  == <<mem, sched>>
disk    == <<exists, vec, marker, cursor>>
status  == <<phase, unsaid>>
process == <<up, stopped, maintained>>
round   == <<full, payload, changed, excl>>
vvars   == <<source, disk, status, process, pc, round, faults, fresh>>

Versions == 0 .. MaxVersion
None     == [m \in Memory |-> 0]

VectorTypeOK ==
  /\ mem \in [Memory -> Versions] /\ cursor \in [Memory -> Versions]
  /\ vec \in [Memory -> Versions] /\ payload \in [Memory -> Versions]
  /\ sched \subseteq Memory /\ changed \subseteq Memory /\ excl \subseteq Memory
  /\ {exists, marker, up, stopped, maintained, full, fresh, unsaid} \subseteq BOOLEAN
  /\ phase \in {"idle", "working", "error"}
  /\ pc \in {"idle", "building", "opening", "cleaning", "embedding",
             "committing", "unmarking", "hung"}
  /\ faults \in 0 .. MaxFault

Init ==
  /\ mem = None /\ sched = {}
  /\ exists = FALSE /\ vec = None /\ marker = FALSE /\ cursor = None
  /\ phase = "idle" /\ unsaid = FALSE
  /\ up = TRUE /\ stopped = FALSE /\ maintained = FALSE
  /\ pc = "idle" /\ full = FALSE /\ payload = None /\ changed = {} /\ excl = {}
  /\ faults = 0 /\ fresh = TRUE

----------------------------------------------------------------------------
(* Memoria's database *)

(* A memory is added, or its text changes. *)
Remember(m) ==
  /\ mem[m] < MaxVersion
  /\ mem' = [mem EXCEPT ![m] = @ + 1]
  /\ UNCHANGED <<sched, disk, status, process, pc, round, faults, fresh>>

(* A memory gets into the scheduler's scope. *)
Schedule(m) ==
  /\ m \notin sched
  /\ sched' = sched \cup {m}
  /\ UNCHANGED <<mem, disk, status, process, pc, round, faults, fresh>>

----------------------------------------------------------------------------
(* A round: tick() and what it runs *)

At(p) == up /\ pc = p

StoreMissing == ~exists \/ marker

(* save(): the phase is in the status file. *)
Save(p) == phase' = p /\ unsaid' = FALSE

(* Variant: the marker is forgotten, the payload is complete all the same. *)
TickWithoutMarker ==
  /\ At("idle") /\ ~stopped
  /\ pc' = "building" /\ Save("working") /\ fresh' = FALSE
  /\ full' = StoreMissing
  /\ UNCHANGED <<source, disk, process, payload, changed, excl, faults>>

(* The marker is there before anything makes the file. *)
Tick ==
  /\ At("idle") /\ ~stopped
  /\ pc' = "building" /\ Save("working") /\ fresh' = FALSE
  /\ full' = StoreMissing
  /\ marker' = StoreMissing
  /\ UNCHANGED <<source, exists, vec, cursor, process, payload, changed, excl, faults>>

(* build-mcp-bridge-payload, and the choice of what comes next. *)
Build ==
  /\ At("building")
  /\ payload' = mem
  /\ changed' = {m \in Memory : mem[m] > IF full THEN 0 ELSE cursor[m]}
  /\ IF (changed' # {} \/ ~maintained) /\ ~stopped
     THEN pc' = "opening" /\ UNCHANGED status
     ELSE pc' = "idle" /\ Save("idle")
  /\ UNCHANGED <<source, disk, process, full, excl, faults, fresh>>

(* The ingest reads the names to leave out and opens, or makes, the index. *)
OpenStore ==
  /\ At("opening")
  /\ excl' = sched
  /\ exists' = TRUE
  /\ pc' = "cleaning"
  /\ UNCHANGED <<source, vec, marker, cursor, status, process, full, payload,
                 changed, faults, fresh>>

RemoveStale ==
  /\ At("cleaning")
  /\ vec' = [m \in Memory |-> IF m \in excl THEN 0 ELSE vec[m]]
  /\ pc' = "embedding"
  /\ UNCHANGED <<source, exists, marker, cursor, status, process, round, faults, fresh>>

(* What the ingest has still to embed: a text that is indexed already is   *)
(* skipped, so a round goes on where a failed one stopped.                 *)
Pending == {m \in changed \ excl : vec[m] # payload[m]}

Batches ==
  {b \in SUBSET Pending :
     Cardinality(b) = IF Cardinality(Pending) < BatchSize
                      THEN Cardinality(Pending) ELSE BatchSize}

(* One batch is one transaction. *)
WriteBatch ==
  /\ At("embedding")
  /\ Pending # {}
  /\ \E b \in Batches :
       vec' = [m \in Memory |-> IF m \in b THEN payload[m] ELSE vec[m]]
  /\ UNCHANGED <<source, exists, marker, cursor, status, process, pc, round, faults, fresh>>

(* Variant: the first batch is taken for the whole. *)
DoneAfterOneBatch ==
  /\ At("embedding")
  /\ Cardinality(Pending) < Cardinality(changed)
  /\ maintained' = (maintained \/ ~stopped)
  /\ CASE stopped       -> pc' = "idle" /\ UNCHANGED status
       [] changed # {}  -> pc' = "committing" /\ UNCHANGED status
       [] OTHER         -> pc' = "idle" /\ Save("idle")
  /\ UNCHANGED <<source, disk, up, stopped, round, faults, fresh>>

(* The ingest is over.  A worker that is stopped leaves the cursor alone.  *)
IngestDone ==
  /\ At("embedding")
  /\ Pending = {}
  /\ maintained' = (maintained \/ ~stopped)
  /\ CASE stopped       -> pc' = "idle" /\ UNCHANGED status
       [] changed # {}  -> pc' = "committing" /\ UNCHANGED status
       [] OTHER         -> pc' = "idle" /\ Save("idle")
  /\ UNCHANGED <<source, disk, up, stopped, round, faults, fresh>>

(* update-mcp-sync-state *)
Commit ==
  /\ At("committing")
  /\ cursor' = payload
  /\ pc' = "unmarking"
  /\ UNCHANGED <<source, exists, vec, marker, status, process, round, faults, fresh>>

Unmark ==
  /\ At("unmarking")
  /\ marker' = FALSE
  /\ pc' = "idle" /\ Save("idle")
  /\ UNCHANGED <<source, exists, vec, cursor, process, round, faults, fresh>>

Round == \/ Tick \/ Build \/ OpenStore \/ RemoveStale \/ WriteBatch
         \/ IngestDone \/ Commit \/ Unmark

----------------------------------------------------------------------------
(* What goes wrong *)

(* Variant: the round that failed stays busy. *)
FailBusy ==
  /\ Fault
  /\ up /\ pc # "idle"
  /\ pc' = "busy" /\ Save("error")
  /\ UNCHANGED <<source, disk, process, round, fresh>>

(* save('error') in the catch: where it fails, nobody is told. *)
SaveError == \/ Save("error")
             \/ UNCHANGED phase /\ unsaid' = TRUE

(* A step of the round fails: a child exits with an error or is killed, or *)
(* a file cannot be written.  What the step has done by then stays done.   *)
Fail ==
  /\ Fault
  /\ up /\ pc # "idle"
  /\ pc' = "idle" /\ SaveError
  /\ cursor' \in {cursor} \cup IF pc = "committing" THEN {payload} ELSE {}
  /\ marker' \in {marker} \cup IF pc = "unmarking" THEN {FALSE} ELSE {}
  /\ maintained' \in {maintained} \cup
       IF pc = "embedding" /\ Pending = {} /\ ~stopped THEN {TRUE} ELSE {}
  /\ UNCHANGED <<source, exists, vec, up, stopped, round, fresh>>

(* A child does not end.  Nothing limits its time, and while it is there   *)
(* the worker is busy: this is the end of the rounds, until somebody kills *)
(* the child (Fail) or stops the worker.                                   *)
ChildHangs ==
  /\ Fault
  /\ up /\ pc \in {"building", "opening", "cleaning", "embedding", "committing"}
  /\ pc' = "hung"
  /\ cursor' \in {cursor} \cup IF pc = "committing" THEN {payload} ELSE {}
  /\ UNCHANGED <<source, exists, vec, marker, status, process, round, fresh>>

(* A round ends before its marker is there. *)
TickFails ==
  /\ Fault
  /\ At("idle") /\ ~stopped
  /\ fresh' = FALSE
  /\ \/ SaveError
     \/ phase' = "working" /\ unsaid' = TRUE
  /\ UNCHANGED <<source, disk, process, pc, round>>

(* SIGTERM: the timer is off, and the children are told to end (Fail). *)
Stop ==
  /\ Fault
  /\ up /\ ~stopped
  /\ stopped' = TRUE
  /\ UNCHANGED <<source, disk, status, up, maintained, pc, round, fresh>>

Down ==
  /\ up' = FALSE /\ stopped' = FALSE /\ maintained' = FALSE
  /\ pc' = "idle"
  /\ UNCHANGED <<source, disk, status, round, fresh>>

(* A worker that is stopped runs no more child: what it would run fails,   *)
(* and the process ends with its serve command.                            *)
Exit  == up /\ stopped /\ Down /\ UNCHANGED faults
Crash == Fault /\ up /\ Down

Restart ==
  /\ ~up /\ up' = TRUE /\ fresh' = TRUE
  /\ UNCHANGED <<source, disk, status, stopped, maintained, pc, round, faults>>

LoseIndex ==
  /\ Fault
  /\ pc = "idle" /\ exists
  /\ exists' = FALSE /\ vec' = None /\ fresh' = TRUE
  /\ UNCHANGED <<source, marker, cursor, status, process, pc, round>>

----------------------------------------------------------------------------
Next ==
  \/ \E m \in Memory : Remember(m) \/ Schedule(m)
  \/ Round
  \/ Fail \/ ChildHangs \/ TickFails \/ Stop \/ Exit \/ Crash \/ Restart \/ LoseIndex

(* The interval ticks, what does not hang goes on, and the container is    *)
(* started again.                                                          *)
VSpec == Init /\ [][Next]_vvars /\ WF_vvars(Round) /\ WF_vvars(Exit) /\ WF_vvars(Restart)

----------------------------------------------------------------------------
(* isVectorIndexReady: the file is there and there is no marker. *)
Ready == exists /\ ~marker

(* An index that is ready has a vector, as new as the cursor or newer, for *)
(* every memory of the chats that the cursor stands for: whatever failed,  *)
(* crashed or got lost, no memory is skipped by the incremental rounds and *)
(* no query goes to an index that is being rebuilt.                        *)
ReadyIsComplete == Ready => \A m \in Memory \ sched : vec[m] >= cursor[m]

(* Once an ingest has gone through, nothing of what it was to leave out is *)
(* in the index, whether it was indexed before or is in the payload.       *)
ScheduleIsLeftOut ==
  pc \in {"committing", "unmarking"} => \A m \in excl : vec[m] = 0

(* Between two rounds, an index that cannot be asked although there is     *)
(* something to ask it for is reported: the gate fails (phase "error") and *)
(* does not answer with nothing, as it does for an index being built.  The *)
(* one exception is a failure that could not be written down either.       *)
TroubleShows ==
  /\ up /\ ~stopped /\ pc = "idle" /\ ~fresh /\ ~Ready
  => phase = "error" \/ changed = {} \/ unsaid

(* When nothing new comes and nothing fails any more, every memory of the  *)
(* chats gets into the index as it is, and the index gets ready; unless a  *)
(* child hangs, which the worker waits for without a limit.                *)
EverythingIsIndexed ==
  <>[](\/ /\ \A m \in Memory \ sched : vec[m] = mem[m]
          /\ mem # None => Ready
       \/ pc = "hung")
=============================================================================
