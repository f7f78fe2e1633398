---------------------------- MODULE MemoriaSync ----------------------------
(***************************************************************************)
(* The bridge to the Memoria service (src/core/memoria-sync.ts): turns are *)
(* handed over by the message pipeline and by the scheduler, or through a  *)
(* hook queue file that another process appends to, and synchronised one   *)
(* after another along a chain of promises.                                *)
(*                                                                         *)
(* A job of the chain is a turn or a drain of the hook file.  The file     *)
(* operations of a drain are steps of their own: the thread has no await   *)
(* between them, but the writer of the file is another process, and the    *)
(* process may die between any two.  A fault is a failure of the file      *)
(* system, a response that is cut short, or a crash.                       *)
(***************************************************************************)
EXTENDS Faults, SequencesExt

CONSTANTS
  Text,      (* what a turn says: the question and the answer *)
  BadText,   (* an empty question or answer, or a line that does not parse *)
  MaxTurn,   (* bound: turns, whichever way they come *)
  MaxDrain   (* bound: drains in the chain; an interval adds one after another *)

ASSUME MemoriaAssumption ==
  /\ {MaxTurn, MaxDrain} \subseteq Nat
  /\ BadText \subseteq Text

Turn  == 1 .. MaxTurn
Drain == 0
None  == "none"

VARIABLES
  text,      (* what each turn says, None for one that has not come yet *)
  nturn,     (* turns so far *)
  seen,      (* recentTurnHashes *)
  chain,     (* this.queue: the jobs that have not settled, the first is under way *)
  phase,     (* how far the first job is *)
  offered,   (* the turns enqueueSyncTurn has been called with *)
  hookFile,  (* the lines of the hook queue file *)
  procFile,  (* those of the file it was renamed to, for the drain under way *)
  raw,       (* those that this drain has read *)
  orphans,   (* the lines in .processing files that no drain comes back to *)
  temp,      (* the payloads in tempDir *)
  failed,    (* the payloads in failedDir *)
  wire,      (* the requests Memoria may still get to see *)
  stored,    (* the turns Memoria has stored *)
  refused,   (* the turns whose payload could not be written *)
  lost       (* the turns and lines that were only in memory at a crash *)

input == <<text, nturn>>
queue == <<seen, chain, offered>>
hook  == <<hookFile, procFile, raw, orphans>>
disk  == <<temp, failed, refused>>
net   == <<wire, stored>>
vars  == <<input, queue, phase, hook, disk, net, lost, faults>>

MInit ==
  /\ text = [t \in Turn |-> None]
  /\ nturn = 0
  /\ seen = {} /\ chain = <<Drain>> /\ offered = {}
  /\ phase = "free"
  /\ hookFile = <<>> /\ procFile = <<>> /\ raw = <<>> /\ orphans = {}
  /\ temp = {} /\ failed = {} /\ refused = {}
  /\ wire = {} /\ stored = {}
  /\ lost = {}
  /\ faults = 0

(* Between the file operations of a drain no other callback runs. *)
ThreadIsFree == phase \notin {"renamed", "read"}

----------------------------------------------------------------------------
(* Taking turns *)

(* Which of the turns say something, and something that isDuplicateTurn    *)
(* has not met, before or earlier among them.                              *)
Fresh(turns) ==
  {i \in DOMAIN turns :
     /\ text'[turns[i]] \notin BadText \cup seen
     /\ \A j \in 1 .. i - 1 : text'[turns[j]] # text'[turns[i]]}

InOrder(f) == \A i, j \in DOMAIN f : i < j => f[i] < f[j]

(* enqueueSyncTurn with each of the turns: the fresh ones go behind the    *)
(* jobs, in their order.                                                   *)
Take(jobs, turns) ==
  /\ seen' = seen \cup {text'[turns[i]] : i \in Fresh(turns)}
  /\ \E f \in [1 .. Cardinality(Fresh(turns)) -> Fresh(turns)] :
       InOrder(f) /\ chain' = jobs \o [i \in DOMAIN f |-> turns[f[i]]]
  /\ offered' = offered \cup ToSet(turns)

Comes(x) ==
  /\ nturn < MaxTurn
  /\ nturn' = nturn + 1
  /\ text' = [text EXCEPT ![nturn + 1] = x]

(* enqueueTurn, from the pipeline or the scheduler. *)
EnqueueTurn(x) ==
  /\ ThreadIsFree
  /\ Comes(x)
  /\ Take(chain, <<nturn + 1>>)
  /\ UNCHANGED <<phase, hook, disk, net, lost, faults>>

(* The writer of the hook queue appends a line. *)
HookWrites(x) ==
  /\ Comes(x)
  /\ hookFile' = Append(hookFile, nturn + 1)
  /\ UNCHANGED <<queue, phase, procFile, raw, orphans, disk, net, lost, faults>>

(* A hash is ten minutes old; it is swept out when the next turn comes. *)
Forget(x) ==
  /\ x \in seen
  /\ seen' = seen \ {x}
  /\ UNCHANGED <<input, chain, offered, phase, hook, disk, net, lost, faults>>

(* The interval of startHookQueuePolling. *)
Poll ==
  /\ ThreadIsFree
  /\ Len(SelectSeq(chain, LAMBDA j : j = Drain)) < MaxDrain
  /\ chain' = Append(chain, Drain)
  /\ UNCHANGED <<input, seen, offered, phase, hook, disk, net, lost, faults>>

----------------------------------------------------------------------------
(* The chain *)

First(j) == chain # <<>> /\ Head(chain) = j

(* Variant: without the catch at its end, a link that fails takes all the  *)
(* later ones with it.                                                     *)
ChainBreaks == UNCHANGED chain /\ phase' = "broken"

(* The catch at the end of each link: the next job begins. *)
LinkCatches == chain' = Tail(chain) /\ phase' = "free"

LinkEnds == chain' = Tail(chain) /\ phase' = "free"

(* Variant: the file is read where it lies, then moved out of the way. *)
ReadThenRename(p) ==
  IF p = "free"
  THEN raw' = hookFile /\ UNCHANGED <<hookFile, procFile>>
  ELSE hookFile' = <<>> /\ procFile' = hookFile /\ UNCHANGED raw

(* The file is renamed, then read. *)
RenameThenRead(p) ==
  IF p = "free"
  THEN hookFile' = <<>> /\ procFile' = hookFile /\ UNCHANGED raw
  ELSE raw' = procFile /\ UNCHANGED <<hookFile, procFile>>

(* A drain finds nothing, or renames the file. *)
DrainBegins ==
  /\ First(Drain) /\ phase = "free"
  /\ \/ hookFile = <<>> /\ LinkEnds /\ UNCHANGED <<hookFile, procFile, raw>>
     \/ hookFile # <<>> /\ RenameThenRead(phase) /\ phase' = "renamed" /\ UNCHANGED chain
  /\ UNCHANGED <<input, seen, offered, orphans, disk, net, lost, faults>>

DrainReads ==
  /\ phase = "renamed"
  /\ RenameThenRead(phase)
  /\ phase' = "read"
  /\ UNCHANGED <<input, queue, orphans, disk, net, lost, faults>>

(* The renamed file is unlinked, and its lines go to the end of the chain. *)
DrainImports ==
  /\ phase = "read"
  /\ UNCHANGED <<input, hookFile, orphans, disk, net, lost, faults>>
  /\ procFile' = <<>>
  /\ raw' = <<>>
  /\ Take(Tail(chain), raw)
  /\ phase' = "free"

(* The rename, the read or the unlink throws.  Nobody goes back to a file  *)
(* that has been renamed.                                                  *)
DrainThrows ==
  /\ Fault
  /\ \/ First(Drain) /\ phase = "free" /\ hookFile # <<>>
     \/ phase \in {"renamed", "read"}
  /\ orphans' = orphans \cup ToSet(procFile)
  /\ procFile' = <<>>
  /\ raw' = <<>>
  /\ LinkCatches
  /\ UNCHANGED <<input, seen, offered, hookFile, disk, net, lost>>

----------------------------------------------------------------------------
(* The request *)

(* The payload is written as a buffer, then posted. *)
Post(t) ==
  /\ First(t) /\ phase = "free"
  /\ temp' = temp \cup {t}
  /\ wire' = wire \cup {t}
  /\ phase' = "posted"
  /\ UNCHANGED <<input, queue, hook, failed, refused, stored, lost, faults>>

PayloadRefused(t) ==
  /\ Fault
  /\ First(t) /\ phase = "free"
  /\ refused' = refused \cup {t}
  /\ LinkCatches
  /\ UNCHANGED <<input, seen, offered, hook, temp, failed, net, lost>>

(* Memoria stores what it has been sent, waited for or not. *)
Stores(t) ==
  /\ t \in wire
  /\ wire' = wire \ {t}
  /\ stored' = stored \cup {t}
  /\ UNCHANGED <<input, queue, phase, hook, disk, lost, faults>>

(* A request is lost on the way. *)
WireLoses(t) ==
  /\ t \in wire
  /\ wire' = wire \ {t}
  /\ UNCHANGED <<input, queue, phase, hook, disk, stored, lost, faults>>

(* The head of a response, with its status: Memoria has stored the turn,   *)
(* or does not want it.                                                    *)
ResponseBegins(t) ==
  /\ First(t) /\ phase = "posted"
  /\ \/ t \in stored /\ phase' = "success" /\ UNCHANGED wire
     \/ t \in wire /\ phase' = "refusal" /\ wire' = wire \ {t}
  /\ UNCHANGED <<input, queue, hook, disk, stored, lost, faults>>

(* Its end: the payload is deleted, if that works. *)
Synced(t) ==
  /\ First(t) /\ phase = "success"
  /\ \/ temp' = temp \ {t} /\ UNCHANGED faults
     \/ Fault /\ UNCHANGED temp
  /\ LinkEnds
  /\ UNCHANGED <<input, seen, offered, hook, failed, refused, net, lost>>

(* Variant: the finally unlinks whether the turn is synced or not. *)
Discarded(t) == temp' = temp \ {t} /\ UNCHANGED failed

(* preserveFailedPayload *)
Preserved(t) == temp' = temp \ {t} /\ failed' = failed \cup {t}

(* A status that is no success, an error of the connection, or no answer   *)
(* within the time limit.                                                  *)
PostFails(t) ==
  /\ First(t) /\ phase \in {"posted", "success", "refusal"}
  /\ \/ Preserved(t) /\ UNCHANGED faults
     \/ Fault /\ UNCHANGED <<temp, failed>>
  /\ LinkCatches
  /\ UNCHANGED <<input, seen, offered, hook, refused, net, lost>>

(* The service closes the connection in the middle of a response: 'end'    *)
(* does not come, the request has no 'error', and its limit is over with   *)
(* the socket.                                                             *)
CutShort(t) ==
  /\ Fault
  /\ First(t) /\ phase \in {"success", "refusal"}
  /\ phase' = "hung"
  /\ UNCHANGED <<input, queue, hook, disk, net, lost>>

(* The process goes down, which waits for nothing, and comes up again.     *)
Crash ==
  /\ Fault
  /\ lost' = lost \cup ((ToSet(chain) \cup ToSet(raw)) \ (temp \cup {Drain} \cup ToSet(procFile)))
  /\ orphans' = orphans \cup ToSet(procFile)
  /\ procFile' = <<>> /\ raw' = <<>>
  /\ seen' = {}
  /\ chain' = <<Drain>>
  /\ phase' = "free"
  /\ UNCHANGED <<input, offered, hookFile, disk, net>>

Bridge(t) == Post(t) \/ ResponseBegins(t) \/ Synced(t) \/ PostFails(t)
DrainSteps == DrainBegins \/ DrainReads \/ DrainImports

MNext ==
  \/ \E x \in Text : EnqueueTurn(x) \/ HookWrites(x) \/ Forget(x)
  \/ Poll \/ DrainSteps \/ DrainThrows
  \/ \E t \in Turn : Bridge(t) \/ PayloadRefused(t) \/ CutShort(t)
  \/ \E t \in Turn : Stores(t) \/ WireLoses(t)
  \/ Crash

(* The links of the chain run when their time comes, and a request whose   *)
(* connection stands has its time limit.  Nothing is assumed of Memoria or *)
(* of those who hand turns over.                                           *)
MFairness == WF_vars(DrainSteps) /\ \A t \in Turn : WF_vars(Bridge(t))

MSpec == MInit /\ [][MNext]_vars /\ MFairness

----------------------------------------------------------------------------
(* Properties *)

InRequest == {"posted", "success", "refusal", "hung"}

MemoriaTypeOK ==
  /\ text \in [Turn -> Text \cup {None}]
  /\ nturn \in 0 .. MaxTurn
  /\ seen \subseteq Text \ BadText
  /\ chain \in Seq(Turn \cup {Drain})
  /\ phase \in {"free", "renamed", "read"} \cup InRequest
  /\ phase \in InRequest => Head(chain) \in temp
  /\ {hookFile, procFile, raw} \subseteq Seq(Turn)
  /\ UNION {offered, orphans, temp, failed, refused, wire, stored, lost} \subseteq Turn
  /\ temp \cap failed = {}
  /\ faults \in 0 .. MaxFault

(* What was handed over is not lost: a turn, or the one it was taken for a *)
(* repetition of, waits in the chain, is stored, or its payload is on      *)
(* disk, however its request ended.  The exceptions are a payload that     *)
(* could not be written and a crash before its request was begun.          *)
KeptSomewhere ==
  \A t \in offered :
    text[t] \notin BadText =>
      \E s \in Turn :
        /\ text[s] = text[t]
        /\ s \in ToSet(chain) \cup stored \cup temp \cup failed \cup refused \cup lost

(* A line of the hook queue is in one place, whenever its writer and the   *)
(* drain meet and whatever fails: still in the file, in the file a drain   *)
(* has renamed (its own, or one left behind), or handed over.              *)
LineIsInOnePlace ==
  /\ MemoriaTypeOK
  /\ \A t \in 1 .. nturn :
    LET places == <<ToSet(hookFile), ToSet(procFile), orphans, offered>>
    IN  Cardinality({p \in DOMAIN places : t \in places[p]}) = 1

(* No job of the chain keeps the next ones from their turn, whether it     *)
(* fails or succeeds, but a request that hangs.                            *)
JobsGetTheirTurn ==
  \A t \in Turn : t \in ToSet(chain) ~> t \notin ToSet(chain) \/ phase = "hung"
=============================================================================
