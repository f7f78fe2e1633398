--------------------------- MODULE ExecutionQueue ---------------------------
(***************************************************************************)
(* The per-user priority queue that every AI call of the main process goes *)
(* through (src/core/execution-queue.ts).  JavaScript runs one callback at *)
(* a time, so an action is what happens between two awaits: enqueue and    *)
(* cancel are synchronous; drain is cut at the one await it has, the race  *)
(* between the run of the task and the abort signal.                       *)
(*                                                                         *)
(* Aborting a task settles that race and lets the queue go on; it does not *)
(* stop the body of the run, which goes on until it notices the signal (or *)
(* to its own end, when it was never given the signal).  `live` holds the  *)
(* runs whose body has not ended, in the queue's eyes or not.              *)
(***************************************************************************)
EXTENDS Naturals, Sequences

CONSTANTS
  User,      (* user ids *)
  MaxTask    (* bound: how many tasks are ever enqueued *)

ASSUME MaxTaskAssumption == MaxTask \in Nat

VARIABLES
  seq,       (* this.seq: the id of the last task *)
  states,    (* the keys of the Map this.states *)
  pending,   (* state.pending of each user *)
  current,   (* the task being drained; NoTask when state.running is false *)
  race,      (* the promise that drain awaits for that task *)
  promise,   (* the promise enqueue gave to the caller, per task id *)
  aborted,   (* ids of the tasks whose AbortController has been aborted *)
  live       (* the tasks whose run() has been called and has not ended *)

vars == <<seq, states, pending, current, race, promise, aborted, live>>

Weight == 0 .. 2      (* priorityWeight: high 0, normal 1, low 2 *)
Task   == [id : 1 .. MaxTask, user : User, weight : Weight]
NoTask == [id |-> 0]

----------------------------------------------------------------------------
(* Where a new task goes in the pending list. *)

(* The comparison of the binary search: an element of this kind stays in   *)
(* front of the new task.                                                  *)
StaysAhead(p, t) == \/ p.weight < t.weight
                    \/ p.weight = t.weight /\ p.id <= t.id

(* k is where the binary search ends: what is at or before k stays ahead   *)
(* of t, what is after k does not.                                         *)
InsertPoint(q, t, k) ==
  /\ k \in 0 .. Len(q)
  /\ \A i \in 1 .. k : StaysAhead(q[i], t)
  /\ \A i \in k + 1 .. Len(q) : ~ StaysAhead(q[i], t)

(* Variant: pending.push, arrival order whatever the priority. *)
Push(q, k, t) == Append(q, t)

(* pending.splice(lo, 0, task) *)
Splice(q, k, t) == SubSeq(q, 1, k) \o <<t>> \o SubSeq(q, k + 1, Len(q))

----------------------------------------------------------------------------
Init ==
  /\ seq = 0
  /\ states = {}
  /\ pending = [u \in User |-> <<>>]
  /\ current = [u \in User |-> NoTask]
  /\ race = [u \in User |-> "none"]
  /\ promise = [i \in 1 .. MaxTask |-> "none"]
  /\ aborted = {}
  /\ live = {}

(* The synchronous part of drain(u) on the list q: take the head, call     *)
(* run() and await the race.                                               *)
StartHead(u, q) ==
  /\ q # <<>>
  /\ current' = [current EXCEPT ![u] = Head(q)]
  /\ pending' = [pending EXCEPT ![u] = Tail(q)]
  /\ race' = [race EXCEPT ![u] = "open"]
  /\ live' = live \cup {Head(q)}

(* ++this.seq *)
NextId == seq + 1

(* Variant: drain does not look at state.running. *)
NeverBusy(u) == FALSE

(* state.running, the guard at the top of drain. *)
Running(u) == current[u] # NoTask

(* enqueue(u, _, priority of weight w, run): insert, then drain, which     *)
(* returns at once while a task of u is running.                           *)
Enqueue(u, w) ==
  /\ seq < MaxTask
  /\ seq' = seq + 1
  /\ states' = states \cup {u}
  /\ promise' = [promise EXCEPT ![seq + 1] = "open"]
  /\ UNCHANGED aborted
  /\ LET t == [id |-> NextId, user |-> u, weight |-> w]
     IN  \E k \in 0 .. Len(pending[u]) :
           /\ InsertPoint(pending[u], t, k)
           /\ LET q == Splice(pending[u], k, t)
              IN  \/ ~ Running(u) /\ StartHead(u, q)
                  \/ /\ Running(u)
                     /\ pending' = [pending EXCEPT ![u] = q]
                     /\ UNCHANGED <<current, race, live>>

(* The body of a run ends, with a value or an error.  The handlers that    *)
(* drain put on it settle the race, unless an abort already has.           *)
RunEnds(t, result) ==
  /\ t \in live
  /\ live' = live \ {t}
  /\ race' = IF current[t.user] = t /\ race[t.user] = "open"
             THEN [race EXCEPT ![t.user] = result] ELSE race
  /\ UNCHANGED <<seq, states, pending, current, promise, aborted>>

(* Variant: the abort does not settle the race, the run has to. *)
AbortLeavesRace(u) == race[u]

(* The abort listener of drain rejects the race if it is still open. *)
RaceAfterAbort(u) == IF race[u] = "open" THEN "rejected" ELSE race[u]

(* Variant: the rejected tasks stay in the list. *)
PendingKept(u) == pending[u]

(* pending.splice(0, pending.length) *)
PendingAfterCancel(u) == <<>>

(* cancel(u): abort the running task, and reject every pending one.        *)
(* Without a state for u it returns false and does nothing.                *)
Cancel(u) ==
  /\ u \in states
  /\ aborted' = aborted \cup ({current[u].id} \ {0})
  /\ race' = [race EXCEPT ![u] = RaceAfterAbort(u)]
  /\ promise' = [i \in 1 .. MaxTask |->
                   IF \E n \in 1 .. Len(pending[u]) : pending[u][n].id = i
                   THEN "rejected" ELSE promise[i]]
  /\ pending' = [pending EXCEPT ![u] = PendingAfterCancel(u)]
  /\ UNCHANGED <<seq, states, current, live>>

(* Variant: the state goes although tasks wait. *)
StateDropped(u) == states \ {u}

(* The Map after the task of u is over: the state goes when nothing waits. *)
StatesAfter(u) == IF pending[u] = <<>> THEN states \ {u} ELSE states

(* drain(u) resumes once the race is settled: the caller's promise, then   *)
(* the finally block, which drops the state or drains the next task.       *)
DrainResumes(u) ==
  /\ race[u] \in {"resolved", "rejected"}
  /\ promise' = [promise EXCEPT ![current[u].id] = race[u]]
  /\ states' = StatesAfter(u)
  /\ \/ /\ pending[u] = <<>>
        /\ current' = [current EXCEPT ![u] = NoTask]
        /\ race' = [race EXCEPT ![u] = "none"]
        /\ UNCHANGED <<pending, live>>
     \/ StartHead(u, pending[u])
  /\ UNCHANGED <<seq, aborted>>

(* isIdle(): what the session retention asks, where there is no runner,    *)
(* before it compacts the database.                                        *)
IsIdle == states = {}

Next ==
  \/ \E u \in User, w \in Weight : Enqueue(u, w)
  \/ \E u \in User : Cancel(u)
  \/ \E u \in User : DrainResumes(u)
  \/ \E t \in live, result \in {"resolved", "rejected"} : RunEnds(t, result)

(* The event loop runs a promise reaction that is ready.  Nothing is       *)
(* assumed of callers, of /abort, or of the runs: a run may never end.     *)
Fairness == \A u \in User : WF_vars(DrainResumes(u))

Spec == Init /\ [][Next]_vars /\ Fairness

----------------------------------------------------------------------------
(* Properties *)

TypeOK ==
  /\ seq \in 0 .. MaxTask
  /\ states \subseteq User
  /\ pending \in [User -> Seq(Task)]
  /\ current \in [User -> Task \cup {NoTask}]
  /\ race \in [User -> {"none", "open", "resolved", "rejected"}]
  /\ promise \in [1 .. MaxTask -> {"none", "open", "resolved", "rejected"}]
  /\ aborted \subseteq 1 .. MaxTask
  /\ live \subseteq Task

(* Under every interleaving of callers, aborts and late runs, the pending  *)
(* list stays in the order of the comparison its binary search relies on,  *)
(* and every element belongs to the user and still owes its caller an      *)
(* answer: no task that was turned away is left behind to be started.      *)
Ordered(q) == \A i, j \in 1 .. Len(q) : i < j => StaysAhead(q[i], q[j])

PendingSound ==
  \A u \in User :
    /\ Ordered(pending[u])
    /\ \A i \in 1 .. Len(pending[u]) :
         /\ pending[u][i].user = u
         /\ promise[pending[u][i].id] = "open"
         /\ pending[u][i] \notin live

(* A user has a state in the Map exactly while a task of theirs is running *)
(* or waiting, and nothing ever waits with the server at rest: this is     *)
(* what isIdle and the comment on it rest on.                              *)
StateIffWork ==
  \A u \in User :
    /\ u \in states <=> current[u] # NoTask
    /\ pending[u] # <<>> => current[u] # NoTask

(* When the queue says that it is idle, nobody waits for an answer: no     *)
(* promise was lost with the state of its user.  (Runs that were aborted   *)
(* may still be alive.)                                                    *)
IdleIsAnswered == IsIdle => \A i \in 1 .. MaxTask : promise[i] # "open"

(* Two runs of one user may be alive together (after an abort), but never  *)
(* two that have not been told to stop.                                    *)
OneUnabortedRun ==
  \A s, t \in live : s.user = t.user /\ s # t => s.id \in aborted \/ t.id \in aborted

(* Whoever was told to stop by /abort is answered, even when the run never *)
(* ends: cancellation does not wait for the child process.                 *)
AbortIsAnswered ==
  \A i \in 1 .. MaxTask : (i \in aborted) ~> (promise[i] \in {"resolved", "rejected"})

(* The queue keeps the promise of the abstract service: work-conserving,   *)
(* in priority order, nothing lost and nothing served twice.               *)
waitingTasks == UNION {{pending[u][i] : i \in 1 .. Len(pending[u])} : u \in User}

Service == INSTANCE PriorityService
             WITH nextId <- seq, waiting <- waitingTasks, serving <- current,
                  outcome <- promise

ImplementsService == Service!Spec
=============================================================================
