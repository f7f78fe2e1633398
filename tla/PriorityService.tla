-------------------------- MODULE PriorityService --------------------------
(***************************************************************************)
(* What the execution queue of TeleNexus promises to its callers, with no  *)
(* queue in it: every user has one server and a bag of waiting tasks, the  *)
(* server never idles while a task waits, it always takes the waiting task *)
(* of best priority (the oldest one among equals), and a cancellation      *)
(* turns away everything that waits.  ExecutionQueue implements it.        *)
(***************************************************************************)
EXTENDS Naturals

CONSTANTS
  User,      (* the chat users, each with a queue of their own *)
  MaxTask    (* bound: how many tasks are ever submitted *)

VARIABLES
  nextId,    (* number of tasks submitted so far; ids count from 1 *)
  waiting,   (* the tasks that wait for their user's server *)
  serving,   (* the task each user's server works on, or NoTask *)
  outcome    (* what the submitter of each task has been told *)

svars == <<nextId, waiting, serving, outcome>>

Weight == 0 .. 2   (* high, normal, low *)
Task   == [id : 1 .. MaxTask, user : User, weight : Weight]
NoTask == [id |-> 0]

(* a goes before b: better priority first, then order of arrival. *)
Precedes(a, b) == \/ a.weight < b.weight
                  \/ a.weight = b.weight /\ a.id <= b.id

Waiting(u) == {t \in waiting : t.user = u}

(* The server of u takes the first of the tasks in W, or rests. *)
Serve(u, W) ==
  \/ /\ W = {}
     /\ serving' = [serving EXCEPT ![u] = NoTask]
     /\ waiting' = waiting \ Waiting(u)
  \/ \E t \in W :
       /\ \A o \in W : Precedes(t, o)
       /\ serving' = [serving EXCEPT ![u] = t]
       /\ waiting' = (waiting \ Waiting(u)) \cup (W \ {t})

SInit ==
  /\ nextId = 0
  /\ waiting = {}
  /\ serving = [u \in User |-> NoTask]
  /\ outcome = [i \in 1 .. MaxTask |-> "none"]

(* A caller submits a task: it is served at once when the server rests. *)
Submit(u, w) ==
  /\ nextId < MaxTask
  /\ nextId' = nextId + 1
  /\ outcome' = [outcome EXCEPT ![nextId + 1] = "open"]
  /\ LET t == [id |-> nextId + 1, user |-> u, weight |-> w]
     IN  \/ serving[u] = NoTask /\ Serve(u, Waiting(u) \cup {t})
         \/ /\ serving[u] # NoTask
            /\ waiting' = waiting \cup {t}
            /\ UNCHANGED serving

(* The task being served ends, either way, and the next one is taken up. *)
Complete(u) ==
  /\ serving[u] # NoTask
  /\ \E verdict \in {"resolved", "rejected"} :
       outcome' = [outcome EXCEPT ![serving[u].id] = verdict]
  /\ Serve(u, Waiting(u))
  /\ UNCHANGED nextId

(* Everything that waits is turned away; the task being served is not      *)
(* taken from its server (it ends by Complete).                            *)
TurnAway(u) ==
  /\ waiting' = waiting \ Waiting(u)
  /\ outcome' = [i \in 1 .. MaxTask |->
                   IF \E t \in Waiting(u) : t.id = i THEN "rejected" ELSE outcome[i]]
  /\ UNCHANGED <<nextId, serving>>

SNext == \E u \in User : \/ \E w \in Weight : Submit(u, w)
                         \/ Complete(u)
                         \/ TurnAway(u)

Spec == SInit /\ [][SNext]_svars
=============================================================================
