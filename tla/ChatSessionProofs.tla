-------------------------- MODULE ChatSessionProofs --------------------------
(***************************************************************************)
(* What holds of the chat pipeline and its sessions for any users, any     *)
(* number of messages and any disturbances.                                *)
(***************************************************************************)
EXTENDS ChatSession, ExecutionQueueProofs

Turn(m) == [kind |-> "turn", msg |-> m]

ChatTypes ==
  /\ ChatTypeOK
  /\ leftBy \in [Msg -> SUBSET Msg]
  /\ restored \subseteq User

(* The task of a turn belongs to the sender, and there is one.             *)
OwnerInv == \A m \in Msg : \A t \in Pool : job[t.id] = Turn(m) => t.user = sender[m]

OnceInv ==
  \A m \in Msg : \A i, j \in 1 .. MaxTask : job[i] = Turn(m) /\ job[j] = Turn(m) => i = j

(* The handler is past the assembly when there is one.                     *)
StageInv ==
  \A m \in Msg :
    /\ m > nmsg => stage[m] = "none"
    /\ (\E i \in 1 .. MaxTask : job[i] = Turn(m)) => stage[m] \in {"waiting", "done"}
    /\ body[m] # "idle" => stage[m] \in {"waiting", "done"}

(* A turn that waits has not begun; one that has begun is alive till over. *)
BodyInv ==
  \A m \in Msg :
    /\ \A t \in waitingTasks : job[t.id] = Turn(m) => body[m] = "idle"
    /\ InRun(m) => \E t \in live : job[t.id] = Turn(m)

(* A session that anyone knows of was opened by a turn that is over.       *)
Known(s) == s # NoSession => body[s] = "over"

SessionInv ==
  /\ \A u \in User : Known(binding[u]) /\ Known(disk.bound[u])
  /\ \A m \in Msg : Known(sent[m]) /\ \A s \in leftBy[m] : body[s] = "over"

PromptInv == \A m \in Msg : InRun(m) /\ sent[m] = NoSession => prompt[m] = "standalone"

(* A session that was left is not bound, nor used by a turn that may still *)
(* bind it.                                                                *)
Left(f) == force[f] /\ body[f] # "idle" /\ sender[f] \notin restored

LeftInv ==
  \A f \in Msg : Left(f) =>
    /\ binding[sender[f]] \notin leftBy[f]
    /\ \A m \in Msg : \A t \in live :
         job[t.id] = Turn(m) /\ t.id \notin aborted /\ sender[m] = sender[f]
           => sent[m] \notin leftBy[f]

ChatInv ==
  /\ IInv /\ PoolInv
  /\ ChatTypes
  /\ OwnerInv /\ OnceInv /\ StageInv /\ BodyInv
  /\ SessionInv /\ PromptInv /\ LeftInv

----------------------------------------------------------------------------
(* The bodies of turns *)

(* After a step of the queue, what waits is not alive. *)
LEMMA WaitingNotAlive ==
  ASSUME IInv', NEW s \in waitingTasks', NEW t \in live'
  PROVE  s.id # t.id
PROOF
<1>1. PICK u \in User : \E i \in 1 .. Len(pending'[u]) : pending'[u][i] = s
  BY DEF waitingTasks
<1>2. PICK i \in 1 .. Len(pending'[u]) : pending'[u][i] = s
  BY <1>1
<1> QED
  BY <1>2 DEF IInv, WaitInv, SlotInv

(* What a step that may start bodies does to what they know: the body that *)
(* starts was idle, it is the only run of its user that nobody has told to *)
(* stop, and what it goes by was left by nobody.                           *)
BodyTypes ==
  /\ body' \in [Msg -> {"idle", "first", "second", "over"}]
  /\ sent' \in [Msg -> 0 .. MaxMsg]
  /\ prompt' \in [Msg -> {"none", "continuing", "standalone"}]
  /\ binding' \in [User -> 0 .. MaxMsg]
  /\ disk' \in [readable : BOOLEAN, bound : [User -> 0 .. MaxMsg]]
  /\ leftBy' \in [Msg -> SUBSET Msg]
  /\ restored' \subseteq User

(* persist writes the map, or what was in the file stays, or nothing does. *)
LEMMA PersistFile ==
  ASSUME ChatTypes, SessionInv, NEW b \in [User -> 0 .. MaxMsg],
         Persist(b) \/ (b = binding /\ KeepBindings),
         \A u \in User : b[u] # NoSession => body'[b[u]] = "over",
         \A m \in Msg : body[m] = "over" => body'[m] = "over"
  PROVE  /\ binding' = b
         /\ disk' \in [readable : BOOLEAN, bound : [User -> 0 .. MaxMsg]]
         /\ \A u \in User : Known(binding[u])' /\ Known(disk.bound[u])'
PROOF
<1>1. binding' = b
  BY DEF Persist, KeepBindings
<1>2. \/ disk' = disk
      \/ disk' = [readable |-> TRUE, bound |-> b]
      \/ disk' = [readable |-> FALSE, bound |-> [u \in User |-> 0]]
  BY DEF Persist, KeepBindings, File, Corrupt, Unbound, NoSession
<1>3. disk \in [readable : BOOLEAN, bound : [User -> 0 .. MaxMsg]] /\ MaxMsg \in Nat
  BY ChatAssumption DEF ChatTypes, ChatTypeOK
<1>4. disk' \in [readable : BOOLEAN, bound : [User -> 0 .. MaxMsg]]
  <2>1. [u \in User |-> 0] \in [User -> 0 .. MaxMsg]
    BY <1>3
  <2>2. \A r \in BOOLEAN, c \in [User -> 0 .. MaxMsg] :
          [readable |-> r, bound |-> c] \in [readable : BOOLEAN, bound : [User -> 0 .. MaxMsg]]
    OBVIOUS
  <2> QED
    BY <1>2, <1>3, <2>1, <2>2
<1>5. ASSUME NEW u \in User
      PROVE  \/ disk'.bound[u] = disk.bound[u] \/ disk'.bound[u] = b[u]
             \/ disk'.bound[u] = NoSession
  BY <1>2 DEF NoSession
<1>6. ASSUME NEW u \in User, disk.bound[u] # NoSession
      PROVE  body'[disk.bound[u]] = "over"
  <2>1. body[disk.bound[u]] = "over" /\ disk.bound[u] \in Msg
    BY <1>3, <1>6 DEF SessionInv, Known, Msg, NoSession
  <2> QED
    BY <2>1
<1> QED
  BY <1>1, <1>4, <1>5, <1>6 DEF Known

LEMMA BodiesStart ==
  ASSUME ChatInv, IInv', live \subseteq live', aborted' = aborted,
         \A s, t \in live' \ live : s = t,
         \A t \in live' \ live : t.id \notin aborted,
         \A t \in live' \cup waitingTasks' : t \in Task,
         \A s, t \in live' \cup waitingTasks' : s.id = t.id => s = t,
         StartBodies, UNCHANGED <<nmsg, sender, force>>,
         job' \in [1 .. MaxTask -> [kind : {"none", "summary", "turn"}, msg : 0 .. MaxMsg]],
         OwnerInv', OnceInv',
         \A t \in live : job'[t.id] = job[t.id],
         \A m \in Msg : \A t \in waitingTasks' \cup (live' \ live) :
           job'[t.id] = Turn(m) => body[m] = "idle"
  PROVE  /\ BodyTypes /\ BodyInv' /\ SessionInv' /\ PromptInv' /\ LeftInv'
         /\ \A m \in Msg : body'[m] # body[m] => \E i \in 1 .. MaxTask : job'[i] = Turn(m)
PROOF
<1> USE DEF ChatInv
<1>1. \A m \in Msg : TurnStarted(m) <=> \E t \in live' \ live : job'[t.id] = Turn(m)
  BY DEF TurnStarted, Turn
<1>2. \A m, n \in Msg : Turn(m) = Turn(n) => m = n
  BY DEF Turn
<1>3. \A t \in live' \cup waitingTasks' : t.id \in 1 .. MaxTask
  BY TaskFields
<1>t. /\ MaxMsg \in Nat /\ Msg = 1 .. MaxMsg /\ NoSession = 0
      /\ body \in [Msg -> {"idle", "first", "second", "over"}]
      /\ sent \in [Msg -> 0 .. MaxMsg]
      /\ prompt \in [Msg -> {"none", "continuing", "standalone"}]
      /\ binding \in [User -> 0 .. MaxMsg]
      /\ disk \in [readable : BOOLEAN, bound : [User -> 0 .. MaxMsg]]
      /\ leftBy \in [Msg -> SUBSET Msg] /\ restored \subseteq User
      /\ sender \in [Msg -> User] /\ sender' = sender /\ force' = force
  BY ChatAssumption DEF ChatTypes, ChatTypeOK, Msg, NoSession
<1>4. CASE \A m \in Msg : ~ TurnStarted(m)
  <2>1. UNCHANGED <<body, sent, prompt, storeVars, leftBy>>
    BY <1>4 DEF StartBodies
  <2>2. UNCHANGED <<body, sent, prompt, binding, disk, restored, leftBy>>
    BY <2>1 DEF storeVars
  <2>3. BodyTypes
    BY <1>t, <2>2 DEF BodyTypes
  <2>4. BodyInv'
    BY <2>2 DEF BodyInv, InRun
  <2>5. SessionInv' /\ PromptInv'
    BY <2>2 DEF SessionInv, PromptInv, Known, InRun
  <2>6. \A m \in Msg : \A t \in live' : job'[t.id] = Turn(m) => t \in live /\ job[t.id] = Turn(m)
    BY <1>1, <1>4
  <2>7. LeftInv'
    <3> SUFFICES ASSUME NEW f \in Msg, force[f], body[f] # "idle", sender[f] \notin restored
                 PROVE  /\ binding[sender[f]] \notin leftBy[f]
                        /\ \A m \in Msg : \A t \in live' :
                             job'[t.id] = Turn(m) /\ t.id \notin aborted /\ sender[m] = sender[f]
                               => sent[m] \notin leftBy[f]
      BY <1>t, <2>2 DEF LeftInv, Left
    <3> QED
      BY <2>6 DEF LeftInv, Left
  <2> QED
    BY <2>2, <2>3, <2>4, <2>5, <2>7
<1>5. ASSUME NEW m \in Msg, TurnStarted(m),
             ClearForNew(m),
             restored' = IF force[m] THEN restored \ {sender[m]} ELSE restored,
             body' = [body EXCEPT ![m] = "first"],
             sent' = [sent EXCEPT ![m] = BoundSession(m)],
             prompt' = [prompt EXCEPT ![m] = PromptToSend(m)],
             leftBy' = [leftBy EXCEPT ![m] =
                          IF force[m] THEN @ \cup ({binding[sender[m]]} \ {NoSession}) ELSE {}]
      PROVE  /\ BodyTypes /\ BodyInv' /\ SessionInv' /\ PromptInv' /\ LeftInv'
             /\ \A n \in Msg : body'[n] # body[n] => \E i \in 1 .. MaxTask : job'[i] = Turn(n)
  <2>1. PICK t \in live' \ live : job'[t.id] = Turn(m)
    BY <1>1, <1>5
  <2>2. body[m] = "idle"
    BY <2>1
  <2> DEFINE u == sender[m]
  <2>3. u \in User /\ BoundSession(m) \in 0 .. MaxMsg
        /\ BoundSession(m) \in {NoSession, binding[u]}
    BY <1>t DEF BoundSession
  <2>4. /\ \A n \in Msg : body'[n] = IF n = m THEN "first" ELSE body[n]
        /\ \A n \in Msg : sent'[n] = IF n = m THEN BoundSession(m) ELSE sent[n]
        /\ \A n \in Msg : n # m => leftBy'[n] = leftBy[n]
        /\ leftBy'[m] = IF force[m] THEN leftBy[m] \cup ({binding[u]} \ {NoSession}) ELSE {}
    BY <1>5, <1>t
  <2> HIDE DEF u
  <2>5. \A n \in Msg : body[n] = "over" => body'[n] = "over"
    BY <2>2, <2>4
  <2>6. /\ binding' = IF force[m] THEN [binding EXCEPT ![u] = NoSession] ELSE binding
        /\ disk' \in [readable : BOOLEAN, bound : [User -> 0 .. MaxMsg]]
        /\ \A v \in User : Known(binding[v])' /\ Known(disk.bound[v])'
    <3> DEFINE b == IF force[m] THEN [binding EXCEPT ![u] = NoSession] ELSE binding
    <3>1. b \in [User -> 0 .. MaxMsg]
      BY <1>t, <2>3
    <3>2. Persist(b) \/ (b = binding /\ KeepBindings)
      <4>1. CASE ~ force[m]
        BY <1>5, <4>1 DEF ClearForNew
      <4>2. CASE force[m] /\ binding[u] = NoSession
        <5>1. b = binding
          BY <1>t, <4>2
        <5> QED
          BY <1>5, <4>2, <5>1 DEF ClearForNew, ClearBinding, SetBinding, u
      <4>3. CASE force[m] /\ binding[u] # NoSession
        BY <1>5, <4>3 DEF ClearForNew, ClearBinding, SetBinding, u
      <4> QED
        BY <4>1, <4>2, <4>3
    <3>3. ASSUME NEW v \in User, b[v] # NoSession
          PROVE  body'[b[v]] = "over"
      <4>1. b[v] = binding[v]
        BY <1>t, <2>3, <3>3
      <4>2. body[binding[v]] = "over" /\ binding[v] \in Msg
        BY <1>t, <3>3, <4>1 DEF SessionInv, Known
      <4> QED
        BY <2>5, <4>1, <4>2
    <3> HIDE DEF b
    <3>4. /\ binding' = b
          /\ disk' \in [readable : BOOLEAN, bound : [User -> 0 .. MaxMsg]]
          /\ \A v \in User : Known(binding[v])' /\ Known(disk.bound[v])'
      BY <2>5, <3>1, <3>2, <3>3, PersistFile
    <3> QED
      BY <3>4 DEF b
  <2>7. BodyTypes
    <3>1. body' \in [Msg -> {"idle", "first", "second", "over"}]
      BY <1>5, <1>t
    <3>2. sent' \in [Msg -> 0 .. MaxMsg]
      BY <1>5, <1>t, <2>3
    <3>3. prompt' \in [Msg -> {"none", "continuing", "standalone"}]
      BY <1>5, <1>t DEF PromptToSend
    <3>4. binding' \in [User -> 0 .. MaxMsg]
      BY <1>t, <2>3, <2>6
    <3>5. leftBy' \in [Msg -> SUBSET Msg]
      <4>1. {binding[u]} \ {NoSession} \subseteq Msg
        BY <1>t, <2>3
      <4> HIDE DEF Msg
      <4>2. (IF force[m] THEN leftBy[m] \cup ({binding[u]} \ {NoSession}) ELSE {}) \in SUBSET Msg
        BY <1>t, <4>1
      <4> QED
        BY <1>5, <1>t, <4>2 DEF u
    <3>6. restored' \subseteq User
      BY <1>5, <1>t
    <3> QED
      BY <2>6, <3>1, <3>2, <3>3, <3>4, <3>5, <3>6 DEF BodyTypes
  <2>8. BodyInv'
    <3> SUFFICES ASSUME NEW n \in Msg
                 PROVE  /\ \A s \in waitingTasks' : job'[s.id] = Turn(n) => body'[n] = "idle"
                        /\ body'[n] \in {"first", "second"} => \E s \in live' : job'[s.id] = Turn(n)
      BY DEF BodyInv, InRun
    <3>1. ASSUME NEW s \in waitingTasks', job'[s.id] = Turn(n)
          PROVE  body'[n] = "idle"
      <4>1. s.id # t.id
        BY <2>1, WaitingNotAlive
      <4>2. n # m
        BY <1>3, <2>1, <3>1, <4>1 DEF OnceInv
      <4> QED
        BY <2>4, <3>1, <4>2
    <3>2. body'[n] \in {"first", "second"} => \E s \in live' : job'[s.id] = Turn(n)
      BY <2>1, <2>4 DEF BodyInv, InRun
    <3> QED
      BY <3>1, <3>2
  <2>9. SessionInv'
    <3>1. ASSUME NEW n \in Msg
          PROVE  Known(sent[n])' /\ \A s \in leftBy'[n] : body'[s] = "over"
      <4>1. \A s \in leftBy[n] : body[s] = "over" /\ s \in Msg
        BY <1>t DEF SessionInv
      <4>2. sent[n] # NoSession => body[sent[n]] = "over" /\ sent[n] \in Msg
        BY <1>t DEF SessionInv, Known
      <4>3. binding[u] # NoSession => body[binding[u]] = "over" /\ binding[u] \in Msg
        BY <1>t, <2>3 DEF SessionInv, Known
      <4>4. sent'[n] # NoSession => body'[sent'[n]] = "over"
        BY <2>3, <2>4, <2>5, <4>2, <4>3
      <4>5. \A s \in leftBy'[n] : body'[s] = "over"
        BY <2>4, <2>5, <4>1, <4>3
      <4> QED
        BY <4>4, <4>5 DEF Known
    <3> QED
      BY <2>6, <3>1 DEF SessionInv
  <2>10. PromptInv'
    <3>1. prompt'[m] = PromptToSend(m) /\ \A n \in Msg : n # m => prompt'[n] = prompt[n]
      BY <1>5, <1>t
    <3> QED
      BY <2>4, <3>1 DEF PromptInv, PromptToSend, InRun
  <2>11. LeftInv'
    <3> SUFFICES ASSUME NEW f \in Msg, force[f], body'[f] # "idle", sender[f] \notin restored'
                 PROVE  /\ binding'[sender[f]] \notin leftBy'[f]
                        /\ \A n \in Msg : \A s \in live' :
                             job'[s.id] = Turn(n) /\ s.id \notin aborted /\ sender[n] = sender[f]
                               => sent'[n] \notin leftBy'[f]
      BY <1>t DEF LeftInv, Left
    <3>1. NoSession \notin leftBy'[f]
      <4>1. leftBy'[f] \in SUBSET Msg
        BY <2>7 DEF BodyTypes
      <4> QED
        BY <1>t, <4>1
    <3>2. CASE sender[f] = u /\ force[m]
      <4>1. binding'[u] = NoSession
        BY <1>t, <2>3, <2>6, <3>2
      <4>2. ASSUME NEW n \in Msg, NEW s \in live', job'[s.id] = Turn(n), s.id \notin aborted,
                   sender[n] = u
            PROVE  sent'[n] = NoSession
        <5>1. s.user = u /\ t.user = u
          <6>1. s \in Pool' /\ t \in Pool'
            BY <2>1 DEF Pool
          <6>2. \A k \in Msg : \A r \in Pool' : job'[r.id] = Turn(k) => r.user = sender[k]
            BY DEF OwnerInv
          <6>3. s.user = sender[n]
            BY <4>2, <6>1, <6>2
          <6>4. t.user = sender[m]
            BY <2>1, <6>1, <6>2
          <6> QED
            BY <4>2, <6>3, <6>4 DEF u
        <5>2. s = t
          <6>1. t.id \notin aborted'
            BY <2>1
          <6> QED
            BY <4>2, <5>1, <6>1, <2>1 DEF IInv, RunInv
        <5>3. n = m
          BY <1>2, <2>1, <4>2, <5>2
        <5> QED
          BY <2>4, <3>2, <5>3 DEF BoundSession
      <4> QED
        BY <3>1, <3>2, <4>1, <4>2
    <3>3. CASE sender[f] = u /\ ~ force[m]
      <4>1. f # m /\ leftBy'[f] = leftBy[f] /\ Left(f)
        BY <1>5, <2>4, <3>3 DEF Left
      <4>2. binding'[u] = binding[u] /\ binding[u] \notin leftBy[f]
        BY <2>6, <3>3, <4>1 DEF LeftInv
      <4>3. ASSUME NEW n \in Msg, NEW s \in live', job'[s.id] = Turn(n), s.id \notin aborted,
                   sender[n] = u
            PROVE  sent'[n] \notin leftBy[f]
        <5>1. CASE n = m
          BY <2>3, <2>4, <3>1, <4>1, <4>2, <5>1
        <5>2. CASE n # m
          <6>1. s \in live /\ job[s.id] = Turn(n)
            BY <1>2, <2>1, <4>3, <5>2
          <6> QED
            BY <2>4, <3>3, <4>1, <4>3, <5>2, <6>1 DEF LeftInv
        <5> QED
          BY <5>1, <5>2
      <4> QED
        BY <3>3, <4>1, <4>2, <4>3
    <3>4. CASE sender[f] # u
      <4>1. f # m /\ leftBy'[f] = leftBy[f] /\ Left(f)
        BY <1>5, <2>4, <3>4 DEF Left, u
      <4>2. binding'[sender[f]] = binding[sender[f]]
        BY <1>t, <2>3, <2>6, <3>4
      <4>3. ASSUME NEW n \in Msg, NEW s \in live', job'[s.id] = Turn(n), s.id \notin aborted,
                   sender[n] = sender[f]
            PROVE  sent'[n] \notin leftBy[f]
        <5>1. n # m
          BY <3>4, <4>3 DEF u
        <5>2. s \in live /\ job[s.id] = Turn(n)
          BY <1>2, <2>1, <4>3, <5>1
        <5> QED
          BY <2>4, <4>1, <4>3, <5>1, <5>2 DEF LeftInv
      <4> QED
        BY <4>1, <4>2, <4>3 DEF LeftInv
    <3> QED
      BY <3>2, <3>3, <3>4
  <2>12. t.id \in 1 .. MaxTask
    BY <1>3
  <2> QED
    BY <2>1, <2>4, <2>7, <2>8, <2>9, <2>10, <2>11, <2>12
<1> QED
  BY <1>4, <1>5 DEF StartBodies

----------------------------------------------------------------------------
(* The steps *)

LEMMA ChatParameters ==
  /\ MaxMsg \in Nat /\ Msg = 1 .. MaxMsg /\ NoSession = 0 /\ 0 \notin Msg
  /\ \A m, n \in Msg : Turn(m) = Turn(n) => m = n
BY ChatAssumption DEF Msg, NoSession, Turn

(* The parts that have to do with what tasks exist. *)
TasksInv == OwnerInv /\ OnceInv /\ StageInv

(* No task that runs or waits is new, where the queue only lets go. *)
LEMMA ShrinkKeepsTasks ==
  ASSUME ChatInv, Shrinks, UNCHANGED <<nmsg, sender, job>>,
         \A m \in Msg : stage'[m] # stage[m] =>
           /\ m <= nmsg
           /\ stage[m] \in {"waiting", "done"} => stage'[m] \in {"waiting", "done"},
         \A m \in Msg : body[m] = "idle" => body'[m] = "idle"
  PROVE  TasksInv'
PROOF
<1> USE DEF ChatInv
<1>1. OwnerInv' /\ OnceInv'
  BY DEF OwnerInv, OnceInv, Shrinks
<1>2. StageInv'
  <2> SUFFICES ASSUME NEW m \in Msg
               PROVE  /\ m > nmsg => stage'[m] = "none"
                      /\ (\E i \in 1 .. MaxTask : job[i] = Turn(m)) => stage'[m] \in {"waiting", "done"}
                      /\ body'[m] # "idle" => stage'[m] \in {"waiting", "done"}
    BY DEF StageInv
  <2>1. /\ m > nmsg => stage[m] = "none"
        /\ (\E i \in 1 .. MaxTask : job[i] = Turn(m)) => stage[m] \in {"waiting", "done"}
        /\ body'[m] # "idle" => stage[m] \in {"waiting", "done"}
    BY DEF StageInv
  <2>2. m \in Nat /\ nmsg \in Nat
    BY ChatParameters DEF ChatTypes, ChatTypeOK
  <2>3. CASE stage'[m] = stage[m]
    BY <2>1, <2>3
  <2>4. CASE stage'[m] # stage[m]
    BY <2>1, <2>2, <2>4
  <2> QED
    BY <2>3, <2>4
<1> QED
  BY <1>1, <1>2 DEF TasksInv

(* The handler of a message between its turns in the queue. *)
LEMMA HandlerInv ==
  ASSUME ChatInv, NEW m \in Msg, SummaryFails(m) \/ Assemble(m) \/ Reply(m)
  PROVE  ChatInv'
PROOF
<1> USE DEF ChatInv
<1>1. /\ UNCHANGED <<queueVars, msgVars, body, sent, storeVars, store, newAsked>>
      /\ stage[m] \in {"accepted", "summarising", "waiting"}
      /\ \E st \in {"assembled", "done"} :
           stage' = [stage EXCEPT ![m] = st] /\ (stage[m] = "waiting" => st = "done")
  BY DEF SummaryFails, Assemble, Reply
<1>2. /\ prompt' = prompt \/ (body[m] = "idle" /\ \E p \in {"standalone", "continuing"} :
                                prompt' = [prompt EXCEPT ![m] = p])
  <2>1. Assemble(m) => stage[m] \notin {"waiting", "done"}
    BY DEF Assemble
  <2> QED
    BY <2>1 DEF SummaryFails, Assemble, Reply, AssembledPrompt, StageInv
<1>3. /\ vars' = vars /\ UNCHANGED <<nmsg, sender, force, job, hung, leftBy>>
      /\ UNCHANGED <<binding, disk, restored, body, sent, store, newAsked>>
  BY <1>1 DEF queueVars, msgVars, storeVars
<1>4. Shrinks /\ waitingTasks' = waitingTasks
  BY <1>3, PoolUnchanged DEF Shrinks, vars
<1>5. \A n \in Msg : \/ stage'[n] = stage[n]
                     \/ n = m /\ stage'[n] \in {"assembled", "done"}
                        /\ (stage[m] = "waiting" => stage'[n] = "done")
  BY <1>1 DEF ChatTypes, ChatTypeOK
<1>6. TasksInv'
  <2>1. m <= nmsg
    BY <1>1, ChatParameters DEF StageInv, ChatTypes, ChatTypeOK
  <2> QED
    BY <1>1, <1>3, <1>4, <1>5, <2>1, ShrinkKeepsTasks
<1>7. ChatTypes'
  <2>1. stage' \in [Msg -> {"none", "accepted", "summarising", "assembled", "waiting", "done"}]
    BY <1>1 DEF ChatTypes, ChatTypeOK
  <2>2. prompt' \in [Msg -> {"none", "continuing", "standalone"}]
    BY <1>2 DEF ChatTypes, ChatTypeOK
  <2> QED
    BY <1>3, <2>1, <2>2 DEF ChatTypes, ChatTypeOK
<1>8. BodyInv' /\ SessionInv' /\ LeftInv'
  BY <1>3, <1>4 DEF BodyInv, InRun, SessionInv, Known, LeftInv, Left, vars
<1>9. PromptInv'
  BY <1>2, <1>3 DEF PromptInv, InRun, ChatTypes, ChatTypeOK
<1> QED
  BY <1>4, <1>6, <1>7, <1>8, <1>9 DEF Shrinks, TasksInv

(* A mark of /new, or a session that opencode loses: neither is known to   *)
(* what is under way.                                                      *)
LEMMA WorldInv ==
  ASSUME ChatInv, (\E u \in User : AskNew(u)) \/ (\E s \in Msg : Vanish(s))
  PROVE  ChatInv'
PROOF
<1> USE DEF ChatInv
<1>1. /\ UNCHANGED <<queueVars, msgVars, turnVars, binding, disk, restored>>
      /\ newAsked' \subseteq User /\ store' \subseteq Msg
  BY DEF AskNew, Vanish, storeVars, ChatTypes, ChatTypeOK
<1>2. /\ vars' = vars /\ UNCHANGED <<nmsg, sender, force, job, hung, leftBy, stage, body, sent, prompt>>
  BY <1>1 DEF queueVars, msgVars, turnVars
<1>3. IInv' /\ PoolInv' /\ Pool' = Pool /\ waitingTasks' = waitingTasks
  BY <1>2, PoolUnchanged
<1>4. ChatTypes'
  BY <1>1, <1>2 DEF ChatTypes, ChatTypeOK
<1>5. OwnerInv' /\ OnceInv' /\ StageInv'
  BY <1>2, <1>3 DEF OwnerInv, OnceInv, StageInv
<1>6. BodyInv' /\ SessionInv' /\ PromptInv' /\ LeftInv'
  BY <1>1, <1>2, <1>3 DEF BodyInv, InRun, SessionInv, Known, PromptInv, LeftInv, Left, vars
<1> QED
  BY <1>3, <1>4, <1>5, <1>6

(* A call that is cut short: that its task will not return is all there is *)
(* to know.                                                                *)
LEMMA CutInv ==
  ASSUME ChatInv, NEW t \in live, CutShort(t)
  PROVE  ChatInv'
PROOF
<1> USE DEF ChatInv
<1>1. /\ UNCHANGED <<queueVars, nmsg, sender, force, job, leftBy, turnVars, binding, disk,
                     restored, store, newAsked>>
      /\ hung' = hung \cup {t.id}
  BY DEF CutShort
<1>2. vars' = vars /\ UNCHANGED <<stage, body, sent, prompt>>
  BY <1>1 DEF queueVars, turnVars
<1>3. IInv' /\ PoolInv' /\ Pool' = Pool /\ waitingTasks' = waitingTasks
  BY <1>2, PoolUnchanged
<1>4. t.id \in 1 .. MaxTask
  BY TaskFields DEF PoolInv, Pool
<1>5. ChatTypes'
  BY <1>1, <1>2, <1>4 DEF ChatTypes, ChatTypeOK
<1>6. OwnerInv' /\ OnceInv' /\ StageInv'
  BY <1>1, <1>2, <1>3 DEF OwnerInv, OnceInv, StageInv
<1>7. BodyInv' /\ SessionInv' /\ PromptInv' /\ LeftInv'
  BY <1>1, <1>2, <1>3 DEF BodyInv, InRun, SessionInv, Known, PromptInv, LeftInv, Left, vars
<1> QED
  BY <1>3, <1>5, <1>6, <1>7

(* The message that arrives is a new one: nothing is known of it.          *)
LEMMA ReceiveInv ==
  ASSUME ChatInv, NEW u \in User, Receive(u)
  PROVE  ChatInv'
PROOF
<1> USE DEF ChatInv
<1> DEFINE m == nmsg + 1
<1>1. /\ m \in Msg /\ nmsg' = m /\ m \in 0 .. MaxMsg /\ nmsg \in Nat
  BY ChatParameters DEF Receive, ChatTypes, ChatTypeOK
<1>2. stage[m] = "none"
  BY <1>1 DEF StageInv
<1>3. body[m] = "idle" /\ \A i \in 1 .. MaxTask : job[i] # Turn(m)
  BY <1>1, <1>2 DEF StageInv
<1>4. /\ sender' = [sender EXCEPT ![m] = u]
      /\ stage' = [stage EXCEPT ![m] = "accepted"]
      /\ force' = [force EXCEPT ![m] = TakesMark(u)]
      /\ leftBy' = [leftBy EXCEPT ![m] = IF TakesMark(u) THEN {binding[u]} \ {NoSession} ELSE {}]
      /\ newAsked' = newAsked \ {u}
      /\ vars' = vars /\ UNCHANGED <<job, hung, body, sent, prompt, binding, disk, restored, store>>
  BY DEF Receive, queueVars, storeVars
<1> HIDE DEF m
<1>5. IInv' /\ PoolInv' /\ Pool' = Pool /\ waitingTasks' = waitingTasks
  BY <1>4, PoolUnchanged
<1>6. {binding[u]} \ {NoSession} \in SUBSET {s \in Msg : body[s] = "over"}
  BY ChatParameters DEF ChatTypes, ChatTypeOK, SessionInv, Known
<1>7. ChatTypes'
  <2>1. leftBy' \in [Msg -> SUBSET Msg]
    BY <1>4, <1>6 DEF ChatTypes
  <2>2. force' \in [Msg -> BOOLEAN]
    <3>1. TakesMark(u) \in BOOLEAN
      BY DEF TakesMark
    <3>2. force \in [Msg -> BOOLEAN]
      BY DEF ChatTypes, ChatTypeOK
    <3> QED
      BY <1>4, <3>1, <3>2
  <2>3. /\ sender' \in [Msg -> User]
        /\ stage' \in [Msg -> {"none", "accepted", "summarising", "assembled", "waiting", "done"}]
    BY <1>4 DEF ChatTypes, ChatTypeOK
  <2> QED
    BY <1>1, <1>4, <2>1, <2>2, <2>3 DEF ChatTypes, ChatTypeOK
<1>8. \A n \in Msg : n # m => sender'[n] = sender[n] /\ stage'[n] = stage[n]
                              /\ leftBy'[n] = leftBy[n] /\ (force'[n] <=> force[n])
  BY <1>4 DEF ChatTypes, ChatTypeOK
<1>9. \A t \in Pool : t.id \in 1 .. MaxTask
  BY TaskFields DEF PoolInv
<1>10. OwnerInv' /\ OnceInv' /\ StageInv'
  <2>1. OwnerInv'
    BY <1>3, <1>4, <1>5, <1>8, <1>9 DEF OwnerInv
  <2>2. OnceInv'
    BY <1>4 DEF OnceInv
  <2>3. StageInv'
    <3> SUFFICES ASSUME NEW n \in Msg
                 PROVE  /\ n > nmsg' => stage'[n] = "none"
                        /\ (\E i \in 1 .. MaxTask : job[i] = Turn(n)) => stage'[n] \in {"waiting", "done"}
                        /\ body[n] # "idle" => stage'[n] \in {"waiting", "done"}
      BY <1>4 DEF StageInv
    <3>1. n \in Nat
      BY ChatParameters
    <3>2. n > nmsg' => n > nmsg /\ n # m
      BY <1>1, <3>1 DEF m
    <3> QED
      BY <1>3, <1>8, <3>2 DEF StageInv
  <2> QED
    BY <2>1, <2>2, <2>3
<1>11. BodyInv' /\ PromptInv'
  BY <1>4, <1>5 DEF BodyInv, InRun, PromptInv, vars
<1>12. SessionInv'
  <2>1. leftBy'[m] \subseteq {s \in Msg : body[s] = "over"}
    BY <1>1, <1>4, <1>6 DEF ChatTypes
  <2> QED
    BY <1>4, <1>8, <2>1 DEF SessionInv, Known
<1>13. LeftInv'
  <2> SUFFICES ASSUME NEW f \in Msg, force'[f], body[f] # "idle", sender'[f] \notin restored
               PROVE  /\ binding[sender'[f]] \notin leftBy'[f]
                      /\ \A n \in Msg : \A t \in live :
                           job[t.id] = Turn(n) /\ t.id \notin aborted /\ sender'[n] = sender'[f]
                             => sent[n] \notin leftBy'[f]
    BY <1>4 DEF LeftInv, Left, vars
  <2>1. f # m
    BY <1>3
  <2>2. \A n \in Msg : \A t \in live : job[t.id] = Turn(n) => n # m
    BY <1>3, <1>9 DEF Pool
  <2> QED
    BY <1>8, <2>1, <2>2 DEF LeftInv, Left
<1> QED
  BY <1>5, <1>7, <1>10, <1>11, <1>12, <1>13

(* What is left to show of a step once its tasks and what the bodies know  *)
(* are settled.                                                            *)
LEMMA StartsInv ==
  ASSUME ChatInv, IInv', PoolInv', BodyTypes, BodyInv', SessionInv', PromptInv', LeftInv',
         OwnerInv', OnceInv',
         \A m \in Msg : body'[m] # body[m] => \E i \in 1 .. MaxTask : job'[i] = Turn(m),
         UNCHANGED <<nmsg, sender, force, hung, store, newAsked>>,
         job' \in [1 .. MaxTask -> [kind : {"none", "summary", "turn"}, msg : 0 .. MaxMsg]],
         stage' \in [Msg -> {"none", "accepted", "summarising", "assembled", "waiting", "done"}],
         \A m \in Msg : m > nmsg => stage'[m] = "none",
         \A m \in Msg : (\E i \in 1 .. MaxTask : job'[i] = Turn(m)) => stage'[m] \in {"waiting", "done"},
         \A m \in Msg : body[m] # "idle" => stage'[m] \in {"waiting", "done"}
  PROVE  ChatInv'
PROOF
<1>1. ChatTypes'
  BY DEF ChatInv, ChatTypes, ChatTypeOK, BodyTypes
<1>2. StageInv'
  BY DEF StageInv
<1> QED
  BY <1>1, <1>2 DEF ChatInv

(* A new task starts or waits; a turn gets one when it has none.           *)
LEMMA AskInv ==
  ASSUME ChatInv, NEW m \in Msg, NEW kind \in {"summary", "turn"}, NEW w \in Weight,
         stage[m] \in {"accepted", "assembled"},
         job' = [job EXCEPT ![seq + 1] = [kind |-> kind, msg |-> m]],
         stage' = [stage EXCEPT ![m] = IF kind = "turn" THEN "waiting" ELSE "summarising"],
         Enqueue(sender[m], w), StartBodies,
         UNCHANGED <<nmsg, sender, force, hung, store, newAsked>>
  PROVE  ChatInv'
PROOF
<1> USE DEF ChatInv
<1>1. sender[m] \in User
  BY DEF ChatTypes, ChatTypeOK
<1>2. /\ IInv' /\ PoolInv' /\ seq' = seq + 1 /\ seq \in Nat /\ seq + 1 \in 1 .. MaxTask
      /\ aborted' = aborted
  BY <1>1, EnqueueGrows
<1>3. PICK t \in Task : /\ t.id = seq + 1 /\ t.user = sender[m] /\ Pool' = Pool \cup {t}
                        /\ live \subseteq live' /\ live' \subseteq live \cup {t}
                        /\ waitingTasks' \subseteq waitingTasks \cup {t}
  BY <1>1, EnqueueGrows
<1>4. \A s \in Pool : s \in Task /\ s.id \in 1 .. seq /\ s.id # seq + 1 /\ s.id \in 1 .. MaxTask
  BY <1>2, TaskFields DEF PoolInv
<1> DEFINE j == [kind |-> kind, msg |-> m]
<1>5. /\ j \in [kind : {"none", "summary", "turn"}, msg : 0 .. MaxMsg]
      /\ \A n \in Msg : j = Turn(n) => n = m /\ kind = "turn"
  BY ChatParameters DEF Turn
<1>6. \A i \in 1 .. MaxTask : job'[i] = IF i = seq + 1 THEN j ELSE job[i]
  BY DEF ChatTypes, ChatTypeOK
<1>7. job' \in [1 .. MaxTask -> [kind : {"none", "summary", "turn"}, msg : 0 .. MaxMsg]]
  BY <1>5 DEF ChatTypes, ChatTypeOK
<1> HIDE DEF j
<1>8. \A i \in 1 .. MaxTask : job[i] # Turn(m)
  BY DEF StageInv
<1>9. body[m] = "idle"
  BY DEF StageInv
<1>10. \A s \in Pool : job'[s.id] = job[s.id]
  BY <1>4, <1>6
<1>11. job'[t.id] = j
  BY <1>2, <1>3, <1>6
<1>12. OwnerInv'
  <2> SUFFICES ASSUME NEW n \in Msg, NEW s \in Pool', job'[s.id] = Turn(n)
               PROVE  s.user = sender[n]
    BY DEF OwnerInv
  <2>1. CASE s \in Pool
    BY <1>10, <2>1 DEF OwnerInv
  <2>2. CASE s = t
    BY <1>3, <1>5, <1>11, <2>2
  <2> QED
    BY <1>3, <2>1, <2>2
<1>13. OnceInv'
  <2> SUFFICES ASSUME NEW n \in Msg, NEW i \in 1 .. MaxTask, NEW k \in 1 .. MaxTask,
                      job'[i] = Turn(n), job'[k] = Turn(n)
               PROVE  i = k
    BY DEF OnceInv
  <2> QED
    BY <1>5, <1>6, <1>8 DEF OnceInv
<1>14. ASSUME NEW n \in Msg, NEW s \in waitingTasks' \cup (live' \ live), job'[s.id] = Turn(n)
       PROVE  body[n] = "idle"
  <2>1. CASE s = t
    BY <1>5, <1>9, <1>11, <1>14, <2>1
  <2>2. CASE s \in waitingTasks
    BY <1>10, <1>14, <2>2 DEF BodyInv, Pool
  <2> QED
    BY <1>3, <2>1, <2>2
<1>15. \A s \in live' \ live : s = t
  BY <1>3
<1>16. t.id \notin aborted
  BY <1>2, <1>3 DEF IInv, IdsInv
<1>17. /\ \A s \in live' \cup waitingTasks' : s \in Task
       /\ \A r, s \in live' \cup waitingTasks' : r.id = s.id => r = s
  BY <1>2 DEF PoolInv, Pool
<1>18. \A s \in live : job'[s.id] = job[s.id]
  BY <1>10 DEF Pool
<1>19. /\ BodyTypes /\ BodyInv' /\ SessionInv' /\ PromptInv' /\ LeftInv'
       /\ \A n \in Msg : body'[n] # body[n] => \E i \in 1 .. MaxTask : job'[i] = Turn(n)
  <2>1. /\ \A r, s \in live' \ live : r = s
        /\ \A s \in live' \ live : s.id \notin aborted
    BY <1>15, <1>16
  <2> QED
    BY <1>2, <1>3, <1>7, <1>12, <1>13, <1>14, <1>17, <1>18, <2>1, BodiesStart
<1>20. /\ stage' \in [Msg -> {"none", "accepted", "summarising", "assembled", "waiting", "done"}]
       /\ \A n \in Msg : n # m => stage'[n] = stage[n]
       /\ kind = "turn" => stage'[m] = "waiting"
  BY DEF ChatTypes, ChatTypeOK
<1>21. \A n \in Msg : n > nmsg => stage'[n] = "none"
  BY <1>20 DEF StageInv
<1>22. \A n \in Msg : (\E i \in 1 .. MaxTask : job'[i] = Turn(n)) => stage'[n] \in {"waiting", "done"}
  BY <1>5, <1>6, <1>8, <1>20 DEF StageInv
<1>23. \A n \in Msg : body[n] # "idle" => stage'[n] \in {"waiting", "done"}
  BY <1>9, <1>20 DEF StageInv
<1> QED
  BY <1>2, <1>7, <1>12, <1>13, <1>19, <1>20, <1>21, <1>22, <1>23, StartsInv

(* drain goes on: what starts has waited.                                  *)
LEMMA DrainInv ==
  ASSUME ChatInv, NEW u \in User, Drain(u)
  PROVE  ChatInv'
PROOF
<1> USE DEF ChatInv
<1>1. DrainResumes(u) /\ StartBodies /\ UNCHANGED <<nmsg, sender, force, job, hung, stage, store, newAsked>>
  BY DEF Drain
<1>2. /\ live \subseteq live' /\ live' \ live \subseteq waitingTasks
      /\ waitingTasks' \subseteq waitingTasks /\ aborted' = aborted
      /\ \A s, t \in live' \ live : s = t
  BY <1>1, DrainStarts
<1>3. Shrinks
  BY <1>1, DrainShrinks
<1>4. IInv' /\ PoolInv' /\ Pool' \subseteq Pool
  BY <1>3 DEF Shrinks
<1>5. OwnerInv' /\ OnceInv'
  BY <1>1, <1>4 DEF OwnerInv, OnceInv
<1>6. \A t \in live' \ live : t.id \notin aborted
  BY <1>2, WaitingSound
<1>7. /\ \A s \in live' \cup waitingTasks' : s \in Task
      /\ \A r, s \in live' \cup waitingTasks' : r.id = s.id => r = s
  BY <1>4 DEF PoolInv, Pool
<1>8. job' \in [1 .. MaxTask -> [kind : {"none", "summary", "turn"}, msg : 0 .. MaxMsg]]
  BY <1>1 DEF ChatTypes, ChatTypeOK
<1>9. \A m \in Msg : \A t \in waitingTasks' \cup (live' \ live) :
        job'[t.id] = Turn(m) => body[m] = "idle"
  BY <1>1, <1>2 DEF BodyInv
<1>10. /\ BodyTypes /\ BodyInv' /\ SessionInv' /\ PromptInv' /\ LeftInv'
       /\ \A n \in Msg : body'[n] # body[n] => \E i \in 1 .. MaxTask : job'[i] = Turn(n)
  BY <1>1, <1>2, <1>4, <1>5, <1>6, <1>7, <1>8, <1>9, BodiesStart
<1>11. stage' \in [Msg -> {"none", "accepted", "summarising", "assembled", "waiting", "done"}]
  BY <1>1 DEF ChatTypes, ChatTypeOK
<1>12. /\ \A m \in Msg : m > nmsg => stage'[m] = "none"
       /\ \A m \in Msg : (\E i \in 1 .. MaxTask : job'[i] = Turn(m)) => stage'[m] \in {"waiting", "done"}
       /\ \A m \in Msg : body[m] # "idle" => stage'[m] \in {"waiting", "done"}
  BY <1>1 DEF StageInv
<1> QED
  BY <1>1, <1>4, <1>5, <1>8, <1>10, <1>11, <1>12, StartsInv

(* /abort, and the end of a summary: the queue lets go of tasks, and what  *)
(* the bodies know stays.                                                  *)
LEMMA AbortInv ==
  ASSUME ChatInv, (\E u \in User : Abort(u)) \/ (\E t \in live : SummaryEnds(t))
  PROVE  ChatInv'
PROOF
<1> USE DEF ChatInv
<1>1. /\ UNCHANGED <<msgVars, turnVars, binding, disk, restored, store, newAsked>>
      /\ aborted \subseteq aborted' /\ live' \subseteq live
      /\ Shrinks
  <2>1. ASSUME NEW u \in User, Abort(u)
        PROVE  Shrinks /\ aborted \subseteq aborted' /\ live' = live
    <3>1. Cancel(u)
      BY <2>1 DEF Abort
    <3> QED
      BY <3>1, CancelShrinks DEF Cancel
  <2>2. ASSUME NEW t \in live, SummaryEnds(t)
        PROVE  Shrinks /\ aborted' = aborted /\ live' = live \ {t}
    <3>1. PICK result \in {"resolved", "rejected"} : RunEnds(t, result)
      BY <2>2 DEF SummaryEnds
    <3> QED
      BY <3>1, RunEndsShrinks DEF RunEnds
  <2>3. UNCHANGED <<msgVars, turnVars, binding, disk, restored, store, newAsked>>
    BY DEF Abort, SummaryEnds, storeVars
  <2> QED
    BY <2>1, <2>2, <2>3
<1>2. UNCHANGED <<nmsg, sender, force, job, hung, leftBy, stage, body, sent, prompt>>
  BY <1>1 DEF msgVars, turnVars
<1>3. TasksInv'
  BY <1>1, <1>2, ShrinkKeepsTasks
<1>4. ChatTypes'
  BY <1>1, <1>2 DEF ChatTypes, ChatTypeOK
<1>5. \A m \in Msg : \A t \in live : job[t.id] = Turn(m) => t \in live'
  <2>1. ASSUME NEW x \in live, SummaryEnds(x), NEW m \in Msg, NEW t \in live, job[t.id] = Turn(m)
        PROVE  t \in live'
    <3>1. live' = live \ {x} /\ job[x.id].kind = "summary"
      BY <2>1 DEF SummaryEnds, RunEnds
    <3> QED
      BY <2>1, <3>1 DEF Turn
  <2>2. (\E u \in User : Abort(u)) => live' = live
    BY DEF Abort, Cancel
  <2> QED
    BY <2>1, <2>2
<1>6. BodyInv'
  BY <1>1, <1>2, <1>5 DEF BodyInv, InRun, Shrinks
<1>7. SessionInv' /\ PromptInv'
  BY <1>1, <1>2 DEF SessionInv, PromptInv, InRun, Known
<1>8. LeftInv'
  BY <1>1, <1>2 DEF LeftInv, Left
<1> QED
  BY <1>1, <1>3, <1>4, <1>6, <1>7, <1>8 DEF Shrinks, TasksInv

(* The body of a turn ends: the answer may have bound a session, either of *)
(* a turn nobody has told to stop, or of one whose user is then recorded.  *)
LEMMA TurnEndsInv ==
  ASSUME ChatInv, NEW m \in Msg, TurnSucceeds(m) \/ TurnFails(m)
  PROVE  ChatInv'
PROOF
<1> USE DEF ChatInv
<1> DEFINE t == TaskOf(m)
           u == sender[m]
<1>1. /\ InRun(m) /\ BodyOver(m) /\ UNCHANGED <<nmsg, sender, force, job, hung, leftBy, stage, newAsked>>
      /\ \E result \in {"resolved", "rejected"} : RunEnds(t, result)
  BY DEF TurnSucceeds, TurnFails, msgVars
<1>2. t \in live /\ job[t.id] = Turn(m)
  <2>1. \E s \in live : job[s.id] = Turn(m)
    BY <1>1 DEF BodyInv
  <2> QED
    BY <2>1 DEF TaskOf, Turn
<1> HIDE DEF t
<1>3. Shrinks /\ live' = live \ {t} /\ aborted' = aborted
  <2>1. PICK result \in {"resolved", "rejected"} : RunEnds(t, result)
    BY <1>1
  <2> QED
    BY <1>2, <2>1, RunEndsShrinks DEF RunEnds
<1>4. /\ MaxMsg \in Nat /\ Msg = 1 .. MaxMsg /\ NoSession = 0
      /\ body \in [Msg -> {"idle", "first", "second", "over"}]
      /\ sent \in [Msg -> 0 .. MaxMsg]
      /\ prompt \in [Msg -> {"none", "continuing", "standalone"}]
      /\ binding \in [User -> 0 .. MaxMsg]
      /\ leftBy \in [Msg -> SUBSET Msg] /\ restored \subseteq User
      /\ store \subseteq Msg
      /\ u \in User
  BY ChatParameters DEF ChatTypes, ChatTypeOK
<1>5. /\ \A n \in Msg : body'[n] = IF n = m THEN "over" ELSE body[n]
      /\ \A n \in Msg : sent'[n] = IF n = m THEN NoSession ELSE sent[n]
      /\ \A n \in Msg : n # m => prompt'[n] = prompt[n]
      /\ body' \in [Msg -> {"idle", "first", "second", "over"}]
      /\ sent' \in [Msg -> 0 .. MaxMsg]
      /\ prompt' \in [Msg -> {"none", "continuing", "standalone"}]
  BY <1>1, <1>4 DEF BodyOver
<1>6. \A n \in Msg : body[n] = "over" => body'[n] = "over"
  BY <1>5
<1>7. PICK b \in [User -> 0 .. MaxMsg] :
        /\ Persist(b) \/ (b = binding /\ KeepBindings)
        /\ restored \subseteq restored' /\ restored' \subseteq User /\ store' \subseteq Msg
        /\ \/ b = binding
           \/ /\ b = [binding EXCEPT ![u] = SessionOfAnswer(m)]
              /\ t.id \in aborted => u \in restored'
  <2>1. CASE TurnFails(m)
    <3>1. KeepBindings /\ restored' = restored /\ store' = store
      BY <2>1 DEF TurnFails, KeepBindings, storeVars
    <3> QED
      BY <1>4, <3>1
  <2>2. CASE TurnSucceeds(m)
    <3>1. SessionOfAnswer(m) \in Msg
      BY <1>4 DEF SessionOfAnswer
    <3>2. /\ SetBinding(u, SessionOfAnswer(m)) /\ store' = store \cup {SessionOfAnswer(m)}
          /\ restored' = IF t.id \in aborted THEN restored \cup {u} ELSE restored
      BY <2>2 DEF TurnSucceeds, t
    <3>3. [binding EXCEPT ![u] = SessionOfAnswer(m)] \in [User -> 0 .. MaxMsg]
      BY <1>4, <3>1
    <3>4. restored' \subseteq User /\ restored \subseteq restored' /\ store' \subseteq Msg
          /\ (t.id \in aborted => u \in restored')
      BY <1>4, <3>1, <3>2
    <3>5. CASE binding[u] = SessionOfAnswer(m) /\ KeepBindings
      BY <1>4, <3>4, <3>5
    <3>6. CASE Persist([binding EXCEPT ![u] = SessionOfAnswer(m)])
      BY <3>3, <3>4, <3>6
    <3> QED
      BY <3>2, <3>5, <3>6 DEF SetBinding
  <2> QED
    BY <2>1, <2>2
<1> HIDE DEF u
<1>8. SessionOfAnswer(m) \in Msg /\ body'[SessionOfAnswer(m)] = "over"
  <2>1. sent[m] # NoSession => sent[m] \in Msg /\ body[sent[m]] = "over"
    BY <1>4 DEF SessionInv, Known
  <2> QED
    BY <1>4, <1>5, <1>6, <2>1 DEF SessionOfAnswer
<1>9. /\ binding' = b
      /\ disk' \in [readable : BOOLEAN, bound : [User -> 0 .. MaxMsg]]
      /\ \A v \in User : Known(binding[v])' /\ Known(disk.bound[v])'
  <2>1. ASSUME NEW v \in User, b[v] # NoSession
        PROVE  body'[b[v]] = "over"
    <3>1. binding[v] # NoSession => binding[v] \in Msg /\ body[binding[v]] = "over"
      BY <1>4 DEF SessionInv, Known
    <3>2. b[v] = binding[v] \/ b[v] = SessionOfAnswer(m)
      BY <1>4, <1>7
    <3> QED
      BY <1>6, <1>8, <2>1, <3>1, <3>2
  <2> QED
    BY <1>6, <1>7, <2>1, PersistFile
<1>10. ChatTypes'
  <2>1. binding' \in [User -> 0 .. MaxMsg]
    BY <1>9
  <2> QED
    BY <1>1, <1>5, <1>7, <1>9, <2>1 DEF ChatTypes, ChatTypeOK
<1>11. TasksInv'
  <2>1. stage[m] \in {"waiting", "done"}
    BY <1>1 DEF StageInv, InRun
  <2>2. \A n \in Msg : body[n] = "idle" => body'[n] = "idle"
    BY <1>1, <1>5 DEF InRun
  <2> QED
    BY <1>1, <1>3, <2>2, ShrinkKeepsTasks
<1>12. BodyInv'
  <2> SUFFICES ASSUME NEW n \in Msg
               PROVE  /\ \A s \in waitingTasks' : job[s.id] = Turn(n) => body'[n] = "idle"
                      /\ body'[n] \in {"first", "second"} => \E s \in live' : job[s.id] = Turn(n)
    BY <1>1 DEF BodyInv, InRun
  <2>1. ASSUME NEW s \in waitingTasks', job[s.id] = Turn(n)
        PROVE  body'[n] = "idle"
    <3>1. body[n] = "idle"
      BY <1>3, <2>1 DEF BodyInv, Shrinks
    <3>2. n # m
      BY <1>1, <3>1 DEF InRun
    <3> QED
      BY <1>5, <3>1, <3>2
  <2>2. ASSUME body'[n] \in {"first", "second"}
        PROVE  \E s \in live' : job[s.id] = Turn(n)
    <3>1. n # m /\ InRun(n)
      BY <1>5, <2>2 DEF InRun
    <3>2. PICK s \in live : job[s.id] = Turn(n)
      BY <3>1 DEF BodyInv
    <3>3. s # t
      BY <1>2, <3>1, <3>2, ChatParameters
    <3> QED
      BY <1>3, <3>2, <3>3
  <2> QED
    BY <2>1, <2>2
<1>13. SessionInv'
  <2>1. ASSUME NEW n \in Msg
        PROVE  Known(sent[n])' /\ \A s \in leftBy'[n] : body'[s] = "over"
    <3>1. \A s \in leftBy[n] : body[s] = "over" /\ s \in Msg
      BY <1>4 DEF SessionInv
    <3>2. sent[n] # NoSession => body[sent[n]] = "over" /\ sent[n] \in Msg
      BY <1>4 DEF SessionInv, Known
    <3> QED
      BY <1>1, <1>5, <1>6, <3>1, <3>2 DEF Known
  <2> QED
    BY <1>9, <2>1 DEF SessionInv
<1>14. PromptInv'
  BY <1>5 DEF PromptInv, InRun
<1>15. LeftInv'
  <2> SUFFICES ASSUME NEW f \in Msg, force[f], body'[f] # "idle", sender[f] \notin restored'
               PROVE  /\ b[sender[f]] \notin leftBy[f]
                      /\ \A n \in Msg : \A s \in live' :
                           job[s.id] = Turn(n) /\ s.id \notin aborted /\ sender[n] = sender[f]
                             => sent'[n] \notin leftBy[f]
    BY <1>1, <1>3, <1>9 DEF LeftInv, Left
  <2>1. Left(f)
    BY <1>1, <1>5, <1>7 DEF Left, InRun
  <2>2. NoSession \notin leftBy[f] /\ m \notin leftBy[f]
    <3>1. leftBy[f] \in SUBSET Msg
      BY <1>4
    <3>2. body[m] # "over"
      BY <1>1 DEF InRun
    <3> QED
      BY <1>4, <3>1, <3>2 DEF SessionInv
  <2>3. b[sender[f]] \notin leftBy[f]
    <3>1. CASE b[sender[f]] = binding[sender[f]]
      BY <2>1, <3>1 DEF LeftInv
    <3>2. CASE b[sender[f]] # binding[sender[f]]
      <4>1. sender[f] = u /\ b[u] = SessionOfAnswer(m) /\ t.id \notin aborted
        BY <1>4, <1>7, <3>2 DEF ChatTypes, ChatTypeOK
      <4>2. sent[m] \notin leftBy[f]
        BY <1>2, <2>1, <4>1 DEF LeftInv, u
      <4> QED
        BY <2>2, <4>1, <4>2 DEF SessionOfAnswer
    <3> QED
      BY <3>1, <3>2
  <2>4. ASSUME NEW n \in Msg, NEW s \in live', job[s.id] = Turn(n), s.id \notin aborted,
               sender[n] = sender[f]
        PROVE  sent'[n] \notin leftBy[f]
    BY <1>3, <1>5, <2>1, <2>2, <2>4 DEF LeftInv
  <2> QED
    BY <2>3, <2>4
<1> QED
  BY <1>3, <1>10, <1>11, <1>12, <1>13, <1>14, <1>15 DEF Shrinks, TasksInv

(* The turn runs again in a new session; what it was bound to is gone.     *)
LEMMA SessionMissingInv ==
  ASSUME ChatInv, NEW m \in Msg, TurnSessionMissing(m)
  PROVE  ChatInv'
PROOF
<1> USE DEF ChatInv
<1> DEFINE u == sender[m]
<1>1. /\ body[m] = "first"
      /\ ClearBinding(u)
      /\ body' = [body EXCEPT ![m] = "second"]
      /\ sent' = [sent EXCEPT ![m] = NoSession]
      /\ prompt' = [prompt EXCEPT ![m] = "standalone"]
      /\ vars' = vars
      /\ UNCHANGED <<nmsg, sender, force, job, hung, leftBy, stage, restored, store, newAsked>>
  BY DEF TurnSessionMissing, queueVars, msgVars, PromptForRetry
<1>2. /\ MaxMsg \in Nat /\ Msg = 1 .. MaxMsg /\ NoSession = 0
      /\ body \in [Msg -> {"idle", "first", "second", "over"}]
      /\ sent \in [Msg -> 0 .. MaxMsg]
      /\ prompt \in [Msg -> {"none", "continuing", "standalone"}]
      /\ binding \in [User -> 0 .. MaxMsg]
      /\ leftBy \in [Msg -> SUBSET Msg]
      /\ sender \in [Msg -> User] /\ u \in User
  BY ChatParameters DEF ChatTypes, ChatTypeOK
<1> HIDE DEF u
<1>3. Shrinks /\ live' = live /\ aborted' = aborted /\ waitingTasks' = waitingTasks
  BY <1>1, PoolUnchanged DEF Shrinks, vars
<1>4. /\ \A n \in Msg : body'[n] = IF n = m THEN "second" ELSE body[n]
      /\ \A n \in Msg : sent'[n] = IF n = m THEN NoSession ELSE sent[n]
      /\ \A n \in Msg : prompt'[n] = IF n = m THEN "standalone" ELSE prompt[n]
      /\ body' \in [Msg -> {"idle", "first", "second", "over"}]
      /\ sent' \in [Msg -> 0 .. MaxMsg]
      /\ prompt' \in [Msg -> {"none", "continuing", "standalone"}]
  BY <1>1, <1>2
<1>5. \A n \in Msg : body[n] = "over" => body'[n] = "over"
  BY <1>1, <1>4
<1> DEFINE b == [binding EXCEPT ![u] = NoSession]
<1>6. /\ b \in [User -> 0 .. MaxMsg]
      /\ \A v \in User : b[v] = binding[v] \/ b[v] = NoSession
  BY <1>2
<1>7. Persist(b) \/ (b = binding /\ KeepBindings)
  <2>1. CASE binding[u] = NoSession /\ KeepBindings
    BY <1>2, <2>1
  <2>2. CASE Persist(b)
    BY <2>2
  <2> QED
    BY <1>1, <2>1, <2>2 DEF ClearBinding, SetBinding
<1> HIDE DEF b
<1>8. /\ binding' = b
      /\ disk' \in [readable : BOOLEAN, bound : [User -> 0 .. MaxMsg]]
      /\ \A v \in User : Known(binding[v])' /\ Known(disk.bound[v])'
  <2>1. ASSUME NEW v \in User, b[v] # NoSession
        PROVE  body'[b[v]] = "over"
    <3>1. binding[v] # NoSession => binding[v] \in Msg /\ body[binding[v]] = "over"
      BY <1>2 DEF SessionInv, Known
    <3> QED
      BY <1>5, <1>6, <2>1, <3>1
  <2> QED
    BY <1>5, <1>6, <1>7, <2>1, PersistFile
<1>9. ChatTypes'
  BY <1>1, <1>4, <1>6, <1>8 DEF ChatTypes, ChatTypeOK
<1>10. TasksInv'
  <2>1. \A n \in Msg : body[n] = "idle" => body'[n] = "idle"
    BY <1>1, <1>4
  <2> QED
    BY <1>1, <1>3, <2>1, ShrinkKeepsTasks
<1>11. BodyInv' /\ PromptInv'
  BY <1>1, <1>3, <1>4 DEF BodyInv, PromptInv, InRun
<1>12. SessionInv'
  <2>1. ASSUME NEW n \in Msg
        PROVE  Known(sent[n])' /\ \A s \in leftBy'[n] : body'[s] = "over"
    <3>1. \A s \in leftBy[n] : body[s] = "over" /\ s \in Msg
      BY <1>2 DEF SessionInv
    <3>2. sent[n] # NoSession => body[sent[n]] = "over" /\ sent[n] \in Msg
      BY <1>2 DEF SessionInv, Known
    <3> QED
      BY <1>1, <1>4, <1>5, <3>1, <3>2 DEF Known
  <2> QED
    BY <1>8, <2>1 DEF SessionInv
<1>13. LeftInv'
  <2> SUFFICES ASSUME NEW f \in Msg, force[f], body'[f] # "idle", sender[f] \notin restored
               PROVE  /\ b[sender[f]] \notin leftBy[f]
                      /\ \A n \in Msg : \A s \in live :
                           job[s.id] = Turn(n) /\ s.id \notin aborted /\ sender[n] = sender[f]
                             => sent'[n] \notin leftBy[f]
    BY <1>1, <1>3, <1>8 DEF LeftInv, Left
  <2>1. Left(f)
    BY <1>1, <1>4 DEF Left
  <2>2. NoSession \notin leftBy[f]
    <3>1. leftBy[f] \in SUBSET Msg
      BY <1>2
    <3> QED
      BY <1>2, <3>1
  <2>3. sender[f] \in User
    BY <1>2
  <2> QED
    BY <1>4, <1>6, <2>1, <2>2, <2>3 DEF LeftInv
<1> QED
  BY <1>3, <1>9, <1>10, <1>11, <1>12, <1>13 DEF Shrinks, TasksInv

(* After a restart the queue is empty and no turn is in progress; what the *)
(* file gives back is bound already, or recorded.                          *)
LEMMA ChatRestartInv ==
  ASSUME ChatInv, Restart
  PROVE  ChatInv'
PROOF
<1> USE DEF ChatInv
<1>1. /\ states' = {} /\ live' = {} /\ aborted' = {}
      /\ pending' = [u \in User |-> <<>>]
      /\ current' = [u \in User |-> NoTask]
      /\ race' = [u \in User |-> "none"]
      /\ stage' = [m \in Msg |-> IF stage[m] = "none" THEN "none" ELSE "done"]
      /\ body' = [m \in Msg |-> IF InRun(m) THEN "over" ELSE body[m]]
      /\ newAsked' = {}
      /\ binding' = disk.bound
      /\ restored' = restored \cup {u \in User : disk.bound[u] \notin {binding[u], NoSession}}
      /\ sent' = [m \in Msg |-> NoSession]
      /\ prompt' = [m \in Msg |-> "none"]
      /\ UNCHANGED <<seq, promise, nmsg, sender, force, job, hung, leftBy, disk, store>>
  BY DEF Restart, msgVars
<1>2. IInv' /\ Pool' = {} /\ waitingTasks' = {} /\ PoolInv'
  BY <1>1, EmptyQueueInv
<1>3. /\ MaxMsg \in Nat /\ Msg = 1 .. MaxMsg /\ NoSession = 0
      /\ body \in [Msg -> {"idle", "first", "second", "over"}]
      /\ disk \in [readable : BOOLEAN, bound : [User -> 0 .. MaxMsg]]
      /\ leftBy \in [Msg -> SUBSET Msg] /\ sender \in [Msg -> User]
      /\ stage \in [Msg -> {"none", "accepted", "summarising", "assembled", "waiting", "done"}]
      /\ nmsg \in Nat
  BY ChatParameters DEF ChatTypes, ChatTypeOK
<1>4. \A n \in Msg : /\ body'[n] \in {"idle", "over"} /\ (body'[n] = "idle" <=> body[n] = "idle")
                     /\ body[n] = "over" => body'[n] = "over"
  BY <1>1, <1>3 DEF InRun
<1>5. ChatTypes'
  <2>1. body' \in [Msg -> {"idle", "first", "second", "over"}]
    BY <1>1, <1>3
  <2>2. /\ stage' \in [Msg -> {"none", "accepted", "summarising", "assembled", "waiting", "done"}]
        /\ sent' \in [Msg -> 0 .. MaxMsg]
        /\ prompt' \in [Msg -> {"none", "continuing", "standalone"}]
    BY <1>1, <1>3
  <2>3. binding' \in [User -> 0 .. MaxMsg] /\ restored' \subseteq User /\ newAsked' \subseteq User
    BY <1>1, <1>3 DEF ChatTypes
  <2> QED
    BY <1>1, <2>1, <2>2, <2>3 DEF ChatTypes, ChatTypeOK
<1>6. OwnerInv' /\ OnceInv'
  BY <1>1, <1>2 DEF OwnerInv, OnceInv
<1>7. StageInv'
  <2>1. \A n \in Msg : stage'[n] = IF stage[n] = "none" THEN "none" ELSE "done"
    BY <1>1
  <2> QED
    BY <1>1, <1>4, <2>1 DEF StageInv
<1>8. BodyInv' /\ PromptInv'
  BY <1>2, <1>4 DEF BodyInv, PromptInv, InRun
<1>9. SessionInv'
  <2>1. ASSUME NEW u \in User, disk.bound[u] # NoSession
        PROVE  body'[disk.bound[u]] = "over"
    <3>1. disk.bound[u] \in Msg /\ body[disk.bound[u]] = "over"
      BY <1>3, <2>1 DEF SessionInv, Known
    <3> QED
      BY <1>4, <3>1
  <2>2. ASSUME NEW n \in Msg, NEW s \in leftBy[n]
        PROVE  body'[s] = "over"
    <3>1. s \in Msg /\ body[s] = "over"
      BY <1>3 DEF SessionInv
    <3> QED
      BY <1>4, <3>1
  <2> QED
    BY <1>1, <2>1, <2>2 DEF SessionInv, Known
<1>10. LeftInv'
  <2> SUFFICES ASSUME NEW f \in Msg, force[f], body'[f] # "idle", sender[f] \notin restored'
               PROVE  disk.bound[sender[f]] \notin leftBy[f]
    BY <1>1 DEF LeftInv, Left
  <2>1. Left(f) /\ sender[f] \in User
    BY <1>1, <1>3, <1>4 DEF Left
  <2>2. disk.bound[sender[f]] \in {binding[sender[f]], NoSession}
    BY <1>1, <2>1
  <2>3. NoSession \notin leftBy[f]
    <3>1. leftBy[f] \in SUBSET Msg
      BY <1>3
    <3> QED
      BY <1>3, <3>1
  <2> QED
    BY <2>1, <2>2, <2>3 DEF LeftInv
<1> QED
  BY <1>2, <1>5, <1>6, <1>7, <1>8, <1>9, <1>10

----------------------------------------------------------------------------
(* The inductive invariant *)

LEMMA ChatInitInv == CInit => ChatInv
PROOF
<1> SUFFICES ASSUME CInit PROVE ChatInv
  OBVIOUS
<1>1. IInv /\ Pool = {} /\ waitingTasks = {} /\ PoolInv
  <2>1. IInv
    BY InitInv DEF CInit
  <2>2. Pool = {} /\ Wanted = {} /\ waitingTasks = {}
    BY DEF CInit, Init, Pool, Wanted, waitingTasks
  <2> QED
    BY <2>1, <2>2 DEF PoolInv, CInit, Init
<1>2. (CHOOSE u \in User : TRUE) \in User
  BY ChatAssumption
<1>3. ChatTypes
  <2>1. /\ sender \in [Msg -> User]
        /\ nmsg \in 0 .. MaxMsg /\ sent \in [Msg -> 0 .. MaxMsg]
    <3> DEFINE v == CHOOSE u \in User : TRUE
    <3>1. v \in User /\ sender = [m \in Msg |-> v]
      BY <1>2 DEF CInit
    <3> HIDE DEF v
    <3>2. sender \in [Msg -> User]
      BY <3>1
    <3>3. nmsg = 0 /\ sent = [m \in Msg |-> NoSession]
      BY DEF CInit
    <3> QED
      BY <3>2, <3>3, ChatParameters
  <2>0. job \in [1 .. MaxTask -> [kind : {"none", "summary", "turn"}, msg : 0 .. MaxMsg]]
    <3>1. NoJob \in [kind : {"none", "summary", "turn"}, msg : 0 .. MaxMsg]
      BY ChatParameters DEF NoJob
    <3> QED
      BY <3>1 DEF CInit
  <2>2. binding \in [User -> 0 .. MaxMsg] /\ disk \in [readable : BOOLEAN, bound : [User -> 0 .. MaxMsg]]
    <3>1. Unbound \in [User -> 0 .. MaxMsg]
      BY ChatParameters DEF Unbound
    <3> QED
      BY <3>1 DEF CInit, File
  <2> QED
    BY <2>0, <2>1, <2>2 DEF CInit, ChatTypes, ChatTypeOK
<1>4. OwnerInv /\ OnceInv /\ StageInv /\ BodyInv
  <2>1. \A m \in Msg : \A i \in 1 .. MaxTask : job[i] # Turn(m)
    BY DEF CInit, NoJob, Turn
  <2> QED
    BY <1>1, <2>1 DEF CInit, OwnerInv, OnceInv, StageInv, BodyInv, InRun
<1>5. SessionInv /\ PromptInv /\ LeftInv
  <2>1. \A u \in User : binding[u] = NoSession /\ disk.bound[u] = NoSession
    BY DEF CInit, File, Unbound
  <2> QED
    BY <2>1 DEF CInit, SessionInv, PromptInv, LeftInv, Left, Known, InRun
<1> QED
  BY <1>1, <1>3, <1>4, <1>5 DEF ChatInv

LEMMA ChatNextInv == ChatInv /\ [CNext]_cvars => ChatInv'
PROOF
<1> SUFFICES ASSUME ChatInv, [CNext]_cvars PROVE ChatInv'
  OBVIOUS
<1>1. ASSUME NEW u \in User, AskNew(u) \/ Receive(u) \/ Abort(u) PROVE ChatInv'
  BY <1>1, WorldInv, ReceiveInv, AbortInv
<1>2. ASSUME NEW u \in User, Drain(u) PROVE ChatInv'
  BY <1>2, DrainInv
<1>3. ASSUME NEW m \in Msg, HandlerSteps(m) PROVE ChatInv'
  <2>1. CASE Summarise(m)
    <3>1. /\ stage[m] = "accepted"
          /\ stage' = [stage EXCEPT ![m] = "summarising"]
          /\ job' = [job EXCEPT ![seq + 1] = [kind |-> "summary", msg |-> m]]
          /\ Enqueue(sender[m], 1) /\ StartBodies
          /\ UNCHANGED <<nmsg, sender, force, hung, store, newAsked>>
      BY <2>1 DEF Summarise
    <3>2. 1 \in Weight /\ "summary" # "turn"
      BY DEF Weight
    <3> QED
      BY <3>1, <3>2, AskInv
  <2>2. CASE EnqueueTurn(m)
    <3>1. /\ stage[m] = "assembled"
          /\ stage' = [stage EXCEPT ![m] = "waiting"]
          /\ job' = [job EXCEPT ![seq + 1] = [kind |-> "turn", msg |-> m]]
          /\ Enqueue(sender[m], 0) /\ StartBodies
          /\ UNCHANGED <<nmsg, sender, force, hung, store, newAsked>>
      BY <2>2 DEF EnqueueTurn
    <3>2. 0 \in Weight
      BY DEF Weight
    <3> QED
      BY <3>1, <3>2, AskInv
  <2>3. CASE SummaryFails(m) \/ Assemble(m) \/ Reply(m)
    BY <2>3, HandlerInv
  <2> QED
    BY <1>3, <2>1, <2>2, <2>3 DEF HandlerSteps
<1>4. ASSUME NEW m \in Msg, TurnSucceeds(m) \/ TurnFails(m) \/ TurnSessionMissing(m) PROVE ChatInv'
  BY <1>4, TurnEndsInv, SessionMissingInv
<1>5. ASSUME NEW t \in live, SummaryEnds(t) PROVE ChatInv'
  BY <1>5, AbortInv
<1>6. ASSUME NEW s \in Msg, Vanish(s) PROVE ChatInv'
  BY <1>6, WorldInv
<1>9. ASSUME NEW t \in live, CutShort(t) PROVE ChatInv'
  BY <1>9, CutInv
<1>7. CASE Restart
  BY <1>7, ChatRestartInv
<1>8. CASE UNCHANGED cvars
  <2>1. /\ vars' = vars
        /\ UNCHANGED <<nmsg, sender, force, job, hung, leftBy, stage, body, sent, prompt, binding, disk,
                       restored, store, newAsked>>
    BY <1>8 DEF cvars, queueVars, msgVars, turnVars, storeVars
  <2>2. IInv' /\ PoolInv' /\ Pool' = Pool /\ waitingTasks' = waitingTasks
    BY <2>1, PoolUnchanged DEF ChatInv
  <2>3. ChatTypes'
    BY <2>1 DEF ChatInv, ChatTypes, ChatTypeOK
  <2>4. OwnerInv' /\ OnceInv' /\ StageInv'
    BY <2>1, <2>2 DEF ChatInv, OwnerInv, OnceInv, StageInv
  <2>5. BodyInv' /\ SessionInv' /\ PromptInv' /\ LeftInv'
    BY <2>1, <2>2 DEF ChatInv, BodyInv, InRun, SessionInv, Known, PromptInv, LeftInv, Left, vars
  <2> QED
    BY <2>2, <2>3, <2>4, <2>5 DEF ChatInv
<1> QED
  BY <1>1, <1>2, <1>3, <1>4, <1>5, <1>6, <1>7, <1>8, <1>9 DEF CNext, Progress

(* The inductive invariant of the chat pipeline. *)
THEOREM ChatInvariance == CSpec => []ChatInv
PROOF
<1>1. CInit => ChatInv
  BY ChatInitInv
<1>2. ChatInv /\ [CNext]_cvars => ChatInv'
  BY ChatNextInv
<1> QED
  BY <1>1, <1>2, PTL DEF CSpec

----------------------------------------------------------------------------
(* The theorems *)

(* NoPromptWithoutContext for any users and messages: a run that opens a   *)
(* session goes out with the recent conversation, whatever became of the   *)
(* binding since the prompt was assembled, and in the second run too.      *)
THEOREM PromptsHaveContext == CSpec => []NoPromptWithoutContext
PROOF
<1>1. ChatInv => NoPromptWithoutContext
  BY DEF ChatInv, ChatTypes, PromptInv, NoPromptWithoutContext
<1> QED
  BY <1>1, ChatInvariance, PTL

(* LeftSessionStaysLeft: no later turn of the user starts in the session   *)
(* that a message with /new has left, except after what `restored' records.*)
THEOREM LeftForGood == CSpec => LeftSessionStaysLeft
PROOF
<1> DEFINE Stays == \A m, f \in Msg :
       /\ Starts(m)
       /\ force[f] /\ body[f] # "idle" /\ sender[f] = sender[m]
       /\ sender[m] \notin restored
       => sent'[m] \notin leftBy[f]
<1>1. ChatInv /\ [CNext]_cvars => [Stays]_cvars
  <2> SUFFICES ASSUME ChatInv, [CNext]_cvars, NEW m \in Msg, NEW f \in Msg, Starts(m),
                      force[f], body[f] # "idle", sender[f] = sender[m], sender[m] \notin restored
               PROVE  sent'[m] \notin leftBy[f]
    OBVIOUS
  <2>1. body \in [Msg -> {"idle", "first", "second", "over"}] /\ sent \in [Msg -> 0 .. MaxMsg]
    BY DEF ChatInv, ChatTypes, ChatTypeOK
  <2>2. StartBodies
    <3>1. body'[m] = "first" /\ body[m] = "idle"
      BY DEF Starts
    <3>2. body' # body
      BY <3>1
    <3>3. \A n \in Msg : /\ ~ BodyOver(n)
                         /\ body' # [body EXCEPT ![n] = "second"]
      BY <2>1, <3>1 DEF BodyOver
    <3>4. ~ Restart
      <4>1. Restart => body'[m] \in {"over", "idle"}
        BY <3>1 DEF Restart
      <4> QED
        BY <3>1, <4>1
    <3>5. /\ \A u \in User : ~ AskNew(u) /\ ~ Receive(u) /\ ~ Abort(u)
          /\ \A s \in Msg : ~ Vanish(s)
          /\ \A t \in live : ~ SummaryEnds(t) /\ ~ CutShort(t)
          /\ ~ UNCHANGED cvars
      BY <3>2 DEF AskNew, Receive, Abort, Vanish, SummaryEnds, CutShort, cvars, turnVars
    <3>6. \A n \in Msg : /\ ~ TurnSucceeds(n) /\ ~ TurnFails(n) /\ ~ TurnSessionMissing(n)
                         /\ ~ SummaryFails(n) /\ ~ Assemble(n) /\ ~ Reply(n)
      BY <3>2, <3>3 DEF TurnSucceeds, TurnFails, TurnSessionMissing, SummaryFails, Assemble, Reply
    <3> QED
      BY <3>4, <3>5, <3>6 DEF CNext, Progress, HandlerSteps, Drain, Summarise, EnqueueTurn
  <2>3. sent'[m] = BoundSession(m)
    BY <2>1, <2>2 DEF StartBodies, Starts
  <2>4. binding[sender[f]] \notin leftBy[f]
    BY DEF ChatInv, LeftInv, Left
  <2>5. NoSession \notin leftBy[f]
    <3>1. leftBy[f] \in SUBSET Msg
      BY DEF ChatInv, ChatTypes
    <3> QED
      BY <3>1, ChatParameters
  <2> QED
    BY <2>3, <2>4, <2>5 DEF BoundSession
<1> QED
  BY <1>1, ChatInvariance, PTL DEF CSpec, LeftSessionStaysLeft
=============================================================================
