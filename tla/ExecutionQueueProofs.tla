------------------------ MODULE ExecutionQueueProofs ------------------------
(***************************************************************************)
(* What holds of the execution queue for any set of users and any number   *)
(* of tasks.  The inductive invariant says who may be alive, waiting or    *)
(* aborted at the same time; the safety properties and the refinement of   *)
(* PriorityService are read off it.                                        *)
(***************************************************************************)
EXTENDS ExecutionQueue, TLAPS

(* No task that exists has an id yet to be given. *)
IdsInv ==
  /\ \A t \in live : t.id \in 1 .. seq
  /\ aborted \subseteq 1 .. seq
  /\ \A u \in User : current[u] # NoTask =>
       /\ current[u].user = u
       /\ current[u].id \in 1 .. seq

(* What waits is known, unanswered, not aborted, not running, not current. *)
SlotInv(u, p) ==
  /\ p.user = u
  /\ p.id \in 1 .. seq
  /\ promise[p.id] = "open"
  /\ p.id \notin aborted
  /\ \A t \in live : t.id # p.id
  /\ \A v \in User : current[v].id # p.id

WaitInv ==
  \A u \in User : \A i \in 1 .. Len(pending[u]) : SlotInv(u, pending[u][i])

DistinctInv ==
  \A u, v \in User : \A i \in 1 .. Len(pending[u]), j \in 1 .. Len(pending[v]) :
    pending[u][i].id = pending[v][j].id => u = v /\ i = j

OrderInv == \A u \in User : Ordered(pending[u])

(* The race is open exactly for the one run that nobody has told to stop. *)
RunInv ==
  /\ \A u \in User : current[u] = NoTask <=> race[u] = "none"
  /\ \A u \in User : race[u] = "open" =>
       current[u] \in live /\ current[u].id \notin aborted
  /\ \A t \in live : t.id \notin aborted =>
       current[t.user] = t /\ race[t.user] = "open"

(* No two users are served the same task. *)
CurrentInv ==
  \A u, v \in User : current[u] # NoTask /\ current[u].id = current[v].id => u = v

IInv ==
  /\ TypeOK
  /\ IdsInv
  /\ CurrentInv
  /\ WaitInv
  /\ DistinctInv
  /\ OrderInv
  /\ RunInv
  /\ StateIffWork

----------------------------------------------------------------------------
(* Lemmas on the operators of the queue *)

(* No task is the mark for "nothing is running". *)
LEMMA NoTaskIsNoTask == NoTask \notin Task
BY MaxTaskAssumption DEF NoTask, Task

(* What splice(lo, 0, task) makes of a list: one element more, the task at *)
(* the place of insertion, the others in their order around it.            *)
LEMMA SpliceElements ==
  ASSUME NEW S, NEW q \in Seq(S), NEW t \in S, NEW k \in 0 .. Len(q)
  PROVE  /\ Splice(q, k, t) \in Seq(S)
         /\ Len(Splice(q, k, t)) = Len(q) + 1
         /\ \A n \in 1 .. Len(q) + 1 :
              Splice(q, k, t)[n] = IF n <= k THEN q[n]
                                   ELSE IF n = k + 1 THEN t ELSE q[n - 1]
PROOF
<1> DEFINE a == SubSeq(q, 1, k)
           b == SubSeq(q, k + 1, Len(q))
<1>1. a \in Seq(S) /\ Len(a) = k /\ \A n \in 1 .. k : a[n] = q[n]
  OBVIOUS
<1>2. b \in Seq(S) /\ Len(b) = Len(q) - k /\ \A n \in 1 .. Len(q) - k : b[n] = q[k + n]
  OBVIOUS
<1>3. Splice(q, k, t) = (a \o <<t>>) \o b
  BY DEF Splice
<1> HIDE DEF a, b
<1>4. /\ a \o <<t>> \in Seq(S)
      /\ Len(a \o <<t>>) = k + 1
      /\ \A n \in 1 .. k + 1 : (a \o <<t>>)[n] = IF n <= k THEN q[n] ELSE t
  BY <1>1
<1> DEFINE c == a \o <<t>>
<1> HIDE DEF c
<1>5. /\ c \in Seq(S) /\ Len(c) = k + 1
      /\ \A n \in 1 .. k + 1 : c[n] = IF n <= k THEN q[n] ELSE t
  BY <1>4 DEF c
<1>6. /\ c \o b \in Seq(S)
      /\ Len(c \o b) = Len(q) + 1
      /\ \A n \in 1 .. k + 1 : (c \o b)[n] = c[n]
      /\ \A n \in k + 2 .. Len(q) + 1 : (c \o b)[n] = b[n - k - 1]
  BY <1>2, <1>5
<1>7. \A n \in k + 2 .. Len(q) + 1 : (c \o b)[n] = q[n - 1]
  <2> TAKE n \in k + 2 .. Len(q) + 1
  <2>1. n - k - 1 \in 1 .. Len(q) - k /\ k + (n - k - 1) = n - 1
    OBVIOUS
  <2> QED
    BY <1>2, <1>6, <2>1
<1>8. Splice(q, k, t) = c \o b
  BY <1>3 DEF c
<1> QED
  BY <1>5, <1>6, <1>7, <1>8

(* The first task of an empty list. *)
LEMMA SpliceIntoEmpty ==
  ASSUME NEW S, NEW q \in Seq(S), NEW t \in S, NEW k \in 0 .. Len(q)
  PROVE  q = <<>> => Splice(q, k, t) = <<t>>
PROOF
<1> DEFINE r == Splice(q, k, t)
<1>1. r \in Seq(S)
  BY SpliceElements
<1>2. Len(r) = Len(q) + 1
  BY SpliceElements
<1>3. \A n \in 1 .. Len(q) + 1 :
        r[n] = IF n <= k THEN q[n] ELSE IF n = k + 1 THEN t ELSE q[n - 1]
  BY SpliceElements
<1> HIDE DEF r
<1> HAVE q = <<>>
<1>4. Len(q) = 0 /\ k = 0
  OBVIOUS
<1>5. Len(r) = 1 /\ r[1] = t
  BY <1>2, <1>3, <1>4
<1>6. r = <<t>>
  BY <1>1, <1>5
<1> QED
  BY <1>6 DEF r

(* A task has a weight and an id to compare. *)
LEMMA TaskFields ==
  ASSUME NEW t \in Task
  PROVE  t.weight \in Nat /\ t.id \in Nat /\ t.id \in 1 .. MaxTask /\ t.user \in User
BY MaxTaskAssumption DEF Task, Weight

(* Inserting at the point the binary search finds keeps the list in order. *)
LEMMA SpliceKeepsOrder ==
  ASSUME NEW q \in Seq(Task), NEW t \in Task, NEW k \in 0 .. Len(q),
         Ordered(q), InsertPoint(q, t, k),
         \A i \in 1 .. Len(q) : q[i].id <= t.id
  PROVE  Ordered(Splice(q, k, t))
PROOF
<1> DEFINE r == Splice(q, k, t)
<1>1. /\ Len(r) = Len(q) + 1
      /\ \A n \in 1 .. Len(q) + 1 :
           r[n] = IF n <= k THEN q[n] ELSE IF n = k + 1 THEN t ELSE q[n - 1]
  BY SpliceElements
<1>2. \A i \in 1 .. Len(q) : q[i].weight \in Nat /\ q[i].id \in Nat
  BY TaskFields
<1>3. t.weight \in Nat /\ t.id \in Nat
  BY TaskFields
<1>4. \A i \in k + 1 .. Len(q) : StaysAhead(t, q[i])
  BY <1>2, <1>3 DEF InsertPoint, StaysAhead
<1>5. \A i \in 1 .. k : StaysAhead(q[i], t)
  BY DEF InsertPoint
<1> HIDE DEF r
<1>6. ASSUME NEW i \in 1 .. Len(r), NEW j \in 1 .. Len(r), i < j
      PROVE  StaysAhead(r[i], r[j])
  <2>1. CASE i <= k /\ j <= k
    BY <1>1, <1>6, <2>1 DEF Ordered
  <2>2. CASE i <= k /\ j = k + 1
    BY <1>1, <1>5, <1>6, <2>2
  <2>3. CASE i <= k /\ j > k + 1
    BY <1>1, <1>6, <2>3 DEF Ordered
  <2>4. CASE i = k + 1 /\ j > k + 1
    <3>1. r[i] = t /\ r[j] = q[j - 1] /\ j - 1 \in k + 1 .. Len(q)
      BY <1>1, <1>6, <2>4
    <3> QED
      BY <1>4, <3>1
  <2>5. CASE i > k + 1 /\ j > k + 1
    BY <1>1, <1>6, <2>5 DEF Ordered
  <2> QED
    BY <1>1, <1>6, <2>1, <2>2, <2>3, <2>4, <2>5
<1> QED
  BY <1>6 DEF Ordered, r

(* shift() leaves the others in their order. *)
LEMMA TailElements ==
  ASSUME NEW S, NEW q \in Seq(S), q # <<>>
  PROVE  /\ Head(q) \in S /\ Head(q) = q[1]
         /\ Tail(q) \in Seq(S)
         /\ Len(q) \in Nat \ {0}
         /\ Len(Tail(q)) = Len(q) - 1
         /\ \A n \in 1 .. Len(q) - 1 : Tail(q)[n] = q[n + 1]
OBVIOUS

----------------------------------------------------------------------------
(* The inductive invariant *)

LEMMA InitInv == Init => IInv
PROOF
<1> SUFFICES ASSUME Init PROVE IInv
  OBVIOUS
<1> USE DEF Init
<1>1. TypeOK
  BY MaxTaskAssumption DEF TypeOK
<1>2. IdsInv /\ CurrentInv /\ WaitInv /\ DistinctInv
  BY DEF CurrentInv, IdsInv, WaitInv, DistinctInv
<1>3. OrderInv /\ RunInv /\ StateIffWork
  BY DEF OrderInv, Ordered, RunInv, StateIffWork
<1> QED
  BY <1>1, <1>2, <1>3 DEF IInv

(* The body of a run ends. *)
LEMMA RunEndsInv ==
  ASSUME IInv, NEW t \in live, NEW result \in {"resolved", "rejected"}, RunEnds(t, result)
  PROVE  IInv'
PROOF
<1> USE DEF IInv, RunEnds
<1>0. t \in Task /\ t.user \in User
  BY TaskFields DEF TypeOK
<1>1. TypeOK'
  BY <1>0 DEF TypeOK
<1>2. IdsInv' /\ CurrentInv'
  BY DEF IdsInv, CurrentInv
<1>3. WaitInv'
  BY DEF WaitInv, SlotInv
<1>4. DistinctInv' /\ OrderInv' /\ StateIffWork'
  BY DEF DistinctInv, OrderInv, StateIffWork
<1>5. RunInv'
  <2>1. \A u \in User : current[u] = NoTask <=> race'[u] = "none"
    BY <1>0 DEF RunInv, TypeOK
  <2>2. ASSUME NEW u \in User, race'[u] = "open"
        PROVE  current[u] \in live' /\ current[u].id \notin aborted
    <3>0. race[u] = "open"
      BY <1>0, <2>2 DEF TypeOK
    <3>1. current[u] # t
      <4>1. current[u].user = u
        BY <3>0 DEF RunInv, IdsInv
      <4> QED
        BY <1>0, <2>2, <3>0, <4>1 DEF TypeOK
    <3> QED
      BY <3>0, <3>1 DEF RunInv
  <2>3. ASSUME NEW s \in live', s.id \notin aborted
        PROVE  current[s.user] = s /\ race'[s.user] = "open"
    <3>1. s \in live /\ s # t /\ s.user \in User
      BY <2>3, TaskFields DEF TypeOK
    <3>2. current[s.user] = s /\ race[s.user] = "open"
      BY <2>3, <3>1 DEF RunInv
    <3> QED
      BY <1>0, <3>1, <3>2 DEF TypeOK
  <2> QED
    BY <2>1, <2>2, <2>3 DEF RunInv
<1> QED
  BY <1>1, <1>2, <1>3, <1>4, <1>5

(* /abort *)
LEMMA CancelInv ==
  ASSUME IInv, NEW u \in User, Cancel(u)
  PROVE  IInv'
PROOF
<1> USE DEF IInv, Cancel, PendingAfterCancel, RaceAfterAbort
<1>0. /\ current[u] # NoTask /\ current[u] \in Task
      /\ current[u].user = u /\ current[u].id \in 1 .. seq
      /\ current[u].id \in 1 .. MaxTask
      /\ race[u] # "none"
      /\ aborted' = aborted \cup {current[u].id}
  <2>1. current[u] # NoTask /\ current[u] \in Task
    BY DEF StateIffWork, TypeOK
  <2> QED
    BY <2>1, TaskFields DEF IdsInv, RunInv
<1>a. \A v \in User : pending'[v] = IF v = u THEN <<>> ELSE pending[v]
  BY DEF TypeOK
<1>b. \A v \in User : race'[v] = IF v = u /\ race[u] = "open" THEN "rejected" ELSE race[v]
  BY DEF TypeOK
<1>1. TypeOK'
  <2>1. pending' \in [User -> Seq(Task)] /\ race' \in [User -> {"none", "open", "resolved", "rejected"}]
    BY DEF TypeOK
  <2>2. promise' \in [1 .. MaxTask -> {"none", "open", "resolved", "rejected"}]
    BY DEF TypeOK
  <2> QED
    BY <1>0, <2>1, <2>2 DEF TypeOK
<1>2. IdsInv' /\ CurrentInv'
  BY <1>0 DEF IdsInv, CurrentInv
<1>3. WaitInv'
  <2> SUFFICES ASSUME NEW v \in User, NEW i \in 1 .. Len(pending'[v])
               PROVE  SlotInv(v, pending[v][i])'
    BY DEF WaitInv
  <2> DEFINE p == pending[v][i]
  <2>1. v # u /\ pending'[v][i] = p /\ i \in 1 .. Len(pending[v])
    BY <1>a
  <2>2. SlotInv(v, p)
    BY <2>1 DEF WaitInv
  <2>3. \A n \in 1 .. Len(pending[u]) : pending[u][n].id # p.id
    BY <2>1 DEF DistinctInv
  <2>4. p.id \in 1 .. MaxTask
    BY <2>1, TaskFields DEF TypeOK
  <2>5. promise'[p.id] = "open"
    BY <2>2, <2>3, <2>4 DEF SlotInv
  <2> QED
    BY <1>0, <2>1, <2>2, <2>5 DEF SlotInv
<1>4. DistinctInv'
  BY <1>a DEF DistinctInv
<1>5. OrderInv'
  BY <1>a DEF OrderInv, Ordered
<1>6. StateIffWork'
  BY <1>a DEF StateIffWork
<1>7. RunInv'
  <2>1. \A v \in User : current[v] = NoTask <=> race'[v] = "none"
    BY <1>0, <1>b DEF RunInv
  <2>2. ASSUME NEW v \in User, race'[v] = "open"
        PROVE  current[v] \in live /\ current[v].id \notin aborted'
    <3>1. v # u /\ race[v] = "open"
      BY <1>b, <2>2
    <3>2. current[v] \in live /\ current[v].id \notin aborted
      BY <3>1 DEF RunInv
    <3>3. current[v].id # current[u].id
      BY <1>0, <3>1, <3>2 DEF RunInv, CurrentInv
    <3> QED
      BY <1>0, <3>2, <3>3
  <2>3. ASSUME NEW s \in live, s.id \notin aborted'
        PROVE  current[s.user] = s /\ race'[s.user] = "open"
    <3>1. s.user \in User /\ s.id # current[u].id /\ s.id \notin aborted
      BY <1>0, <2>3, TaskFields DEF TypeOK
    <3>2. current[s.user] = s /\ race[s.user] = "open"
      BY <3>1 DEF RunInv
    <3> QED
      BY <1>b, <3>1, <3>2
  <2> QED
    BY <2>1, <2>2, <2>3 DEF RunInv
<1> QED
  BY <1>1, <1>2, <1>3, <1>4, <1>5, <1>6, <1>7

(* The queue starts the head of a list: what that does to the tasks. *)
LEMMA StartHeadTypes ==
  ASSUME TypeOK, NEW u \in User, NEW q \in Seq(Task), StartHead(u, q)
  PROVE  /\ q # <<>> /\ Head(q) \in Task /\ Head(q) # NoTask
         /\ \A v \in User : current'[v] = IF v = u THEN Head(q) ELSE current[v]
         /\ \A v \in User : pending'[v] = IF v = u THEN Tail(q) ELSE pending[v]
         /\ \A v \in User : race'[v] = IF v = u THEN "open" ELSE race[v]
         /\ live' = live \cup {Head(q)}
         /\ pending' \in [User -> Seq(Task)]
         /\ current' \in [User -> Task \cup {NoTask}]
         /\ race' \in [User -> {"none", "open", "resolved", "rejected"}]
         /\ live' \subseteq Task
PROOF
<1>1. q # <<>> /\ Head(q) \in Task /\ Tail(q) \in Seq(Task)
  BY TailElements DEF StartHead
<1>2. Head(q) # NoTask
  BY <1>1, NoTaskIsNoTask
<1> QED
  BY <1>1, <1>2 DEF StartHead, TypeOK

(* drain resumes and the user's list is empty: the server rests. *)
LEMMA DrainRestsInv ==
  ASSUME IInv, NEW u \in User, DrainResumes(u), pending[u] = <<>>
  PROVE  IInv'
PROOF
<1> USE DEF IInv, DrainResumes, StatesAfter
<1>0. /\ current[u] # NoTask /\ current[u] \in Task
      /\ current[u].id \in 1 .. MaxTask
      /\ race[u] \in {"resolved", "rejected"}
  <2>1. current[u] # NoTask /\ current[u] \in Task
    BY DEF RunInv, TypeOK
  <2> QED
    BY <2>1, TaskFields
<1>1. ~ StartHead(u, pending[u])
  BY DEF StartHead
<1>2. /\ UNCHANGED <<pending, live, seq, aborted>>
      /\ states' = states \ {u}
      /\ promise' = [promise EXCEPT ![current[u].id] = race[u]]
      /\ current' = [current EXCEPT ![u] = NoTask]
      /\ race' = [race EXCEPT ![u] = "none"]
  BY <1>1
<1>3. TypeOK'
  BY <1>0, <1>2 DEF TypeOK
<1>4. IdsInv' /\ CurrentInv'
  <2>1. IdsInv'
    BY <1>2 DEF IdsInv, TypeOK
  <2>2. ASSUME NEW v \in User, NEW w \in User,
               current'[v] # NoTask, current'[v].id = current'[w].id
        PROVE  v = w
    <3>1. v # u /\ current'[v] = current[v] /\ current[v].id \in 1 .. seq
      BY <1>2, <2>2 DEF IdsInv, TypeOK
    <3>2. w # u
      BY <1>2, <2>2, <3>1 DEF TypeOK, NoTask
    <3> QED
      BY <1>2, <2>2, <3>1, <3>2 DEF CurrentInv, TypeOK
  <2> QED
    BY <2>1, <2>2 DEF CurrentInv
<1>5. WaitInv'
  <2> SUFFICES ASSUME NEW v \in User, NEW i \in 1 .. Len(pending[v])
               PROVE  SlotInv(v, pending[v][i])'
    BY <1>2 DEF WaitInv
  <2>1. SlotInv(v, pending[v][i])
    BY DEF WaitInv
  <2>2. pending[v][i].id \in 1 .. MaxTask /\ pending[v][i].id # current[u].id
    BY <2>1, TaskFields DEF TypeOK, SlotInv
  <2>3. \A w \in User : current'[w].id # pending[v][i].id
    BY <1>2, <2>1, <2>2 DEF SlotInv, TypeOK, NoTask
  <2> QED
    BY <1>0, <1>2, <2>1, <2>2, <2>3 DEF SlotInv, TypeOK
<1>6. DistinctInv' /\ OrderInv'
  BY <1>2 DEF DistinctInv, OrderInv
<1>7. StateIffWork'
  BY <1>2 DEF StateIffWork, TypeOK
<1>8. RunInv'
  <2>1. \A v \in User : current'[v] = NoTask <=> race'[v] = "none"
    BY <1>2 DEF RunInv, TypeOK
  <2>2. ASSUME NEW v \in User, race'[v] = "open"
        PROVE  current'[v] \in live /\ current'[v].id \notin aborted
    <3>1. v # u /\ race[v] = "open"
      BY <1>2, <2>2 DEF TypeOK
    <3> QED
      BY <1>2, <3>1 DEF RunInv, TypeOK
  <2>3. ASSUME NEW s \in live, s.id \notin aborted
        PROVE  current'[s.user] = s /\ race'[s.user] = "open"
    <3>1. s.user \in User /\ current[s.user] = s /\ race[s.user] = "open"
      BY <2>3, TaskFields DEF TypeOK, RunInv
    <3> QED
      BY <1>0, <1>2, <3>1 DEF TypeOK
  <2> QED
    BY <1>2, <2>1, <2>2, <2>3 DEF RunInv
<1> QED
  BY <1>3, <1>4, <1>5, <1>6, <1>7, <1>8

(* drain resumes and goes on with the next task. *)
LEMMA DrainGoesOnInv ==
  ASSUME IInv, NEW u \in User, DrainResumes(u), pending[u] # <<>>
  PROVE  IInv'
PROOF
<1> USE DEF IInv, DrainResumes, StatesAfter
<1> DEFINE q == pending[u]
           h == Head(q)
<1>0. /\ current[u] # NoTask /\ current[u] \in Task
      /\ current[u].id \in 1 .. MaxTask
      /\ race[u] \in {"resolved", "rejected"}
  <2>1. current[u] # NoTask /\ current[u] \in Task
    BY DEF RunInv, TypeOK
  <2> QED
    BY <2>1, TaskFields
<1>1. /\ StartHead(u, q)
      /\ UNCHANGED <<seq, aborted, states>>
      /\ promise' = [promise EXCEPT ![current[u].id] = race[u]]
  OBVIOUS
<1>2. q \in Seq(Task)
  BY DEF TypeOK
<1>3. /\ h \in Task /\ h # NoTask /\ h = q[1] /\ 1 \in 1 .. Len(q)
      /\ Len(Tail(q)) = Len(q) - 1
      /\ \A n \in 1 .. Len(q) - 1 : Tail(q)[n] = q[n + 1]
      /\ Len(q) \in Nat \ {0}
  BY <1>1, <1>2, TailElements, NoTaskIsNoTask
<1>4. /\ \A v \in User : current'[v] = IF v = u THEN h ELSE current[v]
      /\ \A v \in User : pending'[v] = IF v = u THEN Tail(q) ELSE pending[v]
      /\ \A v \in User : race'[v] = IF v = u THEN "open" ELSE race[v]
      /\ live' = live \cup {h}
      /\ pending' \in [User -> Seq(Task)]
      /\ current' \in [User -> Task \cup {NoTask}]
      /\ race' \in [User -> {"none", "open", "resolved", "rejected"}]
      /\ live' \subseteq Task
  BY <1>1, <1>2, StartHeadTypes
<1>5. SlotInv(u, h)
  BY <1>3 DEF WaitInv
(* Every place of the new lists was a place of the old ones, not the first. *)
<1>6. ASSUME NEW v \in User, NEW i \in 1 .. Len(pending'[v])
      PROVE  \E j \in 1 .. Len(pending[v]) :
               /\ pending'[v][i] = pending[v][j]
               /\ j = IF v = u THEN i + 1 ELSE i
  <2>1. CASE v = u
    <3>1. i \in 1 .. Len(q) - 1 /\ i + 1 \in 1 .. Len(q)
      BY <1>3, <1>4, <2>1
    <3> QED
      BY <1>3, <1>4, <2>1, <3>1
  <2>2. CASE v # u
    BY <1>4, <2>2
  <2> QED
    BY <2>1, <2>2
<1> HIDE DEF h, q
<1>7. TypeOK'
  BY <1>0, <1>1, <1>4 DEF TypeOK
<1>8. IdsInv'
  BY <1>1, <1>4, <1>5 DEF IdsInv, SlotInv
<1>9. CurrentInv'
  BY <1>4, <1>5 DEF CurrentInv, SlotInv
<1>10. WaitInv'
  <2> SUFFICES ASSUME NEW v \in User, NEW i \in 1 .. Len(pending'[v])
               PROVE  SlotInv(v, pending[v][i])'
    BY DEF WaitInv
  <2>1. PICK j \in 1 .. Len(pending[v]) :
          pending'[v][i] = pending[v][j] /\ j = IF v = u THEN i + 1 ELSE i
    BY <1>6
  <2>2. SlotInv(v, pending[v][j])
    BY DEF WaitInv
  <2>3. pending[v][j].id # h.id
    <3>1. CASE v = u
      BY <1>3, <2>1, <3>1 DEF DistinctInv, q
    <3>2. CASE v # u
      BY <1>3, <2>1, <3>2 DEF DistinctInv, q
    <3> QED
      BY <3>1, <3>2
  <2>4. pending[v][j].id \in 1 .. MaxTask /\ pending[v][j].id # current[u].id
    BY <2>2, TaskFields DEF TypeOK, SlotInv
  <2>5. promise'[pending[v][j].id] = "open"
    BY <1>1, <2>2, <2>4 DEF SlotInv, TypeOK
  <2>6. /\ \A t \in live' : t.id # pending[v][j].id
        /\ \A w \in User : current'[w].id # pending[v][j].id
    BY <1>4, <2>2, <2>3 DEF SlotInv
  <2> QED
    BY <1>1, <2>1, <2>2, <2>5, <2>6 DEF SlotInv
<1>11. DistinctInv'
  <2> SUFFICES ASSUME NEW v \in User, NEW w \in User,
                      NEW i \in 1 .. Len(pending'[v]), NEW j \in 1 .. Len(pending'[w]),
                      pending'[v][i].id = pending'[w][j].id
               PROVE  v = w /\ i = j
    BY DEF DistinctInv
  <2>1. PICK k \in 1 .. Len(pending[v]) :
          pending'[v][i] = pending[v][k] /\ k = IF v = u THEN i + 1 ELSE i
    BY <1>6
  <2>2. PICK l \in 1 .. Len(pending[w]) :
          pending'[w][j] = pending[w][l] /\ l = IF w = u THEN j + 1 ELSE j
    BY <1>6
  <2>3. v = w /\ k = l
    BY <2>1, <2>2 DEF DistinctInv
  <2> QED
    BY <2>1, <2>2, <2>3
<1>12. OrderInv'
  <2> SUFFICES ASSUME NEW v \in User,
                      NEW i \in 1 .. Len(pending'[v]), NEW j \in 1 .. Len(pending'[v]), i < j
               PROVE  StaysAhead(pending'[v][i], pending'[v][j])
    BY DEF OrderInv, Ordered
  <2>1. PICK k \in 1 .. Len(pending[v]) :
          pending'[v][i] = pending[v][k] /\ k = IF v = u THEN i + 1 ELSE i
    BY <1>6
  <2>2. PICK l \in 1 .. Len(pending[v]) :
          pending'[v][j] = pending[v][l] /\ l = IF v = u THEN j + 1 ELSE j
    BY <1>6
  <2>3. k < l
    BY <2>1, <2>2
  <2> QED
    BY <2>1, <2>2, <2>3 DEF OrderInv, Ordered
<1>13. StateIffWork'
  BY <1>1, <1>3, <1>4 DEF StateIffWork, q
<1>14. RunInv'
  <2>1. \A v \in User : current'[v] = NoTask <=> race'[v] = "none"
    BY <1>3, <1>4 DEF RunInv
  <2>2. ASSUME NEW v \in User, race'[v] = "open"
        PROVE  current'[v] \in live' /\ current'[v].id \notin aborted
    BY <1>4, <1>5, <2>2 DEF RunInv, SlotInv
  <2>3. ASSUME NEW s \in live', s.id \notin aborted
        PROVE  current'[s.user] = s /\ race'[s.user] = "open"
    <3>1. CASE s = h
      BY <1>4, <1>5, <3>1 DEF SlotInv
    <3>2. CASE s \in live
      <4>1. s.user \in User /\ current[s.user] = s /\ race[s.user] = "open"
        BY <2>3, <3>2, TaskFields DEF TypeOK, RunInv
      <4> QED
        BY <1>0, <1>4, <4>1
    <3> QED
      BY <1>4, <2>3, <3>1, <3>2
  <2> QED
    BY <1>1, <2>1, <2>2, <2>3 DEF RunInv
<1> QED
  BY <1>7, <1>8, <1>9, <1>10, <1>11, <1>12, <1>13, <1>14

(* enqueue while nothing of the user runs: the new task starts at once. *)
LEMMA EnqueueStartsInv ==
  ASSUME IInv, NEW u \in User, NEW w \in Weight, Enqueue(u, w), ~ Running(u)
  PROVE  /\ IInv'
         /\ pending[u] = <<>> /\ pending' = pending
         /\ current' = [current EXCEPT ![u] = [id |-> seq + 1, user |-> u, weight |-> w]]
PROOF
<1> DEFINE t == [id |-> NextId, user |-> u, weight |-> w]
<1> USE DEF IInv, Enqueue, Running
<1>1. /\ t \in Task /\ t # NoTask /\ t.id = seq + 1 /\ t.user = u
      /\ seq \in Nat /\ seq + 1 \in 1 .. MaxTask
  BY MaxTaskAssumption, NoTaskIsNoTask DEF TypeOK, Task, NextId
<1>2. pending[u] = <<>>
  BY DEF StateIffWork
<1>3. PICK k \in 0 .. Len(pending[u]) : StartHead(u, Splice(pending[u], k, t))
  OBVIOUS
<1>4. Splice(pending[u], k, t) = <<t>>
  <2>1. pending[u] \in Seq(Task) /\ k \in 0 .. Len(pending[u])
    BY DEF TypeOK
  <2> DEFINE q == pending[u]
  <2>2. q \in Seq(Task) /\ k \in 0 .. Len(q) /\ q = <<>>
    BY <1>2, <2>1
  <2> HIDE DEF t, q, IInv, Enqueue, Running
  <2>3. Splice(q, k, t) = <<t>>
    BY <1>1, <2>2, SpliceIntoEmpty
  <2> QED
    BY <2>3 DEF q
<1>5. <<t>> \in Seq(Task) /\ Head(<<t>>) = t /\ Tail(<<t>>) = <<>>
  BY <1>1
<1> HIDE DEF t
<1>6. /\ \A v \in User : current'[v] = IF v = u THEN t ELSE current[v]
      /\ \A v \in User : pending'[v] = pending[v]
      /\ \A v \in User : race'[v] = IF v = u THEN "open" ELSE race[v]
      /\ live' = live \cup {t}
      /\ pending' \in [User -> Seq(Task)]
      /\ current' \in [User -> Task \cup {NoTask}]
      /\ race' \in [User -> {"none", "open", "resolved", "rejected"}]
      /\ live' \subseteq Task
  <2>1. StartHead(u, <<t>>)
    BY <1>3, <1>4
  <2> DEFINE r == <<t>>
  <2>2. r \in Seq(Task) /\ StartHead(u, r) /\ Head(r) = t /\ Tail(r) = pending[u]
    BY <1>2, <1>5, <2>1
  <2> HIDE DEF r, Enqueue
  <2>3. /\ \A v \in User : current'[v] = IF v = u THEN Head(r) ELSE current[v]
        /\ \A v \in User : pending'[v] = IF v = u THEN Tail(r) ELSE pending[v]
        /\ \A v \in User : race'[v] = IF v = u THEN "open" ELSE race[v]
        /\ live' = live \cup {Head(r)}
        /\ pending' \in [User -> Seq(Task)]
        /\ current' \in [User -> Task \cup {NoTask}]
        /\ race' \in [User -> {"none", "open", "resolved", "rejected"}]
        /\ live' \subseteq Task
    BY <2>2, StartHeadTypes
  <2> QED
    BY <2>2, <2>3
<1>7. pending' = pending /\ current' = [current EXCEPT ![u] = t]
  BY <1>3, <1>4, <1>5, <1>6 DEF StartHead, TypeOK
<1>8. /\ seq' = seq + 1 /\ states' = states \cup {u} /\ aborted' = aborted
      /\ promise' = [promise EXCEPT ![seq + 1] = "open"]
  OBVIOUS
<1>9. TypeOK'
  BY <1>1, <1>6, <1>8 DEF TypeOK
<1> HIDE DEF Enqueue
<1>10. IdsInv'
  <2>1. \A x \in live' : x.id \in 1 .. seq'
    BY <1>1, <1>6, <1>8 DEF IdsInv
  <2>2. aborted' \subseteq 1 .. seq'
    BY <1>1, <1>8 DEF IdsInv
  <2>3. \A v \in User : current'[v] # NoTask => current'[v].user = v /\ current'[v].id \in 1 .. seq'
    BY <1>1, <1>6, <1>8 DEF IdsInv
  <2> QED
    BY <2>1, <2>2, <2>3 DEF IdsInv
<1>11. CurrentInv'
  <2>1. \A v \in User : v # u => current'[v] = current[v] /\ current[v].id # t.id
    BY <1>1, <1>6 DEF IdsInv, NoTask
  <2> QED
    BY <1>6, <2>1 DEF CurrentInv
<1>12. WaitInv'
  <2> SUFFICES ASSUME NEW v \in User, NEW i \in 1 .. Len(pending[v])
               PROVE  SlotInv(v, pending[v][i])'
    BY <1>7 DEF WaitInv
  <2>1. SlotInv(v, pending[v][i])
    BY DEF WaitInv
  <2>2. pending[v][i].id \in 1 .. MaxTask /\ pending[v][i].id # seq + 1
    BY <1>1, <2>1, TaskFields DEF TypeOK, SlotInv
  <2> QED
    BY <1>1, <1>6, <1>7, <1>8, <2>1, <2>2 DEF SlotInv, TypeOK
<1>13. DistinctInv' /\ OrderInv'
  BY <1>7 DEF DistinctInv, OrderInv
<1>14. StateIffWork'
  BY <1>1, <1>2, <1>6, <1>7, <1>8 DEF StateIffWork
<1>15. RunInv'
  <2>1. \A v \in User : current'[v] = NoTask <=> race'[v] = "none"
    BY <1>1, <1>6 DEF RunInv
  <2>2. ASSUME NEW v \in User, race'[v] = "open"
        PROVE  current'[v] \in live' /\ current'[v].id \notin aborted
    <3>1. CASE v = u
      BY <1>1, <1>6, <3>1 DEF IdsInv
    <3>2. CASE v # u
      BY <1>6, <2>2, <3>2 DEF RunInv
    <3> QED
      BY <3>1, <3>2
  <2>3. ASSUME NEW s \in live', s.id \notin aborted
        PROVE  current'[s.user] = s /\ race'[s.user] = "open"
    <3>1. CASE s = t
      BY <1>1, <1>6, <3>1
    <3>2. CASE s \in live
      <4>1. s.user \in User /\ current[s.user] = s /\ race[s.user] = "open"
        BY <2>3, <3>2, TaskFields DEF TypeOK, RunInv
      <4>2. current[u] = NoTask /\ s # NoTask
        BY <3>2, NoTaskIsNoTask DEF TypeOK
      <4> QED
        BY <1>6, <4>1, <4>2
    <3> QED
      BY <1>6, <2>3, <3>1, <3>2
  <2> QED
    BY <1>8, <2>1, <2>2, <2>3 DEF RunInv
<1> QED
  BY <1>2, <1>7, <1>9, <1>10, <1>11, <1>12, <1>13, <1>14, <1>15 DEF t, NextId

(* enqueue while a task of the user runs: the new one waits in its place. *)
LEMMA EnqueueWaits ==
  ASSUME IInv, NEW u \in User, NEW w \in Weight, Enqueue(u, w), Running(u),
         NEW t, t = [id |-> seq + 1, user |-> u, weight |-> w]
  PROVE  /\ t \in Task /\ t # NoTask /\ t.id = seq + 1 /\ t.user = u
         /\ seq \in Nat /\ seq + 1 \in 1 .. MaxTask
         /\ UNCHANGED <<current, race, live, aborted>>
         /\ seq' = seq + 1
         /\ states' = states \cup {u}
         /\ promise' = [promise EXCEPT ![seq + 1] = "open"]
         /\ \E k \in 0 .. Len(pending[u]) :
              /\ InsertPoint(pending[u], t, k)
              /\ pending' = [pending EXCEPT ![u] = Splice(pending[u], k, t)]
PROOF
<1>1. t \in Task /\ seq \in Nat /\ seq + 1 \in 1 .. MaxTask
  BY MaxTaskAssumption DEF IInv, TypeOK, Task, Enqueue
<1> QED
  BY <1>1, NoTaskIsNoTask DEF Enqueue, NextId

LEMMA EnqueueWaitsInv ==
  ASSUME IInv, NEW u \in User, NEW w \in Weight, Enqueue(u, w), Running(u)
  PROVE  IInv'
PROOF
<1> DEFINE t == [id |-> seq + 1, user |-> u, weight |-> w]
           q == pending[u]
<1>1. /\ t \in Task /\ t # NoTask /\ t.id = seq + 1 /\ t.user = u
      /\ seq \in Nat /\ seq + 1 \in 1 .. MaxTask
      /\ UNCHANGED <<current, race, live, aborted>>
      /\ seq' = seq + 1
      /\ states' = states \cup {u}
      /\ promise' = [promise EXCEPT ![seq + 1] = "open"]
  BY EnqueueWaits
<1>2. PICK k \in 0 .. Len(q) : /\ InsertPoint(q, t, k)
                               /\ pending' = [pending EXCEPT ![u] = Splice(q, k, t)]
  BY EnqueueWaits
<1>3. q \in Seq(Task)
  BY DEF IInv, TypeOK
<1> DEFINE r == Splice(q, k, t)
<1> HIDE DEF t, q
<1>4. r \in Seq(Task) /\ Len(r) = Len(q) + 1
  BY <1>1, <1>3, SpliceElements
<1>5. \A n \in 1 .. Len(q) + 1 :
        r[n] = IF n <= k THEN q[n] ELSE IF n = k + 1 THEN t ELSE q[n - 1]
  BY <1>1, <1>3, SpliceElements
<1>6. \A v \in User : pending'[v] = IF v = u THEN r ELSE pending[v]
  BY <1>2 DEF IInv, TypeOK
<1>7. \A i \in 1 .. Len(q) : SlotInv(u, q[i])
  BY DEF IInv, WaitInv, q
<1>8. Ordered(r)
  <2>1. Ordered(q)
    BY DEF IInv, OrderInv, q
  <2>2. \A i \in 1 .. Len(q) : q[i].id <= t.id
    BY <1>1, <1>7 DEF SlotInv
  <2> QED
    BY <1>1, <1>2, <1>3, <2>1, <2>2, SpliceKeepsOrder
<1> HIDE DEF r
(* Every place of the new lists holds the new task or was a place before. *)
<1> DEFINE place(v, i) == IF v = u /\ i > k THEN i - 1 ELSE i
           new(v, i) == v = u /\ i = k + 1
<1>9. ASSUME NEW v \in User, NEW i \in 1 .. Len(pending'[v])
      PROVE  \/ new(v, i) /\ pending'[v][i] = t
             \/ /\ ~ new(v, i)
                /\ place(v, i) \in 1 .. Len(pending[v])
                /\ pending'[v][i] = pending[v][place(v, i)]
  <2>1. CASE v = u
    BY <1>3, <1>4, <1>5, <1>6, <2>1 DEF q
  <2>2. CASE v # u
    BY <1>6, <2>2
  <2> QED
    BY <2>1, <2>2
<1>10. TypeOK'
  <2>1. pending' \in [User -> Seq(Task)]
    BY <1>2, <1>4 DEF IInv, TypeOK, r
  <2>2. promise' \in [1 .. MaxTask -> {"none", "open", "resolved", "rejected"}]
    BY <1>1 DEF IInv, TypeOK
  <2> QED
    BY <1>1, <2>1, <2>2 DEF IInv, TypeOK
<1>11. IdsInv' /\ CurrentInv'
  BY <1>1 DEF IInv, IdsInv, CurrentInv
<1>12. WaitInv'
  <2> SUFFICES ASSUME NEW v \in User, NEW i \in 1 .. Len(pending'[v])
               PROVE  SlotInv(v, pending[v][i])'
    BY DEF WaitInv
  <2>1. CASE new(v, i)
    <3>1. pending'[v][i] = t /\ v = u
      BY <1>9, <2>1
    <3>2. promise'[t.id] = "open"
      BY <1>1 DEF IInv, TypeOK
    <3>3. \A x \in live' : x.id # t.id
      BY <1>1 DEF IInv, IdsInv
    <3>4. \A x \in User : current'[x].id # t.id
      BY <1>1 DEF IInv, IdsInv, NoTask
    <3>5. t.id \in 1 .. seq' /\ t.id \notin aborted'
      BY <1>1 DEF IInv, IdsInv
    <3> QED
      BY <1>1, <3>1, <3>2, <3>3, <3>4, <3>5 DEF SlotInv
  <2>2. CASE ~ new(v, i)
    <3> DEFINE p == pending[v][place(v, i)]
    <3>1. place(v, i) \in 1 .. Len(pending[v]) /\ pending'[v][i] = p
      BY <1>9, <2>2
    <3>2. SlotInv(v, p)
      BY <3>1 DEF IInv, WaitInv
    <3>3. p.id \in 1 .. MaxTask /\ p.id # seq + 1
      BY <1>1, <3>1, <3>2, TaskFields DEF IInv, TypeOK, SlotInv
    <3> HIDE DEF p
    <3> QED
      BY <1>1, <3>1, <3>2, <3>3 DEF SlotInv, IInv, TypeOK
  <2> QED
    BY <2>1, <2>2
<1>13. DistinctInv'
  <2> SUFFICES ASSUME NEW v \in User, NEW x \in User,
                      NEW i \in 1 .. Len(pending'[v]), NEW j \in 1 .. Len(pending'[x]),
                      pending'[v][i].id = pending'[x][j].id
               PROVE  v = x /\ i = j
    BY DEF DistinctInv
  <2>1. \A y \in User : \A n \in 1 .. Len(pending[y]) : pending[y][n].id # t.id
    BY <1>1 DEF IInv, WaitInv, SlotInv
  <2> HIDE DEF place, new
  <2>a. \/ new(v, i) /\ pending'[v][i] = t
        \/ /\ ~ new(v, i)
           /\ place(v, i) \in 1 .. Len(pending[v])
           /\ pending'[v][i] = pending[v][place(v, i)]
    BY <1>9
  <2>b. \/ new(x, j) /\ pending'[x][j] = t
        \/ /\ ~ new(x, j)
           /\ place(x, j) \in 1 .. Len(pending[x])
           /\ pending'[x][j] = pending[x][place(x, j)]
    BY <1>9
  <2>2. new(v, i) <=> new(x, j)
    BY <2>a, <2>b, <2>1
  <2>3. CASE new(v, i)
    BY <2>2, <2>3 DEF new
  <2>4. CASE ~ new(v, i)
    <3>1. v = x /\ place(v, i) = place(x, j)
      <4>1. /\ place(v, i) \in 1 .. Len(pending[v]) /\ place(x, j) \in 1 .. Len(pending[x])
            /\ pending[v][place(v, i)].id = pending[x][place(x, j)].id
        BY <2>a, <2>b, <2>2, <2>4
      <4>2. \A a \in 1 .. Len(pending[v]), b \in 1 .. Len(pending[x]) :
              pending[v][a].id = pending[x][b].id => v = x /\ a = b
        BY DEF IInv, DistinctInv
      <4> QED
        BY <4>1, <4>2
    <3> QED
      BY <2>2, <2>4, <3>1 DEF place, new
  <2> QED
    BY <2>3, <2>4
<1>14. OrderInv'
  BY <1>6, <1>8 DEF IInv, OrderInv
<1>15. StateIffWork'
  BY <1>1, <1>6 DEF IInv, StateIffWork, Running
<1>16. RunInv'
  BY <1>1 DEF IInv, RunInv
<1> QED
  BY <1>10, <1>11, <1>12, <1>13, <1>14, <1>15, <1>16 DEF IInv

(* The invariant is inductive: every step of the queue keeps it. *)
LEMMA NextInv == IInv /\ [Next]_vars => IInv'
PROOF
<1> SUFFICES ASSUME IInv, [Next]_vars PROVE IInv'
  OBVIOUS
<1>1. ASSUME NEW u \in User, NEW w \in Weight, Enqueue(u, w) PROVE IInv'
  BY <1>1, EnqueueStartsInv, EnqueueWaitsInv
<1>2. ASSUME NEW u \in User, Cancel(u) PROVE IInv'
  BY <1>2, CancelInv
<1>3. ASSUME NEW u \in User, DrainResumes(u) PROVE IInv'
  BY <1>3, DrainRestsInv, DrainGoesOnInv
<1>4. ASSUME NEW t \in live, NEW result \in {"resolved", "rejected"}, RunEnds(t, result)
      PROVE  IInv'
  BY <1>4, RunEndsInv
<1>5. CASE UNCHANGED vars
  BY <1>5 DEF vars, IInv, TypeOK, IdsInv, CurrentInv, WaitInv, SlotInv, DistinctInv, OrderInv,
              RunInv, StateIffWork
<1> QED
  BY <1>1, <1>2, <1>3, <1>4, <1>5 DEF Next

(* The inductive invariant holds of every behaviour of the queue. *)
THEOREM Invariance == Spec => []IInv
BY InitInv, NextInv, PTL DEF Spec

----------------------------------------------------------------------------
(* The safety properties *)

(* Every variable of the queue keeps its shape, whatever callers, aborts   *)
(* and late runs do: the data of src/core/execution-queue.ts.              *)
THEOREM TypeCorrect == Spec => []TypeOK
<1>1. IInv => TypeOK
  BY DEF IInv
<1> QED
  BY <1>1, Invariance, PTL

(* What waits in pending is in the order the binary search needs, belongs  *)
(* to its user, is not running and still owes its caller an answer.        *)
THEOREM PendingIsSound == Spec => []PendingSound
<1>1. IInv => PendingSound
  BY DEF IInv, PendingSound, OrderInv, WaitInv, SlotInv
<1> QED
  BY <1>1, Invariance, PTL

(* The Map of the queue knows exactly the users with work, and no task     *)
(* waits behind an idle server: isIdle() is right.                         *)
THEOREM StatesAreWork == Spec => []StateIffWork
<1>1. IInv => StateIffWork
  BY DEF IInv
<1> QED
  BY <1>1, Invariance, PTL

(* At most one live run per user has not been told to stop.                *)
THEOREM OneRunGoesOn == Spec => []OneUnabortedRun
<1>1. IInv => OneUnabortedRun
  BY DEF IInv, OneUnabortedRun, RunInv
<1> QED
  BY <1>1, Invariance, PTL

----------------------------------------------------------------------------
(* The queue implements the abstract service *)

LEMMA InitImplements == Init => Service!SInit
BY DEF Init, Service!SInit, waitingTasks, Service!NoTask, NoTask

(* Under the invariant, what waits for a user are the elements of the list *)
(* of that user.                                                           *)
LEMMA WaitingIsPending ==
  ASSUME IInv, NEW u \in User
  PROVE  Service!Waiting(u) = {pending[u][i] : i \in 1 .. Len(pending[u])}
BY DEF IInv, WaitInv, SlotInv, Service!Waiting, waitingTasks

(* A task is submitted to a server at rest, and served at once. *)
LEMMA EnqueueStartsImplements ==
  ASSUME IInv, NEW u \in User, NEW w \in Weight, Enqueue(u, w), ~ Running(u)
  PROVE  Service!Submit(u, w)
PROOF
<1> DEFINE t == [id |-> seq + 1, user |-> u, weight |-> w]
<1>1. /\ pending[u] = <<>> /\ pending' = pending
      /\ current' = [current EXCEPT ![u] = t]
  BY EnqueueStartsInv
<1>2. Service!Waiting(u) = {}
  BY <1>1, WaitingIsPending
<1>3. waitingTasks' = waitingTasks
  BY <1>1 DEF waitingTasks
<1>4. t.id \in Nat /\ t.id <= t.id
  BY DEF IInv, TypeOK
<1> HIDE DEF t
<1>5. Service!Serve(u, Service!Waiting(u) \cup {t})
  BY <1>1, <1>2, <1>3, <1>4 DEF Service!Serve, Service!Precedes
<1> QED
  BY <1>5 DEF Service!Submit, Service!NoTask, NoTask, Enqueue, Running, t

(* A task is submitted to a busy server, and waits. *)
LEMMA EnqueueWaitsImplements ==
  ASSUME IInv, IInv', NEW u \in User, NEW w \in Weight, Enqueue(u, w), Running(u)
  PROVE  Service!Submit(u, w)
PROOF
<1> DEFINE t == [id |-> seq + 1, user |-> u, weight |-> w]
           q == pending[u]
<1>1. t \in Task /\ current' = current
  BY EnqueueWaits
<1>2. PICK k \in 0 .. Len(q) : pending' = [pending EXCEPT ![u] = Splice(q, k, t)]
  BY EnqueueWaits
<1>3. q \in Seq(Task)
  BY DEF IInv, TypeOK
<1> DEFINE r == Splice(q, k, t)
<1> HIDE DEF t, q
<1>4. Len(r) = Len(q) + 1
  BY <1>1, <1>3, SpliceElements
<1>5. \A n \in 1 .. Len(q) + 1 :
        r[n] = IF n <= k THEN q[n] ELSE IF n = k + 1 THEN t ELSE q[n - 1]
  BY <1>1, <1>3, SpliceElements
<1>6. \A v \in User : pending'[v] = IF v = u THEN r ELSE pending[v]
  BY <1>2 DEF IInv, TypeOK
<1> HIDE DEF r
<1>7. {r[n] : n \in 1 .. Len(r)} = {q[n] : n \in 1 .. Len(q)} \cup {t}
  <2>1. ASSUME NEW n \in 1 .. Len(r) PROVE r[n] = t \/ \E m \in 1 .. Len(q) : r[n] = q[m]
    <3>1. CASE n <= k
      BY <1>3, <1>4, <1>5, <3>1
    <3>2. CASE n > k + 1
      <4>1. n - 1 \in 1 .. Len(q) /\ r[n] = q[n - 1]
        BY <1>3, <1>4, <1>5, <3>2
      <4> QED
        BY <4>1
    <3>3. CASE n = k + 1
      BY <1>4, <1>5, <3>3
    <3> QED
      BY <1>3, <3>1, <3>2, <3>3
  <2>2. ASSUME NEW m \in 1 .. Len(q) PROVE \E n \in 1 .. Len(r) : r[n] = q[m]
    <3>1. CASE m <= k
      <4>1. m \in 1 .. Len(r) /\ r[m] = q[m]
        BY <1>3, <1>4, <1>5, <3>1
      <4> QED
        BY <4>1
    <3>2. CASE m > k
      <4>1. m + 1 \in 1 .. Len(r) /\ r[m + 1] = q[m]
        BY <1>3, <1>4, <1>5, <3>2
      <4> QED
        BY <4>1
    <3> QED
      BY <1>3, <3>1, <3>2
  <2>3. k + 1 \in 1 .. Len(r) /\ r[k + 1] = t
    BY <1>3, <1>4, <1>5
  <2>4. {r[n] : n \in 1 .. Len(r)} \subseteq {q[n] : n \in 1 .. Len(q)} \cup {t}
    BY <2>1
  <2>5. {q[n] : n \in 1 .. Len(q)} \subseteq {r[n] : n \in 1 .. Len(r)}
    BY <2>2
  <2>6. t \in {r[n] : n \in 1 .. Len(r)}
    BY <2>3
  <2> QED
    BY <2>4, <2>5, <2>6
<1>8. waitingTasks' = waitingTasks \cup {t}
  <2> DEFINE E(p, v) == {p[v][i] : i \in 1 .. Len(p[v])}
  <2>1. \A v \in User : E(pending', v) = IF v = u THEN E(pending, u) \cup {t} ELSE E(pending, v)
    BY <1>6, <1>7 DEF q
  <2>2. waitingTasks = UNION {E(pending, v) : v \in User}
    BY DEF waitingTasks
  <2>3. waitingTasks' = UNION {E(pending', v) : v \in User}
    BY DEF waitingTasks
  <2> HIDE DEF E
  <2> QED
    BY <2>1, <2>2, <2>3
<1> QED
  BY <1>1, <1>8 DEF Service!Submit, Service!NoTask, NoTask, Enqueue, Running, t

(* /abort turns away what waits, and leaves the server its task. *)
LEMMA CancelImplements ==
  ASSUME IInv, NEW u \in User, Cancel(u)
  PROVE  Service!TurnAway(u)
PROOF
<1> DEFINE E(p, v) == {p[v][i] : i \in 1 .. Len(p[v])}
<1>1. \A v \in User : pending'[v] = IF v = u THEN <<>> ELSE pending[v]
  BY DEF IInv, TypeOK, Cancel, PendingAfterCancel
<1>2. \A v \in User : E(pending', v) = IF v = u THEN {} ELSE E(pending, v)
  BY <1>1
<1>3. /\ waitingTasks = UNION {E(pending, v) : v \in User}
      /\ waitingTasks' = UNION {E(pending', v) : v \in User}
  BY DEF waitingTasks
<1>4. \A v \in User : E(pending, v) = Service!Waiting(v)
  BY WaitingIsPending
<1> HIDE DEF E
<1>5. waitingTasks' = waitingTasks \ Service!Waiting(u)
  <2>1. \A v \in User : v # u => Service!Waiting(v) \cap Service!Waiting(u) = {}
    BY DEF Service!Waiting
  <2> QED
    BY <1>2, <1>3, <1>4, <2>1
<1>6. \A i \in 1 .. MaxTask : (\E n \in 1 .. Len(pending[u]) : pending[u][n].id = i)
                               <=> (\E t \in Service!Waiting(u) : t.id = i)
  BY <1>4 DEF E
<1>7. promise' = [i \in 1 .. MaxTask |->
                    IF \E t \in Service!Waiting(u) : t.id = i THEN "rejected" ELSE promise[i]]
  BY <1>6 DEF Cancel
<1> QED
  BY <1>5, <1>7 DEF Service!TurnAway, Cancel

(* The server is given the task of best priority that waits, or rests. *)
LEMMA DrainImplements ==
  ASSUME IInv, IInv', NEW u \in User, DrainResumes(u)
  PROVE  Service!Complete(u)
PROOF
<1> DEFINE E(p, v) == {p[v][i] : i \in 1 .. Len(p[v])}
<1>1. current[u] # NoTask
  BY DEF IInv, RunInv, DrainResumes
<1>2. /\ waitingTasks = UNION {E(pending, v) : v \in User}
      /\ waitingTasks' = UNION {E(pending', v) : v \in User}
  BY DEF waitingTasks
<1>3. \A v \in User : E(pending, v) = Service!Waiting(v)
  BY WaitingIsPending
<1>4. Service!Serve(u, Service!Waiting(u))
  <2>1. CASE pending[u] = <<>>
    <3>1. ~ StartHead(u, pending[u])
      BY <2>1 DEF StartHead
    <3>2. current' = [current EXCEPT ![u] = NoTask] /\ pending' = pending
      BY <3>1 DEF DrainResumes
    <3>3. Service!Waiting(u) = {}
      BY <1>3, <2>1
    <3>4. waitingTasks' = waitingTasks
      BY <3>2 DEF waitingTasks
    <3> QED
      BY <3>2, <3>3, <3>4 DEF Service!Serve, Service!NoTask, NoTask
  <2>2. CASE pending[u] # <<>>
    <3> DEFINE q == pending[u]
               h == Head(q)
    <3>1. q \in Seq(Task) /\ StartHead(u, q) /\ Ordered(q)
      BY <2>2 DEF IInv, TypeOK, OrderInv, DrainResumes
    <3>2. /\ h \in Task /\ h = q[1] /\ Len(q) \in Nat \ {0}
          /\ Len(Tail(q)) = Len(q) - 1
          /\ \A n \in 1 .. Len(q) - 1 : Tail(q)[n] = q[n + 1]
      BY <2>2, <3>1, TailElements
    <3>3. \A v \in User : pending'[v] = IF v = u THEN Tail(q) ELSE pending[v]
      BY <3>1 DEF StartHead, IInv, TypeOK
    <3>4. current' = [current EXCEPT ![u] = h]
      BY <3>1 DEF StartHead
    <3>5. \A i, j \in 1 .. Len(q) : q[i].id = q[j].id => i = j
      BY DEF IInv, DistinctInv
    <3> HIDE DEF q, h
    <3>6. {Tail(q)[n] : n \in 1 .. Len(Tail(q))} = {q[n] : n \in 1 .. Len(q)} \ {h}
      <4>1. ASSUME NEW n \in 1 .. Len(Tail(q))
            PROVE  Tail(q)[n] \in {q[m] : m \in 1 .. Len(q)} \ {h}
        <5>1. n + 1 \in 1 .. Len(q) /\ Tail(q)[n] = q[n + 1] /\ 1 \in 1 .. Len(q) /\ n + 1 # 1
          BY <3>2
        <5> QED
          BY <3>2, <3>5, <5>1
      <4>2. ASSUME NEW m \in 1 .. Len(q), q[m] # h
            PROVE  \E n \in 1 .. Len(Tail(q)) : Tail(q)[n] = q[m]
        <5>1. m # 1
          BY <3>2, <4>2
        <5>2. m - 1 \in 1 .. Len(Tail(q)) /\ Tail(q)[m - 1] = q[m]
          BY <3>2, <5>1
        <5> QED
          BY <5>2
      <4> QED
        BY <4>1, <4>2
    <3>7. Service!Waiting(u) = {q[n] : n \in 1 .. Len(q)} /\ h \in Service!Waiting(u)
      <4>1. 1 \in 1 .. Len(q)
        BY <3>2
      <4> QED
        BY <1>3, <3>2, <4>1 DEF q
    <3>8. \A o \in Service!Waiting(u) : Service!Precedes(h, o)
      <4> SUFFICES ASSUME NEW n \in 1 .. Len(q) PROVE Service!Precedes(h, q[n])
        BY <3>7
      <4>1. CASE n = 1
        BY <3>2, <4>1, TaskFields DEF Service!Precedes
      <4>2. CASE n # 1
        <5>1. 1 \in 1 .. Len(q) /\ 1 < n
          BY <3>2, <4>2
        <5>2. StaysAhead(q[1], q[n])
          BY <3>1, <5>1 DEF Ordered, q
        <5> QED
          BY <3>2, <5>2 DEF StaysAhead, Service!Precedes
      <4> QED
        BY <4>1, <4>2
    <3>9. \A v \in User : E(pending', v) = IF v = u THEN E(pending, u) \ {h} ELSE E(pending, v)
      BY <3>3, <3>6 DEF q
    <3> HIDE DEF E
    <3>10. \A v \in User : v # u => Service!Waiting(v) \cap Service!Waiting(u) = {}
      BY DEF Service!Waiting
    <3>11. waitingTasks' = (waitingTasks \ Service!Waiting(u)) \cup (Service!Waiting(u) \ {h})
      BY <1>2, <1>3, <3>9, <3>10
    <3> QED
      BY <3>4, <3>7, <3>8, <3>11 DEF Service!Serve
  <2> QED
    BY <2>1, <2>2
<1> HIDE DEF E
<1>5. /\ race[u] \in {"resolved", "rejected"} /\ UNCHANGED seq
      /\ promise' = [promise EXCEPT ![current[u].id] = race[u]]
  BY DEF DrainResumes
<1> QED
  BY <1>1, <1>4, <1>5 DEF Service!Complete, Service!NoTask, NoTask

(* Every step of the queue is a step of the service, or changes nothing of *)
(* what the service shows.                                                 *)
LEMMA NextImplements ==
  IInv /\ IInv' /\ [Next]_vars => [Service!SNext]_(Service!svars)
PROOF
<1> SUFFICES ASSUME IInv, IInv', [Next]_vars PROVE [Service!SNext]_(Service!svars)
  OBVIOUS
<1>1. ASSUME NEW u \in User, NEW w \in Weight, Enqueue(u, w) PROVE Service!SNext
  <2>1. Service!Submit(u, w)
    BY <1>1, EnqueueStartsImplements, EnqueueWaitsImplements
  <2> QED
    BY <2>1 DEF Service!SNext, Service!Weight, Weight
<1>2. ASSUME NEW u \in User, Cancel(u) PROVE Service!SNext
  BY <1>2, CancelImplements DEF Service!SNext
<1>3. ASSUME NEW u \in User, DrainResumes(u) PROVE Service!SNext
  BY <1>3, DrainImplements DEF Service!SNext
<1>4. ASSUME NEW t \in live, NEW result \in {"resolved", "rejected"}, RunEnds(t, result)
      PROVE  UNCHANGED Service!svars
  BY <1>4 DEF RunEnds, Service!svars, waitingTasks
<1>5. CASE UNCHANGED vars
  BY <1>5 DEF vars, Service!svars, waitingTasks
<1> QED
  BY <1>1, <1>2, <1>3, <1>4, <1>5 DEF Next

(* The queue implements the service of PriorityService: it is              *)
(* work-conserving, serves in priority order and in order of arrival among *)
(* equals, loses nothing and serves nothing twice.                         *)
THEOREM QueueImplementsService == Spec => ImplementsService
<1>1. Spec => []IInv
  BY Invariance
<1> QED
  BY <1>1, InitImplements, NextImplements, PTL DEF Spec, ImplementsService, Service!Spec

----------------------------------------------------------------------------
(* No answer is forgotten *)

(* Whoever still waits for an answer has a task that is served or waits. *)
OpenInv ==
  \A i \in 1 .. MaxTask : promise[i] = "open" =>
    \/ \E u \in User : current[u].id = i
    \/ \E t \in waitingTasks : t.id = i

(* The steps of the service keep it so: what it takes from the bag it      *)
(* serves or turns away.                                                   *)
LEMMA ServiceKeepsOpen ==
  ASSUME IInv, OpenInv, Service!SNext
  PROVE  OpenInv'
PROOF
<1> SUFFICES ASSUME NEW i \in 1 .. MaxTask, promise'[i] = "open"
             PROVE  \/ \E u \in User : current'[u].id = i
                    \/ \E t \in waitingTasks' : t.id = i
  BY DEF OpenInv
<1> USE DEF Service!NoTask, NoTask
<1>1. /\ promise \in [1 .. MaxTask -> {"none", "open", "resolved", "rejected"}]
      /\ current \in [User -> Task \cup {NoTask}]
      /\ seq \in Nat
  BY MaxTaskAssumption DEF IInv, TypeOK
<1>2. ASSUME NEW u \in User, NEW w \in Weight, Service!Submit(u, w)
      PROVE  \/ \E v \in User : current'[v].id = i
             \/ \E t \in waitingTasks' : t.id = i
  <2> DEFINE t == [id |-> seq + 1, user |-> u, weight |-> w]
  <2>0. t.id = seq + 1
    OBVIOUS
  <2>1. CASE current[u] # NoTask
    <3>1. waitingTasks' = waitingTasks \cup {t} /\ current' = current
      BY <1>2, <2>1 DEF Service!Submit
    <3> HIDE DEF t
    <3>2. CASE i = seq + 1
      BY <2>0, <3>1, <3>2
    <3>3. CASE i # seq + 1
      <4>1. promise[i] = "open"
        BY <1>1, <1>2, <3>3 DEF Service!Submit
      <4> QED
        BY <3>1, <4>1 DEF OpenInv
    <3> QED
      BY <3>2, <3>3
  <2>2. CASE current[u] = NoTask
    <3>1. Service!Serve(u, Service!Waiting(u) \cup {t})
      BY <1>2, <2>2 DEF Service!Submit
    <3>2. PICK s \in Service!Waiting(u) \cup {t} :
            /\ current' = [current EXCEPT ![u] = s]
            /\ waitingTasks' = (waitingTasks \ Service!Waiting(u))
                                 \cup ((Service!Waiting(u) \cup {t}) \ {s})
      BY <3>1 DEF Service!Serve
    <3>3. current'[u] = s /\ \A v \in User \ {u} : current'[v] = current[v]
      BY <1>1, <3>2
    <3> HIDE DEF t
    <3>4. CASE i = seq + 1
      BY <2>0, <3>2, <3>3, <3>4
    <3>5. CASE i # seq + 1
      <4>1. promise[i] = "open"
        BY <1>1, <1>2, <3>5 DEF Service!Submit
      <4>2. CASE \E v \in User : current[v].id = i
        BY <2>2, <3>3, <4>2
      <4>3. CASE \E x \in waitingTasks : x.id = i
        BY <3>2, <3>3, <4>3
      <4> QED
        BY <4>1, <4>2, <4>3 DEF OpenInv
    <3> QED
      BY <3>4, <3>5
  <2> QED
    BY <2>1, <2>2
<1>3. ASSUME NEW u \in User, Service!Complete(u)
      PROVE  \/ \E v \in User : current'[v].id = i
             \/ \E t \in waitingTasks' : t.id = i
  <2>1. promise[i] = "open" /\ i # current[u].id
    BY <1>1, <1>3 DEF Service!Complete
  <2>2. \A v \in User \ {u} : current'[v] = current[v]
    BY <1>1, <1>3 DEF Service!Complete, Service!Serve
  <2>3. CASE \E v \in User : current[v].id = i
    BY <2>1, <2>2, <2>3
  <2>4. ASSUME NEW x \in waitingTasks, x.id = i
        PROVE  \/ \E v \in User : current'[v].id = i
               \/ \E t \in waitingTasks' : t.id = i
    <3>1. CASE Service!Waiting(u) = {}
      <4>1. waitingTasks' = waitingTasks \ Service!Waiting(u)
        BY <1>3, <3>1 DEF Service!Complete, Service!Serve
      <4> QED
        BY <2>4, <3>1, <4>1
    <3>2. CASE Service!Waiting(u) # {}
      <4>1. PICK s \in Service!Waiting(u) :
              /\ current' = [current EXCEPT ![u] = s]
              /\ waitingTasks' = (waitingTasks \ Service!Waiting(u))
                                   \cup (Service!Waiting(u) \ {s})
        BY <1>3, <3>2 DEF Service!Complete, Service!Serve
      <4>2. current'[u] = s
        BY <1>1, <4>1
      <4> QED
        BY <2>4, <4>1, <4>2
    <3> QED
      BY <3>1, <3>2
  <2> QED
    BY <2>1, <2>3, <2>4 DEF OpenInv
<1>4. ASSUME NEW u \in User, Service!TurnAway(u)
      PROVE  \/ \E v \in User : current'[v].id = i
             \/ \E t \in waitingTasks' : t.id = i
  <2>1. promise[i] = "open" /\ ~ \E t \in Service!Waiting(u) : t.id = i
    BY <1>4 DEF Service!TurnAway
  <2> QED
    BY <1>4, <2>1 DEF OpenInv, Service!TurnAway
<1> QED
  BY <1>2, <1>3, <1>4 DEF Service!SNext, Service!Weight, Weight

(* When isIdle() is true nobody waits for an answer. *)
THEOREM IdleMeansAnswered == Spec => []IdleIsAnswered
<1>1. Init => OpenInv
  BY DEF Init, OpenInv
<1>2. IInv /\ IInv' /\ OpenInv /\ [Next]_vars => OpenInv'
  <2> SUFFICES ASSUME IInv, IInv', OpenInv, [Next]_vars PROVE OpenInv'
    OBVIOUS
  <2>1. [Service!SNext]_(Service!svars)
    BY NextImplements
  <2>2. CASE UNCHANGED Service!svars
    BY <2>2 DEF Service!svars, OpenInv
  <2> QED
    BY <2>1, <2>2, ServiceKeepsOpen
<1>3. IInv /\ OpenInv => IdleIsAnswered
  <2> SUFFICES ASSUME IInv, OpenInv, IsIdle, NEW i \in 1 .. MaxTask
               PROVE  promise[i] # "open"
    BY DEF IdleIsAnswered
  <2>1. \A u \in User : current[u] = NoTask /\ pending[u] = <<>>
    BY DEF IInv, StateIffWork, IsIdle
  <2>2. NoTask.id # i
    BY MaxTaskAssumption DEF NoTask
  <2>3. waitingTasks = {}
    BY <2>1 DEF waitingTasks
  <2> QED
    BY <2>1, <2>2, <2>3 DEF OpenInv
<1>4. Spec => []IInv
  BY Invariance
<1> QED
  BY <1>1, <1>2, <1>3, <1>4, PTL DEF Spec

----------------------------------------------------------------------------
(* The steps of the queue, as those who ask it see them *)

(* The tasks that exist, and those of them that nobody has told to stop.   *)
Pool   == waitingTasks \cup live
Wanted == waitingTasks \cup {t \in live : t.id \notin aborted}

(* What the queue promises to who asks it: a wanted task owes an answer,   *)
(* and a task that was answered well is over.                              *)
PoolInv ==
  /\ \A t \in Pool : t \in Task /\ t.id \in 1 .. seq
  /\ \A s, t \in Pool : s.id = t.id => s = t
  /\ \A t \in Wanted : promise[t.id] = "open"
  /\ \A t \in Pool : promise[t.id] # "resolved"
  /\ \A u \in User : race[u] = "resolved" => \A t \in Pool : t.id # current[u].id

(* What waits is not alive, and what is alive and wanted is served. *)
LEMMA WaitingSound ==
  ASSUME IInv
  PROVE  /\ \A t \in waitingTasks :
              /\ t \in Task /\ t.id \in 1 .. seq /\ promise[t.id] = "open"
              /\ t.id \notin aborted
              /\ \A s \in live : s.id # t.id
              /\ \A v \in User : current[v].id # t.id
         /\ \A s, t \in waitingTasks : s.id = t.id => s = t
PROOF
<1>1. ASSUME NEW t \in waitingTasks
      PROVE  \E u \in User : \E i \in 1 .. Len(pending[u]) : pending[u][i] = t
  BY DEF waitingTasks
<1>2. ASSUME NEW t \in waitingTasks
      PROVE  /\ t \in Task /\ t.id \in 1 .. seq /\ promise[t.id] = "open"
             /\ t.id \notin aborted
             /\ \A s \in live : s.id # t.id
             /\ \A v \in User : current[v].id # t.id
  <2>1. PICK u \in User : \E i \in 1 .. Len(pending[u]) : pending[u][i] = t
    BY <1>1
  <2>2. PICK i \in 1 .. Len(pending[u]) : pending[u][i] = t
    BY <2>1
  <2>3. pending[u] \in Seq(Task) /\ SlotInv(u, t)
    BY <2>2 DEF IInv, TypeOK, WaitInv
  <2>4. t \in Task
    BY <2>2, <2>3
  <2> QED
    BY <2>3, <2>4 DEF SlotInv
<1>3. ASSUME NEW s \in waitingTasks, NEW t \in waitingTasks, s.id = t.id
      PROVE  s = t
  <2>1. PICK u \in User : \E i \in 1 .. Len(pending[u]) : pending[u][i] = s
    BY <1>1
  <2>2. PICK i \in 1 .. Len(pending[u]) : pending[u][i] = s
    BY <2>1
  <2>3. PICK v \in User : \E j \in 1 .. Len(pending[v]) : pending[v][j] = t
    BY <1>1
  <2>4. PICK j \in 1 .. Len(pending[v]) : pending[v][j] = t
    BY <2>3
  <2>5. u = v /\ i = j
    BY <1>3, <2>2, <2>4 DEF IInv, DistinctInv
  <2> QED
    BY <2>2, <2>4, <2>5
<1> QED
  BY <1>2, <1>3

(* A new task is in the queue and owed an answer; it starts, or it waits. *)
LEMMA EnqueueGrows ==
  ASSUME IInv, PoolInv, NEW u \in User, NEW w \in Weight, Enqueue(u, w)
  PROVE  /\ IInv' /\ PoolInv'
         /\ seq' = seq + 1 /\ seq \in Nat /\ seq' \in 1 .. MaxTask
         /\ aborted' = aborted
         /\ \E t \in Task : /\ t.id = seq + 1 /\ t.user = u
                            /\ Pool' = Pool \cup {t} /\ Wanted' = Wanted \cup {t}
                            /\ live \subseteq live' /\ live' \subseteq live \cup {t}
                            /\ waitingTasks' \subseteq waitingTasks \cup {t}
PROOF
<1> DEFINE t == [id |-> seq + 1, user |-> u, weight |-> w]
<1>1. /\ seq < MaxTask /\ seq' = seq + 1 /\ seq \in Nat /\ seq' \in 1 .. MaxTask
      /\ promise' = [promise EXCEPT ![seq + 1] = "open"] /\ aborted' = aborted
  BY MaxTaskAssumption DEF Enqueue, IInv, TypeOK
<1>2. t \in Task /\ t.id = seq + 1 /\ t.user = u
  BY <1>1 DEF Task
<1>3. IInv'
  BY EnqueueStartsInv, EnqueueWaitsInv
<1> HIDE DEF t
<1>4. /\ Pool' = Pool \cup {t} /\ Wanted' = Wanted \cup {t} /\ live' \subseteq live \cup {t}
      /\ live \subseteq live' /\ waitingTasks' \subseteq waitingTasks \cup {t}
      /\ \A v \in User : (race'[v] = race[v] /\ current'[v] = current[v]) \/ race'[v] = "open"
  <2>1. CASE ~ Running(u)
    <3>1. waitingTasks' = waitingTasks /\ current' = [current EXCEPT ![u] = t]
      BY <2>1, EnqueueStartsInv DEF waitingTasks, t
    <3>2. PICK q : StartHead(u, q)
      BY <2>1 DEF Enqueue
    <3>3. current'[u] = Head(q) /\ current'[u] = t /\ live' = live \cup {Head(q)}
      BY <3>1, <3>2 DEF StartHead, IInv, TypeOK
    <3>4. seq + 1 \notin aborted
      BY <1>1 DEF IInv, IdsInv
    <3>5. \A v \in User : (race'[v] = race[v] /\ current'[v] = current[v]) \/ race'[v] = "open"
      BY <3>2 DEF StartHead, IInv, TypeOK
    <3> QED
      BY <1>1, <1>2, <3>1, <3>3, <3>4, <3>5 DEF Pool, Wanted
  <2>2. CASE Running(u)
    <3>1. live' = live /\ race' = race /\ current' = current
      BY <2>2, EnqueueWaits
    <3>2. waitingTasks' = waitingTasks \cup {t}
      BY <1>3, <2>2, EnqueueWaitsImplements DEF Service!Submit, Service!NoTask, NoTask, Running, t
    <3> QED
      BY <1>1, <3>1, <3>2 DEF Pool, Wanted
  <2> QED
    BY <2>1, <2>2
<1>5. \A s \in Pool : s.id \in 1 .. seq /\ s.id # seq + 1
  BY <1>1 DEF PoolInv
<1>6. \A i \in 1 .. MaxTask : promise'[i] = IF i = seq + 1 THEN "open" ELSE promise[i]
  BY <1>1 DEF IInv, TypeOK
<1>7. \A s \in Pool : s \in Task /\ s.id \in 1 .. MaxTask /\ promise'[s.id] = promise[s.id]
  BY MaxTaskAssumption, <1>1, <1>5, <1>6 DEF PoolInv
<1>8. promise'[t.id] = "open"
  BY <1>1, <1>2, <1>6
<1>9. \A v \in User : current[v].id # seq + 1 \/ current[v] = NoTask
  BY <1>1 DEF IInv, IdsInv
<1>10. \A v \in User : race[v] = "resolved" => current[v] # NoTask
  BY DEF IInv, RunInv
<1>11. PoolInv'
  <2>1. \A s \in Pool' : s \in Task /\ s.id \in 1 .. seq'
    BY <1>1, <1>2, <1>4, <1>5, <1>7
  <2>2. \A r, s \in Pool' : r.id = s.id => r = s
    BY <1>2, <1>4, <1>5 DEF PoolInv
  <2>3. \A s \in Wanted' : promise'[s.id] = "open"
    <3>1. Wanted \subseteq Pool
      BY DEF Wanted, Pool
    <3> QED
      BY <1>4, <1>7, <1>8, <3>1 DEF PoolInv
  <2>4. \A s \in Pool' : promise'[s.id] # "resolved"
    BY <1>4, <1>7, <1>8 DEF PoolInv
  <2>5. ASSUME NEW v \in User, race'[v] = "resolved", NEW s \in Pool'
        PROVE  s.id # current'[v].id
    <3>1. race[v] = "resolved" /\ current'[v] = current[v]
      BY <1>4, <2>5
    <3> QED
      BY <1>2, <1>4, <1>9, <1>10, <2>5, <3>1 DEF PoolInv
  <2> QED
    BY <2>1, <2>2, <2>3, <2>4, <2>5 DEF PoolInv
<1> QED
  BY <1>1, <1>2, <1>3, <1>4, <1>11

(* The queue lets tasks go and takes none. *)
Shrinks ==
  /\ IInv' /\ PoolInv' /\ seq' = seq
  /\ Pool' \subseteq Pool /\ Wanted' \subseteq Wanted /\ waitingTasks' \subseteq waitingTasks

(* What an abort leaves is not owed an answer unless it is alive. *)
LEMMA CancelShrinks ==
  ASSUME IInv, PoolInv, NEW u \in User, Cancel(u)
  PROVE  Shrinks
PROOF
<1>1. IInv'
  BY CancelInv
<1>2. /\ waitingTasks' = waitingTasks \ Service!Waiting(u)
      /\ promise' = [i \in 1 .. MaxTask |->
                       IF \E t \in Service!Waiting(u) : t.id = i THEN "rejected" ELSE promise[i]]
      /\ seq' = seq /\ current' = current
  BY CancelImplements DEF Service!TurnAway
<1>3. live' = live /\ aborted \subseteq aborted' /\ race' = [race EXCEPT ![u] = RaceAfterAbort(u)]
  BY DEF Cancel
<1>4. Pool' \subseteq Pool /\ Wanted' \subseteq Wanted
  BY <1>2, <1>3 DEF Pool, Wanted
<1>5. \A t \in Pool : t.id \in 1 .. MaxTask
  BY TaskFields DEF PoolInv
<1>6. \A t \in Wanted' : promise'[t.id] = "open"
  <2> SUFFICES ASSUME NEW t \in Wanted', NEW s \in Service!Waiting(u), s.id = t.id PROVE FALSE
    BY <1>2, <1>4, <1>5 DEF PoolInv, Wanted, Pool
  <2>1. s \in waitingTasks /\ s \notin waitingTasks'
    BY <1>2 DEF Service!Waiting
  <2>2. s = t
    BY <1>4, <2>1 DEF PoolInv, Wanted, Pool
  <2>3. t \in live
    BY <1>3, <2>1, <2>2 DEF Wanted
  <2> QED
    BY <2>1, <2>2, <2>3, WaitingSound
<1>7. \A t \in Pool' : promise'[t.id] # "resolved"
  BY <1>2, <1>4, <1>5 DEF PoolInv
<1>8. \A v \in User : race'[v] = "resolved" => race[v] = "resolved"
  BY <1>3 DEF RaceAfterAbort, IInv, TypeOK
<1>9. PoolInv'
  BY <1>2, <1>4, <1>6, <1>7, <1>8 DEF PoolInv
<1> QED
  BY <1>1, <1>2, <1>4, <1>9 DEF Shrinks

(* At most one task starts when drain resumes, one that waited. *)
LEMMA DrainStarts ==
  ASSUME IInv, NEW u \in User, DrainResumes(u)
  PROVE  /\ live \subseteq live' /\ live' \ live \subseteq waitingTasks
         /\ waitingTasks' \subseteq waitingTasks /\ aborted' = aborted
         /\ \A s, t \in live' \ live : s = t
PROOF
<1>1. IInv'
  BY DrainRestsInv, DrainGoesOnInv
<1>2. waitingTasks' \subseteq waitingTasks
  <2>1. Service!Complete(u)
    BY <1>1, DrainImplements
  <2> QED
    BY <2>1 DEF Service!Complete, Service!Serve, Service!Waiting
<1>3. live' = live \/ \E h \in waitingTasks : live' = live \cup {h}
  <2>1. CASE pending[u] = <<>>
    <3>1. live' = live
      BY <2>1 DEF DrainResumes, StartHead
    <3> QED
      BY <3>1
  <2>2. CASE pending[u] # <<>>
    <3>1. /\ pending[u] \in Seq(Task) /\ Head(pending[u]) = pending[u][1]
          /\ 1 \in 1 .. Len(pending[u])
      BY <2>2, TailElements DEF IInv, TypeOK
    <3>2. Head(pending[u]) \in waitingTasks
      BY <3>1 DEF waitingTasks
    <3> QED
      BY <2>2, <3>2 DEF DrainResumes, StartHead
  <2> QED
    BY <2>1, <2>2
<1> QED
  BY <1>2, <1>3 DEF DrainResumes

(* The task that is answered is not wanted; the next one was. *)
LEMMA DrainShrinks ==
  ASSUME IInv, PoolInv, NEW u \in User, DrainResumes(u)
  PROVE  Shrinks
PROOF
<1>1. IInv'
  BY DrainRestsInv, DrainGoesOnInv
<1>2. /\ race[u] \in {"resolved", "rejected"} /\ aborted' = aborted /\ seq' = seq
      /\ promise' = [promise EXCEPT ![current[u].id] = race[u]]
      /\ current[u] # NoTask
  BY DEF DrainResumes, IInv, RunInv
<1>3. current[u].id \in 1 .. seq /\ \A v \in User \ {u} : current[v].id # current[u].id
  BY <1>2 DEF IInv, IdsInv, CurrentInv
<1>4. /\ Pool' \subseteq Pool /\ Wanted' \subseteq Wanted
      /\ \A v \in User : v # u => race'[v] = race[v] /\ current'[v] = current[v]
      /\ race'[u] # "resolved"
  <2>1. CASE pending[u] = <<>>
    <3>1. /\ pending' = pending /\ live' = live
          /\ race' = [race EXCEPT ![u] = "none"] /\ current' = [current EXCEPT ![u] = NoTask]
      BY <2>1 DEF DrainResumes, StartHead
    <3>2. waitingTasks' = waitingTasks
      BY <3>1 DEF waitingTasks
    <3> QED
      BY <1>2, <3>1, <3>2 DEF Pool, Wanted, IInv, TypeOK
  <2>2. CASE pending[u] # <<>>
    <3> DEFINE h == Head(pending[u])
    <3>1. /\ current' = [current EXCEPT ![u] = h] /\ race' = [race EXCEPT ![u] = "open"]
          /\ live' = live \cup {h}
      BY <2>2 DEF DrainResumes, StartHead
    <3>2. h \in waitingTasks
      <4>1. pending[u] \in Seq(Task) /\ h = pending[u][1] /\ 1 \in 1 .. Len(pending[u])
        BY <2>2, TailElements DEF IInv, TypeOK
      <4> QED
        BY <4>1 DEF waitingTasks
    <3>3. waitingTasks' \subseteq waitingTasks
      <4>1. Service!Complete(u)
        BY <1>1, DrainImplements
      <4> QED
        BY <4>1 DEF Service!Complete, Service!Serve, Service!Waiting
    <3> HIDE DEF h
    <3> QED
      BY <1>2, <3>1, <3>2, <3>3 DEF Pool, Wanted, IInv, TypeOK
  <2> QED
    BY <2>1, <2>2
<1>5. \A t \in Pool : t.id \in 1 .. MaxTask
  BY TaskFields DEF PoolInv
<1>6. \A i \in 1 .. MaxTask : promise'[i] = IF i = current[u].id THEN race[u] ELSE promise[i]
  BY <1>2 DEF IInv, TypeOK
<1>7. \A t \in Wanted : t.id # current[u].id
  <2>1. \A t \in waitingTasks : t.id # current[u].id
    BY WaitingSound
  <2>2. ASSUME NEW t \in live, t.id \notin aborted
        PROVE  t.id # current[u].id
    <3>1. current[t.user] = t /\ race[t.user] = "open" /\ t.user \in User
      BY <2>2, TaskFields DEF IInv, RunInv, TypeOK
    <3>2. t.user # u
      BY <1>2, <3>1
    <3> QED
      BY <1>3, <3>1, <3>2
  <2> QED
    BY <2>1, <2>2 DEF Wanted
<1>8. \A t \in Wanted' : promise'[t.id] = "open"
  BY <1>4, <1>5, <1>6, <1>7 DEF PoolInv, Wanted, Pool
<1>9. \A t \in Pool' : promise'[t.id] # "resolved"
  BY <1>4, <1>5, <1>6 DEF PoolInv
<1>10. \A v \in User : race'[v] = "resolved" => \A t \in Pool' : t.id # current'[v].id
  BY <1>4 DEF PoolInv
<1>11. PoolInv'
  BY <1>2, <1>4, <1>8, <1>9, <1>10 DEF PoolInv
<1> QED
  BY <1>1, <1>2, <1>4, <1>11, DrainStarts DEF Shrinks

(* The end of a run is the end of its task. *)
LEMMA RunEndsShrinks ==
  ASSUME IInv, PoolInv, NEW t \in live, NEW result \in {"resolved", "rejected"},
         RunEnds(t, result)
  PROVE  Shrinks
PROOF
<1>1. IInv'
  BY RunEndsInv
<1>2. /\ live' = live \ {t} /\ waitingTasks' = waitingTasks
      /\ UNCHANGED <<seq, current, promise, aborted>>
      /\ race' = IF current[t.user] = t /\ race[t.user] = "open"
                 THEN [race EXCEPT ![t.user] = result] ELSE race
  BY DEF RunEnds, waitingTasks
<1>3. Pool' \subseteq Pool /\ Wanted' \subseteq Wanted
  BY <1>2 DEF Pool, Wanted
<1>4. \A s \in Pool' : s.id # t.id
  BY <1>2, WaitingSound DEF Pool, PoolInv
<1>5. \A v \in User : race'[v] = "resolved" => race[v] = "resolved" \/ current[v] = t
  BY <1>2 DEF IInv, TypeOK
<1>6. \A v \in User : race'[v] = "resolved" => \A s \in Pool' : s.id # current'[v].id
  BY <1>2, <1>3, <1>4, <1>5 DEF PoolInv
<1>7. PoolInv'
  BY <1>2, <1>3, <1>6 DEF PoolInv
<1> QED
  BY <1>1, <1>2, <1>3, <1>7 DEF Shrinks

(* A step that leaves the queue alone. *)
LEMMA PoolUnchanged ==
  ASSUME UNCHANGED vars, IInv, PoolInv
  PROVE  /\ IInv' /\ PoolInv' /\ Pool' = Pool /\ Wanted' = Wanted
         /\ waitingTasks' = waitingTasks
PROOF
<1>1. Pool' = Pool /\ Wanted' = Wanted /\ waitingTasks' = waitingTasks
  BY DEF vars, Pool, Wanted, waitingTasks
<1>2. IInv'
  BY NextInv
<1>3. PoolInv'
  BY <1>1 DEF PoolInv, vars
<1> QED
  BY <1>1, <1>2, <1>3

(* The queue after a restart: nothing is waiting, alive or aborted.        *)
LEMMA EmptyQueueInv ==
  ASSUME IInv, UNCHANGED <<seq, promise>>,
         states' = {}, live' = {}, aborted' = {},
         pending' = [u \in User |-> <<>>],
         current' = [u \in User |-> NoTask],
         race' = [u \in User |-> "none"]
  PROVE  IInv' /\ Pool' = {} /\ Wanted' = {} /\ waitingTasks' = {} /\ PoolInv'
PROOF
<1>1. TypeOK'
  BY DEF IInv, TypeOK
<1>2. NoTask \notin Task
  BY NoTaskIsNoTask
<1>3. IdsInv' /\ CurrentInv' /\ RunInv' /\ StateIffWork'
  BY DEF IdsInv, CurrentInv, RunInv, StateIffWork
<1>4. WaitInv' /\ DistinctInv' /\ OrderInv'
  BY DEF WaitInv, DistinctInv, OrderInv, Ordered
<1>5. Pool' = {} /\ Wanted' = {} /\ waitingTasks' = {}
  BY DEF Pool, Wanted, waitingTasks
<1>6. PoolInv'
  BY <1>5 DEF PoolInv
<1> QED
  BY <1>1, <1>3, <1>4, <1>5, <1>6 DEF IInv
=============================================================================
