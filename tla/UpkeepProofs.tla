----------------------------- MODULE UpkeepProofs -----------------------------
(*****************************************************************************)
(* Proofs about what the services do beside their messages: the retention    *)
(* of opencode's sessions (SessionRetention), going down (Shutdown), and     *)
(* the check of the model (ModelHealth).                                     *)
(*****************************************************************************)
EXTENDS SessionRetention, Shutdown, ModelHealth, SequenceTheorems, TLAPS

----------------------------------------------------------------------------
(*****************************************************************************)
(* SessionRetention, for any number of users and sessions, any batch limit   *)
(* and any number of faults.  Why it spares what is in use: the file tells   *)
(* all bindings while no write of it was lost; a session that a turn runs    *)
(* in, or that a turn has just bound, is not an old one; so what the round   *)
(* selects is bound to nobody, and nobody can get back to it.                *)
(*****************************************************************************)

(* What the variables of the chats and of the database may hold. *)
ShapeInv ==
  /\ opened \in Nat
  /\ {bound, turn, file.bound} \subseteq [User -> 0 .. opened]
  /\ old \in Seq(1 .. opened)
  /\ fresh \cup toDelete \subseteq 1 .. opened
  /\ \A i, j \in 1 .. Len(old) : old[i] = old[j] => i = j

(* A session has expired or it has not. *)
AgeInv == ToSet(old) \cap fresh = {}

(* The file tells the truth while no write is on its way or was lost. *)
FileInv ==
  /\ writing => ~ file.whole
  /\ ~ writing /\ ~ writeLost => file = Whole(bound)

(* A session that a turn runs in has not expired. *)
TurnInv == ToSet(old) \cap Ids(turn) = {}

(* Before the query is answered the protected sessions are all that are    *)
(* bound and old.                                                          *)
ProtectInv == ~ writeLost /\ pc = "query" => ToSet(old) \cap Ids(bound) \subseteq protected

(* What is to be deleted is neither bound nor run in. *)
DeleteInv == ~ writeLost => toDelete \cap (Ids(bound) \cup Ids(turn)) = {}

SafeInv == ShapeInv /\ AgeInv /\ FileInv /\ TurnInv /\ ProtectInv /\ DeleteInv

----------------------------------------------------------------------------
(* Lemmas on the operators of the model *)

(* The elements of a sequence are its values at the places 1 .. Len. *)
LEMMA SeqToSet ==
  ASSUME NEW S, NEW q \in Seq(S)
  PROVE  ToSet(q) = {q[i] : i \in 1 .. Len(q)}
  BY DEF ToSet

(* What a list is without the element at i.                                *)
LEMMA RemoveAtElements ==
  ASSUME NEW S, NEW q \in Seq(S), NEW i \in 1 .. Len(q)
  PROVE  /\ RemoveAt(q, i) \in Seq(S)
         /\ Len(RemoveAt(q, i)) = Len(q) - 1
         /\ \A n \in 1 .. Len(q) - 1 : RemoveAt(q, i)[n] = IF n < i THEN q[n] ELSE q[n + 1]
<1> DEFINE a == SubSeq(q, 1, i - 1)
           b == SubSeq(q, i + 1, Len(q))
<1>1. a \in Seq(S) /\ Len(a) = i - 1 /\ \A n \in 1 .. i - 1 : a[n] = q[n]
  OBVIOUS
<1>2. b \in Seq(S) /\ Len(b) = Len(q) - i /\ \A n \in 1 .. Len(q) - i : b[n] = q[i + n]
  OBVIOUS
<1>3. RemoveAt(q, i) = a \o b
  BY DEF RemoveAt
<1> HIDE DEF a, b
<1>4. /\ a \o b \in Seq(S)
      /\ Len(a \o b) = Len(a) + Len(b)
      /\ \A n \in 1 .. Len(a) + Len(b) :
           (a \o b)[n] = IF n <= Len(a) THEN a[n] ELSE b[n - Len(a)]
  BY <1>1, <1>2, ConcatProperties
<1>5. Len(a \o b) = Len(q) - 1 /\ \A n \in 1 .. i - 1 : (a \o b)[n] = q[n]
  BY <1>1, <1>2, <1>4
<1>6. \A n \in i .. Len(q) - 1 : (a \o b)[n] = q[n + 1]
  <2> TAKE n \in i .. Len(q) - 1
  <2>1. n - (i - 1) \in 1 .. Len(q) - i /\ i + (n - (i - 1)) = n + 1
    OBVIOUS
  <2>2. (a \o b)[n] = b[n - (i - 1)]
    BY <1>1, <1>2, <1>4
  <2> QED
    BY <1>2, <2>1, <2>2
<1> QED
  BY <1>3, <1>4, <1>5, <1>6

(* A session that is touched or deleted is gone from the old ones, and the *)
(* others are still there.                                                 *)
LEMMA NotOldElements ==
  ASSUME NEW n \in Nat, old \in Seq(1 .. n), NEW s, NotOld(s),
         \A i, j \in 1 .. Len(old) : old[i] = old[j] => i = j
  PROVE  /\ old' \in Seq(1 .. n)
         /\ \A i, j \in 1 .. Len(old') : old'[i] = old'[j] => i = j
         /\ ToSet(old') = ToSet(old) \ {s}
<1>1. CASE s \notin ToSet(old) /\ UNCHANGED old
  BY <1>1
<1>2. ASSUME NEW i \in 1 .. Len(old), old[i] = s, old' = RemoveAt(old, i)
      PROVE  /\ old' \in Seq(1 .. n)
             /\ \A k, j \in 1 .. Len(old') : old'[k] = old'[j] => k = j
             /\ ToSet(old') = ToSet(old) \ {s}
  <2> DEFINE q == old
             r == old'
  <2>1. r \in Seq(1 .. n) /\ q \in Seq(1 .. n)
    BY <1>2, RemoveAtElements
  <2>2. Len(r) = Len(q) - 1 /\ Len(q) \in Nat
    <3>1. Len(r) = Len(q) - 1
      BY <1>2, RemoveAtElements
    <3> QED
      BY <2>1, <3>1
  <2>3. \A k \in 1 .. Len(q) - 1 : r[k] = IF k < i THEN q[k] ELSE q[k + 1]
    BY <1>2, RemoveAtElements
  <2>4. \A k, j \in 1 .. Len(q) : q[k] = q[j] => k = j
    OBVIOUS
  <2>5. q[i] = s /\ i \in 1 .. Len(q)
    BY <1>2
  <2> HIDE DEF q, r
  <2>6. \A k, j \in 1 .. Len(r) : r[k] = r[j] => k = j
    <3> SUFFICES ASSUME NEW k \in 1 .. Len(r), NEW j \in 1 .. Len(r), r[k] = r[j] PROVE k = j
      OBVIOUS
    <3> DEFINE at(m) == IF m < i THEN m ELSE m + 1
    <3>1. /\ at(k) \in 1 .. Len(q) /\ r[k] = q[at(k)]
          /\ at(j) \in 1 .. Len(q) /\ r[j] = q[at(j)]
      BY <2>2, <2>3
    <3>2. at(k) = at(j)
      BY <2>4, <3>1
    <3> QED
      BY <2>2, <3>2
  <2>7. ASSUME NEW k \in 1 .. Len(r) PROVE \E m \in 1 .. Len(q) : r[k] = q[m] /\ m # i
    <3>1. CASE k < i
      BY <2>2, <2>3, <3>1
    <3>2. CASE ~ k < i
      <4>1. k + 1 \in 1 .. Len(q) /\ r[k] = q[k + 1] /\ k + 1 # i
        BY <2>2, <2>3, <2>5, <3>2
      <4> QED
        BY <4>1
    <3> QED
      BY <3>1, <3>2
  <2>8. ASSUME NEW m \in 1 .. Len(q), m # i PROVE \E k \in 1 .. Len(r) : r[k] = q[m]
    <3>0. m \in Nat /\ i \in Nat
      BY <2>5
    <3>1. CASE m < i
      <4>1. m \in 1 .. Len(q) - 1
        BY <2>2, <2>5, <3>0, <3>1
      <4>2. r[m] = q[m]
        BY <2>3, <3>1, <4>1
      <4> QED
        BY <2>2, <4>1, <4>2
    <3>2. CASE m > i
      <4>1. m - 1 \in 1 .. Len(q) - 1 /\ ~(m - 1 < i) /\ (m - 1) + 1 = m
        BY <2>2, <2>5, <3>0, <3>2
      <4>2. r[m - 1] = q[(m - 1) + 1]
        BY <2>3, <4>1
      <4> QED
        BY <2>2, <4>1, <4>2
    <3> QED
      BY <2>8, <3>0, <3>1, <3>2
  <2>9. ToSet(q) = {q[m] : m \in 1 .. Len(q)} /\ ToSet(r) = {r[m] : m \in 1 .. Len(r)}
    <3>1. DOMAIN q = 1 .. Len(q) /\ DOMAIN r = 1 .. Len(r)
      BY <2>1
    <3> QED
      BY <3>1 DEF ToSet
  <2>10. ToSet(r) \subseteq ToSet(q) \ {s}
    BY <2>4, <2>5, <2>7, <2>9
  <2>11. ToSet(q) \ {s} \subseteq ToSet(r)
    BY <2>5, <2>8, <2>9
  <2> QED
    BY <2>1, <2>6, <2>10, <2>11 DEF q, r
<1> QED
  BY <1>1, <1>2 DEF NotOld

(* The bindings and turns after one of them has changed.                   *)
LEMMA IdsAfter ==
  ASSUME NEW n \in Nat, NEW f \in [User -> 0 .. n], NEW u \in User, NEW s
  PROVE  /\ Ids([f EXCEPT ![u] = s]) \subseteq (Ids(f) \cup {s}) \ {NoSession}
         /\ Ids(f) \subseteq 1 .. n
BY DEF Ids, NoSession

(* set and clear bind at most the session they are given.                  *)
LEMMA RebindKeeps ==
  ASSUME ShapeInv, FileInv, ~ writing, NEW u \in User, NEW s \in 0 .. opened, Rebind(u, s)
  PROVE  /\ {bound', file'.bound} \subseteq [User -> 0 .. opened]
         /\ Ids(bound') \subseteq Ids(bound) \cup ({s} \ {NoSession})
         /\ writeLost => writeLost'
         /\ FileInv'
<1>0. opened \in Nat /\ bound \in [User -> 0 .. opened]
  BY DEF ShapeInv
<1>1. CASE bound[u] = s /\ KeepBindings
  BY <1>1 DEF KeepBindings, ShapeInv, FileInv
<1>2. CASE bound' = [bound EXCEPT ![u] = s] /\ writing' = TRUE /\ file' = Torn
           /\ UNCHANGED <<writeLost, faults>>
  <2>1. file'.bound = [v \in User |-> 0] /\ ~ file'.whole /\ writing'
    BY <1>2 DEF Torn, Unbound, NoSession
  <2>2. bound' \in [User -> 0 .. opened]
    BY <1>2 DEF ShapeInv
  <2>3. Ids(bound') \subseteq Ids(bound) \cup ({s} \ {NoSession})
    BY <1>0, <1>2, IdsAfter
  <2>4. file'.bound \in [User -> 0 .. opened]
    BY <1>0, <2>1
  <2>5. FileInv' /\ writeLost' = writeLost
    BY <1>2, <2>1 DEF FileInv
  <2> QED
    BY <2>2, <2>3, <2>4, <2>5
<1>3. CASE bound' = [bound EXCEPT ![u] = s] /\ writeLost' = TRUE /\ UNCHANGED <<file, writing>>
  <2>1. bound' \in [User -> 0 .. opened] /\ file'.bound \in [User -> 0 .. opened]
    BY <1>3 DEF ShapeInv
  <2>2. Ids(bound') \subseteq Ids(bound) \cup ({s} \ {NoSession})
    BY <1>0, <1>3, IdsAfter
  <2> QED
    BY <1>3, <2>1, <2>2 DEF FileInv
<1> QED
  BY <1>1, <1>2, <1>3 DEF Rebind

----------------------------------------------------------------------------
(* The inductive invariant *)

LEMMA SafeInit == RInit => SafeInv
<1> SUFFICES ASSUME RInit PROVE SafeInv
  OBVIOUS
<1>1. ToSet(old) = {} /\ Len(old) = 0
  BY DEF RInit, ToSet
<1>2. ShapeInv /\ FileInv
  BY <1>1, RetentionAssumption DEF RInit, ShapeInv, FileInv, Whole, Unbound, NoSession
<1>3. AgeInv /\ TurnInv /\ ProtectInv /\ DeleteInv
  BY <1>1 DEF RInit, AgeInv, TurnInv, ProtectInv, DeleteInv
<1> QED
  BY <1>2, <1>3 DEF SafeInv

(* A turn starts: its session is not an old one any more. *)
LEMMA TurnStartsSafe ==
  ASSUME SafeInv, NEW u \in User, TurnStarts(u)
  PROVE  SafeInv'
<1> USE DEF SafeInv
<1> DEFINE n == opened'
<1>0. /\ opened \in Nat /\ n \in Nat /\ opened <= n
      /\ bound \in [User -> 0 .. opened] /\ turn \in [User -> 0 .. opened]
      /\ old \in Seq(1 .. opened) /\ old \in Seq(1 .. n)
  <2>1. opened \in Nat /\ (opened' = opened \/ opened' = opened + 1)
    BY DEF TurnStarts, ShapeInv
  <2>2. old \in Seq(1 .. opened) /\ 1 .. opened \subseteq 1 .. n
    BY <2>1 DEF ShapeInv
  <2>3. old \in Seq(1 .. n)
    BY <2>2, SeqMonotonic
  <2> QED
    BY <2>1, <2>2, <2>3 DEF ShapeInv
<1>1. PICK s \in 1 .. n :
        /\ turn' = [turn EXCEPT ![u] = s]
        /\ Touch(s)
        /\ s \in Ids(bound) \/ s = opened + 1
        /\ Ids(bound') \subseteq Ids(bound)
        /\ {bound', file'.bound} \subseteq [User -> 0 .. opened]
        /\ writeLost => writeLost'
        /\ FileInv'
  <2>1. CASE /\ bound[u] \in Stored /\ turn' = [turn EXCEPT ![u] = bound[u]]
             /\ Touch(bound[u]) /\ KeepBindings /\ UNCHANGED opened
    <3>1. bound[u] \in 1 .. opened
      <4>1. ToSet(old) \subseteq 1 .. opened
        BY <1>0 DEF ToSet
      <4> QED
        BY <2>1, <4>1 DEF Stored, ShapeInv
    <3>2. bound[u] \in Ids(bound)
      BY <3>1, <1>0 DEF Ids, NoSession
    <3>3. bound' = bound /\ file' = file /\ writing' = writing /\ writeLost' = writeLost
      BY <2>1 DEF KeepBindings
    <3>4. FileInv'
      BY <3>3 DEF FileInv
    <3>5. {bound', file'.bound} \subseteq [User -> 0 .. opened] /\ Ids(bound') \subseteq Ids(bound)
      BY <3>3 DEF ShapeInv
    <3> QED
      BY <2>1, <3>1, <3>2, <3>3, <3>4, <3>5
  <2>2. CASE /\ opened' = opened + 1 /\ turn' = [turn EXCEPT ![u] = opened + 1]
             /\ Touch(opened + 1) /\ Rebind(u, NoSession)
    <3>1. /\ {bound', file'.bound} \subseteq [User -> 0 .. opened]
          /\ Ids(bound') \subseteq Ids(bound)
          /\ writeLost => writeLost'
          /\ FileInv'
      BY <1>0, <2>2, RebindKeeps DEF TurnStarts, NoSession
    <3>2. opened + 1 \in 1 .. n
      BY <1>0, <2>2
    <3> WITNESS opened + 1 \in 1 .. n
    <3> QED
      BY <2>2, <3>1
  <2> QED
    BY <2>1, <2>2 DEF TurnStarts
<1>2. /\ old' \in Seq(1 .. n)
      /\ \A i, j \in 1 .. Len(old') : old'[i] = old'[j] => i = j
      /\ ToSet(old') = ToSet(old) \ {s}
      /\ fresh' = fresh \cup {s}
  BY <1>0, <1>1, NotOldElements DEF Touch, ShapeInv
<1>3. Ids(turn') \subseteq Ids(turn) \cup {s}
  BY <1>0, <1>1, IdsAfter
<1>4. pc' = pc /\ toDelete' = toDelete /\ protected' = protected
  BY DEF TurnStarts, roundVars
<1> HIDE DEF n
<1>5. ShapeInv'
  <2>1. turn' \in [User -> 0 .. n]
    BY <1>0, <1>1
  <2>2. {bound', file'.bound} \subseteq [User -> 0 .. n]
    BY <1>0, <1>1
  <2>3. fresh' \cup toDelete' \subseteq 1 .. n
    BY <1>0, <1>1, <1>2, <1>4 DEF ShapeInv
  <2> QED
    BY <1>0, <1>2, <2>1, <2>2, <2>3 DEF ShapeInv, n
<1>6. AgeInv' /\ TurnInv' /\ ProtectInv'
  BY <1>1, <1>2, <1>3, <1>4 DEF AgeInv, TurnInv, ProtectInv
<1>7. DeleteInv'
  <2> SUFFICES ASSUME ~ writeLost' PROVE toDelete \cap (Ids(bound') \cup Ids(turn')) = {}
    BY <1>4 DEF DeleteInv
  <2>1. opened + 1 \notin toDelete
    BY <1>0 DEF ShapeInv
  <2> QED
    BY <1>1, <1>3, <2>1 DEF DeleteInv
<1> QED
  BY <1>1, <1>5, <1>6, <1>7

(* A turn ends: what it binds, or gives back, is not an old session.       *)
LEMMA TurnEndsSafe ==
  ASSUME SafeInv, NEW u \in User, TurnEnds(u)
  PROVE  SafeInv'
<1> USE DEF SafeInv
<1> DEFINE s == turn[u]
<1>0. /\ opened \in Nat /\ opened' = opened
      /\ bound \in [User -> 0 .. opened] /\ turn \in [User -> 0 .. opened]
      /\ old \in Seq(1 .. opened) /\ ~ writing
      /\ pc' = pc /\ toDelete' = toDelete /\ protected' = protected
  BY DEF TurnEnds, ShapeInv, roundVars
<1>1. s \in 1 .. opened /\ s \in Ids(turn)
  BY <1>0 DEF TurnEnds, Ids, NoSession
<1>2. /\ {bound', file'.bound} \subseteq [User -> 0 .. opened]
      /\ Ids(bound') \subseteq Ids(bound) \cup {s}
      /\ writeLost => writeLost'
      /\ FileInv'
  <2>1. CASE Rebind(u, s)
    <3>1. s \in 0 .. opened
      BY <1>1
    <3> HIDE DEF s
    <3> QED
      BY <1>0, <2>1, <3>1, RebindKeeps
  <2>2. CASE KeepBindings
    <3>1. bound' = bound /\ file' = file /\ writing' = writing /\ writeLost' = writeLost
      BY <2>2 DEF KeepBindings
    <3> QED
      BY <3>1 DEF ShapeInv, FileInv
  <2> QED
    BY <2>1, <2>2 DEF TurnEnds
<1>3. turn' \in [User -> 0 .. opened] /\ Ids(turn') \subseteq Ids(turn)
  <2>1. turn' = [turn EXCEPT ![u] = NoSession]
    BY DEF TurnEnds
  <2>2. turn' \in [User -> 0 .. opened]
    BY <1>0, <2>1 DEF NoSession
  <2> QED
    BY <1>0, <2>1, <2>2, IdsAfter
<1>4. /\ old' \in Seq(1 .. opened)
      /\ \A i, j \in 1 .. Len(old') : old'[i] = old'[j] => i = j
      /\ ToSet(old') \subseteq ToSet(old)
      /\ fresh' \subseteq fresh \cup {s}
      /\ AgeInv'
  <2>1. CASE Touch(s)
    <3> HIDE DEF s
    <3>1. /\ old' \in Seq(1 .. opened)
          /\ \A i, j \in 1 .. Len(old') : old'[i] = old'[j] => i = j
          /\ ToSet(old') = ToSet(old) \ {s}
      BY <1>0, <2>1, NotOldElements DEF Touch, ShapeInv
    <3> QED
      BY <2>1, <3>1 DEF Touch, AgeInv
  <2>2. CASE UNCHANGED dbVars
    BY <2>2 DEF dbVars, ShapeInv, AgeInv
  <2> QED
    BY <2>1, <2>2 DEF TurnEnds
<1> HIDE DEF s
<1>5. ShapeInv'
  BY <1>0, <1>1, <1>2, <1>3, <1>4 DEF ShapeInv
<1>6. TurnInv'
  BY <1>3, <1>4 DEF TurnInv
<1>7. ProtectInv'
  <2>1. s \notin ToSet(old)
    BY <1>1 DEF TurnInv
  <2> QED
    BY <1>0, <1>2, <1>4, <2>1 DEF ProtectInv
<1>8. DeleteInv'
  BY <1>0, <1>1, <1>2, <1>3 DEF DeleteInv
<1> QED
  BY <1>2, <1>4, <1>5, <1>6, <1>7, <1>8

(* /new clears a binding. *)
LEMMA UnbindSafe ==
  ASSUME SafeInv, NEW u \in User, Unbind(u)
  PROVE  SafeInv'
<1> USE DEF SafeInv
<1>1. /\ UNCHANGED <<turn, opened, old, fresh, pc, toDelete, protected>>
      /\ opened \in Nat /\ ~ writing /\ Rebind(u, NoSession) /\ NoSession \in 0 .. opened
  BY DEF Unbind, dbVars, roundVars, ShapeInv, NoSession
<1>2. /\ {bound', file'.bound} \subseteq [User -> 0 .. opened]
      /\ Ids(bound') \subseteq Ids(bound)
      /\ writeLost => writeLost'
      /\ FileInv'
  BY <1>1, RebindKeeps
<1>3. ShapeInv'
  BY <1>1, <1>2 DEF ShapeInv
<1>4. AgeInv' /\ TurnInv' /\ ProtectInv' /\ DeleteInv'
  BY <1>1, <1>2 DEF AgeInv, TurnInv, ProtectInv, DeleteInv
<1> QED
  BY <1>2, <1>3, <1>4

(* The write of the file ends, or fails half way, or the process dies in   *)
(* it or elsewhere.                                                        *)
LEMMA FileStepsSafe ==
  ASSUME SafeInv, WriteEnds \/ WriteFails \/ MainRestarts
  PROVE  SafeInv'
<1> USE DEF SafeInv
<1>1. UNCHANGED <<opened, old, fresh, pc, toDelete, protected>> /\ opened \in Nat
  BY DEF WriteEnds, WriteFails, MainRestarts, dbVars, roundVars, ShapeInv
<1>2. /\ {bound', file'.bound} \subseteq [User -> 0 .. opened]
      /\ ~ writeLost' => ~ writeLost /\ bound' = bound
      /\ FileInv'
  <2>1. CASE WriteEnds
    <3>1. /\ bound' = bound /\ file'.bound = bound /\ file' = Whole(bound')
          /\ ~ writing' /\ writeLost' = writeLost
      BY <2>1 DEF WriteEnds, Whole
    <3> QED
      BY <3>1 DEF ShapeInv, FileInv
  <2>2. CASE WriteFails
    BY <2>2 DEF WriteFails, ShapeInv, FileInv
  <2>3. CASE MainRestarts
    <3>1. /\ bound' = file.bound /\ file' = file /\ ~ writing'
          /\ writeLost' = (writeLost \/ writing)
      BY <2>3 DEF MainRestarts
    <3>2. ~ writeLost' => ~ writeLost /\ ~ writing
      BY <3>1
    <3>3. ~ writeLost /\ ~ writing => file = Whole(bound)
      BY DEF FileInv
    <3>4. file = Whole(bound) => file.bound = bound
      BY DEF Whole
    <3>5. ~ writeLost' => ~ writeLost /\ bound' = bound /\ file' = Whole(bound')
      BY <3>1, <3>2, <3>3, <3>4
    <3> QED
      BY <3>1, <3>5 DEF ShapeInv, FileInv
  <2> QED
    BY <2>1, <2>2, <2>3
<1>3. turn' \in [User -> 0 .. opened] /\ Ids(turn') \subseteq Ids(turn)
  <2>1. CASE turn' = turn
    BY <2>1 DEF ShapeInv
  <2>2. CASE turn' = Unbound
    BY <1>1, <2>2 DEF Unbound, Ids, NoSession
  <2> QED
    BY <2>1, <2>2 DEF WriteEnds, WriteFails, MainRestarts
<1>4. ShapeInv'
  BY <1>1, <1>2, <1>3 DEF ShapeInv
<1>5. AgeInv' /\ TurnInv' /\ ProtectInv' /\ DeleteInv'
  BY <1>1, <1>2, <1>3 DEF AgeInv, TurnInv, ProtectInv, DeleteInv
<1> QED
  BY <1>2, <1>4, <1>5

(* A round starts with the bindings of the file: those there are. *)
LEMMA RoundStartsSafe ==
  ASSUME SafeInv, RoundStarts
  PROVE  SafeInv'
<1> USE DEF SafeInv
<1>1. UNCHANGED <<bound, file, writing, turn, opened, writeLost, old, fresh, toDelete>>
  BY DEF RoundStarts, RoundOnly, chatVars, dbVars
<1>2. ShapeInv' /\ AgeInv' /\ FileInv' /\ TurnInv' /\ DeleteInv'
  BY <1>1 DEF ShapeInv, AgeInv, FileInv, TurnInv, DeleteInv
<1>3. ~ writeLost => protected' = Ids(bound)
  BY DEF RoundStarts, FileInv, Whole
<1>4. ProtectInv'
  BY <1>1, <1>3 DEF ProtectInv
<1> QED
  BY <1>2, <1>4

(* A step that leaves the chats, or ends turns, and takes no new sessions  *)
(* into the round.                                                         *)
LEMMA OtherStepsSafe ==
  ASSUME SafeInv,
         UNCHANGED <<bound, file, writing, opened, writeLost, old, fresh>>,
         turn' \in [User -> 0 .. opened], Ids(turn') \subseteq Ids(turn),
         toDelete' \subseteq toDelete,
         pc' = "query" => pc = "query" /\ protected' = protected
  PROVE  SafeInv'
<1> USE DEF SafeInv
<1>1. ShapeInv' /\ FileInv'
  BY DEF ShapeInv, FileInv
<1>2. AgeInv' /\ TurnInv' /\ DeleteInv' /\ ProtectInv'
  BY DEF AgeInv, TurnInv, DeleteInv, ProtectInv
<1> QED
  BY <1>1, <1>2

(* The query is answered: what is selected is old and not protected. *)
LEMMA QueryAnswersSafe ==
  ASSUME SafeInv, QueryAnswers
  PROVE  SafeInv'
<1> USE DEF SafeInv
<1>1. /\ pc = "query"
      /\ UNCHANGED <<bound, file, writing, turn, opened, writeLost, old, fresh>>
      /\ opened \in Nat /\ old \in Seq(1 .. opened)
  BY DEF QueryAnswers, RoundOnly, chatVars, dbVars, ShapeInv
<1>2. CASE Rest
  <2>1. turn' \in [User -> 0 .. opened] /\ Ids(turn') \subseteq Ids(turn)
    BY <1>1 DEF ShapeInv
  <2> QED
    BY <1>1, <1>2, <2>1, OtherStepsSafe DEF Rest
<1>3. CASE pc' = "delete" /\ toDelete' = Selected
  <2>1. Selected \subseteq ToSet(old) \ protected
    <3>1. Selected \subseteq {old[i] : i \in Candidates}
      BY DEF Selected
    <3>2. \A i \in Candidates : i \in 1 .. Len(old) /\ old[i] \notin protected
      BY DEF Candidates, Unprotected
    <3>3. ToSet(old) = {old[i] : i \in 1 .. Len(old)}
      BY <1>1 DEF ToSet
    <3> QED
      BY <3>1, <3>2, <3>3
  <2>2. ToSet(old) \subseteq 1 .. opened
    BY <1>1 DEF ToSet
  <2>3. ShapeInv' /\ FileInv'
    BY <1>1, <1>3, <2>1, <2>2 DEF ShapeInv, FileInv
  <2>4. AgeInv' /\ TurnInv' /\ ProtectInv'
    BY <1>1, <1>3 DEF AgeInv, TurnInv, ProtectInv
  <2>5. DeleteInv'
    BY <1>1, <1>3, <2>1 DEF DeleteInv, TurnInv, ProtectInv
  <2> QED
    BY <2>3, <2>4, <2>5
<1> QED
  BY <1>2, <1>3 DEF QueryAnswers

(* A session is deleted, or not. *)
LEMMA DeleteNextSafe ==
  ASSUME SafeInv, DeleteNext
  PROVE  SafeInv'
<1> USE DEF SafeInv
<1>1. /\ pc = "delete" /\ pc' = pc
      /\ UNCHANGED <<bound, file, writing, turn, opened, writeLost>>
      /\ opened \in Nat /\ old \in Seq(1 .. opened)
  BY DEF DeleteNext, chatVars, ShapeInv
<1>2. PICK s \in toDelete :
        /\ toDelete' = toDelete \ {s}
        /\ \/ NotOld(s) /\ fresh' = fresh \ {s}
           \/ UNCHANGED <<old, fresh>>
  BY DEF DeleteNext
<1>3. /\ old' \in Seq(1 .. opened)
      /\ \A i, j \in 1 .. Len(old') : old'[i] = old'[j] => i = j
      /\ ToSet(old') \subseteq ToSet(old)
      /\ fresh' \subseteq fresh
  <2>1. CASE NotOld(s) /\ fresh' = fresh \ {s}
    BY <1>1, <2>1, NotOldElements DEF ShapeInv
  <2>2. CASE UNCHANGED <<old, fresh>>
    BY <2>2 DEF ShapeInv
  <2> QED
    BY <1>2, <2>1, <2>2
<1>4. ShapeInv' /\ FileInv'
  BY <1>1, <1>2, <1>3 DEF ShapeInv, FileInv
<1>5. AgeInv' /\ TurnInv' /\ ProtectInv' /\ DeleteInv'
  BY <1>1, <1>2, <1>3 DEF AgeInv, TurnInv, ProtectInv, DeleteInv
<1> QED
  BY <1>4, <1>5

(* A session expires, between two rounds, that no turn runs in. *)
LEMMA ExpiresSafe ==
  ASSUME SafeInv, Expires
  PROVE  SafeInv'
<1> USE DEF SafeInv
<1>1. /\ pc = "rest"
      /\ UNCHANGED <<bound, file, writing, turn, opened, writeLost, pc, toDelete, protected>>
      /\ opened \in Nat /\ old \in Seq(1 .. opened)
  BY DEF Expires, chatVars, roundVars, ShapeInv
<1>2. PICK s \in fresh \ Ids(turn) : old' = Append(old, s) /\ fresh' = fresh \ {s}
  BY DEF Expires
<1>3. s \in 1 .. opened /\ s \notin ToSet(old)
  BY <1>2 DEF ShapeInv, AgeInv
<1>4. /\ old' \in Seq(1 .. opened) /\ Len(old') = Len(old) + 1 /\ Len(old) \in Nat
      /\ \A i \in 1 .. Len(old) : old'[i] = old[i]
      /\ old'[Len(old) + 1] = s
  BY <1>1, <1>2, <1>3, AppendProperties
<1>5. \A i \in 1 .. Len(old) : old[i] # s
  BY <1>1, <1>3 DEF ToSet
<1>6. \A i, j \in 1 .. Len(old') : old'[i] = old'[j] => i = j
  <2> SUFFICES ASSUME NEW i \in 1 .. Len(old'), NEW j \in 1 .. Len(old'), old'[i] = old'[j]
               PROVE  i = j
    OBVIOUS
  <2>1. CASE i \in 1 .. Len(old) /\ j \in 1 .. Len(old)
    BY <1>4, <2>1 DEF ShapeInv
  <2>2. CASE i = Len(old) + 1 \/ j = Len(old) + 1
    BY <1>4, <1>5, <2>2
  <2> QED
    BY <1>4, <2>1, <2>2
<1>7. ToSet(old') \subseteq ToSet(old) \cup {s}
  <2> DEFINE r == old'
  <2>1. /\ ToSet(r) = {r[i] : i \in 1 .. Len(r)}
        /\ ToSet(old) = {old[i] : i \in 1 .. Len(old)}
    <3>1. r \in Seq(1 .. opened) /\ old \in Seq(1 .. opened)
      BY <1>1, <1>4
    <3> HIDE DEF r
    <3> QED
      BY <3>1, SeqToSet
  <2>2. ASSUME NEW i \in 1 .. Len(old') PROVE old'[i] \in ToSet(old) \cup {s}
    <3>1. CASE i \in 1 .. Len(old)
      BY <1>4, <2>1, <3>1
    <3>2. CASE i = Len(old) + 1
      BY <1>4, <3>2
    <3> QED
      BY <1>4, <3>1, <3>2
  <2> QED
    BY <2>1, <2>2
<1>8. ShapeInv' /\ FileInv'
  BY <1>1, <1>2, <1>4, <1>6 DEF ShapeInv, FileInv
<1>9. AgeInv' /\ TurnInv' /\ ProtectInv' /\ DeleteInv'
  BY <1>1, <1>2, <1>7 DEF AgeInv, TurnInv, ProtectInv, DeleteInv
<1> QED
  BY <1>8, <1>9

(* The invariant is inductive. *)
LEMMA SafeNext == SafeInv /\ [RNext]_rvars => SafeInv'
<1> SUFFICES ASSUME SafeInv, [RNext]_rvars PROVE SafeInv'
  OBVIOUS
<1>1. ASSUME NEW u \in User, TurnStarts(u) \/ TurnEnds(u) \/ Unbind(u) PROVE SafeInv'
  BY <1>1, TurnStartsSafe, TurnEndsSafe, UnbindSafe
<1>2. CASE WriteEnds \/ WriteFails \/ MainRestarts
  BY <1>2, FileStepsSafe
<1>3. CASE RoundStarts
  BY <1>3, RoundStartsSafe
<1>4. CASE QueryAnswers \/ DeleteNext
  BY <1>4, QueryAnswersSafe, DeleteNextSafe
<1>5. turn \in [User -> 0 .. opened] /\ Ids(turn) \subseteq Ids(turn)
  BY DEF SafeInv, ShapeInv
<1>6. CASE SpaceStarts \/ StatsRead \/ StatsAnswer \/ VacuumEnds \/ TruncateEnds
  <2>1. UNCHANGED <<bound, file, writing, opened, writeLost, old, fresh, turn>>
    BY <1>6 DEF SpaceStarts, StatsRead, StatsAnswer, VacuumEnds, TruncateEnds,
                RoundOnly, chatVars, dbVars
  <2>2. toDelete' \subseteq toDelete /\ pc' # "query"
    BY <1>6 DEF SpaceStarts, StatsRead, StatsAnswer, VacuumEnds, TruncateEnds, Rest
  <2> QED
    BY <1>5, <2>1, <2>2, OtherStepsSafe
<1>7. CASE RunnerRestarts
  <2>1. /\ UNCHANGED <<bound, file, writing, opened, writeLost, old, fresh>>
        /\ toDelete' \subseteq toDelete /\ pc' # "query"
    BY <1>7 DEF RunnerRestarts, Rest, dbVars
  <2>2. turn' \in [User -> 0 .. opened] /\ Ids(turn') \subseteq Ids(turn)
    <3>1. /\ turn' = [u \in User |-> IF u \in own THEN 0 ELSE turn[u]]
          /\ opened \in Nat
      BY <1>7 DEF RunnerRestarts, NoSession, SafeInv, ShapeInv
    <3> QED
      BY <1>5, <3>1 DEF Ids, NoSession
  <2> QED
    BY <2>1, <2>2, OtherStepsSafe
<1>8. CASE Expires
  BY <1>8, ExpiresSafe
<1>9. CASE QuietPasses \/ DayPasses \/ UNCHANGED rvars
  <2>1. /\ UNCHANGED <<bound, file, writing, opened, writeLost, old, fresh, turn>>
        /\ UNCHANGED <<toDelete, pc, protected>>
    BY <1>9 DEF QuietPasses, DayPasses, rvars, chatVars, dbVars, roundVars
  <2> QED
    BY <1>5, <2>1, OtherStepsSafe
<1> QED
  BY <1>1, <1>2, <1>3, <1>4, <1>6, <1>7, <1>8, <1>9 DEF RNext, RoundStep

LEMMA SafeAlways == RSpec => []SafeInv
BY SafeInit, SafeNext, PTL DEF RSpec

----------------------------------------------------------------------------
(* The properties *)

(* Only the round removes a session from the database, and only one that   *)
(* it has selected.                                                        *)
LEMMA OnlySelectedAreRemoved ==
  ASSUME SafeInv, [RNext]_rvars, NEW s, Removed(s)
  PROVE  s \in toDelete
<1> USE DEF Removed, Stored
<1>0. opened \in Nat /\ old \in Seq(1 .. opened)
  BY DEF SafeInv, ShapeInv
<1>1. \A t : ~ Touch(t)
  <2> SUFFICES ASSUME NEW t, Touch(t) PROVE FALSE
    OBVIOUS
  <2>1. ToSet(old') = ToSet(old) \ {t} /\ fresh' = fresh \cup {t}
    BY <1>0, NotOldElements DEF Touch, SafeInv, ShapeInv
  <2> QED
    BY <2>1
<1>2. ~ UNCHANGED dbVars
  BY DEF dbVars
<1>3. ~ Expires
  <2> SUFFICES ASSUME Expires PROVE FALSE
    OBVIOUS
  <2>1. PICK t \in fresh : old' = Append(old, t) /\ fresh' = fresh \ {t}
    BY DEF Expires
  <2>2. t \in 1 .. opened
    BY DEF SafeInv, ShapeInv
  <2>3. /\ old' \in Seq(1 .. opened) /\ Len(old') = Len(old) + 1 /\ Len(old) \in Nat
        /\ \A i \in 1 .. Len(old) : old'[i] = old[i]
        /\ old'[Len(old) + 1] = t
    BY <1>0, <2>1, <2>2, AppendProperties
  <2>4. ToSet(old) \cup {t} \subseteq ToSet(old')
    <3>1. /\ ToSet(old') = {old'[i] : i \in 1 .. Len(old')}
          /\ ToSet(old) = {old[i] : i \in 1 .. Len(old)}
      BY <1>0, <2>3 DEF ToSet
    <3>2. \A i \in 1 .. Len(old) : i \in 1 .. Len(old')
      BY <2>3
    <3>3. Len(old) + 1 \in 1 .. Len(old')
      BY <2>3
    <3> QED
      BY <2>3, <3>1, <3>2, <3>3
  <2> QED
    BY <2>1, <2>4
<1>4. DeleteNext
  BY <1>1, <1>2, <1>3 DEF RNext, RoundStep, TurnStarts, TurnEnds, Unbind, WriteEnds, WriteFails,
     MainRestarts, RoundStarts, QueryAnswers, SpaceStarts, StatsRead, StatsAnswer, VacuumEnds,
     TruncateEnds, RunnerRestarts, QuietPasses, DayPasses, RoundOnly, dbVars, rvars
<1>5. PICK t \in toDelete : \/ NotOld(t) /\ fresh' = fresh \ {t}
                            \/ UNCHANGED <<old, fresh>>
  BY <1>4 DEF DeleteNext
<1>6. CASE NotOld(t) /\ fresh' = fresh \ {t}
  <2>1. ToSet(old') = ToSet(old) \ {t}
    BY <1>0, <1>6, NotOldElements DEF SafeInv, ShapeInv
  <2> QED
    BY <1>5, <1>6, <2>1
<1>7. CASE UNCHANGED <<old, fresh>>
  BY <1>7
<1> QED
  BY <1>5, <1>6, <1>7

(* runRetentionOnce deletes no session that a chat is bound to or that a   *)
(* turn runs in, unless a write of the state file was lost.                *)
THEOREM RetentionSpares == RSpec => SparesBoundAndRunning
<1>1. SafeInv /\ [RNext]_rvars =>
        [\A s \in Session : Removed(s) => writeLost \/ s \notin Ids(bound) \cup Ids(turn)]_rvars
  BY OnlySelectedAreRemoved DEF SafeInv, DeleteInv
<1> QED
  BY <1>1, SafeAlways, PTL DEF RSpec, SparesBoundAndRunning

(* maybeReclaimSpace starts no VACUUM beside a run of its own process.     *)
THEOREM VacuumIsAlone == RSpec => VacuumSparesOwnRuns
<1>1. [RNext]_rvars => [pc # "vacuum" /\ pc' = "vacuum" => own = {}]_rvars
  BY DEF RNext, RoundStep, TurnStarts, TurnEnds, Unbind, WriteEnds, WriteFails, MainRestarts,
     RoundStarts, QueryAnswers, DeleteNext, SpaceStarts, StatsRead, StatsAnswer, Quiet,
     VacuumEnds, TruncateEnds, RunnerRestarts, Expires, QuietPasses, DayPasses, Rest,
     RoundOnly, roundVars, rvars
<1> QED
  BY <1>1, PTL DEF RSpec, VacuumSparesOwnRuns

(* attemptWalTruncate and retryWalTruncate lose sight of no WAL file that  *)
(* a VACUUM of this process has blown up.                                  *)
THEOREM BigWalIsKeptInMind == RSpec => []BigWalIsRemembered
<1>1. RInit => BigWalIsRemembered
  BY DEF RInit, BigWalIsRemembered
<1>2. BigWalIsRemembered /\ [RNext]_rvars => BigWalIsRemembered'
  <2> SUFFICES ASSUME BigWalIsRemembered, [RNext]_rvars PROVE BigWalIsRemembered'
    OBVIOUS
  <2> USE DEF BigWalIsRemembered
  <2>1. CASE StatsAnswer \/ StatsRead \/ SpaceStarts \/ QueryAnswers
    BY <2>1 DEF StatsAnswer, StatsRead, SpaceStarts, QueryAnswers, Rest, RoundOnly, spaceVars
  <2>2. CASE VacuumEnds
    BY <2>2 DEF VacuumEnds, Rest
  <2>3. CASE TruncateEnds
    BY <2>3 DEF TruncateEnds, PendingAfter, Rest
  <2>4. CASE RunnerRestarts
    BY <2>4 DEF RunnerRestarts, Rest
  <2>5. CASE RoundStarts
    BY <2>5 DEF RoundStarts, RoundOnly, spaceVars
  <2>6. UNCHANGED <<pc, wal, walPending, walForgotten>> => BigWalIsRemembered'
    OBVIOUS
  <2>7. ASSUME NEW u \in User, TurnStarts(u) \/ TurnEnds(u) \/ Unbind(u)
        PROVE  UNCHANGED <<pc, wal, walPending, walForgotten>>
    BY <2>7 DEF TurnStarts, TurnEnds, Unbind, roundVars, spaceVars
  <2>8. CASE \/ WriteEnds \/ WriteFails \/ MainRestarts \/ DeleteNext
             \/ Expires \/ QuietPasses \/ DayPasses \/ UNCHANGED rvars
    <3>1. UNCHANGED <<pc, wal, walPending, walForgotten>>
      BY <2>8 DEF WriteEnds, WriteFails, MainRestarts, DeleteNext, Expires, QuietPasses,
                  DayPasses, rvars, roundVars, spaceVars
    <3> QED
      BY <2>6, <3>1
  <2> QED
    BY <2>1, <2>2, <2>3, <2>4, <2>5, <2>6, <2>7, <2>8 DEF RNext, RoundStep
<1> QED
  BY <1>1, <1>2, PTL DEF RSpec

----------------------------------------------------------------------------
(*****************************************************************************)
(* Shutdown, for any work, any number of children of it, and both services:  *)
(* a service that has gone down through its handlers has left no child       *)
(* running.                                                                  *)
(*****************************************************************************)

(* The hook on exit goes by liveChildren: a child is in it as long as it   *)
(* runs, and a helper that holds the pipes keeps it there.  Once the       *)
(* service is gone there is nobody who could make another one.             *)
LiveInv ==
  /\ leader \in [Child -> {"unborn", "alive", "ended"}]
  /\ helper \in [Child -> {"none", "free", "holding"}]
  /\ live \subseteq Child /\ timers \subseteq Child
  /\ proc \in {"up", "closing", "exited", "killed"}
  /\ \A c \in Child : leader[c] = "alive" \/ helper[c] = "holding" => c \in live
  /\ \A c \in Child : helper[c] # "none" => leader[c] # "unborn"
  /\ proc = "exited" => \A c \in live : ~Alive(c)

----------------------------------------------------------------------------
LEMMA InitLive == Init => LiveInv
  BY DEF Init, LiveInv, Alive

(* Work and its children, while the service runs. *)
LEMMA WorkSteps ==
  ASSUME LiveInv, NEW r \in Req, Arrives(r) \/ Answered(r)
  PROVE  LiveInv'
  BY DEF LiveInv, Alive, Arrives, Answered, Runs

LEMMA SpawnStep ==
  ASSUME LiveInv, NEW c \in Child, Spawn(c)
  PROVE  LiveInv'
  BY DEF LiveInv, Alive, Spawn, Runs

(* A child and its helper come and go when they like, except that there is *)
(* no helper of a child that does not run.                                 *)
LEMMA ProcessSteps ==
  ASSUME LiveInv, NEW c \in Child, HelperComes(c) \/ LeaderEnds(c) \/ HelperEnds(c)
  PROVE  LiveInv'
<1>1. CASE HelperComes(c)
  BY <1>1 DEF LiveInv, Alive, HelperComes
<1>2. CASE LeaderEnds(c)
  BY <1>2 DEF LiveInv, Alive, LeaderEnds
<1>3. CASE HelperEnds(c)
  BY <1>3 DEF LiveInv, Alive, HelperEnds
<1>4. QED
  BY <1>1, <1>2, <1>3

LEMMA ForgetStep ==
  ASSUME LiveInv, NEW c \in Child, Forgets(c)
  PROVE  LiveInv'
  BY DEF LiveInv, Alive, Forgets, Runs

LEMMA GiveUpSteps ==
  ASSUME LiveInv, NEW c \in Child, GivesUp(c) \/ Escalates(c)
  PROVE  LiveInv'
<1>1. CASE GivesUp(c)
  BY <1>1 DEF LiveInv, Alive, GivesUp, Runs
<1>2. CASE Escalates(c)
  BY <1>2 DEF LiveInv, Alive, Escalates, Kill, Runs
<1>3. QED
  BY <1>1, <1>2

(* Whatever brings the end, the hook kills what is in liveChildren. *)
LEMMA ExitStep ==
  ASSUME LiveInv, Exit, timers' \subseteq Child
  PROVE  LiveInv'
  BY DEF LiveInv, Alive, Exit, Kill

LEMMA EndSteps ==
  ASSUME LiveInv,
         Signal \/ ServerCloses \/ LimitPasses \/ SignalAgain \/ SignalKills
  PROVE  LiveInv'
<1>1. CASE Signal
  BY <1>1 DEF LiveInv, Alive, Signal
<1>2. CASE ServerCloses \/ LimitPasses \/ SignalAgain
  BY <1>2, ExitStep DEF LiveInv, ServerCloses, LimitPasses, SignalAgain
<1>3. CASE SignalKills
  BY <1>3 DEF LiveInv, Alive, SignalKills
<1>4. QED
  BY <1>1, <1>2, <1>3

LEMMA LiveStep == LiveInv /\ [Next]_svars => LiveInv'
<1> SUFFICES ASSUME LiveInv, [Next]_svars PROVE LiveInv'
  OBVIOUS
<1>1. CASE UNCHANGED svars
  BY <1>1 DEF svars, LiveInv, Alive
<1>2. CASE Next
  BY <1>2, WorkSteps, SpawnStep, ProcessSteps, ForgetStep, GiveUpSteps, EndSteps DEF Next
<1>3. QED
  BY <1>1, <1>2

(* After an end through the handlers no child runs that was kept count of, *)
(* nor any that had not ended: what may be left is a helper whose child    *)
(* has closed.                                                             *)
THEOREM NoRunIsLeftBehind == SSpec => []NoRunIsLeft
<1>1. LiveInv => NoRunIsLeft
  BY DEF LiveInv, NoRunIsLeft, Alive
<1>2. QED
  BY InitLive, LiveStep, <1>1, PTL DEF SSpec

----------------------------------------------------------------------------
(*****************************************************************************)
(* ModelHealth, for any interval, window, time limit and time of a           *)
(* reminder, and any number of faults.  Why a dead model is told of: as      *)
(* long as the administrator does not know, the next look at the model and   *)
(* the next reminder are due in time, and what was missed is paid for by a   *)
(* fault.                                                                    *)
(*****************************************************************************)

Category == {"none", "rate-limited", "model-invalid", "client-outdated", "upstream-error",
             "quota-exhausted", "unknown"}

Outcome == [ok : BOOLEAN, category : Category, status : BOOLEAN]

FileState ==
  [status : {"none", "healthy", "failing"}, signature : Outcome, since : Nat, lastAlertAt : Nat]

Shapes ==
  /\ disk \in FileState
  /\ said \in [signature : Outcome, at : Int]
  /\ turns \in Nat /\ lostWrite \in BOOLEAN

ByOf(t, s, f) == Later(t, s) + Window + Interval + f * (Remind + Interval + Timeout)

By == ByOf(turned, started, faults)

Alarm == {"new-failure", "changed-failure", "reminder"}

ProbeInv == probing # Never => due = probing + Interval

ServedInv == Class(model) = "down" => lastSuccess <= turned

MissedInv ==
  disk.status = "failing" /\ alert \notin Alarm /\ (knows # "failing" \/ alert = "recovered")
    => faults >= 1

PromiseInv ==
  Class(model) = "down" /\ (knows # "failing" \/ alert = "recovered") =>
    IF alert \in Alarm THEN now <= By + Timeout
    ELSE /\ (IF probing = Never THEN due ELSE probing) <= By
         /\ disk.status = "failing" => disk.lastAlertAt + Remind + Interval <= By

LastLook == IF probing = Never THEN now ELSE probing

SaidInv ==
  /\ said = NoAlert \/ said.signature # NoSignature
  /\ said.at <= LastLook
  /\ lostWrite = FALSE /\ said # NoAlert =>
       disk.status = "failing" /\ said.signature = disk.signature /\ said.at = disk.lastAlertAt
  /\ lostWrite = TRUE /\ said # NoAlert /\ disk.status = "failing"
       /\ disk.signature = said.signature
     => said.at = disk.lastAlertAt \/ said.at - disk.lastAlertAt >= Remind

HealthTypes == HealthTypeOK /\ Shapes /\ ProbeInv

----------------------------------------------------------------------------
(* What opencode leaves behind *)

LEMMA GoodOutcome == Good \in Outcome /\ Good.ok /\ NoSignature = Good
  BY DEF Good, Outcome, NoSignature, Category

LEMMA InterpretTyped ==
  ASSUME NEW o PROVE Interpret(o) \in Outcome
<1>1. \A c \in Category, s \in BOOLEAN : Bad(c, s) \in Outcome
  BY DEF Bad, Outcome
<1>2. StatusClass(o.event) \in Category /\ FailureClass(o) \in Category
  BY DEF StatusClass, FailureClass, Category
<1> QED
  BY <1>1, <1>2, GoodOutcome DEF Interpret, Category

LEMMA FindsTyped ==
  ASSUME NEW kind PROVE Finds(kind) \subseteq Outcome
<1>1. Bad("unknown", FALSE) \in Outcome
  BY DEF Bad, Outcome, Category
<1>2. {Interpret(o) : o \in Says(kind)} \subseteq Outcome
  BY InterpretTyped
<1> QED
  BY <1>1, <1>2 DEF Finds

LEMMA DownFindsBad ==
  ASSUME NEW kind \in Kind, Class(kind) = "down", NEW outcome \in Finds(kind)
  PROVE  ~outcome.ok
<1>1. kind \in {"gone", "outdated", "odd", "quota", "silent"}
  BY DEF Kind, Class
<1>2. \A c, s : ~Bad(c, s).ok
  BY DEF Bad
<1>3. CASE kind = "silent"
  BY <1>2, <1>3 DEF Finds
<1>4. CASE kind # "silent"
  <2>1. PICK o \in Says(kind) : outcome = Interpret(o)
    BY <1>4 DEF Finds
  <2>2. CASE kind = "gone"
    <3>1. ~o.quota /\ o.hits = 0 /\ o.invalid
      BY <2>1, <2>2 DEF Says, Output
    <3> QED
      BY <2>1, <3>1, <1>2 DEF Interpret
  <2>3. CASE kind = "outdated"
    <3>1. ~o.quota /\ o.event = "426"
      BY <2>1, <2>3 DEF Says, Output
    <3> QED
      BY <2>1, <3>1, <1>2 DEF Interpret
  <2>4. CASE kind = "odd"
    <3>1. ~o.quota /\ o.hits = 0 /\ o.event = "plain"
      BY <2>1, <2>4 DEF Says, Output
    <3> QED
      BY <2>1, <3>1, <1>2 DEF Interpret
  <2>5. CASE kind = "quota"
    <3>1. o.quota
      BY <2>1, <2>5 DEF Says, Output
    <3> QED
      BY <2>1, <3>1, <1>2 DEF Interpret
  <2> QED
    BY <1>1, <1>4, <2>2, <2>3, <2>4, <2>5
<1> QED
  BY <1>3, <1>4

LEMMA DownServesNobody ==
  ASSUME NEW kind \in Kind, Class(kind) = "down", NEW o \in Says(kind)
  PROVE  ~IsRealSuccess(o)
<1>1. kind \in {"gone", "outdated", "odd", "quota", "silent"}
  BY DEF Kind, Class
<1>2. CASE kind = "gone"
  BY <1>2 DEF Says, Output, IsRealSuccess
<1>3. CASE kind = "outdated"
  BY <1>3 DEF Says, Output, IsRealSuccess
<1>4. CASE kind = "odd"
  BY <1>4 DEF Says, Output, IsRealSuccess
<1>5. CASE kind = "quota"
  BY <1>5 DEF Says, Output, IsRealSuccess, Done
<1>6. CASE kind = "silent"
  BY <1>6 DEF Says
<1> QED
  BY <1>1, <1>2, <1>3, <1>4, <1>5, <1>6

----------------------------------------------------------------------------
(* decideAlert *)

LEMMA DecisionOnGood ==
  ASSUME NEW prev \in FileState, NEW outcome, outcome.ok, NEW at \in Nat,
         NEW d, d = DecideAlert(prev, outcome, at),
         prev.status # "failing" => prev.signature = NoSignature,
         prev.status \in {"none", "healthy", "failing"}
  PROVE  /\ d.kind \in {"none", "recovered"}
         /\ d.next \in FileState /\ d.next.status = "healthy"
         /\ d.next.signature = NoSignature
         /\ d.next.since \in {at, prev.since}
         /\ d.next.lastAlertAt \in {at, 0, prev.lastAlertAt}
<1>1. d = DecideGood(prev, at)
  BY DEF DecideAlert
<1>2. CASE prev.status = "failing"
  BY <1>1, <1>2, GoodOutcome DEF DecideGood, Decision, Recovered, State, FileState
<1>3. CASE prev.status = "healthy"
  BY <1>1, <1>3 DEF DecideGood, Decision
<1>4. CASE prev.status = "none"
  BY <1>1, <1>4, GoodOutcome DEF DecideGood, Decision, State, FileState
<1> QED
  BY <1>2, <1>3, <1>4

LEMMA DecisionOnBad ==
  ASSUME NEW prev \in FileState, NEW outcome \in Outcome, ~outcome.ok, NEW at \in Nat,
         NEW d, d = DecideAlert(prev, outcome, at)
  PROVE  /\ d.next \in FileState /\ d.next.status = "failing"
         /\ d.next.signature = outcome
         /\ d.kind = "none" =>
              /\ prev.status = "failing" /\ prev.signature = outcome
              /\ at - prev.lastAlertAt < Remind
              /\ d.next = prev
         /\ d.kind # "none" =>
              /\ d.kind \in Alarm /\ d.next.lastAlertAt = at
              /\ d.next.since \in {at, prev.since}
              /\ prev.status = "failing" /\ prev.signature = outcome
                   => at - prev.lastAlertAt >= Remind /\ d.next.since = prev.since
              /\ ~(prev.status = "failing" /\ prev.signature = outcome) => d.next.since = at
<1>1. d = DecideBad(prev, outcome, at)
  BY DEF DecideAlert
<1> DEFINE first == State("failing", outcome, at, at)
<1>2. /\ first \in FileState /\ first.status = "failing" /\ first.signature = outcome
      /\ first.lastAlertAt = at /\ first.since = at
  BY DEF State, FileState
<1>3. CASE prev.status # "failing"
  <2>1. d = Decision("new-failure", first)
    BY <1>1, <1>3 DEF DecideBad
  <2> QED
    BY <2>1, <1>2, <1>3 DEF Decision, Alarm
<1>4. CASE prev.status = "failing" /\ prev.signature # outcome
  <2>1. d = Decision("changed-failure", first)
    BY <1>1, <1>4 DEF DecideBad
  <2> QED
    BY <2>1, <1>2, <1>4 DEF Decision, Alarm
<1>5. CASE prev.status = "failing" /\ prev.signature = outcome /\ at - prev.lastAlertAt >= Remind
  <2>1. d = Decision("reminder", Reminded(prev, at))
    BY <1>1, <1>5 DEF DecideBad
  <2>2. /\ Reminded(prev, at) \in FileState /\ Reminded(prev, at).lastAlertAt = at
        /\ Reminded(prev, at).status = prev.status
        /\ Reminded(prev, at).signature = prev.signature
        /\ Reminded(prev, at).since = prev.since
    BY DEF Reminded, FileState
  <2> QED
    BY <2>1, <2>2, <1>5 DEF Decision, Alarm
<1>6. CASE /\ prev.status = "failing" /\ prev.signature = outcome
           /\ ~(at - prev.lastAlertAt >= Remind)
  <2>1. d = Decision("none", prev)
    BY <1>1, <1>6 DEF DecideBad
  <2>2. prev.lastAlertAt \in Nat /\ Remind \in Nat
    BY HealthAssumption DEF FileState
  <2> QED
    BY <2>1, <2>2, <1>6 DEF Decision
<1> QED
  BY <1>3, <1>4, <1>5, <1>6

----------------------------------------------------------------------------
(* Types *)

LEMMA HealthInitTypes == HInit => HealthTypes
<1> SUFFICES ASSUME HInit PROVE HealthTypes
  OBVIOUS
<1>1. disk \in FileState /\ said \in [signature : Outcome, at : Int]
  BY GoodOutcome DEF HInit, NoState, State, FileState, NoAlert, Never
<1>2. /\ disk.status = "none" /\ disk.since = 0 /\ disk.lastAlertAt = 0
      /\ disk.signature = NoSignature
  BY DEF HInit, NoState, State
<1>3. /\ now = 0 /\ started = 0 /\ due = 0 /\ model \in Kind /\ turned = 0 /\ turns = 0
      /\ lastSuccess = Never /\ probing = Never /\ alert = "none" /\ knows = "nothing"
      /\ faults = 0
  BY DEF HInit
<1>4. lostWrite \in BOOLEAN
  BY DEF HInit
<1>5. Interval \in Nat /\ MaxTime \in Nat /\ MaxFault \in Nat
  BY HealthAssumption, FaultAssumption
<1>6. HealthTypeOK
  BY <1>2, <1>3, <1>5 DEF HealthTypeOK, Never
<1> QED
  BY <1>1, <1>3, <1>4, <1>6 DEF HealthTypes, Shapes, ProbeInv

(* A decision that is written, or not, is a state of the right shape. *)
LEMMA ConcludedTypes ==
  ASSUME HealthTypes, NEW outcome \in Outcome, NEW at \in 0 .. now, Concludes(outcome, at)
  PROVE  /\ disk' \in FileState /\ said' \in [signature : Outcome, at : Int]
         /\ lostWrite' \in BOOLEAN /\ faults' \in 0 .. MaxFault
         /\ {disk.since, disk.lastAlertAt}' \subseteq 0 .. now
         /\ (disk.status = "failing" => ~disk.signature.ok /\ disk.since <= disk.lastAlertAt)'
         /\ (disk.status # "failing" => disk.signature = NoSignature)'
         /\ alert' \in {"none", "new-failure", "changed-failure", "reminder", "recovered"}
<1> DEFINE d == DecideAlert(disk, outcome, at)
<1> HIDE DEF d
<1>1. /\ now \in Nat /\ at \in Nat /\ at <= now /\ faults \in 0 .. MaxFault
      /\ disk \in FileState /\ said \in [signature : Outcome, at : Int]
      /\ lostWrite \in BOOLEAN
      /\ disk.since \in 0 .. now /\ disk.lastAlertAt \in 0 .. now
      /\ disk.status \in {"none", "healthy", "failing"}
      /\ disk.status # "failing" => disk.signature = NoSignature
      /\ disk.status = "failing" => ~disk.signature.ok /\ disk.since <= disk.lastAlertAt
  BY DEF HealthTypes, HealthTypeOK, Shapes
<1>2. /\ \/ disk' = d.next /\ lostWrite' = FALSE /\ faults' = faults
         \/ disk' \in {disk, NoState} /\ lostWrite' = TRUE /\ Fault
      /\ alert' = d.kind
      /\ said' = Noted(outcome, d, at)
  BY DEF Concludes, d
<1>3. faults' \in 0 .. MaxFault /\ lostWrite' \in BOOLEAN
  <2>1. lostWrite' \in BOOLEAN
    BY <1>2
  <2>2. faults' = faults \/ Fault
    BY <1>2
  <2>3. faults' \in 0 .. MaxFault
    BY <1>1, <2>2, FaultAssumption DEF Fault
  <2> QED
    BY <2>1, <2>3
<1>4. said' \in [signature : Outcome, at : Int]
  <2>1. NoAlert \in [signature : Outcome, at : Int]
    BY GoodOutcome DEF NoAlert, Never
  <2>2. [signature |-> outcome, at |-> at] \in [signature : Outcome, at : Int]
    BY <1>1
  <2> QED
    BY <1>1, <1>2, <2>1, <2>2 DEF Noted
<1> DEFINE Sound(f) ==
      /\ f \in FileState
      /\ f.since \in 0 .. now /\ f.lastAlertAt \in 0 .. now
      /\ f.status = "failing" => ~f.signature.ok /\ f.since <= f.lastAlertAt
      /\ f.status # "failing" => f.signature = NoSignature
<1>5. Sound(disk)
  BY <1>1
<1>6. Sound(NoState)
  BY <1>1, GoodOutcome DEF NoState, State, FileState
<1>7. Sound(d.next) /\ d.kind \in {"none", "recovered"} \cup Alarm
  <2>1. CASE outcome.ok
    <3>1. /\ d.kind \in {"none", "recovered"}
          /\ d.next \in FileState /\ d.next.status = "healthy"
          /\ d.next.signature = NoSignature
          /\ d.next.since \in {at, disk.since}
          /\ d.next.lastAlertAt \in {at, 0, disk.lastAlertAt}
      BY <1>1, <2>1, DecisionOnGood DEF d
    <3> QED
      BY <3>1, <1>1
  <2>2. CASE ~outcome.ok
    <3>1. /\ d.next \in FileState /\ d.next.status = "failing"
          /\ d.next.signature = outcome
          /\ d.kind = "none" => d.next = disk
          /\ d.kind # "none" =>
              /\ d.kind \in Alarm /\ d.next.lastAlertAt = at
              /\ d.next.since \in {at, disk.since}
              /\ disk.status = "failing" /\ disk.signature = outcome
                   => at - disk.lastAlertAt >= Remind /\ d.next.since = disk.since
              /\ ~(disk.status = "failing" /\ disk.signature = outcome) => d.next.since = at
      BY <1>1, <2>2, DecisionOnBad DEF d
    <3>2. CASE d.kind = "none"
      BY <3>1, <3>2, <1>5
    <3>3. CASE d.kind # "none"
      <4>1. d.next.since <= d.next.lastAlertAt
        <5>1. CASE disk.status = "failing" /\ disk.signature = outcome
          <6>1. Remind \in Nat
            BY HealthAssumption
          <6> QED
            BY <3>1, <3>3, <5>1, <6>1, <1>1
        <5>2. CASE ~(disk.status = "failing" /\ disk.signature = outcome)
          BY <3>1, <3>3, <5>2, <1>1
        <5> QED
          BY <5>1, <5>2
      <4> QED
        BY <3>1, <3>3, <4>1, <1>1, <2>2
    <3> QED
      BY <3>2, <3>3
  <2> QED
    BY <2>1, <2>2
<1>8. Sound(disk')
  BY <1>2, <1>5, <1>6, <1>7
<1> QED
  BY <1>2, <1>3, <1>4, <1>7, <1>8 DEF Alarm

LEMMA HealthStepTypes == HealthTypes /\ [HNext]_hvars => HealthTypes'
<1> SUFFICES ASSUME HealthTypes, [HNext]_hvars PROVE HealthTypes'
  OBVIOUS
<1>1. /\ Interval \in Nat \ {0} /\ Timeout \in Nat \ {0} /\ MaxTime \in Nat /\ MaxFault \in Nat
      /\ Timeout < Interval /\ MaxTurn \in Nat
  BY HealthAssumption, FaultAssumption
<1>2. /\ now \in 0 .. MaxTime /\ model \in Kind /\ turned \in 0 .. now
      /\ started \in 0 .. now /\ due \in now .. now + Interval
      /\ lastSuccess \in {Never} \cup 0 .. now /\ probing \in {Never} \cup 0 .. now
      /\ faults \in 0 .. MaxFault
      /\ probing # Never => alert = "none" /\ now - probing <= Timeout
      /\ probing # Never => due = probing + Interval
      /\ turns \in Nat
  BY DEF HealthTypes, HealthTypeOK, Shapes, ProbeInv
<1> DEFINE FileOK ==
      /\ disk \in FileState /\ said \in [signature : Outcome, at : Int]
      /\ lostWrite \in BOOLEAN
      /\ disk.status \in {"none", "healthy", "failing"}
      /\ {disk.since, disk.lastAlertAt} \subseteq 0 .. now
      /\ disk.status = "failing" => ~disk.signature.ok /\ disk.since <= disk.lastAlertAt
      /\ disk.status # "failing" => disk.signature = NoSignature
<1>3. FileOK /\ alert \in {"none", "new-failure", "changed-failure", "reminder", "recovered"}
      /\ knows \in {"nothing", "failing", "well"}
  BY DEF HealthTypes, HealthTypeOK, Shapes
<1> DEFINE Clocks ==
      /\ now \in 0 .. MaxTime /\ model \in Kind /\ turned \in 0 .. now
      /\ started \in 0 .. now /\ due \in now .. now + Interval
      /\ lastSuccess \in {Never} \cup 0 .. now /\ probing \in {Never} \cup 0 .. now
      /\ probing # Never => now - probing <= Timeout
      /\ probing # Never => due = probing + Interval
      /\ turns \in Nat
<1>4. /\ Clocks' /\ FileOK' /\ faults' \in 0 .. MaxFault
      /\ (alert \in {"none", "new-failure", "changed-failure", "reminder", "recovered"})'
      /\ (knows \in {"nothing", "failing", "well"})'
      /\ (probing # Never => alert = "none")'
  <2>1. CASE Turns
    <3>1. model' \in Kind /\ turned' \in {turned, now} /\ turns' \in Nat
      BY <1>2, <2>1 DEF Turns
    <3>2. UNCHANGED <<timing, lastSuccess, probing, disk, alert, knows, faults, said, lostWrite>>
      BY <2>1 DEF Turns
    <3> QED
      BY <1>1, <1>2, <1>3, <3>1, <3>2 DEF timing
  <2>2. CASE Ticks
    <3>1. /\ now < MaxTime /\ due > now
          /\ probing # Never => now - probing < Timeout
          /\ now' = now + 1
          /\ UNCHANGED <<world, started, due, lastSuccess, probing, disk, alert, knows, faults,
                 said, lostWrite>>
      BY <2>2 DEF Ticks
    <3>2. FileOK'
      BY <1>2, <1>3, <3>1, <1>1
    <3>3. Clocks'
      BY <1>2, <3>1, <1>1 DEF world, Never
    <3> QED
      BY <1>2, <1>3, <3>1, <3>2, <3>3
  <2>3. CASE RunSucceeds
    BY <1>1, <1>2, <1>3, <2>3 DEF RunSucceeds, world, timing
  <2>4. CASE Checks
    <3>1. /\ due = now /\ probing = Never /\ due' = now + Interval
          /\ alert = "none"
          /\ UNCHANGED <<world, now, started, lastSuccess, knows>>
      BY <2>4 DEF Checks
    <3>2. CASE Exempt /\ Concludes(Good, now) /\ UNCHANGED probing
      <4>1. now \in 0 .. now
        BY <1>2
      <4>2. /\ FileOK' /\ faults' \in 0 .. MaxFault
            /\ (alert \in {"none", "new-failure", "changed-failure", "reminder", "recovered"})'
        <5>1. /\ disk' \in FileState /\ said' \in [signature : Outcome, at : Int]
              /\ lostWrite' \in BOOLEAN /\ faults' \in 0 .. MaxFault
              /\ {disk.since, disk.lastAlertAt}' \subseteq 0 .. now
              /\ (disk.status = "failing" => ~disk.signature.ok /\ disk.since <= disk.lastAlertAt)'
              /\ (disk.status # "failing" => disk.signature = NoSignature)'
              /\ alert' \in {"none", "new-failure", "changed-failure", "reminder", "recovered"}
          BY <3>2, <4>1, ConcludedTypes, GoodOutcome
        <5> QED
          BY <5>1, <3>1 DEF FileState
      <4>3. Clocks'
        BY <3>1, <3>2, <1>1, <1>2 DEF world, Never
      <4> QED
        BY <3>1, <3>2, <4>2, <4>3, <1>3
    <3>3. CASE ~Exempt /\ probing' = now /\ UNCHANGED <<disk, alert, faults, said, lostWrite>>
      <4>1. Clocks'
        BY <3>1, <3>3, <1>1, <1>2 DEF world, Never
      <4> QED
        BY <3>1, <3>3, <4>1, <1>2, <1>3
    <3> QED
      BY <3>2, <3>3, <2>4 DEF Checks
  <2>5. CASE ProbeEnds
    <3>1. PICK outcome \in Finds(model) : Concludes(outcome, probing)
      BY <2>5 DEF ProbeEnds
    <3>2. /\ probing # Never /\ probing' = Never
          /\ UNCHANGED <<world, timing, lastSuccess, knows>>
      BY <2>5 DEF ProbeEnds
    <3>3. probing \in 0 .. now /\ outcome \in Outcome
      BY <1>2, <3>1, <3>2, FindsTyped
    <3>4. /\ disk' \in FileState /\ said' \in [signature : Outcome, at : Int]
          /\ lostWrite' \in BOOLEAN /\ faults' \in 0 .. MaxFault
          /\ {disk.since, disk.lastAlertAt}' \subseteq 0 .. now
          /\ (disk.status = "failing" => ~disk.signature.ok /\ disk.since <= disk.lastAlertAt)'
          /\ (disk.status # "failing" => disk.signature = NoSignature)'
          /\ alert' \in {"none", "new-failure", "changed-failure", "reminder", "recovered"}
      BY <3>1, <3>3, ConcludedTypes
    <3>5. FileOK'
      BY <3>4, <3>2 DEF FileState, timing
    <3>6. Clocks'
      BY <3>2, <1>2 DEF world, timing, Never
    <3> QED
      BY <3>2, <3>4, <3>5, <3>6, <1>3
  <2>6. CASE AlertEnds
    <3>1. /\ alert' = "none" /\ knows' \in {"well", "failing", knows}
          /\ faults' \in 0 .. MaxFault
          /\ UNCHANGED <<world, timing, lastSuccess, probing, disk, said, lostWrite>>
      BY <2>6, <1>2, <1>1 DEF AlertEnds, Fault
    <3> QED
      BY <1>2, <1>3, <3>1 DEF world, timing
  <2>7. CASE Restarts
    <3>1. /\ faults' \in 0 .. MaxFault
          /\ started' = now /\ due' = now
          /\ lastSuccess' = Never /\ probing' = Never /\ alert' = "none"
          /\ UNCHANGED <<world, now, disk, knows, said, lostWrite>>
      BY <2>7, <1>2, <1>1 DEF Restarts, Fault
    <3> QED
      BY <1>1, <1>2, <1>3, <3>1 DEF world
  <2>8. CASE UNCHANGED hvars
    BY <1>2, <1>3, <2>8 DEF hvars, world, timing
  <2> QED
    BY <2>1, <2>2, <2>3, <2>4, <2>5, <2>6, <2>7, <2>8 DEF HNext
<1> QED
  BY <1>4 DEF HealthTypes, HealthTypeOK, Shapes, ProbeInv

----------------------------------------------------------------------------
(* What was said *)

LEMMA ConcludedSaid ==
  ASSUME HealthTypes, SaidInv, NEW outcome \in Outcome, NEW at \in 0 .. now,
         said.at <= at, Concludes(outcome, at)
  PROVE  /\ said' = NoAlert \/ said'.signature # NoSignature
         /\ said'.at <= at
         /\ lostWrite' = FALSE /\ said' # NoAlert =>
              disk'.status = "failing" /\ said'.signature = disk'.signature
                /\ said'.at = disk'.lastAlertAt
         /\ lostWrite' = TRUE /\ said' # NoAlert /\ disk'.status = "failing"
              /\ disk'.signature = said'.signature
            => said'.at = disk'.lastAlertAt \/ said'.at - disk'.lastAlertAt >= Remind
         /\ said'.signature = said.signature /\ said'.at # said.at /\ lostWrite = FALSE
            => said'.at - said.at >= Remind
<1> DEFINE d == DecideAlert(disk, outcome, at)
<1> HIDE DEF d
<1>1. /\ at \in Nat /\ at >= 0 /\ Remind \in Nat \ {0}
      /\ disk \in FileState /\ disk.lastAlertAt \in Nat
      /\ said \in [signature : Outcome, at : Int] /\ said.at \in Int
      /\ disk.status \in {"none", "healthy", "failing"}
      /\ disk.status # "failing" => disk.signature = NoSignature
      /\ lostWrite \in BOOLEAN
  BY HealthAssumption DEF HealthTypes, HealthTypeOK, Shapes, FileState
<1>2. /\ \/ disk' = d.next /\ lostWrite' = FALSE
         \/ disk' \in {disk, NoState} /\ lostWrite' = TRUE
      /\ said' = Noted(outcome, d, at)
  BY DEF Concludes, d
<1>3. NoAlert.at = -1 /\ NoAlert.signature = NoSignature /\ NoState.status = "none"
  BY DEF NoAlert, Never, NoState, State
<1>4. CASE outcome.ok
  <2>1. said' = NoAlert
    BY <1>2, <1>4 DEF Noted
  <2>2. said'.signature = said.signature => said = NoAlert
    BY <2>1, <1>3 DEF SaidInv
  <2> QED
    BY <2>1, <2>2, <1>1, <1>3
<1>5. CASE ~outcome.ok
  <2>1. outcome # NoSignature
    BY <1>5, GoodOutcome
  <2>2. /\ d.next.status = "failing" /\ d.next.signature = outcome
        /\ d.kind = "none" =>
              /\ disk.status = "failing" /\ disk.signature = outcome
              /\ at - disk.lastAlertAt < Remind
              /\ d.next = disk
        /\ d.kind # "none" =>
              /\ d.next.lastAlertAt = at
              /\ disk.status = "failing" /\ disk.signature = outcome
                   => at - disk.lastAlertAt >= Remind
    BY <1>1, <1>5, DecisionOnBad DEF d
  <2>3. CASE d.kind # "none"
    <3>1. said' = [signature |-> outcome, at |-> at]
      BY <1>2, <1>5, <2>3 DEF Noted
    <3>2. said'.signature = outcome /\ said'.at = at
      BY <3>1
    <3>3. lostWrite' = FALSE => disk'.signature = outcome /\ disk'.status = "failing"
                                  /\ disk'.lastAlertAt = at
      BY <1>2, <2>2, <2>3
    <3>4. lostWrite' = TRUE /\ disk'.status = "failing" /\ disk'.signature = outcome
            => at - disk'.lastAlertAt >= Remind
      BY <1>2, <1>3, <2>2, <2>3
    <3>5. outcome = said.signature /\ at # said.at /\ lostWrite = FALSE
            => at - said.at >= Remind
      <4>1. SUFFICES ASSUME outcome = said.signature, lostWrite = FALSE
                     PROVE  at - said.at >= Remind
        OBVIOUS
      <4>2. said # NoAlert
        BY <4>1, <2>1, <1>3
      <4>3. /\ disk.status = "failing" /\ said.signature = disk.signature
            /\ said.at = disk.lastAlertAt
        BY <4>1, <4>2 DEF SaidInv
      <4> QED
        BY <4>1, <4>3, <2>2, <2>3
    <3> QED
      BY <3>2, <3>3, <3>4, <3>5, <2>1, <1>1
  <2>4. CASE d.kind = "none"
    <3>1. said' = IF said.signature = outcome THEN said ELSE NoAlert
      BY <1>2, <1>5, <2>4 DEF Noted
    <3>2. CASE said.signature # outcome
      <4>1. said' = NoAlert
        BY <3>1, <3>2
      <4>2. said'.signature = said.signature => said = NoAlert
        BY <4>1, <1>3 DEF SaidInv
      <4> QED
        BY <4>1, <4>2, <1>1, <1>3
    <3>3. CASE said.signature = outcome
      <4>1. said' = said /\ said # NoAlert
        BY <3>1, <3>3, <2>1, <1>3
      <4>2. disk.status = "failing" /\ disk.signature = outcome /\ at - disk.lastAlertAt < Remind
        BY <2>2, <2>4
      <4>3. said.at = disk.lastAlertAt
        <5>1. CASE lostWrite = FALSE
          BY <5>1, <4>1 DEF SaidInv
        <5>2. CASE lostWrite = TRUE
          <6>1. said.at = disk.lastAlertAt \/ said.at - disk.lastAlertAt >= Remind
            BY <5>2, <4>1, <4>2, <3>3 DEF SaidInv
          <6> QED
            BY <6>1, <4>2, <1>1
        <5> QED
          BY <5>1, <5>2, <1>1
      <4>4. disk' = disk \/ (disk'.status # "failing" /\ lostWrite' = TRUE)
        BY <1>2, <1>3, <2>2, <2>4
      <4> QED
        BY <4>1, <4>2, <4>3, <4>4, <3>3, <2>1
    <3> QED
      BY <3>2, <3>3
  <2> QED
    BY <2>3, <2>4
<1> QED
  BY <1>4, <1>5

(* The least that two alerts of one failure are apart. *)
Apart ==
  said'.signature = said.signature /\ said'.at # said.at =>
    said'.at - said.at >= Remind \/ lostWrite

LEMMA SaidStep ==
  HealthTypes /\ SaidInv /\ [HNext]_hvars => SaidInv' /\ Apart
<1> SUFFICES ASSUME HealthTypes, SaidInv, [HNext]_hvars PROVE SaidInv' /\ Apart
  OBVIOUS
<1>1. /\ now \in Nat /\ probing \in {Never} \cup 0 .. now
      /\ said \in [signature : Outcome, at : Int] /\ said.at \in Int
      /\ lostWrite \in BOOLEAN
  BY DEF HealthTypes, HealthTypeOK, Shapes
<1>2. ASSUME UNCHANGED <<said, lostWrite, disk>>, said.at <= LastLook' PROVE SaidInv' /\ Apart
  BY <1>2 DEF SaidInv, Apart
<1>3. ASSUME NEW outcome \in Outcome, NEW at \in 0 .. now, said.at <= at, Concludes(outcome, at),
             LastLook' = now
      PROVE  SaidInv' /\ Apart
  <2>1. /\ said' = NoAlert \/ said'.signature # NoSignature
        /\ said'.at <= at
        /\ lostWrite' = FALSE /\ said' # NoAlert =>
             disk'.status = "failing" /\ said'.signature = disk'.signature
               /\ said'.at = disk'.lastAlertAt
        /\ lostWrite' = TRUE /\ said' # NoAlert /\ disk'.status = "failing"
             /\ disk'.signature = said'.signature
           => said'.at = disk'.lastAlertAt \/ said'.at - disk'.lastAlertAt >= Remind
        /\ said'.signature = said.signature /\ said'.at # said.at /\ lostWrite = FALSE
           => said'.at - said.at >= Remind
    BY <1>3, ConcludedSaid
  <2>2. said'.at \in Int
    BY <1>3, ConcludedTypes
  <2>3. said'.at <= LastLook'
    BY <1>3, <2>1, <2>2, <1>1
  <2>4. SaidInv'
    BY <2>1, <2>3 DEF SaidInv
  <2>5. Apart
    <3>1. CASE lostWrite = FALSE
      BY <3>1, <2>1 DEF Apart
    <3>2. CASE lostWrite = TRUE
      BY <3>2 DEF Apart
    <3> QED
      BY <3>1, <3>2, <1>1
  <2> QED
    BY <2>4, <2>5
<1>4. said.at <= LastLook
  BY DEF SaidInv
<1>5. CASE Turns
  BY <1>5, <1>2, <1>4 DEF Turns, timing, LastLook
<1>6. CASE Ticks
  <2>1. now' = now + 1 /\ UNCHANGED <<probing, disk, said, lostWrite>>
    BY <1>6 DEF Ticks
  <2>2. said.at <= LastLook'
    BY <2>1, <1>1, <1>4 DEF LastLook
  <2> QED
    BY <2>1, <2>2, <1>2
<1>7. CASE RunSucceeds
  BY <1>7, <1>2, <1>4 DEF RunSucceeds, timing, LastLook
<1>8. CASE Checks
  <2>1. probing = Never /\ now' = now
    BY <1>8 DEF Checks
  <2>2. CASE Concludes(Good, now) /\ UNCHANGED probing
    <3>1. said.at <= now /\ LastLook' = now /\ now \in 0 .. now
      BY <2>1, <2>2, <1>1, <1>4 DEF LastLook
    <3> QED
      BY <2>2, <3>1, <1>3, GoodOutcome
  <2>3. CASE probing' = now /\ UNCHANGED <<disk, said, lostWrite>>
    <3>1. said.at <= LastLook'
      BY <2>1, <2>3, <1>1, <1>4 DEF LastLook, Never
    <3> QED
      BY <2>3, <3>1, <1>2
  <2> QED
    BY <1>8, <2>2, <2>3 DEF Checks
<1>9. CASE ProbeEnds
  <2>1. PICK outcome \in Finds(model) : Concludes(outcome, probing)
    BY <1>9 DEF ProbeEnds
  <2>2. probing # Never /\ probing' = Never /\ now' = now
    BY <1>9 DEF ProbeEnds, timing
  <2>3. probing \in 0 .. now /\ outcome \in Outcome
    BY <1>1, <2>1, <2>2, FindsTyped
  <2>4. said.at <= probing /\ LastLook' = now
    BY <2>2, <1>4 DEF LastLook
  <2> QED
    BY <2>1, <2>3, <2>4, <1>3
<1>10. CASE AlertEnds
  BY <1>10, <1>2, <1>4 DEF AlertEnds, timing, LastLook
<1>11. CASE Restarts
  <2>1. probing' = Never /\ UNCHANGED <<now, disk, said, lostWrite>>
    BY <1>11 DEF Restarts
  <2>2. said.at <= LastLook'
    BY <2>1, <1>1, <1>4 DEF LastLook, Never
  <2> QED
    BY <2>1, <2>2, <1>2
<1>12. CASE UNCHANGED hvars
  BY <1>12, <1>2, <1>4 DEF hvars, timing, LastLook
<1> QED
  BY <1>5, <1>6, <1>7, <1>8, <1>9, <1>10, <1>11, <1>12 DEF HNext

----------------------------------------------------------------------------
(* What is promised *)

LEMMA ServedStep == HealthTypes /\ ServedInv /\ [HNext]_hvars => ServedInv'
<1> SUFFICES ASSUME HealthTypes, ServedInv, [HNext]_hvars PROVE ServedInv'
  OBVIOUS
<1>1. /\ model \in Kind /\ now \in Nat /\ turned \in 0 .. now
      /\ lastSuccess \in {Never} \cup 0 .. now
  BY DEF HealthTypes, HealthTypeOK
<1>2. CASE Turns
  <2>1. /\ turned' = IF Class(model') = Class(model) THEN turned ELSE now
        /\ UNCHANGED lastSuccess
    BY <1>2 DEF Turns
  <2>2. CASE Class(model') = Class(model)
    BY <2>1, <2>2 DEF ServedInv
  <2>3. CASE Class(model') # Class(model)
    BY <2>1, <2>3, <1>1 DEF ServedInv, Never
  <2> QED
    BY <2>2, <2>3
<1>3. CASE RunSucceeds
  <2>1. Class(model) # "down"
    BY <1>1, <1>3, DownServesNobody DEF RunSucceeds
  <2> QED
    BY <2>1, <1>3 DEF RunSucceeds, world, ServedInv
<1>4. CASE Restarts
  BY <1>1, <1>4 DEF Restarts, world, ServedInv, Never
<1>5. CASE Ticks \/ Checks \/ ProbeEnds \/ AlertEnds \/ UNCHANGED hvars
  BY <1>5 DEF Ticks, Checks, ProbeEnds, AlertEnds, hvars, world, ServedInv
<1> QED
  BY <1>2, <1>3, <1>4, <1>5 DEF HNext

(* An alarm is on its way in time, or will be. *)
LEMMA MissedStep == HealthTypes /\ MissedInv /\ [HNext]_hvars => MissedInv'
<1> SUFFICES ASSUME HealthTypes, MissedInv, [HNext]_hvars,
                    disk'.status = "failing", alert' \notin Alarm,
                    knows' # "failing" \/ alert' = "recovered"
             PROVE  faults' >= 1
  BY DEF MissedInv
<1>1. /\ faults \in Nat /\ faults' \in Nat /\ now \in Nat
      /\ probing \in {Never} \cup 0 .. now
      /\ probing # Never => alert = "none"
  <2>1. HealthTypes'
    BY HealthStepTypes
  <2> QED
    BY <2>1, FaultAssumption DEF HealthTypes, HealthTypeOK
<1>2. Fault => faults' >= 1
  BY <1>1 DEF Fault
<1>3. ASSUME UNCHANGED <<disk, knows, alert, faults>> PROVE faults' >= 1
  BY <1>3 DEF MissedInv
<1>4. ASSUME NEW outcome \in Outcome, NEW at \in 0 .. now, Concludes(outcome, at),
             alert = "none", knows' = knows
      PROVE  faults' >= 1
  <2> DEFINE d == DecideAlert(disk, outcome, at)
  <2> HIDE DEF d
  <2>1. (disk' = d.next /\ faults' = faults) \/ Fault
    BY <1>4 DEF Concludes, d
  <2>2. alert' = d.kind
    BY <1>4 DEF Concludes, d
  <2>3. CASE disk' = d.next /\ faults' = faults
    <3>1. at \in Nat /\ disk \in FileState
      BY <1>1 DEF HealthTypes, Shapes
    <3>2. ~outcome.ok
      <4>1. SUFFICES ASSUME outcome.ok PROVE FALSE
        OBVIOUS
      <4>2. d.next.status = "healthy"
        BY <3>1, <4>1, DecisionOnGood DEF d, HealthTypes, HealthTypeOK
      <4> QED
        BY <4>2, <2>3
    <3>3. d.kind = "none" /\ disk.status = "failing"
      BY <3>1, <3>2, <2>2, DecisionOnBad DEF d
    <3>4. knows # "failing"
      BY <3>3, <2>2, <1>4
    <3> QED
      BY <2>3, <3>3, <3>4, <1>4 DEF MissedInv, Alarm
  <2> QED
    BY <2>1, <2>3, <1>2
<1>5. CASE Turns
  BY <1>5, <1>3 DEF Turns
<1>6. CASE Ticks
  BY <1>6, <1>3 DEF Ticks
<1>7. CASE RunSucceeds
  BY <1>7, <1>3 DEF RunSucceeds
<1>8. CASE Checks
  <2>1. alert = "none" /\ knows' = knows /\ now \in 0 .. now
    BY <1>8, <1>1 DEF Checks
  <2>2. CASE Concludes(Good, now)
    BY <2>1, <2>2, <1>4, GoodOutcome
  <2>3. CASE UNCHANGED <<disk, alert, faults, said, lostWrite>>
    BY <2>1, <2>3, <1>3
  <2> QED
    BY <1>8, <2>2, <2>3 DEF Checks
<1>9. CASE ProbeEnds
  <2>1. PICK outcome \in Finds(model) : Concludes(outcome, probing)
    BY <1>9 DEF ProbeEnds
  <2>2. /\ probing \in 0 .. now /\ outcome \in Outcome /\ knows' = knows
        /\ alert = "none"
    BY <1>9, <1>1, <2>1, FindsTyped DEF ProbeEnds
  <2> QED
    BY <2>1, <2>2, <1>4
<1>10. CASE AlertEnds
  <2>1. CASE knows' = (IF alert = "recovered" THEN "well" ELSE "failing") /\ UNCHANGED faults
    <3>1. alert = "recovered"
      BY <2>1, <1>10 DEF AlertEnds
    <3>2. disk.status = "failing"
      BY <1>10 DEF AlertEnds
    <3> QED
      BY <3>1, <3>2, <2>1 DEF MissedInv, Alarm
  <2>2. CASE Fault
    BY <2>2, <1>2
  <2> QED
    BY <1>10, <2>1, <2>2 DEF AlertEnds
<1>11. CASE Restarts
  BY <1>11, <1>2 DEF Restarts
<1>12. CASE UNCHANGED hvars
  BY <1>12, <1>3 DEF hvars
<1> QED
  BY <1>5, <1>6, <1>7, <1>8, <1>9, <1>10, <1>11, <1>12 DEF HNext

(* The promise in the parts that the steps work on. *)
Pending == now <= By + Timeout

OnTime ==
  /\ (IF probing = Never THEN due ELSE probing) <= By
  /\ disk.status = "failing" => disk.lastAlertAt + Remind + Interval <= By

Promise == IF alert \in Alarm THEN Pending ELSE OnTime

LEMMA ByFacts ==
  ASSUME NEW t \in Nat, NEW s \in Nat, NEW f \in Nat
  PROVE  /\ ByOf(t, s, f) \in Nat
         /\ t + Window + Interval <= ByOf(t, s, f)
         /\ s + Window + Interval <= ByOf(t, s, f)
         /\ f >= 1 => Later(t, s) + Remind + Interval + Timeout <= ByOf(t, s, f)
         /\ ByOf(t, s, f + 1) = ByOf(t, s, f) + Remind + Interval + Timeout
<1> DEFINE T == Later(t, s)
           c == Remind + Interval + Timeout
           w == Window + Interval
<1>1. {Interval, Window, Timeout, Remind} \subseteq Nat
  BY HealthAssumption
<1>2. c \in Nat /\ w \in Nat
  BY <1>1
<1>3. T \in Nat /\ t <= T /\ s <= T
  BY DEF Later
<1>4. ByOf(t, s, f) = T + w + f * c /\ ByOf(t, s, f + 1) = T + w + (f + 1) * c
  <2>1. ByOf(t, s, f) = T + Window + Interval + f * c
    BY DEF ByOf
  <2>2. ByOf(t, s, f + 1) = T + Window + Interval + (f + 1) * c
    BY DEF ByOf
  <2>3. f * c \in Nat /\ (f + 1) * c \in Nat
    BY <1>2
  <2> HIDE DEF T
  <2> QED
    BY <2>1, <2>2, <2>3, <1>1, <1>3
<1>5. w = Window + Interval /\ c = Remind + Interval + Timeout
  OBVIOUS
<1> HIDE DEF T, c, w
<1>6. f * c \in Nat /\ (f + 1) * c = f * c + c
  BY <1>2
<1>7. f >= 1 => f * c >= c
  BY <1>2
<1>8. ByOf(t, s, f) \in Nat /\ t + w <= ByOf(t, s, f) /\ s + w <= ByOf(t, s, f)
  BY <1>2, <1>3, <1>4, <1>6
<1>9. f >= 1 => T + c <= ByOf(t, s, f)
  BY <1>2, <1>3, <1>4, <1>6, <1>7
<1>10. ByOf(t, s, f + 1) = ByOf(t, s, f) + c
  BY <1>2, <1>3, <1>4, <1>6
<1>11. t + Window + Interval <= ByOf(t, s, f) /\ s + Window + Interval <= ByOf(t, s, f)
  BY <1>1, <1>5, <1>8
<1>12. f >= 1 => Later(t, s) + Remind + Interval + Timeout <= ByOf(t, s, f)
  <2>1. f >= 1 => T + Remind + Interval + Timeout <= ByOf(t, s, f)
    BY <1>1, <1>3, <1>5, <1>8, <1>9
  <2> QED
    BY <2>1 DEF T
<1>13. ByOf(t, s, f + 1) = ByOf(t, s, f) + Remind + Interval + Timeout
  BY <1>1, <1>5, <1>8, <1>10
<1> QED
  BY <1>8, <1>11, <1>12, <1>13

LEMMA PromiseStep ==
  HealthTypes /\ HealthTypes' /\ ServedInv /\ MissedInv' /\ PromiseInv /\ [HNext]_hvars
    => PromiseInv'
<1> SUFFICES ASSUME HealthTypes, HealthTypes', ServedInv, MissedInv', PromiseInv, [HNext]_hvars,
                    Class(model') = "down", knows' # "failing" \/ alert' = "recovered"
             PROVE  Promise'
  BY DEF PromiseInv, Promise, Pending, OnTime
<1>1. {Interval, Window, Timeout, Remind} \subseteq Nat
  BY HealthAssumption
<1>2. /\ now \in Nat /\ turned \in Nat /\ started \in Nat /\ faults \in Nat
      /\ turned <= now /\ started <= now
      /\ due \in Nat /\ now <= due /\ due <= now + Interval
      /\ probing \in {Never} \cup 0 .. now
      /\ probing # Never => now - probing <= Timeout /\ due = probing + Interval /\ alert = "none"
      /\ lastSuccess \in {Never} \cup 0 .. now
      /\ disk \in FileState /\ disk.lastAlertAt \in Nat /\ disk.lastAlertAt <= now
  BY <1>1, FaultAssumption DEF HealthTypes, HealthTypeOK, ProbeInv, Shapes
<1>3. /\ now' \in Nat /\ turned' \in Nat /\ started' \in Nat /\ faults' \in Nat
      /\ turned' <= now' /\ started' <= now'
      /\ due' \in Nat /\ due' <= now' + Interval
      /\ probing' \in {Never} \cup 0 .. now'
      /\ disk'.lastAlertAt \in Nat /\ disk'.lastAlertAt <= now'
  BY <1>1, FaultAssumption DEF HealthTypes, HealthTypeOK, ProbeInv, Shapes
<1>4. By = ByOf(turned, started, faults) /\ By' = ByOf(turned', started', faults')
  BY DEF By
<1>5. By \in Nat /\ By' \in Nat /\ turned + Window + Interval <= By
  BY <1>2, <1>3, <1>4, ByFacts
<1>6. ASSUME turned' = now' \/ started' = now' PROVE Promise'
  <2>1. now' + Window + Interval <= By'
    BY <1>3, <1>4, <1>6, ByFacts
  <2>2. Pending'
    BY <2>1, <1>1, <1>3, <1>5 DEF Pending
  <2>3. ASSUME alert' \notin Alarm PROVE OnTime'
    <3>1. (IF probing' = Never THEN due' ELSE probing') <= By'
      BY <2>1, <1>1, <1>3, <1>5 DEF Never
    <3>2. ASSUME disk'.status = "failing" PROVE disk'.lastAlertAt + Remind + Interval <= By'
      <4>1. faults' >= 1
        BY <2>3, <3>2 DEF MissedInv
      <4>2. Later(turned', started') = now'
        BY <1>3, <1>6 DEF Later
      <4>3. now' + Remind + Interval + Timeout <= By'
        BY <4>1, <4>2, <1>3, <1>4, ByFacts
      <4> QED
        BY <4>3, <1>1, <1>3, <1>5
    <3> QED
      BY <3>1, <3>2 DEF OnTime
  <2> QED
    BY <2>2, <2>3 DEF Promise
<1>7. ASSUME UNCHANGED <<turned, started>> 
      PROVE  /\ faults' = faults => By' = By
             /\ Fault => By' = By + Remind + Interval + Timeout
  <2>1. By' = ByOf(turned, started, faults')
    BY <1>4, <1>7
  <2>2. Fault => faults' = faults + 1
    BY DEF Fault
  <2>3. ByOf(turned, started, faults + 1)
          = ByOf(turned, started, faults) + Remind + Interval + Timeout
    BY <1>2, ByFacts
  <2> QED
    BY <1>4, <2>1, <2>2, <2>3
<1>8. ASSUME Class(model) = "down", knows # "failing" \/ alert = "recovered" PROVE Promise
  BY <1>8 DEF PromiseInv, Promise, Pending, OnTime
<1>9. CASE Turns
  <2>1. /\ turned' = IF Class(model') = Class(model) THEN turned ELSE now
        /\ UNCHANGED <<now, started, due, probing, disk, alert, knows, faults>>
    BY <1>9 DEF Turns, timing
  <2>2. CASE Class(model) # "down"
    BY <2>1, <2>2, <1>6
  <2>3. CASE Class(model) = "down"
    <3>1. By' = By
      BY <2>1, <2>3, <1>7
    <3> QED
      BY <2>1, <2>3, <3>1, <1>8 DEF Promise, Pending, OnTime
  <2> QED
    BY <2>2, <2>3
<1>10. CASE Ticks
  <2>1. /\ alert = "none" /\ alert' = "none"
        /\ UNCHANGED <<model, turned, started, due, probing, disk, knows, faults>>
    BY <1>10 DEF Ticks, world
  <2> QED
    BY <2>1, <1>7, <1>8 DEF Promise, OnTime, Alarm
<1>11. CASE RunSucceeds
  BY <1>11, <1>7, <1>8 DEF RunSucceeds, world, timing, Promise, Pending, OnTime
<1>12. ASSUME Checks PROVE Promise'
  <2>1. /\ due = now /\ probing = Never /\ alert = "none" /\ due' = now + Interval
        /\ UNCHANGED <<model, turned, started, now, lastSuccess, knows>>
    BY <1>12 DEF Checks, world
  <2>4. CASE Exempt /\ Concludes(Good, now) /\ UNCHANGED probing
    <3> DEFINE d == DecideAlert(disk, Good, now)
    <3> HIDE DEF d
    <3>1. d.kind \in {"none", "recovered"} /\ d.next.status = "healthy"
      BY <1>2, GoodOutcome, DecisionOnGood DEF d, HealthTypes, HealthTypeOK
    <3>2. /\ (disk' = d.next /\ faults' = faults) \/ (disk' \in {disk, NoState} /\ Fault)
          /\ alert' = d.kind
      BY <2>4 DEF Concludes, d
    <3>3. now + Interval <= By
      <4>1. lastSuccess # Never /\ now - lastSuccess < Window
        BY <2>4 DEF Exempt
      <4>2. lastSuccess <= turned
        BY <2>1 DEF ServedInv
      <4> QED
        BY <4>1, <4>2, <1>1, <1>2, <1>5
    <3>4. By <= By'
      BY <2>1, <3>2, <1>7, <1>5, <1>1
    <3>5. disk'.status = "failing" => disk'.lastAlertAt + Remind + Interval <= By'
      <4>1. SUFFICES ASSUME disk'.status = "failing"
                     PROVE  disk'.lastAlertAt + Remind + Interval <= By'
        OBVIOUS
      <4>2. Fault
        BY <4>1, <3>1, <3>2
      <4>3. By' = By + Remind + Interval + Timeout
        BY <4>2, <2>1, <1>7
      <4> QED
        BY <4>3, <3>3, <2>1, <1>1, <1>2, <1>3, <1>5
    <3>6. OnTime'
      BY <2>1, <2>4, <3>3, <3>4, <3>5, <1>1, <1>2, <1>5 DEF OnTime
    <3> QED
      BY <3>1, <3>2, <3>6 DEF Promise, Alarm
  <2>5. CASE probing' = now /\ UNCHANGED <<disk, alert, faults, said, lostWrite>>
    <3>1. By' = By
      BY <2>1, <2>5, <1>7
    <3>2. OnTime
      BY <2>1, <2>5, <1>8 DEF Promise, Alarm
    <3>3. now <= By
      BY <2>1, <3>2 DEF OnTime
    <3> QED
      BY <2>1, <2>5, <3>1, <3>2, <3>3, <1>2 DEF Promise, OnTime, Alarm, Never
  <2> QED
    BY <1>12, <2>4, <2>5 DEF Checks
<1>13. ASSUME ProbeEnds PROVE Promise'
  <2>1. PICK outcome \in Finds(model) : Concludes(outcome, probing)
    BY <1>13 DEF ProbeEnds
  <2>2. /\ probing # Never /\ probing' = Never
        /\ UNCHANGED <<model, turned, started, now, due, lastSuccess, knows>>
    BY <1>13 DEF ProbeEnds, world, timing
  <2>3. /\ probing \in Nat /\ now <= probing + Timeout /\ due = probing + Interval
        /\ alert = "none"
    BY <2>2, <1>1, <1>2
  <2>6. model \in Kind /\ outcome \in Outcome /\ ~outcome.ok
    <3>1. model \in Kind
      BY DEF HealthTypes, HealthTypeOK
    <3> QED
      BY <3>1, <2>1, <2>2, FindsTyped, DownFindsBad
  <2> DEFINE d == DecideAlert(disk, outcome, probing)
  <2> HIDE DEF d
  <2>7. /\ d.kind = "none" =>
              /\ disk.status = "failing" /\ probing - disk.lastAlertAt < Remind
              /\ d.next = disk
        /\ d.kind # "none" => d.kind \in Alarm
    BY <1>2, <2>3, <2>6, DecisionOnBad DEF d
  <2>8. /\ (disk' = d.next /\ faults' = faults) \/ (disk' \in {disk, NoState} /\ Fault)
        /\ alert' = d.kind
    BY <2>1 DEF Concludes, d
  <2>4. OnTime
    <3>1. alert' # "recovered"
      BY <2>7, <2>8 DEF Alarm
    <3> QED
      BY <3>1, <2>2, <2>3, <1>8 DEF Promise, Alarm
  <2>5. probing <= By
    BY <2>2, <2>4 DEF OnTime
  <2>9. By <= By'
    BY <2>2, <2>8, <1>7, <1>5, <1>1
  <2>10. CASE d.kind # "none"
    <3>1. Pending'
      BY <2>2, <2>3, <2>5, <2>9, <1>1, <1>2, <1>5 DEF Pending
    <3> QED
      BY <2>7, <2>8, <2>10, <3>1 DEF Promise
  <2>11. CASE d.kind = "none"
    <3>1. disk.status = "failing" /\ probing - disk.lastAlertAt < Remind /\ disk' \in {disk, NoState}
      BY <2>7, <2>8, <2>11
    <3>2. disk.lastAlertAt + Remind + Interval <= By
      BY <3>1, <2>4 DEF OnTime
    <3>3. due' <= By'
      BY <3>1, <3>2, <2>2, <2>3, <2>9, <1>1, <1>2, <1>5
    <3>4. disk'.status = "failing" => disk'.lastAlertAt + Remind + Interval <= By'
      <4>1. disk'.status = "failing" => disk' = disk
        BY <3>1 DEF NoState, State
      <4> QED
        BY <4>1, <3>2, <2>9, <1>1, <1>2, <1>5
    <3> QED
      BY <2>2, <2>8, <2>11, <3>3, <3>4 DEF Promise, OnTime, Alarm
  <2> QED
    BY <2>10, <2>11
<1>14. ASSUME AlertEnds PROVE Promise'
  <2>1. /\ alert # "none" /\ alert' = "none"
        /\ UNCHANGED <<model, turned, started, now, due, probing, disk>>
    BY <1>14 DEF AlertEnds, world, timing
  <2>2. probing = Never
    BY <2>1, <1>2
  <2>3. CASE Fault /\ UNCHANGED knows
    <3>1. By' = By + Remind + Interval + Timeout
      BY <2>1, <2>3, <1>7
    <3>2. Promise
      BY <2>1, <2>3, <1>8
    <3>3. CASE alert \in Alarm
      <4>1. now <= By + Timeout
        BY <3>2, <3>3 DEF Promise, Pending
      <4>2. due' <= By' /\ disk'.lastAlertAt + Remind + Interval <= By'
        BY <2>1, <3>1, <4>1, <1>1, <1>2, <1>5
      <4> QED
        BY <2>1, <2>2, <4>2 DEF Promise, OnTime, Alarm
    <3>4. CASE alert \notin Alarm
      <4>1. OnTime
        BY <3>2, <3>4 DEF Promise
      <4>2. due <= By /\ (disk.status = "failing" => disk.lastAlertAt + Remind + Interval <= By)
        BY <2>2, <4>1 DEF OnTime
      <4>3. due' <= By' /\ (disk'.status = "failing" => disk'.lastAlertAt + Remind + Interval <= By')
        BY <2>1, <3>1, <4>2, <1>1, <1>2, <1>5
      <4> QED
        BY <2>1, <2>2, <4>3 DEF Promise, OnTime, Alarm
    <3> QED
      BY <3>3, <3>4
  <2>4. CASE knows' = (IF alert = "recovered" THEN "well" ELSE "failing") /\ UNCHANGED faults
    <3>1. alert = "recovered" /\ By' = By
      BY <2>1, <2>4, <1>7
    <3> QED
      BY <3>1, <2>1, <1>8 DEF Promise, OnTime, Alarm
  <2> QED
    BY <1>14, <2>3, <2>4 DEF AlertEnds
<1>15. CASE Restarts
  BY <1>15, <1>6 DEF Restarts
<1>16. CASE UNCHANGED hvars
  BY <1>16, <1>7, <1>8 DEF hvars, world, timing, Promise, Pending, OnTime
<1> QED
  BY <1>9, <1>10, <1>11, <1>12, <1>13, <1>14, <1>15, <1>16 DEF HNext

----------------------------------------------------------------------------

HealthInv == HealthTypes /\ ServedInv /\ MissedInv /\ PromiseInv /\ SaidInv

LEMMA HealthInitInv == HInit => HealthInv
<1> SUFFICES ASSUME HInit PROVE HealthInv
  OBVIOUS
<1>1. HealthTypes
  BY HealthInitTypes
<1>2. ServedInv /\ MissedInv
  BY DEF HInit, ServedInv, MissedInv, NoState, State, Never
<1>3. SaidInv
  BY DEF HInit, SaidInv, LastLook, NoAlert, Never
<1>4. PromiseInv
  <2>1. /\ alert = "none" /\ probing = Never /\ due = 0 /\ disk.status = "none"
        /\ turned = 0 /\ started = 0 /\ faults = 0
    BY DEF HInit, NoState, State
  <2>2. 0 <= By
    BY <2>1, ByFacts DEF By
  <2> QED
    BY <2>1, <2>2 DEF PromiseInv, Alarm
<1> QED
  BY <1>1, <1>2, <1>3, <1>4 DEF HealthInv

LEMMA HealthStepInv == HealthInv /\ [HNext]_hvars => HealthInv' /\ Apart
  BY HealthStepTypes, ServedStep, MissedStep, PromiseStep, SaidStep DEF HealthInv

THEOREM HealthInvariance == HSpec => []HealthInv
<1>1. HInit => HealthInv
  BY HealthInitInv
<1>2. HealthInv /\ [HNext]_hvars => HealthInv'
  BY HealthStepInv
<1> QED
  BY <1>1, <1>2, PTL DEF HSpec

(* Within the window, an interval and a probe, and the slack of the faults,*)
(* the administrator has been told of a model that serves nobody, for      *)
(* every choice of the times and whatever gets lost.                       *)
THEOREM DeadModelsAreTold == HSpec => []TroubleIsTold
<1>1. HealthInv => TroubleIsTold
  <2> SUFFICES ASSUME HealthInv, Class(model) = "down", knows # "failing",
                      now > Later(turned, started) + Window + Interval + Timeout + Slack
               PROVE  FALSE
    BY DEF TroubleIsTold, HealthInv, HealthTypes
  <2>1. {Interval, Window, Timeout, Remind} \subseteq Nat
    BY HealthAssumption
  <2>2. /\ now \in Nat /\ turned \in Nat /\ started \in Nat /\ faults \in Nat /\ due \in Nat
        /\ now <= due /\ probing \in {Never} \cup 0 .. now
        /\ probing # Never => now - probing <= Timeout
    BY <2>1, FaultAssumption DEF HealthInv, HealthTypes, HealthTypeOK
  <2>3. By = Later(turned, started) + Window + Interval + Slack /\ By \in Nat
    BY <2>2, ByFacts DEF By, ByOf, Slack
  <2>4. Slack \in Nat /\ Later(turned, started) \in Nat
    <3>1. Remind + Interval + Timeout \in Nat
      BY <2>1
    <3> QED
      BY <2>2, <3>1 DEF Slack, Later
  <2>5. now > By + Timeout
    BY <2>1, <2>2, <2>3, <2>4
  <2>6. CASE alert \in Alarm
    BY <2>1, <2>2, <2>3, <2>5, <2>6 DEF HealthInv, PromiseInv
  <2>7. CASE alert \notin Alarm
    <3>1. (IF probing = Never THEN due ELSE probing) <= By
      BY <2>7 DEF HealthInv, PromiseInv
    <3> QED
      BY <3>1, <2>1, <2>2, <2>3, <2>5
  <2> QED
    BY <2>6, <2>7
<1> QED
  BY <1>1, HealthInvariance, PTL

(* Two alerts of a failure that goes on are a reminder's time apart, over  *)
(* restarts and lost alerts too, unless its state was lost.                *)
THEOREM RemindersAreApart == HSpec => AlertsApart
<1>1. HealthInv /\ [HNext]_hvars =>
        [said'.signature = said.signature /\ said'.at # said.at =>
           said'.at - said.at >= Remind \/ lostWrite]_hvars
  BY HealthStepInv DEF Apart
<1> QED
  BY <1>1, HealthInvariance, PTL DEF HSpec, AlertsApart
=============================================================================
