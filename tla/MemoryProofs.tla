----------------------------- MODULE MemoryProofs -----------------------------
(*****************************************************************************)
(* Proofs about the memory: the bridge that hands turns over to Memoria      *)
(* (MemoriaSync), the migration of the old rows (LegacyScope), and the       *)
(* messages with their indexes (MemoryStore).                                *)
(*****************************************************************************)
EXTENDS MemoriaSync, LegacyScope, MemoryStore, FiniteSetTheorems, WellFoundedInduction, TLAPS

----------------------------------------------------------------------------
(*****************************************************************************)
(* MemoriaSync, for any number of turns, texts and faults.  What the chain,  *)
(* the phase of its first job and the files say of a turn agrees, and        *)
(* whatever was heard of once is kept of one turn at least.                  *)
(*****************************************************************************)

BridgeTypeOK ==
  /\ text \in [Turn -> Text \cup {None}]
  /\ nturn \in 0 .. MaxTurn
  /\ seen \subseteq Text \ BadText
  /\ chain \in Seq(Turn \cup {Drain})
  /\ phase \in {"free", "renamed", "read"} \cup InRequest
  /\ hookFile \in Seq(Turn) /\ procFile \in Seq(Turn) /\ raw \in Seq(Turn)
  /\ offered \subseteq 1 .. nturn /\ orphans \subseteq 1 .. nturn
  /\ temp \subseteq offered /\ failed \subseteq offered /\ temp \cap failed = {}
  /\ refused \subseteq Turn /\ wire \subseteq Turn /\ stored \subseteq Turn
  /\ lost \subseteq Turn
  /\ faults \in 0 .. MaxFault

(* What the phase says of the first job, and of the file it has renamed.   *)
PhaseInv ==
  /\ phase # "free" => Len(chain) > 0
  /\ phase \in {"renamed", "read"} => chain[1] = Drain
  /\ phase \in InRequest => chain[1] \in temp
  /\ phase = "success" => chain[1] \in stored
  /\ raw = IF phase = "read" THEN procFile ELSE <<>>
  /\ phase \notin {"renamed", "read"} => procFile = <<>>

(* Each turn is a job once, and has no payload before its request.         *)
JobsInv ==
  /\ \A n \in 1 .. Len(chain) : chain[n] # Drain => chain[n] \in offered
  /\ \A m, n \in 1 .. Len(chain) : chain[m] = chain[n] /\ chain[m] # Drain => m = n
  /\ \A n \in 1 .. Len(chain) :
       n > 1 \/ phase \notin InRequest => chain[n] \notin temp \cup failed

(* The four places of a turn, or of its line, are apart.                   *)
PlacesInv ==
  /\ 1 .. nturn = ToSet(hookFile) \cup ToSet(procFile) \cup orphans \cup offered
  /\ ToSet(hookFile) \cap ToSet(procFile) = {}
  /\ ToSet(hookFile) \cap orphans = {}
  /\ ToSet(hookFile) \cap offered = {}
  /\ ToSet(procFile) \cap orphans = {}
  /\ ToSet(procFile) \cap offered = {}
  /\ orphans \cap offered = {}

Kept == ToSet(chain) \cup stored \cup temp \cup failed \cup refused \cup lost

(* Whatever is taken for a repetition repeats a turn that is kept.         *)
Heard(x) == x \in seen \/ \E t \in offered : text[t] = x /\ x \notin BadText

KeptInv == 
  /\ \A t \in 1 .. nturn : text[t] \in Text
  /\ \A x \in Text : Heard(x) => \E s \in 1 .. nturn : text[s] = x /\ s \in Kept

BridgeInv == BridgeTypeOK /\ PhaseInv /\ JobsInv /\ PlacesInv /\ KeptInv

----------------------------------------------------------------------------
(* Sequences and numbers *)

(* Every set of numbers that is not empty has a least one. *)
LEMMA LeastOf ==
  ASSUME NEW T, T \subseteq Nat, T # {}
  PROVE  \E n \in T : \A m \in T : n <= m
<1> DEFINE R == {ss \in Nat \X Nat : ss[1] < ss[2]}
<1>1. IsWellFoundedOn(R, Nat)
  BY NatLessThanWellFounded DEF OpToRel
<1> HIDE DEF R
<1>2. PICK n \in T : \A m \in T : ~ (<<m, n>> \in R)
  BY <1>1, WFMin
<1>3. \A m \in T : ~ (m < n)
  BY <1>2 DEF R
<1> QED
  BY <1>3

(* The members of a sequence after Append, Tail and \o. *)
LEMMA ToSetAppend ==
  ASSUME NEW S, NEW s \in Seq(S), NEW x \in S
  PROVE  /\ Append(s, x) \in Seq(S)
         /\ ToSet(Append(s, x)) = ToSet(s) \cup {x}
<1> DEFINE a == Append(s, x)
<1>1. /\ a \in Seq(S) /\ Len(a) = Len(s) + 1 /\ Len(s) \in Nat
      /\ DOMAIN a = 1 .. Len(a) /\ DOMAIN s = 1 .. Len(s)
      /\ \A n \in 1 .. Len(s) : a[n] = s[n]
      /\ a[Len(s) + 1] = x
  OBVIOUS
<1> HIDE DEF a
<1>2. ToSet(a) = ToSet(s) \cup {x}
  BY <1>1 DEF ToSet
<1> QED
  BY <1>1, <1>2 DEF a

LEMMA ToSetTail ==
  ASSUME NEW S, NEW s \in Seq(S), Len(s) > 0
  PROVE  /\ Tail(s) \in Seq(S) /\ Len(Tail(s)) = Len(s) - 1
         /\ \A n \in 1 .. Len(s) - 1 : Tail(s)[n] = s[n + 1]
         /\ ToSet(s) = ToSet(Tail(s)) \cup {s[1]}
<1> DEFINE a == Tail(s)
<1>1. /\ a \in Seq(S) /\ Len(a) = Len(s) - 1 /\ Len(s) \in Nat
      /\ DOMAIN a = 1 .. Len(a) /\ DOMAIN s = 1 .. Len(s)
      /\ \A n \in 1 .. Len(s) - 1 : a[n] = s[n + 1]
  OBVIOUS
<1> HIDE DEF a
<1>2. ASSUME NEW n \in 1 .. Len(s), n # 1
      PROVE  n - 1 \in 1 .. Len(a) /\ a[n - 1] = s[n]
  BY <1>1, <1>2
<1>3. ToSet(s) = ToSet(a) \cup {s[1]}
  <2>1. ToSet(s) = {s[n] : n \in 1 .. Len(s)} /\ ToSet(a) = {a[n] : n \in 1 .. Len(a)}
    BY <1>1 DEF ToSet
  <2>2. \A n \in 1 .. Len(a) : n + 1 \in 1 .. Len(s) /\ a[n] = s[n + 1]
    BY <1>1
  <2>3. 1 \in 1 .. Len(s)
    BY <1>1
  <2>4. ToSet(s) \subseteq ToSet(a) \cup {s[1]}
    BY <2>1, <1>2
  <2>5. ToSet(a) \cup {s[1]} \subseteq ToSet(s)
    BY <2>1, <2>2, <2>3
  <2> QED
    BY <2>4, <2>5
<1> QED
  BY <1>1, <1>3 DEF a

LEMMA ToSetMembers ==
  ASSUME NEW S, NEW s \in Seq(S)
  PROVE  /\ ToSet(s) \subseteq S
         /\ \A x : x \in ToSet(s) <=> \E n \in 1 .. Len(s) : s[n] = x
BY DEF ToSet

----------------------------------------------------------------------------
(* Taking turns *)

(* enqueueSyncTurn hands over all the fresh turns and no other, each once. *)
LEMMA TakeTakes ==
  ASSUME NEW taken \in Seq(Turn),
         NEW f \in [1 .. Cardinality(Fresh(taken)) -> Fresh(taken)], InOrder(f)
  PROVE  /\ Cardinality(Fresh(taken)) \in Nat
         /\ \A i, j \in 1 .. Cardinality(Fresh(taken)) : f[i] = f[j] => i = j
         /\ \A k \in Fresh(taken) : \E i \in 1 .. Cardinality(Fresh(taken)) : f[i] = k
<1> DEFINE N == Cardinality(Fresh(taken))
<1>1. Fresh(taken) \subseteq 1 .. Len(taken) /\ IsFiniteSet(1 .. Len(taken)) /\ Len(taken) \in Nat
  BY FS_Interval DEF Fresh
<1>2. IsFiniteSet(Fresh(taken)) /\ N \in Nat
  BY <1>1, FS_Subset, FS_CardinalityType
<1>4. \A i, j \in 1 .. N : f[i] = f[j] => i = j
  <2> SUFFICES ASSUME NEW i \in 1 .. N, NEW j \in 1 .. N, f[i] = f[j] PROVE i = j
    OBVIOUS
  <2>1. f[i] \in Nat /\ ~ (f[i] < f[j]) /\ ~ (f[j] < f[i])
    BY <1>1
  <2>2. ~ (i < j) /\ ~ (j < i)
    BY <2>1 DEF InOrder
  <2> QED
    BY <1>2, <2>2
<1>5. f \in Injection(1 .. N, Fresh(taken))
  BY <1>4 DEF Injection, IsInjective
<1>6. Cardinality(1 .. N) = N
  BY <1>2, FS_Interval
<1> HIDE DEF N
<1>7. f \in Surjection(1 .. N, Fresh(taken))
  BY <1>2, <1>5, <1>6, FS_Injection DEF N
<1>8. \A k \in Fresh(taken) : \E i \in 1 .. N : f[i] = k
  BY <1>7 DEF Surjection
<1> QED
  BY <1>2, <1>4, <1>8 DEF N

(* A turn that says something is fresh, or repeats a fresh one, or one     *)
(* that was seen before.                                                   *)
LEMMA FirstOfItsText ==
  ASSUME NEW taken \in Seq(Turn), NEW k \in 1 .. Len(taken),
         text'[taken[k]] \notin BadText \cup seen
  PROVE  \E i \in Fresh(taken) : text'[taken[i]] = text'[taken[k]]
<1> DEFINE T == {i \in 1 .. Len(taken) : text'[taken[i]] = text'[taken[k]]}
<1>1. T \subseteq Nat /\ k \in T
  OBVIOUS
<1>2. PICK i \in T : \A m \in T : i <= m
  BY <1>1, LeastOf
<1>3. \A j \in 1 .. i - 1 : text'[taken[j]] # text'[taken[i]]
  BY <1>1, <1>2
<1>4. i \in Fresh(taken)
  BY <1>2, <1>3 DEF Fresh
<1> QED
  BY <1>2, <1>4

(* What the chain, and what is kept, become of it. *)
LEMMA TakeInv ==
  ASSUME BridgeTypeOK, JobsInv, KeptInv,
         NEW jobs \in Seq(Turn \cup {Drain}), NEW taken \in Seq(Turn),
         Take(jobs, taken),
         nturn' \in 0 .. MaxTurn, nturn <= nturn',
         ToSet(taken) \subseteq 1 .. nturn', ToSet(taken) \cap offered = {},
         \A t \in 1 .. nturn' : text'[t] \in Text,
         \A t \in 1 .. nturn : text'[t] = text[t],
         UNCHANGED <<temp, failed, stored, refused, lost>>,
         \A n \in 1 .. Len(jobs) : jobs[n] # Drain => jobs[n] \in offered,
         \A m, n \in 1 .. Len(jobs) : jobs[m] = jobs[n] /\ jobs[m] # Drain => m = n,
         \A n \in 1 .. Len(jobs) :
           n > 1 \/ phase' \notin InRequest => jobs[n] \notin temp \cup failed,
         Len(jobs) = 0 => phase' \notin InRequest,
         \A s \in 1 .. nturn : s \in ToSet(chain) =>
           s \in ToSet(jobs) \cup stored \cup temp \cup failed \cup refused \cup lost
  PROVE  /\ chain' \in Seq(Turn \cup {Drain}) /\ Len(chain') >= Len(jobs)
         /\ \A n \in 1 .. Len(jobs) : chain'[n] = jobs[n]
         /\ offered' = offered \cup ToSet(taken) /\ seen' \subseteq Text \ BadText
         /\ JobsInv' /\ KeptInv'
<1> DEFINE N == Cardinality(Fresh(taken))
<1>0. PICK f \in [1 .. N -> Fresh(taken)] :
        InOrder(f) /\ chain' = jobs \o [i \in DOMAIN f |-> taken[f[i]]]
  BY DEF Take
<1>1. /\ N \in Nat /\ chain' = jobs \o [i \in 1 .. N |-> taken[f[i]]]
      /\ \A i, j \in 1 .. N : f[i] = f[j] => i = j
      /\ \A k \in Fresh(taken) : \E i \in 1 .. N : f[i] = k
  BY <1>0, TakeTakes
<1>n. N \in Nat
  BY <1>1
<1> HIDE DEF N
<1> DEFINE g == [i \in 1 .. N |-> taken[f[i]]]
<1>2. /\ Fresh(taken) \subseteq 1 .. Len(taken)
      /\ \A i \in Fresh(taken) : /\ taken[i] \in Turn /\ taken[i] \in ToSet(taken)
                                 /\ text'[taken[i]] \notin BadText \cup seen
      /\ \A i, j \in Fresh(taken) : i # j => taken[i] # taken[j]
  <2>1. Fresh(taken) \subseteq 1 .. Len(taken) /\ DOMAIN taken = 1 .. Len(taken) /\ Len(taken) \in Nat
    BY DEF Fresh
  <2>2. \A i \in Fresh(taken) : /\ taken[i] \in Turn /\ taken[i] \in ToSet(taken)
                                /\ text'[taken[i]] \notin BadText \cup seen
    BY <2>1 DEF Fresh, ToSet
  <2>3. ASSUME NEW i \in Fresh(taken), NEW j \in Fresh(taken), i < j
        PROVE  taken[i] # taken[j]
    <3>1. i \in 1 .. j - 1
      BY <2>1, <2>3
    <3> QED
      BY <3>1 DEF Fresh
  <2>4. ASSUME NEW i \in Fresh(taken), NEW j \in Fresh(taken), i # j
        PROVE  taken[i] # taken[j]
    <3>1. i < j \/ j < i
      BY <2>1, <2>4
    <3> QED
      BY <2>3, <3>1
  <2> QED
    BY <2>1, <2>2, <2>4
<1>3. g \in Seq(Turn) /\ Len(g) = N /\ \A i \in 1 .. N : g[i] = taken[f[i]]
  BY <1>2, <1>n
<1>4. /\ chain' = jobs \o g
      /\ \A i \in 1 .. N : /\ g[i] \in Turn /\ g[i] \in ToSet(taken)
                           /\ text'[g[i]] \notin BadText \cup seen
      /\ \A i, j \in 1 .. N : g[i] = g[j] => i = j
  BY <1>1, <1>2, <1>3
<1>5. \A k \in Fresh(taken) : \E i \in 1 .. N : g[i] = taken[k]
  BY <1>1, <1>3
<1> HIDE DEF g
<1>6. /\ chain' \in Seq(Turn \cup {Drain}) /\ Len(chain') = Len(jobs) + N /\ Len(jobs) \in Nat
      /\ \A n \in 1 .. Len(jobs) : chain'[n] = jobs[n]
      /\ \A n \in Len(jobs) + 1 .. Len(jobs) + N : chain'[n] = g[n - Len(jobs)]
  <2>1. g \in Seq(Turn \cup {Drain})
    BY <1>3
  <2> QED
    BY <1>3, <1>4, <2>1
<1>7. \A n \in 1 .. Len(chain') :
        \/ n \in 1 .. Len(jobs)
        \/ n \in Len(jobs) + 1 .. Len(jobs) + N /\ n - Len(jobs) \in 1 .. N
  BY <1>6, <1>n
<1>8. offered' = offered \cup ToSet(taken)
  BY DEF Take
<1>9. seen' \subseteq Text \ BadText
  <2>1. seen' = seen \cup {text'[taken[i]] : i \in Fresh(taken)}
    BY DEF Take
  <2>2. \A i \in Fresh(taken) : text'[taken[i]] \in Text
    BY <1>2
  <2> QED
    BY <1>2, <2>1, <2>2 DEF BridgeTypeOK
<1>10. JobsInv'
  <2>1. ASSUME NEW n \in 1 .. Len(chain'), chain'[n] # Drain
        PROVE  chain'[n] \in offered'
    BY <1>4, <1>6, <1>7, <1>8, <2>1
  <2>2. ASSUME NEW m \in 1 .. Len(chain'), NEW n \in 1 .. Len(chain'),
               chain'[m] = chain'[n], chain'[m] # Drain
        PROVE  m = n
    <3>1. CASE m \in 1 .. Len(jobs) /\ n \in 1 .. Len(jobs)
      BY <1>6, <2>2, <3>1
    <3>2. CASE m \notin 1 .. Len(jobs) /\ n \notin 1 .. Len(jobs)
      <4>1. m - Len(jobs) = n - Len(jobs)
        BY <1>4, <1>6, <1>7, <2>2, <3>2
      <4> QED
        BY <1>6, <4>1
    <3>3. CASE m \in 1 .. Len(jobs) /\ n \notin 1 .. Len(jobs)
      <4>1. chain'[m] \in offered /\ chain'[n] \in ToSet(taken)
        BY <1>4, <1>6, <1>7, <2>2, <3>3
      <4> QED
        BY <2>2, <4>1
    <3>4. CASE m \notin 1 .. Len(jobs) /\ n \in 1 .. Len(jobs)
      <4>1. chain'[n] \in offered /\ chain'[m] \in ToSet(taken)
        BY <1>4, <1>6, <1>7, <2>2, <3>4
      <4> QED
        BY <2>2, <4>1
    <3> QED
      BY <3>1, <3>2, <3>3, <3>4
  <2>3. ASSUME NEW n \in 1 .. Len(chain'), n > 1 \/ phase' \notin InRequest
        PROVE  chain'[n] \notin temp' \cup failed'
    <3>1. CASE n \in 1 .. Len(jobs)
      BY <1>6, <2>3, <3>1
    <3>2. CASE n \notin 1 .. Len(jobs)
      <4>1. chain'[n] \in ToSet(taken)
        BY <1>4, <1>6, <1>7, <3>2
      <4> QED
        BY <4>1 DEF BridgeTypeOK
    <3> QED
      BY <3>1, <3>2
  <2> QED
    BY <2>1, <2>2, <2>3 DEF JobsInv, InRequest
<1>11. ToSet(jobs) \subseteq ToSet(chain') /\ \A i \in 1 .. N : g[i] \in ToSet(chain')
  <2>1. \A n \in 1 .. Len(chain') : chain'[n] \in ToSet(chain')
    BY <1>6, ToSetMembers
  <2>2. \A i \in 1 .. N : /\ Len(jobs) + i \in Len(jobs) + 1 .. Len(jobs) + N
                          /\ Len(jobs) + i \in 1 .. Len(chain')
                          /\ (Len(jobs) + i) - Len(jobs) = i
    BY <1>6, <1>n
  <2>3. \A i \in 1 .. N : chain'[Len(jobs) + i] = g[i]
    BY <1>6, <2>2
  <2>4. \A n \in 1 .. Len(jobs) : n \in 1 .. Len(chain')
    BY <1>6, <1>n
  <2>5. \A x \in ToSet(jobs) : \E n \in 1 .. Len(jobs) : jobs[n] = x
    BY ToSetMembers
  <2>6. ToSet(jobs) \subseteq ToSet(chain')
    BY <1>6, <2>1, <2>4, <2>5
  <2>7. \A i \in 1 .. N : g[i] \in ToSet(chain')
    BY <2>1, <2>2, <2>3
  <2> QED
    BY <2>6, <2>7
<1>12. KeptInv'
  <2>1. \A s \in 1 .. nturn : s \in Kept => s \in Kept'
    BY <1>11 DEF Kept
  <2>2. \A s \in 1 .. nturn : s \in 1 .. nturn'
    BY DEF BridgeTypeOK
  <2>3. \A x \in Text : Heard(x) => \E s \in 1 .. nturn' : text'[s] = x /\ s \in Kept'
    BY <2>1, <2>2 DEF KeptInv
  <2>4. ASSUME NEW k \in Fresh(taken)
        PROVE  \E s \in 1 .. nturn' : text'[s] = text'[taken[k]] /\ s \in Kept'
    <3>1. PICK i \in 1 .. N : g[i] = taken[k]
      BY <1>5
    <3>2. g[i] \in 1 .. nturn' /\ g[i] \in Kept'
      BY <1>4, <1>11 DEF Kept
    <3> QED
      BY <3>1, <3>2
  <2>5. ASSUME NEW x \in Text, x \in seen'
        PROVE  \E s \in 1 .. nturn' : text'[s] = x /\ s \in Kept'
    <3>1. x \in seen \/ \E k \in Fresh(taken) : x = text'[taken[k]]
      BY <2>5 DEF Take
    <3> QED
      BY <2>3, <2>4, <3>1 DEF Heard
  <2>6. ASSUME NEW t \in offered', text'[t] \notin BadText
        PROVE  \E s \in 1 .. nturn' : text'[s] = text'[t] /\ s \in Kept'
    <3>1. CASE t \in offered
      <4>1. t \in 1 .. nturn /\ text'[t] = text[t] /\ text[t] \in Text
        BY <3>1 DEF BridgeTypeOK, KeptInv
      <4> QED
        BY <2>3, <2>6, <3>1, <4>1 DEF Heard
    <3>2. CASE t \in ToSet(taken)
      <4>1. PICK k \in 1 .. Len(taken) : taken[k] = t
        BY <3>2, ToSetMembers
      <4>2. text'[t] \in Text
        BY <3>2
      <4>3. CASE text'[t] \in seen
        BY <2>3, <4>2, <4>3 DEF Heard
      <4>4. CASE text'[t] \notin seen
        <5>1. PICK i \in Fresh(taken) : text'[taken[i]] = text'[t]
          BY <2>6, <4>1, <4>4, FirstOfItsText
        <5> QED
          BY <2>4, <5>1
      <4> QED
        BY <4>3, <4>4
    <3> QED
      BY <1>8, <3>1, <3>2
  <2> QED
    BY <2>5, <2>6 DEF KeptInv, Heard
<1>13. Len(chain') >= Len(jobs)
  BY <1>6, <1>n
<1> QED
  BY <1>6, <1>8, <1>9, <1>10, <1>12, <1>13

----------------------------------------------------------------------------
(* The steps *)

LEMMA FirstJob ==
  ASSUME chain \in Seq(Turn \cup {Drain}), NEW j, First(j)
  PROVE  Len(chain) > 0 /\ chain[1] = j
BY DEF First

(* Nothing that is kept is let go, and nothing new is heard. *)
LEMMA KeptStays ==
  ASSUME KeptInv, UNCHANGED <<text, nturn, offered>>, seen' \subseteq seen,
         \A s \in 1 .. nturn : s \in Kept => s \in Kept'
  PROVE  KeptInv'
BY DEF KeptInv, Heard

(* The next job begins. *)
LEMMA NextJob ==
  ASSUME BridgeTypeOK, JobsInv, Len(chain) > 0, chain' = Tail(chain),
         UNCHANGED offered, temp' \cup failed' \subseteq temp \cup failed
  PROVE  /\ chain' \in Seq(Turn \cup {Drain}) /\ Len(chain') = Len(chain) - 1
         /\ \A n \in 1 .. Len(chain') : chain'[n] = chain[n + 1]
         /\ ToSet(chain) = ToSet(chain') \cup {chain[1]}
         /\ JobsInv'
<1>1. /\ chain' \in Seq(Turn \cup {Drain}) /\ Len(chain') = Len(chain) - 1
      /\ \A n \in 1 .. Len(chain') : chain'[n] = chain[n + 1]
      /\ ToSet(chain) = ToSet(chain') \cup {chain[1]}
  BY ToSetTail DEF BridgeTypeOK
<1>2. Len(chain) \in Nat /\ \A n \in 1 .. Len(chain') : n + 1 \in 1 .. Len(chain) /\ n + 1 > 1
  BY <1>1 DEF BridgeTypeOK
<1>3. \A n \in 1 .. Len(chain') : chain'[n] # Drain => chain'[n] \in offered'
  BY <1>1, <1>2 DEF JobsInv
<1>4. ASSUME NEW m \in 1 .. Len(chain'), NEW n \in 1 .. Len(chain'),
             chain'[m] = chain'[n], chain'[m] # Drain
      PROVE  m = n
  <2>1. m + 1 = n + 1
    BY <1>1, <1>2, <1>4 DEF JobsInv
  <2> QED
    BY <2>1
<1>5. \A n \in 1 .. Len(chain') : chain'[n] \notin temp' \cup failed'
  BY <1>1, <1>2 DEF JobsInv
<1> QED
  BY <1>1, <1>3, <1>4, <1>5 DEF JobsInv

LEMMA BridgeInitInv == MInit => BridgeInv
<1> SUFFICES ASSUME MInit PROVE BridgeInv
  OBVIOUS
<1>1. BridgeTypeOK
  BY MemoriaAssumption, FaultAssumption DEF MInit, BridgeTypeOK, Drain
<1>2. PhaseInv /\ JobsInv
  BY DEF MInit, PhaseInv, JobsInv, InRequest
<1>3. PlacesInv
  BY DEF MInit, PlacesInv, ToSet
<1>4. KeptInv
  BY DEF MInit, KeptInv, Heard
<1> QED
  BY <1>1, <1>2, <1>3, <1>4 DEF BridgeInv

LEMMA EnqueueTurnInv ==
  ASSUME BridgeInv, NEW x \in Text, EnqueueTurn(x)
  PROVE  BridgeInv'
<1> USE DEF BridgeInv
<1> DEFINE taken == <<nturn + 1>>
<1>1. /\ nturn < MaxTurn /\ nturn' = nturn + 1 /\ text' = [text EXCEPT ![nturn + 1] = x]
      /\ Take(chain, taken)
      /\ UNCHANGED <<phase, hook, disk, net, lost, faults>>
      /\ phase \notin {"renamed", "read"}
  BY DEF EnqueueTurn, Comes, ThreadIsFree
<1>2. nturn \in Nat /\ nturn + 1 \in Turn /\ MaxTurn \in Nat /\ nturn' \in 0 .. MaxTurn /\ nturn <= nturn'
  BY <1>1, MemoriaAssumption DEF BridgeTypeOK, Turn
<1>3. text' \in [Turn -> Text \cup {None}]
  BY <1>1 DEF BridgeTypeOK
<1>4. \A t \in 1 .. nturn' : t = nturn + 1 \/ t \in 1 .. nturn
  BY <1>1, <1>2
<1>5. \A t \in 1 .. nturn : t \in 1 .. nturn' /\ t # nturn + 1 /\ t \in Turn
  BY <1>1, <1>2 DEF Turn
<1>6. text'[nturn + 1] = x /\ \A t \in 1 .. nturn : text'[t] = text[t]
  BY <1>1, <1>2, <1>5 DEF BridgeTypeOK
<1>7. taken \in Seq(Turn) /\ ToSet(taken) = {nturn + 1}
  BY <1>2 DEF ToSet
<1>8. ToSet(taken) \subseteq 1 .. nturn' /\ ToSet(taken) \cap offered = {}
  BY <1>1, <1>2, <1>5, <1>7 DEF BridgeTypeOK
<1>9. \A t \in 1 .. nturn' : text'[t] \in Text
  BY <1>4, <1>6 DEF KeptInv
<1> HIDE DEF taken
<1>10. chain \in Seq(Turn \cup {Drain}) /\ Len(chain) \in Nat
  BY DEF BridgeTypeOK
<1>11. Len(chain) = 0 => phase' \notin InRequest
  BY <1>1, <1>10 DEF PhaseInv, InRequest
<1>12. UNCHANGED <<temp, failed, stored, refused, lost>>
  BY <1>1 DEF disk, net
<1>13. /\ chain' \in Seq(Turn \cup {Drain}) /\ Len(chain') >= Len(chain)
       /\ \A n \in 1 .. Len(chain) : chain'[n] = chain[n]
       /\ offered' = offered \cup ToSet(taken) /\ seen' \subseteq Text \ BadText
       /\ JobsInv' /\ KeptInv'
  <2>1. /\ \A n \in 1 .. Len(chain) : chain[n] # Drain => chain[n] \in offered
        /\ \A m, n \in 1 .. Len(chain) : chain[m] = chain[n] /\ chain[m] # Drain => m = n
        /\ \A n \in 1 .. Len(chain) :
             n > 1 \/ phase' \notin InRequest => chain[n] \notin temp \cup failed
    BY <1>1 DEF JobsInv
  <2>2. \A s \in 1 .. nturn : s \in ToSet(chain) =>
          s \in ToSet(chain) \cup stored \cup temp \cup failed \cup refused \cup lost
    OBVIOUS
  <2> QED
    BY <1>1, <1>2, <1>6, <1>7, <1>8, <1>9, <1>10, <1>11, <1>12, <2>1, <2>2, TakeInv
<1>14. BridgeTypeOK'
  BY <1>1, <1>2, <1>3, <1>5, <1>7, <1>8, <1>13 DEF BridgeTypeOK, hook, disk, net
<1>15. PhaseInv'
  BY <1>1, <1>10, <1>13 DEF PhaseInv, hook, disk, net, InRequest
<1>16. PlacesInv'
  BY <1>1, <1>4, <1>5, <1>7, <1>8, <1>13 DEF PlacesInv, hook
<1> QED
  BY <1>13, <1>14, <1>15, <1>16

LEMMA HookWritesInv ==
  ASSUME BridgeInv, NEW x \in Text, HookWrites(x)
  PROVE  BridgeInv'
<1> USE DEF BridgeInv
<1>1. /\ nturn < MaxTurn /\ nturn' = nturn + 1 /\ text' = [text EXCEPT ![nturn + 1] = x]
      /\ hookFile' = Append(hookFile, nturn + 1)
      /\ UNCHANGED <<queue, phase, procFile, raw, orphans, disk, net, lost, faults>>
  BY DEF HookWrites, Comes
<1>2. nturn \in Nat /\ nturn + 1 \in Turn /\ MaxTurn \in Nat /\ nturn' \in 0 .. MaxTurn
  BY <1>1, MemoriaAssumption DEF BridgeTypeOK, Turn
<1>3. hookFile' \in Seq(Turn) /\ ToSet(hookFile') = ToSet(hookFile) \cup {nturn + 1}
  BY <1>1, <1>2, ToSetAppend DEF BridgeTypeOK
<1>4. 1 .. nturn' = 1 .. nturn \cup {nturn + 1} /\ nturn + 1 \notin 1 .. nturn
      /\ 1 .. nturn \subseteq Turn
  BY <1>1, <1>2 DEF Turn
<1>5. BridgeTypeOK'
  <2>1. text' \in [Turn -> Text \cup {None}]
    BY <1>1 DEF BridgeTypeOK
  <2> QED
    BY <1>1, <1>2, <1>3, <1>4, <2>1 DEF BridgeTypeOK, queue, disk, net
<1>6. PhaseInv' /\ JobsInv'
  BY <1>1 DEF PhaseInv, JobsInv, queue, disk, net, InRequest
<1>7. PlacesInv'
  BY <1>1, <1>3, <1>4 DEF PlacesInv, queue
<1>8. KeptInv'
  <2>1. text'[nturn + 1] = x /\ \A t \in 1 .. nturn : text'[t] = text[t]
    BY <1>1, <1>2, <1>4 DEF BridgeTypeOK
  <2>2. \A y : Heard(y)' => Heard(y)
    BY <1>1, <2>1 DEF Heard, queue, BridgeTypeOK
  <2>3. Kept' = Kept
    BY <1>1 DEF Kept, queue, disk, net
  <2> QED
    BY <1>4, <2>1, <2>2, <2>3 DEF KeptInv
<1> QED
  BY <1>5, <1>6, <1>7, <1>8

LEMMA ForgetInv ==
  ASSUME BridgeInv, NEW x \in Text, Forget(x)
  PROVE  BridgeInv'
<1> USE DEF BridgeInv
<1>1. /\ seen' = seen \ {x}
      /\ UNCHANGED <<input, chain, offered, phase, hook, disk, net, lost, faults>>
  BY DEF Forget
<1>2. BridgeTypeOK' /\ PhaseInv' /\ JobsInv' /\ PlacesInv'
  BY <1>1 DEF BridgeTypeOK, PhaseInv, JobsInv, PlacesInv, input, hook, disk, net, InRequest
<1>3. KeptInv'
  BY <1>1, KeptStays DEF Kept, input, disk, net
<1> QED
  BY <1>2, <1>3

LEMMA PollInv ==
  ASSUME BridgeInv, Poll
  PROVE  BridgeInv'
<1> USE DEF BridgeInv
<1>1. /\ phase \notin {"renamed", "read"} /\ chain' = Append(chain, Drain)
      /\ UNCHANGED <<input, seen, offered, phase, hook, disk, net, lost, faults>>
  BY DEF Poll, ThreadIsFree
<1>2. /\ chain \in Seq(Turn \cup {Drain}) /\ Len(chain) \in Nat
      /\ chain' \in Seq(Turn \cup {Drain}) /\ ToSet(chain') = ToSet(chain) \cup {Drain}
      /\ Len(chain') = Len(chain) + 1 /\ chain'[Len(chain) + 1] = Drain
      /\ \A n \in 1 .. Len(chain) : chain'[n] = chain[n]
  <2>1. chain \in Seq(Turn \cup {Drain}) /\ Drain \in Turn \cup {Drain}
    BY DEF BridgeTypeOK
  <2>2. chain' \in Seq(Turn \cup {Drain}) /\ ToSet(chain') = ToSet(chain) \cup {Drain}
    BY <1>1, <2>1, ToSetAppend
  <2>3. /\ Len(chain) \in Nat /\ Len(chain') = Len(chain) + 1
        /\ chain'[Len(chain) + 1] = Drain
        /\ \A n \in 1 .. Len(chain) : chain'[n] = chain[n]
    BY <1>1, <2>1
  <2> QED
    BY <2>1, <2>2, <2>3
<1>3. BridgeTypeOK'
  BY <1>1, <1>2 DEF BridgeTypeOK, input, hook, disk, net
<1>4. PhaseInv'
  BY <1>1, <1>2 DEF PhaseInv, hook, disk, net, InRequest
<1>5. Drain \notin temp \cup failed
  BY <1>1 DEF BridgeTypeOK, Drain
<1>6. JobsInv'
  <2>1. \A n \in 1 .. Len(chain') : n \in 1 .. Len(chain) \/ n = Len(chain) + 1
    BY <1>2
  <2>2. \A n \in 1 .. Len(chain') : chain'[n] # Drain => n \in 1 .. Len(chain) /\ chain'[n] = chain[n]
    BY <1>2, <2>1
  <2>3. \A n \in 1 .. Len(chain') :
          n > 1 \/ phase' \notin InRequest => chain'[n] \notin temp' \cup failed'
    BY <1>1, <1>2, <1>5, <2>1, <2>2 DEF JobsInv, disk
  <2> QED
    BY <1>1, <2>2, <2>3 DEF JobsInv, InRequest
<1>7. PlacesInv'
  BY <1>1 DEF PlacesInv, input, hook
<1>8. KeptInv'
  BY <1>1, <1>2, KeptStays DEF Kept, input, disk, net
<1> QED
  BY <1>3, <1>4, <1>6, <1>7, <1>8

(* The file operations of a drain *)
LEMMA DrainInv ==
  ASSUME BridgeInv, DrainBegins \/ DrainReads
  PROVE  BridgeInv'
<1> USE DEF BridgeInv
<1>c. chain \in Seq(Turn \cup {Drain}) /\ Len(chain) \in Nat
  BY DEF BridgeTypeOK
<1>1. CASE DrainBegins /\ LinkEnds /\ UNCHANGED <<hookFile, procFile, raw>>
  <2>1. /\ Len(chain) > 0 /\ chain[1] = Drain /\ phase = "free"
        /\ chain' = Tail(chain) /\ phase' = "free"
        /\ UNCHANGED <<input, seen, offered, hook, disk, net, lost, faults>>
    BY <1>1, <1>c, FirstJob DEF DrainBegins, LinkEnds, hook
  <2>2. /\ chain' \in Seq(Turn \cup {Drain}) /\ ToSet(chain) = ToSet(chain') \cup {chain[1]}
        /\ JobsInv'
    BY <2>1, NextJob DEF disk
  <2>3. BridgeTypeOK' /\ PhaseInv' /\ PlacesInv'
    BY <2>1, <2>2 DEF BridgeTypeOK, PhaseInv, PlacesInv, input, hook, disk, net, InRequest
  <2>4. Drain \notin 1 .. nturn
    BY DEF Drain
  <2>5. KeptInv'
    BY <2>1, <2>2, <2>4, KeptStays DEF Kept, input, disk, net
  <2> QED
    BY <2>2, <2>3, <2>5
<1>2. ASSUME Len(chain) > 0, chain[1] = Drain, phase' \in {"renamed", "read"},
             phase \notin InRequest,
             hookFile' \in Seq(Turn), procFile' \in Seq(Turn), raw' \in Seq(Turn),
             raw' = IF phase' = "read" THEN procFile' ELSE <<>>,
             PlacesInv',
             UNCHANGED <<input, queue, orphans, disk, net, lost, faults>>
      PROVE  BridgeInv'
  <2>1. BridgeTypeOK' /\ PhaseInv' /\ JobsInv'
    BY <1>2 DEF BridgeTypeOK, PhaseInv, JobsInv, input, queue, disk, net, InRequest
  <2>2. KeptInv'
    BY <1>2, KeptStays DEF Kept, input, queue, disk, net
  <2> QED
    BY <1>2, <2>1, <2>2
<1>3. CASE DrainBegins /\ RenameThenRead(phase) /\ phase' = "renamed" /\ UNCHANGED chain
  <2>1. /\ Len(chain) > 0 /\ chain[1] = Drain /\ phase = "free" /\ phase \notin InRequest
        /\ hookFile' = <<>> /\ procFile' = hookFile /\ raw' = raw /\ raw = <<>> /\ procFile = <<>>
        /\ UNCHANGED <<input, queue, orphans, disk, net, lost, faults>>
    BY <1>3, <1>c, FirstJob DEF DrainBegins, RenameThenRead, queue, InRequest, PhaseInv
  <2>2. hookFile' \in Seq(Turn) /\ procFile' \in Seq(Turn) /\ raw' \in Seq(Turn)
    BY <2>1 DEF BridgeTypeOK
  <2>3. ToSet(hookFile') = {} /\ ToSet(procFile) = {} /\ ToSet(procFile') = ToSet(hookFile)
    BY <2>1 DEF ToSet
  <2>4. PlacesInv'
    BY <2>1, <2>3 DEF PlacesInv, input, queue
  <2> QED
    BY <1>2, <1>3, <2>1, <2>2, <2>4
<1>4. CASE DrainReads
  <2>1. /\ phase = "renamed" /\ phase' = "read" /\ raw' = procFile
        /\ UNCHANGED <<hookFile, procFile>>
        /\ UNCHANGED <<input, queue, orphans, disk, net, lost, faults>>
    BY <1>4 DEF DrainReads, RenameThenRead
  <2>2. Len(chain) > 0 /\ chain[1] = Drain /\ phase \notin InRequest
    BY <2>1 DEF PhaseInv, InRequest
  <2>3. hookFile' \in Seq(Turn) /\ procFile' \in Seq(Turn) /\ raw' \in Seq(Turn)
    BY <2>1 DEF BridgeTypeOK
  <2>4. PlacesInv'
    BY <2>1 DEF PlacesInv, input, queue
  <2> QED
    BY <1>2, <2>1, <2>2, <2>3, <2>4
<1> QED
  BY <1>1, <1>3, <1>4 DEF DrainBegins

LEMMA DrainImportsInv ==
  ASSUME BridgeInv, DrainImports
  PROVE  BridgeInv'
<1> USE DEF BridgeInv
<1>1. /\ phase = "read" /\ phase' = "free" /\ procFile' = <<>> /\ raw' = <<>>
      /\ Take(Tail(chain), raw)
      /\ UNCHANGED <<input, hookFile, orphans, disk, net, lost, faults>>
  BY DEF DrainImports
<1>2. Len(chain) > 0 /\ chain[1] = Drain /\ raw = procFile /\ chain \in Seq(Turn \cup {Drain})
      /\ Len(chain) \in Nat
  BY <1>1 DEF PhaseInv, BridgeTypeOK
<1> DEFINE jobs == Tail(chain)
<1>3. /\ jobs \in Seq(Turn \cup {Drain}) /\ Len(jobs) = Len(chain) - 1
      /\ \A n \in 1 .. Len(chain) - 1 : jobs[n] = chain[n + 1]
      /\ ToSet(chain) = ToSet(jobs) \cup {Drain}
  BY <1>2, ToSetTail
<1> HIDE DEF jobs
<1>4. \A n \in 1 .. Len(jobs) : jobs[n] = chain[n + 1] /\ n + 1 \in 1 .. Len(chain) /\ n + 1 > 1
  BY <1>2, <1>3
<1>5. \A n \in 1 .. Len(jobs) : jobs[n] # Drain => jobs[n] \in offered
  BY <1>4 DEF JobsInv
<1>6. \A m, n \in 1 .. Len(jobs) : jobs[m] = jobs[n] /\ jobs[m] # Drain => m = n
  <2> SUFFICES ASSUME NEW m \in 1 .. Len(jobs), NEW n \in 1 .. Len(jobs),
                      jobs[m] = jobs[n], jobs[m] # Drain
               PROVE  m = n
    OBVIOUS
  <2>1. m + 1 = n + 1
    BY <1>4 DEF JobsInv
  <2> QED
    BY <2>1
<1>7. \A n \in 1 .. Len(jobs) :
        n > 1 \/ phase' \notin InRequest => jobs[n] \notin temp \cup failed
  BY <1>4 DEF JobsInv
<1>8. Len(jobs) = 0 => phase' \notin InRequest
  BY <1>1 DEF InRequest
<1>9. \A s \in 1 .. nturn : s \in ToSet(chain) =>
        s \in ToSet(jobs) \cup stored \cup temp \cup failed \cup refused \cup lost
  BY <1>3 DEF Drain
<1>10. /\ nturn' \in 0 .. MaxTurn /\ nturn <= nturn'
       /\ ToSet(raw) \subseteq 1 .. nturn' /\ ToSet(raw) \cap offered = {}
       /\ raw \in Seq(Turn)
       /\ \A t \in 1 .. nturn' : text'[t] \in Text
       /\ \A t \in 1 .. nturn : text'[t] = text[t]
       /\ UNCHANGED <<temp, failed, stored, refused, lost>>
  BY <1>1, <1>2 DEF BridgeTypeOK, PlacesInv, KeptInv, input, disk, net
<1>11. /\ chain' \in Seq(Turn \cup {Drain})
       /\ offered' = offered \cup ToSet(raw) /\ seen' \subseteq Text \ BadText
       /\ JobsInv' /\ KeptInv'
  <2>1. Take(jobs, raw)
    BY <1>1 DEF jobs
  <2> QED
    BY <1>3, <1>5, <1>6, <1>7, <1>8, <1>9, <1>10, <2>1, TakeInv
<1>12. BridgeTypeOK'
  <2>1. procFile' \in Seq(Turn) /\ raw' \in Seq(Turn)
    BY <1>1
  <2> QED
    BY <1>1, <1>10, <1>11, <2>1 DEF BridgeTypeOK, input, disk, net
<1>13. PhaseInv'
  BY <1>1 DEF PhaseInv, InRequest
<1>14. PlacesInv'
  <2>1. ToSet(procFile') = {}
    BY <1>1 DEF ToSet
  <2> QED
    BY <1>1, <1>2, <1>11, <2>1 DEF PlacesInv, input
<1> QED
  BY <1>11, <1>12, <1>13, <1>14

LEMMA DrainThrowsInv ==
  ASSUME BridgeInv, DrainThrows
  PROVE  BridgeInv'
<1> USE DEF BridgeInv
<1>c. chain \in Seq(Turn \cup {Drain}) /\ Len(chain) \in Nat
  BY DEF BridgeTypeOK
<1>1. /\ Len(chain) > 0 /\ chain[1] = Drain /\ phase \notin InRequest
      /\ orphans' = orphans \cup ToSet(procFile) /\ procFile' = <<>> /\ raw' = <<>>
      /\ chain' = Tail(chain) /\ phase' = "free" /\ faults' \in 0 .. MaxFault
      /\ UNCHANGED <<input, seen, offered, hookFile, disk, net, lost>>
  <2>1. Len(chain) > 0 /\ chain[1] = Drain /\ phase \notin InRequest
    BY <1>c, FirstJob DEF DrainThrows, PhaseInv, InRequest
  <2>2. faults' \in 0 .. MaxFault
    BY FaultAssumption DEF DrainThrows, Fault, BridgeTypeOK
  <2> QED
    BY <2>1, <2>2 DEF DrainThrows, LinkCatches
<1>2. /\ chain' \in Seq(Turn \cup {Drain}) /\ ToSet(chain) = ToSet(chain') \cup {chain[1]}
      /\ JobsInv'
  BY <1>1, NextJob DEF disk
<1>3. procFile' \in Seq(Turn) /\ raw' \in Seq(Turn) /\ ToSet(procFile') = {}
  BY <1>1 DEF ToSet
<1>4. BridgeTypeOK'
  BY <1>1, <1>2, <1>3 DEF BridgeTypeOK, PlacesInv, input, disk, net
<1>5. PhaseInv'
  BY <1>1 DEF PhaseInv, InRequest
<1>6. PlacesInv'
  BY <1>1, <1>3 DEF PlacesInv, input
<1>7. KeptInv'
  <2>1. Drain \notin 1 .. nturn
    BY DEF Drain
  <2> QED
    BY <1>1, <1>2, <2>1, KeptStays DEF Kept, input, disk, net
<1> QED
  BY <1>2, <1>4, <1>5, <1>6, <1>7

(* The request begins, goes on, or hangs; nothing else is disturbed. *)
LEMMA RequestInv ==
  ASSUME BridgeInv, NEW t \in Turn, Post(t) \/ ResponseBegins(t) \/ CutShort(t)
  PROVE  BridgeInv'
<1> USE DEF BridgeInv
<1>c. chain \in Seq(Turn \cup {Drain}) /\ Len(chain) \in Nat
  BY DEF BridgeTypeOK
<1>t. t # Drain
  BY DEF Turn, Drain
<1>1. CASE Post(t)
  <2>1. /\ Len(chain) > 0 /\ chain[1] = t /\ phase = "free"
        /\ temp' = temp \cup {t} /\ wire' = wire \cup {t} /\ phase' = "posted"
        /\ UNCHANGED <<input, queue, hook, failed, refused, stored, lost, faults>>
    BY <1>1, <1>c, FirstJob DEF Post
  <2>2. 1 \in 1 .. Len(chain)
    BY <1>c, <2>1
  <2>3. t \in offered /\ t \notin temp \cup failed
    BY <1>t, <2>1, <2>2 DEF JobsInv, InRequest
  <2>4. BridgeTypeOK' /\ PhaseInv' /\ PlacesInv'
    BY <2>1, <2>3 DEF BridgeTypeOK, PhaseInv, PlacesInv, input, queue, hook, InRequest
  <2>5. JobsInv'
    <3>1. ASSUME NEW n \in 1 .. Len(chain), n > 1
          PROVE  chain[n] \notin temp' \cup failed'
      BY <1>t, <2>1, <2>2, <3>1 DEF JobsInv
    <3>2. phase' \in InRequest
      BY <2>1 DEF InRequest
    <3> QED
      BY <2>1, <3>1, <3>2 DEF JobsInv, queue, InRequest
  <2>6. KeptInv'
    BY <2>1, KeptStays DEF Kept, input, queue
  <2> QED
    BY <2>4, <2>5, <2>6
<1>2. CASE ResponseBegins(t) \/ CutShort(t)
  <2>1. /\ Len(chain) > 0 /\ chain[1] = t /\ phase \in InRequest
        /\ phase' \in InRequest /\ (phase' = "success" => t \in stored)
        /\ wire' \subseteq wire /\ faults' \in 0 .. MaxFault
        /\ UNCHANGED <<input, queue, hook, disk, stored, lost>>
    <3>1. CASE ResponseBegins(t)
      BY <1>c, <3>1, FirstJob DEF ResponseBegins, InRequest, BridgeTypeOK
    <3>2. CASE CutShort(t)
      <4>1. faults' \in 0 .. MaxFault
        BY <3>2, FaultAssumption DEF CutShort, Fault, BridgeTypeOK
      <4> QED
        BY <1>c, <3>2, <4>1, FirstJob DEF CutShort, InRequest, net
    <3> QED
      BY <1>2, <3>1, <3>2
  <2>2. BridgeTypeOK' /\ PhaseInv' /\ PlacesInv'
    BY <2>1 DEF BridgeTypeOK, PhaseInv, PlacesInv, input, queue, hook, disk, InRequest
  <2>3. JobsInv'
    BY <2>1 DEF JobsInv, queue, disk
  <2>4. KeptInv'
    BY <2>1, KeptStays DEF Kept, input, queue, disk
  <2> QED
    BY <2>2, <2>3, <2>4
<1> QED
  BY <1>1, <1>2

(* The link of a turn ends: the payload stays, is put aside, or is deleted *)
(* when Memoria has the turn; or it could not be written.                  *)
LEMMA LinkEndsInv ==
  ASSUME BridgeInv, NEW t \in Turn,
         Synced(t) \/ PostFails(t) \/ PayloadRefused(t)
  PROVE  BridgeInv'
<1> USE DEF BridgeInv
<1>c. chain \in Seq(Turn \cup {Drain}) /\ Len(chain) \in Nat
  BY DEF BridgeTypeOK
<1>f. faults' \in {faults, faults + 1} /\ faults' \in 0 .. MaxFault
  BY FaultAssumption DEF Synced, PostFails, PayloadRefused, Fault, BridgeTypeOK
<1>1. /\ Len(chain) > 0 /\ chain[1] = t /\ chain' = Tail(chain) /\ phase' = "free"
      /\ phase \notin {"renamed", "read"}
      /\ UNCHANGED <<input, seen, offered, hook, net, lost>>
  BY <1>c, FirstJob DEF Synced, PostFails, PayloadRefused, LinkEnds, LinkCatches
<1>2. /\ temp' \cup failed' \subseteq temp \cup failed /\ temp' \cap failed' = {}
      /\ refused' \subseteq Turn
      /\ \A s \in 1 .. nturn : s \in temp \cup failed \cup refused =>
           s \in temp' \cup failed' \cup refused' \cup stored
      /\ t \in temp' \cup failed' \cup refused' \cup stored
  <2>1. CASE Synced(t)
    BY <1>1, <2>1 DEF Synced, PhaseInv, BridgeTypeOK, net
  <2>2. CASE PostFails(t)
    <3>1. t \in temp
      BY <1>1, <2>2 DEF PostFails, PhaseInv, InRequest
    <3> QED
      BY <2>2, <3>1 DEF PostFails, Preserved, BridgeTypeOK
  <2>3. CASE PayloadRefused(t)
    BY <2>3 DEF PayloadRefused, BridgeTypeOK
  <2> QED
    BY <2>1, <2>2, <2>3
<1>3. /\ chain' \in Seq(Turn \cup {Drain}) /\ ToSet(chain) = ToSet(chain') \cup {chain[1]}
      /\ JobsInv'
  BY <1>1, <1>2, NextJob
<1>4. BridgeTypeOK'
  BY <1>1, <1>2, <1>3, <1>f DEF BridgeTypeOK, input, hook, net
<1>5. PhaseInv' /\ PlacesInv'
  BY <1>1 DEF PhaseInv, PlacesInv, input, hook, InRequest
<1>6. KeptInv'
  BY <1>1, <1>2, <1>3, KeptStays DEF Kept, input, net
<1> QED
  BY <1>3, <1>4, <1>5, <1>6

LEMMA WireInv ==
  ASSUME BridgeInv, NEW t \in Turn, Stores(t) \/ WireLoses(t)
  PROVE  BridgeInv'
<1> USE DEF BridgeInv
<1>1. /\ wire' \subseteq wire /\ stored \subseteq stored' /\ stored' \subseteq stored \cup {t}
      /\ UNCHANGED <<input, queue, phase, hook, disk, lost, faults>>
  BY DEF Stores, WireLoses
<1>2. BridgeTypeOK' /\ PhaseInv' /\ JobsInv' /\ PlacesInv'
  BY <1>1 DEF BridgeTypeOK, PhaseInv, JobsInv, PlacesInv, input, queue, hook, disk, InRequest
<1>3. KeptInv'
  BY <1>1, KeptStays DEF Kept, input, queue, disk
<1> QED
  BY <1>2, <1>3

LEMMA CrashInv ==
  ASSUME BridgeInv, Crash
  PROVE  BridgeInv'
<1> USE DEF BridgeInv
<1>1. /\ lost' = lost \cup ((ToSet(chain) \cup ToSet(raw)) \ (temp \cup {Drain} \cup ToSet(procFile)))
      /\ orphans' = orphans \cup ToSet(procFile) /\ procFile' = <<>> /\ raw' = <<>>
      /\ seen' = {} /\ chain' = <<Drain>> /\ phase' = "free" /\ faults' \in 0 .. MaxFault
      /\ UNCHANGED <<input, offered, hookFile, disk, net>>
  BY FaultAssumption DEF Crash, Fault, BridgeTypeOK
<1>2. /\ chain' \in Seq(Turn \cup {Drain}) /\ Len(chain') = 1 /\ chain'[1] = Drain
      /\ procFile' \in Seq(Turn) /\ raw' \in Seq(Turn) /\ ToSet(procFile') = {}
  BY <1>1 DEF ToSet
<1>3. ToSet(chain) \subseteq Turn \cup {Drain} /\ ToSet(raw) \subseteq Turn
  BY ToSetMembers DEF BridgeTypeOK
<1>4. BridgeTypeOK'
  BY <1>1, <1>2, <1>3 DEF BridgeTypeOK, PlacesInv, input, disk, net
<1>5. PhaseInv'
  BY <1>1, <1>2 DEF PhaseInv, InRequest
<1>6. JobsInv'
  <2>1. Drain \notin temp' \cup failed'
    BY <1>1 DEF BridgeTypeOK, Drain, disk
  <2> QED
    BY <1>2, <2>1 DEF JobsInv
<1>7. PlacesInv'
  BY <1>1, <1>2 DEF PlacesInv, input
<1>8. KeptInv'
  <2>1. \A s \in 1 .. nturn : s \in ToSet(chain) => s # Drain /\ s \in offered
    <3>1. \A s : s \in ToSet(chain) => \E n \in 1 .. Len(chain) : chain[n] = s
      BY ToSetMembers DEF BridgeTypeOK
    <3> QED
      BY <3>1 DEF JobsInv, Drain
  <2>2. \A s \in 1 .. nturn : s \in Kept => s \in Kept'
    BY <1>1, <2>1 DEF Kept, PlacesInv, disk, net
  <2> QED
    BY <1>1, <2>2, KeptStays DEF input
<1> QED
  BY <1>4, <1>5, <1>6, <1>7, <1>8

LEMMA BridgeNextInv == BridgeInv /\ [MNext]_vars => BridgeInv'
<1> SUFFICES ASSUME BridgeInv, [MNext]_vars PROVE BridgeInv'
  OBVIOUS
<1>1. CASE \E x \in Text : EnqueueTurn(x) \/ HookWrites(x) \/ Forget(x)
  BY <1>1, EnqueueTurnInv, HookWritesInv, ForgetInv
<1>2. CASE Poll \/ DrainSteps \/ DrainThrows \/ Crash
  BY <1>2, PollInv, DrainInv, DrainImportsInv, DrainThrowsInv, CrashInv DEF DrainSteps
<1>3. CASE \E t \in Turn : Bridge(t) \/ PayloadRefused(t) \/ CutShort(t)
  BY <1>3, RequestInv, LinkEndsInv DEF Bridge
<1>4. CASE \E t \in Turn : Stores(t) \/ WireLoses(t)
  BY <1>4, WireInv
<1>5. CASE UNCHANGED vars
  BY <1>5 DEF vars, input, queue, hook, disk, net, BridgeInv, BridgeTypeOK, PhaseInv,
              JobsInv, PlacesInv, KeptInv, Kept, Heard, InRequest
<1> QED
  BY <1>1, <1>2, <1>3, <1>4, <1>5 DEF MNext

(* The inductive invariant holds of every reachable state. *)
THEOREM BridgeInvariance == MSpec => []BridgeInv
<1>1. MInit => BridgeInv
  BY BridgeInitInv
<1>2. BridgeInv /\ [MNext]_vars => BridgeInv'
  BY BridgeNextInv
<1> QED
  BY <1>1, <1>2, PTL DEF MSpec

(* enqueueSyncTurn: whatever fails, hangs or crashes, a turn that was       *)
(* handed over, or the one it repeats, is in the chain, stored or on disk, *)
(* but for the exceptions that KeptSomewhere names.                        *)
THEOREM TurnsAreKept == MSpec => []KeptSomewhere
<1>1. BridgeInv => KeptSomewhere
  <2> SUFFICES ASSUME BridgeInv, NEW t \in offered, text[t] \notin BadText
               PROVE  \E s \in Turn : text[s] = text[t] /\ s \in Kept
    BY DEF KeptSomewhere, Kept
  <2>1. t \in 1 .. nturn /\ text[t] \in Text /\ Heard(text[t])
    BY DEF BridgeInv, BridgeTypeOK, KeptInv, Heard
  <2>2. 1 .. nturn \subseteq Turn
    BY MemoriaAssumption DEF BridgeInv, BridgeTypeOK, Turn
  <2> QED
    BY <2>1, <2>2 DEF BridgeInv, KeptInv
<1> QED
  BY <1>1, BridgeInvariance, PTL

(* drainHookQueue: however appends, renames, drains and crashes come        *)
(* between each other, each line of the hook queue is in one place.        *)
THEOREM LinesAreInOnePlace == MSpec => []LineIsInOnePlace
<1>1. BridgeInv => LineIsInOnePlace
  <2> SUFFICES ASSUME BridgeInv PROVE LineIsInOnePlace
    OBVIOUS
  <2>1. MemoriaTypeOK
    <3>1. phase \in InRequest => Head(chain) \in temp
      BY DEF BridgeInv, BridgeTypeOK, PhaseInv, InRequest
    <3>2. 1 .. nturn \subseteq Turn
      BY MemoriaAssumption DEF BridgeInv, BridgeTypeOK, Turn
    <3>3. UNION {offered, orphans, temp, failed, refused, wire, stored, lost} \subseteq Turn
      BY <3>2 DEF BridgeInv, BridgeTypeOK
    <3> QED
      BY <3>1, <3>3 DEF BridgeInv, BridgeTypeOK, MemoriaTypeOK
  <2> SUFFICES ASSUME NEW t \in 1 .. nturn
               PROVE  LET places == <<ToSet(hookFile), ToSet(procFile), orphans, offered>>
                      IN  Cardinality({p \in DOMAIN places : t \in places[p]}) = 1
    BY <2>1 DEF LineIsInOnePlace
  <2> DEFINE places == <<ToSet(hookFile), ToSet(procFile), orphans, offered>>
             S == {p \in DOMAIN places : t \in places[p]}
  <2>2. \E p : S = {p}
    <3>1. DOMAIN places = {1, 2, 3, 4}
      OBVIOUS
    <3>2. /\ places[1] = ToSet(hookFile) /\ places[2] = ToSet(procFile)
          /\ places[3] = orphans /\ places[4] = offered
      OBVIOUS
    <3> HIDE DEF places
    <3>3. CASE t \in ToSet(hookFile)
      <4>1. S = {1}
        BY <3>1, <3>2, <3>3 DEF BridgeInv, PlacesInv
      <4> QED
        BY <4>1
    <3>4. CASE t \in ToSet(procFile)
      <4>1. S = {2}
        BY <3>1, <3>2, <3>4 DEF BridgeInv, PlacesInv
      <4> QED
        BY <4>1
    <3>5. CASE t \in orphans
      <4>1. S = {3}
        BY <3>1, <3>2, <3>5 DEF BridgeInv, PlacesInv
      <4> QED
        BY <4>1
    <3>6. CASE t \in offered
      <4>1. S = {4}
        BY <3>1, <3>2, <3>6 DEF BridgeInv, PlacesInv
      <4> QED
        BY <4>1
    <3> QED
      BY <3>3, <3>4, <3>5, <3>6 DEF BridgeInv, PlacesInv
  <2> HIDE DEF S
  <2>3. Cardinality(S) = 1
    BY <2>2, FS_Singleton
  <2> QED
    BY <2>3 DEF S
<1> QED
  BY <1>1, BridgeInvariance, PTL

----------------------------------------------------------------------------
(*****************************************************************************)
(* LegacyScope: whatever interrupts the migration, the index agrees with     *)
(* the rows, and what it rewrites can be restored.                           *)
(*****************************************************************************)

(* The scope of an owner is a scope. *)
LEMMA TargetIsScope ==
  ASSUME NEW e \in Evidence, Classified(e)
  PROVE  TargetScope(e) \in Scope
<1>1. e.owner \in Owners /\ e.owner # {}
  BY DEF Evidence, Classified
<1>2. PICK o \in Owner : e.owner = {o}
  BY <1>1 DEF Owners
<1>3. (CHOOSE w \in e.owner : TRUE) = o
  BY <1>2
<1>4. o.user \in User
  BY <1>2 DEF Owner
<1>. QED
  BY <1>3, <1>4 DEF TargetScope, Scope

LEMMA TypeStep ==
  ASSUME LegacyTypeOK, [Next]_lvars
  PROVE  LegacyTypeOK'
<1>. USE DEF LegacyTypeOK
<1>1. CASE StartsOrStops
  BY <1>1 DEF StartsOrStops, index, rows, trace
<1>2. ASSUME NEW s \in Session, WritesSession(s)
      PROVE  LegacyTypeOK'
  BY <1>2 DEF WritesSession, index
<1>3. ASSUME NEW s \in Session, WritesEvent(s)
      PROVE  LegacyTypeOK'
  BY <1>3 DEF WritesEvent, index, trace
<1>4. ASSUME NEW s \in Session, NEW n \in Name, BuildsIndex(s, n)
      PROVE  LegacyTypeOK'
  <2>1. [scope |-> scope[s], name |-> n] \in Topic
    BY DEF Topic
  <2>. QED
    BY <1>4, <2>1 DEF BuildsIndex, rows, trace
<1>5. ASSUME NEW f \in Scope, Preview(f)
      PROVE  LegacyTypeOK'
  BY <1>5 DEF Preview, index, rows, trace
<1>6. CASE FindsStopped
  BY <1>6 DEF FindsStopped, index, rows, trace
<1>7. CASE BacksUp
  BY <1>7 DEF BacksUp, index, rows
<1>8. CASE Rewrites
  <2>1. \A s \in Planned(from) : TargetScope(evidence[s]) \in Scope
    BY TargetIsScope DEF Planned
  <2>2. scope' \in [Session -> Scope]
    BY <1>8, <2>1 DEF Rewrites
  <2>3. indexed' \in [Session -> SUBSET Scope]
    BY <1>8 DEF Rewrites, Unindex
  <2>4. topics' \subseteq Topic /\ about' \subseteq Topic \X Session /\ roots' \subseteq Scope
    BY <1>8 DEF Rewrites, Unindex
  <2>. QED
    BY <1>8, <2>2, <2>3, <2>4 DEF Rewrites
<1>9. CASE Ends
  BY <1>9 DEF Ends, index, rows, trace
<1>10. CASE UNCHANGED lvars
  BY <1>10 DEF lvars, index, rows, trace
<1>. QED
  BY <1>1, <1>2, <1>3, <1>4, <1>5, <1>6, <1>7, <1>8, <1>9, <1>10 DEF Next

(* The migration takes its sessions out of the index before it moves them, *)
(* and a topic or a root goes only when nothing hangs on it.               *)
LEMMA IndexStep ==
  ASSUME LegacyTypeOK, IndexAgrees, [Next]_lvars
  PROVE  IndexAgrees'
<1>. USE DEF LegacyTypeOK, IndexAgrees
<1>1. ASSUME UNCHANGED <<index, sessions, scope>>
      PROVE  IndexAgrees'
  BY <1>1 DEF index
<1>2. ASSUME NEW s \in Session, WritesSession(s)
      PROVE  IndexAgrees'
  <2>1. indexed[s] = {} /\ \A t \in Topic : <<t, s>> \notin about
    BY <1>2 DEF WritesSession
  <2>2. \A r \in Session : r # s => scope'[r] = scope[r]
    BY <1>2 DEF WritesSession
  <2>. QED
    BY <1>2, <2>1, <2>2 DEF WritesSession, index
<1>3. ASSUME NEW s \in Session, NEW n \in Name, BuildsIndex(s, n)
      PROVE  IndexAgrees'
  BY <1>3 DEF BuildsIndex, rows
<1>4. CASE Rewrites
  <2>. DEFINE plan == Planned(from)
  <2>1. /\ sessions' = sessions
        /\ \A s \in Session : s \notin plan => scope'[s] = scope[s] /\ indexed'[s] = indexed[s]
        /\ \A s \in Session : s \in plan => indexed'[s] = {}
    BY <1>4 DEF Rewrites, Unindex
  <2>2. \A t \in Topic, s \in Session :
           <<t, s>> \in about' <=> <<t, s>> \in about /\ s \notin plan
    BY <1>4 DEF Rewrites, Unindex
  <2>3. \A t \in topics :
           t \in topics' <=> (t.scope = from => \E s \in sessions : <<t, s>> \in about')
    BY <1>4 DEF Rewrites, Unindex
  <2>4. /\ topics' \subseteq topics
        /\ \A f \in roots : f # from => f \in roots'
        /\ \A t \in topics' : t.scope = from /\ from \in roots => from \in roots'
    BY <1>4 DEF Rewrites, Unindex
  <2>5. (\A s \in Session : indexed[s] # {} => s \in sessions /\ indexed[s] = {scope[s]})'
    BY <2>1
  <2>6. ASSUME NEW t \in Topic, NEW s \in Session, <<t, s>> \in about'
        PROVE  t \in topics' /\ t.scope = scope'[s] /\ indexed'[s] # {}
    <3>1. <<t, s>> \in about /\ s \notin plan /\ t \in topics /\ s \in sessions
      BY <2>2, <2>6
    <3>. QED
      BY <2>1, <2>3, <2>6, <3>1
  <2>7. ASSUME NEW t \in topics'
        PROVE  t.scope \in roots'
    BY <2>4
  <2>. QED
    BY <2>5, <2>6, <2>7
<1>. QED
  BY <1>1, <1>2, <1>3, <1>4
  DEF Next, StartsOrStops, WritesEvent, Preview, FindsStopped, BacksUp, Ends, rows, lvars

(* From the backup to the transaction each row is in it or came later. *)
KeptBeforeRewriting ==
  tool = "backed" => \A s \in sessions : <<s, scope[s]>> \in kept \/ s \in late

LEMMA KeptStep ==
  ASSUME LegacyTypeOK, KeptBeforeRewriting, RewrittenIsKept, [Next]_lvars
  PROVE  KeptBeforeRewriting' /\ RewrittenIsKept'
<1>. USE DEF LegacyTypeOK, KeptBeforeRewriting, RewrittenIsKept
<1>1. ASSUME UNCHANGED <<sessions, scope, trace>>, tool' = tool \/ tool' # "backed"
      PROVE  KeptBeforeRewriting' /\ RewrittenIsKept'
  BY <1>1 DEF trace
<1>2. ASSUME NEW s \in Session, WritesSession(s)
      PROVE  KeptBeforeRewriting' /\ RewrittenIsKept'
  BY <1>2 DEF WritesSession
<1>3. CASE BacksUp
  BY <1>3 DEF BacksUp, rows
<1>4. CASE Rewrites
  <2>1. \A s \in Planned(from) : s \in sessions /\ scope[s] = from
    BY DEF Planned
  <2>. QED
    BY <1>4, <2>1 DEF Rewrites
<1>. QED
  BY <1>1, <1>2, <1>3, <1>4
  DEF Next, StartsOrStops, WritesEvent, BuildsIndex, Preview, FindsStopped, Ends, rows, lvars

----------------------------------------------------------------------------
(* runLegacyScopeMigration, killed and run again at any point beside a     *)
(* Memoria that may write: no session is left in an index node of the scope*)
(* it was taken out of (applyPlan), which the index builder would never    *)
(* put right.                                                              *)
THEOREM IndexAgreesAlways == Spec => []IndexAgrees
<1>1. Init => LegacyTypeOK /\ IndexAgrees
  BY DEF Init, LegacyTypeOK, IndexAgrees
<1>2. LegacyTypeOK /\ IndexAgrees /\ [Next]_lvars => LegacyTypeOK' /\ IndexAgrees'
  BY TypeStep, IndexStep
<1>. QED
  BY <1>1, <1>2, PTL DEF Spec

(* writeMigration: a row that the tool has rewritten is in a backup as it  *)
(* was before, whatever became of the run, except for what a Memoria that  *)
(* checkMemoriaStopped has missed wrote after the backup.                  *)
THEOREM RewrittenIsKeptAlways == Spec => []RewrittenIsKept
<1>1. Init => LegacyTypeOK /\ KeptBeforeRewriting /\ RewrittenIsKept
  BY DEF Init, LegacyTypeOK, KeptBeforeRewriting, RewrittenIsKept
<1>2. LegacyTypeOK /\ KeptBeforeRewriting /\ RewrittenIsKept /\ [Next]_lvars
        => LegacyTypeOK' /\ KeptBeforeRewriting' /\ RewrittenIsKept'
  BY TypeStep, KeptStep
<1>. QED
  BY <1>1, <1>2, PTL DEF Spec

----------------------------------------------------------------------------
(*****************************************************************************)
(* MemoryStore, for any messages, tools and faults.  An entry of an index    *)
(* has the number of the message it was made of, whatever happens; while     *)
(* one operation is under way alone, its statement tells what the indexes    *)
(* still lack.                                                               *)
(*****************************************************************************)

(* The statements of a process, and those that make a row's entries.       *)
Indexing   == {"index text", "clear summary", "index summary"}
StatementNames ==
  Indexing \cup {"down", "idle", "command", "update", "read again", "delete rows",
                 "delete texts", "delete summaries", "clear texts", "clear summaries",
                 "read summaries", "rebuild"}

Row == [msg : Ids, role : {"user", "model"}, turn : UserTurn \cup {NoTurn},
        ts : Ids, sum : Versions, mid : BOOLEAN]

Snapshots == UNION {[S -> Summary] : S \in SUBSET Ids}

JobType == [id : 0 .. MaxMsg, msg : 0 .. MaxMsg, ids : SUBSET Ids, sum : Versions,
            ts : 0 .. MaxMsg, by : UserTurn \cup {NoTurn}, snap : Snapshots]

TablesOK ==
  /\ DOMAIN messages \subseteq 1 .. last /\ messages \in [DOMAIN messages -> Row]
  /\ DOMAIN fts \subseteq Ids /\ fts \in [DOMAIN fts -> Ids]
  /\ DOMAIN sfts \subseteq Ids /\ sfts \in [DOMAIN sfts -> Summary]
  /\ last \in 0 .. MaxMsg /\ now \in 0 .. last

WorkOK ==
  /\ at \in [Proc -> StatementNames]
  /\ job \in [Proc -> JobType]
  /\ turns \in [UserTurn -> {"new", "saving", "open", "replying", "answered", "ended"}]
  /\ key \in [UserTurn -> 0 .. MaxMsg]
  /\ {mixed, ftsSound, sftsSound} \subseteq BOOLEAN

StoreTypeOK == TablesOK /\ WorkOK

(* What the indexes have under a number was made of the message with it.   *)
NumberedTables ==
  /\ \A i \in DOMAIN messages : messages[i].msg = i
  /\ \A i \in DOMAIN fts : fts[i] = i
  /\ \A i \in DOMAIN sfts : sfts[i].msg = i

NumberedJob(p) ==
  /\ at[p] \in Indexing => job[p].id \in Ids /\ job[p].msg = job[p].id
  /\ \A i \in DOMAIN job[p].snap : job[p].snap[i].msg = i

NumberInv == NumberedTables /\ \A p \in Proc : NumberedJob(p)

(* If no two operations met, at most one is under way; when the last of    *)
(* those that met is over, the summaries' index does not count as sound.   *)
MixedInv ==
  /\ ~mixed => Resting(Main) \/ Resting(Cli)
  /\ mixed /\ AllRest => ~sftsSound

(* How the index of the texts stands to the rows while p alone works.      *)
TextsAt(p) ==
  /\ at[p] \notin {"index text", "delete texts", "clear texts"} => DOMAIN fts = DOMAIN messages
  /\ at[p] = "index text" => /\ job[p].id \in DOMAIN messages
                             /\ DOMAIN fts = DOMAIN messages \ {job[p].id}
  /\ at[p] = "delete texts" => DOMAIN fts \ job[p].ids = DOMAIN messages
  /\ at[p] = "clear texts" => DOMAIN messages = {}

(* What the process does leaves the texts alone, whoever else is at work.  *)
Rebuilding(p) == at[p] \in {"read summaries", "rebuild"}

TextsInv ==
  ftsSound =>
    /\ (\A p \in Proc : Resting(p) \/ Rebuilding(p)) => DOMAIN fts = DOMAIN messages
    /\ ~mixed => \A p \in Proc : ~Resting(p) => TextsAt(p)

(* The index of the summaries is right about a number. *)
SummaryIsRight(i) ==
  /\ i \in DOMAIN sfts <=> i \in DOMAIN messages /\ messages[i].sum # 0
  /\ i \in DOMAIN sfts /\ i \in DOMAIN messages => sfts[i].sum = messages[i].sum

SummariesAt(p) ==
  /\ Resting(p) \/ at[p] \in {"update", "delete rows"} => \A i \in Ids : SummaryIsRight(i)
  /\ at[p] \in Indexing \cup {"read again"} =>
       \A i \in Ids \ {job[p].id} : SummaryIsRight(i)
  /\ at[p] \in Indexing =>
       job[p].id \in DOMAIN messages /\ messages[job[p].id].sum = job[p].sum
  /\ at[p] = "index summary" => job[p].sum # 0
  /\ at[p] \in {"delete texts", "delete summaries"} =>
       /\ job[p].ids \cap DOMAIN messages = {}
       /\ \A i \in Ids \ job[p].ids : SummaryIsRight(i)
  /\ at[p] \in {"clear texts", "clear summaries"} => DOMAIN messages = {}

SummariesInv ==
  /\ sftsSound /\ AllRest => \A i \in Ids : SummaryIsRight(i)
  /\ sftsSound /\ ~mixed => \A p \in Proc : ~Resting(p) => SummariesAt(p)
  /\ ~mixed => \A p \in Proc : at[p] = "rebuild" => job[p].snap = SummariesOf

IsUser(i)     == messages[i].role = "user"
IsReply(i, t) == messages[i].role = "model" /\ messages[i].turn = t
Alone(i)      == IsReply(i, NoTurn) /\ ~messages[i].mid
Unanswered(t) == turns[t] \in {"new", "saving", "open"}

(* The row of a message is being stored, or it is there before its reply. *)
SavingInv ==
  \A t \in UserTurn : turns[t] = "saving" => at[Main] \in Indexing /\ job[Main].by = t

TurnInv ==
  /\ \A i \in DOMAIN messages : IsUser(i) =>
       messages[i].turn \in UserTurn /\ turns[messages[i].turn] # "new"
  /\ \A i \in DOMAIN messages : \A t \in UserTurn : IsReply(i, t) => ~Unanswered(t)
  /\ \A i, j \in DOMAIN messages :
       IsUser(i) /\ IsReply(j, messages[i].turn) => i < j

(* A message of the scheduler that came while no turn was open comes after *)
(* the replies to all the messages before it, those still to come too.     *)
AloneInv ==
  \A i, j \in DOMAIN messages : Alone(i) /\ IsUser(j) /\ j < i =>
    /\ ~Unanswered(messages[j].turn)
    /\ \A k \in DOMAIN messages : IsReply(k, messages[j].turn) => k < i

StoreInv ==
  StoreTypeOK /\ NumberInv /\ MixedInv /\ TextsInv /\ SummariesInv
  /\ SavingInv /\ TurnInv /\ AloneInv

----------------------------------------------------------------------------
(* Tables and jobs *)

LEMMA EmptyTable == DOMAIN Empty = {} /\ Empty \in Snapshots
<1>1. DOMAIN Empty = {}
  BY DEF Empty
<1>2. Empty = [i \in {} |-> <<>>]
  BY DEF Empty
<1>3. Empty \in [{} -> Summary] /\ {} \in SUBSET Ids
  BY <1>1 DEF Empty
<1> QED
  BY <1>1, <1>3 DEF Snapshots

LEMMA NoJobType == NoJob \in JobType /\ NoJob.id = 0 /\ NoJob.by = NoTurn
                   /\ DOMAIN NoJob.snap = {} /\ NoJob.ids = {} /\ NoJob.ts = 0
  BY EmptyTable, MemoryAssumption DEF NoJob, JobType, Versions

(* AddMessage has numbered a row, which nothing is known of yet.           *)
LEMMA AddMessageFacts ==
  ASSUME StoreTypeOK, NEW role \in {"user", "model"}, NEW t \in UserTurn \cup {NoTurn},
         NEW sum \in {0, 1}, AddMessage(role, t, sum)
  PROVE  /\ last + 1 \in Ids /\ last' = last + 1 /\ last + 1 \notin DOMAIN messages
         /\ now' \in 0 .. last'
         /\ at[Main] = "idle" /\ at' = [at EXCEPT ![Main] = "index text"]
         /\ DOMAIN messages' = DOMAIN messages \cup {last + 1}
         /\ messages' \in [DOMAIN messages' -> Row]
         /\ \A i \in DOMAIN messages : messages'[i] = messages[i]
         /\ messages'[last + 1].msg = last + 1 /\ messages'[last + 1].role = role
         /\ messages'[last + 1].turn = t /\ messages'[last + 1].sum = sum
         /\ messages'[last + 1].mid \/ \A u \in UserTurn : turns[u] # "open"
         /\ job' \in [Proc -> JobType] /\ job'[Cli] = job[Cli]
         /\ job'[Main].id = last + 1 /\ job'[Main].msg = last + 1
         /\ job'[Main].sum = sum /\ job'[Main].by = t /\ DOMAIN job'[Main].snap = {}
         /\ key' \in [UserTurn -> 0 .. MaxMsg]
         /\ mixed' = (~Resting(Cli)) /\ UNCHANGED <<fts, sfts, ftsSound, sftsSound>>
<1> DEFINE m == \E u \in UserTurn : turns[u] = "open"
<1>1. m \in BOOLEAN /\ (m \/ \A u \in UserTurn : turns[u] # "open")
  OBVIOUS
<1>2. PICK ts \in {now, now + 1} \ {0} :
        /\ now' = ts
        /\ messages' = Put(last + 1, [msg |-> last + 1, role |-> role, turn |-> t, ts |-> ts,
                                      sum |-> sum, mid |-> m], messages)
        /\ key' = IF role = "model" /\ t # NoTurn THEN [key EXCEPT ![t] = ts] ELSE key
  BY DEF AddMessage, NextId
<1> HIDE DEF m
<1>3. /\ last < MaxMsg /\ last' = last + 1 /\ at[Main] = "idle"
      /\ job' = [job EXCEPT ![Main] = [NoJob EXCEPT !.id = last + 1, !.msg = last + 1,
                                                    !.sum = sum, !.by = t]]
      /\ at' = [at EXCEPT ![Main] = "index text"]
      /\ mixed' = (~Resting(Cli))
      /\ UNCHANGED <<fts, sfts, ftsSound, sftsSound>>
  BY DEF AddMessage, NextId, Begins, Proc, Main, Cli
<1>4. last \in 0 .. MaxMsg /\ MaxMsg \in Nat /\ DOMAIN messages \subseteq 1 .. last
      /\ now \in 0 .. last /\ last + 1 \in Ids /\ last + 1 \notin DOMAIN messages
  <2>1. MaxMsg \in Nat
    BY MemoryAssumption
  <2>2. last \in 0 .. MaxMsg /\ DOMAIN messages \subseteq 1 .. last /\ now \in 0 .. last
    BY DEF StoreTypeOK, TablesOK, WorkOK
  <2>3. last + 1 \in Ids
    <3>1. last < MaxMsg
      BY <1>3
    <3> QED
      BY <3>1, <2>1, <2>2 DEF Ids
  <2>4. last + 1 \notin 1 .. last
    BY <2>1, <2>2
  <2> QED
    BY <2>1, <2>2, <2>3, <2>4
<1>5. ts \in Ids /\ ts \in 0 .. last + 1 /\ ts \in 0 .. MaxMsg
  <2>1. ts \in Nat /\ ts # 0 /\ ts <= last + 1
    BY <1>2, <1>4
  <2>2. last < MaxMsg
    BY <1>3
  <2> QED
    BY <1>4, <2>1, <2>2 DEF Ids
<1> DEFINE r == [msg |-> last + 1, role |-> role, turn |-> t, ts |-> ts,
                 sum |-> sum, mid |-> m]
<1>6. r \in Row /\ r.msg = last + 1 /\ r.role = role /\ r.turn = t /\ r.sum = sum
      /\ (r.mid \/ \A u \in UserTurn : turns[u] # "open")
  BY <1>1, <1>4, <1>5 DEF Row, Versions
<1>7. messages' = Put(last + 1, r, messages)
  BY <1>2
<1> HIDE DEF r
<1>8. /\ DOMAIN messages' = DOMAIN messages \cup {last + 1}
      /\ \A i \in DOMAIN messages : messages'[i] = messages[i]
      /\ messages'[last + 1] = r
  BY <1>4, <1>7 DEF Put
<1>9. messages' \in [DOMAIN messages' -> Row]
  <2>1. \A i \in DOMAIN messages' : messages'[i] \in Row
    BY <1>6, <1>8 DEF StoreTypeOK, TablesOK, WorkOK
  <2>2. messages' = [i \in DOMAIN messages' |-> messages'[i]]
    BY <1>7 DEF Put
  <2> QED
    BY <2>1, <2>2
<1>10. key' \in [UserTurn -> 0 .. MaxMsg]
  BY <1>2, <1>5 DEF StoreTypeOK, TablesOK, WorkOK
<1>11. /\ job' \in [Proc -> JobType] /\ job'[Cli] = job[Cli]
       /\ job'[Main].id = last + 1 /\ job'[Main].msg = last + 1
       /\ job'[Main].sum = sum /\ job'[Main].by = t /\ DOMAIN job'[Main].snap = {}
  <2> DEFINE j == [NoJob EXCEPT !.id = last + 1, !.msg = last + 1, !.sum = sum, !.by = t]
  <2>1. j \in JobType /\ j.id = last + 1 /\ j.msg = last + 1 /\ j.sum = sum /\ j.by = t
        /\ j.snap = NoJob.snap
    <3>1. last + 1 \in 0 .. MaxMsg /\ sum \in Versions
      BY <1>4 DEF Ids, Versions
    <3> QED
      BY <3>1, NoJobType DEF JobType
  <2>2. job' = [job EXCEPT ![Main] = j]
    BY <1>3
  <2> HIDE DEF j
  <2> QED
    BY <2>1, <2>2, NoJobType DEF StoreTypeOK, TablesOK, WorkOK, Proc, Main, Cli
<1>12. now' \in 0 .. last'
  BY <1>2, <1>3, <1>4, <1>5
<1> QED
  BY <1>3, <1>4, <1>6, <1>8, <1>9, <1>10, <1>11, <1>12

(* How an operation ends. *)
LEMMA RestIsRest ==
  ASSUME NEW p \in Proc
  PROVE  Rest(p) \in {"idle", "down"} /\ {"idle", "down"} \subseteq StatementNames
  BY DEF Rest, StatementNames

LEMMA TurnGoesFacts ==
  ASSUME StoreTypeOK, NEW p \in Proc, NEW ok \in BOOLEAN, TurnGoes(p, ok)
  PROVE  /\ turns' \in [UserTurn -> {"new", "saving", "open", "replying", "answered", "ended"}]
         /\ \A u \in UserTurn :
              \/ turns'[u] = turns[u] /\ (turns[u] = "saving" => p # Main \/ job[Main].by # u)
              \/ turns[u] = "saving" /\ turns'[u] \in {"open", "ended"}
              \/ turns[u] = "replying" /\ turns'[u] \in {"answered", "ended"}
<1> DEFINE t == job[p].by
<1>1. t \in UserTurn \cup {NoTurn} /\ (p = Main \/ p = Cli) /\ Main # Cli
  BY DEF StoreTypeOK, TablesOK, WorkOK, JobType, Proc, Main, Cli
<1>2. CASE p = Cli \/ t = NoTurn
  BY <1>1, <1>2, MemoryAssumption DEF TurnGoes, StoreTypeOK, TablesOK, WorkOK
<1>3. CASE ~(p = Cli \/ t = NoTurn)
  <2>1. t \in UserTurn /\ p = Main
    BY <1>1, <1>3
  <2>2. turns' = [turns EXCEPT ![t] =
         CASE @ = "saving"   -> IF ok THEN "open" ELSE "ended"
           [] @ = "replying" -> IF ok THEN "answered" ELSE "ended"
           [] OTHER          -> @]
    BY <1>3 DEF TurnGoes
  <2> DEFINE v == CASE turns[t] = "saving"   -> IF ok THEN "open" ELSE "ended"
                    [] turns[t] = "replying" -> IF ok THEN "answered" ELSE "ended"
                    [] OTHER          -> turns[t]
  <2>3. turns' = [turns EXCEPT ![t] = v]
    BY <2>2
  <2>4. /\ turns[t] = "saving" => v \in {"open", "ended"}
        /\ turns[t] = "replying" => v \in {"answered", "ended"}
        /\ turns[t] \notin {"saving", "replying"} => v = turns[t]
    OBVIOUS
  <2> HIDE DEF v, t
  <2>5. turns \in [UserTurn -> {"new", "saving", "open", "replying", "answered", "ended"}]
    BY DEF StoreTypeOK, TablesOK, WorkOK
  <2>6. v \in {"new", "saving", "open", "replying", "answered", "ended"}
    BY <2>1, <2>4, <2>5
  <2>7. \A u \in UserTurn : turns'[u] = IF u = t THEN v ELSE turns[u]
    BY <2>3, <2>5
  <2>8. job[Main].by = t
    BY <2>1 DEF t
  <2> QED
    BY <2>1, <2>3, <2>4, <2>5, <2>6, <2>7, <2>8
<1> QED
  BY <1>2, <1>3

----------------------------------------------------------------------------
(* Types *)

LEMMA StoreTypeInit == MemoryInit => StoreTypeOK
<1> SUFFICES ASSUME MemoryInit PROVE TablesOK /\ WorkOK
  BY DEF StoreTypeOK
<1>1. MaxMsg \in Nat
  BY MemoryAssumption
<1>2. /\ DOMAIN messages \subseteq 1 .. last /\ messages \in [DOMAIN messages -> Row]
      /\ DOMAIN fts \subseteq Ids /\ fts \in [DOMAIN fts -> Ids]
      /\ DOMAIN sfts \subseteq Ids /\ sfts \in [DOMAIN sfts -> Summary]
  BY DEF MemoryInit, Empty
<1>3. /\ last \in 0 .. MaxMsg /\ now \in 0 .. last
      /\ {mixed, ftsSound, sftsSound} \subseteq BOOLEAN
  <2>1. {mixed, ftsSound, sftsSound} \subseteq BOOLEAN
    BY DEF MemoryInit
  <2>2. last = 0 /\ now = 0
    BY DEF MemoryInit
  <2> QED
    BY <1>1, <2>1, <2>2
<1>4. at \in [Proc -> StatementNames]
  BY DEF MemoryInit, StatementNames
<1>5. job \in [Proc -> JobType]
  BY NoJobType DEF MemoryInit
<1>6. /\ turns \in [UserTurn -> {"new", "saving", "open", "replying", "answered", "ended"}]
      /\ key \in [UserTurn -> 0 .. MaxMsg]
  <2>1. 0 \in 0 .. MaxMsg
    BY <1>1
  <2>2. key \in [UserTurn -> 0 .. MaxMsg]
    BY <2>1 DEF MemoryInit
  <2>3. turns \in [UserTurn -> {"new", "saving", "open", "replying", "answered", "ended"}]
    BY DEF MemoryInit
  <2> QED
    BY <2>2, <2>3
<1> QED
  BY <1>2, <1>3, <1>4, <1>5, <1>6 DEF TablesOK, WorkOK

LEMMA TablesStay ==
  TablesOK /\ UNCHANGED tables => TablesOK'
  BY DEF TablesOK, tables

(* The ways at, job, turns and the history change together. *)
LEMMA FinishesWork ==
  ASSUME StoreTypeOK, NEW p \in Proc, Finishes(p) \/ Throws(p), UNCHANGED key
  PROVE  WorkOK'
<1>1. PICK ok \in BOOLEAN : TurnGoes(p, ok)
  BY DEF Finishes, Throws
<1>2. at' = [at EXCEPT ![p] = Rest(p)] /\ job' = [job EXCEPT ![p] = NoJob]
  BY DEF Finishes, Throws
<1>3. {mixed, ftsSound, sftsSound}' \subseteq BOOLEAN
  BY DEF Finishes, Throws, StoreTypeOK, WorkOK
<1>4. at' \in [Proc -> StatementNames] /\ job' \in [Proc -> JobType]
  BY <1>2, RestIsRest, NoJobType DEF StoreTypeOK, TablesOK, WorkOK
<1>5. key' \in [UserTurn -> 0 .. MaxMsg]
  BY DEF StoreTypeOK, TablesOK, WorkOK
<1> QED
  BY <1>1, <1>3, <1>4, <1>5, TurnGoesFacts DEF WorkOK

LEMMA GoesWork ==
  ASSUME StoreTypeOK, NEW p \in Proc, NEW s \in StatementNames, Goes(p, s),
         job' \in [Proc -> JobType], UNCHANGED <<turns, key>>
  PROVE  WorkOK'
<1>1. at' \in [Proc -> StatementNames]
  BY DEF Goes, StoreTypeOK, WorkOK
<1> QED
  BY <1>1 DEF Goes, StoreTypeOK, WorkOK, history

LEMMA BeginsWork ==
  ASSUME StoreTypeOK, NEW p \in Proc, NEW s \in StatementNames, Begins(p, s),
         job' \in [Proc -> JobType],
         turns' \in [UserTurn -> {"new", "saving", "open", "replying", "answered", "ended"}],
         UNCHANGED key
  PROVE  WorkOK'
<1>1. at' \in [Proc -> StatementNames]
  BY DEF Begins, StoreTypeOK, WorkOK
<1>2. mixed' \in BOOLEAN
  BY DEF Begins
<1> QED
  BY <1>1, <1>2 DEF Begins, StoreTypeOK, WorkOK

LEMMA JobOf ==
  ASSUME StoreTypeOK, NEW p \in Proc, NEW j \in JobType, job' = [job EXCEPT ![p] = j]
  PROVE  job' \in [Proc -> JobType]
  BY DEF StoreTypeOK, TablesOK, WorkOK

LEMMA StatementKinds ==
  /\ Indexing \subseteq StatementNames
  /\ {"idle", "down", "command", "update", "read again", "delete rows", "delete texts",
      "delete summaries", "clear texts", "clear summaries", "read summaries", "rebuild",
      "index text", "clear summary", "index summary"} \subseteq StatementNames
  BY DEF StatementNames, Indexing

(* What the callers begin. *)
LEMMA StoreTypeCallers ==
  ASSUME StoreTypeOK, Callers
  PROVE  StoreTypeOK'
<1> USE DEF StoreTypeOK
<1> DEFINE Stages == {"new", "saving", "open", "replying", "answered", "ended"}
<1>1. MaxMsg \in Nat
  BY MemoryAssumption
<1>2. ASSUME NEW role \in {"user", "model"}, NEW t \in UserTurn \cup {NoTurn},
             NEW sum \in {0, 1}, AddMessage(role, t, sum), turns' \in [UserTurn -> Stages]
      PROVE  StoreTypeOK'
  <2>1. /\ last + 1 \in Ids /\ last' = last + 1 /\ now' \in 0 .. last'
        /\ DOMAIN messages' = DOMAIN messages \cup {last + 1}
        /\ messages' \in [DOMAIN messages' -> Row]
        /\ UNCHANGED <<fts, sfts>>
    BY <1>2, AddMessageFacts
  <2>2. /\ at' = [at EXCEPT ![Main] = "index text"]
        /\ job' \in [Proc -> JobType] /\ key' \in [UserTurn -> 0 .. MaxMsg]
        /\ mixed' \in BOOLEAN /\ UNCHANGED <<ftsSound, sftsSound>>
    BY <1>2, AddMessageFacts
  <2>3. TablesOK'
    <3>1. last' \in 0 .. MaxMsg /\ last \in Nat
      BY <1>1, <2>1 DEF TablesOK, Ids
    <3>2. DOMAIN messages' \subseteq 1 .. last'
      BY <2>1, <3>1 DEF TablesOK
    <3> QED
      BY <2>1, <3>1, <3>2 DEF TablesOK
  <2>4. at' \in [Proc -> StatementNames]
    BY <2>2, StatementKinds DEF WorkOK
  <2>5. WorkOK'
    BY <1>2, <2>2, <2>4 DEF WorkOK
  <2> QED
    BY <2>3, <2>5
<1>3. ASSUME NEW t \in UserTurn, UserWrites(t)
      PROVE  StoreTypeOK'
  <2>1. turns' \in [UserTurn -> Stages]
    BY <1>3 DEF UserWrites, WorkOK
  <2>2. PICK sum \in {0, 1} : AddMessage("user", t, sum)
    BY <1>3 DEF UserWrites
  <2> QED
    BY <1>2, <2>1, <2>2
<1>4. ASSUME NEW t \in UserTurn, ReplyComes(t)
      PROVE  StoreTypeOK'
  <2>1. turns' \in [UserTurn -> Stages] /\ AddMessage("model", t, 0)
    BY <1>4 DEF ReplyComes, WorkOK
  <2> QED
    BY <1>2, <2>1
<1>5. ASSUME NEW t \in UserTurn, TurnFails(t)
      PROVE  StoreTypeOK'
  <2>1. TablesOK'
    BY <1>5, TablesStay DEF TurnFails
  <2>2. turns' \in [UserTurn -> Stages]
    BY <1>5 DEF TurnFails, WorkOK
  <2> QED
    BY <1>5, <2>1, <2>2 DEF TurnFails, WorkOK, history
<1>6. ASSUME NEW t \in UserTurn, FollowUp(t)
      PROVE  StoreTypeOK'
  <2>1. TablesOK' /\ UNCHANGED key
    BY <1>6, TablesStay DEF FollowUp
  <2>2. turns' \in [UserTurn -> Stages]
    BY <1>6 DEF FollowUp, WorkOK
  <2>3. CASE UNCHANGED <<job, at, history>>
    BY <2>1, <2>2, <2>3 DEF WorkOK, history
  <2>4. CASE ~UNCHANGED <<job, at, history>>
    <3>1. PICK i \in Replies(key[t]) :
            /\ job' = [job EXCEPT ![Main] = [NoJob EXCEPT !.id = i, !.sum = 3, !.ts = key[t]]]
            /\ Begins(Main, "update")
      BY <1>6, <2>4 DEF FollowUp
    <3>2. i \in 0 .. MaxMsg
      BY <1>1 DEF Replies, TablesOK
    <3>3. key[t] \in 0 .. MaxMsg /\ 3 \in Versions
      BY DEF WorkOK, Versions
    <3>4. [NoJob EXCEPT !.id = i, !.sum = 3, !.ts = key[t]] \in JobType
      BY <3>2, <3>3, NoJobType DEF JobType
    <3>5. Main \in Proc
      BY DEF Proc
    <3>6. job' \in [Proc -> JobType]
      BY <3>1, <3>4, <3>5, JobOf
    <3>7. WorkOK'
      BY <2>1, <2>2, <3>1, <3>5, <3>6, BeginsWork, StatementKinds
    <3> QED
      BY <2>1, <3>7
  <2> QED
    BY <2>3, <2>4
<1>7. ASSUME SchedulerWrites
      PROVE  StoreTypeOK'
  BY <1>2, <1>7 DEF SchedulerWrites, WorkOK
<1>8. ASSUME NEW i \in DOMAIN messages, NEW b \in BOOLEAN, Tag(i, b)
      PROVE  StoreTypeOK'
  <2>1. i \in 0 .. MaxMsg
    BY <1>1 DEF TablesOK
  <2> DEFINE v == IF b THEN 2 ELSE 0
  <2>2. v \in Versions
    BY DEF Versions
  <2>3. job' = [job EXCEPT ![Cli] = [NoJob EXCEPT !.id = i, !.sum = v]]
    BY <1>8 DEF Tag
  <2> HIDE DEF v
  <2>4. [NoJob EXCEPT !.id = i, !.sum = v] \in JobType
    BY <2>1, <2>2, NoJobType DEF JobType
  <2>5. job' \in [Proc -> JobType] /\ Cli \in Proc
    BY <2>3, <2>4, JobOf DEF Proc
  <2>6. WorkOK'
    BY <1>8, <2>5, BeginsWork, StatementKinds DEF Tag, WorkOK
  <2> QED
    BY <1>8, <2>6, TablesStay DEF Tag
<1>9. ASSUME NEW n \in 1 .. 2, ForgetRecent(n)
      PROVE  StoreTypeOK'
  <2>1. PICK ids \in Recent(n) : job' = [job EXCEPT ![Cli] = [NoJob EXCEPT !.ids = ids]]
    BY <1>9 DEF ForgetRecent
  <2>2. ids \in SUBSET Ids
    BY <1>1 DEF Recent, TablesOK, Ids
  <2>3. [NoJob EXCEPT !.ids = ids] \in JobType
    BY <2>2, NoJobType DEF JobType
  <2>4. job' \in [Proc -> JobType] /\ Cli \in Proc
    BY <2>1, <2>3, JobOf DEF Proc
  <2>5. WorkOK'
    BY <1>9, <2>4, BeginsWork, StatementKinds DEF ForgetRecent, WorkOK
  <2> QED
    BY <1>9, <2>5, TablesStay DEF ForgetRecent
<1>10. ASSUME NEW p \in Proc, Clear(p)
       PROVE  StoreTypeOK'
  <2>1. TablesOK'
    BY <1>10 DEF Clear, TablesOK, Empty
  <2>2. job' \in [Proc -> JobType]
    BY <1>10, NoJobType, JobOf DEF Clear
  <2>3. WorkOK'
    BY <1>10, <2>2, BeginsWork, StatementKinds DEF Clear, WorkOK
  <2> QED
    BY <2>1, <2>3
<1>11. ASSUME NEW p \in Proc, Starts(p)
       PROVE  StoreTypeOK'
  <2>1. job' \in [Proc -> JobType]
    BY <1>11, NoJobType, JobOf DEF Starts
  <2>2. WorkOK'
    BY <1>11, <2>1, BeginsWork, StatementKinds DEF Starts, WorkOK
  <2> QED
    BY <1>11, <2>2, TablesStay DEF Starts
<1>12. ASSUME Exits
       PROVE  StoreTypeOK'
  <2>1. at' \in [Proc -> StatementNames]
    BY <1>12, StatementKinds DEF Exits, WorkOK
  <2> QED
    BY <1>12, <2>1, TablesStay DEF Exits, WorkOK, history
<1> QED
  BY <1>3, <1>4, <1>5, <1>6, <1>7, <1>8, <1>9, <1>10, <1>11, <1>12 DEF Callers

(* What a statement does. *)
LEMMA StoreTypeStatements ==
  ASSUME StoreTypeOK, NumberInv, NEW p \in Proc, Statement(p)
  PROVE  StoreTypeOK'
<1> USE DEF StoreTypeOK
<1>1. MaxMsg \in Nat
  BY MemoryAssumption
<1>2. job[p] \in JobType /\ job[p].ids \subseteq Ids
  BY DEF WorkOK, JobType
<1>3. ASSUME IndexText(p)
      PROVE  StoreTypeOK'
  <2>1. CASE job[p].id \in DOMAIN fts
    <3>1. TablesOK' /\ Throws(p) /\ UNCHANGED key
      BY <1>3, <2>1, TablesStay DEF IndexText, tables
    <3> QED
      BY <3>1, FinishesWork
  <2>2. CASE job[p].id \notin DOMAIN fts
    <3>1. /\ fts' = Put(job[p].id, job[p].msg, fts) /\ Goes(p, "clear summary")
          /\ UNCHANGED <<messages, last, now, sfts, key, job, turns>>
      BY <1>3, <2>2 DEF IndexText, GoesOn
    <3>2. job[p].id \in Ids /\ job[p].msg \in Ids
      BY <1>3 DEF IndexText, NumberInv, NumberedJob, Indexing
    <3>3. DOMAIN fts' \subseteq Ids /\ fts' \in [DOMAIN fts' -> Ids]
      BY <3>1, <3>2 DEF TablesOK, Put
    <3>4. TablesOK'
      BY <3>1, <3>3 DEF TablesOK
    <3>5. WorkOK'
      BY <3>1, GoesWork, StatementKinds DEF WorkOK
    <3> QED
      BY <3>4, <3>5
  <2> QED
    BY <2>1, <2>2
<1>4. ASSUME ClearSummary(p)
      PROVE  StoreTypeOK'
  <2>1. sfts' = Without(sfts, {job[p].id}) /\ UNCHANGED <<messages, last, now, fts, key>>
    BY <1>4 DEF ClearSummary
  <2>2. DOMAIN sfts' \subseteq Ids /\ sfts' \in [DOMAIN sfts' -> Summary]
    BY <2>1 DEF TablesOK, Without
  <2>3. TablesOK'
    BY <2>1, <2>2 DEF TablesOK
  <2>4. CASE job[p].sum = 0
    BY <1>4, <2>1, <2>3, <2>4, FinishesWork DEF ClearSummary
  <2>5. CASE job[p].sum # 0
    <3>1. Goes(p, "index summary") /\ UNCHANGED <<job, turns>>
      BY <1>4, <2>5 DEF ClearSummary, GoesOn
    <3> QED
      BY <2>1, <2>3, <3>1, GoesWork, StatementKinds DEF WorkOK
  <2> QED
    BY <2>4, <2>5
<1>5. ASSUME IndexSummary(p)
      PROVE  StoreTypeOK'
  <2>1. CASE job[p].id \in DOMAIN sfts
    <3>1. TablesOK' /\ Throws(p) /\ UNCHANGED key
      BY <1>5, <2>1, TablesStay DEF IndexSummary, tables
    <3> QED
      BY <3>1, FinishesWork
  <2>2. CASE job[p].id \notin DOMAIN sfts
    <3>1. /\ sfts' = Put(job[p].id, [msg |-> job[p].msg, sum |-> job[p].sum], sfts)
          /\ Finishes(p)
          /\ UNCHANGED <<messages, last, now, fts, key>>
      BY <1>5, <2>2 DEF IndexSummary
    <3>2. job[p].id \in Ids /\ [msg |-> job[p].msg, sum |-> job[p].sum] \in Summary
      BY <1>2, <1>5 DEF IndexSummary, NumberInv, NumberedJob, Indexing, Summary, JobType
    <3>3. DOMAIN sfts' \subseteq Ids /\ sfts' \in [DOMAIN sfts' -> Summary]
      BY <3>1, <3>2 DEF TablesOK, Put
    <3>4. TablesOK'
      BY <3>1, <3>3 DEF TablesOK
    <3> QED
      BY <3>1, <3>4, FinishesWork
  <2> QED
    BY <2>1, <2>2
<1>6. ASSUME Update(p)
      PROVE  StoreTypeOK'
  <2> DEFINE s(i) == IF i \in Updated(p) THEN NewSummary(p, messages[i].sum) ELSE messages[i].sum
  <2>1. \A i \in DOMAIN messages : s(i) \in Versions
    BY <1>2 DEF TablesOK, Row, NewSummary, JobType, Versions
  <2>2. DOMAIN messages' = DOMAIN messages
    BY <1>6 DEF Update
  <2>3. \A i \in DOMAIN messages : messages'[i] = [messages[i] EXCEPT !.sum = s(i)]
    BY <1>6 DEF Update, TablesOK, Row
  <2> HIDE DEF s
  <2>4. \A i \in DOMAIN messages : messages'[i] \in Row
    BY <2>1, <2>3 DEF TablesOK, Row
  <2>5. messages' \in [DOMAIN messages' -> Row]
    <3>1. messages' = [i \in DOMAIN messages' |-> messages'[i]]
      BY <1>6 DEF Update
    <3> QED
      BY <2>2, <2>4, <3>1
  <2>6. UNCHANGED <<last, now, fts, sfts, job, turns, key, mixed, ftsSound>>
    BY <1>6 DEF Update
  <2>7. TablesOK'
    BY <2>2, <2>5, <2>6 DEF TablesOK
  <2>8. at' \in [Proc -> StatementNames] /\ sftsSound' \in BOOLEAN
    BY <1>6, StatementKinds DEF Update, WorkOK
  <2>9. WorkOK'
    BY <2>6, <2>8 DEF WorkOK
  <2> QED
    BY <2>7, <2>9
<1>7. ASSUME ReadAgain(p)
      PROVE  StoreTypeOK'
  <2>1. TablesOK' /\ UNCHANGED key
    BY <1>7, TablesStay DEF ReadAgain
  <2>2. CASE job[p].id \in DOMAIN messages
    <3>1. /\ job' = [job EXCEPT ![p] = [job[p] EXCEPT !.sum = messages[job[p].id].sum,
                                                      !.msg = messages[job[p].id].msg]]
          /\ Goes(p, "clear summary") /\ UNCHANGED turns
      BY <1>7, <2>2 DEF ReadAgain, WorkOK
    <3>2. messages[job[p].id].sum \in Versions /\ messages[job[p].id].msg \in 0 .. MaxMsg
      BY <1>1, <2>2 DEF TablesOK, Row, Ids
    <3>3. [job[p] EXCEPT !.sum = messages[job[p].id].sum,
                         !.msg = messages[job[p].id].msg] \in JobType
      BY <1>2, <3>2 DEF JobType
    <3>4. WorkOK'
      BY <2>1, <3>1, <3>3, JobOf, GoesWork, StatementKinds
    <3> QED
      BY <2>1, <3>4
  <2>3. CASE job[p].id \notin DOMAIN messages
    BY <1>7, <2>1, <2>3, FinishesWork DEF ReadAgain
  <2> QED
    BY <2>2, <2>3
<1>8. ASSUME DeleteRows(p)
      PROVE  StoreTypeOK'
  <2>1. messages' = Without(messages, job[p].ids) /\ UNCHANGED <<last, now, fts, sfts>>
    BY <1>8 DEF DeleteRows
  <2>2. TablesOK'
    BY <2>1 DEF TablesOK, Without
  <2>3. WorkOK'
    BY <1>8, GoesWork, StatementKinds DEF DeleteRows, WorkOK
  <2> QED
    BY <2>2, <2>3
<1>9. ASSUME DeleteTexts(p)
      PROVE  StoreTypeOK'
  <2>1. fts' = Without(fts, job[p].ids) /\ UNCHANGED <<messages, last, now, sfts>>
    BY <1>9 DEF DeleteTexts
  <2>2. TablesOK'
    BY <2>1 DEF TablesOK, Without
  <2>3. WorkOK'
    BY <1>9, GoesWork, StatementKinds DEF DeleteTexts, WorkOK
  <2> QED
    BY <2>2, <2>3
<1>10. ASSUME DeleteSummaries(p)
       PROVE  StoreTypeOK'
  <2>1. sfts' = Without(sfts, job[p].ids) /\ UNCHANGED <<messages, last, now, fts, key>>
    BY <1>10 DEF DeleteSummaries
  <2>2. TablesOK'
    BY <2>1 DEF TablesOK, Without
  <2>3. WorkOK'
    BY <1>10, <2>1, FinishesWork DEF DeleteSummaries
  <2> QED
    BY <2>2, <2>3
<1>11. ASSUME ClearTexts(p)
       PROVE  StoreTypeOK'
  <2>1. fts' = Empty /\ UNCHANGED <<messages, last, now, sfts>>
    BY <1>11 DEF ClearTexts
  <2>2. TablesOK'
    BY <2>1 DEF TablesOK, Empty
  <2>3. WorkOK'
    BY <1>11, GoesWork, StatementKinds DEF ClearTexts, WorkOK
  <2> QED
    BY <2>2, <2>3
<1>12. ASSUME ClearSummaries(p)
       PROVE  StoreTypeOK'
  <2>1. sfts' = Empty /\ UNCHANGED <<messages, last, now, fts, key>>
    BY <1>12 DEF ClearSummaries
  <2>2. TablesOK'
    BY <2>1 DEF TablesOK, Empty
  <2>3. WorkOK'
    BY <1>12, <2>1, FinishesWork DEF ClearSummaries
  <2> QED
    BY <2>2, <2>3
<1>13. ASSUME ReadSummaries(p)
       PROVE  StoreTypeOK'
  <2>1. SummariesOf \in Snapshots
    <3>1. \A i \in Summarised : [msg |-> messages[i].msg, sum |-> messages[i].sum] \in Summary
      BY DEF TablesOK, Row, Summary, Summarised
    <3>2. SummariesOf \in [Summarised -> Summary]
      BY <3>1 DEF SummariesOf
    <3>3. Summarised \in SUBSET Ids
      BY <1>1 DEF Summarised, TablesOK, Ids
    <3> QED
      BY <3>2, <3>3 DEF Snapshots
  <2>2. job' = [job EXCEPT ![p] = [job[p] EXCEPT !.snap = SummariesOf]]
    BY <1>13 DEF ReadSummaries, WorkOK
  <2>3. [job[p] EXCEPT !.snap = SummariesOf] \in JobType
    BY <1>2, <2>1 DEF JobType
  <2>4. WorkOK'
    BY <1>13, <2>2, <2>3, JobOf, GoesWork, StatementKinds DEF ReadSummaries
  <2> QED
    BY <1>13, <2>4, TablesStay DEF ReadSummaries
<1>14. ASSUME Rebuild(p)
       PROVE  StoreTypeOK'
  <2>1. PICK S \in SUBSET Ids : job[p].snap \in [S -> Summary]
    BY <1>2 DEF JobType, Snapshots
  <2>2. sfts' = job[p].snap /\ UNCHANGED <<messages, last, now, fts>>
    BY <1>14 DEF Rebuild
  <2>3. TablesOK'
    BY <2>1, <2>2 DEF TablesOK
  <2>4. at' \in [Proc -> StatementNames] /\ job' \in [Proc -> JobType]
    BY <1>14, StatementKinds, NoJobType DEF Rebuild, WorkOK
  <2>5. sftsSound' \in BOOLEAN /\ UNCHANGED <<turns, key, mixed, ftsSound>>
    BY <1>14 DEF Rebuild, WorkOK
  <2>6. WorkOK'
    BY <2>4, <2>5 DEF WorkOK
  <2> QED
    BY <2>3, <2>6
<1> QED
  BY <1>3, <1>4, <1>5, <1>6, <1>7, <1>8, <1>9, <1>10, <1>11, <1>12, <1>13, <1>14 DEF Statement

LEMMA StoreTypeStep ==
  ASSUME StoreTypeOK, NumberInv, [MemoryNext]_mvars
  PROVE  StoreTypeOK'
<1>1. CASE Callers
  BY <1>1, StoreTypeCallers
<1>2. ASSUME NEW p \in Proc, Statement(p)
      PROVE  StoreTypeOK'
  BY <1>2, StoreTypeStatements
<1>3. ASSUME NEW p \in Proc, StatementFails(p)
      PROVE  StoreTypeOK'
  BY <1>3, TablesStay, FinishesWork DEF StatementFails, StoreTypeOK
<1>4. ASSUME NEW p \in Proc, Dies(p)
      PROVE  StoreTypeOK'
  <2>1. TablesOK'
    BY <1>4, TablesStay DEF Dies, StoreTypeOK
  <2>2. at' \in [Proc -> StatementNames] /\ job' \in [Proc -> JobType]
    BY <1>4, StatementKinds, NoJobType DEF Dies, StoreTypeOK, WorkOK
  <2>3. turns' \in [UserTurn -> {"new", "saving", "open", "replying", "answered", "ended"}]
    BY <1>4 DEF Dies, StoreTypeOK, WorkOK
  <2>4. {mixed, ftsSound, sftsSound}' \subseteq BOOLEAN /\ UNCHANGED key
    BY <1>4 DEF Dies, StoreTypeOK, WorkOK
  <2> QED
    BY <2>1, <2>2, <2>3, <2>4 DEF StoreTypeOK, WorkOK
<1>5. CASE UNCHANGED mvars
  BY <1>5, TablesStay DEF mvars, StoreTypeOK, WorkOK, history
<1> QED
  BY <1>1, <1>2, <1>3, <1>4, <1>5 DEF MemoryNext

----------------------------------------------------------------------------
(* Numbers *)

LEMMA NumberCallers ==
  ASSUME StoreTypeOK, NumberInv, Callers
  PROVE  NumberInv'
<1>1. ASSUME NEW role \in {"user", "model"}, NEW t \in UserTurn \cup {NoTurn},
             NEW sum \in {0, 1}, AddMessage(role, t, sum)
      PROVE  NumberInv'
  <2>1. /\ last + 1 \in Ids
        /\ at' = [at EXCEPT ![Main] = "index text"]
        /\ job'[Cli] = job[Cli]
        /\ job'[Main].id = last + 1 /\ job'[Main].msg = last + 1
        /\ DOMAIN job'[Main].snap = {}
    BY <1>1, AddMessageFacts
  <2>2. /\ DOMAIN messages' = DOMAIN messages \cup {last + 1}
        /\ \A i \in DOMAIN messages : messages'[i] = messages[i]
        /\ messages'[last + 1].msg = last + 1 /\ UNCHANGED <<fts, sfts>>
    BY <1>1, AddMessageFacts
  <2>3. NumberedTables'
    BY <2>2 DEF NumberInv, NumberedTables
  <2>4. NumberedJob(Main)'
    BY <2>1 DEF NumberedJob
  <2>5. NumberedJob(Cli)'
    BY <2>1 DEF NumberInv, NumberedJob, StoreTypeOK, WorkOK, Proc, Main, Cli
  <2> QED
    BY <2>3, <2>4, <2>5 DEF NumberInv, Proc
<1>2. ASSUME NEW p \in Proc, NumberedTables',
             at' = [at EXCEPT ![p] = at'[p]] /\ job' = [job EXCEPT ![p] = job'[p]],
             at'[p] \notin Indexing, DOMAIN job'[p].snap = {}
      PROVE  NumberInv'
  <2>1. NumberedJob(p)'
    BY <1>2 DEF NumberedJob
  <2>2. ASSUME NEW q \in Proc, q # p PROVE NumberedJob(q)'
    BY <1>2, <2>2 DEF NumberInv, NumberedJob, StoreTypeOK, WorkOK
  <2> QED
    BY <1>2, <2>1, <2>2 DEF NumberInv
<1>3. ASSUME UNCHANGED <<at, job>>, NumberedTables' PROVE NumberInv'
  BY <1>3 DEF NumberInv, NumberedJob
<1>4. UNCHANGED tables => NumberedTables'
  BY DEF NumberInv, NumberedTables, tables
<1>5. ASSUME NEW t \in UserTurn, UserWrites(t) PROVE NumberInv'
  BY <1>1, <1>5 DEF UserWrites
<1>6. ASSUME NEW t \in UserTurn, ReplyComes(t) PROVE NumberInv'
  BY <1>1, <1>6 DEF ReplyComes
<1>7. ASSUME NEW t \in UserTurn, TurnFails(t) PROVE NumberInv'
  BY <1>3, <1>4, <1>7 DEF TurnFails
<1>8. ASSUME NEW t \in UserTurn, FollowUp(t) PROVE NumberInv'
  <2>1. CASE UNCHANGED <<job, at, history>>
    BY <1>3, <1>4, <1>8, <2>1 DEF FollowUp
  <2>2. CASE ~UNCHANGED <<job, at, history>>
    <3>1. PICK i \in Replies(key[t]) :
            /\ job' = [job EXCEPT ![Main] = [NoJob EXCEPT !.id = i, !.sum = 3, !.ts = key[t]]]
            /\ Begins(Main, "update")
      BY <1>8, <2>2 DEF FollowUp
    <3> DEFINE j == [NoJob EXCEPT !.id = i, !.sum = 3, !.ts = key[t]]
    <3>2. DOMAIN j.snap = {}
      BY NoJobType DEF JobType
    <3>3. job' = [job EXCEPT ![Main] = j]
      BY <3>1
    <3> HIDE DEF j
    <3>4. Main \in Proc /\ job'[Main] = j /\ at' = [at EXCEPT ![Main] = "update"]
          /\ at'[Main] = "update"
      BY <3>1, <3>3 DEF Begins, StoreTypeOK, WorkOK, Proc
    <3>5. "update" \notin Indexing
      BY DEF Indexing
    <3>6. NumberedTables'
      BY <1>4, <1>8 DEF FollowUp
    <3> QED
      BY <1>2, <3>2, <3>3, <3>4, <3>5, <3>6
  <2> QED
    BY <2>1, <2>2
<1>9. ASSUME SchedulerWrites PROVE NumberInv'
  BY <1>1, <1>9 DEF SchedulerWrites
<1>10. ASSUME NEW p \in Proc, NEW s \in StatementNames \ Indexing, NEW j, Begins(p, s),
              DOMAIN j.snap = {}, job' = [job EXCEPT ![p] = j], NumberedTables'
       PROVE  NumberInv'
  <2>1. job'[p] = j /\ at' = [at EXCEPT ![p] = s] /\ at'[p] = s
    BY <1>10 DEF Begins, StoreTypeOK, WorkOK
  <2> QED
    BY <1>2, <1>10, <2>1
<1>11. {"update", "delete rows", "clear texts", "read summaries"} \subseteq StatementNames \ Indexing
  BY DEF Indexing, StatementNames
<1>12. ASSUME NEW i \in DOMAIN messages, NEW b \in BOOLEAN, Tag(i, b) PROVE NumberInv'
  <2> DEFINE v == IF b THEN 2 ELSE 0
             j == [NoJob EXCEPT !.id = i, !.sum = v]
  <2>1. DOMAIN j.snap = {}
    BY NoJobType DEF JobType
  <2>2. job' = [job EXCEPT ![Cli] = j] /\ Begins(Cli, "update") /\ UNCHANGED tables
    BY <1>12 DEF Tag
  <2>3. Cli \in Proc
    BY DEF Proc
  <2> HIDE DEF j
  <2> QED
    BY <1>4, <1>10, <1>11, <2>1, <2>2, <2>3
<1>13. ASSUME NEW n \in 1 .. 2, ForgetRecent(n) PROVE NumberInv'
  <2>1. PICK ids \in Recent(n) : job' = [job EXCEPT ![Cli] = [NoJob EXCEPT !.ids = ids]]
    BY <1>13 DEF ForgetRecent
  <2> DEFINE j == [NoJob EXCEPT !.ids = ids]
  <2>2. DOMAIN j.snap = {}
    BY NoJobType DEF JobType
  <2>3. job' = [job EXCEPT ![Cli] = j] /\ Begins(Cli, "delete rows") /\ UNCHANGED tables
    BY <1>13, <2>1 DEF ForgetRecent
  <2>4. Cli \in Proc
    BY DEF Proc
  <2> HIDE DEF j
  <2> QED
    BY <1>4, <1>10, <1>11, <2>2, <2>3, <2>4
<1>14. ASSUME NEW p \in Proc, Clear(p) PROVE NumberInv'
  <2>1. messages' = Empty /\ UNCHANGED <<fts, sfts>>
    BY <1>14 DEF Clear
  <2>2. NumberedTables'
    BY <2>1, EmptyTable DEF NumberInv, NumberedTables
  <2> QED
    BY <1>10, <1>11, <1>14, <2>2, NoJobType DEF Clear
<1>15. ASSUME NEW p \in Proc, Starts(p) PROVE NumberInv'
  BY <1>4, <1>10, <1>11, <1>15, NoJobType DEF Starts
<1>16. ASSUME Exits PROVE NumberInv'
  <2>1. NumberedTables' /\ job' = job /\ at' = [at EXCEPT ![Cli] = "down"]
    BY <1>4, <1>16 DEF Exits
  <2>2. ASSUME NEW p \in Proc PROVE NumberedJob(p)'
    BY <2>1, <2>2 DEF NumberInv, NumberedJob, Indexing, StoreTypeOK, WorkOK
  <2> QED
    BY <2>1, <2>2 DEF NumberInv
<1> QED
  BY <1>5, <1>6, <1>7, <1>8, <1>9, <1>12, <1>13, <1>14, <1>15, <1>16 DEF Callers

(* Who else is at work goes on. *)
LEMMA OneMoves ==
  ASSUME StoreTypeOK, NEW p \in Proc, Statement(p) \/ StatementFails(p) \/ Dies(p)
  PROVE  \A q \in Proc \ {p} : at'[q] = at[q] /\ job'[q] = job[q]
<1> SUFFICES ASSUME NEW q \in Proc, q # p PROVE at'[q] = at[q] /\ job'[q] = job[q]
  OBVIOUS
<1>1. Finishes(p) \/ Throws(p) => at'[q] = at[q] /\ job'[q] = job[q]
  BY DEF Finishes, Throws, StoreTypeOK, WorkOK
<1>2. \A s : Goes(p, s) => at'[q] = at[q]
  BY DEF Goes, StoreTypeOK, WorkOK
<1>3. CASE StatementFails(p) \/ Dies(p)
  BY <1>1, <1>3 DEF StatementFails, Dies, StoreTypeOK, WorkOK
<1>4. CASE IndexText(p) \/ ClearSummary(p) \/ IndexSummary(p)
  BY <1>1, <1>2, <1>4 DEF IndexText, ClearSummary, IndexSummary, GoesOn
<1>5. CASE Update(p) \/ ReadAgain(p)
  BY <1>1, <1>2, <1>5 DEF Update, ReadAgain, StoreTypeOK, WorkOK
<1>6. CASE DeleteRows(p) \/ DeleteTexts(p) \/ DeleteSummaries(p) \/ ClearTexts(p) \/ ClearSummaries(p)
  BY <1>1, <1>2, <1>6 DEF DeleteRows, DeleteTexts, DeleteSummaries, ClearTexts, ClearSummaries
<1>7. CASE ReadSummaries(p) \/ Rebuild(p)
  BY <1>2, <1>7 DEF ReadSummaries, Rebuild, StoreTypeOK, WorkOK
<1> QED
  BY <1>3, <1>4, <1>5, <1>6, <1>7 DEF Statement

LEMMA NumberStatements ==
  ASSUME StoreTypeOK, NumberInv, NEW p \in Proc, Statement(p) \/ StatementFails(p) \/ Dies(p)
  PROVE  NumberInv'
<1>1. SUFFICES NumberedTables' /\ NumberedJob(p)'
  <2>1. ASSUME NEW q \in Proc, q # p PROVE NumberedJob(q)'
    BY <2>1, OneMoves DEF NumberInv, NumberedJob
  <2> QED
    BY <2>1 DEF NumberInv
<1>2. NumberedTables /\ NumberedJob(p) /\ job[p] \in JobType
  BY DEF NumberInv, StoreTypeOK, WorkOK
<1>3. UNCHANGED <<messages, fts, sfts>> => NumberedTables'
  BY <1>2 DEF NumberedTables
<1>4. ASSUME Finishes(p) \/ Throws(p) PROVE NumberedJob(p)'
  <2>1. at'[p] = Rest(p) /\ job'[p] = NoJob
    BY <1>4 DEF Finishes, Throws, StoreTypeOK, WorkOK
  <2>2. Rest(p) \notin Indexing
    BY RestIsRest DEF Indexing
  <2> QED
    BY <2>1, <2>2, NoJobType DEF NumberedJob
<1>5. ASSUME NEW s \in StatementNames, Goes(p, s), UNCHANGED job,
             s \in Indexing => at[p] \in Indexing
      PROVE  NumberedJob(p)'
  BY <1>2, <1>5 DEF NumberedJob, Goes, StoreTypeOK, WorkOK
<1>6. CASE StatementFails(p)
  BY <1>3, <1>4, <1>6 DEF StatementFails, tables
<1>7. CASE Dies(p)
  <2>1. at'[p] = "down" /\ job'[p] = NoJob
    BY <1>7 DEF Dies, StoreTypeOK, WorkOK
  <2>2. NumberedJob(p)'
    BY <2>1, NoJobType DEF NumberedJob, Indexing
  <2> QED
    BY <1>3, <1>7, <2>2 DEF Dies, tables
<1>8. CASE IndexText(p)
  <2>1. CASE job[p].id \in DOMAIN fts
    BY <1>3, <1>4, <1>8, <2>1 DEF IndexText
  <2>2. CASE job[p].id \notin DOMAIN fts
    <3>1. /\ fts' = Put(job[p].id, job[p].msg, fts) /\ Goes(p, "clear summary")
          /\ UNCHANGED <<messages, sfts, job>> /\ at[p] \in Indexing
      BY <1>8, <2>2 DEF IndexText, GoesOn, Indexing
    <3>2. job[p].msg = job[p].id
      BY <1>2, <3>1 DEF NumberedJob
    <3>3. NumberedTables'
      BY <1>2, <3>1, <3>2 DEF NumberedTables, Put
    <3> QED
      BY <1>5, <3>1, <3>3, StatementKinds
  <2> QED
    BY <2>1, <2>2
<1>9. CASE ClearSummary(p)
  <2>1. sfts' = Without(sfts, {job[p].id}) /\ UNCHANGED <<messages, fts>> /\ at[p] \in Indexing
    BY <1>9 DEF ClearSummary, Indexing
  <2>2. NumberedTables'
    BY <1>2, <2>1 DEF NumberedTables, Without
  <2>3. CASE job[p].sum = 0
    BY <1>4, <1>9, <2>2, <2>3 DEF ClearSummary
  <2>4. CASE job[p].sum # 0
    BY <1>5, <1>9, <2>1, <2>2, <2>4, StatementKinds DEF ClearSummary, GoesOn
  <2> QED
    BY <2>3, <2>4
<1>10. CASE IndexSummary(p)
  <2>1. CASE job[p].id \in DOMAIN sfts
    BY <1>3, <1>4, <1>10, <2>1 DEF IndexSummary
  <2>2. CASE job[p].id \notin DOMAIN sfts
    <3>1. /\ sfts' = Put(job[p].id, [msg |-> job[p].msg, sum |-> job[p].sum], sfts)
          /\ Finishes(p) /\ UNCHANGED <<messages, fts>> /\ at[p] \in Indexing
      BY <1>10, <2>2 DEF IndexSummary, Indexing
    <3>2. job[p].msg = job[p].id
      BY <1>2, <3>1 DEF NumberedJob
    <3>3. NumberedTables'
      BY <1>2, <3>1, <3>2 DEF NumberedTables, Put
    <3> QED
      BY <1>4, <3>1, <3>3
  <2> QED
    BY <2>1, <2>2
<1>11. CASE Update(p)
  <2>1. \A i \in DOMAIN messages : messages'[i].msg = messages[i].msg
    BY <1>11 DEF Update, StoreTypeOK, TablesOK, Row
  <2>2. DOMAIN messages' = DOMAIN messages /\ UNCHANGED <<fts, sfts, job>>
    BY <1>11 DEF Update
  <2>3. NumberedTables'
    BY <1>2, <2>1, <2>2 DEF NumberedTables
  <2>4. at'[p] = "read again"
    BY <1>11 DEF Update, StoreTypeOK, WorkOK
  <2> QED
    BY <1>2, <2>2, <2>3, <2>4 DEF NumberedJob, Indexing
<1>12. CASE ReadAgain(p)
  <2>1. CASE job[p].id \in DOMAIN messages
    <3>1. /\ job' = [job EXCEPT ![p] = [job[p] EXCEPT !.sum = messages[job[p].id].sum,
                                                      !.msg = messages[job[p].id].msg]]
          /\ Goes(p, "clear summary") /\ UNCHANGED <<messages, fts, sfts>>
      BY <1>12, <2>1 DEF ReadAgain, StoreTypeOK, WorkOK, tables
    <3> DEFINE j == [job[p] EXCEPT !.sum = messages[job[p].id].sum,
                                   !.msg = messages[job[p].id].msg]
    <3>2. j.id = job[p].id /\ j.msg = messages[job[p].id].msg /\ j.snap = job[p].snap
      BY <1>2 DEF JobType
    <3>3. job'[p] = j
      BY <3>1 DEF StoreTypeOK, WorkOK
    <3> HIDE DEF j
    <3>4. job[p].id \in Ids
      BY <2>1, MemoryAssumption DEF StoreTypeOK, TablesOK, Ids
    <3>5. j.msg = j.id
      BY <1>2, <2>1, <3>2 DEF NumberedTables
    <3>6. NumberedJob(p)'
      BY <1>2, <3>2, <3>3, <3>4, <3>5 DEF NumberedJob
    <3> QED
      BY <1>3, <3>1, <3>6
  <2>2. CASE job[p].id \notin DOMAIN messages
    BY <1>3, <1>4, <1>12, <2>2 DEF ReadAgain, tables
  <2> QED
    BY <2>1, <2>2
<1>13. {"delete texts", "delete summaries", "clear summaries", "rebuild"} \subseteq
          StatementNames \ Indexing
  BY DEF Indexing, StatementNames
<1>14. CASE DeleteRows(p)
  <2>1. NumberedTables'
    BY <1>2, <1>14 DEF DeleteRows, NumberedTables, Without
  <2> QED
    BY <1>5, <1>13, <1>14, <2>1 DEF DeleteRows
<1>15. CASE DeleteTexts(p)
  <2>1. NumberedTables'
    BY <1>2, <1>15 DEF DeleteTexts, NumberedTables, Without
  <2> QED
    BY <1>5, <1>13, <1>15, <2>1 DEF DeleteTexts
<1>16. CASE DeleteSummaries(p)
  <2>1. NumberedTables'
    BY <1>2, <1>16 DEF DeleteSummaries, NumberedTables, Without
  <2> QED
    BY <1>4, <1>16, <2>1 DEF DeleteSummaries
<1>17. CASE ClearTexts(p)
  <2>1. NumberedTables'
    BY <1>2, <1>17, EmptyTable DEF ClearTexts, NumberedTables
  <2> QED
    BY <1>5, <1>13, <1>17, <2>1 DEF ClearTexts
<1>18. CASE ClearSummaries(p)
  <2>1. NumberedTables'
    BY <1>2, <1>18, EmptyTable DEF ClearSummaries, NumberedTables
  <2> QED
    BY <1>4, <1>18, <2>1 DEF ClearSummaries
<1>19. CASE ReadSummaries(p)
  <2>1. \A i \in DOMAIN SummariesOf : SummariesOf[i].msg = i
    BY <1>2 DEF SummariesOf, Summarised, NumberedTables
  <2>2. job' = [job EXCEPT ![p] = [job[p] EXCEPT !.snap = SummariesOf]]
    BY <1>19 DEF ReadSummaries, StoreTypeOK, WorkOK
  <2>3. [job[p] EXCEPT !.snap = SummariesOf].snap = SummariesOf
    BY <1>2 DEF JobType
  <2>4. job'[p].snap = SummariesOf
    BY <2>2, <2>3 DEF StoreTypeOK, WorkOK
  <2>5. at'[p] = "rebuild"
    BY <1>19 DEF ReadSummaries, Goes, StoreTypeOK, WorkOK
  <2>6. NumberedJob(p)'
    BY <2>1, <2>4, <2>5 DEF NumberedJob, Indexing
  <2> QED
    BY <1>3, <1>19, <2>6 DEF ReadSummaries, tables
<1>20. CASE Rebuild(p)
  <2>1. NumberedTables'
    BY <1>2, <1>20 DEF Rebuild, NumberedTables, NumberedJob
  <2>2. at'[p] \notin Indexing /\ job'[p] = NoJob
    BY <1>20 DEF Rebuild, Indexing, StoreTypeOK, WorkOK
  <2> QED
    BY <2>1, <2>2, NoJobType DEF NumberedJob
<1> QED
  BY <1>6, <1>7, <1>8, <1>9, <1>10, <1>11, <1>12, <1>14, <1>15, <1>16, <1>17, <1>18, <1>19,
     <1>20 DEF Statement

LEMMA NumberStep ==
  ASSUME StoreTypeOK, NumberInv, [MemoryNext]_mvars
  PROVE  NumberInv'
<1>1. UNCHANGED mvars => NumberInv'
  BY DEF mvars, tables, NumberInv, NumberedTables, NumberedJob
<1> QED
  BY <1>1, NumberCallers, NumberStatements DEF MemoryNext

----------------------------------------------------------------------------
(* Who is at work *)

LEMMA Kinds ==
  /\ \A p \in Proc : Resting(p) <=> at[p] \in {"down", "idle", "command"}
  /\ AllRest <=> Resting(Main) /\ Resting(Cli)
  /\ \A p \in Proc : p = Main \/ p = Cli
  /\ Main \in Proc /\ Cli \in Proc /\ Main # Cli
  BY DEF Resting, AllRest, Proc, Main, Cli

LEMMA OnlyOne ==
  ASSUME MixedInv, ~mixed, NEW p \in Proc, ~Resting(p), NEW q \in Proc, q # p
  PROVE  Resting(q)
  BY DEF MixedInv, Proc

(* A statement is of an operation that is under way; it is the last one, or *)
(* another one follows, and only the end of an operation bears on whether  *)
(* the indexes are sound.                                                  *)
LEMMA StatementFacts ==
  ASSUME StoreTypeOK, NEW p \in Proc, Statement(p) \/ StatementFails(p)
  PROVE  /\ ~Resting(p) /\ mixed' = mixed
         /\ \A q \in Proc \ {p} : (Resting(q)' <=> Resting(q))
         /\ \/ Resting(p)' /\ (Rebuilding(p) \/ (ftsSound' => ftsSound /\ ~mixed))
               /\ (sftsSound' => ~mixed) /\ (sftsSound' => sftsSound \/ at[p] = "rebuild")
            \/ at[p] = "read summaries" /\ at'[p] = "rebuild" /\ UNCHANGED <<ftsSound, sftsSound>>
            \/ /\ ~Resting(p)' /\ ~Rebuilding(p)' /\ ~Rebuilding(p)
               /\ ftsSound' = ftsSound /\ (sftsSound' => sftsSound)
<1>1. ASSUME NEW q \in Proc \ {p} PROVE Resting(q)' <=> Resting(q)
  BY OneMoves DEF Resting
<1>2. ASSUME Finishes(p) \/ Throws(p)
      PROVE  /\ Resting(p)' /\ (ftsSound' => ftsSound /\ ~mixed)
             /\ (sftsSound' => sftsSound /\ ~mixed) /\ mixed' = mixed
  <2>1. at'[p] = Rest(p)
    BY <1>2 DEF Finishes, Throws, StoreTypeOK, WorkOK
  <2>2. Resting(p)'
    BY <2>1, RestIsRest DEF Resting
  <2> QED
    BY <1>2, <2>2 DEF Finishes, Throws
<1>3. ASSUME NEW s, Goes(p, s)
      PROVE  at'[p] = s /\ mixed' = mixed /\ UNCHANGED <<ftsSound, sftsSound>>
  <2>1. at'[p] = s
    BY <1>3 DEF Goes, StoreTypeOK, WorkOK
  <2>2. mixed' = mixed /\ ftsSound' = ftsSound /\ sftsSound' = sftsSound
    BY <1>3 DEF Goes, history
  <2> QED
    BY <2>1, <2>2
<1>20. ASSUME NEW s \in StatementNames \ {"down", "idle", "command", "read summaries", "rebuild"},
             Goes(p, s), ~Resting(p), ~Rebuilding(p)
      PROVE  /\ ~Resting(p) /\ mixed' = mixed
             /\ \A q \in Proc \ {p} : (Resting(q)' <=> Resting(q))
             /\ ~Resting(p)' /\ ~Rebuilding(p)' /\ ~Rebuilding(p)
             /\ ftsSound' = ftsSound /\ (sftsSound' => sftsSound)
  <2>1. at'[p] = s /\ mixed' = mixed /\ UNCHANGED <<ftsSound, sftsSound>>
    BY <1>20, <1>3
  <2>2. ~Resting(p)' /\ ~Rebuilding(p)'
    BY <2>1 DEF Resting, Rebuilding
  <2>3. sftsSound' => sftsSound
    BY <2>1
  <2> QED
    BY <1>20, <1>1, <2>1, <2>2, <2>3
<1>21. {"clear summary", "index summary", "delete texts", "delete summaries", "clear summaries"} \subseteq
        StatementNames \ {"down", "idle", "command", "read summaries", "rebuild"}
  BY DEF StatementNames, Indexing
<1>4. CASE StatementFails(p)
  BY <1>1, <1>2, <1>4 DEF StatementFails
<1>5. CASE IndexText(p)
  <2>1. CASE job[p].id \in DOMAIN fts
    BY <1>1, <1>2, <1>5, <2>1 DEF IndexText, Resting, Rebuilding
  <2>2. CASE job[p].id \notin DOMAIN fts
    <3>1. Goes(p, "clear summary") /\ ~Resting(p) /\ ~Rebuilding(p)
      BY <1>5, <2>2 DEF IndexText, GoesOn, Resting, Rebuilding
    <3> QED
      BY <1>20, <1>21, <3>1
  <2> QED
    BY <2>1, <2>2
<1>6. CASE ClearSummary(p)
  <2>1. CASE job[p].sum = 0
    BY <1>1, <1>2, <1>6, <2>1 DEF ClearSummary, Resting, Rebuilding
  <2>2. CASE job[p].sum # 0
    <3>1. Goes(p, "index summary") /\ ~Resting(p) /\ ~Rebuilding(p)
      BY <1>6, <2>2 DEF ClearSummary, GoesOn, Resting, Rebuilding
    <3> QED
      BY <1>20, <1>21, <3>1
  <2> QED
    BY <2>1, <2>2
<1>7. CASE IndexSummary(p)
  BY <1>1, <1>2, <1>7 DEF IndexSummary, Resting, Rebuilding
<1>8. CASE Update(p)
  <2>1. at'[p] = "read again" /\ at[p] = "update" /\ mixed' = mixed /\ ftsSound' = ftsSound
    BY <1>8 DEF Update, StoreTypeOK, WorkOK
  <2>2. sftsSound' => sftsSound
    BY <1>8 DEF Update
  <2> QED
    BY <1>1, <2>1, <2>2 DEF Resting, Rebuilding
<1>9. CASE ReadAgain(p)
  <2>1. CASE job[p].id \in DOMAIN messages
    <3>1. Goes(p, "clear summary") /\ ~Resting(p) /\ ~Rebuilding(p)
      BY <1>9, <2>1 DEF ReadAgain, Resting, Rebuilding
    <3> QED
      BY <1>20, <1>21, <3>1
  <2>2. CASE job[p].id \notin DOMAIN messages
    BY <1>1, <1>2, <1>9, <2>2 DEF ReadAgain, Resting, Rebuilding
  <2> QED
    BY <2>1, <2>2
<1>10. CASE DeleteRows(p)
  <2>1. Goes(p, "delete texts") /\ ~Resting(p) /\ ~Rebuilding(p)
    BY <1>10 DEF DeleteRows, Resting, Rebuilding
  <2> QED
    BY <1>20, <1>21, <2>1
<1>11. CASE DeleteTexts(p)
  <2>1. Goes(p, "delete summaries") /\ ~Resting(p) /\ ~Rebuilding(p)
    BY <1>11 DEF DeleteTexts, Resting, Rebuilding
  <2> QED
    BY <1>20, <1>21, <2>1
<1>12. CASE ClearTexts(p)
  <2>1. Goes(p, "clear summaries") /\ ~Resting(p) /\ ~Rebuilding(p)
    BY <1>12 DEF ClearTexts, Resting, Rebuilding
  <2> QED
    BY <1>20, <1>21, <2>1
<1>13. CASE DeleteSummaries(p) \/ ClearSummaries(p)
  BY <1>1, <1>2, <1>13 DEF DeleteSummaries, ClearSummaries, Resting, Rebuilding
<1>14. CASE ReadSummaries(p)
  <2>1. Goes(p, "rebuild") /\ at[p] = "read summaries"
    BY <1>14 DEF ReadSummaries
  <2> QED
    BY <1>1, <1>3, <2>1 DEF Resting
<1>15. CASE Rebuild(p)
  <2>1. at[p] = "rebuild" /\ at'[p] \in {"idle", "command"} /\ mixed' = mixed
    BY <1>15 DEF Rebuild, StoreTypeOK, WorkOK
  <2>2. sftsSound' => ~mixed
    BY <1>15 DEF Rebuild
  <2> QED
    BY <1>1, <2>1, <2>2 DEF Resting, Rebuilding
<1> QED
  BY <1>4, <1>5, <1>6, <1>7, <1>8, <1>9, <1>10, <1>11, <1>12, <1>13, <1>14, <1>15 DEF Statement

(* What begins begins at rest. *)
LEMMA BeginsFacts ==
  ASSUME StoreTypeOK, NEW p \in Proc, NEW s \in StatementNames, Begins(p, s)
  PROVE  /\ at'[p] = s
         /\ \A q \in Proc \ {p} : at'[q] = at[q] /\ (~mixed' => Resting(q))
         /\ UNCHANGED <<ftsSound, sftsSound>>
  BY DEF Begins, StoreTypeOK, WorkOK

(* An operation begins, at a process that was at rest: a row may have been *)
(* added, or all are gone.                                                 *)
FirstStatements == {"index text", "update", "delete rows", "clear texts", "read summaries"}

RowComes(p) ==
  \E id \in Ids \ DOMAIN messages :
    /\ job'[p].id = id /\ DOMAIN messages' = DOMAIN messages \cup {id}
    /\ \A i \in DOMAIN messages : messages'[i] = messages[i]
    /\ messages'[id].sum = job'[p].sum

Begun(p, s) ==
  /\ Begins(p, s) /\ Resting(p) /\ job' = [job EXCEPT ![p] = job'[p]]
  /\ s \in {"update", "delete rows", "read summaries"} => messages' = messages
  /\ s = "clear texts" => DOMAIN messages' = {}
  /\ s = "index text" => RowComes(p)

IndexesStay == fts' = fts /\ sfts' = sfts /\ ftsSound' = ftsSound /\ sftsSound' = sftsSound
NothingBegins == messages' = messages /\ at' = at /\ job' = job /\ mixed' = mixed
CliExits ==
  /\ Resting(Cli) /\ at' = [at EXCEPT ![Cli] = "down"]
  /\ messages' = messages /\ job' = job /\ mixed' = mixed

LEMMA FirstKinds ==
  FirstStatements \subseteq StatementNames /\ FirstStatements \cap {"down", "idle", "command"} = {}
  BY DEF StatementNames, Indexing, FirstStatements

(* What becomes of the indexes when a caller begins: nothing yet. *)
LEMMA CallerFacts ==
  ASSUME StoreTypeOK, Callers
  PROVE  /\ IndexesStay
         /\ \/ NothingBegins \/ CliExits
            \/ \E p \in Proc, s \in FirstStatements : Begun(p, s)
<1> DEFINE Goal == /\ IndexesStay
                   /\ \/ NothingBegins \/ CliExits
                      \/ \E p \in Proc, s \in FirstStatements : Begun(p, s)
<1>1. ASSUME NEW role \in {"user", "model"}, NEW t \in UserTurn \cup {NoTurn},
             NEW sum \in {0, 1}, AddMessage(role, t, sum)
      PROVE  IndexesStay /\ Main \in Proc /\ Begun(Main, "index text")
  <2>1. /\ Resting(Main) /\ last + 1 \in Ids \ DOMAIN messages
        /\ DOMAIN messages' = DOMAIN messages \cup {last + 1}
        /\ \A i \in DOMAIN messages : messages'[i] = messages[i]
        /\ job'[Main].id = last + 1 /\ messages'[last + 1].sum = job'[Main].sum
    BY <1>1, AddMessageFacts DEF Resting
  <2>2. Begins(Main, "index text") /\ job' = [job EXCEPT ![Main] = job'[Main]]
    <3> DEFINE j == [NoJob EXCEPT !.id = NextId, !.msg = last + 1, !.sum = sum, !.by = t]
    <3>1. Begins(Main, "index text") /\ job' = [job EXCEPT ![Main] = j]
      BY <1>1 DEF AddMessage
    <3> HIDE DEF j
    <3>2. job'[Main] = j
      BY <3>1 DEF StoreTypeOK, WorkOK, Proc
    <3> QED
      BY <3>1, <3>2
  <2>3. RowComes(Main)
    BY <2>1 DEF RowComes
  <2>4. IndexesStay
    BY <1>1, AddMessageFacts DEF IndexesStay
  <2> QED
    BY <2>1, <2>2, <2>3, <2>4 DEF Proc, Begun
<1>2. ASSUME NEW p \in Proc, NEW s \in {"update", "delete rows", "read summaries"}, NEW j,
             Begins(p, s), Resting(p), job' = [job EXCEPT ![p] = j], UNCHANGED tables
      PROVE  IndexesStay /\ Begun(p, s)
  <2>1. messages' = messages /\ IndexesStay
    BY <1>2 DEF Begins, tables, IndexesStay
  <2>2. job' = [job EXCEPT ![p] = job'[p]]
    BY <1>2 DEF StoreTypeOK, WorkOK
  <2>3. s # "clear texts" /\ s # "index text"
    BY <1>2
  <2> QED
    BY <1>2, <2>1, <2>2, <2>3 DEF Begun
<1>0. /\ "index text" \in FirstStatements /\ "clear texts" \in FirstStatements
      /\ {"update", "delete rows", "read summaries"} \subseteq FirstStatements
  BY DEF FirstStatements
<1> USE <1>0
<1>14. UNCHANGED history => /\ mixed' = mixed /\ ftsSound' = ftsSound /\ sftsSound' = sftsSound
  BY DEF history
<1>3. ASSUME NEW t \in UserTurn, UserWrites(t) PROVE Goal
  BY <1>1, <1>3 DEF UserWrites
<1>4. ASSUME NEW t \in UserTurn, ReplyComes(t) PROVE Goal
  BY <1>1, <1>4 DEF ReplyComes
<1>5. ASSUME NEW t \in UserTurn, TurnFails(t) PROVE Goal
  BY <1>5, <1>14 DEF TurnFails, tables, IndexesStay, NothingBegins
<1>6. ASSUME NEW t \in UserTurn, FollowUp(t) PROVE Goal
  <2>1. CASE UNCHANGED <<job, at, history>>
    BY <1>6, <1>14, <2>1 DEF FollowUp, tables, IndexesStay, NothingBegins
  <2>2. CASE ~UNCHANGED <<job, at, history>>
    <3>1. PICK i \in Replies(key[t]) :
            /\ job' = [job EXCEPT ![Main] = [NoJob EXCEPT !.id = i, !.sum = 3, !.ts = key[t]]]
            /\ Begins(Main, "update")
      BY <1>6, <2>2 DEF FollowUp
    <3> DEFINE j == [NoJob EXCEPT !.id = i, !.sum = 3, !.ts = key[t]]
    <3>2. job' = [job EXCEPT ![Main] = j] /\ Begins(Main, "update")
      BY <3>1
    <3> HIDE DEF j
    <3>3. Main \in Proc /\ Resting(Main) /\ UNCHANGED tables
      BY <1>6 DEF FollowUp, Resting, Proc
    <3>4. IndexesStay /\ Begun(Main, "update")
      BY <1>2, <3>2, <3>3
    <3> QED
      BY <3>3, <3>4
  <2> QED
    BY <2>1, <2>2
<1>7. ASSUME SchedulerWrites PROVE Goal
  BY <1>1, <1>7 DEF SchedulerWrites
<1>8. ASSUME NEW i \in DOMAIN messages, NEW b \in BOOLEAN, Tag(i, b) PROVE Goal
  <2> DEFINE j == [NoJob EXCEPT !.id = i, !.sum = IF b THEN 2 ELSE 0]
  <2>1. job' = [job EXCEPT ![Cli] = j] /\ Begins(Cli, "update") /\ UNCHANGED tables
        /\ Cli \in Proc /\ Resting(Cli)
    BY <1>8 DEF Tag, Proc, Resting
  <2> HIDE DEF j
  <2>2. IndexesStay /\ Begun(Cli, "update")
    BY <1>2, <2>1
  <2> QED
    BY <2>1, <2>2
<1>9. ASSUME NEW n \in 1 .. 2, ForgetRecent(n) PROVE Goal
  <2>1. PICK ids \in Recent(n) : job' = [job EXCEPT ![Cli] = [NoJob EXCEPT !.ids = ids]]
    BY <1>9 DEF ForgetRecent
  <2>2. Begins(Cli, "delete rows") /\ UNCHANGED tables /\ Cli \in Proc /\ Resting(Cli)
    BY <1>9 DEF ForgetRecent, Proc, Resting
  <2>3. IndexesStay /\ Begun(Cli, "delete rows")
    BY <1>2, <2>1, <2>2
  <2> QED
    BY <2>2, <2>3
<1>10. ASSUME NEW p \in Proc, Clear(p) PROVE Goal
  <2>1. Resting(p)
    <3>1. at[p] = "idle" \/ at[p] = "command"
      BY <1>10 DEF Clear
    <3> QED
      BY <3>1 DEF Resting
  <2>2. Begins(p, "clear texts") /\ DOMAIN messages' = {} /\ UNCHANGED <<fts, sfts>>
    BY <1>10, EmptyTable DEF Clear
  <2>3. job' = [job EXCEPT ![p] = job'[p]]
    BY <1>10 DEF Clear, StoreTypeOK, WorkOK
  <2>4. IndexesStay /\ Begun(p, "clear texts")
    BY <2>1, <2>2, <2>3 DEF IndexesStay, Begun, Begins
  <2> QED
    BY <2>4
<1>11. ASSUME NEW p \in Proc, Starts(p) PROVE Goal
  <2>1. Begins(p, "read summaries") /\ UNCHANGED tables /\ Resting(p)
        /\ job' = [job EXCEPT ![p] = NoJob]
    BY <1>11 DEF Starts, Resting
  <2>2. IndexesStay /\ Begun(p, "read summaries")
    BY <1>2, <2>1
  <2> QED
    BY <2>2
<1>12. ASSUME Exits PROVE Goal
  <2>1. IndexesStay /\ CliExits
    BY <1>12, <1>14 DEF Exits, tables, IndexesStay, CliExits, Resting
  <2> QED
    BY <2>1
<1>13. Goal
  BY <1>3, <1>4, <1>5, <1>6, <1>7, <1>8, <1>9, <1>10, <1>11, <1>12 DEF Callers
<1> QED
  BY <1>13

LEMMA MixedStep ==
  ASSUME StoreTypeOK, MixedInv, [MemoryNext]_mvars
  PROVE  MixedInv'
<1>1. CASE Callers
  <2>1. CASE NothingBegins
    BY <1>1, <2>1, CallerFacts DEF MixedInv, Resting, AllRest, NothingBegins, IndexesStay
  <2>2. CASE CliExits
    <3>1. (Resting(Cli)' <=> Resting(Cli)) /\ (Resting(Main)' <=> Resting(Main))
      BY <2>2, Kinds DEF Resting, StoreTypeOK, WorkOK, CliExits
    <3>2. sftsSound' = sftsSound /\ mixed' = mixed
      BY <1>1, <2>2, CallerFacts DEF IndexesStay, CliExits
    <3>3. AllRest' <=> AllRest
      BY <3>1 DEF AllRest, Proc
    <3> QED
      BY <3>1, <3>2, <3>3 DEF MixedInv
  <2>3. ASSUME NEW p \in Proc, NEW s \in FirstStatements, Begun(p, s)
        PROVE  MixedInv'
    <3>1. at'[p] = s /\ \A q \in Proc \ {p} : at'[q] = at[q] /\ (~mixed' => Resting(q))
      BY <2>3, BeginsFacts, FirstKinds DEF Begun
    <3>2. ~Resting(p)'
      BY <3>1, FirstKinds DEF Resting
    <3>3. \A q \in Proc \ {p} : ~mixed' => Resting(q)'
      BY <3>1 DEF Resting
    <3>4. ~AllRest'
      BY <3>2 DEF AllRest
    <3> QED
      BY <3>3, <3>4, Kinds DEF MixedInv
  <2> QED
    BY <1>1, <2>1, <2>2, <2>3, CallerFacts
<1>2. ASSUME NEW p \in Proc, Statement(p) \/ StatementFails(p)
      PROVE  MixedInv'
  <2>1. mixed' = mixed /\ ~Resting(p) /\ \A q \in Proc \ {p} : (Resting(q)' <=> Resting(q))
    BY <1>2, StatementFacts
  <2>2. Resting(p)' => (sftsSound' => ~mixed)
    BY <1>2, StatementFacts DEF Resting
  <2>3. ~mixed' => Resting(Main)' \/ Resting(Cli)'
    BY <2>1, Kinds DEF MixedInv
  <2>4. mixed' /\ AllRest' => ~sftsSound'
    BY <2>1, <2>2 DEF AllRest
  <2> QED
    BY <2>3, <2>4 DEF MixedInv
<1>3. ASSUME NEW p \in Proc, Dies(p)
      PROVE  MixedInv'
  <2>1. Resting(p)' /\ \A q \in Proc \ {p} : (Resting(q)' <=> Resting(q))
    BY <1>3 DEF Dies, Resting, StoreTypeOK, WorkOK
  <2>2. mixed' = mixed /\ (sftsSound' => sftsSound /\ Resting(p))
    BY <1>3 DEF Dies
  <2>3. ~mixed' => Resting(Main)' \/ Resting(Cli)'
    BY <2>1, Kinds
  <2>4. mixed' /\ AllRest' => ~sftsSound'
    <3>1. Resting(p) /\ AllRest' => AllRest
      BY <2>1 DEF AllRest
    <3> QED
      BY <2>2, <3>1 DEF MixedInv
  <2> QED
    BY <2>3, <2>4 DEF MixedInv
<1>4. CASE UNCHANGED mvars
  BY <1>4 DEF mvars, history, MixedInv, AllRest, Resting
<1> QED
  BY <1>1, <1>2, <1>3, <1>4 DEF MemoryNext

----------------------------------------------------------------------------
(* The texts *)

LEMMA TextsCallers ==
  ASSUME StoreTypeOK, MixedInv, TextsInv, Callers
  PROVE  TextsInv'
<1>1. fts' = fts /\ ftsSound' = ftsSound
  BY CallerFacts DEF IndexesStay
<1>2. CASE NothingBegins
  BY <1>1, <1>2 DEF NothingBegins, TextsInv, TextsAt, Resting, Rebuilding
<1>3. CASE CliExits
  <2>1. \A p \in Proc : /\ Resting(p)' <=> Resting(p)
                        /\ Rebuilding(p)' => Rebuilding(p)
                        /\ ~Resting(p) => at'[p] = at[p]
    BY <1>3, Kinds DEF CliExits, Resting, Rebuilding, StoreTypeOK, WorkOK
  <2>2. messages' = messages /\ job' = job /\ mixed' = mixed
    BY <1>3 DEF CliExits
  <2>3. ASSUME NEW p \in Proc, ~Resting(p), TextsAt(p) PROVE TextsAt(p)'
    <3>1. at'[p] = at[p] /\ job' = job /\ messages' = messages /\ fts' = fts
      BY <1>1, <2>1, <2>2, <2>3
    <3> QED
      BY <2>3, <3>1 DEF TextsAt
  <2>4. (\A p \in Proc : Resting(p)' \/ Rebuilding(p)') => \A p \in Proc : Resting(p) \/ Rebuilding(p)
    BY <2>1
  <2>5. ASSUME ftsSound', ~mixed', NEW p \in Proc, ~Resting(p)' PROVE TextsAt(p)'
    <3>1. ftsSound /\ ~mixed /\ ~Resting(p)
      BY <1>1, <2>1, <2>2, <2>5
    <3> QED
      BY <2>3, <3>1 DEF TextsInv
  <2>6. ASSUME ftsSound', \A p \in Proc : Resting(p)' \/ Rebuilding(p)'
        PROVE  DOMAIN fts' = DOMAIN messages'
    <3>1. ftsSound
      BY <1>1, <2>6
    <3> QED
      BY <1>1, <2>2, <2>4, <2>6, <3>1 DEF TextsInv
  <2> QED
    BY <2>5, <2>6 DEF TextsInv
<1>4. ASSUME NEW p \in Proc, NEW s \in FirstStatements, Begun(p, s), ftsSound
      PROVE  TextsInv'
  <2>1. at'[p] = s /\ Resting(p) /\ \A q \in Proc \ {p} : at'[q] = at[q] /\ (~mixed' => Resting(q))
    BY <1>4, BeginsFacts, FirstKinds DEF Begun
  <2>2. ~Resting(p)'
    BY <2>1, FirstKinds DEF Resting
  <2>3. \A q \in Proc \ {p} : /\ Resting(q)' => Resting(q)
                              /\ Rebuilding(q)' => Rebuilding(q)
                              /\ ~mixed' => Resting(q)'
    BY <2>1 DEF Resting, Rebuilding
  <2>4. (\A q \in Proc : Resting(q)' \/ Rebuilding(q)') => DOMAIN fts' = DOMAIN messages'
    <3> SUFFICES ASSUME \A q \in Proc : Resting(q)' \/ Rebuilding(q)'
                 PROVE  DOMAIN fts' = DOMAIN messages'
      OBVIOUS
    <3>1. s = "read summaries"
      BY <2>1, <2>2 DEF Rebuilding, FirstStatements
    <3>2. messages' = messages
      BY <1>4, <3>1 DEF Begun
    <3>3. \A q \in Proc : Resting(q) \/ Rebuilding(q)
      <4> SUFFICES ASSUME NEW q \in Proc PROVE Resting(q) \/ Rebuilding(q)
        OBVIOUS
      <4>1. CASE q = p
        BY <2>1, <4>1
      <4>2. CASE q # p
        <5>1. q \in Proc \ {p} /\ (Resting(q)' \/ Rebuilding(q)')
          BY <4>2
        <5> QED
          BY <2>3, <5>1
      <4> QED
        BY <4>1, <4>2
    <3> QED
      BY <1>1, <1>4, <3>2, <3>3 DEF TextsInv
  <2>5. ASSUME ~mixed' PROVE TextsAt(p)'
    <3>1. DOMAIN fts = DOMAIN messages
      BY <1>4, <2>1, <2>5 DEF TextsInv
    <3>2. CASE s \in {"update", "delete rows", "read summaries"}
      BY <1>1, <1>4, <2>1, <3>1, <3>2 DEF Begun, TextsAt
    <3>3. CASE s = "clear texts"
      BY <1>4, <2>1, <3>3 DEF Begun, TextsAt
    <3>4. CASE s = "index text"
      <4>1. PICK id \in Ids \ DOMAIN messages :
              job'[p].id = id /\ DOMAIN messages' = DOMAIN messages \cup {id}
        BY <1>4, <3>4 DEF Begun, RowComes
      <4> QED
        BY <1>1, <2>1, <3>1, <3>4, <4>1 DEF TextsAt
    <3> QED
      BY <3>2, <3>3, <3>4 DEF FirstStatements
  <2>6. ASSUME ~mixed', NEW q \in Proc, ~Resting(q)' PROVE TextsAt(q)'
    <3>1. q = p
      BY <2>3, <2>6
    <3> QED
      BY <2>5, <2>6, <3>1
  <2> QED
    BY <2>4, <2>6 DEF TextsInv
<1>5. ftsSound' => ftsSound
  BY <1>1
<1>6. ~ftsSound' => TextsInv'
  BY DEF TextsInv
<1> QED
  BY <1>2, <1>3, <1>4, <1>5, <1>6, CallerFacts

(* While p alone works, its statement has to keep its own account.         *)
LEMMA TextsKept ==
  ASSUME StoreTypeOK, MixedInv, TextsInv, NEW p \in Proc, Statement(p) \/ StatementFails(p),
         ~Rebuilding(p), ftsSound /\ ~mixed /\ TextsAt(p) => TextsAt(p)'
  PROVE  TextsInv'
<1> SUFFICES ASSUME ftsSound' PROVE TextsInv'
  BY DEF TextsInv
<1>1. mixed' = mixed /\ ~Resting(p) /\ \A q \in Proc \ {p} : (Resting(q)' <=> Resting(q))
  BY StatementFacts
<1>2. ftsSound
  BY StatementFacts DEF Rebuilding
<1>3. CASE mixed
  <2>1. ~Resting(p)' /\ ~Rebuilding(p)'
    BY <1>3, StatementFacts DEF Rebuilding
  <2> QED
    BY <1>1, <1>3, <2>1 DEF TextsInv
<1>4. CASE ~mixed
  <2>1. TextsAt(p)'
    BY <1>1, <1>2, <1>4 DEF TextsInv
  <2>2. \A q \in Proc \ {p} : Resting(q)'
    BY <1>1, <1>4, OnlyOne
  <2>3. Resting(p)' \/ Rebuilding(p)' => DOMAIN fts' = DOMAIN messages'
    BY <2>1 DEF TextsAt, Resting, Rebuilding
  <2> QED
    BY <1>1, <1>4, <2>1, <2>2, <2>3 DEF TextsInv
<1> QED
  BY <1>3, <1>4

LEMMA TextsStatements ==
  ASSUME StoreTypeOK, NumberInv, MixedInv, TextsInv, NEW p \in Proc, Statement(p) \/ StatementFails(p)
  PROVE  TextsInv'
<1>1. CASE Rebuilding(p)
  <2>1. UNCHANGED <<messages, fts>>
    BY <1>1 DEF Statement, StatementFails, tables, IndexText, ClearSummary, IndexSummary, Update,
       ReadAgain, DeleteRows, DeleteTexts, DeleteSummaries, ClearTexts, ClearSummaries,
       ReadSummaries, Rebuild, Rebuilding
  <2>2. mixed' = mixed /\ ~Resting(p) /\ \A q \in Proc \ {p} : (Resting(q)' <=> Resting(q))
    BY StatementFacts
  <2>3. Resting(p)' \/ at'[p] = "rebuild"
    BY <1>1, StatementFacts
  <2>4. \A q \in Proc \ {p} : at'[q] = at[q] /\ job'[q] = job[q]
    BY OneMoves
  <2>5. ftsSound' => ftsSound
    BY <1>1 DEF Statement, StatementFails, IndexText, ClearSummary, IndexSummary, Update,
       ReadAgain, DeleteRows, DeleteTexts, DeleteSummaries, ClearTexts, ClearSummaries,
       ReadSummaries, Rebuild, Rebuilding, Throws, Goes, history
  <2>6. \A q \in Proc \ {p} : Rebuilding(q)' <=> Rebuilding(q)
    BY <2>4 DEF Rebuilding
  <2>7. (\A q \in Proc : Resting(q)' \/ Rebuilding(q)') => \A q \in Proc : Resting(q) \/ Rebuilding(q)
    BY <1>1, <2>2, <2>6
  <2>8. ASSUME ftsSound', ~mixed', NEW q \in Proc, ~Resting(q)'
        PROVE  TextsAt(q)'
    <3>1. TextsAt(p)
      BY <2>2, <2>5, <2>8 DEF TextsInv
    <3>2. q = p
      BY <2>2, <2>8, OnlyOne
    <3>3. at'[p] = "rebuild"
      BY <2>3, <2>8, <3>2
    <3> QED
      BY <1>1, <2>1, <3>1, <3>2, <3>3 DEF TextsAt, Rebuilding
  <2> QED
    BY <2>1, <2>5, <2>7, <2>8 DEF TextsInv
<1>2. CASE ~Rebuilding(p)
  <2>1. SUFFICES ASSUME TextsAt(p), ftsSound' PROVE TextsAt(p)'
    <3>1. ~ftsSound' => TextsInv'
      BY DEF TextsInv
    <3> QED
      BY <1>2, <2>1, <3>1, TextsKept
  <2>2. ASSUME Finishes(p) \/ Throws(p) PROVE at'[p] \in {"idle", "down"}
    BY <2>2, RestIsRest DEF Finishes, Throws, StoreTypeOK, WorkOK
  <2>3. ASSUME NEW s, Goes(p, s) PROVE at'[p] = s
    BY <2>3 DEF Goes, StoreTypeOK, WorkOK
  <2>4. ASSUME Throws(p) PROVE FALSE
    BY <2>1, <2>4 DEF Throws
  <2>5. CASE StatementFails(p)
    BY <2>4, <2>5 DEF StatementFails
  <2>6. CASE IndexText(p)
    <3>1. fts' = Put(job[p].id, job[p].msg, fts) /\ at'[p] = "clear summary" /\ messages' = messages
          /\ at[p] = "index text"
      BY <2>3, <2>4, <2>6 DEF IndexText, GoesOn
    <3>2. DOMAIN fts' = DOMAIN fts \cup {job[p].id}
      BY <3>1 DEF Put
    <3> QED
      BY <2>1, <3>1, <3>2 DEF TextsAt
  <2>7. CASE ClearSummary(p) \/ IndexSummary(p) \/ ReadAgain(p) \/ DeleteSummaries(p)
    <3>1. fts' = fts /\ messages' = messages
          /\ at[p] \notin {"index text", "delete texts", "clear texts"}
      BY <2>7 DEF ClearSummary, IndexSummary, ReadAgain, DeleteSummaries, tables
    <3>2. at'[p] \in {"idle", "down", "clear summary", "index summary"}
      BY <2>2, <2>3, <2>7 DEF ClearSummary, IndexSummary, ReadAgain, DeleteSummaries, GoesOn
    <3> QED
      BY <2>1, <3>1, <3>2 DEF TextsAt
  <2>8. CASE Update(p)
    <3>1. fts' = fts /\ DOMAIN messages' = DOMAIN messages /\ at[p] = "update" /\ at'[p] = "read again"
      BY <2>8 DEF Update, StoreTypeOK, WorkOK
    <3> QED
      BY <2>1, <3>1 DEF TextsAt
  <2>9. CASE DeleteRows(p)
    <3>1. fts' = fts /\ DOMAIN messages' = DOMAIN messages \ job[p].ids /\ job' = job
          /\ at[p] = "delete rows" /\ at'[p] = "delete texts"
      BY <2>3, <2>9 DEF DeleteRows, Without
    <3> QED
      BY <2>1, <3>1 DEF TextsAt
  <2>10. CASE DeleteTexts(p)
    <3>1. DOMAIN fts' = DOMAIN fts \ job[p].ids /\ messages' = messages
          /\ at[p] = "delete texts" /\ at'[p] = "delete summaries"
      BY <2>3, <2>10 DEF DeleteTexts, Without
    <3> QED
      BY <2>1, <3>1 DEF TextsAt
  <2>11. CASE ClearTexts(p)
    <3>1. DOMAIN fts' = {} /\ messages' = messages
          /\ at[p] = "clear texts" /\ at'[p] = "clear summaries"
      BY <2>3, <2>11, EmptyTable DEF ClearTexts
    <3> QED
      BY <2>1, <3>1 DEF TextsAt
  <2>12. CASE ClearSummaries(p)
    <3>1. fts' = fts /\ messages' = messages
          /\ at[p] = "clear summaries" /\ at'[p] \in {"idle", "down"}
      BY <2>2, <2>12 DEF ClearSummaries
    <3> QED
      BY <2>1, <3>1 DEF TextsAt
  <2>13. CASE ReadSummaries(p) \/ Rebuild(p)
    BY <1>2, <2>13 DEF ReadSummaries, Rebuild, Rebuilding
  <2> QED
    BY <2>5, <2>6, <2>7, <2>8, <2>9, <2>10, <2>11, <2>12, <2>13 DEF Statement
<1> QED
  BY <1>1, <1>2

LEMMA TextsStep ==
  ASSUME StoreTypeOK, NumberInv, MixedInv, TextsInv, [MemoryNext]_mvars
  PROVE  TextsInv'
<1>1. ASSUME NEW p \in Proc, Dies(p) PROVE TextsInv'
  <2>1. Resting(p)' /\ ~Rebuilding(p)'
        /\ \A q \in Proc \ {p} : at'[q] = at[q] /\ job'[q] = job[q]
    BY <1>1 DEF Dies, Resting, Rebuilding, StoreTypeOK, WorkOK
  <2>2. UNCHANGED <<messages, fts, mixed>> /\ (ftsSound' => ftsSound /\ Resting(p))
    BY <1>1 DEF Dies, tables
  <2>3. \A q \in Proc \ {p} : (Resting(q)' <=> Resting(q)) /\ (Rebuilding(q)' <=> Rebuilding(q))
    BY <2>1, <2>2 DEF Resting, Rebuilding
  <2>4. ASSUME ftsSound', ~mixed', NEW q \in Proc, ~Resting(q)' PROVE TextsAt(q)'
    <3>1. q \in Proc \ {p}
      BY <2>1, <2>4
    <3>2. ftsSound /\ ~mixed /\ ~Resting(q) /\ at'[q] = at[q] /\ job'[q] = job[q]
      BY <2>1, <2>2, <2>3, <2>4, <3>1
    <3>3. TextsAt(q)
      BY <3>2 DEF TextsInv
    <3> QED
      BY <2>2, <3>2, <3>3 DEF TextsAt
  <2>5. ASSUME ftsSound', \A q \in Proc : Resting(q)' \/ Rebuilding(q)'
        PROVE  DOMAIN fts' = DOMAIN messages'
    <3>1. ftsSound /\ Resting(p)
      BY <2>2, <2>5
    <3>2. ASSUME NEW q \in Proc, q # p PROVE Resting(q) \/ Rebuilding(q)
      BY <2>3, <2>5, <3>2
    <3> QED
      BY <2>2, <3>1, <3>2 DEF TextsInv
  <2> QED
    BY <2>4, <2>5 DEF TextsInv
<1>2. ASSUME UNCHANGED mvars PROVE TextsInv'
  <2>1. messages' = messages /\ fts' = fts /\ at' = at /\ job' = job /\ mixed' = mixed
        /\ ftsSound' = ftsSound
    BY <1>2 DEF mvars, tables, history
  <2> QED
    BY <2>1 DEF TextsInv, TextsAt, Resting, Rebuilding
<1> QED
  BY <1>1, <1>2, TextsCallers, TextsStatements DEF MemoryNext
----------------------------------------------------------------------------
(* The summaries *)

(* An entry is right as long as it and its row are left alone. *)
EntryStays(i) ==
  /\ (i \in DOMAIN messages' <=> i \in DOMAIN messages)
  /\ (i \in DOMAIN sfts' <=> i \in DOMAIN sfts)
  /\ i \in DOMAIN messages => messages'[i].sum = messages[i].sum
  /\ i \in DOMAIN sfts => sfts'[i] = sfts[i]

LEMMA RightStays ==
  ASSUME NEW i, SummaryIsRight(i), EntryStays(i)
  PROVE  SummaryIsRight(i)'
  BY DEF SummaryIsRight, EntryStays

LEMMA SameEntries ==
  ASSUME messages' = messages, sfts' = sfts
  PROVE  /\ \A i : EntryStays(i)
         /\ \A i \in Ids : SummaryIsRight(i)' <=> SummaryIsRight(i)
         /\ SummariesOf' = SummariesOf
  BY DEF EntryStays, SummaryIsRight, SummariesOf, Summarised

LEMMA SummariesSame ==
  ASSUME messages' = messages, sfts' = sfts, NEW p \in Proc, at'[p] = at[p], job'[p] = job[p],
         SummariesAt(p)
  PROVE  SummariesAt(p)'
<1>1. Resting(p)' <=> Resting(p)
  BY DEF Resting
<1>2. \A i \in Ids : SummaryIsRight(i)' <=> SummaryIsRight(i)
  BY SameEntries
<1>3. /\ Resting(p)' \/ at'[p] \in {"update", "delete rows"} => \A i \in Ids : SummaryIsRight(i)'
      /\ at'[p] \in Indexing \cup {"read again"} =>
           \A i \in Ids \ {job'[p].id} : SummaryIsRight(i)'
  BY <1>1, <1>2 DEF SummariesAt
<1>4. /\ at'[p] \in Indexing =>
           job'[p].id \in DOMAIN messages' /\ messages'[job'[p].id].sum = job'[p].sum
      /\ at'[p] = "index summary" => job'[p].sum # 0
      /\ at'[p] \in {"clear texts", "clear summaries"} => DOMAIN messages' = {}
  BY DEF SummariesAt
<1>5. at'[p] \in {"delete texts", "delete summaries"} =>
        /\ job'[p].ids \cap DOMAIN messages' = {}
        /\ \A i \in Ids \ job'[p].ids : SummaryIsRight(i)'
  BY <1>2 DEF SummariesAt
<1> QED
  BY <1>3, <1>4, <1>5 DEF SummariesAt, Indexing

LEMMA SummariesCallers ==
  ASSUME StoreTypeOK, MixedInv, SummariesInv, Callers
  PROVE  SummariesInv'
<1>1. sfts' = sfts /\ sftsSound' = sftsSound
  BY CallerFacts DEF IndexesStay
<1>2. CASE NothingBegins \/ CliExits
  <2>1. messages' = messages /\ job' = job /\ mixed' = mixed
    BY <1>2 DEF NothingBegins, CliExits
  <2>2. \A p \in Proc : /\ Resting(p)' <=> Resting(p)
                        /\ ~Resting(p)' => at'[p] = at[p]
                        /\ at'[p] = "rebuild" => at[p] = "rebuild"
    BY <1>2, Kinds DEF NothingBegins, CliExits, Resting, StoreTypeOK, WorkOK
  <2>3. AllRest' <=> AllRest
    BY <2>2 DEF AllRest
  <2>4. sftsSound' /\ AllRest' => \A i \in Ids : SummaryIsRight(i)'
    BY <1>1, <2>1, <2>3, SameEntries DEF SummariesInv
  <2>5. ASSUME sftsSound', ~mixed', NEW p \in Proc, ~Resting(p)' PROVE SummariesAt(p)'
    <3>1. SummariesAt(p) /\ at'[p] = at[p] /\ job'[p] = job[p]
      BY <1>1, <2>1, <2>2, <2>5 DEF SummariesInv
    <3> QED
      BY <1>1, <2>1, <3>1, SummariesSame
  <2>6. ~mixed' => \A p \in Proc : at'[p] = "rebuild" => job'[p].snap = SummariesOf'
    BY <1>1, <2>1, <2>2, SameEntries DEF SummariesInv
  <2> QED
    BY <2>4, <2>5, <2>6 DEF SummariesInv
<1>3. ASSUME NEW p \in Proc, NEW s \in FirstStatements, Begun(p, s)
      PROVE  SummariesInv'
  <2>1. at'[p] = s /\ Resting(p) /\ \A q \in Proc \ {p} : at'[q] = at[q] /\ (~mixed' => Resting(q))
    BY <1>3, BeginsFacts, FirstKinds DEF Begun
  <2>2. ~Resting(p)'
    BY <2>1, FirstKinds DEF Resting
  <2>3. \A q \in Proc \ {p} : ~mixed' => Resting(q)'
    BY <2>1 DEF Resting
  <2>4. ~AllRest'
    BY <2>2 DEF AllRest
  <2>5. ASSUME sftsSound', ~mixed' PROVE SummariesAt(p)'
    <3>1. AllRest
      BY <2>1, <2>5 DEF AllRest
    <3>2. \A i \in Ids : SummaryIsRight(i)
      BY <1>1, <2>5, <3>1 DEF SummariesInv
    <3>3. CASE s \in {"update", "delete rows", "read summaries"}
      <4>1. messages' = messages
        BY <1>3, <3>3 DEF Begun
      <4>2. \A i \in Ids : SummaryIsRight(i)'
        BY <1>1, <3>2, <4>1, SameEntries
      <4> QED
        BY <2>1, <3>3, <4>2 DEF SummariesAt, Indexing
    <3>4. CASE s = "clear texts"
      <4>1. DOMAIN messages' = {}
        BY <1>3, <3>4 DEF Begun
      <4> QED
        BY <2>1, <2>2, <3>4, <4>1 DEF SummariesAt, Indexing
    <3>5. CASE s = "index text"
      <4>1. PICK id \in Ids \ DOMAIN messages :
              /\ job'[p].id = id /\ DOMAIN messages' = DOMAIN messages \cup {id}
              /\ \A i \in DOMAIN messages : messages'[i] = messages[i]
              /\ messages'[id].sum = job'[p].sum
        BY <1>3, <3>5 DEF Begun, RowComes
      <4>2. \A i \in Ids \ {id} : EntryStays(i)
        BY <1>1, <4>1 DEF EntryStays
      <4>3. \A i \in Ids \ {id} : SummaryIsRight(i)'
        BY <3>2, <4>2, RightStays
      <4>4. at'[p] = "index text" /\ id \in DOMAIN messages'
        BY <2>1, <3>5, <4>1
      <4> QED
        BY <2>2, <4>1, <4>3, <4>4 DEF SummariesAt, Indexing
    <3> QED
      BY <3>3, <3>4, <3>5 DEF FirstStatements
  <2>6. ASSUME sftsSound', ~mixed', NEW q \in Proc, ~Resting(q)' PROVE SummariesAt(q)'
    BY <2>3, <2>5, <2>6
  <2>7. ASSUME ~mixed', NEW q \in Proc, at'[q] = "rebuild" PROVE FALSE
    <3>1. q = p
      BY <2>3, <2>7 DEF Resting
    <3> QED
      BY <2>1, <2>7, <3>1 DEF FirstStatements
  <2> QED
    BY <2>4, <2>6, <2>7 DEF SummariesInv
<1> QED
  BY <1>2, <1>3, CallerFacts
(* While p alone works, its statement has to keep its own account. *)
LEMMA SummariesKept ==
  ASSUME StoreTypeOK, MixedInv, SummariesInv, NEW p \in Proc, Statement(p) \/ StatementFails(p),
         ~Rebuilding(p), sftsSound' /\ ~mixed /\ SummariesAt(p) => SummariesAt(p)'
  PROVE  SummariesInv'
<1>1. mixed' = mixed /\ ~Resting(p) /\ \A q \in Proc \ {p} : (Resting(q)' <=> Resting(q))
  BY StatementFacts
<1>2. /\ Resting(p)' /\ sftsSound' => ~mixed
      /\ sftsSound' => sftsSound
      /\ ~(at'[p] = "rebuild")
  BY StatementFacts DEF Rebuilding, Resting
<1>3. ASSUME sftsSound', ~mixed PROVE SummariesAt(p)'
  BY <1>1, <1>2, <1>3 DEF SummariesInv
<1>4. ASSUME sftsSound', AllRest' PROVE \A i \in Ids : SummaryIsRight(i)'
  <2>1. Resting(p)'
    BY <1>4 DEF AllRest
  <2>2. SummariesAt(p)'
    BY <1>2, <1>3, <1>4, <2>1
  <2> QED
    BY <2>1, <2>2 DEF SummariesAt
<1>5. ASSUME ~mixed', NEW q \in Proc, ~Resting(q)' PROVE q = p
  BY <1>1, <1>5, OnlyOne
<1>6. ASSUME ~mixed', NEW q \in Proc, at'[q] = "rebuild" PROVE FALSE
  <2>1. ~Resting(q)'
    BY <1>6 DEF Resting
  <2> QED
    BY <1>2, <1>5, <1>6, <2>1
<1>7. ASSUME sftsSound', ~mixed', NEW q \in Proc, ~Resting(q)' PROVE SummariesAt(q)'
  BY <1>1, <1>3, <1>5, <1>7
<1> QED
  BY <1>4, <1>6, <1>7 DEF SummariesInv

LEMMA SummariesRebuilt ==
  ASSUME StoreTypeOK, MixedInv, SummariesInv, NEW p \in Proc, Statement(p) \/ StatementFails(p),
         Rebuilding(p)
  PROVE  SummariesInv'
<1>1. mixed' = mixed /\ ~Resting(p) /\ \A q \in Proc \ {p} : (Resting(q)' <=> Resting(q))
  BY StatementFacts
<1>2. StatementFails(p) \/ ReadSummaries(p) \/ Rebuild(p)
  BY DEF Statement, IndexText, ClearSummary, IndexSummary, Update, ReadAgain, DeleteRows,
     DeleteTexts, DeleteSummaries, ClearTexts, ClearSummaries, Rebuilding
<1>3. \A q \in Proc \ {p} : at'[q] = at[q] /\ job'[q] = job[q]
  BY OneMoves
<1>4. ASSUME ~mixed', NEW q \in Proc, ~Resting(q)' PROVE q = p
  BY <1>1, <1>4, OnlyOne
<1>5. ASSUME ~mixed', NEW q \in Proc, at'[q] = "rebuild" PROVE q = p
  <2>1. ~Resting(q)'
    BY <1>5 DEF Resting
  <2> QED
    BY <1>4, <1>5, <2>1
<1>6. CASE StatementFails(p)
  <2>1. at'[p] = Rest(p) /\ sftsSound' = FALSE
    BY <1>6 DEF StatementFails, Throws, StoreTypeOK, WorkOK
  <2>2. at'[p] # "rebuild"
    BY <2>1, RestIsRest
  <2>3. ASSUME ~mixed', NEW q \in Proc, at'[q] = "rebuild" PROVE FALSE
    BY <1>5, <2>2, <2>3
  <2> QED
    BY <2>1, <2>3 DEF SummariesInv
<1>7. CASE ReadSummaries(p)
  <2>1. at'[p] = "rebuild" /\ job'[p].snap = SummariesOf /\ UNCHANGED <<messages, sfts>>
        /\ sftsSound' = sftsSound
    BY <1>7 DEF ReadSummaries, Goes, tables, history, StoreTypeOK, WorkOK, JobType
  <2>2. SummariesOf' = SummariesOf
    BY <2>1, SameEntries
  <2>3. ~AllRest'
    BY <2>1 DEF AllRest, Resting
  <2>4. SummariesAt(p)'
    BY <2>1 DEF SummariesAt, Resting, Indexing
  <2>5. ASSUME ~mixed', NEW q \in Proc, at'[q] = "rebuild" PROVE job'[q].snap = SummariesOf'
    BY <1>5, <2>1, <2>2, <2>5
  <2>6. ASSUME ~mixed', NEW q \in Proc, ~Resting(q)' PROVE SummariesAt(q)'
    BY <1>4, <2>4, <2>6
  <2> QED
    BY <2>3, <2>5, <2>6 DEF SummariesInv
<1>8. CASE Rebuild(p)
  <2>1. at[p] = "rebuild" /\ sfts' = job[p].snap /\ messages' = messages /\ sftsSound' = ~mixed
    BY <1>8 DEF Rebuild
  <2>2. at'[p] \in {"idle", "command"}
    BY <1>8 DEF Rebuild, StoreTypeOK, WorkOK
  <2>3. ASSUME sftsSound' PROVE \A i \in Ids : SummaryIsRight(i)'
    <3>1. sfts' = SummariesOf
      BY <2>1, <2>3 DEF SummariesInv
    <3>2. /\ DOMAIN sfts' = {i \in DOMAIN messages : messages[i].sum # 0}
          /\ \A i \in DOMAIN sfts' : sfts'[i].sum = messages[i].sum
      BY <3>1 DEF SummariesOf, Summarised
    <3> QED
      BY <2>1, <3>2 DEF SummaryIsRight
  <2>4. Resting(p)' /\ at'[p] # "rebuild"
    BY <2>2 DEF Resting
  <2>5. ASSUME ~mixed', NEW q \in Proc, ~Resting(q)' PROVE FALSE
    BY <1>4, <2>4, <2>5
  <2>6. ASSUME ~mixed', NEW q \in Proc, at'[q] = "rebuild" PROVE FALSE
    BY <1>5, <2>4, <2>6
  <2> QED
    BY <2>3, <2>5, <2>6 DEF SummariesInv
<1> QED
  BY <1>2, <1>6, <1>7, <1>8

LEMMA SummariesStatements ==
  ASSUME StoreTypeOK, MixedInv, SummariesInv, NEW p \in Proc, Statement(p) \/ StatementFails(p)
  PROVE  SummariesInv'
<1>1. CASE Rebuilding(p)
  BY <1>1, SummariesRebuilt
<1>2. CASE ~Rebuilding(p)
  <2>0. SUFFICES ASSUME SummariesAt(p), sftsSound' PROVE SummariesAt(p)'
    BY <1>2, SummariesKept
  <2>1. ASSUME Throws(p) PROVE FALSE
    BY <2>0, <2>1 DEF Throws
  <2>2. ASSUME Finishes(p), \A i \in Ids : SummaryIsRight(i)' PROVE SummariesAt(p)'
    <3>1. at'[p] \in {"idle", "down"}
      BY <2>2, RestIsRest DEF Finishes, StoreTypeOK, WorkOK
    <3> QED
      BY <2>2, <3>1 DEF SummariesAt, Indexing
  <2>3. ASSUME NEW s, Goes(p, s) PROVE at'[p] = s
    BY <2>3 DEF Goes, StoreTypeOK, WorkOK
  <2>4. CASE StatementFails(p)
    BY <2>1, <2>4 DEF StatementFails
  <2>5. CASE IndexText(p)
    <3>1. /\ at'[p] = "clear summary" /\ at[p] = "index text" /\ job' = job
          /\ messages' = messages /\ sfts' = sfts
      BY <2>1, <2>3, <2>5 DEF IndexText, GoesOn
    <3>2. \A i \in Ids \ {job'[p].id} : SummaryIsRight(i)'
      BY <2>0, <3>1, SameEntries DEF SummariesAt, Indexing
    <3> QED
      BY <2>0, <3>1, <3>2 DEF SummariesAt, Indexing, Resting
  <2>6. CASE ClearSummary(p)
    <3>1. at[p] = "clear summary" /\ messages' = messages /\ sfts' = Without(sfts, {job[p].id})
      BY <2>6 DEF ClearSummary
    <3>2. /\ \A i \in Ids \ {job[p].id} : SummaryIsRight(i)
          /\ job[p].id \in DOMAIN messages /\ messages[job[p].id].sum = job[p].sum
      BY <2>0, <3>1 DEF SummariesAt, Indexing
    <3>3. \A i \in Ids \ {job[p].id} : EntryStays(i)
      BY <3>1 DEF EntryStays, Put, Without
    <3>4. \A i \in Ids \ {job[p].id} : SummaryIsRight(i)'
      BY <3>2, <3>3, RightStays
    <3>5. CASE job[p].sum = 0
      <4>1. \A i \in Ids : i = job[p].id => SummaryIsRight(i)'
        BY <3>1, <3>2, <3>5 DEF SummaryIsRight, Without
      <4>2. \A i \in Ids : SummaryIsRight(i)'
        BY <3>4, <4>1
      <4>3. Finishes(p)
        BY <2>6, <3>5 DEF ClearSummary
      <4> QED
        BY <2>2, <4>2, <4>3
    <3>6. CASE job[p].sum # 0
      <4>1. at'[p] = "index summary" /\ job' = job
        BY <2>3, <2>6, <3>6 DEF ClearSummary, GoesOn
      <4> QED
        BY <3>1, <3>2, <3>4, <3>6, <4>1 DEF SummariesAt, Indexing, Resting
    <3> QED
      BY <3>5, <3>6
  <2>7. CASE IndexSummary(p)
    <3>1. /\ at[p] = "index summary" /\ messages' = messages /\ Finishes(p)
          /\ sfts' = Put(job[p].id, [msg |-> job[p].msg, sum |-> job[p].sum], sfts)
      BY <2>1, <2>7 DEF IndexSummary
    <3>2. /\ \A i \in Ids \ {job[p].id} : SummaryIsRight(i)
          /\ job[p].id \in DOMAIN messages /\ messages[job[p].id].sum = job[p].sum
          /\ job[p].sum # 0
      BY <2>0, <3>1 DEF SummariesAt, Indexing
    <3>3. \A i \in Ids \ {job[p].id} : EntryStays(i)
      BY <3>1 DEF EntryStays, Put, Without
    <3>4. \A i \in Ids \ {job[p].id} : SummaryIsRight(i)'
      BY <3>2, <3>3, RightStays
    <3>5. \A i \in Ids : i = job[p].id => SummaryIsRight(i)'
      <4>1. /\ job[p].id \in DOMAIN sfts'
            /\ sfts'[job[p].id] = [msg |-> job[p].msg, sum |-> job[p].sum]
        BY <3>1 DEF Put
      <4>2. sfts'[job[p].id].sum = job[p].sum
        BY <4>1
      <4> QED
        BY <3>1, <3>2, <4>1, <4>2 DEF SummaryIsRight
    <3> QED
      BY <2>2, <3>1, <3>4, <3>5
  <2>8. CASE Update(p)
    <3>1. /\ at[p] = "update" /\ at'[p] = "read again" /\ job' = job /\ sfts' = sfts
          /\ Updated(p) \subseteq {job[p].id}
          /\ messages' = [i \in DOMAIN messages |->
                            IF i \in Updated(p) THEN [messages[i] EXCEPT !.sum = NewSummary(p, @)]
                            ELSE messages[i]]
      BY <2>0, <2>8 DEF Update, StoreTypeOK, WorkOK
    <3>2. \A i \in Ids \ {job[p].id} : EntryStays(i)
      BY <3>1 DEF EntryStays
    <3>3. \A i \in Ids : SummaryIsRight(i)
      BY <2>0, <3>1 DEF SummariesAt
    <3>4. \A i \in Ids \ {job[p].id} : SummaryIsRight(i)'
      BY <3>2, <3>3, RightStays
    <3> QED
      BY <3>1, <3>4 DEF SummariesAt, Indexing, Resting
  <2>9. CASE ReadAgain(p)
    <3>1. /\ job[p].id \in DOMAIN messages /\ at[p] = "read again" /\ at'[p] = "clear summary"
          /\ messages' = messages /\ sfts' = sfts
          /\ job' = [job EXCEPT ![p].sum = messages[job[p].id].sum,
                                ![p].msg = messages[job[p].id].msg]
      BY <2>1, <2>3, <2>9 DEF ReadAgain, tables
    <3>2. job'[p].id = job[p].id /\ job'[p].sum = messages[job[p].id].sum
      BY <3>1 DEF StoreTypeOK, WorkOK, JobType
    <3>3. \A i \in Ids \ {job'[p].id} : SummaryIsRight(i)'
      BY <2>0, <3>1, <3>2, SameEntries DEF SummariesAt, Indexing
    <3> QED
      BY <3>1, <3>2, <3>3 DEF SummariesAt, Indexing, Resting
  <2>10. CASE DeleteRows(p)
    <3>1. /\ at[p] = "delete rows" /\ at'[p] = "delete texts" /\ job' = job /\ sfts' = sfts
          /\ messages' = Without(messages, job[p].ids)
      BY <2>3, <2>10 DEF DeleteRows
    <3>2. \A i \in Ids \ job[p].ids : EntryStays(i)
      BY <3>1 DEF EntryStays, Put, Without
    <3>3. \A i \in Ids : SummaryIsRight(i)
      BY <2>0, <3>1 DEF SummariesAt
    <3>4. \A i \in Ids \ job[p].ids : SummaryIsRight(i)'
      BY <3>2, <3>3, RightStays
    <3>5. job[p].ids \cap DOMAIN messages' = {}
      BY <3>1 DEF Without
    <3> QED
      BY <3>1, <3>4, <3>5 DEF SummariesAt, Indexing, Resting
  <2>11. CASE DeleteTexts(p)
    <3>1. /\ at[p] = "delete texts" /\ at'[p] = "delete summaries" /\ job' = job
          /\ messages' = messages /\ sfts' = sfts
      BY <2>3, <2>11 DEF DeleteTexts
    <3>2. \A i \in Ids \ job[p].ids : SummaryIsRight(i)'
      BY <2>0, <3>1, SameEntries DEF SummariesAt
    <3> QED
      BY <2>0, <3>1, <3>2 DEF SummariesAt, Indexing, Resting
  <2>12. CASE DeleteSummaries(p)
    <3>1. /\ at[p] = "delete summaries" /\ messages' = messages /\ Finishes(p)
          /\ sfts' = Without(sfts, job[p].ids)
      BY <2>12 DEF DeleteSummaries
    <3>2. /\ job[p].ids \cap DOMAIN messages = {}
          /\ \A i \in Ids \ job[p].ids : SummaryIsRight(i)
      BY <2>0, <3>1 DEF SummariesAt
    <3>3. \A i \in Ids \ job[p].ids : EntryStays(i)
      BY <3>1 DEF EntryStays, Put, Without
    <3>4. \A i \in Ids \ job[p].ids : SummaryIsRight(i)'
      BY <3>2, <3>3, RightStays
    <3>5. \A i \in Ids : i \in job[p].ids => SummaryIsRight(i)'
      BY <3>1, <3>2 DEF SummaryIsRight, Without
    <3> QED
      BY <2>2, <3>1, <3>4, <3>5
  <2>13. CASE ClearTexts(p)
    <3>1. at[p] = "clear texts" /\ at'[p] = "clear summaries" /\ messages' = messages
      BY <2>3, <2>13 DEF ClearTexts
    <3> QED
      BY <2>0, <3>1 DEF SummariesAt, Indexing, Resting
  <2>14. CASE ClearSummaries(p)
    <3>1. at[p] = "clear summaries" /\ messages' = messages /\ Finishes(p) /\ sfts' = Empty
      BY <2>14 DEF ClearSummaries
    <3>2. \A i \in Ids : SummaryIsRight(i)'
      BY <2>0, <3>1, EmptyTable DEF SummariesAt, SummaryIsRight
    <3> QED
      BY <2>2, <3>1, <3>2
  <2>15. CASE ReadSummaries(p) \/ Rebuild(p)
    BY <1>2, <2>15 DEF ReadSummaries, Rebuild, Rebuilding
  <2> QED
    BY <2>4, <2>5, <2>6, <2>7, <2>8, <2>9, <2>10, <2>11, <2>12, <2>13, <2>14, <2>15
    DEF Statement
<1> QED
  BY <1>1, <1>2

LEMMA SummariesStep ==
  ASSUME StoreTypeOK, MixedInv, SummariesInv, [MemoryNext]_mvars
  PROVE  SummariesInv'
<1>1. ASSUME NEW p \in Proc, Dies(p) PROVE SummariesInv'
  <2>1. /\ Resting(p)' /\ at'[p] # "rebuild"
        /\ \A q \in Proc \ {p} : at'[q] = at[q] /\ job'[q] = job[q]
    BY <1>1 DEF Dies, Resting, StoreTypeOK, WorkOK
  <2>2. UNCHANGED <<messages, sfts, mixed>> /\ (sftsSound' => sftsSound /\ Resting(p))
    BY <1>1 DEF Dies, tables
  <2>3. \A q \in Proc \ {p} : Resting(q)' <=> Resting(q)
    BY <2>1 DEF Resting
  <2>4. sftsSound' /\ AllRest' => \A i \in Ids : SummaryIsRight(i)'
    <3>1. sftsSound' /\ AllRest' => sftsSound /\ AllRest
      BY <2>2, <2>3 DEF AllRest
    <3> QED
      BY <2>2, <3>1, SameEntries DEF SummariesInv
  <2>5. ASSUME sftsSound', ~mixed', NEW q \in Proc, ~Resting(q)' PROVE SummariesAt(q)'
    <3>1. q \in Proc \ {p}
      BY <2>1, <2>5
    <3>2. SummariesAt(q) /\ at'[q] = at[q] /\ job'[q] = job[q]
      BY <2>1, <2>2, <2>3, <2>5, <3>1 DEF SummariesInv
    <3> QED
      BY <2>2, <3>2, SummariesSame
  <2>6. ASSUME ~mixed', NEW q \in Proc, at'[q] = "rebuild" PROVE job'[q].snap = SummariesOf'
    <3>1. at[q] = "rebuild" /\ job'[q] = job[q]
      BY <2>1, <2>6
    <3> QED
      BY <2>2, <2>6, <3>1, SameEntries DEF SummariesInv
  <2> QED
    BY <2>4, <2>5, <2>6 DEF SummariesInv
<1>2. ASSUME UNCHANGED mvars PROVE SummariesInv'
  <2>1. messages' = messages /\ sfts' = sfts /\ at' = at /\ job' = job /\ mixed' = mixed
        /\ sftsSound' = sftsSound
    BY <1>2 DEF mvars, tables, history
  <2>2. \A p \in Proc : SummariesAt(p) => SummariesAt(p)'
    BY <2>1, SummariesSame
  <2>3. (AllRest' <=> AllRest) /\ \A p \in Proc : Resting(p)' <=> Resting(p)
    BY <2>1 DEF AllRest, Resting
  <2> QED
    BY <2>1, <2>2, <2>3, SameEntries DEF SummariesInv
<1> QED
  BY <1>1, <1>2, SummariesCallers, SummariesStatements DEF MemoryNext
----------------------------------------------------------------------------
(* The turns *)

(* Rows go or keep what they are of; turns only move on. *)
RowsStay ==
  /\ DOMAIN messages' \subseteq DOMAIN messages
  /\ \A i \in DOMAIN messages' : /\ messages'[i].role = messages[i].role
                                 /\ messages'[i].turn = messages[i].turn
                                 /\ messages'[i].mid = messages[i].mid

TurnsMoveOn ==
  \A t \in UserTurn : /\ turns'[t] = "new" => turns[t] = "new"
                      /\ Unanswered(t)' => Unanswered(t)
                      /\ turns'[t] = "saving" => turns[t] = "saving"

LEMMA TurnStays ==
  ASSUME StoreTypeOK, TurnInv, AloneInv, RowsStay, TurnsMoveOn
  PROVE  TurnInv' /\ AloneInv'
<1>1. /\ DOMAIN messages' \subseteq DOMAIN messages
      /\ \A i \in DOMAIN messages' : /\ IsUser(i)' <=> IsUser(i)
                                     /\ \A t : IsReply(i, t)' <=> IsReply(i, t)
                                     /\ Alone(i)' <=> Alone(i)
                                     /\ messages'[i].turn = messages[i].turn
  BY DEF RowsStay, IsUser, IsReply, Alone
<1>2. \A i \in DOMAIN messages : IsUser(i) => messages[i].turn \in UserTurn
  BY DEF TurnInv
<1>3. \A i \in DOMAIN messages' : IsUser(i)' =>
        messages'[i].turn \in UserTurn /\ turns'[messages'[i].turn] # "new"
  BY <1>1 DEF TurnInv, TurnsMoveOn
<1>4. \A i \in DOMAIN messages' : \A t \in UserTurn : IsReply(i, t)' => ~Unanswered(t)'
  BY <1>1 DEF TurnInv, TurnsMoveOn
<1>5. ASSUME NEW i \in DOMAIN messages', NEW j \in DOMAIN messages', IsUser(i)',
             NEW t, t = messages'[i].turn, IsReply(j, t)'
      PROVE  i < j
  BY <1>1, <1>5 DEF TurnInv
<1>6. ASSUME NEW i \in DOMAIN messages', NEW j \in DOMAIN messages', Alone(i)', IsUser(j)', j < i,
             NEW t, t = messages'[j].turn
      PROVE  ~Unanswered(t)' /\ \A k \in DOMAIN messages' : IsReply(k, t)' => k < i
  <2>1. Alone(i) /\ IsUser(j) /\ t = messages[j].turn /\ t \in UserTurn
    BY <1>1, <1>2, <1>6
  <2>2. ~Unanswered(t) /\ \A k \in DOMAIN messages : IsReply(k, t) => k < i
    BY <1>1, <1>6, <2>1 DEF AloneInv
  <2> QED
    BY <1>1, <2>1, <2>2 DEF TurnsMoveOn
<1> QED
  BY <1>3, <1>4, <1>5, <1>6 DEF TurnInv, AloneInv, IsUser, IsReply, Alone, Unanswered

(* A row of a message or of a reply comes last. *)
LEMMA TurnAdds ==
  ASSUME StoreTypeOK, SavingInv, TurnInv, AloneInv,
         NEW role \in {"user", "model"}, NEW t \in UserTurn \cup {NoTurn}, NEW sum \in {0, 1},
         AddMessage(role, t, sum),
         \A u \in UserTurn \ {t} : turns'[u] = turns[u],
         \/ t = NoTurn /\ role = "model"
         \/ t \in UserTurn /\ role = "user" /\ turns[t] = "new" /\ turns'[t] = "saving"
         \/ t \in UserTurn /\ role = "model" /\ turns[t] = "open" /\ turns'[t] = "replying"
  PROVE  SavingInv' /\ TurnInv' /\ AloneInv'
<1>0. PICK n \in Ids : n = last + 1
  BY AddMessageFacts
<1>1. /\ DOMAIN messages' = DOMAIN messages \cup {n} /\ n \notin DOMAIN messages
      /\ \A i \in DOMAIN messages : messages'[i] = messages[i]
      /\ messages'[n].role = role /\ messages'[n].turn = t
      /\ messages'[n].mid \/ \A u \in UserTurn : turns[u] # "open"
      /\ at[Main] = "idle" /\ at' = [at EXCEPT ![Main] = "index text"] /\ job'[Main].by = t
  BY <1>0, AddMessageFacts
<1>2. \A i \in DOMAIN messages : i < n /\ ~(n < i)
  <2>1. DOMAIN messages \subseteq 1 .. last /\ last \in Nat
    BY MemoryAssumption DEF StoreTypeOK, TablesOK
  <2> QED
    BY <1>0, <2>1
<1>3. ~(n < n)
  BY MemoryAssumption DEF Ids
<1>4. NoTurn \notin UserTurn
  BY MemoryAssumption
<1>5. \A u \in UserTurn : turns[u] # "saving"
  BY <1>1 DEF SavingInv, Indexing
<1>6. \A u \in UserTurn :
        /\ Unanswered(u)' => Unanswered(u)
        /\ turns'[u] = "new" => turns[u] = "new"
        /\ turns'[u] = "saving" => u = t
  BY <1>4, <1>5 DEF Unanswered
<1>7. SavingInv'
  BY <1>1, <1>6 DEF SavingInv, Indexing, StoreTypeOK, WorkOK, Proc
<1>8. \A i \in DOMAIN messages : /\ IsUser(i)' <=> IsUser(i)
                                 /\ \A u : IsReply(i, u)' <=> IsReply(i, u)
                                 /\ Alone(i)' <=> Alone(i)
                                 /\ messages'[i].turn = messages[i].turn
                                 /\ i # n
  BY <1>1 DEF IsUser, IsReply, Alone
<1>9. \A i \in DOMAIN messages : IsUser(i) =>
        messages[i].turn \in UserTurn /\ turns[messages[i].turn] # "new"
  BY DEF TurnInv
<1>10. (IsUser(n)' <=> role = "user") /\ \A u : (IsReply(n, u)' <=> role = "model" /\ u = t)
  BY <1>1 DEF IsUser, IsReply
<1>11. \A i \in DOMAIN messages' : IsUser(i)' =>
         messages'[i].turn \in UserTurn /\ turns'[messages'[i].turn] # "new"
  BY <1>1, <1>4, <1>6, <1>8, <1>9, <1>10
<1>12. ASSUME NEW i \in DOMAIN messages', NEW u \in UserTurn, IsReply(i, u)' PROVE ~Unanswered(u)'
  <2>1. CASE i = n
    BY <1>4, <1>10, <1>12, <2>1 DEF Unanswered
  <2>2. CASE i # n
    BY <1>1, <1>6, <1>8, <1>12, <2>2 DEF TurnInv
  <2> QED
    BY <2>1, <2>2
<1>13. ASSUME NEW i \in DOMAIN messages', NEW j \in DOMAIN messages', IsUser(i)',
              NEW u, u = messages'[i].turn, IsReply(j, u)'
       PROVE  i < j
  <2>1. CASE i = n
    <3>1. u = t /\ role = "user" /\ j # n /\ j \in DOMAIN messages /\ t \in UserTurn
      BY <1>1, <1>4, <1>10, <1>13, <2>1
    <3>2. IsReply(j, t) /\ Unanswered(t)
      BY <1>4, <1>8, <1>13, <3>1 DEF Unanswered
    <3> QED
      BY <3>1, <3>2 DEF TurnInv
  <2>2. CASE i # n /\ j = n
    BY <1>1, <1>2, <2>2
  <2>3. CASE i # n /\ j # n
    BY <1>1, <1>8, <1>13, <2>3 DEF TurnInv
  <2> QED
    BY <2>1, <2>2, <2>3
<1>14. ASSUME NEW i \in DOMAIN messages', NEW j \in DOMAIN messages', Alone(i)', IsUser(j)', j < i,
              NEW u, u = messages'[j].turn
       PROVE  ~Unanswered(u)' /\ \A k \in DOMAIN messages' : IsReply(k, u)' => k < i
  <2>1. j \in DOMAIN messages /\ IsUser(j) /\ u = messages[j].turn /\ u \in UserTurn
        /\ turns[u] # "new"
    <3>1. j # n
      BY <1>1, <1>2, <1>3, <1>14
    <3> QED
      BY <1>1, <1>8, <1>9, <1>14, <3>1
  <2>2. CASE i = n
    <3>1. role = "model" /\ t = NoTurn /\ \A v \in UserTurn : turns[v] # "open"
      BY <1>1, <1>14, <2>2 DEF Alone, IsReply
    <3>2. ~Unanswered(u)
      BY <1>5, <2>1, <3>1 DEF Unanswered
    <3>3. \A k \in DOMAIN messages' : IsReply(k, u)' => k < i
      <4>1. ~IsReply(n, u)'
        BY <1>4, <1>10, <2>1, <3>1
      <4>2. \A k \in DOMAIN messages' : k = n \/ k < i
        BY <1>1, <1>2, <2>2
      <4> QED
        BY <4>1, <4>2
    <3> QED
      BY <1>6, <2>1, <3>2, <3>3
  <2>3. CASE i # n
    <3>1. i \in DOMAIN messages /\ Alone(i)
      BY <1>1, <1>8, <1>14, <2>3
    <3>2. ~Unanswered(u) /\ \A k \in DOMAIN messages : IsReply(k, u) => k < i
      BY <1>14, <2>1, <3>1 DEF AloneInv
    <3>3. ~IsReply(n, u)'
      BY <1>4, <1>10, <2>1, <3>2 DEF Unanswered
    <3> QED
      BY <1>1, <1>6, <1>8, <2>1, <3>2, <3>3
  <2> QED
    BY <2>2, <2>3
<1>15. TurnInv'
  BY <1>11, <1>12, <1>13 DEF TurnInv, IsUser, IsReply, Unanswered
<1>16. AloneInv'
  BY <1>14 DEF AloneInv, IsUser, IsReply, Alone, Unanswered
<1> QED
  BY <1>7, <1>15, <1>16
(* What the others do to rows and turns. *)
LEMMA TurnCallers ==
  ASSUME StoreTypeOK, SavingInv, TurnInv, AloneInv, Callers
  PROVE  SavingInv' /\ TurnInv' /\ AloneInv'
<1> DEFINE Goal == SavingInv' /\ TurnInv' /\ AloneInv'
<1>0. NoTurn \notin UserTurn /\ turns \in [UserTurn -> {"new", "saving", "open", "replying", "answered", "ended"}]
  BY MemoryAssumption DEF StoreTypeOK, WorkOK
<1>1. ASSUME RowsStay, TurnsMoveOn,
             \A t \in UserTurn : turns[t] = "saving" => at'[Main] = at[Main] /\ job'[Main] = job[Main]
      PROVE  Goal
  <2>1. SavingInv'
    BY <1>1 DEF SavingInv, TurnsMoveOn
  <2> QED
    BY <1>1, <2>1, TurnStays
<1>2. UNCHANGED turns => TurnsMoveOn
  BY DEF TurnsMoveOn, Unanswered
<1>3. messages' = messages \/ messages' = Empty => RowsStay
  BY EmptyTable DEF RowsStay
<1>4. UNCHANGED tables => RowsStay
  BY DEF tables, RowsStay
<1>5. ASSUME at[Main] \in {"idle", "down"} PROVE \A t \in UserTurn : turns[t] # "saving"
  BY <1>5 DEF SavingInv, Indexing
<1>6. ASSUME NEW s, NEW j, at' = [at EXCEPT ![Cli] = s], job' = [job EXCEPT ![Cli] = j] \/ job' = job
      PROVE  at'[Main] = at[Main] /\ job'[Main] = job[Main]
  BY <1>6, Kinds DEF StoreTypeOK, WorkOK
<1>7. ASSUME NEW t \in UserTurn, UserWrites(t) PROVE Goal
  <2>1. PICK sum \in {0, 1} : AddMessage("user", t, sum)
    BY <1>7 DEF UserWrites
  <2>2. turns[t] = "new" /\ turns'[t] = "saving" /\ \A u \in UserTurn \ {t} : turns'[u] = turns[u]
    BY <1>0, <1>7 DEF UserWrites
  <2> QED
    BY <2>1, <2>2, TurnAdds
<1>8. ASSUME NEW t \in UserTurn, ReplyComes(t) PROVE Goal
  <2>1. AddMessage("model", t, 0)
    BY <1>8 DEF ReplyComes
  <2>2. turns[t] = "open" /\ turns'[t] = "replying" /\ \A u \in UserTurn \ {t} : turns'[u] = turns[u]
    BY <1>0, <1>8 DEF ReplyComes
  <2> QED
    BY <2>1, <2>2, TurnAdds
<1>9. ASSUME SchedulerWrites PROVE Goal
  <2>1. AddMessage("model", NoTurn, 0) /\ \A u \in UserTurn \ {NoTurn} : turns'[u] = turns[u]
    BY <1>9 DEF SchedulerWrites
  <2> QED
    BY <2>1, TurnAdds
<1>10. ASSUME NEW t \in UserTurn, TurnFails(t) PROVE Goal
  <2>1. RowsStay /\ at' = at /\ job' = job
    BY <1>4, <1>10 DEF TurnFails
  <2>2. turns[t] = "open" /\ turns' = [turns EXCEPT ![t] = "ended"]
    BY <1>10 DEF TurnFails
  <2>3. TurnsMoveOn
    BY <1>0, <2>2 DEF TurnsMoveOn, Unanswered
  <2> QED
    BY <1>1, <2>1, <2>3
<1>11. ASSUME NEW t \in UserTurn, FollowUp(t) PROVE Goal
  <2>1. RowsStay /\ at[Main] = "idle"
    BY <1>4, <1>11 DEF FollowUp
  <2>2. turns' = [turns EXCEPT ![t] = "ended"]
    BY <1>11 DEF FollowUp
  <2>3. TurnsMoveOn
    BY <1>0, <2>2 DEF TurnsMoveOn, Unanswered
  <2> QED
    BY <1>1, <1>5, <2>1, <2>3
<1>12. ASSUME NEW i \in DOMAIN messages, NEW b \in BOOLEAN, Tag(i, b) PROVE Goal
  <2>1. RowsStay /\ TurnsMoveOn
    BY <1>2, <1>4, <1>12 DEF Tag
  <2>2. at'[Main] = at[Main] /\ job'[Main] = job[Main]
    BY <1>6, <1>12 DEF Tag, Begins
  <2> QED
    BY <1>1, <2>1, <2>2
<1>13. ASSUME NEW k \in 1 .. 2, ForgetRecent(k) PROVE Goal
  <2>1. RowsStay /\ TurnsMoveOn
    BY <1>2, <1>4, <1>13 DEF ForgetRecent
  <2>2. at'[Main] = at[Main] /\ job'[Main] = job[Main]
    BY <1>6, <1>13 DEF ForgetRecent, Begins
  <2> QED
    BY <1>1, <2>1, <2>2
<1>14. ASSUME NEW p \in Proc, Clear(p) \/ Starts(p) PROVE Goal
  <2>1. RowsStay /\ TurnsMoveOn
    BY <1>2, <1>3, <1>4, <1>14 DEF Clear, Starts
  <2>2. CASE p = Main
    <3>1. at[Main] \in {"idle", "down"}
      BY <1>14, <2>2 DEF Clear, Starts
    <3> QED
      BY <1>1, <1>5, <2>1, <3>1
  <2>3. CASE p = Cli
    <3>1. at'[Main] = at[Main] /\ job'[Main] = job[Main]
      BY <1>6, <1>14, <2>3 DEF Clear, Starts, Begins
    <3> QED
      BY <1>1, <2>1, <3>1
  <2> QED
    BY <2>2, <2>3, Kinds
<1>15. ASSUME Exits PROVE Goal
  <2>1. RowsStay /\ TurnsMoveOn
    BY <1>2, <1>4, <1>15 DEF Exits
  <2>2. at'[Main] = at[Main] /\ job'[Main] = job[Main]
    BY <1>6, <1>15 DEF Exits
  <2> QED
    BY <1>1, <2>1, <2>2
<1> QED
  BY <1>7, <1>8, <1>9, <1>10, <1>11, <1>12, <1>13, <1>14, <1>15 DEF Callers

LEMMA TurnStatements ==
  ASSUME StoreTypeOK, SavingInv, TurnInv, AloneInv,
         NEW p \in Proc, Statement(p) \/ StatementFails(p) \/ Dies(p)
  PROVE  SavingInv' /\ TurnInv' /\ AloneInv'
<1>0. turns \in [UserTurn -> {"new", "saving", "open", "replying", "answered", "ended"}]
  BY DEF StoreTypeOK, WorkOK
<1>1. RowsStay
  <2>1. messages' = messages => RowsStay
    BY DEF RowsStay
  <2>2. CASE Update(p)
    <3>1. DOMAIN messages' = DOMAIN messages
      BY <2>2 DEF Update
    <3>2. ASSUME NEW i \in DOMAIN messages
          PROVE  /\ messages'[i].role = messages[i].role
                 /\ messages'[i].turn = messages[i].turn
                 /\ messages'[i].mid = messages[i].mid
      <4>1. messages'[i] = IF i \in Updated(p) THEN [messages[i] EXCEPT !.sum = NewSummary(p, @)]
                           ELSE messages[i]
        BY <2>2, <3>2 DEF Update
      <4>2. messages[i] \in Row
        BY <3>2 DEF StoreTypeOK, TablesOK
      <4> HIDE DEF Row
      <4>3. CASE i \in Updated(p)
        BY <4>1, <4>2, <4>3 DEF Row
      <4>4. CASE i \notin Updated(p)
        BY <4>1, <4>4
      <4> QED
        BY <4>3, <4>4
    <3> QED
      BY <3>1, <3>2 DEF RowsStay
  <2>3. CASE DeleteRows(p)
    BY <2>3 DEF DeleteRows, Without, RowsStay
  <2>4. CASE ~Update(p) /\ ~DeleteRows(p)
    <3>1. messages' = messages
      BY <2>4 DEF Statement, StatementFails, Dies, tables, IndexText, ClearSummary, IndexSummary,
         ReadAgain, DeleteTexts, DeleteSummaries, ClearTexts, ClearSummaries, ReadSummaries, Rebuild
    <3> QED
      BY <2>1, <3>1
  <2> QED
    BY <2>2, <2>3, <2>4
<1>2. ASSUME NEW ok \in BOOLEAN, TurnGoes(p, ok)
      PROVE  /\ TurnsMoveOn
             /\ p = Main => \A u \in UserTurn : turns'[u] = "saving" => job[Main].by # u
  <2>1. \A u \in UserTurn :
          \/ turns'[u] = turns[u] /\ (turns[u] = "saving" => p # Main \/ job[Main].by # u)
          \/ turns[u] = "saving" /\ turns'[u] \in {"open", "ended"}
          \/ turns[u] = "replying" /\ turns'[u] \in {"answered", "ended"}
    BY <1>2, TurnGoesFacts
  <2>2. TurnsMoveOn
    BY <2>1 DEF TurnsMoveOn, Unanswered
  <2>3. p = Main => \A u \in UserTurn : turns'[u] = "saving" => job[Main].by # u
    BY <2>1
  <2> QED
    BY <2>2, <2>3
<1>3. UNCHANGED turns => TurnsMoveOn
  BY DEF TurnsMoveOn, Unanswered
<1>4. ASSUME TurnsMoveOn,
             p = Main => \A u \in UserTurn : turns'[u] = "saving" => job[Main].by # u
      PROVE  SavingInv'
  <2>1. CASE p = Main
    BY <1>4, <2>1 DEF SavingInv, TurnsMoveOn
  <2>2. CASE p # Main
    <3>1. at'[Main] = at[Main] /\ job'[Main] = job[Main]
      BY <2>2, OneMoves, Kinds
    <3> QED
      BY <1>4, <3>1 DEF SavingInv, TurnsMoveOn
  <2> QED
    BY <2>1, <2>2
<1>5. ASSUME UNCHANGED turns, at[p] \in Indexing => at'[p] \in Indexing /\ job'[p].by = job[p].by
      PROVE  SavingInv'
  <2>1. at[Main] \in Indexing => at'[Main] \in Indexing /\ job'[Main].by = job[Main].by
    <3>1. CASE p = Main
      BY <1>5, <3>1
    <3>2. CASE p # Main
      BY <3>2, OneMoves, Kinds
    <3> QED
      BY <3>1, <3>2
  <2> QED
    BY <1>5, <2>1 DEF SavingInv
<1>6. ASSUME Finishes(p) \/ Throws(p) PROVE TurnsMoveOn /\ SavingInv'
  <2>1. PICK ok \in BOOLEAN : TurnGoes(p, ok)
    BY <1>6 DEF Finishes, Throws
  <2> QED
    BY <1>2, <1>4, <2>1
<1>7. ASSUME NEW s, GoesOn(p, s), s \in Indexing PROVE TurnsMoveOn /\ SavingInv'
  <2>1. UNCHANGED <<turns, job>> /\ at'[p] = s
    BY <1>7 DEF GoesOn, Goes, StoreTypeOK, WorkOK
  <2> QED
    BY <1>3, <1>5, <1>7, <2>1
<1>8. TurnsMoveOn /\ SavingInv'
  <2>1. CASE StatementFails(p)
    BY <1>6, <2>1 DEF StatementFails
  <2>2. CASE Dies(p)
    <3>1. TurnsMoveOn /\ \A u \in UserTurn : p = Main => turns'[u] # "saving"
      BY <1>0, <2>2, Kinds DEF Dies, TurnsMoveOn, Unanswered
    <3> QED
      BY <1>4, <3>1
  <2>3. CASE IndexText(p) \/ ClearSummary(p) \/ IndexSummary(p)
    BY <1>6, <1>7, <2>3 DEF IndexText, ClearSummary, IndexSummary, Indexing
  <2>4. CASE ReadAgain(p)
    <3>1. CASE Throws(p)
      BY <1>6, <3>1
    <3>2. CASE ~Throws(p)
      <4>1. UNCHANGED turns /\ at[p] = "read again"
        BY <2>4, <3>2 DEF ReadAgain
      <4> QED
        BY <1>3, <1>5, <4>1 DEF Indexing
    <3> QED
      BY <3>1, <3>2
  <2>5. CASE DeleteSummaries(p) \/ ClearSummaries(p)
    BY <1>6, <2>5 DEF DeleteSummaries, ClearSummaries
  <2>6. CASE Update(p) \/ DeleteRows(p) \/ DeleteTexts(p) \/ ClearTexts(p) \/ ReadSummaries(p) \/ Rebuild(p)
    <3>1. UNCHANGED turns /\ at[p] \notin Indexing
      BY <2>6 DEF Update, DeleteRows, DeleteTexts, ClearTexts, ReadSummaries, Rebuild, Indexing
    <3> QED
      BY <1>3, <1>5, <3>1
  <2> QED
    BY <2>1, <2>2, <2>3, <2>4, <2>5, <2>6 DEF Statement
<1> QED
  BY <1>1, <1>8, TurnStays

LEMMA TurnStep ==
  ASSUME StoreTypeOK, SavingInv, TurnInv, AloneInv, [MemoryNext]_mvars
  PROVE  SavingInv' /\ TurnInv' /\ AloneInv'
<1>1. ASSUME UNCHANGED mvars PROVE SavingInv' /\ TurnInv' /\ AloneInv'
  <2>1. messages' = messages /\ at' = at /\ job' = job /\ turns' = turns
    BY <1>1 DEF mvars, tables
  <2>2. RowsStay /\ TurnsMoveOn /\ SavingInv'
    BY <2>1 DEF RowsStay, TurnsMoveOn, Unanswered, SavingInv
  <2> QED
    BY <2>2, TurnStays
<1> QED
  BY <1>1, TurnCallers, TurnStatements DEF MemoryNext

----------------------------------------------------------------------------
(* The invariant and what follows from it *)

LEMMA StoreInit == MemoryInit => StoreInv
<1> SUFFICES ASSUME MemoryInit PROVE StoreInv
  OBVIOUS
<1>1. StoreTypeOK
  BY StoreTypeInit
<1>2. DOMAIN messages = {} /\ DOMAIN fts = {} /\ DOMAIN sfts = {}
  BY EmptyTable DEF MemoryInit
<1>3. \A p \in Proc : at[p] \in {"idle", "down"} /\ job[p] = NoJob
  BY DEF MemoryInit, Proc
<1>4. (\A p \in Proc : Resting(p)) /\ mixed = FALSE
  BY <1>3 DEF Resting, MemoryInit
<1>5. NumberInv
  BY <1>2, <1>3, NoJobType DEF NumberInv, NumberedTables, NumberedJob, Indexing
<1>6. MixedInv /\ TextsInv
  BY <1>2, <1>4, Kinds DEF MixedInv, TextsInv
<1>7. SummariesInv
  BY <1>2, <1>3, <1>4 DEF SummariesInv, SummaryIsRight
<1>8. SavingInv /\ TurnInv /\ AloneInv
  BY <1>2 DEF SavingInv, TurnInv, AloneInv, MemoryInit
<1> QED
  BY <1>1, <1>5, <1>6, <1>7, <1>8 DEF StoreInv

(* Whatever the processes do to the tables, and wherever they stop, what   *)
(* StoreInv says of the tables, the indexes and the turns stays true.      *)
THEOREM StoreInvariant == MemorySpec => []StoreInv
<1>1. StoreInv /\ [MemoryNext]_mvars => StoreInv'
  <2> SUFFICES ASSUME StoreInv, [MemoryNext]_mvars PROVE StoreInv'
    OBVIOUS
  <2>1. StoreTypeOK /\ NumberInv /\ MixedInv /\ TextsInv /\ SummariesInv
        /\ SavingInv /\ TurnInv /\ AloneInv
    BY DEF StoreInv
  <2>2. StoreTypeOK' /\ NumberInv'
    BY <2>1, StoreTypeStep, NumberStep
  <2>3. MixedInv' /\ TextsInv' /\ SummariesInv'
    BY <2>1, MixedStep, TextsStep, SummariesStep
  <2>4. SavingInv' /\ TurnInv' /\ AloneInv'
    BY <2>1, TurnStep
  <2> QED
    BY <2>2, <2>3, <2>4 DEF StoreInv
<1> QED
  BY <1>1, StoreInit, PTL DEF MemorySpec

(* A search for a text (search, searchSummaries) comes up with messages    *)
(* that have it, whatever the indexes have been left with.                 *)
THEOREM SearchFindsWhatMatches == MemorySpec => []SearchMatches
<1>1. StoreInv => SearchMatches
  <2> SUFFICES ASSUME StoreInv, NEW m \in Ids, NEW i \in TextHits(m) \cup SummaryHits(m)
               PROVE  messages[i].msg = m
    BY DEF SearchMatches
  <2>1. NumberedTables
    BY DEF StoreInv, NumberInv
  <2>2. TextHits(m) \subseteq DOMAIN messages /\ \A k \in TextHits(m) : messages[k].msg = m
    BY <2>1 DEF NumberedTables, TextHits
  <2>3. \A k \in SummaryHits(m) : messages[k].msg = m
    BY <2>1, <2>2 DEF NumberedTables, SummaryHits, Summarised
  <2> QED
    BY <2>2, <2>3
<1> QED
  BY <1>1, StoreInvariant, PTL

(* The indexes have what the rows have, once everybody is at rest and no   *)
(* operation was cut or met another one (addMessage, updateMessageMetadata,*)
(* deleteRecentMessages, clear, rebuildSummaryFtsIndex).                   *)
THEOREM IndexesFollowTheRows == MemorySpec => []IndexesAgree
<1>1. StoreInv => IndexesAgree
  <2> SUFFICES ASSUME StoreInv PROVE IndexesAgree
    OBVIOUS
  <2>1. NumberedTables /\ StoreTypeOK /\ TextsInv /\ SummariesInv
    BY DEF StoreInv, NumberInv
  <2>2. MemoryTypeOK
    <3>1. MaxMsg \in Nat /\ last \in 0 .. MaxMsg /\ 1 .. last \subseteq Ids /\ now \in 0 .. MaxMsg
      BY <2>1, MemoryAssumption DEF StoreTypeOK, TablesOK, Ids
    <3>2. DOMAIN messages \subseteq Ids /\ \A i \in DOMAIN messages : messages[i] \in Row
      BY <2>1, <3>1 DEF StoreTypeOK, TablesOK
    <3>3. /\ DOMAIN fts \subseteq Ids /\ \A i \in DOMAIN fts : fts[i] \in Ids
          /\ DOMAIN sfts \subseteq Ids /\ \A i \in DOMAIN sfts : sfts[i] \in Summary
      BY <2>1 DEF StoreTypeOK, TablesOK
    <3> QED
      BY <2>1, <3>1, <3>2, <3>3 DEF MemoryTypeOK, StoreTypeOK, WorkOK, Row
  <2>3. ASSUME AllRest, ftsSound PROVE fts = [i \in DOMAIN messages |-> messages[i].msg]
    <3>1. DOMAIN fts = DOMAIN messages
      BY <2>1, <2>3 DEF TextsInv, AllRest
    <3>2. \A i \in DOMAIN messages : fts[i] = messages[i].msg
      BY <2>1, <3>1 DEF NumberedTables
    <3>3. fts = [i \in DOMAIN fts |-> fts[i]]
      BY <2>1 DEF StoreTypeOK, TablesOK
    <3> QED
      BY <3>1, <3>2, <3>3
  <2>4. ASSUME AllRest, sftsSound PROVE sfts = SummariesOf
    <3>1. \A i \in Ids : SummaryIsRight(i)
      BY <2>1, <2>4 DEF SummariesInv
    <3>2. DOMAIN sfts = Summarised
      BY <2>2, <3>1 DEF SummaryIsRight, Summarised, MemoryTypeOK
    <3>3. ASSUME NEW i \in Summarised
          PROVE  sfts[i] = [msg |-> messages[i].msg, sum |-> messages[i].sum]
      <4>1. i \in DOMAIN sfts /\ i \in DOMAIN messages /\ i \in Ids
        BY <2>2, <3>2, <3>3 DEF Summarised, MemoryTypeOK
      <4>2. sfts[i].msg = messages[i].msg /\ sfts[i].sum = messages[i].sum
        BY <2>1, <3>1, <4>1 DEF NumberedTables, SummaryIsRight
      <4>3. sfts[i] \in [msg : Ids, sum : Versions]
        BY <2>1, <4>1 DEF StoreTypeOK, TablesOK, Summary
      <4> QED
        BY <4>2, <4>3
    <3>4. sfts = [i \in DOMAIN sfts |-> sfts[i]]
      BY <2>1 DEF StoreTypeOK, TablesOK
    <3> QED
      BY <3>2, <3>3, <3>4 DEF SummariesOf
  <2> QED
    BY <2>2, <2>3, <2>4 DEF IndexesAgree
<1> QED
  BY <1>1, StoreInvariant, PTL

(* A set of numbers with a bound has a greatest one, which Max gives. *)
LEMMA MaxIsGreatest ==
  ASSUME NEW n \in Nat, NEW T, T \subseteq 1 .. n, T # {}
  PROVE  Max(T) \in T /\ \A m \in T : m <= Max(T)
<1> DEFINE Below == {n - m : m \in T}
<1>1. Below \subseteq Nat /\ Below # {}
  <2>1. \A m \in T : n - m \in Nat
    OBVIOUS
  <2>2. PICK m \in T : TRUE
    OBVIOUS
  <2>3. n - m \in Below
    OBVIOUS
  <2> QED
    BY <2>1, <2>3
<1>2. PICK d \in Below : \A e \in Below : d <= e
  BY <1>1, LeastOf
<1>3. PICK x \in T : d = n - x
  BY <1>2
<1>4. \A m \in T : x >= m
  <2> TAKE m \in T
  <2>1. n - x <= n - m
    BY <1>2, <1>3
  <2> QED
    BY <2>1
<1>5. \A y \in T : Max(T) >= y
  <2>1. Max(T) = CHOOSE y \in T : \A m \in T : y >= m
    BY DEF Max
  <2> QED
    BY <1>4, <2>1
<1>6. Max(T) \in T
  BY <1>4 DEF Max
<1> QED
  BY <1>5, <1>6

(* What the scheduler stored (persistSchedulerMessage) is shown among the  *)
(* messages of the chat (getRecentConversation) only if it came during a   *)
(* turn or behind a message that has no reply.                             *)
THEOREM ConversationShowsTheChat == MemorySpec => []ConversationIsChat
<1>1. StoreInv => ConversationIsChat
  <2> SUFFICES ASSUME StoreInv, NEW i \in Conversation, IsReply(i, NoTurn), ~messages[i].mid
               PROVE  RepliesTo(messages[Max(Before(i))].turn) = {}
    BY DEF ConversationIsChat, IsReply
  <2>1. StoreTypeOK /\ TurnInv /\ AloneInv
    BY DEF StoreInv
  <2>2. last \in Nat /\ DOMAIN messages \subseteq 1 .. last
    BY <2>1, MemoryAssumption DEF StoreTypeOK, TablesOK
  <2>3. i \in DOMAIN messages /\ Alone(i) /\ AfterUser(i)
    BY DEF Conversation, Alone, IsReply
  <2> DEFINE m == Max(Before(i))
  <2>4. Before(i) \subseteq DOMAIN messages /\ Before(i) # {} /\ \A j \in Before(i) : j < i
    BY <2>3 DEF Before, AfterUser
  <2>5. m \in Before(i) /\ \A j \in Before(i) : j <= m
    BY <2>2, <2>4, MaxIsGreatest
  <2>6. IsUser(m) /\ m \in DOMAIN messages /\ m < i
    BY <2>3, <2>4, <2>5 DEF AfterUser, IsUser
  <2> HIDE DEF m
  <2>7. ASSUME NEW k \in RepliesTo(messages[m].turn) PROVE FALSE
    <3>1. k \in DOMAIN messages /\ IsReply(k, messages[m].turn)
      BY <2>7 DEF RepliesTo, IsReply
    <3>2. k < i /\ m < k
      BY <2>1, <2>3, <2>6, <3>1 DEF AloneInv, TurnInv
    <3>3. k <= m
      BY <2>5, <3>1, <3>2 DEF Before
    <3> QED
      BY <2>2, <2>6, <3>1, <3>2, <3>3
  <2> QED
    BY <2>7 DEF m
<1> QED
  BY <1>1, StoreInvariant, PTL
=============================================================================
