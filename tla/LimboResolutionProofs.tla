------------------------ MODULE LimboResolutionProofs ------------------------
(***************************************************************************)
(* Proofs that SyncEngine looks up exactly the documents in limbo, and uses  *)
(* every slot it has for that, for every set of queries and documents and     *)
(* every number of slots.  SyncEngine's loops are folds: what they keep is    *)
(* shown by induction over the set of what they have treated.              *)
(***************************************************************************)
EXTENDS LimboResolution, FiniteSetTheorems, SequenceTheorems, TLAPS

-----------------------------------------------------------------------------
(* Induction over a loop.                                                  *)

(* Which element of the set a fold takes.                                  *)
Pick(s) == CHOOSE x \in s : TRUE

(* A set of numbers with 0 and the successor of each of its members has     *)
(* them all: otherwise the least one missing would have no predecessor.    *)
LEMMA NumbersInduction ==
    ASSUME NEW S \in SUBSET Nat, 0 \in S, \A n \in S : n + 1 \in S
    PROVE  S = Nat
  <1>1. SUFFICES ASSUME Nat \ S # {} PROVE FALSE
    OBVIOUS
  <1>2. IsWellFoundedOn(OpToRel(<, Nat), Nat)
    BY NatLessThanWellFounded
  <1>3. PICK x \in Nat \ S : \A y \in Nat \ S : ~(<<y, x>> \in OpToRel(<, Nat))
    BY <1>1, <1>2, WFMin
  <1>4. x # 0 /\ x - 1 \in Nat
    OBVIOUS
  <1>5. <<x - 1, x>> \in OpToRel(<, Nat)
    BY <1>4 DEF OpToRel
  <1>6. (x - 1) + 1 \in S
    BY <1>3, <1>4, <1>5
  <1> QED  BY <1>4, <1>6

(* A set that is not empty has the element picked, and one fewer without.  *)
LEMMA PickFacts ==
    ASSUME NEW K, IsFiniteSet(K), NEW s \in SUBSET K, s # {}
    PROVE  /\ Pick(s) \in s /\ s \ {Pick(s)} \in SUBSET K
           /\ Cardinality(s) \in Nat /\ Cardinality(s) # 0
           /\ Cardinality(s \ {Pick(s)}) = Cardinality(s) - 1
  <1>1. Pick(s) \in s
    BY DEF Pick
  <1>2. IsFiniteSet(s)
    BY FS_Subset
  <1> QED  BY <1>1, <1>2, FS_RemoveElement, FS_CardinalityType, FS_EmptySet

(* What holds of no elements, and of some if it holds of all but the one      *)
(* picked, holds of all.                                                   *)
LEMMA LoopInduction ==
    ASSUME NEW K, IsFiniteSet(K), NEW P, {} \in P,
           \A s \in SUBSET K : s # {} /\ s \ {Pick(s)} \in P => s \in P
    PROVE  K \in P
  <1> DEFINE N == {n \in Nat : \A s \in SUBSET K : Cardinality(s) = n => s \in P}
  <1>1. 0 \in N
    <2> SUFFICES ASSUME NEW s \in SUBSET K, Cardinality(s) = 0 PROVE s \in P
      OBVIOUS
    <2> QED  BY FS_Subset, FS_EmptySet
  <1>2. ASSUME NEW n \in N PROVE n + 1 \in N
    <2> SUFFICES ASSUME NEW s \in SUBSET K, Cardinality(s) = n + 1 PROVE s \in P
      OBVIOUS
    <2>1. s # {}
      BY FS_EmptySet
    <2>2. s \ {Pick(s)} \in SUBSET K /\ Cardinality(s \ {Pick(s)}) = n
      BY <2>1, PickFacts
    <2> QED  BY <2>1, <2>2
  <1>3. N = Nat
    <2> HIDE DEF N
    <2>1. N \in SUBSET Nat
      BY DEF N
    <2> QED  BY <1>1, <1>2, <2>1, NumbersInduction
  <1> QED  BY <1>3, FS_CardinalityType

(* g is the result of a loop over K, as a function of the part done.       *)
Runs(g, K, base, F) ==
    /\ g[{}] = base
    /\ \A s \in SUBSET K : s # {} => g[s] = F[<<Pick(s), g[s \ {Pick(s)}]>>]

(* A loop has a result after each part of its work.                        *)
LEMMA LoopExists ==
    ASSUME NEW K, IsFiniteSet(K), NEW T, NEW base \in T, NEW F \in [K \X T -> T]
    PROVE  \E g \in [SUBSET K -> T] : Runs(g, K, base, F)
  <1> DEFINE Upto(g, n) ==
                /\ g[{}] = base
                /\ \A s \in SUBSET K : s # {} /\ Cardinality(s) <= n =>
                        g[s] = F[<<Pick(s), g[s \ {Pick(s)}]>>]
             N == {n \in Nat : \E g \in [SUBSET K -> T] : Upto(g, n)}
  <1> HIDE DEF Upto, N
  <1>a. \A s \in SUBSET K : Cardinality(s) \in Nat /\ Cardinality(s) <= Cardinality(K)
    BY FS_Subset, FS_CardinalityType
  <1>1. 0 \in N
    <2>1. PICK g \in [SUBSET K -> T] : g = [s \in SUBSET K |-> base]
      OBVIOUS
    <2>2. ASSUME NEW s \in SUBSET K, s # {} PROVE ~(Cardinality(s) <= 0)
      <3>1. Cardinality(s) \in Nat /\ Cardinality(s) # 0
        BY <2>2, PickFacts
      <3> QED  BY <3>1
    <2>3. Upto(g, 0)
      BY <2>1, <2>2 DEF Upto
    <2> QED  BY <2>3 DEF N
  <1>2. ASSUME NEW n \in N PROVE n + 1 \in N
    <2>1. PICK g \in [SUBSET K -> T] : Upto(g, n)
      BY DEF N
    <2> DEFINE h == [s \in SUBSET K |->
                        IF Cardinality(s) <= n THEN g[s]
                        ELSE F[<<Pick(s), g[s \ {Pick(s)}]>>]]
    <2>2. ASSUME NEW s \in SUBSET K, s # {}
          PROVE  F[<<Pick(s), g[s \ {Pick(s)}]>>] \in T
      <3>1. Pick(s) \in K /\ g[s \ {Pick(s)}] \in T
        BY <2>2, PickFacts
      <3> QED  BY <3>1
    <2>3. Cardinality({}) = 0 /\ n \in Nat
      BY FS_EmptySet DEF N
    <2>4. h \in [SUBSET K -> T]
      <3>1. ASSUME NEW s \in SUBSET K
            PROVE  (IF Cardinality(s) <= n THEN g[s]
                    ELSE F[<<Pick(s), g[s \ {Pick(s)}]>>]) \in T
        <4>1. ASSUME s = {} PROVE Cardinality(s) <= n
          <5>1. Cardinality(s) = 0
            BY <2>3, <4>1
          <5> QED  BY <2>3, <5>1
        <4> QED  BY <2>2, <4>1
      <3> QED  BY <3>1
    <2>5. h[{}] = base
      BY <2>1, <2>3 DEF Upto
    <2>6. ASSUME NEW s \in SUBSET K, s # {}, Cardinality(s) <= n + 1
          PROVE  h[s] = F[<<Pick(s), h[s \ {Pick(s)}]>>]
      <3>1. /\ s \ {Pick(s)} \in SUBSET K
            /\ Cardinality(s \ {Pick(s)}) <= n
        BY <1>a, <2>3, <2>6, PickFacts
      <3>2. h[s \ {Pick(s)}] = g[s \ {Pick(s)}]
        BY <3>1
      <3>3. h[s] = F[<<Pick(s), g[s \ {Pick(s)}]>>]
        BY <2>1, <2>6 DEF Upto
      <3> QED  BY <3>2, <3>3
    <2>7. Upto(h, n + 1)
      <3> HIDE DEF h
      <3> QED  BY <2>5, <2>6 DEF Upto
    <2> HIDE DEF h
    <2>8. \E f \in [SUBSET K -> T] : Upto(f, n + 1)
      BY <2>4, <2>7
    <2> QED  BY <2>3, <2>8 DEF N
  <1>3. N = Nat
    <2>1. N \in SUBSET Nat
      BY DEF N
    <2> QED  BY <1>1, <1>2, <2>1, NumbersInduction
  <1>4. PICK g \in [SUBSET K -> T] : Upto(g, Cardinality(K))
    BY <1>3, FS_CardinalityType DEF N
  <1>5. \A s \in SUBSET K : s # {} => g[s] = F[<<Pick(s), g[s \ {Pick(s)}]>>]
    BY <1>a, <1>4 DEF Upto
  <1>6. Runs(g, K, base, F)
    BY <1>4, <1>5 DEF Upto, Runs
  <1> QED  BY <1>6

-----------------------------------------------------------------------------
(* SyncEngine's account between two calls.                                 *)

(* What is looked up, or will be.                                          *)
Lookups(t) == t.active \cup ToSet(t.queue)

(* Nothing is looked up twice, and there are no more lookups than slots.    *)
Shape(t) ==
    /\ t \in SyncEngine
    /\ t.received \subseteq t.active
    /\ IsInjective(t.queue)
    /\ t.active \cap ToSet(t.queue) = {}
    /\ Cardinality(t.active) <= MaxConcurrent

(* No slot is free while a document waits.                                 *)
Busy(t) == t.queue # <<>> => Cardinality(t.active) = MaxConcurrent

(* What is looked up is referenced, or is `gone' and still to be removed;    *)
(* what is referenced is looked up, or was `refused'.                      *)
Account(t, gone, refused) ==
    /\ Shape(t)
    /\ Busy(t)
    /\ Lookups(t) \subseteq Referenced(t) \cup gone
    /\ Referenced(t) \subseteq Lookups(t) \cup refused

-----------------------------------------------------------------------------
(* Sequences without repetition.                                           *)

(* The members of a sequence, by their positions.                          *)
LEMMA Members ==
    ASSUME NEW q \in Seq(Keys)
    PROVE  /\ ToSet(q) = {q[i] : i \in 1..Len(q)} /\ ToSet(q) \subseteq Keys
           /\ Len(q) \in Nat /\ DOMAIN q = 1..Len(q)
           /\ IsInjective(q) <=> \A i, j \in 1..Len(q) : q[i] = q[j] => i = j
  <1>1. Len(q) \in Nat /\ DOMAIN q = 1..Len(q) /\ \A i \in 1..Len(q) : q[i] \in Keys
    OBVIOUS
  <1>2. ToSet(q) = {q[i] : i \in 1..Len(q)}
    BY <1>1 DEF ToSet
  <1>3. ToSet(q) \subseteq Keys
    BY <1>1, <1>2
  <1>4. IsInjective(q) <=> \A i, j \in 1..Len(q) : q[i] = q[j] => i = j
    BY <1>1 DEF IsInjective
  <1> QED  BY <1>1, <1>2, <1>3, <1>4

(* A sequence without repetition, cut in two.                              *)
LEMMA Cut ==
    ASSUME NEW q \in Seq(Keys), IsInjective(q), NEW n \in 0..Len(q)
    PROVE  LET front == SubSeq(q, 1, n)
               back == SubSeq(q, n + 1, Len(q))
           IN  /\ back \in Seq(Keys) /\ IsInjective(back)
               /\ ToSet(front) \cup ToSet(back) = ToSet(q)
               /\ ToSet(front) \cap ToSet(back) = {}
               /\ ToSet(front) \subseteq Keys
               /\ Cardinality(ToSet(front)) = n
               /\ n = Len(q) => back = <<>>
               /\ front \in Seq(Keys) /\ IsInjective(front)
               /\ ToSet(front) = {q[i] : i \in 1..n}
               /\ ToSet(back) = {q[i] : i \in (n + 1)..Len(q)}
  <1>1. Len(q) \in Nat /\ n \in Nat /\ n <= Len(q)
    BY Members
  <1>2. /\ SubSeq(q, 1, n) \in Seq(Keys) /\ Len(SubSeq(q, 1, n)) = n
        /\ \A i \in 1..n : SubSeq(q, 1, n)[i] = q[i]
    <2>1. \A i \in 1..n : q[i] \in Keys
      BY <1>1
    <2> QED  BY <1>1, <2>1, SubSeqProperties
  <1>3. /\ SubSeq(q, n + 1, Len(q)) \in Seq(Keys)
        /\ Len(SubSeq(q, n + 1, Len(q))) = Len(q) - n
        /\ \A i \in 1..(Len(q) - n) : SubSeq(q, n + 1, Len(q))[i] = q[n + i]
    <2>1. \A i \in (n + 1)..Len(q) : q[i] \in Keys
      BY <1>1
    <2> QED  BY <1>1, <2>1, SubSeqProperties
  <1>4. PICK a \in Seq(Keys) : a = SubSeq(q, 1, n) /\ Len(a) = n
                               /\ \A i \in 1..n : a[i] = q[i]
    BY <1>2
  <1>5. PICK b \in Seq(Keys) : b = SubSeq(q, n + 1, Len(q)) /\ Len(b) = Len(q) - n
                               /\ \A i \in 1..(Len(q) - n) : b[i] = q[n + i]
    BY <1>3
  <1>6. \A i, j \in 1..Len(q) : q[i] = q[j] => i = j
    BY Members
  <1>7. IsInjective(a) /\ IsInjective(b)
    <2>1. ASSUME NEW i \in 1..Len(a), NEW j \in 1..Len(a), a[i] = a[j] PROVE i = j
      <3>1. i \in 1..n /\ j \in 1..n /\ i \in 1..Len(q) /\ j \in 1..Len(q)
        BY <1>1, <1>4
      <3> QED  BY <1>4, <1>6, <2>1, <3>1
    <2>2. ASSUME NEW i \in 1..Len(b), NEW j \in 1..Len(b), b[i] = b[j] PROVE i = j
      <3>1. /\ i \in 1..(Len(q) - n) /\ j \in 1..(Len(q) - n)
            /\ n + i \in 1..Len(q) /\ n + j \in 1..Len(q)
        BY <1>1, <1>5
      <3>2. n + i = n + j
        BY <1>5, <1>6, <2>2, <3>1
      <3> QED  BY <1>1, <3>1, <3>2
    <2> QED  BY <2>1, <2>2, Members
  <1>8. ToSet(a) = {q[i] : i \in 1..n} /\ ToSet(a) \subseteq Keys
    <2>1. ToSet(a) = {a[i] : i \in 1..n} /\ ToSet(a) \subseteq Keys
      BY <1>4, Members
    <2> QED  BY <1>4, <2>1
  <1>9. ToSet(b) = {q[i] : i \in (n + 1)..Len(q)}
    <2>1. ToSet(b) = {b[i] : i \in 1..(Len(q) - n)}
      BY <1>5, Members
    <2>2. \A i \in 1..(Len(q) - n) : n + i \in (n + 1)..Len(q) /\ b[i] = q[n + i]
      BY <1>1, <1>5
    <2>3. \A i \in (n + 1)..Len(q) : i - n \in 1..(Len(q) - n) /\ b[i - n] = q[i]
      BY <1>1, <1>5
    <2>4. \A x \in ToSet(b) : x \in {q[i] : i \in (n + 1)..Len(q)}
      BY <2>1, <2>2
    <2>5. \A i \in (n + 1)..Len(q) : q[i] \in ToSet(b)
      BY <2>1, <2>3
    <2> QED  BY <2>4, <2>5
  <1>10. ToSet(q) = {q[i] : i \in 1..Len(q)}
    BY Members
  <1>11. ToSet(a) \cup ToSet(b) = ToSet(q)
    BY <1>1, <1>8, <1>9, <1>10
  <1>12. ToSet(a) \cap ToSet(b) = {}
    BY <1>1, <1>6, <1>8, <1>9
  <1>13. Cardinality(ToSet(a)) = n
    <2> DEFINE f == [i \in 1..n |-> q[i]]
    <2>1. f \in [1..n -> ToSet(a)]
      BY <1>8
    <2>2. \A i, j \in 1..n : f[i] = f[j] => i = j
      BY <1>1, <1>6
    <2>3. \A x \in ToSet(a) : \E i \in 1..n : f[i] = x
      BY <1>8
    <2> HIDE DEF f
    <2>4. f \in Bijection(1..n, ToSet(a))
      BY <2>1, <2>2, <2>3 DEF Bijection, Injection, Surjection, IsInjective
    <2> QED  BY <1>1, <2>4, FS_CountingElements DEF ExistsBijection
  <1>14. n = Len(q) => b = <<>>
    BY <1>1, <1>5
  <1> QED  BY <1>4, <1>5, <1>7, <1>8, <1>9, <1>11, <1>12, <1>13, <1>14

(* Two sequences with nothing in common, one after the other.              *)
LEMMA Joined ==
    ASSUME NEW a \in Seq(Keys), NEW b \in Seq(Keys), IsInjective(a), IsInjective(b),
           ToSet(a) \cap ToSet(b) = {}
    PROVE  /\ a \o b \in Seq(Keys) /\ IsInjective(a \o b)
           /\ ToSet(a \o b) = ToSet(a) \cup ToSet(b)
  <1>1. PICK c \in Seq(Keys) :
            /\ c = a \o b /\ Len(c) = Len(a) + Len(b)
            /\ \A i \in 1..(Len(a) + Len(b)) :
                    c[i] = IF i <= Len(a) THEN a[i] ELSE b[i - Len(a)]
    <2>1. a \o b \in Seq(Keys) /\ Len(a \o b) = Len(a) + Len(b)
      BY ConcatProperties
    <2>2. \A i \in 1..(Len(a) + Len(b)) :
                    (a \o b)[i] = IF i <= Len(a) THEN a[i] ELSE b[i - Len(a)]
      BY ConcatProperties
    <2> QED  BY <2>1, <2>2
  <1>2. Len(a) \in Nat /\ Len(b) \in Nat
    BY Members
  <1>3. /\ ToSet(a) = {a[i] : i \in 1..Len(a)} /\ ToSet(b) = {b[i] : i \in 1..Len(b)}
        /\ \A i, j \in 1..Len(a) : a[i] = a[j] => i = j
        /\ \A i, j \in 1..Len(b) : b[i] = b[j] => i = j
    BY Members
  <1>4. /\ \A i \in 1..Len(a) : i \in 1..Len(c) /\ c[i] = a[i]
        /\ \A i \in 1..Len(b) : i + Len(a) \in 1..Len(c) /\ c[i + Len(a)] = b[i]
    BY <1>1, <1>2
  <1>5. \A i \in 1..Len(c) : \/ i \in 1..Len(a) /\ c[i] = a[i]
                             \/ i - Len(a) \in 1..Len(b) /\ c[i] = b[i - Len(a)]
    BY <1>1, <1>2
  <1>6. ToSet(c) = {c[i] : i \in 1..Len(c)}
    BY Members
  <1>7. ToSet(c) = ToSet(a) \cup ToSet(b)
    <2>1. \A x \in ToSet(c) : x \in ToSet(a) \cup ToSet(b)
      BY <1>3, <1>5, <1>6
    <2>2. \A x \in ToSet(a) : x \in ToSet(c)
      BY <1>3, <1>4, <1>6
    <2>3. \A x \in ToSet(b) : x \in ToSet(c)
      BY <1>3, <1>4, <1>6
    <2> QED  BY <2>1, <2>2, <2>3
  <1>8. ASSUME NEW i \in 1..Len(c), NEW j \in 1..Len(c), c[i] = c[j] PROVE i = j
    <2>1. CASE i \in 1..Len(a) /\ j \in 1..Len(a)
      BY <1>3, <1>4, <1>8, <2>1
    <2>2. CASE i - Len(a) \in 1..Len(b) /\ j - Len(a) \in 1..Len(b)
      <3>1. c[i] = b[i - Len(a)] /\ c[j] = b[j - Len(a)]
        BY <1>1, <1>2, <2>2
      <3>2. i - Len(a) = j - Len(a)
        BY <1>3, <1>8, <2>2, <3>1
      <3> QED  BY <1>2, <3>2
    <2>3. ASSUME NEW m \in 1..Len(a), NEW n \in 1..Len(b) PROVE a[m] # b[n]
      <3>1. a[m] \in ToSet(a) /\ b[n] \in ToSet(b)
        BY <1>3
      <3> QED  BY <3>1
    <2>4. ~(i \in 1..Len(a) /\ j - Len(a) \in 1..Len(b))
      BY <1>1, <1>2, <1>4, <1>8, <2>3
    <2>5. ~(j \in 1..Len(a) /\ i - Len(a) \in 1..Len(b))
      BY <1>1, <1>2, <1>4, <1>8, <2>3
    <2> QED  BY <1>5, <2>1, <2>2, <2>4, <2>5
  <1>9. IsInjective(c)
    BY <1>8, Members
  <1> QED  BY <1>1, <1>7, <1>9

(* The queue without a key.                                                *)
LEMMA Dequeued ==
    ASSUME NEW q \in Seq(Keys), IsInjective(q), NEW k
    PROVE  /\ Dequeue(q, k) \in Seq(Keys) /\ IsInjective(Dequeue(q, k))
           /\ ToSet(Dequeue(q, k)) = ToSet(q) \ {k}
           /\ q = <<>> => Dequeue(q, k) = <<>>
  <1> DEFINE at == {i \in 1..Len(q) : q[i] = k}
  <1>1. /\ Len(q) \in Nat /\ ToSet(q) = {q[i] : i \in 1..Len(q)}
        /\ \A i, j \in 1..Len(q) : q[i] = q[j] => i = j
    BY Members
  <1>2. CASE at = {}
    <2>1. Dequeue(q, k) = q
      BY <1>2 DEF Dequeue
    <2>2. k \notin ToSet(q)
      BY <1>1, <1>2
    <2> QED  BY <2>1, <2>2
  <1>3. CASE at # {}
    <2>1. PICK n \in 1..Len(q) : q[n] = k
      BY <1>3
    <2>2. at = {n}
      BY <1>1, <2>1
    <2>3. Min({n}) = n
      BY <1>1 DEF Min
    <2>4. Dequeue(q, k) = SubSeq(q, 1, n - 1) \o SubSeq(q, n + 1, Len(q))
      BY <1>3, <2>2, <2>3 DEF Dequeue, RemoveAt
    <2>5. n \in Nat /\ n - 1 \in 0..Len(q) /\ n \in 0..Len(q) /\ q # <<>>
      BY <1>1
    <2>6. PICK a \in Seq(Keys) : /\ a = SubSeq(q, 1, n - 1) /\ IsInjective(a)
                                 /\ ToSet(a) = {q[i] : i \in 1..(n - 1)}
      <3>1. PICK m \in 0..Len(q) : m = n - 1
        BY <2>5
      <3>2. /\ SubSeq(q, 1, m) \in Seq(Keys) /\ IsInjective(SubSeq(q, 1, m))
            /\ ToSet(SubSeq(q, 1, m)) = {q[i] : i \in 1..m}
        BY Cut
      <3> QED  BY <3>1, <3>2
    <2>7. PICK b \in Seq(Keys) : /\ b = SubSeq(q, n + 1, Len(q)) /\ IsInjective(b)
                                 /\ ToSet(b) = {q[i] : i \in (n + 1)..Len(q)}
      BY <2>5, Cut
    <2>8. \A i \in 1..Len(q) : q[i] = k => i = n
      BY <1>1, <2>1
    <2>9. ToSet(a) \cap ToSet(b) = {}
      <3>1. \A i \in 1..(n - 1), j \in (n + 1)..Len(q) : q[i] # q[j]
        <4> SUFFICES ASSUME NEW i \in 1..(n - 1), NEW j \in (n + 1)..Len(q)
                     PROVE  q[i] # q[j]
          OBVIOUS
        <4>1. i \in 1..Len(q) /\ j \in 1..Len(q) /\ i # j
          BY <1>1, <2>5
        <4> QED  BY <1>1, <4>1
      <3> QED  BY <2>6, <2>7, <3>1
    <2>10. ToSet(a) \cup ToSet(b) = ToSet(q) \ {k}
      <3>1. \A i \in 1..Len(q) : i # n => i \in 1..(n - 1) \/ i \in (n + 1)..Len(q)
        BY <1>1, <2>5
      <3>2. /\ \A i \in 1..(n - 1) : i \in 1..Len(q) /\ i # n
            /\ \A i \in (n + 1)..Len(q) : i \in 1..Len(q) /\ i # n
        BY <1>1, <2>5
      <3>3. \A x \in ToSet(a) \cup ToSet(b) : x \in ToSet(q) \ {k}
        BY <1>1, <2>6, <2>7, <2>8, <3>2
      <3>4. \A x \in ToSet(q) \ {k} : x \in ToSet(a) \cup ToSet(b)
        BY <1>1, <2>1, <2>6, <2>7, <3>1
      <3> QED  BY <3>3, <3>4
    <2>11. /\ a \o b \in Seq(Keys) /\ IsInjective(a \o b)
           /\ ToSet(a \o b) = ToSet(a) \cup ToSet(b)
      BY <2>6, <2>7, <2>9, Joined
    <2>12. Dequeue(q, k) = a \o b
      BY <2>4, <2>6, <2>7
    <2> HIDE DEF at
    <2> QED  BY <2>5, <2>10, <2>11, <2>12
  <1> QED  BY <1>2, <1>3

-----------------------------------------------------------------------------
(* SyncEngine's operations.                                                *)

(* The fields of an account; there are finitely many keys.                 *)
LEMMA Fields ==
    ASSUME NEW t \in SyncEngine
    PROVE  /\ t.refs \subseteq Keys \X Queries /\ t.queue \in Seq(Keys)
           /\ t.active \subseteq Keys /\ t.received \subseteq Keys
           /\ IsFiniteSet(t.active) /\ Cardinality(t.active) \in Nat
           /\ Len(t.queue) \in Nat
  <1>1. /\ t.refs \subseteq Keys \X Queries /\ t.queue \in Seq(Keys)
        /\ t.active \subseteq Keys /\ t.received \subseteq Keys
    BY DEF SyncEngine
  <1>2. IsFiniteSet(t.active)
    BY <1>1, FS_Subset, LimboAssumption
  <1> QED  BY <1>1, <1>2, FS_CardinalityType

(* The changes that SyncEngine makes.                                      *)
WithRefs(t, x) == [t EXCEPT !.refs = x]

WithQueue(t, x) == [t EXCEPT !.queue = x]

WithReceived(t, x) == [t EXCEPT !.received = x]

WithLookups(t, x, y) == [t EXCEPT !.active = x, !.queue = y]

WithActive(t, x, y) == [t EXCEPT !.active = x, !.received = y]

(* What they give.                                                         *)
LEMMA Remade ==
    ASSUME NEW t \in SyncEngine
    PROVE  /\ \A x \in SUBSET (Keys \X Queries) :
                /\ WithRefs(t, x) \in SyncEngine
                /\ WithRefs(t, x).refs = x /\ WithRefs(t, x).queue = t.queue
                /\ WithRefs(t, x).active = t.active
                /\ WithRefs(t, x).received = t.received
           /\ \A x \in Seq(Keys) :
                /\ WithQueue(t, x) \in SyncEngine
                /\ WithQueue(t, x).refs = t.refs /\ WithQueue(t, x).queue = x
                /\ WithQueue(t, x).active = t.active
                /\ WithQueue(t, x).received = t.received
           /\ \A x \in SUBSET Keys :
                /\ WithReceived(t, x) \in SyncEngine
                /\ WithReceived(t, x).refs = t.refs /\ WithReceived(t, x).queue = t.queue
                /\ WithReceived(t, x).active = t.active
                /\ WithReceived(t, x).received = x
           /\ \A x \in SUBSET Keys, y \in Seq(Keys) :
                /\ WithLookups(t, x, y) \in SyncEngine
                /\ WithLookups(t, x, y).refs = t.refs /\ WithLookups(t, x, y).queue = y
                /\ WithLookups(t, x, y).active = x
                /\ WithLookups(t, x, y).received = t.received
           /\ \A x, y \in SUBSET Keys :
                /\ WithActive(t, x, y) \in SyncEngine
                /\ WithActive(t, x, y).refs = t.refs /\ WithActive(t, x, y).queue = t.queue
                /\ WithActive(t, x, y).active = x
                /\ WithActive(t, x, y).received = y
  BY DEF SyncEngine, WithRefs, WithQueue, WithReceived, WithLookups, WithActive

(* How many lookups PumpEnqueuedLimboResolutions() starts.                 *)
LEMMA PumpFacts ==
    ASSUME NEW t \in SyncEngine
    PROVE  \E n \in 0..Len(t.queue) :
            /\ Pump(t) = WithLookups(t, t.active \cup ToSet(SubSeq(t.queue, 1, n)),
                                     SubSeq(t.queue, n + 1, Len(t.queue)))
            /\ n < Len(t.queue) => Cardinality(t.active) + n >= MaxConcurrent
            /\ n = 0 \/ Cardinality(t.active) + n <= MaxConcurrent
  <1>1. Cardinality(t.active) \in Nat /\ Len(t.queue) \in Nat /\ MaxConcurrent \in Nat
    BY Fields, LimboAssumption
  <1> DEFINE gap == MaxConcurrent - Cardinality(t.active)
             room == Max({0, gap})
             n == Min({room, Len(t.queue)})
  <1>2. gap \in Int
    BY <1>1
  <1> HIDE DEF gap
  <1>3. room \in {0, gap} /\ room >= 0 /\ room >= gap
    <2>1. \E x \in {0, gap} : \A y \in {0, gap} : x >= y
      BY <1>2
    <2> QED  BY <2>1 DEF Max
  <1> HIDE DEF room
  <1>4. n \in {room, Len(t.queue)} /\ n <= room /\ n <= Len(t.queue)
    <2>1. \E x \in {room, Len(t.queue)} : \A y \in {room, Len(t.queue)} : x <= y
      BY <1>1, <1>2, <1>3
    <2> QED  BY <2>1 DEF Min
  <1>5. Pump(t) = WithLookups(t, t.active \cup ToSet(SubSeq(t.queue, 1, n)),
                              SubSeq(t.queue, n + 1, Len(t.queue)))
    BY DEF Pump, WithLookups, gap, room, n
  <1> HIDE DEF n
  <1>6. n \in 0..Len(t.queue)
    BY <1>1, <1>2, <1>3, <1>4
  <1>7. n < Len(t.queue) => Cardinality(t.active) + n >= MaxConcurrent
    BY <1>1, <1>2, <1>3, <1>4 DEF gap
  <1>8. n = 0 \/ Cardinality(t.active) + n <= MaxConcurrent
    BY <1>1, <1>2, <1>3, <1>4, <1>6 DEF gap
  <1> QED  BY <1>5, <1>6, <1>7, <1>8

(* Starting lookups keeps the account's shape, leaves no slot free while a    *)
(* document waits, and does not change what is looked up or will be.       *)
LEMMA PumpKeeps ==
    ASSUME NEW t, Shape(t)
    PROVE  /\ Shape(Pump(t)) /\ Busy(Pump(t))
           /\ Lookups(Pump(t)) = Lookups(t) /\ Pump(t).refs = t.refs
  <1>1. /\ t \in SyncEngine /\ t.received \subseteq t.active /\ IsInjective(t.queue)
        /\ t.active \cap ToSet(t.queue) = {}
        /\ Cardinality(t.active) <= MaxConcurrent
    BY DEF Shape
  <1>2. /\ t.refs \subseteq Keys \X Queries /\ t.queue \in Seq(Keys)
        /\ t.active \subseteq Keys /\ t.received \subseteq Keys
        /\ IsFiniteSet(t.active) /\ Cardinality(t.active) \in Nat
        /\ Len(t.queue) \in Nat /\ MaxConcurrent \in Nat
    BY <1>1, Fields, LimboAssumption
  <1>3. PICK n \in 0..Len(t.queue) :
            /\ Pump(t) = WithLookups(t, t.active \cup ToSet(SubSeq(t.queue, 1, n)),
                                     SubSeq(t.queue, n + 1, Len(t.queue)))
            /\ n < Len(t.queue) => Cardinality(t.active) + n >= MaxConcurrent
            /\ n = 0 \/ Cardinality(t.active) + n <= MaxConcurrent
    BY <1>1, PumpFacts
  <1>4. PICK front, back \in Seq(Keys) :
            /\ front = SubSeq(t.queue, 1, n)
            /\ back = SubSeq(t.queue, n + 1, Len(t.queue))
    BY <1>1, <1>2, Cut
  <1>5. /\ IsInjective(back) /\ ToSet(front) \cup ToSet(back) = ToSet(t.queue)
        /\ ToSet(front) \cap ToSet(back) = {} /\ ToSet(front) \subseteq Keys
        /\ Cardinality(ToSet(front)) = n
        /\ n = Len(t.queue) => back = <<>>
    BY <1>1, <1>2, <1>4, Cut
  <1>6. PICK active \in SUBSET Keys : active = t.active \cup ToSet(front)
    BY <1>2, <1>5
  <1>7. PICK p \in SyncEngine :
            /\ p = Pump(t) /\ p.refs = t.refs /\ p.queue = back
            /\ p.active = active /\ p.received = t.received
    <2>1. Pump(t) = WithLookups(t, active, back)
      BY <1>3, <1>4, <1>6
    <2> QED  BY <1>1, <2>1, Remade
  <1>8. Cardinality(active) = Cardinality(t.active) + n
    <2>1. IsFiniteSet(ToSet(front))
      BY <1>5, FS_Subset, LimboAssumption
    <2>2. t.active \cap ToSet(front) = {}
      BY <1>1, <1>5
    <2>3. Cardinality(t.active \cap ToSet(front)) = 0
      BY <2>2, FS_EmptySet
    <2>4. Cardinality(active) = Cardinality(t.active) + Cardinality(ToSet(front))
                                    - Cardinality(t.active \cap ToSet(front))
      BY <1>2, <1>6, <2>1, FS_Union
    <2> QED  BY <1>2, <1>5, <2>3, <2>4
  <1>9. Cardinality(active) <= MaxConcurrent
    BY <1>1, <1>2, <1>3, <1>8
  <1>10. Shape(p)
    BY <1>1, <1>5, <1>6, <1>7, <1>9 DEF Shape
  <1>11. Busy(p)
    <2>1. ASSUME back # <<>> PROVE Cardinality(active) = MaxConcurrent
      <3>1. n < Len(t.queue) /\ n \in Nat
        BY <1>2, <1>5, <2>1
      <3>2. Cardinality(t.active) + n >= MaxConcurrent
        BY <1>3, <3>1
      <3>3. \A c, m \in Nat : c <= m /\ c >= m => c = m
        OBVIOUS
      <3>4. Cardinality(active) \in Nat
        BY <1>2, <1>8, <3>1
      <3> QED  BY <1>2, <1>8, <1>9, <3>2, <3>3, <3>4
    <2> QED  BY <1>7, <2>1 DEF Busy
  <1>12. Lookups(p) = Lookups(t)
    BY <1>5, <1>6, <1>7 DEF Lookups
  <1> QED  BY <1>7, <1>10, <1>11, <1>12

(* RemoveLimboTarget(): what is neither looked up nor waits is not touched,    *)
(* and a slot that becomes free is used.                                   *)
LEMMA RemoveKeeps ==
    ASSUME NEW t, NEW k, NEW gone, NEW refused, Account(t, gone, refused),
           k \notin Referenced(t)
    PROVE  /\ Account(RemoveLimboTarget(k, t), gone \ {k}, refused)
           /\ RemoveLimboTarget(k, t).refs = t.refs
  <1>1. /\ t \in SyncEngine /\ t.received \subseteq t.active /\ IsInjective(t.queue)
        /\ t.active \cap ToSet(t.queue) = {}
        /\ Cardinality(t.active) <= MaxConcurrent
    BY DEF Account, Shape
  <1>2. /\ t.queue \in Seq(Keys) /\ t.active \subseteq Keys /\ t.received \subseteq Keys
        /\ IsFiniteSet(t.active) /\ Cardinality(t.active) \in Nat
        /\ MaxConcurrent \in Nat
    BY <1>1, Fields, LimboAssumption
  <1>3. PICK q \in Seq(Keys) :
            /\ q = Dequeue(t.queue, k) /\ IsInjective(q)
            /\ ToSet(q) = ToSet(t.queue) \ {k}
            /\ t.queue = <<>> => q = <<>>
    <2>1. /\ Dequeue(t.queue, k) \in Seq(Keys) /\ IsInjective(Dequeue(t.queue, k))
          /\ ToSet(Dequeue(t.queue, k)) = ToSet(t.queue) \ {k}
          /\ t.queue = <<>> => Dequeue(t.queue, k) = <<>>
      BY <1>1, <1>2, Dequeued
    <2> QED  BY <2>1
  <1>4. PICK u \in SyncEngine :
            /\ u = WithQueue(t, q) /\ u.refs = t.refs /\ u.queue = q
            /\ u.active = t.active /\ u.received = t.received
    BY <1>1, Remade
  <1>5. /\ Lookups(t) \subseteq Referenced(t) \cup gone
        /\ Referenced(t) \subseteq Lookups(t) \cup refused /\ Busy(t)
    BY DEF Account
  <1>6. CASE k \notin t.active
    <2>1. RemoveLimboTarget(k, t) = u
      BY <1>3, <1>4, <1>6 DEF RemoveLimboTarget, WithQueue
    <2>2. Shape(u)
      BY <1>1, <1>3, <1>4 DEF Shape
    <2>3. Busy(u)
      BY <1>3, <1>4, <1>5 DEF Busy
    <2>4. Lookups(u) = Lookups(t) \ {k}
      BY <1>3, <1>4, <1>6 DEF Lookups
    <2>5. Referenced(u) = Referenced(t)
      BY <1>4 DEF Referenced
    <2> QED  BY <1>4, <1>5, <2>1, <2>2, <2>3, <2>4, <2>5 DEF Account
  <1>7. CASE k \in t.active
    <2>1. PICK a, r \in SUBSET Keys : a = t.active \ {k} /\ r = t.received \ {k}
      BY <1>2
    <2>2. PICK v \in SyncEngine :
            /\ v = WithActive(u, a, r) /\ v.refs = t.refs /\ v.queue = q
            /\ v.active = a /\ v.received = r
      BY <1>4, Remade
    <2>3. RemoveLimboTarget(k, t) = Pump(v)
      BY <1>3, <1>4, <1>7, <2>1, <2>2 DEF RemoveLimboTarget, WithQueue, WithActive
    <2>4. Cardinality(a) <= MaxConcurrent
      <3>1. PICK b \in SUBSET Keys : b = t.active
        BY <1>2
      <3>2. IsFiniteSet(b) /\ k \in b /\ Cardinality(b) \in Nat
        BY <1>2, <1>7, <3>1
      <3>3. Cardinality(b \ {k}) = Cardinality(b) - 1
        BY <3>2, FS_RemoveElement
      <3>4. Cardinality(b) <= MaxConcurrent
        BY <1>1, <3>1
      <3>5. a = b \ {k}
        BY <2>1, <3>1
      <3> QED  BY <1>2, <3>2, <3>3, <3>4, <3>5
    <2>5. Shape(v)
      BY <1>1, <1>3, <2>1, <2>2, <2>4 DEF Shape
    <2>6. Lookups(v) = Lookups(t) \ {k}
      BY <1>1, <1>3, <2>1, <2>2 DEF Lookups
    <2>7. PICK p : p = Pump(v)
      OBVIOUS
    <2>8. Shape(p) /\ Busy(p) /\ Lookups(p) = Lookups(t) \ {k} /\ p.refs = t.refs
      BY <2>2, <2>5, <2>6, <2>7, PumpKeeps
    <2>9. Referenced(p) = Referenced(t)
      BY <2>8 DEF Referenced
    <2> QED  BY <1>5, <2>3, <2>7, <2>8, <2>9 DEF Account
  <1> QED  BY <1>6, <1>7

(* What one reference less means for what is referenced.                   *)
LEMMA ReferencedLess ==
    ASSUME NEW t, NEW u, NEW k, NEW q, t.refs \subseteq Keys \X Queries,
           u.refs = t.refs \ {<<k, q>>}
    PROVE  /\ Referenced(t) \ {k} \subseteq Referenced(u)
           /\ Referenced(u) \subseteq Referenced(t)
  BY DEF Referenced

(* What one reference more means for what is referenced.                   *)
LEMMA ReferencedMore ==
    ASSUME NEW t, NEW u, NEW k, NEW q, t.refs \subseteq Keys \X Queries,
           u.refs = t.refs \cup {<<k, q>>}
    PROVE  Referenced(u) = Referenced(t) \cup {k}
  <1>1. <<k, q>>[1] = k
    OBVIOUS
  <1>2. \A r \in u.refs : r \in t.refs \/ r = <<k, q>>
    OBVIOUS
  <1>3. t.refs \subseteq u.refs /\ <<k, q>> \in u.refs
    OBVIOUS
  <1>4. \A x \in Referenced(u) : x \in Referenced(t) \/ x = k
    <2> SUFFICES ASSUME NEW r \in u.refs PROVE r[1] \in Referenced(t) \/ r[1] = k
      BY DEF Referenced
    <2>1. CASE r \in t.refs
      BY <2>1 DEF Referenced
    <2>2. CASE r = <<k, q>>
      BY <1>1, <2>2
    <2> QED  BY <1>2, <2>1, <2>2
  <1>5. \A x \in Referenced(t) : x \in Referenced(u)
    BY <1>3 DEF Referenced
  <1>6. k \in Referenced(u)
    <2>1. \E r \in u.refs : k = r[1]
      BY <1>1, <1>3
    <2> QED  BY <2>1 DEF Referenced
  <1> QED  BY <1>4, <1>5, <1>6

(* A reference less.                                                       *)
LEMMA RemoveReferenceKeeps ==
    ASSUME NEW t, NEW k \in Keys, NEW q \in Queries, NEW refused,
           Account(t, {}, refused)
    PROVE  /\ Account(RemoveReference(k, q, t), {}, refused)
           /\ RemoveReference(k, q, t).refs = t.refs \ {<<k, q>>}
  <1>1. t \in SyncEngine /\ t.refs \subseteq Keys \X Queries
    BY Fields DEF Account, Shape
  <1>2. PICK u \in SyncEngine :
            /\ u = WithRefs(t, t.refs \ {<<k, q>>}) /\ u.refs = t.refs \ {<<k, q>>}
            /\ u.queue = t.queue /\ u.active = t.active /\ u.received = t.received
    <2>1. t.refs \ {<<k, q>>} \in SUBSET (Keys \X Queries)
      BY <1>1
    <2> QED  BY <1>1, <2>1, Remade
  <1>3. /\ Referenced(t) \ {k} \subseteq Referenced(u)
        /\ Referenced(u) \subseteq Referenced(t)
    <2>1. t.refs \subseteq Keys \X Queries /\ u.refs = t.refs \ {<<k, q>>}
      BY <1>1, <1>2
    <2> QED  BY <2>1, ReferencedLess, ZenonT(30)
  <1>4. Account(u, {k}, refused)
    <2>1. Shape(u) /\ Busy(u) /\ Lookups(u) = Lookups(t)
      BY <1>2 DEF Account, Shape, Busy, Lookups
    <2> QED  BY <1>3, <2>1 DEF Account
  <1>5. RemoveReference(k, q, t) =
            IF k \in Referenced(u) THEN u ELSE RemoveLimboTarget(k, u)
    BY <1>2 DEF RemoveReference, WithRefs
  <1>6. CASE k \in Referenced(u)
    BY <1>2, <1>4, <1>5, <1>6 DEF Account
  <1>7. CASE k \notin Referenced(u)
    <2>1. /\ Account(RemoveLimboTarget(k, u), {k} \ {k}, refused)
          /\ RemoveLimboTarget(k, u).refs = u.refs
      BY <1>4, <1>7, RemoveKeeps
    <2>2. {k} \ {k} = {}
      OBVIOUS
    <2> QED  BY <1>2, <1>5, <1>7, <2>1, <2>2
  <1> QED  BY <1>6, <1>7

(* A reference more.                                                       *)
LEMMA AddReferenceKeeps ==
    ASSUME NEW t, NEW k \in Keys, NEW q \in Queries, NEW refused,
           Account(t, {}, refused)
    PROVE  /\ Account(AddReference(k, q, t), {}, refused)
           /\ AddReference(k, q, t).refs = t.refs \cup {<<k, q>>}
  <1>1. t \in SyncEngine /\ t.refs \subseteq Keys \X Queries /\ t.queue \in Seq(Keys)
    BY Fields DEF Account, Shape
  <1>2. PICK u \in SyncEngine :
            /\ u = WithRefs(t, t.refs \cup {<<k, q>>}) /\ u.refs = t.refs \cup {<<k, q>>}
            /\ u.queue = t.queue /\ u.active = t.active /\ u.received = t.received
    <2>1. t.refs \cup {<<k, q>>} \in SUBSET (Keys \X Queries)
      BY <1>1
    <2> QED  BY <1>1, <2>1, Remade
  <1>3. Referenced(u) = Referenced(t) \cup {k}
    <2>1. t.refs \subseteq Keys \X Queries /\ u.refs = t.refs \cup {<<k, q>>}
      BY <1>1, <1>2
    <2> QED  BY <2>1, ReferencedMore, ZenonT(30)
  <1>4. /\ Shape(u) /\ Busy(u) /\ Lookups(u) \subseteq Referenced(u)
        /\ Referenced(u) \subseteq Lookups(u) \cup refused \cup {k}
    BY <1>2, <1>3 DEF Account, Shape, Busy, Lookups
  <1>5. AddReference(k, q, t) = TrackLimboChange(k, u)
    BY <1>2 DEF AddReference, WithRefs
  <1>6. CASE k \in Lookups(u)
    <2>1. TrackLimboChange(k, u) = u
      BY <1>6 DEF TrackLimboChange, Lookups
    <2> QED  BY <1>2, <1>4, <1>5, <1>6, <2>1 DEF Account
  <1>7. CASE k \notin Lookups(u)
    <2>1. PICK s \in Seq(Keys) : s = <<k>> /\ IsInjective(s) /\ ToSet(s) = {k}
      <3>1. <<k>> \in Seq(Keys) /\ Len(<<k>>) = 1 /\ <<k>>[1] = k
        OBVIOUS
      <3>2. PICK s \in Seq(Keys) : s = <<k>> /\ Len(s) = 1 /\ s[1] = k
        BY <3>1
      <3>3. 1..1 = {1}
        OBVIOUS
      <3>4. /\ ToSet(s) = {s[i] : i \in 1..Len(s)}
            /\ IsInjective(s) <=> \A i, j \in 1..Len(s) : s[i] = s[j] => i = j
        BY Members
      <3>5. ToSet(s) = {s[i] : i \in {1}}
        BY <3>2, <3>3, <3>4
      <3>6. ToSet(s) = {k}
        BY <3>2, <3>5
      <3>7. IsInjective(s)
        BY <3>2, <3>3, <3>4
      <3> QED  BY <3>2, <3>6, <3>7
    <2>2. PICK n \in Seq(Keys) :
            /\ n = Append(u.queue, k) /\ IsInjective(n)
            /\ ToSet(n) = ToSet(u.queue) \cup {k}
      <3>1. Append(u.queue, k) = u.queue \o s
        BY <1>1, <1>2, <2>1, AppendIsConcat
      <3>2. ToSet(u.queue) \cap ToSet(s) = {}
        BY <1>7, <2>1 DEF Lookups
      <3>3. IsInjective(u.queue)
        BY <1>4 DEF Shape
      <3>4. u.queue \in Seq(Keys)
        BY <1>1, <1>2
      <3>5. PICK a \in Seq(Keys) : a = u.queue
        BY <3>4
      <3>6. /\ a \o s \in Seq(Keys) /\ IsInjective(a \o s)
            /\ ToSet(a \o s) = ToSet(a) \cup ToSet(s)
        BY <2>1, <3>2, <3>3, <3>5, Joined
      <3>7. Append(u.queue, k) = a \o s
        BY <3>1, <3>5
      <3>8. /\ Append(u.queue, k) \in Seq(Keys) /\ IsInjective(Append(u.queue, k))
            /\ ToSet(Append(u.queue, k)) = ToSet(u.queue) \cup {k}
        BY <2>1, <3>5, <3>6, <3>7
      <3> QED  BY <3>8
    <2>3. PICK v \in SyncEngine :
            /\ v = WithQueue(u, n) /\ v.refs = u.refs /\ v.queue = n
            /\ v.active = u.active /\ v.received = u.received
      BY Remade
    <2>4. TrackLimboChange(k, u) = Pump(v)
      BY <1>7, <2>2, <2>3 DEF TrackLimboChange, WithQueue, Lookups
    <2>5. Shape(v)
      BY <1>4, <1>7, <2>2, <2>3 DEF Shape, Lookups
    <2>6. Lookups(v) = Lookups(u) \cup {k}
      BY <2>2, <2>3 DEF Lookups
    <2>7. PICK p : p = Pump(v)
      OBVIOUS
    <2>8. Shape(p) /\ Busy(p) /\ Lookups(p) = Lookups(u) \cup {k} /\ p.refs = u.refs
      BY <2>3, <2>5, <2>6, <2>7, PumpKeeps
    <2>9. Referenced(p) = Referenced(u)
      BY <2>8 DEF Referenced
    <2> QED  BY <1>2, <1>3, <1>4, <1>5, <2>4, <2>7, <2>8, <2>9 DEF Account
  <1> QED  BY <1>6, <1>7

-----------------------------------------------------------------------------
(* SyncEngine's loops, as functions of the set of what they have treated.   *)

(* The references of q to the keys K go, from account t on.                *)
LeavingLoop(t, q, K) ==
    CHOOSE g : g = [s \in SUBSET K |->
                        IF s = {} THEN t
                        ELSE RemoveReference(Pick(s), q, g[s \ {Pick(s)}])]

(* References of q to the keys K come.                                     *)
ComingLoop(t, q, K) ==
    CHOOSE g : g = [s \in SUBSET K |->
                        IF s = {} THEN t
                        ELSE AddReference(Pick(s), q, g[s \ {Pick(s)}])]

(* The lookups of the keys K end.                                          *)
EndingLoop(t, K) ==
    CHOOSE g : g = [s \in SUBSET K |->
                        IF s = {} THEN t
                        ELSE RemoveLimboTarget(Pick(s), g[s \ {Pick(s)}])]

(* The view of q changed from v to w: what left limbo, then what came.     *)
Report(t, q, v, w) ==
    IF v = NoView THEN t
    ELSE UpdateTrackedLimboDocuments(t, q, v.limbo \ w.limbo, w.limbo \ v.limbo)

(* Every query reports the change of its view, from vs to ws.              *)
ReportLoop(t, vs, ws) ==
    CHOOSE g : g = [s \in SUBSET Queries |->
                        IF s = {} THEN t
                        ELSE Report(g[s \ {Pick(s)}], Pick(s), vs[Pick(s)],
                                    ws[Pick(s)])]

(* The folds of SyncEngine are these loops.                                *)
LEMMA UpdateIsLoops ==
    ASSUME NEW t, NEW q, NEW removed, NEW added
    PROVE  UpdateTrackedLimboDocuments(t, q, removed, added) =
                ComingLoop(LeavingLoop(t, q, removed)[removed], q, added)[added]
  BY DEF UpdateTrackedLimboDocuments, FoldSet, MapThenFoldSet, Pick, LeavingLoop,
         ComingLoop

(* The same for the references of a target that is removed.                *)
LEMMA CleanupIsLoop ==
    ASSUME NEW t, NEW q
    PROVE  LET keys == {r[1] : r \in {x \in t.refs : x[2] = q}}
               u == WithRefs(t, {r \in t.refs : r[2] # q})
               K == keys \ Referenced(u)
           IN  RemoveAndCleanupTarget(t, q) = EndingLoop(u, K)[K]
  BY DEF RemoveAndCleanupTarget, FoldSet, MapThenFoldSet, Pick, EndingLoop, WithRefs

(* The references of q to K are gone, and the account is in order.         *)
LEMMA LeavingKeeps ==
    ASSUME NEW t, NEW q \in Queries, NEW K \in SUBSET Keys, NEW refused,
           Account(t, {}, refused)
    PROVE  LET u == LeavingLoop(t, q, K)[K] IN
           Account(u, {}, refused) /\ u.refs = t.refs \ (K \X {q})
  <1> DEFINE T == {u \in SyncEngine : Account(u, {}, refused)}
             F == [p \in K \X T |-> RemoveReference(p[1], q, p[2])]
             G(g) == [s \in SUBSET K |->
                        IF s = {} THEN t
                        ELSE RemoveReference(Pick(s), q, g[s \ {Pick(s)}])]
  <1>1. IsFiniteSet(K)
    BY FS_Subset, LimboAssumption
  <1>2. t \in T
    BY DEF Account, Shape
  <1>3. ASSUME NEW k \in K, NEW u \in T
        PROVE  /\ RemoveReference(k, q, u) \in T
               /\ RemoveReference(k, q, u).refs = u.refs \ {<<k, q>>}
    <2>1. /\ Account(RemoveReference(k, q, u), {}, refused)
          /\ RemoveReference(k, q, u).refs = u.refs \ {<<k, q>>}
      BY RemoveReferenceKeeps
    <2> QED  BY <2>1 DEF Account, Shape
  <1> HIDE DEF T
  <1>4. F \in [K \X T -> T]
    BY <1>3
  <1>5. \A k \in K, u \in T : F[<<k, u>>] = RemoveReference(k, q, u)
    OBVIOUS
  <1> HIDE DEF F
  <1>6. PICK h \in [SUBSET K -> T] : Runs(h, K, t, F)
    BY <1>1, <1>2, <1>4, LoopExists
  <1>7. h = G(h)
    <2>1. ASSUME NEW s \in SUBSET K
          PROVE  h[s] = IF s = {} THEN t
                        ELSE RemoveReference(Pick(s), q, h[s \ {Pick(s)}])
      <3>1. CASE s = {}
        BY <1>6, <3>1 DEF Runs
      <3>2. CASE s # {}
        <4>1. Pick(s) \in K /\ h[s \ {Pick(s)}] \in T
          BY <1>1, <3>2, PickFacts
        <4> QED  BY <1>5, <1>6, <3>2, <4>1 DEF Runs
      <3> QED  BY <3>1, <3>2
    <2> QED  BY <2>1
  <1>8. PICK g : g = LeavingLoop(t, q, K)
    OBVIOUS
  <1>9. g = G(g)
    BY <1>7, <1>8 DEF LeavingLoop
  <1>10. g[{}] = t
    BY <1>9
  <1>11. ASSUME NEW s \in SUBSET K, s # {}
         PROVE  g[s] = RemoveReference(Pick(s), q, g[s \ {Pick(s)}])
    BY <1>9, <1>11
  <1> HIDE DEF G
  <1> DEFINE P == {s \in SUBSET K : g[s] \in T /\ g[s].refs = t.refs \ (s \X {q})}
  <1>12. {} \in P
    BY <1>2, <1>10
  <1>13. ASSUME NEW s \in SUBSET K, s # {}, s \ {Pick(s)} \in P PROVE s \in P
    <2>1. PICK k \in K : k = Pick(s) /\ k \in s
      BY <1>1, <1>13, PickFacts
    <2>2. PICK u \in T : u = g[s \ {k}] /\ u.refs = t.refs \ ((s \ {k}) \X {q})
      BY <1>13, <2>1
    <2>3. g[s] = RemoveReference(k, q, u)
      BY <1>11, <1>13, <2>1, <2>2
    <2>4. g[s] \in T /\ g[s].refs = u.refs \ {<<k, q>>}
      BY <1>3, <2>3
    <2>5. ((s \ {k}) \X {q}) \cup {<<k, q>>} = s \X {q}
      BY <2>1
    <2> QED  BY <2>2, <2>4, <2>5
  <1> HIDE DEF P
  <1>14. K \in P
    BY <1>1, <1>12, <1>13, LoopInduction
  <1> QED  BY <1>8, <1>14 DEF P, T

(* The references of q to K are there, and the account is in order.        *)
LEMMA ComingKeeps ==
    ASSUME NEW t, NEW q \in Queries, NEW K \in SUBSET Keys, NEW refused,
           Account(t, {}, refused)
    PROVE  LET u == ComingLoop(t, q, K)[K] IN
           Account(u, {}, refused) /\ u.refs = t.refs \cup (K \X {q})
  <1> DEFINE T == {u \in SyncEngine : Account(u, {}, refused)}
             F == [p \in K \X T |-> AddReference(p[1], q, p[2])]
             G(g) == [s \in SUBSET K |->
                        IF s = {} THEN t
                        ELSE AddReference(Pick(s), q, g[s \ {Pick(s)}])]
  <1>1. IsFiniteSet(K)
    BY FS_Subset, LimboAssumption
  <1>2. t \in T
    BY DEF Account, Shape
  <1>3. ASSUME NEW k \in K, NEW u \in T
        PROVE  /\ AddReference(k, q, u) \in T
               /\ AddReference(k, q, u).refs = u.refs \cup {<<k, q>>}
    <2>1. /\ Account(AddReference(k, q, u), {}, refused)
          /\ AddReference(k, q, u).refs = u.refs \cup {<<k, q>>}
      BY AddReferenceKeeps
    <2> QED  BY <2>1 DEF Account, Shape
  <1> HIDE DEF T
  <1>4. F \in [K \X T -> T]
    BY <1>3
  <1>5. \A k \in K, u \in T : F[<<k, u>>] = AddReference(k, q, u)
    OBVIOUS
  <1> HIDE DEF F
  <1>6. PICK h \in [SUBSET K -> T] : Runs(h, K, t, F)
    BY <1>1, <1>2, <1>4, LoopExists
  <1>7. h = G(h)
    <2>1. ASSUME NEW s \in SUBSET K
          PROVE  h[s] = IF s = {} THEN t
                        ELSE AddReference(Pick(s), q, h[s \ {Pick(s)}])
      <3>1. CASE s = {}
        BY <1>6, <3>1 DEF Runs
      <3>2. CASE s # {}
        <4>1. Pick(s) \in K /\ h[s \ {Pick(s)}] \in T
          BY <1>1, <3>2, PickFacts
        <4> QED  BY <1>5, <1>6, <3>2, <4>1 DEF Runs
      <3> QED  BY <3>1, <3>2
    <2> QED  BY <2>1
  <1>8. PICK g : g = ComingLoop(t, q, K)
    OBVIOUS
  <1>9. g = G(g)
    BY <1>7, <1>8 DEF ComingLoop
  <1>10. g[{}] = t
    BY <1>9
  <1>11. ASSUME NEW s \in SUBSET K, s # {}
         PROVE  g[s] = AddReference(Pick(s), q, g[s \ {Pick(s)}])
    BY <1>9, <1>11
  <1> HIDE DEF G
  <1> DEFINE P == {s \in SUBSET K : g[s] \in T /\ g[s].refs = t.refs \cup (s \X {q})}
  <1>12. {} \in P
    BY <1>2, <1>10
  <1>13. ASSUME NEW s \in SUBSET K, s # {}, s \ {Pick(s)} \in P PROVE s \in P
    <2>1. PICK k \in K : k = Pick(s) /\ k \in s
      BY <1>1, <1>13, PickFacts
    <2>2. PICK u \in T : u = g[s \ {k}] /\ u.refs = t.refs \cup ((s \ {k}) \X {q})
      BY <1>13, <2>1
    <2>3. g[s] = AddReference(k, q, u)
      BY <1>11, <1>13, <2>1, <2>2
    <2>4. g[s] \in T /\ g[s].refs = u.refs \cup {<<k, q>>}
      BY <1>3, <2>3
    <2>5. ((s \ {k}) \X {q}) \cup {<<k, q>>} = s \X {q}
      BY <2>1
    <2> QED  BY <2>2, <2>4, <2>5
  <1> HIDE DEF P
  <1>14. K \in P
    BY <1>1, <1>12, <1>13, LoopInduction
  <1> QED  BY <1>8, <1>14 DEF P, T

(* The lookups of K, which no query needs any more, have ended.            *)
LEMMA EndingKeeps ==
    ASSUME NEW t, NEW K \in SUBSET Keys, NEW refused, Account(t, K, refused),
           K \cap Referenced(t) = {}
    PROVE  LET u == EndingLoop(t, K)[K] IN
           Account(u, {}, refused) /\ u.refs = t.refs
  <1> DEFINE T == {u \in SyncEngine : u.refs = t.refs /\ Account(u, K, refused)}
             F == [p \in K \X T |-> RemoveLimboTarget(p[1], p[2])]
             G(g) == [s \in SUBSET K |->
                        IF s = {} THEN t
                        ELSE RemoveLimboTarget(Pick(s), g[s \ {Pick(s)}])]
  <1>1. IsFiniteSet(K)
    BY FS_Subset, LimboAssumption
  <1>2. t \in T
    BY DEF Account, Shape
  <1>3. ASSUME NEW k \in K, NEW u \in T, NEW gone \in SUBSET K, Account(u, gone, refused)
        PROVE  /\ RemoveLimboTarget(k, u) \in T
               /\ Account(RemoveLimboTarget(k, u), gone \ {k}, refused)
    <2>1. u.refs = t.refs /\ k \notin Referenced(u)
      BY DEF Referenced
    <2>2. /\ Account(RemoveLimboTarget(k, u), gone \ {k}, refused)
          /\ RemoveLimboTarget(k, u).refs = u.refs
      BY <1>3, <2>1, RemoveKeeps
    <2>3. gone \ {k} \subseteq K
      OBVIOUS
    <2>4. Account(RemoveLimboTarget(k, u), K, refused)
      BY <2>2, <2>3 DEF Account
    <2> QED  BY <2>1, <2>2, <2>4 DEF Account, Shape
  <1>a. \A u \in T : u.refs = t.refs /\ Account(u, K, refused)
    OBVIOUS
  <1> HIDE DEF T
  <1>4. F \in [K \X T -> T]
    BY <1>3, <1>a
  <1>5. \A k \in K, u \in T : F[<<k, u>>] = RemoveLimboTarget(k, u)
    OBVIOUS
  <1> HIDE DEF F
  <1>6. PICK h \in [SUBSET K -> T] : Runs(h, K, t, F)
    BY <1>1, <1>2, <1>4, LoopExists
  <1>7. h = G(h)
    <2>1. ASSUME NEW s \in SUBSET K
          PROVE  h[s] = IF s = {} THEN t
                        ELSE RemoveLimboTarget(Pick(s), h[s \ {Pick(s)}])
      <3>1. CASE s = {}
        BY <1>6, <3>1 DEF Runs
      <3>2. CASE s # {}
        <4>1. Pick(s) \in K /\ s \ {Pick(s)} \in SUBSET K
          BY <1>1, <3>2, PickFacts
        <4>2. h[s \ {Pick(s)}] \in T
          BY <4>1
        <4> QED  BY <1>5, <1>6, <3>2, <4>1, <4>2 DEF Runs
      <3> QED  BY <3>1, <3>2
    <2> QED  BY <2>1
  <1>8. PICK g : g = EndingLoop(t, K)
    OBVIOUS
  <1>9. g = G(g)
    BY <1>7, <1>8 DEF EndingLoop
  <1>10. g[{}] = t
    BY <1>9
  <1>11. ASSUME NEW s \in SUBSET K, s # {}
         PROVE  g[s] = RemoveLimboTarget(Pick(s), g[s \ {Pick(s)}])
    BY <1>9, <1>11
  <1> HIDE DEF G
  <1> DEFINE P == {s \in SUBSET K : g[s] \in T /\ Account(g[s], K \ s, refused)}
  <1>12. {} \in P
    <2>1. K \ {} = K
      OBVIOUS
    <2> QED  BY <1>2, <1>10, <2>1
  <1>13. ASSUME NEW s \in SUBSET K, s # {}, s \ {Pick(s)} \in P PROVE s \in P
    <2>1. PICK k \in K : k = Pick(s) /\ k \in s
      BY <1>1, <1>13, PickFacts
    <2>2. PICK u \in T : u = g[s \ {k}] /\ Account(u, K \ (s \ {k}), refused)
      BY <1>13, <2>1
    <2>3. g[s] = RemoveLimboTarget(k, u)
      BY <1>11, <1>13, <2>1, <2>2
    <2>4. (K \ (s \ {k})) \ {k} = K \ s /\ K \ (s \ {k}) \in SUBSET K
      BY <2>1
    <2>5. g[s] \in T /\ Account(g[s], K \ s, refused)
      BY <1>3, <2>2, <2>3, <2>4
    <2> QED  BY <2>5
  <1> HIDE DEF P
  <1>14. K \in P
    BY <1>1, <1>12, <1>13, LoopInduction
  <1>15. K \ K = {}
    OBVIOUS
  <1> QED  BY <1>8, <1>14, <1>15, <1>a DEF P

-----------------------------------------------------------------------------
(* The references that a set of views stands for.                          *)

Views == [Queries -> View \cup {NoView}]

(* What q has in limbo with view v.                                        *)
Limbo(v) == IF v = NoView THEN {} ELSE v.limbo

LimboRefs(vs) == {r \in Keys \X Queries : r[1] \in Limbo(vs[r[2]])}

(* A view has keys in limbo.                                               *)
LEMMA LimboType ==
    ASSUME NEW v \in View \cup {NoView}
    PROVE  Limbo(v) \in SUBSET Keys
  BY DEF Limbo, View

(* One view's report keeps the account in order, and accounts for the view.  *)
LEMMA ReportKeeps ==
    ASSUME NEW t, NEW q \in Queries, NEW refused, Account(t, {}, refused),
           NEW v \in View \cup {NoView}, NEW w \in View \cup {NoView},
           v = NoView <=> w = NoView
    PROVE  /\ Account(Report(t, q, v, w), {}, refused)
           /\ Report(t, q, v, w).refs =
                (t.refs \ ((Limbo(v) \ Limbo(w)) \X {q}))
                    \cup ((Limbo(w) \ Limbo(v)) \X {q})
  <1>1. CASE v = NoView
    <2>1. Report(t, q, v, w) = t /\ Limbo(v) = {} /\ Limbo(w) = {}
      BY <1>1 DEF Report, Limbo
    <2> QED  BY <2>1
  <1>2. CASE v # NoView
    <2>1. PICK a, b \in SUBSET Keys : a = Limbo(v) \ Limbo(w) /\ b = Limbo(w) \ Limbo(v)
      BY LimboType
    <2>2. Report(t, q, v, w) = UpdateTrackedLimboDocuments(t, q, a, b)
      BY <1>2, <2>1 DEF Report, Limbo
    <2>3. PICK l : l = LeavingLoop(t, q, a)[a]
      OBVIOUS
    <2>4. Account(l, {}, refused) /\ l.refs = t.refs \ (a \X {q})
      BY <2>3, LeavingKeeps
    <2>5. PICK c : c = ComingLoop(l, q, b)[b]
      OBVIOUS
    <2>6. Account(c, {}, refused) /\ c.refs = l.refs \cup (b \X {q})
      BY <2>4, <2>5, ComingKeeps
    <2>7. Report(t, q, v, w) = c
      BY <2>2, <2>3, <2>5, UpdateIsLoops
    <2> QED  BY <2>1, <2>4, <2>6, <2>7
  <1> QED  BY <1>1, <1>2

(* Sets of references with the same pairs are the same.                    *)
LEMMA SamePairs ==
    ASSUME NEW y \in SUBSET (Keys \X Queries), NEW z \in SUBSET (Keys \X Queries),
           \A k \in Keys, x \in Queries : <<k, x>> \in y <=> <<k, x>> \in z
    PROVE  y = z
  <1>1. ASSUME NEW r \in Keys \X Queries PROVE r \in y <=> r \in z
    <2>1. PICK k \in Keys, x \in Queries : r = <<k, x>>
      OBVIOUS
    <2> QED  BY <2>1
  <1> QED  BY <1>1

(* The queries report one after the other: those that have, with their new    *)
(* view, and the others with their old one.                                *)
LEMMA ReportsKeep ==
    ASSUME NEW t, NEW refused, Account(t, {}, refused), NEW vs \in Views,
           NEW ws \in Views, \A q \in Queries : vs[q] = NoView <=> ws[q] = NoView,
           t.refs = LimboRefs(vs)
    PROVE  LET u == ReportLoop(t, vs, ws)[Queries] IN
           Account(u, {}, refused) /\ u.refs = LimboRefs(ws)
  <1> DEFINE T == {u \in SyncEngine : Account(u, {}, refused)}
             F == [p \in Queries \X T |-> Report(p[2], p[1], vs[p[1]], ws[p[1]])]
             G(g) == [s \in SUBSET Queries |->
                        IF s = {} THEN t
                        ELSE Report(g[s \ {Pick(s)}], Pick(s), vs[Pick(s)],
                                    ws[Pick(s)])]
             Mixed(s) == [q \in Queries |-> IF q \in s THEN ws[q] ELSE vs[q]]
  <1>1. IsFiniteSet(Queries)
    BY LimboAssumption
  <1>2. t \in T
    BY DEF Account, Shape
  <1>3. ASSUME NEW q \in Queries, NEW u \in T
        PROVE  /\ Report(u, q, vs[q], ws[q]) \in T
               /\ Report(u, q, vs[q], ws[q]).refs =
                    (u.refs \ ((Limbo(vs[q]) \ Limbo(ws[q])) \X {q}))
                        \cup ((Limbo(ws[q]) \ Limbo(vs[q])) \X {q})
    <2>1. vs[q] \in View \cup {NoView} /\ ws[q] \in View \cup {NoView}
      BY DEF Views
    <2>2. /\ Account(Report(u, q, vs[q], ws[q]), {}, refused)
          /\ Report(u, q, vs[q], ws[q]).refs =
                    (u.refs \ ((Limbo(vs[q]) \ Limbo(ws[q])) \X {q}))
                        \cup ((Limbo(ws[q]) \ Limbo(vs[q])) \X {q})
      BY <2>1, ReportKeeps
    <2> QED  BY <2>2 DEF Account, Shape
  <1> HIDE DEF T
  <1>4. F \in [Queries \X T -> T]
    BY <1>3
  <1>5. \A q \in Queries, u \in T : F[<<q, u>>] = Report(u, q, vs[q], ws[q])
    OBVIOUS
  <1> HIDE DEF F
  <1>6. PICK h \in [SUBSET Queries -> T] : Runs(h, Queries, t, F)
    BY <1>1, <1>2, <1>4, LoopExists
  <1>7. h = G(h)
    <2>1. ASSUME NEW s \in SUBSET Queries
          PROVE  h[s] = IF s = {} THEN t
                        ELSE Report(h[s \ {Pick(s)}], Pick(s), vs[Pick(s)], ws[Pick(s)])
      <3>1. CASE s = {}
        BY <1>6, <3>1 DEF Runs
      <3>2. CASE s # {}
        <4>1. Pick(s) \in Queries /\ h[s \ {Pick(s)}] \in T
          BY <1>1, <3>2, PickFacts
        <4> QED  BY <1>5, <1>6, <3>2, <4>1 DEF Runs
      <3> QED  BY <3>1, <3>2
    <2> QED  BY <2>1
  <1>8. PICK g : g = ReportLoop(t, vs, ws)
    OBVIOUS
  <1>9. g = G(g)
    BY <1>7, <1>8 DEF ReportLoop
  <1>10. g[{}] = t
    BY <1>9
  <1>11. ASSUME NEW s \in SUBSET Queries, s # {}
         PROVE  g[s] = Report(g[s \ {Pick(s)}], Pick(s), vs[Pick(s)], ws[Pick(s)])
    BY <1>9, <1>11
  <1> HIDE DEF G
  <1> DEFINE P == {s \in SUBSET Queries : g[s] \in T /\ g[s].refs = LimboRefs(Mixed(s))}
  <1>12. {} \in P
    <2>1. Mixed({}) = vs
      BY DEF Views
    <2> QED  BY <1>2, <1>10, <2>1
  <1>13. ASSUME NEW s \in SUBSET Queries, s # {}, s \ {Pick(s)} \in P PROVE s \in P
    <2>1. PICK q \in Queries : q = Pick(s) /\ q \in s
      BY <1>1, <1>13, PickFacts
    <2>2. PICK u \in T : u = g[s \ {q}] /\ u.refs = LimboRefs(Mixed(s \ {q}))
      BY <1>13, <2>1
    <2>3. g[s] = Report(u, q, vs[q], ws[q])
      BY <1>11, <1>13, <2>1, <2>2
    <2>4. PICK v, w \in SUBSET Keys : v = Limbo(vs[q]) /\ w = Limbo(ws[q])
      BY LimboType DEF Views
    <2>5. g[s] \in T /\ g[s].refs = (u.refs \ ((v \ w) \X {q})) \cup ((w \ v) \X {q})
      BY <1>3, <2>3, <2>4
    <2>6. \A k \in Keys, x \in Queries :
            /\ <<k, x>> \in u.refs <=> k \in Limbo(Mixed(s \ {q})[x])
            /\ <<k, x>> \in LimboRefs(Mixed(s)) <=> k \in Limbo(Mixed(s)[x])
      BY <2>2 DEF LimboRefs
    <2>7. /\ Mixed(s \ {q})[q] = vs[q] /\ Mixed(s)[q] = ws[q]
          /\ \A x \in Queries : x # q => Mixed(s \ {q})[x] = Mixed(s)[x]
      BY <2>1
    <2> HIDE DEF Mixed
    <2>8. ASSUME NEW k \in Keys, NEW x \in Queries
          PROVE  <<k, x>> \in g[s].refs <=> <<k, x>> \in LimboRefs(Mixed(s))
      <3>1. CASE x = q
        <4>1. <<k, x>> \in u.refs <=> k \in v
          BY <2>4, <2>6, <2>7, <3>1
        <4>2. <<k, x>> \in LimboRefs(Mixed(s)) <=> k \in w
          BY <2>4, <2>6, <2>7, <3>1
        <4>3. /\ <<k, x>> \in (v \ w) \X {q} <=> k \in v \ w
              /\ <<k, x>> \in (w \ v) \X {q} <=> k \in w \ v
          BY <3>1
        <4> QED  BY <2>5, <4>1, <4>2, <4>3
      <3>2. CASE x # q
        <4>1. <<k, x>> \notin (v \ w) \X {q} /\ <<k, x>> \notin (w \ v) \X {q}
          BY <3>2
        <4> QED  BY <2>5, <2>6, <2>7, <3>2, <4>1
      <3> QED  BY <3>1, <3>2
    <2>9. g[s].refs \subseteq Keys \X Queries /\ LimboRefs(Mixed(s)) \subseteq Keys \X Queries
      BY <2>2, <2>5 DEF LimboRefs
    <2>10. PICK y, z \in SUBSET (Keys \X Queries) :
                y = g[s].refs /\ z = LimboRefs(Mixed(s))
      BY <2>9
    <2>11. \A k \in Keys, x \in Queries : <<k, x>> \in y <=> <<k, x>> \in z
      BY <2>8, <2>10
    <2>12. y = z
      BY <2>11, SamePairs
    <2> QED  BY <2>5, <2>10, <2>12
  <1>14. Mixed(Queries) = ws
    BY DEF Views
  <1> HIDE DEF P, Mixed
  <1>15. Queries \in P
    BY <1>1, <1>12, <1>13, LoopInduction
  <1> QED  BY <1>8, <1>14, <1>15 DEF P, T

(* RemoveAndCleanupTarget() removes the references of q and the lookups that    *)
(* were for q alone.                                                       *)
LEMMA CleanupKeeps ==
    ASSUME NEW t, NEW q \in Queries, NEW refused, Account(t, {}, refused)
    PROVE  LET u == RemoveAndCleanupTarget(t, q) IN
           Account(u, {}, refused) /\ u.refs = {r \in t.refs : r[2] # q}
  <1>1. t \in SyncEngine /\ t.refs \subseteq Keys \X Queries
    BY Fields DEF Account, Shape
  <1>2. PICK rest \in SUBSET (Keys \X Queries) : rest = {r \in t.refs : r[2] # q}
    BY <1>1
  <1>3. PICK u \in SyncEngine :
            /\ u = WithRefs(t, rest) /\ u.refs = rest
            /\ u.queue = t.queue /\ u.active = t.active /\ u.received = t.received
    BY <1>1, Remade
  <1>4. PICK keys \in SUBSET Keys : keys = {r[1] : r \in {x \in t.refs : x[2] = q}}
    <2>1. {r[1] : r \in {x \in t.refs : x[2] = q}} \in SUBSET Keys
      BY <1>1
    <2> QED  BY <2>1
  <1>5. PICK K \in SUBSET Keys : K = keys \ Referenced(u)
    OBVIOUS
  <1>6. RemoveAndCleanupTarget(t, q) = EndingLoop(u, K)[K]
    BY <1>2, <1>3, <1>4, <1>5, CleanupIsLoop
  <1>7. Account(u, K, refused)
    <2>1. Shape(u) /\ Busy(u) /\ Lookups(u) = Lookups(t)
      BY <1>3 DEF Account, Shape, Busy, Lookups
    <2>2. Referenced(u) \subseteq Referenced(t)
      BY <1>2, <1>3 DEF Referenced
    <2>3. Referenced(t) \subseteq Referenced(u) \cup keys
      BY <1>2, <1>3, <1>4 DEF Referenced
    <2>4. /\ Lookups(t) \subseteq Referenced(t)
          /\ Referenced(t) \subseteq Lookups(t) \cup refused
      BY DEF Account
    <2>5. Lookups(u) \subseteq Referenced(u) \cup K
      BY <1>5, <2>1, <2>3, <2>4
    <2>6. Referenced(u) \subseteq Lookups(u) \cup refused
      BY <2>1, <2>2, <2>4
    <2> QED  BY <2>1, <2>5, <2>6 DEF Account
  <1>8. K \cap Referenced(u) = {}
    BY <1>5
  <1>9. PICK e : e = EndingLoop(u, K)[K]
    OBVIOUS
  <1>10. Account(e, {}, refused) /\ e.refs = rest
    BY <1>3, <1>7, <1>8, <1>9, EndingKeeps
  <1> QED  BY <1>2, <1>6, <1>9, <1>10

-----------------------------------------------------------------------------
(* The inductive invariant.                                                *)

LimboInv ==
    /\ TypeOK
    /\ sync.refs = LimboRefs(views)
    /\ Account(sync, {}, unasked)

(* What a view is after View::UpdateLimboDocuments().                      *)
LEMMA ViewUpdated ==
    ASSUME NEW v \in View, NEW d \in SUBSET Keys
    PROVE  UpdateLimboDocuments(v, d) \in View
  BY DEF UpdateLimboDocuments, View

(* EmitNewSnapshotsAndNotifyLocalStore() gives an account of the new views.    *)
LEMMA EmitKeeps ==
    ASSUME NEW vs \in Views, NEW d \in SUBSET Keys, NEW s, NEW refused \in SUBSET Keys,
           Account(s, {}, refused), s.refs = LimboRefs(vs),
           EmitNewSnapshots(vs, d, s, refused)
    PROVE  LimboInv'
  <1>1. PICK ws : ws = [q \in Queries |->
                    IF vs[q] = NoView THEN NoView ELSE UpdateLimboDocuments(vs[q], d)]
    OBVIOUS
  <1>2. /\ views' = ws /\ docs' = d /\ sync' = ReportLoop(s, vs, ws)[Queries]
        /\ unasked' = refused \cap Referenced(sync')
    BY <1>1 DEF EmitNewSnapshots, FoldSet, MapThenFoldSet, Pick, ReportLoop, Report
  <1>3. \A q \in Queries : vs[q] = NoView \/ vs[q] \in View
    BY DEF Views
  <1>4. ws \in Views
    BY <1>1, <1>3, ViewUpdated DEF Views
  <1>5. ASSUME NEW q \in Queries PROVE vs[q] = NoView <=> ws[q] = NoView
    <2>1. CASE vs[q] = NoView
      BY <1>1, <2>1
    <2>2. CASE vs[q] # NoView
      <3>1. ws[q] \in View
        BY <1>1, <1>3, <2>2, ViewUpdated
      <3> QED  BY <2>2, <3>1, AbsenceAssumption
    <2> QED  BY <2>1, <2>2
  <1>6. PICK u : u = ReportLoop(s, vs, ws)[Queries]
    OBVIOUS
  <1>7. Account(u, {}, refused) /\ u.refs = LimboRefs(ws)
    BY <1>4, <1>5, <1>6, ReportsKeep
  <1>8. Account(u, {}, refused \cap Referenced(u))
    BY <1>7 DEF Account
  <1>9. sync' = u /\ views' = ws /\ docs' = d /\ unasked' = refused \cap Referenced(u)
    BY <1>2, <1>6
  <1>10. TypeOK'
    <2>1. u \in SyncEngine /\ u.received \subseteq u.active
      BY <1>7 DEF Account, Shape
    <2> QED  BY <1>4, <1>9, <2>1 DEF TypeOK, Views
  <1> QED  BY <1>7, <1>8, <1>9, <1>10 DEF LimboInv

(* The first state.                                                        *)
LEMMA LimboInit == Init => LimboInv
  <1> SUFFICES ASSUME Init PROVE LimboInv
    OBVIOUS
  <1>1. PICK t : t = sync /\ t = [refs |-> {}, queue |-> <<>>, active |-> {}, received |-> {}]
    BY DEF Init
  <1>2. /\ t \in SyncEngine /\ t.refs = {} /\ t.queue = <<>> /\ t.active = {}
        /\ t.received = {}
    <2>1. <<>> \in Seq(Keys)
      OBVIOUS
    <2> QED  BY <1>1, <2>1 DEF SyncEngine
  <1>3. IsInjective(t.queue) /\ ToSet(t.queue) = {}
    BY <1>2 DEF IsInjective, ToSet
  <1>4. Cardinality(t.active) <= MaxConcurrent
    BY <1>2, FS_EmptySet, LimboAssumption
  <1>5. Lookups(t) = {} /\ Referenced(t) = {} /\ Shape(t) /\ Busy(t)
    BY <1>2, <1>3, <1>4 DEF Lookups, Referenced, Shape, Busy
  <1>6. Account(t, {}, unasked)
    BY <1>5 DEF Account
  <1>7. LimboRefs(views) = {}
    BY DEF LimboRefs, Limbo, Init
  <1>8. TypeOK
    BY <1>1, <1>2 DEF TypeOK, Init
  <1> QED  BY <1>1, <1>2, <1>6, <1>7, <1>8 DEF LimboInv

(* Views with the same keys in limbo have the same references.             *)
LEMMA SameLimbo ==
    ASSUME NEW vs \in Views, NEW ws \in Views,
           \A q \in Queries : Limbo(vs[q]) = Limbo(ws[q])
    PROVE  LimboRefs(vs) = LimboRefs(ws)
  BY DEF LimboRefs

(* Every step keeps the invariant.                                         *)
LEMMA LimboStep == LimboInv /\ [Next]_vars => LimboInv'
  <1> SUFFICES ASSUME LimboInv, [Next]_vars PROVE LimboInv'
    OBVIOUS
  <1>1. /\ views \in Views /\ docs \in SUBSET Keys /\ unasked \in SUBSET Keys
        /\ sync.refs = LimboRefs(views) /\ Account(sync, {}, unasked)
        /\ sync \in SyncEngine
    BY DEF LimboInv, TypeOK, Views
  <1>2. /\ sync.active \in SUBSET Keys /\ sync.received \in SUBSET Keys
        /\ sync.received \subseteq sync.active
    BY <1>1, Fields DEF LimboInv, TypeOK
  <1>3. ASSUME NEW q \in Queries, NEW stored \in SUBSET Keys, Listen(q, stored)
        PROVE  LimboInv'
    <2>1. PICK ws : ws = [views EXCEPT ![q] = [current |-> FALSE, synced |-> stored,
                                              limbo |-> {}]]
      OBVIOUS
    <2>2. ws \in Views
      BY <1>1, <2>1 DEF Views, View
    <2>3. \A x \in Queries : Limbo(views[x]) = Limbo(ws[x])
      BY <1>1, <1>3, <2>1 DEF Views, Listen, Limbo
    <2>4. LimboRefs(views) = LimboRefs(ws)
      BY <1>1, <2>2, <2>3, SameLimbo
    <2>5. views' = ws /\ docs' = docs /\ sync' = sync /\ unasked' = unasked
      BY <1>3, <2>1 DEF Listen
    <2> QED  BY <1>1, <1>2, <2>2, <2>4, <2>5 DEF LimboInv, TypeOK, Views
  <1>4. ASSUME NEW q \in Queries, StopListening(q) PROVE LimboInv'
    <2>1. PICK u : u = RemoveAndCleanupTarget(sync, q)
      OBVIOUS
    <2>2. Account(u, {}, unasked) /\ u.refs = {r \in sync.refs : r[2] # q}
      BY <1>1, <2>1, CleanupKeeps
    <2>3. PICK ws : ws = [views EXCEPT ![q] = NoView]
      OBVIOUS
    <2>4. ws \in Views
      BY <1>1, <2>3 DEF Views
    <2>5. /\ views' = ws /\ docs' = docs /\ sync' = u
          /\ unasked' = unasked \cap Referenced(u)
      BY <1>4, <2>1, <2>3 DEF StopListening
    <2>6. Account(u, {}, unasked \cap Referenced(u))
      BY <2>2 DEF Account
    <2>7. u.refs = LimboRefs(ws)
      <3>1. Limbo(ws[q]) = {} /\ \A x \in Queries : x # q => ws[x] = views[x]
        BY <1>1, <2>3 DEF Views, Limbo
      <3>2. \A r \in Keys \X Queries : r \in u.refs <=> r \in LimboRefs(ws)
        BY <1>1, <2>2, <3>1 DEF LimboRefs
      <3>3. u.refs \subseteq Keys \X Queries /\ LimboRefs(ws) \subseteq Keys \X Queries
        BY <1>1, <2>2 DEF LimboRefs
      <3> QED  BY <3>2, <3>3
    <2>8. u \in SyncEngine /\ u.received \subseteq u.active
      BY <2>2 DEF Account, Shape
    <2> QED  BY <1>1, <2>4, <2>5, <2>6, <2>7, <2>8 DEF LimboInv, TypeOK, Views
  <1>5. ASSUME NEW q \in Queries, NEW synced \in SUBSET Keys, NEW d \in SUBSET Keys,
               NEW current \in BOOLEAN, RemoteEvent(q, synced, current, d)
        PROVE  LimboInv'
    <2>1. PICK ws : ws = [views EXCEPT ![q].synced = synced, ![q].current = current]
      OBVIOUS
    <2>2. views[q] # NoView /\ views[q] \in View
      BY <1>1, <1>5 DEF RemoteEvent, Views
    <2>3. /\ ws = [views EXCEPT ![q] = ws[q]]
          /\ ws[q] = [views[q] EXCEPT !.synced = synced, !.current = current]
      BY <1>1, <2>1 DEF Views
    <2>4. ws[q] \in View /\ ws[q].limbo = views[q].limbo
      BY <2>2, <2>3 DEF View
    <2>5. ws \in Views /\ \A x \in Queries : x # q => ws[x] = views[x]
      BY <1>1, <2>3, <2>4 DEF Views
    <2>6. ws[q] # NoView
      BY <2>4, AbsenceAssumption
    <2>7. \A x \in Queries : Limbo(views[x]) = Limbo(ws[x])
      BY <2>2, <2>4, <2>5, <2>6 DEF Limbo
    <2>8. sync.refs = LimboRefs(ws)
      BY <1>1, <2>5, <2>7, SameLimbo
    <2>9. EmitNewSnapshots(ws, d, sync, unasked)
      BY <1>5, <2>1 DEF RemoteEvent
    <2> QED  BY <1>1, <2>5, <2>8, <2>9, EmitKeeps
  <1>6. ASSUME NEW k \in Keys, WriteAcknowledged(k) PROVE LimboInv'
    <2>1. EmitNewSnapshots(views, docs \cup {k}, sync, unasked)
      BY <1>6 DEF WriteAcknowledged
    <2>2. docs \cup {k} \in SUBSET Keys
      BY <1>1
    <2> QED  BY <1>1, <2>1, <2>2, EmitKeeps
  <1>7. ASSUME NEW x \in SUBSET Keys, x \subseteq sync.active
        PROVE  /\ Account(WithReceived(sync, x), {}, unasked)
               /\ WithReceived(sync, x).refs = LimboRefs(views)
    <2>1. PICK u \in SyncEngine :
            /\ u = WithReceived(sync, x) /\ u.refs = sync.refs /\ u.queue = sync.queue
            /\ u.active = sync.active /\ u.received = x
      BY <1>1, Remade
    <2>2. Shape(u) /\ Busy(u) /\ Lookups(u) = Lookups(sync)
      BY <1>1, <1>7, <2>1 DEF Account, Shape, Busy, Lookups
    <2>3. Referenced(u) = Referenced(sync)
      BY <2>1 DEF Referenced
    <2> QED  BY <1>1, <2>1, <2>2, <2>3 DEF Account
  <1>8. ASSUME NEW k \in Keys, LookupFound(k) PROVE LimboInv'
    <2>1. PICK x \in SUBSET Keys : x = sync.received \cup {k} /\ x \subseteq sync.active
      BY <1>2, <1>8 DEF LookupFound
    <2>2. EmitNewSnapshots(views, docs \cup {k}, WithReceived(sync, x), unasked)
      BY <1>8, <2>1 DEF LookupFound, WithReceived
    <2>3. docs \cup {k} \in SUBSET Keys
      BY <1>1
    <2> QED  BY <1>1, <1>7, <2>1, <2>2, <2>3, EmitKeeps
  <1>9. ASSUME NEW k \in Keys, LookupGone(k) PROVE LimboInv'
    <2>1. PICK x \in SUBSET Keys : x = sync.received \ {k} /\ x \subseteq sync.active
      BY <1>2
    <2>2. EmitNewSnapshots(views, docs \ {k}, WithReceived(sync, x), unasked)
      BY <1>9, <2>1 DEF LookupGone, WithReceived
    <2>3. docs \ {k} \in SUBSET Keys
      BY <1>1
    <2> QED  BY <1>1, <1>7, <2>1, <2>2, <2>3, EmitKeeps
  <1>10. ASSUME NEW k \in Keys, LookupRejected(k) PROVE LimboInv'
    <2>1. PICK a, r \in SUBSET Keys : a = sync.active \ {k} /\ r = sync.received \ {k}
      BY <1>2
    <2>2. PICK u \in SyncEngine :
            /\ u = WithActive(sync, a, r) /\ u.refs = sync.refs /\ u.queue = sync.queue
            /\ u.active = a /\ u.received = r
      BY <1>1, Remade
    <2>3. Shape(u)
      <3>1. IsFiniteSet(sync.active) /\ Cardinality(sync.active) \in Nat
            /\ Cardinality(sync.active) <= MaxConcurrent /\ MaxConcurrent \in Nat
        BY <1>1, Fields, LimboAssumption DEF Account, Shape
      <3>2. Cardinality(a) <= Cardinality(sync.active) /\ Cardinality(a) \in Nat
        BY <2>1, <3>1, FS_Subset, FS_CardinalityType
      <3>3. Cardinality(u.active) <= MaxConcurrent
        BY <2>2, <3>1, <3>2
      <3> QED  BY <1>1, <2>1, <2>2, <3>3 DEF Account, Shape
    <2>4. PICK p : p = Pump(u)
      OBVIOUS
    <2>5. Shape(p) /\ Busy(p) /\ Lookups(p) = Lookups(u) /\ p.refs = sync.refs
      BY <2>2, <2>3, <2>4, PumpKeeps
    <2>6. Lookups(u) \subseteq Lookups(sync) /\ Lookups(sync) \subseteq Lookups(u) \cup {k}
      BY <2>1, <2>2 DEF Lookups
    <2>7. Referenced(p) = Referenced(sync)
      BY <2>5 DEF Referenced
    <2>8. Account(p, {}, unasked \cup {k})
      BY <1>1, <2>5, <2>6, <2>7 DEF Account
    <2>9. EmitNewSnapshots(views, docs \ {k}, p, unasked \cup {k})
      BY <1>10, <2>1, <2>2, <2>4 DEF LookupRejected, WithActive
    <2>10. docs \ {k} \in SUBSET Keys /\ unasked \cup {k} \in SUBSET Keys
      BY <1>1
    <2> QED  BY <1>1, <2>5, <2>8, <2>9, <2>10, EmitKeeps
  <1>11. CASE GoOffline
    <2>1. PICK ws : ws = [q \in Queries |-> IF views[q] = NoView THEN NoView
                                           ELSE [views[q] EXCEPT !.current = FALSE]]
      OBVIOUS
    <2>2. ASSUME NEW q \in Queries
          PROVE  ws[q] \in View \cup {NoView} /\ Limbo(views[q]) = Limbo(ws[q])
      <3>1. CASE views[q] = NoView
        BY <2>1, <3>1
      <3>2. CASE views[q] # NoView
        <4>1. views[q] \in View
          BY <1>1, <3>2 DEF Views
        <4>2. ws[q] = [views[q] EXCEPT !.current = FALSE]
          BY <2>1, <3>2
        <4>3. ws[q] \in View /\ ws[q].limbo = views[q].limbo
          BY <4>1, <4>2 DEF View
        <4>4. ws[q] # NoView
          BY <4>3, AbsenceAssumption
        <4> QED  BY <3>2, <4>3, <4>4 DEF Limbo
      <3> QED  BY <3>1, <3>2
    <2>3. ws \in Views
      BY <2>1, <2>2 DEF Views
    <2>4. LimboRefs(views) = LimboRefs(ws)
      BY <1>1, <2>2, <2>3, SameLimbo
    <2>5. views' = ws /\ docs' = docs /\ sync' = sync /\ unasked' = unasked
      BY <1>11, <2>1 DEF GoOffline
    <2> QED  BY <1>1, <1>2, <2>3, <2>4, <2>5 DEF LimboInv, TypeOK, Views
  <1>12. CASE UNCHANGED vars
    BY <1>12 DEF vars, LimboInv, TypeOK
  <1> QED  BY <1>3, <1>4, <1>5, <1>6, <1>8, <1>9, <1>10, <1>11, <1>12 DEF Next

(* What is looked up is what is in limbo, for every set of queries and        *)
(* documents and every number of slots.                                    *)
THEOREM LimboIsTracked == Spec => []LimboTracked
  <1>1. LimboInv => LimboTracked
    <2> SUFFICES ASSUME LimboInv PROVE LimboTracked
      OBVIOUS
    <2>1. RefsAreLimbo
      BY DEF LimboInv, RefsAreLimbo, LimboRefs, Limbo
    <2>2. LookupsAreNeeded
      BY DEF LimboInv, Account, Shape, Lookups, LookupsAreNeeded
    <2> QED  BY <2>1, <2>2 DEF LimboInv, LimboTracked
  <1> QED  BY LimboInit, LimboStep, <1>1, PTL DEF Spec

(* PumpEnqueuedLimboResolutions() never starts too many lookups and leaves no  *)
(* slot free while a document waits, for every number of slots.            *)
THEOREM SlotsAreUsed == Spec => []SlotsUsed
  <1>1. LimboInv => SlotsUsed
    BY DEF LimboInv, Account, Shape, Busy, SlotsUsed
  <1> QED  BY LimboInit, LimboStep, <1>1, PTL DEF Spec
=============================================================================
