--------------------------- MODULE Storage_proofs ---------------------------
(***************************************************************************)
(* Proofs about StorageChunk and Storage, for any materials, spellings and *)
(* widths, any processes and blocks, and any number of blocks in a chunk.  *)
(*                                                                         *)
(*   1. Strings of bits: a number written in enough bits is read again     *)
(*      (ValueOfBits), and strings laid one after another each stand in    *)
(*      their place (ChainStands, RecordLaid, LaidRead).                   *)
(*   2. Registries: names are added at the end, once (KnownAll), and a     *)
(*      name is found at its index (IndexFound).                           *)
(*   3. Holds: the records of a chunk are those of certain blocks, their   *)
(*      materials named by a registry. pack and add establish and keep it  *)
(*      (Packs, Adds), unpack gives back the blocks (Kept), a registry     *)
(*      that grows keeps it (HoldsExtends), and so does the way from       *)
(*      serialize to deserialize (Arrives).                                *)
(*   4. The invariant of Storage: unless an index may have the wrong name, *)
(*      the chunk holds the blocks that were put into it.                  *)
(*                                                                         *)
(* Recursive functions and folds are reached by Induction over a set of    *)
(* numbers, Recursion and Folding: a function that follows the equation    *)
(* exists, hence the one that CHOOSE picks follows it too.                 *)
(***************************************************************************)
EXTENDS Storage, SequenceTheorems, FiniteSetTheorems, WellFoundedInduction, TLAPS

(***************************************************************************)
(* Recursion over numbers and folds, and the strings of bits made with them. *)
(***************************************************************************)
(* A set of numbers with 0 and each next number has all of them.            *)
LEMMA Induction ==
  ASSUME NEW S, 0 \in S, \A n \in Nat : n \in S => n + 1 \in S
  PROVE  \A n \in Nat : n \in S
<1> DEFINE T == {n \in Nat : n \notin S}
<1>1. SUFFICES ASSUME T # {} PROVE FALSE
  OBVIOUS
<1>2. PICK x \in T : \A y \in T : ~(<<y, x>> \in OpToRel(<, Nat))
  BY <1>1, NatLessThanWellFounded, WFMin
<1>3. x \in Nat /\ x \notin S /\ \A y \in T : ~(y < x)
  BY <1>2 DEF OpToRel
<1>4. x # 0
  BY <1>3
<1>5. x - 1 \in Nat /\ x - 1 < x
  BY <1>3, <1>4
<1>6. x - 1 \in S
  BY <1>3, <1>5
<1>7. QED
  BY <1>3, <1>5, <1>6

(* What follows step by step from a start, has a value at every place.      *)
IsRecursion(g, n, start, step) == g[0] = start /\ \A i \in 1..n : g[i] = step[i][g[i-1]]

LEMMA Recursion ==
  ASSUME NEW T, NEW start \in T, NEW n \in Nat, NEW step \in [1..n -> [T -> T]]
  PROVE  \E g \in [0..n -> T] : IsRecursion(g, n, start, step)
<1> DEFINE Upto(m) == \E g \in [0..m -> T] : g[0] = start /\ \A i \in 1..m : g[i] = step[i][g[i-1]]
           S == {m \in Nat : m <= n => Upto(m)}
<1>1. 0 \in S
  <2> DEFINE g == [i \in 0..0 |-> start]
  <2>1. g \in [0..0 -> T] /\ g[0] = start
    OBVIOUS
  <2>2. \A i \in 1..0 : g[i] = step[i][g[i-1]]
    OBVIOUS
  <2> HIDE DEF g
  <2>3. Upto(0)
    BY <2>1, <2>2
  <2>4. QED
    BY <2>3
<1>2. ASSUME NEW m \in Nat, m \in S PROVE m + 1 \in S
  <2>1. SUFFICES ASSUME m + 1 <= n PROVE Upto(m + 1)
    OBVIOUS
  <2>2. PICK g \in [0..m -> T] : g[0] = start /\ \A i \in 1..m : g[i] = step[i][g[i-1]]
    BY <1>2, <2>1
  <2> DEFINE h == [i \in 0..m+1 |-> IF i = m + 1 THEN step[m + 1][g[m]] ELSE g[i]]
  <2>3. step[m + 1][g[m]] \in T
    BY <2>1
  <2>4. h \in [0..m+1 -> T]
    BY <2>3
  <2>5. h[0] = start
    BY <2>2
  <2>6. ASSUME NEW i \in 1..m+1 PROVE h[i] = step[i][h[i-1]]
    <3>1. CASE i = m + 1
      BY <3>1
    <3>2. CASE i # m + 1
      BY <3>2, <2>2
    <3>3. QED BY <3>1, <3>2
  <2>7. QED
    BY <2>4, <2>5, <2>6
<1> HIDE DEF Upto, S
<1>3. n \in S
  BY <1>1, <1>2, Induction
<1>4. QED
  BY <1>3 DEF S, Upto, IsRecursion

(* The same along the subsets of 1..n, each from that without its greatest. *)
IsFold(g, n, start, step) ==
  \A s \in SUBSET (1..n) :
    g[s] = IF s = {} THEN start ELSE step[Max(s)][g[s \ {Max(s)}]]

LEMMA Folding ==
  ASSUME NEW T, NEW start \in T, NEW n \in Nat, NEW step \in [1..n -> [T -> T]]
  PROVE  \E g \in [SUBSET (1..n) -> T] : IsFold(g, n, start, step)
<1> DEFINE Rec(g, m) == \A s \in SUBSET (1..m) :
             g[s] = IF s = {} THEN start ELSE step[Max(s)][g[s \ {Max(s)}]]
           Upto(m) == \E g \in [SUBSET (1..m) -> T] : Rec(g, m)
           S == {m \in Nat : m <= n => Upto(m)}
<1>1. 0 \in S
  <2> DEFINE g == [s \in SUBSET (1..0) |-> start]
  <2>1. g \in [SUBSET (1..0) -> T]
    OBVIOUS
  <2>2. \A s \in SUBSET (1..0) : s = {} /\ g[s] = start
    OBVIOUS
  <2> HIDE DEF g
  <2>3. Rec(g, 0)
    BY <2>2
  <2> HIDE DEF Rec
  <2>4. Upto(0)
    BY <2>1, <2>3
  <2>5. QED
    BY <2>4
<1>2. ASSUME NEW m \in Nat, m \in S PROVE m + 1 \in S
  <2> HIDE DEF Upto, Rec
  <2>1. SUFFICES ASSUME m + 1 <= n PROVE Upto(m + 1)
    OBVIOUS
  <2>a. Upto(m)
    BY <1>2, <2>1
  <2>2. PICK g \in [SUBSET (1..m) -> T] : Rec(g, m)
    BY <2>a, Zenon DEF Upto
  <2> USE DEF Upto, Rec
  <2> DEFINE h == [s \in SUBSET (1..m+1) |->
                     IF m + 1 \in s THEN step[m + 1][g[s \ {m + 1}]] ELSE g[s]]
  <2>3. ASSUME NEW s \in SUBSET (1..m+1), m + 1 \in s PROVE Max(s) = m + 1 /\ s \ {m+1} \in SUBSET (1..m)
    <3>1. \A x \in s : x \in Int /\ m + 1 >= x
      OBVIOUS
    <3>2. \A x \in s : (\A y \in s : x >= y) => x = m + 1
      BY <3>1, <2>3
    <3>3. Max(s) = m + 1
      BY <3>1, <3>2, <2>3 DEF Max
    <3>4. QED
      BY <3>3
  <2>4. ASSUME NEW s \in SUBSET (1..m+1), m + 1 \notin s PROVE s \in SUBSET (1..m)
    BY <2>4
  <2>5. h \in [SUBSET (1..m+1) -> T]
    <3>1. ASSUME NEW s \in SUBSET (1..m+1) PROVE h[s] \in T
      <4>1. CASE m + 1 \in s
        BY <4>1, <2>3, <2>1
      <4>2. CASE m + 1 \notin s
        BY <4>2, <2>4
      <4>3. QED BY <4>1, <4>2
    <3>2. QED BY <3>1
  <2>6. ASSUME NEW s \in SUBSET (1..m+1) PROVE h[s] = IF s = {} THEN start ELSE step[Max(s)][h[s \ {Max(s)}]]
    <3>1. CASE m + 1 \in s
      <4>1. h[s] = step[m + 1][g[s \ {m + 1}]]
        BY <3>1
      <4>2. h[s \ {m+1}] = g[s \ {m + 1}]
        BY <3>1, <2>3
      <4>3. QED
        BY <3>1, <4>1, <4>2, <2>3
    <3>2. CASE m + 1 \notin s
      <4>1. h[s] = g[s] /\ s \in SUBSET (1..m)
        BY <3>2, <2>4
      <4>2. CASE s = {}
        BY <4>1, <4>2, <2>2
      <4>3. CASE s # {}
        <5>1. s \ {Max(s)} \in SUBSET (1..m) /\ s \ {Max(s)} \in SUBSET (1..m+1)
          BY <4>1
        <5>2. h[s \ {Max(s)}] = g[s \ {Max(s)}]
          BY <5>1
        <5>3. QED
          BY <4>1, <4>3, <5>2, <2>2
      <4>4. QED BY <4>2, <4>3
    <3>3. QED BY <3>1, <3>2
  <2>7. QED
    BY <2>5, <2>6
<1> HIDE DEF Upto, S, Rec
<1>3. n \in S
  BY <1>1, <1>2, Induction
<1>a. Upto(n)
  BY <1>3 DEF S
<1>4. \E g \in [SUBSET (1..n) -> T] : Rec(g, n)
  BY <1>a, Zenon DEF Upto
<1>5. QED
  BY <1>4 DEF Rec, IsFold

(* What a fold over 1..n is: the chosen function follows its equation.      *)
LEMMA MaxOfRange ==
  ASSUME NEW n \in Nat
  PROVE  Max(1..n+1) = n + 1 /\ (1..n+1) \ {n+1} = 1..n /\ 1..n+1 # {}
<1>1. \A x \in 1..n+1 : (\A y \in 1..n+1 : x >= y) => x = n + 1
  OBVIOUS
<1>2. n + 1 \in 1..n+1 /\ \A y \in 1..n+1 : n + 1 >= y
  OBVIOUS
<1>3. Max(1..n+1) = n + 1
  BY <1>1, <1>2 DEF Max
<1>4. QED
  BY <1>3

LEMMA MaxIn ==
  ASSUME NEW n \in Nat, NEW q \in SUBSET (1..n), q # {}
  PROVE  Max(q) \in q
<1> DEFINE T == {n - x : x \in q}
<1>a. \A x \in q : x \in Int /\ n - x \in Nat
  OBVIOUS
<1>b. T # {}
  OBVIOUS
<1>1. T \in SUBSET Nat /\ T # {}
  BY <1>a, <1>b
<1> HIDE DEF T
<1>2. PICK d \in T : \A y \in T : ~(<<y, d>> \in OpToRel(<, Nat))
  BY <1>1, NatLessThanWellFounded, WFMin
<1>3. d \in Nat /\ \A y \in T : ~(y < d)
  BY <1>1, <1>2 DEF OpToRel
<1>4. PICK x \in q : d = n - x
  BY <1>2 DEF T
<1>5. \A y \in q : x >= y
  <2>1. ASSUME NEW y \in q PROVE x >= y
    <3>1. n - y \in T
      BY DEF T
    <3>2. QED
      BY <1>3, <1>4, <1>a, <3>1
  <2>2. QED BY <2>1
<1>6. QED
  BY <1>4, <1>5 DEF Max

LEMMA SumIs ==
  ASSUME NEW s \in Seq(Nat), NEW h \in [0..Len(s) -> Nat], h[0] = 0,
         \A i \in 1..Len(s) : h[i] = h[i-1] + s[i]
  PROVE  FoldLeft(+, 0, s) = h[Len(s)]
<1> DEFINE n == Len(s)
           iter[q \in SUBSET (DOMAIN s)] ==
             IF q = {} THEN 0 ELSE LET x == Max(q) IN iter[q \ {x}] + s[x]
<1>0. n \in Nat /\ DOMAIN s = 1..n /\ \A i \in 1..n : s[i] \in Nat
  OBVIOUS
<1>1. FoldLeft(+, 0, s) = iter[DOMAIN s]
  BY DEF FoldLeft, MapThenFoldSet
<1>2. iter = [q \in SUBSET (DOMAIN s) |->
                IF q = {} THEN 0 ELSE LET x == Max(q) IN iter[q \ {x}] + s[x]]
  <2> DEFINE step == [i \in 1..n |-> [v \in Nat |-> v + s[i]]]
  <2> HIDE DEF n
  <2>2. step \in [1..n -> [Nat -> Nat]]
    BY <1>0
  <2> HIDE DEF step
  <2>3. PICK g \in [SUBSET (1..n) -> Nat] : IsFold(g, n, 0, step)
    BY <1>0, <2>2, Folding
  <2>5. g = [q \in SUBSET (DOMAIN s) |->
                IF q = {} THEN 0 ELSE LET x == Max(q) IN g[q \ {x}] + s[x]]
    <3>1. ASSUME NEW q \in SUBSET (1..n), q # {} PROVE g[q] = g[q \ {Max(q)}] + s[Max(q)]
      <4>1. Max(q) \in 1..n /\ q \ {Max(q)} \in SUBSET (1..n)
        BY <3>1, <1>0, MaxIn
      <4>2. QED
        BY <3>1, <2>3, <4>1 DEF step, IsFold
    <3>2. QED BY <3>1, <2>3, <1>0 DEF IsFold
  <2>6. QED
    BY <2>5
<1> HIDE DEF iter
<1>a. \A q \in SUBSET (DOMAIN s) :
        iter[q] = IF q = {} THEN 0 ELSE iter[q \ {Max(q)}] + s[Max(q)]
  <2> DEFINE f == [q \in SUBSET (DOMAIN s) |->
                IF q = {} THEN 0 ELSE LET x == Max(q) IN iter[q \ {x}] + s[x]]
  <2>1. \A q \in SUBSET (DOMAIN s) :
        f[q] = IF q = {} THEN 0 ELSE iter[q \ {Max(q)}] + s[Max(q)]
    OBVIOUS
  <2>2. iter = f
    BY <1>2
  <2> HIDE DEF f
  <2>3. QED
    BY <2>1, <2>2
<1> DEFINE S == {k \in Nat : k <= n => iter[1..k] = h[k]}
<1>3. 0 \in S
  <2>1. iter[{}] = 0
    BY <1>a
  <2>2. 1..0 = {}
    OBVIOUS
  <2>3. QED
    BY <2>1, <2>2
<1>4. ASSUME NEW k \in Nat, k \in S PROVE k + 1 \in S
  <2>1. SUFFICES ASSUME k + 1 <= n PROVE iter[1..k+1] = h[k+1]
    OBVIOUS
  <2>2. iter[1..k+1] = iter[1..k] + s[k+1]
    <3>1. 1..k+1 \in SUBSET (DOMAIN s)
      BY <1>0, <2>1
    <3>2. iter[1..k+1] = iter[(1..k+1) \ {Max(1..k+1)}] + s[Max(1..k+1)]
      BY <1>a, <3>1, MaxOfRange
    <3>3. QED
      BY <3>2, MaxOfRange
  <2>3. QED
    BY <1>4, <2>1, <2>2
<1> HIDE DEF S
<1>5. n \in S
  BY <1>0, <1>3, <1>4, Induction
<1>6. QED
  <2>1. iter[1..n] = h[n]
    BY <1>0, <1>5 DEF S
  <2>2. QED
    BY <1>0, <1>1, <2>1

-----------------------------------------------------------------------------
(* 2^n is the number of subsets of n things, which doubles with each.       *)
LEMMA RangeCount ==
  ASSUME NEW n \in Nat
  PROVE  IsFiniteSet(1..n) /\ Cardinality(1..n) = n
  BY FS_Interval

(* Half of the subsets of 1..n+1 are without n+1.                            *)
LEMMA SubsetsDouble ==
  ASSUME NEW n \in Nat
  PROVE  Cardinality(SUBSET (1..n+1)) = 2 * Cardinality(SUBSET (1..n))
<1> DEFINE A == SUBSET (1..n)
           B == {s \cup {n + 1} : s \in A}
           f == [s \in A |-> s \cup {n + 1}]
<1>1. IsFiniteSet(A) /\ Cardinality(A) \in Nat
  BY RangeCount, FS_SUBSET, FS_CardinalityType
<1>2. n + 1 \notin 1..n
  OBVIOUS
<1>3. \A s, t \in A : s \cup {n + 1} = t \cup {n + 1} => s = t
  BY <1>2
<1>4. f \in Bijection(A, B)
  <2>1. f \in [A -> B] /\ DOMAIN f = A /\ \A s \in A : f[s] = s \cup {n + 1}
    OBVIOUS
  <2>2. \A t \in B : \E s \in A : f[s] = t
    BY <2>1
  <2>3. \A s, t \in A : f[s] = f[t] => s = t
    BY <1>3, <2>1
  <2> HIDE DEF A, B, f
  <2>4. QED
    BY <2>1, <2>2, <2>3, Zenon DEF Bijection, Injection, Surjection, IsInjective
<1>a. ExistsBijection(A, B)
  BY <1>4 DEF ExistsBijection
<1> HIDE DEF f
<1>5. IsFiniteSet(B) /\ Cardinality(B) = Cardinality(A)
  <2> HIDE DEF A, B
  <2>1. QED
    BY <1>1, <1>a, FS_Bijection
<1>6. A \cap B = {}
  BY <1>2
<1>7. SUBSET (1..n+1) = A \cup B
  <2>1. 1..n+1 = (1..n) \cup {n + 1}
    OBVIOUS
  <2>2. ASSUME NEW s \in SUBSET (1..n+1) PROVE s \in A \cup B
    <3>1. CASE n + 1 \in s
      <4>1. s \ {n + 1} \in A /\ s = (s \ {n + 1}) \cup {n + 1}
        BY <2>1, <3>1
      <4>2. QED
        BY <4>1
    <3>2. CASE n + 1 \notin s
      BY <2>1, <3>2
    <3>3. QED
      BY <3>1, <3>2
  <2>3. A \cup B \subseteq SUBSET (1..n+1)
    BY <2>1
  <2>4. QED
    BY <2>2, <2>3
<1> HIDE DEF A, B
<1>8. Cardinality(A \cap B) = 0
  BY <1>6, FS_EmptySet
<1>9. Cardinality(A \cup B) = Cardinality(A) + Cardinality(B) - Cardinality(A \cap B)
  BY <1>1, <1>5, FS_Union
<1>10. Cardinality(A \cup B) = 2 * Cardinality(A)
  BY <1>1, <1>5, <1>8, <1>9
<1>11. QED
  BY <1>7, <1>10 DEF A

LEMMA PowerIs ==
  ASSUME NEW n \in Nat
  PROVE  2^n = Cardinality(SUBSET (1..n)) /\ 2^n \in Nat
<1>1. IsFiniteSet(1..n) /\ Cardinality(1..n) = n
  BY RangeCount
<1>2. IsFiniteSet(SUBSET (1..n)) /\ Cardinality(SUBSET (1..n)) = 2^Cardinality(1..n)
  BY <1>1, FS_SUBSET
<1>3. Cardinality(SUBSET (1..n)) \in Nat
  BY <1>2, FS_CardinalityType
<1>4. 2^Cardinality(1..n) = 2^n
  BY <1>1, Zenon
<1>5. Cardinality(SUBSET (1..n)) = 2^n
  BY <1>2, <1>4, Zenon
<1>6. 2^n \in Nat
  BY <1>3, <1>5, Zenon
<1>7. QED
  BY <1>5, <1>6, Zenon

LEMMA PowerOfTwo ==
  /\ 2^0 = 1
  /\ \A n \in Nat : 2^(n + 1) = 2 * 2^n /\ 2^n \in Nat \ {0}
<1>1. 2^0 = 1
  <2>1. SUBSET (1..0) = {{}}
    OBVIOUS
  <2>2. Cardinality({{}}) = 1
    BY FS_Singleton
  <2>3. QED
    BY <2>1, <2>2, PowerIs
<1>2. ASSUME NEW n \in Nat PROVE 2^(n + 1) = 2 * 2^n
  <2>1. n + 1 \in Nat
    OBVIOUS
  <2>2. QED
    BY <2>1, PowerIs, SubsetsDouble
<1>3. ASSUME NEW n \in Nat PROVE 2^n # 0
  <2>1. IsFiniteSet(SUBSET (1..n)) /\ SUBSET (1..n) # {}
    BY RangeCount, FS_SUBSET
  <2>2. Cardinality(SUBSET (1..n)) # 0
    BY <2>1, FS_EmptySet
  <2>3. QED
    BY <2>2, PowerIs
<1>4. QED
  BY <1>1, <1>2, <1>3, PowerIs

LEMMA PowerGrows ==
  ASSUME NEW m \in Nat, NEW n \in Nat, m <= n
  PROVE  2^m <= 2^n
<1> DEFINE S == {d \in Nat : 2^m <= 2^(m + d)}
<1>1. 0 \in S
  BY PowerOfTwo
<1>2. ASSUME NEW d \in Nat, d \in S PROVE d + 1 \in S
  <2>1. m + d \in Nat /\ m + (d + 1) = (m + d) + 1
    OBVIOUS
  <2>2. 2^(m + (d + 1)) = 2 * 2^(m + d) /\ 2^(m + d) \in Nat
    BY <2>1, PowerOfTwo
  <2>3. 2^m \in Nat
    BY PowerOfTwo
  <2>4. QED
    BY <1>2, <2>2, <2>3
<1> HIDE DEF S
<1>3. n - m \in S
  BY <1>1, <1>2, Induction
<1>4. QED
  BY <1>3 DEF S
-----------------------------------------------------------------------------
Bit == {0, 1}
IsSum(h, s) == h[0] = 0 /\ \A i \in 1..Len(s) : h[i] = h[i - 1] + s[i] * 2^(i - 1)

LEMMA WeightExists ==
  ASSUME NEW s \in Seq(Bit)
  PROVE  \E h \in [0..Len(s) -> Nat] : IsSum(h, s)
<1> DEFINE n == Len(s)
           step == [i \in 1..n |-> [v \in Nat |-> v + s[i] * 2^(i - 1)]]
<1>1. n \in Nat /\ \A i \in 1..n : s[i] \in Bit /\ i - 1 \in Nat
  OBVIOUS
<1>2. \A i \in 1..n : s[i] * 2^(i - 1) \in Nat
  <2>1. ASSUME NEW i \in 1..n PROVE s[i] * 2^(i - 1) \in Nat
    <3>1. 2^(i - 1) \in Nat
      BY <1>1, PowerOfTwo
    <3>2. s[i] = 0 \/ s[i] = 1
      BY <1>1 DEF Bit
    <3>3. QED
      BY <3>1, <3>2
  <2>2. QED BY <2>1
<1> HIDE DEF n
<1>3. step \in [1..n -> [Nat -> Nat]]
  BY <1>2
<1>4. \A i \in 1..n, v \in Nat : step[i][v] = v + s[i] * 2^(i - 1)
  OBVIOUS
<1> HIDE DEF step
<1>5. PICK h \in [0..n -> Nat] : IsRecursion(h, n, 0, step)
  BY <1>1, <1>3, Recursion
<1>6. ASSUME NEW i \in 1..n PROVE h[i] = h[i - 1] + s[i] * 2^(i - 1)
  <2>1. i - 1 \in 0..n /\ h[i-1] \in Nat
    BY <1>1
  <2>2. QED
    BY <2>1, <1>4, <1>5 DEF IsRecursion
<1>7. QED
  BY <1>5, <1>6 DEF IsSum, IsRecursion, n

LEMMA ValueIs ==
  ASSUME NEW s \in Seq(Bit), NEW h \in [0..Len(s) -> Nat], IsSum(h, s)
  PROVE  ValueOf(s) = h[Len(s)]
<1> DEFINE n == Len(s)
           upTo[i \in 0..n] == IF i = 0 THEN 0 ELSE upTo[i - 1] + s[i] * 2^(i - 1)
<1>0. n \in Nat
  OBVIOUS
<1>1. ValueOf(s) = upTo[n]
  BY DEF ValueOf
<1>2. upTo = [i \in 0..n |-> IF i = 0 THEN 0 ELSE upTo[i - 1] + s[i] * 2^(i - 1)]
  <2>1. ASSUME NEW i \in 0..n PROVE h[i] = IF i = 0 THEN 0 ELSE h[i - 1] + s[i] * 2^(i - 1)
    <3>1. CASE i = 0
      BY <3>1 DEF IsSum
    <3>2. CASE i # 0
      <4>1. i \in 1..n
        BY <1>0, <3>2
      <4>2. QED
        BY <3>2, <4>1 DEF IsSum
    <3>3. QED BY <3>1, <3>2
  <2>2. h = [i \in 0..n |-> IF i = 0 THEN 0 ELSE h[i - 1] + s[i] * 2^(i - 1)]
    BY <2>1
  <2>3. QED
    BY <2>2
<1> HIDE DEF upTo
<1>a. \A i \in 0..n : upTo[i] = IF i = 0 THEN 0 ELSE upTo[i - 1] + s[i] * 2^(i - 1)
  <2> DEFINE f == [i \in 0..n |-> IF i = 0 THEN 0 ELSE upTo[i - 1] + s[i] * 2^(i - 1)]
  <2>1. \A i \in 0..n : f[i] = IF i = 0 THEN 0 ELSE upTo[i - 1] + s[i] * 2^(i - 1)
    OBVIOUS
  <2>2. upTo = f
    BY <1>2
  <2> HIDE DEF f
  <2>3. QED
    BY <2>1, <2>2
<1> HIDE DEF n
<1> DEFINE S == {k \in Nat : k <= n => upTo[k] = h[k]}
<1>3. 0 \in S
  BY <1>0, <1>a DEF IsSum
<1>4. ASSUME NEW k \in Nat, k \in S PROVE k + 1 \in S
  <2>1. SUFFICES ASSUME k + 1 <= n PROVE upTo[k+1] = h[k+1]
    OBVIOUS
  <2>2. k + 1 \in 0..n /\ k + 1 # 0 /\ k + 1 - 1 = k /\ k + 1 \in 1..n
    BY <1>0, <2>1
  <2>3. upTo[k+1] = upTo[k] + s[k+1] * 2^k
    BY <1>a, <2>2
  <2>4. h[k+1] = h[k] + s[k+1] * 2^k
    BY <2>2 DEF IsSum, n
  <2>5. upTo[k] = h[k]
    BY <1>0, <1>4, <2>1
  <2>6. QED
    BY <2>3, <2>4, <2>5
<1> HIDE DEF S
<1>5. n \in S
  BY <1>0, <1>3, <1>4, Induction
<1>6. upTo[n] = h[n]
  BY <1>0, <1>5 DEF S
<1>7. QED
  BY <1>1, <1>6 DEF n

LEMMA ValueNat ==
  ASSUME NEW s \in Seq(Bit)
  PROVE  ValueOf(s) \in Nat
<1>1. PICK h \in [0..Len(s) -> Nat] : IsSum(h, s)
  BY WeightExists
<1>2. Len(s) \in 0..Len(s)
  OBVIOUS
<1>3. QED
  BY <1>1, <1>2, ValueIs

(* The bits of a number, up to any, are worth its remainder.                *)
LEMMA Remainder ==
  ASSUME NEW n \in Nat, NEW p \in Nat \ {0}
  PROVE  n % (2 * p) = (n % p) + ((n \div p) % 2) * p
<1> DEFINE q == n \div p
           r == n % p
           b == q % 2
           c == q \div 2
<1>1. n = p * q + r /\ q \in Nat /\ r \in 0..p-1
  OBVIOUS
<1>2. q = 2 * c + b /\ c \in Nat /\ b \in 0..1
  BY <1>1
<1> HIDE DEF q, r, b, c
<1>3. n = (2 * p) * c + (b * p + r)
  BY <1>1, <1>2
<1>4. b * p + r \in Nat /\ b * p + r < 2 * p
  <2>1. CASE b = 0
    BY <1>1, <2>1
  <2>2. CASE b = 1
    BY <1>1, <2>2
  <2>3. QED BY <1>2, <2>1, <2>2
<1>5. \A m \in Nat \ {0}, k \in Nat, e \in Nat : e < m => (m * k + e) % m = e
  OBVIOUS
<1>6. n % (2 * p) = b * p + r
  <2> DEFINE m == 2 * p
             e == b * p + r
  <2>1. m \in Nat \ {0} /\ e \in Nat /\ e < m /\ n = m * c + e
    BY <1>3, <1>4
  <2> HIDE DEF m, e
  <2>2. n % m = e
    BY <1>2, <1>5, <2>1
  <2>3. QED
    BY <2>2 DEF m, e
<1>7. QED
  BY <1>1, <1>2, <1>6 DEF q, r, b

LEMMA BitsTyped ==
  ASSUME NEW n \in Nat, NEW w \in Nat
  PROVE  BitsOf(n, w) \in Seq(Bit) /\ Len(BitsOf(n, w)) = w
<1>1. ASSUME NEW i \in 1..w PROVE (n \div 2^(i - 1)) % 2 \in Bit
  <2>1. i - 1 \in Nat
    OBVIOUS
  <2>2. 2^(i - 1) \in Nat \ {0}
    BY <2>1, PowerOfTwo
  <2>3. \A p \in Nat \ {0} : n \div p \in Nat
    OBVIOUS
  <2>4. QED
    BY <2>2, <2>3 DEF Bit
<1>2. QED
  BY <1>1 DEF BitsOf

(* What is written in enough bits is read again.                            *)
LEMMA ValueOfBits ==
  ASSUME NEW n \in Nat, NEW w \in Nat, n < 2^w
  PROVE  ValueOf(BitsOf(n, w)) = n
<1> DEFINE s == BitsOf(n, w)
           h == [i \in 0..w |-> n % 2^i]
<1>1. s \in Seq(Bit) /\ Len(s) = w
  BY BitsTyped
<1>2. \A i \in 0..w : 2^i \in Nat \ {0}
  BY PowerOfTwo
<1>3. h \in [0..w -> Nat]
  BY <1>2
<1>4. h[0] = 0
  BY PowerOfTwo
<1>5. ASSUME NEW i \in 1..w PROVE h[i] = h[i - 1] + s[i] * 2^(i - 1)
  <2>1. i - 1 \in Nat /\ i - 1 \in 0..w /\ (i - 1) + 1 = i
    OBVIOUS
  <2>2. 2^i = 2 * 2^(i - 1) /\ 2^(i - 1) \in Nat \ {0}
    BY <2>1, PowerOfTwo
  <2>3. s[i] = (n \div 2^(i - 1)) % 2
    BY DEF BitsOf
  <2>4. h[i] = n % 2^i /\ h[i - 1] = n % 2^(i - 1)
    BY <2>1
  <2>5. QED
    BY <2>2, <2>3, <2>4, Remainder
<1>6. h[w] = n
  BY <1>2
<1> HIDE DEF h, s
<1>7. IsSum(h, s)
  BY <1>1, <1>4, <1>5 DEF IsSum
<1>8. ValueOf(s) = h[w]
  BY <1>1, <1>3, <1>7, ValueIs
<1>9. QED
  BY <1>6, <1>8 DEF s
-----------------------------------------------------------------------------
(* FlattenSeq, from the front on.                                           *)
IsChain(h, s) == h[0] = <<>> /\ \A i \in 1..Len(s) : h[i] = h[i - 1] \o s[i]

LEMMA ChainExists ==
  ASSUME NEW T, NEW s \in Seq(Seq(T))
  PROVE  \E h \in [0..Len(s) -> Seq(T)] : IsChain(h, s)
<1> DEFINE n == Len(s)
           step == [i \in 1..n |-> [v \in Seq(T) |-> v \o s[i]]]
<1>1. n \in Nat /\ \A i \in 1..n : s[i] \in Seq(T)
  OBVIOUS
<1> HIDE DEF n
<1>2. \A i \in 1..n, v \in Seq(T) : v \o s[i] \in Seq(T)
  BY <1>1
<1>3. step \in [1..n -> [Seq(T) -> Seq(T)]]
  BY <1>2
<1>4. \A i \in 1..n, v \in Seq(T) : step[i][v] = v \o s[i]
  OBVIOUS
<1> HIDE DEF step
<1>a. <<>> \in Seq(T)
  OBVIOUS
<1>5. PICK h \in [0..n -> Seq(T)] : IsRecursion(h, n, <<>>, step)
  BY <1>1, <1>3, <1>a, Recursion
<1>6. ASSUME NEW i \in 1..n PROVE h[i] = h[i - 1] \o s[i]
  <2>1. i - 1 \in 0..n
    BY <1>1
  <2>2. h[i-1] \in Seq(T)
    BY <2>1
  <2>3. h[i] = step[i][h[i-1]]
    BY <1>5 DEF IsRecursion
  <2>4. QED
    BY <2>2, <2>3, <1>4
<1>7. QED
  BY <1>5, <1>6 DEF IsChain, IsRecursion, n

LEMMA FlattenIs ==
  ASSUME NEW T, NEW s \in Seq(Seq(T)), NEW h \in [0..Len(s) -> Seq(T)], IsChain(h, s)
  PROVE  FlattenSeq(s) = h[Len(s)]
<1> DEFINE n == Len(s)
           flatten[i \in 1..n] == IF i = 1 THEN s[i] ELSE flatten[i - 1] \o s[i]
<1>0. n \in Nat /\ \A i \in 1..n : s[i] \in Seq(T)
  OBVIOUS
<1>1. CASE n = 0
  <2>1. s = <<>>
    BY <1>1
  <2>2. QED
    BY <1>1, <2>1 DEF FlattenSeq, IsChain
<1>2. CASE n # 0
  <2>1. FlattenSeq(s) = flatten[n]
    BY <1>2 DEF FlattenSeq
  <2>2. \A v \in Seq(T) : <<>> \o v = v
    OBVIOUS
  <2>3. h[0] = <<>> /\ \A i \in 1..n : h[i] = h[i - 1] \o s[i]
    BY Zenon DEF IsChain
  <2> DEFINE g == [i \in 1..n |-> h[i]]
  <2>4. flatten = [i \in 1..n |-> IF i = 1 THEN s[i] ELSE flatten[i - 1] \o s[i]]
    <3>1. ASSUME NEW i \in 1..n PROVE g[i] = IF i = 1 THEN s[i] ELSE g[i - 1] \o s[i]
      <4>1. CASE i = 1
        <5>1. h[1] = h[0] \o s[1]
          <6>1. 1 \in 1..n /\ 1 - 1 = 0
            BY <4>1
          <6>2. QED
            BY <6>1, <2>3
        <5>2. QED
          BY <4>1, <5>1, <2>2, <2>3, <1>0
      <4>2. CASE i # 1
        <5>1. i - 1 \in 1..n
          BY <1>0, <4>2
        <5>2. QED
          BY <4>2, <5>1, <2>3
      <4>3. QED BY <4>1, <4>2
    <3>2. g = [i \in 1..n |-> IF i = 1 THEN s[i] ELSE g[i - 1] \o s[i]]
      BY <3>1
    <3>3. QED
      BY <3>2, Zenon
  <2> HIDE DEF flatten
  <2>5. \A i \in 1..n : flatten[i] = IF i = 1 THEN s[i] ELSE flatten[i - 1] \o s[i]
    <3> DEFINE f == [i \in 1..n |-> IF i = 1 THEN s[i] ELSE flatten[i - 1] \o s[i]]
    <3>1. \A i \in 1..n : f[i] = IF i = 1 THEN s[i] ELSE flatten[i - 1] \o s[i]
      OBVIOUS
    <3>2. flatten = f
      BY <2>4
    <3> HIDE DEF f
    <3>3. QED
      BY <3>1, <3>2
  <2> HIDE DEF n, g
  <2> DEFINE S == {k \in Nat : k + 1 <= n => flatten[k + 1] = h[k + 1]}
  <2>6. 0 \in S
    <3>1. 1 \in 1..n
      BY <1>0, <1>2
    <3>2. flatten[1] = s[1]
      BY <3>1, <2>5
    <3>3. h[1] = h[0] \o s[1] /\ s[1] \in Seq(T)
      <4>1. 1 - 1 = 0
        OBVIOUS
      <4>2. QED
        BY <3>1, <4>1, <2>3, <1>0
    <3>4. h[1] = s[1]
      BY <3>3, <2>2, <2>3
    <3>5. QED
      BY <3>2, <3>4
  <2>7. ASSUME NEW k \in Nat, k \in S PROVE k + 1 \in S
    <3>1. SUFFICES ASSUME k + 2 <= n PROVE flatten[k + 2] = h[k + 2]
      OBVIOUS
    <3>2. k + 2 \in 1..n /\ k + 2 # 1 /\ (k + 2) - 1 = k + 1
      BY <1>0, <3>1
    <3>3. flatten[k + 2] = flatten[k + 1] \o s[k + 2]
      BY <2>5, <3>2
    <3>4. h[k + 2] = h[k + 1] \o s[k + 2]
      BY <2>3, <3>2
    <3>5. flatten[k + 1] = h[k + 1]
      BY <2>7, <3>1, <1>0
    <3>6. QED
      BY <3>3, <3>4, <3>5
  <2> HIDE DEF S
  <2>8. n - 1 \in S
    BY <1>0, <1>2, <2>6, <2>7, Induction
  <2>9. flatten[n] = h[n]
    BY <1>0, <1>2, <2>8 DEF S
  <2>10. QED
    BY <2>1, <2>9 DEF n
<1>3. QED
  BY <1>1, <1>2

LEMMA FlattenEmpty == FlattenSeq(<<>>) = <<>>
  BY DEF FlattenSeq

LEMMA FlattenAppend ==
  ASSUME NEW T, NEW s \in Seq(Seq(T)), NEW x \in Seq(T)
  PROVE  FlattenSeq(s) \in Seq(T) /\ FlattenSeq(Append(s, x)) = FlattenSeq(s) \o x
<1> DEFINE n == Len(s)
           t == Append(s, x)
<1>1. n \in Nat /\ t \in Seq(Seq(T)) /\ Len(t) = n + 1 /\ t[n + 1] = x /\ \A i \in 1..n : t[i] = s[i]
  OBVIOUS
<1>2. PICK h \in [0..n + 1 -> Seq(T)] : IsChain(h, t)
  BY <1>1, ChainExists
<1> DEFINE g == [i \in 0..n |-> h[i]]
<1>3. g \in [0..n -> Seq(T)]
  BY <1>1
<1>4. IsChain(g, s)
  <2>1. g[0] = <<>>
    BY <1>1, <1>2 DEF IsChain
  <2>2. ASSUME NEW i \in 1..n PROVE g[i] = g[i - 1] \o s[i]
    <3>1. i \in 1..n + 1 /\ i \in 0..n /\ i - 1 \in 0..n
      BY <1>1
    <3>2. h[i] = h[i - 1] \o t[i]
      BY <1>1, <1>2, <3>1 DEF IsChain
    <3>3. t[i] = s[i]
      BY <1>1
    <3>4. QED
      BY <3>1, <3>2, <3>3
  <2>3. QED
    BY <2>1, <2>2 DEF IsChain
<1>5. FlattenSeq(s) = g[n]
  BY <1>3, <1>4, FlattenIs
<1>6. FlattenSeq(t) = h[n + 1]
  BY <1>1, <1>2, FlattenIs
<1>7. h[n + 1] = h[n] \o x
  <2>1. n + 1 \in 1..Len(t) /\ (n + 1) - 1 = n
    BY <1>1
  <2>2. h[n + 1] = h[(n + 1) - 1] \o t[n + 1]
    BY <1>2, <2>1 DEF IsChain
  <2>3. QED
    BY <1>1, <2>1, <2>2
<1>8. g[n] = h[n] /\ h[n] \in Seq(T)
  BY <1>1
<1>9. QED
  BY <1>5, <1>6, <1>7, <1>8
-----------------------------------------------------------------------------
(* The string t stands in s from position p on.                             *)
Stands(s, p, t) ==
  p + Len(t) <= Len(s) /\ \A i \in 1..Len(t) : s[p + i] = t[i]

LEMMA SliceOf ==
  ASSUME NEW T, NEW s \in Seq(T), NEW t \in Seq(T), NEW p \in Nat, Stands(s, p, t)
  PROVE  Slice(s, p, Len(t)) = t
<1> DEFINE n == Len(t)
<1>1. n \in Nat /\ Len(s) \in Nat /\ t = [i \in 1..n |-> t[i]]
  OBVIOUS
<1>2. \A i \in 1..n : p + i <= Len(s) /\ s[p + i] = t[i]
  BY <1>1 DEF Stands
<1>3. Slice(s, p, n) = [i \in 1..n |-> IF p + i <= Len(s) THEN s[p + i] ELSE 0]
  BY DEF Slice
<1> HIDE DEF n
<1>4. [i \in 1..n |-> IF p + i <= Len(s) THEN s[p + i] ELSE 0] = [i \in 1..n |-> t[i]]
  BY <1>2
<1>5. QED
  BY <1>1, <1>3, <1>4 DEF n

LEMMA SliceTyped ==
  ASSUME NEW s \in Seq(Bit), NEW p \in Nat, NEW w \in Nat
  PROVE  Slice(s, p, w) \in Seq(Bit) /\ Len(Slice(s, p, w)) = w
<1>1. ASSUME NEW i \in 1..w PROVE (IF p + i <= Len(s) THEN s[p + i] ELSE 0) \in Bit
  <2>1. CASE p + i <= Len(s)
    <3>1. p + i \in 1..Len(s)
      BY <2>1
    <3>2. QED
      BY <2>1, <3>1
  <2>2. CASE ~(p + i <= Len(s))
    BY <2>2 DEF Bit
  <2>3. QED BY <2>1, <2>2
<1>2. QED
  BY <1>1 DEF Slice

LEMMA StandsJoin ==
  ASSUME NEW T, NEW s \in Seq(T), NEW t \in Seq(T), NEW u \in Seq(T), NEW p \in Nat
  PROVE  Stands(s, p, t \o u) <=> Stands(s, p, t) /\ Stands(s, p + Len(t), u)
<1> DEFINE n == Len(t)
           m == Len(u)
           v == t \o u
<1>1. n \in Nat /\ m \in Nat /\ Len(s) \in Nat /\ Len(v) = n + m
  OBVIOUS
<1>2. \A i \in 1..n : v[i] = t[i]
  OBVIOUS
<1>3. \A i \in 1..m : v[n + i] = u[i]
  OBVIOUS
<1>4. ASSUME Stands(s, p, v) PROVE Stands(s, p, t) /\ Stands(s, p + n, u)
  <2>1. p + (n + m) <= Len(s) /\ \A i \in 1..n+m : s[p + i] = v[i]
    BY <1>1, <1>4 DEF Stands
  <2> HIDE DEF n, m, v
  <2>2. \A i \in 1..n : i \in 1..n+m
    BY <1>1
  <2>3. Stands(s, p, t)
    BY <1>1, <1>2, <2>1, <2>2 DEF Stands, n
  <2>4. ASSUME NEW i \in 1..m PROVE s[p + n + i] = u[i]
    <3>1. n + i \in 1..n+m /\ p + (n + i) = p + n + i
      BY <1>1
    <3>2. QED
      BY <1>3, <2>1, <3>1
  <2>5. Stands(s, p + n, u)
    BY <1>1, <2>1, <2>4 DEF Stands, m
  <2>6. QED
    BY <2>3, <2>5
<1>5. ASSUME Stands(s, p, t), Stands(s, p + n, u) PROVE Stands(s, p, v)
  <2>1. p + n + m <= Len(s)
    BY <1>1, <1>5 DEF Stands
  <2>2. \A i \in 1..n : s[p + i] = t[i]
    BY <1>5 DEF Stands
  <2>3. \A i \in 1..m : s[p + n + i] = u[i]
    BY <1>5 DEF Stands
  <2> HIDE DEF n, m, v
  <2>4. ASSUME NEW i \in 1..n+m PROVE s[p + i] = v[i]
    <3>1. CASE i <= n
      <4>1. i \in 1..n
        BY <3>1, <1>1
      <4>2. QED
        BY <4>1, <2>2, <1>2
    <3>2. CASE i > n
      <4>1. i - n \in 1..m /\ n + (i - n) = i /\ p + n + (i - n) = p + i
        BY <3>2, <1>1
      <4>2. QED
        BY <4>1, <2>3, <1>3
    <3>3. QED BY <1>1, <3>1, <3>2
  <2>5. QED
    BY <1>1, <2>1, <2>4 DEF Stands
<1>6. QED
  BY <1>4, <1>5

LEMMA StandsAtEnd ==
  ASSUME NEW T, NEW s \in Seq(T), NEW t \in Seq(T)
  PROVE  Stands(s \o t, Len(s), t) /\ Stands(s, 0, s)
<1>1. \A i \in 1..Len(t) : (s \o t)[Len(s) + i] = t[i]
  OBVIOUS
<1>2. QED
  BY <1>1 DEF Stands

(* What stands in a string also does in a longer one.                       *)
LEMMA StandsLonger ==
  ASSUME NEW T, NEW s \in Seq(T), NEW r \in Seq(T), NEW t \in Seq(T), NEW p \in Nat, Stands(s, p, t)
  PROVE  Stands(s \o r, p, t)
<1>1. \A j \in 1..Len(s) : (s \o r)[j] = s[j]
  OBVIOUS
<1>2. Len(s \o r) = Len(s) + Len(r) /\ Len(s) \in Nat /\ Len(r) \in Nat /\ Len(t) \in Nat
  OBVIOUS
<1>3. \A i \in 1..Len(t) : p + i \in 1..Len(s) /\ s[p + i] = t[i]
  BY <1>2 DEF Stands
<1>4. QED
  BY <1>1, <1>2, <1>3 DEF Stands

(* What stands in a part that stands in a string.                           *)
LEMMA StandsWithin ==
  ASSUME NEW T, NEW s \in Seq(T), NEW t \in Seq(T), NEW u \in Seq(T), NEW p \in Nat, NEW q \in Nat,
         Stands(s, p, t), Stands(t, q, u)
  PROVE  Stands(s, p + q, u)
<1>1. Len(s) \in Nat /\ Len(t) \in Nat /\ Len(u) \in Nat
  OBVIOUS
<1>2. ASSUME NEW i \in 1..Len(u) PROVE s[p + q + i] = u[i]
  <2>1. q + i \in 1..Len(t) /\ p + (q + i) = p + q + i
    BY <1>1 DEF Stands
  <2>2. t[q + i] = u[i]
    BY DEF Stands
  <2>3. s[p + (q + i)] = t[q + i]
    BY <2>1 DEF Stands
  <2>4. QED
    BY <2>1, <2>2, <2>3
<1>3. QED
  BY <1>1, <1>2 DEF Stands

(* A number that was written is read.                                       *)
LEMMA NumberRead ==
  ASSUME NEW s \in Seq(Bit), NEW p \in Nat, NEW w \in Nat, NEW n \in Nat, n < 2^w,
         Stands(s, p, BitsOf(n, w))
  PROVE  ValueOf(Slice(s, p, w)) = n
<1>1. BitsOf(n, w) \in Seq(Bit) /\ Len(BitsOf(n, w)) = w
  BY BitsTyped
<1>2. Slice(s, p, w) = BitsOf(n, w)
  BY <1>1, SliceOf
<1>3. QED
  BY <1>2, ValueOfBits
-----------------------------------------------------------------------------
(* Each string of a flattened sequence stands after those before it.        *)
LEMMA ChainStands ==
  ASSUME NEW T, NEW s \in Seq(Seq(T)), NEW h \in [0..Len(s) -> Seq(T)], IsChain(h, s)
  PROVE  \A i \in 1..Len(s) : Stands(FlattenSeq(s), Len(h[i - 1]), s[i])
<1> DEFINE n == Len(s)
           S == {k \in Nat : k <= n => \A i \in 1..k : Stands(h[k], Len(h[i - 1]), s[i])}
<1>0. n \in Nat /\ \A i \in 1..n : s[i] \in Seq(T)
  OBVIOUS
<1>1. 0 \in S
  OBVIOUS
<1>2. ASSUME NEW k \in Nat, k \in S PROVE k + 1 \in S
  <2>1. SUFFICES ASSUME k + 1 <= n PROVE \A i \in 1..k+1 : Stands(h[k + 1], Len(h[i - 1]), s[i])
    OBVIOUS
  <2>2. k \in 0..n /\ k + 1 \in 1..n /\ (k + 1) - 1 = k
    BY <1>0, <2>1
  <2>3. h[k + 1] = h[k] \o s[k + 1] /\ h[k] \in Seq(T) /\ s[k + 1] \in Seq(T)
    BY <1>0, <2>2 DEF IsChain
  <2>4. \A i \in 1..k : Stands(h[k], Len(h[i - 1]), s[i])
    BY <1>2, <2>1, <1>0
  <2>5. ASSUME NEW i \in 1..k PROVE Stands(h[k + 1], Len(h[i - 1]), s[i])
    <3>1. i \in 1..n /\ i - 1 \in 0..n
      BY <1>0, <2>1
    <3>2. Len(h[i - 1]) \in Nat /\ s[i] \in Seq(T)
      BY <1>0, <3>1
    <3>3. QED
      BY <2>3, <2>4, <3>2, StandsLonger
  <2>6. Stands(h[k + 1], Len(h[k]), s[k + 1])
    BY <2>3, StandsAtEnd
  <2>7. QED
    <3>1. ASSUME NEW i \in 1..k+1 PROVE Stands(h[k + 1], Len(h[i - 1]), s[i])
      <4>1. CASE i = k + 1
        BY <2>2, <2>6, <4>1
      <4>2. CASE i # k + 1
        <5>1. i \in 1..k
          BY <4>2
        <5>2. QED
          BY <2>5, <5>1
      <4>3. QED BY <4>1, <4>2
    <3>2. QED BY <3>1
<1> HIDE DEF S
<1>3. n \in S
  BY <1>0, <1>1, <1>2, Induction
<1>4. FlattenSeq(s) = h[n]
  BY FlattenIs
<1>5. QED
  BY <1>0, <1>3, <1>4 DEF S

LEMMA LenJoin ==
  ASSUME NEW T, NEW s \in Seq(T), NEW t \in Seq(T)
  PROVE  s \o t \in Seq(T) /\ Len(s \o t) = Len(s) + Len(t)
  OBVIOUS

IsOffsets(h, w) == h[0] = 0 /\ \A i \in 1..Len(w) : h[i] = h[i - 1] + w[i]

LEMMA OffsetsExist ==
  ASSUME NEW w \in Seq(Nat)
  PROVE  \E h \in [0..Len(w) -> Nat] : IsOffsets(h, w)
<1> DEFINE n == Len(w)
           step == [i \in 1..n |-> [v \in Nat |-> v + w[i]]]
<1>1. n \in Nat /\ \A i \in 1..n : w[i] \in Nat
  OBVIOUS
<1> HIDE DEF n
<1>3. step \in [1..n -> [Nat -> Nat]]
  BY <1>1
<1>4. \A i \in 1..n, v \in Nat : step[i][v] = v + w[i]
  OBVIOUS
<1> HIDE DEF step
<1>5. PICK h \in [0..n -> Nat] : IsRecursion(h, n, 0, step)
  BY <1>1, <1>3, Recursion
<1>6. ASSUME NEW i \in 1..n PROVE h[i] = h[i - 1] + w[i]
  <2>1. i - 1 \in 0..n /\ h[i - 1] \in Nat
    BY <1>1
  <2>2. QED
    BY <2>1, <1>4, <1>5 DEF IsRecursion
<1>7. QED
  BY <1>5, <1>6 DEF IsOffsets, IsRecursion, n

LEMMA OffsetsAre ==
  ASSUME NEW w \in Seq(Nat), NEW h \in [0..Len(w) -> Nat], IsOffsets(h, w)
  PROVE  /\ RecordBits(w) = h[Len(w)]
         /\ \A k \in 0..Len(w) : FoldLeft(+, 0, SubSeq(w, 1, k)) = h[k]
<1>1. RecordBits(w) = h[Len(w)]
  BY SumIs DEF RecordBits, IsOffsets
<1>2. ASSUME NEW k \in 0..Len(w) PROVE FoldLeft(+, 0, SubSeq(w, 1, k)) = h[k]
  <2> DEFINE s == SubSeq(w, 1, k)
             g == [i \in 0..k |-> h[i]]
  <2>1. s \in Seq(Nat) /\ Len(s) = k /\ \A i \in 1..k : s[i] = w[i]
    OBVIOUS
  <2>2. g \in [0..k -> Nat]
    OBVIOUS
  <2>3. g[0] = 0
    BY DEF IsOffsets
  <2>4. ASSUME NEW i \in 1..k PROVE g[i] = g[i - 1] + s[i]
    <3>1. i \in 1..Len(w) /\ i - 1 \in 0..k /\ i \in 0..k
      OBVIOUS
    <3>2. h[i] = h[i - 1] + w[i]
      BY <3>1 DEF IsOffsets
    <3>3. QED
      BY <2>1, <3>1, <3>2
  <2>5. g[k] = h[k]
    OBVIOUS
  <2> HIDE DEF g, s
  <2>6. FoldLeft(+, 0, s) = g[k]
    BY <2>1, <2>2, <2>3, <2>4, SumIs
  <2>7. QED
    BY <2>5, <2>6 DEF s
<1>3. QED
  BY <1>1, <1>2

LEMMA RecordBitsNat ==
  ASSUME NEW w \in Seq(Nat)
  PROVE  RecordBits(w) \in Nat
<1>1. PICK h \in [0..Len(w) -> Nat] : IsOffsets(h, w)
  BY OffsetsExist
<1>2. Len(w) \in 0..Len(w)
  OBVIOUS
<1>3. QED
  BY <1>1, <1>2, OffsetsAre

(* A record of numbers in the given widths: each stands in its place.       *)
LEMMA RecordLaid ==
  ASSUME NEW v \in Seq(Nat), NEW w \in Seq(Nat), Len(v) = Len(w)
  PROVE  /\ Record(v, w) \in Seq(Bit)
         /\ Len(Record(v, w)) = RecordBits(w)
         /\ \A f \in 1..Len(w) :
              Stands(Record(v, w), FoldLeft(+, 0, SubSeq(w, 1, f - 1)), BitsOf(v[f], w[f]))
<1> DEFINE n == Len(w)
           s == [i \in DOMAIN v |-> BitsOf(v[i], w[i])]
<1>1. n \in Nat /\ DOMAIN v = 1..n /\ \A i \in 1..n : v[i] \in Nat /\ w[i] \in Nat
  OBVIOUS
<1>2. \A i \in 1..n : BitsOf(v[i], w[i]) \in Seq(Bit) /\ Len(BitsOf(v[i], w[i])) = w[i]
  BY <1>1, BitsTyped
<1>3. s \in Seq(Seq(Bit)) /\ Len(s) = n /\ \A i \in 1..n : s[i] = BitsOf(v[i], w[i])
  BY <1>1, <1>2
<1>4. Record(v, w) = FlattenSeq(s)
  BY DEF Record
<1> HIDE DEF s
<1>5. PICK h \in [0..n -> Seq(Bit)] : IsChain(h, s)
  BY <1>3, ChainExists
<1>6. PICK o \in [0..n -> Nat] : IsOffsets(o, w)
  BY OffsetsExist
<1> DEFINE S == {k \in Nat : k <= n => Len(h[k]) = o[k]}
<1>7. 0 \in S
  BY <1>5, <1>6 DEF IsChain, IsOffsets
<1>8. ASSUME NEW k \in Nat, k \in S PROVE k + 1 \in S
  <2>1. SUFFICES ASSUME k + 1 <= n PROVE Len(h[k + 1]) = o[k + 1]
    OBVIOUS
  <2>2. k \in 0..n /\ k + 1 \in 1..n /\ (k + 1) - 1 = k
    BY <1>1, <2>1
  <2>3. h[k + 1] = h[k] \o s[k + 1]
    BY <1>3, <1>5, <2>2 DEF IsChain
  <2>4. o[k + 1] = o[k] + w[k + 1]
    BY <1>6, <2>2 DEF IsOffsets
  <2>5. Len(h[k]) = o[k]
    BY <1>8, <2>2
  <2>6. h[k] \in Seq(Bit) /\ s[k + 1] \in Seq(Bit) /\ Len(s[k + 1]) = w[k + 1]
    BY <1>2, <1>3, <2>2
  <2>7. Len(h[k] \o s[k + 1]) = Len(h[k]) + Len(s[k + 1])
    BY <2>6, LenJoin
  <2>8. QED
    BY <2>3, <2>4, <2>5, <2>6, <2>7
<1> HIDE DEF S
<1>a. \A k \in Nat : k \in S
  BY <1>7, <1>8, Induction
<1>9. \A k \in 0..n : Len(h[k]) = o[k]
  BY <1>1, <1>a DEF S
<1>10. FlattenSeq(s) = h[n]
  BY <1>3, <1>5, FlattenIs
<1>11. h[n] \in Seq(Bit) /\ Len(h[n]) = RecordBits(w)
  <2>1. n \in 0..n /\ h[n] \in Seq(Bit)
    BY <1>1
  <2>2. RecordBits(w) = o[n]
    BY <1>6, OffsetsAre
  <2>3. QED
    BY <1>9, <2>1, <2>2
<1>12. ASSUME NEW f \in 1..n
       PROVE Stands(Record(v, w), FoldLeft(+, 0, SubSeq(w, 1, f - 1)), BitsOf(v[f], w[f]))
  <2>1. Stands(FlattenSeq(s), Len(h[f - 1]), s[f])
    BY <1>3, <1>5, ChainStands
  <2>2. f - 1 \in 0..n
    OBVIOUS
  <2>3. Len(h[f - 1]) = FoldLeft(+, 0, SubSeq(w, 1, f - 1))
    BY <1>6, <1>9, <2>2, OffsetsAre
  <2>4. QED
    BY <1>3, <1>4, <2>1, <2>3
<1>13. QED
  BY <1>4, <1>10, <1>11, <1>12

(* A field of a record that stands in the data, is what was written.        *)
LEMMA FieldRead ==
  ASSUME NEW data \in Seq(Bit), NEW v \in Seq(Nat), NEW w \in Seq(Nat), Len(v) = Len(w),
         NEW record \in Nat, Stands(data, record * RecordBits(w), Record(v, w)),
         NEW f \in 1..Len(w), v[f] < 2^(w[f])
  PROVE  Field(data, record, f, w) = v[f]
<1> DEFINE p == record * RecordBits(w)
           q == FoldLeft(+, 0, SubSeq(w, 1, f - 1))
<1>1. RecordBits(w) \in Nat
  BY RecordBitsNat
<1>2. p \in Nat
  BY <1>1
<1>3. q \in Nat
  <2>1. PICK h \in [0..Len(w) -> Nat] : IsOffsets(h, w)
    BY OffsetsExist
  <2>2. f - 1 \in 0..Len(w)
    OBVIOUS
  <2>3. QED
    BY <2>1, <2>2, OffsetsAre
<1>4. w[f] \in Nat /\ v[f] \in Nat
  OBVIOUS
<1>5. Record(v, w) \in Seq(Bit) /\ Stands(Record(v, w), q, BitsOf(v[f], w[f]))
  BY RecordLaid
<1>6. BitsOf(v[f], w[f]) \in Seq(Bit)
  BY <1>4, BitsTyped
<1> HIDE DEF p, q
<1>7. Stands(data, p + q, BitsOf(v[f], w[f]))
  BY <1>2, <1>3, <1>5, <1>6, StandsWithin DEF p
<1>8. Field(data, record, f, w) = ValueOf(Slice(data, p + q, w[f]))
  BY DEF Field, p, q
<1>9. p + q \in Nat
  BY <1>2, <1>3
<1>10. QED
  BY <1>4, <1>7, <1>8, <1>9, NumberRead

-----------------------------------------------------------------------------
(***************************************************************************)
(* Records of fixed widths, and registries.                                *)
(***************************************************************************)
(* Rows of numbers that fit in the widths, one record after another.        *)
Rows(w) == {r \in Seq(Nat) : Len(r) = Len(w) /\ \A f \in 1..Len(w) : r[f] < 2^(w[f])}

Laid(data, w, rows) ==
  /\ data \in Seq(Bit) /\ Len(data) = Len(rows) * RecordBits(w)
  /\ \A i \in 1..Len(rows) : Stands(data, (i - 1) * RecordBits(w), Record(rows[i], w))

(* Each field is read as it was written.                                    *)
LEMMA LaidRead ==
  ASSUME NEW w \in Seq(Nat), NEW rows \in Seq(Rows(w)), NEW data, Laid(data, w, rows),
         NEW i \in 1..Len(rows), NEW f \in 1..Len(w)
  PROVE  Field(data, i - 1, f, w) = rows[i][f]
<1>1. rows[i] \in Rows(w)
  OBVIOUS
<1>2. rows[i] \in Seq(Nat) /\ Len(rows[i]) = Len(w) /\ rows[i][f] < 2^(w[f])
  BY <1>1 DEF Rows
<1>3. i - 1 \in Nat
  OBVIOUS
<1>4. data \in Seq(Bit) /\ Stands(data, (i - 1) * RecordBits(w), Record(rows[i], w))
  BY DEF Laid
<1>5. QED
  BY <1>2, <1>3, <1>4, FieldRead

LEMMA RowLaid ==
  ASSUME NEW w \in Seq(Nat), NEW r \in Rows(w)
  PROVE  Record(r, w) \in Seq(Bit) /\ Len(Record(r, w)) = RecordBits(w) /\ RecordBits(w) \in Nat
<1>1. r \in Seq(Nat) /\ Len(r) = Len(w)
  BY DEF Rows
<1>2. QED
  BY <1>1, RecordLaid, RecordBitsNat

LEMMA LaidAppend ==
  ASSUME NEW w \in Seq(Nat), NEW rows \in Seq(Rows(w)), NEW data, Laid(data, w, rows),
         NEW r \in Rows(w)
  PROVE  Laid(SubSeq(data, 1, Len(rows) * RecordBits(w)) \o Record(r, w), w, Append(rows, r))
<1> DEFINE n == Len(rows)
           b == RecordBits(w)
           x == Record(r, w)
           more == Append(rows, r)
<1>1. x \in Seq(Bit) /\ Len(x) = b /\ b \in Nat
  BY RowLaid
<1>2. n \in Nat /\ Len(more) = n + 1 /\ more[n + 1] = r /\ \A i \in 1..n : more[i] = rows[i]
  OBVIOUS
<1>3. data \in Seq(Bit) /\ Len(data) = n * b
  BY DEF Laid
<1>4. SubSeq(data, 1, n * b) = data
  BY <1>3
<1>5. \A i \in 1..n : Stands(data, (i - 1) * b, Record(rows[i], w))
  BY DEF Laid
<1>6. \A i \in 1..n : Record(rows[i], w) \in Seq(Bit)
  <2>1. \A i \in 1..n : rows[i] \in Rows(w)
    OBVIOUS
  <2>2. QED
    BY <2>1, RowLaid
<1> HIDE DEF n, b, x, more
<1>7. (n + 1) * b = n * b + b /\ n * b \in Nat /\ ((n + 1) - 1) * b = n * b
  BY <1>1, <1>2
<1>8. data \o x \in Seq(Bit) /\ Len(data \o x) = (n + 1) * b
  <2>1. data \o x \in Seq(Bit) /\ Len(data \o x) = Len(data) + Len(x)
    BY <1>1, <1>3, LenJoin
  <2>2. QED
    BY <1>1, <1>3, <1>7, <2>1
<1>9. ASSUME NEW i \in 1..n + 1 PROVE Stands(data \o x, (i - 1) * b, Record(more[i], w))
  <2>1. CASE i = n + 1
    <3>1. Stands(data \o x, n * b, x)
      BY <1>1, <1>3, StandsAtEnd
    <3>2. QED
      BY <1>2, <1>7, <2>1, <3>1 DEF x
  <2>2. CASE i # n + 1
    <3>1. i \in 1..n
      BY <1>2, <2>2
    <3>2. i - 1 \in Nat
      BY <1>2
    <3>3. (i - 1) * b \in Nat
      BY <3>2, <1>1
    <3>4. Stands(data \o x, (i - 1) * b, Record(rows[i], w))
      BY <1>1, <1>3, <1>5, <1>6, <3>1, <3>3, StandsLonger
    <3>5. QED
      BY <1>2, <3>1, <3>4
  <2>3. QED BY <2>1, <2>2
<1>10. Laid(data \o x, w, more)
  BY <1>2, <1>8, <1>9 DEF Laid, b
<1>11. QED
  BY <1>4, <1>10 DEF n, b, x, more

(* Strings of one length, flattened: the i-th stands after i - 1 others.    *)
EvenlyLaid(data, n, b, s) ==
  /\ data \in Seq(Bit) /\ Len(data) = n * b
  /\ \A i \in 1..n : Stands(data, (i - 1) * b, s[i])

LEMMA FlattenEven ==
  ASSUME NEW b \in Nat, NEW s \in Seq(Seq(Bit)), \A i \in 1..Len(s) : Len(s[i]) = b
  PROVE  EvenlyLaid(FlattenSeq(s), Len(s), b, s)
<1> DEFINE n == Len(s)
<1>3. n \in Nat /\ \A i \in 1..n : s[i] \in Seq(Bit) /\ Len(s[i]) = b
  OBVIOUS
<1> HIDE DEF n
<1>4. PICK h \in [0..n -> Seq(Bit)] : IsChain(h, s)
  BY ChainExists DEF n
<1> DEFINE S == {k \in Nat : k <= n => Len(h[k]) = k * b}
<1>5. 0 \in S
  BY <1>4 DEF IsChain
<1>6. ASSUME NEW k \in Nat, k \in S PROVE k + 1 \in S
  <2>1. SUFFICES ASSUME k + 1 <= n PROVE Len(h[k + 1]) = (k + 1) * b
    OBVIOUS
  <2>2. k \in 0..n /\ k + 1 \in 1..n /\ (k + 1) - 1 = k
    BY <1>3, <2>1
  <2>3. h[k + 1] = h[k] \o s[k + 1]
    BY <1>4, <2>2 DEF IsChain, n
  <2>4. Len(h[k]) = k * b
    BY <1>6, <2>2
  <2>5. h[k] \in Seq(Bit)
    BY <2>2
  <2>a. s[k + 1] \in Seq(Bit) /\ Len(s[k + 1]) = b
    BY <1>3, <2>2
  <2>6. Len(h[k] \o s[k + 1]) = Len(h[k]) + Len(s[k + 1])
    BY <2>5, <2>a, LenJoin
  <2>7. (k + 1) * b = k * b + b
    OBVIOUS
  <2>8. QED
    BY <2>3, <2>4, <2>a, <2>6, <2>7
<1> HIDE DEF S
<1>7. \A k \in Nat : k \in S
  BY <1>5, <1>6, Induction
<1>8. \A k \in 0..n : Len(h[k]) = k * b
  BY <1>3, <1>7 DEF S
<1>9. FlattenSeq(s) = h[n]
  BY <1>4, FlattenIs DEF n
<1>10. h[n] \in Seq(Bit) /\ Len(h[n]) = n * b
  BY <1>3, <1>4, <1>8
<1>11. ASSUME NEW i \in 1..n PROVE Stands(FlattenSeq(s), (i - 1) * b, s[i])
  <2>1. Stands(FlattenSeq(s), Len(h[i - 1]), s[i])
    BY <1>4, ChainStands DEF n
  <2>2. i - 1 \in 0..n
    BY <1>3
  <2>3. QED
    BY <1>8, <2>1, <2>2
<1>12. QED
  BY <1>9, <1>10, <1>11 DEF EvenlyLaid, n

LEMMA LaidPacked ==
  ASSUME NEW w \in Seq(Nat), NEW rows \in Seq(Rows(w))
  PROVE  Laid(FlattenSeq([i \in DOMAIN rows |-> Record(rows[i], w)]), w, rows)
<1> DEFINE n == Len(rows)
           b == RecordBits(w)
           s == [i \in DOMAIN rows |-> Record(rows[i], w)]
<1>1. n \in Nat /\ b \in Nat /\ DOMAIN rows = 1..n
  BY RecordBitsNat
<1>2. \A i \in 1..n : Record(rows[i], w) \in Seq(Bit) /\ Len(Record(rows[i], w)) = b
  <2>1. \A i \in 1..n : rows[i] \in Rows(w)
    OBVIOUS
  <2>2. QED
    BY <2>1, RowLaid
<1>3. s \in Seq(Seq(Bit)) /\ Len(s) = n /\ \A i \in 1..n : s[i] = Record(rows[i], w)
  BY <1>1, <1>2
<1> HIDE DEF s
<1>4. \A i \in 1..n : Len(s[i]) = b
  BY <1>2, <1>3
<1> HIDE DEF n, b
<1>5. EvenlyLaid(FlattenSeq(s), n, b, s)
  BY <1>1, <1>3, <1>4, FlattenEven
<1>6. QED
  BY <1>3, <1>5 DEF EvenlyLaid, Laid, n, b, s
-----------------------------------------------------------------------------
(* Registries and palettes: no name twice, and they only grow.              *)
Registry(T) == {r \in Seq(T) : \A i, j \in 1..Len(r) : r[i] = r[j] => i = j}
Extends(r, k) == Len(r) <= Len(k) /\ \A i \in 1..Len(r) : k[i] = r[i]

LEMMA ToSetIs ==
  ASSUME NEW T, NEW r \in Seq(T), NEW x
  PROVE  x \in ToSet(r) <=> \E i \in 1..Len(r) : r[i] = x
  BY DEF ToSet

LEMMA KnownGrows ==
  ASSUME NEW T, NEW r \in Registry(T), NEW x \in T
  PROVE  Known(r, x) \in Registry(T) /\ Extends(r, Known(r, x)) /\ x \in ToSet(Known(r, x))
<1> DEFINE k == Append(r, x)
           n == Len(r)
<1>1. r \in Seq(T) /\ n \in Nat /\ \A i, j \in 1..n : r[i] = r[j] => i = j
  BY DEF Registry
<1>2. k \in Seq(T) /\ Len(k) = n + 1 /\ k[n + 1] = x /\ \A i \in 1..n : k[i] = r[i]
  BY <1>1
<1>3. CASE x \in ToSet(r)
  BY <1>1, <1>3 DEF Known, Extends
<1>4. CASE x \notin ToSet(r)
  <2>1. \A i \in 1..n : r[i] # x
    BY <1>1, <1>4, ToSetIs
  <2> HIDE DEF k, n
  <2>2. ASSUME NEW i \in 1..n + 1, NEW j \in 1..n + 1, k[i] = k[j] PROVE i = j
    <3>1. CASE i \in 1..n /\ j \in 1..n
      BY <1>1, <1>2, <2>2, <3>1
    <3>2. CASE i = n + 1 /\ j \in 1..n
      BY <1>2, <2>1, <2>2, <3>2
    <3>3. CASE i \in 1..n /\ j = n + 1
      BY <1>2, <2>1, <2>2, <3>3
    <3>4. QED
      BY <1>1, <3>1, <3>2, <3>3
  <2>3. k \in Registry(T)
    BY <1>2, <2>2 DEF Registry
  <2>4. Extends(r, k)
    BY <1>1, <1>2 DEF Extends, n
  <2>5. x \in ToSet(k)
    <3>1. n + 1 \in 1..Len(k)
      BY <1>1, <1>2
    <3>2. QED
      BY <1>2, <3>1, ToSetIs
  <2>6. Known(r, x) = k
    BY <1>4 DEF Known, k
  <2>7. QED
    BY <2>3, <2>4, <2>5, <2>6
<1>5. QED
  BY <1>3, <1>4

LEMMA ExtendsTrans ==
  ASSUME NEW T, NEW r \in Seq(T), NEW k \in Seq(T), NEW l \in Seq(T), Extends(r, k), Extends(k, l)
  PROVE  Extends(r, l)
<1>1. Len(r) \in Nat /\ Len(k) \in Nat /\ Len(l) \in Nat
  OBVIOUS
<1>2. \A i \in 1..Len(r) : i \in 1..Len(k)
  BY <1>1 DEF Extends
<1>3. QED
  BY <1>1, <1>2 DEF Extends

LEMMA ExtendsHas ==
  ASSUME NEW T, NEW r \in Seq(T), NEW k \in Seq(T), Extends(r, k), NEW x \in ToSet(r)
  PROVE  x \in ToSet(k)
<1>1. PICK i \in 1..Len(r) : r[i] = x
  BY ToSetIs
<1>2. Len(r) \in Nat /\ Len(k) \in Nat
  OBVIOUS
<1>3. i \in 1..Len(k) /\ k[i] = x
  BY <1>1, <1>2 DEF Extends
<1>4. QED
  BY <1>3, ToSetIs

(* One name after another: none is lost, none is twice.                     *)
KnowsAll(r, ms, k) == Extends(r, k) /\ \A i \in 1..Len(ms) : ms[i] \in ToSet(k)

LEMMA KnownAll ==
  ASSUME NEW T, NEW r \in Registry(T), NEW ms \in Seq(T)
  PROVE  FoldLeft(Known, r, ms) \in Registry(T) /\ KnowsAll(r, ms, FoldLeft(Known, r, ms))
<1> DEFINE n == Len(ms)
           U == Registry(T)
           iter[q \in SUBSET (DOMAIN ms)] ==
             IF q = {} THEN r ELSE LET x == Max(q) IN Known(iter[q \ {x}], ms[x])
<1>0. n \in Nat /\ DOMAIN ms = 1..n /\ \A i \in 1..n : ms[i] \in T
  OBVIOUS
<1>1. FoldLeft(Known, r, ms) = iter[DOMAIN ms]
  BY DEF FoldLeft, MapThenFoldSet
<1> DEFINE step == [i \in 1..n |-> [v \in U |-> Known(v, ms[i])]]
<1>b. \A i \in 1..n, v \in U : Known(v, ms[i]) \in U
  BY <1>0, KnownGrows
<1>2. iter = [q \in SUBSET (DOMAIN ms) |->
                IF q = {} THEN r ELSE LET x == Max(q) IN Known(iter[q \ {x}], ms[x])]
  <2> HIDE DEF n, U
  <2>2. step \in [1..n -> [U -> U]]
    BY <1>b
  <2>c. \A i \in 1..n, v \in U : step[i][v] = Known(v, ms[i])
    OBVIOUS
  <2> HIDE DEF step
  <2>a. r \in U
    BY DEF U
  <2>3. PICK g \in [SUBSET (1..n) -> U] : IsFold(g, n, r, step)
    BY <1>0, <2>2, <2>a, Folding
  <2>5. g = [q \in SUBSET (DOMAIN ms) |->
                IF q = {} THEN r ELSE LET x == Max(q) IN Known(g[q \ {x}], ms[x])]
    <3>1. ASSUME NEW q \in SUBSET (1..n), q # {} PROVE g[q] = Known(g[q \ {Max(q)}], ms[Max(q)])
      <4>1. Max(q) \in 1..n /\ q \ {Max(q)} \in SUBSET (1..n)
        BY <3>1, <1>0, MaxIn
      <4>2. g[q \ {Max(q)}] \in U
        BY <4>1
      <4>3. g[q] = step[Max(q)][g[q \ {Max(q)}]]
        BY <3>1, <2>3 DEF IsFold
      <4>4. QED
        BY <4>1, <4>2, <4>3, <2>c
    <3>2. \A q \in SUBSET (1..n) : q = {} => g[q] = r
      BY <2>3 DEF IsFold
    <3>3. QED BY <3>1, <3>2, <1>0
  <2>6. QED
    BY <2>5
<1> HIDE DEF iter
<1>a. \A q \in SUBSET (DOMAIN ms) :
        iter[q] = IF q = {} THEN r ELSE Known(iter[q \ {Max(q)}], ms[Max(q)])
  <2> DEFINE f == [q \in SUBSET (DOMAIN ms) |->
                IF q = {} THEN r ELSE LET x == Max(q) IN Known(iter[q \ {x}], ms[x])]
  <2>1. \A q \in SUBSET (DOMAIN ms) :
        f[q] = IF q = {} THEN r ELSE Known(iter[q \ {Max(q)}], ms[Max(q)])
    OBVIOUS
  <2>2. iter = f
    BY <1>2
  <2> HIDE DEF f
  <2>3. QED
    BY <2>1, <2>2
<1> DEFINE Good(k) == /\ iter[1..k] \in U /\ Extends(r, iter[1..k])
                      /\ \A i \in 1..k : ms[i] \in ToSet(iter[1..k])
           S == {k \in Nat : k <= n => Good(k)}
<1>3. 0 \in S
  <2>1. iter[{}] = r
    BY <1>a
  <2>2. 1..0 = {}
    OBVIOUS
  <2>3. r \in U /\ Extends(r, r)
    BY DEF Extends, Registry
  <2> HIDE DEF U
  <2>4. QED
    BY <2>1, <2>2, <2>3
<1>4. ASSUME NEW k \in Nat, k \in S PROVE k + 1 \in S
  <2> HIDE DEF U, Good
  <2>1. SUFFICES ASSUME k + 1 <= n PROVE Good(k + 1)
    OBVIOUS
  <2>2. iter[1..k+1] = Known(iter[1..k], ms[k+1])
    <3>1. 1..k+1 \in SUBSET (DOMAIN ms)
      BY <1>0, <2>1
    <3>2. iter[1..k+1] = Known(iter[(1..k+1) \ {Max(1..k+1)}], ms[Max(1..k+1)])
      BY <1>a, <3>1, MaxOfRange
    <3>3. QED
      BY <3>2, MaxOfRange
  <2>3. Good(k) /\ k + 1 \in 1..n
    BY <1>0, <1>4, <2>1
  <2> USE DEF Good
  <2>4. iter[1..k] \in Registry(T) /\ Extends(r, iter[1..k])
    BY <2>3 DEF U
  <2>5. /\ iter[1..k+1] \in Registry(T) /\ Extends(iter[1..k], iter[1..k+1])
        /\ ms[k+1] \in ToSet(iter[1..k+1])
    BY <1>0, <2>2, <2>3, <2>4, KnownGrows
  <2>6. r \in Seq(T) /\ iter[1..k] \in Seq(T) /\ iter[1..k+1] \in Seq(T)
    BY <2>4, <2>5 DEF Registry
  <2>7. Extends(r, iter[1..k+1])
    BY <2>4, <2>5, <2>6, ExtendsTrans
  <2>8. ASSUME NEW i \in 1..k+1 PROVE ms[i] \in ToSet(iter[1..k+1])
    <3>1. CASE i = k + 1
      BY <2>5, <3>1
    <3>2. CASE i # k + 1
      <4>1. i \in 1..k
        BY <3>2
      <4>2. ms[i] \in ToSet(iter[1..k])
        BY <2>3, <4>1
      <4>3. QED
        BY <2>5, <2>6, <4>2, ExtendsHas
    <3>3. QED BY <3>1, <3>2
  <2>9. QED
    BY <2>5, <2>7, <2>8 DEF U
<1> HIDE DEF S
<1>5. n \in S
  BY <1>0, <1>3, <1>4, Induction
<1>6. QED
  <2>1. Good(n)
    BY <1>0, <1>5 DEF S
  <2>2. FoldLeft(Known, r, ms) = iter[1..n]
    BY <1>0, <1>1
  <2>3. QED
    BY <2>1, <2>2 DEF KnowsAll

LEMMA IndexFound ==
  ASSUME NEW T, NEW r \in Seq(T), NEW x \in ToSet(r)
  PROVE  IndexIn(r, x) \in Nat /\ IndexIn(r, x) + 1 \in 1..Len(r) /\ r[IndexIn(r, x) + 1] = x
<1>1. DOMAIN r = 1..Len(r) /\ Len(r) \in Nat
  OBVIOUS
<1>2. \E i \in 1..Len(r) : r[i] = x
  BY ToSetIs
<1> DEFINE c == CHOOSE i \in DOMAIN r : r[i] = x
<1>3. c \in 1..Len(r) /\ r[c] = x
  BY <1>1, <1>2
<1> HIDE DEF c
<1>4. IndexIn(r, x) = c - 1
  BY DEF IndexIn, c
<1>5. c - 1 \in Nat /\ (c - 1) + 1 = c
  BY <1>1, <1>3
<1>6. QED
  BY <1>3, <1>4, <1>5

(* A registry of finitely many things is not longer than they are many.     *)
LEMMA RegistrySmall ==
  ASSUME NEW T, IsFiniteSet(T), NEW r \in Registry(T)
  PROVE  Len(r) <= Cardinality(T) /\ Cardinality(T) \in Nat
<1>1. Len(r) \in Nat /\ r \in [1..Len(r) -> T] /\ \A i, j \in 1..Len(r) : r[i] = r[j] => i = j
  BY DEF Registry
<1>2. r \in Injection(1..Len(r), T)
  BY <1>1 DEF Injection, IsInjective
<1>3. Cardinality(1..Len(r)) <= Cardinality(T)
  BY <1>2, FS_Injection
<1>4. Cardinality(1..Len(r)) = Len(r)
  <2>1. 1 \in Int /\ Len(r) \in Int
    BY <1>1
  <2>2. Cardinality(1..Len(r)) = IF 1 > Len(r) THEN 0 ELSE Len(r) - 1 + 1
    BY <2>1, FS_Interval
  <2>3. QED
    BY <1>1, <2>2
<1>5. QED
  BY <1>3, <1>4, FS_CardinalityType

-----------------------------------------------------------------------------
(***************************************************************************)
(* The records of the two containers.                                      *)
(***************************************************************************)
(* What a record says: the place from a corner, the size, and an index.     *)
Row(b, corner, g) == <<b.x - corner[1], b.y - corner[2], b.z - corner[3], b.size, g>>
Origin == <<0, 0, 0>>

LEMMA SmallPowers == 2^0 = 1 /\ 2^1 = 2 /\ 2^2 = 4
<1>1. 0 \in Nat /\ 1 \in Nat /\ 0 + 1 = 1 /\ 1 + 1 = 2
  OBVIOUS
<1>2. 2^0 = 1 /\ 2^(0 + 1) = 2 * 2^0
  BY <1>1, PowerOfTwo
<1>3. 2^(1 + 1) = 2 * 2^1
  BY <1>1, PowerOfTwo
<1>4. QED
  BY <1>1, <1>2, <1>3

LEMMA Bounds ==
  /\ CoorBits \in Nat /\ MatBits \in Nat
  /\ 2^CoorBits \in Nat /\ 2^CoorBits < 2^BoundBits
  /\ 2^MatBits \in Nat /\ 2^MatBits <= 2^(BoundBits + 1)
  /\ 2^BoundBits \in Nat /\ 2^BoundBits <= 2^(BoundBits + 1) /\ 2^(BoundBits + 1) \in Nat
<1>1. CoorBits \in 0..15 /\ MatBits \in 0..16
  BY StorageAssumption DEF BoundBits
<1>2. CoorBits \in Nat /\ MatBits \in Nat /\ CoorBits <= 15 /\ MatBits <= 17
      /\ 15 \in Nat /\ 16 \in Nat /\ 17 \in Nat /\ 15 + 1 = 16 /\ 16 + 1 = 17
  BY <1>1
<1>3. 2^CoorBits <= 2^15 /\ 2^MatBits <= 2^17 /\ 2^16 <= 2^17
  <2>1. 2^CoorBits <= 2^15
    BY <1>2, PowerGrows, Zenon
  <2>2. 2^MatBits <= 2^17
    BY <1>2, PowerGrows, Zenon
  <2>3. 16 <= 17
    OBVIOUS
  <2>4. 2^16 <= 2^17
    BY <1>2, <2>3, PowerGrows, Zenon
  <2>5. QED
    BY <2>1, <2>2, <2>4
<1>4. 2^16 = 2 * 2^15 /\ 2^15 \in Nat \ {0} /\ 2^16 \in Nat /\ 2^17 \in Nat
      /\ 2^CoorBits \in Nat /\ 2^MatBits \in Nat
  <2>1. 2^(15 + 1) = 2 * 2^15 /\ 2^15 \in Nat \ {0}
    BY <1>2, PowerOfTwo
  <2>2. \A n \in Nat : 2^n \in Nat
    BY PowerOfTwo
  <2>3. QED
    BY <1>2, <2>1, <2>2
<1>5. BoundBits = 16 /\ BoundBits + 1 = 17
  BY DEF BoundBits
<1>6. 2^CoorBits < 2^16
  BY <1>3, <1>4
<1>7. QED
  BY <1>2, <1>3, <1>4, <1>5, <1>6

LEMMA BitsEnough ==
  ASSUME NEW range \in Nat, range <= 2^(BoundBits + 1)
  PROVE  bitsNeeded(range) \in Nat /\ range <= 2^(bitsNeeded(range))
<1> DEFINE T == {bits \in 0..(BoundBits + 1) : 2^bits >= range}
<1>1. BoundBits + 1 \in T /\ T \in SUBSET Nat
  BY DEF BoundBits
<1>2. PICK x \in T : \A y \in T : ~(<<y, x>> \in OpToRel(<, Nat))
  BY <1>1, NatLessThanWellFounded, WFMin
<1>3. x \in Nat /\ \A y \in T : ~(y < x)
  BY <1>1, <1>2 DEF OpToRel
<1>4. x > 0 => 2^(x - 1) < range
  <2>1. SUFFICES ASSUME x > 0 PROVE 2^(x - 1) < range
    OBVIOUS
  <2>2. x - 1 \in 0..(BoundBits + 1) /\ x - 1 < x /\ x - 1 \in Nat
    BY <1>3, <2>1 DEF BoundBits
  <2>3. x - 1 \notin T
    BY <1>3, <2>2
  <2>4. 2^(x - 1) \in Nat
    BY <2>2, PowerOfTwo
  <2>5. QED
    BY <2>2, <2>3, <2>4
<1>5. \E bits \in 0..(BoundBits + 1) : 2^bits >= range /\ (bits > 0 => 2^(bits - 1) < range)
  BY <1>2, <1>4
<1> DEFINE c == CHOOSE bits \in 0..(BoundBits + 1) : 2^bits >= range /\ (bits > 0 => 2^(bits - 1) < range)
<1>6. c \in 0..(BoundBits + 1) /\ 2^c >= range
  BY <1>5
<1> HIDE DEF c
<1>7. bitsNeeded(range) = c
  BY DEF bitsNeeded, c
<1>8. c \in Nat
  BY <1>6 DEF BoundBits
<1>9. 2^c \in Nat
  BY <1>8, PowerOfTwo
<1>10. QED
  BY <1>6, <1>7, <1>8, <1>9

LEMMA IsList ==
  ASSUME NEW T, NEW n \in Nat, NEW f \in [1..n -> T]
  PROVE  f \in Seq(T) /\ Len(f) = n
  OBVIOUS

Joined(v, s, t) ==
  /\ \A i \in 1..Len(s) : v[i] = s[i]
  /\ \A i \in 1..Len(t) : v[Len(s) + i] = t[i]

LEMMA JoinAt ==
  ASSUME NEW T, NEW s \in Seq(T), NEW t \in Seq(T)
  PROVE  Joined(s \o t, s, t)
  BY DEF Joined

LEMMA Five ==
  ASSUME NEW f \in [1..3 -> Nat], NEW a \in Nat, NEW c \in Nat
  PROVE  f \o <<a, c>> = <<f[1], f[2], f[3], a, c>> /\ f \o <<a, c>> \in Seq(Nat)
<1> DEFINE q == <<a, c>>
           v == f \o q
           t == <<f[1], f[2], f[3], a, c>>
<1>1. f \in Seq(Nat) /\ Len(f) = 3
  BY IsList
<1>2. v \in Seq(Nat) /\ Len(v) = 5 /\ v[4] = a /\ v[5] = c /\ \A i \in 1..3 : v[i] = f[i]
  <2>1. q \in Seq(Nat) /\ Len(q) = 2 /\ q[1] = a /\ q[2] = c
    OBVIOUS
  <2> HIDE DEF q
  <2>2. v \in Seq(Nat) /\ Len(v) = Len(f) + Len(q)
    BY <1>1, <2>1, LenJoin
  <2>a. Joined(v, f, q)
    BY <1>1, <2>1, JoinAt
  <2> HIDE DEF v
  <2>3. \A i \in 1..Len(f) : v[i] = f[i]
    BY <2>a DEF Joined
  <2>4. \A i \in 1..Len(q) : v[Len(f) + i] = q[i]
    BY <2>a DEF Joined
  <2>5. 1 \in 1..Len(q) /\ 2 \in 1..Len(q) /\ Len(f) + 1 = 4 /\ Len(f) + 2 = 5
    BY <1>1, <2>1
  <2>6. v[4] = q[1] /\ v[5] = q[2]
    BY <2>4, <2>5
  <2>7. QED
    BY <1>1, <2>1, <2>2, <2>3, <2>6
<1>3. t \in Seq(Nat) /\ Len(t) = 5 /\ t[1] = f[1] /\ t[2] = f[2] /\ t[3] = f[3] /\ t[4] = a /\ t[5] = c
  OBVIOUS
<1> HIDE DEF q, v, t
<1>4. \A i \in 1..5 : v[i] = t[i]
  <2>1. \A i \in 1..5 : i = 1 \/ i = 2 \/ i = 3 \/ i = 4 \/ i = 5
    OBVIOUS
  <2>2. v[1] = t[1] /\ v[2] = t[2] /\ v[3] = t[3] /\ v[4] = t[4] /\ v[5] = t[5]
    <3>1. 1 \in 1..3 /\ 2 \in 1..3 /\ 3 \in 1..3
      OBVIOUS
    <3>2. QED
      BY <1>2, <1>3, <3>1, Zenon
  <2>3. QED
    BY <2>1, <2>2
<1>5. v = t
  <2>1. v \in Seq(Nat) /\ t \in Seq(Nat) /\ Len(v) = Len(t) /\ \A i \in 1..Len(v) : v[i] = t[i]
    BY <1>2, <1>3, <1>4, Zenon
  <2>2. QED
    BY <2>1, SeqEqual, Zenon
<1>6. QED
  BY <1>2, <1>5 DEF q, v, t

LEMMA PackedFits ==
  ASSUME NEW b \in Blocks, NEW g \in Nat, g < 2^MatBits
  PROVE  /\ PackedWidths \in Seq(Nat) /\ Len(PackedWidths) = 5
         /\ Row(b, Origin, g) \in Rows(PackedWidths)
         /\ Row(b, Origin, g) = <<b.x, b.y, b.z, b.size, g>>
<1>1. CoorBits \in Nat /\ MatBits \in Nat /\ 2^CoorBits \in Nat
  BY Bounds
<1>2. PackedWidths = <<CoorBits, CoorBits, CoorBits, 2, MatBits>>
  BY DEF PackedWidths, SizeBits
<1>3. /\ b.x \in Nat /\ b.x < 2^CoorBits
      /\ b.y \in Nat /\ b.y < 2^CoorBits
      /\ b.z \in Nat /\ b.z < 2^CoorBits
      /\ b.size \in Nat /\ b.size < 4
  BY <1>1 DEF Blocks, Place
<1>4. Row(b, Origin, g) = <<b.x, b.y, b.z, b.size, g>>
  BY <1>3 DEF Row, Origin
<1> DEFINE w == <<CoorBits, CoorBits, CoorBits, 2, MatBits>>
           r == <<b.x, b.y, b.z, b.size, g>>
<1>5. w \in Seq(Nat) /\ Len(w) = 5 /\ r \in Seq(Nat) /\ Len(r) = 5
  BY <1>1, <1>3
<1>6. \A f \in 1..5 : r[f] < 2^(w[f])
  <2>1. r[1] < 2^(w[1]) /\ r[2] < 2^(w[2]) /\ r[3] < 2^(w[3])
    BY <1>3
  <2>2. r[4] < 2^(w[4]) /\ r[5] < 2^(w[5])
    BY <1>3, SmallPowers
  <2>3. \A f \in 1..5 : f = 1 \/ f = 2 \/ f = 3 \/ f = 4 \/ f = 5
    OBVIOUS
  <2>4. QED
    BY <2>1, <2>2, <2>3
<1>7. QED
  BY <1>2, <1>4, <1>5, <1>6 DEF Rows

(* The bounds and the palette of a range compressed chunk.                  *)
RangeOf(c) ==
  /\ c.min \in [1..3 -> Nat] /\ c.max \in [1..3 -> Nat]
  /\ \A i \in 1..3 : c.min[i] < c.max[i] /\ c.max[i] <= 2^CoorBits
  /\ c.palette \in Seq(Nat) /\ Len(c.palette) <= 2^(BoundBits + 1)

LEMMA RangeWidthsAre ==
  ASSUME NEW c, RangeOf(c)
  PROVE  /\ RangeWidths(c) \in Seq(Nat) /\ Len(RangeWidths(c)) = 5
         /\ \A i \in 1..3 : c.max[i] - c.min[i] <= 2^(RangeWidths(c)[i])
         /\ RangeWidths(c)[4] = 2
         /\ Len(c.palette) <= 2^(RangeWidths(c)[5])
<1> DEFINE d(i) == c.max[i] - c.min[i]
           f == [i \in 1..3 |-> bitsNeeded(c.max[i] - c.min[i])]
           p == bitsNeeded(Len(c.palette))
<1>1. ASSUME NEW i \in 1..3 PROVE d(i) \in Nat /\ d(i) <= 2^(BoundBits + 1)
  <2>1. c.min[i] \in Nat /\ c.max[i] \in Nat /\ c.min[i] < c.max[i] /\ c.max[i] <= 2^CoorBits
    BY DEF RangeOf
  <2>2. QED
    BY <2>1, Bounds
<1>2. \A i \in 1..3 : bitsNeeded(d(i)) \in Nat /\ d(i) <= 2^(bitsNeeded(d(i)))
  BY <1>1, BitsEnough
<1>3. p \in Nat /\ Len(c.palette) <= 2^p
  <2>1. Len(c.palette) \in Nat
    BY DEF RangeOf
  <2>2. QED
    BY <2>1, BitsEnough DEF RangeOf
<1>4. f \in [1..3 -> Nat] /\ \A i \in 1..3 : c.max[i] - c.min[i] <= 2^(f[i])
  BY <1>2
<1>5. RangeWidths(c) = f \o <<2, p>>
  BY DEF RangeWidths, SizeBits
<1> HIDE DEF f, p
<1>6. RangeWidths(c) = <<f[1], f[2], f[3], 2, p>> /\ RangeWidths(c) \in Seq(Nat)
  BY <1>3, <1>4, <1>5, Five
<1>7. \A i \in 1..3 : RangeWidths(c)[i] = f[i]
  <2>1. \A i \in 1..3 : i = 1 \/ i = 2 \/ i = 3
    OBVIOUS
  <2>2. QED
    BY <1>6, <2>1
<1>8. Len(RangeWidths(c)) = 5 /\ RangeWidths(c)[4] = 2 /\ RangeWidths(c)[5] = p
  BY <1>6
<1>9. QED
  BY <1>3, <1>4, <1>6, <1>7, <1>8

LEMMA RangeFits ==
  ASSUME NEW c, RangeOf(c), NEW b \in Blocks, Inside(c, b), NEW g \in Nat, g < Len(c.palette)
  PROVE  /\ Row(b, c.min, g) \in Rows(RangeWidths(c))
         /\ [i \in 1..3 |-> At(b)[i] - c.min[i]] \o <<b.size, g>> = Row(b, c.min, g)
<1> DEFINE w == RangeWidths(c)
           f == [i \in 1..3 |-> At(b)[i] - c.min[i]]
           r == Row(b, c.min, g)
<1>1. \A i \in 1..3 : c.min[i] \in Nat /\ c.max[i] \in Nat
  BY DEF RangeOf
<1>2. b.x \in Nat /\ b.y \in Nat /\ b.z \in Nat /\ b.size \in Nat /\ b.size < 4
  BY Bounds DEF Blocks, Place
<1>3. \A i \in 1..3 : At(b)[i] \in Nat /\ At(b)[i] >= c.min[i] /\ At(b)[i] < c.max[i]
  <2>1. \A i \in 1..3 : i = 1 \/ i = 2 \/ i = 3
    OBVIOUS
  <2>2. \A i \in 1..3 : At(b)[i] \in Nat
    BY <1>2, <2>1 DEF At
  <2>3. QED
    BY <2>2 DEF Inside
<1>4. f \in [1..3 -> Nat] /\ \A i \in 1..3 : f[i] < c.max[i] - c.min[i]
  <2>1. ASSUME NEW i \in 1..3 PROVE At(b)[i] - c.min[i] \in Nat /\ At(b)[i] - c.min[i] < c.max[i] - c.min[i]
    <3>1. c.min[i] \in Nat /\ c.max[i] \in Nat
      BY <1>1
    <3>2. At(b)[i] \in Nat /\ At(b)[i] >= c.min[i] /\ At(b)[i] < c.max[i]
      BY <1>3
    <3>3. QED
      BY <3>1, <3>2
  <2>2. QED
    BY <2>1
<1>5. f[1] = b.x - c.min[1] /\ f[2] = b.y - c.min[2] /\ f[3] = b.z - c.min[3]
  BY DEF At
<1> HIDE DEF f
<1>6. f \o <<b.size, g>> = <<f[1], f[2], f[3], b.size, g>> /\ f \o <<b.size, g>> \in Seq(Nat)
  BY <1>2, <1>4, Five
<1>7. f \o <<b.size, g>> = r
  BY <1>5, <1>6 DEF Row
<1> HIDE DEF r
<1>8. /\ r \in Seq(Nat) /\ Len(r) = 5 /\ r[4] = b.size /\ r[5] = g
      /\ r[1] = f[1] /\ r[2] = f[2] /\ r[3] = f[3]
  <2>1. r = <<f[1], f[2], f[3], b.size, g>> /\ r \in Seq(Nat)
    BY <1>6, <1>7
  <2>2. QED
    BY <2>1
<1>9. /\ w \in Seq(Nat) /\ Len(w) = 5
      /\ \A i \in 1..3 : c.max[i] - c.min[i] <= 2^(w[i])
      /\ w[4] = 2 /\ Len(c.palette) <= 2^(w[5])
  BY RangeWidthsAre
<1> HIDE DEF w
<1>10. ASSUME NEW i \in 1..5 PROVE 2^(w[i]) \in Nat
  <2>1. w \in Seq(Nat) /\ i \in 1..Len(w)
    BY <1>9
  <2>2. w[i] \in Nat
    BY <2>1
  <2>3. QED
    BY <2>2, PowerOfTwo
<1>11. ASSUME NEW i \in 1..5 PROVE r[i] < 2^(w[i])
  <2>1. CASE i \in 1..3
    <3>1. r[i] = f[i]
      <4>1. i = 1 \/ i = 2 \/ i = 3
        BY <2>1
      <4>2. QED
        BY <1>8, <4>1
    <3>2. f[i] \in Nat /\ f[i] < c.max[i] - c.min[i]
      BY <1>4, <2>1
    <3>3. c.max[i] - c.min[i] <= 2^(w[i]) /\ 2^(w[i]) \in Nat
      BY <1>9, <1>10, <2>1
    <3>4. c.max[i] \in Nat /\ c.min[i] \in Nat
      BY <1>1, <2>1
    <3>5. QED
      BY <3>1, <3>2, <3>3, <3>4
  <2>2. CASE i = 4
    BY <1>2, <1>8, <1>9, <2>2, SmallPowers
  <2>3. CASE i = 5
    <3>1. Len(c.palette) \in Nat
      BY DEF RangeOf
    <3>2. QED
      BY <1>8, <1>9, <1>10, <2>3, <3>1
  <2>4. QED
    BY <2>1, <2>2, <2>3
<1>12. r \in Rows(w)
  BY <1>8, <1>9, <1>11 DEF Rows
<1>13. QED
  BY <1>7, <1>12 DEF f, r, w

-----------------------------------------------------------------------------
(***************************************************************************)
(* What it means that a chunk holds blocks.                                *)
(***************************************************************************)
RowsOf(bs, corner, idx) == [i \in 1..Len(bs) |-> Row(bs[i], corner, idx[i])]

(* The chunk c holds the blocks bs, their materials named by the registry   *)
(* r; idx gives the index that each record has for its material.            *)
PackedShape(c, n) ==
  /\ c = [codec |-> "packed", count |-> n, data |-> c.data, remap |-> c.remap]
  /\ c.remap \in [DOMAIN c.remap -> Nat]

RangeShape(c, n) ==
  /\ c = [codec |-> "range", count |-> n, data |-> c.data,
          min |-> c.min, max |-> c.max, palette |-> c.palette]
  /\ RangeOf(c)

Named(r, g, m) == g + 1 \in 1..Len(r) /\ r[g + 1] = m

HoldsPacked(c, bs, r, idx) ==
  /\ PackedShape(c, Len(bs))
  /\ \A i \in 1..Len(bs) : idx[i] < 2^MatBits /\ Named(r, Local(c, idx[i]), bs[i].material)
  /\ Laid(c.data, PackedWidths, RowsOf(bs, Origin, idx))

HoldsRange(c, bs, r, idx) ==
  /\ RangeShape(c, Len(bs))
  /\ \A i \in 1..Len(bs) : /\ Inside(c, bs[i]) /\ idx[i] < Len(c.palette)
                           /\ Named(r, c.palette[idx[i] + 1], bs[i].material)
  /\ Laid(c.data, RangeWidths(c), RowsOf(bs, c.min, idx))

Holds(c, bs, r) ==
  \E idx \in [1..Len(bs) -> Nat] : HoldsPacked(c, bs, r, idx) \/ HoldsRange(c, bs, r, idx)

LEMMA PackedRows ==
  ASSUME NEW bs \in Seq(Blocks), NEW idx \in [1..Len(bs) -> Nat],
         \A i \in 1..Len(bs) : idx[i] < 2^MatBits
  PROVE  /\ PackedWidths \in Seq(Nat) /\ Len(PackedWidths) = 5
         /\ RowsOf(bs, Origin, idx) \in Seq(Rows(PackedWidths))
         /\ Len(RowsOf(bs, Origin, idx)) = Len(bs)
<1> DEFINE n == Len(bs)
<1>1. n \in Nat /\ \A i \in 1..n : bs[i] \in Blocks /\ idx[i] \in Nat
  OBVIOUS
<1>2. \A i \in 1..n : Row(bs[i], Origin, idx[i]) \in Rows(PackedWidths)
  BY <1>1, PackedFits
<1>3. RowsOf(bs, Origin, idx) \in [1..n -> Rows(PackedWidths)]
  BY <1>2 DEF RowsOf
<1>4. RowsOf(bs, Origin, idx) \in Seq(Rows(PackedWidths)) /\ Len(RowsOf(bs, Origin, idx)) = n
  BY <1>1, <1>3, IsList
<1>5. PackedWidths \in Seq(Nat) /\ Len(PackedWidths) = 5
  BY Bounds DEF PackedWidths, SizeBits
<1>6. QED
  BY <1>4, <1>5

LEMMA RangeRows ==
  ASSUME NEW c, RangeOf(c), NEW bs \in Seq(Blocks), NEW idx \in [1..Len(bs) -> Nat],
         \A i \in 1..Len(bs) : Inside(c, bs[i]) /\ idx[i] < Len(c.palette)
  PROVE  /\ RangeWidths(c) \in Seq(Nat) /\ Len(RangeWidths(c)) = 5
         /\ RowsOf(bs, c.min, idx) \in Seq(Rows(RangeWidths(c)))
         /\ Len(RowsOf(bs, c.min, idx)) = Len(bs)
<1> DEFINE n == Len(bs)
<1>1. n \in Nat /\ \A i \in 1..n : bs[i] \in Blocks /\ idx[i] \in Nat
  OBVIOUS
<1>2. \A i \in 1..n : Row(bs[i], c.min, idx[i]) \in Rows(RangeWidths(c))
  BY <1>1, RangeFits
<1>3. RowsOf(bs, c.min, idx) \in [1..n -> Rows(RangeWidths(c))]
  BY <1>2 DEF RowsOf
<1>4. RowsOf(bs, c.min, idx) \in Seq(Rows(RangeWidths(c))) /\ Len(RowsOf(bs, c.min, idx)) = n
  BY <1>1, <1>3, IsList
<1>5. QED
  BY <1>4, RangeWidthsAre

LEMMA RowAt ==
  ASSUME NEW bs, NEW corner, NEW idx, NEW i \in 1..Len(bs)
  PROVE  RowsOf(bs, corner, idx)[i] = <<bs[i].x - corner[1], bs[i].y - corner[2], bs[i].z - corner[3],
                                        bs[i].size, idx[i]>>
  BY DEF RowsOf, Row

LEMMA BlockIs ==
  ASSUME NEW b \in Blocks
  PROVE  /\ b.x \in Nat /\ b.y \in Nat /\ b.z \in Nat /\ b.size \in Nat /\ b.material \in Material
         /\ b = [x |-> b.x, y |-> b.y, z |-> b.z, size |-> b.size, material |-> b.material]
  BY Bounds DEF Blocks, Place

(* Unpacking gives back what is held.                                       *)
LEMMA PackedKept ==
  ASSUME NEW c, NEW bs \in Seq(Blocks), NEW r, NEW idx \in [1..Len(bs) -> Nat],
         HoldsPacked(c, bs, r, idx)
  PROVE  /\ \A i \in 1..Len(bs) : Field(c.data, i - 1, 5, PackedWidths) = idx[i]
         /\ UnpackPacked(c, r) = bs
<1> DEFINE n == Len(bs)
           w == PackedWidths
           rows == RowsOf(bs, Origin, idx)
           f(i, k) == Field(c.data, i - 1, k, w)
<1>1. /\ w \in Seq(Nat) /\ Len(w) = 5 /\ rows \in Seq(Rows(w)) /\ Len(rows) = n
      /\ Laid(c.data, w, rows) /\ c.count = n /\ n \in Nat
  BY PackedRows DEF HoldsPacked, PackedShape
<1>2. \A i \in 1..n : rows[i] = <<bs[i].x - Origin[1], bs[i].y - Origin[2], bs[i].z - Origin[3],
                                  bs[i].size, idx[i]>>
  BY RowAt
<1> HIDE DEF w, rows
<1>3. ASSUME NEW i \in 1..n
      PROVE  /\ f(i, 1) = bs[i].x /\ f(i, 2) = bs[i].y /\ f(i, 3) = bs[i].z
             /\ f(i, 4) = bs[i].size /\ f(i, 5) = idx[i]
  <2>1. ASSUME NEW k \in 1..5 PROVE f(i, k) = rows[i][k]
    <3>1. i \in 1..Len(rows) /\ k \in 1..Len(w)
      BY <1>1
    <3>2. Field(c.data, i - 1, k, w) = rows[i][k]
      BY <1>1, <3>1, LaidRead
    <3>3. QED
      BY <3>2
  <2>2. bs[i] \in Blocks
    OBVIOUS
  <2>3. bs[i].x \in Nat /\ bs[i].y \in Nat /\ bs[i].z \in Nat
    BY <2>2, BlockIs
  <2>4. rows[i] = <<bs[i].x, bs[i].y, bs[i].z, bs[i].size, idx[i]>>
    BY <1>2, <2>3 DEF Origin
  <2> HIDE DEF f
  <2>5. QED
    BY <2>1, <2>4
<1> DEFINE u(i) == [x |-> f(i, 1), y |-> f(i, 2), z |-> f(i, 3), size |-> f(i, 4),
                    material |-> r[Local(c, f(i, 5)) + 1]]
<1>4. UnpackPacked(c, r) = [i \in 1..n |-> u(i)]
  BY <1>1 DEF UnpackPacked, w
<1>5. ASSUME NEW i \in 1..n PROVE u(i) = bs[i]
  <2>1. r[Local(c, idx[i]) + 1] = bs[i].material
    BY DEF HoldsPacked, Named
  <2>2. bs[i] \in Blocks
    OBVIOUS
  <2>3. bs[i] = [x |-> bs[i].x, y |-> bs[i].y, z |-> bs[i].z, size |-> bs[i].size,
                 material |-> bs[i].material]
    BY <2>2, BlockIs
  <2> HIDE DEF f
  <2>4. u(i) = [x |-> bs[i].x, y |-> bs[i].y, z |-> bs[i].z, size |-> bs[i].size,
                material |-> bs[i].material]
    BY <1>3, <2>1
  <2>5. QED
    BY <2>3, <2>4
<1>6. bs = [i \in 1..n |-> bs[i]]
  OBVIOUS
<1> HIDE DEF u
<1>7. [i \in 1..n |-> u(i)] = [i \in 1..n |-> bs[i]]
  BY <1>5
<1>8. UnpackPacked(c, r) = bs
  BY <1>4, <1>6, <1>7
<1>9. QED
  BY <1>3, <1>8 DEF f, w

LEMMA RangeKept ==
  ASSUME NEW c, NEW bs \in Seq(Blocks), NEW r, NEW idx \in [1..Len(bs) -> Nat],
         HoldsRange(c, bs, r, idx)
  PROVE  UnpackRange(c, r) = bs
<1> DEFINE n == Len(bs)
           w == RangeWidths(c)
           rows == RowsOf(bs, c.min, idx)
           f(i, k) == Field(c.data, i - 1, k, w)
<1>1. /\ w \in Seq(Nat) /\ Len(w) = 5 /\ rows \in Seq(Rows(w)) /\ Len(rows) = n
      /\ Laid(c.data, w, rows) /\ c.count = n /\ n \in Nat
  <2>1. RangeOf(c) /\ c.count = n
    BY DEF HoldsRange, RangeShape
  <2>2. /\ \A i \in 1..Len(bs) : Inside(c, bs[i]) /\ idx[i] < Len(c.palette)
        /\ Laid(c.data, w, rows)
    BY DEF HoldsRange
  <2>3. n \in Nat
    OBVIOUS
  <2> HIDE DEF HoldsRange
  <2>4. w \in Seq(Nat) /\ Len(w) = 5 /\ rows \in Seq(Rows(w)) /\ Len(rows) = n
    BY <2>1, <2>2, RangeRows
  <2>5. QED
    BY <2>1, <2>2, <2>3, <2>4
<1>2. \A i \in 1..n : rows[i] = <<bs[i].x - c.min[1], bs[i].y - c.min[2], bs[i].z - c.min[3],
                                  bs[i].size, idx[i]>>
  BY RowAt
<1>m. c.min[1] \in Nat /\ c.min[2] \in Nat /\ c.min[3] \in Nat
  BY DEF HoldsRange, RangeShape, RangeOf
<1> HIDE DEF w, rows
<1>3. ASSUME NEW i \in 1..n
      PROVE  /\ c.min[1] + f(i, 1) = bs[i].x /\ c.min[2] + f(i, 2) = bs[i].y
             /\ c.min[3] + f(i, 3) = bs[i].z
             /\ f(i, 4) = bs[i].size /\ f(i, 5) = idx[i]
  <2>1. ASSUME NEW k \in 1..5 PROVE f(i, k) = rows[i][k]
    <3>1. i \in 1..Len(rows) /\ k \in 1..Len(w)
      BY <1>1
    <3>2. Field(c.data, i - 1, k, w) = rows[i][k]
      BY <1>1, <3>1, LaidRead
    <3>3. QED
      BY <3>2
  <2>2. bs[i] \in Blocks
    OBVIOUS
  <2>3. bs[i].x \in Nat /\ bs[i].y \in Nat /\ bs[i].z \in Nat
    BY <2>2, BlockIs
  <2> HIDE DEF f
  <2>4. /\ f(i, 1) = bs[i].x - c.min[1] /\ f(i, 2) = bs[i].y - c.min[2]
        /\ f(i, 3) = bs[i].z - c.min[3] /\ f(i, 4) = bs[i].size /\ f(i, 5) = idx[i]
    BY <1>2, <2>1
  <2>5. \A m, y \in Nat : m + (y - m) = y
    OBVIOUS
  <2>6. c.min[1] + f(i, 1) = bs[i].x
    BY <1>m, <2>3, <2>4, <2>5, ZenonT(60)
  <2>7. c.min[2] + f(i, 2) = bs[i].y
    BY <1>m, <2>3, <2>4, <2>5, ZenonT(60)
  <2>8. c.min[3] + f(i, 3) = bs[i].z
    BY <1>m, <2>3, <2>4, <2>5, ZenonT(60)
  <2>9. QED
    BY <2>4, <2>6, <2>7, <2>8
<1> DEFINE u(i) == [x |-> c.min[1] + f(i, 1), y |-> c.min[2] + f(i, 2), z |-> c.min[3] + f(i, 3),
                    size |-> f(i, 4), material |-> r[c.palette[f(i, 5) + 1] + 1]]
<1>4. UnpackRange(c, r) = [i \in 1..n |-> u(i)]
  BY <1>1 DEF UnpackRange, w
<1>5. ASSUME NEW i \in 1..n PROVE u(i) = bs[i]
  <2>1. r[c.palette[idx[i] + 1] + 1] = bs[i].material
    BY DEF HoldsRange, Named
  <2>2. bs[i] \in Blocks
    OBVIOUS
  <2>3. bs[i] = [x |-> bs[i].x, y |-> bs[i].y, z |-> bs[i].z, size |-> bs[i].size,
                 material |-> bs[i].material]
    BY <2>2, BlockIs
  <2> HIDE DEF f
  <2>4. u(i) = [x |-> bs[i].x, y |-> bs[i].y, z |-> bs[i].z, size |-> bs[i].size,
                material |-> bs[i].material]
    BY <1>3, <2>1
  <2>5. QED
    BY <2>3, <2>4
<1>6. bs = [i \in 1..n |-> bs[i]]
  OBVIOUS
<1> HIDE DEF u
<1>7. [i \in 1..n |-> u(i)] = [i \in 1..n |-> bs[i]]
  BY <1>5
<1>8. QED
  BY <1>4, <1>6, <1>7

(* unpack gives back the blocks that a chunk holds, in their order, from    *)
(* either container and with the materials they were named by.              *)
THEOREM Kept ==
  ASSUME NEW c, NEW bs \in Seq(Blocks), NEW r, Holds(c, bs, r)
  PROVE  Unpack(c, r) = bs
<1>1. PICK idx \in [1..Len(bs) -> Nat] : HoldsPacked(c, bs, r, idx) \/ HoldsRange(c, bs, r, idx)
  BY DEF Holds
<1>2. c.count = Len(bs)
  BY <1>1 DEF HoldsPacked, HoldsRange, PackedShape, RangeShape
<1>3. CASE Len(bs) = 0
  <2>1. bs = <<>>
    BY <1>3
  <2>2. QED
    BY <1>2, <1>3, <2>1 DEF Unpack
<1>4. CASE Len(bs) # 0 /\ HoldsPacked(c, bs, r, idx)
  <2>1. c.codec = "packed"
    BY <1>4 DEF HoldsPacked, PackedShape
  <2>2. UnpackPacked(c, r) = bs
    BY <1>4, PackedKept
  <2>3. QED
    BY <1>2, <1>4, <2>1, <2>2 DEF Unpack
<1>5. CASE Len(bs) # 0 /\ HoldsRange(c, bs, r, idx)
  <2>1. c.codec = "range"
    BY <1>5 DEF HoldsRange, RangeShape
  <2>2. UnpackRange(c, r) = bs
    BY <1>5, RangeKept
  <2>3. QED
    BY <1>2, <1>5, <2>1, <2>2 DEF Unpack
<1>6. QED
  BY <1>1, <1>3, <1>4, <1>5

-----------------------------------------------------------------------------
(***************************************************************************)
(* The bit-packed container.                                               *)
(***************************************************************************)
LEMMA IndexSmall ==
  ASSUME NEW r \in Registry(Material), NEW m \in ToSet(r)
  PROVE  IndexIn(r, m) \in Nat /\ IndexIn(r, m) < 2^MatBits /\ Named(r, IndexIn(r, m), m)
<1>1. r \in Seq(Material)
  BY DEF Registry
<1>2. IndexIn(r, m) \in Nat /\ IndexIn(r, m) + 1 \in 1..Len(r) /\ r[IndexIn(r, m) + 1] = m
  BY <1>1, IndexFound
<1>3. IsFiniteSet(Material) /\ Cardinality(Material) <= 2^MatBits
  BY StorageAssumption
<1>4. Len(r) <= Cardinality(Material) /\ Cardinality(Material) \in Nat
  BY <1>3, RegistrySmall
<1>5. Len(r) \in Nat /\ 2^MatBits \in Nat
  BY <1>1, Bounds
<1>6. QED
  BY <1>2, <1>3, <1>4, <1>5 DEF Named

Appended(bs, b, corner, idx, g, jdx) ==
  /\ jdx[Len(bs) + 1] = g /\ \A i \in 1..Len(bs) : jdx[i] = idx[i]
  /\ RowsOf(Append(bs, b), corner, jdx) = Append(RowsOf(bs, corner, idx), Row(b, corner, g))

LEMMA RowsAppend ==
  ASSUME NEW bs \in Seq(Blocks), NEW idx \in [1..Len(bs) -> Nat], NEW b \in Blocks, NEW g \in Nat,
         NEW corner
  PROVE  \E jdx \in [1..Len(Append(bs, b)) -> Nat] : Appended(bs, b, corner, idx, g, jdx)
<1> DEFINE n == Len(bs)
           more == Append(bs, b)
           jdx == [i \in 1..n + 1 |-> IF i = n + 1 THEN g ELSE idx[i]]
           rows == RowsOf(bs, corner, idx)
           x == Row(b, corner, g)
<1>1. n \in Nat /\ Len(more) = n + 1 /\ more[n + 1] = b /\ \A i \in 1..n : more[i] = bs[i]
  OBVIOUS
<1>2. jdx \in [1..n + 1 -> Nat] /\ jdx[n + 1] = g /\ \A i \in 1..n : jdx[i] = idx[i]
  BY <1>1
<1> HIDE DEF more, jdx
<1>3. rows = [i \in 1..n |-> Row(bs[i], corner, idx[i])]
  BY DEF RowsOf
<1> HIDE DEF n, x
<1>4. Append(rows, x) = [i \in 1..n + 1 |-> IF i = n + 1 THEN x ELSE Row(bs[i], corner, idx[i])]
  BY <1>1, <1>3
<1>5. RowsOf(more, corner, jdx) = [i \in 1..n + 1 |-> Row(more[i], corner, jdx[i])]
  BY <1>1 DEF RowsOf
<1>6. ASSUME NEW i \in 1..n + 1
      PROVE Row(more[i], corner, jdx[i]) = IF i = n + 1 THEN x ELSE Row(bs[i], corner, idx[i])
  <2>1. CASE i = n + 1
    BY <1>1, <1>2, <2>1 DEF x
  <2>2. CASE i # n + 1
    <3>1. i \in 1..n
      BY <1>1, <2>2
    <3>2. QED
      BY <1>1, <1>2, <2>2, <3>1
  <2>3. QED BY <2>1, <2>2
<1>7. RowsOf(more, corner, jdx) = Append(rows, x)
  BY <1>4, <1>5, <1>6
<1>8. QED
  BY <1>1, <1>2, <1>7 DEF n, more, x, Appended

(* BitPackedStorageChunk::pack and add.                                     *)
LEMMA PacksPacked ==
  ASSUME NEW bs \in Seq(Blocks), NEW r \in Registry(Material),
         \A i \in 1..Len(bs) : bs[i].material \in ToSet(r)
  PROVE  Holds(PackPacked(bs, r), bs, r)
<1> DEFINE n == Len(bs)
           w == PackedWidths
           idx == [i \in 1..n |-> IndexIn(r, bs[i].material)]
           rows == RowsOf(bs, Origin, idx)
           c == PackPacked(bs, r)
<1>1. \A i \in 1..n : /\ idx[i] \in Nat /\ idx[i] < 2^MatBits
                      /\ Named(r, idx[i], bs[i].material)
  BY IndexSmall
<1>2. idx \in [1..n -> Nat] /\ n \in Nat
  BY <1>1
<1>i. \A i \in 1..n : idx[i] = IndexIn(r, bs[i].material)
  OBVIOUS
<1> HIDE DEF idx
<1>3. w \in Seq(Nat) /\ rows \in Seq(Rows(w)) /\ Len(rows) = n
  BY <1>1, <1>2, PackedRows
<1>4. ASSUME NEW i \in 1..n PROVE Record(rows[i], w) = PackedRecord(bs[i], r)
  <2>1. bs[i] \in Blocks /\ idx[i] \in Nat /\ idx[i] < 2^MatBits
    BY <1>1
  <2>2. Row(bs[i], Origin, idx[i]) = <<bs[i].x, bs[i].y, bs[i].z, bs[i].size, idx[i]>>
    BY <2>1, PackedFits
  <2>3. rows[i] = Row(bs[i], Origin, idx[i])
    BY DEF RowsOf
  <2>4. QED
    BY <2>2, <2>3, <1>i DEF PackedRecord
<1> HIDE DEF rows, w
<1>5. DOMAIN rows = 1..n /\ DOMAIN bs = 1..n
  BY <1>3
<1>6. [i \in DOMAIN bs |-> PackedRecord(bs[i], r)] = [i \in DOMAIN rows |-> Record(rows[i], w)]
  BY <1>4, <1>5
<1>7. c = [codec |-> "packed", count |-> n,
           data |-> FlattenSeq([i \in DOMAIN rows |-> Record(rows[i], w)]), remap |-> <<>>]
  BY <1>6 DEF PackPacked
<1>8. Laid(c.data, w, rows)
  <2>1. c.data = FlattenSeq([i \in DOMAIN rows |-> Record(rows[i], w)])
    BY <1>7
  <2>2. QED
    BY <1>3, <2>1, LaidPacked
<1>9. PackedShape(c, n)
  <2>1. c.remap = <<>> /\ c = [codec |-> "packed", count |-> n, data |-> c.data, remap |-> c.remap]
    BY <1>7
  <2>2. <<>> \in [DOMAIN <<>> -> Nat]
    OBVIOUS
  <2>3. QED
    BY <2>1, <2>2 DEF PackedShape
<1>10. \A i \in 1..n : Local(c, idx[i]) = idx[i]
  <2>1. DOMAIN c.remap = {}
    BY <1>7
  <2>2. QED
    BY <2>1 DEF Local
<1>11. HoldsPacked(c, bs, r, idx)
  BY <1>1, <1>8, <1>9, <1>10 DEF HoldsPacked, w, rows
<1>12. QED
  BY <1>2, <1>11 DEF Holds

LEMMA NamedExtends ==
  ASSUME NEW T, NEW r \in Seq(T), NEW k \in Seq(T), Extends(r, k), NEW g, NEW m, Named(r, g, m)
  PROVE  Named(k, g, m)
<1>1. Len(r) \in Nat /\ Len(k) \in Nat
  OBVIOUS
<1>2. QED
  BY <1>1 DEF Named, Extends

LEMMA AddsPacked ==
  ASSUME NEW c, NEW bs \in Seq(Blocks), NEW r \in Registry(Material), NEW k \in Registry(Material),
         Extends(r, k), NEW b \in Blocks, b.material \in ToSet(k),
         NEW idx \in [1..Len(bs) -> Nat], HoldsPacked(c, bs, r, idx), c.remap = <<>>
  PROVE  Holds(AddPacked(c, b, k), Append(bs, b), k)
<1> DEFINE n == Len(bs)
           w == PackedWidths
           rows == RowsOf(bs, Origin, idx)
           g == IndexIn(k, b.material)
           x == Row(b, Origin, g)
           d == AddPacked(c, b, k)
           more == Append(bs, b)
<1>1. g \in Nat /\ g < 2^MatBits /\ Named(k, g, b.material)
  BY IndexSmall
<1>a. PICK jdx \in [1..Len(more) -> Nat] : Appended(bs, b, Origin, idx, g, jdx)
  BY <1>1, RowsAppend
<1>2. /\ jdx[n + 1] = g /\ \A i \in 1..n : jdx[i] = idx[i]
      /\ RowsOf(more, Origin, jdx) = Append(rows, x)
  BY <1>a DEF Appended
<1>3. w \in Seq(Nat) /\ rows \in Seq(Rows(w)) /\ Len(rows) = n /\ Laid(c.data, w, rows)
  BY PackedRows DEF HoldsPacked
<1>4. x \in Rows(w) /\ x = <<b.x, b.y, b.z, b.size, g>>
  BY <1>1, PackedFits
<1>5. PackedRecord(b, k) = Record(x, w)
  BY <1>4 DEF PackedRecord
<1>6. n \in Nat /\ Len(more) = n + 1 /\ more[n + 1] = b /\ \A i \in 1..n : more[i] = bs[i]
  OBVIOUS
<1>7. c = [codec |-> "packed", count |-> n, data |-> c.data, remap |-> <<>>]
  BY DEF HoldsPacked, PackedShape
<1> HIDE DEF w, rows, x, more, n
<1> DEFINE data == SubSeq(c.data, 1, n * RecordBits(w)) \o Record(x, w)
<1>8. d = [c EXCEPT !.count = c.count + 1,
                    !.data = SubSeq(c.data, 1, c.count * RecordBits(w)) \o Record(x, w)]
  BY <1>5 DEF AddPacked, w
<1>c. c.count = n
  BY <1>7
<1>9. d = [codec |-> "packed", count |-> n + 1, data |-> data, remap |-> <<>>]
  <2> DEFINE e == <<>>
             before == c.data
  <2>1. c = [codec |-> "packed", count |-> n, data |-> before, remap |-> e]
    BY <1>7
  <2>2. d = [c EXCEPT !.count = n + 1, !.data = data]
    BY <1>8, <1>c
  <2> HIDE DEF d, data, e, before
  <2>3. d = [codec |-> "packed", count |-> n + 1, data |-> data, remap |-> e]
    BY <2>1, <2>2
  <2>4. QED
    BY <2>3 DEF e
<1>10. Laid(data, w, Append(rows, x))
  BY <1>3, <1>4, LaidAppend
<1> HIDE DEF data, d, g
<1>11. Laid(d.data, w, RowsOf(more, Origin, jdx))
  BY <1>2, <1>9, <1>10
<1>12. PackedShape(d, Len(more))
  <2>1. d.remap = <<>> /\ d = [codec |-> "packed", count |-> n + 1, data |-> d.data, remap |-> d.remap]
    BY <1>9
  <2>2. <<>> \in [DOMAIN <<>> -> Nat]
    OBVIOUS
  <2>3. QED
    BY <1>6, <2>1, <2>2 DEF PackedShape
<1>13. r \in Seq(Material) /\ k \in Seq(Material)
  BY DEF Registry
<1>14. DOMAIN c.remap = {} /\ DOMAIN d.remap = {}
  BY <1>7, <1>9
<1>15. ASSUME NEW i \in 1..n + 1
       PROVE jdx[i] < 2^MatBits /\ Named(k, Local(d, jdx[i]), more[i].material)
  <2>1. CASE i = n + 1
    BY <1>1, <1>2, <1>6, <1>14, <2>1 DEF Local
  <2>2. CASE i # n + 1
    <3>1. i \in 1..n
      BY <1>6, <2>2
    <3>2. idx[i] < 2^MatBits /\ Named(r, Local(c, idx[i]), bs[i].material)
      BY <3>1 DEF HoldsPacked, n
    <3>3. Named(k, Local(c, idx[i]), bs[i].material)
      BY <1>13, <3>2, NamedExtends
    <3>4. Local(c, idx[i]) = idx[i] /\ Local(d, idx[i]) = idx[i]
      BY <1>14 DEF Local
    <3>5. QED
      BY <1>2, <1>6, <3>1, <3>2, <3>3, <3>4
  <2>3. QED BY <2>1, <2>2
<1>16. HoldsPacked(d, more, k, jdx)
  BY <1>6, <1>11, <1>12, <1>15 DEF HoldsPacked, w
<1>17. QED
  BY <1>16 DEF Holds, more, d

-----------------------------------------------------------------------------
(***************************************************************************)
(* The range compressed container.                                         *)
(***************************************************************************)
LEMMA LeastIn ==
  ASSUME NEW s \in Seq(Nat), Len(s) > 0
  PROVE  Least(s) \in Nat /\ (\E i \in 1..Len(s) : s[i] = Least(s)) /\ \A i \in 1..Len(s) : Least(s) <= s[i]
<1> DEFINE T == ToSet(s)
<1>1. \A x : x \in T <=> \E i \in 1..Len(s) : s[i] = x
  BY ToSetIs
<1>2. Len(s) \in Nat /\ \A i \in 1..Len(s) : s[i] \in Nat
  OBVIOUS
<1>3. T \in SUBSET Nat
  BY <1>1, <1>2
<1>4. s[1] \in T
  BY <1>1, <1>2
<1> HIDE DEF T
<1>5. PICK x \in T : \A y \in T : ~(<<y, x>> \in OpToRel(<, Nat))
  BY <1>3, <1>4, NatLessThanWellFounded, WFMin
<1>6. x \in T /\ x \in Nat /\ \A y \in T : y \in Nat /\ ~(y < x)
  BY <1>3, <1>5 DEF OpToRel
<1>7. \E n \in T : \A m \in T : n <= m
  BY <1>6
<1>8. Least(s) \in T /\ \A m \in T : Least(s) <= m
  BY <1>7 DEF Least, T
<1>9. QED
  BY <1>1, <1>3, <1>8

LEMMA MostIn ==
  ASSUME NEW s \in Seq(Nat), Len(s) > 0, NEW top \in Nat, \A i \in 1..Len(s) : s[i] < top
  PROVE  Most(s) \in Nat /\ Most(s) < top /\ \A i \in 1..Len(s) : Most(s) >= s[i]
<1> DEFINE T == ToSet(s)
           D == {d \in Nat : \E x \in T : d = top - x}
<1>1. \A x : x \in T <=> \E i \in 1..Len(s) : s[i] = x
  BY ToSetIs
<1>2. Len(s) \in Nat /\ \A i \in 1..Len(s) : s[i] \in Nat /\ s[i] < top
  OBVIOUS
<1>3. \A x \in T : x \in Nat /\ x < top /\ top - x \in Nat
  BY <1>1, <1>2
<1>4. s[1] \in T
  BY <1>1, <1>2
<1> HIDE DEF T
<1>5. top - s[1] \in D /\ D \in SUBSET Nat
  BY <1>3, <1>4
<1>6. PICK d \in D : \A y \in D : ~(<<y, d>> \in OpToRel(<, Nat))
  BY <1>5, NatLessThanWellFounded, WFMin
<1>7. d \in Nat /\ \A y \in D : y \in Nat /\ ~(y < d)
  BY <1>5, <1>6 DEF OpToRel
<1>8. PICK x \in T : d = top - x
  BY <1>6
<1>9. \A m \in T : x >= m
  <2>1. ASSUME NEW m \in T PROVE x >= m
    <3>1. top - m \in D
      BY <1>3
    <3>2. ~(top - m < top - x)
      BY <1>7, <1>8, <3>1
    <3>3. QED
      BY <1>3, <3>2
  <2>2. QED
    BY <2>1
<1>10. Most(s) \in T /\ \A m \in T : Most(s) >= m
  BY <1>9 DEF Most, T
<1>11. QED
  BY <1>1, <1>3, <1>10

(* The corners of blocks are around them, and in the chunk.                 *)
LEMMA CornersAround ==
  ASSUME NEW bs \in Seq(Blocks), bs # <<>>
  PROVE  /\ Corners(bs).min \in [1..3 -> Nat] /\ Corners(bs).max \in [1..3 -> Nat]
         /\ \A i \in 1..3 : /\ Corners(bs).min[i] < Corners(bs).max[i]
                            /\ Corners(bs).max[i] <= 2^CoorBits
         /\ \A k \in 1..Len(bs) : Inside(Corners(bs), bs[k])
<1> DEFINE n == Len(bs)
           s(i) == [k \in DOMAIN bs |-> At(bs[k])[i]]
           top == 2^CoorBits
<1>1. n \in Nat /\ n > 0 /\ DOMAIN bs = 1..n /\ top \in Nat
  BY Bounds
<1>2. ASSUME NEW k \in 1..n, NEW i \in 1..3 PROVE At(bs[k])[i] \in Nat /\ At(bs[k])[i] < top
  <2>1. bs[k] \in Blocks
    OBVIOUS
  <2>2. /\ bs[k].x \in Nat /\ bs[k].x < top
        /\ bs[k].y \in Nat /\ bs[k].y < top
        /\ bs[k].z \in Nat /\ bs[k].z < top
    BY <1>1, <2>1 DEF Blocks, Place
  <2>3. i = 1 \/ i = 2 \/ i = 3
    OBVIOUS
  <2>4. QED
    BY <2>2, <2>3 DEF At
<1> HIDE DEF top
<1>3. ASSUME NEW i \in 1..3
      PROVE  /\ Least(s(i)) \in Nat /\ Most(s(i)) \in Nat /\ Least(s(i)) <= Most(s(i)) /\ Most(s(i)) < top
             /\ \A k \in 1..n : Least(s(i)) <= At(bs[k])[i] /\ At(bs[k])[i] <= Most(s(i))
  <2>1. s(i) \in [1..n -> Nat] /\ \A k \in 1..n : s(i)[k] = At(bs[k])[i]
    BY <1>1, <1>2
  <2>2. s(i) \in Seq(Nat) /\ Len(s(i)) = n
    BY <1>1, <2>1, IsList
  <2>3. \A k \in 1..n : s(i)[k] < top
    BY <1>2, <2>1
  <2> HIDE DEF s
  <2>4. Least(s(i)) \in Nat /\ \A k \in 1..n : Least(s(i)) <= s(i)[k]
    BY <1>1, <2>2, LeastIn
  <2>5. Most(s(i)) \in Nat /\ Most(s(i)) < top /\ \A k \in 1..n : Most(s(i)) >= s(i)[k]
    BY <1>1, <2>2, <2>3, MostIn
  <2>6. 1 \in 1..n /\ s(i)[1] \in Nat
    BY <1>1, <2>1
  <2>7. Least(s(i)) <= Most(s(i))
    BY <2>4, <2>5, <2>6
  <2>8. \A k \in 1..n : Least(s(i)) <= At(bs[k])[i] /\ At(bs[k])[i] <= Most(s(i))
    BY <1>2, <2>1, <2>4, <2>5
  <2>9. QED
    BY <2>4, <2>5, <2>7, <2>8
<1>4. Corners(bs) = [min |-> [i \in 1..3 |-> Least(s(i))], max |-> [i \in 1..3 |-> Most(s(i)) + 1]]
  BY DEF Corners
<1> HIDE DEF s
<1>5. Corners(bs).min = [i \in 1..3 |-> Least(s(i))] /\ Corners(bs).max = [i \in 1..3 |-> Most(s(i)) + 1]
  BY <1>4
<1>6. \A i \in 1..3 : Corners(bs).min[i] = Least(s(i)) /\ Corners(bs).max[i] = Most(s(i)) + 1
  BY <1>5
<1>7. Corners(bs).min \in [1..3 -> Nat] /\ Corners(bs).max \in [1..3 -> Nat]
  BY <1>3, <1>5
<1>8. \A i \in 1..3 : Corners(bs).min[i] < Corners(bs).max[i] /\ Corners(bs).max[i] <= top
  BY <1>1, <1>3, <1>6
<1>9. ASSUME NEW k \in 1..n PROVE Inside(Corners(bs), bs[k])
  <2>1. ASSUME NEW i \in 1..3
        PROVE At(bs[k])[i] >= Corners(bs).min[i] /\ At(bs[k])[i] < Corners(bs).max[i]
    <3>1. At(bs[k])[i] \in Nat
      BY <1>2
    <3>2. /\ Least(s(i)) \in Nat /\ Most(s(i)) \in Nat
          /\ Least(s(i)) <= At(bs[k])[i] /\ At(bs[k])[i] <= Most(s(i))
      BY <1>3
    <3>3. Corners(bs).min[i] = Least(s(i)) /\ Corners(bs).max[i] = Most(s(i)) + 1
      BY <1>6
    <3>4. QED
      BY <3>1, <3>2, <3>3
  <2>2. QED
    BY <2>1 DEF Inside
<1>10. QED
  BY <1>7, <1>8, <1>9 DEF top

(* The palette has the index of every block, and is not long.               *)
LEMMA PaletteHas ==
  ASSUME NEW bs \in Seq(Blocks), NEW r \in Registry(Material),
         \A i \in 1..Len(bs) : bs[i].material \in ToSet(r)
  PROVE  /\ Palette(bs, r) \in Seq(Nat) /\ Len(Palette(bs, r)) <= 2^(BoundBits + 1)
         /\ \A i \in 1..Len(bs) : IndexIn(r, bs[i].material) \in ToSet(Palette(bs, r))
<1> DEFINE n == Len(bs)
           T == 0..(Len(r) - 1)
           s == [i \in DOMAIN bs |-> IndexIn(r, bs[i].material)]
           p == Palette(bs, r)
<1>1. n \in Nat /\ DOMAIN bs = 1..n /\ r \in Seq(Material) /\ Len(r) \in Nat
  BY DEF Registry
<1>2. ASSUME NEW i \in 1..n PROVE IndexIn(r, bs[i].material) \in T
  <2>1. IndexIn(r, bs[i].material) \in Nat /\ IndexIn(r, bs[i].material) + 1 \in 1..Len(r)
    BY IndexSmall DEF Named
  <2>2. QED
    BY <1>1, <2>1
<1>3. s \in Seq(T) /\ Len(s) = n /\ \A i \in 1..n : s[i] = IndexIn(r, bs[i].material)
  BY <1>1, <1>2
<1>4. p = FoldLeft(Known, <<>>, s)
  BY DEF Palette
<1> HIDE DEF s, T, p
<1>5. <<>> \in Registry(T)
  BY DEF Registry
<1>6. p \in Registry(T) /\ KnowsAll(<<>>, s, p)
  BY <1>3, <1>4, <1>5, KnownAll
<1>7. IsFiniteSet(T) /\ Cardinality(T) = Len(r)
  <2>1. 0 \in Int /\ Len(r) - 1 \in Int
    BY <1>1
  <2>2. IsFiniteSet(T) /\ Cardinality(T) = IF 0 > Len(r) - 1 THEN 0 ELSE (Len(r) - 1) - 0 + 1
    BY <2>1, FS_Interval DEF T
  <2>3. QED
    BY <1>1, <2>2
<1>8. Len(p) <= Len(r)
  BY <1>6, <1>7, RegistrySmall
<1>9. Len(r) <= 2^MatBits
  <2>1. IsFiniteSet(Material) /\ Cardinality(Material) <= 2^MatBits
    BY StorageAssumption
  <2>2. Len(r) <= Cardinality(Material) /\ Cardinality(Material) \in Nat
    BY <2>1, RegistrySmall
  <2>3. QED
    BY <1>1, <2>1, <2>2, Bounds
<1>10. p \in Seq(T) /\ p \in Seq(Nat) /\ Len(p) \in Nat
  <2>1. p \in Seq(T)
    BY <1>6 DEF Registry
  <2>2. \A i \in 1..Len(p) : p[i] \in Nat
    BY <2>1 DEF T
  <2>3. p \in [1..Len(p) -> Nat] /\ Len(p) \in Nat
    BY <2>1, <2>2
  <2>4. QED
    BY <2>1, <2>3
<1>11. Len(p) <= 2^(BoundBits + 1)
  BY <1>1, <1>8, <1>9, <1>10, Bounds
<1>12. QED
  BY <1>3, <1>6, <1>10, <1>11 DEF KnowsAll, p

(* RangeCompressedStorageChunk::pack and add.                               *)
LEMMA RangeSame ==
  ASSUME NEW c, NEW d, c.min = d.min, c.max = d.max, c.palette = d.palette
  PROVE  /\ RangeWidths(c) = RangeWidths(d) /\ RangeOf(c) <=> RangeOf(d)
         /\ \A b : Inside(c, b) <=> Inside(d, b)
  BY DEF RangeWidths, RangeOf, Inside

LEMMA RangeRecordIs ==
  ASSUME NEW c, RangeOf(c), NEW r \in Registry(Material), NEW b \in Blocks, Inside(c, b),
         b.material \in ToSet(r), IndexIn(r, b.material) \in ToSet(c.palette)
  PROVE  \E g \in Nat : /\ g < Len(c.palette) /\ Named(r, c.palette[g + 1], b.material)
                        /\ RangeRecord(c, b, r) = Record(Row(b, c.min, g), RangeWidths(c))
<1> DEFINE m == IndexIn(r, b.material)
           g == IndexIn(c.palette, m)
<1>1. m \in Nat /\ Named(r, m, b.material)
  BY IndexSmall
<1>2. c.palette \in Seq(Nat)
  BY DEF RangeOf
<1>3. g \in Nat /\ g + 1 \in 1..Len(c.palette) /\ c.palette[g + 1] = m
  BY <1>2, IndexFound
<1>4. RangeRecord(c, b, r)
        = Record([i \in 1..3 |-> At(b)[i] - c.min[i]] \o <<b.size, g>>, RangeWidths(c))
  BY DEF RangeRecord
<1> HIDE DEF m, g
<1>5. g < Len(c.palette)
  <2>1. Len(c.palette) \in Nat
    BY <1>2
  <2>2. QED
    BY <1>3, <2>1
<1>6. [i \in 1..3 |-> At(b)[i] - c.min[i]] \o <<b.size, g>> = Row(b, c.min, g)
  BY <1>3, <1>5, RangeFits
<1>7. RangeRecord(c, b, r) = Record(Row(b, c.min, g), RangeWidths(c))
  BY <1>4, <1>6
<1>8. QED
  BY <1>1, <1>3, <1>5, <1>7

LEMMA PacksRange ==
  ASSUME NEW bs \in Seq(Blocks), bs # <<>>, NEW r \in Registry(Material),
         \A i \in 1..Len(bs) : bs[i].material \in ToSet(r)
  PROVE  Holds(PackRange(bs, r), bs, r)
<1> DEFINE n == Len(bs)
           e == [codec |-> "range", count |-> Len(bs), data |-> <<>>,
                 min |-> Corners(bs).min, max |-> Corners(bs).max, palette |-> Palette(bs, r)]
           w == RangeWidths(e)
           data == FlattenSeq([i \in DOMAIN bs |-> RangeRecord(e, bs[i], r)])
           c == PackRange(bs, r)
<1>1. c = [e EXCEPT !.data = data]
  BY DEF PackRange
<1>2. c = [codec |-> "range", count |-> n, data |-> data,
           min |-> e.min, max |-> e.max, palette |-> e.palette]
  BY <1>1
<1>3. e.min = Corners(bs).min /\ e.max = Corners(bs).max /\ e.palette = Palette(bs, r)
  OBVIOUS
<1>n. n \in Nat /\ DOMAIN bs = 1..n /\ \A i \in 1..n : bs[i] \in Blocks
  OBVIOUS
<1> HIDE DEF e, c, data
<1>4. RangeOf(e) /\ \A i \in 1..n : Inside(e, bs[i])
  <2>1. \A i \in 1..n : Inside(Corners(bs), bs[i])
    BY CornersAround
  <2>2. \A i \in 1..n : Inside(e, bs[i])
    BY <1>3, <2>1 DEF Inside
  <2>3. RangeOf(e)
    BY <1>3, CornersAround, PaletteHas DEF RangeOf
  <2>4. QED
    BY <2>2, <2>3
<1> DEFINE Right(i, g) == /\ g < Len(e.palette) /\ Named(r, e.palette[g + 1], bs[i].material)
                          /\ RangeRecord(e, bs[i], r) = Record(Row(bs[i], e.min, g), w)
           idx == [i \in 1..n |-> CHOOSE g \in Nat : Right(i, g)]
<1>5. ASSUME NEW i \in 1..n PROVE \E g \in Nat : Right(i, g)
  <2>1. IndexIn(r, bs[i].material) \in ToSet(e.palette)
    BY <1>3, PaletteHas
  <2>2. QED
    BY <1>n, <1>4, <2>1, RangeRecordIs
<1> HIDE DEF Right, w
<1>6. ASSUME NEW i \in 1..n PROVE idx[i] \in Nat /\ Right(i, idx[i])
  <2>1. idx[i] = CHOOSE g \in Nat : Right(i, g)
    OBVIOUS
  <2>2. QED
    BY <1>5, <2>1
<1>7. idx \in [1..n -> Nat]
  BY <1>5
<1> HIDE DEF idx
<1> DEFINE rows == RowsOf(bs, e.min, idx)
<1>8. w \in Seq(Nat) /\ rows \in Seq(Rows(w)) /\ Len(rows) = n
  BY <1>4, <1>6, <1>7, RangeRows DEF Right, w
<1>9. \A i \in 1..n : Record(rows[i], w) = RangeRecord(e, bs[i], r)
  BY <1>6 DEF Right, RowsOf
<1> HIDE DEF rows
<1>10. DOMAIN rows = 1..n
  BY <1>8
<1>11. [i \in DOMAIN bs |-> RangeRecord(e, bs[i], r)] = [i \in DOMAIN rows |-> Record(rows[i], w)]
  BY <1>n, <1>9, <1>10
<1>12. Laid(data, w, rows)
  BY <1>8, <1>11, LaidPacked DEF data
<1>13. /\ c.data = data /\ c.min = e.min /\ c.max = e.max /\ c.palette = e.palette
       /\ c = [codec |-> "range", count |-> n, data |-> c.data,
               min |-> c.min, max |-> c.max, palette |-> c.palette]
  BY <1>2
<1>14. RangeWidths(c) = w /\ RangeOf(c) /\ \A i \in 1..n : Inside(c, bs[i])
  BY <1>4, <1>13, RangeSame DEF w
<1>15. HoldsRange(c, bs, r, idx)
  <2>1. RangeShape(c, n)
    BY <1>13, <1>14 DEF RangeShape
  <2>2. \A i \in 1..n : idx[i] < Len(c.palette) /\ Named(r, c.palette[idx[i] + 1], bs[i].material)
    BY <1>6, <1>13 DEF Right
  <2>3. Laid(c.data, RangeWidths(c), RowsOf(bs, c.min, idx))
    BY <1>12, <1>13, <1>14 DEF rows
  <2>4. QED
    BY <1>14, <2>1, <2>2, <2>3 DEF HoldsRange
<1>16. QED
  BY <1>7, <1>15 DEF Holds, c

LEMMA AddsRange ==
  ASSUME NEW c, NEW bs \in Seq(Blocks), NEW r \in Registry(Material), NEW k \in Registry(Material),
         Extends(r, k), NEW b \in Blocks, b.material \in ToSet(k),
         NEW idx \in [1..Len(bs) -> Nat], HoldsRange(c, bs, r, idx),
         Inside(c, b), IndexIn(k, b.material) \in ToSet(c.palette)
  PROVE  Holds(AddRange(c, b, k), Append(bs, b), k)
<1> DEFINE n == Len(bs)
           w == RangeWidths(c)
           rows == RowsOf(bs, c.min, idx)
           d == AddRange(c, b, k)
           more == Append(bs, b)
<1>0. RangeShape(c, n) /\ RangeOf(c)
  BY DEF HoldsRange, RangeShape
<1>1. PICK g \in Nat : /\ g < Len(c.palette) /\ Named(k, c.palette[g + 1], b.material)
                       /\ RangeRecord(c, b, k) = Record(Row(b, c.min, g), w)
  BY <1>0, RangeRecordIs
<1> DEFINE x == Row(b, c.min, g)
<1>a. PICK jdx \in [1..Len(more) -> Nat] : Appended(bs, b, c.min, idx, g, jdx)
  BY RowsAppend
<1>2. /\ jdx[n + 1] = g /\ \A i \in 1..n : jdx[i] = idx[i]
      /\ RowsOf(more, c.min, jdx) = Append(rows, x)
  BY <1>a DEF Appended
<1>3. w \in Seq(Nat) /\ rows \in Seq(Rows(w)) /\ Len(rows) = n /\ Laid(c.data, w, rows)
  BY <1>0, RangeRows DEF HoldsRange
<1>4. x \in Rows(w)
  BY <1>0, <1>1, RangeFits
<1>6. n \in Nat /\ Len(more) = n + 1 /\ more[n + 1] = b /\ \A i \in 1..n : more[i] = bs[i]
  OBVIOUS
<1>7. c = [codec |-> "range", count |-> n, data |-> c.data,
           min |-> c.min, max |-> c.max, palette |-> c.palette]
  BY <1>0 DEF RangeShape
<1>c. c.count = n
  BY <1>7
<1> HIDE DEF w, rows, x, more, n
<1> DEFINE data == SubSeq(c.data, 1, n * RecordBits(w)) \o Record(x, w)
<1>8. d = [c EXCEPT !.count = n + 1, !.data = data]
  BY <1>1, <1>c DEF AddRange, w, x
<1>10. Laid(data, w, Append(rows, x))
  BY <1>3, <1>4, LaidAppend
<1> HIDE DEF data, d
<1>9. d = [codec |-> "range", count |-> n + 1, data |-> data,
           min |-> c.min, max |-> c.max, palette |-> c.palette]
  <2> DEFINE before == c.data
             low == c.min
             high == c.max
             pal == c.palette
  <2>1. c = [codec |-> "range", count |-> n, data |-> before,
             min |-> low, max |-> high, palette |-> pal]
    BY <1>7
  <2> HIDE DEF before, low, high, pal
  <2>2. d = [codec |-> "range", count |-> n + 1, data |-> data,
             min |-> low, max |-> high, palette |-> pal]
    BY <1>8, <2>1
  <2>3. QED
    BY <2>2 DEF low, high, pal
<1>11. /\ d.data = data /\ d.min = c.min /\ d.max = c.max /\ d.palette = c.palette
       /\ d = [codec |-> "range", count |-> n + 1, data |-> d.data,
               min |-> d.min, max |-> d.max, palette |-> d.palette]
  BY <1>9
<1>12. RangeWidths(d) = w /\ RangeOf(d) /\ \A y : Inside(c, y) <=> Inside(d, y)
  BY <1>0, <1>11, RangeSame DEF w
<1>13. r \in Seq(Material) /\ k \in Seq(Material)
  BY DEF Registry
<1>15. ASSUME NEW i \in 1..n + 1
       PROVE /\ Inside(d, more[i]) /\ jdx[i] < Len(d.palette)
             /\ Named(k, d.palette[jdx[i] + 1], more[i].material)
  <2>1. CASE i = n + 1
    BY <1>1, <1>2, <1>6, <1>11, <1>12, <2>1
  <2>2. CASE i # n + 1
    <3>1. i \in 1..n
      BY <1>6, <2>2
    <3>2. /\ Inside(c, bs[i]) /\ idx[i] < Len(c.palette)
          /\ Named(r, c.palette[idx[i] + 1], bs[i].material)
      BY <3>1 DEF HoldsRange, n
    <3>3. Named(k, c.palette[idx[i] + 1], bs[i].material)
      BY <1>13, <3>2, NamedExtends
    <3>4. jdx[i] = idx[i] /\ more[i] = bs[i]
      BY <1>2, <1>6, <3>1
    <3>5. QED
      BY <1>11, <1>12, <3>2, <3>3, <3>4
  <2>3. QED BY <2>1, <2>2
<1>16. HoldsRange(d, more, k, jdx)
  <2>1. RangeShape(d, Len(more))
    BY <1>6, <1>11, <1>12 DEF RangeShape
  <2>2. Laid(d.data, RangeWidths(d), RowsOf(more, d.min, jdx))
    BY <1>2, <1>10, <1>11, <1>12
  <2>3. QED
    BY <1>6, <1>15, <2>1, <2>2 DEF HoldsRange
<1>17. QED
  BY <1>16 DEF Holds, more, d

-----------------------------------------------------------------------------
(***************************************************************************)
(* Both containers.                                                        *)
(***************************************************************************)
LEMMA HoldsIn ==
  ASSUME NEW c, NEW bs \in Seq(Blocks), NEW r \in Registry(Material), NEW k \in Registry(Material),
         Extends(r, k), NEW idx \in [1..Len(bs) -> Nat]
  PROVE  /\ HoldsPacked(c, bs, r, idx) => HoldsPacked(c, bs, k, idx)
         /\ HoldsRange(c, bs, r, idx) => HoldsRange(c, bs, k, idx)
<1>1. r \in Seq(Material) /\ k \in Seq(Material)
  BY DEF Registry
<1>2. \A g, m : Named(r, g, m) => Named(k, g, m)
  BY <1>1, NamedExtends
<1>3. ASSUME HoldsPacked(c, bs, r, idx) PROVE HoldsPacked(c, bs, k, idx)
  BY <1>2, <1>3 DEF HoldsPacked
<1>4. ASSUME HoldsRange(c, bs, r, idx) PROVE HoldsRange(c, bs, k, idx)
  BY <1>2, <1>4 DEF HoldsRange
<1>5. QED
  BY <1>3, <1>4

(* A registry that grows leaves what a chunk holds as it is.                *)
LEMMA HoldsExtends ==
  ASSUME NEW c, NEW bs \in Seq(Blocks), NEW r \in Registry(Material), NEW k \in Registry(Material),
         Extends(r, k), Holds(c, bs, r)
  PROVE  Holds(c, bs, k)
<1>1. PICK idx \in [1..Len(bs) -> Nat] : HoldsPacked(c, bs, r, idx) \/ HoldsRange(c, bs, r, idx)
  BY DEF Holds
<1>2. HoldsPacked(c, bs, k, idx) \/ HoldsRange(c, bs, k, idx)
  BY <1>1, HoldsIn
<1>3. QED
  BY <1>2 DEF Holds

LEMMA HoldsKnown ==
  ASSUME NEW c, NEW bs \in Seq(Blocks), NEW r \in Registry(Material), Holds(c, bs, r)
  PROVE  \A i \in 1..Len(bs) : bs[i].material \in ToSet(r)
<1>1. PICK idx \in [1..Len(bs) -> Nat] : HoldsPacked(c, bs, r, idx) \/ HoldsRange(c, bs, r, idx)
  BY DEF Holds
<1>2. r \in Seq(Material)
  BY DEF Registry
<1>3. ASSUME NEW i \in 1..Len(bs) PROVE \E g : Named(r, g, bs[i].material)
  BY <1>1 DEF HoldsPacked, HoldsRange
<1>4. QED
  BY <1>2, <1>3, ToSetIs DEF Named

(* pack: the chunk holds what was packed, in either container, if the       *)
(* registry knows the materials.                                            *)
THEOREM Packs ==
  ASSUME NEW codec \in {"packed", "range"}, NEW bs \in Seq(Blocks), bs # <<>>,
         NEW r \in Registry(Material), \A i \in 1..Len(bs) : bs[i].material \in ToSet(r)
  PROVE  Holds(Pack(codec, bs, r), bs, r)
<1>1. CASE codec = "packed"
  BY <1>1, PacksPacked DEF Pack
<1>2. CASE codec = "range"
  BY <1>2, PacksRange DEF Pack
<1>3. QED
  BY <1>1, <1>2

(* add: the chunk holds one block more, within its bounds or beyond them    *)
(* and of whatever material; unless indices of another process are in it.   *)
THEOREM Adds ==
  ASSUME NEW c, NEW bs \in Seq(Blocks), NEW r \in Registry(Material), NEW k \in Registry(Material),
         Extends(r, k), NEW b \in Blocks, b.material \in ToSet(k), Holds(c, bs, r),
         c.codec = "packed" => c.remap = <<>>
  PROVE  Holds(Add(c, b, k), Append(bs, b), k)
<1>1. PICK idx \in [1..Len(bs) -> Nat] : HoldsPacked(c, bs, r, idx) \/ HoldsRange(c, bs, r, idx)
  BY DEF Holds
<1>2. CASE HoldsPacked(c, bs, r, idx)
  <2>1. c.codec = "packed"
    BY <1>2 DEF HoldsPacked, PackedShape
  <2>2. Holds(AddPacked(c, b, k), Append(bs, b), k)
    BY <1>2, <2>1, AddsPacked
  <2>3. QED
    BY <2>1, <2>2 DEF Add
<1>3. CASE HoldsRange(c, bs, r, idx)
  <2>1. c.codec = "range"
    BY <1>3 DEF HoldsRange, RangeShape
  <2>2. Holds(AddRange(c, b, k), Append(bs, b), k)
    <3>1. CASE Inside(c, b) /\ IndexIn(k, b.material) \in ToSet(c.palette)
      BY <1>3, <3>1, AddsRange
    <3>2. CASE ~(Inside(c, b) /\ IndexIn(k, b.material) \in ToSet(c.palette))
      <4>1. HoldsRange(c, bs, k, idx)
        BY <1>3, HoldsIn
      <4>2. UnpackRange(c, k) = bs
        BY <4>1, RangeKept
      <4>3. AddRange(c, b, k) = PackRange(Append(bs, b), k)
        BY <3>2, <4>2 DEF AddRange
      <4>4. \A i \in 1..Len(bs) : bs[i].material \in ToSet(k)
        <5>1. Holds(c, bs, k)
          BY <4>1 DEF Holds
        <5>2. QED
          BY <5>1, HoldsKnown
      <4>5. /\ Append(bs, b) \in Seq(Blocks) /\ Append(bs, b) # <<>>
            /\ Len(Append(bs, b)) = Len(bs) + 1 /\ Append(bs, b)[Len(bs) + 1] = b
            /\ \A i \in 1..Len(bs) : Append(bs, b)[i] = bs[i]
        OBVIOUS
      <4>6. ASSUME NEW i \in 1..Len(Append(bs, b)) PROVE Append(bs, b)[i].material \in ToSet(k)
        <5>1. CASE i = Len(bs) + 1
          BY <4>5, <5>1
        <5>2. CASE i # Len(bs) + 1
          <6>1. i \in 1..Len(bs)
            BY <4>5, <5>2
          <6>2. QED
            BY <4>4, <4>5, <6>1
        <5>3. QED BY <5>1, <5>2
      <4>7. QED
        BY <4>3, <4>5, <4>6, PacksRange
    <3>3. QED BY <3>1, <3>2
  <2>3. QED
    BY <2>1, <2>2 DEF Add
<1>4. QED
  BY <1>1, <1>2, <1>3

-----------------------------------------------------------------------------
(***************************************************************************)
(* The materials of a bit-packed chunk.                                    *)
(***************************************************************************)
(* The distinct materials of a chunk in increasing order are just those.    *)
Ranked(S) == \A j \in 1..Cardinality(S) : \E n \in S : Cardinality({m \in S : m < n}) = j - 1

LEMMA RankExists ==
  ASSUME NEW N \in Nat, NEW S \in SUBSET (0..(N - 1))
  PROVE  Ranked(S)
<1> DEFINE T == {n \in Nat : \A R \in SUBSET (0..(n - 1)) : Ranked(R)}
<1>1. 0 \in T
  <2>1. \A R \in SUBSET (0..(0 - 1)) : R = {}
    OBVIOUS
  <2>2. Cardinality({}) = 0
    BY FS_EmptySet
  <2>3. Ranked({})
    BY <2>2 DEF Ranked
  <2>4. QED
    BY <2>1, <2>3
<1>2. ASSUME NEW n \in Nat, n \in T PROVE n + 1 \in T
  <2>1. SUFFICES ASSUME NEW R \in SUBSET (0..n) PROVE Ranked(R)
    <3>1. (n + 1) - 1 = n
      OBVIOUS
    <3>2. QED BY <3>1
  <2> DEFINE Q == R \ {n}
  <2>2. Q \in SUBSET (0..(n - 1))
    OBVIOUS
  <2>3. Ranked(Q)
    BY <1>2, <2>2
  <2>4. IsFiniteSet(Q) /\ Cardinality(Q) \in Nat
    <3>1. IsFiniteSet(0..(n - 1))
      BY FS_Interval
    <3>2. QED
      BY <2>2, <3>1, FS_Subset, FS_CardinalityType
  <2>5. CASE n \notin R
    BY <2>3, <2>5
  <2>6. CASE n \in R
    <3>1. R = Q \cup {n} /\ n \notin Q
      BY <2>6
    <3> HIDE DEF Q
    <3>2. Cardinality(R) = Cardinality(Q) + 1
      BY <2>4, <3>1, FS_AddElement
    <3>3. ASSUME NEW j \in 1..Cardinality(R) PROVE \E x \in R : Cardinality({m \in R : m < x}) = j - 1
      <4>1. CASE j = Cardinality(R)
        <5>a. \A m \in Q : m \in Int /\ m < n
          BY <2>2
        <5>1. {m \in R : m < n} = Q
          <6>1. ~(n < n)
            OBVIOUS
          <6>2. \A m : m \in R /\ m < n <=> m \in Q
            BY <3>1, <5>a, <6>1
          <6>3. QED
            BY <6>2
        <5>2. Cardinality({m \in R : m < n}) = j - 1
          BY <2>4, <3>2, <4>1, <5>1
        <5>3. QED
          BY <2>6, <5>2
      <4>2. CASE j # Cardinality(R)
        <5>1. j \in 1..Cardinality(Q)
          BY <2>4, <3>2, <4>2
        <5>2. PICK x \in Q : Cardinality({m \in Q : m < x}) = j - 1
          BY <2>3, <5>1 DEF Ranked
        <5>3. x \in 0..(n - 1) /\ x < n
          BY <2>2
        <5>4. {m \in R : m < x} = {m \in Q : m < x}
          BY <2>2, <3>1, <5>3
        <5>5. QED
          BY <3>1, <5>2, <5>4
      <4>3. QED BY <4>1, <4>2
    <3>4. QED
      BY <3>3 DEF Ranked
  <2>7. QED BY <2>5, <2>6
<1> HIDE DEF T
<1>3. N \in T
  BY <1>1, <1>2, Induction
<1>4. QED
  BY <1>3 DEF T

LEMMA AscendingHas ==
  ASSUME NEW N \in Nat, NEW S \in SUBSET (0..(N - 1))
  PROVE  /\ Ascending(S) \in Seq(Nat) /\ \A i \in 1..Len(Ascending(S)) : Ascending(S)[i] \in S
         /\ \A x \in S : \E i \in 1..Len(Ascending(S)) : Ascending(S)[i] = x
<1> DEFINE n == Cardinality(S)
           rank(x) == Cardinality({m \in S : m < x})
           a == Ascending(S)
<1>1. IsFiniteSet(S) /\ n \in Nat
  <2>1. IsFiniteSet(0..(N - 1))
    BY FS_Interval
  <2>2. QED
    BY <2>1, FS_Subset, FS_CardinalityType
<1>2. Ranked(S)
  BY RankExists
<1>3. a = [i \in 1..n |-> CHOOSE x \in S : rank(x) = i - 1]
  BY DEF Ascending
<1>s. \A x \in S : x \in Nat
  OBVIOUS
<1> HIDE DEF a
<1>4. ASSUME NEW i \in 1..n PROVE a[i] \in S /\ rank(a[i]) = i - 1
  <2>1. \E x \in S : rank(x) = i - 1
    BY <1>2 DEF Ranked
  <2>2. a[i] = CHOOSE x \in S : rank(x) = i - 1
    BY <1>3
  <2> HIDE DEF rank
  <2>3. QED
    BY <2>1, <2>2
<1>5. a \in [1..n -> Nat]
  <2> DEFINE choice(i) == CHOOSE x \in S : rank(x) = i - 1
  <2>a. a = [i \in 1..n |-> choice(i)]
    BY <1>3
  <2> HIDE DEF choice
  <2>1. a = [i \in 1..n |-> a[i]]
    BY <2>a
  <2>2. \A i \in 1..n : a[i] \in Nat
    BY <1>s, <1>4
  <2>3. QED
    BY <2>1, <2>2
<1>6. a \in Seq(Nat) /\ Len(a) = n
  BY <1>1, <1>5, IsList
<1>7. ASSUME NEW x \in S, NEW y \in S, x < y PROVE rank(x) < rank(y) /\ rank(y) \in Nat /\ rank(x) \in Nat
  <2> DEFINE X == {m \in S : m < x}
             Y == {m \in S : m < y}
  <2>a. x \in Int /\ y \in Int /\ \A m \in S : m \in Int
    BY <1>s
  <2>b. \A m \in S : m < x => m < y
    BY <1>7, <2>a
  <2>c. X \in SUBSET Y /\ Y \in SUBSET S
    BY <2>b
  <2>d. x \in Y
    BY <1>7
  <2>e. x \notin X
    BY <2>a
  <2>1. X \in SUBSET Y /\ x \in Y /\ x \notin X /\ Y \in SUBSET S
    BY <2>c, <2>d, <2>e
  <2>2. IsFiniteSet(Y)
    BY <1>1, <2>1, FS_Subset
  <2>3. IsFiniteSet(X) /\ Cardinality(X) <= Cardinality(Y) /\ (Cardinality(Y) = Cardinality(X) => Y = X)
    BY <2>1, <2>2, FS_Subset
  <2>4. Cardinality(X) \in Nat /\ Cardinality(Y) \in Nat
    BY <2>2, <2>3, FS_CardinalityType
  <2> HIDE DEF X, Y
  <2>5. Cardinality(X) < Cardinality(Y)
    BY <2>1, <2>3, <2>4
  <2>6. QED
    BY <2>4, <2>5 DEF X, Y
<1>8. ASSUME NEW x \in S PROVE rank(x) \in Nat /\ rank(x) + 1 \in 1..n
  <2> DEFINE X == {m \in S : m < x}
  <2>1. X \in SUBSET S /\ x \notin X /\ X # S
    BY <1>s
  <2>2. IsFiniteSet(X) /\ Cardinality(X) <= n /\ (n = Cardinality(X) => S = X)
    BY <1>1, <2>1, FS_Subset
  <2>3. Cardinality(X) \in Nat
    BY <2>2, FS_CardinalityType
  <2> HIDE DEF X
  <2>4. Cardinality(X) + 1 \in 1..n
    BY <1>1, <2>1, <2>2, <2>3
  <2>5. QED
    BY <2>3, <2>4 DEF X
<1>9. ASSUME NEW x \in S PROVE \E i \in 1..n : a[i] = x
  <2> DEFINE i == rank(x) + 1
  <2>1. i \in 1..n
    BY <1>8
  <2>2. a[i] \in S /\ rank(a[i]) = i - 1
    BY <1>4, <2>1
  <2> DEFINE y == a[i]
  <2>3. rank(y) = rank(x)
    <3>1. i - 1 = rank(x)
      <4>1. \A k \in Nat : (k + 1) - 1 = k
        OBVIOUS
      <4>2. rank(x) \in Nat
        BY <1>8
      <4> HIDE DEF rank
      <4>3. QED
        BY <4>1, <4>2
    <3>2. QED
      BY <2>2, <3>1
  <2> HIDE DEF i, rank
  <2>a. y \in S
    BY <2>2
  <2> HIDE DEF y
  <2>4. y \in S /\ y \in Nat /\ x \in Nat
    BY <1>s, <2>a
  <2>5. ~(y < x)
    BY <1>7, <2>3, <2>4
  <2>6. ~(x < y)
    BY <1>7, <2>3, <2>4
  <2>7. y = x
    BY <2>4, <2>5, <2>6
  <2>8. QED
    BY <2>1, <2>7 DEF y
<1>10. QED
  BY <1>4, <1>6, <1>9 DEF a

-----------------------------------------------------------------------------
(***************************************************************************)
(* The names in a message.                                                 *)
(***************************************************************************)
(* The name of a material in a message is read as it was written.           *)
LEMMA SpellingIs ==
  ASSUME NEW m \in Material
  PROVE  /\ Spelling[m] \in Seq(Bit)
         /\ \E n \in Nat : n < 2^LengthBits /\ Len(Spelling[m]) = 8 * n /\ Len(Spelling[m]) \div 8 = n
         /\ \A k \in Material : Spelling[k] = Spelling[m] => k = m
<1>1. LengthBits \in Nat
  BY DEF LengthBits
<1>2. 2^LengthBits \in Nat
  BY <1>1, PowerOfTwo
<1>3. PICK n \in 0..(2^LengthBits - 1) : Len(Spelling[m]) = 8 * n
  BY SpellingAssumption
<1>4. n \in Nat /\ n < 2^LengthBits
  BY <1>2, <1>3
<1>5. (8 * n) \div 8 = n
  BY <1>4
<1>6. Spelling[m] \in Seq(Bit)
  BY SpellingAssumption DEF Bit
<1>7. \A k \in Material : Spelling[k] = Spelling[m] => k = m
  BY SpellingAssumption
<1>8. QED
  BY <1>3, <1>4, <1>5, <1>6, <1>7

LEMMA EntryTyped ==
  ASSUME NEW r \in Seq(Material), NEW u \in Nat, u < Len(r)
  PROVE  /\ r[u + 1] \in Material
         /\ NameEntry(u, r) \in Seq(Bit)
         /\ Len(NameEntry(u, r)) = MatBits + LengthBits + Len(Spelling[r[u + 1]])
<1> DEFINE m == r[u + 1]
           a == BitsOf(u, MatBits)
           b == BitsOf(Len(Spelling[m]) \div 8, LengthBits)
<1>1. u + 1 \in 1..Len(r)
  OBVIOUS
<1>2. m \in Material
  BY <1>1
<1> HIDE DEF m
<1>3. Spelling[m] \in Seq(Bit) /\ Len(Spelling[m]) \div 8 \in Nat
  BY <1>2, SpellingIs
<1>4. a \in Seq(Bit) /\ Len(a) = MatBits
  BY Bounds, BitsTyped
<1>5. b \in Seq(Bit) /\ Len(b) = LengthBits
  BY <1>3, BitsTyped DEF LengthBits
<1>6. NameEntry(u, r) = (a \o b) \o Spelling[m]
  BY DEF NameEntry, m
<1> HIDE DEF a, b
<1>7. a \o b \in Seq(Bit) /\ Len(a \o b) = MatBits + LengthBits
  BY <1>4, <1>5, LenJoin
<1>8. (a \o b) \o Spelling[m] \in Seq(Bit) /\ Len((a \o b) \o Spelling[m]) = MatBits + LengthBits + Len(Spelling[m])
  BY <1>3, <1>7, LenJoin
<1>9. QED
  BY <1>2, <1>6, <1>8 DEF m

EntryRead(bits, q, u, m) ==
  LET long == 8 * ValueOf(Slice(bits, q + MatBits, LengthBits))
  IN  /\ ValueOf(Slice(bits, q, MatBits)) = u
      /\ long = Len(Spelling[m])
      /\ (CHOOSE k \in Material : Spelling[k] = Slice(bits, q + MatBits + LengthBits, long)) = m

LEMMA EntryIsRead ==
  ASSUME NEW bits \in Seq(Bit), NEW q \in Nat, NEW r \in Seq(Material), NEW u \in Nat,
         u < Len(r), u < 2^MatBits, Stands(bits, q, NameEntry(u, r))
  PROVE  EntryRead(bits, q, u, r[u + 1])
<1> DEFINE m == r[u + 1]
           n == Len(Spelling[m]) \div 8
           a == BitsOf(u, MatBits)
           b == BitsOf(n, LengthBits)
<1>1. m \in Material
  BY EntryTyped
<1>6. NameEntry(u, r) = (a \o b) \o Spelling[m]
  BY DEF NameEntry
<1> HIDE DEF m
<1>2. Spelling[m] \in Seq(Bit) /\ n \in Nat /\ n < 2^LengthBits /\ Len(Spelling[m]) = 8 * n
  BY <1>1, SpellingIs
<1> HIDE DEF n
<1>3. MatBits \in Nat /\ LengthBits \in Nat
  BY Bounds DEF LengthBits
<1>4. a \in Seq(Bit) /\ Len(a) = MatBits /\ b \in Seq(Bit) /\ Len(b) = LengthBits
  BY <1>2, <1>3, BitsTyped
<1>5. a \o b \in Seq(Bit) /\ Len(a \o b) = MatBits + LengthBits
  <2> HIDE DEF a, b
  <2>1. QED
    BY <1>4, LenJoin
<1>7. Stands(bits, q, a \o b) /\ Stands(bits, q + (MatBits + LengthBits), Spelling[m])
  <2>1. Stands(bits, q, (a \o b) \o Spelling[m])
    BY <1>6
  <2> HIDE DEF a, b
  <2>2. QED
    BY <1>2, <1>5, <2>1, StandsJoin
<1>8. Stands(bits, q, a) /\ Stands(bits, q + MatBits, b)
  <2> HIDE DEF a, b
  <2>1. QED
    BY <1>4, <1>7, StandsJoin
<1>9. ValueOf(Slice(bits, q, MatBits)) = u
  BY <1>3, <1>8, NumberRead
<1>10. ValueOf(Slice(bits, q + MatBits, LengthBits)) = n
  <2>1. q + MatBits \in Nat
    BY <1>3
  <2>2. QED
    BY <1>2, <1>3, <1>8, <2>1, NumberRead
<1>11. Slice(bits, q + MatBits + LengthBits, Len(Spelling[m])) = Spelling[m]
  <2>1. q + (MatBits + LengthBits) \in Nat /\ q + (MatBits + LengthBits) = q + MatBits + LengthBits
    BY <1>3
  <2>2. QED
    BY <1>2, <1>7, <2>1, SliceOf
<1>12. (CHOOSE k \in Material : Spelling[k] = Spelling[m]) = m
  BY <1>1, SpellingIs
<1>13. EntryRead(bits, q, u, m)
  BY <1>2, <1>9, <1>10, <1>11, <1>12 DEF EntryRead
<1>14. QED
  BY <1>13 DEF m

(* What a message says of the materials used, by a sender with the registry *)
(* r, is read as their indices and names.                                   *)
Entries(used, r) == FlattenSeq([i \in DOMAIN used |-> NameEntry(used[i], r)])
NamesOf(used, r) == [i \in 1..Len(used) |-> r[used[i] + 1]]
Known8(used, r) == /\ Len(used) < 2^LengthBits
                   /\ \A i \in 1..Len(used) : used[i] < Len(r) /\ used[i] < 2^MatBits

LEMMA EntriesChain ==
  ASSUME NEW r \in Seq(Material), NEW used \in Seq(Nat), Known8(used, r)
  PROVE  \E h \in [0..Len(used) -> Seq(Bit)] :
           /\ h[0] = <<>> /\ Entries(used, r) = h[Len(used)]
           /\ \A i \in 1..Len(used) :
                /\ Len(h[i]) = Len(h[i - 1]) + MatBits + LengthBits + Len(Spelling[r[used[i] + 1]])
                /\ Stands(Entries(used, r), Len(h[i - 1]), NameEntry(used[i], r))
<1> DEFINE n == Len(used)
           s == [i \in DOMAIN used |-> NameEntry(used[i], r)]
<1>1. n \in Nat /\ DOMAIN used = 1..n /\ \A i \in 1..n : used[i] \in Nat /\ used[i] < Len(r)
  BY DEF Known8
<1>2. \A i \in 1..n : /\ NameEntry(used[i], r) \in Seq(Bit)
                      /\ Len(NameEntry(used[i], r)) = MatBits + LengthBits + Len(Spelling[r[used[i] + 1]])
                      /\ r[used[i] + 1] \in Material
  BY <1>1, EntryTyped
<1>3. s \in Seq(Seq(Bit)) /\ Len(s) = n /\ \A i \in 1..n : s[i] = NameEntry(used[i], r)
  BY <1>1, <1>2
<1>4. Entries(used, r) = FlattenSeq(s)
  BY DEF Entries
<1> HIDE DEF s
<1>5. PICK h \in [0..n -> Seq(Bit)] : IsChain(h, s)
  BY <1>3, ChainExists
<1>6. FlattenSeq(s) = h[n]
  BY <1>3, <1>5, FlattenIs
<1>7. ASSUME NEW i \in 1..n
      PROVE /\ Len(h[i]) = Len(h[i - 1]) + MatBits + LengthBits + Len(Spelling[r[used[i] + 1]])
            /\ Stands(FlattenSeq(s), Len(h[i - 1]), NameEntry(used[i], r))
  <2>0. i - 1 \in 0..n
    BY <1>1
  <2>1. h[i - 1] \in Seq(Bit)
    BY <1>5, <2>0
  <2>2. h[i] = h[i - 1] \o s[i]
    BY <1>3, <1>5 DEF IsChain
  <2>3. s[i] \in Seq(Bit) /\ Len(s[i]) = MatBits + LengthBits + Len(Spelling[r[used[i] + 1]])
    BY <1>2, <1>3
  <2>4. Len(h[i]) = Len(h[i - 1]) + Len(s[i])
    BY <2>1, <2>2, <2>3, LenJoin
  <2>5. Stands(FlattenSeq(s), Len(h[i - 1]), s[i])
    BY <1>3, <1>5, ChainStands
  <2> DEFINE word == Spelling[r[used[i] + 1]]
  <2>6. word \in Seq(Bit)
    BY <1>2, SpellingIs
  <2> HIDE DEF word
  <2>a. Len(word) \in Nat /\ Len(h[i - 1]) \in Nat
    BY <2>1, <2>6
  <2>b. MatBits \in Nat /\ LengthBits \in Nat
    BY Bounds DEF LengthBits
  <2>d. Len(h[i]) = Len(h[i - 1]) + (MatBits + LengthBits + Len(word))
    BY <2>3, <2>4 DEF word
  <2>e. Len(h[i]) = Len(h[i - 1]) + MatBits + LengthBits + Len(word)
    <3> DEFINE p == Len(h[i - 1])
               q == Len(word)
    <3>1. p \in Nat /\ q \in Nat
      BY <2>a
    <3>2. Len(h[i]) = p + (MatBits + LengthBits + q)
      BY <2>d
    <3> HIDE DEF p, q
    <3>3. p + (MatBits + LengthBits + q) = p + MatBits + LengthBits + q
      BY <2>b, <3>1
    <3>4. QED
      BY <3>2, <3>3 DEF p, q
  <2>7. Len(h[i]) = Len(h[i - 1]) + MatBits + LengthBits + Len(Spelling[r[used[i] + 1]])
    BY <2>e DEF word
  <2>8. QED
    BY <1>3, <2>5, <2>7
<1>8. h[0] = <<>>
  BY <1>5 DEF IsChain
<1>9. QED
  BY <1>4, <1>6, <1>7, <1>8

LEMMA AppendNext ==
  ASSUME NEW T, NEW s \in Seq(T), NEW i \in 1..Len(s)
  PROVE  Append(SubSeq(s, 1, i - 1), s[i]) = SubSeq(s, 1, i)
<1> DEFINE a == SubSeq(s, 1, i - 1)
           b == Append(a, s[i])
           c == SubSeq(s, 1, i)
<1>1. i \in Nat /\ i - 1 \in Nat /\ i <= Len(s) /\ i - 1 <= Len(s) /\ Len(s) \in Nat /\ s[i] \in T
  OBVIOUS
<1>2. a \in Seq(T) /\ Len(a) = i - 1 /\ \A k \in 1..(i - 1) : a[k] = s[k]
  BY <1>1
<1>3. c \in Seq(T) /\ Len(c) = i /\ \A k \in 1..i : c[k] = s[k]
  BY <1>1
<1> HIDE DEF a, c
<1>4. b \in Seq(T) /\ Len(b) = i /\ b[i] = s[i] /\ \A k \in 1..(i - 1) : b[k] = a[k]
  BY <1>1, <1>2
<1> HIDE DEF b
<1>5. \A k \in 1..i : b[k] = c[k]
  <2>1. ASSUME NEW k \in 1..i PROVE b[k] = c[k]
    <3>1. CASE k = i
      BY <3>1, <1>3, <1>4
    <3>2. CASE k # i
      <4>1. k \in 1..(i - 1)
        BY <1>1, <3>2
      <4>2. QED
        BY <4>1, <1>2, <1>3, <1>4
    <3>3. QED BY <3>1, <3>2
  <2>2. QED
    BY <2>1
<1>6. b = c
  BY <1>3, <1>4, <1>5
<1>7. QED
  BY <1>6 DEF b, c, a

LEMMA NamesOfAre ==
  ASSUME NEW r \in Seq(Material), NEW used \in Seq(Nat), Known8(used, r)
  PROVE  /\ NamesOf(used, r) \in Seq(Material) /\ Len(NamesOf(used, r)) = Len(used)
         /\ \A i \in 1..Len(used) : NamesOf(used, r)[i] = r[used[i] + 1]
<1>1. Len(used) \in Nat
  OBVIOUS
<1>2. ASSUME NEW i \in 1..Len(used) PROVE r[used[i] + 1] \in Material
  <2>1. used[i] \in Nat /\ used[i] < Len(r)
    BY DEF Known8
  <2>2. QED
    BY <2>1, EntryTyped
<1>3. NamesOf(used, r) \in [1..Len(used) -> Material]
  BY <1>2 DEF NamesOf
<1>4. NamesOf(used, r) \in Seq(Material) /\ Len(NamesOf(used, r)) = Len(used)
  BY <1>1, <1>3, IsList
<1>5. \A i \in 1..Len(used) : NamesOf(used, r)[i] = r[used[i] + 1]
  BY DEF NamesOf
<1>6. QED
  BY <1>4, <1>5

(* One name is read as it was written, and the next is found after it.      *)
NextIs(bits, q, r, u, index, name) ==
  NextName(bits, [at |-> q, index |-> index, name |-> name])
    = [at |-> q + MatBits + LengthBits + Len(Spelling[r[u + 1]]),
       index |-> Append(index, u), name |-> Append(name, r[u + 1])]

LEMMA NextNameIs ==
  ASSUME NEW bits \in Seq(Bit), NEW q \in Nat, NEW r \in Seq(Material), NEW u \in Nat,
         u < Len(r), u < 2^MatBits, Stands(bits, q, NameEntry(u, r)),
         NEW index, NEW name
  PROVE  NextIs(bits, q, r, u, index, name)
<1>1. EntryRead(bits, q, u, r[u + 1])
  BY EntryIsRead
<1>2. QED
  BY <1>1 DEF EntryRead, NextName, NextIs

LEMMA NamesRead ==
  ASSUME NEW bits \in Seq(Bit), NEW at \in Nat, NEW r \in Seq(Material), NEW used \in Seq(Nat),
         Known8(used, r), Stands(bits, at, BitsOf(Len(used), LengthBits)),
         Stands(bits, at + LengthBits, Entries(used, r))
  PROVE  NamesAt(bits, at) = [at |-> at + LengthBits + Len(Entries(used, r)),
                              index |-> used, name |-> NamesOf(used, r)]
<1> DEFINE n == Len(used)
           ms == NamesOf(used, r)
           begin == at + LengthBits
           many == ValueOf(Slice(bits, at, LengthBits))
           next[i \in 0..many] ==
             IF i = 0 THEN [at |-> at + LengthBits, index |-> <<>>, name |-> <<>>]
             ELSE NextName(bits, next[i - 1])
<1>1. n \in Nat /\ n < 2^LengthBits /\ LengthBits \in Nat /\ MatBits \in Nat /\ begin \in Nat
  BY Bounds DEF Known8, LengthBits
<1>2. many = n
  BY <1>1, NumberRead
<1>3. NamesAt(bits, at) = next[many]
  BY DEF NamesAt
<1>4. PICK h \in [0..n -> Seq(Bit)] :
           /\ h[0] = <<>> /\ Entries(used, r) = h[n]
           /\ \A i \in 1..n :
                /\ Len(h[i]) = Len(h[i - 1]) + MatBits + LengthBits + Len(Spelling[r[used[i] + 1]])
                /\ Stands(Entries(used, r), Len(h[i - 1]), NameEntry(used[i], r))
  BY EntriesChain
<1>5. /\ ms \in Seq(Material) /\ Len(ms) = n
      /\ \A i \in 1..n : ms[i] = r[used[i] + 1]
  BY NamesOfAre
<1>6. \A i \in 1..n : /\ used[i] \in Nat /\ used[i] < Len(r) /\ used[i] < 2^MatBits
                      /\ NameEntry(used[i], r) \in Seq(Bit) /\ r[used[i] + 1] \in Material
  BY EntryTyped DEF Known8
<1> DEFINE pair(i) == [at |-> begin + Len(h[i]), index |-> SubSeq(used, 1, i), name |-> SubSeq(ms, 1, i)]
<1> HIDE DEF ms, begin
<1>7. ASSUME NEW i \in 1..n PROVE NextName(bits, pair(i - 1)) = pair(i)
  <2>1. i - 1 \in 0..n /\ i \in 0..n
    BY <1>1
  <2>2. h[i - 1] \in Seq(Bit) /\ h[i] \in Seq(Bit)
    BY <2>1
  <2>a. n \in 0..n
    BY <1>1
  <2>b. h[n] \in Seq(Bit)
    BY <2>a
  <2>3. Entries(used, r) \in Seq(Bit)
    BY <1>4, <2>b
  <2> DEFINE p == Len(h[i - 1])
             q == begin + p
  <2>4. p \in Nat
    BY <2>2
  <2>5. Stands(Entries(used, r), p, NameEntry(used[i], r))
    BY <1>4
  <2> HIDE DEF p
  <2>6. Stands(bits, begin, Entries(used, r))
    BY DEF begin
  <2>7. Stands(bits, q, NameEntry(used[i], r))
    <3>1. NameEntry(used[i], r) \in Seq(Bit)
      BY <1>6
    <3>2. QED
      BY <1>1, <2>3, <2>4, <2>5, <2>6, <3>1, StandsWithin
  <2>8. q \in Nat
    BY <1>1, <2>4
  <2> HIDE DEF q
  <2>9. used[i] \in Nat /\ used[i] < Len(r) /\ used[i] < 2^MatBits
    BY <1>6
  <2>10. NextName(bits, [at |-> q, index |-> SubSeq(used, 1, i - 1), name |-> SubSeq(ms, 1, i - 1)])
           = [at |-> q + MatBits + LengthBits + Len(Spelling[r[used[i] + 1]]),
              index |-> Append(SubSeq(used, 1, i - 1), used[i]),
              name |-> Append(SubSeq(ms, 1, i - 1), r[used[i] + 1])]
    <3> DEFINE a == SubSeq(used, 1, i - 1)
               b == SubSeq(ms, 1, i - 1)
               u == used[i]
    <3>1. u \in Nat /\ u < Len(r) /\ u < 2^MatBits /\ Stands(bits, q, NameEntry(u, r))
      BY <2>7, <2>9
    <3> HIDE DEF a, b, u
    <3>2. NextIs(bits, q, r, u, a, b)
      BY <2>8, <3>1, NextNameIs
    <3>3. QED
      BY <3>2 DEF a, b, u, NextIs
  <2>11. Append(SubSeq(used, 1, i - 1), used[i]) = SubSeq(used, 1, i)
    BY AppendNext
  <2>12. Append(SubSeq(ms, 1, i - 1), r[used[i] + 1]) = SubSeq(ms, 1, i)
    BY <1>5, AppendNext
  <2> DEFINE word == Spelling[r[used[i] + 1]]
             long == Len(word)
             reach == Len(h[i])
  <2>13. word \in Seq(Bit)
    BY <1>6, SpellingIs
  <2>14. long \in Nat
    BY <2>13
  <2>15. reach = p + MatBits + LengthBits + long
    BY <1>4 DEF p
  <2> HIDE DEF word, long, reach
  <2>16. q + MatBits + LengthBits + long = begin + reach
    BY <1>1, <2>4, <2>14, <2>15 DEF q
  <2>17. q + MatBits + LengthBits + Len(Spelling[r[used[i] + 1]]) = begin + Len(h[i])
    BY <2>16 DEF long, word, reach
  <2>18. pair(i - 1) = [at |-> q, index |-> SubSeq(used, 1, i - 1), name |-> SubSeq(ms, 1, i - 1)]
    BY DEF q, p
  <2> HIDE DEF pair
  <2>19. QED
    BY <2>10, <2>11, <2>12, <2>17, <2>18 DEF pair
<1>8. pair(0) = [at |-> at + LengthBits, index |-> <<>>, name |-> <<>>]
  <2>1. SubSeq(used, 1, 0) = <<>> /\ SubSeq(ms, 1, 0) = <<>>
    BY <1>5
  <2>2. Len(<<>>) = 0
    OBVIOUS
  <2>3. begin + Len(h[0]) = at + LengthBits
    BY <1>1, <1>4, <2>2 DEF begin
  <2>4. QED
    BY <2>1, <2>3
<1> DEFINE g == [i \in 0..many |-> pair(i)]
<1> HIDE DEF pair
<1>9. next = [i \in 0..many |-> IF i = 0 THEN [at |-> at + LengthBits, index |-> <<>>, name |-> <<>>]
                                ELSE NextName(bits, next[i - 1])]
  <2> HIDE DEF many
  <2>1. ASSUME NEW i \in 0..many
        PROVE g[i] = IF i = 0 THEN [at |-> at + LengthBits, index |-> <<>>, name |-> <<>>]
                     ELSE NextName(bits, g[i - 1])
    <3>1. CASE i = 0
      BY <1>8, <3>1
    <3>2. CASE i # 0
      <4>1. i \in 1..n /\ i - 1 \in 0..many
        BY <1>1, <1>2, <3>2
      <4>2. g[i - 1] = pair(i - 1) /\ g[i] = pair(i)
        BY <4>1
      <4>3. QED
        BY <1>7, <3>2, <4>1, <4>2
    <3>3. QED BY <3>1, <3>2
  <2>2. g = [i \in 0..many |-> IF i = 0 THEN [at |-> at + LengthBits, index |-> <<>>, name |-> <<>>]
                               ELSE NextName(bits, g[i - 1])]
    BY <2>1
  <2>3. QED
    BY <2>2
<1> HIDE DEF next, many
<1>10. \A i \in 0..many : next[i] = IF i = 0 THEN [at |-> at + LengthBits, index |-> <<>>, name |-> <<>>]
                                    ELSE NextName(bits, next[i - 1])
  <2> DEFINE f == [i \in 0..many |-> IF i = 0 THEN [at |-> at + LengthBits, index |-> <<>>, name |-> <<>>]
                                     ELSE NextName(bits, next[i - 1])]
  <2>1. \A i \in 0..many : f[i] = IF i = 0 THEN [at |-> at + LengthBits, index |-> <<>>, name |-> <<>>]
                                  ELSE NextName(bits, next[i - 1])
    OBVIOUS
  <2>2. next = f
    BY <1>9
  <2> HIDE DEF f
  <2>3. QED
    BY <2>1, <2>2
<1> DEFINE S == {k \in Nat : k <= n => next[k] = pair(k)}
<1>11. 0 \in S
  <2>1. 0 \in 0..many
    BY <1>1, <1>2
  <2>2. QED
    BY <1>8, <1>10, <2>1
<1>12. ASSUME NEW k \in Nat, k \in S PROVE k + 1 \in S
  <2>1. SUFFICES ASSUME k + 1 <= n PROVE next[k + 1] = pair(k + 1)
    OBVIOUS
  <2>2. k + 1 \in 0..many /\ k + 1 \in 1..n /\ k + 1 # 0 /\ (k + 1) - 1 = k /\ k <= n
    BY <1>1, <1>2, <2>1
  <2>3. next[k + 1] = NextName(bits, next[k])
    BY <1>10, <2>2
  <2>4. next[k] = pair(k)
    BY <1>12, <2>2
  <2>5. NextName(bits, pair(k)) = pair(k + 1)
    BY <1>7, <2>2
  <2>6. QED
    BY <2>3, <2>4, <2>5
<1> HIDE DEF S
<1>13. n \in S
  BY <1>1, <1>11, <1>12, Induction
<1>14. next[n] = pair(n)
  BY <1>1, <1>13 DEF S
<1>15. SubSeq(used, 1, n) = used /\ SubSeq(ms, 1, n) = ms
  BY <1>5
<1>16. pair(n) = [at |-> begin + Len(Entries(used, r)), index |-> used, name |-> ms]
  BY <1>4, <1>15 DEF pair
<1>17. QED
  BY <1>2, <1>3, <1>14, <1>16 DEF ms, begin

(* An envelope: something in front, the names of the materials used, and the  *)
(* records.                                                                 *)
Envelope(front, used, r, data) ==
  front \o BitsOf(Len(used), LengthBits) \o Entries(used, r) \o data

Ends(front, used, r) == Len(front) + LengthBits + Len(Entries(used, r))

Arriving(bits, at, front, used, r, data) ==
  /\ Stands(bits, at, front)
  /\ NamesAt(bits, at + Len(front)) = [at |-> at + Ends(front, used, r),
                                       index |-> used, name |-> NamesOf(used, r)]
  /\ Slice(bits, at + Ends(front, used, r), Len(data)) = data

LEMMA EntriesTyped ==
  ASSUME NEW r \in Seq(Material), NEW used \in Seq(Nat), Known8(used, r)
  PROVE  Entries(used, r) \in Seq(Bit)
<1>1. PICK h \in [0..Len(used) -> Seq(Bit)] : Entries(used, r) = h[Len(used)]
  BY EntriesChain
<1>2. Len(used) \in 0..Len(used)
  OBVIOUS
<1>3. h[Len(used)] \in Seq(Bit)
  BY <1>2
<1>4. QED
  BY <1>1, <1>3

LEMMA EnvelopeTyped ==
  ASSUME NEW r \in Seq(Material), NEW used \in Seq(Nat), Known8(used, r),
         NEW front \in Seq(Bit), NEW data \in Seq(Bit)
  PROVE  /\ Envelope(front, used, r, data) \in Seq(Bit) /\ Ends(front, used, r) \in Nat
         /\ Len(Envelope(front, used, r, data)) = Ends(front, used, r) + Len(data)
<1> DEFINE a == BitsOf(Len(used), LengthBits)
           e == Entries(used, r)
           fa == front \o a
           fae == fa \o e
<1>1. LengthBits \in Nat /\ Len(used) \in Nat
  BY DEF LengthBits
<1>2. a \in Seq(Bit) /\ Len(a) = LengthBits /\ e \in Seq(Bit)
  BY <1>1, BitsTyped, EntriesTyped
<1>3. Envelope(front, used, r, data) = fae \o data
  BY DEF Envelope
<1> HIDE DEF a, e
<1>4. fa \in Seq(Bit) /\ Len(fa) = Len(front) + LengthBits
  BY <1>2, LenJoin
<1> HIDE DEF fa
<1>5. fae \in Seq(Bit) /\ Len(fae) = Len(front) + LengthBits + Len(e)
  <2>1. fae \in Seq(Bit) /\ Len(fae) = Len(fa) + Len(e)
    BY <1>2, <1>4, LenJoin
  <2>2. QED
    BY <1>4, <2>1
<1> HIDE DEF fae
<1>6. fae \o data \in Seq(Bit) /\ Len(fae \o data) = Len(fae) + Len(data)
  BY <1>5, LenJoin
<1>7. Ends(front, used, r) = Len(fae) /\ Len(fae) \in Nat
  BY <1>5 DEF Ends, e
<1>8. QED
  BY <1>3, <1>6, <1>7

LEMMA MessageArrives ==
  ASSUME NEW bits \in Seq(Bit), NEW at \in Nat, NEW r \in Seq(Material), NEW used \in Seq(Nat),
         Known8(used, r), NEW front \in Seq(Bit), NEW data \in Seq(Bit),
         Stands(bits, at, Envelope(front, used, r, data))
  PROVE  Arriving(bits, at, front, used, r, data)
<1> DEFINE a == BitsOf(Len(used), LengthBits)
           e == Entries(used, r)
           fa == front \o a
           fae == fa \o e
<1>1. LengthBits \in Nat /\ Len(used) \in Nat
  BY DEF LengthBits
<1>2. a \in Seq(Bit) /\ Len(a) = LengthBits
  BY <1>1, BitsTyped
<1>3. e \in Seq(Bit)
  BY EntriesTyped
<1>4. Stands(bits, at, fae \o data)
  BY DEF Envelope
<1>5. Len(front) \in Nat /\ Len(e) \in Nat
  BY <1>3
<1> HIDE DEF a, e
<1>6. fa \in Seq(Bit) /\ Len(fa) = Len(front) + LengthBits
  BY <1>2, LenJoin
<1> HIDE DEF fa
<1>7. fae \in Seq(Bit) /\ Len(fae) = Len(front) + LengthBits + Len(e)
  BY <1>3, <1>6, LenJoin
<1> HIDE DEF fae
<1>8. Stands(bits, at, fae) /\ Stands(bits, at + Len(fae), data)
  BY <1>4, <1>7, StandsJoin
<1>9. Stands(bits, at, fa) /\ Stands(bits, at + Len(fa), e)
  BY <1>3, <1>6, <1>8, StandsJoin DEF fae
<1>10. Stands(bits, at, front) /\ Stands(bits, at + Len(front), a)
  BY <1>2, <1>9, StandsJoin DEF fa
<1>11. at + Len(front) \in Nat /\ at + Len(fa) = (at + Len(front)) + LengthBits
       /\ at + Len(fae) = at + (Len(front) + LengthBits + Len(e)) /\ at + Len(fae) \in Nat
       /\ at + Len(fae) = (at + Len(front)) + LengthBits + Len(e)
  BY <1>1, <1>5, <1>6, <1>7
<1>12. NamesAt(bits, at + Len(front)) = [at |-> (at + Len(front)) + LengthBits + Len(e),
                                         index |-> used, name |-> NamesOf(used, r)]
  <2> DEFINE q == at + Len(front)
  <2>1. q \in Nat /\ Stands(bits, q, BitsOf(Len(used), LengthBits))
        /\ Stands(bits, q + LengthBits, Entries(used, r))
    BY <1>9, <1>10, <1>11 DEF a, e
  <2> HIDE DEF q
  <2>2. NamesAt(bits, q) = [at |-> q + LengthBits + Len(Entries(used, r)),
                            index |-> used, name |-> NamesOf(used, r)]
    BY <2>1, NamesRead
  <2>3. QED
    BY <2>2 DEF q, e
<1>13. Slice(bits, at + Len(fae), Len(data)) = data
  BY <1>8, <1>11, SliceOf
<1>14. at + Ends(front, used, r) = at + Len(fae)
  BY <1>11 DEF Ends, e
<1>15. QED
  BY <1>10, <1>11, <1>12, <1>13, <1>14 DEF Arriving

(* The names are added to the registry of the one who reads; each has an    *)
(* index in it.                                                             *)
IndicesIn(k, ms) == [i \in DOMAIN ms |-> IndexIn(FoldLeft(Known, k, ms), ms[i])]

Learned(k, ms) ==
  /\ FoldLeft(Known, k, ms) \in Registry(Material) /\ Extends(k, FoldLeft(Known, k, ms))
  /\ IndicesIn(k, ms) \in Seq(Nat) /\ Len(IndicesIn(k, ms)) = Len(ms)
  /\ \A i \in 1..Len(ms) : Named(FoldLeft(Known, k, ms), IndicesIn(k, ms)[i], ms[i])

LEMMA Learns ==
  ASSUME NEW k \in Registry(Material), NEW ms \in Seq(Material)
  PROVE  Learned(k, ms)
<1> DEFINE known == FoldLeft(Known, k, ms)
<1>1. known \in Registry(Material) /\ KnowsAll(k, ms, known)
  BY KnownAll
<1> HIDE DEF known
<1>2. Extends(k, known) /\ \A i \in 1..Len(ms) : ms[i] \in ToSet(known)
  BY <1>1 DEF KnowsAll
<1>3. known \in Seq(Material)
  BY <1>1 DEF Registry
<1>4. \A i \in 1..Len(ms) : IndexIn(known, ms[i]) \in Nat /\ Named(known, IndexIn(known, ms[i]), ms[i])
  BY <1>2, <1>3, IndexFound DEF Named
<1>5. IndicesIn(k, ms) = [i \in 1..Len(ms) |-> IndexIn(known, ms[i])]
  BY DEF IndicesIn, known
<1>6. IndicesIn(k, ms) \in [1..Len(ms) -> Nat] /\ \A i \in 1..Len(ms) : IndicesIn(k, ms)[i] = IndexIn(known, ms[i])
  BY <1>4, <1>5
<1>7. Len(ms) \in Nat
  OBVIOUS
<1>8. IndicesIn(k, ms) \in Seq(Nat) /\ Len(IndicesIn(k, ms)) = Len(ms)
  BY <1>6, <1>7, IsList
<1>9. QED
  BY <1>1, <1>2, <1>4, <1>6, <1>8 DEF Learned, known

(* What deserialize gives: the chunk holds the same blocks, named by the    *)
(* registry of the one who reads, which has grown.                          *)
Arrived(d, bs, k) ==
  Holds(d.chunk, bs, d.names) /\ d.names \in Registry(Material) /\ Extends(k, d.names)

Remap(used, indices) ==
  [s \in ToSet(used) |-> indices[CHOOSE i \in DOMAIN indices : used[i] = s]]

LEMMA RemapIs ==
  ASSUME NEW used \in Seq(Nat), NEW indices \in Seq(Nat), Len(indices) = Len(used),
         NEW s \in ToSet(used)
  PROVE  \E i \in 1..Len(used) : used[i] = s /\ Remap(used, indices)[s] = indices[i]
<1>1. \E i \in 1..Len(used) : used[i] = s
  BY ToSetIs
<1>2. DOMAIN indices = 1..Len(used)
  OBVIOUS
<1> DEFINE j == CHOOSE i \in DOMAIN indices : used[i] = s
<1>3. j \in 1..Len(used) /\ used[j] = s
  BY <1>1, <1>2
<1>4. Remap(used, indices)[s] = indices[j]
  BY DEF Remap
<1> HIDE DEF j
<1>5. QED
  BY <1>3, <1>4

LEMMA RemapTyped ==
  ASSUME NEW used \in Seq(Nat), NEW indices \in Seq(Nat), Len(indices) = Len(used)
  PROVE  DOMAIN Remap(used, indices) = ToSet(used) /\ Remap(used, indices) \in [ToSet(used) -> Nat]
<1>1. ASSUME NEW s \in ToSet(used) PROVE Remap(used, indices)[s] \in Nat
  <2>1. PICK i \in 1..Len(used) : Remap(used, indices)[s] = indices[i]
    BY RemapIs
  <2>2. i \in 1..Len(indices)
    OBVIOUS
  <2>3. indices[i] \in Nat
    BY <2>2
  <2>4. QED
    BY <2>1, <2>3
<1>2. DOMAIN Remap(used, indices) = ToSet(used)
  BY DEF Remap
<1>3. Remap(used, indices) = [s \in ToSet(used) |-> Remap(used, indices)[s]]
  BY DEF Remap
<1>4. QED
  BY <1>1, <1>2, <1>3

LEMMA DeserializePacked ==
  ASSUME NEW bits, NEW at, NEW n, NEW k
  PROVE  LET e == NamesAt(bits, at)
             long == n * RecordBits(PackedWidths)
         IN  Deserialize("packed", bits, at, n, k) =
               [chunk |-> [codec |-> "packed", count |-> n, data |-> Slice(bits, e.at, long),
                           remap |-> Remap(e.index, IndicesIn(k, e.name))],
                names |-> FoldLeft(Known, k, e.name), at |-> e.at + long]
<1> DEFINE entries == NamesAt(bits, at)
           known == FoldLeft(Known, k, entries.name)
           indices == [i \in DOMAIN entries.name |-> IndexIn(known, entries.name[i])]
           remap == [s \in ToSet(entries.index) |->
                       indices[CHOOSE i \in DOMAIN indices : entries.index[i] = s]]
           empty == [codec |-> "packed", count |-> n, data |-> <<>>, remap |-> remap]
           long == n * RecordBits(Widths(empty))
<1>1. Deserialize("packed", bits, at, n, k) =
        [chunk |-> [empty EXCEPT !.data = Slice(bits, entries.at, long)],
         names |-> known, at |-> entries.at + long]
  BY DEF Deserialize
<1>2. remap = Remap(entries.index, IndicesIn(k, entries.name))
  BY DEF Remap, IndicesIn
<1> HIDE DEF entries, known, indices, remap
<1>3. Widths(empty) = PackedWidths
  BY DEF Widths
<1>4. \A x : [empty EXCEPT !.data = x] = [codec |-> "packed", count |-> n, data |-> x, remap |-> remap]
  OBVIOUS
<1> HIDE DEF empty
<1>5. QED
  BY <1>1, <1>2, <1>3, <1>4 DEF entries, known

(* What serialize writes of a chunk is a message of the materials it uses   *)
(* and of its records.                                                      *)
Serialized(c, r, front) ==
  /\ Materials(c) \in Seq(Nat) /\ Known8(Materials(c), r)
  /\ c.data \in Seq(Bit) /\ Serialize(c, r) = Envelope(front, Materials(c), r, c.data)

LEMMA PackedMaterials ==
  ASSUME NEW c, NEW bs \in Seq(Blocks), NEW r, NEW idx \in [1..Len(bs) -> Nat], HoldsPacked(c, bs, r, idx)
  PROVE  /\ Materials(c) \in Seq(Nat)
         /\ \A i \in 1..Len(Materials(c)) : Materials(c)[i] < 2^MatBits
         /\ \A i \in 1..Len(bs) : idx[i] \in ToSet(Materials(c))
<1> DEFINE n == Len(bs)
           S == {Field(c.data, i - 1, 5, PackedWidths) : i \in 1..c.count}
           used == Materials(c)
           top == 2^MatBits
<1>1. c.codec = "packed" /\ c.count = n /\ n \in Nat
  BY DEF HoldsPacked, PackedShape
<1>2. used = Ascending(S)
  BY <1>1 DEF Materials
<1>3. \A i \in 1..n : Field(c.data, i - 1, 5, PackedWidths) = idx[i]
  BY PackedKept
<1>4. \A i \in 1..n : idx[i] \in Nat /\ idx[i] < top
  BY DEF HoldsPacked
<1>5. top \in Nat
  BY Bounds
<1>6. S = {idx[i] : i \in 1..n}
  BY <1>1, <1>3
<1> HIDE DEF S, used, top
<1>7. S \in SUBSET (0..(top - 1))
  BY <1>4, <1>5, <1>6
<1>8. /\ used \in Seq(Nat) /\ \A i \in 1..Len(used) : used[i] \in S
      /\ \A x \in S : \E i \in 1..Len(used) : used[i] = x
  BY <1>2, <1>5, <1>7, AscendingHas
<1>9. ASSUME NEW i \in 1..Len(used) PROVE used[i] < top
  <2>1. used[i] \in S
    BY <1>8
  <2>2. used[i] \in 0..(top - 1)
    BY <1>7, <2>1
  <2>3. QED
    BY <1>5, <2>2
<1>10. ASSUME NEW i \in 1..n PROVE idx[i] \in ToSet(used)
  <2>1. idx[i] \in S
    BY <1>6
  <2>2. QED
    BY <1>8, <2>1, ToSetIs
<1>11. QED
  BY <1>8, <1>9, <1>10 DEF used, top

LEMMA MaterialsTyped ==
  ASSUME NEW c, NEW bs \in Seq(Blocks), NEW r, Holds(c, bs, r)
  PROVE  Len(Materials(c)) \in Nat
<1>1. PICK idx \in [1..Len(bs) -> Nat] : HoldsPacked(c, bs, r, idx) \/ HoldsRange(c, bs, r, idx)
  BY DEF Holds
<1>2. Materials(c) \in Seq(Nat)
  <2>1. CASE HoldsPacked(c, bs, r, idx)
    BY <2>1, PackedMaterials
  <2>2. CASE HoldsRange(c, bs, r, idx)
    BY <2>2 DEF HoldsRange, RangeShape, RangeOf, Materials
  <2>3. QED
    BY <1>1, <2>1, <2>2
<1>3. QED
  BY <1>2

LEMMA SerializesPacked ==
  ASSUME NEW c, NEW bs \in Seq(Blocks), NEW r \in Registry(Material),
         NEW idx \in [1..Len(bs) -> Nat], HoldsPacked(c, bs, r, idx),
         \A g \in ToSet(Materials(c)) : g < Len(r), Len(Materials(c)) < 2^LengthBits
  PROVE  /\ Serialized(c, r, <<>>)
         /\ \A i \in 1..Len(bs) : idx[i] \in ToSet(Materials(c))
         /\ Len(c.data) = Len(bs) * RecordBits(PackedWidths)
<1> DEFINE n == Len(bs)
           used == Materials(c)
<1>1. c.codec = "packed" /\ c.count = n /\ n \in Nat
  BY DEF HoldsPacked, PackedShape
<1>2. /\ used \in Seq(Nat) /\ \A i \in 1..Len(used) : used[i] < 2^MatBits
      /\ \A i \in 1..n : idx[i] \in ToSet(used)
  BY PackedMaterials
<1>3. Len(used) < 2^LengthBits /\ \A g \in ToSet(used) : g < Len(r)
  OBVIOUS
<1> HIDE DEF used
<1>4. Known8(used, r)
  <2>1. ASSUME NEW i \in 1..Len(used) PROVE used[i] < Len(r)
    <3>1. used[i] \in ToSet(used)
      BY <1>2, ToSetIs
    <3>2. QED
      BY <1>3, <3>1
  <2>2. QED
    BY <1>2, <1>3, <2>1 DEF Known8
<1>5. \A i \in 1..n : idx[i] < 2^MatBits
  BY DEF HoldsPacked
<1>10. c.data \in Seq(Bit) /\ Len(c.data) = n * RecordBits(PackedWidths)
       /\ PackedWidths \in Seq(Nat) /\ RecordBits(PackedWidths) \in Nat
  <2>1. Len(RowsOf(bs, Origin, idx)) = n /\ PackedWidths \in Seq(Nat)
    BY <1>5, PackedRows
  <2>2. QED
    BY <2>1, RecordBitsNat DEF HoldsPacked, Laid
<1>11. Serialize(c, r) = Envelope(<<>>, used, r, c.data)
  <2>1. Serialize(c, r) = Envelope(<<>>, used, r, SubSeq(c.data, 1, n * RecordBits(PackedWidths)))
    BY <1>1 DEF Serialize, Envelope, Entries, Widths, used
  <2>2. SubSeq(c.data, 1, n * RecordBits(PackedWidths)) = c.data
    BY <1>10
  <2>3. QED
    BY <2>1, <2>2
<1>12. QED
  BY <1>2, <1>4, <1>10, <1>11 DEF Serialized, used

(* A bit-packed chunk arrives as it was sent.                               *)
LEMMA PackedArrives ==
  ASSUME NEW c, NEW bs \in Seq(Blocks), NEW r \in Registry(Material), NEW k \in Registry(Material),
         NEW idx \in [1..Len(bs) -> Nat], HoldsPacked(c, bs, r, idx), c.remap = <<>>,
         \A g \in ToSet(Materials(c)) : g < Len(r), Len(Materials(c)) < 2^LengthBits,
         NEW bits \in Seq(Bit), NEW at \in Nat, Stands(bits, at, Serialize(c, r))
  PROVE  /\ Arrived(Deserialize(c.codec, bits, at, c.count, k), bs, k)
         /\ Deserialize(c.codec, bits, at, c.count, k).at = at + Len(Serialize(c, r))
<1> DEFINE n == Len(bs)
           used == Materials(c)
<1>1. c.codec = "packed" /\ c.count = n /\ n \in Nat /\ r \in Seq(Material)
  BY DEF HoldsPacked, PackedShape, Registry
<1>4. \A i \in 1..n : idx[i] \in Nat /\ idx[i] < 2^MatBits /\ Named(r, Local(c, idx[i]), bs[i].material)
  BY DEF HoldsPacked
<1>8. /\ Serialized(c, r, <<>>) /\ \A i \in 1..n : idx[i] \in ToSet(used)
      /\ Len(c.data) = n * RecordBits(PackedWidths)
  BY SerializesPacked
<1>9. used \in Seq(Nat) /\ Known8(used, r) /\ c.data \in Seq(Bit)
  BY <1>8 DEF Serialized
<1>11. Stands(bits, at, Envelope(<<>>, used, r, c.data))
  BY <1>8 DEF Serialized
<1> HIDE DEF used
<1> DEFINE e == NamesAt(bits, at)
           d == Deserialize(c.codec, bits, at, c.count, k)
           ms == NamesOf(used, r)
           long == n * RecordBits(PackedWidths)
           known == FoldLeft(Known, k, ms)
           indices == IndicesIn(k, ms)
<1>12. e.index = used /\ e.name = ms /\ Slice(bits, e.at, long) = c.data
       /\ e.at = at + Ends(<<>>, used, r)
  <2>1. <<>> \in Seq(Bit) /\ Len(<<>>) = 0 /\ at + 0 = at
    OBVIOUS
  <2>2. Arriving(bits, at, <<>>, used, r, c.data)
    BY <1>1, <1>9, <1>11, <2>1, MessageArrives
  <2>3. e = [at |-> at + Ends(<<>>, used, r), index |-> used, name |-> ms]
    BY <2>1, <2>2 DEF Arriving
  <2>4. Slice(bits, at + Ends(<<>>, used, r), long) = c.data
    BY <1>8, <2>2 DEF Arriving
  <2> HIDE DEF e, ms, long
  <2>5. QED
    BY <2>3, <2>4
<1>13. ms \in Seq(Material) /\ Len(ms) = Len(used) /\ \A i \in 1..Len(used) : ms[i] = r[used[i] + 1]
  BY <1>1, <1>9, NamesOfAre
<1>14. d = [chunk |-> [codec |-> "packed", count |-> n, data |-> c.data, remap |-> Remap(used, indices)],
            names |-> known, at |-> e.at + long]
  <2>1. d = [chunk |-> [codec |-> "packed", count |-> n, data |-> Slice(bits, e.at, long),
                        remap |-> Remap(e.index, IndicesIn(k, e.name))],
             names |-> FoldLeft(Known, k, e.name), at |-> e.at + long]
    BY <1>1, DeserializePacked
  <2> HIDE DEF d, e, ms, long
  <2>2. QED
    BY <1>12, <2>1
<1> HIDE DEF d, e, ms, long
<1>15. Learned(k, ms)
  BY <1>13, Learns
<1>16. known \in Registry(Material) /\ Extends(k, known) /\ indices \in Seq(Nat) /\ Len(indices) = Len(used)
       /\ \A i \in 1..Len(used) : Named(known, indices[i], ms[i])
  BY <1>13, <1>15 DEF Learned
<1> HIDE DEF known, indices
<1> DEFINE remap == Remap(used, indices)
           x == [codec |-> "packed", count |-> n, data |-> c.data, remap |-> remap]
<1>17. DOMAIN remap = ToSet(used) /\ remap \in [ToSet(used) -> Nat]
  BY <1>9, <1>16, RemapTyped
<1>18. ASSUME NEW i \in 1..n PROVE Named(known, Local(x, idx[i]), bs[i].material)
  <2>2. idx[i] \in ToSet(used)
    BY <1>8
  <2>3. PICK j \in 1..Len(used) : used[j] = idx[i] /\ remap[idx[i]] = indices[j]
    BY <1>9, <1>16, <2>2, RemapIs
  <2>4. Local(x, idx[i]) = remap[idx[i]]
    <3> HIDE DEF remap
    <3>1. QED
      BY <1>17, <2>2 DEF Local
  <2>5. Named(known, indices[j], ms[j])
    BY <1>16
  <2>6. Local(c, idx[i]) = idx[i]
    <3>1. idx[i] \notin DOMAIN <<>>
      OBVIOUS
    <3>2. QED
      BY <3>1 DEF Local
  <2>7. r[idx[i] + 1] = bs[i].material
    BY <1>4, <2>6 DEF Named
  <2>8. ms[j] = bs[i].material
    BY <1>13, <2>3, <2>7
  <2> HIDE DEF remap
  <2>9. QED
    BY <2>3, <2>4, <2>5, <2>8
<1>19. HoldsPacked(x, bs, known, idx)
  <2> HIDE DEF remap
  <2>1. x = [codec |-> "packed", count |-> n, data |-> x.data, remap |-> x.remap]
        /\ x.remap = remap /\ x.data = c.data
    OBVIOUS
  <2>2. PackedShape(x, n)
    BY <1>17, <2>1 DEF PackedShape
  <2>3. Laid(x.data, PackedWidths, RowsOf(bs, Origin, idx))
    BY <2>1 DEF HoldsPacked
  <2> HIDE DEF x
  <2>4. QED
    BY <1>4, <1>18, <2>2, <2>3 DEF HoldsPacked
<1>20. Holds(x, bs, known)
  BY <1>19 DEF Holds
<1>21. d.chunk = x /\ d.names = known
  BY <1>14
<1> HIDE DEF x
<1>22. Arrived(d, bs, k)
  BY <1>16, <1>20, <1>21 DEF Arrived
<1>23. d.at = e.at + long
  BY <1>14
<1>24. /\ Ends(<<>>, used, r) \in Nat /\ Len(Serialize(c, r)) = Ends(<<>>, used, r) + Len(c.data)
       /\ Len(c.data) \in Nat /\ Len(c.data) = long
  <2>1. <<>> \in Seq(Bit)
    OBVIOUS
  <2>2. Serialize(c, r) = Envelope(<<>>, used, r, c.data)
    BY <1>8 DEF Serialized, used
  <2>3. /\ Ends(<<>>, used, r) \in Nat
        /\ Len(Envelope(<<>>, used, r, c.data)) = Ends(<<>>, used, r) + Len(c.data)
    BY <1>1, <1>9, <2>1, EnvelopeTyped
  <2>4. Len(c.data) = long
    BY <1>8 DEF long
  <2>5. Len(c.data) \in Nat
    BY <1>9
  <2>6. QED
    BY <2>2, <2>3, <2>4, <2>5
<1>25. d.at = at + Len(Serialize(c, r))
  BY <1>12, <1>23, <1>24
<1>26. QED
  BY <1>22, <1>25 DEF d

(* The bounds of a range compressed chunk in a message: the least and the   *)
(* most of each coordinate.                                                 *)
Pair(c, i) == BitsOf(c.min[i], BoundBits) \o BitsOf(c.max[i], BoundBits)
Around(c) == FlattenSeq([i \in 1..3 |-> Pair(c, i)])
Bound(bits, at, i) == ValueOf(Slice(bits, at + (i - 1) * BoundBits, BoundBits))

BoundsSmall(c) ==
  /\ c.min \in [1..3 -> Nat] /\ c.max \in [1..3 -> Nat]
  /\ \A i \in 1..3 : c.min[i] < 2^BoundBits /\ c.max[i] < 2^BoundBits

LEMMA BoundsAreSmall ==
  ASSUME NEW c, RangeOf(c)
  PROVE  BoundsSmall(c)
<1>1. ASSUME NEW i \in 1..3 PROVE c.min[i] < 2^BoundBits /\ c.max[i] < 2^BoundBits
  <2>1. c.min[i] \in Nat /\ c.max[i] \in Nat /\ c.min[i] < c.max[i] /\ c.max[i] <= 2^CoorBits
    BY DEF RangeOf
  <2>2. 2^CoorBits \in Nat /\ 2^CoorBits < 2^BoundBits /\ 2^BoundBits \in Nat
    BY Bounds
  <2>3. QED
    BY <2>1, <2>2
<1>2. QED
  BY <1>1 DEF RangeOf, BoundsSmall

LEMMA FrontLaid ==
  ASSUME NEW c, BoundsSmall(c)
  PROVE  /\ Around(c) \in Seq(Bit) /\ Len(Around(c)) = 6 * BoundBits
         /\ \A i \in 1..3 : Stands(Around(c), (i - 1) * (2 * BoundBits), Pair(c, i))
<1> DEFINE s == [i \in 1..3 |-> Pair(c, i)]
           b == 2 * BoundBits
<1>1. ASSUME NEW i \in 1..3 PROVE Pair(c, i) \in Seq(Bit) /\ Len(Pair(c, i)) = b
  <2>1. c.min[i] \in Nat /\ c.max[i] \in Nat /\ BoundBits \in Nat
    BY DEF BoundsSmall, BoundBits
  <2> DEFINE x == BitsOf(c.min[i], BoundBits)
             y == BitsOf(c.max[i], BoundBits)
  <2>2. x \in Seq(Bit) /\ Len(x) = BoundBits /\ y \in Seq(Bit) /\ Len(y) = BoundBits
    BY <2>1, BitsTyped
  <2> HIDE DEF x, y
  <2>3. x \o y \in Seq(Bit) /\ Len(x \o y) = BoundBits + BoundBits
    BY <2>2, LenJoin
  <2>4. BoundBits + BoundBits = b
    BY <2>1
  <2>5. QED
    BY <2>3, <2>4 DEF Pair, x, y
<1>2. s \in [1..3 -> Seq(Bit)] /\ \A i \in 1..3 : s[i] = Pair(c, i)
  BY <1>1
<1>3. 3 \in Nat /\ b \in Nat
  BY DEF BoundBits
<1>4. Around(c) = FlattenSeq(s)
  BY DEF Around
<1> HIDE DEF s, b
<1>5. s \in Seq(Seq(Bit)) /\ Len(s) = 3
  BY <1>2, <1>3, IsList
<1>6. \A i \in 1..Len(s) : Len(s[i]) = b
  BY <1>1, <1>2, <1>5
<1>7. EvenlyLaid(FlattenSeq(s), 3, b, s)
  BY <1>3, <1>5, <1>6, FlattenEven
<1>8. 3 * b = 6 * BoundBits
  BY DEF b, BoundBits
<1>9. QED
  BY <1>2, <1>4, <1>7, <1>8 DEF EvenlyLaid, b

LEMMA BoundsRead ==
  ASSUME NEW c, BoundsSmall(c), NEW bits \in Seq(Bit), NEW at \in Nat, Stands(bits, at, Around(c)),
         NEW i \in 1..3
  PROVE  Bound(bits, at, 2 * i - 1) = c.min[i] /\ Bound(bits, at, 2 * i) = c.max[i]
<1> DEFINE x == BitsOf(c.min[i], BoundBits)
           y == BitsOf(c.max[i], BoundBits)
           q == (i - 1) * (2 * BoundBits)
<1>1. /\ c.min[i] \in Nat /\ c.max[i] \in Nat /\ BoundBits \in Nat /\ i \in Nat
      /\ c.min[i] < 2^BoundBits /\ c.max[i] < 2^BoundBits
  BY SMTT(60) DEF BoundsSmall, BoundBits
<1>2. x \in Seq(Bit) /\ Len(x) = BoundBits /\ y \in Seq(Bit) /\ Len(y) = BoundBits
  BY <1>1, BitsTyped
<1>3. Around(c) \in Seq(Bit) /\ Stands(Around(c), q, Pair(c, i))
  BY FrontLaid
<1>4. q \in Nat /\ at + q \in Nat /\ at + (q + BoundBits) \in Nat /\ q + BoundBits \in Nat
  BY DEF BoundBits
<1>5. at + q = at + ((2 * i - 1) - 1) * BoundBits /\ at + (q + BoundBits) = at + (2 * i - 1) * BoundBits
  BY DEF BoundBits
<1>6. Pair(c, i) = x \o y
  BY DEF Pair
<1> HIDE DEF x, y, q
<1>7. Stands(Around(c), q, x) /\ Stands(Around(c), q + BoundBits, y)
  BY <1>2, <1>3, <1>4, <1>6, StandsJoin
<1>8. Stands(bits, at + q, x) /\ Stands(bits, at + (q + BoundBits), y)
  BY <1>2, <1>3, <1>4, <1>7, StandsWithin
<1>9. ValueOf(Slice(bits, at + q, BoundBits)) = c.min[i]
  BY <1>1, <1>4, <1>8, NumberRead DEF x
<1>10. ValueOf(Slice(bits, at + (q + BoundBits), BoundBits)) = c.max[i]
  BY <1>1, <1>4, <1>8, NumberRead DEF y
<1>11. QED
  BY <1>5, <1>9, <1>10 DEF Bound

LEMMA Triple ==
  ASSUME NEW f \in [1..3 -> Nat]
  PROVE  <<f[1], f[2], f[3]>> = f
<1> DEFINE t == <<f[1], f[2], f[3]>>
<1>1. t \in Seq(Nat) /\ Len(t) = 3 /\ t[1] = f[1] /\ t[2] = f[2] /\ t[3] = f[3]
  OBVIOUS
<1>2. f \in Seq(Nat) /\ Len(f) = 3
  BY IsList
<1> HIDE DEF t
<1>3. \A i \in 1..3 : t[i] = f[i]
  <2>1. \A i \in 1..3 : i = 1 \/ i = 2 \/ i = 3
    OBVIOUS
  <2>2. QED
    BY <1>1, <2>1
<1>4. t = f
  <2>1. t = [i \in 1..3 |-> t[i]]
    BY <1>1
  <2>2. f = [i \in 1..3 |-> f[i]]
    OBVIOUS
  <2>3. QED
    BY <1>3, <2>1, <2>2
<1>5. QED
  BY <1>4 DEF t

LEMMA CornersRead ==
  ASSUME NEW c, BoundsSmall(c), NEW bits \in Seq(Bit), NEW at \in Nat, Stands(bits, at, Around(c))
  PROVE  /\ <<Bound(bits, at, 1), Bound(bits, at, 3), Bound(bits, at, 5)>> = c.min
         /\ <<Bound(bits, at, 2), Bound(bits, at, 4), Bound(bits, at, 6)>> = c.max
<1>1. \A i \in 1..3 : Bound(bits, at, 2 * i - 1) = c.min[i] /\ Bound(bits, at, 2 * i) = c.max[i]
  BY BoundsRead
<1>2. /\ 1 \in 1..3 /\ 2 \in 1..3 /\ 3 \in 1..3
      /\ 2 * 1 - 1 = 1 /\ 2 * 2 - 1 = 3 /\ 2 * 3 - 1 = 5 /\ 2 * 1 = 2 /\ 2 * 2 = 4 /\ 2 * 3 = 6
  OBVIOUS
<1>3. Bound(bits, at, 1) = c.min[1] /\ Bound(bits, at, 2) = c.max[1]
  BY <1>1, <1>2
<1>4. Bound(bits, at, 3) = c.min[2] /\ Bound(bits, at, 4) = c.max[2]
  BY <1>1, <1>2
<1>5. Bound(bits, at, 5) = c.min[3] /\ Bound(bits, at, 6) = c.max[3]
  BY <1>1, <1>2
<1>6. c.min \in [1..3 -> Nat] /\ c.max \in [1..3 -> Nat]
  BY DEF BoundsSmall
<1>7. <<c.min[1], c.min[2], c.min[3]>> = c.min /\ <<c.max[1], c.max[2], c.max[3]>> = c.max
  BY <1>6, Triple
<1>8. QED
  BY <1>3, <1>4, <1>5, <1>7

LEMMA DeserializeRange ==
  ASSUME NEW bits, NEW at, NEW n, NEW k
  PROVE  LET e == NamesAt(bits, at + 6 * BoundBits)
             x(data) == [codec |-> "range", count |-> n, data |-> data,
                         min |-> <<Bound(bits, at, 1), Bound(bits, at, 3), Bound(bits, at, 5)>>,
                         max |-> <<Bound(bits, at, 2), Bound(bits, at, 4), Bound(bits, at, 6)>>,
                         palette |-> IndicesIn(k, e.name)]
             long == n * RecordBits(RangeWidths(x(<<>>)))
         IN  Deserialize("range", bits, at, n, k) =
               [chunk |-> x(Slice(bits, e.at, long)),
                names |-> FoldLeft(Known, k, e.name), at |-> e.at + long]
<1> DEFINE entries == NamesAt(bits, at + 6 * BoundBits)
           known == FoldLeft(Known, k, entries.name)
           indices == [i \in DOMAIN entries.name |-> IndexIn(known, entries.name[i])]
           low == <<Bound(bits, at, 1), Bound(bits, at, 3), Bound(bits, at, 5)>>
           high == <<Bound(bits, at, 2), Bound(bits, at, 4), Bound(bits, at, 6)>>
           empty == [codec |-> "range", count |-> n, data |-> <<>>,
                     min |-> low, max |-> high, palette |-> indices]
           long == n * RecordBits(Widths(empty))
<1>1. Deserialize("range", bits, at, n, k) =
        [chunk |-> [empty EXCEPT !.data = Slice(bits, entries.at, long)],
         names |-> known, at |-> entries.at + long]
  BY DEF Deserialize, Bound
<1>2. indices = IndicesIn(k, entries.name)
  BY DEF IndicesIn
<1> HIDE DEF entries, known, indices, low, high
<1>3. Widths(empty) = RangeWidths(empty)
  BY DEF Widths
<1>4. \A x : [empty EXCEPT !.data = x] = [codec |-> "range", count |-> n, data |-> x,
                                          min |-> low, max |-> high, palette |-> indices]
  OBVIOUS
<1>5. empty = [codec |-> "range", count |-> n, data |-> <<>>,
               min |-> low, max |-> high, palette |-> IndicesIn(k, entries.name)]
  BY <1>2
<1> HIDE DEF empty
<1>6. QED
  BY <1>1, <1>2, <1>3, <1>4, <1>5 DEF entries, known, low, high

LEMMA SerializesRange ==
  ASSUME NEW c, NEW bs \in Seq(Blocks), NEW r \in Registry(Material),
         NEW idx \in [1..Len(bs) -> Nat], HoldsRange(c, bs, r, idx),
         \A g \in ToSet(Materials(c)) : g < Len(r), Len(Materials(c)) < 2^LengthBits
  PROVE  /\ Serialized(c, r, Around(c)) /\ Materials(c) = c.palette
         /\ Around(c) \in Seq(Bit) /\ Len(Around(c)) = 6 * BoundBits
         /\ Len(c.data) = Len(bs) * RecordBits(RangeWidths(c))
<1> DEFINE n == Len(bs)
           used == c.palette
           b == RecordBits(RangeWidths(c))
<1>1. c.codec = "range" /\ c.count = n /\ n \in Nat /\ r \in Seq(Material) /\ RangeOf(c)
      /\ used \in Seq(Nat)
  BY DEF HoldsRange, RangeShape, Registry, RangeOf
<1>2. Materials(c) = used
  BY <1>1 DEF Materials
<1>3. BoundsSmall(c)
  BY <1>1, BoundsAreSmall
<1> HIDE DEF used
<1>4. Known8(used, r)
  <2>1. IsFiniteSet(Material) /\ Cardinality(Material) <= 2^MatBits
    BY StorageAssumption
  <2>2. Len(r) <= Cardinality(Material) /\ Cardinality(Material) \in Nat
    BY <2>1, RegistrySmall
  <2>3. 2^MatBits \in Nat /\ Len(r) \in Nat
    BY <1>1, Bounds
  <2>4. ASSUME NEW i \in 1..Len(used) PROVE used[i] < Len(r) /\ used[i] < 2^MatBits
    <3>1. used[i] \in ToSet(used)
      BY <1>1, ToSetIs
    <3>2. used[i] < Len(r)
      BY <1>2, <3>1
    <3>3. used[i] \in Nat
      BY <1>1
    <3>4. QED
      BY <2>1, <2>2, <2>3, <3>2, <3>3
  <2>5. QED
    BY <1>2, <2>4 DEF Known8
<1>5. RangeWidths(c) \in Seq(Nat) /\ Len(RowsOf(bs, c.min, idx)) = n
  BY <1>1, RangeRows DEF HoldsRange
<1>6. c.data \in Seq(Bit) /\ Len(c.data) = n * b /\ b \in Nat
  BY <1>5, RecordBitsNat DEF HoldsRange, Laid
<1>7. Around(c) \in Seq(Bit) /\ Len(Around(c)) = 6 * BoundBits
  BY <1>3, FrontLaid
<1>8. Serialize(c, r) = Envelope(Around(c), used, r, c.data)
  <2>1. Serialize(c, r) = Envelope(Around(c), used, r, SubSeq(c.data, 1, n * b))
    BY <1>1, <1>2 DEF Serialize, Envelope, Entries, Widths, Around, Pair
  <2>2. SubSeq(c.data, 1, n * b) = c.data
    BY <1>6
  <2>3. QED
    BY <2>1, <2>2
<1>9. QED
  BY <1>1, <1>2, <1>4, <1>6, <1>7, <1>8 DEF Serialized, used

(* A range compressed chunk arrives as it was sent.                         *)
LEMMA RangeArrives ==
  ASSUME NEW c, NEW bs \in Seq(Blocks), NEW r \in Registry(Material), NEW k \in Registry(Material),
         NEW idx \in [1..Len(bs) -> Nat], HoldsRange(c, bs, r, idx),
         \A g \in ToSet(Materials(c)) : g < Len(r), Len(Materials(c)) < 2^LengthBits,
         NEW bits \in Seq(Bit), NEW at \in Nat, Stands(bits, at, Serialize(c, r))
  PROVE  /\ Arrived(Deserialize(c.codec, bits, at, c.count, k), bs, k)
         /\ Deserialize(c.codec, bits, at, c.count, k).at = at + Len(Serialize(c, r))
<1> DEFINE n == Len(bs)
           used == c.palette
           b == RecordBits(RangeWidths(c))
<1>1. c.codec = "range" /\ c.count = n /\ n \in Nat /\ r \in Seq(Material) /\ RangeOf(c)
  BY DEF HoldsRange, RangeShape, Registry
<1>3. BoundsSmall(c)
  BY <1>1, BoundsAreSmall
<1>7. /\ Serialized(c, r, Around(c)) /\ Materials(c) = used
      /\ Around(c) \in Seq(Bit) /\ Len(Around(c)) = 6 * BoundBits /\ Len(c.data) = n * b
  BY SerializesRange
<1> HIDE DEF used
<1>4. used \in Seq(Nat) /\ Known8(used, r) /\ c.data \in Seq(Bit)
  BY <1>7 DEF Serialized
<1>8. Arriving(bits, at, Around(c), used, r, c.data)
  <2>1. Stands(bits, at, Envelope(Around(c), used, r, c.data))
    BY <1>7 DEF Serialized
  <2>2. QED
    BY <1>1, <1>4, <1>7, <2>1, MessageArrives
<1> DEFINE e == NamesAt(bits, at + 6 * BoundBits)
           ms == NamesOf(used, r)
           known == FoldLeft(Known, k, ms)
           indices == IndicesIn(k, ms)
           low == <<Bound(bits, at, 1), Bound(bits, at, 3), Bound(bits, at, 5)>>
           high == <<Bound(bits, at, 2), Bound(bits, at, 4), Bound(bits, at, 6)>>
           x(data) == [codec |-> "range", count |-> n, data |-> data,
                       min |-> low, max |-> high, palette |-> IndicesIn(k, e.name)]
           long == n * RecordBits(RangeWidths(x(<<>>)))
           d == Deserialize(c.codec, bits, at, c.count, k)
<1>9. d = [chunk |-> x(Slice(bits, e.at, long)), names |-> FoldLeft(Known, k, e.name), at |-> e.at + long]
  BY <1>1, DeserializeRange
<1>10. e.name = ms /\ Slice(bits, e.at, n * b) = c.data /\ e.at = at + Ends(Around(c), used, r)
  <2>1. e = [at |-> at + Ends(Around(c), used, r), index |-> used, name |-> ms]
    BY <1>7, <1>8 DEF Arriving
  <2>2. Slice(bits, at + Ends(Around(c), used, r), n * b) = c.data
    BY <1>7, <1>8 DEF Arriving
  <2> HIDE DEF e, ms, b
  <2>3. QED
    BY <2>1, <2>2
<1>11. low = c.min /\ high = c.max
  BY <1>3, <1>8, CornersRead DEF Arriving
<1>12. ms \in Seq(Material) /\ Len(ms) = Len(used) /\ \A i \in 1..Len(used) : ms[i] = r[used[i] + 1]
  BY <1>1, <1>4, NamesOfAre
<1> HIDE DEF d, e, ms, low, high
<1>13. Learned(k, ms)
  BY <1>12, Learns
<1>14. known \in Registry(Material) /\ Extends(k, known) /\ indices \in Seq(Nat) /\ Len(indices) = Len(used)
       /\ \A i \in 1..Len(used) : Named(known, indices[i], ms[i])
  BY <1>12, <1>13 DEF Learned
<1>15. IndicesIn(k, e.name) = indices /\ FoldLeft(Known, k, e.name) = known
  BY <1>10
<1> HIDE DEF known, indices
<1> DEFINE y(data) == [codec |-> "range", count |-> n, data |-> data,
                       min |-> c.min, max |-> c.max, palette |-> indices]
           new == y(c.data)
<1>16. \A data : x(data) = y(data)
  BY <1>11, <1>15
<1>17. ASSUME NEW data PROVE RangeWidths(y(data)) = RangeWidths(c)
  <2>1. y(data).min = c.min /\ y(data).max = c.max /\ y(data).palette = indices
    OBVIOUS
  <2>2. Len(indices) = Len(c.palette)
    BY <1>14 DEF used
  <2> HIDE DEF y
  <2>3. QED
    BY <2>1, <2>2 DEF RangeWidths
<1>18. d.chunk = new /\ d.names = known /\ d.at = e.at + n * b
  <2>1. long = n * b
    <3>1. x(<<>>) = y(<<>>)
      BY <1>16
    <3>2. RangeWidths(y(<<>>)) = RangeWidths(c)
      BY <1>17
    <3> HIDE DEF x, y
    <3>3. QED
      BY <3>1, <3>2
  <2>2. x(Slice(bits, e.at, long)) = y(c.data)
    <3>1. Slice(bits, e.at, long) = c.data
      BY <1>10, <2>1
    <3> HIDE DEF long, x, y
    <3>2. QED
      BY <1>16, <3>1
  <2> HIDE DEF x, y, long
  <2>3. d.chunk = y(c.data) /\ d.names = known /\ d.at = e.at + long
    BY <1>9, <1>15, <2>2
  <2>4. QED
    BY <2>1, <2>3
<1>19. /\ new.min = c.min /\ new.max = c.max /\ new.palette = indices /\ new.data = c.data
       /\ new = [codec |-> "range", count |-> n, data |-> new.data,
                 min |-> new.min, max |-> new.max, palette |-> new.palette]
  OBVIOUS
<1>20. RangeWidths(new) = RangeWidths(c)
  BY <1>17
<1> HIDE DEF new
<1>21. RangeShape(new, n)
  <2>1. Len(indices) = Len(c.palette)
    BY <1>14 DEF used
  <2>2. RangeOf(new)
    BY <1>1, <1>14, <1>19, <2>1 DEF RangeOf
  <2>3. QED
    BY <1>19, <2>2 DEF RangeShape
<1>22. ASSUME NEW i \in 1..n
       PROVE /\ Inside(new, bs[i]) /\ idx[i] < Len(new.palette)
             /\ Named(known, new.palette[idx[i] + 1], bs[i].material)
  <2>1. Inside(c, bs[i]) /\ idx[i] < Len(used) /\ idx[i] \in Nat
        /\ Named(r, used[idx[i] + 1], bs[i].material)
    BY DEF HoldsRange, used
  <2>2. Inside(new, bs[i])
    BY <1>19, <2>1 DEF Inside
  <2>3. idx[i] + 1 \in 1..Len(used)
    BY <1>1, <2>1
  <2>4. ms[idx[i] + 1] = bs[i].material
    BY <1>12, <2>1, <2>3 DEF Named
  <2>5. Named(known, indices[idx[i] + 1], ms[idx[i] + 1])
    BY <1>14, <2>3
  <2>6. QED
    BY <1>14, <1>19, <2>1, <2>2, <2>4, <2>5
<1>23. Laid(new.data, RangeWidths(new), RowsOf(bs, new.min, idx))
  BY <1>19, <1>20 DEF HoldsRange
<1>24. HoldsRange(new, bs, known, idx)
  BY <1>21, <1>22, <1>23 DEF HoldsRange
<1>25. Holds(new, bs, known)
  BY <1>24 DEF Holds
<1>26. Arrived(d, bs, k)
  BY <1>14, <1>18, <1>25 DEF Arrived
<1>27. /\ Ends(Around(c), used, r) \in Nat
       /\ Len(Serialize(c, r)) = Ends(Around(c), used, r) + Len(c.data)
       /\ Len(c.data) \in Nat /\ Len(c.data) = n * b
  <2>1. Serialize(c, r) = Envelope(Around(c), used, r, c.data)
    BY <1>7 DEF Serialized
  <2>2. /\ Ends(Around(c), used, r) \in Nat
        /\ Len(Envelope(Around(c), used, r, c.data)) = Ends(Around(c), used, r) + Len(c.data)
    BY <1>1, <1>4, <1>7, EnvelopeTyped
  <2>3. Len(c.data) \in Nat
    BY <1>4
  <2>4. QED
    BY <1>7, <2>1, <2>2, <2>3
<1>28. d.at = at + Len(Serialize(c, r))
  BY <1>10, <1>18, <1>27
<1>29. QED
  BY <1>26, <1>28 DEF d

(* What serialize wrote, deserialize reads as a chunk of the same blocks,   *)
(* wherever it stands in what was sent and whatever the reader's registry   *)
(* holds; unless indices of another process are in it, or more materials    *)
(* than a message can count; what follows it in the message begins where it  *)
(* ends.                                                                    *)
THEOREM Arrives ==
  ASSUME NEW c, NEW bs \in Seq(Blocks), NEW r \in Registry(Material), NEW k \in Registry(Material),
         Holds(c, bs, r), c.codec = "packed" => c.remap = <<>>,
         \A g \in ToSet(Materials(c)) : g < Len(r), Len(Materials(c)) < 2^LengthBits,
         NEW bits \in Seq(Bit), NEW at \in Nat, Stands(bits, at, Serialize(c, r))
  PROVE  /\ Arrived(Deserialize(c.codec, bits, at, c.count, k), bs, k)
         /\ Deserialize(c.codec, bits, at, c.count, k).at = at + Len(Serialize(c, r))
<1>1. PICK idx \in [1..Len(bs) -> Nat] : HoldsPacked(c, bs, r, idx) \/ HoldsRange(c, bs, r, idx)
  BY DEF Holds
<1>2. CASE HoldsPacked(c, bs, r, idx)
  <2>1. c.remap = <<>>
    BY <1>2 DEF HoldsPacked, PackedShape
  <2>2. QED
    BY <1>2, <2>1, PackedArrives
<1>3. CASE HoldsRange(c, bs, r, idx)
  BY <1>3, RangeArrives, ZenonT(60)
<1>4. QED
  BY <1>1, <1>2, <1>3

LEMMA SerializeTyped ==
  ASSUME NEW c, NEW bs \in Seq(Blocks), NEW r \in Registry(Material), Holds(c, bs, r),
         \A g \in ToSet(Materials(c)) : g < Len(r), Len(Materials(c)) < 2^LengthBits
  PROVE  Serialize(c, r) \in Seq(Bit)
<1>1. PICK idx \in [1..Len(bs) -> Nat] : HoldsPacked(c, bs, r, idx) \/ HoldsRange(c, bs, r, idx)
  BY DEF Holds
<1>2. \E front \in Seq(Bit) : Serialized(c, r, front)
  <2>1. CASE HoldsPacked(c, bs, r, idx)
    <3>1. Serialized(c, r, <<>>)
      BY <2>1, SerializesPacked
    <3>2. <<>> \in Seq(Bit)
      OBVIOUS
    <3>3. QED
      BY <3>1, <3>2
  <2>2. CASE HoldsRange(c, bs, r, idx)
    <3>1. Serialized(c, r, Around(c)) /\ Around(c) \in Seq(Bit)
      BY <2>2, SerializesRange
    <3>2. QED
      BY <3>1
  <2>3. QED
    BY <1>1, <2>1, <2>2
<1>3. PICK front \in Seq(Bit) : Serialized(c, r, front)
  BY <1>2
<1>4. r \in Seq(Material)
  BY DEF Registry
<1>5. QED
  BY <1>3, <1>4, EnvelopeTyped DEF Serialized

-----------------------------------------------------------------------------
(***************************************************************************)
(* The specification of Storage.                                           *)
(***************************************************************************)
StorageTypeOK ==
  /\ material_names \in [Side -> Registry(Material)]
  /\ owner \in Side
  /\ contents \in Seq(Block)

(* A chunk that was packed here has no index of another process in it.      *)
OwnIndices == chunk.codec = "packed" /\ ~received => chunk.remap = <<>>

HoldsContents ==
  IF contents = <<>> THEN chunk = [codec |-> "packed", count |-> 0, data |-> <<>>, remap |-> <<>>]
  ELSE Holds(chunk, contents, material_names[owner]) /\ OwnIndices

(* The inductive invariant: until an index may have the wrong name, the     *)
(* owner's registry gives the records of the chunk their meaning.           *)
StorageInv == ~mixed => StorageTypeOK /\ HoldsContents

LEMMA ContentsAreBlocks ==
  ASSUME StorageTypeOK
  PROVE  contents \in Seq(Blocks) /\ Block \subseteq Blocks
         /\ material_names[owner] \in Registry(Material)
<1>1. Block \subseteq Blocks
  BY BlockAssumption DEF Blocks
<1>2. contents \in Seq(Block)
  BY DEF StorageTypeOK
<1>3. contents \in Seq(Blocks)
  BY <1>1, <1>2
<1>4. QED
  BY <1>1, <1>3 DEF StorageTypeOK

LEMMA StorageInvInit == StorageInit => StorageInv
<1>1. <<>> \in Registry(Material) /\ <<>> \in Seq(Block)
  BY DEF Registry
<1>2. QED
  BY <1>1 DEF StorageInit, StorageInv, StorageTypeOK, HoldsContents

(* The registry of one process grows by a material.                         *)
LEMMA NamesGrow ==
  ASSUME StorageTypeOK, NEW s \in Side, NEW m \in Material, NEW k, k = Known(material_names[s], m)
  PROVE  /\ k \in Registry(Material) /\ Extends(material_names[s], k) /\ m \in ToSet(k)
         /\ [material_names EXCEPT ![s] = k] \in [Side -> Registry(Material)]
<1>1. material_names[s] \in Registry(Material)
  BY DEF StorageTypeOK
<1>2. k \in Registry(Material) /\ Extends(material_names[s], k) /\ m \in ToSet(k)
  BY <1>1, KnownGrows
<1>3. QED
  BY <1>2 DEF StorageTypeOK

(* Adding leaves the form of a chunk, and its translations, as they are.    *)
LEMMA AddKeepsForm ==
  ASSUME NEW c, NEW bs \in Seq(Blocks), NEW r, Holds(c, bs, r), NEW b, NEW k
  PROVE  /\ c.codec = "packed" => AddPacked(c, b, k).remap = c.remap
         /\ c.codec # "packed" => AddRange(c, b, k).codec = "range"
<1>1. PICK idx \in [1..Len(bs) -> Nat] : HoldsPacked(c, bs, r, idx) \/ HoldsRange(c, bs, r, idx)
  BY DEF Holds
<1>2. c.codec = "packed" => PackedShape(c, Len(bs))
  BY <1>1 DEF HoldsPacked, HoldsRange, RangeShape
<1>3. c.codec # "packed" => RangeShape(c, Len(bs))
  BY <1>1 DEF HoldsPacked, HoldsRange, PackedShape
<1>4. ASSUME c.codec = "packed" PROVE AddPacked(c, b, k).remap = c.remap
  <2> DEFINE d == c.data
             m == c.remap
             n == Len(bs)
             data == SubSeq(d, 1, c.count * RecordBits(PackedWidths)) \o PackedRecord(b, k)
  <2>1. c = [codec |-> "packed", count |-> n, data |-> d, remap |-> m]
    BY <1>2, <1>4 DEF PackedShape
  <2>2. AddPacked(c, b, k) = [c EXCEPT !.count = @ + 1, !.data = data]
    BY <2>1 DEF AddPacked
  <2> HIDE DEF d, m, n, data
  <2>3. AddPacked(c, b, k).remap = m
    BY <2>1, <2>2
  <2>4. QED
    BY <2>3 DEF m
<1>5. ASSUME c.codec # "packed" PROVE AddRange(c, b, k).codec = "range"
  <2> DEFINE d == c.data
             low == c.min
             high == c.max
             p == c.palette
             n == Len(bs)
             data == SubSeq(d, 1, c.count * RecordBits(RangeWidths(c))) \o RangeRecord(c, b, k)
             new == [c EXCEPT !.count = @ + 1, !.data = data]
             blocks == Append(UnpackRange(c, k), b)
  <2>1. c = [codec |-> "range", count |-> n, data |-> d, min |-> low, max |-> high, palette |-> p]
    BY <1>3, <1>5 DEF RangeShape
  <2>2. AddRange(c, b, k) = new \/ AddRange(c, b, k) = PackRange(blocks, k)
    <3>1. data = SubSeq(c.data, 1, c.count * RecordBits(RangeWidths(c))) \o RangeRecord(c, b, k)
      OBVIOUS
    <3> HIDE DEF d, low, high, p, n, data
    <3>2. new = [c EXCEPT !.count = @ + 1, !.data = SubSeq(@, 1, c.count * RecordBits(RangeWidths(c)))
                                                     \o RangeRecord(c, b, k)]
      BY <2>1, <3>1
    <3>3. QED
      BY <3>2 DEF AddRange
  <2> HIDE DEF d, low, high, p, n, data, blocks
  <2>3. new.codec = "range"
    BY <2>1
  <2>4. PackRange(blocks, k).codec = "range"
    BY DEF PackRange
  <2> HIDE DEF new
  <2>5. QED
    BY <2>2, <2>3, <2>4
<1>6. QED
  BY <1>4, <1>5

LEMMA PackFirstKeeps ==
  ASSUME StorageTypeOK, HoldsContents, PackFirst, ~mixed'
  PROVE  StorageTypeOK' /\ HoldsContents'
<1>1. PICK b \in Block, codec \in {"packed", "range"} :
        /\ material_names' = [material_names EXCEPT ![owner] = Known(material_names[owner], b.material)]
        /\ chunk' = Pack(codec, <<b>>, Known(material_names[owner], b.material))
        /\ contents' = <<b>>
  BY DEF PackFirst
<1>2. contents = <<>> /\ owner' = owner /\ received' = received /\ mixed' = mixed
  BY DEF PackFirst
<1> DEFINE k == Known(material_names[owner], b.material)
<1>3. owner \in Side
  BY DEF StorageTypeOK
<1>4. b \in Blocks /\ b.material \in Material
  <2>1. b \in Blocks
    BY <1>3, ContentsAreBlocks
  <2>2. QED
    BY <2>1, BlockIs
<1>5. /\ k \in Registry(Material) /\ b.material \in ToSet(k)
      /\ [material_names EXCEPT ![owner] = k] \in [Side -> Registry(Material)]
  BY <1>3, <1>4, NamesGrow
<1>6. material_names'[owner] = k
  BY <1>1, <1>3 DEF StorageTypeOK
<1> HIDE DEF k
<1>7. <<b>> \in Seq(Blocks) /\ <<b>> # <<>> /\ Len(<<b>>) = 1 /\ <<b>>[1] = b /\ <<b>> \in Seq(Block)
  BY <1>4
<1>8. \A i \in 1..Len(<<b>>) : <<b>>[i].material \in ToSet(k)
  BY <1>5, <1>7
<1>9. Holds(Pack(codec, <<b>>, k), <<b>>, k)
  BY <1>5, <1>7, <1>8, Packs
<1>10. codec = "packed" => Pack(codec, <<b>>, k).remap = <<>>
  BY DEF Pack, PackPacked
<1>11. Pack(codec, <<b>>, k).codec = codec
  BY DEF Pack, PackPacked, PackRange
<1>12. chunk' = Pack(codec, <<b>>, k) /\ contents' = <<b>> /\ material_names' = [material_names EXCEPT ![owner] = k]
  BY <1>1 DEF k
<1>13. StorageTypeOK'
  BY <1>2, <1>3, <1>5, <1>7, <1>12 DEF StorageTypeOK
<1>14. Holds(chunk', contents', material_names'[owner'])
  BY <1>2, <1>6, <1>9, <1>12
<1>15. OwnIndices'
  BY <1>10, <1>11, <1>12 DEF OwnIndices
<1>16. contents' # <<>>
  BY <1>7, <1>12
<1>17. QED
  BY <1>13, <1>14, <1>15, <1>16 DEF HoldsContents

LEMMA PackAnewKeeps ==
  ASSUME StorageTypeOK, HoldsContents, PackAnew, ~mixed'
  PROVE  StorageTypeOK' /\ HoldsContents'
<1>1. PICK codec \in {"packed", "range"} :
        chunk' = Pack(codec, Unpack(chunk, material_names[owner]), material_names[owner])
  BY DEF PackAnew
<1>2. contents # <<>> /\ received' = FALSE /\ material_names' = material_names /\ owner' = owner
      /\ contents' = contents /\ mixed' = mixed
  BY DEF PackAnew
<1>3. contents \in Seq(Blocks) /\ material_names[owner] \in Registry(Material)
  BY ContentsAreBlocks
<1>4. StorageTypeOK'
  BY <1>2, <1>3 DEF StorageTypeOK
<1>5. HoldsContents'
  <2> DEFINE r == material_names[owner]
  <2>1. Holds(chunk, contents, r)
    BY <1>2 DEF HoldsContents
  <2> HIDE DEF r
  <2>2. r \in Registry(Material)
    BY <1>3 DEF r
  <2>3. Unpack(chunk, r) = contents
    BY <1>3, <2>1, Kept
  <2>4. \A i \in 1..Len(contents) : contents[i].material \in ToSet(r)
    BY <1>3, <2>1, <2>2, HoldsKnown
  <2>5. chunk' = Pack(codec, contents, r)
    BY <1>1, <2>3 DEF r
  <2>6. Holds(chunk', contents, r)
    BY <1>2, <1>3, <2>2, <2>4, <2>5, Packs
  <2>7. OwnIndices'
    BY <2>5 DEF OwnIndices, Pack, PackPacked, PackRange
  <2>8. QED
    BY <1>2, <2>6, <2>7 DEF HoldsContents, r
<1>6. QED
  BY <1>4, <1>5

LEMMA AddOneKeeps ==
  ASSUME StorageTypeOK, HoldsContents, AddOne, ~mixed'
  PROVE  StorageTypeOK' /\ HoldsContents'
<1>1. PICK b \in Block :
        /\ material_names' = [material_names EXCEPT ![owner] = Known(material_names[owner], b.material)]
        /\ chunk' = Add(chunk, b, Known(material_names[owner], b.material))
        /\ contents' = Append(contents, b)
  BY DEF AddOne
<1>2. contents # <<>> /\ owner' = owner /\ received' = received /\ mixed' = (mixed \/ KeepsForeign)
  BY DEF AddOne
<1> DEFINE r == material_names[owner]
           k == Known(r, b.material)
<1>3. owner \in Side /\ contents \in Seq(Blocks) /\ contents \in Seq(Block)
      /\ r \in Registry(Material)
  BY ContentsAreBlocks DEF StorageTypeOK
<1>4. b \in Blocks /\ b.material \in Material
  <2>1. b \in Blocks
    BY <1>3, ContentsAreBlocks
  <2>2. QED
    BY <2>1, BlockIs
<1>5. /\ k \in Registry(Material) /\ Extends(r, k) /\ b.material \in ToSet(k)
      /\ [material_names EXCEPT ![owner] = k] \in [Side -> Registry(Material)]
  BY <1>3, <1>4, NamesGrow
<1>6. material_names'[owner] = k
  BY <1>1, <1>3 DEF StorageTypeOK
<1>7. chunk' = Add(chunk, b, k) /\ material_names' = [material_names EXCEPT ![owner] = k]
  BY <1>1
<1>8. contents' \in Seq(Block) /\ contents' # <<>>
  BY <1>1, <1>3
<1>10. StorageTypeOK'
  BY <1>2, <1>3, <1>5, <1>7, <1>8 DEF StorageTypeOK
<1>11. HoldsContents'
  <2>1. ~KeepsForeign
    BY <1>2
  <2>2. Holds(chunk, contents, r) /\ OwnIndices
    BY <1>2 DEF HoldsContents
  <2>3. chunk.codec = "packed" => ~received /\ chunk.remap = <<>>
    BY <2>1, <2>2 DEF OwnIndices, KeepsForeign
  <2> HIDE DEF r, k
  <2>4. Holds(Add(chunk, b, k), Append(contents, b), k)
    BY <1>3, <1>4, <1>5, <2>2, <2>3, Adds
  <2>5. Holds(chunk', contents', material_names'[owner'])
    BY <1>1, <1>2, <1>6, <1>7, <2>4
  <2>6. OwnIndices'
    <3>1. CASE chunk.codec = "packed"
      <4>1. chunk' = AddPacked(chunk, b, k)
        BY <1>7, <3>1 DEF Add
      <4>2. chunk'.remap = chunk.remap
        BY <1>3, <2>2, <3>1, <4>1, AddKeepsForm
      <4>3. QED
        BY <2>3, <3>1, <4>2 DEF OwnIndices
    <3>2. CASE chunk.codec # "packed"
      <4>1. chunk' = AddRange(chunk, b, k)
        BY <1>7, <3>2 DEF Add
      <4>2. chunk'.codec # "packed"
        BY <1>3, <2>2, <3>2, <4>1, AddKeepsForm
      <4>3. QED
        BY <4>2 DEF OwnIndices
    <3>3. QED BY <3>1, <3>2
  <2>7. QED
    BY <1>8, <2>5, <2>6 DEF HoldsContents
<1>12. QED
  BY <1>10, <1>11

LEMMA TransferKeeps ==
  ASSUME StorageTypeOK, HoldsContents, Transfer, ~mixed'
  PROVE  StorageTypeOK' /\ HoldsContents'
<1> DEFINE r == material_names[owner]
           arrived(s) == Deserialize(chunk.codec, Serialize(chunk, r), 0, chunk.count, material_names[s])
<1>1. PICK s \in Side \ {owner} :
        /\ chunk' = arrived(s).chunk /\ owner' = s
        /\ material_names' = [material_names EXCEPT ![s] = arrived(s).names]
  BY DEF Transfer
<1>2. /\ contents # <<>> /\ Defined(ToSet(Materials(chunk))) /\ received' = TRUE /\ contents' = contents
      /\ mixed' = (mixed \/ KeepsForeign \/ TooManyNames)
  BY DEF Transfer
<1> DEFINE k == material_names[s]
           d == Deserialize(chunk.codec, Serialize(chunk, r), 0, chunk.count, k)
<1>3. /\ contents \in Seq(Blocks) /\ contents \in Seq(Block) /\ s \in Side
      /\ r \in Registry(Material) /\ k \in Registry(Material)
  BY ContentsAreBlocks DEF StorageTypeOK
<1>4. chunk' = d.chunk /\ material_names' = [material_names EXCEPT ![s] = d.names]
  BY <1>1
<1>5. ~KeepsForeign /\ ~TooManyNames
  BY <1>2
<1>6. Holds(chunk, contents, r) /\ OwnIndices
  BY <1>2 DEF HoldsContents
<1>7. chunk.codec = "packed" => chunk.remap = <<>>
  BY <1>5, <1>6 DEF OwnIndices, KeepsForeign
<1>8. Len(Materials(chunk)) < 2^LengthBits /\ \A g \in ToSet(Materials(chunk)) : g < Len(r)
  <2>1. Len(Materials(chunk)) \in Nat
    BY <1>3, <1>6, MaterialsTyped
  <2>2. 2^LengthBits \in Nat
    BY PowerOfTwo DEF LengthBits
  <2>3. QED
    BY <1>2, <1>5, <2>1, <2>2 DEF TooManyNames, Defined
<1> DEFINE bits == Serialize(chunk, r)
<1> HIDE DEF r, k
<1>9. bits \in Seq(Bit)
  BY <1>3, <1>6, <1>8, SerializeTyped
<1>10. Stands(bits, 0, bits) /\ 0 \in Nat
  BY <1>9, StandsAtEnd
<1>11. Arrived(d, contents, k)
  BY <1>3, <1>6, <1>7, <1>8, <1>9, <1>10, Arrives
<1> HIDE DEF d, bits
<1>12. Holds(d.chunk, contents, d.names) /\ d.names \in Registry(Material)
  BY <1>11 DEF Arrived
<1>13. material_names'[s] = d.names /\ material_names' \in [Side -> Registry(Material)]
  BY <1>3, <1>4, <1>12 DEF StorageTypeOK
<1>14. StorageTypeOK'
  BY <1>1, <1>2, <1>3, <1>13 DEF StorageTypeOK
<1>15. HoldsContents'
  BY <1>1, <1>2, <1>4, <1>12, <1>13 DEF HoldsContents, OwnIndices
<1>16. QED
  BY <1>14, <1>15

LEMMA GrowthKeeps ==
  ASSUME StorageTypeOK, HoldsContents, NEW s \in Side, getOrCreateMaterial(s)
  PROVE  StorageTypeOK' /\ HoldsContents'
<1>1. PICK m \in Material : material_names' = [material_names EXCEPT ![s] = Known(material_names[s], m)]
  BY DEF getOrCreateMaterial
<1>2. UNCHANGED <<owner, chunk, contents, received, mixed>>
  BY DEF getOrCreateMaterial
<1> DEFINE k == Known(material_names[s], m)
<1>3. k \in Registry(Material) /\ Extends(material_names[s], k)
      /\ [material_names EXCEPT ![s] = k] \in [Side -> Registry(Material)]
  BY NamesGrow
<1>4. material_names' = [material_names EXCEPT ![s] = k]
  BY <1>1
<1> HIDE DEF k
<1>5. StorageTypeOK'
  BY <1>2, <1>3, <1>4 DEF StorageTypeOK
<1>6. HoldsContents'
  <2>1. CASE contents = <<>>
    BY <1>2, <2>1 DEF HoldsContents
  <2>2. CASE contents # <<>>
    <3>1. Holds(chunk, contents, material_names[owner]) /\ OwnIndices
      BY <2>2 DEF HoldsContents
    <3>2. contents \in Seq(Blocks) /\ material_names[owner] \in Registry(Material)
      BY ContentsAreBlocks
    <3>3. Holds(chunk, contents, material_names'[owner])
      <4>1. CASE s = owner
        <5>1. material_names'[owner] = k
          BY <1>4, <4>1 DEF StorageTypeOK
        <5>2. Holds(chunk, contents, k)
          BY <1>3, <3>1, <3>2, <4>1, HoldsExtends
        <5>3. QED
          BY <5>1, <5>2
      <4>2. CASE s # owner
        <5>1. material_names'[owner] = material_names[owner]
          BY <1>4, <4>2 DEF StorageTypeOK
        <5>2. QED
          BY <3>1, <5>1
      <4>3. QED BY <4>1, <4>2
    <3>4. OwnIndices'
      BY <1>2, <3>1 DEF OwnIndices
    <3>5. QED
      BY <1>2, <2>2, <3>3, <3>4 DEF HoldsContents
  <2>3. QED BY <2>1, <2>2
<1>7. QED
  BY <1>5, <1>6

(* Once an index may have the wrong name, that is never forgotten.          *)
LEMMA MixedStays ==
  ASSUME StorageNext, ~mixed'
  PROVE  ~mixed
  BY DEF StorageNext, PackFirst, PackAnew, AddOne, Transfer, getOrCreateMaterial

LEMMA StorageInvStep == StorageInv /\ [StorageNext]_storage_vars => StorageInv'
<1> SUFFICES ASSUME StorageInv, [StorageNext]_storage_vars, ~mixed'
             PROVE  StorageTypeOK' /\ HoldsContents'
  BY DEF StorageInv
<1>1. CASE UNCHANGED storage_vars
  BY <1>1 DEF storage_vars, StorageInv, StorageTypeOK, HoldsContents, OwnIndices
<1>2. CASE StorageNext
  <2>1. StorageTypeOK /\ HoldsContents
    BY <1>2, MixedStays DEF StorageInv
  <2>2. CASE PackFirst
    BY <2>1, <2>2, PackFirstKeeps
  <2>3. CASE PackAnew
    BY <2>1, <2>3, PackAnewKeeps
  <2>4. CASE AddOne
    BY <2>1, <2>4, AddOneKeeps
  <2>5. CASE Transfer
    BY <2>1, <2>5, TransferKeeps
  <2>6. ASSUME NEW s \in Side, getOrCreateMaterial(s) PROVE StorageTypeOK' /\ HoldsContents'
    BY <2>1, <2>6, GrowthKeeps
  <2>7. QED
    BY <1>2, <2>2, <2>3, <2>4, <2>5, <2>6 DEF StorageNext
<1>3. QED
  BY <1>1, <1>2

LEMMA StorageInvKeeps == StorageInv => ContentsKept
<1> SUFFICES ASSUME StorageTypeOK, HoldsContents PROVE Unpack(chunk, material_names[owner]) = contents
  BY DEF StorageInv, ContentsKept
<1>1. CASE contents = <<>>
  <2>1. chunk.count = 0
    BY <1>1 DEF HoldsContents
  <2>2. QED
    BY <1>1, <2>1 DEF Unpack
<1>2. CASE contents # <<>>
  <2>1. Holds(chunk, contents, material_names[owner])
    BY <1>2 DEF HoldsContents
  <2>2. contents \in Seq(Blocks)
    BY ContentsAreBlocks
  <2>3. QED
    BY <2>1, <2>2, Kept
<1>3. QED
  BY <1>1, <1>2

(* Whatever is packed, added, packed anew and sent, in whatever order, and  *)
(* whatever the registries of the processes hold, a chunk gives back the    *)
(* blocks that were put into it, unless a received bit-packed chunk was     *)
(* added to or sent on, or one of more materials than a message can count.  *)
THEOREM StorageKeepsContents == StorageSpec => []ContentsKept
<1>1. QED
  BY StorageInvInit, StorageInvStep, StorageInvKeeps, PTL DEF StorageSpec
=============================================================================
