--------------------------- MODULE Security_proofs ---------------------------
(***************************************************************************)
(* Proofs about what Security keeps: RateLimit, and CaptchaPuzzles with    *)
(* the IndexPool it uses.                                                  *)
(*                                                                         *)
(* Pools: what each operation does to the structure comes first, for any   *)
(* key limit and items; then that an index pool is typed, consistent while *)
(* only keys at their own index are erased, and has an item for each key   *)
(* it lists; then, for any number of threads and puzzles, that the pool of *)
(* captchas is typed and keeps its count and that a puzzle that is used up is   *)
(* on its way out.                                                         *)
(*                                                                         *)
(* Rate limits: for any limits, addresses, threads and lag, the spacing of *)
(* accepted requests and the reason of every refusal.                      *)
(***************************************************************************)
EXTENDS CaptchaPuzzles, IndexPool, RateLimit, FiniteSetTheorems, SequenceTheorems,
        WellFoundedInduction, TLAPS

(* insert's search ends at a free key, if there is one.                     *)
LEMMA NextKeyIsFree ==
  ASSUME NEW p, p.counter \in Keys, CanInsert(p)
  PROVE  NextKey(p) \in Keys /\ ~Contains(p, NextKey(p))
<1> DEFINE Free == {k \in Keys : ~Contains(p, k)}
           Dist == {Ahead(p, k) : k \in Free}
<1>1. \A k \in Keys : Ahead(p, k) \in Nat
  BY KeyLimitAssumption DEF Ahead, Keys
<1>2. Dist \subseteq Nat /\ Dist # {}
  BY <1>1 DEF CanInsert
<1>3. \E x \in Dist : \A y \in Dist : ~(<<y, x>> \in OpToRel(<, Nat))
  BY <1>2, NatLessThanWellFounded, WFMin
<1>4. PICK x \in Dist : \A y \in Dist : ~(y < x)
  BY <1>2, <1>3 DEF OpToRel
<1>5. PICK k \in Free : x = Ahead(p, k)
  BY <1>4
<1>6. \A j \in Keys : ~Contains(p, j) => Ahead(p, k) <= Ahead(p, j)
  BY <1>1, <1>4, <1>5
<1>7. k \in Keys /\ ~Contains(p, k)
  BY <1>5
<1>8. QED
  BY <1>6, <1>7 DEF NextKey

LEMMA EmptyIsRight ==
  ASSUME NEW items
  PROVE  PoolTyped(Empty, items) /\ Consistent(Empty)
  BY KeyLimitAssumption DEF PoolTyped, Consistent, Empty, Keys

LEMMA InsertedTyped ==
  ASSUME NEW p, NEW items, PoolTyped(p, items), CanInsert(p), NEW item \in items
  PROVE  /\ PoolTyped(Inserted(p, item), items)
         /\ NextKey(p) \in Keys /\ ~Contains(p, NextKey(p))
<1> DEFINE key == NextKey(p)
           q == Inserted(p, item)
<1>1. key \in Keys /\ ~Contains(p, key)
  BY NextKeyIsFree DEF PoolTyped
<1> HIDE DEF key
<1>2. q = [pool |-> [k \in DOMAIN p.pool \cup {key} |-> IF k = key THEN item ELSE p.pool[k]],
           available |-> Append(p.available, key),
           index |-> [k \in DOMAIN p.index \cup {key} |->
                        IF k = key THEN Len(p.available) ELSE p.index[k]],
           counter |-> key]
  BY DEF Inserted, key
<1> HIDE DEF q
<1>3. q.pool = [k \in DOMAIN p.pool \cup {key} |-> IF k = key THEN item ELSE p.pool[k]]
  BY <1>2
<1>4. q.index = [k \in DOMAIN p.index \cup {key} |->
                   IF k = key THEN Len(p.available) ELSE p.index[k]]
  BY <1>2
<1>5. q.available = Append(p.available, key) /\ q.counter = key
  BY <1>2
<1>6. DOMAIN q.pool \subseteq Keys /\ q.pool \in [DOMAIN q.pool -> items \cup {Blank}]
  BY <1>1, <1>3 DEF PoolTyped
<1>7. q.index \in [DOMAIN q.index -> Nat]
  BY <1>4 DEF PoolTyped
<1>8. q.available \in Seq(Keys) /\ q.counter \in Keys
  BY <1>1, <1>5 DEF PoolTyped
<1>9. QED
  BY <1>1, <1>6, <1>7, <1>8 DEF PoolTyped, q, key

LEMMA InsertedConsistent ==
  ASSUME NEW p, NEW items, PoolTyped(p, items), CanInsert(p), Consistent(p), NEW item \in items
  PROVE  Consistent(Inserted(p, item))
<1> DEFINE key == NextKey(p)
           q == Inserted(p, item)
           n == Len(p.available)
<1>1. key \in Keys /\ key \notin DOMAIN p.pool
  BY NextKeyIsFree DEF PoolTyped, Contains
<1>2. n \in Nat /\ \A j \in 1 .. n : p.available[j] \in Keys
  BY DEF PoolTyped
<1>3. /\ DOMAIN q.pool = DOMAIN p.pool \cup {key}
      /\ DOMAIN q.index = DOMAIN p.index \cup {key}
      /\ \A k \in DOMAIN q.index : q.index[k] = IF k = key THEN n ELSE p.index[k]
      /\ q.available = Append(p.available, key)
  BY DEF Inserted
<1> HIDE DEF key, q
<1>4. /\ Len(q.available) = n + 1 /\ q.available[n + 1] = key
      /\ \A j \in 1 .. n : q.available[j] = p.available[j]
  BY <1>1, <1>3 DEF PoolTyped
<1>5. DOMAIN q.index = DOMAIN q.pool
  BY <1>3 DEF Consistent
<1>6. \A j \in 1 .. n : p.available[j] \in DOMAIN p.pool /\ p.index[p.available[j]] = j - 1
  BY DEF Consistent
<1>7. ASSUME NEW j \in 1 .. Len(q.available)
      PROVE  q.available[j] \in DOMAIN q.pool /\ q.index[q.available[j]] = j - 1
  <2>1. CASE j = n + 1
    BY <1>2, <1>3, <1>4, <1>5, <2>1
  <2>2. CASE j # n + 1
    <3>1. j \in 1 .. n
      BY <1>2, <1>4, <2>2
    <3>2. p.available[j] \in DOMAIN p.pool /\ p.available[j] # key
      BY <1>1, <1>6, <3>1
    <3>3. QED
      BY <1>3, <1>4, <1>5, <1>6, <3>1, <3>2
  <2>3. QED
    BY <2>1, <2>2
<1>8. ASSUME NEW k \in DOMAIN q.pool
      PROVE  q.index[k] \in 0 .. Len(q.available) - 1 /\ q.available[q.index[k] + 1] = k
  <2>1. CASE k = key
    BY <1>2, <1>3, <1>4, <1>5, <2>1
  <2>2. CASE k # key
    <3>1. k \in DOMAIN p.pool /\ q.index[k] = p.index[k]
      BY <1>3, <1>5, <2>2
    <3>2. p.index[k] \in 0 .. n - 1 /\ p.available[p.index[k] + 1] = k
      BY <3>1 DEF Consistent
    <3>3. p.index[k] + 1 \in 1 .. n
      BY <1>2, <3>2
    <3>4. q.available[p.index[k] + 1] = k
      BY <1>4, <3>2, <3>3
    <3>5. p.index[k] \in 0 .. Len(q.available) - 1
      BY <1>2, <1>4, <3>2
    <3>6. QED
      BY <3>1, <3>4, <3>5
  <2>3. QED
    BY <2>1, <2>2
<1>9. QED
  BY <1>5, <1>7, <1>8 DEF Consistent, q

LEMMA ErasedTyped ==
  ASSUME NEW p, NEW items, PoolTyped(p, items), NEW k \in Keys, EraseInBounds(p, k)
  PROVE  PoolTyped(Erased(p, k), items)
<1> DEFINE i == IndexOf(p, k)
           last == Len(p.available) - 1
           back == p.available[last + 1]
           moved == IndexOf(p, i)
           q == Erased(p, k)
<1>1. \A x : IndexOf(p, x) \in Nat
  BY DEF PoolTyped, IndexOf
<1>2. /\ i \in Nat /\ last \in Nat /\ moved \in Nat /\ i <= last
  BY <1>1 DEF EraseInBounds, PoolTyped
<1>3. \A j \in 1 .. last + 1 : p.available[j] \in Keys
  BY DEF PoolTyped
<1>4. back \in Keys
  BY <1>2, <1>3
<1>5. /\ q.pool = [x \in DOMAIN p.pool \ {k} |-> p.pool[x]]
      /\ q.available = [j \in 1 .. last |-> IF j = i + 1 THEN back ELSE p.available[j]]
      /\ q.index = [x \in (DOMAIN p.index \cup {i, moved, back}) \ {k} |->
                      IF x = moved THEN last ELSE IF x = back THEN i ELSE IndexOf(p, x)]
      /\ q.counter = p.counter
  BY DEF Erased
<1> HIDE DEF q, i, last, back, moved
<1>6. DOMAIN q.pool \subseteq Keys /\ q.pool \in [DOMAIN q.pool -> items \cup {Blank}]
  BY <1>5 DEF PoolTyped
<1>7. q.available \in [1 .. last -> Keys]
  BY <1>2, <1>3, <1>4, <1>5
<1>8. q.available \in Seq(Keys)
  BY <1>2, <1>7, SeqDef
<1>9. q.index \in [DOMAIN q.index -> Nat]
  BY <1>1, <1>2, <1>5
<1>10. q.counter \in Keys
  BY <1>5 DEF PoolTyped
<1>11. QED
  BY <1>6, <1>8, <1>9, <1>10 DEF PoolTyped, q

(* With the key at its own index, the entry swap_index_to_back sets by      *)
(* mistake is the one erase removes.                                        *)
LEMMA ErasedConsistent ==
  ASSUME NEW p, NEW items, PoolTyped(p, items), Consistent(p), NEW k \in Keys, Contains(p, k),
         IndexOf(p, k) = k
  PROVE  EraseInBounds(p, k) /\ Consistent(Erased(p, k))
<1> DEFINE last == Len(p.available) - 1
           back == p.available[last + 1]
           q == Erased(p, k)
<1>1. k \in DOMAIN p.pool /\ k \in DOMAIN p.index /\ p.index[k] = k
  BY DEF Contains, Consistent, IndexOf
<1>2. k \in 0 .. last /\ last \in Nat /\ k \in Nat
  BY <1>1 DEF Consistent, PoolTyped, Keys
<1>3. EraseInBounds(p, k)
  BY <1>2 DEF EraseInBounds
<1>4. /\ back \in DOMAIN p.pool /\ p.index[back] = last
      /\ p.available[k + 1] = k
  BY <1>1, <1>2 DEF Consistent
<1>5. q = [pool |-> [x \in DOMAIN p.pool \ {k} |-> p.pool[x]],
           available |-> [j \in 1 .. last |-> IF j = k + 1 THEN back ELSE p.available[j]],
           index |-> [x \in (DOMAIN p.index \cup {k, k, back}) \ {k} |->
                        IF x = k THEN last ELSE IF x = back THEN k ELSE IndexOf(p, x)],
           counter |-> p.counter]
  BY DEF Erased
<1> HIDE DEF q
<1>6. DOMAIN q.pool = DOMAIN p.pool \ {k}
  BY <1>5
<1>7. q.available = [j \in 1 .. last |-> IF j = k + 1 THEN back ELSE p.available[j]]
  BY <1>5
<1>8. Len(q.available) = last
  BY <1>2, <1>7
<1>9. q.index = [x \in (DOMAIN p.index \cup {k, k, back}) \ {k} |->
                   IF x = k THEN last ELSE IF x = back THEN k ELSE IndexOf(p, x)]
  BY <1>5
<1> HIDE DEF last, back
<1>10. DOMAIN q.index = DOMAIN p.index \ {k}
  BY <1>4, <1>9 DEF Consistent
<1>11. \A x \in DOMAIN q.index : q.index[x] = IF x = back THEN k ELSE p.index[x]
  BY <1>9, <1>10 DEF IndexOf
<1>12. DOMAIN q.index = DOMAIN q.pool
  BY <1>6, <1>10 DEF Consistent
<1>13. \A j \in 1 .. last + 1 : p.available[j] \in DOMAIN p.pool /\ p.index[p.available[j]] = j - 1
  BY DEF Consistent, last, PoolTyped
<1>14. ASSUME NEW j \in 1 .. Len(q.available)
       PROVE  q.available[j] \in DOMAIN q.pool /\ q.index[q.available[j]] = j - 1
  <2>1. j \in 1 .. last /\ j \in 1 .. last + 1
    BY <1>2, <1>8
  <2>2. CASE j = k + 1
    <3>1. q.available[j] = back /\ back # k
      BY <1>1, <1>2, <1>4, <1>7, <2>1, <2>2
    <3>2. back \in DOMAIN q.pool
      BY <1>4, <1>6, <3>1
    <3>3. QED
      BY <1>2, <1>11, <1>12, <2>2, <3>1, <3>2
  <2>3. CASE j # k + 1
    <3>1. q.available[j] = p.available[j]
      BY <1>7, <2>1, <2>3
    <3>2. p.available[j] \in DOMAIN p.pool /\ p.index[p.available[j]] = j - 1
      BY <1>13, <2>1
    <3>3. p.available[j] # k /\ p.available[j] # back
      BY <1>1, <1>2, <1>4, <2>1, <2>3, <3>2
    <3>4. QED
      BY <1>6, <1>11, <1>12, <3>1, <3>2, <3>3
  <2>4. QED
    BY <2>2, <2>3
<1>15. ASSUME NEW x \in DOMAIN q.pool
       PROVE  q.index[x] \in 0 .. Len(q.available) - 1 /\ q.available[q.index[x] + 1] = x
  <2>1. x \in DOMAIN p.pool /\ x # k
    BY <1>6
  <2>2. p.index[x] \in 0 .. last /\ p.available[p.index[x] + 1] = x
    BY <2>1 DEF Consistent, last
  <2>3. CASE x = back
    <3>1. q.index[x] = k
      BY <1>11, <1>12, <2>3
    <3>2. k # last
      BY <1>2, <1>4, <2>1, <2>3 DEF back
    <3>3. QED
      BY <1>2, <1>7, <1>8, <2>3, <3>1, <3>2
  <2>4. CASE x # back
    <3>1. q.index[x] = p.index[x]
      BY <1>11, <1>12, <2>4
    <3>2. p.index[x] # last /\ p.index[x] # k
      BY <1>2, <1>4, <2>1, <2>2, <2>4 DEF back
    <3>3. QED
      BY <1>2, <1>7, <1>8, <2>2, <3>1, <3>2
  <2>5. QED
    BY <2>3, <2>4
<1>16. QED
  BY <1>3, <1>12, <1>14, <1>15 DEF Consistent, q

(* random adds an item only for a key that is listed and missing.           *)
LEMMA AfterRandomTyped ==
  ASSUME NEW p, NEW items, PoolTyped(p, items), p.available # <<>>, NEW r \in Nat
  PROVE  /\ PoolTyped(AfterRandom(p, r), items) /\ RandomKey(p, r) \in Keys
         /\ Consistent(p) => Consistent(AfterRandom(p, r))
<1> DEFINE n == Len(p.available)
           key == RandomKey(p, r)
           q == AfterRandom(p, r)
<1>1. n \in Nat \ {0}
  BY DEF PoolTyped
<1>2. (r % n) \in 0 .. n - 1
  BY <1>1
<1>3. PICK d \in 0 .. n - 1 : d = r % n
  BY <1>2
<1>4. key \in Keys /\ (Consistent(p) => key \in DOMAIN p.pool)
  <2>1. d + 1 \in 1 .. n
    BY <1>1
  <2>2. key = p.available[d + 1]
    BY <1>3, Zenon DEF RandomKey
  <2>3. QED
    BY <2>1, <2>2 DEF PoolTyped, Consistent
<1>5. /\ q.pool = [k \in DOMAIN p.pool \cup {key} |-> IF Contains(p, k) THEN p.pool[k] ELSE Blank]
      /\ q.available = p.available /\ q.index = p.index /\ q.counter = p.counter
  BY DEF AfterRandom
<1> HIDE DEF q, key
<1>6. PoolTyped(q, items)
  BY <1>4, <1>5 DEF PoolTyped, Contains
<1>7. ASSUME Consistent(p) PROVE Consistent(q)
  <2>1. DOMAIN q.pool = DOMAIN p.pool
    BY <1>4, <1>5, <1>7
  <2>2. QED
    BY <1>5, <1>7, <2>1 DEF Consistent
<1>8. QED
  BY <1>4, <1>6, <1>7 DEF q, key
-----------------------------------------------------------------------------
PoolInv == PoolTypeOK /\ ConsistentWhileHome

LEMMA PoolStep ==
  ASSUME PoolInv, [PoolNext]_pool_vars, MaxSize \in Nat
  PROVE  PoolInv'
<1> USE DEF PoolInv, PoolTypeOK, ConsistentWhileHome
<1>1. ASSUME NEW item \in Item, Insert(item) PROVE PoolInv'
  <2>1. PoolTyped(structure', Item) /\ UNCHANGED <<home, outside>>
    BY <1>1, InsertedTyped DEF Insert
  <2>2. Consistent(structure) => Consistent(structure')
    BY <1>1, InsertedConsistent DEF Insert
  <2>3. QED
    BY <2>1, <2>2
<1>2. ASSUME NEW k \in Keys, Erase(k) PROVE PoolInv'
  <2>1. PoolTyped(structure', Item) /\ home' \in BOOLEAN /\ outside' = outside
    BY <1>2, ErasedTyped DEF Erase
  <2>2. home' => Consistent(structure')
    BY <1>2, ErasedConsistent DEF Erase
  <2>3. QED
    BY <1>2, <2>1, <2>2 DEF Erase
<1>3. ASSUME NEW k \in Keys, EraseOutOfBounds(k) PROVE PoolInv'
  <2>1. ~home
    <3>1. SUFFICES ASSUME Consistent(structure) PROVE FALSE
      BY <1>3
    <3>2. k \in DOMAIN structure.pool /\ ~(IndexOf(structure, k) < Len(structure.available))
      BY <1>3 DEF EraseOutOfBounds, Contains, EraseInBounds
    <3>3. IndexOf(structure, k) \in 0 .. Len(structure.available) - 1
      BY <3>1, <3>2 DEF Consistent, IndexOf
    <3>4. Len(structure.available) \in Nat
      BY DEF PoolTyped
    <3>5. QED
      BY <3>2, <3>3, <3>4
  <2>2. QED
    BY <1>3, <2>1 DEF EraseOutOfBounds
<1>4. ASSUME NEW r \in 0 .. MaxSize - 1, Random(r) PROVE PoolInv'
  <2>1. r \in Nat
    OBVIOUS
  <2>2. QED
    BY <1>4, <2>1, AfterRandomTyped DEF Random
<1>5. CASE UNCHANGED pool_vars
  BY <1>5 DEF pool_vars
<1>6. QED
  BY <1>1, <1>2, <1>3, <1>4, <1>5 DEF PoolNext

LEMMA PoolInvariant == PoolSpec => []PoolInv
<1>1. PoolInit => PoolInv
  BY EmptyIsRight DEF PoolInit, PoolInv, PoolTypeOK, ConsistentWhileHome
<1>2. PoolInv /\ [PoolNext]_pool_vars => PoolInv'
  BY PoolStep, KeyLimitAssumption, MaxSizeAssumption
<1>3. QED
  BY <1>1, <1>2, PTL DEF PoolSpec

(* Keys stay keys and places stay places, even after a wrong swap.          *)
THEOREM PoolTypeCorrect == PoolSpec => []PoolTypeOK
<1>1. PoolInv => PoolTypeOK
  BY DEF PoolInv
<1>2. QED
  BY <1>1, PoolInvariant, PTL

(* The pool is right until a key away from its own index is erased.         *)
THEOREM RightWhileHome == PoolSpec => []ConsistentWhileHome
<1>1. PoolInv => ConsistentWhileHome
  BY DEF PoolInv
<1>2. QED
  BY <1>1, PoolInvariant, PTL
-----------------------------------------------------------------------------
LEMMA KeysFinite ==
  ASSUME NEW S, S \subseteq Keys
  PROVE  IsFiniteSet(S) /\ Cardinality(S) \in Nat
<1>1. IsFiniteSet(Keys)
  BY KeyLimitAssumption, FS_Interval DEF Keys
<1>2. QED
  BY <1>1, FS_Subset, FS_CardinalityType

(* Each operation changes the number of items at least as much as it lets   *)
(* the list of keys grow.                                                   *)
LEMMA EnoughStep ==
  ASSUME PoolTypeOK, EnoughItems, [PoolNext]_pool_vars
  PROVE  EnoughItems'
<1> DEFINE items == DOMAIN structure.pool
<1>1. /\ items \subseteq Keys /\ IsFiniteSet(items) /\ Cardinality(items) \in Nat
      /\ Len(structure.available) \in Nat /\ Len(structure.available) <= Cardinality(items)
  BY KeysFinite DEF PoolTypeOK, PoolTyped, EnoughItems
<1>2. ASSUME NEW item \in Item, Insert(item) PROVE EnoughItems'
  <2>1. NextKey(structure) \notin items
    BY <1>2, NextKeyIsFree DEF Insert, PoolTypeOK, PoolTyped, Contains
  <2>2. /\ structure'.available = Append(structure.available, NextKey(structure))
        /\ DOMAIN structure'.pool = items \cup {NextKey(structure)}
    BY <1>2 DEF Insert, Inserted
  <2>3. Len(structure'.available) = Len(structure.available) + 1
    BY <2>2 DEF PoolTypeOK, PoolTyped
  <2>4. Cardinality(DOMAIN structure'.pool) = Cardinality(items) + 1
    BY <1>1, <2>1, <2>2, FS_AddElement
  <2>5. QED
    BY <1>1, <2>3, <2>4 DEF EnoughItems
<1>3. ASSUME NEW k \in Keys, Erase(k) PROVE EnoughItems'
  <2>1. k \in items /\ DOMAIN structure'.pool = items \ {k}
    BY <1>3 DEF Erase, Erased, Contains
  <2>2. Len(structure.available) - 1 \in Nat
    <3>1. IndexOf(structure, k) \in Nat /\ IndexOf(structure, k) < Len(structure.available)
      BY <1>3 DEF Erase, EraseInBounds, IndexOf, PoolTypeOK, PoolTyped
    <3>2. QED
      BY <1>1, <3>1
  <2>3. Len(structure'.available) = Len(structure.available) - 1
    BY <1>3, <2>2 DEF Erase, Erased
  <2>4. Cardinality(DOMAIN structure'.pool) = Cardinality(items) - 1
    BY <1>1, <2>1, FS_RemoveElement
  <2>5. QED
    BY <1>1, <2>3, <2>4 DEF EnoughItems
<1>4. ASSUME NEW r \in 0 .. MaxSize - 1, Random(r) PROVE EnoughItems'
  <2>1. PoolTyped(structure', Item)
    BY <1>4, AfterRandomTyped, MaxSizeAssumption DEF Random, PoolTypeOK
  <2>2. structure'.available = structure.available /\ items \subseteq DOMAIN structure'.pool
    BY <1>4 DEF Random, AfterRandom
  <2>3. IsFiniteSet(DOMAIN structure'.pool) /\ Cardinality(DOMAIN structure'.pool) \in Nat
    BY <2>1, KeysFinite DEF PoolTyped
  <2>4. Cardinality(items) <= Cardinality(DOMAIN structure'.pool)
    BY <2>2, <2>3, FS_Subset
  <2>5. QED
    BY <1>1, <2>2, <2>3, <2>4 DEF EnoughItems
<1>5. CASE UNCHANGED structure
  BY <1>5 DEF EnoughItems
<1>6. QED
  BY <1>2, <1>3, <1>4, <1>5 DEF PoolNext, EraseOutOfBounds, pool_vars

(* Whatever a wrong swap has done to the order, the list of keys is never   *)
(* longer than the pool.                                                    *)
THEOREM ListedHaveItems == PoolSpec => []EnoughItems
<1>1. PoolInit => EnoughItems
  BY FS_EmptySet DEF PoolInit, Empty, EnoughItems
<1>2. PoolTypeOK /\ EnoughItems /\ [PoolNext]_pool_vars => EnoughItems'
  BY EnoughStep
<1>3. QED
  BY <1>1, <1>2, PoolTypeCorrect, PTL DEF PoolSpec
-----------------------------------------------------------------------------
Making == {t \in Thread : pc[t] = "make"}

(* Until something breaks, the pool is a record in which no puzzle is       *)
(* missing.                                                                 *)
Whole ==
  /\ DOMAIN puzzles = {"pool", "available", "index", "counter"}
  /\ ~broken => \A k \in DOMAIN puzzles.pool : puzzles.pool[k] # Blank

CaptchaInv == TypeOK /\ Whole /\ PoolKeepsCount /\ SpentIsDeleted

LEMMA CountFacts == 0 \in Keys /\ 0 \in Count /\ \A n \in Count : (n + 1) % CountLimit \in Count
  BY PoolAssumption, KeyLimitAssumption DEF Keys, Count

(* How many threads owe the pool a puzzle.                                  *)
LEMMA MakingFinite ==
  IsFiniteSet(Making) /\ Cardinality(Making) \in Nat
  BY PoolAssumption, KeyLimitAssumption, FS_Subset, FS_CardinalityType DEF Making

(* A step that leaves the list of keys and the threads that make a puzzle   *)
(* as they are keeps the number of puzzles.                                 *)
LEMMA CountStays ==
  ASSUME PoolKeepsCount, puzzles'.available = puzzles.available, Making' = Making,
         surplus' = surplus
  PROVE  PoolKeepsCount'
  BY DEF PoolKeepsCount, Making

LEMMA InitInv == Init => CaptchaInv
<1> SUFFICES ASSUME Init PROVE CaptchaInv
  OBVIOUS
<1> DEFINE places == [j \in 1 .. PoolSize |-> j - 1]
<1>1. /\ puzzles.pool = [k \in 0 .. PoolSize - 1 |-> 0]
      /\ puzzles.available = places
      /\ puzzles.index = [k \in 0 .. PoolSize - 1 |-> k]
      /\ puzzles.counter = PoolSize - 1
      /\ DOMAIN puzzles = {"pool", "available", "index", "counter"}
  BY DEF Init
<1>2. 0 .. PoolSize - 1 \subseteq Keys /\ \A j \in 1 .. PoolSize : j - 1 \in Keys
  BY PoolAssumption, KeyLimitAssumption DEF Keys
<1>3. 0 \in Count
  BY CountFacts
<1>4. places \in Seq(Keys) /\ Len(places) = PoolSize
  <2>1. places \in [1 .. PoolSize -> Keys]
    BY <1>2
  <2>2. QED
    BY <2>1, PoolAssumption, KeyLimitAssumption
<1>5. PoolTyped(puzzles, Count)
  <2>1. puzzles.pool \in [0 .. PoolSize - 1 -> Count]
    BY <1>1, <1>3
  <2>2. puzzles.index \in [0 .. PoolSize - 1 -> Nat] /\ puzzles.counter \in Keys
    BY <1>1, PoolAssumption, KeyLimitAssumption DEF Keys
  <2>3. QED
    BY <1>1, <1>2, <1>4, <2>1, <2>2 DEF PoolTyped
<1>6. TypeOK
  BY <1>5, CountFacts DEF Init, TypeOK
<1>7. Whole /\ SpentIsDeleted
  <2>1. \A k \in DOMAIN puzzles.pool : puzzles.pool[k] \in Count /\ ~(puzzles.pool[k] > 1)
    BY <1>1, <1>3
  <2>2. QED
    BY <1>1, <2>1, BlankAssumption DEF Whole, SpentIsDeleted
<1>8. PoolKeepsCount
  <2>1. Making = {}
    BY DEF Init, Making
  <2>2. Cardinality(Making) = 0
    BY <2>1, FS_EmptySet
  <2>3. Len(puzzles.available) = PoolSize
    BY <1>1, <1>4
  <2> HIDE DEF places
  <2>4. QED
    BY <2>2, <2>3, PoolAssumption, KeyLimitAssumption DEF PoolKeepsCount, Making, Init
<1>9. QED
  BY <1>6, <1>7, <1>8 DEF CaptchaInv

(* The count a check reads is one, while nothing is broken.                 *)
LEMMA UsesAreCounts ==
  ASSUME TypeOK, Whole, ~broken, NEW t \in Thread
  PROVE  /\ id[t] \in Keys /\ Uses(t) \in Count
         /\ \A k \in DOMAIN puzzles.pool : puzzles.pool[k] \in Count
<1>1. \A k \in DOMAIN puzzles.pool : puzzles.pool[k] \in Count
  BY DEF TypeOK, PoolTyped, Whole
<1>2. QED
  BY <1>1 DEF Uses, Contains, TypeOK

(* Of the steps of a check, these leave the pool as it is.                  *)
LEMMA QuietStep ==
  ASSUME CaptchaInv, NEW t \in Thread, CheckPuzzle(t) \/ Load(t) \/ Decide(t) \/ Corrupt(t)
  PROVE  CaptchaInv'
<1> USE DEF CaptchaInv
<1>1. Making' = Making
  BY DEF CheckPuzzle, Load, Decide, Corrupt, At, Goto, Accept, Making, TypeOK
<1>2. puzzles' = puzzles /\ surplus' = surplus /\ (broken' = broken \/ broken')
  BY DEF CheckPuzzle, Load, Decide, Corrupt
<1>3. PoolKeepsCount' /\ Whole'
  BY <1>1, <1>2, CountStays DEF Whole
<1>4. TypeOK'
  <2>1. CASE CheckPuzzle(t)
    BY <2>1 DEF CheckPuzzle, At, Goto, TypeOK
  <2>2. CASE Load(t)
    BY <2>2, UsesAreCounts DEF Load, At, Goto, TypeOK
  <2>3. CASE Decide(t)
    BY <2>3, CountFacts DEF Decide, At, Goto, Accept, TypeOK
  <2>4. CASE Corrupt(t)
    BY <2>4 DEF Corrupt, TypeOK
  <2>5. QED
    BY <2>1, <2>2, <2>3, <2>4
<1>5. SpentIsDeleted'
  <2>1. SUFFICES ASSUME NEW k \in DOMAIN puzzles.pool,
                        puzzles.pool[k] # Blank, puzzles.pool[k] > 1
                 PROVE  \E u \in Thread : id'[u] = k /\ pc'[u] \in {"decide", "delete"}
    BY <1>2 DEF SpentIsDeleted
  <2>2. PICK u \in Thread : id[u] = k /\ pc[u] \in {"decide", "delete"}
    BY <2>1 DEF SpentIsDeleted
  <2>3. CASE u = t /\ Decide(t)
    <3>1. Uses(t) = puzzles.pool[k]
      BY <2>2, <2>3 DEF Uses, Contains
    <3>2. Goto(t, "delete") /\ id' = id
      BY <2>1, <2>3, <3>1 DEF Decide
    <3>3. QED
      BY <2>2, <2>3, <3>2 DEF Goto, TypeOK
  <2>4. CASE ~(u = t /\ Decide(t))
    BY <2>2, <2>4 DEF CheckPuzzle, Load, Decide, Corrupt, At, Goto, Accept, TypeOK
  <2>5. QED
    BY <2>3, <2>4
<1>6. QED
  BY <1>3, <1>4, <1>5

LEMMA GetStep ==
  ASSUME CaptchaInv, GetPuzzle
  PROVE  CaptchaInv'
<1> USE DEF CaptchaInv
<1>1. puzzles.available # <<>>
  <2>1. Making = {}
    BY DEF GetPuzzle, Making
  <2>2. Cardinality(Making) = 0
    BY <2>1, FS_EmptySet
  <2>3. Len(puzzles.available) \in Nat /\ PoolSize \in Nat /\ PoolSize > 0
    BY PoolAssumption, KeyLimitAssumption DEF TypeOK, PoolTyped
  <2>4. Len(puzzles.available) # 0
    BY <2>2, <2>3 DEF PoolKeepsCount, Making, TypeOK
  <2>5. QED
    BY <2>4
<1>2. PICK r \in 0 .. PoolSize - 1 :
        LET key == RandomKey(puzzles, r)
        IN  /\ puzzles' = AfterRandom(puzzles, r)
            /\ broken' = ~(Contains(puzzles, key) /\ puzzles.pool[key] # Blank)
  BY DEF GetPuzzle
<1> DEFINE key == RandomKey(puzzles, r)
<1>3. r \in Nat /\ PoolTyped(puzzles, Count)
  BY PoolAssumption, KeyLimitAssumption DEF TypeOK
<1>4. PoolTyped(puzzles', Count) /\ key \in Keys
  BY <1>1, <1>2, <1>3, AfterRandomTyped
<1>5. /\ puzzles'.pool = [k \in DOMAIN puzzles.pool \cup {key} |->
                            IF k \in DOMAIN puzzles.pool THEN puzzles.pool[k] ELSE Blank]
      /\ puzzles'.available = puzzles.available
      /\ DOMAIN puzzles' = {"pool", "available", "index", "counter"}
  BY <1>2 DEF AfterRandom, Contains
<1>6. UNCHANGED <<sentinel, pc, id, seen, surplus>> /\ Making' = Making
  BY DEF GetPuzzle, Making
<1> HIDE DEF key
<1>7. PoolKeepsCount'
  BY <1>5, <1>6, CountStays
<1>8. TypeOK'
  BY <1>2, <1>4, <1>6 DEF TypeOK
<1>9. Whole'
  <2>1. ~broken' => key \in DOMAIN puzzles.pool
    BY <1>2 DEF Contains, key
  <2>2. QED
    BY <1>5, <2>1 DEF Whole, GetPuzzle
<1>10. SpentIsDeleted'
  BY <1>5, <1>6 DEF SpentIsDeleted
<1>11. QED
  BY <1>7, <1>8, <1>9, <1>10

LEMMA StoreStep ==
  ASSUME CaptchaInv, NEW t \in Thread, Store(t)
  PROVE  CaptchaInv'
<1> USE DEF CaptchaInv
<1> DEFINE key == id[t]
           spent == Incremented(t)
<1>1. /\ key \in Keys /\ ~broken /\ \A k \in DOMAIN puzzles.pool : puzzles.pool[k] \in Count
      /\ PoolTyped(puzzles, Count) /\ DOMAIN puzzles = {"pool", "available", "index", "counter"}
  BY UsesAreCounts DEF Store, At, TypeOK, Whole
<1>2. /\ pc' = [pc EXCEPT ![t] = "decide"] /\ pc[t] = "store"
      /\ UNCHANGED <<id, seen, broken, surplus>>
  BY DEF Store, Goto, At
<1>3. Making' = Making
  BY <1>2 DEF Making, TypeOK
<1>4. /\ DOMAIN puzzles' = DOMAIN puzzles
      /\ puzzles'.available = puzzles.available /\ puzzles'.index = puzzles.index
      /\ puzzles'.counter = puzzles.counter
      /\ DOMAIN puzzles'.pool = DOMAIN puzzles.pool
      /\ puzzles'.pool = IF key \in DOMAIN puzzles.pool
                           THEN [puzzles.pool EXCEPT ![key] = spent] ELSE puzzles.pool
  BY <1>1 DEF Store, Contains
<1>5. spent \in Count /\ sentinel' \in {sentinel, spent}
  BY CountFacts DEF Incremented, Store, TypeOK
<1> HIDE DEF spent
<1>6. \A k \in DOMAIN puzzles'.pool :
        puzzles'.pool[k] = IF k = key THEN spent ELSE puzzles.pool[k]
  BY <1>4
<1>7. \A k \in DOMAIN puzzles'.pool : puzzles'.pool[k] \in Count
  BY <1>1, <1>4, <1>5, <1>6
<1>8. PoolKeepsCount'
  BY <1>2, <1>3, <1>4, CountStays
<1>9. Whole'
  BY <1>1, <1>4, <1>7, BlankAssumption DEF Whole
<1>10. TypeOK'
  <2>1. puzzles'.pool \in [DOMAIN puzzles'.pool -> Count \cup {Blank}]
    BY <1>4, <1>7, <1>1 DEF PoolTyped
  <2>2. PoolTyped(puzzles', Count)
    BY <1>1, <1>4, <2>1 DEF PoolTyped
  <2>3. QED
    BY <1>2, <1>5, <2>2 DEF TypeOK
<1>11. SpentIsDeleted'
  <2>1. SUFFICES ASSUME NEW k \in DOMAIN puzzles.pool,
                        puzzles'.pool[k] # Blank, puzzles'.pool[k] > 1
                 PROVE  \E u \in Thread : id'[u] = k /\ pc'[u] \in {"decide", "delete"}
    BY <1>4 DEF SpentIsDeleted
  <2>2. CASE k = key
    BY <1>2, <2>2 DEF TypeOK
  <2>3. CASE k # key
    BY <1>2, <1>4, <1>6, <2>1, <2>3 DEF SpentIsDeleted, TypeOK
  <2>4. QED
    BY <2>2, <2>3
<1>12. QED
  BY <1>8, <1>9, <1>10, <1>11

(* A deleted puzzle leaves the pool short of one, which this thread owes;   *)
(* a deletion that finds nothing will leave it with one more.               *)
LEMMA DeleteStep ==
  ASSUME CaptchaInv, NEW t \in Thread, DeletePuzzle(t)
  PROVE  CaptchaInv'
<1> USE DEF CaptchaInv
<1> DEFINE key == id[t]
<1>1. /\ key \in Keys /\ ~broken /\ PoolTyped(puzzles, Count)
      /\ DOMAIN puzzles = {"pool", "available", "index", "counter"}
  BY UsesAreCounts DEF DeletePuzzle, At, TypeOK, Whole
<1>2. /\ pc' = [pc EXCEPT ![t] = "make"] /\ pc[t] = "delete"
      /\ UNCHANGED <<sentinel, id, seen, broken>>
  BY DEF DeletePuzzle, Goto, At
<1>3. /\ DOMAIN puzzles'.pool = DOMAIN puzzles.pool \ {key}
      /\ \A k \in DOMAIN puzzles'.pool : puzzles'.pool[k] = puzzles.pool[k]
      /\ DOMAIN puzzles' = {"pool", "available", "index", "counter"}
  BY <1>1 DEF DeletePuzzle, Deletion, Contains, Erased
<1>4. PoolTyped(puzzles', Count)
  BY <1>1, ErasedTyped DEF DeletePuzzle, Deletion
<1>5. TypeOK'
  <2>1. surplus' \in Nat
    BY DEF DeletePuzzle, TypeOK
  <2>2. QED
    BY <1>2, <1>4, <2>1 DEF TypeOK
<1>6. Whole'
  BY <1>2, <1>3 DEF Whole
<1>7. SpentIsDeleted'
  <2>1. SUFFICES ASSUME NEW k \in DOMAIN puzzles.pool \ {key},
                        puzzles.pool[k] # Blank, puzzles.pool[k] > 1
                 PROVE  \E u \in Thread : id'[u] = k /\ pc'[u] \in {"decide", "delete"}
    BY <1>3 DEF SpentIsDeleted
  <2>2. PICK u \in Thread : id[u] = k /\ pc[u] \in {"decide", "delete"}
    BY <2>1 DEF SpentIsDeleted
  <2>3. u # t
    BY <2>1, <2>2
  <2>4. QED
    BY <1>2, <2>2, <2>3 DEF TypeOK
<1>8. PoolKeepsCount'
  <2>1. Making' = Making \cup {t} /\ t \notin Making
    BY <1>2 DEF Making, TypeOK
  <2>2. Cardinality(Making') = Cardinality(Making) + 1 /\ Cardinality(Making) \in Nat
    BY <2>1, MakingFinite, FS_AddElement
  <2>3. /\ Len(puzzles.available) \in Nat /\ surplus \in Nat
        /\ Len(puzzles'.available) - surplus' = Len(puzzles.available) - surplus - 1
        /\ Len(puzzles'.available) \in Nat /\ surplus' \in Nat
    <3>1. CASE Contains(puzzles, key)
      <4>1. IndexOf(puzzles, key) \in Nat /\ IndexOf(puzzles, key) < Len(puzzles.available)
        BY <1>1, <3>1 DEF DeletePuzzle, EraseInBounds, IndexOf, PoolTyped
      <4>2. Len(puzzles.available) \in Nat /\ Len(puzzles.available) - 1 \in Nat
        BY <1>1, <4>1 DEF PoolTyped
      <4>3. Len(puzzles'.available) = Len(puzzles.available) - 1
        BY <3>1, <4>2 DEF DeletePuzzle, Deletion, Erased
      <4>4. surplus' = surplus /\ surplus \in Nat
        BY <3>1 DEF DeletePuzzle, TypeOK
      <4>5. QED
        BY <4>2, <4>3, <4>4
    <3>2. CASE ~Contains(puzzles, key)
      <4>1. puzzles' = puzzles /\ surplus' = surplus + 1 /\ surplus \in Nat
        BY <3>2 DEF DeletePuzzle, Deletion, TypeOK
      <4>2. Len(puzzles.available) \in Nat
        BY <1>1 DEF PoolTyped
      <4>3. QED
        BY <4>1, <4>2
    <3>3. QED
      BY <3>1, <3>2
  <2>4. Len(puzzles.available) + Cardinality(Making) = PoolSize + surplus
    BY DEF PoolKeepsCount, Making
  <2>5. Len(puzzles'.available) + Cardinality(Making') = PoolSize + surplus'
    <3>1. PoolSize \in Nat
      BY PoolAssumption
    <3>2. QED
      BY <2>2, <2>3, <2>4, <3>1
  <2>6. QED
    BY <2>5 DEF PoolKeepsCount, Making
<1>9. QED
  BY <1>5, <1>6, <1>7, <1>8

LEMMA MakeStep ==
  ASSUME CaptchaInv, NEW t \in Thread, MakeNew(t)
  PROVE  CaptchaInv'
<1> USE DEF CaptchaInv
<1> DEFINE key == NextKey(puzzles)
           item == 0
<1>1. /\ ~broken /\ PoolTyped(puzzles, Count) /\ CanInsert(puzzles)
      /\ puzzles' = Inserted(puzzles, item)
  BY DEF MakeNew, At, TypeOK
<1>2. /\ pc' = [pc EXCEPT ![t] = "idle"] /\ pc[t] = "make"
      /\ id' = [id EXCEPT ![t] = 0] /\ seen' = [seen EXCEPT ![t] = 0]
      /\ UNCHANGED <<sentinel, broken, surplus>>
  BY DEF MakeNew, Accept, At
<1>3. item \in Count /\ ~(item > 1)
  BY CountFacts
<1> HIDE DEF item
<1>4. PoolTyped(puzzles', Count) /\ key \in Keys /\ ~Contains(puzzles, key)
  BY <1>1, <1>3, InsertedTyped
<1>5. /\ DOMAIN puzzles'.pool = DOMAIN puzzles.pool \cup {key}
      /\ \A k \in DOMAIN puzzles'.pool :
           puzzles'.pool[k] = IF k = key THEN item ELSE puzzles.pool[k]
      /\ puzzles'.available = Append(puzzles.available, key)
      /\ DOMAIN puzzles' = {"pool", "available", "index", "counter"}
  BY <1>1 DEF Inserted
<1> HIDE DEF key
<1>6. TypeOK'
  BY <1>2, <1>4, CountFacts DEF TypeOK
<1>7. Whole'
  BY <1>1, <1>2, <1>3, <1>5, BlankAssumption DEF Whole
<1>8. SpentIsDeleted'
  <2>1. SUFFICES ASSUME NEW k \in DOMAIN puzzles.pool,
                        puzzles.pool[k] # Blank, puzzles.pool[k] > 1
                 PROVE  \E u \in Thread : id'[u] = k /\ pc'[u] \in {"decide", "delete"}
    BY <1>3, <1>5 DEF SpentIsDeleted
  <2>2. PICK u \in Thread : id[u] = k /\ pc[u] \in {"decide", "delete"}
    BY <2>1 DEF SpentIsDeleted
  <2>3. u # t
    BY <1>2, <2>2
  <2>4. QED
    BY <1>2, <2>2, <2>3 DEF TypeOK
<1>9. PoolKeepsCount'
  <2>1. Making' = Making \ {t} /\ t \in Making
    BY <1>2 DEF Making, TypeOK
  <2>2. Cardinality(Making') = Cardinality(Making) - 1 /\ Cardinality(Making) \in Nat
    BY <2>1, MakingFinite, FS_RemoveElement
  <2>3. Len(puzzles'.available) = Len(puzzles.available) + 1 /\ Len(puzzles.available) \in Nat
    BY <1>1, <1>4, <1>5 DEF PoolTyped
  <2>4. Len(puzzles.available) + Cardinality(Making) = PoolSize + surplus
    BY DEF PoolKeepsCount, Making
  <2>5. Len(puzzles'.available) + Cardinality(Making') = PoolSize + surplus'
    <3>1. surplus' = surplus /\ surplus \in Nat /\ PoolSize \in Nat
      BY <1>2, PoolAssumption DEF TypeOK
    <3>2. QED
      BY <2>2, <2>3, <2>4, <3>1
  <2>6. QED
    BY <2>5 DEF PoolKeepsCount, Making
<1>10. QED
  BY <1>6, <1>7, <1>8, <1>9

LEMMA CaptchaInvariant == Spec => []CaptchaInv
<1>1. CaptchaInv /\ [Next]_vars => CaptchaInv'
  <2> SUFFICES ASSUME CaptchaInv, [Next]_vars
               PROVE  CaptchaInv'
    OBVIOUS
  <2>1. CASE GetPuzzle
    BY <2>1, GetStep
  <2>2. ASSUME NEW t \in Thread, Check(t) PROVE CaptchaInv'
    BY <2>2, QuietStep, StoreStep, DeleteStep, MakeStep DEF Check
  <2>3. CASE UNCHANGED vars
    BY <2>3 DEF vars, CaptchaInv, TypeOK, Whole, PoolKeepsCount, SpentIsDeleted, PoolTyped
  <2>4. QED
    BY <2>1, <2>2, <2>3 DEF Next
<1>2. QED
  BY <1>1, InitInv, PTL DEF Spec

(* The pool's keys, places and counts stay what they are, and no id is      *)
(* checked that is none.                                                    *)
THEOREM TypeCorrect == Spec => []TypeOK
<1>1. CaptchaInv => TypeOK
  BY DEF CaptchaInv
<1>2. QED
  BY <1>1, CaptchaInvariant, PTL

(* Of any number of threads that overwrite one another's count of uses, one *)
(* is left that deletes a puzzle that is used up.                           *)
THEOREM SpentGoes == Spec => []SpentIsDeleted
<1>1. CaptchaInv => SpentIsDeleted
  BY DEF CaptchaInv
<1>2. QED
  BY <1>1, CaptchaInvariant, PTL

(* Except for the puzzles that threads are about to make, POOL_SIZE keys    *)
(* are listed and one more for each deletion that found nothing, so         *)
(* get_puzzle never draws from an empty list.                               *)
THEOREM PoolAccounted == Spec => []PoolKeepsCount
<1>1. CaptchaInv => PoolKeepsCount
  BY DEF CaptchaInv
<1>2. QED
  BY <1>1, CaptchaInvariant, PTL

-----------------------------------------------------------------------------
(* No entry, or a number a comparison may use.                              *)
Before(x, n) == x # Never => x <= n

(* Readings are never of the future, readings in flight are MaxLag old at   *)
(* most, and an entry never falls further behind the last accepted request. *)
LagInv ==
  /\ \A t \in Caller : /\ stamp[t] <= now
                       /\ at[t] = "check_in" => now - stamp[t] <= MaxLag
  /\ \A k \in Key : /\ Before(times[k], now)
                    /\ Before(accepted[k], now)
                    /\ accepted[k] # Never
                         => times[k] # Never /\ times[k] >= accepted[k] - MaxLag

(* Behind every entry is a request spelled like it, made at that time.      *)
EntriesAsked ==
  \A k \in Key : times[k] # Never => \E r \in Request : EntryOf(r) = k /\ asked[r] = times[k]

LEMMA RequestFacts ==
  /\ AnyRequest \in Request
  /\ \A r \in Request : /\ r[2] \in Type /\ LimitOf[r[2]] \in Nat /\ LimitOf[r[2]] <= LongAgo
                       /\ EntryOf(r) \in Key
<1>1. PICK a \in Ip : TRUE
  BY LimitAssumption
<1>2. <<a, LOGIN>> \in Request
  BY LimitAssumption DEF Request
<1>3. AnyRequest \in Request
  BY <1>2 DEF AnyRequest
<1>4. \A r \in Request : EntryOf(r) \in Key
  BY DEF Key
<1>5. QED
  BY <1>3, <1>4, LimitAssumption DEF Request

LEMMA KeysOfRequestsFinite == IsFiniteSet(Key)
<1>1. IsFiniteSet(Request)
  BY LimitAssumption, FS_Product DEF Request
<1> DEFINE entry == [r \in Request |-> EntryOf(r)]
<1>2. entry \in Surjection(Request, Key)
  BY DEF Surjection, Key
<1>3. QED
  BY <1>1, <1>2, FS_Surjection

(* What is spelled the same with an end of the same length has the same     *)
(* beginning and the same end.                                              *)
LEMMA SameSpelling ==
  ASSUME NEW S, NEW a \in Seq(S), NEW b \in Seq(S), NEW c \in Seq(S), NEW d \in Seq(S),
         a \o c = b \o d, Len(c) = Len(d)
  PROVE  a = b /\ c = d
<1>1. /\ Len(a) \in Nat /\ Len(b) \in Nat /\ Len(c) \in Nat
      /\ Len(a) + Len(c) = Len(b) + Len(d)
  <2>1. Len(a \o c) = Len(a) + Len(c) /\ Len(b \o d) = Len(b) + Len(d)
    OBVIOUS
  <2>2. QED
    BY <2>1
<1>2. Len(a) = Len(b)
  BY <1>1
<1>3. ASSUME NEW i \in 1 .. Len(a) PROVE a[i] = b[i]
  <2>1. (a \o c)[i] = a[i] /\ (b \o d)[i] = b[i]
    BY <1>1, <1>2
  <2>2. QED
    BY <2>1
<1>4. ASSUME NEW i \in 1 .. Len(c) PROVE c[i] = d[i]
  <2>1. (a \o c)[Len(a) + i] = c[i] /\ (b \o d)[Len(b) + i] = d[i]
    BY <1>1, <1>2
  <2>2. QED
    BY <1>2, <2>1
<1>5. QED
  BY <1>2, <1>3, <1>4, SeqEqual

(* Requests that share an entry are one, or their types' numbers differ in  *)
(* length.                                                                  *)
LEMMA SharersDiffer ==
  ASSUME NEW r \in Request, NEW other \in Request, EntryOf(other) = EntryOf(r)
  PROVE  Answerable(r, other)
<1>1. SUFFICES ASSUME Len(Digits[other[2]]) = Len(Digits[r[2]])
               PROVE  other = r
  BY DEF Answerable
<1>2. /\ r = <<r[1], r[2]>> /\ other = <<other[1], other[2]>>
      /\ r[1] \in Ip /\ other[1] \in Ip /\ r[2] \in Type /\ other[2] \in Type
  BY DEF Request
<1>3. /\ r[1] \in Seq(Char) /\ other[1] \in Seq(Char)
      /\ Digits[r[2]] \in Seq(Char) /\ Digits[other[2]] \in Seq(Char)
  BY <1>2, LimitAssumption
<1>4. other[1] = r[1] /\ Digits[other[2]] = Digits[r[2]]
  <2>1. other[1] \o Digits[other[2]] = r[1] \o Digits[r[2]]
    BY DEF EntryOf
  <2>2. \A a, b, c, d \in Seq(Char) : a \o c = b \o d /\ Len(c) = Len(d) => a = b /\ c = d
    BY SameSpelling
  <2> DEFINE here == Digits[r[2]]
             there == Digits[other[2]]
  <2>3. /\ other[1] \in Seq(Char) /\ r[1] \in Seq(Char)
        /\ there \in Seq(Char) /\ here \in Seq(Char)
        /\ other[1] \o there = r[1] \o here /\ Len(there) = Len(here)
    BY <1>1, <1>3, <2>1
  <2> HIDE DEF here, there
  <2>4. other[1] = r[1] /\ there = here
    BY <2>2, <2>3
  <2>5. QED
    BY <2>4 DEF here, there
<1>5. other[2] = r[2]
  BY <1>2, <1>4, LimitAssumption
<1>6. QED
  BY <1>2, <1>4, <1>5

LEMMA NeverFacts == /\ \A n \in Nat : n # Never
                    /\ \A x \in Clock : x # Never => x \in Nat
  BY LimitAssumption DEF Clock

(* The result of a rest: only what the request left behind is forgotten.    *)
LEMMA RestTyped ==
  ASSUME LimitTypeOK, NEW t \in Caller, Rest(t)
  PROVE  /\ at' \in [Caller -> {"idle", "check_in", "login", "attempt"}]
         /\ req' \in [Caller -> Request]
         /\ stamp' \in [Caller -> Nat]
  BY RequestFacts DEF LimitTypeOK, Rest

LEMMA LimitTypeStep ==
  ASSUME LimitTypeOK, [LimitNext]_limitVars
  PROVE  LimitTypeOK'
<1> USE DEF LimitTypeOK
<1>1. CASE Tick
  BY <1>1 DEF Tick
<1>2. ASSUME NEW t \in Caller, Arrive(t) PROVE LimitTypeOK'
  <2>1. PICK r \in Request : req' = [req EXCEPT ![t] = r]
    BY <1>2 DEF Arrive
  <2>2. req' \in [Caller -> Request] /\ stamp' \in [Caller -> Nat]
    BY <1>2, <2>1 DEF Arrive
  <2>3. QED
    BY <1>2, <2>2 DEF Arrive
<1>3. ASSUME NEW t \in Caller, CheckIn(t) PROVE LimitTypeOK'
  <2>1. Recorded(t) \in [Key -> Clock] /\ [k \in Key |-> Never] \in [Key -> Clock]
    BY DEF Recorded, Clock
  <2>2. times' \in [Key -> Clock]
    BY <1>3, <2>1 DEF CheckIn
  <2>3. /\ [accepted EXCEPT ![Entry(t)] = stamp[t]] \in [Key -> Clock]
        /\ [asked EXCEPT ![req[t]] = stamp[t]] \in [Request -> Clock]
    BY DEF Clock
  <2>4. accepted' \in [Key -> Clock]
    BY <1>3, <2>1, <2>3 DEF CheckIn
  <2>5. UNCHANGED <<now, attempts>> /\ asked' \in [Request -> Clock]
    BY <1>3, <2>3 DEF CheckIn
  <2>6. /\ at' \in [Caller -> {"idle", "check_in", "login", "attempt"}]
        /\ req' \in [Caller -> Request] /\ stamp' \in [Caller -> Nat]
    BY <1>3, RestTyped DEF CheckIn
  <2>7. QED
    BY <2>2, <2>4, <2>5, <2>6
<1>4. ASSUME NEW t \in Caller, LoginClock(t) PROVE LimitTypeOK'
  BY <1>4 DEF LoginClock
<1>5. ASSUME NEW t \in Caller, LoginById(t) PROVE LimitTypeOK'
  <2>1. PICK i \in Id :
          attempts' = IF attempts[i] = Never THEN attempts ELSE [attempts EXCEPT ![i] = stamp[t]]
    BY <1>5 DEF LoginById
  <2>2. attempts' \in [Id -> Clock]
    BY <2>1 DEF Clock
  <2>3. UNCHANGED <<now, times, asked, accepted>>
    BY <1>5 DEF LoginById
  <2>4. /\ at' \in [Caller -> {"idle", "check_in", "login", "attempt"}]
        /\ req' \in [Caller -> Request] /\ stamp' \in [Caller -> Nat]
    BY <1>5, RestTyped DEF LoginById
  <2>5. QED
    BY <2>2, <2>3, <2>4
<1>6. CASE UNCHANGED limitVars
  BY <1>6 DEF limitVars
<1>7. QED
  BY <1>1, <1>2, <1>3, <1>4, <1>5, <1>6 DEF LimitNext

LEMMA LimitInitTyped == LimitInit => LimitTypeOK /\ LagInv
<1> SUFFICES ASSUME LimitInit PROVE LimitTypeOK /\ LagInv
  OBVIOUS
<1>1. LimitTypeOK
  BY RequestFacts DEF LimitInit, LimitTypeOK, Clock
<1>2. LagInv
  BY LimitAssumption DEF LimitInit, LagInv, Before
<1>3. QED
  BY <1>1, <1>2

(* A check-in keeps every entry within MaxLag of the last accepted request. *)
LEMMA CheckInKeeps ==
  ASSUME LimitTypeOK, LagInv, NEW t \in Caller, CheckIn(t)
  PROVE  LagInv'
<1> USE NeverFacts, LimitAssumption
<1>1. now' = now /\ now \in Nat /\ stamp[t] \in Nat /\ Entry(t) \in Key
  BY RequestFacts DEF CheckIn, LimitTypeOK, Entry
<1>2. stamp[t] <= now /\ now - stamp[t] <= MaxLag
  BY DEF LagInv, CheckIn
<1>3. ASSUME NEW u \in Caller
      PROVE  stamp'[u] <= now /\ (at'[u] = "check_in" => now - stamp'[u] <= MaxLag)
  <2>1. \/ stamp'[u] = stamp[u] /\ at'[u] \in {at[u], "login"}
        \/ stamp'[u] = 0 /\ at'[u] = "idle"
    BY DEF CheckIn, Rest, LimitTypeOK
  <2>2. stamp[u] <= now /\ (at[u] = "check_in" => now - stamp[u] <= MaxLag)
    BY DEF LagInv
  <2>3. QED
    BY <1>1, <2>1, <2>2
<1>4. ASSUME NEW k \in Key
      PROVE  /\ Before(times'[k], now)
             /\ Before(accepted'[k], now)
             /\ accepted'[k] # Never
                  => times'[k] # Never /\ times'[k] >= accepted'[k] - MaxLag
  <2>1. times[k] \in Clock /\ accepted[k] \in Clock
    BY DEF LimitTypeOK
  <2>2. /\ Before(times[k], now) /\ Before(accepted[k], now)
        /\ accepted[k] # Never => times[k] # Never /\ times[k] >= accepted[k] - MaxLag
    BY DEF LagInv
  <2>3. CASE TooLarge(Recorded(t))
    <3>1. times'[k] = Never /\ accepted'[k] = Never
      BY <2>3 DEF CheckIn
    <3>2. QED
      BY <3>1 DEF Before
  <2>4. CASE ~TooLarge(Recorded(t))
    <3>1. times'[k] = IF k = Entry(t) THEN stamp[t] ELSE times[k]
      BY <1>1, <2>4 DEF CheckIn, Recorded, LimitTypeOK
    <3>2. accepted'[k] = IF Accepts(t) /\ k = Entry(t) THEN stamp[t] ELSE accepted[k]
      BY <1>1, <2>4 DEF CheckIn, LimitTypeOK
    <3>3. CASE k = Entry(t)
      <4>1. times'[k] = stamp[t] /\ accepted'[k] \in {stamp[t], accepted[k]}
        BY <3>1, <3>2, <3>3
      <4>2. accepted'[k] # Never => accepted'[k] \in Nat /\ accepted'[k] <= now
        BY <1>1, <1>2, <2>1, <2>2, <4>1 DEF Before
      <4>3. QED
        BY <1>1, <1>2, <4>1, <4>2 DEF Before
    <3>4. CASE k # Entry(t)
      BY <2>2, <3>1, <3>2, <3>4
    <3>5. QED
      BY <3>3, <3>4
  <2>5. QED
    BY <2>3, <2>4
<1>5. QED
  BY <1>1, <1>3, <1>4 DEF LagInv

LEMMA LagStep ==
  ASSUME LimitTypeOK, LagInv, [LimitNext]_limitVars
  PROVE  LagInv'
<1> USE NeverFacts, LimitAssumption
<1>1. CASE Tick
  <2>1. now' = now + 1 /\ now \in Nat /\ UNCHANGED <<times, at, stamp, accepted>>
    BY <1>1 DEF Tick, LimitTypeOK
  <2>2. \A t \in Caller : stamp[t] \in Nat /\ stamp[t] <= now
    BY DEF LimitTypeOK, LagInv
  <2>3. \A t \in Caller : at[t] = "check_in" => now + 1 - stamp[t] <= MaxLag
    BY <1>1 DEF Tick
  <2>4. \A t \in Caller : stamp'[t] <= now' /\ (at'[t] = "check_in" => now' - stamp'[t] <= MaxLag)
    BY <2>1, <2>2, <2>3
  <2>5. ASSUME NEW k \in Key
        PROVE  Before(times'[k], now') /\ Before(accepted'[k], now')
    <3>1. times[k] \in Clock /\ accepted[k] \in Clock
      BY DEF LimitTypeOK
    <3>2. Before(times[k], now) /\ Before(accepted[k], now)
      BY DEF LagInv
    <3>3. QED
      BY <2>1, <3>1, <3>2 DEF Before
  <2>6. \A k \in Key : accepted'[k] # Never
                         => times'[k] # Never /\ times'[k] >= accepted'[k] - MaxLag
    BY <2>1 DEF LagInv
  <2>7. QED
    BY <2>4, <2>5, <2>6 DEF LagInv
<1>2. ASSUME NEW t \in Caller, Arrive(t) \/ LoginClock(t) \/ LoginById(t) PROVE LagInv'
  <2>1. UNCHANGED <<now, times, accepted>> /\ now \in Nat
    BY <1>2 DEF Arrive, LoginClock, LoginById, LimitTypeOK
  <2>2. \A u \in Caller : \/ u # t /\ stamp'[u] = stamp[u] /\ at'[u] = at[u]
                          \/ u = t /\ stamp'[u] = now
                          \/ u = t /\ stamp'[u] = 0 /\ at'[u] = "idle"
    BY <1>2 DEF Arrive, LoginClock, LoginById, Rest, LimitTypeOK
  <2>3. \A u \in Caller : stamp'[u] <= now /\ (at'[u] = "check_in" => now - stamp'[u] <= MaxLag)
    BY <2>1, <2>2 DEF LagInv
  <2>4. QED
    BY <2>1, <2>3 DEF LagInv, Before
<1>3. ASSUME NEW t \in Caller, CheckIn(t) PROVE LagInv'
  BY <1>3, CheckInKeeps
<1>4. CASE UNCHANGED limitVars
  BY <1>4 DEF limitVars, LagInv, Before
<1>5. QED
  BY <1>1, <1>2, <1>3, <1>4 DEF LimitNext

(* A check-in leaves its request behind its entry, and others only where    *)
(* the entry is not theirs.                                                 *)
LEMMA AskedStep ==
  ASSUME LimitTypeOK, EntriesAsked, [LimitNext]_limitVars
  PROVE  EntriesAsked'
<1>1. CASE UNCHANGED <<times, asked>>
  BY <1>1 DEF EntriesAsked
<1>2. ASSUME NEW t \in Caller, CheckIn(t) PROVE EntriesAsked'
  <2>1. SUFFICES ASSUME NEW k \in Key, times'[k] # Never
                 PROVE  \E r \in Request : EntryOf(r) = k /\ asked'[r] = times'[k]
    BY DEF EntriesAsked
  <2>2. ~TooLarge(Recorded(t))
    BY <1>2, <2>1 DEF CheckIn
  <2>3. times'[k] = IF k = Entry(t) THEN stamp[t] ELSE times[k]
    BY <1>2, <2>2 DEF CheckIn, Recorded, LimitTypeOK
  <2>4. req[t] \in Request /\ asked' = [asked EXCEPT ![req[t]] = stamp[t]]
    BY <1>2 DEF CheckIn, LimitTypeOK
  <2>5. CASE k = Entry(t)
    BY <2>3, <2>4, <2>5 DEF Entry, LimitTypeOK
  <2>6. CASE k # Entry(t)
    <3>1. PICK r \in Request : EntryOf(r) = k /\ asked[r] = times[k]
      BY <2>1, <2>3, <2>6 DEF EntriesAsked
    <3>2. r # req[t]
      BY <2>6, <3>1 DEF Entry
    <3>3. asked'[r] = times'[k]
      BY <2>3, <2>4, <2>6, <3>1, <3>2 DEF LimitTypeOK
    <3>4. QED
      BY <3>1, <3>3
  <2>7. QED
    BY <2>5, <2>6
<1>3. QED
  BY <1>1, <1>2 DEF LimitNext, Tick, Arrive, LoginClock, LoginById, limitVars

LimitInv == LimitTypeOK /\ LagInv /\ EntriesAsked

LEMMA LimitInvariant == LimitSpec => []LimitInv
<1>1. LimitInit => LimitInv
  BY LimitInitTyped DEF LimitInit, LimitInv, EntriesAsked
<1>2. LimitInv /\ [LimitNext]_limitVars => LimitInv'
  BY LimitTypeStep, LagStep, AskedStep DEF LimitInv
<1>3. QED
  BY <1>1, <1>2, PTL DEF LimitSpec

(* The maps and the threads keep their types.                               *)
THEOREM LimitTypeCorrect == LimitSpec => []LimitTypeOK
<1>1. LimitInv => LimitTypeOK
  BY DEF LimitInv
<1>2. QED
  BY <1>1, LimitInvariant, PTL

(* Accepted requests of one entry are the limit, less the lag, apart.       *)
THEOREM SpacingHolds == LimitSpec => SpacedUpToLag
<1>1. ASSUME LimitInv, NEW t \in Caller, CheckIn(t), Accepts(t), accepted[Entry(t)] # Never
      PROVE  stamp[t] - accepted[Entry(t)] >= LimitOf[req[t][2]] - MaxLag
  <2> DEFINE k == Entry(t)
             limit == LimitOf[req[t][2]]
  <2>1. k \in Key /\ stamp[t] \in Nat /\ times[k] \in Clock /\ accepted[k] \in Clock
    BY <1>1, RequestFacts DEF LimitInv, LimitTypeOK, Entry
  <2>2. times[k] # Never /\ times[k] >= accepted[k] - MaxLag
    BY <1>1, <2>1 DEF LimitInv, LagInv
  <2>3. times[k] \in Nat /\ accepted[k] \in Nat /\ limit \in Nat
    BY <1>1, <2>1, <2>2, NeverFacts, RequestFacts DEF LimitInv, LimitTypeOK
  <2>4. ~(limit > stamp[t] - times[k])
    BY <1>1, <2>2 DEF Accepts, Elapsed
  <2>5. MaxLag \in Nat
    BY LimitAssumption
  <2> HIDE DEF k, limit
  <2>6. stamp[t] - accepted[k] >= limit - MaxLag
    BY <2>1, <2>2, <2>3, <2>4, <2>5
  <2>7. QED
    BY <2>6 DEF k, limit
<1>2. LimitInv
        => \A t \in Caller : CheckIn(t) /\ Accepts(t) /\ accepted[Entry(t)] # Never
                               => stamp[t] - accepted[Entry(t)] >= LimitOf[req[t][2]] - MaxLag
  BY <1>1
<1>3. QED
  BY <1>2, LimitInvariant, PTL DEF SpacedUpToLag

(* A request is refused only for an earlier one, less than the limit and    *)
(* the lag ago, of the same address and type or spelled like it with a      *)
(* number of another length.                                                *)
THEOREM RefusalHasReason == LimitSpec => RefusedOnlyWhenRecent
<1>1. ASSUME LimitInv, NEW t \in Caller, CheckIn(t), ~Accepts(t)
      PROVE  \E r \in Request :
               /\ Answerable(req[t], r)
               /\ asked[r] # Never
               /\ now - asked[r] < LimitOf[req[t][2]] + MaxLag
  <2> DEFINE k == Entry(t)
             limit == LimitOf[req[t][2]]
  <2>1. /\ k \in Key /\ req[t] \in Request /\ stamp[t] \in Nat /\ now \in Nat
        /\ times[k] \in Clock
    BY <1>1, RequestFacts DEF LimitInv, LimitTypeOK, Entry
  <2>2. limit \in Nat /\ limit <= LongAgo
    BY <2>1, RequestFacts
  <2>3. now - stamp[t] <= MaxLag
    BY <1>1 DEF CheckIn, LimitInv, LagInv
  <2>4. times[k] # Never
    <3>1. SUFFICES ASSUME times[k] = Never PROVE FALSE
      OBVIOUS
    <3>2. limit > LongAgo
      BY <1>1, <3>1 DEF Accepts, Elapsed
    <3>3. QED
      BY <2>2, <3>2, LimitAssumption
  <2>5. times[k] \in Nat /\ limit > stamp[t] - times[k]
    BY <1>1, <2>1, <2>4, NeverFacts DEF Accepts, Elapsed
  <2>6. PICK r \in Request : EntryOf(r) = k /\ asked[r] = times[k]
    BY <1>1, <2>1, <2>4 DEF LimitInv, EntriesAsked
  <2>7. Answerable(req[t], r)
    BY <2>1, <2>6, SharersDiffer DEF Entry
  <2>8. MaxLag \in Nat
    BY LimitAssumption
  <2> HIDE DEF k, limit
  <2>9. now - times[k] < limit + MaxLag
    BY <2>1, <2>2, <2>3, <2>5, <2>8
  <2>10. QED
    BY <2>4, <2>6, <2>7, <2>9 DEF limit
<1>2. LimitInv
        => \A t \in Caller : CheckIn(t) /\ ~Accepts(t)
                               => \E r \in Request :
                                    /\ Answerable(req[t], r)
                                    /\ asked[r] # Never
                                    /\ now - asked[r] < LimitOf[req[t][2]] + MaxLag
  BY <1>1
<1>3. QED
  BY <1>2, LimitInvariant, PTL DEF RefusedOnlyWhenRecent

(* The map of check-ins stays within its bound: it is wiped before it does  *)
(* not.                                                                     *)
THEOREM MapStaysBounded == LimitSpec => []MapBounded
<1>1. LimitInit => MapBounded
  <2> SUFFICES ASSUME LimitInit PROVE MapBounded
    OBVIOUS
  <2>1. Entries(times) = {}
    BY DEF LimitInit, Entries
  <2>2. QED
    BY <2>1, FS_EmptySet, LimitAssumption DEF MapBounded
<1>2. MapBounded /\ [LimitNext]_limitVars => MapBounded'
  <2> SUFFICES ASSUME MapBounded, [LimitNext]_limitVars PROVE MapBounded'
    OBVIOUS
  <2>1. CASE times' = times
    BY <2>1 DEF MapBounded, Entries
  <2>2. ASSUME NEW t \in Caller, CheckIn(t) PROVE MapBounded'
    <3>1. CASE TooLarge(Recorded(t))
      <4>1. Entries(times') = {}
        BY <2>2, <3>1 DEF CheckIn, Entries
      <4>2. QED
        BY <4>1, FS_EmptySet, LimitAssumption DEF MapBounded
    <3>2. CASE ~TooLarge(Recorded(t))
      <4>1. times' = Recorded(t)
        BY <2>2, <3>2 DEF CheckIn
      <4>2. ~(Cardinality(Entries(times')) > MaxEntries)
        BY <3>2, <4>1 DEF TooLarge
      <4>3. IsFiniteSet(Key)
        BY KeysOfRequestsFinite
      <4>4. IsFiniteSet(Entries(times'))
        BY <4>3, FS_Subset DEF Entries
      <4>5. Cardinality(Entries(times')) \in Nat
        BY <4>4, FS_CardinalityType
      <4>6. QED
        BY <4>2, <4>5, LimitAssumption DEF MapBounded
    <3>3. QED
      BY <3>1, <3>2
  <2>3. QED
    BY <2>1, <2>2 DEF LimitNext, Tick, Arrive, LoginClock, LoginById, limitVars
<1>3. QED
  BY <1>1, <1>2, PTL DEF LimitSpec

(* LOGIN's second limit never refuses, for any limit and any ids: its map   *)
(* stays empty, for an attempt is recorded only over an earlier one.        *)
THEOREM NoLimitById == LimitSpec => []LimitByIdIsIdle
<1> DEFINE NoneYet == \A i \in Id : attempts[i] = Never
<1>1. LimitInit => NoneYet
  BY DEF LimitInit
<1>2. NoneYet /\ [LimitNext]_limitVars => NoneYet'
  <2> SUFFICES ASSUME NoneYet, [LimitNext]_limitVars PROVE NoneYet'
    OBVIOUS
  <2>1. attempts' = attempts
    BY DEF LimitNext, Tick, Arrive, CheckIn, LoginClock, LoginById, limitVars
  <2>2. QED
    BY <2>1
<1>3. NoneYet => LimitByIdIsIdle
  BY LimitAssumption DEF LimitByIdIsIdle, ElapsedById
<1>4. QED
  BY <1>1, <1>2, <1>3, PTL DEF LimitSpec
=============================================================================
