--------------------------- MODULE IndexPoolData ---------------------------
(***************************************************************************)
(* The data structure of util/data_structures/IndexPool.hpp as operators   *)
(* on a record: pool maps keys to items, available lists the keys to draw  *)
(* from, index (key_to_index) says where in available a key is, counting   *)
(* from 0, and counter is key_counter.                                     *)
(***************************************************************************)
EXTENDS Integers, Sequences

CONSTANTS
  KeyLimit,  \* max_key: the keys in use are below it
  Blank      \* T(), the item operator[] of a map inserts for a missing key

ASSUME KeyLimitAssumption == KeyLimit \in Nat \ {0}

Keys == 0 .. KeyLimit - 1

Empty ==
  [pool |-> [k \in {} |-> Blank], available |-> <<>>, index |-> [k \in {} |-> 0], counter |-> 0]

Contains(s, k) == k \in DOMAIN s.pool

(* key_to_index[x], which reads 0 for a key it does not know.               *)
IndexOf(s, x) == IF x \in DOMAIN s.index THEN s.index[x] ELSE 0

(* The search of insert: the counter goes on, round the end, to a free key. *)
Ahead(s, k) == IF k >= s.counter THEN k - s.counter ELSE k + KeyLimit - s.counter

(* Mutant of NextKey: the counter does not go round.                        *)
NextKeyUnbounded(s) ==
  CHOOSE k \in s.counter .. 2 * KeyLimit :
    ~Contains(s, k) /\ \A j \in s.counter .. k - 1 : Contains(s, j)

NextKey(s) ==
  CHOOSE k \in Keys :
    ~Contains(s, k) /\ \A j \in Keys : ~Contains(s, j) => Ahead(s, k) <= Ahead(s, j)

(* insert loops for ever when every key is taken.                           *)
CanInsert(s) == \E k \in Keys : ~Contains(s, k)

Inserted(s, item) ==
  LET key == NextKey(s)
  IN  [pool |-> [k \in DOMAIN s.pool \cup {key} |-> IF k = key THEN item ELSE s.pool[k]],
       available |-> Append(s.available, key),
       index |-> [k \in DOMAIN s.index \cup {key} |->
                    IF k = key THEN Len(s.available) ELSE s.index[k]],
       counter |-> key]

(* The index erase finds for the key is one of the vector's; otherwise the  *)
(* swap is out of bounds.                                                   *)
EraseInBounds(s, k) == IndexOf(s, k) < Len(s.available)

(* Mutant of Erased: the key moved from the back keeps its old index.       *)
ErasedUnmoved(s, k) ==
  LET i == IndexOf(s, k)
      last == Len(s.available) - 1
      back == s.available[last + 1]
  IN  [pool |-> [x \in DOMAIN s.pool \ {k} |-> s.pool[x]],
       available |-> [j \in 1 .. last |-> IF j = i + 1 THEN back ELSE s.available[j]],
       index |-> [x \in DOMAIN s.index \ {k} |-> s.index[x]],
       counter |-> s.counter]

(* Mutant of Erased: the place at the back is not removed.                  *)
ErasedUnpopped(s, k) ==
  LET i == IndexOf(s, k)
      last == Len(s.available) - 1
      back == s.available[last + 1]
  IN  [pool |-> [x \in DOMAIN s.pool \ {k} |-> s.pool[x]],
       available |-> [s.available EXCEPT ![i + 1] = back, ![last + 1] = k],
       index |-> [x \in (DOMAIN s.index \cup {back}) \ {k} |-> IF x = back THEN i ELSE s.index[x]],
       counter |-> s.counter]

(* swap_index_to_back looks up the index where it means the key at it: the  *)
(* entry it then sets to the last index is that of `moved`.                 *)
Erased(s, k) ==
  LET i == IndexOf(s, k)
      last == Len(s.available) - 1
      back == s.available[last + 1]
      moved == IndexOf(s, i)
  IN  [pool |-> [x \in DOMAIN s.pool \ {k} |-> s.pool[x]],
       available |-> [j \in 1 .. last |-> IF j = i + 1 THEN back ELSE s.available[j]],
       index |-> [x \in (DOMAIN s.index \cup {i, moved, back}) \ {k} |->
                    IF x = moved THEN last ELSE IF x = back THEN i ELSE IndexOf(s, x)],
       counter |-> s.counter]

(* random: the key at the drawn place; its item is inserted if missing.     *)
RandomKey(s, r) == s.available[(r % Len(s.available)) + 1]

AfterRandom(s, r) ==
  [pool |-> [k \in DOMAIN s.pool \cup {RandomKey(s, r)} |->
               IF Contains(s, k) THEN s.pool[k] ELSE Blank],
   available |-> s.available, index |-> s.index, counter |-> s.counter]

(* Keys stay keys, and places places (IndexPool.hpp:105-110).               *)
PoolTyped(s, items) ==
  /\ DOMAIN s.pool \subseteq Keys
  /\ s.pool \in [DOMAIN s.pool -> items \cup {Blank}]
  /\ s.available \in Seq(Keys)
  /\ s.index \in [DOMAIN s.index -> Nat]
  /\ s.counter \in Keys

(* What the structure is meant to be: available lists the keys of the pool, *)
(* once each, and index is the way back.                                    *)
Consistent(s) ==
  /\ DOMAIN s.index = DOMAIN s.pool
  /\ \A j \in 1 .. Len(s.available) :
       s.available[j] \in DOMAIN s.pool /\ s.index[s.available[j]] = j - 1
  /\ \A k \in DOMAIN s.pool :
       s.index[k] \in 0 .. Len(s.available) - 1 /\ s.available[s.index[k] + 1] = k
=============================================================================
