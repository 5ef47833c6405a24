----------------------------- MODULE IndexPool -----------------------------
(***************************************************************************)
(* An IndexPool under any sequence of its operations, by one thread.       *)
(***************************************************************************)
EXTENDS IndexPoolData, FiniteSets

CONSTANTS
  Item,    \* what is stored
  MaxSize  \* bound on the keys listed

ASSUME MaxSizeAssumption == MaxSize \in Nat

VARIABLES
  structure,  \* the pool
  home,       \* history: every key erased so far stood at the index equal to it
  outside     \* an operation went out of the vector's bounds

pool_vars == <<structure, home, outside>>

PoolInit == structure = Empty /\ home = TRUE /\ outside = FALSE

Insert(item) ==
  /\ ~outside
  /\ CanInsert(structure) /\ Len(structure.available) < MaxSize
  /\ structure' = Inserted(structure, item)
  /\ UNCHANGED <<home, outside>>

(* erase of a key the pool does not contain returns at once.                *)
Erase(k) ==
  /\ ~outside
  /\ Contains(structure, k)
  /\ EraseInBounds(structure, k)
  /\ structure' = Erased(structure, k)
  /\ home' = (home /\ IndexOf(structure, k) = k)
  /\ UNCHANGED outside

EraseOutOfBounds(k) ==
  /\ ~outside
  /\ Contains(structure, k)
  /\ ~EraseInBounds(structure, k)
  /\ outside' = TRUE
  /\ UNCHANGED <<structure, home>>

Random(r) ==
  /\ ~outside
  /\ structure.available # <<>>
  /\ structure' = AfterRandom(structure, r)
  /\ UNCHANGED <<home, outside>>

PoolNext ==
  \/ \E item \in Item : Insert(item)
  \/ \E k \in Keys : Erase(k) \/ EraseOutOfBounds(k)
  \/ \E r \in 0 .. MaxSize - 1 : Random(r)

PoolSpec == PoolInit /\ [][PoolNext]_pool_vars
-----------------------------------------------------------------------------
(* The structure is typed, whatever an out-of-place erase has done to it.   *)
PoolTypeOK == PoolTyped(structure, Item) /\ home \in BOOLEAN /\ outside \in BOOLEAN

(* As long as only keys that stand at their own index are erased, the index *)
(* and the key at it are the same number and swap_index_to_back is right:   *)
(* then insert, erase and random keep the structure consistent.             *)
ConsistentWhileHome == home => Consistent(structure) /\ ~outside

(* Every key drawn by random counts: the pool has an item for each place of *)
(* available at least, whatever erase has done to the order.                *)
EnoughItems == Len(structure.available) <= Cardinality(DOMAIN structure.pool)
=============================================================================
