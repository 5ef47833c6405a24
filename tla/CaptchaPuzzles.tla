--------------------------- MODULE CaptchaPuzzles ---------------------------
(***************************************************************************)
(* The pool of captcha puzzles (security/captcha/CaptchaPuzzles.hpp) as    *)
(* the handlers of the server use it: PUZZLE draws one under the exclusive *)
(* lock of Data::puzzle_pool, REGISTER and LOGIN check an answer under its *)
(* shared lock (Security::is_captcha_valid), although a check counts uses, *)
(* deletes and makes puzzles. Checks therefore interleave step by step.    *)
(*                                                                         *)
(* Of a puzzle the pool holds the count of its uses. Its image is left     *)
(* out, and so is its solution, a set of drawings that is never empty: a   *)
(* client may have read it off the image or guessed it.                    *)
(***************************************************************************)
EXTENDS IndexPoolData, FiniteSets

CONSTANTS
  Thread,     \* threads that check answers
  PoolSize,   \* POOL_SIZE
  CountLimit  \* successful_submissions is a byte: 2^8

ASSUME PoolAssumption ==
  /\ PoolSize \in Nat \ {0} /\ PoolSize <= KeyLimit
  /\ CountLimit \in Nat \ {0}
  /\ IsFiniteSet(Thread)

Count == 0 .. CountLimit - 1

(* Blank is a default PuzzleData, which is no puzzle.                       *)
ASSUME BlankAssumption == Blank \notin Count

VARIABLES
  puzzles,   \* the IndexPool
  sentinel,  \* the count of the one default PuzzleData that all missing ids share
  pc, id, seen,  \* per thread: its step, the puzzle_id it checks, the count it read
  broken,    \* a missing puzzle was drawn, or the maps were corrupted by a race
  surplus    \* history: how many deletions found nothing to delete

vars == <<puzzles, sentinel, pc, id, seen, broken, surplus>>

(* The constructor makes POOL_SIZE puzzles.                                 *)
Init ==
  /\ puzzles = [pool |-> [k \in 0 .. PoolSize - 1 |-> 0],
                available |-> [j \in 1 .. PoolSize |-> j - 1],
                index |-> [k \in 0 .. PoolSize - 1 |-> k],
                counter |-> PoolSize - 1]
  /\ sentinel = 0
  /\ pc = [t \in Thread |-> "idle"]
  /\ id = [t \in Thread |-> 0]
  /\ seen = [t \in Thread |-> 0]
  /\ broken = FALSE
  /\ surplus = 0

At(t, label) == ~broken /\ pc[t] = label
Goto(t, label) == pc' = [pc EXCEPT ![t] = label]

(* PUZZLE: a puzzle that is missing has no image, and copying it fails.     *)
GetPuzzle ==
  /\ ~broken
  /\ \A t \in Thread : pc[t] = "idle"
  /\ \E r \in 0 .. PoolSize - 1 :
       LET key == RandomKey(puzzles, r)
       IN  /\ puzzles' = AfterRandom(puzzles, r)
           /\ broken' = ~(Contains(puzzles, key) /\ puzzles.pool[key] # Blank)
  /\ UNCHANGED <<sentinel, pc, id, seen, surplus>>

(* check_puzzle finds the answer right; a wrong one changes nothing. For an *)
(* id the pool does not have, deleted or never given out, the right answer  *)
(* is the empty one, the solution of the sentinel.                          *)
CheckPuzzle(t) ==
  /\ At(t, "idle")
  /\ \E k \in Keys : id' = [id EXCEPT ![t] = k]
  /\ Goto(t, "load")
  /\ UNCHANGED <<puzzles, sentinel, seen, broken, surplus>>

(* successful_submissions of what operator[] finds under the id.            *)
Uses(t) == IF Contains(puzzles, id[t]) THEN puzzles.pool[id[t]] ELSE sentinel

(* successful_submissions++ reads and writes without excluding others.      *)
Load(t) ==
  /\ At(t, "load")
  /\ seen' = [seen EXCEPT ![t] = Uses(t)]
  /\ Goto(t, "store")
  /\ UNCHANGED <<puzzles, sentinel, id, broken, surplus>>

(* Mutant of Incremented: the count is not kept in a byte.                  *)
IncrementedWide(t) == seen[t] + 1

Incremented(t) == (seen[t] + 1) % CountLimit

Store(t) ==
  /\ At(t, "store")
  /\ IF Contains(puzzles, id[t])
       THEN puzzles' = [puzzles EXCEPT !.pool[id[t]] = Incremented(t)] /\ UNCHANGED sentinel
       ELSE sentinel' = Incremented(t) /\ UNCHANGED puzzles
  /\ Goto(t, "decide")
  /\ UNCHANGED <<id, seen, broken, surplus>>

(* The answer has been accepted.                                            *)
Accept(t) ==
  /\ pc' = [pc EXCEPT ![t] = "idle"]
  /\ id' = [id EXCEPT ![t] = 0]
  /\ seen' = [seen EXCEPT ![t] = 0]

(* Mutant of Decide: a third submission is waited for.                      *)
DecideLate(t) ==
  /\ At(t, "decide")
  /\ IF Uses(t) > 2 THEN Goto(t, "delete") /\ UNCHANGED <<id, seen>> ELSE Accept(t)
  /\ UNCHANGED <<puzzles, sentinel, broken, surplus>>

(* Delete the puzzle when two submissions are used.                         *)
Decide(t) ==
  /\ At(t, "decide")
  /\ IF Uses(t) > 1 THEN Goto(t, "delete") /\ UNCHANGED <<id, seen>> ELSE Accept(t)
  /\ UNCHANGED <<puzzles, sentinel, broken, surplus>>

(* Mutant of Deletion: erase does not ask whether the key exists.           *)
DeletionUnasked(t) == Erased(puzzles, id[t])

(* erase does nothing for a key that does not exist.                        *)
Deletion(t) == IF Contains(puzzles, id[t]) THEN Erased(puzzles, id[t]) ELSE puzzles

DeletePuzzle(t) ==
  /\ At(t, "delete")
  /\ Contains(puzzles, id[t]) => EraseInBounds(puzzles, id[t])
  /\ puzzles' = Deletion(t)
  /\ surplus' = IF Contains(puzzles, id[t]) THEN surplus ELSE surplus + 1
  /\ Goto(t, "make")
  /\ UNCHANGED <<sentinel, id, seen, broken>>

MakeNew(t) ==
  /\ At(t, "make")
  /\ CanInsert(puzzles)
  /\ puzzles' = Inserted(puzzles, 0)
  /\ Accept(t)
  /\ UNCHANGED <<sentinel, broken, surplus>>

(* One thread changes the maps while another is at them, or an erase is out *)
(* of bounds.                                                               *)
Corrupt(t) ==
  /\ ~broken
  /\ \/ pc[t] \in {"delete", "make"} /\ \E u \in Thread \ {t} : pc[u] # "idle"
     \/ pc[t] = "delete" /\ Contains(puzzles, id[t]) /\ ~EraseInBounds(puzzles, id[t])
  /\ broken' = TRUE
  /\ UNCHANGED <<puzzles, sentinel, pc, id, seen, surplus>>

Check(t) ==
  \/ CheckPuzzle(t) \/ Load(t) \/ Store(t) \/ Decide(t)
  \/ DeletePuzzle(t) \/ MakeNew(t) \/ Corrupt(t)

Next == GetPuzzle \/ \E t \in Thread : Check(t)

Spec == Init /\ [][Next]_vars
-----------------------------------------------------------------------------
(* The pool holds puzzles, and every count fits its byte.                   *)
TypeOK ==
  /\ PoolTyped(puzzles, Count)
  /\ sentinel \in Count
  /\ pc \in [Thread -> {"idle", "load", "store", "decide", "delete", "make"}]
  /\ id \in [Thread -> Keys]
  /\ seen \in [Thread -> Count]
  /\ broken \in BOOLEAN
  /\ surplus \in Nat

(* A puzzle whose submissions are used up is on its way out: whoever lost   *)
(* or overwrote a count, somebody still deletes it.                         *)
SpentIsDeleted ==
  \A k \in DOMAIN puzzles.pool :
    puzzles.pool[k] # Blank /\ puzzles.pool[k] > 1
      => \E t \in Thread : id[t] = k /\ pc[t] \in {"decide", "delete"}

(* get_puzzle draws an index below POOL_SIZE without asking how many keys   *)
(* there are (CaptchaPuzzles.hpp:77). Every check that deletes replaces, so *)
(* the pool is never short of a puzzle, and has one too many for each check *)
(* whose deletion found nothing: of a puzzle another thread deleted too, or *)
(* of an id the pool never had, counted on the sentinel. Nothing takes      *)
(* these away again.                                                        *)
PoolKeepsCount ==
  Len(puzzles.available) + Cardinality({t \in Thread : pc[t] = "make"}) = PoolSize + surplus
=============================================================================
