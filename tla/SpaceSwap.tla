------------------------------ MODULE SpaceSwap ------------------------------
(***************************************************************************)
(* How the game regenerates the space around the player (Game.hpp): the    *)
(* main thread asks for a regeneration, a worker thread generates it, and  *)
(* the main thread, frame by frame, either lands on the planet it found or *)
(* swaps the blocks on display for the new ones, one sub-group a frame.    *)
(*                                                                         *)
(* The threads share the request, the result, each under a mutex, and the  *)
(* atomic flag that says a swap is going on. One action is one step of a   *)
(* frame (_process), or one step of the worker between two accesses.       *)
(***************************************************************************)
EXTENDS Integers, FiniteSets

CONSTANTS
  Chunks,       \* SPACE_SWAP_CHUNKS
  MaxRequests,  \* bound on the regenerations requested
  None          \* no result

ASSUME ChunksAssumption == Chunks \in Nat \ {0} /\ MaxRequests \in Nat \ {0}

Group == 0 .. Chunks - 1
Serial == 1 .. MaxRequests

(* The sub-groups that get blocks when b blocks are split into Chunks.      *)
Filled(b) == {i \in Group : (i * b) \div Chunks < ((i + 1) * b) \div Chunks}

Result == [serial : Serial, planet : BOOLEAN, filled : SUBSET Group]

VARIABLES
  running,    \* space_running
  requested,  \* space_regen_requested
  asked,      \* the serial number of the latest request, in space_gen_target
  worker,     \* where the worker is
  job,        \* the request it works on
  pending,    \* pending_space_result
  main,       \* the next step of the main thread's frame
  onPlanet,   \* on_planet
  active,     \* space_swap_active
  old,        \* space_swap_old_groups: ids in increasing order
  next,       \* space_swap_new_chunks: which are filled, and by which result
  cursor,     \* space_swap_cursor
  live,       \* group_id_to_mesh_instances: per group, the results it shows
  applied,    \* history: the latest result applied
  shown,      \* history: the groups the latest result that was not a landing filled
  overlapped  \* history: a result was applied during a swap, or on a planet

vars == <<running, requested, asked, worker, job, pending, main, onPlanet, active,
          old, next, cursor, live, applied, shown, overlapped>>

workerVars == <<worker, job>>
swapVars == <<active, old, next, cursor, live>>
history == <<applied, shown, overlapped>>

NoChunks == [serial |-> 0, filled |-> {}]

(* start_game requests the first regeneration.                              *)
Init ==
  /\ running = TRUE
  /\ requested = TRUE /\ asked = 1
  /\ worker = "poll" /\ job = 0
  /\ pending = None
  /\ main = "apply"
  /\ onPlanet = FALSE
  /\ active = FALSE /\ old = {} /\ next = NoChunks /\ cursor = 0
  /\ live = [g \in Group |-> {}]
  /\ applied = 0 /\ shown = {} /\ overlapped = FALSE
-----------------------------------------------------------------------------
(* space_worker_loop: take the latest request.                              *)
Take ==
  /\ worker = "poll"
  /\ running /\ requested
  /\ requested' = FALSE
  /\ job' = asked
  /\ worker' = "hold"
  /\ UNCHANGED <<running, asked, pending, main, onPlanet, swapVars, history>>

(* Mutant of Hold: the request flag is only cleared after the wait.         *)
HoldClears ==
  /\ worker = "hold"
  /\ running /\ ~active
  /\ requested' = FALSE
  /\ worker' = "generate"
  /\ UNCHANGED <<running, asked, job, pending, main, onPlanet, swapVars, history>>

(* Wait until the main thread has finished the previous swap.               *)
Hold ==
  /\ worker = "hold"
  /\ running /\ ~active
  /\ worker' = "generate"
  /\ UNCHANGED <<running, requested, asked, job, pending, main, onPlanet, swapVars, history>>

(* generate_space, then the result under its mutex: an earlier one that was *)
(* not applied yet is dropped.                                              *)
Generate ==
  /\ worker = "generate"
  /\ \E over \in BOOLEAN, b \in 0 .. Chunks :
       pending' = [serial |-> job, planet |-> over, filled |-> Filled(b)]
  /\ worker' = "poll"
  /\ UNCHANGED <<running, requested, asked, job, main, onPlanet, swapVars, history>>

(* Mutant of WorkerExits: the wait for the swap does not look at the flag.  *)
PollerExits ==
  /\ worker = "poll"
  /\ ~running
  /\ worker' = "exited"
  /\ UNCHANGED <<running, requested, asked, job, pending, main, onPlanet, swapVars, history>>

WorkerExits ==
  /\ worker \in {"poll", "hold"}
  /\ ~running
  /\ worker' = "exited"
  /\ UNCHANGED <<running, requested, asked, job, pending, main, onPlanet, swapVars, history>>

Worker == Take \/ Hold \/ Generate \/ WorkerExits
-----------------------------------------------------------------------------
(* The i-th of the old groups, if there is one.                             *)
Rank(g, groups) == Cardinality({h \in groups : h < g})
OldAt(i, groups) == {g \in groups : Rank(g, groups) = i}

(* Mutant of Swapped: the new group is spawned before the old one is freed. *)
SwappedSpawnFirst(i, groups, chunks) ==
  [g \in Group |-> IF g \in OldAt(i, groups) THEN {}
                   ELSE live[g] \cup (IF g = i /\ i \in chunks.filled THEN {chunks.serial} ELSE {})]

(* The groups after step i of a swap: one old group is freed, then one of   *)
(* the new ones is spawned.                                                 *)
Swapped(i, groups, chunks) ==
  [g \in Group |-> (IF g \in OldAt(i, groups) THEN {} ELSE live[g])
                     \cup (IF g = i /\ i \in chunks.filled THEN {chunks.serial} ELSE {})]

(* Mutants of SwapStep: the swap goes one step too far; the groups to free  *)
(* next time are forgotten.                                                 *)
SwapStepLate(i, chunks) ==
  /\ live' = Swapped(i, old, chunks)
  /\ cursor' = i + 1
  /\ IF i >= Chunks /\ i >= Cardinality(old)
       THEN old' = chunks.filled /\ next' = NoChunks /\ active' = FALSE
       ELSE old' = old /\ next' = chunks /\ active' = TRUE

SwapStepForgets(i, chunks) ==
  /\ live' = Swapped(i, old, chunks)
  /\ cursor' = i + 1
  /\ IF i + 1 >= Chunks /\ i + 1 >= Cardinality(old)
       THEN old' = {} /\ next' = NoChunks /\ active' = FALSE
       ELSE old' = old /\ next' = chunks /\ active' = TRUE

(* paced_space_swap_tick at cursor i; after the last step the new groups    *)
(* are the ones the next swap frees.                                        *)
SwapStep(i, chunks) ==
  /\ live' = Swapped(i, old, chunks)
  /\ cursor' = i + 1
  /\ IF i + 1 >= Chunks /\ i + 1 >= Cardinality(old)
       THEN old' = chunks.filled /\ next' = NoChunks /\ active' = FALSE
       ELSE old' = old /\ next' = chunks /\ active' = TRUE

(* apply_space_result without a planet: start the swap, with its first step.*)
StartSwap(result) ==
  /\ SwapStep(0, [serial |-> result.serial, filled |-> result.filled])
  /\ shown' = result.filled
  /\ UNCHANGED onPlanet

(* apply_space_result over a planet: the live groups that are listed go,    *)
(* and enter_planet takes over.                                             *)
Land ==
  /\ live' = [g \in Group |-> IF g \in old THEN {} ELSE live[g]]
  /\ old' = {} /\ next' = NoChunks /\ active' = FALSE
  /\ shown' = {}
  /\ onPlanet' = TRUE
  /\ UNCHANGED cursor

Apply ==
  /\ main = "apply"
  /\ main' = "tick"
  /\ IF pending = None
       THEN UNCHANGED <<pending, onPlanet, swapVars, history>>
       ELSE /\ pending' = None
            /\ applied' = pending.serial
            /\ overlapped' = (overlapped \/ active \/ onPlanet)
            /\ IF pending.planet THEN Land ELSE StartSwap(pending)
  /\ UNCHANGED <<running, requested, asked, workerVars>>

Tick ==
  /\ main = "tick"
  /\ main' = "transit"
  /\ IF active THEN SwapStep(cursor, next) ELSE UNCHANGED swapVars
  /\ UNCHANGED <<running, requested, asked, workerVars, pending, onPlanet, history>>

(* space_transition_tick: leave the planet, request a regeneration after    *)
(* enough time and movement in space, or nothing.                           *)
Leave ==
  /\ main = "transit"
  /\ onPlanet
  /\ onPlanet' = FALSE
  /\ main' = "apply"
  /\ UNCHANGED <<running, requested, asked, workerVars, pending, swapVars, history>>

Request ==
  /\ main = "transit"
  /\ ~onPlanet
  /\ asked < MaxRequests
  /\ asked' = asked + 1
  /\ requested' = TRUE
  /\ main' = "apply"
  /\ UNCHANGED <<running, workerVars, pending, onPlanet, swapVars, history>>

Nothing ==
  /\ main = "transit"
  /\ main' = "apply"
  /\ UNCHANGED <<running, requested, asked, workerVars, pending, onPlanet, swapVars, history>>

Frame == Apply \/ Tick \/ Leave \/ Request \/ Nothing

(* _exit_tree, between two frames, and its join of the worker.              *)
ExitTree ==
  /\ main = "apply"
  /\ running' = FALSE
  /\ main' = "join"
  /\ UNCHANGED <<requested, asked, workerVars, pending, onPlanet, swapVars, history>>

Join ==
  /\ main = "join"
  /\ worker = "exited"
  /\ main' = "left"
  /\ UNCHANGED <<running, requested, asked, workerVars, pending, onPlanet, swapVars, history>>

Next == Worker \/ Frame \/ ExitTree \/ Join

(* The worker and the frames go on; nobody has to leave the game.           *)
FairSpec ==
  Init /\ [][Next]_vars /\ WF_vars(Worker) /\ WF_vars(Frame) /\ WF_vars(Join)

Spec == Init /\ [][Next]_vars
-----------------------------------------------------------------------------
(* Flags, cursors and groups keep their types (Game.hpp:82-98).             *)
TypeOK ==
  /\ running \in BOOLEAN /\ requested \in BOOLEAN
  /\ asked \in Serial
  /\ worker \in {"poll", "hold", "generate", "exited"}
  /\ job \in 0 .. MaxRequests /\ (worker \in {"hold", "generate"} => job \in Serial)
  /\ pending \in Result \cup {None}
  /\ main \in {"apply", "tick", "transit", "join", "left"}
  /\ onPlanet \in BOOLEAN /\ active \in BOOLEAN
  /\ old \in SUBSET Group
  /\ next \in [serial : 0 .. MaxRequests, filled : SUBSET Group]
  /\ cursor \in 0 .. Chunks
  /\ live \in [Group -> SUBSET Serial]
  /\ applied \in 0 .. MaxRequests /\ shown \in SUBSET Group /\ overlapped \in BOOLEAN

(* Group ids are reused by every swap and the list of old ids is compacted, *)
(* yet the swap neither frees a group it has just spawned nor leaves an old *)
(* one behind: between swaps the display is exactly the latest result, or   *)
(* nothing on a planet, as long as no result is applied during a swap or on *)
(* a planet.                                                                *)
DisplayIsLatest ==
  ~overlapped /\ ~active =>
    live = [g \in Group |-> IF g \in shown THEN {applied} ELSE {}]

(* Half-way through a swap no group shows two results at once.              *)
NoGroupShowsTwo ==
  ~overlapped => \A g \in Group : Cardinality(live[g]) <= 1

(* The worker waits for the main thread's swap and the main thread waits    *)
(* for the worker's result: unless the game is left, each request is        *)
(* answered by its own result or by a later one.                            *)
RequestsAreAnswered ==
  \A n \in Serial : (asked = n /\ running) ~> (applied >= n \/ ~running)

(* Leaving the game ends, even while the worker waits for a swap that will  *)
(* never be finished.                                                       *)
ExitCompletes == main = "join" ~> main = "left"

(* Game.hpp:267: "don't produce a new swap until the main thread has        *)
(* finished loading the previous one".                                      *)
SwapsDoNotOverlap == [][active => applied' = applied]_vars
=============================================================================
