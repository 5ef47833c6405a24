------------------------------- MODULE Terrain -------------------------------
(***************************************************************************)
(* How a planet's surface is streamed around the player (world/World.hpp). *)
(* A worker thread decides which chunks are wanted, at which level of      *)
(* detail, generates them, and queues spawns and despawns of their groups  *)
(* of blocks; the main thread runs the queue (DeferredWorldBlockPool),     *)
(* moves the player, and leaves and enters the planet (Game.hpp).          *)
(*                                                                         *)
(* A chunk is a chunk 16, which can be shown in blocks of 16, 4 or 1; a    *)
(* patch is a chunk 512 of the coarse surface around them. Positions and   *)
(* distances are given by the constants; the blocks of a group are its     *)
(* level. Plants, water and rivers are left out.                           *)
(***************************************************************************)
EXTENDS Integers, Sequences, FiniteSets, SequencesExt

CONSTANTS
  Chunk, Patch,
  Place,        \* where the player may be
  Nowhere,      \* the first last_player_position, far from every place
  PatchOf,      \* the patch a chunk lies in
  Want,         \* per place: the chunks in render distance and their levels
  WantPatch,    \* per place: the patches of the far surface
  Near,         \* per place: the places too close to it for a reset
  Far,          \* per place: the chunks at the despawn distance
  QueueCap,     \* the 10 pending spawns above which the worker waits
  PerTick,      \* terrain_despawn_per_tick
  MaxMoves,     \* bound on the moves of the player
  MaxLeaves     \* bound on the departures

(* Values of ChunkType. An entry operator[] creates is Zero.                *)
None == -2
Zero == 0
Level == {1, 4, 16}
Coarse == 512
Absent == -3  \* no entry in the map

ASSUME TerrainAssumption ==
  /\ IsFiniteSet(Chunk) /\ IsFiniteSet(Patch) /\ Chunk \cap Patch = {}
  /\ Nowhere \notin Place
  /\ PatchOf \in [Chunk -> Patch]
  /\ Want \in [Place -> [Chunk -> Level \cup {None}]]
  /\ WantPatch \in [Place -> SUBSET Patch]
  /\ Near \in [Place -> SUBSET Place]
  /\ Far \in [Place -> SUBSET Chunk]
  /\ QueueCap \in Nat /\ PerTick \in Nat \ {0} /\ MaxMoves \in Nat /\ MaxLeaves \in Nat

VARIABLES
  running,    \* running; cleared by the destructor, which then joins the worker
  landed,     \* TERRAIN_GEN_ON, and genType = TERRAIN
  player,     \* playerPosition
  leaving,    \* terrain_despawn_requested
  groups,     \* terrain_groups_to_despawn
  pc,         \* where the worker is
  snap,       \* player_position_snapshot
  last,       \* last_player_position
  moved,      \* playerMovementReset
  centre,     \* the place of the last reset: it gives desired_chunks
  coarse,     \* priority_order starts with CHUNK_16
  toGen,      \* chunks_to_gen
  finished,   \* finished_gen_chunks
  current,    \* chunk_to_current_type_in_world
  toDespawn,  \* chunks_to_despawn
  rest,       \* what despawn_iterator has yet to visit; {} at the end
  mark,       \* blocks_in_world: the level a chunk's blocks are marked at
  sWanted,    \* desired_surface_chunks
  sGen,       \* surface_chunks_to_gen
  sDespawn,   \* surface_chunks_to_despawn
  active,     \* active_surface_groups
  queue,      \* deferred calls: level None despawns a group, another spawns
  shown,      \* group_id_to_mesh_instances: per group, the batches spawned
  moves, leaves,
  lost        \* history: chunks a departure took off, or never sent, but left marked

look == <<snap, last, moved>>
gen == <<centre, coarse, toGen, finished, current>>
surface == <<sWanted, sGen, sDespawn, active>>
away == <<leaving, groups>>
world == <<landed, player, leaves, moves>>
vars == <<running, world, away, pc, look, gen, toDespawn, rest, mark, surface, queue, shown, lost>>

Group == Chunk \cup Patch
Wanted(p) == IF p = Nowhere THEN {} ELSE {c \in Chunk : Want[p][c] # None}
CloseTo(p, q) == q # Nowhere /\ p \in Near[q]
Spawn(g, l) == [group |-> g, level |-> l]
Despawn(g) == Spawn(g, None)

(* worker_thread_data.size(): the batches handed over but not yet spawned.  *)
Pending == Len(SelectSeq(queue, LAMBDA call : call.level # None))

(* The first landing: the worker is started on the surface.                 *)
Init ==
  /\ running = TRUE /\ landed = TRUE /\ player \in Place
  /\ leaving = FALSE /\ groups = {}
  /\ pc = "top" /\ snap = Nowhere /\ last = Nowhere /\ moved = TRUE
  /\ centre = Nowhere /\ coarse = FALSE /\ toGen = {} /\ finished = <<>>
  /\ current = [c \in Chunk |-> Absent]
  /\ toDespawn = {} /\ rest = {} /\ mark = [c \in Chunk |-> None]
  /\ sWanted = {} /\ sGen = {} /\ sDespawn = {} /\ active = {}
  /\ queue = <<>> /\ shown = [g \in Group |-> <<>>]
  /\ moves = 0 /\ leaves = 0 /\ lost = {}
-----------------------------------------------------------------------------
(* Mutant of Top: the loop does not end.                                    *)
TopForever ==
  /\ pc = "top"
  /\ pc' = "wait"
  /\ UNCHANGED <<running, world, away, look, gen, toDespawn, rest, mark, surface, queue, shown, lost>>

(* worker_loop: the loop's condition.                                       *)
Top ==
  /\ pc = "top"
  /\ pc' = IF running THEN "wait" ELSE "done"
  /\ UNCHANGED <<running, world, away, look, gen, toDespawn, rest, mark, surface, queue, shown, lost>>

(* The wait for the queue does not look at running.                         *)
Wait ==
  /\ pc = "wait"
  /\ Pending <= QueueCap
  /\ pc' = IF landed THEN "look" ELSE "leave"
  /\ UNCHANGED <<running, world, away, look, gen, toDespawn, rest, mark, surface, queue, shown, lost>>

(* Off the planet: list the groups on request, and despawn a few of them.   *)
DespawnPaced ==
  /\ pc = "leave"
  /\ LET all == IF leaving THEN {c \in Chunk : current[c] # Absent} ELSE groups
     IN  \E few \in SUBSET all :
           /\ \/ Cardinality(few) = PerTick
              \/ few = all /\ Cardinality(all) < PerTick
           /\ groups' = all \ few
           /\ queue' = queue \o SetToSeq({Despawn(c) : c \in few})
           /\ lost' = lost \cup few
  /\ leaving' = FALSE
  /\ pc' = "top"
  /\ UNCHANGED <<running, world, look, gen, toDespawn, rest, mark, surface, shown>>

(* Copy the player's position, and see whether it asks for a reset.         *)
Look ==
  /\ pc = "look"
  /\ snap' = player
  /\ IF landed
       THEN /\ moved' = ~CloseTo(player, last)
            /\ last' = IF moved' THEN player ELSE last
       ELSE UNCHANGED <<moved, last>>
  /\ pc' = "gen"
  /\ UNCHANGED <<running, world, away, gen, toDespawn, rest, mark, surface, queue, shown, lost>>

(* TERRAIN_GEN_ON was cleared since: a reset that was due is forgotten.     *)
SkipGen ==
  /\ pc = "gen" /\ ~landed
  /\ moved' = FALSE
  /\ pc' = "top"
  /\ UNCHANGED <<running, world, away, snap, last, gen, toDespawn, rest, mark, surface, queue, shown, lost>>

StartGen ==
  /\ pc = "gen" /\ landed /\ ~moved
  /\ pc' = "iterate"
  /\ UNCHANGED <<running, world, away, look, gen, toDespawn, rest, mark, surface, queue, shown, lost>>

(* Mutant of ResetDesiredChunks: what was wanted is not set to despawn.     *)
ResetForgets ==
  /\ pc = "gen" /\ landed /\ moved
  /\ centre' = snap /\ coarse' \in BOOLEAN
  /\ toGen' = Wanted(snap) /\ finished' = <<>> /\ current' = [c \in Chunk |-> Absent]
  /\ toDespawn' = toDespawn \ Wanted(snap) /\ rest' = {}
  /\ sDespawn' = (sDespawn \cup sWanted) \ WantPatch[snap]
  /\ sWanted' = WantPatch[snap] /\ sGen' = WantPatch[snap] \ active
  /\ active' = active
  /\ pc' = "iterate"
  /\ UNCHANGED <<running, world, away, look, mark, queue, shown, lost>>

ResetDesiredChunks ==
  /\ pc = "gen" /\ landed /\ moved
  /\ centre' = snap /\ coarse' \in BOOLEAN
  /\ toGen' = Wanted(snap) /\ finished' = <<>> /\ current' = [c \in Chunk |-> Absent]
  /\ toDespawn' = (toDespawn \cup Wanted(centre)) \ Wanted(snap) /\ rest' = {}
  /\ sDespawn' = (sDespawn \cup sWanted) \ WantPatch[snap]
  /\ sWanted' = WantPatch[snap] /\ sGen' = WantPatch[snap] \ active
  /\ UNCHANGED active
  /\ pc' = "iterate"
  /\ UNCHANGED <<running, world, away, look, mark, queue, shown, lost>>
-----------------------------------------------------------------------------
(* An iteration of world_gen ends: another one, or the tick's iterations    *)
(* are used up. How many there are depends on the work done.                *)
Iterated == pc' \in {"iterate", "despawn"}

GenSurface ==
  /\ pc = "iterate" /\ sGen # {}
  /\ \E s \in sGen :
       /\ sGen' = sGen \ {s}
       /\ IF s \in sWanted \ active
            THEN active' = active \cup {s} /\ queue' = Append(queue, Spawn(s, Coarse))
            ELSE UNCHANGED <<active, queue>>
  /\ Iterated
  /\ UNCHANGED <<running, world, away, look, gen, toDespawn, rest, mark, sWanted, sDespawn, shown, lost>>

(* Generate a chunk to its level. Without genType TERRAIN, its entry in     *)
(* chunk_to_current_type_in_world is not made.                              *)
GenChunk ==
  /\ pc = "iterate" /\ sGen = {}
  /\ \E c \in toGen :
       /\ toGen' = toGen \ {c}
       /\ finished' = Append(finished, c)
       /\ current' = IF landed THEN [current EXCEPT ![c] = None] ELSE current
  /\ Iterated
  /\ UNCHANGED <<running, world, away, look, centre, coarse, toDespawn, rest, mark, surface, queue, shown, lost>>

Spawning == pc = "iterate" /\ sGen = {} /\ toGen = {} /\ finished # <<>>

CurrentType(c) == IF current[c] = Absent THEN Zero ELSE current[c]

(* determineNextType                                                        *)
NextType(desired, type) ==
  LET finer == {t \in Level : t < type /\ t >= desired}
  IN  CASE type = desired -> type
        [] type = None /\ type # desired -> 16
        [] type \notin {None, desired} /\ finer = {} -> type
        [] type \notin {None, desired} /\ finer # {} ->
             CHOOSE t \in finer : \A u \in finer : IF coarse THEN u <= t ELSE t <= u

NextOf(c) == NextType(Want[centre][c], CurrentType(c))

(* Without genType TERRAIN nothing is spawned, or taken off the queue.      *)
SpawnIdle ==
  /\ Spawning /\ ~landed
  /\ Iterated
  /\ UNCHANGED <<running, world, away, look, gen, toDespawn, rest, mark, surface, queue, shown, lost>>

(* Nothing finer is to come: done, or to the back of the queue.             *)
SpawnDone ==
  /\ Spawning /\ landed
  /\ LET c == Head(finished)
     IN  /\ NextOf(c) = CurrentType(c)
         /\ finished' = Tail(finished) \o (IF CurrentType(c) = Want[centre][c] THEN <<>> ELSE <<c>>)
         /\ current' = [current EXCEPT ![c] = CurrentType(c)]
  /\ Iterated
  /\ UNCHANGED <<running, world, away, look, centre, coarse, toGen, toDespawn, rest, mark, surface, queue, shown, lost>>

(* Mutant of ChildrenSpawnedIn: coarser blocks count, too.                  *)
AnySpawnedIn(c) == mark[c] \in Level

ChildrenSpawnedIn(c) == mark[c] \in Level /\ mark[c] <= NextOf(c)

(* Blocks of that size or smaller are marked in the world: leave them.      *)
SpawnSkip ==
  /\ Spawning /\ landed
  /\ LET c == Head(finished)
     IN  /\ NextOf(c) # CurrentType(c) /\ ChildrenSpawnedIn(c)
         /\ current' = [current EXCEPT ![c] = NextOf(c)]
  /\ Iterated
  /\ UNCHANGED <<running, world, away, look, centre, coarse, toGen, finished, toDespawn, rest, mark,
                 surface, queue, shown, lost>>

(* Mutant of SpawnClear: the coarser blocks of the group are not despawned. *)
SpawnOver ==
  /\ Spawning /\ landed
  /\ LET c == Head(finished)
         s == PatchOf[c]
     IN  /\ NextOf(c) # CurrentType(c) /\ ~ChildrenSpawnedIn(c)
         /\ current' = [current EXCEPT ![c] = CurrentType(c)]
         /\ mark' = [mark EXCEPT ![c] = None]
         /\ queue' = queue \o (IF s \in active THEN <<Despawn(s)>> ELSE <<>>)
         /\ active' = active \ {s} /\ sWanted' = sWanted \ {s} /\ sDespawn' = sDespawn \ {s}
  /\ pc' = "mark"
  /\ UNCHANGED <<running, world, away, look, centre, coarse, toGen, finished, toDespawn, rest, sGen, shown, lost>>

(* despawnChunk and despawn_surface_for_chunk: what was there goes.         *)
SpawnClear ==
  /\ Spawning /\ landed
  /\ LET c == Head(finished)
         s == PatchOf[c]
     IN  /\ NextOf(c) # CurrentType(c) /\ ~ChildrenSpawnedIn(c)
         /\ current' = [current EXCEPT ![c] = CurrentType(c)]
         /\ mark' = [mark EXCEPT ![c] = None]
         /\ queue' = queue \o <<Despawn(c)>> \o (IF s \in active THEN <<Despawn(s)>> ELSE <<>>)
         /\ active' = active \ {s} /\ sWanted' = sWanted \ {s} /\ sDespawn' = sDespawn \ {s}
  /\ pc' = "mark"
  /\ UNCHANGED <<running, world, away, look, centre, coarse, toGen, finished, toDespawn, rest, sGen, shown, lost>>

(* addChunkAndDownBlocksToSpawn: addBlockToSpawn marks and collects the     *)
(* blocks if genType is TERRAIN; the chunk's entry moves on in any case.    *)
SpawnMark ==
  /\ pc = "mark"
  /\ LET c == Head(finished)
     IN  /\ current' = [current EXCEPT ![c] = NextOf(c)]
         /\ mark' = [mark EXCEPT ![c] = IF landed THEN NextOf(c) ELSE None]
  /\ pc' = "send"
  /\ UNCHANGED <<running, world, away, look, centre, coarse, toGen, finished, toDespawn, rest, surface,
                 queue, shown, lost>>

(* The batch is handed over, if genType is still TERRAIN.                   *)
SpawnSend ==
  /\ pc = "send"
  /\ LET c == Head(finished)
         sent == landed /\ mark[c] # None
     IN  /\ queue' = IF sent THEN Append(queue, Spawn(c, mark[c])) ELSE queue
         /\ lost' = IF sent THEN lost \ {c} ELSE lost \cup {c}
  /\ Iterated
  /\ UNCHANGED <<running, world, away, look, gen, toDespawn, rest, mark, surface, shown>>

NothingToDo ==
  /\ pc = "iterate" /\ sGen = {} /\ toGen = {} /\ finished = <<>>
  /\ pc' = "despawn"
  /\ UNCHANGED <<running, world, away, look, gen, toDespawn, rest, mark, surface, queue, shown, lost>>

WorldGen ==
  \/ GenSurface \/ GenChunk \/ SpawnIdle \/ SpawnDone \/ SpawnSkip \/ SpawnClear
  \/ SpawnMark \/ SpawnSend \/ NothingToDo
-----------------------------------------------------------------------------
(* Mutant of DespawnVisit: the iterator stays on a chunk that is not far.   *)
DespawnStuck(c) ==
  /\ rest' = IF c \in Far[snap] THEN {} ELSE {c}
  /\ IF c \in Far[snap]
       THEN /\ toDespawn' = toDespawn \ {c} /\ mark' = [mark EXCEPT ![c] = None]
            /\ lost' = lost \ {c}
       ELSE UNCHANGED <<toDespawn, mark, lost>>

(* Mutant of DespawnVisit: the chunk's blocks stay marked.                  *)
DespawnMarked(c) ==
  /\ rest' = (IF rest = {} THEN toDespawn ELSE rest) \ {c}
  /\ UNCHANGED mark
  /\ IF c \in Far[snap] THEN toDespawn' = toDespawn \ {c} /\ lost' = lost \ {c}
       ELSE UNCHANGED <<toDespawn, lost>>

(* The chunk at the iterator goes if it is far, else the iterator goes on.  *)
DespawnVisit(c) ==
  /\ rest' = (IF rest = {} THEN toDespawn ELSE rest) \ {c}
  /\ IF c \in Far[snap]
       THEN /\ toDespawn' = toDespawn \ {c} /\ mark' = [mark EXCEPT ![c] = None]
            /\ lost' = lost \ {c}
       ELSE UNCHANGED <<toDespawn, mark, lost>>

(* The end of the tick: visit a chunk, and despawn a patch not wanted now.  *)
DespawnTick ==
  /\ pc = "despawn"
  /\ IF toDespawn # {} /\ landed
       THEN \E c \in IF rest = {} THEN toDespawn ELSE rest : DespawnVisit(c)
       ELSE UNCHANGED <<toDespawn, rest, mark, lost>>
  /\ IF sDespawn # {}
       THEN \E s \in sDespawn : sDespawn' = sDespawn \ {s} /\ active' = active \ {s}
       ELSE UNCHANGED <<sDespawn, active>>
  /\ queue' = queue \o SetToSeq({Despawn(c) : c \in toDespawn \ toDespawn'})
                    \o SetToSeq({Despawn(s) : s \in sDespawn \ sDespawn'})
  /\ moved' = FALSE
  /\ pc' = "top"
  /\ UNCHANGED <<running, world, away, snap, last, gen, sWanted, sGen, shown>>

Worker ==
  \/ Top \/ Wait \/ DespawnPaced \/ Look \/ SkipGen \/ StartGen \/ ResetDesiredChunks
  \/ WorldGen \/ DespawnTick
-----------------------------------------------------------------------------
(* Mutant of RunDeferred: a despawn adds an empty batch.                    *)
RunAppends ==
  /\ running /\ queue # <<>>
  /\ shown' = [shown EXCEPT ![Head(queue).group] = Append(@, Head(queue).level)]
  /\ queue' = Tail(queue)
  /\ UNCHANGED <<running, world, away, pc, look, gen, toDespawn, rest, mark, surface, lost>>

(* The main thread runs the oldest deferred call.                           *)
RunDeferred ==
  /\ running /\ queue # <<>>
  /\ LET call == Head(queue)
     IN  shown' = [shown EXCEPT ![call.group] =
                     IF call.level = None THEN <<>> ELSE Append(@, call.level)]
  /\ queue' = Tail(queue)
  /\ UNCHANGED <<running, world, away, pc, look, gen, toDespawn, rest, mark, surface, lost>>

(* reportWorldPosition, from a frame in which the player has moved.         *)
Move ==
  /\ running /\ landed /\ moves < MaxMoves
  /\ moves' = moves + 1
  /\ player' \in Place \ {player}
  /\ UNCHANGED <<running, landed, leaves, away, pc, look, gen, toDespawn, rest, mark, surface, queue, shown, lost>>

(* leave_planet                                                             *)
Leave ==
  /\ running /\ landed /\ leaves < MaxLeaves
  /\ landed' = FALSE /\ leaving' = TRUE /\ leaves' = leaves + 1
  /\ UNCHANGED <<running, player, moves, groups, pc, look, gen, toDespawn, rest, mark, surface, queue, shown, lost>>

(* enter_planet, on the same planet, at the place it is approached from.    *)
Enter ==
  /\ running /\ ~landed
  /\ landed' = TRUE /\ player' \in Place
  /\ UNCHANGED <<running, leaves, moves, away, pc, look, gen, toDespawn, rest, mark, surface, queue, shown, lost>>

(* ~World: no frame is drawn any more, the destructor joins the worker.     *)
Exit ==
  /\ running
  /\ running' = FALSE
  /\ UNCHANGED <<world, away, pc, look, gen, toDespawn, rest, mark, surface, queue, shown, lost>>

Next == Worker \/ RunDeferred \/ Move \/ Leave \/ Enter \/ Exit

Spec == Init /\ [][Next]_vars

(* Frames are drawn, and the worker is scheduled, while they can run; the   *)
(* iterations of a tick run out, even while there is nothing they can do.   *)
FairSpec ==
  /\ Spec
  /\ WF_vars(Worker) /\ WF_vars(WorldGen /\ pc' = "despawn")
  /\ WF_vars(RunDeferred)
-----------------------------------------------------------------------------
(* A deferred call, and the batches of a group on display.                  *)
Call == [group : Group, level : Level \cup {None, Coarse}]
Batches == Seq(Level \cup {Coarse})

TypeOK ==
  /\ running \in BOOLEAN /\ landed \in BOOLEAN /\ leaving \in BOOLEAN /\ moved \in BOOLEAN
  /\ player \in Place
  /\ snap \in Place \cup {Nowhere} /\ last \in Place \cup {Nowhere} /\ centre \in Place \cup {Nowhere}
  /\ coarse \in BOOLEAN
  /\ pc \in {"top", "wait", "leave", "look", "gen", "iterate", "mark", "send", "despawn", "done"}
  /\ groups \subseteq Chunk /\ toGen \subseteq Chunk /\ toDespawn \subseteq Chunk
  /\ rest \subseteq Chunk /\ lost \subseteq Chunk
  /\ sWanted \subseteq Patch /\ sGen \subseteq Patch /\ sDespawn \subseteq Patch /\ active \subseteq Patch
  /\ finished \in Seq(Chunk)
  /\ current \in [Chunk -> Level \cup {Absent, None, Zero}]
  /\ mark \in [Chunk -> Level \cup {None}]
  /\ queue \in Seq(Call)
  /\ shown \in [Group -> Batches]
  /\ moves \in 0 .. MaxMoves /\ leaves \in 0 .. MaxLeaves

(* What group g shows when the calls of q have been run on its batches.     *)
Calls(q, g) == {i \in DOMAIN q : q[i].group = g}
ShownAfter(q, batches, g) ==
  IF Calls(q, g) # {}
    THEN q[CHOOSE i \in Calls(q, g) : \A j \in Calls(q, g) : j <= i].level
    ELSE IF batches = <<>> THEN None ELSE batches[Len(batches)]
Settled(g) == ShownAfter(queue, shown[g], g)

(* A group never shows two batches at once: no ground twice, at two levels  *)
(* (WorldBlockPool.hpp: spawn_blocks adds to the group it is given).        *)
OneLevelShown == \A g \in Group : Len(shown[g]) <= 1

(* Once the queue is run, what is on display is what the worker holds to be *)
(* in the world, but for a batch it is about to send and for the chunks a   *)
(* departure took off; those show nothing (World.hpp: blocks_in_world,      *)
(* active_surface_groups).                                                  *)
MarksMatchDisplay ==
  /\ \A c \in Chunk :
       \/ Settled(c) = mark[c]
       \/ Settled(c) = None /\ (c \in lost \/ (pc = "send" /\ c = Head(finished)))
  /\ \A s \in Patch : Settled(s) = IF s \in active THEN Coarse ELSE None

(* What is, or is going to be, on display is wanted or listed to go: no     *)
(* reset and no departure leaves ground behind for good (World.hpp:         *)
(* resetDesiredChunks, desired_chunks, chunks_to_despawn).                  *)
NothingForgotten ==
  /\ \A c \in Chunk : mark[c] # None \/ Settled(c) # None => c \in Wanted(centre) \cup toDespawn
  /\ active \subseteq sWanted \cup sDespawn

(* The player stays on the planet for good, never having left it.           *)
Stays == []<>(leaves = 0 /\ running)

(* On a planet that is not left, the ground around the last reset arrives,  *)
(* at least as fine as wanted, and ground that is far goes, however the     *)
(* player moved before (World.hpp: world_gen).                              *)
TerrainArrives ==
  Stays => <>[](/\ CloseTo(player, centre)
                /\ \A c \in Wanted(centre) : Len(shown[c]) = 1 /\ shown[c][1] <= Want[centre][c])

FarIsDropped ==
  Stays => <>[](\A c \in Far[player] \ Wanted(centre) : shown[c] = <<>>)

(* The destructor ends, unless the worker was waiting for the main thread   *)
(* to run the queue (World.hpp:355, 318).                                   *)
ExitCompletes == ~running ~> pc = "done" \/ (pc = "wait" /\ Pending > QueueCap)
=============================================================================
