# ManyWorlds: a verification project in TLA+

ManyWorlds is a voxel universe in C++ for the Godot engine, with a game server.
This directory models the parts of it whose correctness depends on order:
threads, locks, retries, counters and data structures that are changed piece by
piece. The modules are checked with TLC on small instances, and the central
invariants are proved with TLAPS for every value of the constants.

`PROJECT.json` is the index: components, runs, mutants, the source lines behind
every definition, findings, hazards and theorems. Paths below are relative to
`src/src/` of the repository.

## 1. The system

| component | state | operations | hard behaviour | what makes it correct |
|---|---|---|---|---|
| accounts (`server/Data.hpp`, `request_handlers/`) | players, credentials, ids, sessions by address, ids to log out | REGISTER with the sweep of suspicious accounts, LOGIN, LOGOUT | one map at a time is locked; a handler is several critical sections | sessions belong to complete accounts; the maps stay in step; the account limit; only suspicious accounts are swept |
| rate limits (`Security.cpp`, `Data.hpp`) | last request per type and address, last login per id | `rate_limit`, `check_in`, `rate_limit_by_id` | clock read before the lock; bounded map wiped; entries that several clients share | accepted requests of an entry are spaced; nobody is refused without a recent request of their entry, and it is known whose share one |
| server threads (`Server.hpp`, sockets) | `running`, request queue, counter of connections, pending stop | receive, hand over, work, accept, serve, stop, destroy | detached threads, blocking calls, shutdown | freed once, when unused; shutdown ends; STOP is answered; the queue is worked off |
| index pool (`IndexPool.hpp`) | items, list of keys, positions, key counter | `insert`, `erase`, `random`, `[]` | wrap-around, swap-and-pop | list and positions are inverse, random draws an item of the pool |
| captcha puzzles (`CaptchaPuzzles.hpp`, `Puzzle.hpp`) | a pool of puzzles, their uses | draw, check, delete, make | mutated under a shared lock; ids that are not in the pool share a sentinel | a used-up puzzle is deleted and replaced; the pool is never short, and what makes it grow is known |
| space display (`Game.hpp`) | request, result, swap list, sub-groups on display, mode | request, generate, apply, swap step, land, leave, exit | worker against frames | the display becomes the latest result; requests are answered; exit ends |
| game client's connection (`NetworkClient.hpp`, `handle_connection` of `Server.hpp`) | socket, receive buffers of both ends, answers put aside | connect, ping, login, puzzle; accept, read, process, answer, close | partial reads, losses nobody may be told of, connections without a thread, reconnection with a full buffer, requests without an answer | a call gets its own answer; the server acts once; both ends keep their place in the stream; calls end while somebody is there to answer |
| messages (`Interface.hpp`, `BitUtil.hpp`) | none | pack, `message_length`, unpack of twenty kinds | the layout is written three times by hand; lengths from part of a message; places sent as differences to an origin | what is read is what was sent; a length, once told, stays |
| terrain streaming (`World.hpp`, `WorldBlockPool.hpp`, `DeferredWorldBlockPool.hpp`) | wanted, queued and spawned chunks, what is marked as spawned, queue to the main thread, blocks on display | reset, generate, refine, spawn, despawn, leave, enter, exit | two threads, order of spawns and despawns, flags read twice in one tick | one level of detail per chunk; the worker's marks agree with the display; nothing on display is forgotten; the ground arrives |
| block storage (`BlockStorage.hpp`) | packed chunks, the registry of materials | pack, unpack, add, serialize, deserialize | bit fields as wide as a range, indices that mean something in one process only | a chunk gives back its blocks |
| containers (`LocationBank.hpp`, `PositionMap.h`) | buckets of positions | insert, find, remove | boundaries of buckets | same answers as a set |
| water (`FluidSimulation.hpp`) | heads of flow | step | a frontier that grows | terminates, keeps volume |
| generation (space, chunks, cities, plants, creatures), magic, economies, music, rendering | local | sequential, from random numbers | floating point | not a subject here |

How they interact: UDP requests go from `Server::run` through the queue of
`Data` to the workers; TCP requests are handled by the thread of their
connection. Both call `Security` (rate limits, captcha) and the handlers, which
work on the maps of `Data`, each behind its own lock (`TSafe`). The captcha is a
client of `IndexPool`. In the game, `Game` asks its space worker for a
regeneration and swaps the display; on a planet it hands over to `World`, whose
own worker feeds `DeferredWorldBlockPool`, which the main thread empties into
`WorldBlockPool`. The client asks over one TCP connection and waits; what travels is
the messages of `Interface`, whose blocks are serialized by `BlockStorage`.

## 2. Modules

| module | models | checked by | proved in |
|---|---|---|---|
| `Accounts` | handlers of accounts and sessions | `MCAccounts` | `Accounts_proofs` |
| `RateLimit` | rate limits | `MCRateLimit` | `Security_proofs` |
| `Lifetime` | what the server promises of its data (abstract) | through `Server` | `Server_proofs` |
| `Server` | threads and life of the server | `MCServer` | `Server_proofs` |
| `IndexPoolData` | the pool as a value, its operations | through the next two | `Security_proofs` |
| `IndexPool` | every sequence of pool operations | `MCIndexPool` | `Security_proofs` |
| `CaptchaPuzzles` | the puzzles, on top of `IndexPoolData` | `MCCaptchaPuzzles` | `Security_proofs` |
| `SpaceSwap` | space worker, frames and swap | `MCSpaceSwap` | `SpaceSwap_proofs` |
| `Terrain` | a planet's surface around the player | `MCTerrain` | `Terrain_proofs` |
| `Exchange` | what the client's calls promise (abstract) | through `Connection` | `Connection_proofs` |
| `Connection` | the client's calls, the stream, the server's threads | `MCConnection` | `Connection_proofs` |
| `Bits` | numbers as bits in a buffer | through the next three | `Storage_proofs` |
| `StorageChunk` | the two containers of a chunk as values | through the next two | `Storage_proofs` |
| `Storage` | a chunk between two processes | `MCStorage` | `Storage_proofs` |
| `Wire` | the messages bit by bit | `MCWire` | `Wire_proofs` |

`Lifetime` and `Exchange` are abstract specifications. `Server` is shown to
implement the first by TLC (the property `DataOutlivesUsers`) and by proof,
`Connection` the second (`IsExchange`), by TLC and by proof as well.
`CaptchaPuzzles` is composed of its own control and the operators of
`IndexPoolData`, which the `IndexPool` run examines alone; `Security_proofs` proves
what the operators do once and uses it for both. The `MC`
modules only give names to the sets the configurations use.

### Accounts

A handler is a function from threads to a program counter and locals; one
action is one critical section of the code, so everything that can run between
two locks does. `Register` is the sequence limit check, sweep (`SweepNeeded`,
`SweepSize`, ten rounds of `SweepPick`, `DeletePlayer`, `DeleteCreds`,
`DeleteIds`), refusal or the three inserts; the returns inside the lambdas of
`delete_player_if_suspicious` leave the lambda only, as in the code. A check of
password or captcha is an outcome.

### RateLimit

`Arrive` reads the clock, `CheckIn` is the critical section of `check_in`; time
passes between them, up to the constant `MaxLag`. The size test comes after the
insert, as in the code. `LoginClock` and `LoginById` are the same for the limit
by id, which in the code never stores a first entry.

An entry of the map is a text, the address with the digits of the type's number
behind it and nothing between (`EntryOf`, Security.cpp:24), so two requests may
have one: 10.0.0.1 with type 17 and 10.0.0.11 with type 7. `times` is therefore a
map of texts, while the history `asked` is one of requests. `RefusedOnlyWhenRecent`
says who may be in whose way (`Answerable`): the client itself, or another one
whose type's number has another length. The instance has both, LOGIN as 7 and
PLACEMENT as 17 with the addresses 1 and 11. What an address is made of is left
open, so the proof holds of any spelling.

### Server and Lifetime

One process per thread: the main loop (`Main`), workers, the accepting thread
and connections, each with the lock of the UDP socket and of the queue where
the code holds them. `running` is set by the owner or by a STOP. `Destroy`,
`JoinWorkers`, `Drain` and the release are the destructor, in its order.
`Lifetime` knows users that enter and leave, and a release that happens once
when there are none and none can come; `Server` implements it under the mapping
in `Server.tla`.

### IndexPoolData, IndexPool, CaptchaPuzzles

`Erased` is `erase` with `swap_index_to_back` as written: it looks up the key
*numbered* like the index rather than the key *at* the index, and may therefore
insert a default position. A sequence of calls in which every erased key is at
its own index (`home`) never notices. The access of `operator[]` to a missing
key that creates an entry is modelled, because the captcha relies on it.
`CaptchaPuzzles` has several checking threads because the code counts uses under
a shared lock: the count is a read and a write, and the deletion of a used-up
puzzle happens later, by whoever saw it used up. The id of a check is the
client's: any key, in the pool or not. For one that is not, `operator[]` gives the
one default puzzle of the process, whose solution is empty, so an empty answer is
right; its uses are counted on that `sentinel`, in a byte that wraps, `erase` finds
nothing (`Deletion`), and `MakeNew` adds a puzzle all the same. `surplus` is a
history variable: how many deletions found nothing, for that reason or because
another thread had deleted the puzzle. `PoolKeepsCount` says that the pool has
exactly so many puzzles more than it began with.

### SpaceSwap

The worker's steps lie between its accesses to the shared flag, request and
result; a frame is three steps (apply, swap step, transition). Blocks are
reduced to the sub-groups they end in. A step frees the group at the cursor of
the compacted list and then spawns the cursor's own one, as in
`paced_space_swap_tick`. History variables record what should be on display.

### Terrain

`worker_loop` and `world_gen` of `World` are the actions of `Worker`, cut where the code reads something the main thread writes:
`TERRAIN_GEN_ON` and `genType` (both are `landed`: `leave_planet` and
`enter_planet` set them together), the position, the queue's length. A chunk's
spawn is three steps, clear (`despawnChunk`, `despawn_surface_for_chunk`), mark
(`addBlockToSpawn` fills `blocks_in_world`) and send (the batch becomes a
deferred call), because `genType` is read again in each. `RunDeferred` runs one
deferred call; `Move`, `Leave`, `Enter` and `Exit` are the frames of `Game` and
the destructor.

Abstracted: which chunks are in range of a position and at which level
(`Want`, `WantPatch`, `Near`, `Far`, constants over a few places); the blocks of
a chunk are the level they have; the order of the unordered sets is arbitrary;
the number of iterations of a tick, which depends on the work done, is too.
`lost` is a history variable: chunks a departure despawned, or whose batch it
swallowed, while `blocks_in_world` keeps them. Left out: plants, water, rivers,
the digging of `WorldBlockPool.cpp`, the sky and space modes, and landing on a
different planet, which rebuilds `World`.

### Exchange and Connection

`Connection` is both ends of a TCP connection at the grain of reads. The stream
each way is a sequence of pieces: a message of kind k has `AskSize[k]` or
`AnswerSize[k]` of them, and only the first tells kind and length, which is what
`message_length` needs. `Receive` and `Read` take any non-empty prefix of what
has arrived. The network loses a connection with any suffix of what is under way,
each way: `Cut` tells the ends, `GoSilent` does not (neither end has a keepalive or
a deadline, and a `recv` that times out is made again), and a silent one may be cut
later. On the client, `Begin`, `EnsureTcp`, `Send` and `recieve_tcp` (`Take`,
`Receive`, `ReceiveEnd`) are one call; `TakeGarbled` is `recieve_tcp` on a buffer
that begins in the middle of a message, whose bits may claim anything. On the
server, `handle_connection` is `Read`, `Process` and `Close`; the outcome of a
handler is an answer or none (rate limit, wrong captcha or password, exception).
Requests turned down without a word are `refused`. A client that is gone leaves
its thread; a server that stops closes after the message it is at. When the thread
of a connection cannot be started (`AcceptFails`), nobody reads its socket and
nobody closes it: the `catch` of Server.hpp:192 only logs. The destructor then
waits for ever for the thread it has counted, so `Gone` never comes.

`Deserted` names the three ways in which nothing can come to a client that waits
and does not know it: a silent loss, a missing thread, and a connection nobody
accepted on a server that a missing thread keeps from ending. `CallsEnd` says that
in every other case a call ends, with an answer or without, unless its request
was refused.

`inStep` is a history variable: every connection so far began with an empty
`tcp_rx_buffer`. `ensure_tcp` does not clear the buffer, so a connection lost in
the middle of an answer makes it FALSE; what is promised then is only what the
server promises. `Exchange` says the rest in a few lines: one call at a time,
the server acts on a call at most once, an answer taken for a call's own is its
own and was given after the server acted.

### Bits, StorageChunk, Storage, Wire

The layouts are translated as values: `Pack`, `Unpack`, `Add`, `Serialize` and
`Deserialize` of both containers, `Packed`, `MessageLength` and `Unpacked` of
every message that has a `pack`: the same fields in the same order, each of the
code's width, but for what follows. The proofs are about every width; `wire` uses
the code's, except that the place of a chunk has 28 bits instead of 54
(`ChunkBits`), as the model computes with it and TLC's integers have 32; `storage`
uses smaller ones. The count at which a payload is range compressed (`PackedMost`,
20 in the code) is smaller in `wire`. A number that is wider than TLC's integers
and is not computed with is itself a string of bits. `MessageLength` may only look
at the bits that have arrived, as `take` and `skip` do. For bounds of a range that
are not in order, which no `pack` writes, the unsigned difference in
`skip_block_payload` wraps (Interface.hpp:322); `SkipRecords` gives them no bits,
and no message sent here has them.

Places are whole numbers of quarters of a block (`AnyBlock`), of any sign. A message
carries them as differences to an origin, and `Relative` and `Absolute` are the
subtraction in `pack` and the addition in `unpack`. BLOCKS and VEHICLE tell their
chunk, biased as `pack_pneg` does (`Pneg`, `GetPneg`). SCHEMATA subtracts the least
corner of its own blocks, in whole blocks, does not tell it, and is unpacked at
0, 0, 0 (`Anchored`): what it says is its blocks from their own corner, as its
comment has it (Interface.hpp:1073), not where they were. The doubles of the code
hold the places of blocks that a message can tell exactly up to 2^51 blocks from
the middle; beyond that a `PositionDouble` cannot hold quarters, and this rounding
is not modelled. A PLACEMENT of a block sends the bare index of its material in the
sender's registry: `ReadAsSent` says of it that the number arrives, not that it
means the same material.

`pack` of a bit-packed chunk leaves `material_remap` as it is
(BlockStorage.hpp:188), where `PackPacked` has it empty; the two differ only when a
received object is packed again, which nothing in the repository does.

Which messages there are is a definition of `Wire`, a set of records for each
struct of `Interface.hpp` (`AccountMessages`, `MotionMessages`, `BlockMessages`):
a number fits its field (`Number`), a list its count (`Few`), a chunk a message
tells its 54 bits (`WholePlace`), the blocks of a message are at most a chunk from
their origin, and of fewer materials than 8 bits count (`BlockList`). The code does not enforce this:
`BitUtil::pack` cuts what is longer, and the rest of the message is misread (see
*Observed*). Such messages are not sent here; all others are in the
proofs, and one of every shape of them in `wire`. The answers to a
captcha, a map in the code, are a list in whatever order they are packed.

`Storage` has one chunk and a registry of materials per process. `mixed` is a
history variable: a bit-packed chunk that was received keeps its sender's indices
in its records and translates them on unpacking only; `add` writes an index of
the new owner among them, and `serialize` looks up the sender's in the new
owner's registry. It also notes that a chunk of more materials was sent than the
8 bits of their count can tell (`TooManyNames`, BlockStorage.hpp:301).

## 3. Runs

Passing runs, with their bounds:

| run | bounds | shows |
|---|---|---|
| `accounts` | 2 connections, 1 UDP worker, 4 ids of which 2 are loaded from disk, 2 addresses, account limit 1, 1 round of the sweep | `SessionsOfAccounts`, `ListedIdsHavePlayers`, `AccountCap` in every interleaving of two registrations or logins, a sweep and a UDP worker; two handlers are enough for each pair of critical sections to be reordered, and a limit of 1 puts both registrations at the limit and triggers the sweep |
| `ratelimit` | 2 threads, 2 addresses, 2 types, the digits 7 and 17, addresses 1 and 11, map of 2 entries, limits 2 and 3, lag 1, time up to 3 (1,085,464 states) | `SpacedUpToLag`, `RefusedOnlyWhenRecent`, `MapBounded`: three entries for four requests, so that the map overflows and two clients share an entry; a request is refused for its own and for the other's; both limits are passed and not passed |
| `server` | 1 worker, 2 connections of which one may stop reading, 2 datagrams, creation of threads may fail | `FreedWhenUnused`, `ActiveCounts`, `DataOutlivesUsers`, and under fairness `ShutdownCompletes`, `StopIsAnswered`, `BacklogDrains` |
| `indexpool` | keys 0..4, up to three listed keys, one item beside the default | `ConsistentWhileHome`, `EnoughItems`: the counter wraps, and a key is erased from each position |
| `captcha` | 2 checking threads, pool of 2, keys 0..2, counts below 4 (2,719,088 states) | `SpentIsDeleted`, `PoolKeepsCount`: two threads use up the same puzzle, counts wrap, the pool grows by one and then has no free key; the code's keys are too many for that, and growth beyond it is what the proof covers |
| `spaceswap` | 3 sub-groups, 3 requests | `DisplayIsLatest`, `NoGroupShowsTwo`, `RequestsAreAnswered`, `ExitCompletes`: a swap, a second one, and a landing in the middle of either |
| `terrain` | 2 chunks in 1 patch, 3 places, 2 moves, 1 departure and return, queue limit 0, 1 despawn per tick | `OneLevelShown`, `MarksMatchDisplay`, `NothingForgotten`: a chunk changes its level, stops being wanted, is far at one place and not at another; the coarse patch comes and goes; every flag changes in the middle of a tick |
| `terrain_live` | the same without departure | `TerrainArrives`, `FarIsDropped`, `ExitCompletes` |
| `connection` | 3 calls of 2 kinds, 2 connections; requests of 1 and 2 pieces, answers of 1 and 3 (232,778 states) | `KeepsPlace`, `IsExchange`, and under fairness `CallsEnd`: messages split at any piece and run together, a loss in any of them, told or silent, a reconnection with a clean and with a dirty buffer, a thread that is missing, a server that stops and is gone |
| `wire` | 2 messages, one of every kind and shape first, some after it; payloads of up to 3 blocks, packed up to 2, in chunks at both ends of 28 bits and around the middle (49,490 states) | `ReadAsSent`, `LengthIsStable`: every id tier, both containers, empty and non-empty lists, blocks on both sides of zero and as far apart as a payload can hold, each message at every length of its prefix, with another behind it |
| `storage` | 2 processes, 2 materials, places of 3 bits, 3 blocks | `ContentsKept`: blocks at both ends of the range, new materials and new bounds, registries in every order |

One run ends in a violation and shows where the code does not do what its
comment says; `PROJECT.json` quotes it.

| run | property | what happens |
|---|---|---|
| `spaceswap_overlap` | `SwapsDoNotOverlap` | a result generated while no swap was active is applied in the middle of the previous one |

Deadlock is not checked where the system may stop: a server that was destroyed,
a pool with no keys left, handlers that have run out of requests, a game that
was left, calls, messages or blocks that have reached their bound.

### Fairness

`Server`: weak fairness of each thread's own steps, as the scheduler of the
operating system runs every ready thread, and the blocking calls that have a
time-out (`recv`, `select`) return. A client that reads lets a send finish;
one that may stall is not assumed to. Nothing is assumed of requests, of the
owner or of the creation of threads: `ShutdownCompletes` names a failed thread
and a stuck send as the only things that can keep the destructor waiting.
`SpaceSwap`: weak fairness of the worker, of the frames the engine draws and of
the join at the end; neither requests, landing nor leaving the game are fair.
`Terrain`: weak fairness of the worker's thread and of the main thread's running
of deferred calls; the iterations of a tick run out, because the loop of
`world_gen` decreases its count in each. Moves, departures and the exit are not
fair.
`Connection`: weak fairness of the client's thread while it sends and while it
receives (a `recv` that times out is called again), of the thread of each
connection (`Serve`), of the accepting thread while the server runs (`TakeUp`, with
or without a thread as the outcome), and of the destructor that closes
the listening socket (`Gone`), whose own end `server` checks. Neither calls, nor
losses, nor that the ends are told of one, nor the stopping of the server are
fair. No strong fairness is used.

### Observed

Where the model shows the code to do something other than a comment or a
neighbouring definition says, beyond the finding above. Each can be read off the
actions named; the properties are stated so that they hold around it.

- The sweep of suspicious accounts (`Accounts`: `DeleteCreds`, `DeleteIds`)
  deletes the hash and the listing of a player who has placed 100 blocks, since
  the `return` of Data.hpp:366 leaves one lambda only; the comment at
  Data.hpp:275 only means empty accounts.
- The time of a login attempt by id is never recorded (Data.hpp:301 returns
  before the line under "set last login time"), so the limit of Login.hpp:95
  turns nobody away: `LimitByIdIsIdle` of `RateLimit`, proved.
- Two clients may be limited for each other (`EntryOf`): 10.0.0.11 asks for a LOGIN
  (7) and the next PLACEMENT (17) of 10.0.0.1 is refused, if it comes within its
  limit; the check comes before any filter on types (Server.hpp:231, 327).
- An empty answer for an id that is not in the pool of puzzles is accepted
  (CaptchaPuzzles.hpp:84, IndexPool.hpp:97), and from the second one on each adds a
  puzzle that nothing takes away (but for two each time the count of
  the sentinel, a byte, has wrapped): `surplus`.
- A client on a connection that was lost silently, or that was accepted and got no
  thread, waits for ever (NetworkClient.hpp:288, Server.hpp:192): `Deserted`.
- The destructor of `World` joins a worker that may wait, without looking at
  `running`, for a queue the destroying thread would have to empty (World.hpp:355).
  `ExitCompletes` of `Terrain` excuses this wait, so it says only that nothing else
  keeps the destructor.
- After an erase away from its own index (IndexPool.hpp:116), `random`
  (IndexPool.hpp:69) makes a default item for a key that was erased; this is
  what `home` keeps out of `ConsistentWhileHome`.
- A reconnection keeps the bytes of the last connection (NetworkClient.hpp:38):
  the next call may then be given another call's answer, or one read from the
  middle of a message (`TakeGarbled`); this is what `inStep` keeps out.
- A received bit-packed chunk that is added to or sent on mixes two processes'
  indices, although BlockStorage.hpp:115 calls the wire form self-contained;
  this is what `mixed` keeps out.
- A message counts the materials of a chunk in 8 bits (BlockStorage.hpp:301), an
  index of a material has 13 (BlockStorage.hpp:63): a chunk of 256 materials is
  sent as one of none, and what follows is misread. `mixed` keeps this out, too:
  the proof needs it, and the small instances of TLC never come near it.
- Passwords have their length in 5 bits (Interface.hpp:374), while
  Settings.hpp:18 allows 64 characters.
- `Ping` has a status of one bit, so the `status == 3` that `stop` and
  `change_password` wait for (NetworkClient.hpp:199, 225) never comes.
- `NEW_ENTITY` is a `RequestType` with neither `pack` nor a length: to
  `message_length` it is malformed.

## 4. Proofs

All proofs hold for every value of the constants that satisfies the assumptions
named in the modules (`...Assumption`), which only say that limits are natural
numbers and sets are finite where the code counts them.

- **Accounts**: `SessionInv` makes `SessionsOfAccounts` inductive: sessions and
  hashes are only found for ids that were issued, and no two handlers that add
  or bind an account hold the same id; credentials are written last. `CapInv`
  counts the players together with the handlers that have passed the limit but
  not added theirs.
- **RateLimit**: `LagInv` relates each map entry to the last accepted request of
  it and to the readings still under way; spacing up to the lag follows. For
  `RefusedOnlyWhenRecent` each entry has a request that was asked when it says and
  that is spelled like it (`EntriesAsked`). Of two requests that are spelled alike and whose types'
  numbers have one length, the numbers and the addresses are equal (`SameSpelling`), so they are one request.
- **Server**: `SafeInv` adds to `ActiveCounts` (the counter equals the number of
  threads that run, plus the one being spawned, plus the failed ones) what the
  destructor's position tells of the accepting thread and the workers
  (`Ordered`); together they give that nothing runs when the data is freed. The
  same invariant gives the refinement of `Lifetime`, step by step.
- **IndexPool**: list and positions are inverse of each other while `home`
  holds; the search for the next key ends because the distances to free keys
  have a least element.
- **SpaceSwap**: `i` steps into a swap, the groups before `i` show the new
  result and the old ones that are left have a rank of at least `i`
  (`Progress`). A group's rank in the compacted list never exceeds its own
  number, so nothing is freed after it was spawned and nothing is left over.
- **Terrain**: `ShownAfter` says what a group shows once a queue of calls is run;
  the lemmas on it (`AfterAppend`, `AfterDespawns`, `AfterTail`) are about any
  queue. None of the three invariants is inductive alone: `IInv` adds that the
  worker only generates and spawns what is wanted and that the chunk it spawns
  shows nothing since it was cleared (`Work`), and that each spawn in the queue
  will find its group empty when it is run (`Alternates`). The last is what
  makes a delay of the main thread harmless.
- **IndexPool**, again: `EnoughItems` is inductive by itself with `TypeOK`: each
  operation changes the number of items at least as much as the length of the
  list.
- **CaptchaPuzzles**: `CaptchaInv` joins its three properties with `Whole`: until
  something breaks, no listed puzzle is a default one. `PoolKeepsCount` counts a
  set of threads, so it needs `Thread` to be finite; that every other thread is
  idle when a puzzle is drawn makes the list long enough. A deletion takes a key off
  the list or adds to `surplus`, and either puts one thread among those that make. What the pool's operators do
  to its types are the lemmas that **IndexPool** uses, which are about any items.
- **Connection**, in three layers. `Framed` says of a stream, by places, that each
  message stands in it once, in one run from its first piece on; prefixes of a
  framed stream are framed, and so are what is left after its first message and
  what a new message adds to whole ones. `StreamInv` says that what a thread has
  buffered and what is under way to it, taken together (`Pending`), is framed, and
  complete while the link is open: without the second part `Send` would put a
  request behind half of another. That gives the types, for every length the code
  uses is then read at a message's first piece. `OnceInv` adds that a request is
  on one connection only and gone once acted on, except in the hands of the
  thread that answers it, so the server acts at most once; a silent loss cuts what is under way as a told one
  does. `PlaceInv` says what a
  client in step finds: nothing between two calls, and during a call either its
  request is still going or what has been read and what is under way make up the
  beginning of the answer to it. From these each step maps to a step of `Exchange`
  or to none.
- **Storage**, from the bits up. (1) A number written in enough bits is read again
  (`ValueOfBits`), and strings laid one after another each stand in their place
  (`ChainStands`, `RecordLaid`), so that a field of a record is what was written
  (`LaidRead`). (2) A registry only grows at its end and has no name twice
  (`KnownAll`), so an index keeps its meaning. (3) `Holds(c, bs, r)`: the records of
  the chunk `c` are those of the blocks `bs`, and the registry `r` gives each index
  its material. `Packs` and `Adds` establish it for one container and for the
  other, inside the bounds and outside; `Kept` reads the blocks back; `Arrives`
  carries it through `serialize` and `deserialize` to a process with any registry,
  from any place in a longer message. (4) `StorageInv`: until `mixed`, the owner's
  registry and the chunk hold the history `contents`. It cannot be stated about
  `Unpack` alone: `add` appends to the records, and only their layout says
  that the old ones are left as they were. Assumptions: a place is narrower than
  a bound of the wire (12 of 16 bits) and an index wide enough for the materials
  there are (`StorageAssumption`; "max 8192 materials", BlockStorage.hpp:63);
  names are whole bytes, fewer than their 8-bit length can tell, and different for
  different materials (`SpellingAssumption`); blocks lie in the chunk and have one
  of three sizes (`BlockAssumption`). That registries never hold more materials
  than exist, so that the index of a material fits, is part of the proof.
- **Wire**, on top of the same lemmas. (1) `LengthStable`, about any bits and no
  message in particular: each of the readers that make up `message_length` either
  is `Short` or goes to the same place whatever follows the bits it has seen
  (`Same`; `Steady` lifts it through `Repeat`, so through lists of lists). (2) A layout is a
  sequence of fields, each its bits and what they say. `Lies(b, p, F)`: the fields
  `F` stand in the bits `b` from `p` on; `ReadsTo(r, F, q)`: the reader
  `q` is `r` behind them, and has got what they say. Both add up, so a list is read
  if each of its entries is. (3) `Carried(type, F)`: `SkipBody` and `GetBody`
  of a type both go from one end of `F` to the other. It is shown for each of
  the nineteen kinds, against its three layouts, and with the header gives
  `LengthFound` and `SaidUnpacked` for whole messages. The blocks of a message are
  one field: `Arrives` reads it, `Kept` gives the blocks, and that
  `skip_block_payload` finds its end follows from the widths in its own header.
  (4) `WireInv`: there is a sequence `W` of messages, each the bits of what was
  sent, so that the bits that have arrived and those under way together are `W`,
  one after another, and only messages of `W` have not been taken. `ReadAsSent` is not inductive:
  it says nothing of the bits under way, and a message that is taken early would
  leave its rest to the next. Assumption: messages are of those that `Wire`
  describes (`WireAssumption`).
- **RateLimit**, again: `NoLimitById`: the map of attempts by id stays empty.

The layouts are recursive functions and folds. The provers cannot use the induction
rules of the library, which take a predicate as a parameter. `Storage_proofs` has
its own, about a set of numbers (`Induction`), and shows from it that a function
that follows the equation of a recursion or a fold exists (`Recursion`,
`Folding`), so that the one its definition picks follows it, too.

Only model-checked: everything temporal but safety (TLAPS has no backend for
liveness under fairness here), so `ShutdownCompletes`, `StopIsAnswered`,
`BacklogDrains`, `RequestsAreAnswered`, `ExitCompletes`, `TerrainArrives`,
`FarIsDropped` and `CallsEnd`; and the violation. Every other property of a passing
run is a theorem.

## 5. Not modelled, and why

- Generation of terrain, space, buildings, plants and creatures is sequential
  floating-point code from random numbers: its properties are shapes. Rendering,
  sound and debugging only produce output. These are most of the repository's
  lines, with the vendored bindings (`godot-cpp`, `stb_image.h`), and why the
  mapped share of all lines stays small.
- `FluidSimulation` and `RiverGen`: nothing in the game starts a simulation; their
  heights are floating-point.
- `LocationBank` is used nowhere; `Pool`, `Grid` and the `thread_` containers wrap
  a standard container.
- `get_in_space` and `get_on_planet` of `BlockStorage` are stubs, `PlaceBlock` an
  empty handler nobody registers, `EntityManager` unused.
- `rangeCompressedIsLikelyBetter` is not called.
- LOGOUT, STOP and PASSWORD_CHANGE on the client's side: single datagrams;
  `recieve_udp` waits for one of the right type and may wait for ever.
  CHANGE_PASSWORD on the server's side has a handler that is not registered.
- Signals: a `send` on a connection that was reset may raise SIGPIPE, which the
  code neither blocks nor handles; the models have the exception it means to
  throw.
- Hashing and random numbers have no state a model checker could explore.

## 6. What is left

1. The player's digging through `WorldBlockPool` (the loops at
   WorldBlockPool.hpp:456) with wrapped coordinates, and `PositionMap`.
2. `Terrain`, continued: plants, which are spawned and despawned beside their
   chunk; what a departure leaves on display and what a return does not bring
   back (`lost` holds it now). An abstract specification: a map from groups to
   what they show that one queue changes in order.
3. Composition of `RateLimit` and `Accounts` at a login, and of `Connection` with
   the handlers.
4. `SpaceSwap`: the offset a result was made for.
