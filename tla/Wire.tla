-------------------------------- MODULE Wire --------------------------------
(***************************************************************************)
(* The messages of client and server bit by bit (server/Interface.hpp):    *)
(* how each is packed, how a reader that has only part of a stream finds   *)
(* the length of the first message in it (message_length), and how it is   *)
(* unpacked. The three are written out separately in the code, and here.   *)
(*                                                                         *)
(* A message is a record; its numbers are strings of bits, lowest first,   *)
(* so that any width can be had, but for counts and for the places of      *)
(* chunks and blocks, which the code computes with.                        *)
(***************************************************************************)
EXTENDS StorageChunk

CONSTANTS
  Message,     \* the messages that are sent
  Following,   \* those of them that are sent after another: a bound
  MaxMessages, \* bound on how many
  ChunkBits,   \* PNEG_CHUNK_1024_OFFSET_BITS: 54
  PackedMost   \* blocks beyond which a payload is range compressed: 20

TypeBits == 8
ShortBits == 2
LocalBits == 12     \* LOCAL_POSITION_BITS
RotationBits == 4
VelocityBits == 13
KmBits == 44
SchemataBits == 22

(* RequestType, in its order.                                               *)
Types == <<"CLIENT_LOCAL_POSITION_UPDATE", "BATCH_POSITION_UPDATE", "HIT", "ATTACK",
           "POSITION_UPDATE", "PING", "REGISTER", "LOGIN", "PUZZLE", "LOGOUT", "AUTH",
           "STOP", "PASSWORD_CHANGE", "BLOCKS", "SCHEMATA", "DEAD", "RESYNC", "PLACEMENT",
           "VEHICLE", "NEW_ENTITY">>
TypeNumber(type) == (CHOOSE i \in DOMAIN Types : Types[i] = type) - 1
IsShort(type) == TypeNumber(type) < 4

-----------------------------------------------------------------------------
(* What a message says: numbers, given as bits, and lists of so many or of  *)
(* fewer than a count of w bits can tell. The code packs longer ones too,   *)
(* cut to the width of their field; they are not sent here.                 *)
Number(w) == {v \in Seq({0, 1}) : Len(Significant(v)) <= w}
Just(n, S) == {s \in Seq(S) : Len(s) = n}
Few(w, S) == {s \in Seq(S) : Len(s) < 2^w}

Ids == Number(64)
Text(w) == Few(w, Number(8))
CaptchaSet == Few(4, [puzzle : Number(64), answers : Few(4, Number(4))])
Vector(w) == Just(3, Number(w))
Angle == Vector(RotationBits)
PlacementSet == Few(11, [id : Ids, at : Vector(LocalBits), rotation : 0..3])

(* Where a chunk begins, or a block is placed: whole blocks, PNEG_BIAS of   *)
(* them each way.                                                           *)
Bias == 2^(ChunkBits - 1)
WholePlace == Just(3, (-Bias)..(Bias - 1))

(* A block anywhere, in quarters; the doubles that hold such places hold    *)
(* their differences too. pack subtracts an origin and unpack adds one.     *)
AnyBlock == [x : Int, y : Int, z : Int, size : 0..2, material : Material]
Relative(blocks, origin) ==
  [i \in DOMAIN blocks |-> [blocks[i] EXCEPT !.x = @ - 4 * origin[1], !.y = @ - 4 * origin[2],
                                             !.z = @ - 4 * origin[3]]]

(* Mutant of Absolute: blocks stay where they were in their chunk.          *)
Unmoved(blocks, origin) == blocks

Absolute(blocks, origin) ==
  [i \in DOMAIN blocks |-> [blocks[i] EXCEPT !.x = @ + 4 * origin[1], !.y = @ + 4 * origin[2],
                                             !.z = @ + 4 * origin[3]]]

(* Schemata::pack: the least corner of its own blocks, in whole blocks.     *)
Corner(blocks) == [i \in 1..3 |-> Least([k \in DOMAIN blocks |-> At(blocks[k])[i] \div 4])]
Anchored(blocks) == Relative(blocks, Corner(blocks))

AccountMessages ==
  [type : {"PING"}, status : 0..1]
  \cup [type : {"REGISTER"}, password : Text(5), captchas : CaptchaSet]
  \cup [type : {"LOGIN"}, player : Text(6), password : Text(5), captchas : CaptchaSet]
  \cup [type : {"PUZZLE"}, puzzle : Number(64), image : Text(18)]
  \cup [type : {"LOGOUT", "AUTH", "STOP"}, uuid : Just(16, Number(8))]
  \cup [type : {"PASSWORD_CHANGE"}, uuid : Just(16, Number(8)), old : Text(5), new : Text(5)]

MotionMessages ==
  [type : {"CLIENT_LOCAL_POSITION_UPDATE"}, at : Vector(LocalBits), turn : Angle]
  \cup [type : {"BATCH_POSITION_UPDATE"},
        entries : Few(11, [id : Ids, at : Vector(LocalBits), turn : Angle])]
  \cup [type : {"POSITION_UPDATE"}, change : {"terrain"}, at : Vector(63)]
  \cup [type : {"POSITION_UPDATE"}, change : {"quadrant"}, quadrant : Vector(64),
        lightyear : Vector(14), km : Vector(KmBits)]
  \cup [type : {"POSITION_UPDATE"}, change : {"lightyear"}, quadrant : {<<>>},
        lightyear : Vector(14), km : Vector(KmBits)]
  \cup [type : {"POSITION_UPDATE"}, change : {"km"}, quadrant : {<<>>}, lightyear : {<<>>},
        km : Vector(KmBits)]
  \cup [type : {"HIT"}, velocity : Number(VelocityBits), id : Ids]
  \cup [type : {"ATTACK"}, id : Ids, turn : {<<>>} \cup Angle]
  \cup [type : {"DEAD"}, id : Ids]
  \cup [type : {"RESYNC"}, entries : Few(11, [id : Ids, alive : 0..1])]

(* Blocks in one chunk, of fewer materials than the count of their names    *)
(* can tell.                                                                *)
BlockList(w) ==
  {l \in Few(w, Blocks) : Cardinality({l[i].material : i \in DOMAIN l}) < 2^LengthBits}

BlockMessages ==
  {m \in [type : {"SCHEMATA"}, id : Ids, blocks : Seq(AnyBlock)] :
     Anchored(m.blocks) \in BlockList(SchemataBits)}
  \cup {m \in [type : {"BLOCKS"}, chunk : WholePlace, blocks : Seq(AnyBlock),
               placements : PlacementSet] : Relative(m.blocks, m.chunk) \in BlockList(30)}
  \cup {m \in [type : {"VEHICLE"}, chunk : WholePlace, blocks : Seq(AnyBlock),
               placements : PlacementSet, meta : Text(8)] :
          Relative(m.blocks, m.chunk) \in BlockList(30)}
  \cup [type : {"PLACEMENT"}, of : {"schemata"}, vehicle : 0..1, id : Ids, rotation : 0..3]
  \cup [type : {"PLACEMENT"}, of : {"vehicle"}, id : Ids, chunk : WholePlace,
        at : Vector(LocalBits)]
  \cup [type : {"PLACEMENT"}, of : {"block"}, at : WholePlace, material : Number(MatBits)]

ASSUME WireAssumption ==
  /\ Message \subseteq AccountMessages \cup MotionMessages \cup BlockMessages
  /\ Following \subseteq Message
  /\ MaxMessages \in Nat /\ PackedMost \in Nat /\ ChunkBits \in Nat \ {0}
-----------------------------------------------------------------------------
(* The tiers of an id: 8, 13, 16 or 64 bits, the smallest that fits.        *)
TierBits(tier) == CASE tier = 0 -> 8 [] tier = 1 -> 13 [] tier = 2 -> 16 [] OTHER -> 64
TierFor(id) == CHOOSE t \in 0..3 : /\ Len(Significant(id)) <= TierBits(t)
                                   /\ \A u \in 0..(t - 1) : Len(Significant(id)) > TierBits(u)
-----------------------------------------------------------------------------
(* Packing. A field is what is written, cut to its width, and what it is    *)
(* meant to say.                                                            *)
Num(n, w) == <<[bits |-> BitsOf(n, w), says |-> Significant(BitsOf(n, 30))]>>
Wide(v, w) == <<[bits |-> Fit(v, w), says |-> Significant(v)]>>
(* pack_pneg.                                                               *)
Pneg(v) == <<[bits |-> BitsOf(v + Bias, ChunkBits), says |-> <<v>>]>>
Each(items, Op(_)) == FlattenSeq([i \in DOMAIN items |-> Op(items[i])])
All(values, w) == Each(values, LAMBDA v : Wide(v, w))
Id(id) == Num(TierFor(id), 2) \o Wide(id, TierBits(TierFor(id)))
String(s, w) == Num(Len(s), w) \o All(s, 8)
Pnegs(origin) == Each(origin, LAMBDA v : Pneg(v))

Captchas(captchas) ==
  Num(Len(captchas), 4)
    \o Each(captchas, LAMBDA c : Wide(c.puzzle, 64) \o Num(Len(c.answers), 4) \o All(c.answers, 4))

(* pack_block_payload: nothing at all when there are no blocks, which are   *)
(* given from their origin, and said where the reader is to have them.      *)
Codec(blocks) == IF Len(blocks) > PackedMost THEN "range" ELSE "packed"
Payload(blocks, said, names) ==
  IF blocks = <<>> THEN <<>>
  ELSE Num(IF Codec(blocks) = "range" THEN 1 ELSE 0, 1)
         \o <<[bits |-> Serialize(Pack(Codec(blocks), blocks, names), names),
               says |-> said]>>

Placements(placements) ==
  Num(Len(placements), 11)
    \o Each(placements, LAMBDA p : Id(p.id) \o All(p.at, LocalBits) \o Num(p.rotation, 2))

(* What each kind of message says of accounts and sessions,                 *)
AccountBody(m) ==
  CASE m.type = "PING" -> Num(m.status, 1)
    [] m.type = "REGISTER" -> String(m.password, 5) \o Captchas(m.captchas)
    [] m.type = "LOGIN" -> String(m.player, 6) \o String(m.password, 5) \o Captchas(m.captchas)
    [] m.type = "PUZZLE" -> Wide(m.puzzle, 64) \o String(m.image, 18)
    [] m.type \in {"LOGOUT", "AUTH", "STOP"} -> All(m.uuid, 8)
    [] m.type = "PASSWORD_CHANGE" ->
         All(m.uuid, 8) \o String(m.old, 5) \o String(m.new, 5)

(* of players that move and fight,                                          *)
MotionBody(m) ==
  CASE m.type = "CLIENT_LOCAL_POSITION_UPDATE" -> All(m.at, LocalBits) \o All(m.turn, RotationBits)
    [] m.type = "BATCH_POSITION_UPDATE" ->
         Num(Len(m.entries), 11)
           \o Each(m.entries, LAMBDA e : Id(e.id) \o All(e.at, LocalBits) \o All(e.turn, RotationBits))
    [] m.type = "POSITION_UPDATE" ->
         IF m.change = "terrain" THEN Num(0, 1) \o All(m.at, 63)
         ELSE Num(1, 1)
                \o Num(CASE m.change = "quadrant" -> 0 [] m.change = "lightyear" -> 1
                         [] OTHER -> 2, 2)
                \o All(m.quadrant, 64) \o All(m.lightyear, 14) \o All(m.km, KmBits)
    [] m.type = "HIT" -> Wide(m.velocity, VelocityBits) \o Id(m.id)
    [] m.type = "ATTACK" ->
         Id(m.id) \o Num(Len(m.turn) \div 3, 1) \o All(m.turn, RotationBits)
    [] m.type = "DEAD" -> Id(m.id)
    [] m.type = "RESYNC" ->
         Num(Len(m.entries), 11) \o Each(m.entries, LAMBDA e : Id(e.id) \o Num(e.alive, 1))

(* and of blocks.                                                           *)
BlocksBody(m, names) ==
  CASE m.type = "SCHEMATA" ->
         Id(m.id) \o Num(Len(m.blocks), SchemataBits)
           \o Payload(Anchored(m.blocks), Anchored(m.blocks), names)
    [] m.type \in {"BLOCKS", "VEHICLE"} ->
         Pnegs(m.chunk) \o Num(Len(m.blocks), 30)
           \o Payload(Relative(m.blocks, m.chunk), m.blocks, names)
           \o Placements(m.placements)
           \o (IF m.type = "VEHICLE" THEN String(m.meta, 8) ELSE <<>>)
    [] m.type = "PLACEMENT" ->
         CASE m.of = "schemata" -> Num(m.vehicle, 1) \o Num(1, 1) \o Id(m.id) \o Num(m.rotation, 2)
           [] m.of = "vehicle" -> Num(1, 1) \o Num(0, 1) \o Id(m.id) \o Pnegs(m.chunk)
                                    \o All(m.at, LocalBits)
           [] OTHER -> Num(0, 1) \o Num(0, 1) \o Pnegs(m.at) \o Wide(m.material, MatBits)

OfAccounts == {"PING", "REGISTER", "LOGIN", "PUZZLE", "LOGOUT", "AUTH", "STOP", "PASSWORD_CHANGE"}
OfBlocks == {"SCHEMATA", "BLOCKS", "VEHICLE", "PLACEMENT"}

Body(m, names) ==
  CASE m.type \in OfAccounts -> AccountBody(m)
    [] m.type \in OfBlocks -> BlocksBody(m, names)
    [] OTHER -> MotionBody(m)

Header(type) ==
  IF IsShort(type) THEN Num(0, 1) \o Num(TypeNumber(type), ShortBits)
  ELSE Num(1, 1) \o Num(TypeNumber(type), TypeBits)

Fields(m, names) == Header(m.type) \o Body(m, names)
Said(m, names) == [i \in DOMAIN Fields(m, names) |-> Fields(m, names)[i].says]

Bytes(n) == (n + 7) \div 8

(* What is sent: whole bytes.                                               *)
Packed(m, names) ==
  LET bits == Each(Fields(m, names), LAMBDA f : f.bits)
  IN  Fit(bits, 8 * Bytes(Len(bits)))
-----------------------------------------------------------------------------
(* message_length. A position in the bits b that have arrived, or Short     *)
(* when the message goes on beyond them. Before(p, w) is the number in the  *)
(* w bits that end at p.                                                    *)
Short == -1

(* Mutant of Skip: what has not arrived is skipped all the same.            *)
SkipUnchecked(b, p, w) == IF p = Short THEN Short ELSE p + w

Skip(b, p, w) == IF p = Short \/ p + w > Len(b) THEN Short ELSE p + w
Before(b, p, w) == IF p = Short THEN 0 ELSE ValueOf(Slice(b, p - w, w))
Repeat(n, f, p) == LET at[i \in 0..n] == IF i = 0 THEN p ELSE f[at[i - 1]] IN at[n]

SkipSized(b, p, w, size) == LET q == Skip(b, p, w) IN Skip(b, q, size * Before(b, q, w))
SkipEach(b, p, w, f) == LET q == Skip(b, p, w) IN Repeat(Before(b, q, w), f, q)
SkipId(b, p) == LET q == Skip(b, p, 2) IN Skip(b, q, TierBits(Before(b, q, 2)))
SkipCaptchas(b, p) == SkipEach(b, p, 4, [q \in Int |-> SkipSized(b, Skip(b, q, 64), 4, 4)])
SkipPlacements(b, p) ==
  SkipEach(b, p, 11, [q \in Int |-> Skip(b, SkipId(b, q), 3 * LocalBits + 2)])

(* The bounds of blocks that were packed are in order; bounds that are not  *)
(* would make the code's unsigned difference wrap, and are given 0 bits.    *)
SkipRecords(b, p, count) ==
  LET flag == Skip(b, p, 1)
      range == Before(b, flag, 1) = 1
      bounds == IF range THEN Skip(b, flag, 6 * BoundBits) ELSE flag
      bound(i) == Before(b, flag + i * BoundBits, BoundBits)
      named == SkipEach(b, bounds, LengthBits,
                        [q \in Int |-> SkipSized(b, Skip(b, q, MatBits), LengthBits, 8)])
      record == IF ~range THEN 3 * CoorBits + SizeBits + MatBits
                ELSE SizeBits + bitsNeeded(Before(b, Skip(b, bounds, LengthBits), LengthBits))
                       + bitsNeeded(bound(2) - bound(1)) + bitsNeeded(bound(4) - bound(3))
                       + bitsNeeded(bound(6) - bound(5))
  IN  IF named = Short THEN Short ELSE Skip(b, named, count * record)

(* skip_block_payload: nothing when there are no blocks.                    *)
SkipPayload(b, p, count) ==
  IF p = Short \/ count = 0 THEN p ELSE SkipRecords(b, p, count)

SkipBlocks(b, p, w) == LET q == Skip(b, p, w) IN SkipPayload(b, q, Before(b, q, w))

SkipPosition(b, p) ==
  LET space == Skip(b, p, 1)
      change == Skip(b, space, 2)
  IN  IF Before(b, space, 1) = 0 THEN Skip(b, space, 3 * 63)
      ELSE Skip(b, change, 3 * KmBits + (CASE Before(b, change, 2) = 0 -> 3 * 64 + 3 * 14
                                           [] Before(b, change, 2) = 1 -> 3 * 14
                                           [] OTHER -> 0))

SkipPlacement(b, p) ==
  LET kind == Skip(b, p, 2)
      vehicle == Before(b, Skip(b, p, 1), 1) = 1
      schemata == kind # Short /\ Before(b, kind, 1) = 1
  IN  CASE schemata -> Skip(b, SkipId(b, kind), 2)
        [] ~schemata /\ vehicle -> Skip(b, SkipId(b, kind), 3 * ChunkBits + 3 * LocalBits)
        [] OTHER -> Skip(b, kind, 3 * ChunkBits + MatBits)

(* The position after the message of a type whose body begins at p.         *)
SkipBody(type, b, p) ==
  CASE type = "BATCH_POSITION_UPDATE" ->
         SkipEach(b, p, 11, [q \in Int |->
                           Skip(b, SkipId(b, q), 3 * LocalBits + 3 * RotationBits)])
    [] type = "HIT" -> SkipId(b, Skip(b, p, VelocityBits))
    [] type = "ATTACK" -> SkipSized(b, SkipId(b, p), 1, 3 * RotationBits)
    [] type = "POSITION_UPDATE" -> SkipPosition(b, p)
    [] type = "REGISTER" -> SkipCaptchas(b, SkipSized(b, p, 5, 8))
    [] type = "LOGIN" -> SkipCaptchas(b, SkipSized(b, SkipSized(b, p, 6, 8), 5, 8))
    [] type = "PUZZLE" -> SkipSized(b, Skip(b, p, 64), 18, 8)
    [] type = "PASSWORD_CHANGE" -> SkipSized(b, SkipSized(b, Skip(b, p, 128), 5, 8), 5, 8)
    [] type = "DEAD" -> SkipId(b, p)
    [] type = "RESYNC" -> SkipEach(b, p, 11, [q \in Int |-> Skip(b, SkipId(b, q), 1)])
    [] type = "SCHEMATA" -> SkipBlocks(b, SkipId(b, p), SchemataBits)
    [] type = "BLOCKS" -> SkipPlacements(b, SkipBlocks(b, Skip(b, p, 3 * ChunkBits), 30))
    [] type = "VEHICLE" ->
         SkipSized(b, SkipPlacements(b, SkipBlocks(b, Skip(b, p, 3 * ChunkBits), 30)), 8, 8)
    [] type = "PLACEMENT" -> SkipPlacement(b, p)

(* Ping::BYTES and its like: known as soon as the type is.                  *)
FixedBytes ==
  [PING |-> 2, LOGOUT |-> Bytes(9 + 128), AUTH |-> Bytes(9 + 128), STOP |-> Bytes(9 + 128),
   CLIENT_LOCAL_POSITION_UPDATE |-> Bytes(3 + 3 * LocalBits + 3 * RotationBits)]

Malformed == -1
HeadLength(b) == IF Slice(b, 0, 1) = <<1>> THEN 1 + TypeBits ELSE 1 + ShortBits
HeadType(b) ==
  LET number == ValueOf(Slice(b, 1, HeadLength(b) - 1))
  IN  IF number < Len(Types) THEN Types[number + 1] ELSE "none"

(* Bytes of the first message, 0 when they cannot be told yet.              *)
MessageLength(b) ==
  LET type == HeadType(b)
      long == Slice(b, 0, 1) = <<1>>
      end == SkipBody(type, b, HeadLength(b))
  IN  CASE b = <<>> \/ Len(b) < HeadLength(b) -> 0
        [] OTHER ->
             IF type \in {"none", "NEW_ENTITY"} \/ long = IsShort(type) THEN Malformed
             ELSE IF type \in DOMAIN FixedBytes THEN FixedBytes[type]
             ELSE IF end = Short THEN 0 ELSE Bytes(end)
-----------------------------------------------------------------------------
(* unpack. A reader of the message b: where it is, what it has read, and    *)
(* the registry of materials. Things of one kind are read one after the     *)
(* other: f[p] is what one that begins at p is, and where the next begins.  *)
Get(b, r, w) ==
  [r EXCEPT !.at = @ + w, !.got = Append(@, Significant(Slice(b, r.at, w)))]
Got(r) == ValueOf(Last(r.got))

GetPneg(b, r) ==
  [r EXCEPT !.at = @ + ChunkBits,
            !.got = Append(@, <<ValueOf(Slice(b, r.at, ChunkBits)) - Bias>>)]

One(p) == [at |-> p, got |-> <<>>]
Several(n, f, r) ==
  LET after[i \in 0..n] ==
        IF i = 0 THEN r
        ELSE LET q == after[i - 1]
                 next == f[q.at]
             IN  [q EXCEPT !.at = next.at, !.got = @ \o next.got]
  IN  after[n]

GetMany(b, r, w, n) == Several(n, [p \in Nat |-> Get(b, One(p), w)], r)
GetEach(b, r, w, f) == LET q == Get(b, r, w) IN Several(Got(q), f, q)
GetId(b, r) == LET q == Get(b, r, 2) IN Get(b, q, TierBits(Got(q)))
GetString(b, r, w) == GetEach(b, r, w, [p \in Nat |-> Get(b, One(p), 8)])
GetPnegs(b, r) == Several(3, [p \in Nat |-> GetPneg(b, One(p))], r)
GetAnswers(b, r) == GetEach(b, r, 4, [p \in Nat |-> Get(b, One(p), 4)])
GetCaptchas(b, r) == GetEach(b, r, 4, [p \in Nat |-> GetAnswers(b, Get(b, One(p), 64))])
GetPlacements(b, r) ==
  GetEach(b, r, 11, [p \in Nat |-> Get(b, GetMany(b, GetId(b, One(p)), LocalBits, 3), 2)])

(* unpack_block_payload, after the count of the blocks was read.            *)
GetBlocks(b, r, w, origin) ==
  LET counted == Get(b, r, w)
      flag == Get(b, counted, 1)
      chunk == Deserialize(IF Got(flag) = 1 THEN "range" ELSE "packed", b, flag.at,
                           Got(counted), r.names)
  IN  IF Got(counted) = 0 THEN counted
      ELSE [at |-> chunk.at, names |-> chunk.names,
            got |-> Append(flag.got, Absolute(Unpack(chunk.chunk, chunk.names), origin))]

GetPosition(b, r) ==
  LET space == Get(b, r, 1)
      change == Get(b, space, 2)
      wide == IF Got(change) = 0 THEN GetMany(b, change, 64, 3) ELSE change
      year == IF Got(change) <= 1 THEN GetMany(b, wide, 14, 3) ELSE wide
  IN  IF Got(space) = 0 THEN GetMany(b, space, 63, 3) ELSE GetMany(b, year, KmBits, 3)

GetPlacement(b, r) ==
  LET vehicle == Get(b, r, 1)
      schemata == Get(b, vehicle, 1)
  IN  CASE Got(schemata) = 1 -> Get(b, GetId(b, schemata), 2)
        [] Got(schemata) = 0 /\ Got(vehicle) = 1 ->
             GetMany(b, GetPnegs(b, GetId(b, schemata)), LocalBits, 3)
        [] OTHER -> Get(b, GetPnegs(b, schemata), MatBits)

GetAccountBody(type, b, r) ==
  CASE type = "PING" -> Get(b, r, 1)
    [] type = "REGISTER" -> GetCaptchas(b, GetString(b, r, 5))
    [] type = "LOGIN" -> GetCaptchas(b, GetString(b, GetString(b, r, 6), 5))
    [] type = "PUZZLE" -> GetString(b, Get(b, r, 64), 18)
    [] type \in {"LOGOUT", "AUTH", "STOP"} -> GetMany(b, r, 8, 16)
    [] type = "PASSWORD_CHANGE" -> GetString(b, GetString(b, GetMany(b, r, 8, 16), 5), 5)

GetMotionBody(type, b, r) ==
  CASE type = "CLIENT_LOCAL_POSITION_UPDATE" ->
         GetMany(b, GetMany(b, r, LocalBits, 3), RotationBits, 3)
    [] type = "BATCH_POSITION_UPDATE" ->
         GetEach(b, r, 11, [p \in Nat |->
                              GetMany(b, GetMany(b, GetId(b, One(p)), LocalBits, 3), RotationBits, 3)])
    [] type = "POSITION_UPDATE" -> GetPosition(b, r)
    [] type = "HIT" -> GetId(b, Get(b, r, VelocityBits))
    [] type = "ATTACK" ->
         LET angle == Get(b, GetId(b, r), 1) IN GetMany(b, angle, RotationBits, 3 * Got(angle))
    [] type = "DEAD" -> GetId(b, r)
    [] type = "RESYNC" -> GetEach(b, r, 11, [p \in Nat |-> Get(b, GetId(b, One(p)), 1)])

(* The origin of blocks is the one that was read before them.               *)
GetInChunk(b, r) ==
  LET place == GetPnegs(b, r)
      origin == [i \in 1..3 |-> place.got[Len(place.got) - 3 + i][1]]
  IN  GetBlocks(b, place, 30, origin)

GetBlocksBody(type, b, r) ==
  CASE type = "SCHEMATA" -> GetBlocks(b, GetId(b, r), SchemataBits, <<0, 0, 0>>)
    [] type = "BLOCKS" -> GetPlacements(b, GetInChunk(b, r))
    [] type = "VEHICLE" -> GetString(b, GetPlacements(b, GetInChunk(b, r)), 8)
    [] type = "PLACEMENT" -> GetPlacement(b, r)

GetBody(type, b, r) ==
  CASE type \in OfAccounts -> GetAccountBody(type, b, r)
    [] type \in OfBlocks -> GetBlocksBody(type, b, r)
    [] OTHER -> GetMotionBody(type, b, r)

Unpacked(b, names) ==
  LET flag == Get(b, [at |-> 0, got |-> <<>>, names |-> names], 1)
      head == Get(b, flag, HeadLength(b) - 1)
  IN  GetBody(HeadType(b), b, head)
-----------------------------------------------------------------------------
VARIABLES
  sent,    \* what was sent, in order
  line,    \* the bits under way
  buffer,  \* those that have arrived and were not taken yet
  got,     \* what was unpacked, in order
  names    \* material_names of the sender and of the receiver

vars == <<sent, line, buffer, got, names>>

(* The receiver has met one material before, whichever.                     *)
Init ==
  /\ sent = <<>> /\ line = <<>> /\ buffer = <<>> /\ got = <<>>
  /\ \E m \in Material : names = [sender |-> <<>>, receiver |-> <<m>>]

BlocksOf(m) == IF "blocks" \in DOMAIN m THEN m.blocks ELSE <<>>

Send ==
  /\ Len(sent) < MaxMessages /\ line = <<>>
  /\ \E m \in IF sent = <<>> THEN Message ELSE Following :
       LET known == AllKnown(names.sender, BlocksOf(m))
       IN  /\ line' = Packed(m, known)
           /\ sent' = Append(sent, Said(m, known))
           /\ names' = [names EXCEPT !.sender = known]
  /\ UNCHANGED <<buffer, got>>

(* A read returns any number of bytes: here one after another.              *)
Arrive ==
  /\ line # <<>>
  /\ buffer' = buffer \o SubSeq(line, 1, 8)
  /\ line' = SubSeq(line, 9, Len(line))
  /\ UNCHANGED <<sent, got, names>>

(* The first message of the buffer is unpacked once it is whole.            *)
Take ==
  LET size == 8 * MessageLength(buffer)
      read == Unpacked(SubSeq(buffer, 1, size), names.receiver)
  IN  /\ size > 0 /\ Len(buffer) >= size
      /\ got' = Append(got, read.got)
      /\ names' = [names EXCEPT !.receiver = read.names]
      /\ buffer' = SubSeq(buffer, size + 1, Len(buffer))
      /\ UNCHANGED <<sent, line>>

Next == Send \/ Arrive \/ Take

Spec == Init /\ [][Next]_vars
-----------------------------------------------------------------------------
(* When all that was sent has arrived, the reader finds one whole message   *)
(* after the other and nothing is left over: none is taken for longer or    *)
(* shorter than it is, and none for malformed.                              *)
FramedExactly ==
  line = <<>> =>
    IF Len(got) = Len(sent) THEN buffer = <<>>
    ELSE MessageLength(buffer) > 0 /\ 8 * MessageLength(buffer) <= Len(buffer)

(* What is unpacked is what was sent, every value of it, however the bytes  *)
(* of the messages were split or run together by the reads, and all of it   *)
(* once it has arrived: blocks at the places they had, but those of a       *)
(* SCHEMATA from its own corner; the material of a PLACEMENT is a number,   *)
(* and is not translated from one registry to the other.                    *)
ReadAsSent == IsPrefix(got, sent) /\ FramedExactly

(* What is known of the length of the first message is not changed by what  *)
(* arrives after it.                                                        *)
LengthIsStable ==
  [][MessageLength(buffer) # 0 /\ IsPrefix(buffer, buffer')
       => MessageLength(buffer') = MessageLength(buffer)]_vars
=============================================================================
