---------------------------- MODULE StorageChunk ----------------------------
(***************************************************************************)
(* The two containers for the blocks of a chunk (server/data/              *)
(* BlockStorage.hpp) as values: packing blocks, adding one, unpacking, and *)
(* the form in which they travel. A block's material is named; within a    *)
(* process it is an index into material_names, and each side has its own.  *)
(*                                                                         *)
(* A block is a record of its place in quarter blocks from the origin of   *)
(* the chunk, its size (0: a quarter, 1: one, 2: four) and its material.   *)
(***************************************************************************)
EXTENDS Bits, FiniteSets, SequencesExt

CONSTANTS
  Material,   \* names of materials
  Spelling,   \* the letters of a name, as bits
  CoorBits,   \* COOR_BITS
  MatBits     \* MAT_BITS

SizeBits == 2
LengthBits == 8   \* of a name, and of the count of materials
BoundBits == 16

(* A place in a chunk is narrower than a bound (12 and 16 bits), an index of *)
(* a material wide enough for all ("max 8192 materials").                   *)
ASSUME StorageAssumption ==
  /\ CoorBits \in 0..(BoundBits - 1)
  /\ MatBits \in 0..BoundBits
  /\ IsFiniteSet(Material) /\ Cardinality(Material) <= 2^MatBits

(* A name is a string of whole bytes, fewer than its length can tell.       *)
ASSUME SpellingAssumption ==
  /\ \A m \in Material : /\ Spelling[m] \in Seq({0, 1})
                         /\ \E letters \in 0..(2^LengthBits - 1) : Len(Spelling[m]) = 8 * letters
  /\ \A m, n \in Material : m # n => Spelling[m] # Spelling[n]

(* A coordinate of a block in its chunk, in quarters, and such blocks.      *)
Place == 0..(2^CoorBits - 1)
Blocks == [x : Place, y : Place, z : Place, size : 0..2, material : Material]

(* getOrCreateMaterial: the index of a name, which is appended when new.    *)
Known(names, m) == IF m \in ToSet(names) THEN names ELSE Append(names, m)
IndexIn(names, m) == (CHOOSE i \in DOMAIN names : names[i] = m) - 1
AllKnown(names, blocks) ==
  FoldLeft(Known, names, [i \in DOMAIN blocks |-> blocks[i].material])
-----------------------------------------------------------------------------
(* One record after another, each of the widths given.                      *)
Record(values, widths) ==
  FlattenSeq([i \in DOMAIN values |-> BitsOf(values[i], widths[i])])

RecordBits(widths) == FoldLeft(+, 0, widths)

Field(data, record, f, widths) ==
  LET start == record * RecordBits(widths) + FoldLeft(+, 0, SubSeq(widths, 1, f - 1))
  IN  ValueOf(Slice(data, start, widths[f]))

(* BitPackedStorageChunk: records of fixed width, materials by index.       *)
PackedWidths == <<CoorBits, CoorBits, CoorBits, SizeBits, MatBits>>

PackedRecord(b, names) ==
  Record(<<b.x, b.y, b.z, b.size, IndexIn(names, b.material)>>, PackedWidths)

(* A chunk that is packed is a new object: pack() leaves the translations   *)
(* an object learnt from the wire, but none that did is packed again.       *)
PackPacked(blocks, names) ==
  [codec |-> "packed", count |-> Len(blocks),
   data |-> FlattenSeq([i \in DOMAIN blocks |-> PackedRecord(blocks[i], names)]),
   remap |-> <<>>]

(* An index that came over the wire is translated; one without a            *)
(* translation stands for itself.                                           *)
Local(chunk, index) == IF index \in DOMAIN chunk.remap THEN chunk.remap[index] ELSE index

UnpackPacked(chunk, names) ==
  [i \in 1..chunk.count |->
     LET f(k) == Field(chunk.data, i - 1, k, PackedWidths)
     IN  [x |-> f(1), y |-> f(2), z |-> f(3), size |-> f(4),
          material |-> names[Local(chunk, f(5)) + 1]]]

AddPacked(chunk, b, names) ==
  [chunk EXCEPT !.count = @ + 1,
                !.data = SubSeq(@, 1, chunk.count * RecordBits(PackedWidths))
                           \o PackedRecord(b, names)]
-----------------------------------------------------------------------------
(* RangeCompressedStorageChunk: places from the least corner, in as many    *)
(* bits as the range needs, and materials by index into a palette.          *)
bitsNeeded(range) == CHOOSE bits \in 0..(BoundBits + 1) :
  2^bits >= range /\ (bits > 0 => 2^(bits - 1) < range)

RangeWidths(chunk) ==
  [i \in 1..3 |-> bitsNeeded(chunk.max[i] - chunk.min[i])]
    \o <<SizeBits, bitsNeeded(Len(chunk.palette))>>

At(b) == <<b.x, b.y, b.z>>
Least(s) == CHOOSE n \in ToSet(s) : \A m \in ToSet(s) : n <= m
Most(s) == CHOOSE n \in ToSet(s) : \A m \in ToSet(s) : n >= m

RangeRecord(chunk, b, names) ==
  Record([i \in 1..3 |-> At(b)[i] - chunk.min[i]]
           \o <<b.size, IndexIn(chunk.palette, IndexIn(names, b.material))>>,
         RangeWidths(chunk))

(* The materials used, in the order in which they first appear.             *)
Palette(blocks, names) ==
  FoldLeft(Known, <<>>, [i \in DOMAIN blocks |-> IndexIn(names, blocks[i].material)])

(* Mutant of Corners: the upper bound is the last place, not the next.      *)
InclusiveCorners(blocks) ==
  [min |-> [i \in 1..3 |-> Least([k \in DOMAIN blocks |-> At(blocks[k])[i]])],
   max |-> [i \in 1..3 |-> Most([k \in DOMAIN blocks |-> At(blocks[k])[i]])]]

Corners(blocks) ==
  [min |-> [i \in 1..3 |-> Least([k \in DOMAIN blocks |-> At(blocks[k])[i]])],
   max |-> [i \in 1..3 |-> Most([k \in DOMAIN blocks |-> At(blocks[k])[i]]) + 1]]

PackRange(blocks, names) ==
  LET empty == [codec |-> "range", count |-> Len(blocks), data |-> <<>>,
                min |-> Corners(blocks).min, max |-> Corners(blocks).max,
                palette |-> Palette(blocks, names)]
  IN  [empty EXCEPT !.data =
         FlattenSeq([i \in DOMAIN blocks |-> RangeRecord(empty, blocks[i], names)])]

UnpackRange(chunk, names) ==
  [i \in 1..chunk.count |->
     LET f(k) == Field(chunk.data, i - 1, k, RangeWidths(chunk))
     IN  [x |-> chunk.min[1] + f(1), y |-> chunk.min[2] + f(2), z |-> chunk.min[3] + f(3),
          size |-> f(4), material |-> names[chunk.palette[f(5) + 1] + 1]]]

Inside(chunk, b) == \A i \in 1..3 : At(b)[i] >= chunk.min[i] /\ At(b)[i] < chunk.max[i]

(* A block within the bounds, of a material of the palette, is appended in  *)
(* the widths of the chunk; for another the chunk is packed anew.           *)
AddRange(chunk, b, names) ==
  IF Inside(chunk, b) /\ IndexIn(names, b.material) \in ToSet(chunk.palette)
  THEN [chunk EXCEPT !.count = @ + 1,
                     !.data = SubSeq(@, 1, chunk.count * RecordBits(RangeWidths(chunk)))
                                \o RangeRecord(chunk, b, names)]
  ELSE PackRange(Append(UnpackRange(chunk, names), b), names)
-----------------------------------------------------------------------------
(* pack, unpack and add. `names' already holds the materials of the blocks. *)
Pack(codec, blocks, names) ==
  IF codec = "packed" THEN PackPacked(blocks, names) ELSE PackRange(blocks, names)

Unpack(chunk, names) ==
  IF chunk.count = 0 THEN <<>>
  ELSE IF chunk.codec = "packed" THEN UnpackPacked(chunk, names)
  ELSE UnpackRange(chunk, names)

Add(chunk, b, names) ==
  IF chunk.codec = "packed" THEN AddPacked(chunk, b, names) ELSE AddRange(chunk, b, names)
-----------------------------------------------------------------------------
(* The wire form: the names of the materials, then the records as they are. *)
NameEntry(index, names) ==
  LET letters == Spelling[names[index + 1]]
  IN  BitsOf(index, MatBits) \o BitsOf(Len(letters) \div 8, LengthBits) \o letters

Ascending(S) ==
  [i \in 1..Cardinality(S) |-> CHOOSE n \in S : Cardinality({m \in S : m < n}) = i - 1]

Materials(chunk) ==
  IF chunk.codec = "packed"
  THEN Ascending({Field(chunk.data, i - 1, 5, PackedWidths) : i \in 1..chunk.count})
  ELSE chunk.palette

Widths(chunk) == IF chunk.codec = "packed" THEN PackedWidths ELSE RangeWidths(chunk)

Serialize(chunk, names) ==
  LET used == Materials(chunk)
      bounds == IF chunk.codec = "packed" THEN <<>>
                ELSE FlattenSeq([i \in 1..3 |-> BitsOf(chunk.min[i], BoundBits)
                                                  \o BitsOf(chunk.max[i], BoundBits)])
  IN  bounds \o BitsOf(Len(used), LengthBits)
        \o FlattenSeq([i \in DOMAIN used |-> NameEntry(used[i], names)])
        \o SubSeq(chunk.data, 1, chunk.count * RecordBits(Widths(chunk)))

(* The names in a message: for each, the index it had and what it says, and *)
(* where the next begins.                                                   *)
NextName(bits, p) ==
  LET long == 8 * ValueOf(Slice(bits, p.at + MatBits, LengthBits))
      letters == Slice(bits, p.at + MatBits + LengthBits, long)
  IN  [at |-> p.at + MatBits + LengthBits + long,
       index |-> Append(p.index, ValueOf(Slice(bits, p.at, MatBits))),
       name |-> Append(p.name, CHOOSE m \in Material : Spelling[m] = letters)]

NamesAt(bits, at) ==
  LET many == ValueOf(Slice(bits, at, LengthBits))
      next[i \in 0..many] == IF i = 0 THEN [at |-> at + LengthBits, index |-> <<>>, name |-> <<>>]
                             ELSE NextName(bits, next[i - 1])
  IN  next[many]

(* deserialize: the chunk, and the registry with the names that are new.    *)
Deserialize(codec, bits, at, count, names) ==
  LET bound(i) == ValueOf(Slice(bits, at + (i - 1) * BoundBits, BoundBits))
      entries == NamesAt(bits, IF codec = "packed" THEN at ELSE at + 6 * BoundBits)
      known == FoldLeft(Known, names, entries.name)
      indices == [i \in DOMAIN entries.name |-> IndexIn(known, entries.name[i])]
      remap == [s \in ToSet(entries.index) |->
                  indices[CHOOSE i \in DOMAIN indices : entries.index[i] = s]]
      empty == IF codec = "packed"
               THEN [codec |-> codec, count |-> count, data |-> <<>>, remap |-> remap]
               ELSE [codec |-> codec, count |-> count, data |-> <<>>,
                     min |-> <<bound(1), bound(3), bound(5)>>,
                     max |-> <<bound(2), bound(4), bound(6)>>, palette |-> indices]
      long == count * RecordBits(Widths(empty))
  IN  [chunk |-> [empty EXCEPT !.data = Slice(bits, entries.at, long)],
       names |-> known, at |-> entries.at + long]
=============================================================================
