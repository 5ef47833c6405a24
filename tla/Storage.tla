------------------------------ MODULE Storage ------------------------------
(***************************************************************************)
(* A chunk of blocks (server/data/BlockStorage.hpp) that is packed, added  *)
(* to and sent between processes, each of which has its own registry of    *)
(* materials, filled by this chunk and by any other.                       *)
(***************************************************************************)
EXTENDS StorageChunk

CONSTANTS
  Side,       \* the processes
  Block,      \* the blocks that are placed
  MaxBlocks   \* bound on the blocks of a chunk

ASSUME MaxBlocksAssumption == MaxBlocks \in Nat \ {0}

(* Blocks lie in the chunk, and have one of the three sizes.                *)
ASSUME BlockAssumption == Block \subseteq Blocks

VARIABLES
  material_names,  \* of each process
  owner,           \* the process that has the chunk
  chunk,           \* the chunk
  contents,        \* history: the blocks that were put into it
  received,        \* history: whether its owner made it by deserialize
  mixed            \* history: whether an index in it may have the wrong name

storage_vars == <<material_names, owner, chunk, contents, received, mixed>>

StorageInit ==
  /\ material_names = [s \in Side |-> <<>>]
  /\ owner \in Side
  /\ chunk = [codec |-> "packed", count |-> 0, data |-> <<>>, remap |-> <<>>]
  /\ contents = <<>>
  /\ received = FALSE /\ mixed = FALSE

(* Another chunk brings a material to a process.                            *)
getOrCreateMaterial(s) ==
  /\ \E m \in Material : material_names' = [material_names EXCEPT ![s] = Known(@, m)]
  /\ UNCHANGED <<owner, chunk, contents, received, mixed>>

(* material_names has every index that is looked up; what happens to the    *)
(* others is undefined, and is not followed.                                *)
Defined(indices) == \A g \in indices : g < Len(material_names[owner])
LocalMaterials ==
  IF chunk.codec = "packed" THEN {Local(chunk, g) : g \in ToSet(Materials(chunk))}
  ELSE ToSet(Materials(chunk))

(* A bit-packed chunk that was received keeps the indices of its sender.    *)
KeepsForeign == received /\ chunk.codec = "packed"

(* The count of the names in a message has 8 bits.                          *)
TooManyNames == Len(Materials(chunk)) >= 2^LengthBits
-----------------------------------------------------------------------------
(* A chunk is made of a block, or of what another held.                     *)
PackFirst ==
  /\ contents = <<>>
  /\ \E b \in Block, codec \in {"packed", "range"} :
       LET known == Known(material_names[owner], b.material)
       IN  /\ material_names' = [material_names EXCEPT ![owner] = known]
           /\ chunk' = Pack(codec, <<b>>, known)
           /\ contents' = <<b>>
  /\ UNCHANGED <<owner, received, mixed>>

PackAnew ==
  /\ contents # <<>> /\ Defined(LocalMaterials)
  /\ \E codec \in {"packed", "range"} :
       chunk' = Pack(codec, Unpack(chunk, material_names[owner]), material_names[owner])
  /\ received' = FALSE
  /\ UNCHANGED <<material_names, owner, contents, mixed>>

AddOne ==
  /\ contents # <<>> /\ Len(contents) < MaxBlocks
  /\ chunk.codec = "range" => Defined(LocalMaterials)
  /\ \E b \in Block :
       LET known == Known(material_names[owner], b.material)
       IN  /\ material_names' = [material_names EXCEPT ![owner] = known]
           /\ chunk' = Add(chunk, b, known)
           /\ contents' = Append(contents, b)
  /\ mixed' = (mixed \/ KeepsForeign)
  /\ UNCHANGED <<owner, received>>

(* One process serializes the chunk, another deserializes what it got.      *)
Transfer ==
  /\ contents # <<>>
  /\ Defined(ToSet(Materials(chunk)))
  /\ \E s \in Side \ {owner} :
       LET arrived == Deserialize(chunk.codec, Serialize(chunk, material_names[owner]), 0,
                                  chunk.count, material_names[s])
       IN  /\ chunk' = arrived.chunk
           /\ material_names' = [material_names EXCEPT ![s] = arrived.names]
           /\ owner' = s
  /\ received' = TRUE
  /\ mixed' = (mixed \/ KeepsForeign \/ TooManyNames)
  /\ UNCHANGED contents

StorageNext ==
  \/ PackFirst \/ PackAnew \/ AddOne \/ Transfer
  \/ \E s \in Side : getOrCreateMaterial(s)

StorageSpec == StorageInit /\ [][StorageNext]_storage_vars
-----------------------------------------------------------------------------
(* A chunk gives back the blocks that were put into it, in their order,     *)
(* whatever was packed, added and sent, and whatever the registries hold:   *)
(* unless a received bit-packed chunk was added to or sent on, or one of    *)
(* more materials than a message can count was sent.                        *)
ContentsKept == ~mixed => Unpack(chunk, material_names[owner]) = contents
=============================================================================
