------------------------------- MODULE MCWire -------------------------------
(* A small instance of Wire: messages of every type, with every branch of   *)
(* their layout, ids at the ends of their tiers, lists of none to two and   *)
(* fields at their greatest.                                                *)
EXTENDS Wire

CONSTANTS stone, wood

Spellings == (stone :> BitsOf(1, 8)) @@ (wood :> (BitsOf(1, 8) \o BitsOf(2, 8)))

Ones(n) == [i \in 1..n |-> 1]
Top(n) == [i \in 1..n |-> IF i \in {1, n} THEN 1 ELSE 0]
Three(v) == <<v, Top(1), v>>
Bytes16 == [i \in 1..16 |-> IF i % 3 = 0 THEN Ones(8) ELSE Top(i % 8)]
Letters(n) == [i \in 1..n |-> Top(1 + (i % 8))]

IdValues == {<<>>, Ones(8), Top(9), Ones(13), Top(14), Ones(16), Top(17), Top(64)}

Block(x, y, z, size, material) ==
  [x |-> x, y |-> y, z |-> z, size |-> size, material |-> material]
BlockLists == {
  <<>>,
  <<Block(0, 4095, 0, 2, stone)>>,
  <<Block(1, 2, 3, 0, wood), Block(4095, 0, 7, 1, stone)>>,
  <<Block(5, 0, 4095, 1, wood), Block(8, 0, 4095, 0, wood), Block(6, 1, 4095, 2, stone)>>}

(* Chunks at the ends of what a message can tell, and around the middle,    *)
(* and lists of blocks that begin in them.                                  *)
Chunks == {<<-(2^27), 2^27 - 1, -1>>, <<-1024, 0, 1024>>}
Begun(l, c) ==
  [i \in DOMAIN l |-> [l[i] EXCEPT !.x = 4 * c[1] + @, !.y = 4 * c[2] + @, !.z = 4 * c[3] + @]]

(* Blocks of a schemata: anywhere, and as far apart as they can be.         *)
Apart == {
  <<Block(-3, 0, 7, 0, wood), Block(4091, 5, -1, 1, stone)>>,
  <<Block(-4097, -1, -4, 0, wood), Block(-4095, -2, -3, 1, stone), Block(-4099, -1, 0, 2, wood)>>}

Captcha(n) == [i \in 1..n |-> [puzzle |-> Top(60 + i), answers |-> [k \in 1..(3 * i) |-> Top(4)]]]
Placement(n) == [i \in 1..n |-> [id |-> Top(8 * i + 1), at |-> Three(Ones(12)), rotation |-> 3]]
Moves(n) == [i \in 1..n |-> [id |-> Top(12 + i), at |-> Three(Top(12)), turn |-> Three(Ones(4))]]
Lives(n) == [i \in 1..n |-> [id |-> Top(12 + i), alive |-> i % 2]]

Simple == {[type |-> "PING", status |-> 1],
  [type |-> "CLIENT_LOCAL_POSITION_UPDATE", at |-> Three(Ones(12)), turn |-> Three(Top(4))],
  [type |-> "HIT", velocity |-> Ones(13), id |-> Ones(8)],
  [type |-> "ATTACK", id |-> Top(9), turn |-> <<>>],
  [type |-> "ATTACK", id |-> Ones(16), turn |-> Three(Ones(4))],
  [type |-> "PUZZLE", puzzle |-> <<>>, image |-> <<>>],
  [type |-> "PUZZLE", puzzle |-> Ones(64), image |-> Letters(3)]}

Uuids == {[type |-> t, uuid |-> Bytes16] : t \in {"LOGOUT", "AUTH", "STOP"}}

Deaths == {[type |-> "DEAD", id |-> id] : id \in IdValues}

Lists ==
  {[type |-> "BATCH_POSITION_UPDATE", entries |-> Moves(n)] : n \in 0..2}
  \cup {[type |-> "RESYNC", entries |-> Lives(n)] : n \in 0..2}

Position(change, quadrant, lightyear) ==
  [type |-> "POSITION_UPDATE", change |-> change, quadrant |-> quadrant, lightyear |-> lightyear,
   km |-> Three(Top(44))]
Positions == {
  [type |-> "POSITION_UPDATE", change |-> "terrain", at |-> Three(Ones(63))],
  Position("quadrant", Three(Top(64)), Three(Ones(14))),
  Position("lightyear", <<>>, Three(Top(14))),
  Position("km", <<>>, <<>>)}

Accounts ==
  {[type |-> "REGISTER", password |-> Letters(p), captchas |-> Captcha(c)] :
     p \in {0, 31}, c \in 0..2}
  \cup {[type |-> "LOGIN", player |-> Letters(36), password |-> Letters(p), captchas |-> Captcha(1)] :
          p \in {1, 31}}
  \cup {[type |-> "PASSWORD_CHANGE", uuid |-> Bytes16, old |-> Letters(p), new |-> Letters(2)] :
          p \in {0, 31}}

Constructions ==
  {[type |-> "SCHEMATA", id |-> Top(9), blocks |-> l] : l \in BlockLists \cup Apart}
  \cup {[type |-> "BLOCKS", chunk |-> c, blocks |-> Begun(l, c), placements |-> Placement(n)] :
          l \in BlockLists, c \in Chunks, n \in {0, 2}}
  \cup {[type |-> "VEHICLE", chunk |-> c, blocks |-> Begun(l, c), placements |-> Placement(1),
         meta |-> Letters(2)] : l \in BlockLists, c \in Chunks}
  \cup {[type |-> "PLACEMENT", of |-> "schemata", vehicle |-> v, id |-> Top(14), rotation |-> 2] :
          v \in {0, 1}}
  \cup {[type |-> "PLACEMENT", of |-> "vehicle", id |-> Top(9), chunk |-> c,
          at |-> Three(Ones(12))] : c \in Chunks}
  \cup {[type |-> "PLACEMENT", of |-> "block", at |-> c, material |-> Ones(13)] : c \in Chunks}

Messages ==
  Simple \cup Uuids \cup Deaths \cup Lists \cup Positions \cup Accounts \cup Constructions

(* After another: a short one, one with a list, and blocks of both codecs.  *)
Followers ==
  {m \in Messages : m.type \in {"ATTACK", "RESYNC"}}
    \cup {m \in Messages : m.type = "SCHEMATA" /\ Len(m.blocks) > 1}
=============================================================================
