------------------------------ MODULE MCStorage ------------------------------
(* A small instance of Storage: two materials whose names have one or two *)
(* letters, and blocks at the least and the greatest place of a chunk.      *)
EXTENDS Storage

CONSTANTS stone, wood, client, server

Letter(n) == BitsOf(n, 8)
Spellings == (stone :> Letter(1)) @@ (wood :> (Letter(1) \o Letter(2)))

Corner == 2^CoorBits - 1
Placed == {
  [x |-> 0, y |-> 0, z |-> Corner, size |-> 0, material |-> stone],
  [x |-> 2, y |-> 0, z |-> 0, size |-> 2, material |-> wood],
  [x |-> Corner, y |-> 1, z |-> 0, size |-> 1, material |-> stone]}
=============================================================================
