------------------------------ MODULE MCTerrain ------------------------------
(* A small planet: two chunks in one patch. A player who goes               *)
(* between a and b needs no reset. From d, c1 is at the despawn distance,   *)
(* as c2 is from a; at b, c2 is wanted after a reset and not far without.   *)
EXTENDS Terrain, TLC

CONSTANTS c1, c2, s1, a, b, d

InPatch == c1 :> s1 @@ c2 :> s1
Levels ==
  a :> (c1 :> 1 @@ c2 :> None) @@ b :> (c1 :> 4 @@ c2 :> 16) @@ d :> (c1 :> None @@ c2 :> None)
Surface == a :> {} @@ b :> {} @@ d :> {s1}
NoReset == a :> {a, b} @@ b :> {a, b} @@ d :> {d}
AtDespawnDistance == a :> {c2} @@ b :> {} @@ d :> {c1}
=============================================================================
