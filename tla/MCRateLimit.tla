---------------------------- MODULE MCRateLimit ----------------------------
(* A small instance of RateLimit: limits of two and three ticks, a lag of   *)
(* at most one, LOGIN with its number 7 and PLACEMENT with its number 17,   *)
(* and two addresses of which one begins the other, so that "1" with "17"   *)
(* and "11" with "7" are one entry of the map.                              *)
EXTENDS RateLimit, TLC

CONSTANTS PLACEMENT, t1, t2, i1

Threads == Permutations({t1, t2})

Characters == {1, 7}
Addresses == {<<1>>, <<1, 1>>}
Numbers == LOGIN :> <<7>> @@ PLACEMENT :> <<1, 7>>
Limits == LOGIN :> 2 @@ PLACEMENT :> 3
=============================================================================
