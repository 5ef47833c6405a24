----------------------------- MODULE MCSpaceSwap -----------------------------
(* Instances of SpaceSwap with three sub-groups and up to three requests.   *)
EXTENDS SpaceSwap
=============================================================================
