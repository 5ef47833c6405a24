-------------------------- MODULE MCCaptchaPuzzles --------------------------
(* Small pools of puzzles with two checking threads.                        *)
EXTENDS CaptchaPuzzles, TLC

CONSTANTS t1, t2

Interchangeable == Permutations({t1, t2})
=============================================================================
