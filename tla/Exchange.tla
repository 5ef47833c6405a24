------------------------------ MODULE Exchange ------------------------------
(***************************************************************************)
(* What the client's calls promise, without the network: calls are made    *)
(* one at a time; the server acts on a call at most once; a call that      *)
(* returns an answer returns the answer to itself, which the server gave   *)
(* after it had acted, as long as the client has not lost its place in     *)
(* the stream of answers.                                                  *)
(***************************************************************************)
EXTENDS Integers, Sequences, SequencesExt

VARIABLES
  waiting,   \* whether a call is in progress
  number,    \* calls made so far
  handled,   \* the calls the server acted on, in its order
  outcome,   \* how each finished call ended
  inStep     \* whether the client still knows where messages begin

vars == <<waiting, number, handled, outcome, inStep>>

(* own: the answer to the call; other: anything else taken for it; none: a  *)
(* default value, for the connection was lost; failed: an exception.        *)
Outcome == {"own", "other", "none", "failed"}

Init ==
  /\ waiting = FALSE
  /\ number = 0
  /\ handled = <<>> /\ outcome = <<>>
  /\ inStep = TRUE

Begin ==
  /\ ~waiting
  /\ waiting' = TRUE
  /\ number' = number + 1
  /\ UNCHANGED <<handled, outcome, inStep>>

Handle ==
  /\ \E n \in 1..number : /\ n \notin ToSet(handled)
                          /\ handled' = Append(handled, n)
  /\ UNCHANGED <<waiting, number, outcome, inStep>>

Return ==
  /\ waiting
  /\ \E o \in Outcome : /\ o = "own" => number \in ToSet(handled)
                        /\ o = "other" => ~inStep
                        /\ outcome' = Append(outcome, o)
  /\ waiting' = FALSE
  /\ UNCHANGED <<number, handled, inStep>>

LoseStep ==
  /\ inStep' = FALSE
  /\ UNCHANGED <<waiting, number, handled, outcome>>

Next == Begin \/ Handle \/ Return \/ LoseStep

Spec == Init /\ [][Next]_vars
=============================================================================
