------------------------------ MODULE Lifetime ------------------------------
(***************************************************************************)
(* What the server promises about its Data: threads come to use it and     *)
(* leave again, and it is freed once, when nobody uses it and nobody can   *)
(* come any more. Server implements this.                                  *)
(***************************************************************************)
CONSTANT User  \* the threads that ever touch the data

VARIABLES
  users,  \* those that may touch it now
  freed   \* it is gone

Init == users \in SUBSET User /\ ~freed

Enter(u) ==
  /\ ~freed
  /\ u \notin users
  /\ users' = users \cup {u}
  /\ UNCHANGED freed

Leave(u) ==
  /\ u \in users
  /\ users' = users \ {u}
  /\ UNCHANGED freed

Free ==
  /\ ~freed
  /\ users = {}
  /\ freed' = TRUE
  /\ UNCHANGED users

Next == Free \/ \E u \in User : Enter(u) \/ Leave(u)

Spec == Init /\ [][Next]_<<users, freed>>
=============================================================================
