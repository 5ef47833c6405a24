----------------------------- MODULE MCAccounts -----------------------------
(* Small instances of Accounts: two connections, from an address each, and  *)
(* one UDP worker; p1 is a player with many placed blocks, p2 a new one.   *)
EXTENDS Accounts, TLC

CONSTANTS a1, a2, c1, c2, p1, p2, p3, p4, pw1

OwnAddress == c1 :> a1 @@ c2 :> a2
(* Ids drawn by REGISTER are interchangeable.                              *)
FreshIds == Permutations({p3, p4})

DiskPw == [i \in Loaded |-> pw1]
=============================================================================
