--------------------------- MODULE Accounts_proofs ---------------------------
(***************************************************************************)
(* Proofs about Accounts, for any number of connections, workers, ids and  *)
(* any account limit.                                                      *)
(***************************************************************************)
EXTENDS Accounts, FiniteSetTheorems, TLAPS

(* A thread past the draw of an id, or past the password check, holds one.  *)
IdsHeld ==
  \A c \in Conn : pc[c] \in {"add_player", "add_creds", "mark"} => loc[c].id \in Id

(* A thread's locals stay well typed when it takes up an id.                *)
LEMMA FreshIsLocals ==
  ASSUME NEW t \in Thread
  PROVE  Fresh(t) \in Locals
<1>1. (IF t \in Conn THEN ConnIp[t] ELSE CHOOSE a \in Ip : TRUE) \in Ip
  BY WorldAssumption
<1>2. QED BY <1>1 DEF Fresh, Locals

LEMMA TypedAndHeld == Spec => [](TypeOK /\ IdsHeld)
<1>1. Init => TypeOK
  <2> SUFFICES ASSUME Init PROVE TypeOK
    OBVIOUS
  <2>1. loc \in [Thread -> Locals]
    BY FreshIsLocals DEF Init
  <2>2. creds \in [Id -> Pw \cup {NoHash, NoEntry}]
    BY WorldAssumption DEF Init
  <2>3. QED
    BY <2>1, <2>2, WorldAssumption DEF Init, TypeOK, Label
<1>2. TypeOK /\ IdsHeld /\ [Next]_vars => TypeOK'
  <2> SUFFICES ASSUME TypeOK, IdsHeld, [Next]_vars PROVE TypeOK'
    OBVIOUS
  <2> USE DEF TypeOK, maps, At, Goto
  <2>1. CASE UNCHANGED vars
    BY <2>1 DEF vars
  <2>2. ASSUME NEW c \in Conn, Sweep(c) PROVE TypeOK'
    <3> c \in Thread
      BY DEF Thread
    <3> Fresh(c) \in Locals
      BY FreshIsLocals
    <3>1. CASE SweepSize(c)
      <4>1. Cardinality(ids) \in Nat
        BY SetsAssumption, FS_Subset, FS_CardinalityType
      <4>2. loc' \in [Thread -> Locals]
        BY <3>1, <4>1, WorldAssumption DEF SweepSize, Locals
      <4>3. QED BY <3>1, <4>2 DEF SweepSize, Label
    <3>2. CASE SweepPick(c)
      <4>1. CASE loc' = loc
        BY <3>2, <4>1 DEF SweepPick, Label
      <4>2. CASE \E i \in Id \cup {NoId} :
                   loc' = [loc EXCEPT ![c].id = i, ![c].left = @ - 1]
        <5>1. PICK i \in Id \cup {NoId} :
                loc' = [loc EXCEPT ![c].id = i, ![c].left = @ - 1]
          BY <4>2
        <5>2. loc[c].left \in Nat /\ loc[c].left > 0
          BY <3>2 DEF SweepPick, Locals
        <5>3. loc[c].left - 1 \in Nat
          BY <5>2
        <5>4. loc' \in [Thread -> Locals]
          BY <5>1, <5>3 DEF Locals
        <5>5. QED BY <3>2, <5>4 DEF SweepPick, Label
      <4>3. QED BY <3>2, <4>1, <4>2 DEF SweepPick
    <3>3. CASE DeletePlayer(c)
      BY <3>3 DEF DeletePlayer, Label
    <3>4. CASE DeleteCreds(c)
      BY <3>4 DEF DeleteCreds, Label
    <3>5. CASE DeleteIds(c)
      <4>1. loc' \in [Thread -> Locals]
        BY <3>5 DEF DeleteIds, Locals
      <4>2. QED BY <3>5, <4>1 DEF DeleteIds, Label
    <3>6. CASE SweepEnd(c)
      BY <3>6 DEF SweepEnd, Label
    <3>7. QED BY <2>2, <3>1, <3>2, <3>3, <3>4, <3>5, <3>6 DEF Sweep
  <2>3. ASSUME NEW c \in Conn, Register(c) PROVE TypeOK'
    <3> c \in Thread
      BY DEF Thread
    <3>1. CASE AddId(c)
      <4>1. PICK i \in Id \ issued, p \in Pw :
              /\ loc' = [loc EXCEPT ![c].id = i, ![c].pw = p]
              /\ ids' = ids \cup {i} /\ issued' = issued \cup {i}
        BY <3>1 DEF AddId
      <4>2. loc' \in [Thread -> Locals]
        <5>1. loc' = [loc EXCEPT ![c].id = i, ![c].pw = p] /\ loc \in [Thread -> Locals]
          BY <4>1
        <5>2. QED BY <5>1 DEF Locals
      <4>3. ids' \in SUBSET Id /\ issued' \in SUBSET Id
        BY <4>1
      <4>4. QED BY <3>1, <4>2, <4>3 DEF AddId, Label
    <3>2. CASE AddPlayer(c)
      <4>1. loc[c].id \in Id
        BY <3>2 DEF AddPlayer, IdsHeld
      <4>2. QED BY <3>2, <4>1 DEF AddPlayer, Label
    <3>3. CASE AddCreds(c)
      <4>1. loc[c].pw \in Pw \cup {NoHash}
        BY DEF Locals
      <4>2. QED BY <3>3, <4>1 DEF AddCreds, Label
    <3>4. CASE RegisterBegin(c) \/ SweepNeeded(c) \/ RegisterLimit(c) \/ RegisterRefused(c)
      BY <3>4 DEF RegisterBegin, SweepNeeded, RegisterLimit, RegisterRefused, Label
    <3>5. QED BY <2>3, <3>1, <3>2, <3>3, <3>4 DEF Register
  <2>4. ASSUME NEW c \in Conn, Login(c) PROVE TypeOK'
    <3> c \in Thread
      BY DEF Thread
    <3>1. loc' \in [Thread -> Locals]
      BY <2>4 DEF Login, Locals
    <3>2. pc' \in [Thread -> Label]
      BY <2>4 DEF Login, Label
    <3>3. QED BY <2>4, <3>1, <3>2 DEF Login
  <2>5. ASSUME NEW c \in Conn, MarkLoggedIn(c) PROVE TypeOK'
    <3> c \in Thread
      BY DEF Thread
    <3>1. loc[c].id \in Id \cup {NoId}
      BY DEF Locals
    <3>2. Fresh(c) \in Locals
      BY FreshIsLocals
    <3>3. QED BY <2>5, <3>1, <3>2 DEF MarkLoggedIn, Label
  <2>6. ASSUME NEW w \in Worker, Logout(w) PROVE TypeOK'
    <3> w \in Thread
      BY DEF Thread
    <3>1. CASE LogoutLookup(w)
      <4>1. PICK a \in Ip : /\ loggedIn[a] # NoId
                           /\ loc' = [loc EXCEPT ![w].ip = a, ![w].id = loggedIn[a]]
        BY <3>1 DEF LogoutLookup
      <4>2. loc' \in [Thread -> Locals]
        BY <4>1 DEF Locals
      <4>3. QED BY <3>1, <4>2 DEF LogoutLookup, Label
    <3>2. CASE LogoutErase(w)
      BY <3>2 DEF LogoutErase, Label
    <3>3. CASE LogoutConfirm(w)
      <4>1. Fresh(w) \in Locals
        BY FreshIsLocals
      <4>2. QED BY <3>3, <4>1 DEF LogoutConfirm, Label
    <3>4. QED BY <2>6, <3>1, <3>2, <3>3 DEF Logout
  <2>7. QED BY <2>1, <2>2, <2>3, <2>4, <2>5, <2>6 DEF Next
<1>3. TypeOK /\ IdsHeld /\ [Next]_vars => IdsHeld'
  <2> SUFFICES ASSUME TypeOK, IdsHeld, [Next]_vars,
                      NEW d \in Conn, pc'[d] \in {"add_player", "add_creds", "mark"}
               PROVE  loc'[d].id \in Id
    BY DEF IdsHeld
  <2> d \in Thread
    BY DEF Thread
  <2> USE DEF TypeOK, IdsHeld, maps, At, Goto
  <2>1. CASE UNCHANGED vars
    BY <2>1 DEF vars
  <2>2. ASSUME NEW c \in Conn, Sweep(c) PROVE loc'[d].id \in Id
    <3> c \in Thread
      BY DEF Thread
    <3>1. CASE c = d
      BY <2>2, <3>1 DEF Sweep, SweepSize, SweepPick, DeletePlayer, DeleteCreds, DeleteIds, SweepEnd
    <3>2. CASE c # d
      BY <2>2, <3>2 DEF Sweep, SweepSize, SweepPick, DeletePlayer, DeleteCreds, DeleteIds, SweepEnd
    <3>3. QED BY <3>1, <3>2
  <2>3. ASSUME NEW c \in Conn, Register(c) PROVE loc'[d].id \in Id
    <3> c \in Thread
      BY DEF Thread
    <3>1. CASE AddId(c)
      <4>1. PICK i \in Id \ issued, p \in Pw :
              loc' = [loc EXCEPT ![c].id = i, ![c].pw = p]
        BY <3>1 DEF AddId
      <4>2. CASE c = d
        <5>1. loc'[d].id = i
          BY <4>1, <4>2 DEF Locals
        <5>2. QED BY <4>1, <5>1
      <4>3. CASE c # d
        BY <3>1, <4>1, <4>3 DEF AddId
      <4>4. QED BY <4>2, <4>3
    <3>2. CASE RegisterBegin(c) \/ SweepNeeded(c) \/ RegisterLimit(c) \/ RegisterRefused(c)
               \/ AddPlayer(c) \/ AddCreds(c)
      BY <3>2 DEF RegisterBegin, SweepNeeded, RegisterLimit, RegisterRefused, AddPlayer, AddCreds
    <3>3. QED BY <2>3, <3>1, <3>2 DEF Register
  <2>4. ASSUME NEW c \in Conn, Login(c) PROVE loc'[d].id \in Id
    <3> c \in Thread
      BY DEF Thread
    <3>1. CASE UNCHANGED <<loc, pc>>
      BY <3>1
    <3>2. CASE \E i \in Id : loc' = [loc EXCEPT ![c].id = i] /\ pc' = [pc EXCEPT ![c] = "mark"]
      <4>1. PICK i \in Id : loc' = [loc EXCEPT ![c].id = i] /\ pc' = [pc EXCEPT ![c] = "mark"]
        BY <3>2
      <4>2. CASE c = d
        BY <4>1, <4>2 DEF Locals
      <4>3. CASE c # d
        BY <4>1, <4>3
      <4>4. QED BY <4>2, <4>3
    <3>3. QED BY <2>4, <3>1, <3>2 DEF Login
  <2>5. ASSUME NEW c \in Conn, MarkLoggedIn(c) PROVE loc'[d].id \in Id
    <3> c \in Thread
      BY DEF Thread
    <3>1. QED BY <2>5 DEF MarkLoggedIn
  <2>6. ASSUME NEW w \in Worker, Logout(w) PROVE loc'[d].id \in Id
    <3> w \in Thread /\ w # d
      BY SetsAssumption DEF Thread
    <3>1. QED BY <2>6 DEF Logout, LogoutLookup, LogoutErase, LogoutConfirm
  <2>7. QED BY <2>1, <2>2, <2>3, <2>4, <2>5, <2>6 DEF Next
<1>4. Init => IdsHeld
  BY DEF Init, IdsHeld, Thread
<1>5. QED BY <1>1, <1>2, <1>3, <1>4, PTL DEF Spec

(* Every map of Data holds what its type says, at every step of every       *)
(* handler (Data.hpp, Register.hpp, Login.hpp, Logout.hpp).                 *)
THEOREM TypeCorrect == Spec => []TypeOK
BY TypedAndHeld, PTL
-----------------------------------------------------------------------------
Adding(c) == pc[c] \in {"add_player", "add_creds"}

(* What makes SessionsOfAccounts inductive: a hash, like a session, is only *)
(* ever found for an id that is in use and completely added; no two threads *)
(* that add an id, or add and bind it, hold the same one.                   *)
SessionInv ==
  /\ \A a \in Ip : loggedIn[a] = NoId \/ loggedIn[a] \in issued
  /\ \A i \in Id : creds[i] \in Pw => i \in issued
  /\ \A c \in Conn : Adding(c) \/ pc[c] = "mark" => loc[c].id \in issued
  /\ \A c \in Conn, a \in Ip : Adding(c) => loggedIn[a] # loc[c].id
  /\ \A c \in Conn : Adding(c) => creds[loc[c].id] \notin Pw
  /\ \A c, d \in Conn :
       c # d /\ Adding(c) /\ (Adding(d) \/ pc[d] = "mark") => loc[c].id # loc[d].id

LEMMA SessionInvInit == Init => SessionInv
BY WorldAssumption, SetsAssumption DEF Init, SessionInv, Adding, Thread

LEMMA SessionInvStep ==
  ASSUME TypeOK, TypeOK', IdsHeld, SessionInv, [Next]_vars
  PROVE  SessionInv'
<1> USE DEF TypeOK, SessionInv, Adding, IdsHeld, maps, At, Goto
<1>1. CASE UNCHANGED vars
  BY <1>1 DEF vars
<1>2. ASSUME NEW c \in Conn, Sweep(c) PROVE SessionInv'
  <2> c \in Thread /\ Conn \subseteq Thread
    BY DEF Thread
  <2>1. /\ UNCHANGED <<loggedIn, issued>>
        /\ \A i \in Id : creds'[i] \in Pw => creds'[i] = creds[i]
        /\ \A d \in Conn : d # c => pc'[d] = pc[d] /\ loc'[d] = loc[d]
    <3>1. CASE DeleteCreds(c)
      BY <3>1, SetsAssumption DEF DeleteCreds
    <3>2. CASE SweepPick(c)
      BY <3>2 DEF SweepPick
    <3>3. CASE SweepSize(c) \/ DeletePlayer(c) \/ DeleteIds(c) \/ SweepEnd(c)
      BY <3>3 DEF SweepSize, DeletePlayer, DeleteIds, SweepEnd
    <3>4. QED BY <1>2, <3>1, <3>2, <3>3 DEF Sweep
  <2>2. pc'[c] \notin {"add_player", "add_creds", "mark"} \/ (pc'[c] = pc[c] /\ loc'[c] = loc[c])
    BY <1>2 DEF Sweep, SweepSize, SweepPick, DeletePlayer, DeleteCreds, DeleteIds, SweepEnd
  <2>3. QED BY <2>1, <2>2
<1>3. ASSUME NEW c \in Conn, Register(c) PROVE SessionInv'
  <2> c \in Thread /\ Conn \subseteq Thread
    BY DEF Thread
  <2>1. CASE AddId(c)
    <3>1. PICK i \in Id \ issued, p \in Pw :
            /\ loc' = [loc EXCEPT ![c].id = i, ![c].pw = p]
            /\ issued' = issued \cup {i}
      BY <2>1 DEF AddId
    <3>2. loc'[c].id = i /\ pc'[c] = "add_player"
      BY <2>1, <3>1 DEF AddId, Locals
    <3>3. \A d \in Conn : d # c => loc'[d] = loc[d] /\ pc'[d] = pc[d]
      BY <2>1, <3>1 DEF AddId
    <3>4. UNCHANGED <<creds, loggedIn>>
      BY <2>1 DEF AddId
    <3>5. i # NoId
      BY SetsAssumption
    <3>6. QED BY <3>1, <3>2, <3>3, <3>4, <3>5
  <2>2. CASE AddPlayer(c)
    BY <2>2 DEF AddPlayer
  <2>3. CASE AddCreds(c)
    <3>1. /\ pc' = [pc EXCEPT ![c] = "mark"] /\ pc[c] = "add_creds"
          /\ UNCHANGED <<loc, issued, loggedIn>>
      BY <2>3 DEF AddCreds
    <3>2. \A i \in Id : i # loc[c].id => creds'[i] = creds[i]
      BY <2>3 DEF AddCreds
    <3>3. \A d \in Conn : Adding(d)' => d # c /\ Adding(d) /\ loc[d].id # loc[c].id /\ loc[d].id \in Id
      BY <3>1
    <3>4. \A d \in Conn : Adding(d)' => creds'[loc'[d].id] \notin Pw
      BY <3>1, <3>2, <3>3
    <3>5. \A i \in Id : creds'[i] \in Pw => i \in issued'
      BY <3>1, <3>2
    <3>6. QED BY <3>1, <3>3, <3>4, <3>5
  <2>4. CASE RegisterBegin(c) \/ SweepNeeded(c) \/ RegisterLimit(c) \/ RegisterRefused(c)
    BY <2>4 DEF RegisterBegin, SweepNeeded, RegisterLimit, RegisterRefused
  <2>5. QED BY <1>3, <2>1, <2>2, <2>3, <2>4 DEF Register
<1>4. ASSUME NEW c \in Conn, Login(c) PROVE SessionInv'
  <2> c \in Thread /\ Conn \subseteq Thread
    BY DEF Thread
  <2>1. PICK i \in Id, p \in Pw :
          /\ creds' = [creds EXCEPT ![i] = IF @ = NoEntry THEN NoHash ELSE @]
          /\ IF creds[i] = p
               THEN loc' = [loc EXCEPT ![c].id = i] /\ pc' = [pc EXCEPT ![c] = "mark"]
               ELSE UNCHANGED <<loc, pc>>
    BY <1>4 DEF Login
  <2>2. pc[c] = "idle" /\ UNCHANGED <<loggedIn, issued>>
    BY <1>4 DEF Login
  <2>3. \A j \in Id : creds'[j] \in Pw => creds'[j] = creds[j]
    BY <2>1, SetsAssumption
  <2>4. CASE creds[i] = p
    <3>1. loc'[c].id = i /\ pc'[c] = "mark" /\ i \in issued
      BY <2>1, <2>4 DEF Locals
    <3>2. \A d \in Conn : d # c => loc'[d] = loc[d] /\ pc'[d] = pc[d]
      BY <2>1, <2>4
    <3>3. \A d \in Conn : Adding(d) => loc[d].id # i
      BY <2>4
    <3>4. QED BY <2>2, <2>3, <3>1, <3>2, <3>3
  <2>5. CASE creds[i] # p
    BY <2>1, <2>2, <2>3, <2>5
  <2>6. QED BY <2>4, <2>5
<1>5. ASSUME NEW c \in Conn, MarkLoggedIn(c) PROVE SessionInv'
  <2> c \in Thread /\ Conn \subseteq Thread
    BY DEF Thread
  <2>1. /\ loggedIn' = [loggedIn EXCEPT ![ConnIp[c]] = loc[c].id]
        /\ pc[c] = "mark" /\ pc' = [pc EXCEPT ![c] = "idle"]
        /\ UNCHANGED <<creds, issued>>
        /\ \A d \in Conn : d # c => loc'[d] = loc[d]
    BY <1>5 DEF MarkLoggedIn
  <2>2. \A d \in Conn : Adding(d)' => d # c /\ Adding(d) /\ loc'[d].id = loc[d].id /\ loc[d].id # loc[c].id
    BY <2>1
  <2>3. \A a \in Ip : loggedIn'[a] = loggedIn[a] \/ loggedIn'[a] = loc[c].id
    BY <2>1
  <2>4. QED BY <2>1, <2>2, <2>3
<1>6. ASSUME NEW w \in Worker, Logout(w) PROVE SessionInv'
  <2> w \in Thread /\ w \notin Conn /\ Conn \subseteq Thread
    BY SetsAssumption DEF Thread
  <2>1. /\ UNCHANGED <<creds, issued>>
        /\ \A a \in Ip : loggedIn'[a] = loggedIn[a] \/ loggedIn'[a] = NoId
        /\ \A d \in Conn : loc'[d] = loc[d] /\ pc'[d] = pc[d]
    BY <1>6 DEF Logout, LogoutLookup, LogoutErase, LogoutConfirm
  <2>2. \A c \in Conn : Adding(c) => loc[c].id # NoId
    BY SetsAssumption
  <2>3. QED BY <2>1, <2>2
<1>7. QED BY <1>1, <1>2, <1>3, <1>4, <1>5, <1>6 DEF Next

(* No address is ever bound to an id that was not drawn by REGISTER or      *)
(* loaded, nor to one that add_player is still writing (Data.hpp:329-345,   *)
(* Login.hpp:99-121).                                                       *)
THEOREM SessionSafety == Spec => []SessionsOfAccounts
<1>1. SessionInv => SessionsOfAccounts
  BY DEF SessionInv, SessionsOfAccounts, BeingAdded, Adding
<1>2. QED BY <1>1, SessionInvInit, SessionInvStep, TypedAndHeld, PTL DEF Spec
-----------------------------------------------------------------------------
LEMMA ListedStep ==
  ASSUME TypeOK, ListedIdsHavePlayers, [Next]_vars
  PROVE  ListedIdsHavePlayers'
<1> USE DEF TypeOK, ListedIdsHavePlayers, maps, At, Goto
<1>1. CASE UNCHANGED vars
  BY <1>1 DEF vars
<1>2. ASSUME NEW c \in Conn, Sweep(c) PROVE ListedIdsHavePlayers'
  <2> c \in Thread /\ Conn \subseteq Thread
    BY DEF Thread
  <2>1. CASE DeletePlayer(c)
    BY <2>1 DEF DeletePlayer
  <2>2. CASE DeleteCreds(c)
    BY <2>2 DEF DeleteCreds
  <2>3. CASE DeleteIds(c)
    BY <2>3 DEF DeleteIds
  <2>4. CASE SweepPick(c)
    <3>1. /\ pc[c] = "sweep_pick" /\ UNCHANGED <<ids, players>>
          /\ \A d \in Conn : d # c => loc'[d] = loc[d] /\ pc'[d] = pc[d]
      BY <2>4 DEF SweepPick
    <3>2. QED BY <3>1
  <2>5. CASE SweepSize(c) \/ SweepEnd(c)
    <3>1. /\ pc[c] \in {"sweep_size", "sweep_pick"} /\ UNCHANGED <<ids, players>>
          /\ \A d \in Conn : d # c => loc'[d] = loc[d] /\ pc'[d] = pc[d]
      BY <2>5 DEF SweepSize, SweepEnd
    <3>2. QED BY <3>1
  <2>6. QED BY <1>2, <2>1, <2>2, <2>3, <2>4, <2>5 DEF Sweep
<1>3. ASSUME NEW c \in Conn, Register(c) PROVE ListedIdsHavePlayers'
  <2> c \in Thread /\ Conn \subseteq Thread
    BY DEF Thread
  <2>1. CASE AddId(c)
    <3>1. PICK i \in Id \ issued, p \in Pw :
            /\ loc' = [loc EXCEPT ![c].id = i, ![c].pw = p]
            /\ ids' = ids \cup {i}
      BY <2>1 DEF AddId
    <3>2. loc'[c].id = i /\ pc'[c] = "add_player" /\ pc[c] = "reg_captcha" /\ players' = players
      BY <2>1, <3>1 DEF AddId, Locals
    <3>3. \A d \in Conn : d # c => loc'[d] = loc[d] /\ pc'[d] = pc[d]
      BY <2>1, <3>1 DEF AddId
    <3>4. QED BY <3>1, <3>2, <3>3
  <2>2. CASE AddPlayer(c)
    BY <2>2 DEF AddPlayer
  <2>3. CASE AddCreds(c)
    BY <2>3 DEF AddCreds
  <2>4. CASE RegisterBegin(c) \/ SweepNeeded(c) \/ RegisterLimit(c) \/ RegisterRefused(c)
    BY <2>4 DEF RegisterBegin, SweepNeeded, RegisterLimit, RegisterRefused
  <2>5. QED BY <1>3, <2>1, <2>2, <2>3, <2>4 DEF Register
<1>4. ASSUME NEW c \in Conn, Login(c) PROVE ListedIdsHavePlayers'
  <2> c \in Thread /\ Conn \subseteq Thread
    BY DEF Thread
  <2>1. /\ pc[c] = "idle" /\ UNCHANGED <<ids, players>>
        /\ \A d \in Conn : d # c => loc'[d] = loc[d] /\ pc'[d] = pc[d]
    BY <1>4 DEF Login
  <2>2. QED BY <2>1
<1>5. ASSUME NEW c \in Conn, MarkLoggedIn(c) PROVE ListedIdsHavePlayers'
  <2> c \in Thread /\ Conn \subseteq Thread
    BY DEF Thread
  <2>1. QED BY <1>5 DEF MarkLoggedIn
<1>6. ASSUME NEW w \in Worker, Logout(w) PROVE ListedIdsHavePlayers'
  <2> w \in Thread /\ w \notin Conn /\ Conn \subseteq Thread
    BY SetsAssumption DEF Thread
  <2>1. /\ UNCHANGED <<ids, players>>
        /\ \A d \in Conn : loc'[d] = loc[d] /\ pc'[d] = pc[d]
    BY <1>6 DEF Logout, LogoutLookup, LogoutErase, LogoutConfirm
  <2>2. QED BY <2>1
<1>7. QED BY <1>1, <1>2, <1>3, <1>4, <1>5, <1>6 DEF Next

(* An id stays listed without a player only while a handler is adding the   *)
(* player or is about to unlist the id (Data.hpp:329-378).                  *)
THEOREM ListedSafety == Spec => []ListedIdsHavePlayers
<1>1. Init => ListedIdsHavePlayers
  BY DEF Init, ListedIdsHavePlayers
<1>2. QED BY <1>1, ListedStep, TypedAndHeld, PTL DEF Spec
-----------------------------------------------------------------------------
(* Connections that have passed the limit and not yet added their player.   *)
Admitted == {c \in Conn : pc[c] \in {"reg_captcha", "add_player"}}

(* What makes AccountCap inductive: players and admissions are bounded      *)
(* together, except while a world loaded above that bound admits nobody.    *)
CapInv ==
  \/ Cardinality(players) + Cardinality(Admitted) <= MaxAccounts + Cardinality(Conn)
  \/ Admitted = {} /\ Cardinality(players) <= Cardinality(Loaded)

LEMMA SizesAreNat ==
  ASSUME TypeOK
  PROVE  /\ IsFiniteSet(players) /\ Cardinality(players) \in Nat
         /\ IsFiniteSet(Admitted) /\ Cardinality(Admitted) \in Nat
         /\ Cardinality(Conn) \in Nat /\ Cardinality(Loaded) \in Nat
         /\ Cardinality(Admitted) <= Cardinality(Conn)
<1>1. players \subseteq Id /\ Admitted \subseteq Conn
  BY DEF TypeOK, Admitted
<1>2. IsFiniteSet(players) /\ IsFiniteSet(Admitted) /\ IsFiniteSet(Loaded)
  BY <1>1, SetsAssumption, WorldAssumption, FS_Subset
<1>3. Cardinality(Admitted) <= Cardinality(Conn)
  BY <1>1, SetsAssumption, FS_Subset
<1>4. QED BY <1>2, <1>3, SetsAssumption, FS_CardinalityType

(* A step that adds no player and admits nobody keeps the bound.            *)
LEMMA CapKept ==
  ASSUME TypeOK, CapInv, players' \subseteq players, Admitted' \subseteq Admitted
  PROVE  CapInv'
<1>1. /\ Cardinality(players') <= Cardinality(players) /\ Cardinality(players') \in Nat
      /\ Cardinality(Admitted') <= Cardinality(Admitted) /\ Cardinality(Admitted') \in Nat
  BY SizesAreNat, FS_Subset, FS_CardinalityType
<1>2. QED BY <1>1, SizesAreNat, WorldAssumption DEF CapInv

LEMMA CapStep ==
  ASSUME TypeOK, CapInv, [Next]_vars
  PROVE  CapInv'
<1> USE DEF TypeOK, maps, At, Goto
<1>1. CASE UNCHANGED vars
  BY <1>1, CapKept DEF vars, Admitted
<1>2. ASSUME NEW c \in Conn, Sweep(c) PROVE CapInv'
  <2> c \in Thread /\ Conn \subseteq Thread
    BY DEF Thread
  <2>1. players' \subseteq players /\ Admitted' \subseteq Admitted
    BY <1>2 DEF Sweep, SweepSize, SweepPick, DeletePlayer, DeleteCreds, DeleteIds, SweepEnd, Admitted
  <2>2. QED BY <2>1, CapKept
<1>3. ASSUME NEW c \in Conn, RegisterLimit(c) PROVE CapInv'
  <2> c \in Thread /\ Conn \subseteq Thread
    BY DEF Thread
  <2>1. CASE Cardinality(players) > MaxAccounts
    <3>1. players' = players /\ Admitted' \subseteq Admitted
      BY <1>3, <2>1 DEF RegisterLimit, Admitted
    <3>2. QED BY <3>1, CapKept
  <2>2. CASE ~(Cardinality(players) > MaxAccounts)
    <3>1. players' = players /\ Admitted' \subseteq Conn
      BY <1>3 DEF RegisterLimit, Admitted
    <3>2. Cardinality(players') \in Nat /\ Cardinality(players') <= MaxAccounts
      BY <2>2, <3>1, SizesAreNat, WorldAssumption
    <3>3. Cardinality(Admitted') \in Nat /\ Cardinality(Admitted') <= Cardinality(Conn)
      BY <3>1, SetsAssumption, FS_Subset, FS_CardinalityType
    <3>4. QED BY <3>2, <3>3, SizesAreNat, WorldAssumption DEF CapInv
  <2>3. QED BY <2>1, <2>2
<1>4. ASSUME NEW c \in Conn, AddPlayer(c) PROVE CapInv'
  <2> c \in Thread /\ Conn \subseteq Thread
    BY DEF Thread
  <2>1. c \in Admitted /\ Admitted' = Admitted \ {c} /\ players' = players \cup {loc[c].id}
    BY <1>4 DEF AddPlayer, Admitted
  <2>2. Cardinality(Admitted') = Cardinality(Admitted) - 1
    BY <2>1, SizesAreNat, FS_RemoveElement
  <2>3. Cardinality(players') \in Nat /\ Cardinality(players') <= Cardinality(players) + 1
    <3>1. IsFiniteSet(players) /\ Cardinality(players) \in Nat
      BY SizesAreNat
    <3>2. Cardinality(players')
            = IF loc[c].id \in players THEN Cardinality(players) ELSE Cardinality(players) + 1
      BY <2>1, <3>1, FS_AddElement
    <3>3. QED BY <3>1, <3>2
  <2>4. Cardinality(players) + Cardinality(Admitted) <= MaxAccounts + Cardinality(Conn)
    BY <2>1 DEF CapInv
  <2>5. Cardinality(players') + Cardinality(Admitted') <= MaxAccounts + Cardinality(Conn)
    BY <2>2, <2>3, <2>4, SizesAreNat, WorldAssumption
  <2>6. QED BY <2>5 DEF CapInv
<1>5. ASSUME NEW c \in Conn,
             \/ RegisterBegin(c) \/ SweepNeeded(c) \/ RegisterRefused(c)
             \/ AddId(c) \/ AddCreds(c) \/ Login(c) \/ MarkLoggedIn(c)
      PROVE  CapInv'
  <2> c \in Thread /\ Conn \subseteq Thread
    BY DEF Thread
  <2>1. players' = players
    BY <1>5 DEF RegisterBegin, SweepNeeded, RegisterRefused, AddId, AddCreds, Login, MarkLoggedIn
  <2>2. /\ \A d \in Conn : d # c => pc'[d] = pc[d]
        /\ pc'[c] \in {"reg_captcha", "add_player"} => pc[c] \in {"reg_captcha", "add_player"}
    BY <1>5 DEF RegisterBegin, SweepNeeded, RegisterRefused, AddId, AddCreds, Login, MarkLoggedIn
  <2>3. Admitted' \subseteq Admitted
    BY <2>2 DEF Admitted
  <2>4. QED BY <2>1, <2>3, CapKept
<1>6. ASSUME NEW w \in Worker, Logout(w) PROVE CapInv'
  <2> w \in Thread /\ w \notin Conn /\ Conn \subseteq Thread
    BY SetsAssumption DEF Thread
  <2>1. players' = players /\ Admitted' = Admitted
    BY <1>6 DEF Logout, LogoutLookup, LogoutErase, LogoutConfirm, Admitted
  <2>2. QED BY <2>1, CapKept
<1>7. QED BY <1>1, <1>2, <1>3, <1>4, <1>5, <1>6 DEF Next, Register

(* The players map outgrows MAX_ACCOUNTS by at most one account for every   *)
(* connection thread (Register.hpp:77-83, Data.hpp:293-295, 335-340).       *)
THEOREM CapSafety == Spec => []AccountCap
<1>1. Init => CapInv
  <2> SUFFICES ASSUME Init PROVE CapInv
    OBVIOUS
  <2>1. Admitted = {} /\ players = Loaded
    BY DEF Init, Admitted, Thread
  <2>2. Cardinality(Loaded) \in Nat
    BY SetsAssumption, WorldAssumption, FS_Subset, FS_CardinalityType
  <2>3. QED BY <2>1, <2>2 DEF CapInv
<1>2. TypeOK /\ CapInv => AccountCap
  BY SizesAreNat, WorldAssumption DEF CapInv, AccountCap
<1>3. QED BY <1>1, <1>2, CapStep, TypedAndHeld, PTL DEF Spec
=============================================================================
