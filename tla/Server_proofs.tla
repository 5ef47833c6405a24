--------------------------- MODULE Server_proofs ---------------------------
(***************************************************************************)
(* Proofs about Server, for any number of workers and connections: types,  *)
(* that the counter counts the threads, that the data is freed only when   *)
(* no thread can touch it, and that Server implements Lifetime.            *)
(***************************************************************************)
EXTENDS Server, FiniteSetTheorems, TLAPS

USE DEF Request, Buffer

(* Every variable keeps its type, whatever the threads do.                  *)
THEOREM TypeCorrect == Spec => []TypeOK
<1>1. Init => TypeOK
  <2> SUFFICES ASSUME Init PROVE TypeOK
    OBVIOUS
  <2> USE DEF Init
  <2>1. queue \in Seq(Request)
    OBVIOUS
  <2>2. /\ running \in BOOLEAN /\ udpLock \in BOOLEAN
        /\ main = "check" /\ received \in Request \cup {Nobody} /\ count \in Nat
    OBVIOUS
  <2>3. /\ worker \in [Worker -> {"check", "pop", "handle", "reply", "exited"}]
        /\ request \in [Worker -> Request \cup {Nobody}]
    OBVIOUS
  <2>4. /\ accepter = "check" /\ accepted \in Conn \cup {Nobody} /\ active \in Int
        /\ conn \in [Conn -> {"none", "check", "recv", "handle", "send", "close", "leave", "gone", "leaked"}]
        /\ buffer \in [Conn -> Buffer]
    OBVIOUS
  <2>5. QED
    BY <2>1, <2>2, <2>3, <2>4 DEF TypeOK
<1>2. TypeOK /\ [Next]_vars => TypeOK'
  <2> SUFFICES ASSUME TypeOK, [Next]_vars PROVE TypeOK'
    OBVIOUS
  <2> USE ServerAssumption DEF TypeOK, mainVars, workerVars, tcpVars
  <2>1. CASE OwnerStop
    BY <2>1 DEF OwnerStop
  <2>2. CASE MainCheck
    BY <2>2 DEF MainCheck
  <2>3. CASE MainLock
    BY <2>3 DEF MainLock
  <2>4. CASE MainRecv
    <3>1. main' \in {"add", "check"} /\ udpLock' = FALSE
      BY <2>4 DEF MainRecv
    <3>2. count' \in Nat /\ received' \in Request \cup {Nobody}
      BY <2>4 DEF MainRecv
    <3>3. main' = "add" => received' \in Request
      BY <2>4 DEF MainRecv
    <3>4. UNCHANGED <<running, queue, workerVars, tcpVars>>
      BY <2>4 DEF MainRecv
    <3>5. QED
      BY <3>1, <3>2, <3>3, <3>4
  <2>5. CASE MainAdd
    BY <2>5 DEF MainAdd
  <2>6. CASE MainJoin
    BY <2>6 DEF MainJoin
  <2>7. CASE Destroy
    BY <2>7 DEF Destroy
  <2>8. CASE JoinWorkers
    BY <2>8 DEF JoinWorkers
  <2>9. CASE Drain
    BY <2>9 DEF Drain
  <2>10. ASSUME NEW w \in Worker, WorkerThread(w) PROVE TypeOK'
    <3>1. CASE WorkerCheck(w)
      BY <3>1 DEF WorkerCheck
    <3>2. CASE WorkerPop(w)
      BY <3>2 DEF WorkerPop
    <3>3. CASE WorkerDone(w)
      BY <3>3 DEF WorkerDone
    <3>4. CASE WorkerStop(w)
      BY <3>4 DEF WorkerStop
    <3>5. CASE WorkerReply(w)
      BY <3>5 DEF WorkerReply
    <3>6. QED
      BY <2>10, <3>1, <3>2, <3>3, <3>4, <3>5 DEF WorkerThread
  <2>11. CASE Accepter
    <3>1. CASE AccepterCheck
      BY <3>1 DEF AccepterCheck
    <3>2. CASE AcceptNothing
      BY <3>2 DEF AcceptNothing
    <3>3. CASE Accept
      BY <3>3 DEF Accept
    <3>4. CASE Spawn
      BY <3>4 DEF Spawn
    <3>5. CASE SpawnFails
      BY <3>5 DEF SpawnFails
    <3>6. QED
      BY <2>11, <3>1, <3>2, <3>3, <3>4, <3>5 DEF Accepter
  <2>12. ASSUME NEW k \in Conn, ConnThread(k) \/ ConnSend(k) PROVE TypeOK'
    <3>1. CASE ConnCheck(k)
      BY <3>1 DEF ConnCheck
    <3>2. CASE ConnRecv(k)
      BY <3>2 DEF ConnRecv
    <3>3. CASE ConnHandle(k)
      BY <3>3 DEF ConnHandle
    <3>4. CASE ConnSend(k)
      BY <3>4 DEF ConnSend
    <3>5. CASE ConnClose(k)
      BY <3>5 DEF ConnClose
    <3>6. CASE ConnLeave(k)
      BY <3>6 DEF ConnLeave
    <3>7. QED
      BY <2>12, <3>1, <3>2, <3>3, <3>4, <3>5, <3>6 DEF ConnThread
  <2>13. CASE UNCHANGED vars
    BY <2>13 DEF vars
  <2>14. QED
    BY <2>1, <2>2, <2>3, <2>4, <2>5, <2>6, <2>7, <2>8, <2>9, <2>10, <2>11, <2>12, <2>13
    DEF Next, Main
<1>3. QED
  BY <1>1, <1>2, PTL DEF Spec
-----------------------------------------------------------------------------
(* How far the shutdown has come tells who has left: run() returns after    *)
(* the accepter, ~Server looks at the counter after the workers, and frees  *)
(* the data when the counter has reached zero.                              *)
Ordered ==
  /\ main \in {"returned", "join_workers", "drain", "freed"} => accepter = "exited"
  /\ main \in {"drain", "freed"} => \A w \in Worker : worker[w] = "exited"
  /\ main = "freed" => Threads = {}

(* A connection that waits for its thread has none yet.                     *)
PendingIsNew == accepter = "spawn" => conn[accepted] = "none"

SafeInv == TypeOK /\ PendingIsNew /\ ActiveCounts /\ Ordered

LEMMA ThreadsFinite ==
  /\ IsFiniteSet(Threads) /\ Cardinality(Threads) \in Nat
  /\ IsFiniteSet(Leaked) /\ Cardinality(Leaked) \in Nat
<1>1. Threads \subseteq Conn /\ Leaked \subseteq Conn
  BY DEF Threads, Leaked
<1>2. IsFiniteSet(Threads) /\ IsFiniteSet(Leaked)
  BY <1>1, ServerAssumption, FS_Subset
<1>3. QED
  BY <1>2, FS_CardinalityType

(* What one step does to the set of connection threads: most steps nothing. *)
LEMMA StepsOfOthers ==
  ASSUME TypeOK, \/ OwnerStop \/ Main \/ AccepterCheck \/ AcceptNothing \/ Accept
                 \/ \E w \in Worker : WorkerThread(w)
                 \/ UNCHANGED vars
  PROVE  UNCHANGED conn
  BY DEF OwnerStop, Main, MainCheck, MainLock, MainRecv, MainAdd, MainJoin, Destroy,
    JoinWorkers, Drain, AccepterCheck, AcceptNothing, Accept, WorkerThread, WorkerCheck,
    WorkerPop, WorkerDone, WorkerStop, WorkerReply, vars, tcpVars

LEMMA ConnMoves ==
  ASSUME TypeOK, NEW k \in Conn,
         ConnCheck(k) \/ ConnRecv(k) \/ ConnHandle(k) \/ ConnSend(k) \/ ConnClose(k)
  PROVE  /\ Threads' = Threads /\ Leaked' = Leaked
         /\ k \in Threads
         /\ \A j \in Conn : j # k => conn'[j] = conn[j]
         /\ UNCHANGED <<running, queue, mainVars, udpLock, workerVars, accepter, accepted, active>>
<1>1. PICK next \in {"check", "recv", "handle", "send", "close", "leave"} :
        conn' = [conn EXCEPT ![k] = next]
  BY DEF TypeOK, ConnCheck, ConnRecv, ConnHandle, ConnSend, ConnClose
<1>2. conn[k] \in {"check", "recv", "handle", "send", "close"}
  BY DEF ConnCheck, ConnRecv, ConnHandle, ConnSend, ConnClose
<1>3. UNCHANGED <<running, queue, mainVars, udpLock, workerVars, accepter, accepted, active>>
  BY DEF ConnCheck, ConnRecv, ConnHandle, ConnSend, ConnClose
<1>4. \A j \in Conn : conn'[j] = IF j = k THEN next ELSE conn[j]
  BY <1>1 DEF TypeOK
<1>5. QED
  BY <1>2, <1>3, <1>4 DEF Threads, Leaked

LEMMA SpawnMoves ==
  ASSUME TypeOK, PendingIsNew, Spawn
  PROVE  /\ accepted \in Conn \ Threads
         /\ Threads' = Threads \cup {accepted} /\ Leaked' = Leaked
<1>1. accepted \in Conn /\ conn[accepted] = "none"
  BY DEF TypeOK, PendingIsNew, Spawn
<1>2. \A j \in Conn : conn'[j] = IF j = accepted THEN "check" ELSE conn[j]
  BY DEF TypeOK, Spawn
<1>3. QED
  BY <1>1, <1>2 DEF Threads, Leaked

LEMMA SpawnFailsMoves ==
  ASSUME TypeOK, PendingIsNew, SpawnFails
  PROVE  /\ accepted \in Conn \ Leaked
         /\ Threads' = Threads /\ Leaked' = Leaked \cup {accepted}
<1>1. accepted \in Conn /\ conn[accepted] = "none"
  BY DEF TypeOK, PendingIsNew, SpawnFails
<1>2. \A j \in Conn : conn'[j] = IF j = accepted THEN "leaked" ELSE conn[j]
  BY DEF TypeOK, SpawnFails
<1>3. QED
  BY <1>1, <1>2 DEF Threads, Leaked

LEMMA LeaveMoves ==
  ASSUME TypeOK, NEW k \in Conn, ConnLeave(k)
  PROVE  /\ k \in Threads
         /\ Threads' = Threads \ {k} /\ Leaked' = Leaked
<1>1. conn[k] = "leave" /\ \A j \in Conn : conn'[j] = IF j = k THEN "gone" ELSE conn[j]
  BY DEF TypeOK, ConnLeave
<1>2. QED
  BY <1>1 DEF Threads, Leaked

(* The counter keeps counting.                                              *)
LEMMA CountStep ==
  ASSUME TypeOK, PendingIsNew, ActiveCounts, [Next]_vars
  PROVE  ActiveCounts'
<1> USE ThreadsFinite
<1>1. CASE OwnerStop \/ Main \/ UNCHANGED vars \/ \E w \in Worker : WorkerThread(w)
  <2>1. UNCHANGED conn
    BY <1>1, StepsOfOthers
  <2>2. UNCHANGED <<active, accepter>>
    BY <1>1 DEF OwnerStop, Main, MainCheck, MainLock, MainRecv, MainAdd, MainJoin, Destroy,
      JoinWorkers, Drain, WorkerThread, WorkerCheck, WorkerPop, WorkerDone, WorkerStop,
      WorkerReply, vars, tcpVars
  <2>3. QED
    BY <2>1, <2>2 DEF ActiveCounts, Threads, Leaked
<1>2. CASE AccepterCheck \/ AcceptNothing
  <2>1. /\ UNCHANGED <<conn, active>>
        /\ accepter # "spawn" /\ accepter' # "spawn"
    BY <1>2 DEF AccepterCheck, AcceptNothing
  <2>2. QED
    BY <2>1 DEF ActiveCounts, Threads, Leaked
<1>3. CASE Accept
  <2>1. /\ UNCHANGED conn /\ active' = active + 1
        /\ accepter # "spawn" /\ accepter' = "spawn"
    BY <1>3 DEF Accept
  <2>2. QED
    BY <2>1 DEF ActiveCounts, Threads, Leaked
<1>4. CASE Spawn
  <2>1. active' = active /\ accepter = "spawn" /\ accepter' # "spawn"
    BY <1>4 DEF Spawn
  <2>2. accepted \notin Threads /\ Threads' = Threads \cup {accepted} /\ Leaked' = Leaked
    BY <1>4, SpawnMoves
  <2>3. Cardinality(Threads') = Cardinality(Threads) + 1
    BY <2>2, FS_AddElement
  <2>4. QED
    BY <2>1, <2>2, <2>3 DEF ActiveCounts
<1>5. CASE SpawnFails
  <2>1. active' = active /\ accepter = "spawn" /\ accepter' # "spawn"
    BY <1>5 DEF SpawnFails
  <2>2. accepted \notin Leaked /\ Leaked' = Leaked \cup {accepted} /\ Threads' = Threads
    BY <1>5, SpawnFailsMoves
  <2>3. Cardinality(Leaked') = Cardinality(Leaked) + 1
    BY <2>2, FS_AddElement
  <2>4. QED
    BY <2>1, <2>2, <2>3 DEF ActiveCounts
<1>6. ASSUME NEW k \in Conn, ConnThread(k) \/ ConnSend(k) PROVE ActiveCounts'
  <2>1. CASE ConnLeave(k)
    <3>1. active' = active - 1 /\ UNCHANGED accepter
      BY <2>1 DEF ConnLeave
    <3>2. k \in Threads /\ Threads' = Threads \ {k} /\ Leaked' = Leaked
      BY <2>1, LeaveMoves
    <3>3. Cardinality(Threads') = Cardinality(Threads) - 1
      BY <3>2, FS_RemoveElement
    <3>4. QED
      BY <3>1, <3>2, <3>3 DEF ActiveCounts
  <2>2. CASE ~ConnLeave(k)
    <3>1. Threads' = Threads /\ Leaked' = Leaked /\ UNCHANGED <<accepter, active>>
      BY <1>6, <2>2, ConnMoves DEF ConnThread
    <3>2. QED
      BY <3>1 DEF ActiveCounts
  <2>3. QED
    BY <2>1, <2>2
<1>7. QED
  BY <1>1, <1>2, <1>3, <1>4, <1>5, <1>6 DEF Next, Accepter
-----------------------------------------------------------------------------
(* Who has left stays away: the accepter and the workers exit for good, and *)
(* without an accepter no connection gets a thread.                         *)
LEMMA OrderedStep ==
  ASSUME SafeInv, [Next]_vars
  PROVE  Ordered'
<1> USE DEF SafeInv
<1>1. CASE OwnerStop \/ UNCHANGED vars
  BY <1>1 DEF OwnerStop, Ordered, Threads, vars, mainVars, workerVars, tcpVars
<1>2. CASE Main
  <2>1. UNCHANGED <<accepter, conn, worker>>
    BY <1>2 DEF Main, MainCheck, MainLock, MainRecv, MainAdd, MainJoin, Destroy, JoinWorkers,
      Drain, workerVars, tcpVars
  <2>2. Threads' = Threads
    BY <2>1 DEF Threads
  <2>3. CASE MainCheck \/ MainLock \/ MainRecv \/ MainAdd
    <3>1. main' \in {"lock", "join", "recv", "add", "check"}
      BY <2>3 DEF MainCheck, MainLock, MainRecv, MainAdd
    <3>2. QED
      BY <3>1 DEF Ordered
  <2>4. CASE MainJoin \/ Destroy \/ JoinWorkers
    BY <2>1, <2>4 DEF MainJoin, Destroy, JoinWorkers, Ordered
  <2>5. CASE Drain
    <3>1. main = "drain" /\ main' = "freed" /\ ~(active > 0)
      BY <2>5 DEF Drain
    <3>2. Cardinality(Threads) = 0
      BY <3>1, ThreadsFinite DEF TypeOK, ActiveCounts
    <3>3. Threads = {}
      BY <3>2, ThreadsFinite, FS_EmptySet
    <3>4. QED
      BY <2>1, <2>2, <3>1, <3>3 DEF Ordered
  <2>6. QED
    BY <1>2, <2>3, <2>4, <2>5 DEF Main
<1>3. CASE Accepter
  <2>1. accepter # "exited" /\ UNCHANGED <<main, worker>>
    BY <1>3 DEF Accepter, AccepterCheck, AcceptNothing, Accept, Spawn, SpawnFails,
      mainVars, workerVars
  <2>2. QED
    BY <2>1 DEF Ordered
<1>4. ASSUME NEW w \in Worker, WorkerThread(w) PROVE Ordered'
  <2>1. worker[w] # "exited" /\ UNCHANGED <<main, accepter, conn>>
    BY <1>4 DEF WorkerThread, WorkerCheck, WorkerPop, WorkerDone, WorkerStop, WorkerReply,
      mainVars, tcpVars
  <2>2. QED
    BY <2>1 DEF Ordered
<1>5. ASSUME NEW k \in Conn, ConnThread(k) \/ ConnSend(k) PROVE Ordered'
  <2>1. k \in Threads /\ UNCHANGED <<main, accepter, worker>>
    <3>1. CASE ConnLeave(k)
      BY <3>1, LeaveMoves DEF ConnLeave, mainVars, workerVars
    <3>2. CASE ~ConnLeave(k)
      BY <1>5, <3>2, ConnMoves DEF ConnThread, mainVars, workerVars
    <3>3. QED
      BY <3>1, <3>2
  <2>2. QED
    BY <2>1 DEF Ordered
<1>6. QED
  BY <1>1, <1>2, <1>3, <1>4, <1>5 DEF Next

LEMMA PendingStep ==
  ASSUME TypeOK, PendingIsNew, [Next]_vars
  PROVE  PendingIsNew'
<1>1. CASE OwnerStop \/ Main \/ UNCHANGED vars \/ \E w \in Worker : WorkerThread(w)
  <2>1. UNCHANGED conn
    BY <1>1, StepsOfOthers
  <2>2. UNCHANGED <<accepted, accepter>>
    BY <1>1 DEF OwnerStop, Main, MainCheck, MainLock, MainRecv, MainAdd, MainJoin, Destroy,
      JoinWorkers, Drain, WorkerThread, WorkerCheck, WorkerPop, WorkerDone, WorkerStop,
      WorkerReply, vars, tcpVars
  <2>3. QED
    BY <2>1, <2>2 DEF PendingIsNew
<1>2. CASE Accepter
  BY <1>2 DEF Accepter, AccepterCheck, AcceptNothing, Accept, Spawn, SpawnFails, PendingIsNew
<1>3. ASSUME NEW k \in Conn, ConnThread(k) \/ ConnSend(k) PROVE PendingIsNew'
  <2>1. CASE ConnLeave(k)
    BY <2>1 DEF ConnLeave, PendingIsNew, TypeOK
  <2>2. CASE ~ConnLeave(k)
    <3>1. /\ k \in Threads /\ \A j \in Conn : j # k => conn'[j] = conn[j]
          /\ UNCHANGED <<accepter, accepted>>
      BY <1>3, <2>2, ConnMoves DEF ConnThread
    <3>2. QED
      BY <3>1 DEF PendingIsNew, Threads, TypeOK
  <2>3. QED
    BY <2>1, <2>2
<1>4. QED
  BY <1>1, <1>2, <1>3 DEF Next

LEMMA SafeInvariant == Spec => []SafeInv
<1>1. Init => PendingIsNew /\ ActiveCounts /\ Ordered
  <2> SUFFICES ASSUME Init PROVE PendingIsNew /\ ActiveCounts /\ Ordered
    OBVIOUS
  <2>1. Threads = {} /\ Leaked = {}
    BY DEF Init, Threads, Leaked
  <2>2. Cardinality(Threads) = 0 /\ Cardinality(Leaked) = 0
    BY <2>1, FS_EmptySet
  <2>3. QED
    BY <2>1, <2>2 DEF Init, PendingIsNew, ActiveCounts, Ordered
<1>2. SafeInv /\ [Next]_vars => (PendingIsNew /\ ActiveCounts /\ Ordered)'
  BY CountStep, OrderedStep, PendingStep DEF SafeInv
<1>3. QED
  BY <1>1, <1>2, TypeCorrect, PTL DEF Spec, SafeInv

(* The counter ~Server waits on is the number of connection threads.        *)
THEOREM CounterCorrect == Spec => []ActiveCounts
<1>1. SafeInv => ActiveCounts
  BY DEF SafeInv
<1>2. QED
  BY <1>1, SafeInvariant, PTL

(* No thread can touch the data once ~Server has freed it.                  *)
THEOREM FreedSafely == Spec => []FreedWhenUnused
<1>1. SafeInv => FreedWhenUnused
  BY DEF SafeInv, Ordered, FreedWhenUnused, Users
<1>2. QED
  BY <1>1, SafeInvariant, PTL
-----------------------------------------------------------------------------
(* Every step of the server comes, goes, frees or leaves the users alone.   *)
LEMMA LifetimeStep ==
  ASSUME SafeInv, SafeInv', [Next]_vars
  PROVE  [L!Next]_<<Users, main = "freed">>
<1> USE ServerAssumption DEF SafeInv
<1>1. CASE OwnerStop \/ UNCHANGED vars
  BY <1>1 DEF OwnerStop, Users, Threads, vars, mainVars, workerVars, tcpVars
<1>2. CASE Main
  <2>1. UNCHANGED <<accepter, conn, worker>>
    BY <1>2 DEF Main, MainCheck, MainLock, MainRecv, MainAdd, MainJoin, Destroy, JoinWorkers,
      Drain, workerVars, tcpVars
  <2>2. Users' = Users
    BY <2>1 DEF Users, Threads
  <2>3. CASE Drain
    <3>1. main = "drain" /\ main' = "freed"
      BY <2>3 DEF Drain
    <3>2. accepter = "exited" /\ (\A w \in Worker : worker[w] = "exited") /\ Threads' = {}
      BY <2>1, <3>1 DEF Ordered
    <3>3. Users' = {}
      BY <2>1, <3>2 DEF Users
    <3>4. QED
      BY <2>2, <3>1, <3>3 DEF L!Next, L!Free
  <2>4. CASE ~Drain
    BY <1>2, <2>2, <2>4 DEF Main, MainCheck, MainLock, MainRecv, MainAdd, MainJoin, Destroy,
      JoinWorkers
  <2>5. QED
    BY <2>3, <2>4
<1>3. CASE Accepter
  <2>1. accepter # "exited" /\ main # "freed" /\ UNCHANGED <<main, worker>>
    BY <1>3 DEF Accepter, AccepterCheck, AcceptNothing, Accept, Spawn, SpawnFails,
      mainVars, workerVars, Ordered
  <2>2. CASE AccepterCheck \/ AcceptNothing \/ Accept
    <3>1. Threads' = Threads
      BY <2>2 DEF AccepterCheck, AcceptNothing, Accept, Threads
    <3>2. CASE accepter' = "exited"
      <4>1. Users' = Users \ {Nobody} /\ Nobody \in Users
        BY <2>1, <3>1, <3>2 DEF Users, Threads
      <4>2. QED
        BY <2>1, <4>1 DEF L!Next, L!Leave
    <3>3. CASE accepter' # "exited"
      BY <2>1, <3>1, <3>3 DEF Users
    <3>4. QED
      BY <3>2, <3>3
  <2>3. CASE Spawn
    <3>1. accepted \in Conn \ Threads /\ Threads' = Threads \cup {accepted}
      BY <2>3, SpawnMoves
    <3>2. accepter' # "exited"
      BY <2>3 DEF Spawn
    <3>3. accepted \notin Users /\ Users' = Users \cup {accepted}
      BY <2>1, <3>1, <3>2 DEF Users
    <3>4. QED
      BY <2>1, <3>1, <3>3 DEF L!Next, L!Enter
  <2>4. CASE SpawnFails
    <3>1. Threads' = Threads /\ accepter' # "exited"
      BY <2>4, SpawnFailsMoves DEF SpawnFails
    <3>2. QED
      BY <2>1, <3>1 DEF Users
  <2>5. QED
    BY <1>3, <2>2, <2>3, <2>4 DEF Accepter
<1>4. ASSUME NEW w \in Worker, WorkerThread(w) PROVE [L!Next]_<<Users, main = "freed">>
  <2>1. UNCHANGED <<main, accepter, conn>> /\ worker[w] # "exited"
    BY <1>4 DEF WorkerThread, WorkerCheck, WorkerPop, WorkerDone, WorkerStop, WorkerReply,
      mainVars, tcpVars
  <2>2. \A v \in Worker : v # w => worker'[v] = worker[v]
    BY <1>4 DEF TypeOK, WorkerThread, WorkerCheck, WorkerPop, WorkerDone, WorkerStop, WorkerReply
  <2>3. Threads' = Threads
    BY <2>1 DEF Threads
  <2>4. w \notin Threads /\ w # Nobody
    BY DEF Threads
  <2>5. CASE worker'[w] = "exited"
    <3>1. w \in Users /\ Users' = Users \ {w}
      BY <2>1, <2>2, <2>3, <2>4, <2>5 DEF Users
    <3>2. QED
      BY <2>1, <3>1 DEF L!Next, L!Leave
  <2>6. CASE worker'[w] # "exited"
    <3>1. Users' = Users
      BY <2>1, <2>2, <2>3, <2>6 DEF Users
    <3>2. QED
      BY <2>1, <3>1
  <2>7. QED
    BY <2>5, <2>6
<1>5. ASSUME NEW k \in Conn, ConnThread(k) \/ ConnSend(k)
      PROVE  [L!Next]_<<Users, main = "freed">>
  <2>1. CASE ConnLeave(k)
    <3>1. k \in Threads /\ Threads' = Threads \ {k} /\ UNCHANGED <<main, accepter, worker>>
      BY <2>1, LeaveMoves DEF ConnLeave, mainVars, workerVars
    <3>2. k \in Users /\ Users' = Users \ {k}
      BY <3>1 DEF Users
    <3>3. QED
      BY <3>1, <3>2 DEF L!Next, L!Leave
  <2>2. CASE ~ConnLeave(k)
    <3>1. Threads' = Threads /\ UNCHANGED <<main, accepter, worker>>
      BY <1>5, <2>2, ConnMoves DEF ConnThread, mainVars, workerVars
    <3>2. QED
      BY <3>1 DEF Users
  <2>3. QED
    BY <2>1, <2>2
<1>6. QED
  BY <1>1, <1>2, <1>3, <1>4, <1>5 DEF Next

(* The server implements Lifetime: its data outlives every thread that      *)
(* uses it, and once it is freed nobody comes any more.                     *)
THEOREM ImplementsLifetime == Spec => DataOutlivesUsers
<1>1. Init => L!Init
  BY DEF Init, L!Init, Users, Threads
<1>2. QED
  BY <1>1, LifetimeStep, SafeInvariant, PTL DEF Spec, DataOutlivesUsers, L!Spec
=============================================================================
