------------------------------- MODULE Server -------------------------------
(***************************************************************************)
(* The threads of the game server (server/Server.hpp) and how it stops:    *)
(* the thread of run() that receives datagrams and later destroys the      *)
(* Server, the workers that pop and handle them, the thread that accepts   *)
(* TCP connections, and one detached thread per connection.                *)
(*                                                                         *)
(* One action is one step of a thread between two accesses to shared       *)
(* state, or one system call. Data::running is a plain bool that every     *)
(* loop reads between system calls and locks: reads and writes of it are   *)
(* single steps.                                                           *)
(***************************************************************************)
EXTENDS Integers, Sequences, FiniteSets

CONSTANTS
  Worker,        \* worker threads
  Conn,          \* connections the listening socket may ever accept (a bound)
  Stalled,       \* those whose client stops reading: a send to it may block for ever
  SpawnMayFail,  \* whether the system may refuse a thread for a connection
  MaxRequests,   \* bound on the datagrams received
  Nobody         \* a free lock, no request, no connection

Request == {"stop", "other"}

(* short: no whole message yet; bad: malformed, or beyond MAX_TCP_BUFFER.   *)
Buffer == {"short", "message", "bad"}

ASSUME ServerAssumption ==
  /\ IsFiniteSet(Conn) /\ Stalled \subseteq Conn
  /\ Worker \cap Conn = {}
  /\ SpawnMayFail \in BOOLEAN /\ MaxRequests \in Nat
  /\ Nobody \notin Worker \cup Conn /\ Nobody \notin Request

VARIABLES
  running,   \* Data::running
  queue,     \* Data::client_requests
  main,      \* the thread of run() and of ~Server
  received,  \* the datagram run() holds, and how many it has received
  count,
  udpLock,   \* whether the thread of run() holds the lock of Data::udp_socket
  worker,    \* where each worker is
  request,   \* the request it handles
  accepter,  \* the thread of tcp_thread
  accepted,  \* the connection it has accepted
  conn,      \* where the thread of each connection is
  buffer,    \* what each connection has buffered
  active     \* active_tcp_connections

vars == <<running, queue, main, received, count, udpLock, worker, request,
          accepter, accepted, conn, buffer, active>>

mainVars == <<main, received, count>>
workerVars == <<worker, request>>
tcpVars == <<accepter, accepted, conn, buffer, active>>

Init ==
  /\ running = TRUE
  /\ queue = <<>>
  /\ main = "check" /\ received = Nobody /\ count = 0
  /\ udpLock = FALSE
  /\ worker = [w \in Worker |-> "check"]
  /\ request = [w \in Worker |-> Nobody]
  /\ accepter = "check" /\ accepted = Nobody
  /\ conn = [k \in Conn |-> "none"]
  /\ buffer = [k \in Conn |-> "short"]
  /\ active = 0

(* The owner of the Server stops it, as the tests do.                       *)
OwnerStop ==
  /\ running
  /\ running' = FALSE
  /\ UNCHANGED <<queue, mainVars, udpLock, workerVars, tcpVars>>
-----------------------------------------------------------------------------
(* run(): receive under the lock of the socket, then queue the request.     *)
MainCheck ==
  /\ main = "check"
  /\ main' = IF running THEN "lock" ELSE "join"
  /\ UNCHANGED <<running, queue, received, count, udpLock, workerVars, tcpVars>>

MainLock ==
  /\ main = "lock"
  /\ udpLock' = TRUE
  /\ main' = "recv"
  /\ UNCHANGED <<running, queue, received, count, workerVars, tcpVars>>

(* Mutant of MainRecv: a time-out leaves the socket locked.                 *)
MainRecvKeepsLock ==
  /\ main = "recv"
  /\ \/ /\ count < MaxRequests
        /\ received' \in Request
        /\ count' = count + 1
        /\ main' = "add"
        /\ udpLock' = FALSE
     \/ main' = "check" /\ UNCHANGED <<received, count, udpLock>>
  /\ UNCHANGED <<running, queue, workerVars, tcpVars>>

(* recvfrom returns a datagram, or times out.                               *)
MainRecv ==
  /\ main = "recv"
  /\ \/ /\ count < MaxRequests
        /\ received' \in Request
        /\ count' = count + 1
        /\ main' = "add"
     \/ main' = "check" /\ UNCHANGED <<received, count>>
  /\ udpLock' = FALSE
  /\ UNCHANGED <<running, queue, workerVars, tcpVars>>

(* Mutant of MainAdd: the request is reset before it is queued.             *)
MainAddReset ==
  /\ main = "add"
  /\ queue' = Append(queue, Nobody)
  /\ received' = Nobody
  /\ main' = "check"
  /\ UNCHANGED <<running, count, udpLock, workerVars, tcpVars>>

MainAdd ==
  /\ main = "add"
  /\ queue' = Append(queue, received)
  /\ received' = Nobody
  /\ main' = "check"
  /\ UNCHANGED <<running, count, udpLock, workerVars, tcpVars>>

MainJoin ==
  /\ main = "join"
  /\ accepter = "exited"
  /\ main' = "returned"
  /\ UNCHANGED <<running, queue, received, count, udpLock, workerVars, tcpVars>>

(* ~Server                                                                  *)
Destroy ==
  /\ main = "returned"
  /\ running' = FALSE
  /\ main' = "join_workers"
  /\ UNCHANGED <<queue, received, count, udpLock, workerVars, tcpVars>>

(* Mutant of JoinWorkers: the workers are not waited for.                   *)
JoinNobody ==
  /\ main = "join_workers"
  /\ main' = "drain"
  /\ UNCHANGED <<running, queue, received, count, udpLock, workerVars, tcpVars>>

JoinWorkers ==
  /\ main = "join_workers"
  /\ \A w \in Worker : worker[w] = "exited"
  /\ main' = "drain"
  /\ UNCHANGED <<running, queue, received, count, udpLock, workerVars, tcpVars>>

(* Mutant of Drain: detached threads are not waited for.                    *)
DrainNothing ==
  /\ main = "drain"
  /\ main' = "freed"
  /\ UNCHANGED <<running, queue, received, count, udpLock, workerVars, tcpVars>>

Drain ==
  /\ main = "drain"
  /\ ~(active > 0)
  /\ main' = "freed"
  /\ UNCHANGED <<running, queue, received, count, udpLock, workerVars, tcpVars>>

Main ==
  MainCheck \/ MainLock \/ MainRecv \/ MainAdd \/ MainJoin \/ Destroy \/ JoinWorkers \/ Drain
-----------------------------------------------------------------------------
WorkerCheck(w) ==
  /\ worker[w] = "check"
  /\ worker' = [worker EXCEPT ![w] = IF running THEN "pop" ELSE "exited"]
  /\ UNCHANGED <<running, queue, mainVars, udpLock, request, tcpVars>>

(* Mutant of WorkerPop: the request is read but stays in the queue.         *)
WorkerPeek(w) ==
  /\ worker[w] = "pop"
  /\ IF queue = <<>>
       THEN worker' = [worker EXCEPT ![w] = "check"] /\ UNCHANGED request
       ELSE /\ request' = [request EXCEPT ![w] = Head(queue)]
            /\ worker' = [worker EXCEPT ![w] = "handle"]
  /\ UNCHANGED <<running, queue, mainVars, udpLock, tcpVars>>

(* pop_client_request: condition variables are never waited for.            *)
WorkerPop(w) ==
  /\ worker[w] = "pop"
  /\ IF queue = <<>>
       THEN worker' = [worker EXCEPT ![w] = "check"] /\ UNCHANGED <<queue, request>>
       ELSE /\ request' = [request EXCEPT ![w] = Head(queue)]
            /\ queue' = Tail(queue)
            /\ worker' = [worker EXCEPT ![w] = "handle"]
  /\ UNCHANGED <<running, mainVars, udpLock, tcpVars>>

(* A request that is too short, too frequent, refused, or not STOP.         *)
WorkerDone(w) ==
  /\ worker[w] = "handle"
  /\ worker' = [worker EXCEPT ![w] = "check"]
  /\ request' = [request EXCEPT ![w] = Nobody]
  /\ UNCHANGED <<running, queue, mainVars, udpLock, tcpVars>>

(* STOP from a player with permission.                                      *)
WorkerStop(w) ==
  /\ worker[w] = "handle"
  /\ request[w] = "stop"
  /\ running' = FALSE
  /\ worker' = [worker EXCEPT ![w] = "reply"]
  /\ UNCHANGED <<queue, mainVars, udpLock, request, tcpVars>>

(* Data::send needs the lock that run() holds while it waits for datagrams. *)
WorkerReply(w) ==
  /\ worker[w] = "reply"
  /\ ~udpLock
  /\ worker' = [worker EXCEPT ![w] = "check"]
  /\ request' = [request EXCEPT ![w] = Nobody]
  /\ UNCHANGED <<running, queue, mainVars, udpLock, tcpVars>>

WorkerThread(w) ==
  WorkerCheck(w) \/ WorkerPop(w) \/ WorkerDone(w) \/ WorkerStop(w) \/ WorkerReply(w)
-----------------------------------------------------------------------------
AccepterCheck ==
  /\ accepter = "check"
  /\ accepter' = IF running THEN "accept" ELSE "exited"
  /\ UNCHANGED <<running, queue, mainVars, udpLock, workerVars, accepted, conn, buffer, active>>

(* acceptConnection times out or throws, or a client has connected.         *)
AcceptNothing ==
  /\ accepter = "accept"
  /\ accepter' = "check"
  /\ UNCHANGED <<running, queue, mainVars, udpLock, workerVars, accepted, conn, buffer, active>>

(* Mutant of Accept: the counter is not raised before the thread exists.    *)
AcceptUncounted ==
  /\ accepter = "accept"
  /\ \E k \in Conn : conn[k] = "none" /\ accepted' = k
  /\ accepter' = "spawn"
  /\ UNCHANGED <<running, queue, mainVars, udpLock, workerVars, conn, buffer, active>>

Accept ==
  /\ accepter = "accept"
  /\ \E k \in Conn : conn[k] = "none" /\ accepted' = k
  /\ active' = active + 1
  /\ accepter' = "spawn"
  /\ UNCHANGED <<running, queue, mainVars, udpLock, workerVars, conn, buffer>>

Spawn ==
  /\ accepter = "spawn"
  /\ conn' = [conn EXCEPT ![accepted] = "check"]
  /\ accepted' = Nobody
  /\ accepter' = "check"
  /\ UNCHANGED <<running, queue, mainVars, udpLock, workerVars, buffer, active>>

(* The constructor of thread throws; the counter has been raised already,   *)
(* and the socket stays open without a thread.                              *)
SpawnFails ==
  /\ SpawnMayFail
  /\ accepter = "spawn"
  /\ conn' = [conn EXCEPT ![accepted] = "leaked"]
  /\ accepted' = Nobody
  /\ accepter' = "check"
  /\ UNCHANGED <<running, queue, mainVars, udpLock, workerVars, buffer, active>>

Accepter == AccepterCheck \/ AcceptNothing \/ Accept \/ Spawn \/ SpawnFails
-----------------------------------------------------------------------------

(* Mutant of ConnCheck: an idle connection reads on although the server     *)
(* stops.                                                                   *)
ConnCheckForever(k) ==
  /\ conn[k] = "check"
  /\ conn' = [conn EXCEPT ![k] = IF buffer[k] = "bad" THEN "close"
                                 ELSE IF buffer[k] = "message" THEN "handle"
                                 ELSE "recv"]
  /\ UNCHANGED <<running, queue, mainVars, udpLock, workerVars, accepter, accepted, buffer, active>>

(* The head of handle_connection's loop.                                    *)
ConnCheck(k) ==
  /\ conn[k] = "check"
  /\ conn' = [conn EXCEPT ![k] = IF ~running \/ buffer[k] = "bad" THEN "close"
                                 ELSE IF buffer[k] = "message" THEN "handle"
                                 ELSE "recv"]
  /\ UNCHANGED <<running, queue, mainVars, udpLock, workerVars, accepter, accepted, buffer, active>>

(* recv returns bytes, times out (the connection stays), or ends it.        *)
ConnRecv(k) ==
  /\ conn[k] = "recv"
  /\ \/ /\ buffer' \in {[buffer EXCEPT ![k] = b] : b \in Buffer}
        /\ conn' = [conn EXCEPT ![k] = "check"]
     \/ conn' = [conn EXCEPT ![k] = "close"] /\ UNCHANGED buffer
  /\ UNCHANGED <<running, queue, mainVars, udpLock, workerVars, accepter, accepted, active>>

(* process_tcp_message, up to the reply if there is one; then the message   *)
(* is erased and what came after it is left.                                *)
ConnHandle(k) ==
  /\ conn[k] = "handle"
  /\ \E b \in Buffer, next \in {"send", "check"} :
       /\ buffer' = [buffer EXCEPT ![k] = b]
       /\ conn' = [conn EXCEPT ![k] = next]
  /\ UNCHANGED <<running, queue, mainVars, udpLock, workerVars, accepter, accepted, active>>

(* send returns, or fails with an exception that process_tcp_message drops. *)
ConnSend(k) ==
  /\ conn[k] = "send"
  /\ conn' = [conn EXCEPT ![k] = "check"]
  /\ UNCHANGED <<running, queue, mainVars, udpLock, workerVars, accepter, accepted, buffer, active>>

ConnClose(k) ==
  /\ conn[k] = "close"
  /\ conn' = [conn EXCEPT ![k] = "leave"]
  /\ buffer' = [buffer EXCEPT ![k] = "short"]
  /\ UNCHANGED <<running, queue, mainVars, udpLock, workerVars, accepter, accepted, active>>

(* The last access of the thread to the Server.                             *)
ConnLeave(k) ==
  /\ conn[k] = "leave"
  /\ conn' = [conn EXCEPT ![k] = "gone"]
  /\ active' = active - 1
  /\ UNCHANGED <<running, queue, mainVars, udpLock, workerVars, accepter, accepted, buffer>>

ConnThread(k) ==
  ConnCheck(k) \/ ConnRecv(k) \/ ConnHandle(k) \/ ConnClose(k) \/ ConnLeave(k)
-----------------------------------------------------------------------------
Next ==
  \/ OwnerStop \/ Main \/ Accepter
  \/ \E w \in Worker : WorkerThread(w)
  \/ \E k \in Conn : ConnThread(k) \/ ConnSend(k)

(* The system schedules every thread, and every call that can block returns *)
(* by its timeout; only a send has none, and ends when the client reads.    *)
Fairness ==
  /\ WF_vars(Main) /\ WF_vars(Accepter)
  /\ \A w \in Worker : WF_vars(WorkerThread(w))
  /\ \A k \in Conn : WF_vars(ConnThread(k))
  /\ \A k \in Conn \ Stalled : WF_vars(ConnSend(k))

Spec == Init /\ [][Next]_vars

FairSpec == Spec /\ Fairness
-----------------------------------------------------------------------------
(* Threads a connection has, from its first step to its last.               *)
Threads == {k \in Conn : conn[k] \notin {"none", "gone", "leaked"}}
Leaked == {k \in Conn : conn[k] = "leaked"}

(* Every thread is at one of its steps (Server.hpp:82-316).                 *)
TypeOK ==
  /\ running \in BOOLEAN
  /\ queue \in Seq(Request)
  /\ main \in {"check", "lock", "recv", "add", "join", "returned", "join_workers", "drain", "freed"}
  /\ received \in Request \cup {Nobody} /\ (main = "add" => received \in Request)
  /\ count \in Nat
  /\ udpLock \in BOOLEAN
  /\ worker \in [Worker -> {"check", "pop", "handle", "reply", "exited"}]
  /\ request \in [Worker -> Request \cup {Nobody}]
  /\ accepter \in {"check", "accept", "spawn", "exited"}
  /\ accepted \in Conn \cup {Nobody} /\ (accepter = "spawn" => accepted \in Conn)
  /\ conn \in [Conn -> {"none", "check", "recv", "handle", "send", "close", "leave", "gone", "leaked"}]
  /\ buffer \in [Conn -> Buffer]
  /\ active \in Int

(* The threads that may still touch the Server.                             *)
Users ==
  {w \in Worker : worker[w] # "exited"} \cup Threads
  \cup (IF accepter = "exited" THEN {} ELSE {Nobody})

(* ~Server frees the data when no thread can touch it any more: workers     *)
(* joined, the accepter joined by run(), and the detached connection        *)
(* threads past their last access (Server.hpp:110, "wait for them to unwind *)
(* before freeing data").                                                   *)
FreedWhenUnused == main = "freed" => Users = {}

(* active_tcp_connections counts the threads of connections, the one being  *)
(* created, and those whose creation failed: so a zero seen by ~Server      *)
(* means that no thread is left.                                            *)
ActiveCounts ==
  active = Cardinality(Threads) + Cardinality(Leaked) + (IF accepter = "spawn" THEN 1 ELSE 0)

(* The data outlives its users: the Server implements Lifetime.             *)
L == INSTANCE Lifetime WITH User <- Worker \cup Conn \cup {Nobody},
                            users <- Users, freed <- main = "freed"
DataOutlivesUsers == L!Spec

(* A stopped server comes to its end, whichever thread does what when it is *)
(* stopped (Server.hpp:104-115); only a thread that could not be created,   *)
(* whose count stays, or a send to a client that does not read can hold it, *)
(* and then in the last wait.                                               *)
Held == main = "drain" /\ (Leaked # {} \/ \E k \in Stalled : conn[k] = "send")
ShutdownCompletes == ~running ~> main = "freed" \/ Held

(* The admin who stops the server is answered, although run() holds the     *)
(* lock of the socket while it waits for datagrams, and before the data is  *)
(* freed (Stop.hpp:55-60).                                                  *)
StopIsAnswered == \A w \in Worker : worker[w] = "reply" ~> worker[w] = "check" /\ main # "freed"

(* While the server runs, a queued request is handled however few workers   *)
(* there are: nobody waits for the condition variable, so no wake-up can be *)
(* lost (Data.hpp:206-223).                                                 *)
BacklogDrains == Len(queue) > 0 ~> Len(queue) = 0 \/ ~running
=============================================================================
