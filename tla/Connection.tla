----------------------------- MODULE Connection -----------------------------
(***************************************************************************)
(* The calls of the game's client over its TCP connection                  *)
(* (server/NetworkClient.hpp, util/sockets/TCPSocket.hpp) and the thread   *)
(* that serves a connection (handle_connection in server/Server.hpp).      *)
(*                                                                         *)
(* A connection carries a stream of pieces each way. A message is cut into *)
(* pieces of which only the first tells the kind and the length, as        *)
(* Interface::message_length finds them; a read takes any non-empty prefix *)
(* of what has arrived. A connection may be lost at any moment, with any   *)
(* suffix of what was under way: cut, so that both ends are told, or       *)
(* silently, and then a read at either end only times out, for no end      *)
(* sends anything to find out.                                             *)
(***************************************************************************)
EXTENDS Integers, Sequences, FiniteSets, SequencesExt

CONSTANTS
  Kind,        \* what the client asks for: ping, login, puzzle
  AskSize,     \* pieces of a request of a kind
  AnswerSize,  \* pieces of its answer
  MaxCalls,    \* bound on the calls
  MaxSockets   \* bound on the connections made

ASSUME ConnectionAssumption ==
  /\ AskSize \in [Kind -> Nat \ {0}] /\ AnswerSize \in [Kind -> Nat \ {0}]
  /\ MaxCalls \in Nat /\ MaxSockets \in Nat

Call == 1..MaxCalls
Socket == 1..MaxSockets

VARIABLES
  call,       \* the client: idle, sending, receiving
  asked,      \* the kind of every call so far; the last may be in progress
  outcome,    \* how each finished call ended
  connected,  \* tcp_connected
  socket,     \* tcp: the last socket that was connected, 0 when there was none
  rx,         \* tcp_rx_buffer
  stray,      \* unexpected_responses: how many
  inStep,     \* history: every socket so far began with an empty tcp_rx_buffer
  link,       \* each connection: none, open, left by the client, cut, silent
  toServer,   \* what is under way to the server
  toClient,   \* what is under way to the client
  server,     \* running; stopping: Data::running is false; gone
  thread,     \* the thread of each connection: none, reading, answering, closed;
              \* missing: it could not be started
  buffer,     \* what it has buffered
  handled,    \* history: the requests the server acted on, in its order
  refused     \* history: those it gives no answer to

clientVars == <<call, asked, outcome, connected, socket, rx, stray, inStep>>
linkVars == <<link, toServer, toClient>>
serverVars == <<server, thread, buffer, handled, refused>>
vars == <<clientVars, linkVars, serverVars>>

(* The pieces of the request of call n, and of the answer to it.            *)
Pieces(n, size) == [i \in 1..size |-> [of |-> n, i |-> i]]
Ask(n) == Pieces(n, AskSize[asked[n]])
Answer(n) == Pieces(n, AnswerSize[asked[n]])

After(s, i) == SubSeq(s, i + 1, Len(s))
Number == Len(asked)

Init ==
  /\ call = "idle" /\ asked = <<>> /\ outcome = <<>>
  /\ connected = FALSE /\ socket = 0
  /\ rx = <<>> /\ stray = 0 /\ inStep = TRUE
  /\ link = [k \in Socket |-> "none"]
  /\ toServer = [k \in Socket |-> <<>>] /\ toClient = [k \in Socket |-> <<>>]
  /\ server = "running"
  /\ thread = [k \in Socket |-> "none"]
  /\ buffer = [k \in Socket |-> <<>>]
  /\ handled = <<>> /\ refused = {}
-----------------------------------------------------------------------------
(* ping(), login(), puzzle(): connect if need be, send, wait for the answer.*)
Begin ==
  /\ call = "idle" /\ Number < MaxCalls
  /\ connected \/ socket < MaxSockets
  /\ \E kind \in Kind : asked' = Append(asked, kind)
  /\ call' = "sending"
  /\ UNCHANGED <<outcome, connected, socket, rx, stray, inStep, linkVars, serverVars>>

(* The client drops its old socket as it makes a new one.                   *)
Left == [k \in Socket |-> IF link[k] = "open" /\ k = socket THEN "left" ELSE link[k]]

(* ensure_tcp: the buffer keeps what the last connection left in it. The    *)
(* listening socket takes connections until the server is gone.             *)
EnsureTcp ==
  /\ call = "sending" /\ ~connected
  /\ server # "gone"
  /\ socket < MaxSockets
  /\ link' = [Left EXCEPT ![socket + 1] = "open"]
  /\ socket' = socket + 1
  /\ connected' = TRUE
  /\ inStep' = (inStep /\ rx = <<>>)
  /\ UNCHANGED <<call, asked, outcome, rx, stray, toServer, toClient, serverVars>>

(* A call ends. *)
Returns(o) ==
  /\ call' = "idle"
  /\ outcome' = Append(outcome, o)

(* connect() throws: the server is gone, or the network does not reach it.  *)
ConnectFails ==
  /\ call = "sending" /\ ~connected
  /\ link' = Left
  /\ Returns("failed")
  /\ UNCHANGED <<asked, connected, socket, rx, stray, inStep, toServer, toClient, serverVars>>

(* On a connection that is silently lost, send() succeeds too.              *)
Send ==
  /\ call = "sending" /\ connected
  /\ link[socket] # "cut"
  /\ toServer' = IF link[socket] = "open"
                 THEN [toServer EXCEPT ![socket] = @ \o Ask(Number)]
                 ELSE toServer
  /\ call' = "receiving"
  /\ UNCHANGED <<asked, outcome, connected, socket, rx, stray, inStep,
                 link, toClient, serverVars>>

(* The client is told that the other end has closed or reset the connection.*)
EndSeen == \/ link[socket] = "cut"
           \/ link[socket] = "open" /\ thread[socket] = "closed"

(* Mutant of SendFails: the call is counted as failed and goes on.          *)
SendFailsOn ==
  /\ call = "sending" /\ connected
  /\ EndSeen
  /\ connected' = FALSE
  /\ outcome' = Append(outcome, "failed")
  /\ UNCHANGED <<call, asked, socket, rx, stray, inStep, linkVars, serverVars>>

(* The exception of send() ends the call.                                   *)
SendFails ==
  /\ call = "sending" /\ connected
  /\ EndSeen
  /\ connected' = FALSE
  /\ Returns("failed")
  /\ UNCHANGED <<asked, socket, rx, stray, inStep, linkVars, serverVars>>
-----------------------------------------------------------------------------
(* recieve_tcp: take a whole message from the buffer, or read more.         *)
HeadKnown == rx # <<>> /\ rx[1].i = 1
HeadKind == asked[rx[1].of]
HeadSize == AnswerSize[HeadKind]
Whole == HeadKnown /\ Len(rx) >= HeadSize

(* A message of the kind that is waited for ends the call; another is put   *)
(* aside and never looked at again.                                         *)
Take ==
  /\ call = "receiving" /\ Whole
  /\ rx' = After(rx, HeadSize)
  /\ IF HeadKind = asked[Number]
     THEN /\ Returns(IF SubSeq(rx, 1, HeadSize) = Answer(Number) THEN "own" ELSE "other")
          /\ UNCHANGED stray
     ELSE stray' = stray + 1 /\ UNCHANGED <<call, outcome>>
  /\ UNCHANGED <<asked, connected, socket, inStep, linkVars, serverVars>>

(* The buffer begins in the middle of a message: its bits may claim any     *)
(* kind, and any length within what is there or beyond it. A claim that is  *)
(* too long for the response leaves the buffer as it is.                    *)
TakeGarbled ==
  /\ call = "receiving" /\ rx # <<>> /\ ~HeadKnown
  /\ \/ /\ \E n \in 1..Len(rx) : rx' = After(rx, n)
        /\ \/ Returns("other") /\ UNCHANGED stray
           \/ stray' = stray + 1 /\ UNCHANGED <<call, outcome>>
        /\ UNCHANGED connected
     \/ /\ connected' = FALSE
        /\ Returns("none")
        /\ UNCHANGED <<rx, stray>>
  /\ UNCHANGED <<asked, socket, inStep, linkVars, serverVars>>

(* recv returns what has arrived, or some of it.                            *)
Receive ==
  /\ call = "receiving" /\ ~Whole
  /\ \E n \in 1..Len(toClient[socket]) :
       /\ rx' = rx \o SubSeq(toClient[socket], 1, n)
       /\ toClient' = [toClient EXCEPT ![socket] = After(@, n)]
  /\ UNCHANGED <<call, asked, outcome, connected, socket, stray, inStep,
                 link, toServer, serverVars>>

(* Mutant of ReceiveEnd: the end of the stream is taken for a time-out.     *)
ReceiveNoEnd ==
  /\ call = "receiving" /\ ~Whole
  /\ toClient[socket] = <<>> /\ link[socket] = "cut"
  /\ connected' = FALSE
  /\ Returns("none")
  /\ UNCHANGED <<asked, socket, rx, stray, inStep, linkVars, serverVars>>

(* recv returns 0, or an error that is no time-out: the caller makes a      *)
(* default answer of it. A time-out only reads again.                       *)
ReceiveEnd ==
  /\ call = "receiving" /\ ~Whole
  /\ toClient[socket] = <<>>
  /\ EndSeen
  /\ connected' = FALSE
  /\ Returns("none")
  /\ UNCHANGED <<asked, socket, rx, stray, inStep, linkVars, serverVars>>
-----------------------------------------------------------------------------
(* The network loses a connection and any suffix of what is under way. The  *)
(* ends of one that was lost silently may still be told later, or never.    *)
Lose(k, how) ==
  /\ link' = [link EXCEPT ![k] = how]
  /\ \E s \in Prefixes(toServer[k]) : toServer' = [toServer EXCEPT ![k] = s]
  /\ \E s \in Prefixes(toClient[k]) : toClient' = [toClient EXCEPT ![k] = s]
  /\ UNCHANGED <<clientVars, serverVars>>

Cut(k) == link[k] \in {"open", "silent"} /\ Lose(k, "cut")

GoSilent(k) == link[k] = "open" /\ Lose(k, "silent")

Loses(k) == Cut(k) \/ GoSilent(k)
-----------------------------------------------------------------------------
(* The server accepts a connection: the last one it takes may find that it  *)
(* is stopping.                                                             *)
Accept(k) ==
  /\ server # "gone"
  /\ link[k] # "none" /\ thread[k] = "none"
  /\ thread' = [thread EXCEPT ![k] = "reading"]
  /\ UNCHANGED <<clientVars, linkVars, server, buffer, handled, refused>>

(* The constructor of the thread throws: the accepting thread goes on, and  *)
(* nobody reads the socket or closes it.                                    *)
AcceptFails(k) ==
  /\ server # "gone"
  /\ link[k] # "none" /\ thread[k] = "none"
  /\ thread' = [thread EXCEPT ![k] = "missing"]
  /\ UNCHANGED <<clientVars, linkVars, server, buffer, handled, refused>>

Asking(k) == asked[buffer[k][1].of]
WholeAsk(k) == buffer[k] # <<>> /\ Len(buffer[k]) >= AskSize[Asking(k)]

(* handle_connection: between two messages it looks at Data::running.       *)
Read(k) ==
  /\ thread[k] = "reading" /\ ~WholeAsk(k)
  /\ server = "running"
  /\ \E n \in 1..Len(toServer[k]) :
       /\ buffer' = [buffer EXCEPT ![k] = @ \o SubSeq(toServer[k], 1, n)]
       /\ toServer' = [toServer EXCEPT ![k] = After(@, n)]
  /\ UNCHANGED <<clientVars, link, toClient, server, thread, handled, refused>>

(* Mutant of Process: a request that is refused stays in the buffer.        *)
ProcessKeeps(k) ==
  /\ thread[k] = "reading" /\ WholeAsk(k)
  /\ server = "running"
  /\ handled' = Append(handled, buffer[k][1].of)
  /\ \/ thread' = [thread EXCEPT ![k] = "answering"] /\ UNCHANGED <<buffer, refused>>
     \/ refused' = refused \cup {buffer[k][1].of} /\ UNCHANGED <<thread, buffer>>
  /\ UNCHANGED <<clientVars, linkVars, server>>

(* process_tcp_message: the handler acts on the request, and answers; or a  *)
(* rate limit, a wrong captcha or password, or an exception ends it without *)
(* a word to the client.                                                    *)
Process(k) ==
  /\ thread[k] = "reading" /\ WholeAsk(k)
  /\ server = "running"
  /\ handled' = Append(handled, buffer[k][1].of)
  /\ \/ thread' = [thread EXCEPT ![k] = "answering"] /\ UNCHANGED <<buffer, refused>>
     \/ /\ refused' = refused \cup {buffer[k][1].of}
        /\ buffer' = [buffer EXCEPT ![k] = After(@, AskSize[Asking(k)])]
        /\ UNCHANGED thread
  /\ UNCHANGED <<clientVars, linkVars, server>>

(* Mutant of SendAnswer: the answer goes to the newest connection.          *)
SendAnswerNewest(k) ==
  /\ thread[k] = "answering"
  /\ toClient' = [toClient EXCEPT ![socket] = @ \o Answer(buffer[k][1].of)]
  /\ buffer' = [buffer EXCEPT ![k] = After(@, AskSize[Asking(k)])]
  /\ thread' = [thread EXCEPT ![k] = "reading"]
  /\ UNCHANGED <<clientVars, link, toServer, server, handled, refused>>

(* send_tcp: on a lost connection nothing arrives; if it throws, the        *)
(* exception is swallowed.                                                  *)
SendAnswer(k) ==
  /\ thread[k] = "answering"
  /\ toClient' = IF link[k] = "open"
                 THEN [toClient EXCEPT ![k] = @ \o Answer(buffer[k][1].of)]
                 ELSE toClient
  /\ buffer' = [buffer EXCEPT ![k] = After(@, AskSize[Asking(k)])]
  /\ thread' = [thread EXCEPT ![k] = "reading"]
  /\ UNCHANGED <<clientVars, link, toServer, server, handled, refused>>

(* The loop ends: the server stops, or there is nothing more to receive and *)
(* the thread is told so.                                                   *)
Close(k) ==
  /\ thread[k] = "reading"
  /\ \/ server = "stopping"
     \/ ~WholeAsk(k) /\ toServer[k] = <<>> /\ link[k] \in {"left", "cut"}
  /\ thread' = [thread EXCEPT ![k] = "closed"]
  /\ buffer' = [buffer EXCEPT ![k] = <<>>]
  /\ UNCHANGED <<clientVars, linkVars, server, handled, refused>>

Stop ==
  /\ server = "running"
  /\ server' = "stopping"
  /\ UNCHANGED <<clientVars, linkVars, thread, buffer, handled, refused>>

(* ~Server, once the threads have ended; it waits for ever for one that was *)
(* counted and never started. Closing the listening socket resets the       *)
(* connections nobody accepted.                                             *)
Gone ==
  /\ server = "stopping"
  /\ \A k \in Socket : thread[k] \in {"none", "closed"}
  /\ server' = "gone"
  /\ link' = [k \in Socket |-> IF thread[k] = "none" /\ link[k] = "open"
                               THEN "cut" ELSE link[k]]
  /\ UNCHANGED <<clientVars, toServer, toClient, thread, buffer, handled, refused>>
-----------------------------------------------------------------------------
Sending == EnsureTcp \/ ConnectFails \/ Send \/ SendFails
Receiving == Take \/ TakeGarbled \/ Receive \/ ReceiveEnd
Client == Begin \/ Sending \/ Receiving
TakeUp(k) == Accept(k) \/ AcceptFails(k)
Serve(k) == Read(k) \/ Process(k) \/ SendAnswer(k) \/ Close(k)

Next ==
  \/ Client
  \/ \E k \in Socket : Loses(k) \/ TakeUp(k) \/ Serve(k)
  \/ Stop \/ Gone

Spec == Init /\ [][Next]_vars

(* A thread that can take a step takes one: the threads of the client and   *)
(* of the connections, the accepting thread while the server runs, and the  *)
(* one that destroys the server (its end is the subject of Server).         *)
FairSpec ==
  /\ Spec
  /\ WF_vars(Sending) /\ WF_vars(Receiving)
  /\ \A k \in Socket : WF_vars(server = "running" /\ TakeUp(k)) /\ WF_vars(Serve(k))
  /\ WF_vars(Gone)
-----------------------------------------------------------------------------
Piece == [of : Call, i : Nat]

TypeOK ==
  /\ call \in {"idle", "sending", "receiving"}
  /\ asked \in Seq(Kind) /\ Number <= MaxCalls
  /\ outcome \in Seq({"own", "other", "none", "failed"})
  /\ Len(outcome) = IF call = "idle" THEN Number ELSE Number - 1
  /\ connected \in BOOLEAN /\ socket \in 0..MaxSockets
  /\ connected => socket # 0
  /\ rx \in Seq(Piece) /\ stray \in Nat /\ inStep \in BOOLEAN
  /\ link \in [Socket -> {"none", "open", "left", "cut", "silent"}]
  /\ toServer \in [Socket -> Seq(Piece)] /\ toClient \in [Socket -> Seq(Piece)]
  /\ server \in {"running", "stopping", "gone"}
  /\ thread \in [Socket -> {"none", "reading", "answering", "closed", "missing"}]
  /\ buffer \in [Socket -> Seq(Piece)]
  /\ handled \in Seq(1..Number) /\ refused \subseteq 1..Number

(* While every connection began with an empty buffer, nothing is ever put   *)
(* aside in unexpected_responses: what arrives answers the call that waits. *)
NothingStray == inStep => stray = 0

(* What the server has buffered begins with the beginning of a request.     *)
ServerInStep == \A k \in Socket : buffer[k] # <<>> => buffer[k][1].i = 1

(* Both ends keep their place in the streams, whatever is split, cut off or *)
(* left unanswered: the server always, the client as long as no connection  *)
(* began with the rest of another one in its buffer.                        *)
KeepsPlace == NothingStray /\ ServerInStep

(* A call gets the answer to itself, after the server has acted on its      *)
(* request, and the server acts on a request at most once, as long as every *)
(* connection began with an empty buffer.                                   *)
E == INSTANCE Exchange WITH waiting <- call # "idle", number <- Number
IsExchange == E!Spec

(* Nothing comes from the server any more and the client is not told: the   *)
(* connection is lost silently, or its thread is missing, or nobody has     *)
(* accepted it and the missing thread of another keeps a server that stops  *)
(* from closing it.                                                         *)
Deserted ==
  /\ call = "receiving" /\ ~Whole
  /\ toClient[socket] = <<>>
  /\ \/ link[socket] = "silent"
     \/ thread[socket] = "missing"
     \/ /\ thread[socket] = "none" /\ server = "stopping"
        /\ \E k \in Socket : thread[k] = "missing"

(* A call that waits for an answer ends, with one or without, unless the    *)
(* server has refused its request or the connection is deserted: a time-out *)
(* only makes the client read again (NetworkClient.hpp:288-293).            *)
CallsEnd ==
  (call = "receiving" /\ inStep) ~> (call = "idle" \/ Number \in refused \/ Deserted)

=============================================================================
