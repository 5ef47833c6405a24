------------------------------ MODULE Accounts ------------------------------
(***************************************************************************)
(* The account and session maps of the game server (server/Data.hpp) under *)
(* the handlers that change them: REGISTER and LOGIN, each run by the      *)
(* thread of a TCP connection, and LOGOUT, run by a UDP worker.            *)
(*                                                                         *)
(* Every map of Data is wrapped in a TSafe of its own, so a handler holds  *)
(* one lock at a time: one action below is one critical section, together  *)
(* with the handler's local computation up to the next one.                *)
(***************************************************************************)
EXTENDS Naturals, FiniteSets

CONSTANTS
  Ip,           \* client addresses, as get_ipaddr_port reads them (no port)
  Id,           \* the uuids: of players on disk, drawn by REGISTER, or nobody's
  Pw,           \* passwords; a salted hash is represented by its password
  Conn,         \* threads of TCP connections
  Worker,       \* UDP worker threads
  ConnIp,       \* the peer address of each connection
  Loaded,       \* ids of the players Data::load reads from disk
  Established,  \* those of them with placed_blocks >= 100
  LoadedPw,     \* the password of every loaded player
  MaxAccounts,  \* Settings::MAX_ACCOUNTS
  SweepTries,   \* accounts one sweep looks at (10 in the code)
  NoId,         \* SHRUG, or no id
  NoHash,       \* the empty string operator[] inserts for an unknown id
  NoEntry       \* no entry in the credentials map

ASSUME SetsAssumption ==
  /\ IsFiniteSet(Id) /\ IsFiniteSet(Conn)
  /\ Conn \cap Worker = {}
  /\ NoId \notin Id /\ NoHash \notin Pw /\ NoEntry \notin Pw /\ NoHash # NoEntry

ASSUME WorldAssumption ==
  /\ Established \subseteq Loaded /\ Loaded \subseteq Id
  /\ LoadedPw \in [Loaded -> Pw]
  /\ ConnIp \in [Conn -> Ip] /\ Ip # {}
  /\ MaxAccounts \in Nat /\ SweepTries \in Nat

VARIABLES
  players,   \* keys of player_id_to_player
  creds,     \* player_id_to_salted_password
  ids,       \* player_ids (the order of the vector never matters)
  loggedIn,  \* logged_in_ip_address_to_player_id
  issued,    \* uuids in use: loaded or drawn so far
  pc,        \* where each thread is in its handler
  loc,       \* each thread's locals
  crashed    \* the process died of a division by zero or a wild read

vars == <<players, creds, ids, loggedIn, issued, pc, loc, crashed>>
maps == <<players, creds, ids, loggedIn, issued>>

Thread == Conn \cup Worker

(* id, pw, ip: the request's; count: id_count; left: sweep iterations left. *)
Locals == [id: Id \cup {NoId}, pw: Pw \cup {NoHash}, ip: Ip, count: Nat, left: Nat]

(* The locals of a thread between two requests.                             *)
Fresh(t) ==
  [id |-> NoId, pw |-> NoHash, count |-> 0, left |-> 0,
   ip |-> IF t \in Conn THEN ConnIp[t] ELSE CHOOSE a \in Ip : TRUE]

Init ==
  /\ players = Loaded
  /\ creds = [i \in Id |-> IF i \in Loaded THEN LoadedPw[i] ELSE NoEntry]
  /\ ids = Loaded
  /\ loggedIn = [a \in Ip |-> NoId]
  /\ issued = Loaded
  /\ pc = [t \in Thread |-> "idle"]
  /\ loc = [t \in Thread |-> Fresh(t)]
  /\ crashed = FALSE

Goto(t, label) == pc' = [pc EXCEPT ![t] = label]
At(t, label) == ~crashed /\ pc[t] = label
-----------------------------------------------------------------------------
(* REGISTER, parse_body: refuse an address that is already logged in.       *)
RegisterBegin(c) ==
  /\ At(c, "idle")
  /\ loggedIn[ConnIp[c]] = NoId
  /\ Goto(c, "reg_count")
  /\ UNCHANGED <<maps, loc, crashed>>

(* clear_attacker_accounts_if_needed: is a sweep needed?                    *)
SweepNeeded(c) ==
  /\ At(c, "reg_count")
  /\ Goto(c, IF Cardinality(players) > MaxAccounts THEN "sweep_size" ELSE "reg_limit")
  /\ UNCHANGED <<maps, loc, crashed>>

SweepSize(c) ==
  /\ At(c, "sweep_size")
  /\ loc' = [loc EXCEPT ![c].count = Cardinality(ids), ![c].left = SweepTries]
  /\ Goto(c, "sweep_pick")
  /\ UNCHANGED <<maps, crashed>>

(* One iteration: index = rand(0, id_count), then ids[index] under a lock   *)
(* of its own. id_count is stale by then: rand(0, 0) divides by zero, and   *)
(* an index past the end reads a destroyed string (an old id, none, or a    *)
(* crash).                                                                  *)
SweepPick(c) ==
  /\ At(c, "sweep_pick")
  /\ loc[c].left > 0
  /\ \/ /\ loc[c].count > 0
        /\ \E i \in IF loc[c].count > Cardinality(ids) THEN issued \cup {NoId} ELSE ids :
             loc' = [loc EXCEPT ![c].id = i, ![c].left = @ - 1]
        /\ Goto(c, "del_player")
        /\ UNCHANGED crashed
     \/ /\ loc[c].count = 0 \/ loc[c].count > Cardinality(ids)
        /\ crashed' = TRUE
        /\ UNCHANGED <<pc, loc>>
  /\ UNCHANGED maps

(* delete_player_if_suspicious, one section per map. The returns of the     *)
(* first section leave its lambda only: the other two always run.           *)
DeletePlayer(c) ==
  /\ At(c, "del_player")
  /\ players' = players \ ({loc[c].id} \ Established)
  /\ Goto(c, "del_creds")
  /\ UNCHANGED <<creds, ids, loggedIn, issued, loc, crashed>>

(* Mutant of DeleteCreds: the id stays listed.                              *)
DeleteCredsOnly(c) ==
  /\ At(c, "del_creds")
  /\ creds' = [i \in Id |-> IF i = loc[c].id THEN NoEntry ELSE creds[i]]
  /\ Goto(c, "sweep_pick")
  /\ UNCHANGED <<players, ids, loggedIn, issued, loc, crashed>>

DeleteCreds(c) ==
  /\ At(c, "del_creds")
  /\ creds' = [i \in Id |-> IF i = loc[c].id THEN NoEntry ELSE creds[i]]
  /\ Goto(c, "del_ids")
  /\ UNCHANGED <<players, ids, loggedIn, issued, loc, crashed>>

DeleteIds(c) ==
  /\ At(c, "del_ids")
  /\ ids' = ids \ {loc[c].id}
  /\ loc' = [loc EXCEPT ![c].id = NoId]
  /\ Goto(c, "sweep_pick")
  /\ UNCHANGED <<players, creds, loggedIn, issued, crashed>>

SweepEnd(c) ==
  /\ At(c, "sweep_pick")
  /\ loc[c].left = 0
  /\ loc' = [loc EXCEPT ![c] = Fresh(c)]
  /\ Goto(c, "reg_limit")
  /\ UNCHANGED <<maps, crashed>>

(* Mutant of RegisterLimit: the limit is not looked at after the sweep.     *)
RegisterLimitIgnored(c) ==
  /\ At(c, "reg_limit")
  /\ Goto(c, "reg_captcha")
  /\ UNCHANGED <<maps, loc, crashed>>

(* limit_reached: throw, or go on to the captcha.                           *)
RegisterLimit(c) ==
  /\ At(c, "reg_limit")
  /\ Goto(c, IF Cardinality(players) > MaxAccounts THEN "idle" ELSE "reg_captcha")
  /\ UNCHANGED <<maps, loc, crashed>>

(* The captcha is wrong, or the body does not parse: the handler gives up.  *)
RegisterRefused(c) ==
  /\ At(c, "reg_captcha")
  /\ Goto(c, "idle")
  /\ UNCHANGED <<maps, loc, crashed>>

(* Draw a uuid, hash the password, and add_player's three sections.         *)
AddId(c) ==
  /\ At(c, "reg_captcha")
  /\ \E i \in Id \ issued, p \in Pw :
       /\ loc' = [loc EXCEPT ![c].id = i, ![c].pw = p]
       /\ ids' = ids \cup {i}
       /\ issued' = issued \cup {i}
  /\ Goto(c, "add_player")
  /\ UNCHANGED <<players, creds, loggedIn, crashed>>

AddPlayer(c) ==
  /\ At(c, "add_player")
  /\ players' = players \cup {loc[c].id}
  /\ Goto(c, "add_creds")
  /\ UNCHANGED <<creds, ids, loggedIn, issued, loc, crashed>>

AddCreds(c) ==
  /\ At(c, "add_creds")
  /\ creds' = [creds EXCEPT ![loc[c].id] = loc[c].pw]
  /\ Goto(c, "mark")
  /\ UNCHANGED <<players, ids, loggedIn, issued, loc, crashed>>

(* Mutant of Login: the empty hash of an unknown id validates.              *)
LoginByBlank(c) ==
  /\ At(c, "idle")
  /\ \E i \in Id, p \in Pw :
       /\ creds' = [creds EXCEPT ![i] = IF @ = NoEntry THEN NoHash ELSE @]
       /\ IF creds'[i] \in {p, NoHash}
            THEN loc' = [loc EXCEPT ![c].id = i] /\ Goto(c, "mark")
            ELSE UNCHANGED <<loc, pc>>
  /\ UNCHANGED <<players, ids, loggedIn, issued, crashed>>

(* LOGIN up to the password check. creds[player_id] creates an empty entry  *)
(* for an unknown id; no password validates against the empty hash.         *)
Login(c) ==
  /\ At(c, "idle")
  /\ \E i \in Id, p \in Pw :
       /\ creds' = [creds EXCEPT ![i] = IF @ = NoEntry THEN NoHash ELSE @]
       /\ IF creds[i] = p
            THEN loc' = [loc EXCEPT ![c].id = i] /\ Goto(c, "mark")
            ELSE UNCHANGED <<loc, pc>>
  /\ UNCHANGED <<players, ids, loggedIn, issued, crashed>>

(* mark_logged_in_and_send_back_auth_response                               *)
MarkLoggedIn(c) ==
  /\ At(c, "mark")
  /\ loggedIn' = [loggedIn EXCEPT ![ConnIp[c]] = loc[c].id]
  /\ loc' = [loc EXCEPT ![c] = Fresh(c)]
  /\ Goto(c, "idle")
  /\ UNCHANGED <<players, creds, ids, issued, crashed>>
-----------------------------------------------------------------------------
(* LOGOUT: RequestHandler looks the address up, the handler compares the id *)
(* in the request with it, then erases the address under another lock.      *)
LogoutLookup(w) ==
  /\ At(w, "idle")
  /\ \E a \in Ip :
       /\ loggedIn[a] # NoId
       /\ loc' = [loc EXCEPT ![w].ip = a, ![w].id = loggedIn[a]]
  /\ Goto(w, "log_out")
  /\ UNCHANGED <<maps, crashed>>

(* Mutant of LogoutErase: the entry is emptied, not erased.                 *)
LogoutBlank(w) ==
  /\ At(w, "log_out")
  /\ loggedIn' = [loggedIn EXCEPT ![loc[w].ip] = NoHash]
  /\ Goto(w, "confirm")
  /\ UNCHANGED <<players, creds, ids, issued, loc, crashed>>

LogoutErase(w) ==
  /\ At(w, "log_out")
  /\ loggedIn' = [loggedIn EXCEPT ![loc[w].ip] = NoId]
  /\ Goto(w, "confirm")
  /\ UNCHANGED <<players, creds, ids, issued, loc, crashed>>

(* The answer goes to request->tcp_socket, which is -1 for a UDP request:   *)
(* TCPSocket::send throws, the worker swallows the exception, and nothing   *)
(* is sent.                                                                 *)
LogoutConfirm(w) ==
  /\ At(w, "confirm")
  /\ loc' = [loc EXCEPT ![w] = Fresh(w)]
  /\ Goto(w, "idle")
  /\ UNCHANGED <<maps, crashed>>
-----------------------------------------------------------------------------
Sweep(c) ==
  SweepSize(c) \/ SweepPick(c) \/ DeletePlayer(c) \/ DeleteCreds(c) \/ DeleteIds(c) \/ SweepEnd(c)

Register(c) ==
  \/ RegisterBegin(c) \/ SweepNeeded(c) \/ RegisterLimit(c) \/ RegisterRefused(c)
  \/ AddId(c) \/ AddPlayer(c) \/ AddCreds(c)

Logout(w) == LogoutLookup(w) \/ LogoutErase(w) \/ LogoutConfirm(w)

Next ==
  \/ \E c \in Conn : Sweep(c) \/ Register(c) \/ Login(c) \/ MarkLoggedIn(c)
  \/ \E w \in Worker : Logout(w)

Spec == Init /\ [][Next]_vars
-----------------------------------------------------------------------------
Label ==
  {"idle", "reg_count", "sweep_size", "sweep_pick", "del_player", "del_creds", "del_ids",
   "reg_limit", "reg_captcha", "add_player", "add_creds", "mark", "log_out", "confirm"}

(* The maps hold uuids, hashes and addresses (Data.hpp:60-77).              *)
TypeOK ==
  /\ players \in SUBSET Id /\ ids \in SUBSET Id /\ issued \in SUBSET Id
  /\ creds \in [Id -> Pw \cup {NoHash, NoEntry}]
  /\ loggedIn \in [Ip -> Id \cup {NoId}]
  /\ pc \in [Thread -> Label]
  /\ loc \in [Thread -> Locals]
  /\ crashed \in BOOLEAN

(* The ids a REGISTER is still writing to the maps.                         *)
BeingAdded == {loc[c].id : c \in {d \in Conn : pc[d] \in {"add_player", "add_creds"}}}

(* However registrations, logins, sweeps and logouts interleave, an address *)
(* is only ever bound to a drawn id all of whose maps have been written:    *)
(* LOGIN finds no hash for an id before add_player's last section, and the  *)
(* empty entry get_salted_password leaves for an unknown id opens nothing.  *)
SessionsOfAccounts ==
  \A a \in Ip : loggedIn[a] = NoId \/ loggedIn[a] \in issued \ BeingAdded

(* An id listed in player_ids names a player, or a handler is on its way to *)
(* add that player or to unlist the id: add_player lists before it adds,    *)
(* delete_player_if_suspicious removes before it unlists, in sections that  *)
(* other handlers run between.                                              *)
ListedIdsHavePlayers ==
  \A i \in ids : \/ i \in players
                 \/ \E c \in Conn : /\ loc[c].id = i
                                    /\ pc[c] \in {"add_player", "del_creds", "del_ids"}

(* The account limit is checked before the player is added, under another   *)
(* lock: the map may pass MAX_ACCOUNTS, but never by more than one account  *)
(* per connection, and never beyond what was loaded if that is more.        *)
AccountCap ==
  LET over == MaxAccounts + Cardinality(Conn)
  IN  Cardinality(players) <= over \/ Cardinality(players) <= Cardinality(Loaded)
=============================================================================
