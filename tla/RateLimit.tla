----------------------------- MODULE RateLimit -----------------------------
(***************************************************************************)
(* The server's rate limits: one per address and request type              *)
(* (Security::rate_limit over Data::check_in) and one per player id for    *)
(* LOGIN (Security::rate_limit_by_id over Data::get_last_login_attempt).   *)
(*                                                                         *)
(* The entry of a request is its address with the digits of its type's     *)
(* number behind it, so two requests may share one: 10.0.0.1 with type 17  *)
(* and 10.0.0.11 with type 7. Addresses and digits are texts, sequences of *)
(* characters.                                                             *)
(*                                                                         *)
(* A handler thread reads the steady clock first and takes the lock of the *)
(* map after that, so other threads may check in between the two.          *)
(***************************************************************************)
EXTENDS Integers, FiniteSets, Sequences

CONSTANTS
  Caller,      \* handler threads: UDP workers and TCP connections
  Char,        \* the characters of addresses and numbers
  Ip, Type,    \* client addresses and request types
  Digits,      \* the number of each type, written out
  LOGIN,       \* the type that is limited by player id too
  Id,          \* player ids
  LimitOf,     \* the limit of each type, from TYPE_TO_RATE_LIMIT_MS or the default
  RateLimitMs, \* Security::RATE_LIMIT_MS, the default and the limit by id
  LongAgo,     \* how long ago an unknown key was last seen (10 minutes)
  MaxEntries,  \* MAX_IP_LIST_SIZE
  MaxLag,      \* bound on the clock's advance between clock read and check-in
  MaxTime,     \* bound on the clock
  Never        \* no entry in a map

Request == Ip \X Type

AnyRequest == CHOOSE r \in Request : TRUE  \* of a thread without a request

(* Mutant of EntryOf: the address is left out.                              *)
EntryOfType(r) == Digits[r[2]]

(* ip_address + to_string((int)type)                                        *)
EntryOf(r) == r[1] \o Digits[r[2]]

Key == {EntryOf(r) : r \in Request}

ASSUME LimitAssumption ==
  /\ Ip \subseteq Seq(Char)
  /\ Digits \in [Type -> Seq(Char)]
  /\ \A y, z \in Type : Digits[y] = Digits[z] => y = z
  /\ LimitOf \in [Type -> Nat]
  /\ RateLimitMs \in Nat /\ LongAgo \in Nat /\ MaxLag \in Nat /\ MaxTime \in Nat
  /\ MaxEntries \in Nat
  /\ Never \notin Int
  /\ IsFiniteSet(Ip) /\ IsFiniteSet(Type) /\ Ip # {} /\ LOGIN \in Type
  /\ RateLimitMs <= LongAgo /\ \A y \in Type : LimitOf[y] <= LongAgo

VARIABLES
  now,       \* the steady clock, in ticks
  times,     \* ip_address_type_last_request_time
  attempts,  \* last_login_attempt_by_id
  at, req, stamp,  \* per thread: where it is, its request, its clock reading
  asked,     \* history: when a client last made the request, let through or not
  accepted   \* history: when a request of the entry was last let through

limitVars == <<now, times, attempts, at, req, stamp, asked, accepted>>

LimitInit ==
  /\ now = 0
  /\ times = [k \in Key |-> Never]
  /\ attempts = [i \in Id |-> Never]
  /\ at = [t \in Caller |-> "idle"]
  /\ req = [t \in Caller |-> AnyRequest]
  /\ stamp = [t \in Caller |-> 0]
  /\ asked = [r \in Request |-> Never]
  /\ accepted = [k \in Key |-> Never]

(* The clock; MaxLag and MaxTime are bounds of the model.                   *)
Tick ==
  /\ now < MaxTime
  /\ \A t \in Caller : at[t] \in {"check_in", "attempt"} => now + 1 - stamp[t] <= MaxLag
  /\ now' = now + 1
  /\ UNCHANGED <<times, attempts, at, req, stamp, asked, accepted>>

(* rate_limit reads the clock.                                              *)
Arrive(t) ==
  /\ at[t] = "idle"
  /\ \E r \in Request : req' = [req EXCEPT ![t] = r]
  /\ stamp' = [stamp EXCEPT ![t] = now]
  /\ at' = [at EXCEPT ![t] = "check_in"]
  /\ UNCHANGED <<now, times, attempts, asked, accepted>>

Entry(t) == EntryOf(req[t])

Elapsed(t) ==
  IF times[Entry(t)] = Never THEN LongAgo ELSE stamp[t] - times[Entry(t)]

Accepts(t) == ~(LimitOf[req[t][2]] > Elapsed(t))

(* Mutants of Recorded: only the first request of an entry is recorded; the *)
(* previous request is recorded in place of this one.                       *)
RecordedOnce(t) == [times EXCEPT ![Entry(t)] = IF @ = Never THEN stamp[t] ELSE @]
RecordedPrevious(t) == [times EXCEPT ![Entry(t)] = stamp[t] - Elapsed(t)]

(* check_in's insertion, and the wipe when the map has grown too large.     *)
Recorded(t) == [times EXCEPT ![Entry(t)] = stamp[t]]
Entries(map) == {k \in Key : map[k] # Never}

(* Mutant of TooLarge: one entry more is kept.                              *)
TooLargeLate(map) == Cardinality(Entries(map)) > MaxEntries + 1

TooLarge(map) == Cardinality(Entries(map)) > MaxEntries

(* The request is over.                                                     *)
Rest(t) ==
  /\ at' = [at EXCEPT ![t] = "idle"]
  /\ req' = [req EXCEPT ![t] = AnyRequest]
  /\ stamp' = [stamp EXCEPT ![t] = 0]

(* check_in under its lock, then the verdict. A wipe also starts the        *)
(* history of accepted requests afresh: no spacing is promised across it.   *)
CheckIn(t) ==
  /\ at[t] = "check_in"
  /\ times' = IF TooLarge(Recorded(t)) THEN [k \in Key |-> Never] ELSE Recorded(t)
  /\ accepted' = IF TooLarge(Recorded(t)) THEN [k \in Key |-> Never]
                 ELSE IF Accepts(t) THEN [accepted EXCEPT ![Entry(t)] = stamp[t]]
                 ELSE accepted
  /\ asked' = [asked EXCEPT ![req[t]] = stamp[t]]
  /\ IF Accepts(t) /\ req[t][2] = LOGIN
       THEN at' = [at EXCEPT ![t] = "login"] /\ UNCHANGED <<req, stamp>>
       ELSE Rest(t)
  /\ UNCHANGED <<now, attempts>>

(* LOGIN's second limit, by player id, reads the clock again.               *)
LoginClock(t) ==
  /\ at[t] = "login"
  /\ stamp' = [stamp EXCEPT ![t] = now]
  /\ at' = [at EXCEPT ![t] = "attempt"]
  /\ UNCHANGED <<now, times, attempts, req, asked, accepted>>

ElapsedById(t, i) == IF attempts[i] = Never THEN LongAgo ELSE stamp[t] - attempts[i]

(* get_last_login_attempt returns before it records an attempt when the id  *)
(* has none, so only an id that has an entry is updated.                    *)
LoginById(t) ==
  /\ at[t] = "attempt"
  /\ \E i \in Id :
       attempts' = IF attempts[i] = Never THEN attempts ELSE [attempts EXCEPT ![i] = stamp[t]]
  /\ Rest(t)
  /\ UNCHANGED <<now, times, asked, accepted>>

LimitNext == Tick \/ \E t \in Caller : Arrive(t) \/ CheckIn(t) \/ LoginClock(t) \/ LoginById(t)

LimitSpec == LimitInit /\ [][LimitNext]_limitVars
-----------------------------------------------------------------------------
Clock == Nat \cup {Never}

(* The maps hold clock readings (Data.hpp:62, 68).                          *)
LimitTypeOK ==
  /\ now \in Nat
  /\ times \in [Key -> Clock]
  /\ attempts \in [Id -> Clock]
  /\ at \in [Caller -> {"idle", "check_in", "login", "attempt"}]
  /\ req \in [Caller -> Request]
  /\ stamp \in [Caller -> Nat]
  /\ asked \in [Request -> Clock]
  /\ accepted \in [Key -> Clock]

(* Two requests of one entry that are both let through are at least the     *)
(* limit of the second apart, less the time a thread may lose between its   *)
(* clock reading and its check-in: an older reading can overwrite a newer   *)
(* one (Security.cpp:23, Data.hpp:251), but never one older than that.      *)
SpacedUpToLag ==
  [][\A t \in Caller :
       CheckIn(t) /\ Accepts(t) /\ accepted[Entry(t)] # Never
         => stamp[t] - accepted[Entry(t)] >= LimitOf[req[t][2]] - MaxLag]_limitVars

(* What may be held against a client: that it made the same request itself, *)
(* or that one of another address and type is spelled the same, which takes *)
(* type numbers of different length.                                        *)
Answerable(r, other) ==
  /\ EntryOf(other) = EntryOf(r)
  /\ other = r \/ Len(Digits[other[2]]) # Len(Digits[r[2]])

(* A request is turned away only because such a request was made less than  *)
(* its limit, and the lag, ago, whatever is wiped in between: a request of  *)
(* another address whose type's number is as long never stands in the way   *)
(* (Security.cpp:24).                                                       *)
RefusedOnlyWhenRecent ==
  [][\A t \in Caller :
       CheckIn(t) /\ ~Accepts(t)
         => \E r \in Request :
              /\ Answerable(req[t], r)
              /\ asked[r] # Never
              /\ now - asked[r] < LimitOf[req[t][2]] + MaxLag]_limitVars

(* The map of last requests never keeps more than MAX_IP_LIST_SIZE entries, *)
(* "should never have more than 1,000,000 clients" (Data.hpp:41, 254).      *)
MapBounded == Cardinality(Entries(times)) <= MaxEntries

(* The limit by player id turns nobody away, although Login.hpp:95 says     *)
(* "rate limit by request_player_id" and Data.hpp:306 "set last login time":*)
(* no attempt is ever recorded.                                             *)
LimitByIdIsIdle ==
  \A t \in Caller, i \in Id : ~(RateLimitMs > ElapsedById(t, i))
=============================================================================
