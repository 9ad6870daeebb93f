---------------------------- MODULE ServerLimits ----------------------------
(***************************************************************************)
(* The limits a server puts on its clients: the three RateLimiters of the  *)
(* WebServer, which every HTTP request and every WebSocket action passes,  *)
(* and the LoginThrottle of the AuthController behind one of them.  A login*)
(* is two steps: the request passes the limiter, and its body is read when *)
(* it has arrived, in whatever order and whenever that is.  An operator    *)
(* that no action uses is a seeded fault of the one that follows.          *)
(*                                                                         *)
(* Time is a number of ticks and budgets are in fractions of a token, so   *)
(* that rates below one are whole; the rounding of doubles is left out.    *)
(***************************************************************************)
EXTENDS Integers

CONSTANTS
  Limiter, Auth,           \* http_limiter_, auth_limiter_, ws_limiter_
  Address,                 \* client addresses
  Account,                 \* email addresses that logins name
  Burst, Rate, Token,      \* capacity_, refill_per_sec_ and 1.0, in fractions
  MaxIdle, EvictEvery,     \* of the limiters
  MaxFails, Lockout,       \* of the throttle
  MaxQuiet,                \*   and its max_idle
  MaxTime, MaxReading,     \* bounds: the clock, bodies awaited of an address
  NoBucket, NoEntry, NoAnswer

Bucket == [tokens : Nat, last : Nat]
Key    == Account \X Address     \* email + "|" + ip
Entry  == [fails : Nat, window_start : Nat, locked_until : Nat]
Answer == [limiter : Limiter, address : Address, allowed : BOOLEAN]

\* An idle bucket is full again before it is dropped, an idle entry has expired: 300
\* seconds for bursts that take at most 20, 900 seconds for a lockout of 300.
ASSUME LimitsAssumption ==
  /\ Auth \in Limiter
  /\ Burst \in [Limiter -> Nat] /\ Rate \in [Limiter -> Nat] /\ Token \in Nat \ {0}
  /\ MaxIdle \in Nat /\ \A l \in Limiter : MaxIdle * Rate[l] >= Burst[l]
  /\ MaxFails \in Nat \ {0} /\ Lockout \in Nat \ {0}
  /\ MaxQuiet \in Nat /\ MaxQuiet >= Lockout
  /\ EvictEvery \in Nat /\ MaxTime \in Nat /\ MaxReading \in Nat
  /\ NoBucket \notin Bucket /\ NoEntry \notin Entry /\ NoAnswer \notin Answer

VARIABLES
  now,          \* the steady clock
  buckets,      \* buckets_ of each limiter
  last_evict,   \* last_evict_ of the WebServer
  answer,       \* what Allow returned last
  reading,      \* login requests whose body has yet to arrive
  entries,      \* entries_ of the throttle
  last_sweep,   \* last_evict_ of the AuthController
  since,        \* history: when somebody began to watch,
  admitted,     \*   requests allowed since
  failed        \*   and failed logins in a lockout's time since, or since a success

server  == <<buckets, last_evict, answer>>
login   == <<reading, entries, last_sweep>>
watched == <<since, admitted, failed>>
vars    == <<now, server, login, watched>>

None == /\ admitted' = [l \in Limiter |-> [a \in Address |-> 0]]
        /\ failed' = [k \in Key |-> 0]

Init ==
  /\ now = 0
  /\ buckets = [l \in Limiter |-> [a \in Address |-> NoBucket]]
  /\ last_evict = 0 /\ answer = NoAnswer
  /\ reading = [a \in Address |-> 0]
  /\ entries = [k \in Key |-> NoEntry] /\ last_sweep = 0
  /\ since = 0
  /\ admitted = [l \in Limiter |-> [a \in Address |-> 0]]
  /\ failed = [k \in Key |-> 0]

-----------------------------------------------------------------------------
(***************************************************************************)
(* The limiters.                                                           *)
(***************************************************************************)
Lesser(x, y) == IF x <= y THEN x ELSE y

IdleAlways(b) == b # NoBucket /\ now - b.last > 0
Idle(b) == b # NoBucket /\ now - b.last > MaxIdle

\* MaybeEvict sweeps all of the limiters at most once in a while.
Due   == now - last_evict >= EvictEvery
Swept == [l \in Limiter |-> [a \in Address |->
           IF Due /\ Idle(buckets[l][a]) THEN NoBucket ELSE buckets[l][a]]]

RefilledBeyond(l, b) == b.tokens + (now - b.last) * Rate[l]
Refilled(l, b) == Lesser(Burst[l], b.tokens + (now - b.last) * Rate[l])
Tokens(l, b) == IF b = NoBucket THEN Burst[l] ELSE Refilled(l, b)

\* The wildcard handlers of both routers: MaybeEvict, then Allow.
Asks(l, a) ==
  LET tokens == Tokens(l, Swept[l][a])
      ok     == tokens >= Token
  IN  /\ buckets' = [Swept EXCEPT ![l][a] =
           [tokens |-> IF ok THEN tokens - Token ELSE tokens, last |-> now]]
      /\ last_evict' = IF Due THEN now ELSE last_evict
      /\ answer' = [limiter |-> l, address |-> a, allowed |-> ok]
      /\ admitted' = [admitted EXCEPT ![l][a] = IF ok THEN @ + 1 ELSE @]
      /\ UNCHANGED <<now, since, failed>>

Request(l, a) == Asks(l, a) /\ UNCHANGED login

-----------------------------------------------------------------------------
(***************************************************************************)
(* Logging in.                                                             *)
(***************************************************************************)
Locked(k) == entries[k] # NoEntry /\ now < entries[k].locked_until

Expired(k) == entries[k] # NoEntry /\ ~Locked(k) /\ now - entries[k].window_start > MaxQuiet

\* A request that passes the limiter sweeps the throttle, when that is due, and waits
\* for its body.
HandleLogin(a) ==
  /\ reading[a] < MaxReading
  /\ Asks(Auth, a)
  /\ IF answer'.allowed
     THEN /\ reading' = [reading EXCEPT ![a] = @ + 1]
          /\ IF now - last_sweep >= EvictEvery
             THEN /\ entries' = [k \in Key |-> IF Expired(k) THEN NoEntry ELSE entries[k]]
                  /\ last_sweep' = now
             ELSE UNCHANGED <<entries, last_sweep>>
     ELSE UNCHANGED login

\* A client that goes away, a body that is not JSON, too long or without the fields,
\* a database error: nothing is recorded.
LoginDropped(a) ==
  /\ reading[a] > 0 /\ reading' = [reading EXCEPT ![a] = @ - 1]
  /\ UNCHANGED <<now, server, entries, last_sweep, watched>>

\* The entry a failure counts in: a new one, one whose window is over, or this one.
Current(k) ==
  IF entries[k] = NoEntry THEN [fails |-> 0, window_start |-> now, locked_until |-> 0]
  ELSE IF now - entries[k].window_start > Lockout
       THEN [entries[k] EXCEPT !.fails = 0, !.window_start = now]
  ELSE entries[k]

RecordFailureLate(k) ==
  entries' = [entries EXCEPT ![k] =
    IF Current(k).fails >= MaxFails
    THEN [fails |-> 0, window_start |-> now, locked_until |-> now + Lockout]
    ELSE [Current(k) EXCEPT !.fails = @ + 1]]

RecordFailure(k) ==
  entries' = [entries EXCEPT ![k] =
    IF Current(k).fails + 1 >= MaxFails
    THEN [fails |-> 0, window_start |-> now, locked_until |-> now + Lockout]
    ELSE [Current(k) EXCEPT !.fails = @ + 1]]

\* The lock read when the request came in would be that of an earlier moment.
MayVerifyAlways(k) == k \in Key
MayVerify(k) == ~Locked(k)

LoginFails(k) ==
  /\ MayVerify(k) /\ reading[k[2]] > 0 /\ reading' = [reading EXCEPT ![k[2]] = @ - 1]
  /\ RecordFailure(k)
  /\ failed' = [failed EXCEPT ![k] = IF now - since < Lockout THEN @ + 1 ELSE @]
  /\ UNCHANGED <<now, server, last_sweep, since, admitted>>

\* LoginThrottle::Reset; a token is issued.
LoginSucceeds(k) ==
  /\ MayVerify(k) /\ reading[k[2]] > 0 /\ reading' = [reading EXCEPT ![k[2]] = @ - 1]
  /\ entries' = [entries EXCEPT ![k] = NoEntry]
  /\ failed' = [failed EXCEPT ![k] = 0]
  /\ UNCHANGED <<now, server, last_sweep, since, admitted>>

-----------------------------------------------------------------------------
Tick ==
  /\ now < MaxTime /\ now' = now + 1
  /\ UNCHANGED <<server, login, watched>>

\* Somebody begins to count, at any time.
Watch ==
  /\ since # now /\ since' = now
  /\ None
  /\ UNCHANGED <<now, server, login>>

Next ==
  \/ \E l \in Limiter, a \in Address : Request(l, a)
  \/ \E a \in Address : HandleLogin(a) \/ LoginDropped(a)
  \/ \E k \in Key : LoginFails(k) \/ LoginSucceeds(k)
  \/ Tick \/ Watch

Spec == Init /\ [][Next]_vars
=============================================================================
