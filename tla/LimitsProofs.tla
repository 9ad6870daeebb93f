---------------------------- MODULE LimitsProofs ----------------------------
(***************************************************************************)
(* The limits hold for every choice of the constants that satisfies        *)
(* LimitsAssumption.  The buckets are first shown to be TokenBucket's      *)
(* budgets; what is admitted then follows from how a budget changes.       *)
(***************************************************************************)
EXTENDS LimitsSafety, TLAPS

LEMMA Distributes == ASSUME NEW x \in Nat, NEW y \in Nat, NEW r \in Nat
                     PROVE  (x + y) * r = x * r + y * r /\ x * r \in Nat
  BY SMT

LEMMA Grows == ASSUME NEW x \in Nat, NEW y \in Nat, NEW r \in Nat, x >= y
               PROVE  x * r >= y * r
<1>1. PICK d \in Nat : x = y + d  BY SMT
<1>2. x * r = y * r + d * r /\ d * r \in Nat /\ y * r \in Nat
  BY <1>1, Distributes
<1>. QED  BY <1>2

-----------------------------------------------------------------------------
(***************************************************************************)
(* Types.                                                                  *)
(***************************************************************************)
\* A bucket has at most the burst, and what it has been refilled to as well.
LEMMA TokensBounded ==
  ASSUME LimitsTypeOK, NEW l \in Limiter, NEW a \in Address
  PROVE  Tokens(l, buckets[l][a]) \in 0..Burst[l]
<1>. Burst[l] \in Nat /\ Rate[l] \in Nat  BY LimitsAssumption
<1>1. CASE buckets[l][a] = NoBucket  BY <1>1 DEF Tokens
<1>2. CASE buckets[l][a] # NoBucket
  <2>1. buckets[l][a] \in Bucket /\ buckets[l][a].last <= now /\ now \in Nat
    BY <1>2 DEF LimitsTypeOK
  <2>2. buckets[l][a].tokens \in Nat /\ now - buckets[l][a].last \in Nat
    BY <2>1 DEF Bucket
  <2>3. (now - buckets[l][a].last) * Rate[l] \in Nat  BY <2>2, Distributes
  <2>. QED  BY <1>2, <2>2, <2>3 DEF Tokens, Refilled, Lesser
<1>. QED  BY <1>1, <1>2

\* A bucket is dropped only when it is full: to whom it belongs it is all the same.
LEMMA SweepIsInvisible ==
  ASSUME LimitsTypeOK, NEW l \in Limiter, NEW a \in Address
  PROVE  Tokens(l, Swept[l][a]) = Tokens(l, buckets[l][a])
<1>. DEFINE b == buckets[l][a]
<1>. Burst[l] \in Nat /\ Rate[l] \in Nat /\ MaxIdle \in Nat
  BY LimitsAssumption
<1>1. CASE Due /\ Idle(b)
  <2>1. b # NoBucket /\ b \in Bucket /\ b.last <= now /\ now \in Nat
    BY <1>1 DEF Idle, LimitsTypeOK
  <2>2. b.tokens \in Nat /\ now - b.last \in Nat /\ now - b.last >= MaxIdle
    BY <1>1, <2>1 DEF Idle, Bucket
  <2>3. (now - b.last) * Rate[l] >= MaxIdle * Rate[l]
    BY <2>2, Grows
  <2>4. MaxIdle * Rate[l] >= Burst[l]
    BY LimitsAssumption
  <2>5. (now - b.last) * Rate[l] \in Nat /\ MaxIdle * Rate[l] \in Nat
    BY <2>2, Distributes
  <2>6. b.tokens + (now - b.last) * Rate[l] >= Burst[l]
    BY <2>2, <2>3, <2>4, <2>5
  <2>7. Tokens(l, b) = Burst[l]
    BY <2>1, <2>2, <2>5, <2>6 DEF Tokens, Refilled, Lesser
  <2>8. Swept[l][a] = NoBucket
    BY <1>1 DEF Swept
  <2>. QED  BY <2>7, <2>8 DEF Tokens
<1>2. CASE ~(Due /\ Idle(b))
  BY <1>2 DEF Swept
<1>. QED  BY <1>1, <1>2

LEMMA AskTypes ==
  ASSUME LimitsTypeOK, NEW l \in Limiter, NEW a \in Address, Asks(l, a)
  PROVE  /\ now' = now /\ last_evict' \in 0..now /\ since' = since /\ failed' = failed
         /\ buckets' \in [Limiter -> [Address -> Bucket \cup {NoBucket}]]
         /\ \A m \in Limiter, c \in Address : buckets'[m][c] # NoBucket =>
              buckets'[m][c].last <= now /\ buckets'[m][c].tokens <= Burst[m]
         /\ answer' \in Answer
         /\ admitted' \in [Limiter -> [Address -> Nat]]
<1>. DEFINE tokens == Tokens(l, Swept[l][a])
            ok     == tokens >= Token
            new    == [tokens |-> IF ok THEN tokens - Token ELSE tokens, last |-> now]
<1>1. tokens \in 0..Burst[l] /\ Burst[l] \in Nat /\ Token \in Nat /\ now \in Nat
  BY SweepIsInvisible, TokensBounded, LimitsAssumption DEF LimitsTypeOK
<1>2. new \in Bucket /\ new.last <= now /\ new.tokens <= Burst[l]
  BY <1>1 DEF Bucket
<1>3. Swept \in [Limiter -> [Address -> Bucket \cup {NoBucket}]]
  BY DEF Swept, LimitsTypeOK
<1>4. buckets' = [Swept EXCEPT ![l][a] = new]
  BY DEF Asks
<1>5. \A m \in Limiter, c \in Address :
        buckets'[m][c] = IF m = l /\ c = a THEN new ELSE Swept[m][c]
  BY <1>3, <1>4
<1>6. buckets' \in [Limiter -> [Address -> Bucket \cup {NoBucket}]]
  BY <1>2, <1>3, <1>4
<1>7. ASSUME NEW m \in Limiter, NEW c \in Address, buckets'[m][c] # NoBucket
      PROVE  buckets'[m][c].last <= now /\ buckets'[m][c].tokens <= Burst[m]
  <2>1. CASE m = l /\ c = a  BY <1>2, <1>5, <2>1
  <2>2. CASE ~(m = l /\ c = a)
    <3>1. buckets'[m][c] = Swept[m][c]  BY <1>5, <2>2
    <3>2. Swept[m][c] = buckets[m][c]  BY <1>7, <3>1 DEF Swept
    <3>. QED  BY <1>7, <3>1, <3>2 DEF LimitsTypeOK
  <2>. QED  BY <2>1, <2>2
<1>8. last_evict' \in 0..now
  BY <1>1 DEF Asks, LimitsTypeOK
<1>9. answer' \in Answer
  BY DEF Asks, Answer
<1>10. admitted' \in [Limiter -> [Address -> Nat]]
  BY DEF Asks, LimitsTypeOK
<1>11. now' = now /\ since' = since /\ failed' = failed
  BY DEF Asks
<1>. QED  BY <1>6, <1>7, <1>8, <1>9, <1>10, <1>11

LEMMA TypeStep == LimitsTypeOK /\ [Next]_vars => LimitsTypeOK'
<1>. SUFFICES ASSUME LimitsTypeOK, [Next]_vars PROVE LimitsTypeOK'
  OBVIOUS
<1>. now \in Nat /\ Lockout \in Nat \ {0} /\ MaxFails \in Nat \ {0}
  BY LimitsAssumption DEF LimitsTypeOK
<1>1. ASSUME NEW l \in Limiter, NEW a \in Address, Request(l, a) PROVE LimitsTypeOK'
  <2>1. Asks(l, a) /\ UNCHANGED login  BY <1>1 DEF Request
  <2>. QED  BY <2>1, AskTypes DEF LimitsTypeOK, login
<1>2. ASSUME NEW a \in Address, HandleLogin(a) PROVE LimitsTypeOK'
  <2>1. Asks(Auth, a) /\ Auth \in Limiter  BY <1>2, LimitsAssumption DEF HandleLogin
  <2>2. reading' \in [Address -> Nat] /\ last_sweep' \in 0..now
    <3>1. reading' = reading \/ reading' = [reading EXCEPT ![a] = @ + 1]
      BY <1>2 DEF HandleLogin, login
    <3>2. last_sweep' = last_sweep \/ last_sweep' = now
      BY <1>2 DEF HandleLogin, login
    <3>3. reading \in [Address -> Nat] /\ last_sweep \in 0..now  BY DEF LimitsTypeOK
    <3>. QED  BY <3>1, <3>2, <3>3
  <2>3. entries' = entries \/ entries' = [k \in Key |-> IF Expired(k) THEN NoEntry ELSE entries[k]]
    BY <1>2 DEF HandleLogin, login
  <2>4. entries' \in [Key -> Entry \cup {NoEntry}]
        /\ \A k \in Key : entries'[k] # NoEntry => entries'[k] = entries[k]
    BY <2>3 DEF LimitsTypeOK
  <2>. QED  BY <2>1, <2>2, <2>4, AskTypes DEF LimitsTypeOK
<1>3. ASSUME NEW a \in Address, LoginDropped(a) PROVE LimitsTypeOK'
  BY <1>3 DEF LoginDropped, LimitsTypeOK, server, watched
<1>4. ASSUME NEW k \in Key, LoginFails(k) PROVE LimitsTypeOK'
  <2>1. k[2] \in Address  BY DEF Key
  <2>2. Current(k) \in Entry /\ Current(k).fails < MaxFails /\ Current(k).window_start <= now
        /\ Current(k).locked_until <= Current(k).window_start + Lockout
    <3>1. CASE entries[k] = NoEntry
      <4>1. Current(k) = [fails |-> 0, window_start |-> now, locked_until |-> 0]
        BY <3>1 DEF Current
      <4>. QED  BY <4>1 DEF Entry
    <3>2. CASE entries[k] # NoEntry
      <4>1. /\ entries[k] \in Entry /\ entries[k].fails < MaxFails
            /\ entries[k].window_start <= now
            /\ entries[k].locked_until <= entries[k].window_start + Lockout
        BY <3>2 DEF LimitsTypeOK
      <4>2. \/ Current(k) = entries[k]
            \/ Current(k) = [entries[k] EXCEPT !.fails = 0, !.window_start = now]
        BY <3>2 DEF Current
      <4>3. CASE Current(k) = entries[k]  BY <4>1, <4>3
      <4>4. CASE Current(k) = [entries[k] EXCEPT !.fails = 0, !.window_start = now]
        <5>1. Current(k) = [fails |-> 0, window_start |-> now,
                            locked_until |-> entries[k].locked_until]
          BY <4>1, <4>4 DEF Entry
        <5>2. entries[k].locked_until \in Nat /\ entries[k].window_start \in Nat
          BY <4>1 DEF Entry
        <5>3. entries[k].locked_until <= now + Lockout  BY <4>1, <5>2
        <5>. QED  BY <5>1, <5>2, <5>3 DEF Entry
      <4>. QED  BY <4>2, <4>3, <4>4
    <3>. QED  BY <3>1, <3>2
  <2>. DEFINE new == IF Current(k).fails + 1 >= MaxFails
                     THEN [fails |-> 0, window_start |-> now, locked_until |-> now + Lockout]
                     ELSE [Current(k) EXCEPT !.fails = @ + 1]
  <2>3. new \in Entry /\ new.fails < MaxFails /\ new.window_start <= now
        /\ new.locked_until <= new.window_start + Lockout
    BY <2>2 DEF Entry
  <2>4. entries' = [entries EXCEPT ![k] = new]
    BY <1>4 DEF LoginFails, RecordFailure
  <2>5. entries' \in [Key -> Entry \cup {NoEntry}] /\ \A j \in Key : entries'[j] # NoEntry =>
          /\ entries'[j].fails < MaxFails /\ entries'[j].window_start <= now
          /\ entries'[j].locked_until <= entries'[j].window_start + Lockout
    BY <2>3, <2>4 DEF LimitsTypeOK
  <2>6. /\ reading' \in [Address -> Nat] /\ failed' \in [Key -> Nat]
        /\ UNCHANGED <<now, server, last_sweep, since, admitted>>
    BY <1>4, <2>1 DEF LoginFails, LimitsTypeOK
  <2>. QED  BY <2>5, <2>6 DEF LimitsTypeOK, server
<1>5. ASSUME NEW k \in Key, LoginSucceeds(k) PROVE LimitsTypeOK'
  <2>1. k[2] \in Address  BY DEF Key
  <2>2. entries' \in [Key -> Entry \cup {NoEntry}]
        /\ \A j \in Key : entries'[j] # NoEntry => entries'[j] = entries[j]
    BY <1>5 DEF LoginSucceeds, LimitsTypeOK
  <2>3. /\ reading' \in [Address -> Nat] /\ failed' \in [Key -> Nat]
        /\ UNCHANGED <<now, server, last_sweep, since, admitted>>
    BY <1>5, <2>1 DEF LoginSucceeds, LimitsTypeOK
  <2>. QED  BY <2>2, <2>3 DEF LimitsTypeOK, server
<1>6. ASSUME Tick PROVE LimitsTypeOK'
  BY <1>6 DEF Tick, LimitsTypeOK, server, login, watched, Bucket, Entry
<1>7. ASSUME Watch PROVE LimitsTypeOK'
  BY <1>7 DEF Watch, None, LimitsTypeOK, server, login
<1>8. ASSUME UNCHANGED vars PROVE LimitsTypeOK'
  BY <1>8 DEF vars, LimitsTypeOK, server, login, watched
<1>. QED  BY <1>1, <1>2, <1>3, <1>4, <1>5, <1>6, <1>7, <1>8 DEF Next

LEMMA TypeInit == Init => LimitsTypeOK
  BY LimitsAssumption DEF Init, LimitsTypeOK

\* Every variable has its type, nothing is dated in the future and no bucket holds
\* more than the burst (AllowAt, RecordFailureAt, EvictBefore).
THEOREM LimitsTypeCorrect == Spec => []LimitsTypeOK
  BY TypeInit, TypeStep, PTL DEF Spec

-----------------------------------------------------------------------------
(***************************************************************************)
(* The buckets are TokenBucket's budgets.                                  *)
(***************************************************************************)
LEMMA AskIsPromised ==
  ASSUME LimitsTypeOK, NEW l \in Limiter, NEW a \in Address, Asks(l, a)
  PROVE  /\ answer'.allowed = (Budget[l][a] >= Token)
         /\ Promise!Ask(l, a)
         /\ Budget'[l][a] = IF Budget[l][a] >= Token THEN Budget[l][a] - Token ELSE Budget[l][a]
<1>. DEFINE tokens == Tokens(l, Swept[l][a])
            ok     == tokens >= Token
            new    == [tokens |-> IF ok THEN tokens - Token ELSE tokens, last |-> now]
<1>1. tokens = Budget[l][a] /\ tokens \in 0..Burst[l] /\ Burst[l] \in Nat /\ Token \in Nat
      /\ Rate[l] \in Nat /\ now \in Nat /\ now' = now
  BY SweepIsInvisible, TokensBounded, LimitsAssumption DEF Budget, LimitsTypeOK, Asks
<1>2. answer' = [limiter |-> l, address |-> a, allowed |-> ok] /\ buckets' = [Swept EXCEPT ![l][a] = new]
  BY DEF Asks
<1>3. ASSUME NEW m \in Limiter, NEW c \in Address
      PROVE  Budget'[m][c] = IF m = l /\ c = a THEN new.tokens ELSE Budget[m][c]
  <2>1. Budget'[m][c] = Tokens(m, buckets'[m][c])
    BY <1>1 DEF Budget, Tokens, Refilled, Lesser
  <2>2. buckets'[m][c] = IF m = l /\ c = a THEN new ELSE Swept[m][c]
    BY <1>2 DEF Swept
  <2>3. CASE m = l /\ c = a
    <3>1. new # NoBucket
      BY <1>1, LimitsAssumption DEF Bucket
    <3>2. (now - new.last) * Rate[l] = 0  BY <1>1, SMT
    <3>3. new.tokens <= Burst[l] /\ new.tokens \in Nat  BY <1>1
    <3>4. Refilled(l, new) = new.tokens  BY <1>1, <3>2, <3>3 DEF Refilled, Lesser
    <3>. QED  BY <2>1, <2>2, <2>3, <3>1, <3>4 DEF Tokens
  <2>4. CASE ~(m = l /\ c = a)
    BY <2>1, <2>2, <2>4, SweepIsInvisible DEF Budget
  <2>. QED  BY <2>3, <2>4
<1>4. Budget' = [Budget EXCEPT ![l][a] = IF @ >= Token THEN @ - Token ELSE @]
  <2>1. /\ Budget' = [m \in Limiter |-> [c \in Address |-> Budget'[m][c]]]
        /\ Budget = [m \in Limiter |-> [c \in Address |-> Budget[m][c]]]
    BY DEF Budget
  <2>. QED  BY <1>1, <1>3, <2>1
<1>. QED  BY <1>1, <1>2, <1>3, <1>4 DEF Promise!Ask

LEMMA TickRefills == LimitsTypeOK /\ Tick => Promise!Refill
<1>. SUFFICES ASSUME LimitsTypeOK, Tick PROVE Promise!Refill
  OBVIOUS
<1>1. now \in Nat /\ now' = now + 1 /\ buckets' = buckets /\ answer' = answer
  BY DEF LimitsTypeOK, Tick, server
<1>2. ASSUME NEW l \in Limiter, NEW a \in Address
      PROVE  Budget'[l][a] = Promise!Lesser(Burst[l], Budget[l][a] + Rate[l])
  <2>. DEFINE b == buckets[l][a]
  <2>1. Burst[l] \in Nat /\ Rate[l] \in Nat  BY LimitsAssumption
  <2>2. CASE b = NoBucket
    <3>1. Budget[l][a] = Burst[l] /\ Budget'[l][a] = Burst[l]
      BY <1>1, <2>2 DEF Budget, Tokens
    <3>. QED  BY <2>1, <3>1 DEF Promise!Lesser
  <2>3. CASE b # NoBucket
    <3>1. b \in Bucket /\ b.last <= now  BY <2>3 DEF LimitsTypeOK
    <3>2. b.tokens \in Nat /\ now - b.last \in Nat /\ b.last \in Nat
      BY <1>1, <3>1 DEF Bucket
    <3>3. (now + 1) - b.last = (now - b.last) + 1  BY <1>1, <3>2
    <3>4. ((now + 1) - b.last) * Rate[l] = (now - b.last) * Rate[l] + 1 * Rate[l]
          /\ (now - b.last) * Rate[l] \in Nat
      BY <2>1, <3>2, <3>3, Distributes
    <3>5. ((now + 1) - b.last) * Rate[l] = (now - b.last) * Rate[l] + Rate[l]
      BY <2>1, <3>4
    <3>6. Budget[l][a] = Lesser(Burst[l], b.tokens + (now - b.last) * Rate[l])
      BY <2>3 DEF Budget, Tokens, Refilled
    <3>7. Budget'[l][a] = Lesser(Burst[l], b.tokens + ((now + 1) - b.last) * Rate[l])
      <4>. DEFINE then == b.tokens + (now' - b.last) * Rate[l]
      <4>1. Budget'[l][a] = IF b = NoBucket THEN Burst[l]
                            ELSE IF Burst[l] <= then THEN Burst[l] ELSE then
        BY <1>1 DEF Budget, Tokens, Refilled, Lesser
      <4>2. then = b.tokens + ((now + 1) - b.last) * Rate[l]
        BY <1>1
      <4>. HIDE DEF then
      <4>. QED  BY <2>3, <4>1, <4>2 DEF Lesser
    <3>. QED  BY <2>1, <3>2, <3>4, <3>5, <3>6, <3>7 DEF Lesser, Promise!Lesser
  <2>. QED  BY <2>2, <2>3
<1>3. Budget' = [l \in Limiter |-> [a \in Address |-> Promise!Lesser(Burst[l], Budget[l][a] + Rate[l])]]
  <2>1. Budget' = [m \in Limiter |-> [c \in Address |-> Budget'[m][c]]]
    BY DEF Budget
  <2>. QED  BY <1>2, <2>1
<1>. QED  BY <1>1, <1>3 DEF Promise!Refill

\* What is neither a request nor time passing leaves the limiters alone.
LEMMA NextCases ==
  ASSUME [Next]_vars
  PROVE  \/ \E l \in Limiter, a \in Address : Asks(l, a)
         \/ Tick
         \/ now' = now /\ UNCHANGED server
<1>1. ASSUME NEW l \in Limiter, NEW a \in Address, Request(l, a)
      PROVE  \E m \in Limiter, c \in Address : Asks(m, c)
  BY <1>1 DEF Request
<1>2. ASSUME NEW a \in Address, HandleLogin(a)
      PROVE  \E m \in Limiter, c \in Address : Asks(m, c)
  BY <1>2, LimitsAssumption DEF HandleLogin
<1>3. \/ \E a \in Address : LoginDropped(a)
      \/ \E k \in Key : LoginFails(k) \/ LoginSucceeds(k)
      \/ Watch \/ UNCHANGED vars
      => now' = now /\ UNCHANGED server
  BY DEF LoginDropped, LoginFails, LoginSucceeds, Watch, vars
<1>. QED  BY <1>1, <1>2, <1>3 DEF Next

LEMMA StepIsPromised ==
  LimitsTypeOK /\ [Next]_vars => [Promise!Next]_<<Budget, answer>>
<1>. SUFFICES ASSUME LimitsTypeOK, [Next]_vars PROVE [Promise!Next]_<<Budget, answer>>
  OBVIOUS
<1>1. ASSUME NEW l \in Limiter, NEW a \in Address, Asks(l, a) PROVE Promise!Next
  BY <1>1, AskIsPromised DEF Promise!Next
<1>2. CASE Tick  BY <1>2, TickRefills DEF Promise!Next
<1>3. CASE now' = now /\ UNCHANGED server
  BY <1>3 DEF server, Budget, Tokens, Refilled, Lesser
<1>. QED  BY <1>1, <1>2, <1>3, NextCases

LEMMA InitIsPromised == Init => Promise!Init
  BY DEF Init, Promise!Init, Budget, Tokens

\* Creating buckets late, refilling them late and dropping those that are idle cannot
\* be told from keeping a budget for everybody (AllowAt, EvictBefore, MaybeEvict).
THEOREM BudgetsAreKept == Spec => KeepsBudgets
  BY InitIsPromised, StepIsPromised, LimitsTypeCorrect, PTL DEF Spec, KeepsBudgets, Promise!Spec

-----------------------------------------------------------------------------
(***************************************************************************)
(* What is admitted: it has been paid for from the budget.                 *)
(***************************************************************************)
Paid(l, a) == admitted[l][a] * Token + Budget[l][a] <= Burst[l] + (now - since) * Rate[l]

LEMMA Numbers ==
  ASSUME LimitsTypeOK, NEW l \in Limiter, NEW a \in Address
  PROVE  /\ Budget[l][a] \in 0..Burst[l] /\ Burst[l] \in Nat /\ Rate[l] \in Nat
         /\ Token \in Nat /\ admitted[l][a] \in Nat
         /\ now \in Nat /\ since \in Nat /\ now - since \in Nat
         /\ admitted[l][a] * Token \in Nat /\ (now - since) * Rate[l] \in Nat
<1>1. /\ Budget[l][a] \in 0..Burst[l] /\ Burst[l] \in Nat /\ Rate[l] \in Nat
      /\ Token \in Nat /\ admitted[l][a] \in Nat
      /\ now \in Nat /\ since \in Nat /\ now - since \in Nat
  BY TokensBounded, LimitsAssumption DEF Budget, LimitsTypeOK
<1>. QED  BY <1>1, Distributes

LEMMA PaidStep ==
  ASSUME LimitsTypeOK, LimitsTypeOK', [Next]_vars, NEW l \in Limiter, NEW a \in Address, Paid(l, a)
  PROVE  Paid(l, a)'
<1>n. /\ Budget[l][a] \in 0..Burst[l] /\ Burst[l] \in Nat /\ Rate[l] \in Nat
      /\ Token \in Nat /\ admitted[l][a] \in Nat
      /\ now \in Nat /\ since \in Nat /\ now - since \in Nat
      /\ admitted[l][a] * Token \in Nat /\ (now - since) * Rate[l] \in Nat
  BY Numbers
<1>1. ASSUME NEW m \in Limiter, NEW c \in Address, Asks(m, c) PROVE Paid(l, a)'
  <2>1. now' = now /\ since' = since  BY <1>1 DEF Asks
  <2>2. /\ answer'.allowed = (Budget[m][c] >= Token)
        /\ Budget' = [Budget EXCEPT ![m][c] = IF @ >= Token THEN @ - Token ELSE @]
    BY <1>1, AskIsPromised DEF Promise!Ask
  <2>3. admitted' = [admitted EXCEPT ![m][c] = IF Budget[m][c] >= Token THEN @ + 1 ELSE @]
    <3>1. Tokens(m, Swept[m][c]) = Budget[m][c]  BY SweepIsInvisible DEF Budget
    <3>. QED  BY <1>1, <3>1 DEF Asks
  <2>4. CASE m = l /\ c = a /\ Budget[l][a] >= Token
    <3>1. admitted'[l][a] = admitted[l][a] + 1 /\ Budget'[l][a] = Budget[l][a] - Token
      <4>1. admitted \in [Limiter -> [Address -> Nat]]  BY DEF LimitsTypeOK
      <4>2. Budget = [i \in Limiter |-> [j \in Address |-> Budget[i][j]]]  BY DEF Budget
      <4>. QED  BY <2>2, <2>3, <2>4, <4>1, <4>2
    <3>2. (admitted[l][a] + 1) * Token = admitted[l][a] * Token + Token
      BY <1>n, Distributes
    <3>3. admitted'[l][a] * Token + Budget'[l][a] = admitted[l][a] * Token + Budget[l][a]
      BY <1>n, <3>1, <3>2
    <3>. QED  BY <2>1, <3>3 DEF Paid
  <2>5. CASE ~(m = l /\ c = a /\ Budget[l][a] >= Token)
    <3>1. admitted'[l][a] = admitted[l][a] /\ Budget'[l][a] = Budget[l][a]
      <4>1. admitted \in [Limiter -> [Address -> Nat]]  BY DEF LimitsTypeOK
      <4>2. Budget = [i \in Limiter |-> [j \in Address |-> Budget[i][j]]]  BY DEF Budget
      <4>. QED  BY <2>2, <2>3, <2>5, <4>1, <4>2
    <3>. QED  BY <2>1, <3>1 DEF Paid
  <2>. QED  BY <2>4, <2>5
<1>2. CASE Tick
  <2>1. now' = now + 1 /\ since' = since /\ admitted' = admitted
    BY <1>2 DEF Tick, watched
  <2>2. Budget'[l][a] = Promise!Lesser(Burst[l], Budget[l][a] + Rate[l])
    BY <1>2, TickRefills DEF Promise!Refill
  <2>3. Budget'[l][a] <= Budget[l][a] + Rate[l] /\ Budget'[l][a] \in Nat
    BY <1>n, <2>2 DEF Promise!Lesser
  <2>4. (now + 1) - since = (now - since) + 1  BY <1>n
  <2>5. ((now + 1) - since) * Rate[l] = (now - since) * Rate[l] + Rate[l]
    BY <1>n, <2>4, Distributes
  <2>6. admitted[l][a] * Token + Budget'[l][a] <= Burst[l] + ((now + 1) - since) * Rate[l]
    BY <1>n, <2>3, <2>5 DEF Paid
  <2>. QED  BY <2>1, <2>6 DEF Paid
<1>3. CASE Watch
  <2>1. now' = now /\ since' = now /\ admitted'[l][a] = 0 /\ UNCHANGED server
    BY <1>3 DEF Watch, None
  <2>2. Budget'[l][a] = Budget[l][a]
    BY <2>1 DEF server, Budget, Tokens, Refilled, Lesser
  <2>3. 0 * Token = 0 /\ (now - now) * Rate[l] = 0  BY <1>n, SMT
  <2>. QED  BY <1>n, <2>1, <2>2, <2>3 DEF Paid
<1>4. CASE now' = now /\ UNCHANGED server /\ UNCHANGED <<since, admitted>>
  BY <1>4 DEF server, Paid, Budget, Tokens, Refilled, Lesser
<1>5. \/ \E k \in Key : LoginFails(k) \/ LoginSucceeds(k)
      \/ \E c \in Address : LoginDropped(c)
      \/ UNCHANGED vars
      => now' = now /\ UNCHANGED server /\ UNCHANGED <<since, admitted>>
  BY DEF LoginFails, LoginSucceeds, LoginDropped, vars, watched
<1>6. ASSUME NEW m \in Limiter, NEW c \in Address, Request(m, c) \/ (m = Auth /\ HandleLogin(c))
      PROVE  Paid(l, a)'
  BY <1>1, <1>6 DEF Request, HandleLogin
<1>. QED  BY <1>2, <1>3, <1>4, <1>5, <1>6, LimitsAssumption DEF Next

\* The number of requests a limiter admits from an address, in whatever stretch of
\* time, is bounded by burst and rate (WebServer::RegisterRoutes, AllowAt).
THEOREM RatesAreHeld == Spec => []RateHeld
<1>. DEFINE Inv == LimitsTypeOK /\ \A l \in Limiter, a \in Address : Paid(l, a)
<1>1. Init => Inv
  <2>. SUFFICES ASSUME Init PROVE \A l \in Limiter, a \in Address : Paid(l, a)
    BY TypeInit
  <2>. TAKE l \in Limiter, a \in Address
  <2>1. admitted[l][a] = 0 /\ now - since = 0 /\ Budget[l][a] = Burst[l]
    BY DEF Init, Budget, Tokens
  <2>2. Burst[l] \in Nat /\ Rate[l] \in Nat /\ Token \in Nat  BY LimitsAssumption
  <2>3. 0 * Token = 0 /\ 0 * Rate[l] = 0  BY <2>2, SMT
  <2>. QED  BY <2>1, <2>2, <2>3 DEF Paid
<1>2. Inv /\ [Next]_vars => Inv'
  <2>. SUFFICES ASSUME Inv, [Next]_vars PROVE Inv'
    OBVIOUS
  <2>1. LimitsTypeOK'  BY TypeStep
  <2>2. ASSUME NEW l \in Limiter, NEW a \in Address PROVE Paid(l, a)'
    BY <2>1, <2>2, PaidStep
  <2>. QED  BY <2>1, <2>2
<1>3. Inv => RateHeld
  <2>. SUFFICES ASSUME Inv, NEW l \in Limiter, NEW a \in Address
                PROVE  admitted[l][a] * Token <= Burst[l] + (now - since) * Rate[l]
    BY DEF RateHeld
  <2>1. Paid(l, a)  OBVIOUS
  <2>. QED  BY <2>1, Numbers DEF Paid
<1>. QED  BY <1>1, <1>2, <1>3, PTL DEF Spec

-----------------------------------------------------------------------------
(***************************************************************************)
(* Failed logins.                                                          *)
(***************************************************************************)
\* Failures seen since `since' are those of the window under way if it began earlier,
\* and those of at most one window more if not; or the last of them locked.
Counted(k) ==
  now - since < Lockout =>
    IF entries[k] = NoEntry THEN failed[k] < MaxFails
    ELSE IF entries[k].window_start < since THEN failed[k] <= entries[k].fails
    ELSE \/ failed[k] <= MaxFails - 1 + entries[k].fails
         \/ /\ entries[k].locked_until = entries[k].window_start + Lockout
            /\ failed[k] < 2 * MaxFails

LEMMA Facts ==
  ASSUME LimitsTypeOK, NEW k \in Key
  PROVE  /\ now \in Nat /\ since \in 0..now /\ failed[k] \in Nat
         /\ MaxFails \in Nat \ {0} /\ Lockout \in Nat \ {0}
         /\ MaxQuiet \in Nat /\ MaxQuiet >= Lockout
         /\ entries[k] # NoEntry =>
              /\ entries[k].fails \in Nat /\ entries[k].fails < MaxFails
              /\ entries[k].window_start \in 0..now
              /\ entries[k].locked_until \in Nat
              /\ entries[k].locked_until <= entries[k].window_start + Lockout
  BY LimitsAssumption DEF LimitsTypeOK, Entry

LEMMA FailureCounted ==
  ASSUME LimitsTypeOK, NEW k \in Key, Counted(k), LoginFails(k)
  PROVE  Counted(k)'
<1>. SUFFICES ASSUME now - since < Lockout PROVE Counted(k)'
  BY DEF Counted, LoginFails
<1>. DEFINE e == entries[k]
<1>f. /\ now \in Nat /\ since \in 0..now /\ failed[k] \in Nat
      /\ MaxFails \in Nat \ {0} /\ Lockout \in Nat \ {0}
      /\ e # NoEntry => /\ e.fails \in Nat /\ e.fails < MaxFails
                        /\ e.window_start \in 0..now /\ e.locked_until \in Nat
  BY Facts
<1>u. ~Locked(k)  BY DEF LoginFails, MayVerify
<1>1. /\ failed'[k] = failed[k] + 1 /\ now' = now /\ since' = since
      /\ entries'[k] = IF Current(k).fails + 1 >= MaxFails
           THEN [fails |-> 0, window_start |-> now, locked_until |-> now + Lockout]
           ELSE [Current(k) EXCEPT !.fails = @ + 1]
  <2>1. failed'[k] = failed[k] + 1 /\ now' = now /\ since' = since
    BY DEF LoginFails, LimitsTypeOK
  <2>2. entries'[k] = IF Current(k).fails + 1 >= MaxFails
           THEN [fails |-> 0, window_start |-> now, locked_until |-> now + Lockout]
           ELSE [Current(k) EXCEPT !.fails = @ + 1]
    BY DEF LoginFails, RecordFailure, LimitsTypeOK
  <2>. QED  BY <2>1, <2>2
<1>2. ASSUME Current(k).fails \in Nat, Current(k).fails < MaxFails,
             Current(k).window_start \in 0..now, Current(k) \in Entry,
             IF Current(k).window_start < since THEN failed[k] <= Current(k).fails
             ELSE failed[k] <= MaxFails - 1 + Current(k).fails
      PROVE  Counted(k)'
  <2>1. CASE Current(k).fails + 1 >= MaxFails
    <3>0. entries'[k] = [fails |-> 0, window_start |-> now, locked_until |-> now + Lockout]
      BY <1>1, <2>1
    <3>1. /\ entries'[k].window_start = now /\ entries'[k].locked_until = now + Lockout
          /\ entries'[k] # NoEntry
      BY <1>f, <3>0, LimitsAssumption DEF Entry
    <3>2. failed'[k] < 2 * MaxFails
      BY <1>f, <1>1, <1>2, <2>1
    <3>. QED  BY <1>f, <1>1, <3>1, <3>2 DEF Counted
  <2>2. CASE ~(Current(k).fails + 1 >= MaxFails)
    <3>0. entries'[k] = [Current(k) EXCEPT !.fails = @ + 1]
      BY <1>1, <2>2
    <3>1. /\ entries'[k].window_start = Current(k).window_start
          /\ entries'[k].fails = Current(k).fails + 1
          /\ entries'[k] # NoEntry
      BY <1>2, <3>0, LimitsAssumption DEF Entry
    <3>. QED  BY <1>f, <1>1, <1>2, <3>1 DEF Counted
  <2>. QED  BY <2>1, <2>2
<1>3. CASE e = NoEntry
  <2>1. Current(k) = [fails |-> 0, window_start |-> now, locked_until |-> 0]
    BY <1>3 DEF Current
  <2>2. failed[k] < MaxFails  BY <1>3 DEF Counted
  <2>. QED  BY <1>2, <1>f, <2>1, <2>2 DEF Entry
<1>4. CASE e # NoEntry
  <2>0. e \in Entry  BY <1>4 DEF LimitsTypeOK
  <2>1. IF e.window_start < since THEN failed[k] <= e.fails
        ELSE failed[k] <= MaxFails - 1 + e.fails
    <3>1. now >= e.locked_until  BY <1>f, <1>u, <1>4 DEF Locked
    <3>. QED  BY <1>f, <1>4, <3>1 DEF Counted
  <2>2. CASE now - e.window_start > Lockout
    <3>1. e.window_start < since /\ failed[k] < MaxFails  BY <1>f, <1>4, <2>1, <2>2
    <3>2. Current(k) = [e EXCEPT !.fails = 0, !.window_start = now]
      BY <1>4, <2>2 DEF Current
    <3>3. Current(k).fails = 0 /\ Current(k).window_start = now /\ Current(k) \in Entry
      <4>1. Current(k) = [fails |-> 0, window_start |-> now, locked_until |-> e.locked_until]
        BY <2>0, <3>2 DEF Entry
      <4>2. e.locked_until \in Nat  BY <2>0 DEF Entry
      <4>. QED  BY <1>f, <4>1, <4>2 DEF Entry
    <3>. QED  BY <1>2, <1>f, <3>1, <3>3
  <2>3. CASE ~(now - e.window_start > Lockout)
    <3>1. Current(k) = e  BY <1>4, <2>3 DEF Current
    <3>. QED  BY <1>2, <1>f, <1>4, <2>0, <2>1, <3>1
  <2>. QED  BY <2>2, <2>3
<1>. QED  BY <1>3, <1>4

LEMMA CountedStep ==
  ASSUME LimitsTypeOK, [Next]_vars, NEW k \in Key, Counted(k)
  PROVE  Counted(k)'
<1>f. /\ now \in Nat /\ since \in 0..now /\ failed[k] \in Nat
      /\ MaxFails \in Nat \ {0} /\ Lockout \in Nat \ {0}
      /\ MaxQuiet \in Nat /\ MaxQuiet >= Lockout
      /\ entries[k] # NoEntry =>
           /\ entries[k].fails \in Nat /\ entries[k].fails < MaxFails
           /\ entries[k].window_start \in 0..now
  BY Facts
<1>1. CASE UNCHANGED <<now, since>> /\ failed'[k] = failed[k] /\ entries'[k] = entries[k]
  BY <1>1 DEF Counted
<1>2. ASSUME NEW l \in Limiter, NEW a \in Address, Request(l, a) PROVE Counted(k)'
  BY <1>1, <1>2 DEF Request, Asks, login
<1>3. ASSUME NEW a \in Address, HandleLogin(a) PROVE Counted(k)'
  <2>1. UNCHANGED <<now, since, failed>>  BY <1>3 DEF HandleLogin, Asks
  <2>2. \/ entries'[k] = entries[k]
        \/ Expired(k) /\ entries'[k] = NoEntry
    BY <1>3 DEF HandleLogin, login, LimitsTypeOK
  <2>3. CASE Expired(k) /\ entries'[k] = NoEntry
    <3>1. entries[k] # NoEntry /\ now - entries[k].window_start > MaxQuiet
      BY <2>3 DEF Expired
    <3>2. now - since < Lockout => failed[k] < MaxFails
      BY <1>f, <3>1 DEF Counted
    <3>. QED  BY <2>1, <2>3, <3>2 DEF Counted
  <2>. QED  BY <1>1, <2>1, <2>2, <2>3
<1>4. ASSUME NEW a \in Address, LoginDropped(a) PROVE Counted(k)'
  BY <1>1, <1>4 DEF LoginDropped, watched
<1>5. ASSUME NEW j \in Key, LoginFails(j) PROVE Counted(k)'
  <2>1. CASE j = k  BY <1>5, <2>1, FailureCounted
  <2>2. CASE j # k
    BY <1>1, <1>5, <2>2 DEF LoginFails, RecordFailure, LimitsTypeOK
  <2>. QED  BY <2>1, <2>2
<1>6. ASSUME NEW j \in Key, LoginSucceeds(j) PROVE Counted(k)'
  <2>1. CASE j = k
    <3>1. entries'[k] = NoEntry /\ failed'[k] = 0
      BY <1>6, <2>1 DEF LoginSucceeds, LimitsTypeOK
    <3>. QED  BY <1>f, <3>1 DEF Counted
  <2>2. CASE j # k
    BY <1>1, <1>6, <2>2 DEF LoginSucceeds, LimitsTypeOK
  <2>. QED  BY <2>1, <2>2
<1>7. CASE Tick
  <2>1. now' = now + 1 /\ UNCHANGED <<since, failed, entries>>
    BY <1>7 DEF Tick, login, watched
  <2>. QED  BY <1>f, <2>1 DEF Counted
<1>8. CASE Watch
  <2>1. since' = now /\ now' = now /\ failed'[k] = 0 /\ entries' = entries
    BY <1>8 DEF Watch, None, login
  <2>. QED  BY <1>f, <2>1 DEF Counted
<1>9. CASE UNCHANGED vars
  BY <1>1, <1>9 DEF vars, login, watched
<1>. QED  BY <1>2, <1>3, <1>4, <1>5, <1>6, <1>7, <1>8, <1>9 DEF Next

\* In any stretch of one lockout there are fewer than twice MaxFails failures of an
\* account from an address (RecordFailureAt, EvictBefore, HandleLogin).
THEOREM FailuresAreBounded == Spec => []FailuresBounded
<1>. DEFINE Inv == LimitsTypeOK /\ \A k \in Key : Counted(k)
<1>1. Init => Inv
  BY TypeInit, LimitsAssumption DEF Init, Counted
<1>2. Inv /\ [Next]_vars => Inv'
  <2>. SUFFICES ASSUME Inv, [Next]_vars PROVE Inv'
    OBVIOUS
  <2>1. LimitsTypeOK'  BY TypeStep
  <2>2. ASSUME NEW k \in Key PROVE Counted(k)'
    BY <2>2, CountedStep
  <2>. QED  BY <2>1, <2>2
<1>3. Inv => FailuresBounded
  <2>. SUFFICES ASSUME Inv, NEW k \in Key, now - since < Lockout
                PROVE  failed[k] < 2 * MaxFails
    BY DEF FailuresBounded
  <2>1. Counted(k)  OBVIOUS
  <2>. QED  BY <2>1, Facts DEF Counted
<1>. QED  BY <1>1, <1>2, <1>3, PTL DEF Spec

\* A lock lasts: no step of the server lifts it early or verifies a password while it
\* is in force (IsLockedAt, read when the body has arrived, Reset, EvictBefore).
THEOREM LocksHold == Spec => LockHolds
<1>. DEFINE Kept == \A k \in Key : Locked(k) =>
              /\ failed'[k] <= failed[k]
              /\ now' < entries[k].locked_until => entries'[k] = entries[k]
<1>1. LimitsTypeOK /\ [Next]_vars => [Kept]_vars
  <2>. SUFFICES ASSUME LimitsTypeOK, Next, NEW k \in Key, Locked(k)
                PROVE  /\ failed'[k] <= failed[k]
                       /\ now' < entries[k].locked_until => entries'[k] = entries[k]
    OBVIOUS
  <2>f. failed[k] \in Nat  BY Facts
  <2>1. ASSUME NEW a \in Address, HandleLogin(a)
        PROVE  failed'[k] = failed[k] /\ entries'[k] = entries[k]
    BY <2>1 DEF HandleLogin, Asks, login, Expired, LimitsTypeOK
  <2>2. ASSUME NEW j \in Key, LoginFails(j) \/ LoginSucceeds(j)
        PROVE  failed'[k] = failed[k] /\ entries'[k] = entries[k]
    <3>1. j # k  BY <2>2 DEF LoginFails, LoginSucceeds, MayVerify
    <3>. QED  BY <2>2, <3>1 DEF LoginFails, LoginSucceeds, RecordFailure, LimitsTypeOK
  <2>3. CASE Watch
    BY <2>f, <2>3 DEF Watch, None, login
  <2>4. ASSUME NEW l \in Limiter, NEW a \in Address, Request(l, a)
        PROVE  failed' = failed /\ entries' = entries
    BY <2>4 DEF Request, Asks, login
  <2>5. ASSUME (\E a \in Address : LoginDropped(a)) \/ Tick
        PROVE  failed' = failed /\ entries' = entries
    BY <2>5 DEF LoginDropped, Tick, watched, login
  <2>. QED  BY <2>f, <2>1, <2>2, <2>3, <2>4, <2>5 DEF Next
<1>. QED  BY <1>1, LimitsTypeCorrect, PTL DEF Spec, LockHolds
=============================================================================
