---------------------------- MODULE LimitsSafety ----------------------------
(***************************************************************************)
(* What the limits achieve, for whoever counts, from whenever he counts.   *)
(***************************************************************************)
EXTENDS ServerLimits

\* Every variable has its type; nothing is dated in the future; no bucket holds more
\* than the burst, and a lock is as long as it should be.
LimitsTypeOK ==
  /\ now \in Nat /\ last_evict \in 0..now /\ last_sweep \in 0..now /\ since \in 0..now
  /\ buckets \in [Limiter -> [Address -> Bucket \cup {NoBucket}]]
  /\ \A l \in Limiter, a \in Address : buckets[l][a] # NoBucket =>
       buckets[l][a].last <= now /\ buckets[l][a].tokens <= Burst[l]
  /\ answer \in Answer \cup {NoAnswer}
  /\ reading \in [Address -> Nat]
  /\ entries \in [Key -> Entry \cup {NoEntry}]
  /\ \A k \in Key : entries[k] # NoEntry =>
       /\ entries[k].fails < MaxFails /\ entries[k].window_start <= now
       /\ entries[k].locked_until <= entries[k].window_start + Lockout
  /\ admitted \in [Limiter -> [Address -> Nat]]
  /\ failed \in [Key -> Nat]

\* The budget the buckets stand for at this moment.
Budget == [l \in Limiter |-> [a \in Address |-> Tokens(l, buckets[l][a])]]

Promise == INSTANCE TokenBucket WITH budget <- Budget

\* Buckets are created when first asked for, refilled only when asked again and
\* dropped when idle; nobody can tell: the answers are those of budgets which are
\* kept for everybody for ever and refilled by the clock.
KeepsBudgets == Promise!Spec

\* In any stretch of time no address has more admitted than the burst and what the
\* rate gives for it, whatever is evicted in between.
RateHeld == \A l \in Limiter, a \in Address :
  admitted[l][a] * Token <= Burst[l] + (now - since) * Rate[l]

\* In any stretch of one lockout an account sees fewer than twice the failures that
\* lock it, from one address, since a success.  Not fewer: the window of failures
\* does not roll, it starts anew.
FailuresBounded == \A k \in Key :
  now - since < Lockout => failed[k] < 2 * MaxFails

\* A locked account stays locked for its time and nothing is verified for it, also
\* by logins that were under way when it was locked: no sweep, success or failure
\* lifts the lock.
LockHolds ==
  [][\A k \in Key : Locked(k) =>
       /\ failed'[k] <= failed[k]
       /\ now' < entries[k].locked_until => entries'[k] = entries[k]]_vars
=============================================================================
