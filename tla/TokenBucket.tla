----------------------------- MODULE TokenBucket -----------------------------
(***************************************************************************)
(* What a rate limiter promises: everybody has a budget, of which a request*)
(* takes one token if there is one and which time refills up to the burst. *)
(* Nothing else changes it; in particular it is never forgotten.           *)
(***************************************************************************)
EXTENDS Integers

CONSTANTS Limiter, Address, Burst, Rate, Token, NoAnswer

VARIABLES budget, answer

Lesser(x, y) == IF x <= y THEN x ELSE y

Init ==
  /\ budget = [l \in Limiter |-> [a \in Address |-> Burst[l]]]
  /\ answer = NoAnswer

Ask(l, a) ==
  /\ answer' = [limiter |-> l, address |-> a, allowed |-> budget[l][a] >= Token]
  /\ budget' = [budget EXCEPT ![l][a] = IF @ >= Token THEN @ - Token ELSE @]

Refill ==
  /\ budget' = [l \in Limiter |->
       [a \in Address |-> Lesser(Burst[l], budget[l][a] + Rate[l])]]
  /\ UNCHANGED answer

Next == Refill \/ \E l \in Limiter, a \in Address : Ask(l, a)

Spec == Init /\ [][Next]_<<budget, answer>>
=============================================================================
