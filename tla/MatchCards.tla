----------------------------- MODULE MatchCards ------------------------------
(***************************************************************************)
(* No card of a match is lost or doubled: the theorem, for every deck,     *)
(* every table and every mod list.                                         *)
(***************************************************************************)
EXTENDS MatchProofs

\* CardConservation card by card, the form the steps below work with.
Conserved ==
  /\ \A c \in settings.deck :
       c \in draw_pile \/ c \in discard_pile \/ \E p \in Name : c \in hand[p]
  /\ draw_pile \subseteq settings.deck /\ discard_pile \subseteq settings.deck
  /\ \A p \in Name : hand[p] \subseteq settings.deck
  /\ \A c \in draw_pile : c \notin discard_pile
  /\ \A p \in Name : \A c \in hand[p] : c \notin draw_pile /\ c \notin discard_pile
  /\ \A p, q \in Name : p # q => hand[p] \cap hand[q] = {}
  /\ \A p \in Name \ Seated : hand[p] = {}

OneSeatEach == IsInjective(players)

\* The seats are told apart by their names: without that, a hand could be
\* passed on twice.
CardInv == Inv /\ Conserved /\ OneSeatEach

LEMMA ConservedCards ==
  ASSUME TypeOK, Conserved
  PROVE  CardConservation
  <1>1. \A c : c \in UNION Range(hand) <=> \E p \in Name : c \in hand[p]
    BY DEF Range, TypeOK
  <1> QED
    BY <1>1 DEF Conserved, CardConservation

\* Cards move off the stock into one hand, with or without a reshuffle.
LEMMA TakeConserves ==
  ASSUME TypeOK, Conserved, UNCHANGED settings, Seated \subseteq Seated',
         NEW p \in Name, p \in Seated',
         NEW S \in FromStock, Take(p, S)
  PROVE  Conserved'
  <1>1. S \subseteq draw_pile \cup (discard_pile \ {top_card}) /\ top_card \in discard_pile
        /\ (S \subseteq draw_pile \/ draw_pile \subseteq S)
    BY DEF FromStock, Stock, Buried, TypeOK
  <1>2. /\ hand' = [hand EXCEPT ![p] = @ \cup S] /\ hand \in [Name -> SUBSET Card]
        /\ settings'.deck = settings.deck
    BY DEF Take, TypeOK
  <1>3. CASE S \subseteq draw_pile
    <2>1. draw_pile' = draw_pile \ S /\ discard_pile' = discard_pile
      BY <1>3 DEF Take
    <2> QED
      BY <1>1, <1>2, <1>3, <2>1 DEF Conserved
  <1>4. CASE ~(S \subseteq draw_pile)
    <2>1. draw_pile' = (discard_pile \ {top_card}) \ S /\ discard_pile' = {top_card}
      BY <1>4 DEF Take, Buried
    <2> QED
      BY <1>1, <1>2, <1>4, <2>1 DEF Conserved
  <1> QED
    BY <1>3, <1>4

\* A card moves from a hand to the top of the discard pile.
LEMMA PlayConserves ==
  ASSUME TypeOK, Conserved, UNCHANGED settings,
         NEW p \in Seated, NEW c \in hand[p], NEW announced, Play(p, c, announced)
  PROVE  Conserved'
  <1>1. /\ hand' = [hand EXCEPT ![p] = @ \ {c}] /\ hand \in [Name -> SUBSET Card]
        /\ discard_pile' = discard_pile \cup {c} /\ draw_pile' = draw_pile
        /\ settings' = settings /\ players' = players
    BY DEF Play, TypeOK
  <1>2. p \in Name /\ Seated' = Seated
    BY <1>1, SeatTypes DEF Seated
  <1> QED
    BY <1>1, <1>2 DEF Conserved

\* Whatever leaves cards and seats alone leaves them conserved.
LEMMA SameCards ==
  ASSUME Conserved, OneSeatEach, UNCHANGED <<settings, players, hand, draw_pile, discard_pile>>
  PROVE  Conserved' /\ OneSeatEach'
  BY DEF Conserved, OneSeatEach, Seated, Range, IsInjective

\* Hands go from seat to seat along a permutation of the seats.
LEMMA PermutedHands ==
  ASSUME TypeOK, Conserved, UNCHANGED <<settings, players, draw_pile, discard_pile>>,
         NEW from \in [Seated -> Seated],
         \A p, q \in Seated : from[p] = from[q] => p = q,
         \A q \in Seated : \E p \in Seated : from[p] = q,
         hand' = [p \in Name |-> IF p \in Seated THEN hand[from[p]] ELSE hand[p]]
  PROVE  Conserved'
  <1>1. Seated' = Seated /\ Seated \subseteq Name
    BY SeatTypes DEF Seated
  <1>2. \A c \in settings.deck : (\E p \in Name : c \in hand[p]) => \E p \in Name : c \in hand'[p]
    <2> TAKE c \in settings.deck
    <2> SUFFICES ASSUME NEW p \in Name, c \in hand[p]
                 PROVE  \E q \in Name : c \in hand'[q]
      OBVIOUS
    <2>1. p \in Seated
      BY DEF Conserved
    <2>2. PICK q \in Seated : from[q] = p
      BY <2>1
    <2> QED
      BY <1>1, <2>2
  <1>3. \A p, q \in Name : p # q => hand'[p] \cap hand'[q] = {}
    <2> TAKE p, q \in Name
    <2>1. CASE p \in Seated /\ q \in Seated
      BY <1>1, <2>1 DEF Conserved
    <2>2. CASE p \notin Seated \/ q \notin Seated
      BY <1>1, <2>2 DEF Conserved
    <2> QED
      BY <2>1, <2>2
  <1>4. \A p \in Name : hand'[p] \subseteq settings.deck
                        /\ \A c \in hand'[p] : c \notin draw_pile /\ c \notin discard_pile
    BY <1>1 DEF Conserved
  <1>5. \A p \in Name \ Seated' : hand'[p] = {}
    BY <1>1 DEF Conserved
  <1> QED
    BY <1>1, <1>2, <1>3, <1>4, <1>5 DEF Conserved

-----------------------------------------------------------------------------
LEMMA CurrentSeated ==
  ASSUME TypeOK
  PROVE  CurrentPlayer \in Seated
  <1>1. current_player_index + 1 \in DOMAIN players
    BY LenProperties, SMT DEF TypeOK
  <1> QED
    BY <1>1 DEF Seated, Range, CurrentPlayer, At

LEMMA PlayStep ==
  ASSUME CardInv, UNCHANGED settings,
         NEW p, NEW c, CanPlay(p, c), NEW announced, Play(p, c, announced)
  PROVE  Conserved' /\ OneSeatEach'
  <1>1. Conserved'
    BY PlayConserves DEF CanPlay, CardInv, Inv
  <1>2. players' = players
    BY DEF Play
  <1> QED
    BY <1>1, <1>2 DEF OneSeatEach, IsInjective, CardInv

LEMMA DrawStep ==
  ASSUME CardInv, UNCHANGED settings, Draw(CurrentPlayer)
  PROVE  Conserved' /\ OneSeatEach'
  <1>1. players' = players
    BY DEF Draw, seats
  <1>2. CurrentPlayer \in Name /\ CurrentPlayer \in Seated' /\ Seated \subseteq Seated'
    BY <1>1, CurrentSeated, SeatTypes DEF CardInv, Inv, Seated
  <1>3. \E S \in FromStock : Take(CurrentPlayer, S)
    BY YieldTypes, DrawsTypes DEF Draw, DrawPenalty, DrawOne
  <1>4. Conserved'
    BY <1>2, <1>3, TakeConserves DEF CardInv, Inv
  <1> QED
    BY <1>1, <1>4 DEF OneSeatEach, IsInjective, CardInv

LEMMA BotMoveStep ==
  ASSUME CardInv, BotMove
  PROVE  Conserved' /\ OneSeatEach'
  <1> DEFINE p == CurrentPlayer
             announced == IF Cardinality(hand[p]) <= 2 THEN called_uno \cup {p} ELSE called_uno
  <1>1. UNCHANGED settings /\ ~IsWaiting /\ status = "playing"
    BY DEF BotMove, Handler, Idle
  <1>2. CASE Draw(p)
    BY <1>1, <1>2, DrawStep
  <1>3. CASE \E c \in hand[p] : /\ Playable(c, TableFor(p, hand[p]))
                                /\ Play(p, c, announced)
    <2>1. p \in Seated
      BY CurrentSeated DEF CardInv, Inv
    <2>2. PICK c \in hand[p] : Playable(c, TableFor(p, hand[p])) /\ Play(p, c, announced)
      BY <1>3
    <2>3. CanPlay(p, c)
      BY <1>1, <2>1, <2>2 DEF CanPlay
    <2> HIDE DEF p, announced
    <2> QED
      BY <1>1, <2>2, <2>3, PlayStep
  <1> QED
    BY <1>2, <1>3 DEF BotMove

LEMMA NestedPlayStep ==
  ASSUME CardInv, NestedPlay
  PROVE  Conserved' /\ OneSeatEach'
  <1>1. CASE CanPlay(nested.who, nested.card)
    BY <1>1, PlayStep DEF NestedPlay
  <1>2. CASE ~CanPlay(nested.who, nested.card)
    BY <1>2, SameCards DEF NestedPlay, seats, cards, piles, CardInv
  <1> QED
    BY <1>1, <1>2

LEMMA DrawCardsStep ==
  ASSUME CardInv, DrawCards
  PROVE  Conserved' /\ OneSeatEach'
  <1> DEFINE who == Head(effect_queue).who
  <1>1. UNCHANGED <<settings, players>>
    BY DEF DrawCards, Resolving, seats
  <1>2. CASE who \in Seated
    <2>1. PICK S \in Yields(Head(effect_queue).count) : Take(who, S)
      BY <1>2 DEF DrawCards
    <2>2. who \in Name /\ S \in FromStock /\ Seated' = Seated
      BY <1>1, <1>2, SeatTypes, YieldTypes DEF CardInv, Inv, Seated
    <2> HIDE DEF who
    <2>3. Conserved'
      BY <1>1, <1>2, <2>1, <2>2, TakeConserves DEF CardInv, Inv
    <2> QED
      BY <1>1, <2>3 DEF OneSeatEach, IsInjective, CardInv
  <1>3. CASE who \notin Seated
    BY <1>1, <1>3, SameCards DEF DrawCards, cards, piles, CardInv
  <1> QED
    BY <1>2, <1>3

\* An exchange of two hands is a permutation of the seats.
LEMMA SwapStep ==
  ASSUME CardInv, DecideSwapTarget
  PROVE  Conserved' /\ OneSeatEach'
  <1> DEFINE p == Head(effect_queue).who
  <1>1. UNCHANGED <<settings, players, draw_pile, discard_pile>>
    BY DEF DecideSwapTarget, Resolving, seats, piles
  <1>2. CASE UNCHANGED <<hand, called_uno>>
    BY <1>1, <1>2, SameCards DEF CardInv
  <1>3. CASE /\ p \in Seated /\ provided_input \in Seated \ {p}
             /\ SwapHands(p, provided_input)
    <2> DEFINE q == provided_input
               from == [r \in Seated |-> IF r = p THEN q ELSE IF r = q THEN p ELSE r]
    <2>1. from \in [Seated -> Seated] /\ Seated \subseteq Name
      BY <1>3, SeatTypes DEF CardInv, Inv
    <2>2. \A r, t \in Seated : from[r] = from[t] => r = t
      BY <1>3
    <2>3. \A t \in Seated : \E r \in Seated : from[r] = t
      <3> TAKE t \in Seated
      <3>1. CASE t = p
        BY <1>3, <3>1
      <3>2. CASE t = q
        BY <1>3, <3>2
      <3>3. CASE t # p /\ t # q
        BY <3>3
      <3> QED
        BY <3>1, <3>2, <3>3
    <2>4. hand' = [r \in Name |-> IF r \in Seated THEN hand[from[r]] ELSE hand[r]]
      BY <1>3, <2>1 DEF SwapHands, CardInv, Inv, TypeOK
    <2> HIDE DEF p, q, from
    <2>5. Conserved'
      BY <1>1, <2>1, <2>2, <2>3, <2>4, PermutedHands DEF CardInv, Inv
    <2> QED
      BY <1>1, <2>5 DEF OneSeatEach, IsInjective, CardInv
  <1> QED
    BY <1>2, <1>3 DEF DecideSwapTarget

\* One step round a table of n seats and one step back.
LEMMA RoundTable ==
  ASSUME NEW n \in Nat \ {0}, NEW d \in {1, -1}, NEW i \in 0 .. n - 1
  PROVE  /\ (i - d) % n \in 0 .. n - 1
         /\ (i + d) % n \in 0 .. n - 1
         /\ (((i - d) % n) + d) % n = i
         /\ (((i + d) % n) - d) % n = i
  <1>1. \A x \in 0 .. n - 1 : x % n = x
    BY SMT
  <1>2. n % n = 0 /\ (-1) % n = n - 1
    BY SMT
  <1>3. CASE d = 1
    BY <1>1, <1>2, <1>3, SMT
  <1>4. CASE d = -1
    BY <1>1, <1>2, <1>4, SMT
  <1> QED
    BY <1>3, <1>4

\* Hands passed on go round the seats, each with its announcement.
LEMMA PassedAround ==
  ASSUME CardInv, PassHands
  PROVE  \E from \in [Seated -> Seated] :
           /\ \A p, q \in Seated : from[p] = from[q] => p = q
           /\ \A q \in Seated : \E p \in Seated : from[p] = q
           /\ hand' = [p \in Name |-> IF p \in Seated THEN hand[from[p]] ELSE hand[p]]
           /\ called_uno' = {p \in Seated : from[p] \in called_uno}
  <1> DEFINE n == Len(players)
             giver(j) == players[Around(j - 1 - play_direction) + 1]
             seat(p)  == CHOOSE j \in DOMAIN players : players[j] = p
             from == [p \in Seated |-> giver(seat(p))]
  <1>1. /\ UNCHANGED <<settings, players, draw_pile, discard_pile>>
        /\ hand' = [p \in Name |-> IF p \in Seated THEN hand[giver(seat(p))] ELSE hand[p]]
        /\ called_uno' = {p \in Seated : giver(seat(p)) \in called_uno}
    BY DEF PassHands, Resolving, seats, piles
  <1>2. n \in Nat \ {0} /\ DOMAIN players = 1 .. n /\ play_direction \in {1, -1}
    BY EmptySeq, LenProperties DEF CardInv, Inv, TypeOK
  <1>3. \A p \in Seated : seat(p) \in 1 .. n /\ players[seat(p)] = p
    BY <1>2 DEF Seated, Range
  <1>4. \A j \in 1 .. n : players[j] \in Seated /\ seat(players[j]) = j
    BY <1>2, <1>3 DEF Seated, Range, CardInv, OneSeatEach, IsInjective
  <1>5. \A j \in 1 .. n : Around(j - 1 - play_direction) + 1 \in 1 .. n
    <2> TAKE j \in 1 .. n
    <2>1. j - 1 \in 0 .. n - 1
      BY <1>2
    <2>2. (j - 1 - play_direction) % n \in 0 .. n - 1
      BY <1>2, <2>1, RoundTable
    <2> QED
      BY <1>2, <2>2, SMT DEF Around
  <1>6. \A j, k \in 1 .. n :
          Around(j - 1 - play_direction) = Around(k - 1 - play_direction) => j = k
    <2> TAKE j, k \in 1 .. n
    <2>1. j - 1 \in 0 .. n - 1 /\ k - 1 \in 0 .. n - 1
      BY <1>2
    <2>2. /\ (((j - 1 - play_direction) % n) + play_direction) % n = j - 1
          /\ (((k - 1 - play_direction) % n) + play_direction) % n = k - 1
      BY <1>2, <2>1, RoundTable
    <2> QED
      BY <2>2, <1>2 DEF Around
  <1>7. \A j \in 1 .. n : \E k \in 1 .. n : Around(k - 1 - play_direction) + 1 = j
    <2> TAKE j \in 1 .. n
    <2> DEFINE i == (j - 1 + play_direction) % n
    <2>1. j - 1 \in 0 .. n - 1
      BY <1>2
    <2>2. i \in 0 .. n - 1 /\ (i - play_direction) % n = j - 1
      BY <1>2, <2>1, RoundTable
    <2> HIDE DEF i
    <2>3. i + 1 \in 1 .. n /\ (i + 1) - 1 = i
      BY <1>2, <2>2
    <2>4. Around((i + 1) - 1 - play_direction) + 1 = j
      BY <2>2, <2>3, <1>2 DEF Around
    <2> QED
      BY <2>3, <2>4
  <1>8. from \in [Seated -> Seated]
    BY <1>3, <1>4, <1>5
  <1>9. \A p, q \in Seated : from[p] = from[q] => p = q
    <2> TAKE p, q \in Seated
    <2> HAVE from[p] = from[q]
    <2>1. giver(seat(p)) = giver(seat(q))
      OBVIOUS
    <2> DEFINE j == seat(p)
               k == seat(q)
               x == Around(j - 1 - play_direction)
               y == Around(k - 1 - play_direction)
    <2>2. j \in 1 .. n /\ k \in 1 .. n /\ players[j] = p /\ players[k] = q
      BY <1>3
    <2>3. x + 1 \in 1 .. n /\ y + 1 \in 1 .. n
      BY <2>2, <1>5
    <2>4. players[x + 1] = players[y + 1]
      BY <2>1
    <2>5. x \in Int /\ y \in Int
      BY <2>2, <1>2, SMT DEF Around
    <2> HIDE DEF x, y, j, k
    <2>6. x + 1 = y + 1
      BY <2>3, <2>4, <1>2 DEF CardInv, OneSeatEach, IsInjective
    <2>7. x = y
      BY <2>5, <2>6
    <2>8. j = k
      BY <2>7, <2>2, <1>6 DEF x, y
    <2> QED
      BY <2>8, <2>2
  <1>10. \A q \in Seated : \E p \in Seated : from[p] = q
    <2> TAKE q \in Seated
    <2>1. PICK k \in 1 .. n : Around(k - 1 - play_direction) + 1 = seat(q)
      BY <1>3, <1>7
    <2>2. players[k] \in Seated /\ seat(players[k]) = k
      BY <1>4
    <2>3. from[players[k]] = q
      BY <2>1, <2>2, <1>3
    <2> QED
      BY <2>2, <2>3
  <1>11. /\ hand' = [p \in Name |-> IF p \in Seated THEN hand[from[p]] ELSE hand[p]]
         /\ called_uno' = {p \in Seated : from[p] \in called_uno}
    BY <1>1
  <1> HIDE DEF from
  <1> QED
    BY <1>8, <1>9, <1>10, <1>11

LEMMA PassHandsStep ==
  ASSUME CardInv, PassHands
  PROVE  Conserved' /\ OneSeatEach'
  <1>1. UNCHANGED <<settings, players, draw_pile, discard_pile>>
    BY DEF PassHands, Resolving, seats, piles
  <1>2. PICK from \in [Seated -> Seated] :
           /\ \A p, q \in Seated : from[p] = from[q] => p = q
           /\ \A q \in Seated : \E p \in Seated : from[p] = q
           /\ hand' = [p \in Name |-> IF p \in Seated THEN hand[from[p]] ELSE hand[p]]
    BY PassedAround
  <1>3. Conserved'
    BY <1>1, <1>2, PermutedHands DEF CardInv, Inv
  <1> QED
    BY <1>1, <1>3 DEF OneSeatEach, IsInjective, CardInv

-----------------------------------------------------------------------------
\* A seat goes on under a name that had none.
LEMMA RenamedSeats ==
  ASSUME NEW old \in Seated, NEW new, new \notin Seated, Rename(old, new)
  PROVE  Seated' = (Seated \ {old}) \cup {new}
  <1>1. DOMAIN players' = DOMAIN players
        /\ \A i \in DOMAIN players : players'[i] = IF players[i] = old THEN new ELSE players[i]
    BY DEF Rename
  <1> QED
    BY <1>1 DEF Seated, Range

LEMMA RenameStep ==
  ASSUME CardInv, UNCHANGED settings, NEW old \in Seated, NEW new \in Name \ Seated,
         Rename(old, new)
  PROVE  Conserved' /\ OneSeatEach'
  <1>1. DOMAIN players' = DOMAIN players
        /\ \A i \in DOMAIN players : players'[i] = IF players[i] = old THEN new ELSE players[i]
    BY DEF Rename
  <1>2. Seated' = (Seated \ {old}) \cup {new}
    BY RenamedSeats
  <1>3. OneSeatEach'
    BY <1>1 DEF OneSeatEach, IsInjective, CardInv, Seated, Range
  <1>4. /\ hand' = [hand EXCEPT ![new] = hand[old], ![old] = {}]
        /\ hand \in [Name -> SUBSET Card] /\ hand[new] = {} /\ old \in Name /\ old # new
        /\ UNCHANGED <<draw_pile, discard_pile>>
    BY SeatTypes DEF Rename, piles, CardInv, Inv, TypeOK, Conserved
  <1>5. /\ \A p \in Name : hand'[p] = IF p = new THEN hand[old]
                                     ELSE IF p = old THEN {} ELSE hand[p]
    BY <1>4
  <1>6. \A c : (\E p \in Name : c \in hand[p]) => \E p \in Name : c \in hand'[p]
    BY <1>4, <1>5
  <1>7. \A p, q \in Name : p # q => hand'[p] \cap hand'[q] = {}
    BY <1>4, <1>5 DEF CardInv, Conserved
  <1>8. Conserved'
    BY <1>2, <1>4, <1>5, <1>6, <1>7 DEF CardInv, Conserved
  <1> QED
    BY <1>3, <1>8

LEMMA RemovedSeats ==
  ASSUME CardInv, NEW p \in Seated, RemovePlayer(p)
  PROVE  Seated' = Seated \ {p} /\ OneSeatEach'
  <1>1. players \in Seq(Name) /\ Len(players) \in Nat /\ DOMAIN players = 1 .. Len(players)
    BY LenProperties DEF CardInv, Inv, TypeOK
  <1>2. PICK i \in 1 .. Len(players) : players[i] = p /\ players' = RemoveAt(players, i)
    BY <1>1 DEF RemovePlayer
  <1>3. /\ Len(players') = Len(players) - 1 /\ DOMAIN players' = 1 .. Len(players) - 1
        /\ \A j \in 1 .. Len(players) - 1 :
             players'[j] = IF j < i THEN players[j] ELSE players[j + 1]
    <2> DEFINE s1 == SubSeq(players, 1, i - 1)
               s2 == SubSeq(players, i + 1, Len(players))
    <2>1. /\ s1 \in Seq(Name) /\ Len(s1) = i - 1
          /\ \A j \in 1 .. i - 1 : s1[j] = players[j]
      BY <1>1, SubSeqProperties, SMT
    <2>2. /\ s2 \in Seq(Name) /\ Len(s2) = Len(players) - i
          /\ \A j \in 1 .. Len(players) - i : s2[j] = players[i + j]
      <3> DEFINE m == i + 1
                 k == Len(players)
      <3>1. m \in Int /\ k \in Int /\ \A j \in m .. k : players[j] \in Name
        BY <1>1
      <3>2. /\ s2 \in Seq(Name) /\ Len(s2) = IF m <= k THEN k - m + 1 ELSE 0
            /\ \A j \in 1 .. k - m + 1 : s2[j] = players[m + j - 1]
        BY <3>1, SubSeqProperties
      <3>3. k - m + 1 = k - i /\ \A j \in 1 .. k - i : m + j - 1 = i + j
        BY <1>1
      <3> HIDE DEF s2
      <3>4. Len(s2) = k - i
        <4>1. CASE m <= k
          BY <4>1, <3>2, <3>3
        <4>2. CASE ~(m <= k)
          <5>1. Len(s2) = 0
            BY <4>2, <3>2
          <5>2. i \in 1 .. k
            BY <1>2
          <5>3. i + 1 > k
            BY <4>2, <5>2, <1>1
          <5>4. k \in Nat
            BY <1>1
          <5> HIDE DEF k
          <5>5. k - i = 0
            BY <5>2, <5>3, <5>4
          <5> QED
            BY <5>1, <5>5
        <4> QED
          BY <4>1, <4>2
      <3>5. \A j \in 1 .. k - i : s2[j] = players[i + j]
        BY <3>2, <3>3
      <3> QED
        BY <3>2, <3>4, <3>5
    <2>3. players' = s1 \o s2
      BY <1>2 DEF RemoveAt
    <2>4. /\ players' \in Seq(Name) /\ Len(players') = Len(s1) + Len(s2)
          /\ \A j \in 1 .. Len(s1) + Len(s2) :
               players'[j] = IF j <= Len(s1) THEN s1[j] ELSE s2[j - Len(s1)]
      BY <2>1, <2>2, <2>3, ConcatProperties
    <2> HIDE DEF s1, s2
    <2>5. Len(players') = Len(players) - 1 /\ DOMAIN players' = 1 .. Len(players) - 1
      BY <2>1, <2>2, <2>4, <1>1, LenProperties, SMT
    <2>6. \A j \in 1 .. Len(players) - 1 :
             players'[j] = IF j < i THEN players[j] ELSE players[j + 1]
      <3> TAKE j \in 1 .. Len(players) - 1
      <3>1. CASE j < i
        BY <3>1, <2>4, <2>1, <1>1, SMT
      <3>2. CASE ~(j < i)
        <4>1. j - (i - 1) \in 1 .. Len(players) - i /\ i + (j - (i - 1)) = j + 1
          BY <3>2, <1>1, SMT
        <4>2. j \in 1 .. Len(s1) + Len(s2) /\ ~(j <= Len(s1)) /\ j - Len(s1) = j - (i - 1)
          BY <3>2, <2>1, <2>2, <1>1
        <4>3. players'[j] = s2[j - (i - 1)]
          BY <4>2, <2>4
        <4> QED
          BY <3>2, <4>1, <4>3, <2>2
      <3> QED
        BY <3>1, <3>2
    <2> QED
      BY <2>5, <2>6
  <1>4. OneSeatEach'
    <2> DEFINE old(j) == IF j < i THEN j ELSE j + 1
    <2>1. \A j \in 1 .. Len(players) - 1 :
             old(j) \in 1 .. Len(players) /\ players'[j] = players[old(j)]
      BY <1>1, <1>3
    <2>2. \A j, k \in 1 .. Len(players) - 1 : old(j) = old(k) => j = k
      BY <1>1
    <2> HIDE DEF old
    <2>3. \A j, k \in 1 .. Len(players) : players[j] = players[k] => j = k
      BY <1>1 DEF OneSeatEach, IsInjective, CardInv
    <2>4. \A j, k \in 1 .. Len(players) - 1 : players'[j] = players'[k] => j = k
      BY <2>1, <2>2, <2>3
    <2> QED
      BY <1>3, <2>4 DEF OneSeatEach, IsInjective
  <1>5. Seated \ {p} \subseteq Seated'
    <2> SUFFICES ASSUME NEW q \in Seated, q # p PROVE q \in Seated'
      OBVIOUS
    <2>1. PICK k \in 1 .. Len(players) : players[k] = q
      BY <1>1 DEF Seated, Range
    <2>2. CASE k < i
      <3>1. k \in 1 .. Len(players) - 1
        BY <1>1, <2>2
      <3> QED
        BY <1>3, <2>1, <2>2, <3>1 DEF Seated, Range
    <2>3. CASE k > i
      <3>1. k - 1 \in 1 .. Len(players) - 1 /\ ~(k - 1 < i) /\ (k - 1) + 1 = k
        BY <1>1, <2>3
      <3>2. players'[k - 1] = q
        BY <1>3, <2>1, <3>1
      <3> QED
        BY <1>3, <3>1, <3>2 DEF Seated, Range
    <2> QED
      BY <1>1, <1>2, <2>1, <2>2, <2>3
  <1>6. Seated' \subseteq Seated \ {p}
    <2> SUFFICES ASSUME NEW j \in 1 .. Len(players) - 1
                 PROVE  players'[j] \in Seated /\ players'[j] # p
      BY <1>3 DEF Seated, Range
    <2>1. PICK k \in 1 .. Len(players) : k # i /\ players'[j] = players[k]
      BY <1>1, <1>3
    <2> QED
      BY <1>1, <1>2, <2>1 DEF Seated, Range, OneSeatEach, IsInjective, CardInv
  <1> QED
    BY <1>4, <1>5, <1>6

\* A seat is closed and its hand goes back to the draw pile.
LEMMA RemoveStep ==
  ASSUME CardInv, UNCHANGED settings, NEW p \in Seated, RemovePlayer(p)
  PROVE  Conserved' /\ OneSeatEach'
  <1>1. /\ hand' = [hand EXCEPT ![p] = {}] /\ hand \in [Name -> SUBSET Card] /\ p \in Name
        /\ draw_pile' = draw_pile \cup hand[p] /\ discard_pile' = discard_pile
    BY SeatTypes DEF RemovePlayer, CardInv, Inv, TypeOK
  <1>2. Seated' = Seated \ {p} /\ OneSeatEach'
    BY RemovedSeats
  <1>3. Conserved'
    BY <1>1, <1>2 DEF CardInv, Conserved
  <1> QED
    BY <1>2, <1>3

LEMMA AddStep ==
  ASSUME CardInv, UNCHANGED settings, NEW p \in Name \ Seated, AddPlayer(p)
  PROVE  Conserved' /\ OneSeatEach'
  <1>1. players \in Seq(Name) /\ Len(players) \in Nat /\ DOMAIN players = 1 .. Len(players)
    BY LenProperties DEF CardInv, Inv, TypeOK
  <1>2. /\ DOMAIN players' = 1 .. Len(players) + 1
        /\ \A i \in 1 .. Len(players) : players'[i] = players[i]
        /\ players'[Len(players) + 1] = p
    BY <1>1, AppendProperties, LenProperties DEF AddPlayer
  <1>3. Seated \subseteq Seated' /\ p \in Seated'
    BY <1>1, <1>2, SMT DEF Seated, Range
  <1>4. OneSeatEach'
    BY <1>1, <1>2, SMT DEF OneSeatEach, IsInjective, CardInv, Seated, Range
  <1>5. \E S \in FromStock : Take(p, S)
    BY YieldTypes DEF AddPlayer
  <1>6. Conserved'
    BY <1>3, <1>5, TakeConserves DEF CardInv, Inv
  <1> QED
    BY <1>4, <1>6

-----------------------------------------------------------------------------
LEMMA InitCards ==
  ASSUME Init
  PROVE  CardInv
  <1>1. Inv
    BY InitInv
  <1>2. OneSeatEach
    BY MatchAssumption DEF OneSeatEach, Init
  <1>3. PICK deal \in [Range(settings.opening) -> kSubset(settings.starting_cards, settings.deck)] :
          /\ \A p, q \in DOMAIN deal : p # q => deal[p] \cap deal[q] = {}
          /\ hand = [p \in Name |-> IF p \in DOMAIN deal THEN deal[p] ELSE {}]
    BY DEF Init
  <1>4. DOMAIN deal = Seated
    BY DEF Init, Seated
  <1>5. \A p \in Seated : deal[p] \subseteq settings.deck
    BY <1>3, <1>4 DEF kSubset
  <1>6. \A c : c \in UNION Range(hand) <=> \E p \in Name : c \in hand[p]
    BY <1>3 DEF Range
  <1>7. top_card \in settings.deck \ UNION Range(hand)
    BY DEF Init, Starters, Numbers
  <1>8. /\ draw_pile = (settings.deck \ UNION Range(hand)) \ {top_card}
        /\ discard_pile = {top_card}
    BY DEF Init
  <1>9. Conserved
    BY <1>3, <1>4, <1>5, <1>6, <1>7, <1>8 DEF Conserved
  <1> QED
    BY <1>1, <1>2, <1>9 DEF CardInv

LEMMA NextCards ==
  ASSUME CardInv, [Next]_vars
  PROVE  CardInv'
  <1>1. Inv'
    BY NextInv DEF CardInv
  <1>2. SUFFICES Conserved' /\ OneSeatEach'
    BY <1>1 DEF CardInv
  <1>3. CASE \E p \in Human : \E c \in hand[p] : PlayCard(p, c)
    BY <1>3, PlayStep DEF PlayCard, Handler
  <1>4. CASE \E p \in Human : DrawCard(p)
    BY <1>4, DrawStep DEF DrawCard, Handler
  <1>5. CASE \/ \E p \in Human : (\E a \in Offered : ProvideInput(p, a)) \/ LateInput(p)
             \/ BotAnswer
    BY <1>5, SameCards DEF ProvideInput, LateInput, BotAnswer, Handler, seats, cards, piles, CardInv
  <1>6. CASE \E p \in MayCallUno : CallUno(p)
    BY <1>6, SameCards DEF CallUno, Handler, seats, piles, CardInv
  <1>7. CASE BotMove
    BY <1>7, BotMoveStep
  <1>8. CASE NestedPlay
    BY <1>8, NestedPlayStep
  <1>9. CASE GiveUp \/ AdvanceTurn \/ SkipTurn \/ ReverseOrder \/ ChooseColor \/ DecideDrawnCard
    BY <1>9, SameCards DEF GiveUp, AdvanceTurn, SkipTurn, ReverseOrder, ChooseColor, DecideDrawnCard,
                         Resolving, seats, cards, piles, CardInv
  <1>10. CASE DrawCards \/ DecideSwapTarget \/ PassHands
    BY <1>10, DrawCardsStep, SwapStep, PassHandsStep
  <1>11. CASE \E p \in MayLeave : Leave(p)
    <2>1. PICK p \in MayLeave : Leave(p)
      BY <1>11
    <2>2. p \in Seated /\ UNCHANGED settings
      BY <2>1 DEF Leave, Handler
    <2>3. CASE RemovePlayer(p)
      BY <2>2, <2>3, RemoveStep
    <2>4. CASE \E b \in BotName \ Seated : Rename(p, b)
      <3>1. PICK b \in BotName \ Seated : Rename(p, b)
        BY <2>4
      <3>2. b \in Name \ Seated
        BY DEF Name
      <3> QED
        BY <2>2, <3>1, <3>2, RenameStep
    <2>5. CASE UNCHANGED <<seats, cards>>
      BY <2>2, <2>5, SameCards DEF seats, cards, piles, CardInv
    <2> QED
      BY <2>1, <2>3, <2>4, <2>5 DEF Leave
  <1>12. CASE \E p \in MayJoin : Join(p)
    <2>1. PICK p \in MayJoin : Join(p)
      BY <1>12
    <2>2. p \in Name \ Seated /\ UNCHANGED settings
      BY <2>1, MatchAssumption DEF Join, Handler, Name
    <2>3. CASE AddPlayer(p)
      BY <2>2, <2>3, AddStep
    <2>4. CASE \E i \in DOMAIN players : Rename(players[i], p)
      <3>1. PICK i \in DOMAIN players : Rename(players[i], p)
        BY <2>4
      <3>2. players[i] \in Seated
        BY DEF Seated, Range
      <3> QED
        BY <2>2, <3>1, <3>2, RenameStep
    <2> QED
      BY <2>1, <2>3, <2>4 DEF Join
  <1>13. CASE Over \/ UNCHANGED vars
    BY <1>13, SameCards DEF Over, vars, seats, cards, piles, CardInv
  <1> QED
    BY <1>3, <1>4, <1>5, <1>6, <1>7, <1>8, <1>9, <1>10, <1>11, <1>12, <1>13
    DEF Next, Tick, Resolve

\* No card is lost or doubled, whatever reshuffles, swaps, rotations,
\* departures, takeovers and hot joins do with the piles and the hands.
THEOREM CardsConserved == Spec => []CardConservation
  <1>1. Init => CardInv
    BY InitCards
  <1>2. CardInv /\ [Next]_vars => CardInv'
    BY NextCards
  <1>3. CardInv => CardConservation
    BY ConservedCards DEF CardInv, Inv
  <1> QED
    BY <1>1, <1>2, <1>3, PTL DEF Spec
=============================================================================
