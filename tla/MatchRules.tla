----------------------------- MODULE MatchRules ------------------------------
(***************************************************************************)
(* What the rules owe the players, for every deck, table and mod list: who *)
(* counts as announced, what an effect queue holds, whose turn it is after *)
(* a jump-in, when a match is won and what an accumulated penalty rests    *)
(* on.  Each is proved from an invariant of its own, over that of          *)
(* MatchCards.                                                             *)
(***************************************************************************)
EXTENDS MatchCards, FiniteSetTheorems

LEMMA SmallerHand ==
  ASSUME NEW S \in SUBSET Card, NEW T \in SUBSET S
  PROVE  /\ IsFiniteSet(S) /\ Cardinality(S) \in Nat /\ Cardinality(T) \in Nat
         /\ Cardinality(T) <= Cardinality(S)
  <1>1. IsFiniteSet(S)
    BY CardAssumption, FS_Subset
  <1>2. IsFiniteSet(T) /\ Cardinality(T) <= Cardinality(S)
    BY <1>1, FS_Subset
  <1> QED
    BY <1>1, <1>2, FS_CardinalityType

-----------------------------------------------------------------------------
(***************************************************************************)
(* Announcements.                                                          *)
(***************************************************************************)
\* Only players are announced, and only with two cards at most.
Announced == called_uno \subseteq Seated /\ UnoFlagHonest

UnoInv == CardInv /\ Announced

LEMMA SameAnnounced ==
  ASSUME Announced, UNCHANGED <<players, hand, called_uno>>
  PROVE  Announced'
  BY DEF Announced, UnoFlagHonest, Seated, Range

LEMMA PlayAnnounced ==
  ASSUME CardInv, NEW p, NEW c, CanPlay(p, c), NEW announced, announced \subseteq Seated,
         \A q \in announced : Cardinality(hand[q]) <= 2, Play(p, c, announced)
  PROVE  Announced'
  <1>1. /\ players' = players /\ called_uno' \subseteq announced
        /\ hand' = [hand EXCEPT ![p] = @ \ {c}] /\ hand \in [Name -> SUBSET Card]
    BY DEF Play, CardInv, Inv, TypeOK
  <1>2. Seated \subseteq Name
    BY SeatTypes DEF CardInv, Inv
  <1>3. ASSUME NEW q \in announced PROVE Cardinality(hand'[q]) <= 2
    <2>1. hand'[q] \subseteq hand[q] /\ hand[q] \in SUBSET Card
      BY <1>1, <1>2
    <2>2. Cardinality(hand[q]) <= 2
      BY <1>3
    <2> QED
      BY <2>1, <2>2, SmallerHand, SMT
  <1> QED
    BY <1>1, <1>3 DEF Announced, UnoFlagHonest, Seated

\* Who draws is announced no more, unless there was nothing to draw.
LEMMA TakeAnnounced ==
  ASSUME TypeOK, Announced, NEW p \in Name, NEW S, Take(p, S), UNCHANGED players,
         \/ called_uno' = called_uno \ {p}
         \/ S = {} /\ called_uno' = called_uno
  PROVE  Announced'
  <1>1. /\ Seated' = Seated /\ hand \in [Name -> SUBSET Card]
        /\ hand' = [hand EXCEPT ![p] = @ \cup S]
    BY DEF Take, TypeOK, Seated
  <1>2. Seated \subseteq Name
    BY SeatTypes
  <1>3. CASE called_uno' = called_uno \ {p}
    BY <1>1, <1>2, <1>3 DEF Announced, UnoFlagHonest
  <1>4. CASE S = {} /\ called_uno' = called_uno
    <2>1. hand' = hand
      BY <1>1, <1>4
    <2> QED
      BY <1>1, <1>4, <2>1 DEF Announced, UnoFlagHonest
  <1> QED
    BY <1>3, <1>4

LEMMA DrawAnnounced ==
  ASSUME UnoInv, Draw(CurrentPlayer)
  PROVE  Announced'
  <1>1. players' = players /\ CurrentPlayer \in Name
    BY SeatTypes DEF Draw, seats, UnoInv, CardInv, Inv
  <1>2. \E S : /\ Take(CurrentPlayer, S)
               /\ \/ called_uno' = called_uno \ {CurrentPlayer}
                  \/ S = {} /\ called_uno' = called_uno
    BY DEF Draw, DrawPenalty, DrawOne
  <1> QED
    BY <1>1, <1>2, TakeAnnounced DEF UnoInv, CardInv, Inv

LEMMA BotMoveAnnounced ==
  ASSUME UnoInv, BotMove
  PROVE  Announced'
  <1> DEFINE p == CurrentPlayer
             announced == IF Cardinality(hand[p]) <= 2 THEN called_uno \cup {p} ELSE called_uno
  <1>1. ~IsWaiting /\ status = "playing" /\ p \in Seated
    BY CurrentSeated DEF BotMove, Handler, Idle, UnoInv, CardInv, Inv
  <1>2. CASE Draw(p)
    BY <1>2, DrawAnnounced
  <1>3. CASE \E c \in hand[p] : Playable(c, TableFor(p, hand[p])) /\ Play(p, c, announced)
    <2>1. PICK c \in hand[p] : Playable(c, TableFor(p, hand[p])) /\ Play(p, c, announced)
      BY <1>3
    <2>2. CanPlay(p, c)
      BY <1>1, <2>1 DEF CanPlay
    <2>3. announced \subseteq Seated /\ \A q \in announced : Cardinality(hand[q]) <= 2
      BY <1>1 DEF UnoInv, Announced, UnoFlagHonest
    <2> HIDE DEF p, announced
    <2> QED
      BY <2>1, <2>2, <2>3, PlayAnnounced DEF UnoInv
  <1> QED
    BY <1>2, <1>3 DEF BotMove

LEMMA NestedAnnounced ==
  ASSUME UnoInv, NestedPlay
  PROVE  Announced'
  <1>1. CASE CanPlay(nested.who, nested.card)
    BY <1>1, PlayAnnounced DEF NestedPlay, UnoInv, Announced, UnoFlagHonest
  <1>2. CASE ~CanPlay(nested.who, nested.card)
    BY <1>2, SameAnnounced DEF NestedPlay, seats, cards, UnoInv
  <1> QED
    BY <1>1, <1>2

LEMMA DrawCardsAnnounced ==
  ASSUME UnoInv, DrawCards
  PROVE  Announced'
  <1> DEFINE who == Head(effect_queue).who
  <1>1. players' = players /\ Seated \subseteq Name
    BY SeatTypes DEF DrawCards, seats, UnoInv, CardInv, Inv
  <1>2. CASE who \in Seated
    <2>1. PICK S : Take(who, S) /\ called_uno' = called_uno \ {who}
      BY <1>2 DEF DrawCards
    <2>2. who \in Name
      BY <1>1, <1>2
    <2> HIDE DEF who
    <2> QED
      BY <1>1, <2>1, <2>2, TakeAnnounced DEF UnoInv, CardInv, Inv
  <1>3. CASE who \notin Seated
    BY <1>1, <1>3, SameAnnounced DEF DrawCards, cards, UnoInv
  <1> QED
    BY <1>2, <1>3

LEMMA SwapAnnounced ==
  ASSUME UnoInv, DecideSwapTarget
  PROVE  Announced'
  <1> DEFINE p == Head(effect_queue).who
             q == provided_input
  <1>1. players' = players /\ Seated \subseteq Name /\ Seated' = Seated
    BY SeatTypes DEF DecideSwapTarget, seats, UnoInv, CardInv, Inv, Seated
  <1>2. CASE UNCHANGED <<hand, called_uno>>
    BY <1>1, <1>2, SameAnnounced DEF UnoInv
  <1>3. CASE p \in Seated /\ q \in Seated \ {p} /\ SwapHands(p, q)
    <2>1. /\ hand' = [hand EXCEPT ![p] = hand[q], ![q] = hand[p]]
          /\ hand \in [Name -> SUBSET Card]
          /\ called_uno' = (called_uno \ {p, q}) \cup {r \in {p} : q \in called_uno}
                                                 \cup {r \in {q} : p \in called_uno}
      BY <1>3 DEF SwapHands, UnoInv, CardInv, Inv, TypeOK
    <2> HIDE DEF p, q
    <2>2. /\ hand'[p] = hand[q] /\ hand'[q] = hand[p]
          /\ \A r \in Name : r # p /\ r # q => hand'[r] = hand[r]
      BY <1>1, <1>3, <2>1
    <2>3. ASSUME NEW r \in called_uno' PROVE r \in Seated /\ Cardinality(hand'[r]) <= 2
      <3>1. CASE r = p
        BY <1>3, <2>1, <2>2, <2>3, <3>1 DEF UnoInv, Announced, UnoFlagHonest
      <3>2. CASE r = q
        BY <1>3, <2>1, <2>2, <2>3, <3>2 DEF UnoInv, Announced, UnoFlagHonest
      <3>3. CASE r # p /\ r # q
        <4>1. r \in called_uno /\ r \in Name
          BY <1>1, <2>1, <2>3, <3>3 DEF UnoInv, Announced
        <4> QED
          BY <2>2, <3>3, <4>1 DEF UnoInv, Announced, UnoFlagHonest
      <3> QED
        BY <3>1, <3>2, <3>3
    <2> QED
      BY <1>1, <2>3 DEF Announced, UnoFlagHonest
  <1> QED
    BY <1>2, <1>3 DEF DecideSwapTarget

LEMMA PassAnnounced ==
  ASSUME UnoInv, PassHands
  PROVE  Announced'
  <1>1. Seated' = Seated /\ Seated \subseteq Name
    BY SeatTypes DEF PassHands, seats, UnoInv, CardInv, Inv, Seated
  <1>2. PICK from \in [Seated -> Seated] :
           /\ hand' = [p \in Name |-> IF p \in Seated THEN hand[from[p]] ELSE hand[p]]
           /\ called_uno' = {p \in Seated : from[p] \in called_uno}
    BY PassedAround DEF UnoInv
  <1> QED
    BY <1>1, <1>2 DEF UnoInv, Announced, UnoFlagHonest

LEMMA RenameAnnounced ==
  ASSUME UnoInv, NEW old \in Seated, NEW new \in Name \ Seated, Rename(old, new)
  PROVE  Announced'
  <1>1. Seated' = (Seated \ {old}) \cup {new} /\ Seated \subseteq Name
    BY RenamedSeats, SeatTypes DEF UnoInv, CardInv, Inv
  <1>2. /\ hand' = [hand EXCEPT ![new] = hand[old], ![old] = {}]
        /\ hand \in [Name -> SUBSET Card] /\ old \in Name /\ old # new
        /\ called_uno' = {IF p = old THEN new ELSE p : p \in called_uno}
    BY <1>1 DEF Rename, UnoInv, CardInv, Inv, TypeOK
  <1>3. hand'[new] = hand[old] /\ \A p \in Name : p # new /\ p # old => hand'[p] = hand[p]
    BY <1>2
  <1>4. ASSUME NEW p \in called_uno' PROVE p \in Seated' /\ Cardinality(hand'[p]) <= 2
    <2>1. PICK q \in called_uno : p = IF q = old THEN new ELSE q
      BY <1>2, <1>4
    <2>2. q \in Seated /\ q \in Name /\ Cardinality(hand[q]) <= 2
      BY <1>1 DEF UnoInv, Announced, UnoFlagHonest
    <2>3. CASE q = old
      BY <1>1, <1>3, <2>1, <2>2, <2>3
    <2>4. CASE q # old
      BY <1>1, <1>3, <2>1, <2>2, <2>4
    <2> QED
      BY <2>3, <2>4
  <1> QED
    BY <1>4 DEF Announced, UnoFlagHonest

LEMMA RemoveAnnounced ==
  ASSUME UnoInv, NEW p \in Seated, RemovePlayer(p)
  PROVE  Announced'
  <1>1. Seated' = Seated \ {p} /\ Seated \subseteq Name
    BY RemovedSeats, SeatTypes DEF UnoInv, CardInv, Inv
  <1>2. /\ hand' = [hand EXCEPT ![p] = {}] /\ hand \in [Name -> SUBSET Card]
        /\ called_uno' = called_uno \ {p}
    BY DEF RemovePlayer, UnoInv, CardInv, Inv, TypeOK
  <1> QED
    BY <1>1, <1>2 DEF UnoInv, Announced, UnoFlagHonest

LEMMA AddAnnounced ==
  ASSUME UnoInv, NEW p \in Name \ Seated, AddPlayer(p)
  PROVE  Announced'
  <1>1. Seated \subseteq Seated' /\ Seated \subseteq Name
    <2>1. players \in Seq(Name)
      BY DEF UnoInv, CardInv, Inv, TypeOK
    <2> QED
      BY <2>1, SeatTypes, AppendProperties, LenProperties, SMT
      DEF AddPlayer, Seated, Range, UnoInv, CardInv, Inv
  <1>2. PICK S : Take(p, S)
    BY DEF AddPlayer
  <1>3. /\ hand' = [hand EXCEPT ![p] = @ \cup S] /\ hand \in [Name -> SUBSET Card]
        /\ called_uno' = called_uno
    BY <1>2 DEF Take, AddPlayer, UnoInv, CardInv, Inv, TypeOK
  <1> QED
    BY <1>1, <1>3 DEF UnoInv, Announced, UnoFlagHonest

LEMMA NextAnnounced ==
  ASSUME UnoInv, [Next]_vars
  PROVE  UnoInv'
  <1>1. CardInv'
    BY NextCards DEF UnoInv
  <1>2. SUFFICES Announced'
    BY <1>1 DEF UnoInv
  <1>3. CASE \E p \in Human : \E c \in hand[p] : PlayCard(p, c)
    BY <1>3, PlayAnnounced DEF PlayCard, UnoInv, Announced, UnoFlagHonest
  <1>4. CASE \E p \in Human : DrawCard(p)
    BY <1>4, DrawAnnounced DEF DrawCard
  <1>5. CASE \/ \E p \in Human : (\E a \in Offered : ProvideInput(p, a)) \/ LateInput(p)
             \/ BotAnswer
    BY <1>5, SameAnnounced DEF ProvideInput, LateInput, BotAnswer, seats, cards, UnoInv
  <1>6. CASE \E p \in MayCallUno : CallUno(p)
    <2>1. PICK p \in Seated : /\ Cardinality(hand[p]) <= 2
                              /\ called_uno' = called_uno \cup {p}
                              /\ UNCHANGED <<players, hand>>
      BY <1>6 DEF CallUno, seats
    <2> QED
      BY <2>1 DEF UnoInv, Announced, UnoFlagHonest, Seated
  <1>7. CASE BotMove \/ NestedPlay
    BY <1>7, BotMoveAnnounced, NestedAnnounced
  <1>8. CASE GiveUp \/ AdvanceTurn \/ SkipTurn \/ ReverseOrder \/ ChooseColor \/ DecideDrawnCard
    BY <1>8, SameAnnounced DEF GiveUp, AdvanceTurn, SkipTurn, ReverseOrder, ChooseColor,
                               DecideDrawnCard, seats, cards, UnoInv
  <1>9. CASE DrawCards \/ DecideSwapTarget \/ PassHands
    BY <1>9, DrawCardsAnnounced, SwapAnnounced, PassAnnounced
  <1>10. CASE \E p \in MayLeave : Leave(p)
    <2>1. PICK p \in Seated : \/ UNCHANGED <<seats, cards>>
                              \/ \E b \in BotName \ Seated : Rename(p, b)
                              \/ RemovePlayer(p)
      BY <1>10 DEF Leave
    <2>2. CASE UNCHANGED <<seats, cards>>
      BY <2>2, SameAnnounced DEF seats, cards, UnoInv
    <2>3. CASE \E b \in BotName \ Seated : Rename(p, b)
      BY <2>3, RenameAnnounced DEF Name
    <2>4. CASE RemovePlayer(p)
      BY <2>4, RemoveAnnounced
    <2> QED
      BY <2>1, <2>2, <2>3, <2>4
  <1>11. CASE \E p \in MayJoin : Join(p)
    <2>1. PICK p \in Name \ Seated :
            (\E i \in DOMAIN players : Rename(players[i], p)) \/ AddPlayer(p)
      BY <1>11, MatchAssumption DEF Join, Name
    <2>2. CASE \E i \in DOMAIN players : Rename(players[i], p)
      <3>1. PICK i \in DOMAIN players : Rename(players[i], p)
        BY <2>2
      <3>2. players[i] \in Seated
        BY DEF Seated, Range
      <3> QED
        BY <3>1, <3>2, RenameAnnounced
    <2> QED
      BY <2>1, <2>2, AddAnnounced
  <1>12. CASE Over \/ UNCHANGED vars
    BY <1>12, SameAnnounced DEF Over, vars, seats, cards, UnoInv
  <1> QED
    BY <1>3, <1>4, <1>5, <1>6, <1>7, <1>8, <1>9, <1>10, <1>11, <1>12
    DEF Next, Tick, Resolve

\* Whoever counts as announced sits at the table with two cards at most: every draw takes
\* the announcement back, and every exchange of hands, takeover and departure takes it
\* along, though players call at any moment and bots for themselves.
THEOREM AnnouncementsHonest == Spec => []UnoFlagHonest
  <1>1. Init => UnoInv
    BY InitCards DEF Init, UnoInv, Announced, UnoFlagHonest
  <1>2. UnoInv /\ [Next]_vars => UnoInv'
    BY NextAnnounced
  <1>3. UnoInv => UnoFlagHonest
    BY DEF UnoInv, Announced
  <1> QED
    BY <1>1, <1>2, <1>3, PTL DEF Spec

-----------------------------------------------------------------------------
(***************************************************************************)
(* The queue.                                                              *)
(***************************************************************************)
\* A queue is the decision on a drawn card and nothing else, or it ends in the advance
\* of the turn and holds no such decision.
Plain == {e \in Addressed : e.kind # "drawn"}

PlainQueue(q) == q \in Seq(Plain) /\ (q # <<>> => q[Len(q)] = Advance)
DrawnQueue(q) == q \in Seq(Addressed) /\ Len(q) = 1 /\ Head(q).kind = "drawn"

Queueing ==
  /\ PlainQueue(effect_queue) \/ DrawnQueue(effect_queue)
  /\ phase = "call" => effect_queue = <<>>
  /\ phase # "idle" /\ (phase = "call" \/ DrawnQueue(effect_queue)) => status = "playing"

QueueInv == Inv /\ Queueing

\* What one card may leave, by the number of its seven_zero rules.
Short(q) == Len(q) <= 5 \/ Len(q) <= Copies("seven_zero") + 2

LEMMA PlainEffects ==
  ASSUME NEW p \in Name, NEW n \in Nat
  PROVE  {Advance, Skipping, Reversing, PassingHands, Drawing(p, n), Coloring(p, n),
          Swapping(p)} \subseteq Plain
  <1>1. {Advance, Skipping, Reversing, PassingHands, Drawing(p, n), Coloring(p, n),
         Swapping(p)} \subseteq Addressed
    BY DEF Advance, Skipping, Reversing, PassingHands, Drawing, Coloring, Swapping,
           NewEffect, Addressed, Asks, Effect, Kind
  <1>2. \A e \in {Advance, Skipping, Reversing, PassingHands, Drawing(p, n), Coloring(p, n),
                  Swapping(p)} : e.kind # "drawn"
    BY DEF Advance, Skipping, Reversing, PassingHands, Drawing, Coloring, Swapping, NewEffect
  <1> QED
    BY <1>1, <1>2 DEF Plain

LEMMA PlainIsAddressed == Seq(Plain) \subseteq Seq(Addressed)
  <1>1. Plain \subseteq Addressed
    BY DEF Plain
  <1> QED
    BY <1>1, SMT

\* A card leaves five effects, or those of its seven_zero rules and two more.
LEMMA QueuedPlain ==
  ASSUME TypeOK, NEW p \in Seated, NEW c \in Card, NEW announced
  PROVE  LET q == Queued(p, c, announced)
         IN  PlainQueue(q) /\ q # <<>> /\ Short(q)
  <1> DEFINE seat == SeatAfter(p, c)
             next == NextPlayer(seat)
             uno  == UnoPenalty(p, c, announced)
             left == CardEffects(p, c, seat)
             n    == Copies("seven_zero")
  <1>1. p \in Name /\ next \in Name
    BY QueuedTypes, SeatTypes
  <1>12. n \in Nat
    BY CopiesCount
  <1> HIDE DEF next, n
  <1>2. /\ SevenZeroEffects(p, c) \in Seq(Plain) /\ Len(SevenZeroEffects(p, c)) <= n
        /\ c.value \notin {0, 7} => SevenZeroEffects(p, c) = <<>>
    <2>1. PassingHands \in Plain /\ Swapping(p) \in Plain
      BY <1>1, PlainEffects
    <2> QED
      BY <1>12, <2>1, Repeated, SMT DEF SevenZeroEffects, n
  <1>3. /\ StandardEffects(p, c, next) \in Seq(Plain) /\ Len(StandardEffects(p, c, next)) <= 3
        /\ c.value \in {0, 7} => StandardEffects(p, c, next) = <<>>
    <2>1. {Skipping, Reversing, Drawing(next, 2), Drawing(next, 4), Coloring(p, 0)} \subseteq Plain
      BY <1>1, PlainEffects
    <2> QED
      BY <2>1, SMT DEF StandardEffects, kSkip, kReverse, kDraw2, kJolly, kJollyDraw4
  <1>4. left \in Seq(Plain) /\ (Len(left) <= 3 \/ Len(left) <= n)
    <2>1. CASE StackTakes(settings.active_mods, c)
      <3>1. Coloring(p, 4) \in Plain
        BY <1>1, PlainEffects
      <3> QED
        BY <2>1, <3>1, SMT DEF CardEffects
    <2>2. CASE ~StackTakes(settings.active_mods, c)
      <3>1. left = SevenZeroEffects(p, c) \o StandardEffects(p, c, next)
        BY <2>2 DEF CardEffects, next
      <3> HIDE DEF left
      <3> DEFINE a == SevenZeroEffects(p, c)
                 b == StandardEffects(p, c, next)
      <3>2. a \in Seq(Plain) /\ b \in Seq(Plain) /\ (a = <<>> \/ b = <<>>)
            /\ Len(a) <= n /\ Len(b) <= 3
        BY <1>2, <1>3
      <3> HIDE DEF a, b
      <3> QED
        BY <3>1, <3>2, ConcatProperties, EmptySeq DEF a, b
    <2> QED
      BY <2>1, <2>2
  <1>5. uno \in Seq(Plain) /\ Len(uno) <= 1
    <2>1. Drawing(p, 2) \in Plain
      BY <1>1, PlainEffects
    <2> QED
      BY <2>1, SMT DEF UnoPenalty
  <1>6. Queued(p, c, announced) = (left \o uno) \o <<Advance>>
    BY DEF Queued
  <1>7. Advance \in Plain
    BY <1>1, PlainEffects
  <1> HIDE DEF left, uno
  <1>8. left \o uno \in Seq(Plain) /\ (Len(left \o uno) <= 4 \/ Len(left \o uno) <= n + 1)
    BY <1>4, <1>5, <1>12, ConcatProperties, LenProperties
  <1> DEFINE front == left \o uno
  <1>9. <<Advance>> \in Seq(Plain) /\ Len(<<Advance>>) = 1 /\ <<Advance>>[1] = Advance
    BY <1>7, SMT
  <1> HIDE DEF front
  <1>10. /\ front \o <<Advance>> \in Seq(Plain)
         /\ Len(front \o <<Advance>>) = Len(front) + 1 /\ Len(front) \in Nat
         /\ (front \o <<Advance>>)[Len(front) + 1] = Advance
    BY <1>8, <1>9, ConcatProperties, LenProperties DEF front
  <1>11. front \o <<Advance>> # <<>>
    BY <1>10
  <1> QED
    BY <1>6, <1>8, <1>10, <1>11, <1>12 DEF PlainQueue, Short, front, n

\* What Tick makes of a plain queue.
LEMMA PlainTail ==
  ASSUME NEW q, PlainQueue(q), q # <<>>
  PROVE  /\ PlainQueue(Tail(q)) /\ PlainQueue(<<Advance>> \o Tail(q))
         /\ Head(q).kind # "drawn"
         /\ Tail(q) = <<>> => Head(q) = Advance
         /\ \A t : t = Tail(q) \/ t = <<Advance>> \o Tail(q) => Len(t) <= Len(q)
  <1>1. /\ q \in Seq(Plain) /\ Len(q) \in Nat \ {0} /\ q[Len(q)] = Advance
        /\ Head(q) = q[1] /\ q[1] \in Plain
        /\ Tail(q) \in Seq(Plain) /\ Len(Tail(q)) = Len(q) - 1
        /\ \A i \in 1 .. Len(Tail(q)) : Tail(q)[i] = q[i + 1]
    BY HeadTailProperties, EmptySeq, LenProperties, SMT DEF PlainQueue
  <1>2. PlainQueue(Tail(q)) /\ (Tail(q) = <<>> => Head(q) = Advance)
    <2>1. CASE Len(q) = 1
      <3>1. Tail(q) = <<>>
        <4>1. PICK t : t = Tail(q)
          OBVIOUS
        <4>2. t \in Seq(Plain) /\ Len(t) = 0
          BY <1>1, <2>1, <4>1
        <4> QED
          BY <4>1, <4>2, EmptySeq
      <3> QED
        BY <1>1, <2>1, <3>1 DEF PlainQueue
    <2>2. CASE Len(q) # 1
      <3>1. /\ Len(Tail(q)) \in 1 .. Len(Tail(q)) /\ Len(Tail(q)) + 1 = Len(q)
        BY <1>1, <2>2
      <3>2. Tail(q) # <<>>
        <4>1. Len(Tail(q)) # 0 /\ Len(<<>>) = 0
          BY <3>1, EmptySeq
        <4> QED
          BY <4>1
      <3> QED
        BY <1>1, <3>1, <3>2 DEF PlainQueue
    <2> QED
      BY <2>1, <2>2
  <1>3. Advance \in Plain
    BY DEF Advance, NewEffect, Plain, Addressed, Asks, Effect, Kind
  <1> DEFINE t == Tail(q)
             a == <<Advance>>
  <1>4. a \in Seq(Plain) /\ Len(a) = 1 /\ a[1] = Advance
    BY <1>3, SMT
  <1>5. t \in Seq(Plain) /\ Len(t) = Len(q) - 1 /\ (t # <<>> => t[Len(t)] = Advance)
    BY <1>1, <1>2 DEF PlainQueue
  <1> HIDE DEF t, a
  <1>6. /\ a \o t \in Seq(Plain) /\ Len(a \o t) = Len(q)
        /\ (a \o t)[Len(a \o t)] = Advance
    <2>0. /\ a \o t \in Seq(Plain) /\ Len(a \o t) = Len(a) + Len(t)
          /\ \A i \in 1 .. Len(a) + Len(t) :
               (a \o t)[i] = IF i <= Len(a) THEN a[i] ELSE t[i - Len(a)]
      BY <1>4, <1>5, ConcatProperties
    <2>1. /\ a \o t \in Seq(Plain) /\ Len(a \o t) = 1 + Len(t)
          /\ \A i \in 1 .. 1 + Len(t) : (a \o t)[i] = IF i <= 1 THEN a[i] ELSE t[i - 1]
      BY <1>4, <2>0
    <2>2. CASE t = <<>>
      <3>1. Len(t) = 0
        BY <2>2, EmptySeq
      <3> QED
        BY <1>4, <1>5, <2>1, <3>1
    <2>3. CASE t # <<>>
      <3>1. Len(t) \in Nat \ {0}
        BY <1>5, <2>3, EmptySeq, LenProperties
      <3> QED
        BY <1>1, <1>5, <2>1, <2>3, <3>1
    <2> QED
      BY <2>2, <2>3
  <1> QED
    BY <1>1, <1>2, <1>6 DEF PlainQueue, Plain, t, a

LEMMA DrawnTail ==
  ASSUME NEW q, DrawnQueue(q)
  PROVE  q # <<>> /\ Tail(q) = <<>>
  <1>1. q \in Seq(Addressed) /\ Len(q) = 1 /\ q # <<>>
    BY EmptySeq DEF DrawnQueue
  <1>2. Tail(q) \in Seq(Addressed) /\ Len(Tail(q)) = 0
    BY <1>1, HeadTailProperties
  <1> QED
    BY <1>1, <1>2, EmptySeq

LEMMA OneEffect ==
  /\ PlainQueue(<<>>) /\ PlainQueue(Append(<<>>, Advance)) /\ Append(<<>>, Advance) # <<>>
  /\ \A p \in Name, c \in Card : /\ DrawnQueue(<<Deciding(p, c)>> \o <<>>)
                                 /\ Head(<<Deciding(p, c)>> \o <<>>) = Deciding(p, c)
  /\ ~DrawnQueue(<<>>) /\ \A q : ~(PlainQueue(q) /\ DrawnQueue(q))
  <1>1. Advance \in Plain
    BY DEF Advance, NewEffect, Plain, Addressed, Asks, Effect, Kind
  <1>2. <<>> \in Seq(Plain) /\ Len(<<>>) = 0
    BY EmptySeq
  <1>3. /\ Append(<<>>, Advance) \in Seq(Plain) /\ Len(Append(<<>>, Advance)) = 1
        /\ Append(<<>>, Advance)[1] = Advance
    BY <1>1, <1>2, AppendProperties
  <1>4. Append(<<>>, Advance) # <<>>
    BY <1>2, <1>3
  <1>5. ASSUME NEW p \in Name, NEW c \in Card
        PROVE  /\ DrawnQueue(<<Deciding(p, c)>> \o <<>>)
               /\ Head(<<Deciding(p, c)>> \o <<>>) = Deciding(p, c)
    <2>1. Deciding(p, c) \in Addressed /\ Deciding(p, c).kind = "drawn"
      BY DEF Deciding, NewEffect, Addressed, Asks, Effect, Kind
    <2>2. PICK e : e = Deciding(p, c)
      OBVIOUS
    <2>3. <<e>> \o <<>> \in Seq(Addressed) /\ Len(<<e>> \o <<>>) = 1 /\ Head(<<e>> \o <<>>) = e
      BY <2>1, <2>2, SMT
    <2> QED
      BY <2>1, <2>2, <2>3 DEF DrawnQueue
  <1>6. ~DrawnQueue(<<>>)
    BY <1>2 DEF DrawnQueue
  <1>7. \A q : ~(PlainQueue(q) /\ DrawnQueue(q))
    <2> SUFFICES ASSUME NEW q, PlainQueue(q), DrawnQueue(q) PROVE FALSE
      OBVIOUS
    <2>1. q # <<>> /\ Head(q).kind = "drawn"
      BY DrawnTail DEF DrawnQueue
    <2> QED
      BY <2>1, PlainTail
  <1> QED
    BY <1>2, <1>3, <1>4, <1>5, <1>6, <1>7 DEF PlainQueue

\* Between two handlers, with no question open, nothing is queued.
LEMMA IdleQueue ==
  ASSUME Inv, Idle, ~IsWaiting
  PROVE  effect_queue = <<>>
  BY DEF Inv, EngineInv, Idle

LEMMA PlayQueues ==
  ASSUME Inv, NEW p, NEW c, CanPlay(p, c), effect_queue = <<>>, NEW announced,
         Play(p, c, announced)
  PROVE  PlainQueue(effect_queue') /\ effect_queue' # <<>> /\ Short(effect_queue')
  <1>1. p \in Seated /\ c \in Card
    BY SeatTypes DEF CanPlay, Inv, TypeOK
  <1> DEFINE q == Queued(p, c, announced)
  <1>2. PlainQueue(q) /\ q # <<>> /\ Short(q)
    BY <1>1, QueuedPlain DEF Inv
  <1>3. effect_queue' = <<>> \o q
    BY DEF Play
  <1>4. q \in Seq(Plain)
    BY <1>2 DEF PlainQueue
  <1> HIDE DEF q
  <1>5. <<>> \o q = q
    BY <1>4, SMT
  <1> QED
    BY <1>2, <1>3, <1>5 DEF q

LEMMA DrawQueues ==
  ASSUME Inv, effect_queue = <<>>, status = "playing", Draw(CurrentPlayer)
  PROVE  Queueing'
  <1> DEFINE p == CurrentPlayer
  <1>1. p \in Name /\ status' = "playing"
    BY SeatTypes DEF Inv, Draw
  <1>2. \/ effect_queue' = Append(<<>>, Advance) /\ BeginTick
        \/ effect_queue' = <<>> /\ phase' = "call"
        \/ \E c \in Card : effect_queue' = <<Deciding(p, c)>> \o <<>> /\ BeginTick
    <2>1. CASE DrawPenalty(p)
      BY <2>1 DEF DrawPenalty
    <2>2. CASE DrawOne(p)
      <3>1. PICK S \in Draws(p) :
              \/ \E c \in S :
                   IF Mod("force_play")
                   THEN phase' = "call" /\ effect_queue' = effect_queue
                   ELSE effect_queue' = <<Deciding(p, c)>> \o effect_queue /\ BeginTick
              \/ effect_queue' = Append(effect_queue, Advance) /\ BeginTick
        BY <2>2, Zenon DEF DrawOne
      <3>2. S \subseteq Card
        BY DrawsTypes DEF FromStock, Stock, Buried, Inv, TypeOK
      <3> HIDE DEF p
      <3> QED
        BY <3>1, <3>2
    <2> QED
      BY <2>1, <2>2 DEF Draw
  <1> HIDE DEF p
  <1> QED
    BY <1>1, <1>2, OneEffect DEF Queueing, BeginTick

\* An effect that asks and one that is resolved, in a plain queue.
LEMMA ContinueQueues ==
  ASSUME NEW q, PlainQueue(q), Continue(q)
  PROVE  Queueing'
  BY OneEffect DEF Continue, Queueing

LEMMA KeepsQueue ==
  ASSUME Queueing, UNCHANGED <<effect_queue, status>>, phase = "tick", phase' = "idle"
  PROVE  Queueing'
  BY DEF Queueing

LEMMA NextQueueing ==
  ASSUME QueueInv, [Next]_vars
  PROVE  QueueInv'
  <1>1. Inv'
    BY NextInv DEF QueueInv
  <1> SUFFICES Queueing'
    BY <1>1 DEF QueueInv
  <1>2. CASE \E p \in Human : \E c \in hand[p] : PlayCard(p, c)
    <2>1. PICK p, c : CanPlay(p, c) /\ Play(p, c, called_uno) /\ BeginTick /\ Idle
                      /\ ~IsWaiting
      BY <1>2 DEF PlayCard, Handler, CanPlay
    <2>2. effect_queue = <<>>
      BY <2>1, IdleQueue DEF QueueInv
    <2>3. PlainQueue(effect_queue')
      BY <2>1, <2>2, PlayQueues DEF QueueInv
    <2> QED
      BY <2>1, <2>3, OneEffect DEF Queueing, BeginTick
  <1>3. CASE \E p \in Human : DrawCard(p)
    <2>1. Draw(CurrentPlayer) /\ Idle /\ ~IsWaiting
      BY <1>3 DEF DrawCard, Handler
    <2> QED
      BY <2>1, IdleQueue, DrawQueues DEF QueueInv, Idle
  <1>4. CASE BotMove
    <2>1. Idle /\ ~IsWaiting /\ effect_queue = <<>>
      BY <1>4, IdleQueue DEF BotMove, Handler, QueueInv
    <2>2. CASE Draw(CurrentPlayer)
      BY <2>1, <2>2, DrawQueues DEF QueueInv, Idle
    <2>3. CASE \E announced : \E c \in hand[CurrentPlayer] :
                 /\ Playable(c, TableFor(CurrentPlayer, hand[CurrentPlayer]))
                 /\ Play(CurrentPlayer, c, announced) /\ BeginTick
      <3> DEFINE p == CurrentPlayer
      <3>1. PICK announced : \E c \in hand[p] :
              Playable(c, TableFor(p, hand[p])) /\ Play(p, c, announced) /\ BeginTick
        BY <2>3
      <3>2. PICK c \in hand[p] :
              Playable(c, TableFor(p, hand[p])) /\ Play(p, c, announced) /\ BeginTick
        BY <3>1
      <3>3. p \in Seated
        BY CurrentSeated DEF QueueInv, Inv
      <3>4. CanPlay(p, c)
        BY <2>1, <3>2, <3>3 DEF CanPlay, Idle
      <3> HIDE DEF p
      <3>5. PlainQueue(effect_queue')
        BY <2>1, <3>2, <3>4, PlayQueues DEF QueueInv
      <3> QED
        BY <3>2, <3>5, OneEffect DEF Queueing, BeginTick
    <2> QED
      BY <1>4, <2>2, <2>3 DEF BotMove
  <1>5. CASE NestedPlay
    <2>1. effect_queue = <<>> /\ status = "playing" /\ phase = "call"
      BY <1>5 DEF NestedPlay, QueueInv, Queueing
    <2>2. CASE CanPlay(nested.who, nested.card)
      <3>1. PlainQueue(effect_queue') /\ (phase' = "tick" \/ BeginTick)
        BY <1>5, <2>1, <2>2, PlayQueues DEF QueueInv, NestedPlay
      <3> QED
        BY <3>1, OneEffect DEF Queueing, BeginTick
    <2>3. CASE ~CanPlay(nested.who, nested.card)
      BY <1>5, <2>1, <2>3, OneEffect DEF NestedPlay, Queueing
    <2> QED
      BY <2>2, <2>3
  <1>6. CASE (\E p \in Human : (\E a \in Offered : ProvideInput(p, a)) \/ LateInput(p)) \/ BotAnswer
    BY <1>6 DEF ProvideInput, LateInput, BotAnswer, Handler, Idle, QueueInv, Queueing, BeginTick
  <1>7. CASE \E p \in MayCallUno : CallUno(p)
    BY <1>7 DEF CallUno, Handler, Idle, QueueInv, Queueing
  <1>8. CASE Resolve
    <2> DEFINE q == effect_queue
    <2>1. q # <<>> /\ phase = "tick" /\ (PlainQueue(q) \/ DrawnQueue(q))
      BY <1>8 DEF Resolve, AdvanceTurn, DrawCards, SkipTurn, ReverseOrder, ChooseColor,
                  DecideDrawnCard, DecideSwapTarget, PassHands, Resolving, QueueInv, Queueing
    <2>2. CASE DecideDrawnCard
      <3>1. DrawnQueue(q) /\ Tail(q) = <<>> /\ status = "playing"
        BY <2>1, <2>2, PlainTail, DrawnTail
        DEF DecideDrawnCard, Resolving, QueueInv, Queueing
      <3>2. CASE provided_input = NoInput
        <4>1. UNCHANGED <<effect_queue, status>> /\ phase' = "idle"
          BY <2>2, <3>2, MatchAssumption DEF DecideDrawnCard, Ask
        <4> QED
          BY <2>1, <4>1, KeepsQueue DEF QueueInv
      <3>3. CASE provided_input # NoInput
        <4>1. \/ effect_queue' = <<>> /\ phase' = "call" /\ UNCHANGED status
              \/ Continue(Append(<<>>, Advance))
          BY <2>2, <3>1, <3>3 DEF DecideDrawnCard
        <4>2. CASE Continue(Append(<<>>, Advance))
          <5>1. PICK r : r = Append(<<>>, Advance)
            OBVIOUS
          <5> QED
            BY <4>2, <5>1, OneEffect, ContinueQueues
        <4> QED
          BY <3>1, <4>1, <4>2, OneEffect DEF Queueing
      <3> QED
        BY <3>2, <3>3
    <2>3. CASE ~DecideDrawnCard
      <3>1. PlainQueue(q)
        BY <1>8, <2>1, <2>3
        DEF Resolve, AdvanceTurn, DrawCards, SkipTurn, ReverseOrder, ChooseColor, DecideSwapTarget,
            PassHands, Resolving, DrawnQueue
      <3>2. PlainQueue(Tail(q)) /\ PlainQueue(<<Advance>> \o Tail(q))
        BY <2>1, <3>1, PlainTail
      <3>3. \/ Continue(Tail(q)) \/ Continue(<<Advance>> \o Tail(q))
            \/ UNCHANGED <<effect_queue, status>> /\ phase' = "idle"
        BY <1>8, <2>3
        DEF Resolve, AdvanceTurn, DrawCards, SkipTurn, ReverseOrder, ChooseColor, DecideSwapTarget,
            PassHands, Ask
      <3>4. PICK t, u : t = Tail(q) /\ u = <<Advance>> \o Tail(q)
        OBVIOUS
      <3> QED
        BY <2>1, <3>2, <3>3, <3>4, ContinueQueues, KeepsQueue DEF QueueInv
    <2> QED
      BY <2>2, <2>3
  <1>9. CASE (\E p \in MayLeave : Leave(p)) \/ (\E p \in MayJoin : Join(p))
    BY <1>9 DEF Leave, Join, Handler, Idle, QueueInv, Queueing
  <1>10. CASE GiveUp \/ Over \/ UNCHANGED vars
    BY <1>10 DEF GiveUp, Over, vars, QueueInv, Queueing
  <1> QED
    BY <1>2, <1>3, <1>4, <1>5, <1>6, <1>7, <1>8, <1>9, <1>10 DEF Next, Tick

\* How long the queue gets, and when Tick gives up.
Overfull == Copies("seven_zero") + 2 > MaxEffects

Sizing ==
  /\ Short(effect_queue)
  /\ phase = "overflow" => Len(effect_queue) > MaxEffects
  /\ status = "finished" /\ winner = NoName => Overfull

SizeInv == QueueInv /\ Sizing

LEMMA OneIsShort ==
  ASSUME TypeOK
  PROVE  /\ Short(<<>>) /\ Short(Append(<<>>, Advance))
         /\ \A p \in Name, c \in Card : Short(<<Deciding(p, c)>> \o <<>>)
  <1>1. Len(<<>>) = 0 /\ Len(Append(<<>>, Advance)) = 1
    BY SMT
  <1>2. \A p \in Name, c \in Card : Len(<<Deciding(p, c)>> \o <<>>) = 1
    BY OneEffect DEF DrawnQueue
  <1> QED
    BY <1>1, <1>2 DEF Short

\* A queue that got no longer is still short, while the settings stand.
LEMMA StillShort ==
  ASSUME Inv, UNCHANGED settings, NEW q, Short(q)
  PROVE  Short(q)'
  BY DEF Short, Copies

LEMMA NextSizing ==
  ASSUME SizeInv, [Next]_vars
  PROVE  SizeInv'
  <1>1. QueueInv' /\ QueueInv /\ Inv /\ TypeOK
    BY NextQueueing DEF SizeInv, QueueInv, Inv
  <1>2. settings' = settings
    BY DEF Next, Tick, Resolve, GiveUp, PlayCard, DrawCard, ProvideInput, LateInput, CallUno,
           BotAnswer, BotMove, NestedPlay, AdvanceTurn, DrawCards, SkipTurn, ReverseOrder,
           ChooseColor, DecideDrawnCard, DecideSwapTarget, PassHands, Resolving, Leave, Join,
           Over, Handler, vars
  <1>3. PICK q : q = effect_queue'
    OBVIOUS
  <1> DEFINE Sized == /\ Short(q)
                      /\ phase' = "overflow" => Len(q) > MaxEffects
                      /\ status' = "finished" /\ winner' = NoName => Overfull
  <1>4. SUFFICES Sized
    BY <1>1, <1>2, <1>3 DEF SizeInv, Sizing, Short, Overfull, Copies
  <1>5. NoName \notin Name /\ Sizing
    BY MatchAssumption DEF SizeInv
  <1>6. ASSUME NEW p, NEW c, NEW announced, CanPlay(p, c), Play(p, c, announced),
               effect_queue = <<>>, phase' = "tick" \/ BeginTick
        PROVE  Sized
    <2>1. Short(q)
      BY <1>1, <1>2, <1>3, <1>6, PlayQueues DEF Short, Copies
    <2>2. p \in Name
      BY <1>1, <1>6, SeatTypes DEF CanPlay, Inv, TypeOK
    <2>3. \/ UNCHANGED <<status, winner>>
          \/ winner' = p
      BY <1>6 DEF Play
    <2> QED
      BY <1>3, <1>5, <1>6, <2>1, <2>2, <2>3 DEF Sizing, BeginTick
  <1>7. ASSUME Draw(CurrentPlayer), effect_queue = <<>>
        PROVE  Sized
    <2>1. UNCHANGED <<status, winner>>
      BY <1>7 DEF Draw
    <2>2. PICK p \in Name : p = CurrentPlayer
      BY <1>1, SeatTypes DEF Inv, TypeOK
    <2>3. \/ q = <<>> /\ phase' = "call"
          \/ /\ q = Append(<<>>, Advance) \/ \E c \in Card : q = <<Deciding(p, c)>> \o <<>>
             /\ BeginTick
      <3>1. CASE DrawPenalty(p)
        BY <1>3, <1>7, <3>1 DEF DrawPenalty
      <3>2. CASE DrawOne(p)
        <4>1. PICK S \in Draws(p) :
                \/ \E c \in S :
                     IF Mod("force_play")
                     THEN phase' = "call" /\ effect_queue' = effect_queue
                     ELSE effect_queue' = <<Deciding(p, c)>> \o effect_queue /\ BeginTick
                \/ effect_queue' = Append(effect_queue, Advance) /\ BeginTick
          BY <3>2, Zenon DEF DrawOne
        <4>2. S \subseteq Card
          BY <1>1, DrawsTypes DEF FromStock, Stock, Buried, Inv, TypeOK
        <4> QED
          BY <1>3, <1>7, <4>1, <4>2
      <3> QED
        BY <1>7, <2>2, <3>1, <3>2 DEF Draw
    <2>4. Short(q)
      BY <1>1, <2>3, OneIsShort
    <2> QED
      BY <1>3, <1>5, <2>1, <2>3, <2>4 DEF Sizing, BeginTick
  <1>8. ASSUME Short(q), UNCHANGED <<status, winner>>, phase' # "overflow"
        PROVE  Sized
    BY <1>5, <1>8 DEF Sizing
  <1>9. CASE \E p \in Human : \E c \in hand[p] : PlayCard(p, c)
    <2>1. PICK p, c : CanPlay(p, c) /\ Play(p, c, called_uno) /\ BeginTick /\ Idle
                      /\ ~IsWaiting
      BY <1>9 DEF PlayCard, Handler, CanPlay
    <2>2. effect_queue = <<>>
      BY <1>1, <2>1, IdleQueue
    <2> QED
      BY <1>6, <2>1, <2>2
  <1>10. CASE \E p \in Human : DrawCard(p)
    <2>1. Draw(CurrentPlayer) /\ Idle /\ ~IsWaiting
      BY <1>10 DEF DrawCard, Handler
    <2> QED
      BY <1>1, <1>7, <2>1, IdleQueue
  <1>11. CASE BotMove
    <2> DEFINE p == CurrentPlayer
    <2>1. Idle /\ ~IsWaiting /\ effect_queue = <<>>
      BY <1>1, <1>11, IdleQueue DEF BotMove, Handler
    <2>2. CASE Draw(p)
      BY <1>7, <2>1, <2>2
    <2>3. CASE \E announced : \E c \in hand[p] :
                 Playable(c, TableFor(p, hand[p])) /\ Play(p, c, announced) /\ BeginTick
      <3>1. PICK announced : \E c \in hand[p] :
              Playable(c, TableFor(p, hand[p])) /\ Play(p, c, announced) /\ BeginTick
        BY <2>3
      <3>2. PICK c \in hand[p] :
              Playable(c, TableFor(p, hand[p])) /\ Play(p, c, announced) /\ BeginTick
        BY <3>1
      <3>3. CanPlay(p, c)
        BY <1>1, <2>1, <3>2, CurrentSeated DEF CanPlay, Idle, Inv
      <3> HIDE DEF p
      <3> QED
        BY <1>6, <2>1, <3>2, <3>3
    <2> QED
      BY <1>11, <2>2, <2>3 DEF BotMove
  <1>12. CASE NestedPlay
    <2>1. effect_queue = <<>>
      BY <1>1, <1>12 DEF NestedPlay, QueueInv, Queueing
    <2>2. CASE CanPlay(nested.who, nested.card)
      BY <1>6, <1>12, <2>1, <2>2 DEF NestedPlay
    <2>3. CASE ~CanPlay(nested.who, nested.card)
      <3>1. q = effect_queue /\ UNCHANGED <<status, winner>> /\ phase' # "overflow"
        BY <1>3, <1>12, <2>3 DEF NestedPlay
      <3> QED
        BY <1>5, <1>8, <3>1 DEF Sizing
    <2> QED
      BY <2>2, <2>3
  <1>13. CASE (\E p \in Human : (\E a \in Offered : ProvideInput(p, a)) \/ LateInput(p)) \/ BotAnswer
    BY <1>3, <1>5, <1>13 DEF ProvideInput, LateInput, BotAnswer, Sizing, BeginTick
  <1>14. CASE (\E p \in MayCallUno : CallUno(p)) \/ (\E p \in MayJoin : Join(p))
    BY <1>3, <1>5, <1>14 DEF CallUno, Join, Sizing
  <1>15. CASE \E p \in MayLeave : Leave(p)
    <2>1. q = effect_queue /\ UNCHANGED <<winner, phase>> /\ status' \in {status, "aborted"}
      BY <1>3, <1>15 DEF Leave
    <2> QED
      BY <1>5, <2>1 DEF Sizing
  <1>16. CASE Resolve
    <2>0. PICK eq : eq = effect_queue
      OBVIOUS
    <2>1. /\ eq # <<>>
          /\ PlainQueue(eq) \/ DrawnQueue(eq)
          /\ UNCHANGED <<status, winner>> /\ phase' # "overflow"
      BY <1>1, <1>16, <2>0
      DEF Resolve, AdvanceTurn, DrawCards, SkipTurn, ReverseOrder, ChooseColor,
          DecideDrawnCard, DecideSwapTarget, PassHands, Resolving, Continue, Ask,
          QueueInv, Queueing
    <2>2. PICK t, u : t = Tail(eq) /\ u = <<Advance>> \o Tail(eq)
      OBVIOUS
    <2>3. CASE PlainQueue(eq)
      <3>1. Len(t) <= Len(eq) /\ Len(u) <= Len(eq) /\ PlainQueue(t) /\ PlainQueue(u)
            /\ Head(eq).kind # "drawn"
        <4>1. /\ PlainQueue(Tail(eq)) /\ PlainQueue(<<Advance>> \o Tail(eq))
              /\ Head(eq).kind # "drawn"
          BY <2>1, <2>3, PlainTail
        <4>2. Len(t) <= Len(eq) /\ Len(u) <= Len(eq)
          BY <2>1, <2>2, <2>3, PlainTail
        <4> QED
          BY <2>2, <4>1, <4>2
      <3>2. q = t \/ q = u \/ q = eq
        BY <1>3, <1>16, <2>0, <2>2, <3>1
        DEF Resolve, AdvanceTurn, DrawCards, SkipTurn, ReverseOrder, ChooseColor,
            DecideDrawnCard, DecideSwapTarget, PassHands, Resolving, Continue, Ask
      <3>3. /\ Len(eq) \in Nat /\ Len(t) \in Nat /\ Len(u) \in Nat
            /\ Copies("seven_zero") \in Nat /\ Short(eq)
        BY <1>1, <1>5, <2>0, <2>3, <3>1, CopiesCount, LenProperties DEF PlainQueue, Sizing
      <3>4. Short(q)
        BY <3>1, <3>2, <3>3 DEF Short
      <3> QED
        BY <1>8, <2>1, <3>4
    <2>4. CASE DrawnQueue(eq)
      <3>1. Tail(eq) = <<>> /\ Head(eq).kind = "drawn"
        BY <2>4, DrawnTail DEF DrawnQueue
      <3>2. q = <<>> \/ q = Append(<<>>, Advance) \/ q = eq
        BY <1>3, <1>16, <2>0, <3>1
        DEF Resolve, AdvanceTurn, DrawCards, SkipTurn, ReverseOrder, ChooseColor,
            DecideDrawnCard, DecideSwapTarget, PassHands, Resolving, Continue, Ask
      <3>3. Short(q)
        BY <1>1, <1>5, <2>0, <3>2, OneIsShort DEF Sizing
      <3> QED
        BY <1>8, <2>1, <3>3
    <2> QED
      BY <2>1, <2>3, <2>4
  <1>17. CASE GiveUp
    <2>1. phase = "overflow" /\ q = effect_queue /\ phase' = "idle"
      BY <1>3, <1>17 DEF GiveUp
    <2>2. effect_queue \in Seq(Effect)
      BY <1>1 DEF TypeOK
    <2>3. Len(q) > 64 /\ Short(q) /\ Len(q) \in Nat /\ Copies("seven_zero") \in Nat
      BY <1>1, <1>5, <2>1, <2>2, CopiesCount, LenProperties DEF Sizing, MaxEffects
    <2> QED
      BY <2>1, <2>3 DEF Short, Overfull, MaxEffects
  <1>18. CASE Over \/ UNCHANGED vars
    BY <1>3, <1>5, <1>18 DEF Over, vars, Sizing
  <1> QED
    BY <1>9, <1>10, <1>11, <1>12, <1>13, <1>14, <1>15, <1>16, <1>17, <1>18 DEF Next, Tick

\* EffectQueueBounded: five effects are queued at most, or one for each rule of
\* seven_zero and two more; only a lobby that lists seven_zero more than 62 times
\* makes Tick give its match up (Tick, match_instance.cpp:223).
THEOREM QueueStaysSmall ==
  Spec => []EffectQueueBounded
  <1>1. Init => SizeInv
    <2> SUFFICES ASSUME Init PROVE SizeInv
      OBVIOUS
    <2>1. Inv /\ effect_queue = <<>> /\ phase = "idle" /\ status = "playing"
      BY InitInv DEF Init
    <2>2. QueueInv
      BY <2>1, OneEffect DEF QueueInv, Queueing
    <2> QED
      BY <2>1, <2>2, OneIsShort DEF SizeInv, Sizing, Inv
  <1>2. SizeInv /\ [Next]_vars => SizeInv'
    BY NextSizing
  <1>3. SizeInv => EffectQueueBounded
    BY DEF SizeInv, Sizing, Short, Overfull, EffectQueueBounded
  <1> QED
    BY <1>1, <1>2, <1>3, PTL DEF Spec

-----------------------------------------------------------------------------
(***************************************************************************)
(* A drawn card that may be played is played, while nobody leaves the      *)
(* table or joins it.                                                      *)
(***************************************************************************)
\* In turn, with nothing to stack on, only no_bluffing refuses what StandardRule allows.
Bluffs(c, table) ==
  /\ HasMod(table.mods, "no_bluffing") /\ c.value = kJollyDraw4
  /\ \E d \in table.hand : d.type = table.active

LEMMA InTurn ==
  ASSUME NEW c, NEW table, ~table.out, table.stack = 0
  PROVE  Playable(c, table) <=> StandardAllows(c, table) /\ ~Bluffs(c, table)
  <1> DEFINE says(i) == Verdict(table.mods[i], c, table)
  <1>1. ASSUME NEW i \in DOMAIN table.mods
        PROVE  /\ says(i) # "valid"
               /\ says(i) = "pass" <=>
                    ~(/\ table.mods[i] = "no_bluffing" /\ c.value = kJollyDraw4
                      /\ \E d \in table.hand : d.type = table.active)
    BY SMT DEF Verdict
  <1>2. (\A i \in DOMAIN table.mods : says(i) = "pass") <=> ~Bluffs(c, table)
    BY <1>1 DEF Bluffs, HasMod
  <1>3. Playable(c, table) <=> /\ \A i \in DOMAIN table.mods : says(i) = "pass"
                               /\ StandardAllows(c, table)
    BY <1>1 DEF Playable
  <1> QED
    BY <1>2, <1>3

\* A card worth keeping among the drawn ones stays playable with all of them in hand.
LEMMA DrawnPlayable ==
  ASSUME Inv, pending_draws = 0, NEW S \in Draws(CurrentPlayer), NEW c \in S,
         Keeps(CurrentPlayer, c)
  PROVE  Playable(c, TableFor(CurrentPlayer, hand[CurrentPlayer] \cup S))
  <1> DEFINE p    == CurrentPlayer
             T(H) == TableFor(p, H)
             held == hand[p]
  <1>1. S \subseteq Card /\ c \in Card /\ p \in Name
    BY DrawsTypes, SeatTypes DEF FromStock, Stock, Buried, Inv, TypeOK
  <1>2. \A H, d : Playable(d, T(H)) <=> StandardAllows(d, T(H)) /\ ~Bluffs(d, T(H))
    <2> SUFFICES ASSUME NEW H, NEW d
                 PROVE  Playable(d, T(H)) <=> StandardAllows(d, T(H)) /\ ~Bluffs(d, T(H))
      OBVIOUS
    <2>1. ~T(H).out /\ T(H).stack = 0
      BY DEF TableFor
    <2>2. PICK t : t = T(H)
      OBVIOUS
    <2> QED
      BY <2>1, <2>2, InTurn
  <1>3. \A H, d : /\ StandardAllows(d, T(H)) <=>
                       d.type = kWhite \/ d.type = active_type \/ d.value = top_card.value
                  /\ Bluffs(d, T(H)) <=>
                       /\ Mod("no_bluffing") /\ d.value = kJollyDraw4
                       /\ \E e \in H : e.type = active_type
    BY DEF StandardAllows, Bluffs, TableFor, Mod
  <1>4. \A d \in S : Keeps(p, d) => d = c
    <2>1. CASE Mod("progressive")
      <3>1. {d \in S : Keeps(p, d)} # {}
        OBVIOUS
      <3>2. \E e : {d \in S : Keeps(p, d)} = {e}
        BY <2>1, <3>1 DEF Draws
      <3> QED
        BY <3>2
    <2>2. CASE ~Mod("progressive")
      <3>1. Cardinality(S) = Min({1, Cardinality(Stock)})
        BY <2>2 DEF Draws, Yields
      <3>2. IsFiniteSet(S) /\ IsFiniteSet(Stock) /\ Cardinality(Stock) \in Nat
        BY <1>1, CardAssumption, FS_Subset, FS_CardinalityType DEF Stock, Buried, Inv, TypeOK
      <3>3. Cardinality(S) <= 1
        BY <3>1, <3>2, SMT DEF Min
      <3>4. {c} \in SUBSET S /\ Cardinality({c}) = 1
        BY FS_Singleton
      <3>5. /\ Cardinality({c}) <= Cardinality(S) /\ Cardinality(S) \in Nat
            /\ Cardinality(S) = Cardinality({c}) => S = {c}
        BY <3>2, <3>4, FS_Subset, FS_CardinalityType
      <3>6. S = {c}
        BY <3>3, <3>4, <3>5
      <3> QED
        BY <3>6
    <2> QED
      BY <2>1, <2>2
  <1>5. StandardAllows(c, T(held \cup {c})) /\ ~Bluffs(c, T(held \cup {c}))
    BY <1>2 DEF Keeps
  <1>6. ~Bluffs(c, T(held \cup S))
    <2> SUFFICES ASSUME Mod("no_bluffing"), c.value = kJollyDraw4,
                        NEW d \in held \cup S, d.type = active_type
                 PROVE  FALSE
      BY <1>3
    <2>1. d \notin held /\ d # c /\ d \in S
      BY <1>3, <1>5
    <2>2. ~Keeps(p, d)
      BY <1>4, <2>1
    <2>3. StandardAllows(d, T(held \cup {d}))
      BY <1>3
    <2>4. d.value = kJollyDraw4
      BY <1>2, <1>3, <2>2, <2>3 DEF Keeps
    <2>5. c.type = kWhite /\ d.type = kWhite
      BY <1>1, <2>1, <2>4, CardAssumption
    <2> QED
      BY <1>3, <1>5, <2>5
  <1>7. StandardAllows(c, T(held \cup S))
    BY <1>3, <1>5
  <1> QED
    BY <1>2, <1>6, <1>7

\* The card under decision, or in the call, may be played as the table lies.
Fitting(p, c) == p \in Seated /\ c \in hand[p] /\ Playable(c, TableFor(p, hand[p]))

DrawnFits ==
  /\ phase = "call" => Fitting(nested.who, nested.card)
  /\ status = "playing" /\ DrawnQueue(effect_queue)
       => Fitting(Head(effect_queue).who, Head(effect_queue).card)

DrawnInv == QueueInv /\ DrawnFits

\* A decision stands until the table changes.
LEMMA SameFitting ==
  ASSUME NEW p, NEW c, Fitting(p, c),
         UNCHANGED <<settings, players, current_player_index, hand, top_card, active_type,
                     pending_draws>>
  PROVE  Fitting(p, c)'
  BY DEF Fitting, Seated, Range, TableFor, CurrentPlayer, At

LEMMA DrawFits ==
  ASSUME Inv, effect_queue = <<>>, UNCHANGED settings, Draw(CurrentPlayer)
  PROVE  DrawnFits'
  <1>1. PICK p : p = CurrentPlayer
    OBVIOUS
  <1>2. /\ p \in Seated /\ p \in Name /\ hand \in [Name -> SUBSET Card]
        /\ UNCHANGED <<settings, players, current_player_index, active_type>>
    BY <1>1, CurrentSeated, SeatTypes DEF Draw, seats, Inv, TypeOK
  <1>3. CASE DrawPenalty(p)
    BY <1>3, OneEffect DEF DrawPenalty, DrawnFits, BeginTick
  <1>4. CASE DrawOne(p)
    <2>1. PICK S \in Draws(p) :
            /\ Take(p, S)
            /\ \/ \E c \in S :
                    /\ Keeps(p, c)
                    /\ \/ nested' = [who |-> p, card |-> c] /\ effect_queue' = effect_queue
                       \/ effect_queue' = <<Deciding(p, c)>> \o effect_queue /\ BeginTick
               \/ effect_queue' = Append(effect_queue, Advance) /\ BeginTick
      BY <1>4, Zenon DEF DrawOne
    <2>2. pending_draws = 0 /\ UNCHANGED <<pending_draws, top_card>>
      BY <1>4, <2>1 DEF DrawOne, Take
    <2>3. hand'[p] = hand[p] \cup S
      BY <1>2, <2>1 DEF Take
    <2>4. \A c : Keeps(p, c) /\ c \in S => Fitting(p, c)'
      <3> SUFFICES ASSUME NEW c, Keeps(p, c), c \in S PROVE Fitting(p, c)'
        OBVIOUS
      <3>1. Playable(c, TableFor(p, hand[p] \cup S))
        BY <1>1, <2>2, DrawnPlayable
      <3>2. TableFor(p, hand[p])' = TableFor(p, hand[p] \cup S)
        BY <1>2, <2>2, <2>3 DEF TableFor, CurrentPlayer, At
      <3>3. c \in hand'[p] /\ p \in Seated'
        BY <1>2, <2>3 DEF Seated
      <3> QED
        BY <3>1, <3>2, <3>3 DEF Fitting
    <2>5. S \subseteq Card
      BY DrawsTypes DEF FromStock, Stock, Buried, Inv, TypeOK
    <2>6. CASE effect_queue' = Append(effect_queue, Advance) /\ BeginTick
      BY <2>6, OneEffect DEF DrawnFits, BeginTick
    <2>7. ASSUME NEW c \in S, Keeps(p, c),
                 nested' = [who |-> p, card |-> c], effect_queue' = effect_queue
          PROVE  DrawnFits'
      BY <2>4, <2>7, OneEffect DEF DrawnFits, Fitting, TableFor
    <2>8. ASSUME NEW c \in S, Keeps(p, c),
                 effect_queue' = <<Deciding(p, c)>> \o effect_queue, BeginTick
          PROVE  DrawnFits'
      <3>1. Head(effect_queue') = Deciding(p, c)
        BY <1>2, <2>5, <2>8, OneEffect
      <3>2. Deciding(p, c).who = p /\ Deciding(p, c).card = c
        BY DEF Deciding, NewEffect
      <3> QED
        BY <2>4, <2>8, <3>1, <3>2 DEF DrawnFits, Fitting, TableFor, BeginTick
    <2> QED
      BY <2>1, <2>6, <2>7, <2>8
  <1> QED
    BY <1>1, <1>3, <1>4 DEF Draw

\* Nobody may leave or join.
Closed == MayLeave = {} /\ MayJoin = {}

LEMMA PlainFits ==
  ASSUME PlainQueue(effect_queue'), phase' # "call"
  PROVE  DrawnFits'
  BY OneEffect DEF DrawnFits

LEMMA NextFits ==
  ASSUME DrawnInv, [Next]_vars, Closed
  PROVE  DrawnInv'
  <1>1. QueueInv'
    BY NextQueueing DEF DrawnInv
  <1> SUFFICES DrawnFits'
    BY <1>1 DEF DrawnInv
  <1>2. CASE \E p \in Human : \E c \in hand[p] : PlayCard(p, c)
    <2>1. PICK p, c : CanPlay(p, c) /\ Play(p, c, called_uno) /\ BeginTick /\ Idle
                      /\ ~IsWaiting
      BY <1>2 DEF PlayCard, Handler, CanPlay
    <2>2. effect_queue = <<>>
      BY <2>1, IdleQueue DEF DrawnInv, QueueInv
    <2> QED
      BY <2>1, <2>2, PlayQueues, PlainFits DEF DrawnInv, QueueInv, BeginTick
  <1>3. CASE \E p \in Human : DrawCard(p)
    <2>1. Draw(CurrentPlayer) /\ Idle /\ ~IsWaiting /\ UNCHANGED settings
      BY <1>3 DEF DrawCard, Handler
    <2> QED
      BY <2>1, IdleQueue, DrawFits DEF DrawnInv, QueueInv
  <1>4. CASE BotMove
    <2>1. Idle /\ ~IsWaiting /\ effect_queue = <<>> /\ UNCHANGED settings
      BY <1>4, IdleQueue DEF BotMove, Handler, DrawnInv, QueueInv
    <2>2. CASE Draw(CurrentPlayer)
      BY <2>1, <2>2, DrawFits DEF DrawnInv, QueueInv
    <2>3. CASE ~Draw(CurrentPlayer)
      <3>1. PlainQueue(effect_queue') \/ DrawnQueue(effect_queue')
        BY <1>1 DEF QueueInv, Queueing
      <3>2. PICK c, announced : /\ c \in hand[CurrentPlayer]
                                /\ Playable(c, TableFor(CurrentPlayer, hand[CurrentPlayer]))
                                /\ Play(CurrentPlayer, c, announced) /\ BeginTick
        BY <1>4, <2>3 DEF BotMove
      <3>3. CanPlay(CurrentPlayer, c)
        BY <2>1, <3>2, CurrentSeated DEF CanPlay, Idle, DrawnInv, QueueInv, Inv
      <3>4. PICK p : p = CurrentPlayer
        OBVIOUS
      <3> QED
        BY <2>1, <3>2, <3>3, <3>4, PlayQueues, PlainFits DEF DrawnInv, QueueInv, BeginTick
    <2> QED
      BY <2>2, <2>3
  <1>5. CASE NestedPlay
    <2>1. effect_queue = <<>>
      BY <1>5 DEF NestedPlay, DrawnInv, QueueInv, Queueing
    <2>2. CASE CanPlay(nested.who, nested.card)
      BY <1>5, <2>1, <2>2, PlayQueues, PlainFits DEF DrawnInv, QueueInv, NestedPlay, BeginTick
    <2>3. CASE ~CanPlay(nested.who, nested.card)
      BY <1>5, <2>1, <2>3, OneEffect, PlainFits DEF NestedPlay
    <2> QED
      BY <2>2, <2>3
  <1>6. CASE \/ (\E p \in Human : (\E a \in Offered : ProvideInput(p, a)) \/ LateInput(p))
             \/ BotAnswer \/ (\E p \in MayCallUno : CallUno(p)) \/ Over \/ UNCHANGED vars
    <2>1. /\ UNCHANGED <<settings, players, current_player_index, hand, top_card, active_type,
                         pending_draws, effect_queue, status, nested>>
          /\ phase' = "call" => phase = "call"
      BY <1>6 DEF ProvideInput, LateInput, BotAnswer, CallUno, Over, vars, seats, cards, piles,
                  Handler, BeginTick
    <2>2. CASE phase' = "call"
      BY <2>1, <2>2, SameFitting, OneEffect DEF DrawnFits, DrawnInv, QueueInv, Queueing
    <2>3. CASE phase' # "call"
      BY <2>1, <2>3, SameFitting DEF DrawnFits, DrawnInv
    <2> QED
      BY <2>2, <2>3
  <1>7. CASE Resolve
    <2>1. CASE DecideDrawnCard /\ phase' # "call"
      <3>1. \/ UNCHANGED <<settings, players, current_player_index, hand, top_card, active_type,
                           pending_draws, effect_queue, status>>
            \/ effect_queue' = Append(Tail(effect_queue), Advance)
        BY <2>1 DEF DecideDrawnCard, Ask, Continue, Resolving, seats, cards, piles
      <3>2. effect_queue # <<>> /\ Head(effect_queue).kind = "drawn" /\ phase = "tick"
        BY <2>1 DEF DecideDrawnCard, Resolving
      <3>3. DrawnQueue(effect_queue) /\ Tail(effect_queue) = <<>>
        BY <3>2, PlainTail, DrawnTail DEF DrawnInv, QueueInv, Queueing
      <3>4. CASE effect_queue' = Append(Tail(effect_queue), Advance)
        BY <2>1, <3>3, <3>4, OneEffect, PlainFits
      <3>5. CASE UNCHANGED <<settings, players, current_player_index, hand, top_card,
                             active_type, pending_draws, effect_queue, status>>
        BY <2>1, <3>5, SameFitting DEF DrawnFits, DrawnInv
      <3> QED
        BY <3>1, <3>4, <3>5
    <2>2. CASE DecideDrawnCard /\ phase' = "call"
      <3>1. /\ effect_queue' = Tail(effect_queue)
            /\ nested' = [who |-> Head(effect_queue).who, card |-> Head(effect_queue).card]
            /\ UNCHANGED <<settings, players, current_player_index, hand, top_card,
                           active_type, pending_draws>>
        BY <2>2 DEF DecideDrawnCard, Ask, Continue, Resolving, seats, cards, piles
      <3>2. effect_queue # <<>> /\ Head(effect_queue).kind = "drawn" /\ phase = "tick"
        BY <2>2 DEF DecideDrawnCard, Resolving
      <3>3. DrawnQueue(effect_queue) /\ Tail(effect_queue) = <<>> /\ status = "playing"
        BY <3>2, PlainTail, DrawnTail DEF DrawnInv, QueueInv, Queueing
      <3>4. PICK w, d : w = Head(effect_queue).who /\ d = Head(effect_queue).card
        OBVIOUS
      <3>5. Fitting(w, d)
        BY <3>3, <3>4 DEF DrawnFits, DrawnInv
      <3>6. Fitting(w, d)'
        BY <3>1, <3>5, SameFitting
      <3>7. nested'.who = w /\ nested'.card = d
        BY <3>1, <3>4
      <3> QED
        BY <3>1, <3>3, <3>6, <3>7, OneEffect DEF DrawnFits, Fitting, TableFor
    <2>3. CASE ~DecideDrawnCard
      <3>1. effect_queue # <<>> /\ PlainQueue(effect_queue) /\ phase' # "call"
        BY <1>7, <2>3
        DEF Resolve, AdvanceTurn, DrawCards, SkipTurn, ReverseOrder, ChooseColor, DecideSwapTarget,
            PassHands, Resolving, Continue, Ask, DrawnQueue, DrawnInv, QueueInv, Queueing
      <3>2. \/ effect_queue' = Tail(effect_queue)
            \/ effect_queue' = <<Advance>> \o Tail(effect_queue)
            \/ effect_queue' = effect_queue
        BY <1>7, <2>3
        DEF Resolve, AdvanceTurn, DrawCards, SkipTurn, ReverseOrder, ChooseColor, DecideSwapTarget,
            PassHands, Continue, Ask
      <3>3. PICK q : q = effect_queue
        OBVIOUS
      <3> QED
        BY <3>1, <3>2, <3>3, PlainTail, PlainFits
    <2> QED
      BY <2>1, <2>2, <2>3
  <1>8. CASE (\E p \in MayLeave : Leave(p)) \/ (\E p \in MayJoin : Join(p))
    BY <1>8 DEF Closed
  <1>9. CASE GiveUp
    BY <1>9, OneEffect DEF GiveUp, DrawnFits, DrawnInv, QueueInv, Queueing
  <1> QED
    BY <1>2, <1>3, <1>4, <1>5, <1>6, <1>7, <1>8, <1>9 DEF Next, Tick

LEMMA DrawnInvInit ==
  ASSUME Init
  PROVE  DrawnInv
  BY InitInv, OneEffect DEF Init, DrawnInv, QueueInv, Queueing, DrawnFits

\* Nobody can refuse the card that DrawCard plays at once, or that a player decided to play
\* after drawing it: nothing was played in between, it was judged with fewer cards in hand,
\* and no card drawn with it can turn it into a bluff.
THEOREM DrawnCardsArePlayed ==
  ASSUME Closed
  PROVE  Spec => []NestedPlayAccepted
  <1>1. Init => DrawnInv
    BY DrawnInvInit
  <1>2. DrawnInv /\ [Next]_vars => DrawnInv'
    BY NextFits
  <1>3. DrawnInv => NestedPlayAccepted
    <2> SUFFICES ASSUME DrawnInv, phase = "call" PROVE CanPlay(nested.who, nested.card)
      BY DEF NestedPlayAccepted
    <2>1. ~IsWaiting /\ status = "playing" /\ Fitting(nested.who, nested.card)
      BY DEF DrawnInv, DrawnFits, QueueInv, Queueing, Inv, EngineInv
    <2> QED
      BY <2>1 DEF CanPlay, Fitting
  <1> QED
    BY <1>1, <1>2, <1>3, PTL DEF Spec

\* Unless it asks or the match is over, Tick gives the table back by an advance of the turn
\* and in no other way: an effect behind the last advance, a decision without one or a
\* refused card would leave the turn where it was.
THEOREM TurnsHandedOver ==
  ASSUME Closed
  PROVE  Spec => TurnHandedOver
  <1>1. Init => DrawnInv
    BY DrawnInvInit
  <1>2. DrawnInv /\ [Next]_vars => DrawnInv'
    BY NextFits
  <1> DEFINE Handed == phase = "tick" /\ Head(effect_queue).kind = "advance"
  <1>3. ASSUME DrawnInv, [Next]_vars, phase # "idle", phase' = "idle",
               status' = "playing", ~IsWaiting'
        PROVE  Handed
    <2>1. CASE NestedPlay
      <3>1. phase = "call" /\ CanPlay(nested.who, nested.card)
        <4>1. phase = "call" /\ ~IsWaiting /\ status = "playing"
              /\ Fitting(nested.who, nested.card)
          BY <1>3, <2>1 DEF NestedPlay, DrawnInv, DrawnFits, QueueInv, Queueing, Inv, EngineInv
        <4> QED
          BY <4>1 DEF CanPlay, Fitting
      <3>2. effect_queue = <<>> /\ Inv
        BY <1>3, <3>1 DEF DrawnInv, QueueInv, Queueing
      <3>3. effect_queue' # <<>>
        BY <2>1, <3>1, <3>2, PlayQueues DEF NestedPlay
      <3> QED
        BY <1>3, <2>1, <3>1, <3>3 DEF NestedPlay, BeginTick
    <2>2. CASE Resolve
      <3>1. /\ phase = "tick" /\ effect_queue # <<>>
            /\ PlainQueue(effect_queue) \/ DrawnQueue(effect_queue)
        BY <2>2, <1>3 DEF Resolve, AdvanceTurn, DrawCards, SkipTurn, ReverseOrder, ChooseColor,
           DecideDrawnCard, DecideSwapTarget, PassHands, Resolving, DrawnInv, QueueInv, Queueing
      <3>2. Head(effect_queue) \in Addressed
        BY <1>3, <3>1, QueueOps DEF DrawnInv, QueueInv, Inv, EngineInv
      <3>3. ASSUME NEW who, NEW action, NEW context, Ask(who, action, context),
                   who \in Name
            PROVE  FALSE
        BY <1>3, <3>3, MatchAssumption DEF Ask, IsWaiting
      <3>4. Tail(effect_queue) \in Seq(Addressed) /\ Advance \in Addressed
        <4>1. effect_queue \in Seq(Addressed)
          BY <1>3 DEF DrawnInv, QueueInv, Inv, EngineInv
        <4>2. Advance \in Addressed
          BY DEF Advance, NewEffect, Addressed, Asks, Effect, Kind
        <4> QED
          BY <3>1, <4>1, <4>2, QueueOps
      <3>5. PICK t, a : t = Tail(effect_queue) /\ a = Advance
        OBVIOUS
      <3>6. <<a>> \o t # <<>> /\ Append(t, a) # <<>>
        BY <3>4, <3>5, QueueOps
      <3>7. \A q : Continue(q) => q = <<>>
        BY <1>3 DEF Continue
      <3>8. ~DecideDrawnCard
        <4> SUFFICES ASSUME DecideDrawnCard PROVE FALSE
          OBVIOUS
        <4>1. Head(effect_queue).who \in Name
          BY <3>2 DEF DecideDrawnCard, Resolving, Addressed, Asks
        <4>2. Continue(Append(t, a))
          BY <1>3, <3>3, <3>5, <4>1 DEF DecideDrawnCard
        <4> QED
          BY <3>6, <3>7, <4>2
      <3>9. PlainQueue(effect_queue)
        BY <2>2, <3>1, <3>8
        DEF Resolve, AdvanceTurn, DrawCards, SkipTurn, ReverseOrder, ChooseColor, DecideSwapTarget,
            PassHands, Resolving, DrawnQueue
      <3>10. Continue(t)
        <4>1. CASE AdvanceTurn \/ DrawCards \/ PassHands
          BY <3>5, <4>1 DEF AdvanceTurn, DrawCards, PassHands
        <4>2. CASE SkipTurn \/ ReverseOrder
          BY <3>5, <3>6, <3>7, <4>2 DEF SkipTurn, ReverseOrder
        <4>3. CASE ChooseColor \/ DecideSwapTarget
          <5>1. Head(effect_queue).who \in Name
            BY <3>2, <4>3 DEF ChooseColor, DecideSwapTarget, Resolving, Addressed, Asks
          <5> QED
            BY <3>3, <3>5, <4>3, <5>1 DEF ChooseColor, DecideSwapTarget
        <4> QED
          BY <2>2, <3>8, <4>1, <4>2, <4>3 DEF Resolve
      <3>11. Head(effect_queue) = Advance
        BY <3>1, <3>5, <3>7, <3>9, <3>10, PlainTail
      <3> QED
        BY <3>1, <3>11 DEF Advance, NewEffect
    <2>3. NestedPlay \/ Resolve
      BY <1>3 DEF Next, Tick, GiveUp, PlayCard, DrawCard, ProvideInput, LateInput, CallUno, BotAnswer, BotMove,
                  Leave, Join, Over, Handler, Idle, vars
    <2> QED
      BY <2>1, <2>2, <2>3
  <1>4. DrawnInv /\ [Next]_vars => [(phase # "idle" /\ phase' = "idle" /\ status' = "playing"
                                     /\ ~IsWaiting') => Handed]_vars
    BY <1>3
  <1> QED
    BY <1>1, <1>2, <1>4, PTL DEF Spec, TurnHandedOver

-----------------------------------------------------------------------------
(***************************************************************************)
(* The last card, while nobody joins the match.                            *)
(***************************************************************************)
EmptyHandsWin == CardInv /\ LastCardWins

LEMMA PlayWins ==
  ASSUME LastCardWins, NEW p, NEW c, NEW announced, Play(p, c, announced), CanPlay(p, c),
         hand \in [Name -> SUBSET Card], Seated \subseteq Name
  PROVE  LastCardWins'
  <1>1. /\ Seated' = Seated /\ p \in Seated /\ c \in hand[p] /\ status = "playing"
        /\ hand' = [hand EXCEPT ![p] = @ \ {c}]
        /\ hand[p] = {c} => status' = "finished"
    BY DEF Play, Wins, Seated, CanPlay
  <1>2. \A q \in Seated : hand[q] # {}
    BY <1>1 DEF LastCardWins
  <1> SUFFICES ASSUME status' = "playing", NEW q \in Seated PROVE hand'[q] # {}
    BY <1>1 DEF LastCardWins
  <1>3. CASE q = p
    BY <1>1, <1>3
  <1>4. CASE q # p
    BY <1>1, <1>2, <1>4
  <1> QED
    BY <1>3, <1>4

\* Hands only grow, or change their owners, and the table stays.
LEMMA GrownHands ==
  ASSUME LastCardWins, Seated' \subseteq Seated, status' = "playing" => status = "playing",
         \A p \in Seated : \E q \in Seated : hand[q] \subseteq hand'[p]
  PROVE  LastCardWins'
  BY DEF LastCardWins

LEMMA TakeGrows ==
  ASSUME LastCardWins, TypeOK, NEW p, NEW S, Take(p, S), UNCHANGED <<players, status>>
  PROVE  LastCardWins'
  <1>1. hand' = [hand EXCEPT ![p] = @ \cup S] /\ hand \in [Name -> SUBSET Card]
        /\ Seated \subseteq Name
    BY SeatTypes DEF Take, TypeOK
  <1>2. \A q \in Seated : hand[q] \subseteq hand'[q]
    BY <1>1
  <1>3. Seated' = Seated
    BY DEF Seated
  <1> QED
    BY <1>2, <1>3, GrownHands

LEMMA NextWins ==
  ASSUME EmptyHandsWin, [Next]_vars, MayJoin = {}
  PROVE  EmptyHandsWin'
  <1>1. CardInv'
    BY NextCards DEF EmptyHandsWin
  <1> SUFFICES LastCardWins'
    BY <1>1 DEF EmptyHandsWin
  <1>2. /\ TypeOK /\ LastCardWins /\ CardInv /\ Inv
        /\ hand \in [Name -> SUBSET Card] /\ Seated \subseteq Name
    BY SeatTypes DEF EmptyHandsWin, CardInv, Inv, TypeOK
  <1>3. CASE \E p \in Human : \E c \in hand[p] : PlayCard(p, c)
    BY <1>2, <1>3, PlayWins DEF PlayCard
  <1>4. ASSUME Draw(CurrentPlayer) PROVE LastCardWins'
    <2>1. PICK S : Take(CurrentPlayer, S)
      BY <1>4 DEF Draw, DrawPenalty, DrawOne
    <2>2. PICK p : p = CurrentPlayer
      OBVIOUS
    <2> QED
      BY <1>2, <1>4, <2>1, <2>2, TakeGrows DEF Draw, seats
  <1>5. CASE (\E p \in Human : DrawCard(p)) \/ (BotMove /\ Draw(CurrentPlayer))
    BY <1>4, <1>5 DEF DrawCard
  <1>6. CASE BotMove /\ ~Draw(CurrentPlayer)
    <2>1. PICK p : p = CurrentPlayer
      OBVIOUS
    <2>2. PICK c, announced : /\ c \in hand[p] /\ Playable(c, TableFor(p, hand[p]))
                              /\ Play(p, c, announced)
      BY <1>6, <2>1 DEF BotMove
    <2>3. CanPlay(p, c)
      BY <1>2, <1>6, <2>1, <2>2, CurrentSeated DEF CanPlay, BotMove, Handler, Idle
    <2> QED
      BY <1>2, <2>2, <2>3, PlayWins
  <1>7. CASE NestedPlay
    <2>1. CASE CanPlay(nested.who, nested.card)
      BY <1>2, <1>7, <2>1, PlayWins DEF NestedPlay
    <2>2. CASE ~CanPlay(nested.who, nested.card)
      BY <1>2, <1>7, <2>2 DEF NestedPlay, seats, cards, LastCardWins, Seated
    <2> QED
      BY <2>1, <2>2
  <1>8. CASE \/ (\E p \in Human : (\E a \in Offered : ProvideInput(p, a)) \/ LateInput(p))
             \/ BotAnswer \/ (\E p \in MayCallUno : CallUno(p)) \/ Over \/ UNCHANGED vars
             \/ AdvanceTurn \/ SkipTurn \/ ReverseOrder \/ ChooseColor \/ DecideDrawnCard
    <2>1. UNCHANGED <<players, hand, status>>
      BY <1>8 DEF ProvideInput, LateInput, BotAnswer, CallUno, Over, vars, seats, cards,
                  AdvanceTurn, SkipTurn, ReverseOrder, ChooseColor, DecideDrawnCard, Continue, Ask
    <2> QED
      BY <1>2, <2>1 DEF LastCardWins, Seated
  <1>9. CASE DrawCards
    <2>1. PICK who : who = Head(effect_queue).who
      OBVIOUS
    <2>2. UNCHANGED <<players, status>>
      BY <1>9 DEF DrawCards, seats, Continue
    <2>3. CASE who \in Seated
      BY <1>2, <1>9, <2>1, <2>2, <2>3, TakeGrows DEF DrawCards
    <2>4. CASE who \notin Seated
      BY <1>2, <1>9, <2>1, <2>2, <2>4 DEF DrawCards, cards, LastCardWins, Seated
    <2> QED
      BY <2>3, <2>4
  <1>10. CASE DecideSwapTarget
    <2>1. UNCHANGED <<players, status>> /\ Seated' = Seated
      BY <1>10 DEF DecideSwapTarget, seats, Continue, Ask, Seated
    <2>2. PICK p, q : \/ UNCHANGED hand
                      \/ /\ p \in Seated /\ q \in Seated
                         /\ hand' = [hand EXCEPT ![p] = hand[q], ![q] = hand[p]]
      BY <1>10 DEF DecideSwapTarget, SwapHands
    <2>3. \A r \in Seated : \E s \in Seated : hand[s] \subseteq hand'[r]
      BY <1>2, <2>2
    <2> QED
      BY <1>2, <2>1, <2>3, GrownHands
  <1>11. CASE PassHands
    <2>1. UNCHANGED <<players, status>> /\ Seated' = Seated
      BY <1>11 DEF PassHands, seats, Continue, Seated
    <2>2. PICK from \in [Seated -> Seated] :
             hand' = [p \in Name |-> IF p \in Seated THEN hand[from[p]] ELSE hand[p]]
      BY <1>2, <1>11, PassedAround
    <2>3. \A r \in Seated : \E s \in Seated : hand[s] \subseteq hand'[r]
      BY <1>2, <2>2
    <2> QED
      BY <1>2, <2>1, <2>3, GrownHands
  <1>12. CASE \E p \in MayLeave : Leave(p)
    <2>1. PICK p \in Seated : Leave(p)
      BY <1>12 DEF Leave
    <2>2. CASE UNCHANGED <<seats, cards>>
      BY <1>2, <2>1, <2>2 DEF Leave, seats, cards, LastCardWins, Seated, Handler, Idle
    <2>3. CASE \E b \in BotName \ Seated : Rename(p, b)
      <3>1. PICK b \in BotName \ Seated : Rename(p, b)
        BY <2>3
      <3>2. Seated' = (Seated \ {p}) \cup {b} /\ b \in Name
        BY <1>2, <3>1, RenamedSeats DEF Name
      <3>3. hand' = [hand EXCEPT ![b] = hand[p], ![p] = {}]
        BY <3>1 DEF Rename
      <3>4. \A q \in Seated : hand[q] # {}
        BY <1>2, <2>1 DEF LastCardWins, Leave, Handler, Idle
      <3> QED
        BY <1>2, <3>1, <3>2, <3>3, <3>4 DEF LastCardWins
    <2>4. CASE RemovePlayer(p)
      <3>1. Seated' = Seated \ {p}
        BY <1>2, <2>4, RemovedSeats
      <3>2. hand' = [hand EXCEPT ![p] = {}]
        BY <2>4 DEF RemovePlayer
      <3>3. \A q \in Seated : hand[q] # {}
        BY <1>2, <2>1 DEF LastCardWins, Leave, Handler, Idle
      <3> QED
        BY <1>2, <3>1, <3>2, <3>3 DEF LastCardWins
    <2> QED
      BY <2>1, <2>2, <2>3, <2>4 DEF Leave
  <1>13. CASE \E p \in MayJoin : Join(p)
    BY <1>13
  <1>14. CASE BotMove
    BY <1>5, <1>6, <1>14
  <1>15. CASE Tick
    <2>1. CASE GiveUp
      BY <2>1 DEF GiveUp, LastCardWins
    <2> QED
      BY <1>8, <1>9, <1>10, <1>11, <1>15, <2>1 DEF Tick, Resolve
  <1>16. CASE \E p \in Human : \/ DrawCard(p) \/ LateInput(p)
                              \/ \E a \in Offered : ProvideInput(p, a)
    BY <1>5, <1>8, <1>16
  <1>17. CASE BotAnswer \/ (\E p \in MayCallUno : CallUno(p)) \/ Over \/ UNCHANGED vars
    BY <1>8, <1>17
  <1> QED
    BY <1>3, <1>7, <1>12, <1>13, <1>14, <1>15, <1>16, <1>17 DEF Next

\* While a match goes on everybody at the table has a card to play: whoever plays the last
\* one has won, in turn or out of it, from the hand or as a drawn card; and no exchange of
\* hands, no takeover of a seat and no departure leaves anybody without one.
THEOREM LastCardsWin ==
  ASSUME MayJoin = {}
  PROVE  Spec => []LastCardWins
  <1>1. Init => EmptyHandsWin
    <2> SUFFICES ASSUME Init PROVE LastCardWins
      BY InitCards DEF EmptyHandsWin
    <2>1. /\ players = settings.opening /\ settings \in Setting
          /\ Range(settings.opening) \subseteq Name
      BY MatchAssumption DEF Init, Setting, Range
    <2>2. PICK deal \in [Range(settings.opening) -> kSubset(settings.starting_cards, settings.deck)] :
            hand = [p \in Name |-> IF p \in DOMAIN deal THEN deal[p] ELSE {}]
      BY DEF Init
    <2>3. ASSUME NEW p \in Seated PROVE hand[p] # {}
      <3>1. p \in Range(settings.opening) /\ p \in Name
        BY <2>1, <2>3 DEF Seated
      <3>2. hand[p] = deal[p] /\ deal[p] \in kSubset(settings.starting_cards, settings.deck)
        BY <2>2, <3>1
      <3>3. Cardinality(hand[p]) \in 2 .. 20
        BY <2>1, <3>2 DEF kSubset, Setting
      <3> QED
        BY <3>3, FS_EmptySet
    <2> QED
      BY <2>3 DEF LastCardWins
  <1>2. EmptyHandsWin /\ [Next]_vars => EmptyHandsWin'
    BY NextWins
  <1>3. EmptyHandsWin => LastCardWins
    BY DEF EmptyHandsWin
  <1> QED
    BY <1>1, <1>2, <1>3, PTL DEF Spec

-----------------------------------------------------------------------------
(***************************************************************************)
(* Jump In.                                                                *)
(***************************************************************************)
\* jump_in sees every card that it may let in: it is listed before draw_stacking.
JumpInFirst ==
  \A g \in Games : \A i, j \in DOMAIN g.active_mods :
    g.active_mods[i] = "jump_in" /\ g.active_mods[j] = "draw_stacking" => i < j

\* A card played out of turn was let in by jump_in.
LEMMA OutOfTurn ==
  ASSUME NEW c, NEW table, table.out, Playable(c, table)
  PROVE  \E i \in DOMAIN table.mods : table.mods[i] = "jump_in"
  <1>1. \A i \in DOMAIN table.mods :
          Verdict(table.mods[i], c, table) = "valid" => table.mods[i] = "jump_in"
    BY SMT DEF Verdict
  <1> QED
    BY <1>1 DEF Playable, StandardAllows

\* Whoever plays out of turn has the turn then, for the effects of his card too.
LEMMA JumpedIn ==
  ASSUME TypeOK, JumpInFirst, NEW p, NEW c, CanPlay(p, c), p # CurrentPlayer,
         NEW announced, Play(p, c, announced)
  PROVE  CurrentPlayer' = p
  <1>1. PICK i \in DOMAIN settings.active_mods : settings.active_mods[i] = "jump_in"
    <2>1. PICK table : table = TableFor(p, hand[p])
      OBVIOUS
    <2>2. table.out /\ Playable(c, table) /\ table.mods = settings.active_mods
      BY <2>1 DEF CanPlay, TableFor
    <2> QED
      BY <2>2, OutOfTurn
  <1>2. settings \in Games /\ settings.active_mods \in Seq(ModName)
    BY MatchAssumption DEF TypeOK, Setting
  <1>3. \A j \in DOMAIN settings.active_mods :
          settings.active_mods[j] = "draw_stacking" => ~(j < i)
    <2>1. DOMAIN settings.active_mods \subseteq Int
      BY <1>2, LenProperties
    <2> QED
      BY <1>1, <1>2, <2>1 DEF JumpInFirst
  <1>4. ReachesJumpIn(settings.active_mods, c)
    BY <1>1, <1>3 DEF ReachesJumpIn
  <1>5. \E j \in DOMAIN players : players[j] = p
    BY DEF CanPlay, Seated, Range
  <1> DEFINE seat == CHOOSE j \in DOMAIN players : players[j] = p
  <1>6. seat \in DOMAIN players /\ players[seat] = p /\ seat \in Int
    BY <1>5, LenProperties DEF TypeOK
  <1> HIDE DEF seat
  <1>7. current_player_index' = seat - 1 /\ players' = players
    BY <1>4 DEF Play, SeatAfter, seat
  <1> QED
    BY <1>6, <1>7, SMT DEF CurrentPlayer, At

\* "Play an identical card out of turn to steal the turn": wherever the lobby lists jump_in
\* before draw_stacking, a card that jump_in lets in, a draw card on a growing penalty
\* included, gives its player the turn.
THEOREM JumpersHaveTheTurn ==
  ASSUME JumpInFirst
  PROVE  Spec => JumpInStealsTurn
  <1> DEFINE Jumped(p) == /\ phase = "idle" /\ phase' # "idle" /\ ~IsWaiting
                          /\ p # CurrentPlayer
                          /\ Cardinality(hand'[p]) < Cardinality(hand[p])
  <1>1. Init => Inv
    BY InitInv
  <1>2. Inv /\ [Next]_vars => Inv'
    BY NextInv
  <1>3. ASSUME Inv, Next, NEW p \in Human, Jumped(p) PROVE CurrentPlayer' = p
    <2>1. /\ hand \in [Name -> SUBSET Card] /\ p \in Name /\ CurrentPlayer \in Name
          /\ hand[p] \in SUBSET Card
      BY <1>3, SeatTypes DEF Inv, TypeOK, Name
    <2>2. hand'[p] # hand[p]
      BY <1>3, <2>1, SmallerHand
    <2>3. ASSUME NEW q \in Name, q # p, NEW c, NEW announced, Play(q, c, announced)
          PROVE  FALSE
      BY <2>1, <2>2, <2>3 DEF Play
    <2>4. ~Draw(CurrentPlayer)
      <3> SUFFICES ASSUME Draw(CurrentPlayer) PROVE FALSE
        OBVIOUS
      <3>1. PICK S : Take(CurrentPlayer, S)
        BY DEF Draw, DrawPenalty, DrawOne
      <3> QED
        BY <1>3, <2>1, <2>2, <3>1 DEF Take
    <2>5. CASE \E q \in Human : \E c \in hand[q] : PlayCard(q, c)
      <3>1. PICK q, c : q \in Human /\ CanPlay(q, c) /\ Play(q, c, called_uno)
        BY <2>5 DEF PlayCard
      <3>2. q = p
        BY <2>3, <3>1 DEF Name
      <3> QED
        BY <1>3, <3>1, <3>2, JumpedIn DEF Inv
    <2>6. CASE BotMove \/ \E q \in Human : DrawCard(q)
      BY <1>3, <2>1, <2>3, <2>4, <2>6 DEF BotMove, DrawCard
    <2> QED
      BY <1>3, <2>1, <2>2, <2>5, <2>6
      DEF Next, ProvideInput, LateInput, CallUno, BotAnswer, NestedPlay, Tick, Resolve, GiveUp, Leave, Join, Over,
          AdvanceTurn, DrawCards, SkipTurn, ReverseOrder, ChooseColor, DecideDrawnCard,
          DecideSwapTarget, PassHands, Resolving, vars, cards
  <1>4. Inv /\ [Next]_vars => [\A p \in Human : Jumped(p) => CurrentPlayer' = p]_vars
    BY <1>3
  <1> QED
    BY <1>1, <1>2, <1>4, PTL DEF Spec, JumpInStealsTurn

-----------------------------------------------------------------------------
(***************************************************************************)
(* The accumulated penalty, while nobody joins the match: whoever joins    *)
(* takes cards, and the discard pile may be reshuffled for it.             *)
(***************************************************************************)
\* The penalty that the cards of value v account for, and that of one of them.
Worth(v)   == IF v = kDraw2 THEN 2 ELSE 4
Pile(S, v) == PenaltyOn({c \in S : c.value = v})

LEMMA PileGrows ==
  ASSUME NEW S \in SUBSET Card, NEW v \in {kDraw2, kJollyDraw4}
  PROVE  /\ Pile(S, v) \in Nat
         /\ \A c \in Card \ S : c.value = v => Pile(S \cup {c}, v) = Pile(S, v) + Worth(v)
  <1> DEFINE of(T) == {c \in T : c.value = v}
  <1>1. \A T \in SUBSET Card : IsFiniteSet(of(T)) /\ Cardinality(of(T)) \in Nat
    <2> TAKE T \in SUBSET Card
    <2>1. of(T) \in SUBSET Card
      OBVIOUS
    <2> QED
      BY <2>1, CardAssumption, FS_Subset, FS_CardinalityType
  <1>2. \A T \in SUBSET Card : Pile(T, v) = Worth(v) * Cardinality(of(T))
    <2> TAKE T \in SUBSET Card
    <2>1. CASE v = kDraw2
      <3>1. /\ {c \in of(T) : c.value = kDraw2} = of(T)
            /\ {c \in of(T) : c.value = kJollyDraw4} = {}
        BY <2>1 DEF kDraw2, kJollyDraw4
      <3>2. Pile(T, v) = 2 * Cardinality(of(T)) + 4 * Cardinality({})
        BY <3>1, Zenon DEF Pile, PenaltyOn
      <3> QED
        BY <1>1, <2>1, <3>2, FS_EmptySet DEF Worth
    <2>2. CASE v = kJollyDraw4
      <3>1. /\ {c \in of(T) : c.value = kDraw2} = {}
            /\ {c \in of(T) : c.value = kJollyDraw4} = of(T)
        BY <2>2 DEF kDraw2, kJollyDraw4
      <3>2. Pile(T, v) = 2 * Cardinality({}) + 4 * Cardinality(of(T))
        BY <3>1, Zenon DEF Pile, PenaltyOn
      <3>3. Worth(v) = 4
        BY <2>2 DEF Worth, kDraw2, kJollyDraw4
      <3> QED
        BY <1>1, <3>2, <3>3, FS_EmptySet
    <2> QED
      BY <2>1, <2>2
  <1>3. Worth(v) \in Nat
    BY DEF Worth
  <1>4. ASSUME NEW c \in Card \ S, c.value = v
        PROVE  Pile(S \cup {c}, v) = Pile(S, v) + Worth(v)
    <2>1. of(S \cup {c}) = of(S) \cup {c} /\ c \notin of(S) /\ S \cup {c} \in SUBSET Card
      BY <1>4
    <2>2. Cardinality(of(S) \cup {c}) = Cardinality(of(S)) + 1
      BY <1>1, <2>1, FS_AddElement
    <2>3. Pile(S \cup {c}, v) = Worth(v) * (Cardinality(of(S)) + 1)
      BY <1>2, <2>1, <2>2, Zenon
    <2>4. PICK n \in Nat, w \in Nat : n = Cardinality(of(S)) /\ w = Worth(v)
      BY <1>1, <1>3
    <2>5. w * (n + 1) = w * n + w
      BY <2>4, SMT
    <2> QED
      BY <1>2, <2>3, <2>4, <2>5
  <1>5. Pile(S, v) \in Nat
    <2>1. PICK n \in Nat, w \in Nat : n = Cardinality(of(S)) /\ w = Worth(v)
      BY <1>1, <1>3
    <2>2. w * n \in Nat
      BY <2>1, SMT
    <2> QED
      BY <1>2, <2>1, <2>2
  <1> QED
    BY <1>4, <1>5

\* On a growing penalty only the same draw card is valid, for a jump-in too.
LEMMA StackOnly ==
  ASSUME NEW c, NEW table, table.stack > 0, HasMod(table.mods, "draw_stacking"),
         IsDraw(table.top), Playable(c, table)
  PROVE  IsDraw(c) /\ c.value = table.top.value
  <1> SUFFICES ASSUME ~Stacks(c, table) PROVE FALSE
    BY DEF Stacks
  <1>1. PICK k \in DOMAIN table.mods : table.mods[k] = "draw_stacking"
    BY DEF HasMod
  <1>2. Verdict(table.mods[k], c, table) = "invalid"
    BY <1>1 DEF Verdict
  <1>3. PICK i \in DOMAIN table.mods : Verdict(table.mods[i], c, table) = "valid"
    BY <1>2 DEF Playable
  <1>4. Identical(c, table.top)
    BY <1>3, SMT DEF Verdict
  <1> QED
    BY <1>4 DEF Identical, Stacks, IsDraw

\* Effects that add nothing to a penalty.
Flat == {e \in Addressed : e.kind = "color" => e.count = 0}

PenaltyFree == pending_draws = 0 /\ effect_queue \in Seq(Flat)

\* The penalty, with what the colour choice under way is going to add, lies on its cards,
\* and nothing is queued that could take cards.
PenaltyLies ==
  /\ Mod("draw_stacking") /\ IsDraw(top_card)
  /\ \/ /\ effect_queue \in {<<>>, <<Advance>>}
        /\ pending_draws <= Pile(discard_pile, top_card.value)
     \/ \E p \in Name : /\ effect_queue = <<Coloring(p, 4), Advance>>
                        /\ pending_draws + 4 <= Pile(discard_pile, top_card.value)

PenaltyInv == CardInv /\ QueueInv /\ (PenaltyFree \/ PenaltyLies)

LEMMA ShortQueues ==
  ASSUME NEW e \in Addressed, NEW f \in Addressed
  PROVE  /\ <<e>> # <<>> /\ Head(<<e>>) = e /\ Tail(<<e>>) = <<>>
         /\ <<e, f>> # <<>> /\ Head(<<e, f>>) = e /\ Tail(<<e, f>>) = <<f>>
         /\ <<>> \o <<e>> = <<e>> /\ <<e>> \o <<f>> = <<e, f>>
  <1>1. <<e>> # <<>> /\ Head(<<e>>) = e
    BY SMT
  <1>2. <<e, f>> # <<>> /\ Head(<<e, f>>) = e
    BY SMT
  <1>3. Tail(<<e>>) = <<>>
    BY SMT
  <1>4. Tail(<<e, f>>) = <<f>>
    BY SMT
  <1>5. <<>> \o <<e>> = <<e>>
    BY SMT
  <1>6. <<e>> \o <<f>> = <<e, f>>
    <2>1. PICK a, b, d : a = <<e>> /\ b = <<f>> /\ d = <<e, f>>
      OBVIOUS
    <2>2. /\ a \in Seq(Addressed) /\ Len(a) = 1 /\ a[1] = e
          /\ b \in Seq(Addressed) /\ Len(b) = 1 /\ b[1] = f
          /\ d \in Seq(Addressed) /\ Len(d) = 2 /\ d[1] = e /\ d[2] = f
      BY <2>1, SMT
    <2>3. /\ a \o b \in Seq(Addressed) /\ Len(a \o b) = Len(a) + Len(b)
          /\ \A i \in 1 .. Len(a) + Len(b) :
               (a \o b)[i] = IF i <= Len(a) THEN a[i] ELSE b[i - Len(a)]
      BY <2>2, ConcatProperties
    <2>4. Len(a \o b) = Len(d) /\ \A i \in 1 .. Len(a \o b) : (a \o b)[i] = d[i]
      BY <2>2, <2>3
    <2>5. a \o b = d
      BY <2>2, <2>3, <2>4, SeqEqual
    <2> QED
      BY <2>1, <2>5
  <1> QED
    BY <1>1, <1>2, <1>3, <1>4, <1>5, <1>6

LEMMA FlatEffects ==
  ASSUME NEW p \in Name, NEW n \in Nat, NEW c \in Card
  PROVE  {Advance, Skipping, Reversing, PassingHands, Drawing(p, n), Coloring(p, 0), Swapping(p),
          Deciding(p, c)} \subseteq Flat
  <1>1. {Advance, Skipping, Reversing, PassingHands, Drawing(p, n), Coloring(p, 0),
         Swapping(p), Deciding(p, c)} \subseteq Addressed
    BY EffectTypes
  <1>2. \A e \in {Advance, Skipping, Reversing, PassingHands, Drawing(p, n), Coloring(p, 0),
                  Swapping(p), Deciding(p, c)} : e.kind = "color" => e.count = 0
    BY DEF Advance, Skipping, Reversing, PassingHands, Drawing, Coloring, Swapping, Deciding,
           NewEffect
  <1> QED
    BY <1>1, <1>2 DEF Flat

\* A card that draw_stacking leaves alone adds to no penalty.
LEMMA QueuedFlat ==
  ASSUME TypeOK, NEW p \in Seated, NEW c \in Card, NEW announced,
         ~StackTakes(settings.active_mods, c)
  PROVE  Queued(p, c, announced) \in Seq(Flat)
  <1> DEFINE next == NextPlayer(SeatAfter(p, c))
             uno  == UnoPenalty(p, c, announced)
             a    == SevenZeroEffects(p, c)
             b    == StandardEffects(p, c, next)
  <1>1. p \in Name /\ next \in Name
    <2>1. SeatAfter(p, c) \in Int
      BY QueuedTypes, SMT
    <2> QED
      BY <2>1, SeatTypes
  <1> HIDE DEF next
  <1>2. /\ {PassingHands, Swapping(p), Drawing(p, 2), Advance, Coloring(p, 0)} \subseteq Flat
        /\ {Skipping, Reversing, Drawing(next, 2), Drawing(next, 4)} \subseteq Flat
    BY <1>1, FlatEffects
  <1>3. a \in Seq(Flat)
    <2> DEFINE n == Copies("seven_zero")
    <2>1. n \in Nat
      BY CopiesCount
    <2> HIDE DEF n
    <2>2. \A e \in Flat : [i \in 1 .. n |-> e] \in Seq(Flat)
      BY <2>1, Repeated
    <2>3. /\ [i \in 1 .. n |-> PassingHands] \in Seq(Flat)
          /\ [i \in 1 .. n |-> Swapping(p)] \in Seq(Flat)
      BY <1>2, <2>2
    <2> QED
      BY <2>3, EmptySeq DEF SevenZeroEffects, n
  <1>4. b \in Seq(Flat)
    BY <1>2, SMT DEF StandardEffects, kSkip, kReverse, kDraw2, kJolly, kJollyDraw4
  <1>5. uno \in Seq(Flat) /\ <<Advance>> \in Seq(Flat)
    BY <1>2, SMT DEF UnoPenalty
  <1>6. Queued(p, c, announced) = ((a \o b) \o uno) \o <<Advance>>
    BY DEF Queued, CardEffects, next
  <1> HIDE DEF a, b, uno
  <1>7. PICK d : d = <<Advance>>
    OBVIOUS
  <1>8. a \o b \in Seq(Flat)
    BY <1>3, <1>4, ConcatProperties
  <1>9. (a \o b) \o uno \in Seq(Flat)
    BY <1>5, <1>8, ConcatProperties
  <1>10. ((a \o b) \o uno) \o d \in Seq(Flat)
    BY <1>5, <1>7, <1>9, ConcatProperties
  <1> QED
    BY <1>6, <1>7, <1>10

LEMMA PlayBacked ==
  ASSUME PenaltyInv, effect_queue = <<>>, UNCHANGED settings,
         NEW p, NEW c, CanPlay(p, c), NEW announced, Play(p, c, announced)
  PROVE  (PenaltyFree \/ PenaltyLies)'
  <1> DEFINE stacks == StackTakes(settings.active_mods, c)
  <1>1. /\ p \in Seated /\ p \in Name /\ c \in hand[p] /\ c \in Card /\ TypeOK
        /\ discard_pile \in SUBSET Card /\ pending_draws \in Nat /\ c \notin discard_pile
    BY SeatTypes DEF CanPlay, PenaltyInv, CardInv, Inv, TypeOK, Conserved
  <1>2. /\ discard_pile' = discard_pile \cup {c} /\ top_card' = c /\ Mod("draw_stacking")' = Mod("draw_stacking")
        /\ pending_draws' = pending_draws + StackAdds(settings.active_mods, c)
        /\ effect_queue' = <<>> \o Queued(p, c, announced)
    BY DEF Play, Mod
  <1>3. pending_draws > 0 => PenaltyLies /\ pending_draws <= Pile(discard_pile, top_card.value)
    <2> SUFFICES ASSUME pending_draws > 0
                 PROVE  PenaltyLies /\ pending_draws <= Pile(discard_pile, top_card.value)
      OBVIOUS
    <2>1. PenaltyLies
      BY DEF PenaltyInv, PenaltyFree
    <2>2. \A q \in Name : <<Coloring(q, 4), Advance>> # <<>>
      <3> TAKE q \in Name
      <3>1. Coloring(q, 4) \in Addressed /\ Advance \in Addressed
        BY PlainEffects DEF Plain
      <3> QED
        BY <3>1, ShortQueues
    <2> QED
      BY <2>1, <2>2 DEF PenaltyLies
  <1>4. pending_draws > 0 => stacks /\ c.value = top_card.value
    <2> SUFFICES ASSUME pending_draws > 0 PROVE stacks /\ c.value = top_card.value
      OBVIOUS
    <2>1. PICK table : table = TableFor(p, hand[p])
      OBVIOUS
    <2>2. /\ table.stack > 0 /\ HasMod(table.mods, "draw_stacking") /\ Playable(c, table)
          /\ IsDraw(table.top) /\ table.mods = settings.active_mods /\ table.top = top_card
      BY <1>3, <2>1 DEF TableFor, CanPlay, PenaltyLies, Mod
    <2> QED
      BY <2>2, StackOnly DEF StackTakes
  <1>5. CASE ~stacks
    <2>1. pending_draws' = 0
      BY <1>1, <1>2, <1>4, <1>5 DEF StackAdds, StackTakes, IsDraw
    <2>2. Queued(p, c, announced) \in Seq(Flat)
      BY <1>1, <1>5, QueuedFlat
    <2> DEFINE q == Queued(p, c, announced)
    <2> HIDE DEF q
    <2>3. <<>> \o q = q
      BY <2>2, ConcatEmptySeq DEF q
    <2> QED
      BY <1>2, <2>1, <2>2, <2>3 DEF q, PenaltyFree
  <1>6. CASE stacks
    <2>1. Mod("draw_stacking") /\ IsDraw(c) /\ c.value \in {kDraw2, kJollyDraw4}
      BY <1>6 DEF StackTakes, IsDraw, Mod
    <2>2. pending_draws + Worth(c.value) <= Pile(discard_pile', c.value)
          /\ Pile(discard_pile', c.value) \in Nat
      <3>1. /\ Pile(discard_pile, c.value) \in Nat
            /\ Pile(discard_pile \cup {c}, c.value) = Pile(discard_pile, c.value) + Worth(c.value)
        BY <1>1, <2>1, PileGrows
      <3>2. pending_draws <= Pile(discard_pile, c.value)
        BY <1>1, <1>3, <1>4, <3>1
      <3>3. Worth(c.value) \in Nat
        BY DEF Worth
      <3> QED
        BY <1>1, <1>2, <3>1, <3>2, <3>3
    <2>3. Advance \in Addressed /\ Coloring(p, 4) \in Addressed
      BY <1>1, PlainEffects DEF Plain
    <2>4. Queued(p, c, announced)
             = (IF c.value = kJollyDraw4 THEN <<Coloring(p, 4)>> ELSE <<>>) \o <<>> \o <<Advance>>
      BY <1>6 DEF Queued, CardEffects, UnoPenalty, ForgotUno
    <2>5. PICK a, b : a = Advance /\ b = Coloring(p, 4)
      OBVIOUS
    <2>6. CASE c.value = kJollyDraw4
      <3>1. Worth(c.value) = 4 /\ StackAdds(settings.active_mods, c) = 0
        BY <2>6 DEF Worth, StackAdds, kDraw2, kJollyDraw4
      <3>2. effect_queue' = <<>> \o ((<<b>> \o <<>>) \o <<a>>)
        BY <1>2, <2>4, <2>5, <2>6
      <3>3. PICK s, t : s = <<b>> /\ t = <<b, a>>
        OBVIOUS
      <3>4. s \in Seq(Addressed) /\ t \in Seq(Addressed)
        BY <2>3, <2>5, <3>3, SMT
      <3>5. s \o <<>> = s /\ <<>> \o t = t
        BY <3>4, ConcatEmptySeq
      <3>6. effect_queue' = <<b, a>>
        BY <2>3, <2>5, <3>2, <3>3, <3>5, ShortQueues
      <3>7. pending_draws' + 4 <= Pile(discard_pile', c.value)
        BY <1>1, <1>2, <2>2, <3>1
      <3> QED
        BY <1>1, <1>2, <2>1, <2>5, <3>6, <3>7 DEF PenaltyLies
    <2>7. CASE c.value = kDraw2
      <3>1. Worth(c.value) = 2 /\ StackAdds(settings.active_mods, c) = 2
        BY <2>1, <2>7 DEF Worth, StackAdds, Mod
      <3>2. effect_queue' = <<>> \o ((<<>> \o <<>>) \o <<a>>)
        BY <1>2, <2>4, <2>5, <2>7 DEF kDraw2, kJollyDraw4
      <3>3. <<>> \o <<>> = <<>>
        BY EmptySeq, ConcatEmptySeq
      <3>4. effect_queue' = <<a>>
        BY <2>3, <2>5, <3>2, <3>3, ShortQueues
      <3>5. pending_draws' <= Pile(discard_pile', c.value)
        BY <1>1, <1>2, <2>2, <3>1
      <3> QED
        BY <1>2, <2>1, <2>5, <3>4, <3>5 DEF PenaltyLies
    <2> QED
      BY <2>1, <2>6, <2>7
  <1> QED
    BY <1>5, <1>6

LEMMA DrawFree ==
  ASSUME PenaltyInv, effect_queue = <<>>, Draw(CurrentPlayer)
  PROVE  PenaltyFree'
  <1>1. PICK p : p = CurrentPlayer
    OBVIOUS
  <1>2. p \in Name
    BY <1>1, SeatTypes DEF PenaltyInv, CardInv, Inv
  <1>3. <<>> \in Seq(Flat) /\ Append(<<>>, Advance) \in Seq(Flat)
    <2>1. Advance \in Flat
      BY <1>2, FlatEffects, CardAssumption
      DEF Flat, Advance, NewEffect, Addressed, Asks, Effect, Kind
    <2> QED
      BY <2>1, EmptySeq, AppendProperties
  <1>4. \A c \in Card : <<Deciding(p, c)>> \o <<>> \in Seq(Flat)
    <2> TAKE c \in Card
    <2>1. PICK e : e = Deciding(p, c)
      OBVIOUS
    <2>2. e \in Flat
      BY <1>2, <2>1, FlatEffects
    <2>3. <<e>> \o <<>> \in Seq(Flat)
      BY <2>2, SMT
    <2> QED
      BY <2>1, <2>3
  <1>5. CASE DrawPenalty(p)
    BY <1>3, <1>5 DEF DrawPenalty, PenaltyFree
  <1>6. CASE DrawOne(p)
    <2>1. PICK S \in Draws(p) :
            \/ effect_queue' = effect_queue
            \/ \E c \in S : effect_queue' = <<Deciding(p, c)>> \o effect_queue
            \/ effect_queue' = Append(effect_queue, Advance)
      BY <1>6, Zenon DEF DrawOne
    <2>2. S \subseteq Card
      BY DrawsTypes DEF FromStock, Stock, Buried, PenaltyInv, CardInv, Inv, TypeOK
    <2>3. pending_draws' = 0
      BY <1>6 DEF DrawOne
    <2> QED
      BY <1>3, <1>4, <2>1, <2>2, <2>3 DEF PenaltyFree
  <1> QED
    BY <1>1, <1>5, <1>6 DEF Draw

LEMMA SamePenalty ==
  ASSUME PenaltyFree \/ PenaltyLies,
         UNCHANGED <<settings, pending_draws, effect_queue, discard_pile, top_card>>
  PROVE  (PenaltyFree \/ PenaltyLies)'
  BY DEF PenaltyFree, PenaltyLies, Mod

LEMMA TickPenalty ==
  ASSUME PenaltyInv, Resolve
  PROVE  (PenaltyFree \/ PenaltyLies)'
  <1>1. effect_queue # <<>> /\ UNCHANGED settings
    BY DEF Resolve, AdvanceTurn, DrawCards, SkipTurn, ReverseOrder, ChooseColor, DecideDrawnCard,
           DecideSwapTarget, PassHands, Resolving
  <1>2. Advance \in Flat /\ Advance \in Addressed
    BY DEF Flat, Advance, NewEffect, Addressed, Asks, Effect, Kind
  <1>3. CASE PenaltyFree
    <2>1. PICK q, a : q = effect_queue /\ a = Advance
      OBVIOUS
    <2>2. /\ q \in Seq(Flat) /\ q # <<>> /\ Head(q) \in Flat /\ Tail(q) \in Seq(Flat)
          /\ a \in Flat
      BY <1>1, <1>2, <1>3, <2>1, HeadTailProperties DEF PenaltyFree
    <2>3. Append(Tail(q), a) \in Seq(Flat)
      BY <2>2, AppendProperties
    <2>4. <<a>> \o Tail(q) \in Seq(Flat)
      BY <2>2, SMT
    <2>5. \/ effect_queue' = q \/ effect_queue' = Tail(q)
          \/ effect_queue' = <<a>> \o Tail(q) \/ effect_queue' = Append(Tail(q), a)
      BY <2>1 DEF Resolve, AdvanceTurn, DrawCards, SkipTurn, ReverseOrder, ChooseColor,
           DecideDrawnCard, DecideSwapTarget, PassHands, Continue, Ask
    <2>6. pending_draws' = 0
      <3>1. CASE ChooseColor
        BY <1>3, <2>1, <2>2, <3>1 DEF ChooseColor, Resolving, PenaltyFree, Flat
      <3>2. CASE ~ChooseColor
        BY <1>3, <3>2 DEF Resolve, AdvanceTurn, DrawCards, SkipTurn, ReverseOrder,
           DecideDrawnCard, DecideSwapTarget, PassHands, PenaltyFree
      <3> QED
        BY <3>1, <3>2
    <2> QED
      BY <2>2, <2>3, <2>4, <2>5, <2>6 DEF PenaltyFree
  <1>4. CASE PenaltyLies /\ effect_queue = <<Advance>>
    <2>1. Head(effect_queue) = Advance /\ Tail(effect_queue) = <<>>
      BY <1>2, <1>4, ShortQueues
    <2>2. Advance.kind = "advance"
      BY DEF Advance, NewEffect
    <2>3. AdvanceTurn
      BY <2>1, <2>2 DEF Resolve, DrawCards, SkipTurn, ReverseOrder, ChooseColor, DecideDrawnCard,
         DecideSwapTarget, PassHands, Resolving
    <2>4. effect_queue' = <<>> /\ UNCHANGED <<settings, pending_draws, discard_pile, top_card>>
      BY <1>1, <2>1, <2>3 DEF AdvanceTurn, Continue, cards, piles
    <2>5. \A p \in Name : <<Coloring(p, 4), Advance>> # <<Advance>>
      <3> TAKE p \in Name
      <3>1. Coloring(p, 4) \in Addressed /\ Coloring(p, 4).kind = "color"
        BY PlainEffects DEF Plain, Coloring, NewEffect
      <3> QED
        BY <1>2, <2>2, <3>1, ShortQueues
    <2> QED
      BY <1>4, <2>4, <2>5 DEF PenaltyLies, Mod
  <1>5. CASE PenaltyLies /\ effect_queue # <<Advance>>
    <2>1. PICK p \in Name : /\ effect_queue = <<Coloring(p, 4), Advance>>
                            /\ pending_draws + 4 <= Pile(discard_pile, top_card.value)
      BY <1>1, <1>5 DEF PenaltyLies
    <2>2. /\ Coloring(p, 4) \in Addressed /\ Coloring(p, 4).kind = "color"
          /\ Coloring(p, 4).count = 4
      BY PlainEffects DEF Plain, Coloring, NewEffect
    <2>3. PICK c, a : c = Coloring(p, 4) /\ a = Advance
      OBVIOUS
    <2>4. Head(effect_queue) = c /\ Tail(effect_queue) = <<a>>
      BY <1>2, <2>1, <2>2, <2>3, ShortQueues
    <2>5. ChooseColor
      BY <2>2, <2>3, <2>4 DEF Resolve, AdvanceTurn, DrawCards, SkipTurn, ReverseOrder,
         DecideDrawnCard, DecideSwapTarget, PassHands, Resolving
    <2>6. UNCHANGED <<discard_pile, top_card>>
      BY <2>5 DEF ChooseColor, cards, piles
    <2>7. \/ effect_queue' = <<Advance>> /\ pending_draws' = pending_draws + 4
          \/ UNCHANGED <<effect_queue, pending_draws>>
      BY <2>2, <2>3, <2>4, <2>5 DEF ChooseColor, Continue, Ask
    <2> QED
      BY <1>1, <1>5, <2>1, <2>6, <2>7 DEF PenaltyLies, Mod
  <1> QED
    BY <1>3, <1>4, <1>5 DEF PenaltyInv

LEMMA NextPenalty ==
  ASSUME PenaltyInv, [Next]_vars, MayJoin = {}
  PROVE  PenaltyInv'
  <1>1. CardInv' /\ QueueInv'
    BY NextCards, NextQueueing DEF PenaltyInv
  <1> SUFFICES (PenaltyFree \/ PenaltyLies)'
    BY <1>1 DEF PenaltyInv
  <1>2. CASE \E p \in Human : \E c \in hand[p] : PlayCard(p, c)
    <2>1. PICK p, c : CanPlay(p, c) /\ Play(p, c, called_uno) /\ Handler /\ ~IsWaiting
      BY <1>2 DEF PlayCard, CanPlay
    <2>2. effect_queue = <<>> /\ UNCHANGED settings
      BY <2>1, IdleQueue DEF PenaltyInv, CardInv, Handler
    <2> QED
      BY <2>1, <2>2, PlayBacked
  <1>3. CASE \E p \in Human : DrawCard(p)
    <2>1. Draw(CurrentPlayer) /\ effect_queue = <<>>
      BY <1>3, IdleQueue DEF DrawCard, PenaltyInv, CardInv, Handler
    <2> QED
      BY <2>1, DrawFree
  <1>4. CASE BotMove
    <2>1. Idle /\ ~IsWaiting /\ effect_queue = <<>> /\ UNCHANGED settings
      BY <1>4, IdleQueue DEF BotMove, Handler, PenaltyInv, CardInv
    <2>2. CASE Draw(CurrentPlayer)
      BY <2>1, <2>2, DrawFree
    <2>3. CASE ~Draw(CurrentPlayer)
      <3>1. PICK p : p = CurrentPlayer
        OBVIOUS
      <3>2. PICK c, announced : /\ c \in hand[p] /\ Playable(c, TableFor(p, hand[p]))
                                /\ Play(p, c, announced)
        BY <1>4, <2>3, <3>1 DEF BotMove
      <3>3. CanPlay(p, c)
        BY <2>1, <3>1, <3>2, CurrentSeated DEF CanPlay, Idle, PenaltyInv, CardInv, Inv
      <3> QED
        BY <2>1, <3>2, <3>3, PlayBacked
    <2> QED
      BY <2>2, <2>3
  <1>5. CASE NestedPlay
    <2>1. effect_queue = <<>> /\ UNCHANGED settings
      BY <1>5 DEF NestedPlay, PenaltyInv, QueueInv, Queueing
    <2>2. CASE CanPlay(nested.who, nested.card)
      <3>1. PICK p, c : p = nested.who /\ c = nested.card
        OBVIOUS
      <3> QED
        BY <1>5, <2>1, <2>2, <3>1, PlayBacked DEF NestedPlay
    <2>3. CASE ~CanPlay(nested.who, nested.card)
      BY <1>5, <2>1, <2>3, SamePenalty DEF NestedPlay, cards, piles, PenaltyInv
    <2> QED
      BY <2>2, <2>3
  <1>6. CASE \/ (\E p \in Human : (\E a \in Offered : ProvideInput(p, a)) \/ LateInput(p))
             \/ BotAnswer \/ (\E p \in MayCallUno : CallUno(p)) \/ Over \/ UNCHANGED vars
    BY <1>6, SamePenalty DEF ProvideInput, LateInput, BotAnswer, CallUno, Over, vars, cards,
       piles, Handler, PenaltyInv
  <1>7. CASE Tick
    <2>1. CASE GiveUp
      BY <2>1, SamePenalty DEF GiveUp, cards, piles, PenaltyInv
    <2> QED
      BY <1>7, <2>1, TickPenalty DEF Tick
  <1>8. CASE \E p \in MayLeave : Leave(p)
    BY <1>8, SamePenalty DEF Leave, Rename, RemovePlayer, cards, piles, Handler, PenaltyInv
  <1>9. CASE \E p \in MayJoin : Join(p)
    BY <1>9
  <1>10. CASE \E p \in Human : \/ DrawCard(p) \/ LateInput(p)
                              \/ \E a \in Offered : ProvideInput(p, a)
    BY <1>3, <1>6, <1>10
  <1> QED
    BY <1>2, <1>4, <1>5, <1>6, <1>7, <1>8, <1>9, <1>10 DEF Next

\* The penalty that draw stacking accumulates never exceeds the draw cards of the value on
\* top that the discard pile holds: every card adds its own worth once, at once or with the
\* colour that is chosen for it, only the same draw card goes on a growing penalty, and as
\* long as there is one nobody draws without paying it, so that no reshuffle takes the cards
\* from under it.
THEOREM PenaltiesBacked ==
  ASSUME MayJoin = {}
  PROVE  Spec => []PenaltyBacked
  <1>1. Init => PenaltyInv
    <2> SUFFICES ASSUME Init PROVE PenaltyFree
      BY InitCards, InitInv, OneEffect DEF PenaltyInv, QueueInv, Queueing, Init
    <2> QED
      BY EmptySeq DEF Init, PenaltyFree
  <1>2. PenaltyInv /\ [Next]_vars => PenaltyInv'
    BY NextPenalty
  <1>3. PenaltyInv => PenaltyBacked
    <2> SUFFICES ASSUME PenaltyInv, pending_draws > 0
                 PROVE  /\ Mod("draw_stacking") /\ IsDraw(top_card)
                        /\ pending_draws <= Pile(discard_pile, top_card.value)
      BY DEF PenaltyBacked, Pile
    <2>1. PenaltyLies
      BY DEF PenaltyInv, PenaltyFree
    <2>2. /\ pending_draws \in Nat /\ discard_pile \in SUBSET Card
          /\ top_card.value \in {kDraw2, kJollyDraw4}
      BY <2>1 DEF PenaltyInv, CardInv, Inv, TypeOK, PenaltyLies, IsDraw
    <2>3. Pile(discard_pile, top_card.value) \in Nat
      BY <2>2, PileGrows
    <2> QED
      BY <2>1, <2>2, <2>3 DEF PenaltyLies
  <1> QED
    BY <1>1, <1>2, <1>3, PTL DEF Spec
=============================================================================
