----------------------------- MODULE MatchProofs -----------------------------
(***************************************************************************)
(* Theorems about the match engine, for every deck, table and mod list.    *)
(***************************************************************************)
EXTENDS MatchSafety, SequenceTheorems, FiniteSetTheorems, TLAPS

Asks(e) == e.kind \in {"color", "drawn", "swap"}

\* An effect that asks a question names the player it asks.
Addressed == {e \in Effect : Asks(e) => e.who \in Name}

\* The answer a is one that effect e can use.
Fits(e, a) ==
  \/ e.kind = "color" /\ a \in Colour
  \/ e.kind = "drawn" /\ a \in {0, 1}
  \/ e.kind = "swap"  /\ a \in Name

\* Tick has effects before it.
Ticking == phase \in {"tick", "overflow"}

\* What makes TypeOK and QuestionAtHead inductive: where the engine is, the
\* answer it holds and the head of the queue belong together.
EngineInv ==
  /\ status = "playing" => Len(players) >= 2
  /\ effect_queue \in Seq(Addressed)
  /\ IsWaiting => /\ effect_queue # <<>>
                  /\ provided_input = NoInput
                  /\ pending_player = Head(effect_queue).who
                  /\ pending_action = ActionOf(Head(effect_queue))
  /\ phase = "idle" /\ status = "playing" => /\ provided_input = NoInput
                                             /\ effect_queue # <<>> => IsWaiting
  /\ Ticking => /\ effect_queue # <<>>
                /\ provided_input # NoInput => Fits(Head(effect_queue), provided_input)
  /\ phase = "call" => provided_input = NoInput /\ ~IsWaiting

-----------------------------------------------------------------------------
\* The queue stays a queue of addressed effects under what the engine does to it.
LEMMA QueueOps ==
  ASSUME NEW q \in Seq(Addressed), NEW e \in Addressed
  PROVE  /\ Append(q, e) \in Seq(Addressed) /\ Append(q, e) # <<>>
         /\ <<e>> \o q \in Seq(Addressed) /\ <<e>> \o q # <<>>
         /\ Head(<<e>> \o q) = e
         /\ q # <<>> => Head(q) \in Addressed /\ Tail(q) \in Seq(Addressed)
  <1>1. Append(q, e) \in Seq(Addressed) /\ Append(q, e) # <<>>
    BY AppendProperties
  <1>2. q # <<>> => Head(q) \in Addressed /\ Tail(q) \in Seq(Addressed)
    BY HeadTailProperties
  <1>3. <<e>> \in Seq(Addressed) /\ <<e>> # <<>> /\ Head(<<e>>) = e /\ Len(<<e>>) = 1
    BY SMT
  <1>4. <<e>> \o q \in Seq(Addressed) /\ Len(<<e>> \o q) = 1 + Len(q)
    BY <1>3, ConcatProperties
  <1>5. <<e>> \o q # <<>>
    BY <1>4, SMT
  <1>6. Head(<<e>> \o q) = e
    BY <1>3, <1>5, <1>4, SMT
  <1> QED
    BY <1>1, <1>2, <1>4, <1>5, <1>6

LEMMA QueueConcat ==
  ASSUME NEW q \in Seq(Addressed), NEW r \in Seq(Addressed)
  PROVE  /\ q \o r \in Seq(Addressed)
         /\ r # <<>> => q \o r # <<>>
         /\ q # <<>> => Head(q \o r) = Head(q) /\ q \o r # <<>>
  BY SMT

LEMMA EffectTypes ==
  ASSUME NEW p \in Name, NEW n \in Nat, NEW c \in Card
  PROVE  /\ {Advance, Skipping, Reversing, PassingHands} \subseteq Addressed
         /\ {Drawing(p, n), Coloring(p, n), Swapping(p), Deciding(p, c)} \subseteq Addressed
  BY DEF Advance, Skipping, Reversing, PassingHands, Drawing, Coloring, Swapping,
         Deciding, NewEffect, Addressed, Asks, Effect, Kind

LEMMA BeginsTick ==
  ASSUME BeginTick, effect_queue' # <<>>
  PROVE  Ticking'
  BY DEF BeginTick, Ticking

\* Turning round the table stays at the table.
LEMMA AroundTable ==
  ASSUME NEW s \in Seq(Name), s # <<>>, NEW i \in Int
  PROVE  i % Len(s) \in 0 .. Len(s) - 1
  BY SMT

LEMMA CardValues == \A c \in Card : /\ c.type \in Colour \cup {kWhite}
                                    /\ c.value \in 0 .. 14
  BY CardAssumption DEF Value

-----------------------------------------------------------------------------
Inv == TypeOK /\ EngineInv

LEMMA SeatTypes ==
  ASSUME TypeOK
  PROVE  /\ Seated \subseteq Name
         /\ \A i \in 0 .. Len(players) - 1 : At(i) \in Name
         /\ CurrentPlayer \in Name
         /\ \A i \in Int : Around(i) \in 0 .. Len(players) - 1
         /\ \A i \in Int : NextPlayer(i) \in Name
  <1>1. Len(players) \in Nat \ {0} /\ DOMAIN players = 1 .. Len(players)
        /\ \A i \in 1 .. Len(players) : players[i] \in Name
    BY EmptySeq, LenProperties DEF TypeOK
  <1>2. Seated \subseteq Name
    BY <1>1 DEF Seated, Range
  <1>3. \A i \in 0 .. Len(players) - 1 : At(i) \in Name
    BY <1>1, SMT DEF At
  <1>4. CurrentPlayer \in Name
    BY <1>3 DEF CurrentPlayer, TypeOK
  <1>5. \A i \in Int : Around(i) \in 0 .. Len(players) - 1
    BY <1>1, SMT DEF Around
  <1>6. \A i \in Int : NextPlayer(i) \in Name
    BY <1>5, <1>3, SMT DEF NextPlayer, TypeOK
  <1> QED
    BY <1>2, <1>3, <1>4, <1>5, <1>6

\* A queue that is addressed is a queue of effects.
LEMMA AddressedQueue == Seq(Addressed) \subseteq Seq(Effect)
  <1>1. Addressed \subseteq Effect
    BY DEF Addressed
  <1> QED
    BY <1>1, SMT

LEMMA TakeTypes ==
  ASSUME TypeOK, NEW p \in Name, NEW S \in FromStock, Take(p, S)
  PROVE  /\ hand' \in [Name -> SUBSET Card]
         /\ draw_pile' \subseteq Card /\ discard_pile' \subseteq Card
         /\ top_card' \in discard_pile'
  BY DEF TypeOK, FromStock, Stock, Buried, Take

LEMMA YieldTypes == \A n : Yields(n) \subseteq FromStock
  BY DEF Yields

LEMMA DrawsTypes == \A p : Draws(p) \subseteq FromStock
  BY YieldTypes DEF Draws

\* A mod is listed some number of times, and its rules queue as many effects.
LEMMA CopiesCount ==
  ASSUME TypeOK, NEW m
  PROVE  /\ Copies(m) \in Nat
         /\ Mod(m) <=> Copies(m) > 0
  <1> DEFINE mods == settings.active_mods
             C    == {i \in DOMAIN mods : mods[i] = m}
  <1>1. mods \in Seq(ModName)
    <2>1. settings \in Setting
      BY MatchAssumption DEF TypeOK
    <2> QED
      BY <2>1 DEF Setting
  <1>2. DOMAIN mods = 1 .. Len(mods) /\ Len(mods) \in Nat
    BY <1>1, LenProperties
  <1>3. IsFiniteSet(C)
    <2>1. IsFiniteSet(1 .. Len(mods))
      BY <1>2, FS_Interval
    <2>2. C \subseteq 1 .. Len(mods)
      BY <1>2
    <2> QED
      BY <2>1, <2>2, FS_Subset
  <1>4. Cardinality(C) \in Nat /\ (Cardinality(C) = 0 <=> C = {})
    BY <1>3, FS_CardinalityType, FS_EmptySet
  <1> QED
    BY <1>4, SMT DEF Copies, Mod, HasMod

LEMMA Repeated ==
  ASSUME NEW S, NEW e \in S, NEW n \in Nat
  PROVE  LET q == [i \in 1 .. n |-> e]
         IN  q \in Seq(S) /\ Len(q) = n
  BY SMT

\* Whatever card is played, it queues addressed effects and the turn's end.
LEMMA QueuedTypes ==
  ASSUME TypeOK, NEW p \in Seated, NEW c \in Card, NEW announced
  PROVE  /\ SeatAfter(p, c) \in 0 .. Len(players) - 1
         /\ Queued(p, c, announced) \in Seq(Addressed)
         /\ Queued(p, c, announced) # <<>>
  <1> DEFINE seat == SeatAfter(p, c)
             next == NextPlayer(seat)
  <1>1. p \in Name
    BY SeatTypes
  <1>2. seat \in 0 .. Len(players) - 1
    <2>1. CASE p # CurrentPlayer /\ ReachesJumpIn(settings.active_mods, c)
      <3>1. \E i \in DOMAIN players : players[i] = p
        BY DEF Seated, Range
      <3>2. DOMAIN players = 1 .. Len(players) /\ Len(players) \in Nat
        BY LenProperties DEF TypeOK
      <3> QED
        BY <2>1, <3>1, <3>2, SMT DEF SeatAfter
    <2>2. CASE ~(p # CurrentPlayer /\ ReachesJumpIn(settings.active_mods, c))
      BY <2>2 DEF SeatAfter, TypeOK
    <2> QED
      BY <2>1, <2>2
  <1>3. next \in Name
    BY <1>2, SeatTypes
  <1> HIDE DEF seat, next
  <1>4. SevenZeroEffects(p, c) \in Seq(Addressed)
    <2>1. Copies("seven_zero") \in Nat /\ PassingHands \in Addressed /\ Swapping(p) \in Addressed
      BY <1>1, CopiesCount, EffectTypes
    <2> QED
      BY <2>1, Repeated, SMT DEF SevenZeroEffects
  <1>5. StandardEffects(p, c, next) \in Seq(Addressed)
    <2>1. {Skipping, Reversing, Drawing(next, 2), Drawing(next, 4), Coloring(p, 0)} \subseteq Addressed
      BY <1>1, <1>3, EffectTypes
    <2> QED
      BY <2>1, SMT DEF StandardEffects
  <1>6. <<Coloring(p, 4)>> \in Seq(Addressed) /\ <<>> \in Seq(Addressed)
    BY <1>1, EffectTypes, SMT
  <1>7. CardEffects(p, c, seat) \in Seq(Addressed)
    BY <1>4, <1>5, <1>6, QueueConcat DEF CardEffects, next
  <1>8. UnoPenalty(p, c, announced) \in Seq(Addressed)
    BY <1>1, EffectTypes, SMT DEF UnoPenalty
  <1>9. <<Advance>> \in Seq(Addressed) /\ <<Advance>> # <<>>
    <2>1. Advance \in Addressed
      BY <1>1, EffectTypes
    <2> QED
      BY <2>1, SMT
  <1>10. CardEffects(p, c, seat) \o UnoPenalty(p, c, announced) \in Seq(Addressed)
    BY <1>7, <1>8, QueueConcat
  <1>11. Queued(p, c, announced) \in Seq(Addressed) /\ Queued(p, c, announced) # <<>>
    BY <1>9, <1>10, QueueConcat DEF Queued, seat
  <1> QED
    BY <1>2, <1>11 DEF seat

\* What the body of PlayCard leaves behind.
LEMMA PlayTypes ==
  ASSUME Inv, NEW p \in Seated, NEW c \in hand[p],
         NEW announced, announced \subseteq Name, Play(p, c, announced)
  PROVE  /\ status' \in {status, "finished"} /\ winner' \in Name \cup {NoName}
         /\ UNCHANGED players
         /\ current_player_index' \in 0 .. Len(players) - 1
         /\ play_direction' = play_direction
         /\ hand' \in [Name -> SUBSET Card] /\ called_uno' \subseteq Name
         /\ draw_pile' \subseteq Card /\ discard_pile' \subseteq Card
         /\ top_card' \in discard_pile'
         /\ active_type' \in Colour \cup {kWhite}
         /\ pending_draws' \in Nat
         /\ effect_queue' \in Seq(Addressed) /\ effect_queue' # <<>>
  <1>1. p \in Name /\ c \in Card
    BY SeatTypes DEF Inv, TypeOK
  <1>2. SeatAfter(p, c) \in 0 .. Len(players) - 1
    BY <1>1, QueuedTypes DEF Inv
  <1>3. effect_queue' \in Seq(Addressed) /\ effect_queue' # <<>>
    BY <1>1, QueuedTypes, QueueConcat DEF Inv, EngineInv, Play
  <1>4. StackAdds(settings.active_mods, c) \in Nat
    BY SMT DEF StackAdds
  <1>5. hand' \in [Name -> SUBSET Card] /\ called_uno' \subseteq Name
    BY <1>1 DEF Inv, TypeOK, Play
  <1>6. active_type' \in Colour \cup {kWhite}
    BY <1>1, CardValues DEF Play
  <1>7. pending_draws' \in Nat
    BY <1>4, SMT DEF Play, Inv, TypeOK
  <1>8. status' \in {status, "finished"} /\ winner' \in Name \cup {NoName}
    BY <1>1 DEF Play, Inv, TypeOK
  <1>9. draw_pile' \subseteq Card /\ discard_pile' \subseteq Card /\ top_card' \in discard_pile'
    BY <1>1 DEF Play, Inv, TypeOK
  <1> QED
    BY <1>2, <1>3, <1>5, <1>6, <1>7, <1>8, <1>9 DEF Play

LEMMA PlayCardKeeps ==
  ASSUME Inv, NEW p \in Human, NEW c \in hand[p], PlayCard(p, c)
  PROVE  Inv'
  <1>1. p \in Seated /\ ~IsWaiting /\ phase = "idle" /\ provided_input = NoInput
    BY DEF PlayCard, CanPlay, Inv, EngineInv, Handler, Idle
  <1>2. called_uno \subseteq Name /\ Play(p, c, called_uno)
    BY DEF PlayCard, Inv, TypeOK
  <1>3. TypeOK'
    <2>1. effect_queue' \in Seq(Effect)
      BY <1>1, <1>2, PlayTypes, AddressedQueue
    <2> QED
      BY <1>1, <1>2, <2>1, PlayTypes, SMT
      DEF TypeOK, Inv, PlayCard, Handler, question, BeginTick
  <1>4. EngineInv'
    <2>1. Ticking'
      BY <1>1, <1>2, PlayTypes, BeginsTick DEF PlayCard
    <2> QED
      BY <1>1, <1>2, <2>1, PlayTypes, SMT DEF EngineInv, Inv, PlayCard, question, IsWaiting, Ticking
  <1> QED
    BY <1>3, <1>4 DEF Inv

\* DrawCard of the player who has the turn, by himself or by TakeBotTurn.
LEMMA DrawKeeps ==
  ASSUME Inv, Handler, ~IsWaiting, NEW p \in Name, Draw(p)
  PROVE  Inv'
  <1>1. phase = "idle" /\ provided_input = NoInput /\ effect_queue = <<>>
        /\ status = "playing" /\ UNCHANGED settings
    BY DEF Inv, EngineInv, Handler, Idle
  <1> DEFINE Drawn ==
        /\ hand' \in [Name -> SUBSET Card] /\ called_uno' \subseteq Name
        /\ draw_pile' \subseteq Card /\ discard_pile' \subseteq Card
        /\ top_card' \in discard_pile'
        /\ pending_draws' \in Nat
        /\ effect_queue' \in Seq(Addressed)
        /\ \/ Ticking' /\ effect_queue' # <<>> /\ nested' = nested
           \/ phase' = "call" /\ nested' \in [who : Name, card : Card]
  <1>2. Drawn
    <2>1. Advance \in Addressed /\ effect_queue \in Seq(Addressed)
      BY EffectTypes DEF Inv, EngineInv, Advance, NewEffect, Addressed, Asks, Effect, Kind
    <2>2. Append(effect_queue, Advance) \in Seq(Addressed) /\ Append(effect_queue, Advance) # <<>>
      BY <2>1, QueueOps
    <2>3. CASE DrawPenalty(p)
      <3>1. PICK S \in Yields(pending_draws) : Take(p, S)
        BY <2>3 DEF DrawPenalty
      <3>2. S \in FromStock
        BY YieldTypes
      <3> QED
        BY <2>2, <2>3, <3>1, <3>2, TakeTypes, BeginsTick, SMT DEF DrawPenalty, Inv, TypeOK
    <2>4. CASE DrawOne(p)
      <3>1. PICK S \in Draws(p) :
              /\ Take(p, S)
              /\ called_uno' = IF S = {} THEN called_uno ELSE called_uno \ {p}
              /\ \/ \E c \in S :
                      /\ Keeps(p, c)
                      /\ IF Mod("force_play")
                         THEN /\ nested' = [who |-> p, card |-> c]
                              /\ phase' = "call"
                              /\ UNCHANGED effect_queue
                         ELSE /\ effect_queue' = <<Deciding(p, c)>> \o effect_queue
                              /\ BeginTick
                              /\ UNCHANGED nested
                 \/ /\ \A c \in S : ~Keeps(p, c)
                    /\ effect_queue' = Append(effect_queue, Advance)
                    /\ BeginTick
                    /\ UNCHANGED nested
        BY <2>4 DEF DrawOne
      <3>2. S \in FromStock /\ S \subseteq Card
        BY DrawsTypes DEF FromStock, Stock, Buried, Inv, TypeOK
      <3>3. \A c \in S : /\ <<Deciding(p, c)>> \o effect_queue \in Seq(Addressed)
                         /\ <<Deciding(p, c)>> \o effect_queue # <<>>
        <4> TAKE c \in S
        <4>1. Deciding(p, c) \in Addressed
          BY <3>2, EffectTypes
        <4> QED
          BY <4>1, <2>1, QueueOps
      <3>4. hand' \in [Name -> SUBSET Card] /\ draw_pile' \subseteq Card
            /\ discard_pile' \subseteq Card /\ top_card' \in discard_pile'
        BY <3>1, <3>2, TakeTypes DEF Inv
      <3>5. called_uno' \subseteq Name /\ pending_draws' \in Nat
        BY <3>1, <2>4 DEF DrawOne, Inv, TypeOK
      <3>6. /\ effect_queue' \in Seq(Addressed)
            /\ \/ Ticking' /\ effect_queue' # <<>> /\ nested' = nested
               \/ phase' = "call" /\ nested' \in [who : Name, card : Card]
        <4>1. CASE \A c \in S : ~Keeps(p, c)
          BY <4>1, <3>1, <2>2, BeginsTick
        <4>2. CASE \E c \in S : Keeps(p, c)
          <5>1. PICK c \in S :
                  \/ effect_queue' = <<Deciding(p, c)>> \o effect_queue
                     /\ BeginTick /\ UNCHANGED nested
                  \/ nested' = [who |-> p, card |-> c]
                     /\ phase' = "call" /\ UNCHANGED effect_queue
            BY <4>2, <3>1
          <5>2. c \in Card
            BY <3>2
          <5>3. CASE effect_queue' = <<Deciding(p, c)>> \o effect_queue
                     /\ BeginTick /\ UNCHANGED nested
            <6>1. effect_queue' \in Seq(Addressed) /\ effect_queue' # <<>>
              BY <5>3, <3>3, Zenon
            <6> QED
              BY <6>1, <5>3, BeginsTick
          <5>4. CASE nested' = [who |-> p, card |-> c]
                     /\ phase' = "call" /\ UNCHANGED effect_queue
            <6>1. nested' \in [who : Name, card : Card]
              BY <5>4, <5>2
            <6> QED
              BY <6>1, <5>4, <2>1
          <5> QED
            BY <5>1, <5>3, <5>4
        <4> QED
          BY <4>1, <4>2
      <3> QED
        BY <3>4, <3>5, <3>6
    <2> QED
      BY <2>3, <2>4 DEF Draw
  <1>3. TypeOK'
    BY <1>1, <1>2, AddressedQueue, SMT DEF TypeOK, Inv, Draw, seats, question, Ticking
  <1>4. EngineInv'
    BY <1>1, <1>2, SMT DEF EngineInv, Inv, Draw, seats, question, IsWaiting, Ticking
  <1> QED
    BY <1>3, <1>4 DEF Inv

LEMMA BotMoveKeeps ==
  ASSUME Inv, BotMove
  PROVE  Inv'
  <1> DEFINE p == CurrentPlayer
             announced == IF Cardinality(hand[p]) <= 2 THEN called_uno \cup {p} ELSE called_uno
  <1>1. p \in Name /\ Handler /\ ~IsWaiting
    BY SeatTypes DEF BotMove, Inv
  <1>2. p \in Seated
    <2>1. current_player_index + 1 \in DOMAIN players
      BY LenProperties, SMT DEF Inv, TypeOK
    <2> QED
      BY <2>1 DEF Seated, Range, CurrentPlayer, At
  <1>3. announced \subseteq Name
    BY <1>1 DEF Inv, TypeOK
  <1>4. phase = "idle" /\ provided_input = NoInput /\ UNCHANGED settings
    BY <1>1 DEF Inv, EngineInv, Handler, Idle
  <1>5. CASE Draw(p)
    BY <1>1, <1>5, DrawKeeps
  <1>6. CASE \E c \in hand[p] : /\ Play(p, c, announced)
                                /\ BeginTick
                                /\ UNCHANGED <<question, provided_input, nested>>
    <2>1. PICK c \in hand[p] : /\ Play(p, c, announced)
                               /\ BeginTick
                               /\ UNCHANGED <<question, provided_input, nested>>
      BY <1>6
    <2> HIDE DEF p, announced
    <2>2. TypeOK'
      <3>1. effect_queue' \in Seq(Effect)
        BY <1>2, <1>3, <2>1, PlayTypes, AddressedQueue
      <3> QED
        BY <1>2, <1>3, <1>4, <2>1, <3>1, PlayTypes, SMT DEF TypeOK, Inv, question, BeginTick
    <2>3. EngineInv'
      <3>1. Ticking'
        BY <1>2, <1>3, <2>1, PlayTypes, BeginsTick
      <3> QED
        BY <1>1, <1>2, <1>3, <1>4, <2>1, <3>1, PlayTypes, SMT
        DEF EngineInv, Inv, question, IsWaiting, Ticking
    <2> QED
      BY <2>2, <2>3 DEF Inv
  <1> QED
    BY <1>5, <1>6 DEF BotMove

LEMMA NestedPlayKeeps ==
  ASSUME Inv, NestedPlay
  PROVE  Inv'
  <1>1. phase = "call" /\ provided_input = NoInput /\ ~IsWaiting /\ UNCHANGED settings
        /\ nested' = NoCall
    BY DEF NestedPlay, Inv, EngineInv
  <1>2. NoCall \in [who : Name \cup {NoName}, card : Card \cup {NoCard}]
    BY DEF NoCall
  <1>3. CASE CanPlay(nested.who, nested.card)
    <2> DEFINE p == nested.who
               c == nested.card
    <2>1. p \in Seated /\ c \in hand[p] /\ Play(p, c, called_uno) /\ called_uno \subseteq Name
          /\ (phase' = "tick" \/ BeginTick)
      BY <1>3 DEF NestedPlay, CanPlay, Inv, TypeOK
    <2> HIDE DEF p, c
    <2>4. Ticking'
      BY <2>1, PlayTypes, BeginsTick DEF Ticking
    <2>2. TypeOK'
      <3>1. effect_queue' \in Seq(Effect)
        BY <2>1, PlayTypes, AddressedQueue
      <3> QED
        BY <1>1, <1>2, <2>1, <2>4, <3>1, PlayTypes, SMT DEF TypeOK, Inv, question, Ticking, NestedPlay
    <2>3. EngineInv'
      BY <1>1, <2>1, <2>4, PlayTypes, SMT DEF EngineInv, Inv, NestedPlay, question, IsWaiting, Ticking
    <2> QED
      BY <2>2, <2>3 DEF Inv
  <1>4. CASE ~CanPlay(nested.who, nested.card)
    BY <1>1, <1>2, <1>4, SMT
    DEF NestedPlay, Inv, TypeOK, EngineInv, question, seats, cards, piles, IsWaiting, Ticking
  <1> QED
    BY <1>3, <1>4

-----------------------------------------------------------------------------
\* While a question is open its action tells the kind of the head.
LEMMA AskedKind ==
  ASSUME Inv, IsWaiting
  PROVE  LET e == Head(effect_queue)
         IN  \/ e.kind = "color" /\ pending_action = "ChooseType"
             \/ e.kind = "drawn" /\ pending_action = "PlayDrawn"
             \/ e.kind = "swap"  /\ pending_action = "ChooseTarget"
  BY SMT DEF Inv, TypeOK, EngineInv, ActionOf, Action

LEMMA AnswersFit ==
  ASSUME Inv, IsWaiting
  PROVE  \A a \in Offered \cup BotAnswers : Fits(Head(effect_queue), a)
  <1>1. MostHeld \subseteq Colour
    BY DEF MostHeld
  <1>2. Leading \subseteq Name
    <2>1. \A i \in DOMAIN players : players[i] \in Name
      BY SeatTypes DEF Inv, Seated, Range
    <2> QED
      BY <2>1 DEF Leading
  <1>3. pending_input_context \subseteq Name
    BY DEF Inv, TypeOK
  <1> QED
    BY <1>1, <1>2, <1>3, AskedKind, SMT DEF Offered, BotAnswers, Fits

\* ProvideInput answers the question at the head, whoever the answer comes from.
LEMMA AnswerKeeps ==
  ASSUME Inv, Handler, IsWaiting, NEW a \in Offered \cup BotAnswers, Answer(a), BeginTick,
         UNCHANGED <<status, winner, seats, cards, active_type, pending_draws, effect_queue, nested>>
  PROVE  Inv'
  <1>1. Fits(Head(effect_queue), a) /\ effect_queue # <<>> /\ UNCHANGED settings
    BY AnswersFit DEF Inv, EngineInv, Handler
  <1>2. a \in Colour \cup {0, 1} \cup Name
    BY <1>1 DEF Fits
  <1>3. Ticking'
    BY <1>1, BeginsTick
  <1>4. TypeOK'
    BY <1>1, <1>2, <1>3, SMT DEF Inv, TypeOK, Answer, seats, cards, piles, Ticking
  <1>5. EngineInv'
    BY <1>1, <1>3, SMT DEF Inv, EngineInv, Answer, seats, IsWaiting, Fits, Ticking
  <1> QED
    BY <1>4, <1>5 DEF Inv

LEMMA ProvideInputKeeps ==
  ASSUME Inv, NEW p \in Human, NEW a \in Offered, ProvideInput(p, a)
  PROVE  Inv'
  BY AnswerKeeps DEF ProvideInput

LEMMA BotAnswerKeeps ==
  ASSUME Inv, BotAnswer
  PROVE  Inv'
  BY AnswerKeeps DEF BotAnswer

LEMMA LateInputKeeps ==
  ASSUME Inv, NEW p \in Human, LateInput(p)
  PROVE  Inv'
  BY SMT DEF Inv, TypeOK, EngineInv, LateInput, Handler, Idle, seats, cards, piles, question,
             IsWaiting, BeginTick, Ticking

LEMMA CallUnoKeeps ==
  ASSUME Inv, NEW p \in Human, CallUno(p)
  PROVE  Inv'
  BY SMT DEF Inv, TypeOK, EngineInv, CallUno, Handler, Idle, seats, piles, question,
             IsWaiting, Name, Ticking

-----------------------------------------------------------------------------
(***************************************************************************)
(* Tick: every effect leaves the queue, or asks its question and stays.    *)
(***************************************************************************)
LEMMA ResolvingHead ==
  ASSUME Inv, NEW k \in Kind, Resolving(k)
  PROVE  /\ phase = "tick" /\ effect_queue # <<>> /\ Head(effect_queue).kind = k
         /\ Head(effect_queue) \in Addressed
         /\ Tail(effect_queue) \in Seq(Addressed)
         /\ UNCHANGED <<settings, winner>>
  BY QueueOps DEF Resolving, Inv, EngineInv, Ticking

\* An effect that asks nothing is resolved with no question open and no answer.
LEMMA SilentHead ==
  ASSUME Inv, NEW k \in Kind \ {"color", "drawn", "swap"}, Resolving(k)
  PROVE  ~IsWaiting /\ provided_input = NoInput
  BY AskedKind, ResolvingHead, SMT DEF Inv, EngineInv, Fits, Ticking

\* Back to the loop's condition: the engine is in place for any queue.
LEMMA ContinueKeeps ==
  ASSUME Inv, NEW q \in Seq(Addressed), Continue(q), ~IsWaiting', provided_input' = NoInput,
         UNCHANGED players
  PROVE  /\ EngineInv'
         /\ effect_queue' \in Seq(Effect) /\ phase' \in {"idle", "tick"}
         /\ UNCHANGED <<status, nested>>
  BY AddressedQueue, SMT DEF Continue, Inv, EngineInv, Fits, Ticking

LEMMA GiveUpKeeps ==
  ASSUME Inv, GiveUp
  PROVE  Inv'
  BY SMT DEF Inv, TypeOK, EngineInv, GiveUp, seats, cards, piles, question, IsWaiting, Ticking

LEMMA AdvanceTurnKeeps ==
  ASSUME Inv, AdvanceTurn
  PROVE  Inv'
  <1>1. ~IsWaiting /\ provided_input = NoInput
    BY SilentHead DEF AdvanceTurn, Kind
  <1>2. Tail(effect_queue) \in Seq(Addressed) /\ UNCHANGED <<settings, winner>>
    BY ResolvingHead DEF AdvanceTurn, Kind
  <1>3. ~IsWaiting' /\ provided_input' = NoInput /\ UNCHANGED players
    BY <1>1 DEF AdvanceTurn, question, IsWaiting
  <1>4. /\ EngineInv' /\ effect_queue' \in Seq(Effect) /\ phase' \in {"idle", "tick"}
        /\ UNCHANGED <<status, nested>>
    BY <1>2, <1>3, ContinueKeeps DEF AdvanceTurn
  <1>5. current_player_index' \in 0 .. Len(players) - 1
    <2>1. current_player_index + play_direction \in Int
      BY SMT DEF Inv, TypeOK
    <2> QED
      BY <2>1, SeatTypes DEF AdvanceTurn, Inv
  <1>6. TypeOK'
    BY <1>2, <1>3, <1>4, <1>5, SMT DEF Inv, TypeOK, AdvanceTurn, cards, piles, question
  <1> QED
    BY <1>4, <1>6 DEF Inv

\* Putting an Advance before the rest, as Skip and Reverse do.
LEMMA AdvanceFirst ==
  ASSUME NEW q \in Seq(Addressed)
  PROVE  <<Advance>> \o q \in Seq(Addressed) /\ Append(q, Advance) \in Seq(Addressed)
         /\ Append(q, Advance) # <<>>
  <1>1. Advance \in Addressed
    BY DEF Advance, NewEffect, Addressed, Asks, Effect, Kind
  <1> QED
    BY <1>1, QueueOps

LEMMA DrawCardsKeeps ==
  ASSUME Inv, DrawCards
  PROVE  Inv'
  <1> DEFINE e == Head(effect_queue)
  <1>1. ~IsWaiting /\ provided_input = NoInput
    BY SilentHead DEF DrawCards, Kind
  <1>2. Tail(effect_queue) \in Seq(Addressed) /\ UNCHANGED <<settings, winner>>
    BY ResolvingHead DEF DrawCards, Kind
  <1>3. ~IsWaiting' /\ provided_input' = NoInput /\ UNCHANGED players
    BY <1>1 DEF DrawCards, question, IsWaiting, seats
  <1>4. /\ EngineInv' /\ effect_queue' \in Seq(Effect) /\ phase' \in {"idle", "tick"}
        /\ UNCHANGED <<status, nested>>
    BY <1>2, <1>3, ContinueKeeps DEF DrawCards
  <1>5. /\ hand' \in [Name -> SUBSET Card] /\ called_uno' \subseteq Name
        /\ draw_pile' \subseteq Card /\ discard_pile' \subseteq Card /\ top_card' \in discard_pile'
    <2>1. CASE e.who \in Seated
      <3>1. PICK S \in Yields(e.count) : Take(e.who, S)
        BY <2>1 DEF DrawCards
      <3>2. e.who \in Name /\ S \in FromStock
        BY <2>1, SeatTypes, YieldTypes DEF Inv
      <3> QED
        BY <2>1, <3>1, <3>2, TakeTypes DEF DrawCards, Inv, TypeOK
    <2>2. CASE e.who \notin Seated
      BY <2>2 DEF DrawCards, cards, piles, Inv, TypeOK
    <2> QED
      BY <2>1, <2>2
  <1> HIDE DEF e
  <1>6. TypeOK'
    BY <1>2, <1>3, <1>4, <1>5, SMT DEF Inv, TypeOK, DrawCards, seats, question
  <1> QED
    BY <1>4, <1>6 DEF Inv

LEMMA SkipTurnKeeps ==
  ASSUME Inv, SkipTurn
  PROVE  Inv'
  <1>1. ~IsWaiting /\ provided_input = NoInput
    BY SilentHead DEF SkipTurn, Kind
  <1>2. Tail(effect_queue) \in Seq(Addressed) /\ UNCHANGED <<settings, winner>>
    BY ResolvingHead DEF SkipTurn, Kind
  <1>3. ~IsWaiting' /\ provided_input' = NoInput /\ UNCHANGED players
    BY <1>1 DEF SkipTurn, question, IsWaiting, seats
  <1>4. /\ EngineInv' /\ effect_queue' \in Seq(Effect) /\ phase' \in {"idle", "tick"}
        /\ UNCHANGED <<status, nested>>
    BY <1>2, <1>3, AdvanceFirst, ContinueKeeps DEF SkipTurn
  <1>5. TypeOK'
    BY <1>2, <1>3, <1>4, SMT DEF Inv, TypeOK, SkipTurn, seats, cards, piles, question
  <1> QED
    BY <1>4, <1>5 DEF Inv

LEMMA ReverseOrderKeeps ==
  ASSUME Inv, ReverseOrder
  PROVE  Inv'
  <1>1. ~IsWaiting /\ provided_input = NoInput
    BY SilentHead DEF ReverseOrder, Kind
  <1>2. Tail(effect_queue) \in Seq(Addressed) /\ UNCHANGED <<settings, winner>>
    BY ResolvingHead DEF ReverseOrder, Kind
  <1>3. ~IsWaiting' /\ provided_input' = NoInput /\ UNCHANGED players
    BY <1>1 DEF ReverseOrder, question, IsWaiting
  <1>4. /\ EngineInv' /\ effect_queue' \in Seq(Effect) /\ phase' \in {"idle", "tick"}
        /\ UNCHANGED <<status, nested>>
    BY <1>2, <1>3, AdvanceFirst, ContinueKeeps DEF ReverseOrder
  <1>5. TypeOK'
    BY <1>2, <1>3, <1>4, SMT DEF Inv, TypeOK, ReverseOrder, cards, piles, question
  <1> QED
    BY <1>4, <1>5 DEF Inv

\* The effect asks the player it names, unless an answer is there already.
LEMMA AskKeeps ==
  ASSUME Inv, phase = "tick", provided_input' = NoInput, UNCHANGED players,
         NEW context, Asks(Head(effect_queue)),
         Ask(Head(effect_queue).who, ActionOf(Head(effect_queue)), context)
  PROVE  /\ EngineInv'
         /\ pending_player' \in Name /\ pending_action' \in Action
         /\ pending_input_context' = context /\ phase' = "idle"
         /\ UNCHANGED <<status, nested, effect_queue>>
  <1>1. Head(effect_queue) \in Addressed /\ effect_queue # <<>>
    BY QueueOps DEF Inv, EngineInv, Ticking
  <1>2. Head(effect_queue).who \in Name
    BY <1>1 DEF Addressed
  <1>3. ActionOf(Head(effect_queue)) \in Action
    BY SMT DEF ActionOf, Action, Asks
  <1>4. Head(effect_queue).who # NoName
    BY <1>2, MatchAssumption
  <1>5. EngineInv'
    BY <1>1, <1>3, <1>4, SMT DEF Inv, EngineInv, Ask, IsWaiting, Ticking
  <1> QED
    BY <1>2, <1>3, <1>5 DEF Ask

LEMMA ChooseColorKeeps ==
  ASSUME Inv, ChooseColor
  PROVE  Inv'
  <1> DEFINE e == Head(effect_queue)
  <1>1. /\ phase = "tick" /\ e.kind = "color" /\ e \in Addressed
        /\ Tail(effect_queue) \in Seq(Addressed)
        /\ UNCHANGED <<settings, winner>> /\ UNCHANGED seats /\ UNCHANGED cards
    BY ResolvingHead DEF ChooseColor, Kind
  <1>2. e.count \in Nat
    BY <1>1 DEF Addressed, Effect
  <1>3. CASE /\ provided_input # NoInput
             /\ active_type' = provided_input
             /\ provided_input' = NoInput
             /\ pending_draws' = pending_draws + e.count
             /\ Continue(Tail(effect_queue))
             /\ UNCHANGED question
    <2>1. provided_input \in Colour /\ ~IsWaiting
      BY <1>1, <1>3, SMT DEF Inv, EngineInv, Fits, Ticking
    <2>2. ~IsWaiting' /\ UNCHANGED players
      BY <1>1, <1>3, <2>1 DEF question, IsWaiting, seats
    <2>3. /\ EngineInv' /\ effect_queue' \in Seq(Effect) /\ phase' \in {"idle", "tick"}
          /\ UNCHANGED <<status, nested>>
      BY <1>1, <1>3, <2>2, ContinueKeeps
    <2> HIDE DEF e
    <2>4. TypeOK'
      BY <1>1, <1>2, <1>3, <2>1, <2>3, SMT DEF Inv, TypeOK, seats, cards, piles, question
    <2> QED
      BY <2>3, <2>4 DEF Inv
  <1>4. CASE /\ provided_input = NoInput
             /\ Ask(e.who, "ChooseType", {})
             /\ UNCHANGED <<active_type, pending_draws, provided_input>>
    <2>1. ActionOf(e) = "ChooseType" /\ Asks(e)
      BY <1>1, SMT DEF ActionOf, Asks
    <2>2. /\ EngineInv' /\ pending_player' \in Name /\ pending_action' \in Action
          /\ pending_input_context' = {} /\ phase' = "idle"
          /\ UNCHANGED <<status, nested, effect_queue>>
      BY <1>1, <1>4, <2>1, AskKeeps DEF seats
    <2>3. TypeOK'
      BY <1>1, <1>4, <2>2, SMT DEF Inv, TypeOK, seats, cards, piles
    <2> QED
      BY <2>2, <2>3 DEF Inv
  <1> QED
    BY <1>3, <1>4 DEF ChooseColor

LEMMA DecideDrawnCardKeeps ==
  ASSUME Inv, DecideDrawnCard
  PROVE  Inv'
  <1> DEFINE e == Head(effect_queue)
  <1>1. /\ phase = "tick" /\ e.kind = "drawn" /\ e \in Addressed
        /\ Tail(effect_queue) \in Seq(Addressed)
        /\ UNCHANGED <<settings, winner, active_type, pending_draws>>
        /\ UNCHANGED seats /\ UNCHANGED cards
    BY ResolvingHead DEF DecideDrawnCard, Kind
  <1>2. e.who \in Name /\ e.card \in Card \cup {NoCard}
    BY <1>1 DEF Addressed, Effect, Asks
  <1>3. CASE /\ provided_input = 0
             /\ effect_queue' = Tail(effect_queue)
             /\ nested' = [who |-> e.who, card |-> e.card]
             /\ phase' = "call"
             /\ provided_input' = NoInput
             /\ UNCHANGED <<status, question>>
    <2>1. provided_input # NoInput
      BY <1>3, MatchAssumption
    <2>2. ~IsWaiting
      BY <2>1 DEF Inv, EngineInv
    <2>3. effect_queue' \in Seq(Effect)
      BY <1>1, <1>3, AddressedQueue
    <2>4. nested' \in [who : Name \cup {NoName}, card : Card \cup {NoCard}]
      BY <1>2, <1>3
    <2> HIDE DEF e
    <2>5. TypeOK'
      BY <1>1, <1>3, <2>3, <2>4, SMT DEF Inv, TypeOK, seats, cards, piles, question
    <2>6. EngineInv'
      BY <1>1, <1>3, <2>2, SMT DEF Inv, EngineInv, seats, question, IsWaiting, Ticking
    <2> QED
      BY <2>5, <2>6 DEF Inv
  <1>4. CASE /\ provided_input \notin {0, NoInput}
             /\ provided_input' = NoInput
             /\ Continue(Append(Tail(effect_queue), Advance))
             /\ UNCHANGED question
    <2>1. ~IsWaiting
      BY <1>4 DEF Inv, EngineInv
    <2>2. ~IsWaiting' /\ UNCHANGED players
      BY <1>1, <1>4, <2>1 DEF question, IsWaiting, seats
    <2>3. Append(Tail(effect_queue), Advance) \in Seq(Addressed)
      BY <1>1, AdvanceFirst
    <2>4. /\ EngineInv' /\ effect_queue' \in Seq(Effect) /\ phase' \in {"idle", "tick"}
          /\ UNCHANGED <<status, nested>>
      BY <1>4, <2>2, <2>3, ContinueKeeps
    <2> HIDE DEF e
    <2>5. TypeOK'
      BY <1>1, <1>4, <2>4, SMT DEF Inv, TypeOK, seats, cards, piles, question
    <2> QED
      BY <2>4, <2>5 DEF Inv
  <1>5. CASE /\ provided_input = NoInput
             /\ Ask(e.who, "PlayDrawn", {})
             /\ UNCHANGED provided_input
    <2>1. ActionOf(e) = "PlayDrawn" /\ Asks(e)
      BY <1>1, SMT DEF ActionOf, Asks
    <2>2. /\ EngineInv' /\ pending_player' \in Name /\ pending_action' \in Action
          /\ pending_input_context' = {} /\ phase' = "idle"
          /\ UNCHANGED <<status, nested, effect_queue>>
      BY <1>1, <1>5, <2>1, AskKeeps DEF seats
    <2>3. TypeOK'
      BY <1>1, <1>5, <2>2, SMT DEF Inv, TypeOK, seats, cards, piles
    <2> QED
      BY <2>2, <2>3 DEF Inv
  <1> QED
    BY <1>3, <1>4, <1>5 DEF DecideDrawnCard

LEMMA DecideSwapTargetKeeps ==
  ASSUME Inv, DecideSwapTarget
  PROVE  Inv'
  <1> DEFINE p == Head(effect_queue).who
  <1>1. /\ phase = "tick" /\ Head(effect_queue).kind = "swap"
        /\ Tail(effect_queue) \in Seq(Addressed)
        /\ UNCHANGED <<settings, winner, active_type, pending_draws>>
        /\ UNCHANGED seats /\ UNCHANGED piles /\ provided_input' = NoInput
    BY ResolvingHead DEF DecideSwapTarget, Kind
  <1>2. UNCHANGED players /\ Seated \subseteq Name
    BY <1>1, SeatTypes DEF seats, Inv
  <1>3. CASE /\ p \in Seated /\ provided_input \in Seated \ {p}
             /\ SwapHands(p, provided_input)
             /\ Continue(Tail(effect_queue))
             /\ UNCHANGED question
    <2>1. p \in Name /\ provided_input \in Name /\ provided_input # NoInput
      BY <1>2, <1>3, MatchAssumption
    <2>2. ~IsWaiting
      BY <2>1 DEF Inv, EngineInv
    <2>3. ~IsWaiting'
      BY <1>3, <2>2 DEF question, IsWaiting
    <2>4. /\ EngineInv' /\ effect_queue' \in Seq(Effect) /\ phase' \in {"idle", "tick"}
          /\ UNCHANGED <<status, nested>>
      BY <1>1, <1>2, <1>3, <2>3, ContinueKeeps
    <2>5. hand' \in [Name -> SUBSET Card] /\ called_uno' \subseteq Name
      BY <1>3, <2>1 DEF SwapHands, Inv, TypeOK
    <2> HIDE DEF p
    <2>6. TypeOK'
      BY <1>1, <1>3, <2>4, <2>5, SMT DEF Inv, TypeOK, seats, piles, question
    <2> QED
      BY <2>4, <2>6 DEF Inv
  <1>4. CASE /\ Ask(p, "ChooseTarget", Seated \ {p})
             /\ UNCHANGED <<hand, called_uno>>
    <2>1. ActionOf(Head(effect_queue)) = "ChooseTarget" /\ Asks(Head(effect_queue))
      BY <1>1, SMT DEF ActionOf, Asks
    <2>2. /\ EngineInv' /\ pending_player' \in Name /\ pending_action' \in Action
          /\ pending_input_context' = Seated \ {p} /\ phase' = "idle"
          /\ UNCHANGED <<status, nested, effect_queue>>
      BY <1>1, <1>2, <1>4, <2>1, AskKeeps
    <2>3. TypeOK'
      BY <1>1, <1>2, <1>4, <2>2, SMT DEF Inv, TypeOK, seats, piles
    <2> QED
      BY <2>2, <2>3 DEF Inv
  <1> QED
    BY <1>1, <1>3, <1>4 DEF DecideSwapTarget

LEMMA PassHandsKeeps ==
  ASSUME Inv, PassHands
  PROVE  Inv'
  <1> DEFINE giver(j) == players[Around(j - 1 - play_direction) + 1]
             seat(q)  == CHOOSE j \in DOMAIN players : players[j] = q
  <1>1. ~IsWaiting /\ provided_input = NoInput
    BY SilentHead DEF PassHands, Kind
  <1>2. Tail(effect_queue) \in Seq(Addressed) /\ UNCHANGED <<settings, winner>>
    BY ResolvingHead DEF PassHands, Kind
  <1>3. ~IsWaiting' /\ provided_input' = NoInput /\ UNCHANGED players
    BY <1>1 DEF PassHands, question, IsWaiting, seats
  <1>4. /\ EngineInv' /\ effect_queue' \in Seq(Effect) /\ phase' \in {"idle", "tick"}
        /\ UNCHANGED <<status, nested>>
    BY <1>2, <1>3, ContinueKeeps DEF PassHands
  <1>5. \A q \in Seated : giver(seat(q)) \in Name
    <2> TAKE q \in Seated
    <2>1. seat(q) \in DOMAIN players
      BY DEF Seated, Range
    <2>2. seat(q) - 1 - play_direction \in Int
      BY <2>1, LenProperties, SMT DEF Inv, TypeOK
    <2>3. Around(seat(q) - 1 - play_direction) \in 0 .. Len(players) - 1
      BY <2>2, SeatTypes DEF Inv
    <2> QED
      BY <2>3, SeatTypes DEF At, Inv
  <1>6. hand' \in [Name -> SUBSET Card] /\ called_uno' \subseteq Name
    BY <1>5, SeatTypes DEF PassHands, Inv, TypeOK
  <1>7. TypeOK'
    BY <1>2, <1>3, <1>4, <1>6, SMT DEF Inv, TypeOK, PassHands, seats, piles, question
  <1> QED
    BY <1>4, <1>7 DEF Inv

-----------------------------------------------------------------------------
(***************************************************************************)
(* The lobby's changes of the table.                                       *)
(***************************************************************************)
\* What every change of the table leaves alone, between two handlers.
LEMMA TableChange ==
  ASSUME Inv, Handler,
         UNCHANGED <<winner, play_direction, active_type, pending_draws, effect_queue,
                     question, provided_input, phase, nested>>,
         players' \in Seq(Name), players' # <<>>,
         current_player_index' \in 0 .. Len(players') - 1,
         status' \in {"playing", "aborted"}, status' = "playing" => Len(players') >= 2,
         hand' \in [Name -> SUBSET Card], called_uno' \subseteq Name,
         draw_pile' \subseteq Card, discard_pile' \subseteq Card, top_card' \in discard_pile'
  PROVE  Inv'
  <1>1. TypeOK'
    BY SMT DEF Inv, TypeOK, Handler, question
  <1>2. EngineInv'
    BY SMT DEF Inv, EngineInv, Handler, Idle, question, IsWaiting, Ticking
  <1> QED
    BY <1>1, <1>2 DEF Inv

LEMMA RenameTypes ==
  ASSUME Inv, NEW old \in Name, NEW new \in Name, Rename(old, new)
  PROVE  /\ players' \in Seq(Name) /\ Len(players') = Len(players)
         /\ hand' \in [Name -> SUBSET Card] /\ called_uno' \subseteq Name
         /\ UNCHANGED <<current_player_index, draw_pile, discard_pile, top_card>>
  <1>1. DOMAIN players = 1 .. Len(players) /\ Len(players) \in Nat
        /\ \A i \in 1 .. Len(players) : players[i] \in Name
    BY LenProperties DEF Inv, TypeOK
  <1>2. players' = [i \in 1 .. Len(players) |-> IF players[i] = old THEN new ELSE players[i]]
    BY <1>1 DEF Rename
  <1>3. players' \in Seq(Name) /\ Len(players') = Len(players)
    BY <1>1, <1>2, SMT
  <1>4. hand' \in [Name -> SUBSET Card] /\ called_uno' \subseteq Name
    BY DEF Rename, Inv, TypeOK
  <1> QED
    BY <1>3, <1>4 DEF Rename, piles

LEMMA LeaveKeeps ==
  ASSUME Inv, NEW p \in Name, Leave(p)
  PROVE  Inv'
  <1>1. /\ Handler /\ p \in Name
        /\ UNCHANGED <<winner, play_direction, active_type, pending_draws, effect_queue,
                       question, provided_input, phase, nested>>
    BY DEF Leave, seats
  <1>2. /\ status = "playing" /\ players \in Seq(Name) /\ Len(players) \in Nat
        /\ Len(players) >= 2 /\ DOMAIN players = 1 .. Len(players)
        /\ current_player_index \in 0 .. Len(players) - 1
    BY <1>1, LenProperties DEF Handler, Idle, Inv, EngineInv, TypeOK
  <1>3. status' \in {"playing", "aborted"} /\ (status' = "playing" => Len(players') >= 2)
    BY <1>2 DEF Leave, GoesOn
  <1>6. CASE UNCHANGED <<seats, cards>>
    <2>1. /\ UNCHANGED <<players, current_player_index, hand, called_uno>>
          /\ UNCHANGED <<draw_pile, discard_pile, top_card>>
      BY <1>6 DEF seats, cards, piles
    <2> QED
      BY <1>1, <1>2, <1>3, <2>1, TableChange DEF Inv, TypeOK
  <1>4. CASE \E b \in BotName \ Seated : Rename(p, b)
    <2>1. PICK b \in BotName \ Seated : Rename(p, b)
      BY <1>4
    <2>2. b \in Name
      BY DEF Name
    <2>3. /\ players' \in Seq(Name) /\ Len(players') = Len(players)
          /\ hand' \in [Name -> SUBSET Card] /\ called_uno' \subseteq Name
          /\ UNCHANGED <<current_player_index, draw_pile, discard_pile, top_card>>
      BY <1>1, <2>1, <2>2, RenameTypes
    <2>4. players' # <<>>
      BY <1>2, <2>3, SMT
    <2> QED
      BY <1>1, <1>2, <1>3, <2>3, <2>4, TableChange DEF Inv, TypeOK
  <1>5. CASE RemovePlayer(p)
    <2>1. PICK i \in DOMAIN players :
             /\ players[i] = p
             /\ players' = RemoveAt(players, i)
             /\ current_player_index' = SeatAfterRemoval(i - 1, Len(players) - 1)
      BY <1>5 DEF RemovePlayer
    <2>2. /\ SubSeq(players, 1, i - 1) \in Seq(Name) /\ Len(SubSeq(players, 1, i - 1)) = i - 1
          /\ SubSeq(players, i + 1, Len(players)) \in Seq(Name)
          /\ Len(SubSeq(players, i + 1, Len(players))) = Len(players) - i
      BY <1>2, <2>1, SubSeqProperties, SMT
    <2>3. players' \in Seq(Name) /\ Len(players') = Len(players) - 1
      <3>1. players' = SubSeq(players, 1, i - 1) \o SubSeq(players, i + 1, Len(players))
        BY <2>1 DEF RemoveAt
      <3>2. i \in Nat
        BY <1>2
      <3> QED
        BY <1>2, <2>2, <3>1, <3>2, ConcatProperties, SMT
    <2>4. players' # <<>>
      BY <1>2, <2>3, SMT
    <2>5. current_player_index' \in 0 .. Len(players') - 1
      BY <1>2, <2>1, <2>3, SMT DEF SeatAfterRemoval
    <2>6. status' \in {"playing", "aborted"} /\ (status' = "playing" => Len(players') >= 2)
      BY <1>3, <2>3
    <2>7. /\ hand' \in [Name -> SUBSET Card] /\ called_uno' \subseteq Name
          /\ draw_pile' \subseteq Card /\ discard_pile' \subseteq Card
          /\ top_card' \in discard_pile'
      BY <1>1, <1>5 DEF RemovePlayer, Inv, TypeOK
    <2> QED
      BY <1>1, <2>3, <2>4, <2>5, <2>6, <2>7, TableChange
  <1> QED
    BY <1>4, <1>5, <1>6 DEF Leave

LEMMA JoinKeeps ==
  ASSUME Inv, NEW p \in Human, Join(p)
  PROVE  Inv'
  <1>1. /\ Handler /\ p \in Name
        /\ UNCHANGED <<status, winner, play_direction, active_type, pending_draws, effect_queue,
                       question, provided_input, phase, nested>>
    BY DEF Join, Name
  <1>2. /\ status = "playing" /\ players \in Seq(Name) /\ Len(players) \in Nat
        /\ Len(players) >= 2 /\ DOMAIN players = 1 .. Len(players)
        /\ current_player_index \in 0 .. Len(players) - 1
    BY <1>1, LenProperties DEF Handler, Idle, Inv, EngineInv, TypeOK
  <1>3. CASE \E i \in DOMAIN players : Rename(players[i], p)
    <2>1. PICK i \in DOMAIN players : Rename(players[i], p)
      BY <1>3
    <2>2. players[i] \in Name
      BY <1>2
    <2>3. /\ players' \in Seq(Name) /\ Len(players') = Len(players)
          /\ hand' \in [Name -> SUBSET Card] /\ called_uno' \subseteq Name
          /\ UNCHANGED <<current_player_index, draw_pile, discard_pile, top_card>>
      BY <1>1, <2>1, <2>2, RenameTypes
    <2>4. players' # <<>>
      BY <1>2, <2>3, SMT
    <2> QED
      BY <1>1, <1>2, <2>3, <2>4, TableChange DEF Inv, TypeOK
  <1>4. CASE AddPlayer(p)
    <2>1. PICK S \in Yields(settings.starting_cards) : Take(p, S)
      BY <1>4 DEF AddPlayer
    <2>2. S \in FromStock
      BY YieldTypes
    <2>3. /\ hand' \in [Name -> SUBSET Card] /\ draw_pile' \subseteq Card
          /\ discard_pile' \subseteq Card /\ top_card' \in discard_pile'
      BY <1>1, <2>1, <2>2, TakeTypes DEF Inv
    <2>4. players' \in Seq(Name) /\ players' # <<>> /\ Len(players') = Len(players) + 1
      BY <1>1, <1>2, <1>4, AppendProperties DEF AddPlayer
    <2>5. UNCHANGED <<current_player_index, called_uno>>
      BY <1>4 DEF AddPlayer
    <2>6. current_player_index' \in 0 .. Len(players') - 1 /\ Len(players') >= 2
      BY <1>2, <2>4, <2>5, SMT
    <2>7. called_uno' \subseteq Name
      BY <2>5 DEF Inv, TypeOK
    <2> QED
      BY <1>1, <1>2, <2>3, <2>4, <2>5, <2>6, <2>7, TableChange
  <1> QED
    BY <1>3, <1>4 DEF Join

-----------------------------------------------------------------------------
LEMMA InitInv ==
  ASSUME Init
  PROVE  Inv
  <1>1. /\ settings \in Games /\ settings.opening \in Seq(Name) /\ settings.deck \subseteq Card
        /\ Len(settings.opening) >= 2 /\ players = settings.opening
    BY MatchAssumption DEF Init, Setting
  <1>2. players # <<>> /\ current_player_index \in 0 .. Len(players) - 1 /\ Len(players) >= 2
    <2>1. Len(players) \in Nat
      BY <1>1, LenProperties
    <2> QED
      BY <1>1, <2>1, SMT DEF Init
  <1>3. hand \in [Name -> SUBSET Card]
    BY <1>1 DEF Init, kSubset
  <1>4. draw_pile \subseteq Card /\ top_card \in Card /\ discard_pile = {top_card}
    BY <1>1 DEF Init, Starters, Numbers
  <1>5. active_type \in Colour \cup {kWhite}
    BY <1>4, CardValues DEF Init
  <1>6. effect_queue = <<>> /\ effect_queue \in Seq(Effect) /\ effect_queue \in Seq(Addressed)
    BY SMT DEF Init
  <1>7. TypeOK
    BY <1>1, <1>2, <1>3, <1>4, <1>5, <1>6, SMT DEF Init, TypeOK, NoCall, Action
  <1>8. EngineInv
    BY <1>2, <1>6, SMT DEF Init, EngineInv, IsWaiting, Ticking
  <1> QED
    BY <1>7, <1>8 DEF Inv

LEMMA NextInv ==
  ASSUME Inv, [Next]_vars
  PROVE  Inv'
  <1>1. CASE \E p \in Human : \E c \in hand[p] : PlayCard(p, c)
    BY <1>1, PlayCardKeeps
  <1>2. CASE \E p \in Human : DrawCard(p)
    BY <1>2, DrawKeeps DEF DrawCard, Name
  <1>3. CASE \E p \in Human : \E a \in Offered : ProvideInput(p, a)
    BY <1>3, ProvideInputKeeps
  <1>4. CASE \E p \in Human : LateInput(p)
    BY <1>4, LateInputKeeps
  <1>5. CASE \E p \in MayCallUno : CallUno(p)
    BY <1>5, CallUnoKeeps, MatchAssumption
  <1>6. CASE BotAnswer \/ BotMove
    BY <1>6, BotAnswerKeeps, BotMoveKeeps
  <1>7. CASE NestedPlay
    BY <1>7, NestedPlayKeeps
  <1>8. CASE Tick
    BY <1>8, GiveUpKeeps, AdvanceTurnKeeps, DrawCardsKeeps, SkipTurnKeeps, ReverseOrderKeeps,
       ChooseColorKeeps, DecideDrawnCardKeeps, DecideSwapTargetKeeps, PassHandsKeeps
    DEF Tick, Resolve
  <1>9. CASE \E p \in MayLeave : Leave(p)
    BY <1>9, LeaveKeeps, MatchAssumption
  <1>10. CASE \E p \in MayJoin : Join(p)
    BY <1>10, JoinKeeps, MatchAssumption
  <1>11. CASE Over \/ UNCHANGED vars
    BY <1>11, SMT DEF Over, vars, seats, cards, piles, question, Inv, TypeOK, EngineInv, IsWaiting,
                 Ticking
  <1> QED
    BY <1>1, <1>2, <1>3, <1>4, <1>5, <1>6, <1>7, <1>8, <1>9, <1>10, <1>11 DEF Next

\* The engine's variables keep their types in every match, whatever the cards,
\* the table and the mods: the seat that has the turn exists, an effect names
\* real players, and a colour choice sets a colour.
THEOREM TypeCorrect == Spec => []TypeOK
  <1>1. Init => Inv
    BY InitInv
  <1>2. Inv /\ [Next]_vars => Inv'
    BY NextInv
  <1>3. Inv => TypeOK
    BY DEF Inv
  <1> QED
    BY <1>1, <1>2, <1>3, PTL DEF Spec

\* Between two handlers the engine is idle or waits for the question at the
\* head of its queue, and holds no answer that a later effect could take for
\* its own (ProvideInput, Tick).
THEOREM QuestionsAtHead == Spec => []QuestionAtHead
  <1>1. Init => Inv
    BY InitInv
  <1>2. Inv /\ [Next]_vars => Inv'
    BY NextInv
  <1>3. Inv => QuestionAtHead
    BY SMT DEF Inv, EngineInv, QuestionAtHead
  <1> QED
    BY <1>1, <1>2, <1>3, PTL DEF Spec
=============================================================================
