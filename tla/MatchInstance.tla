---------------------------- MODULE MatchInstance ----------------------------
(***************************************************************************)
(* The match engine (src/src/match/match_instance.cpp): one UNO match, the *)
(* queue of effects a card leaves behind, the questions those effects ask, *)
(* and the lobby's changes of the table while the match runs.              *)
(*                                                                         *)
(* The server is one event loop: a handler runs to completion, and so does *)
(* the Tick the controller calls at its end.  `phase' is the place of that *)
(* loop: "idle" between two handlers, "tick" while Tick has effects to     *)
(* resolve (one action per iteration of its loop), "overflow" where Tick   *)
(* has found too many of them, "call" where an effect or DrawCard calls    *)
(* PlayCard from inside.  No other handler is enabled before the loop is   *)
(* idle again.                                                             *)
(*                                                                         *)
(* The piles and the hands are sets: the draw pile is shuffled whenever it *)
(* is filled and nobody sees its order, so drawing its back is drawing any *)
(* card of it.  Of the discard pile only the top card is told apart.       *)
(*                                                                         *)
(* An operator whose definition comes right before that of another and     *)
(* that no action uses is a seeded fault: the bug in that other operator   *)
(* that a property of MatchSafety is known to catch (see PROJECT.json).    *)
(***************************************************************************)
EXTENDS CardRules, SequencesExt, FiniteSetsExt

CONSTANTS
  Human, BotName,     \* user names, and the names GetRandomBotName chooses from
  Games,              \* the settings and the opening tables a lobby may start
  MayLeave, MayJoin,  \* bound: who may leave, or be kicked, and who may join
  MayCallUno,         \* bound: the users who press the UNI button
  NoName, NoCard, NoInput

Name == Human \cup BotName

\* LobbySettings, as far as the engine reads its copy of them; the deck stands for
\* the count_* fields and GenerateDeck, and opening for the members of the lobby.
Setting == [active_mods : Seq(ModName), deck : SUBSET Card, opening : Seq(Name),
            starting_cards : 2 .. 20]

ASSUME MatchAssumption ==
  /\ Human \cap BotName = {}
  /\ NoName \notin Name /\ NoCard \notin Card
  /\ NoInput \notin Name \cup Int /\ Name \cap Int = {}
  /\ Games \subseteq Setting
  /\ \A g \in Games :
       /\ Len(g.opening) >= 2 /\ IsInjective(g.opening)
       /\ Cardinality(g.deck) > Len(g.opening) * g.starting_cards
  /\ MayLeave \subseteq Name /\ MayJoin \subseteq Human /\ MayCallUno \subseteq Human

MaxMembers == 4   \* LobbyController::kMaxMembers
MaxEffects == 64  \* the queue Tick still works on

VARIABLES
  settings,                      \* settings_, fixed for the match
  status, winner,
  players, current_player_index, play_direction,
  hand, called_uno,              \* Player::hand, Player::has_called_uno
  draw_pile, discard_pile, top_card, active_type, pending_draws,
  effect_queue,
  pending_player, pending_action, pending_input_context, provided_input,
  phase, nested                  \* the engine's place, the PlayCard it calls

piles    == <<draw_pile, discard_pile, top_card>>
question == <<pending_player, pending_action, pending_input_context>>
seats    == <<players, current_player_index, play_direction>>
cards    == <<hand, called_uno, piles>>
vars == <<settings, status, winner, seats, cards, active_type, pending_draws,
          effect_queue, question, provided_input, phase, nested>>

Kind   == {"advance", "draw", "skip", "reverse", "color", "drawn", "swap", "pass"}
Action == {"ChooseType", "PlayDrawn", "ChooseTarget"}
Effect == [kind : Kind, who : Name \cup {NoName}, count : Nat, card : Card \cup {NoCard}]

NewEffect(k, who, n, c) == [kind |-> k, who |-> who, count |-> n, card |-> c]
Advance       == NewEffect("advance", NoName, 0, NoCard)
Skipping      == NewEffect("skip", NoName, 0, NoCard)
Reversing     == NewEffect("reverse", NoName, 0, NoCard)
PassingHands  == NewEffect("pass", NoName, 0, NoCard)
Drawing(p, n) == NewEffect("draw", p, n, NoCard)
Coloring(p, bonus) == NewEffect("color", p, bonus, NoCard)
Swapping(p)   == NewEffect("swap", p, 0, NoCard)
Deciding(p, c) == NewEffect("drawn", p, 0, c)

NoCall == [who |-> NoName, card |-> NoCard]

Seated   == Range(players)
Around(i) == i % Len(players)
At(i)    == players[i + 1]
CurrentPlayer == At(current_player_index)
NextPlayer(i) == At(Around(i + play_direction))
IsWaiting == pending_player # NoName

Mod(m)    == HasMod(settings.active_mods, m)

\* The rules a mod has: nothing keeps a lobby from listing it more than once, and
\* the constructor makes a rule of every entry.
Copies(m) == Cardinality({i \in DOMAIN settings.active_mods : settings.active_mods[i] = m})

\* Room for another handler: the loop is idle and the match still played.
Idle    == phase = "idle" /\ status = "playing"
Handler == Idle /\ UNCHANGED settings

\* Tick is called with what the handler has queued by then.
BeginTick ==
  phase' = IF effect_queue' = <<>> THEN "idle"
           ELSE IF Len(effect_queue') > MaxEffects THEN "overflow" ELSE "tick"

-----------------------------------------------------------------------------
(***************************************************************************)
(* Drawing from the stock: the draw pile first, then, reshuffled under the *)
(* top card, the rest of the discard pile.                                 *)
(***************************************************************************)
BuriedWithTop == discard_pile
Buried == discard_pile \ {top_card}
Stock  == draw_pile \cup Buried

\* The sets of cards that can come off the stock one after the other.
FromStock == {S \in SUBSET Stock : S \subseteq draw_pile \/ draw_pile \subseteq S}

\* What n draws may yield; fewer cards only when the stock runs out.
Yields(n) == {S \in FromStock : Cardinality(S) = Min({n, Cardinality(Stock)})}

\* Player p takes S off the stock.
Take(p, S) ==
  /\ hand' = [hand EXCEPT ![p] = @ \cup S]
  /\ draw_pile' = IF S \subseteq draw_pile THEN draw_pile \ S ELSE Buried \ S
  /\ discard_pile' = IF S \subseteq draw_pile THEN discard_pile ELSE {top_card}
  /\ UNCHANGED top_card

-----------------------------------------------------------------------------
(***************************************************************************)
(* The constructor and Start: a shuffled deck, settings.starting_cards each, and the *)
(* first number card of the pile turned up.                                *)
(***************************************************************************)
Numbers(S) == {c \in S : c.value \in Number}

Starters(S) == IF Numbers(S) # {} THEN Numbers(S) ELSE S

Init ==
  /\ settings \in Games
  /\ \E deal \in [Range(settings.opening) -> kSubset(settings.starting_cards, settings.deck)] :
       /\ \A p, q \in DOMAIN deal : p # q => deal[p] \cap deal[q] = {}
       /\ hand = [p \in Name |-> IF p \in DOMAIN deal THEN deal[p] ELSE {}]
  /\ LET pile == settings.deck \ UNION Range(hand)
     IN  /\ top_card \in Starters(pile)
         /\ draw_pile = pile \ {top_card}
  /\ discard_pile = {top_card}
  /\ active_type = top_card.type
  /\ players = settings.opening
  /\ current_player_index = 0 /\ play_direction = 1
  /\ called_uno = {} /\ pending_draws = 0
  /\ effect_queue = <<>>
  /\ pending_player = NoName /\ pending_action = "ChooseType"
  /\ pending_input_context = {} /\ provided_input = NoInput
  /\ status = "playing" /\ winner = NoName
  /\ phase = "idle" /\ nested = NoCall

-----------------------------------------------------------------------------
(***************************************************************************)
(* PlayCard.                                                               *)
(***************************************************************************)
TableFor(p, held) ==
  [mods |-> settings.active_mods, out |-> p # CurrentPlayer, hand |-> held,
   top |-> top_card, active |-> active_type, stack |-> pending_draws]

\* PlayCard(p, c) returns true.
CanPlay(p, c) ==
  /\ ~IsWaiting /\ status = "playing"
  /\ p \in Seated /\ c \in hand[p]
  /\ Playable(c, TableFor(p, hand[p]))

SeatUnmoved(p, c) == current_player_index

\* The seat that has the turn once c is played: a jump-in takes it over.
SeatAfter(p, c) ==
  IF p # CurrentPlayer /\ ReachesJumpIn(settings.active_mods, c)
  THEN (CHOOSE i \in DOMAIN players : players[i] = p) - 1
  ELSE current_player_index

\* A last card but one that was not announced; a stacked draw card never asks.
ForgotUno(p, c, announced) ==
  /\ ~StackTakes(settings.active_mods, c)
  /\ Cardinality(hand[p] \ {c}) = 1
  /\ p \notin announced

StandardEffects(p, c, next) ==
  CASE c.value = kSkip    -> <<Skipping>>
    [] c.value = kReverse -> <<Reversing>>
    [] c.value = kDraw2   -> <<Drawing(next, 2), Skipping>>
    [] c.value = kJolly   -> <<Coloring(p, 0)>>
    [] c.value = kJollyDraw4   -> <<Coloring(p, 0), Drawing(next, 4), Skipping>>
    [] OTHER             -> <<>>

\* Each rule of seven_zero queues an effect of its own.  (The other mods may be
\* listed again without a difference: draw_stacking handles the event for those
\* after it, jump_in moves the turn to the same seat, and the rest only validate.)
SevenZeroEffects(p, c) ==
  LET each(e) == [i \in 1 .. Copies("seven_zero") |-> e]
  IN  CASE c.value = 0 -> each(PassingHands)
        [] c.value = 7 -> each(Swapping(p))
        [] OTHER       -> <<>>

\* What the rules queue for card c, the turn being at the given seat.
CardEffects(p, c, seat) ==
  IF StackTakes(settings.active_mods, c)
  THEN IF c.value = kJollyDraw4 THEN <<Coloring(p, 4)>> ELSE <<>>
  ELSE SevenZeroEffects(p, c) \o StandardEffects(p, c, NextPlayer(seat))

UnoPenalty(p, c, announced) ==
  IF ForgotUno(p, c, announced) THEN <<Drawing(p, 2)>> ELSE <<>>

QueuedUnhandled(p, c, announced) ==
  (IF StackTakes(settings.active_mods, c) THEN <<Coloring(p, 4)>> ELSE <<>>)
    \o StandardEffects(p, c, NextPlayer(SeatAfter(p, c)))
    \o (IF Cardinality(hand[p] \ {c}) = 1 /\ p \notin announced
        THEN <<Drawing(p, 2)>> ELSE <<>>)
    \o <<Advance>>

QueuedEarlyAdvance(p, c, announced) ==
  CardEffects(p, c, SeatAfter(p, c)) \o <<Advance>> \o UnoPenalty(p, c, announced)

\* Everything a card queues; the turn passes when the rest is resolved.
Queued(p, c, announced) ==
  CardEffects(p, c, SeatAfter(p, c)) \o UnoPenalty(p, c, announced) \o <<Advance>>

WinsInTurn(p, c) == hand[p] = {c} /\ p = CurrentPlayer
Wins(p, c) == hand[p] = {c}

\* The body of PlayCard once the play is valid, `announced' being the flags.
Play(p, c, announced) ==
  /\ discard_pile' = discard_pile \cup {c}
  /\ top_card' = c
  /\ active_type' = c.type
  /\ hand' = [hand EXCEPT ![p] = @ \ {c}]
  /\ called_uno' = IF StackTakes(settings.active_mods, c)
                   THEN announced ELSE announced \ {p}
  /\ pending_draws' = pending_draws + StackAdds(settings.active_mods, c)
  /\ current_player_index' = SeatAfter(p, c)
  /\ effect_queue' = effect_queue \o Queued(p, c, announced)
  /\ IF Wins(p, c) THEN status' = "finished" /\ winner' = p
                   ELSE UNCHANGED <<status, winner>>
  /\ UNCHANGED <<players, play_direction, draw_pile>>

\* HandlePlayCard: a user plays a card, in turn or out of it.
PlayCard(p, c) ==
  /\ Handler
  /\ CanPlay(p, c)
  /\ Play(p, c, called_uno)
  /\ BeginTick
  /\ UNCHANGED <<question, provided_input, nested>>

-----------------------------------------------------------------------------
(***************************************************************************)
(* DrawCard.                                                               *)
(***************************************************************************)
KeepsByStandard(p, c) == StandardAllows(c, TableFor(p, hand[p] \cup {c}))
Keeps(p, c) == Playable(c, TableFor(p, hand[p] \cup {c}))

\* What the drawing loop may take: one card, or with "progressive" every card
\* up to the first playable one.
Draws(p) ==
  LET playable(S) == {c \in S : Keeps(p, c)}
      last(c, S)  == S \subseteq draw_pile \/ c \notin draw_pile
  IN  IF Mod("progressive")
      THEN {S \in FromStock :
              \/ \E c \in S : playable(S) = {c} /\ last(c, S)
              \/ S = Stock /\ playable(S) = {}}
      ELSE Yields(1)

\* The accumulated penalty of draw stacking: take it all and lose the turn.
DrawPenalty(p) ==
  /\ pending_draws > 0
  /\ \E S \in Yields(pending_draws) : Take(p, S)
  /\ pending_draws' = 0
  /\ called_uno' = called_uno \ {p}
  /\ effect_queue' = Append(effect_queue, Advance)
  /\ BeginTick
  /\ UNCHANGED nested

\* The drawn card is offered to the player, or played at once, or kept.
DrawOne(p) ==
  /\ pending_draws = 0
  /\ \E S \in Draws(p) :
       /\ Take(p, S)
       /\ called_uno' = IF S = {} THEN called_uno ELSE called_uno \ {p}
       /\ \/ \E c \in S :
               /\ Keeps(p, c)
               /\ IF Mod("force_play")
                  THEN /\ nested' = [who |-> p, card |-> c]
                       /\ phase' = "call"
                       /\ UNCHANGED effect_queue
                  ELSE /\ effect_queue' = <<Deciding(p, c)>> \o effect_queue
                       /\ BeginTick
                       /\ UNCHANGED nested
          \/ /\ \A c \in S : ~Keeps(p, c)
             /\ effect_queue' = Append(effect_queue, Advance)
             /\ BeginTick
             /\ UNCHANGED nested
  /\ UNCHANGED pending_draws

Draw(p) ==
  /\ DrawPenalty(p) \/ DrawOne(p)
  /\ UNCHANGED <<status, winner, seats, active_type, question, provided_input>>

\* HandleDrawCard: the current player draws.
DrawCard(p) ==
  /\ Handler /\ ~IsWaiting
  /\ p = CurrentPlayer
  /\ Draw(p)

\* PlayCard called by an effect or by DrawCard; its refusal goes unnoticed.  DrawCard
\* calls it, under force_play only, ahead of Tick, an effect from inside Tick's loop.
NestedPlay ==
  /\ phase = "call"
  /\ IF CanPlay(nested.who, nested.card)
     THEN /\ Play(nested.who, nested.card, called_uno)
          /\ IF Mod("force_play") THEN BeginTick ELSE phase' = "tick"
     ELSE /\ phase' = IF effect_queue = <<>> THEN "idle" ELSE "tick"
          /\ UNCHANGED <<status, winner, seats, cards, active_type,
                         pending_draws, effect_queue>>
  /\ nested' = NoCall
  /\ UNCHANGED <<settings, question, provided_input>>

-----------------------------------------------------------------------------
(***************************************************************************)
(* ProvideInput, CallUno and TakeBotTurn.                                  *)
(***************************************************************************)
\* The values the client offers for the question that is asked.
Offered ==
  CASE pending_action = "ChooseType"   -> Colour
    [] pending_action = "PlayDrawn"    -> {0, 1}
    [] pending_action = "ChooseTarget" -> pending_input_context

AnswerKeepsQuestion(a) ==
  /\ provided_input' = a
  /\ UNCHANGED question

Answer(a) ==
  /\ provided_input' = a
  /\ pending_player' = NoName
  /\ pending_input_context' = {}
  /\ UNCHANGED pending_action

\* HandleProvideInput of the user who was asked.
ProvideInput(p, a) ==
  /\ Handler /\ IsWaiting
  /\ p = pending_player
  /\ a \in Offered
  /\ Answer(a)
  /\ UNCHANGED <<status, winner, seats, cards, active_type, pending_draws,
                 effect_queue, nested>>
  /\ BeginTick

\* HandleProvideInput of somebody else, or too late: only Tick runs, and a question
\* that is open is asked again.
LateInput(p) ==
  /\ Handler
  /\ p \in Human \ {pending_player}
  /\ UNCHANGED <<status, winner, seats, cards, active_type, pending_draws,
                 effect_queue, question, provided_input, nested>>
  /\ BeginTick

\* HandleCallUno: allowed at any moment with two cards or fewer.
CallUno(p) ==
  /\ Handler
  /\ p \in Seated \ called_uno /\ Cardinality(hand[p]) <= 2
  /\ called_uno' = called_uno \cup {p}
  /\ UNCHANGED <<status, winner, seats, hand, piles, active_type, pending_draws,
                 effect_queue, question, provided_input, phase, nested>>

MostHeldOfAll ==
  LET held(t) == Cardinality({c \in hand[CurrentPlayer] : c.type = t})
  IN  {t \in Colour \cup {kWhite} : \A u \in Colour \cup {kWhite} :
         held(u) < held(t) \/ (held(u) = held(t) /\ t <= u)}

\* The colour the current player holds most of, the first one when they tie.
MostHeld ==
  LET held(t) == Cardinality({c \in hand[CurrentPlayer] : c.type = t})
  IN  {t \in Colour : \A u \in Colour :
         held(u) < held(t) \/ (held(u) = held(t) /\ t <= u)}

\* The first of the smallest hands, the current player's left aside.
Leading ==
  LET others  == {i \in DOMAIN players : players[i] # CurrentPlayer}
      held(i) == Cardinality(hand[players[i]])
  IN  {players[i] : i \in {i \in others : \A j \in others :
                             held(i) < held(j) \/ (held(i) = held(j) /\ i <= j)}}

BotAnswers ==
  CASE pending_action = "PlayDrawn"    -> {0}
    [] pending_action = "ChooseType"   -> MostHeld
    [] pending_action = "ChooseTarget" -> Leading

\* TakeBotTurn while a question is open: answer it for whoever was asked.
BotAnswer ==
  /\ Handler /\ IsWaiting
  /\ \E a \in BotAnswers : Answer(a)
  /\ UNCHANGED <<status, winner, seats, cards, active_type, pending_draws,
                 effect_queue, nested>>
  /\ BeginTick

\* TakeBotTurn otherwise: announce, then play one of the playable cards (the
\* scores that rank them are abstracted), or draw.
BotMove ==
  LET p        == CurrentPlayer
      playable == {c \in hand[p] : Playable(c, TableFor(p, hand[p]))}
      announced == IF Cardinality(hand[p]) <= 2 THEN called_uno \cup {p} ELSE called_uno
  IN  /\ Handler /\ ~IsWaiting
      /\ \/ /\ \E c \in playable : Play(p, c, announced)
            /\ BeginTick
            /\ UNCHANGED <<question, provided_input, nested>>
         \/ playable = {} /\ Draw(p)

-----------------------------------------------------------------------------
(***************************************************************************)
(* Tick: give up, or resolve the effect at the head of the queue.          *)
(***************************************************************************)
\* Too much is queued: the match is over, won by nobody unless the play won it.
GiveUp ==
  /\ phase = "overflow"
  /\ status' = "finished" /\ phase' = "idle"
  /\ UNCHANGED <<settings, winner, seats, cards, active_type, pending_draws,
                 effect_queue, question, provided_input, nested>>

Resolving(k) ==
  /\ phase = "tick"
  /\ effect_queue # <<>>
  /\ Head(effect_queue).kind = k
  /\ UNCHANGED <<settings, winner>>

\* Back to the loop's condition with queue q.
Continue(q) ==
  /\ effect_queue' = q
  /\ phase' = IF q = <<>> THEN "idle" ELSE "tick"
  /\ UNCHANGED <<status, nested>>

AskCurrent(who, action, context) ==
  /\ pending_player' = CurrentPlayer
  /\ pending_action' = action
  /\ pending_input_context' = context
  /\ phase' = "idle"
  /\ UNCHANGED <<status, nested, effect_queue>>

\* The effect needs an input: it goes back to the head and Tick returns.
Ask(who, action, context) ==
  /\ pending_player' = who
  /\ pending_action' = action
  /\ pending_input_context' = context
  /\ phase' = "idle"
  /\ UNCHANGED <<status, nested, effect_queue>>

AdvanceTurn ==
  /\ Resolving("advance")
  /\ current_player_index' = Around(current_player_index + play_direction)
  /\ Continue(Tail(effect_queue))
  /\ UNCHANGED <<players, play_direction, cards, active_type, pending_draws,
                 question, provided_input>>

DrawCards ==
  /\ Resolving("draw")
  /\ LET e == Head(effect_queue)
     IN  IF e.who \in Seated
         THEN /\ \E S \in Yields(e.count) : Take(e.who, S)
              /\ called_uno' = called_uno \ {e.who}
         ELSE UNCHANGED cards
  /\ Continue(Tail(effect_queue))
  /\ UNCHANGED <<seats, active_type, pending_draws, question, provided_input>>

SkipTurn ==
  /\ Resolving("skip")
  /\ Continue(<<Advance>> \o Tail(effect_queue))
  /\ UNCHANGED <<seats, cards, active_type, pending_draws, question, provided_input>>

ReverseOrder ==
  /\ Resolving("reverse")
  /\ play_direction' = -play_direction
  /\ Continue(IF Len(players) = 2 THEN <<Advance>> \o Tail(effect_queue)
                                  ELSE Tail(effect_queue))
  /\ UNCHANGED <<players, current_player_index, cards, active_type,
                 pending_draws, question, provided_input>>

ChooseColor ==
  /\ Resolving("color")
  /\ LET e == Head(effect_queue)
     IN  \/ /\ provided_input # NoInput
            /\ active_type' = provided_input
            /\ provided_input' = NoInput
            /\ pending_draws' = pending_draws + e.count
            /\ Continue(Tail(effect_queue))
            /\ UNCHANGED question
         \/ /\ provided_input = NoInput
            /\ Ask(e.who, "ChooseType", {})
            /\ UNCHANGED <<active_type, pending_draws, provided_input>>
  /\ UNCHANGED <<seats, cards>>

DecideDrawnCard ==
  /\ Resolving("drawn")
  /\ LET e == Head(effect_queue)
     IN  \/ /\ provided_input = 0
            /\ effect_queue' = Tail(effect_queue)
            /\ nested' = [who |-> e.who, card |-> e.card]
            /\ phase' = "call"
            /\ provided_input' = NoInput
            /\ UNCHANGED <<status, question>>
         \/ /\ provided_input \notin {0, NoInput}
            /\ provided_input' = NoInput
            /\ Continue(Append(Tail(effect_queue), Advance))
            /\ UNCHANGED question
         \/ /\ provided_input = NoInput
            /\ Ask(e.who, "PlayDrawn", {})
            /\ UNCHANGED provided_input
  /\ UNCHANGED <<seats, cards, active_type, pending_draws>>

SwapHandsOnly(p, q) ==
  /\ hand' = [hand EXCEPT ![p] = hand[q], ![q] = hand[p]]
  /\ UNCHANGED called_uno

\* p and q exchange their hands and with them the announcements.
SwapHands(p, q) ==
  /\ hand' = [hand EXCEPT ![p] = hand[q], ![q] = hand[p]]
  /\ called_uno' = (called_uno \ {p, q}) \cup {r \in {p} : q \in called_uno}
                                         \cup {r \in {q} : p \in called_uno}

DecideSwapTarget ==
  /\ Resolving("swap")
  /\ LET p     == Head(effect_queue).who
         valid == p \in Seated /\ provided_input \in Seated \ {p}
     IN  \/ /\ valid
            /\ SwapHands(p, provided_input)
            /\ Continue(Tail(effect_queue))
            /\ UNCHANGED question
         \/ /\ ~valid
            /\ Ask(p, "ChooseTarget", Seated \ {p})
            /\ UNCHANGED <<hand, called_uno>>
  /\ provided_input' = NoInput
  /\ UNCHANGED <<seats, piles, active_type, pending_draws>>

\* Every hand moves one seat on, with its announcement.
PassHands ==
  LET giver(j) == players[Around(j - 1 - play_direction) + 1]
      seat(p)  == CHOOSE j \in DOMAIN players : players[j] = p
  IN  /\ Resolving("pass")
      /\ hand' = [p \in Name |-> IF p \in Seated THEN hand[giver(seat(p))] ELSE hand[p]]
      /\ called_uno' = {p \in Seated : giver(seat(p)) \in called_uno}
      /\ Continue(Tail(effect_queue))
      /\ UNCHANGED <<seats, piles, active_type, pending_draws, question, provided_input>>

Resolve == \/ AdvanceTurn \/ DrawCards \/ SkipTurn \/ ReverseOrder
           \/ ChooseColor \/ DecideDrawnCard \/ DecideSwapTarget \/ PassHands

Tick == GiveUp \/ Resolve

-----------------------------------------------------------------------------
(***************************************************************************)
(* The lobby's part: RemoveMember and HandleJoin while a match runs.       *)
(***************************************************************************)
\* The seat of `old' goes on under the name `new'; the effects and the open
\* question keep the old name.
Rename(old, new) ==
  /\ players' = [i \in DOMAIN players |-> IF players[i] = old THEN new ELSE players[i]]
  /\ hand' = [hand EXCEPT ![new] = hand[old], ![old] = {}]
  /\ called_uno' = {IF p = old THEN new ELSE p : p \in called_uno}
  /\ UNCHANGED <<current_player_index, piles>>

\* The turn after seat i of what are now n seats has gone.
SeatAfterRemoval(i, n) ==
  CASE current_player_index >= n -> current_player_index % n
    [] current_player_index < n /\ i < current_player_index -> current_player_index - 1
    [] OTHER -> current_player_index

\* RemovePlayerMidGame.
RemovePlayer(p) ==
  /\ \E i \in DOMAIN players :
       /\ players[i] = p
       /\ players' = RemoveAt(players, i)
       /\ current_player_index' = SeatAfterRemoval(i - 1, Len(players) - 1)
  /\ draw_pile' = draw_pile \cup hand[p]
  /\ hand' = [hand EXCEPT ![p] = {}]
  /\ called_uno' = called_uno \ {p}
  /\ UNCHANGED <<discard_pile, top_card>>

\* CheckMatchIntegrity wants two seats; a lobby without a human is destroyed.
GoesOn(table) == Len(table) >= 2 /\ Range(table) \cap Human # {}

\* RemoveMember: somebody leaves, is kicked, or has been away for too long.  The
\* host may change the lobby's settings during the match, so what happens to the
\* seat is open: quit_deletes_match ends the match, allow_bot_replacement gives
\* the seat to a bot, and without either it is closed.
Leave(p) ==
  /\ Handler /\ p \in Seated
  /\ \/ status' = "aborted" /\ UNCHANGED <<seats, cards>>
     \/ /\ (\E b \in BotName \ Seated : Rename(p, b)) \/ RemovePlayer(p)
        /\ status' = IF GoesOn(players') THEN status ELSE "aborted"
        /\ UNCHANGED play_direction
  /\ UNCHANGED <<winner, active_type, pending_draws, effect_queue,
                 question, provided_input, phase, nested>>

\* AddPlayerMidGame.
AddPlayer(p) ==
  /\ players' = Append(players, p)
  /\ \E S \in Yields(settings.starting_cards) : Take(p, S)
  /\ UNCHANGED <<current_player_index, called_uno>>

\* HandleJoin during a match, the lobby then allowing bots to be taken over: take
\* the place of the first bot, or a free one.
Join(p) ==
  /\ Handler /\ p \notin Seated
  /\ LET bots == {i \in DOMAIN players : players[i] \in BotName}
     IN  \/ \E i \in bots : (\A j \in bots : i <= j) /\ Rename(players[i], p)
         \/ bots = {} /\ Len(players) < MaxMembers /\ AddPlayer(p)
  /\ UNCHANGED <<status, winner, play_direction, active_type, pending_draws, effect_queue,
                 question, provided_input, phase, nested>>

\* The match is over; the controller has dropped it.
Over == phase = "idle" /\ status # "playing" /\ UNCHANGED vars

Next ==
  \/ \E p \in Human : \/ \E c \in hand[p] : PlayCard(p, c)
                      \/ DrawCard(p)
                      \/ \E a \in Offered : ProvideInput(p, a)
                      \/ LateInput(p)
  \/ \E p \in MayCallUno : CallUno(p)
  \/ BotAnswer \/ BotMove
  \/ NestedPlay \/ Tick
  \/ \E p \in MayLeave : Leave(p)
  \/ \E p \in MayJoin : Join(p)
  \/ Over

Spec == Init /\ [][Next]_vars
=============================================================================
