----------------------------- MODULE MatchSafety -----------------------------
(***************************************************************************)
(* What the match engine must keep true.                                   *)
(***************************************************************************)
EXTENDS MatchInstance

\* Every variable of the engine has its type.
TypeOK ==
  /\ settings \in Games
  /\ status \in {"playing", "finished", "aborted"}
  /\ winner \in Name \cup {NoName}
  /\ players \in Seq(Name) /\ players # <<>>
  /\ current_player_index \in 0 .. Len(players) - 1
  /\ play_direction \in {1, -1}
  /\ hand \in [Name -> SUBSET Card]
  /\ called_uno \subseteq Name
  /\ draw_pile \subseteq Card /\ discard_pile \subseteq Card /\ top_card \in discard_pile
  /\ active_type \in Colour \cup {kWhite}
  /\ pending_draws \in Nat
  /\ effect_queue \in Seq(Effect)
  /\ pending_player \in Name \cup {NoName}
  /\ pending_action \in Action
  /\ pending_input_context \subseteq Name
  /\ provided_input \in Colour \cup {0, 1} \cup Name \cup {NoInput}
  /\ phase \in {"idle", "tick", "overflow", "call"}
  /\ nested \in [who : Name \cup {NoName}, card : Card \cup {NoCard}]

-----------------------------------------------------------------------------
\* No card is lost or doubled: piles and hands partition the deck, whatever
\* reshuffles, swaps, rotations, departures and hot joins do with them, and a
\* name without a seat holds none.
CardConservation ==
  /\ draw_pile \cup discard_pile \cup UNION Range(hand) = settings.deck
  /\ draw_pile \cap discard_pile = {}
  /\ \A p \in Name : hand[p] \cap (draw_pile \cup discard_pile) = {}
  /\ \A p, q \in Name : p # q => hand[p] \cap hand[q] = {}
  /\ \A p \in Name \ Seated : hand[p] = {}

\* What the effect at the head of the queue asks for.
ActionOf(e) ==
  CASE e.kind = "color" -> "ChooseType"
    [] e.kind = "drawn" -> "PlayDrawn"
    [] e.kind = "swap"  -> "ChooseTarget"
    [] OTHER            -> "none"

\* Between two handlers of a match that is played Tick has left nothing half done:
\* effects are queued exactly while a question is open, the question is that of the
\* effect at the head, and no answer is left over that a later effect could take.
QuestionAtHead ==
  phase = "idle" /\ status = "playing" =>
    /\ provided_input = NoInput
    /\ IsWaiting <=> effect_queue # <<>>
    /\ IsWaiting => /\ pending_player = Head(effect_queue).who
                    /\ pending_action = ActionOf(Head(effect_queue))

\* A hand that counts as announced has at most two cards: every way of getting
\* more cards, and every exchange of hands, takes the announcement along.
UnoFlagHonest == \A p \in called_uno : Cardinality(hand[p]) <= 2

\* Card values of the penalty that the discard pile can account for.
PenaltyOn(S) == 2 * Cardinality({c \in S : c.value = kDraw2})
                + 4 * Cardinality({c \in S : c.value = kJollyDraw4})

\* An accumulated penalty lies on a draw card of the same kind, and it is never
\* more than the draw cards that were put on the pile.
PenaltyBacked ==
  pending_draws > 0 =>
    /\ Mod("draw_stacking")
    /\ IsDraw(top_card)
    /\ pending_draws <= PenaltyOn({c \in discard_pile : c.value = top_card.value})

\* While the match is played nobody sits without a card: the last card wins at
\* once, also out of turn, from a drawn card or from the middle of a Tick.
LastCardWins ==
  status = "playing" => \A p \in Seated : hand[p] # {}

\* PlayCard called from DrawCard or from an answered decision is never refused;
\* the engine does not look at its result, and a refusal would lose the turn.
NestedPlayAccepted ==
  phase = "call" => CanPlay(nested.who, nested.card)

\* Tick hands the table back without a question only by advancing the turn.
TurnHandedOver ==
  [][(/\ phase # "idle" /\ phase' = "idle"
      /\ status' = "playing" /\ ~IsWaiting')
     => phase = "tick" /\ Head(effect_queue).kind = "advance"]_vars

\* Whatever is played, drawn, stacked, forced and decided, the effects of one card are
\* all that is ever queued: five of them, or one for each rule of seven_zero, the uno
\* penalty and the turn's end.  So it takes a lobby that lists seven_zero more than 62
\* times to make Tick give a match up, which then ends won by nobody.
EffectQueueBounded ==
  LET swaps == Copies("seven_zero")
  IN  /\ Len(effect_queue) <= 5 \/ Len(effect_queue) <= swaps + 2
      /\ status = "finished" /\ winner = NoName => swaps + 2 > MaxEffects

-----------------------------------------------------------------------------
\* RemovePlayerMidGame: while the others leave, the one who has the turn keeps
\* it ("Shift the current turn index so the game doesn't skip a player!").
RemovalKeepsTurn ==
  [][(Len(players') < Len(players) /\ CurrentPlayer \in Range(players'))
     => CurrentPlayer' = CurrentPlayer]_vars

\* Jump In: who plays an identical card out of turn has the turn ("Play an
\* identical card (same number and color) out of turn to steal the turn.").
JumpInStealsTurn ==
  [][\A p \in Human : (/\ phase = "idle" /\ phase' # "idle" /\ ~IsWaiting
                       /\ p # CurrentPlayer
                       /\ Cardinality(hand'[p]) < Cardinality(hand[p]))
                      => CurrentPlayer' = p]_vars
=============================================================================
