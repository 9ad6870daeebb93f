-------------------------------- MODULE MCTurn --------------------------------
(***************************************************************************)
(* Small games for the turn timer: what matters is who is at turn, who is  *)
(* asked and who is there, so the decks are as small as the deal allows.   *)
(***************************************************************************)
EXTENDS TurnSafety

CONSTANTS ana, bea, cyd, bot1

Red        == 0
Blue       == 1
TwoColours == {Red, Blue}

CardOf(t, v, n) == [type |-> t, value |-> v, id |-> n]

r1 == CardOf(Red, 1, 1)
b1 == CardOf(Blue, 1, 2)
b2 == CardOf(Blue, 2, 3)
r7 == CardOf(Red, 7, 4)
rs == CardOf(Red, kSkip, 5)
wj == CardOf(kWhite, kJolly, 6)

AllCards == {r1, b1, b2, r7, rs, wj}

Game(mods, deck, opening) ==
  [active_mods |-> mods, deck |-> deck, opening |-> opening, starting_cards |-> 2]

\* Two users, of whom one leaves; a user and a bot.
LeaveGames == {Game(<<>>, {r1, b1, b2, rs, wj}, <<ana, bea>>),
               Game(<<"force_play">>, {r1, b1, b2, r7, wj}, <<bea, bot1>>)}

\* A table with a free seat, questions of every kind, also one after the other.
JoinGames  == {Game(<<"seven_zero">>, {r1, b1, b2, r7, wj}, <<ana, bea>>),
               Game(<<"seven_zero", "seven_zero">>, {r1, b1, b2, r7, rs}, <<ana, bea>>)}
=============================================================================
