------------------------------- MODULE MCMatch -------------------------------
(***************************************************************************)
(* Small games for the match engine.  Each game has the mods and the few   *)
(* cards that make its rules meet; the table, the number of cards dealt    *)
(* and the deck bound the state space, nothing else does.                  *)
(***************************************************************************)
EXTENDS MatchSafety

CONSTANTS ana, bea, cyd, bot1, bot2

Red    == 0
Blue   == 1
TwoColours == {Red, Blue}

CardOf(t, v, n) == [type |-> t, value |-> v, id |-> n]

r1 == CardOf(Red, 1, 1)
r0 == CardOf(Red, 0, 2)
r7 == CardOf(Red, 7, 3)
b1 == CardOf(Blue, 1, 4)
b2 == CardOf(Blue, 2, 5)
rs == CardOf(Red, kSkip, 6)
br == CardOf(Blue, kReverse, 7)
rd == CardOf(Red, kDraw2, 8)
rd2 == CardOf(Red, kDraw2, 9)
bd == CardOf(Blue, kDraw2, 10)
wj == CardOf(kWhite, kJolly, 11)
w4 == CardOf(kWhite, kJollyDraw4, 12)
w4b == CardOf(kWhite, kJollyDraw4, 13)
r1b == CardOf(Red, 1, 14)

AllCards == {r1, r0, r7, b1, b2, rs, br, rd, rd2, bd, wj, w4, w4b, r1b}

Game(mods, deck, opening, n) ==
  [active_mods |-> mods, deck |-> deck, opening |-> opening, starting_cards |-> n]

ThreeSeats == <<ana, bea, bot1>>
TwoSeats   == <<ana, bea>>

Often(m, n) == [i \in 1 .. n |-> m]

\* Tables that nobody leaves: the plain rules and every mod, one of them listed twice,
\* and one as often as it takes to make Tick give up.
ClosedGames ==
  {Game(<<>>, {r1, b1, rs, br, rd, w4, wj}, TwoSeats, 2),
   Game(<<"draw_stacking", "no_bluffing">>, {r1, rd, bd, w4, w4b, b2, b1}, TwoSeats, 2),
   Game(<<"jump_in", "draw_stacking">>, {r1, r1b, rd, rd2, bd, b2, b1}, ThreeSeats, 2),
   Game(<<"seven_zero", "force_play">>, {r1, r0, r7, b1, br, b2, rs}, ThreeSeats, 2),
   Game(<<"force_play", "progressive", "no_bluffing">>, {r1, r7, b1, b2, w4, rs}, TwoSeats, 2),
   Game(<<"seven_zero", "seven_zero">>, {r1, r7, b1, r0, b2}, TwoSeats, 2),
   Game(Often("seven_zero", 65), {r1, r7, b1, r0, b2}, TwoSeats, 2)}

\* Tables that users leave and join.
ChurnGames ==
  {Game(<<>>, {r1, b1, w4, br, r1b}, TwoSeats, 2),
   Game(<<"seven_zero">>, {r1, r7, b1, r0, b2}, <<ana, bot1>>, 2),
   Game(<<"draw_stacking", "jump_in">>, {r1, rd, w4, bd, b1}, <<ana, bea>>, 2)}

\* Three users, of whom some leave while somebody else has the turn.
RemovalGames == {Game(<<>>, {r1, b1, r1b, b2, r0, wj, rs}, <<ana, bea, cyd>>, 2)}
=============================================================================
