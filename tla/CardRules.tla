------------------------------ MODULE CardRules ------------------------------
(***************************************************************************)
(* The cards and the rule pipeline of the match engine, as operators that  *)
(* no state depends on: what StandardRule and the mods say of a card that  *)
(* somebody wants to play (ValidatePlay), and what they do once it is      *)
(* played (OnCardPlayed).  The active mods are asked in the order in which *)
(* the lobby lists them, the standard rule last, until one of them marks   *)
(* the event as handled.                                                   *)
(***************************************************************************)
EXTENDS Integers, Sequences, FiniteSets

CONSTANTS
  Card,     \* the cards there are: records of a type, a value and a unique id
  Colour    \* the coloured types in play, numbered as in the source

kRed   == 0
kWhite == 4                 \* no colour of its own
Number == 0 .. 9
kSkip       == 10
kReverse    == 11
kDraw2      == 12
kJolly      == 13
kJollyDraw4 == 14
Value == 0 .. 14

ModName == {"draw_stacking", "jump_in", "no_bluffing", "seven_zero",
            "force_play", "progressive"}

ASSUME CardAssumption ==
  /\ Colour \subseteq 0 .. 3 /\ kRed \in Colour
  /\ Card \subseteq [type : Colour \cup {kWhite}, value : Value, id : Nat]
  /\ IsFiniteSet(Card)
  /\ \A c \in Card : c.type = kWhite <=> c.value \in {kJolly, kJollyDraw4}

\* mods is LobbySettings::active_mods, a sequence of mod names.
HasMod(mods, m) == \E i \in DOMAIN mods : mods[i] = m

IsDraw(c) == c.value \in {kDraw2, kJollyDraw4}

-----------------------------------------------------------------------------
(***************************************************************************)
(* ValidatePlay.  A table is what a rule may look at: the active mods, the *)
(* top card of the discard pile, the active type, the accumulated draws,   *)
(* the hand of the player and whether he plays out of turn.                *)
(***************************************************************************)
StandardAllows(c, table) ==
  /\ ~table.out
  /\ \/ c.type = kWhite
     \/ c.type = table.active
     \/ c.value = table.top.value

\* A card played on a growing penalty must repeat the draw card on top.
Stacks(c, table) == IsDraw(c) /\ c.value = table.top.value

Identical(c, d) == c.type = d.type /\ c.value = d.value

\* What one mod says: a verdict other than "pass" marks the event handled.
Verdict(mod, c, table) ==
  CASE mod = "draw_stacking" /\ table.stack > 0 /\ ~Stacks(c, table) -> "invalid"
    [] mod = "jump_in" /\ table.out /\ Identical(c, table.top) -> "valid"
    [] /\ mod = "no_bluffing"
       /\ ~table.out
       /\ c.value = kJollyDraw4
       /\ \E d \in table.hand : d.type = table.active -> "invalid"
    [] OTHER -> "pass"

\* The first mod with a verdict decides, the standard rule if none has one.
Playable(c, table) ==
  LET says(i) == Verdict(table.mods[i], c, table)
  IN  \/ /\ \A i \in DOMAIN table.mods : says(i) = "pass"
         /\ StandardAllows(c, table)
      \/ \E i \in DOMAIN table.mods :
           /\ says(i) = "valid"
           /\ \A j \in DOMAIN table.mods : j < i => says(j) = "pass"

-----------------------------------------------------------------------------
(***************************************************************************)
(* OnCardPlayed.  Draw stacking handles the draw cards, so that whatever   *)
(* is listed after it, and the standard rule, never see them.              *)
(***************************************************************************)
StackTakes(mods, c) == HasMod(mods, "draw_stacking") /\ IsDraw(c)

\* jump_in is reached by this card: nothing listed before it handled it.
ReachesJumpIn(mods, c) ==
  \E i \in DOMAIN mods :
    /\ mods[i] = "jump_in"
    /\ ~(IsDraw(c) /\ \E j \in DOMAIN mods : j < i /\ mods[j] = "draw_stacking")

StackAddsAtOnce(mods, c) ==
  IF ~HasMod(mods, "draw_stacking") THEN 0
  ELSE IF c.value = kDraw2 THEN 2 ELSE IF c.value = kJollyDraw4 THEN 4 ELSE 0

\* The penalty a stacked +2 adds at once; a +4 adds its own with the colour.
StackAdds(mods, c) ==
  IF HasMod(mods, "draw_stacking") /\ c.value = kDraw2 THEN 2 ELSE 0
=============================================================================
