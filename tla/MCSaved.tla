------------------------------- MODULE MCSaved -------------------------------
(***************************************************************************)
(* Small instances of saving: two or three users, one or two rooms.        *)
(***************************************************************************)
EXTENDS SavedSafety, TLC

CONSTANTS ana, bea, cyd, room1, room2, m1, m2

Setting(saves, quits) == [save_state |-> saves, quit_deletes_match |-> quits]

AllSettings == {Setting(TRUE, TRUE), Setting(TRUE, FALSE)}

Alike == UNION {Permutations(S) : S \in {User, Room, MatchId}}
=============================================================================
