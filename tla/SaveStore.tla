------------------------------ MODULE SaveStore ------------------------------
(***************************************************************************)
(* What saving a match promises to whoever may resume it: a save is there  *)
(* with its state and with all of its players, or it is not there at all.  *)
(* It is written at one stroke, replacing an older save of the same match, *)
(* and it is dropped at one stroke.  SavedMatches, with its two tables and *)
(* its transaction of several statements, implements this.                 *)
(***************************************************************************)
CONSTANTS MatchId, User, State, NoSave

VARIABLE store

\* `by' are the users who were in the room, `players' those the save is kept for.
Save(by, players, state) == [by |-> by, players |-> players, state |-> state]

Init == store = [id \in MatchId |-> NoSave]

Put(id, by, state) == store' = [store EXCEPT ![id] = Save(by, by, state)]

Drop(ids) == store' = [id \in MatchId |-> IF id \in ids THEN NoSave ELSE store[id]]

Next ==
  \/ \E id \in MatchId, by \in SUBSET User, state \in State : Put(id, by, state)
  \/ \E ids \in SUBSET MatchId : Drop(ids)

Spec == Init /\ [][Next]_store
=============================================================================
