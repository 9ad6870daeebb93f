----------------------------- MODULE SavedSafety -----------------------------
(***************************************************************************)
(* What a saved match owes its players: it is kept whole and for a day, and*)
(* it goes when it has been won.                                           *)
(***************************************************************************)
EXTENDS SavedMatches

CONSTANT NoSave

RoomType  == [humans : SUBSET User, settings : Settings, mods : Mods,
              match : Match \cup {NoMatch}]
TableType == [rows : UNION {[ids -> Row] : ids \in SUBSET MatchId},
              participants : SUBSET (MatchId \X User)]
SaveType  == [stage : {"none", "upsert", "delete", "insert"}, room : Room \cup {NoRoom},
              todo : SUBSET User, leaver : SUBSET Member]

\* Every variable has its type.  Between two handlers no transaction is open, and
\* one that is open saves a match that is being played.
SavedTypeOK ==
  /\ rooms \in [Room -> RoomType]
  /\ tables \in TableType /\ disk \in TableType
  /\ save \in SaveType
  /\ listed \in [User -> SUBSET MatchId]
  /\ IF NoneSaving THEN tables = disk ELSE save.room \in Room /\ Playing(save.room)

\* The committed tables, read as SaveStore reads them.
StoreOf(t) == [id \in MatchId |->
  IF id \in DOMAIN t.rows
  THEN [by |-> t.rows[id].by, players |-> Players(t, id), state |-> t.rows[id].state]
  ELSE NoSave]

Store == INSTANCE SaveStore WITH store <- StoreOf(disk)

\* Two tables written statement by statement, saves that fail or are cut short by a
\* crash, participants left behind by deletions: for whoever reads the database a
\* save is whole, with the state and all of the players it was made for, or it is
\* not there (SaveMatchStateToDB and its TransactionGuard implement SaveStore).
WholeSaves == Store!Spec

\* A match that has been won cannot be resumed: no row of it is left or comes back,
\* but where dropping it failed or another room was playing the same match.
WonIsGone == (won \ spared) \cap DOMAIN disk.rows = {}

\* A match saved within the last day is there until it is won or the host deletes
\* it: the purge of expired rows that each listing makes never takes it.
RecentSavesKept == today \subseteq DOMAIN disk.rows
=============================================================================
