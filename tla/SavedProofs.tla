----------------------------- MODULE SavedProofs -----------------------------
(***************************************************************************)
(* That saving implements SaveStore, for any number of users, rooms and    *)
(* matches.  The type invariant says when a transaction is open; Halfway   *)
(* says how far an open one has come: which statements have been executed, *)
(* and that they have touched one match only.                              *)
(***************************************************************************)
EXTENDS SavedSafety, TLAPS

Halfway ==
  ~NoneSaving =>
    /\ SavedMatch \in Match
    /\ save.stage = "upsert" => tables = disk
    /\ save.stage # "upsert" =>
         /\ SavedMatch.id \in DOMAIN tables.rows
         /\ \A id \in MatchId \ {SavedMatch.id} :
              /\ id \in DOMAIN tables.rows <=> id \in DOMAIN disk.rows
              /\ id \in DOMAIN disk.rows => tables.rows[id] = disk.rows[id]
              /\ Players(tables, id) = Players(disk, id)
    /\ save.stage = "delete" => save.todo = tables.rows[SavedMatch.id].by
    /\ save.stage = "insert" =>
         Players(tables, SavedMatch.id) \cup save.todo = tables.rows[SavedMatch.id].by

SavedInv == SavedTypeOK /\ Halfway

-----------------------------------------------------------------------------
(***************************************************************************)
(* Types.                                                                  *)
(***************************************************************************)
\* A table without some of its rows is a table, with all of its participants.
LEMMA WithoutRowsType ==
  ASSUME NEW t \in TableType, NEW ids
  PROVE  /\ WithoutRows(t, ids) \in TableType
         /\ DOMAIN WithoutRows(t, ids).rows = DOMAIN t.rows \ ids
         /\ \A id \in DOMAIN t.rows \ ids : WithoutRows(t, ids).rows[id] = t.rows[id]
         /\ WithoutRows(t, ids).participants = t.participants
<1>1. t.rows \in [DOMAIN t.rows -> Row] /\ DOMAIN t.rows \in SUBSET MatchId
      /\ t.participants \in SUBSET (MatchId \X User)
  BY DEF TableType
<1> DEFINE rest == [id \in DOMAIN t.rows \ ids |-> t.rows[id]]
<1>2. rest \in [DOMAIN t.rows \ ids -> Row] /\ DOMAIN t.rows \ ids \in SUBSET MatchId
  BY <1>1
<1>3. WithoutRows(t, ids) = [rows |-> rest, participants |-> t.participants]
  BY DEF WithoutRows, TableType
<1> QED BY <1>1, <1>2, <1>3 DEF TableType

\* A room settled in a well-typed room stays one.
LEMMA SettleType ==
  ASSUME SavedAssumption, rooms \in [Room -> RoomType],
         NEW r \in Room, NEW q \in RoomType, Settle(r, q)
  PROVE  rooms' \in [Room -> RoomType]
<1>1. Empty \in RoomType
  BY DEF SavedAssumption, Empty, RoomType
<1> QED BY <1>1 DEF Settle

\* The rooms RemoveMember leaves behind.
LEMMA LeftType ==
  ASSUME rooms \in [Room -> RoomType], NEW r \in Room, NEW u \in Member
  PROVE  /\ Left(r, u) \in RoomType /\ Quit(r, u) \in RoomType
         /\ Playing(r) => Replaced(r, u) \in RoomType
         /\ Playing(r) => Replaced(r, u).match.id = rooms[r].match.id
<1>1. rooms[r] \in RoomType
  OBVIOUS
<1>2. Left(r, u) \in RoomType /\ Quit(r, u) \in RoomType
  BY <1>1 DEF Left, Quit, RoomType
<1>3. ASSUME Playing(r)
      PROVE  Replaced(r, u) \in RoomType /\ Replaced(r, u).match.id = rooms[r].match.id
  <2>1. Left(r, u).match = rooms[r].match /\ rooms[r].match \in Match
    BY <1>1, <1>3 DEF Left, RoomType, Playing
  <2>2. [rooms[r].match EXCEPT !.seats = @ \ {u}] \in Match
    BY <2>1 DEF Match
  <2>3. Replaced(r, u) = [Left(r, u) EXCEPT !.match = [rooms[r].match EXCEPT !.seats = @ \ {u}]]
    BY <1>1, <1>2, <2>1 DEF Replaced, RoomType
  <2>4. [rooms[r].match EXCEPT !.seats = @ \ {u}].id = rooms[r].match.id
    BY <2>1 DEF Match
  <2> QED BY <1>2, <2>2, <2>3, <2>4 DEF RoomType
<1> QED BY <1>2, <1>3

\* Whatever Won does to the tables leaves them tables, and committed.
LEMMA WonType ==
  ASSUME tables \in TableType, NEW r, Won(r)
  PROVE  tables' \in TableType /\ disk' = tables'
BY WithoutRowsType DEF Won, WinDrops, Executes

\* What UpsertRow writes.
LEMMA UpsertType ==
  ASSUME SavedTypeOK, SavedMatch \in Match, UpsertRow
  PROVE  LET id == SavedMatch.id
         IN  /\ tables' \in TableType
             /\ DOMAIN tables'.rows = DOMAIN tables.rows \cup {id}
             /\ tables'.rows[id] = Upserted(id, save.todo)
             /\ \A i \in DOMAIN tables.rows \ {id} : tables'.rows[i] = tables.rows[i]
             /\ tables'.participants = tables.participants
<1> DEFINE id == SavedMatch.id
           new == [i \in DOMAIN tables.rows \cup {id} |->
                     IF i = id THEN Upserted(id, save.todo) ELSE tables.rows[i]]
<1>1. tables.rows \in [DOMAIN tables.rows -> Row] /\ DOMAIN tables.rows \in SUBSET MatchId
      /\ tables.participants \in SUBSET (MatchId \X User)
  BY DEF SavedTypeOK, TableType
<1>2. id \in MatchId /\ Export \in State /\ save.todo \in SUBSET User
  BY DEF Export, State, Match, SavedTypeOK, SaveType
<1>3. Upserted(id, save.todo) \in Row
  BY <1>2 DEF Upserted, Row
<1>4. new \in [DOMAIN tables.rows \cup {id} -> Row]
      /\ DOMAIN tables.rows \cup {id} \in SUBSET MatchId
  BY <1>1, <1>2, <1>3
<1>5. tables' = [rows |-> new, participants |-> tables.participants]
  BY DEF UpsertRow, SavedTypeOK, TableType
<1> QED BY <1>1, <1>4, <1>5 DEF TableType

\* The statements on the participants, and what RemoveMember does after the save.
LEMMA ParticipantsType ==
  ASSUME NEW t \in TableType, NEW P \in SUBSET (MatchId \X User)
  PROVE  /\ [t EXCEPT !.participants = P] \in TableType
         /\ [t EXCEPT !.participants = P].rows = t.rows
         /\ [t EXCEPT !.participants = P].participants = P
BY DEF TableType

LEMMA AfterSaveType ==
  ASSUME SavedAssumption, SavedTypeOK, ~NoneSaving, AfterSave
  PROVE  rooms' \in [Room -> RoomType] /\ save' = NoSaving
<1>1. save.room \in Room /\ rooms[save.room] \in RoomType
      /\ rooms \in [Room -> RoomType] /\ save.leaver \in SUBSET Member
  BY DEF SavedTypeOK, SaveType
<1>2. CASE save.leaver = {}
  BY <1>1, <1>2, SettleType DEF AfterSave
<1>3. CASE save.leaver # {}
  <2>1. PICK u \in save.leaver : Settle(save.room, Quit(save.room, u))
    BY <1>3 DEF AfterSave
  <2> QED BY <1>1, <2>1, SettleType, LeftType DEF AfterSave
<1> QED BY <1>2, <1>3

LEMMA NoSavingType == NoSaving \in SaveType /\ NoSaving.stage = "none"
BY DEF NoSaving, SaveType

-----------------------------------------------------------------------------
\* In a state of the type invariant, the table of a room that plays is a Match.
LEMMA PlayingType ==
  ASSUME SavedTypeOK, NEW r \in Room
  PROVE  rooms[r] \in RoomType /\ (Playing(r) => rooms[r].match \in Match)
BY DEF SavedTypeOK, RoomType, Playing

\* Handlers that neither save nor remove a member.
LEMMA RoomStepsTyped ==
  ASSUME SavedAssumption, SavedInv,
         NEW r \in Room, NEW u \in User, NEW id \in MatchId,
         \/ HandleJoin(u, r) \/ HandleUpdateSettings(r) \/ HandleStartGame(r, id)
         \/ MatchOver(r) \/ HandleGetSavedMatchesList(u, r)
         \/ HandleDeleteSavedMatch(r, id) \/ HandleResumeSavedMatch(r, id) \/ Expire(id)
  PROVE  SavedInv'
<1>1. /\ rooms \in [Room -> RoomType] /\ tables \in TableType /\ disk \in TableType
      /\ save \in SaveType /\ listed \in [User -> SUBSET MatchId]
      /\ rooms[r] \in RoomType /\ (Playing(r) => rooms[r].match \in Match)
  BY PlayingType DEF SavedInv, SavedTypeOK
<1>2. NoneSaving /\ UNCHANGED save /\ tables = disk
  BY DEF HandleJoin, HandleUpdateSettings, HandleStartGame, MatchOver, Requests, SavedInv,
         HandleGetSavedMatchesList, HandleDeleteSavedMatch, HandleResumeSavedMatch, Expire,
         SavedTypeOK
<1> SUFFICES /\ rooms' \in [Room -> RoomType] /\ tables' \in TableType /\ disk' = tables'
             /\ listed' \in [User -> SUBSET MatchId]
  BY <1>1, <1>2 DEF SavedInv, SavedTypeOK, Halfway, NoneSaving
<1>3. CASE HandleJoin(u, r)
  <2>1. PICK s \in Settings, m \in Mods :
          rooms' = [rooms EXCEPT ![r] = [humans |-> rooms[r].humans \cup {u},
            settings |-> s, mods |-> m,
            match |-> IF Playing(r)
                      THEN [rooms[r].match EXCEPT !.seats = @ \cup {u}] ELSE NoMatch]]
    BY <1>3 DEF HandleJoin
  <2>2. Playing(r) => [rooms[r].match EXCEPT !.seats = @ \cup {u}] \in Match
    BY <1>1 DEF Match
  <2>3. rooms' \in [Room -> RoomType]
    BY <1>1, <2>1, <2>2 DEF RoomType
  <2> QED BY <1>1, <1>2, <1>3, <2>3 DEF HandleJoin
<1>4. CASE HandleUpdateSettings(r)
  <2>1. PICK s \in Settings, m \in Mods :
          rooms' = [rooms EXCEPT ![r].settings = s, ![r].mods = m]
    BY <1>4 DEF HandleUpdateSettings
  <2>2. rooms' \in [Room -> RoomType]
    BY <1>1, <2>1 DEF RoomType
  <2> QED BY <1>1, <1>2, <1>4, <2>2 DEF HandleUpdateSettings
<1>5. CASE HandleStartGame(r, id)
  <2> DEFINE m == [id |-> id, seats |-> rooms[r].humans, rules |-> rooms[r].mods,
                   mods |-> rooms[r].mods]
  <2>1. m \in Match
    BY <1>1 DEF Match, RoomType
  <2>2. rooms' = [rooms EXCEPT ![r] = [rooms[r] EXCEPT !.match = m]]
    BY <1>1, <1>5 DEF HandleStartGame
  <2>3. rooms' \in [Room -> RoomType]
    BY <1>1, <2>1, <2>2 DEF RoomType
  <2>4. {p \in tables.participants : p[1] # id} \in SUBSET (MatchId \X User)
    BY <1>1 DEF TableType
  <2> QED BY <1>1, <1>5, <2>3, <2>4, ParticipantsType DEF HandleStartGame, Executes
<1>6. CASE MatchOver(r)
  <2>1. rooms' \in [Room -> RoomType]
    BY <1>1, <1>6 DEF MatchOver, RoomType
  <2> QED BY <1>1, <1>6, <2>1, WonType DEF MatchOver
<1>7. CASE HandleGetSavedMatchesList(u, r)
  <2>1. (tables' = WithoutRows(tables, Purged) \/ tables' = tables) /\ disk' = tables'
        /\ listed' = [listed EXCEPT ![u] = Offered(u, tables', r)] /\ UNCHANGED rooms
    BY <1>7 DEF HandleGetSavedMatchesList, Executes
  <2>2. tables' \in TableType
    BY <1>1, <2>1, WithoutRowsType
  <2>3. Offered(u, tables', r) \in SUBSET MatchId
    BY <2>2 DEF Offered, TableType
  <2> QED BY <1>1, <2>1, <2>2, <2>3
<1>8. CASE HandleDeleteSavedMatch(r, id)
  BY <1>1, <1>8, WithoutRowsType DEF HandleDeleteSavedMatch, Executes
<1>9. CASE HandleResumeSavedMatch(r, id)
  <2>1. tables.rows[id] \in Row
    BY <1>1, <1>9 DEF HandleResumeSavedMatch, Requests, TableType
  <2>2. Restored(tables.rows[id], id, r) \in Match
    BY <1>1, <2>1 DEF Restored, Match, Row, State, RoomType
  <2>3. rooms' = [rooms EXCEPT ![r] = [rooms[r] EXCEPT !.match = Restored(tables.rows[id], id, r)]]
    BY <1>1, <1>9 DEF HandleResumeSavedMatch
  <2>4. rooms' \in [Room -> RoomType]
    BY <1>1, <2>2, <2>3 DEF RoomType
  <2> QED BY <1>1, <1>2, <1>9, <2>4 DEF HandleResumeSavedMatch
<1>10. CASE Expire(id)
  <2> DEFINE row == [tables.rows[id] EXCEPT !.fresh = FALSE]
             new == [tables.rows EXCEPT ![id] = row]
  <2>1. tables' = [tables EXCEPT !.rows = new] /\ disk' = tables'
        /\ id \in DOMAIN tables.rows /\ UNCHANGED <<rooms, listed>>
    BY <1>1, <1>10 DEF Expire, Executes, TableType
  <2>2. tables.rows \in [DOMAIN tables.rows -> Row] /\ DOMAIN tables.rows \in SUBSET MatchId
    BY <1>1 DEF TableType
  <2>3. row \in Row
    BY <2>1, <2>2 DEF Row
  <2>4. new \in [DOMAIN tables.rows -> Row]
    BY <2>2, <2>3
  <2>5. tables' = [rows |-> new, participants |-> tables.participants]
    BY <1>1, <2>1 DEF TableType
  <2>6. new \in UNION {[ids -> Row] : ids \in SUBSET MatchId}
    BY <2>2, <2>4
  <2>7. tables' \in TableType
    BY <1>1, <2>5, <2>6 DEF TableType
  <2> QED BY <1>1, <2>1, <2>7
<1> QED BY <1>3, <1>4, <1>5, <1>6, <1>7, <1>8, <1>9, <1>10
\* RemoveMember either is done at once or opens a transaction, nothing written yet.
LEMMA RemovalTyped ==
  ASSUME SavedAssumption, SavedInv, NEW r \in Room, NEW u \in Member, RemoveMember(u, r)
  PROVE  SavedInv'
<1>1. /\ rooms \in [Room -> RoomType] /\ tables \in TableType /\ disk \in TableType
      /\ save \in SaveType /\ listed \in [User -> SUBSET MatchId]
      /\ rooms[r] \in RoomType /\ (Playing(r) => rooms[r].match \in Match)
      /\ NoneSaving /\ tables = disk
  BY PlayingType DEF SavedInv, SavedTypeOK, RemoveMember
<1>2. listed' \in [User -> SUBSET MatchId]
  BY <1>1 DEF RemoveMember
<1>3. ASSUME rooms' \in [Room -> RoomType], tables' \in TableType, disk' = tables', UNCHANGED save
      PROVE  SavedInv'
  BY <1>1, <1>2, <1>3 DEF SavedInv, SavedTypeOK, Halfway, NoneSaving
<1>4. ASSUME NEW by \in SUBSET User, NEW leaver \in SUBSET Member, BeginsSaving(r, by, leaver),
             rooms' \in [Room -> RoomType], rooms[r].match \in Match,
             rooms'[r].match \in Match, UNCHANGED <<tables, disk>>
      PROVE  SavedInv'
  <2>1. save' \in SaveType /\ save'.room = r /\ save'.stage = "upsert"
    BY <1>4 DEF BeginsSaving, SaveType
  <2>2. SavedMatch' \in Match /\ SavedMatch' # NoMatch
    BY <1>4, <2>1 DEF SavedMatch, SavedAssumption
  <2>3. SavedTypeOK'
    BY <1>1, <1>2, <1>4, <2>1, <2>2 DEF SavedTypeOK, NoneSaving, Playing, SavedMatch
  <2> QED BY <1>1, <1>4, <2>1, <2>2, <2>3 DEF SavedInv, Halfway
<1>5. CASE ~Playing(r) /\ Settle(r, Left(r, u)) /\ UNCHANGED <<tables, disk, save, history>>
  BY <1>1, <1>3, <1>5, SettleType, LeftType
<1>6. CASE QuitsMatch(u, r)
  <2>1. CASE rooms[r].settings.save_state
    <3>1. BeginsSaving(r, rooms[r].humans, {u}) /\ UNCHANGED <<rooms, tables, disk>>
      BY <1>6, <2>1 DEF QuitsMatch
    <3>2. rooms[r].humans \in SUBSET User /\ rooms[r].match \in Match
      BY <1>1, <1>6 DEF QuitsMatch, RoomType
    <3> QED BY <1>1, <1>4, <3>1, <3>2
  <2>2. CASE ~rooms[r].settings.save_state
    BY <1>1, <1>3, <1>6, <2>2, SettleType, LeftType DEF QuitsMatch
  <2> QED BY <2>1, <2>2
<1>7. CASE LeavesMatch(u, r)
  <2>1. Replaced(r, u) \in RoomType /\ Playing(r) /\ Replaced(r, u).match \in Match
    <3>1. Playing(r) /\ rooms[r].match \in Match
      BY <1>1, <1>7 DEF LeavesMatch
    <3>2. Left(r, u).match = rooms[r].match /\ Left(r, u) \in RoomType
      BY <1>1, LeftType DEF Left, RoomType
    <3>3. Replaced(r, u).match = [rooms[r].match EXCEPT !.seats = @ \ {u}]
      BY <3>2 DEF Replaced, RoomType
    <3> QED BY <1>1, <3>1, <3>3, LeftType DEF Match
  <2>2. CASE rooms[r].settings.save_state
    <3>1. BeginsSaving(r, rooms[r].humans \ {u}, {}) /\ UNCHANGED <<tables, disk>>
          /\ rooms' = [rooms EXCEPT ![r] = Replaced(r, u)]
      BY <1>7, <2>2 DEF LeavesMatch
    <3>2. rooms[r].humans \ {u} \in SUBSET User /\ rooms[r].match \in Match
      BY <1>1, <2>1 DEF RoomType
    <3>3. rooms' \in [Room -> RoomType] /\ rooms'[r].match \in Match
      BY <1>1, <2>1, <3>1
    <3> QED BY <1>4, <3>1, <3>2, <3>3
  <2>3. CASE ~rooms[r].settings.save_state
    BY <1>1, <1>3, <1>7, <2>1, <2>3, SettleType DEF LeavesMatch
  <2> QED BY <2>2, <2>3
<1>8. CASE EndsMatch(u, r)
  BY <1>1, <1>3, <1>8, SettleType, LeftType, WonType DEF EndsMatch
<1> QED BY <1>5, <1>6, <1>7, <1>8 DEF RemoveMember

\* The statements of a save, its end, and a crash.
LEMMA SaveStepsTyped ==
  ASSUME SavedAssumption, SavedInv,
         \/ UpsertRow \/ DeleteParticipants \/ \E u \in User : InsertParticipant(u)
         \/ Commit \/ SaveFails \/ Crash
  PROVE  SavedInv'
<1>1. /\ rooms \in [Room -> RoomType] /\ tables \in TableType /\ disk \in TableType
      /\ save \in SaveType /\ listed \in [User -> SUBSET MatchId]
  BY DEF SavedInv, SavedTypeOK
<1>2. CASE Crash
  <2>1. Empty \in RoomType
    BY DEF SavedAssumption, Empty, RoomType
  <2>2. rooms' \in [Room -> RoomType]
    BY <1>2, <2>1 DEF Crash
  <2>3. listed' \in [User -> SUBSET MatchId]
    BY <1>2 DEF Crash
  <2> QED BY <1>1, <1>2, <2>2, <2>3, NoSavingType
          DEF Crash, SavedInv, SavedTypeOK, Halfway, NoneSaving
<1>3. CASE Commit \/ SaveFails
  <2>1. ~NoneSaving /\ AfterSave /\ disk' = tables' /\ tables' \in TableType /\ UNCHANGED listed
    BY <1>1, <1>3 DEF Commit, SaveFails, NoneSaving
  <2> QED BY <1>1, <2>1, AfterSaveType, NoSavingType
          DEF SavedInv, SavedTypeOK, Halfway, NoneSaving
<1>4. ASSUME ~NoneSaving, UNCHANGED <<rooms, disk, listed>>,
             tables' \in TableType, save' \in SaveType, save'.room = save.room,
             save'.stage # "none"
      PROVE  SavedTypeOK' /\ SavedMatch' = SavedMatch /\ SavedMatch \in Match
             /\ SavedMatch.id \in MatchId
  BY <1>1, <1>4 DEF SavedInv, SavedTypeOK, Halfway, NoneSaving, Playing, SavedMatch, Match
<1>5. CASE UpsertRow
  <2> DEFINE id == SavedMatch.id
  <2>1. ~NoneSaving /\ save.stage = "upsert" /\ SavedMatch \in Match /\ tables = disk
    BY <1>5 DEF UpsertRow, SavedInv, Halfway, NoneSaving
  <2>2. save' \in SaveType /\ save'.stage = "delete" /\ save'.todo = save.todo
        /\ save'.room = save.room
    BY <1>1, <1>5 DEF UpsertRow, SaveType
  <2>3. /\ tables' \in TableType
        /\ DOMAIN tables'.rows = DOMAIN tables.rows \cup {id}
        /\ tables'.rows[id] = Upserted(id, save.todo)
        /\ \A i \in DOMAIN tables.rows \ {id} : tables'.rows[i] = tables.rows[i]
        /\ tables'.participants = tables.participants
    BY <1>5, <2>1, UpsertType DEF SavedInv
  <2>4. SavedTypeOK' /\ SavedMatch' = SavedMatch /\ id \in MatchId
    BY <1>4, <1>5, <2>1, <2>2, <2>3 DEF UpsertRow
  <2>5. tables'.rows[id].by = save.todo
    BY <2>3 DEF Upserted
  <2>6. \A i \in MatchId : Players(tables', i) = Players(disk, i)
    BY <2>1, <2>3 DEF Players
  <2>7. UNCHANGED disk
    BY <1>5 DEF UpsertRow
  <2>8. Halfway'
    BY <2>1, <2>2, <2>3, <2>4, <2>5, <2>6, <2>7 DEF Halfway, Players
  <2> QED BY <2>4, <2>8 DEF SavedInv
<1>6. CASE DeleteParticipants
  <2> DEFINE id == SavedMatch.id
             P  == {p \in tables.participants : p[1] # id}
  <2>1. ~NoneSaving /\ save.stage = "delete" /\ SavedMatch \in Match /\ UNCHANGED disk
    BY <1>6 DEF DeleteParticipants, SavedInv, Halfway, NoneSaving
  <2>2. save' \in SaveType /\ save'.stage = "insert" /\ save'.todo = save.todo
        /\ save'.room = save.room
    BY <1>1, <1>6 DEF DeleteParticipants, SaveType
  <2>3. tables' = [tables EXCEPT !.participants = P]
    BY <1>6 DEF DeleteParticipants
  <2>4. P \in SUBSET (MatchId \X User)
    BY <1>1 DEF TableType
  <2>5. tables' \in TableType /\ tables'.rows = tables.rows /\ tables'.participants = P
    BY <1>1, <2>3, <2>4, ParticipantsType
  <2>6. SavedTypeOK' /\ SavedMatch' = SavedMatch /\ id \in MatchId
    BY <1>4, <1>6, <2>1, <2>2, <2>5 DEF DeleteParticipants
  <2>7. Players(tables', id) = {}
    BY <2>5 DEF Players
  <2>8. \A i \in MatchId \ {id} : Players(tables', i) = Players(tables, i)
    BY <2>5 DEF Players
  <2>9. Halfway'
    BY <2>1, <2>2, <2>5, <2>6, <2>7, <2>8 DEF Halfway, SavedInv, Players
  <2> QED BY <2>6, <2>9 DEF SavedInv
<1>7. ASSUME NEW u \in User, InsertParticipant(u)
      PROVE  SavedInv'
  <2> DEFINE id == SavedMatch.id
             P  == tables.participants \cup {<<id, u>>}
  <2>1. ~NoneSaving /\ save.stage = "insert" /\ u \in save.todo /\ UNCHANGED disk
        /\ SavedMatch.id \in MatchId
    BY <1>7 DEF InsertParticipant, SavedInv, Halfway, NoneSaving, Match
  <2>2. save' \in SaveType /\ save'.stage = "insert" /\ save'.todo = save.todo \ {u}
        /\ save'.room = save.room
    BY <1>1, <1>7 DEF InsertParticipant, SaveType
  <2>3. tables' = [tables EXCEPT !.participants = P]
    BY <1>7 DEF InsertParticipant
  <2>4. P \in SUBSET (MatchId \X User)
    BY <1>1, <2>1 DEF TableType
  <2>5. tables' \in TableType /\ tables'.rows = tables.rows /\ tables'.participants = P
    BY <1>1, <2>3, <2>4, ParticipantsType
  <2>6. SavedTypeOK' /\ SavedMatch' = SavedMatch /\ id \in MatchId
    BY <1>4, <1>7, <2>1, <2>2, <2>5 DEF InsertParticipant
  <2>7. Players(tables', id) = Players(tables, id) \cup {u}
    BY <2>5 DEF Players
  <2>8. \A i \in MatchId \ {id} : Players(tables', i) = Players(tables, i)
    BY <2>5 DEF Players
  <2>9. Players(tables', id) \cup save'.todo = Players(tables, id) \cup save.todo
    BY <2>1, <2>2, <2>7
  <2>10. Halfway'
    BY <2>1, <2>2, <2>5, <2>6, <2>8, <2>9 DEF Halfway, SavedInv, Players
  <2> QED BY <2>6, <2>10 DEF SavedInv
<1> QED BY <1>2, <1>3, <1>5, <1>6, <1>7

-----------------------------------------------------------------------------
(***************************************************************************)
(* The invariant.                                                          *)
(***************************************************************************)
LEMMA SavedInit == SavedAssumption /\ Init => SavedInv
<1> SUFFICES ASSUME SavedAssumption, Init PROVE SavedInv
  OBVIOUS
<1>1. Empty \in RoomType
  BY DEF SavedAssumption, Empty, RoomType
<1>2. << >> \in [{} -> Row]
  OBVIOUS
<1>3. tables \in TableType
  BY <1>2 DEF Init, TableType
<1> QED BY <1>1, <1>3, NoSavingType DEF Init, SavedInv, SavedTypeOK, Halfway, NoneSaving

LEMMA SavedStep ==
  ASSUME SavedAssumption, SavedInv, [Next]_vars
  PROVE  SavedInv'
<1>1. CASE UNCHANGED vars
  BY <1>1 DEF vars, SavedInv, SavedTypeOK, Halfway, NoneSaving, Playing, SavedMatch, Players
<1>2. ASSUME NEW u \in User, NEW r \in Room,
             HandleJoin(u, r) \/ HandleGetSavedMatchesList(u, r)
      PROVE  SavedInv'
  <2>1. PICK id \in MatchId : TRUE
    BY DEF SavedAssumption
  <2> QED BY <1>2, <2>1, RoomStepsTyped
<1>2a. ASSUME NEW u \in Member, NEW r \in Room, RemoveMember(u, r)
       PROVE  SavedInv'
  BY <1>2a, RemovalTyped
<1>3. ASSUME NEW r \in Room, NEW id \in MatchId,
             \/ HandleUpdateSettings(r) \/ MatchOver(r) \/ HandleStartGame(r, id)
             \/ HandleDeleteSavedMatch(r, id) \/ HandleResumeSavedMatch(r, id) \/ Expire(id)
      PROVE  SavedInv'
  <2>1. PICK u \in User : TRUE
    BY DEF SavedAssumption
  <2> QED BY <1>3, <2>1, RoomStepsTyped
<1>4. CASE \/ UpsertRow \/ DeleteParticipants \/ \E u \in User : InsertParticipant(u)
           \/ Commit \/ SaveFails \/ Crash
  BY <1>4, SaveStepsTyped
<1>5. PICK r0 \in Room, id0 \in MatchId : TRUE
  BY DEF SavedAssumption
<1> QED BY <1>1, <1>2, <1>2a, <1>3, <1>4, <1>5 DEF Next

\* The type invariant, together with how far an open transaction has come.
THEOREM SavedTypeCorrect == Spec => []SavedTypeOK
<1>1. SavedAssumption
  BY SavedAssumption
<1>2. Init => SavedInv
  BY <1>1, SavedInit
<1>3. SavedInv /\ [Next]_vars => SavedInv'
  BY <1>1, SavedStep
<1>4. SavedInv => SavedTypeOK
  BY DEF SavedInv
<1> QED BY <1>2, <1>3, <1>4, PTL DEF Spec

-----------------------------------------------------------------------------
(***************************************************************************)
(* The refinement: which steps are a Put, which a Drop.                    *)
(***************************************************************************)
\* Tables that agree on rows, but for their age, and on the players of each row are
\* the same store.
LEMMA SameStore ==
  ASSUME NEW s \in TableType, NEW t \in TableType, DOMAIN s.rows = DOMAIN t.rows,
         \A id \in DOMAIN t.rows : /\ s.rows[id].by = t.rows[id].by
                                   /\ s.rows[id].state = t.rows[id].state
                                   /\ Players(s, id) = Players(t, id)
  PROVE  StoreOf(s) = StoreOf(t)
BY DEF StoreOf

\* Rows go, their participants may stay: a Drop.
LEMMA WithoutRowsDrops ==
  ASSUME disk \in TableType, NEW ids, disk' = WithoutRows(disk, ids)
  PROVE  Store!Next
<1>1. /\ DOMAIN disk'.rows = DOMAIN disk.rows \ ids
      /\ \A id \in DOMAIN disk.rows \ ids : disk'.rows[id] = disk.rows[id]
      /\ \A id \in MatchId : Players(disk', id) = Players(disk, id)
  BY WithoutRowsType DEF Players
<1>2. StoreOf(disk)' = [id \in MatchId |-> IF id \in ids \cap MatchId THEN NoSave ELSE StoreOf(disk)[id]]
  BY <1>1 DEF StoreOf
<1>3. Store!Drop(ids \cap MatchId)
  BY <1>2 DEF Store!Drop
<1> QED BY <1>3 DEF Store!Next

LEMMA WonDrops ==
  ASSUME SavedTypeOK, NoneSaving, NEW r \in Room, Won(r)
  PROVE  Store!Next \/ UNCHANGED StoreOf(disk)
<1>1. tables = disk /\ disk \in TableType
  BY DEF SavedTypeOK
<1>2. PICK id : \/ disk' = WithoutRows(disk, {id})
                \/ disk' = disk
  BY <1>1 DEF Won, WinDrops, Executes
<1>3. CASE disk' = disk
  BY <1>3 DEF StoreOf, Players
<1> QED BY <1>1, <1>2, <1>3, WithoutRowsDrops

\* A transaction that commits has written all of the players: a Put.
LEMMA CommitPuts ==
  ASSUME SavedInv, Commit
  PROVE  Store!Next
<1> DEFINE id == SavedMatch.id
           row == tables.rows[id]
<1>1. /\ id \in MatchId /\ id \in DOMAIN tables.rows /\ tables \in TableType
      /\ disk' = tables /\ Players(tables, id) = row.by
      /\ \A i \in MatchId \ {id} :
           /\ i \in DOMAIN tables.rows <=> i \in DOMAIN disk.rows
           /\ i \in DOMAIN disk.rows => tables.rows[i] = disk.rows[i]
           /\ Players(tables, i) = Players(disk, i)
  BY DEF Commit, SavedInv, SavedTypeOK, Halfway, NoneSaving, Match
<1>2. row.by \in SUBSET User /\ row.state \in State
  BY <1>1 DEF TableType, Row
<1>3. StoreOf(disk)' = StoreOf(tables)
  BY <1>1 DEF StoreOf, Players
<1>4. StoreOf(tables)[id] = [by |-> row.by, players |-> row.by, state |-> row.state]
  BY <1>1 DEF StoreOf
<1>5. \A i \in MatchId \ {id} : StoreOf(tables)[i] = StoreOf(disk)[i]
  BY <1>1 DEF StoreOf
<1>6. StoreOf(tables) = [StoreOf(disk) EXCEPT ![id] = StoreOf(tables)[id]]
  BY <1>1, <1>5 DEF StoreOf
<1>7. Store!Put(id, row.by, row.state)
  BY <1>3, <1>4, <1>6 DEF Store!Put, Store!Save
<1> QED BY <1>1, <1>2, <1>7 DEF Store!Next

LEMMA StoreStep ==
  ASSUME SavedAssumption, SavedInv, [Next]_vars
  PROVE  Store!Next \/ UNCHANGED StoreOf(disk)
<1>1. disk \in TableType /\ tables \in TableType /\ (NoneSaving => tables = disk)
  BY DEF SavedInv, SavedTypeOK
<1>2. CASE UNCHANGED disk
  BY <1>2 DEF StoreOf, Players
<1>3. ASSUME NEW u \in Member, NEW r \in Room, RemoveMember(u, r)
      PROVE  Store!Next \/ UNCHANGED StoreOf(disk)
  <2>1. NoneSaving /\ (UNCHANGED disk \/ Won(r))
    BY <1>3 DEF RemoveMember, QuitsMatch, LeavesMatch, EndsMatch
  <2> QED BY <1>2, <2>1, WonDrops DEF SavedInv
<1>4. ASSUME NEW u \in User, NEW r \in Room, HandleGetSavedMatchesList(u, r)
      PROVE  Store!Next \/ UNCHANGED StoreOf(disk)
  <2>1. disk' = WithoutRows(disk, Purged) \/ UNCHANGED disk
    BY <1>1, <1>4 DEF HandleGetSavedMatchesList, Executes
  <2> QED BY <1>1, <1>2, <2>1, WithoutRowsDrops
<1>5. ASSUME NEW r \in Room, MatchOver(r)
      PROVE  Store!Next \/ UNCHANGED StoreOf(disk)
  BY <1>5, WonDrops DEF MatchOver, SavedInv
<1>6. ASSUME NEW r \in Room, NEW id \in MatchId, HandleStartGame(r, id)
      PROVE  UNCHANGED StoreOf(disk)
  <2> DEFINE P == {p \in disk.participants : p[1] # id}
  <2>1. tables = disk /\ id \notin DOMAIN disk.rows /\ disk' = [disk EXCEPT !.participants = P]
    BY <1>1, <1>6 DEF HandleStartGame, Unused, Executes
  <2>2. P \in SUBSET (MatchId \X User)
    BY <1>1 DEF TableType
  <2>3. disk' \in TableType /\ disk'.rows = disk.rows /\ disk'.participants = P
    BY <1>1, <2>1, <2>2, ParticipantsType
  <2>4. \A i \in DOMAIN disk.rows : Players(disk', i) = Players(disk, i)
    BY <2>1, <2>3 DEF Players
  <2>5. StoreOf(disk') = StoreOf(disk)
    BY <1>1, <2>3, <2>4, SameStore
  <2> QED BY <2>5 DEF StoreOf, Players
<1>7. ASSUME NEW r \in Room, NEW id \in MatchId, HandleDeleteSavedMatch(r, id)
      PROVE  Store!Next
  BY <1>1, <1>7, WithoutRowsDrops DEF HandleDeleteSavedMatch, Requests, Executes
<1>8. ASSUME NEW id \in MatchId, Expire(id)
      PROVE  UNCHANGED StoreOf(disk)
  <2> DEFINE new == [disk.rows EXCEPT ![id] = [disk.rows[id] EXCEPT !.fresh = FALSE]]
  <2>1. disk' = [disk EXCEPT !.rows = new] /\ id \in DOMAIN disk.rows /\ tables = disk
    BY <1>1, <1>8 DEF Expire, Executes, TableType
  <2>2. disk'.rows = new /\ disk'.participants = disk.participants
    BY <1>1, <2>1 DEF TableType
  <2>3. disk.rows \in [DOMAIN disk.rows -> Row] /\ DOMAIN disk.rows \in SUBSET MatchId
    BY <1>1 DEF TableType
  <2>4. DOMAIN new = DOMAIN disk.rows /\ \A i \in DOMAIN disk.rows :
          new[i].by = disk.rows[i].by /\ new[i].state = disk.rows[i].state
    BY <2>1, <2>3 DEF Row
  <2>5. \A i \in MatchId : Players(disk', i) = Players(disk, i)
    BY <2>2 DEF Players
  <2> QED BY <2>2, <2>4, <2>5 DEF StoreOf
<1>9. CASE Commit
  BY <1>9, CommitPuts
<1>10. CASE \/ \E u \in User, r \in Room : HandleJoin(u, r)
            \/ \E r \in Room : HandleUpdateSettings(r)
            \/ \E r \in Room, id \in MatchId : HandleResumeSavedMatch(r, id)
            \/ UpsertRow \/ DeleteParticipants \/ \E u \in User : InsertParticipant(u)
            \/ SaveFails \/ Crash \/ UNCHANGED vars
  <2>1. UNCHANGED disk
    BY <1>10 DEF HandleJoin, HandleUpdateSettings, HandleResumeSavedMatch, UpsertRow,
       DeleteParticipants, InsertParticipant, SaveFails, Crash, vars
  <2> QED BY <1>2, <2>1
<1> QED BY <1>3, <1>4, <1>5, <1>6, <1>7, <1>8, <1>9, <1>10 DEF Next

\* Saving by SaveMatchStateToDB, interrupted or not, deleting, purging, winning and
\* resuming implement a store in which a save is whole or not there.
THEOREM SavesAreWhole == Spec => WholeSaves
<1>1. SavedAssumption
  BY SavedAssumption
<1>2. Init => SavedInv /\ Store!Init
  <2>1. Init => SavedInv
    BY <1>1, SavedInit
  <2>2. Init => Store!Init
    BY DEF Init, Store!Init, StoreOf
  <2> QED BY <2>1, <2>2
<1>3. SavedInv /\ [Next]_vars => SavedInv'
  BY <1>1, SavedStep
<1>4. SavedInv /\ [Next]_vars => [Store!Next]_(StoreOf(disk))
  BY <1>1, StoreStep
<1> QED BY <1>2, <1>3, <1>4, PTL DEF Spec, WholeSaves, Store!Spec

-----------------------------------------------------------------------------
(***************************************************************************)
(* That saves go when their match has been won, and not before a day is    *)
(* over, for any number of users, rooms and matches.  The first looks at   *)
(* where a match has a trace from which a save of it could come back: in   *)
(* the tables, committed or not, and in the rooms that play it.            *)
(***************************************************************************)
Played == {rooms[r].match.id : r \in {s \in Room : Playing(s)}}
Traces == Played \cup DOMAIN disk.rows \cup DOMAIN tables.rows
Gone   == won \ spared

NoTraceLeft == Gone \cap Traces = {}

Fresh(t) == {id \in DOMAIN t.rows : t.rows[id].fresh}

\* A row of the day is good for the day, also that which is about to be committed.
KeptFresh ==
  /\ today \subseteq Fresh(disk)
  /\ save.stage \in {"delete", "insert"} => SavedMatch.id \in Fresh(tables)

-----------------------------------------------------------------------------
(***************************************************************************)
(* What the rooms play.                                                    *)
(***************************************************************************)
\* No room plays a match that it did not play before.
PlaysNoOther ==
  \A r \in Room : Playing(r)' => Playing(r) /\ rooms'[r].match.id = rooms[r].match.id

LEMMA PlaysNoOtherKeeps == PlaysNoOther => Played' \subseteq Played
  BY DEF PlaysNoOther, Played

LEMMA EmptyPlaysNothing == Empty.match = NoMatch
  BY DEF Empty

LEMMA SettlePlays ==
  ASSUME rooms \in [Room -> RoomType], NEW r \in Room, NEW q \in RoomType, Settle(r, q),
         q.match # NoMatch => Playing(r) /\ q.match.id = rooms[r].match.id
  PROVE  PlaysNoOther
<1>1. \A s \in Room \ {r} : rooms'[s] = rooms[s]  BY DEF Settle
<1>2. rooms'[r] = q \/ rooms'[r] = Empty  BY DEF Settle
<1>. QED  BY <1>1, <1>2, EmptyPlaysNothing DEF PlaysNoOther, Playing

\* Without its match a room plays nothing; with a member less it plays the same.
LEMMA LeftPlays ==
  ASSUME rooms \in [Room -> RoomType], NEW r \in Room, NEW u
  PROVE  Left(r, u).match = rooms[r].match /\ Quit(r, u).match = NoMatch
<1>1. rooms[r] \in RoomType  OBVIOUS
<1>. QED  BY <1>1 DEF Left, Quit, RoomType

LEMMA AfterSavePlays ==
  ASSUME SavedAssumption, SavedTypeOK, ~NoneSaving, AfterSave
  PROVE  PlaysNoOther
<1>1. save.room \in Room /\ rooms \in [Room -> RoomType] /\ save.leaver \in SUBSET Member
  BY DEF SavedTypeOK, SaveType
<1>2. CASE save.leaver = {}
  BY <1>1, <1>2, SettlePlays DEF AfterSave, Playing
<1>3. CASE save.leaver # {}
  <2>1. PICK u \in Member : Settle(save.room, Quit(save.room, u))
    BY <1>1, <1>3 DEF AfterSave
  <2>. QED  BY <1>1, <2>1, LeftType, LeftPlays, SettlePlays
<1>. QED  BY <1>2, <1>3

-----------------------------------------------------------------------------
(***************************************************************************)
(* A match that is won.                                                    *)
(***************************************************************************)
\* A step that leaves no new trace of a match, and wins none.
LEMMA FewerTracesKeep ==
  ASSUME NoTraceLeft, Traces' \subseteq Traces, UNCHANGED <<won, spared>>
  PROVE  NoTraceLeft'
  BY DEF NoTraceLeft, Gone

LEMMA NoRowsMore ==
  ASSUME NEW t \in TableType, NEW ids
  PROVE  DOMAIN WithoutRows(t, ids).rows = DOMAIN t.rows \ ids
  BY WithoutRowsType

LEMMA WonLeavesNoTrace ==
  ASSUME SavedTypeOK, NoneSaving, NoTraceLeft, NEW r \in Room, Playing(r), Won(r),
         PlaysNoOther, ~Playing(r)'
  PROVE  NoTraceLeft'
<1>. DEFINE id == rooms[r].match.id
<1>1. tables = disk /\ tables' = disk' /\ tables \in TableType
  BY DEF SavedTypeOK, Won, WinDrops, Executes
<1>2. won' = won \cup {id}  BY DEF Won
<1>3. DOMAIN tables'.rows \subseteq DOMAIN tables.rows
  BY <1>1, NoRowsMore DEF Won, WinDrops, Executes
<1>4. Played' \subseteq Played  BY PlaysNoOtherKeeps
<1>5. Traces' \subseteq Traces  BY <1>1, <1>3, <1>4 DEF Traces
<1>6. CASE spared' = spared \cup {id}
  BY <1>2, <1>5, <1>6 DEF NoTraceLeft, Gone
<1>7. CASE InPlay(id) = {r} /\ tables' = WithoutRows(tables, {id}) /\ spared' = spared
  <2>1. id \notin DOMAIN tables'.rows  BY <1>1, <1>7, NoRowsMore
  <2>2. id \notin Played'
    <3>1. SUFFICES ASSUME NEW s \in Room, Playing(s)', rooms'[s].match.id = id PROVE FALSE
      BY DEF Played
    <3>2. Playing(s) /\ rooms[s].match.id = id  BY <3>1 DEF PlaysNoOther
    <3>3. s \in InPlay(id)  BY <3>2 DEF InPlay
    <3>. QED  BY <1>7, <3>1, <3>3
  <2>3. id \notin Traces'  BY <1>1, <2>1, <2>2 DEF Traces
  <2>. QED  BY <1>2, <1>5, <1>7, <2>3 DEF NoTraceLeft, Gone
<1>. QED  BY <1>6, <1>7 DEF Won, WinDrops, Executes

LEMMA RemovalLeavesNoTrace ==
  ASSUME SavedAssumption, SavedTypeOK, NoTraceLeft,
         NEW u \in Member, NEW r \in Room, RemoveMember(u, r)
  PROVE  NoTraceLeft'
<1>1. /\ rooms \in [Room -> RoomType] /\ rooms[r] \in RoomType /\ NoneSaving
      /\ Left(r, u) \in RoomType /\ Quit(r, u) \in RoomType
      /\ Left(r, u).match = rooms[r].match /\ Quit(r, u).match = NoMatch
  BY LeftType, LeftPlays DEF RemoveMember, SavedTypeOK
<1>2. ASSUME PlaysNoOther, UNCHANGED <<tables, disk, won, spared>> PROVE NoTraceLeft'
  <2>1. Traces' \subseteq Traces  BY <1>2, PlaysNoOtherKeeps DEF Traces
  <2>. QED  BY <1>2, <2>1, FewerTracesKeep
<1>3. CASE ~Playing(r) /\ Settle(r, Left(r, u)) /\ UNCHANGED <<tables, disk, save, history>>
  <2>1. PlaysNoOther  BY <1>1, <1>3, SettlePlays DEF Playing
  <2>. QED  BY <1>2, <1>3, <2>1 DEF history
<1>4. CASE QuitsMatch(u, r)
  <2>1. PlaysNoOther
    <3>1. CASE UNCHANGED rooms  BY <3>1 DEF PlaysNoOther, Playing
    <3>2. CASE Settle(r, Quit(r, u))  BY <1>1, <3>2, SettlePlays
    <3>. QED  BY <1>4, <3>1, <3>2 DEF QuitsMatch
  <2>. QED  BY <1>2, <1>4, <2>1 DEF QuitsMatch, history
<1>5. CASE LeavesMatch(u, r)
  <2>1. Playing(r) /\ Replaced(r, u) \in RoomType /\ Replaced(r, u).match.id = rooms[r].match.id
    BY <1>1, <1>5, LeftType DEF LeavesMatch
  <2>2. PlaysNoOther
    <3>1. CASE rooms' = [rooms EXCEPT ![r] = Replaced(r, u)]
      BY <1>1, <2>1, <3>1 DEF PlaysNoOther, Playing
    <3>2. CASE Settle(r, Replaced(r, u))  BY <1>1, <2>1, <3>2, SettlePlays
    <3>. QED  BY <1>5, <3>1, <3>2 DEF LeavesMatch
  <2>. QED  BY <1>2, <1>5, <2>2 DEF LeavesMatch, history
<1>6. CASE EndsMatch(u, r)
  <2>1. Playing(r) /\ Settle(r, Quit(r, u))  BY <1>6 DEF EndsMatch
  <2>2. PlaysNoOther  BY <1>1, <2>1, SettlePlays
  <2>3. ~Playing(r)'
    BY <1>1, <2>1, EmptyPlaysNothing DEF Settle, Playing
  <2>4. CASE Won(r)  BY <1>1, <2>1, <2>2, <2>3, <2>4, WonLeavesNoTrace
  <2>5. CASE UNCHANGED <<tables, disk, won, spared, today>>  BY <1>2, <2>2, <2>5
  <2>. QED  BY <1>6, <2>4, <2>5 DEF EndsMatch
<1>. QED  BY <1>3, <1>4, <1>5, <1>6 DEF RemoveMember

\* Handlers that neither save nor remove a member.
LEMMA RoomStepsLeaveNoTrace ==
  ASSUME SavedAssumption, SavedTypeOK, NoTraceLeft,
         NEW r \in Room, NEW u \in User, NEW id \in MatchId,
         \/ HandleJoin(u, r) \/ HandleUpdateSettings(r) \/ HandleStartGame(r, id)
         \/ MatchOver(r) \/ HandleGetSavedMatchesList(u, r)
         \/ HandleDeleteSavedMatch(r, id) \/ HandleResumeSavedMatch(r, id) \/ Expire(id)
  PROVE  NoTraceLeft'
<1>1. /\ rooms \in [Room -> RoomType] /\ rooms[r] \in RoomType
      /\ (Playing(r) => rooms[r].match \in Match) /\ tables \in TableType
  BY PlayingType DEF SavedTypeOK
<1>2. NoneSaving /\ tables = disk
  BY DEF HandleJoin, HandleUpdateSettings, HandleStartGame, MatchOver, Requests,
         HandleGetSavedMatchesList, HandleDeleteSavedMatch, HandleResumeSavedMatch, Expire,
         SavedTypeOK
<1>3. ASSUME PlaysNoOther, disk' = tables', DOMAIN tables'.rows \subseteq DOMAIN tables.rows,
             UNCHANGED <<won, spared>>
      PROVE  NoTraceLeft'
  <2>1. Traces' \subseteq Traces  BY <1>2, <1>3, PlaysNoOtherKeeps DEF Traces
  <2>. QED  BY <1>3, <2>1, FewerTracesKeep
<1>4. CASE HandleJoin(u, r)
  <2>1. PICK s \in Settings, m \in Mods :
          rooms' = [rooms EXCEPT ![r] = [humans |-> rooms[r].humans \cup {u},
            settings |-> s, mods |-> m,
            match |-> IF Playing(r)
                      THEN [rooms[r].match EXCEPT !.seats = @ \cup {u}] ELSE NoMatch]]
    BY <1>4 DEF HandleJoin
  <2>2. Playing(r) => [rooms[r].match EXCEPT !.seats = @ \cup {u}].id = rooms[r].match.id
    BY <1>1 DEF Match
  <2>3. PlaysNoOther  BY <1>1, <2>1, <2>2 DEF PlaysNoOther, Playing
  <2>. QED  BY <1>2, <1>3, <1>4, <2>3 DEF HandleJoin, history
<1>5. CASE HandleUpdateSettings(r)
  <2>1. PICK s \in Settings, m \in Mods :
          rooms' = [rooms EXCEPT ![r].settings = s, ![r].mods = m]
    BY <1>5 DEF HandleUpdateSettings
  <2>2. rooms'[r].match = rooms[r].match /\ \A t \in Room \ {r} : rooms'[t] = rooms[t]
    BY <1>1, <2>1 DEF RoomType
  <2>3. PlaysNoOther  BY <2>2 DEF PlaysNoOther, Playing
  <2>. QED  BY <1>2, <1>3, <1>5, <2>3 DEF HandleUpdateSettings, history
<1>6. CASE HandleStartGame(r, id)
  <2>1. /\ rooms'[r].match.id = id /\ \A t \in Room \ {r} : rooms'[t] = rooms[t]
        /\ tables'.rows = tables.rows /\ disk' = tables'
        /\ won' = won \ {id} /\ spared' = spared \ {id}
    BY <1>1, <1>6 DEF HandleStartGame, Executes, RoomType, TableType
  <2>2. Played' \subseteq Played \cup {id}  BY <2>1 DEF Played, Playing
  <2>3. Traces' \subseteq Traces \cup {id}  BY <1>2, <2>1, <2>2 DEF Traces
  <2>. QED  BY <2>1, <2>3 DEF NoTraceLeft, Gone
<1>7. CASE MatchOver(r)
  <2>1. Playing(r) /\ Won(r) /\ rooms'[r].match = NoMatch
        /\ \A t \in Room \ {r} : rooms'[t] = rooms[t]
    BY <1>1, <1>7 DEF MatchOver, RoomType
  <2>2. PlaysNoOther /\ ~Playing(r)'  BY <2>1 DEF PlaysNoOther, Playing
  <2>. QED  BY <1>2, <2>1, <2>2, WonLeavesNoTrace
<1>8. CASE HandleGetSavedMatchesList(u, r)
  <2>1. /\ tables' = WithoutRows(tables, Purged) \/ tables' = tables
        /\ disk' = tables' /\ UNCHANGED <<rooms, won, spared>>
    BY <1>8 DEF HandleGetSavedMatchesList, Executes, history
  <2>2. PlaysNoOther  BY <2>1 DEF PlaysNoOther, Playing
  <2>. QED  BY <1>1, <1>3, <2>1, <2>2, NoRowsMore
<1>9. CASE HandleDeleteSavedMatch(r, id)
  <2>1. tables' = WithoutRows(tables, {id}) /\ disk' = tables' /\ UNCHANGED <<rooms, won, spared>>
    BY <1>9 DEF HandleDeleteSavedMatch, Executes
  <2>2. PlaysNoOther  BY <2>1 DEF PlaysNoOther, Playing
  <2>. QED  BY <1>1, <1>3, <2>1, <2>2, NoRowsMore
<1>10. CASE HandleResumeSavedMatch(r, id)
  <2>1. /\ rooms'[r].match.id = id /\ \A t \in Room \ {r} : rooms'[t] = rooms[t]
        /\ id \in DOMAIN tables.rows /\ UNCHANGED <<tables, disk, won, spared>>
    BY <1>1, <1>10 DEF HandleResumeSavedMatch, Requests, Restored, RoomType, history
  <2>2. Played' \subseteq Played \cup {id}  BY <2>1 DEF Played, Playing
  <2>3. Traces' \subseteq Traces  BY <2>1, <2>2 DEF Traces
  <2>. QED  BY <2>1, <2>3, FewerTracesKeep
<1>11. CASE Expire(id)
  <2>1. tables' = [tables EXCEPT !.rows[id].fresh = FALSE] /\ disk' = tables'
        /\ UNCHANGED <<rooms, won, spared>>
    BY <1>11 DEF Expire, Executes
  <2>2. DOMAIN tables'.rows = DOMAIN tables.rows  BY <1>1, <2>1 DEF TableType
  <2>3. PlaysNoOther  BY <2>1 DEF PlaysNoOther, Playing
  <2>. QED  BY <1>3, <2>1, <2>2, <2>3
<1>. QED  BY <1>4, <1>5, <1>6, <1>7, <1>8, <1>9, <1>10, <1>11

\* The statements of a save, its end, and a crash: the match being saved is played.
LEMMA SaveStepsLeaveNoTrace ==
  ASSUME SavedAssumption, SavedInv, NoTraceLeft,
         \/ UpsertRow \/ DeleteParticipants \/ \E u \in User : InsertParticipant(u)
         \/ Commit \/ SaveFails \/ Crash
  PROVE  NoTraceLeft'
<1>1. UNCHANGED <<won, spared>> /\ SavedTypeOK /\ tables \in TableType
  BY DEF UpsertRow, DeleteParticipants, InsertParticipant, Commit, SaveFails, Crash, history,
         SavedInv, SavedTypeOK
<1>2. CASE UpsertRow
  <2>1. ~NoneSaving  BY <1>2 DEF UpsertRow, NoneSaving
  <2>2. SavedMatch \in Match /\ SavedMatch.id \in Played
    BY <1>1, <2>1 DEF SavedInv, Halfway, SavedTypeOK, Played, SavedMatch
  <2>3. DOMAIN tables'.rows = DOMAIN tables.rows \cup {SavedMatch.id}
    BY <1>1, <1>2, <2>2, UpsertType
  <2>4. Played' = Played /\ disk' = disk  BY <1>2 DEF UpsertRow, Played, Playing
  <2>5. Traces' \subseteq Traces  BY <2>2, <2>3, <2>4 DEF Traces
  <2>. QED  BY <1>1, <2>5, FewerTracesKeep
<1>3. CASE DeleteParticipants \/ \E u \in User : InsertParticipant(u)
  <2>1. UNCHANGED <<rooms, disk>> /\ tables'.rows = tables.rows
    BY <1>1, <1>3 DEF DeleteParticipants, InsertParticipant, TableType
  <2>2. Traces' \subseteq Traces  BY <2>1 DEF Traces, Played, Playing
  <2>. QED  BY <1>1, <2>2, FewerTracesKeep
<1>4. CASE Commit \/ SaveFails
  <2>1. ~NoneSaving /\ AfterSave  BY <1>4 DEF Commit, SaveFails, NoneSaving
  <2>2. Played' \subseteq Played  BY <1>1, <2>1, AfterSavePlays, PlaysNoOtherKeeps
  <2>3. Traces' \subseteq Traces  BY <1>4, <2>2 DEF Commit, SaveFails, Traces
  <2>. QED  BY <1>1, <2>3, FewerTracesKeep
<1>5. CASE Crash
  <2>1. PlaysNoOther  BY <1>5, EmptyPlaysNothing DEF Crash, PlaysNoOther, Playing
  <2>2. Traces' \subseteq Traces  BY <1>5, <2>1, PlaysNoOtherKeeps DEF Crash, Traces
  <2>. QED  BY <1>1, <2>2, FewerTracesKeep
<1>. QED  BY <1>2, <1>3, <1>4, <1>5

LEMMA NoTraceInitial == Init => NoTraceLeft
  BY DEF Init, NoTraceLeft, Gone

LEMMA NoTraceStep ==
  ASSUME SavedAssumption, SavedInv, NoTraceLeft, [Next]_vars
  PROVE  NoTraceLeft'
<1>1. SavedTypeOK  BY DEF SavedInv
<1>2. CASE UNCHANGED vars
  BY <1>2 DEF vars, history, NoTraceLeft, Gone, Traces, Played, Playing
<1>3. PICK r0 \in Room, id0 \in MatchId, u0 \in User : TRUE
  BY DEF SavedAssumption
<1>4. ASSUME NEW u \in User, NEW r \in Room,
             HandleJoin(u, r) \/ HandleGetSavedMatchesList(u, r)
      PROVE  NoTraceLeft'
  BY <1>1, <1>3, <1>4, RoomStepsLeaveNoTrace
<1>4a. ASSUME NEW u \in Member, NEW r \in Room, RemoveMember(u, r)
       PROVE  NoTraceLeft'
  BY <1>1, <1>4a, RemovalLeavesNoTrace
<1>5. ASSUME NEW r \in Room, NEW id \in MatchId,
             \/ HandleUpdateSettings(r) \/ MatchOver(r) \/ HandleStartGame(r, id)
             \/ HandleDeleteSavedMatch(r, id) \/ HandleResumeSavedMatch(r, id) \/ Expire(id)
      PROVE  NoTraceLeft'
  BY <1>1, <1>3, <1>5, RoomStepsLeaveNoTrace
<1>6. CASE \/ UpsertRow \/ DeleteParticipants \/ \E u \in User : InsertParticipant(u)
           \/ Commit \/ SaveFails \/ Crash
  BY <1>6, SaveStepsLeaveNoTrace
<1>. QED  BY <1>2, <1>3, <1>4, <1>4a, <1>5, <1>6 DEF Next

\* A match that has been won has no save any more, and none comes back: not by a save
\* under way, a rollback, a crash or a resumption in another room.
THEOREM WonMatchesAreGone == Spec => []WonIsGone
<1>1. SavedAssumption  BY SavedAssumption
<1>2. Init => SavedInv /\ NoTraceLeft  BY <1>1, SavedInit, NoTraceInitial
<1>3. SavedInv /\ NoTraceLeft /\ [Next]_vars => (SavedInv /\ NoTraceLeft)'
  BY <1>1, SavedStep, NoTraceStep
<1>4. NoTraceLeft => WonIsGone  BY DEF NoTraceLeft, Gone, Traces, WonIsGone
<1>. QED  BY <1>2, <1>3, <1>4, PTL DEF Spec

-----------------------------------------------------------------------------
(***************************************************************************)
(* The day a save is kept for.                                             *)
(***************************************************************************)
\* Between two handlers: today's rows are fresh afterwards if they were before.
LEMMA FreshOutsideSaves ==
  ASSUME NoneSaving', today' \subseteq Fresh(disk)'
  PROVE  KeptFresh'
  BY DEF KeptFresh, NoneSaving

LEMMA WithoutRowsFresh ==
  ASSUME NEW t \in TableType, NEW ids
  PROVE  Fresh(WithoutRows(t, ids)) = Fresh(t) \ ids
  BY WithoutRowsType DEF Fresh

LEMMA WonKeepsFresh ==
  ASSUME SavedTypeOK, NoneSaving, today \subseteq Fresh(disk), NEW r \in Room, Won(r)
  PROVE  today' \subseteq Fresh(disk')
<1>1. tables = disk /\ tables \in TableType  BY DEF SavedTypeOK
<1>2. today' = today \ {rooms[r].match.id}  BY DEF Won
<1>3. disk' = disk \/ disk' = WithoutRows(disk, {rooms[r].match.id})
  BY <1>1 DEF Won, WinDrops, Executes
<1>. QED  BY <1>1, <1>2, <1>3, WithoutRowsFresh

LEMMA RoomStepsKeepFresh ==
  ASSUME SavedTypeOK, KeptFresh,
         NEW r \in Room, NEW u \in User, NEW id \in MatchId,
         \/ HandleJoin(u, r) \/ HandleUpdateSettings(r) \/ HandleStartGame(r, id)
         \/ MatchOver(r) \/ HandleGetSavedMatchesList(u, r)
         \/ HandleDeleteSavedMatch(r, id) \/ HandleResumeSavedMatch(r, id) \/ Expire(id)
  PROVE  KeptFresh'
<1>1. NoneSaving /\ NoneSaving' /\ tables = disk /\ tables \in TableType
  BY DEF HandleJoin, HandleUpdateSettings, HandleStartGame, MatchOver, Requests,
         HandleGetSavedMatchesList, HandleDeleteSavedMatch, HandleResumeSavedMatch, Expire,
         SavedTypeOK, NoneSaving
<1>2. today \subseteq Fresh(disk)  BY DEF KeptFresh
<1>. SUFFICES today' \subseteq Fresh(disk')  BY <1>1, FreshOutsideSaves DEF Fresh
<1>3. CASE HandleJoin(u, r) \/ HandleUpdateSettings(r) \/ HandleResumeSavedMatch(r, id)
  BY <1>2, <1>3 DEF HandleJoin, HandleUpdateSettings, HandleResumeSavedMatch, history, Fresh
<1>4. CASE HandleStartGame(r, id)
  <2>1. disk'.rows = disk.rows /\ today' = today \ {id}
    BY <1>1, <1>4 DEF HandleStartGame, Executes, TableType
  <2>. QED  BY <1>2, <2>1 DEF Fresh
<1>5. CASE MatchOver(r)  BY <1>1, <1>2, <1>5, WonKeepsFresh DEF MatchOver
<1>6. CASE HandleGetSavedMatchesList(u, r)
  <2>1. disk' = WithoutRows(disk, Purged) \/ disk' = disk
    BY <1>1, <1>6 DEF HandleGetSavedMatchesList, Executes
  <2>2. today' = today /\ Purged \cap Fresh(disk) = {}
    BY <1>1, <1>6 DEF HandleGetSavedMatchesList, history, Purged, Fresh
  <2>3. Fresh(disk') = Fresh(disk) \ Purged \/ Fresh(disk') = Fresh(disk)
    BY <1>1, <2>1, WithoutRowsFresh
  <2>. QED  BY <1>2, <2>2, <2>3
<1>7. CASE HandleDeleteSavedMatch(r, id)
  <2>1. disk' = WithoutRows(disk, {id}) /\ today' = today \ {id}
    BY <1>1, <1>7 DEF HandleDeleteSavedMatch, Executes
  <2>2. Fresh(disk') = Fresh(disk) \ {id}  BY <1>1, <2>1, WithoutRowsFresh
  <2>. QED  BY <1>2, <2>1, <2>2
<1>8. CASE Expire(id)
  <2>1. disk' = [disk EXCEPT !.rows[id].fresh = FALSE] /\ today' = today \ {id}
    BY <1>1, <1>8 DEF Expire, Executes
  <2>2. /\ DOMAIN disk'.rows = DOMAIN disk.rows
        /\ \A i \in DOMAIN disk.rows \ {id} : disk'.rows[i] = disk.rows[i]
    BY <1>1, <2>1 DEF TableType
  <2>. QED  BY <1>2, <2>1, <2>2 DEF Fresh
<1>. QED  BY <1>3, <1>4, <1>5, <1>6, <1>7, <1>8

LEMMA RemovalKeepsFresh ==
  ASSUME SavedTypeOK, KeptFresh, NEW u \in Member, NEW r \in Room, RemoveMember(u, r)
  PROVE  KeptFresh'
<1>1. NoneSaving /\ today \subseteq Fresh(disk)  BY DEF RemoveMember, KeptFresh
<1>2. save'.stage \in {"none", "upsert"}
  BY <1>1 DEF RemoveMember, QuitsMatch, LeavesMatch, EndsMatch, BeginsSaving, NoneSaving
<1>3. UNCHANGED <<disk, today>> \/ Won(r)
  BY DEF RemoveMember, QuitsMatch, LeavesMatch, EndsMatch, history
<1>4. today' \subseteq Fresh(disk')  BY <1>1, <1>3, WonKeepsFresh
<1>. QED  BY <1>2, <1>4 DEF KeptFresh, Fresh

LEMMA SaveStepsKeepFresh ==
  ASSUME SavedInv, KeptFresh,
         \/ UpsertRow \/ DeleteParticipants \/ \E u \in User : InsertParticipant(u)
         \/ Commit \/ SaveFails \/ Crash
  PROVE  KeptFresh'
<1>1. /\ SavedTypeOK /\ tables \in TableType /\ save \in SaveType
      /\ today \subseteq Fresh(disk)
  BY DEF SavedInv, SavedTypeOK, KeptFresh
<1>2. CASE UpsertRow
  <2>1. SavedMatch \in Match  BY <1>2 DEF UpsertRow, NoneSaving, SavedInv, Halfway
  <2>2. SavedMatch.id \in DOMAIN tables'.rows /\ tables'.rows[SavedMatch.id].fresh
    BY <1>1, <1>2, <2>1, UpsertType DEF Upserted
  <2>3. SavedMatch' = SavedMatch /\ UNCHANGED <<disk, today>>
    BY <1>1, <1>2 DEF UpsertRow, SavedMatch, SaveType, history
  <2>. QED  BY <1>1, <2>2, <2>3 DEF KeptFresh, Fresh
<1>3. CASE DeleteParticipants \/ \E u \in User : InsertParticipant(u)
  <2>1. /\ save.stage \in {"delete", "insert"} /\ tables'.rows = tables.rows
        /\ SavedMatch' = SavedMatch /\ UNCHANGED <<disk, today>>
    BY <1>1, <1>3 DEF DeleteParticipants, InsertParticipant, SavedMatch, SaveType, TableType, history
  <2>. QED  BY <1>1, <2>1 DEF KeptFresh, Fresh
<1>4. CASE Commit
  <2>1. /\ save.stage = "insert" /\ disk' = tables /\ save' = NoSaving
        /\ today' = today \cup {SavedMatch.id}
    BY <1>4 DEF Commit, AfterSave
  <2>2. SavedMatch.id \in Fresh(tables)  BY <2>1 DEF KeptFresh
  <2>3. \A i \in MatchId \ {SavedMatch.id} :
          /\ i \in DOMAIN tables.rows <=> i \in DOMAIN disk.rows
          /\ i \in DOMAIN disk.rows => tables.rows[i] = disk.rows[i]
    BY <2>1 DEF SavedInv, Halfway, NoneSaving
  <2>4. DOMAIN disk.rows \subseteq MatchId  BY DEF SavedInv, SavedTypeOK, TableType
  <2>5. today' \subseteq Fresh(disk')  BY <1>1, <2>1, <2>2, <2>3, <2>4 DEF Fresh
  <2>6. NoneSaving'  BY <2>1, NoSavingType DEF NoneSaving
  <2>. QED  BY <2>5, <2>6, FreshOutsideSaves DEF Fresh
<1>5. CASE SaveFails \/ Crash
  <2>1. save' = NoSaving /\ UNCHANGED <<disk, today>>
    BY <1>5 DEF SaveFails, Crash, AfterSave, history
  <2>2. NoneSaving'  BY <2>1, NoSavingType DEF NoneSaving
  <2>. QED  BY <1>1, <2>1, <2>2, FreshOutsideSaves DEF Fresh
<1>. QED  BY <1>2, <1>3, <1>4, <1>5

LEMMA FreshStep ==
  ASSUME SavedAssumption, SavedInv, KeptFresh, [Next]_vars
  PROVE  KeptFresh'
<1>1. SavedTypeOK  BY DEF SavedInv
<1>2. CASE UNCHANGED vars
  BY <1>2 DEF vars, history, KeptFresh, Fresh, SavedMatch
<1>3. PICK r0 \in Room, id0 \in MatchId, u0 \in User : TRUE
  BY DEF SavedAssumption
<1>4. ASSUME NEW u \in User, NEW r \in Room,
             HandleJoin(u, r) \/ HandleGetSavedMatchesList(u, r)
      PROVE  KeptFresh'
  BY <1>1, <1>3, <1>4, RoomStepsKeepFresh
<1>4a. ASSUME NEW u \in Member, NEW r \in Room, RemoveMember(u, r)
       PROVE  KeptFresh'
  BY <1>1, <1>4a, RemovalKeepsFresh
<1>5. ASSUME NEW r \in Room, NEW id \in MatchId,
             \/ HandleUpdateSettings(r) \/ MatchOver(r) \/ HandleStartGame(r, id)
             \/ HandleDeleteSavedMatch(r, id) \/ HandleResumeSavedMatch(r, id) \/ Expire(id)
      PROVE  KeptFresh'
  BY <1>1, <1>3, <1>5, RoomStepsKeepFresh
<1>6. CASE \/ UpsertRow \/ DeleteParticipants \/ \E u \in User : InsertParticipant(u)
           \/ Commit \/ SaveFails \/ Crash
  BY <1>6, SaveStepsKeepFresh
<1>. QED  BY <1>2, <1>3, <1>4, <1>4a, <1>5, <1>6 DEF Next

\* A match saved within the day is there until it is won or deleted: no purge, crash
\* or failed save of later takes it.
THEOREM RecentSavesAreKept == Spec => []RecentSavesKept
<1>1. SavedAssumption  BY SavedAssumption
<1>2. Init => SavedInv /\ KeptFresh
  <2>1. Init => KeptFresh  BY NoSavingType DEF Init, KeptFresh
  <2>. QED  BY <1>1, <2>1, SavedInit
<1>3. SavedInv /\ KeptFresh /\ [Next]_vars => (SavedInv /\ KeptFresh)'
  BY <1>1, SavedStep, FreshStep
<1>4. KeptFresh => RecentSavesKept  BY DEF KeptFresh, Fresh, RecentSavesKept
<1>. QED  BY <1>2, <1>3, <1>4, PTL DEF Spec
=============================================================================
