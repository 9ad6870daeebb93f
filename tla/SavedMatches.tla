---------------------------- MODULE SavedMatches ----------------------------
(***************************************************************************)
(* The matches a lobby saves: two tables of the database, the transaction  *)
(* that writes them while a member is being removed, what the clients are  *)
(* shown of them, and the resumption of a save in any room, also after the *)
(* server has crashed.  Rooms are those of Lobby with what saving sees of  *)
(* them: who is in, and whose seats at the table are users'.  An operator  *)
(* that no action uses is a seeded fault of the one that follows.          *)
(*                                                                         *)
(* `tables' is the database as its one connection sees it, `disk' what has *)
(* been committed: a crash, or a statement that fails, goes back to it.    *)
(* Statements outside of a transaction change both.                        *)
(***************************************************************************)
EXTENDS Integers, FiniteSets, Functions

CONSTANTS
  User, Bot,          \* a bot: none differs from another here, and no room keeps count
  Room,               \* bound: rooms at a time; an empty one does not exist
  MatchId,            \* bound: matches with a trace left; drawn at random in the code
  Mods,               \* the choices of active_mods a host makes
  Settings,           \* bound: those of save_state and quit_deletes_match
  NoMatch, NoRoom

Member == User \cup {Bot}

\* What ExportState writes, of that which this module tells apart.
State == [seats : SUBSET User, rules : Mods]
\* `by', the users in the room when the row was written, is not in the table.
Row   == [state : State, by : SUBSET User, fresh : BOOLEAN]
\* The engine: match_id_, the users' seats, active_rules_, settings_.active_mods.
Match == [id : MatchId, seats : SUBSET User, rules : Mods, mods : Mods]

ASSUME SavedAssumption ==
  /\ Settings \subseteq [save_state : BOOLEAN, quit_deletes_match : BOOLEAN]
  /\ Settings # {} /\ Mods # {} /\ User # {} /\ Room # {} /\ MatchId # {}
  /\ NoRoom \notin Room /\ NoMatch \notin Match /\ Bot \notin User

VARIABLES
  rooms,      \* lobbies_
  tables,     \* saved_matches and saved_match_participants
  disk,
  save,       \* SaveMatchStateToDB under way, and the RemoveMember it is part of
  listed,     \* the store's savedMatches of each client
  won,        \* history: matches that have been won,
  spared,     \*   those whose save may have outlived that,
  today       \*   and the matches saved in the last day

history == <<won, spared, today>>
vars == <<rooms, tables, disk, save, listed, history>>

NoSaving == [stage |-> "none", room |-> NoRoom, todo |-> {}, leaver |-> {}]

Empty == [humans |-> {}, settings |-> CHOOSE s \in Settings : TRUE,
          mods |-> CHOOSE m \in Mods : TRUE, match |-> NoMatch]

Init ==
  /\ rooms = [r \in Room |-> Empty]
  /\ tables = [rows |-> << >>, participants |-> {}] /\ disk = tables
  /\ save = NoSaving
  /\ listed = [u \in User |-> {}]
  /\ won = {} /\ spared = {} /\ today = {}

Playing(r)    == rooms[r].match # NoMatch
InPlay(id)    == {r \in Room : Playing(r) /\ rooms[r].match.id = id}
Players(t, id) == {u \in User : <<id, u>> \in t.participants}
NoneSaving     == save.stage = "none"

WithoutRows(t, ids) ==
  [t EXCEPT !.rows = [id \in DOMAIN t.rows \ ids |-> t.rows[id]]]

\* A statement of its own is committed at once.
Executes(t) == tables' = t /\ disk' = t

-----------------------------------------------------------------------------
(***************************************************************************)
(* The room: joining, settings, starting a match, its end.                 *)
(***************************************************************************)
\* HandleCreate, or HandleJoin: into a running match onto a bot's seat or a new one.
HandleJoin(u, r) ==
  /\ NoneSaving /\ u \notin rooms[r].humans
  /\ \E s \in Settings, m \in Mods :
       /\ rooms[r].humans # {} => s = rooms[r].settings /\ m = rooms[r].mods
       /\ rooms' = [rooms EXCEPT ![r] = [humans |-> rooms[r].humans \cup {u},
            settings |-> s, mods |-> m,
            match |-> IF Playing(r)
                      THEN [rooms[r].match EXCEPT !.seats = @ \cup {u}] ELSE NoMatch]]
  /\ UNCHANGED <<tables, disk, save, listed, history>>

HandleUpdateSettings(r) ==
  /\ NoneSaving /\ rooms[r].humans # {}
  /\ \E s \in Settings, m \in Mods :
       rooms' = [rooms EXCEPT ![r].settings = s, ![r].mods = m]
  /\ UNCHANGED <<tables, disk, save, listed, history>>

\* No row, no match and no list has the name: it may stand for one never used.
Unused(id) ==
  /\ id \notin DOMAIN tables.rows /\ InPlay(id) = {}
  /\ \A u \in User : id \notin listed[u]

HandleStartGame(r, id) ==
  /\ NoneSaving /\ rooms[r].humans # {} /\ ~Playing(r) /\ Unused(id)
  /\ rooms' = [rooms EXCEPT ![r].match =
       [id |-> id, seats |-> rooms[r].humans, rules |-> rooms[r].mods, mods |-> rooms[r].mods]]
  /\ Executes([tables EXCEPT !.participants = {p \in @ : p[1] # id}])
  /\ won' = won \ {id} /\ spared' = spared \ {id} /\ today' = today \ {id}
  /\ UNCHANGED <<save, listed>>

\* The transaction at the end of a match drops its save, unless that statement or
\* any of those that write the statistics fails.
WinKeeps(id) == Executes(tables) /\ spared' = spared
WinDrops(id) ==
  \/ Executes(WithoutRows(tables, {id})) /\ spared' = spared
  \/ Executes(tables) /\ spared' = spared \cup {id}

\* The save may also outlive the win of a match that another room plays as well.
Won(r) ==
  LET id == rooms[r].match.id
  IN  /\ won' = won \cup {id} /\ today' = today \ {id}
      /\ IF InPlay(id) = {r} THEN WinDrops(id)
         ELSE /\ Executes(WithoutRows(tables, {id})) \/ Executes(tables)
              /\ spared' = spared \cup {id}

MatchOver(r) ==
  /\ NoneSaving /\ Playing(r)
  /\ Won(r)
  /\ rooms' = [rooms EXCEPT ![r].match = NoMatch]
  /\ UNCHANGED <<save, listed>>

-----------------------------------------------------------------------------
(***************************************************************************)
(* RemoveMember and the saving it does.                                    *)
(***************************************************************************)
\* A room without users is destroyed, its match with it.
Settle(r, q) == rooms' = [rooms EXCEPT ![r] = IF q.humans = {} THEN Empty ELSE q]

Left(r, u) == [rooms[r] EXCEPT !.humans = @ \ {u}]
Quit(r, u) == [Left(r, u) EXCEPT !.match = NoMatch]
\* A bot has taken the seat over, or it is closed.
Replaced(r, u) == [Left(r, u) EXCEPT !.match.seats = @ \ {u}]

BeginsSaving(r, by, leaver) ==
  save' = [stage |-> "upsert", room |-> r, todo |-> by, leaver |-> leaver]

\* The match ends when a member quits it, saved with all of its members if it is to
\* be saved; those who are left are told afterwards.
QuitsMatch(u, r) ==
  /\ Playing(r) /\ rooms[r].settings.quit_deletes_match
  /\ IF rooms[r].settings.save_state
     THEN BeginsSaving(r, rooms[r].humans, {u}) /\ UNCHANGED rooms
     ELSE Settle(r, Quit(r, u)) /\ UNCHANGED save
  /\ UNCHANGED <<tables, disk, history>>

\* The match goes on without the member, and is saved for the users who stay.
LeavesMatch(u, r) ==
  /\ Playing(r) /\ ~rooms[r].settings.quit_deletes_match
  /\ IF rooms[r].settings.save_state
     THEN /\ BeginsSaving(r, rooms[r].humans \ {u}, {})
          /\ rooms' = [rooms EXCEPT ![r] = Replaced(r, u)]
     ELSE Settle(r, Replaced(r, u)) /\ UNCHANGED save
  /\ UNCHANGED <<tables, disk, history>>

\* CheckMatchIntegrity aborts the match.  A bot may also play it to its end.
EndsMatch(u, r) ==
  /\ Playing(r) /\ ~rooms[r].settings.quit_deletes_match
  /\ Settle(r, Quit(r, u))
  /\ Won(r) \/ UNCHANGED <<tables, disk, won, spared, today>>
  /\ UNCHANGED save

\* Whoever leaves, is evicted or kicked; bots may be kicked too.
RemoveMember(u, r) ==
  /\ NoneSaving /\ rooms[r].humans # {} /\ u \in rooms[r].humans \cup {Bot}
  /\ listed' = [v \in User |-> IF v = u THEN {} ELSE listed[v]]
  /\ \/ ~Playing(r) /\ Settle(r, Left(r, u)) /\ UNCHANGED <<tables, disk, save, history>>
     \/ QuitsMatch(u, r)
     \/ LeavesMatch(u, r)
     \/ EndsMatch(u, r)

\* After the transaction RemoveMember goes on: the quitter goes, and the match.
AfterSave ==
  LET r == save.room
  IN  /\ save' = NoSaving
      /\ IF save.leaver = {} THEN Settle(r, rooms[r])
         ELSE \E u \in save.leaver : Settle(r, Quit(r, u))

SavedMatch == rooms[save.room].match
Export     == [seats |-> SavedMatch.seats, rules |-> SavedMatch.mods]

UpsertedAsBefore(id, by) == [state |-> Export, by |-> by,
  fresh |-> IF id \in DOMAIN tables.rows THEN tables.rows[id].fresh ELSE TRUE]
\* INSERT .. ON CONFLICT DO UPDATE: either way the row is good for a day.
Upserted(id, by) == [state |-> Export, by |-> by, fresh |-> TRUE]

UpsertRow ==
  /\ save.stage = "upsert"
  /\ LET id == SavedMatch.id
     IN  tables' = [tables EXCEPT !.rows =
           [i \in DOMAIN @ \cup {id} |-> IF i = id THEN Upserted(id, save.todo) ELSE @[i]]]
  /\ save' = [save EXCEPT !.stage = "delete"]
  /\ UNCHANGED <<rooms, disk, listed, history>>

DeleteParticipants ==
  /\ save.stage = "delete"
  /\ tables' = [tables EXCEPT !.participants = {p \in @ : p[1] # SavedMatch.id}]
  /\ save' = [save EXCEPT !.stage = "insert"]
  /\ UNCHANGED <<rooms, disk, listed, history>>

InsertParticipant(u) ==
  /\ save.stage = "insert" /\ u \in save.todo
  /\ tables' = [tables EXCEPT !.participants = @ \cup {<<SavedMatch.id, u>>}]
  /\ save' = [save EXCEPT !.todo = @ \ {u}]
  /\ UNCHANGED <<rooms, disk, listed, history>>

Commit ==
  /\ save.stage = "insert" /\ save.todo = {}
  /\ disk' = tables
  /\ today' = today \cup {SavedMatch.id}
  /\ AfterSave
  /\ UNCHANGED <<tables, listed, won, spared>>

\* Without the guard's ROLLBACK the statements so far would be committed.
SaveFailsHalfway ==
  /\ save.stage # "none"
  /\ disk' = tables
  /\ AfterSave
  /\ UNCHANGED <<tables, listed, history>>

\* Without it and without COMMIT the transaction would stay open.
SaveFailsOpen ==
  /\ save.stage # "none"
  /\ AfterSave
  /\ UNCHANGED <<tables, disk, listed, history>>

\* BEGIN, a statement or COMMIT fails: the exception leaves the block, the guard's
\* destructor rolls back, and the save is given up without a word.
SaveFails ==
  /\ save.stage # "none"
  /\ tables' = disk
  /\ AfterSave
  /\ UNCHANGED <<disk, listed, history>>

-----------------------------------------------------------------------------
(***************************************************************************)
(* The handlers of saved matches.  The host may be any member: he promotes *)
(* whom he likes.  What a client asks for it has been shown, some time.    *)
(***************************************************************************)
Offered(u, t, r) ==
  {id \in DOMAIN t.rows : u \in Players(t, id) /\ Players(t, id) = rooms[r].humans}

Purged == {id \in DOMAIN tables.rows : ~tables.rows[id].fresh}

\* A purge that fails goes unnoticed, and what has expired is listed as well.
HandleGetSavedMatchesList(u, r) ==
  /\ NoneSaving /\ u \in rooms[r].humans
  /\ \E t \in {WithoutRows(tables, Purged), tables} :
       Executes(t) /\ listed' = [listed EXCEPT ![u] = Offered(u, t, r)]
  /\ UNCHANGED <<rooms, save, history>>

Requests(r, id) ==
  /\ NoneSaving /\ id \in DOMAIN tables.rows
  /\ \E u \in rooms[r].humans : id \in listed[u]

\* The participants stay behind: nothing enforces the foreign key.
HandleDeleteSavedMatch(r, id) ==
  /\ Requests(r, id)
  /\ Executes(WithoutRows(tables, {id}))
  /\ today' = today \ {id}
  /\ UNCHANGED <<rooms, save, listed, won, spared>>

\* The constructor for saves, with the room's settings, and SetMatchId.
Restored(row, id, r) ==
  [id |-> id, seats |-> row.state.seats, rules |-> row.state.rules, mods |-> rooms[r].mods]

\* Whatever the room plays is replaced, and nobody looks who is in it.
HandleResumeSavedMatch(r, id) ==
  /\ Requests(r, id)
  /\ rooms' = [rooms EXCEPT ![r].match = Restored(tables.rows[id], id, r)]
  /\ UNCHANGED <<tables, disk, save, listed, history>>

-----------------------------------------------------------------------------
\* A day passes over a row, to which nothing is done before somebody lists.
Expire(id) ==
  /\ NoneSaving /\ id \in DOMAIN tables.rows /\ tables.rows[id].fresh
  /\ Executes([tables EXCEPT !.rows[id].fresh = FALSE])
  /\ today' = today \ {id}
  /\ UNCHANGED <<rooms, save, listed, won, spared>>

\* The server goes down, also in the middle of a transaction, and comes up again.
Crash ==
  /\ rooms' = [r \in Room |-> Empty]
  /\ tables' = disk
  /\ save' = NoSaving
  /\ listed' = [u \in User |-> {}]
  /\ UNCHANGED <<disk, history>>

Next ==
  \/ \E u \in User, r \in Room : HandleJoin(u, r) \/ HandleGetSavedMatchesList(u, r)
  \/ \E u \in Member, r \in Room : RemoveMember(u, r)
  \/ \E r \in Room : HandleUpdateSettings(r) \/ MatchOver(r)
  \/ \E r \in Room, id \in MatchId :
       \/ HandleStartGame(r, id) \/ HandleDeleteSavedMatch(r, id)
       \/ HandleResumeSavedMatch(r, id)
  \/ UpsertRow \/ DeleteParticipants \/ \E u \in User : InsertParticipant(u)
  \/ Commit \/ SaveFails
  \/ \E id \in MatchId : Expire(id)
  \/ Crash

Spec == Init /\ [][Next]_vars
=============================================================================
