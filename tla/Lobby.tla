-------------------------------- MODULE Lobby --------------------------------
(***************************************************************************)
(* LobbyController: the rooms, who sits in them, who is their host, which  *)
(* sockets are bound to them, and what of that the engine's table mirrors. *)
(* Users open and close sockets as they like, several at a time; a handler *)
(* runs from its message to its end, and the eviction timer between two of *)
(* them.  A match starts with HandleStartGame, or is a saved one that the  *)
(* host resumes, at whatever table it was saved; of its course the lobby   *)
(* sees the end.  What is saved, and when, is another component's.  An     *)
(* operator that no action uses is a seeded fault of the one that follows. *)
(***************************************************************************)
EXTENDS Integers, Sequences, FiniteSets, Functions

CONSTANTS
  User, BotName,      \* registered names, kReservedBotNames
  MaxMembers,         \* kMaxMembers, and the 4 of SyncBots
  MaxBots,            \* kBotCountMax
  MaxLobbies,         \* MAX_LOBBIES
  Requests,           \* bound: the settings a host asks for
  MayBeKicked,        \* bound: the names a host kicks
  MaxCreated,         \* bound: lobbies ever created
  Socket,             \* bound: the sockets open at a time; an address is used again
  NoSocket, NoLobby

Name   == User \cup BotName
Lobby  == 1 .. MaxCreated

Settings == [bot_count : Int, allow_bot_takeover : BOOLEAN,
             allow_bot_replacement : BOOLEAN, quit_deletes_match : BOOLEAN]
DefaultSettings == [bot_count |-> 0, allow_bot_takeover |-> TRUE,
                    allow_bot_replacement |-> TRUE, quit_deletes_match |-> FALSE]

ASSUME LobbyAssumption ==
  /\ User \cap BotName = {} /\ MayBeKicked \subseteq Name
  /\ IsFiniteSet(BotName) /\ Cardinality(BotName) >= MaxMembers
  /\ MaxMembers \in Nat \ {0} /\ MaxBots \in Nat /\ MaxLobbies \in Nat
  /\ MaxCreated \in Nat
  /\ Requests \subseteq Settings
  /\ NoSocket \notin Socket /\ NoLobby \notin Lobby

VARIABLES
  lobbies,    \* lobbies_: the rooms there are
  next_id,
  sockets,    \* PerSocketData of the open sockets
  latest      \* history: the socket each user opened last, while it is open

vars == <<lobbies, next_id, sockets, latest>>

\* A bot is a member whose name no user can register.
Member == [username : Name, socket : Socket \cup {NoSocket}, is_connected : BOOLEAN]
\* `match' is the table of the engine, player by player; without a match, empty.  In a
\* `foreign' match other players sit, or in another order, than in the room: the room's
\* operations look for their members there, and may find them or not.  Nothing that they
\* do to the room depends on it, so that this table is left open.
Room   == [host : User, members : Seq(Member), match : Seq(Name), foreign : BOOLEAN,
           settings : Settings]

Present(u, s) == [username |-> u, socket |-> s, is_connected |-> TRUE]
Bot(b)        == Present(b, NoSocket)

Usernames(r)  == [i \in DOMAIN r.members |-> r.members[i].username]
Contains(r, n) == n \in Range(Usernames(r))
IsBot(m)      == m.username \in BotName
Humans(r)     == {m \in Range(r.members) : ~IsBot(m)}
Connected(r)  == {m \in Humans(r) : m.is_connected}
Count(r, S)   == Cardinality({i \in DOMAIN r.members : r.members[i].username \in S})
FreeBots(r)   == BotName \ Range(Usernames(r))
InMatch(r)    == r.match # <<>> \/ r.foreign
NoMatch(r)    == [r EXCEPT !.match = << >>, !.foreign = FALSE]

\* What q has at the positions in S, in that order; a filter whose length and members
\* are plain to see, where SelectSeq builds them up element by element.
Nth(S, k)  == CHOOSE i \in S : Cardinality({j \in S : j <= i}) = k
Kept(q, S) == [k \in 1 .. Cardinality(S) |-> q[Nth(S, k)]]

\* The room without the members in N, the table without player n, and n renamed b.
Without(r, N) == Kept(r.members, {i \in DOMAIN r.members : r.members[i].username \notin N})
Dropped(q, n) == Kept(q, {i \in DOMAIN q : q[i] # n})
Renamed(q, n, b) == [i \in DOMAIN q |-> IF q[i] = n THEN b ELSE q[i]]

Init ==
  /\ lobbies = << >> /\ next_id = 1
  /\ sockets = << >> /\ latest = [u \in User |-> NoSocket]

\* Socket s may send a message to lobby l, and one that only the host may send.
Open(s)     == s \in DOMAIN sockets
Sends(s, l) == Open(s) /\ sockets[s].lobby = l /\ l \in DOMAIN lobbies
Hosts(s, l) == Sends(s, l) /\ sockets[s].username = lobbies[l].host

Updated(l, r) == [lobbies EXCEPT ![l] = r]
PluggedUnbound(s, u, l) == [t \in DOMAIN sockets \cup {s} |->
  IF t = s THEN [username |-> u, lobby |-> NoLobby] ELSE sockets[t]]
Plugged(s, u, l) == [t \in DOMAIN sockets \cup {s} |->
  IF t = s THEN [username |-> u, lobby |-> l] ELSE sockets[t]]
Bound(s, l)   == [sockets EXCEPT ![s].lobby = l]

-----------------------------------------------------------------------------
(***************************************************************************)
(* SyncBots: while no match runs a room has as many bots as its settings   *)
(* want and its seats allow; the last ones go first.                       *)
(***************************************************************************)
DesiredBots(r) ==
  LET room == MaxMembers - Count(r, User)
  IN  IF r.settings.bot_count > room THEN room ELSE r.settings.bot_count

SurplusBots(r) ==
  {r.members[i].username : i \in
    {j \in DOMAIN r.members :
       /\ IsBot(r.members[j])
       /\ Cardinality({k \in 1 .. j : IsBot(r.members[k])}) > DesiredBots(r)}}

Synced(r) ==
  LET missing == DesiredBots(r) - Count(r, BotName)
      added   == {q \in [1 .. missing -> FreeBots(r)] : IsInjective(q)}
  IN  IF InMatch(r) THEN {r}
      ELSE IF missing > 0
      THEN {[r EXCEPT !.members = @ \o [i \in 1 .. missing |-> Bot(q[i])]] : q \in added}
      ELSE {[r EXCEPT !.members = Without(r, SurplusBots(r))]}

-----------------------------------------------------------------------------
(***************************************************************************)
(* RemoveMember: outside a match the member goes; in one the room settings *)
(* decide between no match, a bot in his place and a table without him.    *)
(***************************************************************************)
Aborted(r) == IF Len(r.members) < 2 THEN NoMatch(r) ELSE r

\* on_player_replaced_ lets bots play on, who may bring the match to its end.
MayEnd(r) == {Aborted(r), NoMatch(r)}

ReplacedByBot(r, n) ==
  UNION {MayEnd([r EXCEPT
    !.members = [i \in DOMAIN @ |->
      IF @[i].username = n THEN [@[i] EXCEPT !.username = b, !.is_connected = TRUE] ELSE @[i]],
    !.match = Renamed(@, n, b)]) : b \in FreeBots(r)}

RemovedFromTable(r, n) == MayEnd([r EXCEPT !.members = Without(r, {n}), !.match = Dropped(@, n)])

Removed(r, n) ==
  IF ~Contains(r, n) THEN {r}
  ELSE IF ~InMatch(r) THEN {[r EXCEPT !.members = Without(r, {n})]}
  ELSE IF r.settings.quit_deletes_match
  THEN {NoMatch([r EXCEPT !.members = Without(r, {n})])}
  ELSE IF r.settings.allow_bot_replacement THEN ReplacedByBot(r, n)
  ELSE RemovedFromTable(r, n)

\* The sockets, once the one of the connected member n no longer belongs to the room.
Released(r, n) ==
  [s \in DOMAIN sockets |->
    IF \E m \in Range(r.members) : m.username = n /\ m.is_connected /\ m.socket = s
    THEN [sockets[s] EXCEPT !.lobby = NoLobby] ELSE sockets[s]]

SurvivesWithBots(r) == r.members # <<>>
Survives(r) == Humans(r) # {}

Surviving(r, n) == {q \in Removed(r, n) : Survives(q)}

\* A room loses a member and goes on as one of the rooms in rest, or is destroyed.
Remove(l, r, n, rest) ==
  /\ \/ \E q \in rest : lobbies' = Updated(l, q)
     \/ /\ \E q \in Removed(r, n) : ~Survives(q)
        /\ lobbies' = Restrict(lobbies, DOMAIN lobbies \ {l})
  /\ sockets' = Released(r, n) /\ UNCHANGED <<next_id, latest>>

First(r, S) == CHOOSE i \in DOMAIN r.members :
  r.members[i] \in S /\ \A j \in 1 .. i - 1 : r.members[j] \notin S

\* The host n has gone: the first connected user is host now.
PassedOnBySeat(r, n) ==
  IF r.host # n \/ Humans(r) = {} THEN r
  ELSE [r EXCEPT !.host = r.members[First(r, Humans(r))].username]

PassedOn(r, n) ==
  IF r.host # n \/ Connected(r) = {} THEN r
  ELSE [r EXCEPT !.host = r.members[First(r, Connected(r))].username]

-----------------------------------------------------------------------------
\* A user opens a socket: in a room he is a member of, it is his from now on.
OnOpen(u, s) ==
  LET his == {l \in DOMAIN lobbies : Contains(lobbies[l], u)}
      back(m) == IF m.username = u THEN Present(u, s) ELSE m
  IN  /\ ~Open(s)
      /\ \/ his = {} /\ sockets' = Plugged(s, u, NoLobby) /\ UNCHANGED lobbies
         \/ \E l \in his :
              /\ sockets' = Plugged(s, u, l)
              /\ lobbies' = [lobbies EXCEPT ![l].members = [i \in DOMAIN @ |-> back(@[i])]]
      /\ latest' = [latest EXCEPT ![u] = s]
      /\ UNCHANGED next_id

\* A socket closes: the member whose socket it is may come back until he is evicted.
Away(m) == [m EXCEPT !.socket = NoSocket, !.is_connected = FALSE]
ClosedByName(m, s) == IF m.username = sockets[s].username THEN Away(m) ELSE m
Closed(m, s) == IF m.username = sockets[s].username /\ m.socket = s THEN Away(m) ELSE m

OnClose(s) ==
  /\ Open(s)
  /\ lobbies' = IF ~Sends(s, sockets[s].lobby) THEN lobbies
                ELSE [lobbies EXCEPT ![sockets[s].lobby].members =
                       [i \in DOMAIN @ |-> Closed(@[i], s)]]
  /\ sockets' = Restrict(sockets, DOMAIN sockets \ {s})
  /\ latest' = [u \in User |-> IF latest[u] = s THEN NoSocket ELSE latest[u]]
  /\ UNCHANGED next_id

HandleCreate(s) ==
  LET u == sockets[s].username
      r == [host |-> u, members |-> <<Present(u, s)>>, match |-> << >>,
            foreign |-> FALSE, settings |-> DefaultSettings]
  IN  /\ Open(s) /\ sockets[s].lobby = NoLobby
      /\ Cardinality(DOMAIN lobbies) < MaxLobbies /\ next_id <= MaxCreated
      /\ next_id' = next_id + 1
      /\ \E q \in Synced(r) :
           lobbies' = [l \in DOMAIN lobbies \cup {next_id} |->
                        IF l = next_id THEN q ELSE lobbies[l]]
      /\ sockets' = Bound(s, next_id) /\ UNCHANGED latest

-----------------------------------------------------------------------------
\* A user takes the place of the first bot, at the table too, or else a free one.
Bots(r)     == {m \in Range(r.members) : IsBot(m)}
FirstBot(r) == First(r, Bots(r))

TakenOverInRoomOnly(r, u, s) == [r EXCEPT !.members[FirstBot(r)] = Present(u, s)]

TakenOver(r, u, s) ==
  LET b == r.members[FirstBot(r)].username
  IN  [r EXCEPT !.members[FirstBot(r)] = Present(u, s), !.match = Renamed(@, b, u)]

Added(r, u, s) ==
  [r EXCEPT !.members = Append(@, Present(u, s)),
            !.match = IF @ # << >> THEN Append(@, u) ELSE @]

HasSeatOrOne(r) == Len(r.members) <= MaxMembers
HasSeat(r) == Len(r.members) < MaxMembers

HandleJoin(s, l) ==
  LET r == lobbies[l]
      u == sockets[s].username
      takeover == r.settings.allow_bot_takeover /\ Bots(r) # {}
  IN  /\ Open(s) /\ sockets[s].lobby = NoLobby
      /\ l \in DOMAIN lobbies /\ ~Contains(r, u)
      /\ InMatch(r) => r.settings.allow_bot_takeover
      /\ \/ takeover /\ lobbies' = Updated(l, TakenOver(r, u, s))
         \/ ~takeover /\ HasSeat(r) /\ lobbies' = Updated(l, Added(r, u, s))
      /\ sockets' = Bound(s, l) /\ UNCHANGED <<next_id, latest>>

HandleLeave(s, l) ==
  /\ Sends(s, l)
  /\ LET u == sockets[s].username
         r == lobbies[l]
     IN  Remove(l, r, u, {PassedOn(q, u) : q \in UNION {Synced(p) : p \in Surviving(r, u)}})

HandlePromote(s, l, n) ==
  /\ Hosts(s, l) /\ n \in User /\ Contains(lobbies[l], n)
  /\ lobbies' = [lobbies EXCEPT ![l].host = n]
  /\ UNCHANGED <<next_id, sockets, latest>>

\* A kicked bot is one the settings want no longer; but one in a user's place is not
\* among them.
OneBotFewerAlways(n) == n - 1
OneBotFewer(n) == IF n > 0 THEN n - 1 ELSE n

HandleKick(s, l, n) ==
  LET r == lobbies[l]
      q == IF n \in BotName THEN [r EXCEPT !.settings.bot_count = OneBotFewer(@)] ELSE r
  IN  /\ Hosts(s, l) /\ n # r.host /\ Contains(r, n)
      /\ Remove(l, q, n, UNION {Synced(p) : p \in Surviving(q, n)})

Clamped(c) == [c EXCEPT !.bot_count =
                IF @ < 0 THEN 0 ELSE IF @ > MaxBots THEN MaxBots ELSE @]

HandleUpdateSettings(s, l, c) ==
  LET r == lobbies[l]
      q == [r EXCEPT !.settings = Clamped(c)]
  IN  /\ Hosts(s, l)
      /\ \E p \in (IF q.settings.bot_count # r.settings.bot_count THEN Synced(q) ELSE {q}) :
           lobbies' = Updated(l, p)
      /\ UNCHANGED <<next_id, sockets, latest>>

HandleStartGame(s, l) ==
  /\ Hosts(s, l) /\ ~InMatch(lobbies[l]) /\ Len(lobbies[l].members) >= 2
  /\ lobbies' = [lobbies EXCEPT ![l].match = Usernames(lobbies[l])]
  /\ UNCHANGED <<next_id, sockets, latest>>

\* The host names a saved match, any there is, and it takes the place of the one under way.
\* Nobody compares its table with the room.
Resumed(r, other) ==
  [r EXCEPT !.match = IF other THEN << >> ELSE Usernames(r), !.foreign = other]

HandleResumeSavedMatch(s, l) ==
  /\ Hosts(s, l)
  /\ \E other \in BOOLEAN : lobbies' = Updated(l, Resumed(lobbies[l], other))
  /\ UNCHANGED <<next_id, sockets, latest>>

NotifyMatchOver(l) ==
  /\ l \in DOMAIN lobbies /\ InMatch(lobbies[l])
  /\ lobbies' = Updated(l, NoMatch(lobbies[l]))
  /\ UNCHANGED <<next_id, sockets, latest>>

\* One round of the timer's loop: a user who has been away for too long is evicted.
\* Several rounds of one tick are several such steps, with nothing in between.
Evict(l, u) ==
  /\ l \in DOMAIN lobbies
  /\ \E m \in Humans(lobbies[l]) : m.username = u /\ ~m.is_connected
  /\ LET r == lobbies[l]
     IN  Remove(l, r, u, UNION {Synced(PassedOn(p, u)) : p \in Surviving(r, u)})

-----------------------------------------------------------------------------
Next ==
  \/ \E u \in User, s \in Socket : OnOpen(u, s)
  \/ \E s \in Socket : OnClose(s) \/ HandleCreate(s)
  \/ \E s \in Socket, l \in Lobby :
       \/ HandleJoin(s, l) \/ HandleLeave(s, l)
       \/ HandleStartGame(s, l) \/ HandleResumeSavedMatch(s, l)
       \/ \E n \in User : HandlePromote(s, l, n)
       \/ \E n \in MayBeKicked : HandleKick(s, l, n)
       \/ \E c \in Requests : HandleUpdateSettings(s, l, c)
  \/ \E l \in Lobby : NotifyMatchOver(l)
  \/ \E l \in Lobby, u \in User : Evict(l, u)

Spec == Init /\ [][Next]_vars

\* The eviction timer repeats every second for as long as the server runs.
Fairness == \A l \in Lobby, u \in User : WF_vars(Evict(l, u))

FairSpec == Spec /\ Fairness
=============================================================================
