----------------------------- MODULE LobbySafety -----------------------------
(***************************************************************************)
(* What a room owes its members: a seat each, the same seat at the table,  *)
(* a live socket, a host who is there, and an end when everybody has gone. *)
(***************************************************************************)
EXTENDS Lobby

\* Every variable of the lobby controller has its type, the settings within the
\* bounds of ClampSettings.
LobbyTypeOK ==
  /\ next_id \in 1 .. MaxCreated + 1
  /\ DOMAIN lobbies \subseteq 1 .. next_id - 1
  /\ \A l \in DOMAIN lobbies :
       lobbies[l] \in Room /\ lobbies[l].settings.bot_count \in 0 .. MaxBots
  /\ DOMAIN sockets \subseteq Socket
  /\ \A s \in DOMAIN sockets : sockets[s] \in [username : User, lobby : Lobby \cup {NoLobby}]
  /\ latest \in [User -> Socket \cup {NoSocket}]

\* A room never holds more members than it has seats (SyncBots would not come to an
\* end), nobody twice, and always a user, who else would end it?
RoomFits ==
  \A l \in DOMAIN lobbies :
    /\ Len(lobbies[l].members) <= MaxMembers
    /\ IsInjective(Usernames(lobbies[l]))
    /\ Humans(lobbies[l]) # {}

\* The table of a match that was started in the room, or resumed at a table like it, is
\* the room, seat by seat, to its end: whoever leaves, takes over a bot or is replaced by
\* one does so in both, by the same name.  A saved match resumed at another table is left
\* out: HandleResumeSavedMatch compares nothing, and nothing evens them out later.
SeatsMirrored ==
  \A l \in DOMAIN lobbies : LET r == lobbies[l] IN
    (InMatch(r) /\ ~r.foreign) => r.match = Usernames(r)

\* A user shown as connected is reached by his socket: it is open, his, and bound to
\* the room.  With none, his messages would go nowhere and nobody would evict him.
SocketsAgree ==
  \A l \in DOMAIN lobbies : \A m \in Connected(lobbies[l]) :
    /\ m.socket # NoSocket /\ Open(m.socket)
    /\ sockets[m.socket].username = m.username /\ sockets[m.socket].lobby = l

\* The socket a user opened last counts: if it is bound to a room he is a member of,
\* he is connected by it, whichever of his older sockets have closed since.
LatestSocketCounts ==
  \A u \in User : Open(latest[u]) =>
    LET l == sockets[latest[u]].lobby
    IN  (Sends(latest[u], l) /\ Contains(lobbies[l], u))
        => Present(u, latest[u]) \in Range(lobbies[l].members)

\* "nullptr if the user is temporarily disconnected" (lobby.hpp:76): the socket of
\* a member is an open one or none.
LiveSockets ==
  \A l \in DOMAIN lobbies : \A m \in Range(lobbies[l].members) :
    m.socket # NoSocket => Open(m.socket)

\* A room that loses its host while a connected user stays has a connected host at
\* once: nobody else could start a match, and nothing would be passed on later.
HostPassedOn ==
  [][\A l \in DOMAIN lobbies \cap DOMAIN lobbies' :
       LET r == lobbies[l]
           q == lobbies'[l]
       IN  (Contains(r, r.host) /\ ~Contains(q, r.host) /\ Connected(q) # {})
           => \E m \in Connected(q) : m.username = q.host]_vars

\* Nobody of the users in room l has a socket open.
Deserted(l) ==
  /\ l \in DOMAIN lobbies
  /\ \A m \in Humans(lobbies[l]) : \A s \in DOMAIN sockets : sockets[s].username # m.username

\* A deserted room, with all its bots, is destroyed in the end or somebody returns.
LobbyReclaimed == \A l \in Lobby : Deserted(l) ~> ~Deserted(l)
=============================================================================
