---------------------------- MODULE ClientSafety ----------------------------
(***************************************************************************)
(* What a tab may rely on: it never waits for a connection nobody is about *)
(* to open, it shows the room the server has its user in, and its address  *)
(* gets every connection back that it has closed.                          *)
(***************************************************************************)
EXTENDS Client

\* Every variable of the tab and of its seat has its type; ws.socket, when there is one,
\* is an open socket.
ClientTypeOK ==
  /\ link \in [Socket -> Link]
  /\ socket \in Socket \cup {NoSocket}
  /\ socket # NoSocket => link[socket].client = "open"
  /\ {timer, started, visible, room, code, limited, member, calm} \subseteq BOOLEAN
  /\ pending \in [Request -> {"none", "rejoin", "join"}]
  /\ seat \in Socket \cup {NoSocket}
  /\ conns \in Nat /\ others \in Nat

\* A tab that is in front and has been told to connect is connected, or is connecting,
\* or has the timer armed that will: whatever close, page switch or failed attempt came
\* in which order, it is not left without any of the three.
NotStranded ==
  started /\ visible => IsConnected \/ Connecting # {} \/ timer

\* Every connection of an address is counted once until the server has closed it, and
\* there are never more than the cap: a count that did not come back would lock the
\* address out.
ConnectionsCounted ==
  /\ conns = others + Cardinality(ServerOpen)
  /\ conns <= MaxConn

\* The socket the tab sends on, no other in use since it was opened, and nothing under
\* way on it that could change what either end believes.
Settled ==
  /\ IsConnected /\ link[socket].alone
  /\ link[socket].alive /\ link[socket].up = <<>> /\ link[socket].down = <<>>

\* Once everything said on it has arrived, the tab shows a room exactly if the room has
\* the user in it, connected by this very socket: through lost answers, timeouts, kicks
\* and reconnects.  Only a rejoin refused for its rate can hide the room from a member.
ViewConverges ==
  Settled =>
    /\ room => member
    /\ member => (room \/ limited) /\ seat = socket

\* An open socket the tab no longer sends on: connect() and the timer may each have
\* opened one, and nothing ever closes the older.
Forgotten == \E s \in Socket \ {socket} : link[s].client = "open"

\* When the network holds and the page stays in front, the tab is connected in the end
\* and stays so, however many sockets were lost and attempts refused at the cap before;
\* unless sockets it has forgotten itself take up the connections of its address.
Reconnects == [](calm => <>[](IsConnected \/ Forgotten))
=============================================================================
