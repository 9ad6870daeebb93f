------------------------------- MODULE Client -------------------------------
(***************************************************************************)
(* A browser tab of one user, the WebSockets it opens, and the user's seat *)
(* in a room at the other end: WebSocketClient and StoreLobby against the  *)
(* WebServer and the LobbyController.  A link is one WebSocket seen from   *)
(* both ends, with the frames in flight each way; the network may cut it   *)
(* at any time, and each end learns of it when it does.  The answers of    *)
(* HandleJoin and HandleRejoin are those the tab tells apart.  One room    *)
(* stands for all; LobbyUpdated, which changes no membership, is left out. *)
(* An operator that no action uses is a seeded fault of the next one.      *)
(***************************************************************************)
EXTENDS Integers, Sequences, FiniteSets

CONSTANTS
  Socket,              \* bound: sockets of the tab that are in use at one time
  Request,             \* bound: request ids in use at one time
  MaxConn,             \* max_conn_per_ip_
  MaxOthers,           \* bound: connections of other tabs at this address
  MaxQueue,            \* bound: frames under way in one direction
  NoSocket, NoRequest

ASSUME ClientAssumption ==
  /\ IsFiniteSet(Socket) /\ NoSocket \notin Socket /\ NoRequest \notin Request
  /\ MaxConn \in Nat \ {0} /\ MaxOthers \in Nat /\ MaxQueue \in Nat

VARIABLES
  link,         \* the sockets, both ends
  socket,       \* ws.socket, the one the tab sends on
  timer,        \* ws.reconnectTimer is armed
  started,      \* connect() has been called, and the visibility listener attached
  visible,      \* document.visibilityState
  pending,      \* ws.pendingRequests: what awaits an answer under each id
  room,         \* storeLobby.current is a room
  code,         \* localStorage has a lobby_code
  limited,      \* history: a rejoin was refused for its rate, and no room told since
  member,       \* the room lists the user
  seat,         \* the socket of his entry, NoSocket while he is disconnected
  conns,        \* conn_per_ip_ of the tab's address
  others,       \* connections of other tabs at it
  calm          \* from here on the network, the page and the other tabs hold still

tab    == <<timer, started, visible, code>>
view   == <<room, code, limited>>
server == <<member, seat, conns, others>>
vars   == <<link, socket, timer, started, visible, pending, view, server, calm>>

Frame == [kind : {"rejoin", "join", "leave", "joined", "left", "evicted", "error", "busy"},
          id : Request \cup {NoRequest}]

\* client: the readyState, as far as the tab still cares; server: the server has the
\* socket open; alive: what is sent arrives; bound: lobby_code of its PerSocketData;
\* up, down: the frames under way; alone: history, no other socket was in use since.
Link == [client : {"none", "connecting", "open"}, server : BOOLEAN, alive : BOOLEAN,
         bound : BOOLEAN, up : Seq(Frame), down : Seq(Frame), alone : BOOLEAN]

Unused == [client |-> "none", server |-> FALSE, alive |-> FALSE, bound |-> FALSE,
           up |-> <<>>, down |-> <<>>, alone |-> FALSE]

Free        == {s \in Socket : link[s].client = "none" /\ ~link[s].server}
Connecting  == {s \in Socket : link[s].client = "connecting"}
ServerOpen  == {s \in Socket : link[s].server}
IsConnected == socket # NoSocket
Pending(kind) == {r \in Request : pending[r] = kind}

\* An id is never used twice: once its request has been given up, the frames under way
\* that carry it are like frames without one.
Forgetting(q, ids) == [i \in DOMAIN q |-> IF q[i].id \in ids THEN [q[i] EXCEPT !.id = NoRequest]
                                                             ELSE q[i]]
Abandoned(l, ids) == [s \in Socket |-> [l[s] EXCEPT !.up = Forgetting(@, ids), !.down = Forgetting(@, ids)]]

Slack(ss)      == \A s \in ss \cap Socket : link[s].alive => Len(link[s].down) < MaxQueue

Push(l, f) == IF l.alive THEN [l EXCEPT !.down = Append(@, f)] ELSE l
Note(kind) == [kind |-> kind, id |-> NoRequest]

(***************************************************************************)
(* The tab.                                                                *)
(***************************************************************************)

\* new WebSocket(...): the sockets there are stay as they are, and no longer alone.  Those
\* not in use are all alike.
ConnectOnce ==
  /\ Free # {}
  /\ LET s == CHOOSE s \in Free : TRUE IN
    link' = [t \in Socket |->
              IF t = s
              THEN [Unused EXCEPT !.client = "connecting", !.alive = TRUE,
                      !.alone = \A o \in Socket : link[o].client = "none" /\ link[o].up = <<>>]
              ELSE [link[t] EXCEPT !.alone = FALSE]]

\* connect() of the App, after a login, or of a button: the timer stays armed.
Connect ==
  /\ ~IsConnected
  /\ started' = TRUE
  /\ ConnectOnce
  /\ UNCHANGED <<socket, timer, visible, pending, view, server, calm>>

\* The reconnect timer fires: nothing while the page is hidden, and it is not armed again.
TimerFires ==
  /\ timer
  /\ timer' = FALSE
  /\ IF visible THEN ConnectOnce ELSE UNCHANGED link
  /\ UNCHANGED <<socket, started, visible, pending, view, server, calm>>

PageHides ==
  /\ visible /\ ~calm
  /\ visible' = FALSE
  /\ UNCHANGED <<link, socket, timer, started, pending, view, server, calm>>

WakesUpIfArmed == started /\ ~IsConnected /\ timer

WakesUp == started /\ ~IsConnected

\* The visibility listener: in front again, and not connected, it opens a connection in
\* the timer's stead.
PageShows ==
  /\ ~visible
  /\ visible' = TRUE
  /\ IF WakesUp THEN timer' = FALSE /\ ConnectOnce ELSE UNCHANGED <<link, timer>>
  /\ UNCHANGED <<socket, started, pending, view, server, calm>>

\* #reset of StoreLobby
Reset == room' = FALSE /\ code' = FALSE

\* wsInstance.onopen, then the handler of StoreLobby: with a code, try to rejoin.
ClientOpens(s) ==
  /\ link[s].client = "connecting" /\ link[s].server
  /\ socket' = s
  /\ \/ /\ code
        /\ \E r \in Pending("none") :
             /\ pending' = [pending EXCEPT ![r] = "rejoin"]
             /\ link' = [link EXCEPT ![s].client = "open",
                           ![s].up = IF link[s].alive THEN Append(@, [kind |-> "rejoin", id |-> r])
                                                      ELSE @]
     \/ /\ ~code
        /\ link' = [link EXCEPT ![s].client = "open"]
        /\ UNCHANGED pending
  /\ UNCHANGED <<timer, started, visible, view, server, calm>>

SocketWithoutKept(s) == socket
SocketWithout(s) == IF socket = s THEN NoSocket ELSE socket

RearmedForCurrent(s) == timer \/ socket = s
Rearmed(s) == TRUE

\* wsInstance.onclose, of a socket that was open or could not be opened: every pending
\* request is rejected, whichever socket it went out on, and the timer armed.
OnClose(s) ==
  /\ link[s].client # "none" /\ ~link[s].alive
  /\ link' = Abandoned([link EXCEPT ![s].client = "none", ![s].alone = FALSE], Request)
  /\ socket' = SocketWithout(s)
  /\ timer' = Rearmed(s)
  /\ pending' = [r \in Request |-> "none"]
  /\ IF Pending("rejoin") # {} THEN Reset ELSE UNCHANGED <<room, code>>
  /\ UNCHANGED <<started, visible, limited, server, calm>>

Send(f) == link' = [link EXCEPT ![socket].up = IF link[socket].alive THEN Append(@, f) ELSE @]

\* join(code), once connect() has returned
Join ==
  /\ IsConnected /\ ~room /\ Len(link[socket].up) < MaxQueue
  /\ \E r \in Pending("none") : /\ pending' = [pending EXCEPT ![r] = "join"]
                         /\ Send([kind |-> "join", id |-> r])
  /\ UNCHANGED <<socket, tab, room, limited, server, calm>>

\* leave(): no answer is awaited.
Leave ==
  /\ IsConnected /\ room /\ Len(link[socket].up) < MaxQueue
  /\ Send(Note("leave"))
  /\ UNCHANGED <<socket, tab, room, limited, pending, server, calm>>

\* The five seconds of emitAndWait are over.
Timeout(r) ==
  /\ pending[r] # "none"
  /\ pending' = [pending EXCEPT ![r] = "none"]
  /\ link' = Abandoned(link, {r})
  /\ IF pending[r] = "rejoin" THEN Reset ELSE UNCHANGED <<room, code>>
  /\ UNCHANGED <<socket, timer, started, visible, limited, server, calm>>

\* _dispatch: an answer settles its request, if that still waits, and every frame but
\* such an error reaches the handlers of StoreLobby.
OnMessage(s) ==
  /\ link[s].client = "open" /\ link[s].down # <<>>
  /\ LET f       == Head(link[s].down)
         waits   == f.id # NoRequest
         refused == f.kind \in {"error", "busy"} /\ waits /\ pending[f.id] = "rejoin"
     IN  /\ link' = [link EXCEPT ![s].down = Tail(@)]
         /\ pending' = IF waits THEN [pending EXCEPT ![f.id] = "none"] ELSE pending
         /\ CASE f.kind = "joined" -> room' = TRUE /\ code' = TRUE
              [] f.kind \in {"left", "evicted"} \/ refused -> Reset
              [] OTHER -> UNCHANGED <<room, code>>
         /\ limited' = CASE f.kind = "joined" -> FALSE
                         [] f.kind = "busy" -> TRUE
                         [] OTHER -> limited
  /\ UNCHANGED <<socket, timer, started, visible, server, calm>>

(***************************************************************************)
(* The server.                                                             *)
(***************************************************************************)

CountedFirst == conns + 1
Counted == IF conns < MaxConn THEN conns + 1 ELSE conns

Ungreeted(l) == l
Greeted(l) == IF member THEN Push(l, Note("joined")) ELSE l

\* The upgrade, refused at the cap, then OnSocketOpen: a member is back in his room, on
\* this socket, and is told so.
Upgrade(s) ==
  /\ link[s].client = "connecting" /\ link[s].alive /\ ~link[s].server
  /\ conns' = Counted
  /\ IF conns < MaxConn
     THEN /\ link' = [link EXCEPT ![s] = Greeted([@ EXCEPT !.server = TRUE, !.bound = member])]
          /\ seat' = IF member THEN s ELSE seat
     ELSE link' = [link EXCEPT ![s].alive = FALSE] /\ UNCHANGED seat
  /\ UNCHANGED <<socket, timer, started, visible, pending, view, member, others, calm>>

\* OnSocketClosed: the member is disconnected if it was his socket, the connection is
\* no longer counted.
ServerNotices(s) ==
  /\ link[s].server /\ ~link[s].alive /\ link[s].up = <<>>
  /\ link' = [link EXCEPT ![s].server = FALSE, ![s].bound = FALSE]
  /\ seat' = IF link[s].bound /\ seat = s THEN NoSocket ELSE seat
  /\ conns' = conns - 1
  /\ UNCHANGED <<socket, timer, started, visible, pending, view, member, others, calm>>

\* A frame from s is taken; an answer to it goes out on s.  An error that answers no
\* request is no more than a toast, and left out.
Taken(s) == [link EXCEPT ![s].up = Tail(@)]

Answered(s, kind) ==
  [link EXCEPT ![s] = Push([link[s] EXCEPT !.up = Tail(@)], [kind |-> kind, id |-> Head(link[s].up).id])]

\* The wildcard of the ws router: over the rate, any frame is answered with an error.
Busy(s) ==
  /\ link' = CASE Head(link[s].up).kind = "rejoin" -> Answered(s, "busy")
              [] Head(link[s].up).kind = "join"   -> Answered(s, "error")
              [] OTHER                            -> Taken(s)
  /\ UNCHANGED <<member, seat>>

\* The room of the code may be gone (LobbyEvicted) or not know the user (an error).
HandleRejoin(s) ==
  /\ Head(link[s].up).kind = "rejoin"
  /\ \E answer \in IF member THEN {"joined"} ELSE {"evicted", "error"} :
       link' = Answered(s, answer)
  /\ UNCHANGED <<member, seat>>

HandleJoin(s) ==
  /\ Head(link[s].up).kind = "join"
  /\ \/ /\ ~link[s].bound /\ ~member
        /\ link' = [Answered(s, "joined") EXCEPT ![s].bound = TRUE]
        /\ member' = TRUE /\ seat' = s
     \/ link' = Answered(s, "error") /\ UNCHANGED <<member, seat>>   \* bound, member, full

\* RemoveMember: the socket of the entry is unbound and told why, whichever one asked.
Removed(l, kind) ==
  IF seat = NoSocket THEN l
  ELSE [l EXCEPT ![seat] = Push([@ EXCEPT !.bound = FALSE], Note(kind))]

HandleLeave(s) ==
  /\ Head(link[s].up).kind = "leave"
  /\ IF link[s].bound
     THEN /\ link' = IF member THEN Removed(Taken(s), "left") ELSE Taken(s)
          /\ member' = FALSE /\ seat' = NoSocket
     ELSE link' = Taken(s) /\ UNCHANGED <<member, seat>>

Handle(s) ==
  /\ link[s].server /\ link[s].up # <<>>
  /\ Slack({s, seat})
  /\ Busy(s) \/ HandleRejoin(s) \/ HandleJoin(s) \/ HandleLeave(s)
  /\ UNCHANGED <<socket, timer, started, visible, pending, view, conns, others, calm>>

\* The host kicks him, connected or not, or his grace is over: a disconnected member is
\* removed without a word.
Removal ==
  /\ member /\ Slack({seat})
  /\ link' = Removed(link, "evicted")
  /\ member' = FALSE /\ seat' = NoSocket
  /\ UNCHANGED <<socket, timer, started, visible, pending, view, conns, others, calm>>

OtherOpens ==
  /\ ~calm /\ others < MaxOthers /\ conns < MaxConn
  /\ others' = others + 1 /\ conns' = conns + 1
  /\ UNCHANGED <<link, socket, timer, started, visible, pending, view, member, seat, calm>>

OtherCloses ==
  /\ others > 0
  /\ others' = others - 1 /\ conns' = conns - 1
  /\ UNCHANGED <<link, socket, timer, started, visible, pending, view, member, seat, calm>>

(***************************************************************************)
(* The network and the page.                                               *)
(***************************************************************************)

\* What the tab has sent last is lost, as much of it as you like, the rest has yet to be
\* handled; what was on its way to the tab is lost, the rest has arrived.
Drop(s) ==
  /\ ~calm /\ link[s].alive
  /\ \E n \in 0 .. Len(link[s].up) :
       link' = [link EXCEPT ![s].alive = FALSE, ![s].up = SubSeq(@, 1, n), ![s].down = <<>>]
  /\ UNCHANGED <<socket, timer, started, visible, pending, view, server, calm>>

\* The page is reloaded: its sockets close, of its state localStorage remains.
Reload ==
  /\ ~calm /\ started
  /\ link' = [s \in Socket |-> [Abandoned(link, Request)[s] EXCEPT
                             !.client = "none", !.alive = FALSE, !.down = <<>>,
                             !.alone = FALSE]]
  /\ socket' = NoSocket /\ timer' = FALSE /\ started' = FALSE
  /\ pending' = [r \in Request |-> "none"]
  /\ room' = FALSE /\ limited' = FALSE
  /\ UNCHANGED <<visible, code, server, calm>>

\* The network holds from now on, the page stays in front, the address has a connection
\* to spare.  What the user, the host and the server do goes on.
Calm ==
  /\ ~calm /\ started /\ visible /\ others < MaxConn
  /\ calm' = TRUE
  /\ UNCHANGED <<link, socket, timer, started, visible, pending, view, server>>

Init ==
  /\ link = [s \in Socket |-> Unused]
  /\ socket = NoSocket /\ timer = FALSE /\ started = FALSE /\ visible = TRUE
  /\ pending = [r \in Request |-> "none"]
  /\ room = FALSE /\ code = FALSE /\ limited = FALSE
  /\ member = FALSE /\ seat = NoSocket
  /\ conns = 0 /\ others = 0
  /\ calm = FALSE

Next ==
  \/ Connect \/ TimerFires \/ PageHides \/ PageShows \/ Join \/ Leave \/ Reload
  \/ \E s \in Socket : \/ ClientOpens(s) \/ OnClose(s) \/ OnMessage(s)
                       \/ Upgrade(s) \/ ServerNotices(s) \/ Handle(s) \/ Drop(s)
  \/ \E r \in Request : Timeout(r)
  \/ Removal \/ OtherOpens \/ OtherCloses \/ Calm

\* Timers fire, and each end of a connection gets on with it: what arrives is taken, an
\* upgrade answered, a loss noticed.  Nothing is promised of the user or the host.
Fairness ==
  /\ WF_vars(TimerFires)
  /\ \A r \in Request : WF_vars(Timeout(r))
  /\ \A s \in Socket : /\ WF_vars(ClientOpens(s) \/ OnClose(s) \/ OnMessage(s))
                       /\ WF_vars(Upgrade(s) \/ ServerNotices(s) \/ Handle(s))

Spec == Init /\ [][Next]_vars /\ Fairness
=============================================================================
