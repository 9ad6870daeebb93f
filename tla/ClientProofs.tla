---------------------------- MODULE ClientProofs ----------------------------
(***************************************************************************)
(* Types, the count of connections and NotStranded hold of a tab for any   *)
(* number of sockets, requests, connections of others and any cap.  One    *)
(* inductive invariant carries the three: the count must not go below zero *)
(* to keep its type, and a tab sends only on a socket that is open.        *)
(* The second half of the module proves ViewConverges from it and from     *)
(* what the frames under way promise (ViewInv).                            *)
(***************************************************************************)
EXTENDS ClientSafety, FiniteSetTheorems, SequenceTheorems, TLAPS

Inv == ClientTypeOK /\ NotStranded /\ ConnectionsCounted

-----------------------------------------------------------------------------
(***************************************************************************)
(* Frames and links.                                                       *)
(***************************************************************************)
LEMMA UnusedIsLink == Unused \in Link
  BY DEF Unused, Link, Frame

LEMMA NoteIsFrame ==
  ASSUME NEW k \in {"rejoin", "join", "leave", "joined", "left", "evicted", "error", "busy"}
  PROVE  Note(k) \in Frame
  BY DEF Note, Frame

\* What sending a frame to the tab changes of a link.
LEMMA PushIsLink ==
  ASSUME NEW l \in Link, NEW f \in Frame
  PROVE  /\ Push(l, f) \in Link
         /\ Push(l, f).client = l.client /\ Push(l, f).server = l.server
<1>1. Append(l.down, f) \in Seq(Frame)  BY DEF Link
<1>2. [l EXCEPT !.down = Append(@, f)] \in Link  BY <1>1 DEF Link
<1>3. /\ [l EXCEPT !.down = Append(@, f)].client = l.client
      /\ [l EXCEPT !.down = Append(@, f)].server = l.server
  BY DEF Link
<1>. QED  BY <1>2, <1>3 DEF Push

LEMMA ForgettingIsSeq ==
  ASSUME NEW q \in Seq(Frame), NEW ids
  PROVE  Forgetting(q, ids) \in Seq(Frame)
<1>1. \A f \in Frame : [f EXCEPT !.id = NoRequest] \in Frame  BY DEF Frame
<1>2. Len(q) \in Nat /\ DOMAIN q = 1..Len(q) /\ \A i \in 1..Len(q) : q[i] \in Frame
  OBVIOUS
<1>3. Forgetting(q, ids) \in [1..Len(q) -> Frame]
  BY <1>1, <1>2 DEF Forgetting
<1>. QED  BY <1>2, <1>3

\* Giving requests up changes frames on their way and nothing else.
LEMMA AbandonedAreLinks ==
  ASSUME NEW l \in [Socket -> Link], NEW ids
  PROVE  /\ Abandoned(l, ids) \in [Socket -> Link]
         /\ \A s \in Socket : /\ Abandoned(l, ids)[s].client = l[s].client
                              /\ Abandoned(l, ids)[s].server = l[s].server
<1>1. ASSUME NEW s \in Socket
      PROVE  LET a == [l[s] EXCEPT !.up = Forgetting(@, ids), !.down = Forgetting(@, ids)]
             IN  a \in Link /\ a.client = l[s].client /\ a.server = l[s].server
  <2>1. l[s] \in Link /\ l[s].up \in Seq(Frame) /\ l[s].down \in Seq(Frame)  BY DEF Link
  <2>2. Forgetting(l[s].up, ids) \in Seq(Frame) /\ Forgetting(l[s].down, ids) \in Seq(Frame)
    BY <2>1, ForgettingIsSeq
  <2>. QED  BY <2>1, <2>2 DEF Link
<1>. QED  BY <1>1 DEF Abandoned

-----------------------------------------------------------------------------
(***************************************************************************)
(* Steps that open and close no end of a connection.                       *)
(***************************************************************************)
\* Both ends of every socket are as open as before.
SameEnds == \A s \in Socket : link'[s].client = link[s].client /\ link'[s].server = link[s].server

\* What the invariant says beyond types looks at the ends only.
LEMMA SameEndsKeep ==
  ASSUME Inv, SameEnds, UNCHANGED <<socket, timer, started, visible, conns, others>>
  PROVE  NotStranded' /\ ConnectionsCounted'
<1>1. Connecting' = Connecting /\ ServerOpen' = ServerOpen
  BY DEF SameEnds, Connecting, ServerOpen
<1>2. NotStranded'  BY <1>1 DEF Inv, NotStranded, IsConnected
<1>3. ConnectionsCounted'  BY <1>1 DEF Inv, ConnectionsCounted
<1>. QED  BY <1>2, <1>3

\* One link replaced by another with the same ends.
LEMMA OneLinkKeepsEnds ==
  ASSUME ClientTypeOK, NEW s \in Socket, NEW l \in Link, link' = [link EXCEPT ![s] = l],
         l.client = link[s].client, l.server = link[s].server
  PROVE  link' \in [Socket -> Link] /\ SameEnds
  BY DEF ClientTypeOK, SameEnds

-----------------------------------------------------------------------------
(***************************************************************************)
(* The tab.                                                                *)
(***************************************************************************)
LEMMA FlagsAreTyped ==
  ClientTypeOK => /\ timer \in BOOLEAN /\ started \in BOOLEAN /\ visible \in BOOLEAN
                  /\ room \in BOOLEAN /\ code \in BOOLEAN /\ limited \in BOOLEAN
                  /\ member \in BOOLEAN /\ calm \in BOOLEAN
  BY DEF ClientTypeOK

LEMMA FreshIsLink ==
  ASSUME NEW l \in Link, NEW a \in BOOLEAN
  PROVE  LET f == [l EXCEPT !.client = "connecting", !.alive = TRUE, !.alone = a]
         IN  f \in Link /\ f.client = "connecting" /\ f.server = l.server
  BY DEF Link

\* A new socket: someone is connecting, the server has none of it yet.
LEMMA ConnectOnceOpens ==
  ASSUME ClientTypeOK, ConnectOnce
  PROVE  /\ link' \in [Socket -> Link]
         /\ Connecting' # {}
         /\ ServerOpen' = ServerOpen
         /\ \A t \in Socket : link[t].client = "open" => link'[t].client = "open"
<1>. DEFINE s == CHOOSE s \in Free : TRUE
            alone == \A o \in Socket : link[o].client = "none" /\ link[o].up = <<>>
            fresh == [Unused EXCEPT !.client = "connecting", !.alive = TRUE, !.alone = alone]
<1>1. s \in Free /\ s \in Socket  BY DEF ConnectOnce, Free
<1>2. link[s].client = "none" /\ ~link[s].server  BY <1>1 DEF Free
<1>3. link' = [t \in Socket |-> IF t = s THEN fresh ELSE [link[t] EXCEPT !.alone = FALSE]]
  BY DEF ConnectOnce
<1>4. alone \in BOOLEAN  OBVIOUS
<1>. HIDE DEF alone
<1>5. fresh \in Link /\ fresh.client = "connecting" /\ fresh.server = FALSE
  <2>1. Unused.server = FALSE  BY DEF Unused
  <2>. QED  BY <1>4, <2>1, UnusedIsLink, FreshIsLink
<1>. HIDE DEF fresh
<1>6. \A t \in Socket : LET l == [link[t] EXCEPT !.alone = FALSE]
                        IN  l \in Link /\ l.client = link[t].client /\ l.server = link[t].server
  BY DEF ClientTypeOK, Link
<1>7. link' \in [Socket -> Link]  BY <1>3, <1>5, <1>6
<1>8. link'[s].client = "connecting" /\ link'[s].server = FALSE  BY <1>1, <1>3, <1>5
<1>9. \A t \in Socket \ {s} : link'[t].client = link[t].client /\ link'[t].server = link[t].server
  BY <1>3, <1>6
<1>. HIDE DEF s
<1>10. s \in Connecting'  BY <1>1, <1>8 DEF Connecting
<1>11. ServerOpen' = ServerOpen  BY <1>1, <1>2, <1>8, <1>9 DEF ServerOpen
<1>12. \A t \in Socket : link[t].client = "open" => link'[t].client = "open"
  BY <1>2, <1>9
<1>. QED  BY <1>7, <1>10, <1>11, <1>12

LEMMA ConnectKeeps == Inv /\ Connect => Inv'
<1>. SUFFICES ASSUME Inv, Connect PROVE Inv'  OBVIOUS
<1>. USE DEF Connect, Inv
<1>1. /\ link' \in [Socket -> Link] /\ Connecting' # {} /\ ServerOpen' = ServerOpen
      /\ \A t \in Socket : link[t].client = "open" => link'[t].client = "open"
  BY ConnectOnceOpens
<1>2. ClientTypeOK'  BY <1>1, FlagsAreTyped DEF ClientTypeOK, view, server
<1>3. NotStranded'  BY <1>1 DEF NotStranded
<1>4. ConnectionsCounted'  BY <1>1 DEF ConnectionsCounted, server
<1>. QED  BY <1>2, <1>3, <1>4

LEMMA TimerFiresKeeps == Inv /\ TimerFires => Inv'
<1>. SUFFICES ASSUME Inv, TimerFires PROVE Inv'  OBVIOUS
<1>. USE DEF TimerFires, Inv
<1>1. CASE visible
  <2>1. /\ link' \in [Socket -> Link] /\ Connecting' # {} /\ ServerOpen' = ServerOpen
        /\ \A t \in Socket : link[t].client = "open" => link'[t].client = "open"
    BY <1>1, ConnectOnceOpens
  <2>2. ClientTypeOK'  BY <2>1, FlagsAreTyped DEF ClientTypeOK, view, server
  <2>3. NotStranded'  BY <2>1 DEF NotStranded
  <2>4. ConnectionsCounted'  BY <2>1 DEF ConnectionsCounted, server
  <2>. QED  BY <2>2, <2>3, <2>4
<1>2. CASE ~visible
  <2>1. ClientTypeOK'  BY <1>2, FlagsAreTyped DEF ClientTypeOK, view, server
  <2>2. NotStranded'  BY <1>2 DEF NotStranded
  <2>3. ConnectionsCounted'  BY <1>2 DEF ConnectionsCounted, ServerOpen, server
  <2>. QED  BY <2>1, <2>2, <2>3
<1>. QED  BY <1>1, <1>2

LEMMA PageHidesKeeps == Inv /\ PageHides => Inv'
<1>. SUFFICES ASSUME Inv, PageHides PROVE Inv'  OBVIOUS
<1>. USE DEF PageHides, Inv
<1>1. ClientTypeOK'  BY FlagsAreTyped DEF ClientTypeOK, view, server
<1>2. NotStranded'  BY DEF NotStranded
<1>3. ConnectionsCounted'  BY DEF ConnectionsCounted, ServerOpen, server
<1>. QED  BY <1>1, <1>2, <1>3

LEMMA PageShowsKeeps == Inv /\ PageShows => Inv'
<1>. SUFFICES ASSUME Inv, PageShows PROVE Inv'  OBVIOUS
<1>. USE DEF PageShows, Inv
<1>1. CASE WakesUp
  <2>1. /\ link' \in [Socket -> Link] /\ Connecting' # {} /\ ServerOpen' = ServerOpen
        /\ \A t \in Socket : link[t].client = "open" => link'[t].client = "open"
    BY <1>1, ConnectOnceOpens
  <2>2. ClientTypeOK'  BY <1>1, <2>1, FlagsAreTyped DEF ClientTypeOK, view, server
  <2>3. NotStranded'  BY <2>1 DEF NotStranded
  <2>4. ConnectionsCounted'  BY <2>1 DEF ConnectionsCounted, server
  <2>. QED  BY <2>2, <2>3, <2>4
<1>2. CASE ~WakesUp
  <2>1. ClientTypeOK'  BY <1>2, FlagsAreTyped DEF ClientTypeOK, view, server
  <2>2. NotStranded'  BY <1>2 DEF NotStranded, WakesUp, IsConnected
  <2>3. ConnectionsCounted'  BY <1>2 DEF ConnectionsCounted, ServerOpen, server
  <2>. QED  BY <2>1, <2>2, <2>3
<1>. QED  BY <1>1, <1>2

\* Putting frames into, and taking them out of, what is under way to the server.
LEMMA UpIsLink ==
  ASSUME NEW l \in Link, NEW q \in Seq(Frame)
  PROVE  /\ [l EXCEPT !.up = q] \in Link
         /\ [l EXCEPT !.up = q].client = l.client /\ [l EXCEPT !.up = q].server = l.server
         /\ [l EXCEPT !.up = q].down = l.down
  BY DEF Link

LEMMA DownIsLink ==
  ASSUME NEW l \in Link, NEW q \in Seq(Frame)
  PROVE  /\ [l EXCEPT !.down = q] \in Link
         /\ [l EXCEPT !.down = q].client = l.client /\ [l EXCEPT !.down = q].server = l.server
  BY DEF Link

LEMMA QueuesAreSeqs ==
  ASSUME ClientTypeOK, NEW s \in Socket
  PROVE  link[s] \in Link /\ link[s].up \in Seq(Frame) /\ link[s].down \in Seq(Frame)
  BY DEF ClientTypeOK, Link

LEMMA ClosedIsLink ==
  ASSUME NEW l \in Link
  PROVE  LET c == [l EXCEPT !.client = "none", !.alone = FALSE]
         IN  c \in Link /\ c.server = l.server
  BY DEF Link

LEMMA ClientOpensKeeps == ASSUME Inv, NEW s \in Socket, ClientOpens(s) PROVE Inv'
<1>. USE DEF Inv
<1>0. link[s] \in Link /\ link[s].up \in Seq(Frame)  BY QueuesAreSeqs
<1>1. PICK q \in Seq(Frame) : link' = [link EXCEPT ![s].client = "open", ![s].up = q]
  <2>1. CASE code
    <3>1. PICK r \in Request : link' = [link EXCEPT ![s].client = "open",
             ![s].up = IF link[s].alive THEN Append(@, [kind |-> "rejoin", id |-> r]) ELSE @]
      BY <2>1 DEF ClientOpens, Pending
    <3>2. Append(link[s].up, [kind |-> "rejoin", id |-> r]) \in Seq(Frame)
      BY <1>0 DEF Frame
    <3>3. CASE link[s].alive
      <4>. WITNESS Append(link[s].up, [kind |-> "rejoin", id |-> r]) \in Seq(Frame)
      <4>. QED  BY <3>1, <3>3 DEF ClientTypeOK
    <3>4. CASE ~link[s].alive
      <4>. USE <1>0
      <4>. WITNESS link[s].up \in Seq(Frame)
      <4>. QED  BY <3>1, <3>4 DEF ClientTypeOK
    <3>. QED  BY <3>3, <3>4, <3>2
  <2>2. CASE ~code
    <3>. USE <1>0
    <3>. WITNESS link[s].up \in Seq(Frame)
    <3>. QED  BY <2>2, <1>0 DEF ClientOpens, ClientTypeOK, Link
  <2>. QED  BY <2>1, <2>2
<1>2. /\ link' \in [Socket -> Link]
      /\ link'[s].client = "open" /\ \A t \in Socket : link'[t].server = link[t].server
  BY <1>0, <1>1 DEF ClientTypeOK, Link
<1>3. pending' \in [Request -> {"none", "rejoin", "join"}]
  BY DEF ClientOpens, ClientTypeOK
<1>4. socket' = s /\ UNCHANGED <<timer, started, visible, room, code, limited, member, seat, conns, others, calm>>
  BY DEF ClientOpens, view, server
<1>5. ClientTypeOK'  BY <1>2, <1>3, <1>4, FlagsAreTyped DEF ClientTypeOK
<1>6. NotStranded'  BY <1>4, ClientAssumption DEF NotStranded, IsConnected
<1>7. ConnectionsCounted'
  <2>1. ServerOpen' = ServerOpen  BY <1>2 DEF ServerOpen
  <2>. QED  BY <1>4, <2>1 DEF ConnectionsCounted
<1>. QED  BY <1>5, <1>6, <1>7

LEMMA OnCloseKeeps == ASSUME Inv, NEW s \in Socket, OnClose(s) PROVE Inv'
<1>. USE DEF Inv
<1>. DEFINE closed == [link EXCEPT ![s].client = "none", ![s].alone = FALSE]
<1>1. /\ closed \in [Socket -> Link]
      /\ \A t \in Socket : closed[t].server = link[t].server
      /\ \A t \in Socket \ {s} : closed[t].client = link[t].client
  <2>1. closed = [link EXCEPT ![s] = [link[s] EXCEPT !.client = "none", !.alone = FALSE]]
    BY DEF ClientTypeOK
  <2>. QED  BY <2>1, QueuesAreSeqs, ClosedIsLink DEF ClientTypeOK
<1>2. link' = Abandoned(closed, Request)  BY DEF OnClose
<1>. HIDE DEF closed
<1>3. /\ link' \in [Socket -> Link]
      /\ \A t \in Socket : link'[t].server = link[t].server
      /\ \A t \in Socket \ {s} : link'[t].client = link[t].client
  BY <1>1, <1>2, AbandonedAreLinks
<1>4. /\ socket' = IF socket = s THEN NoSocket ELSE socket
      /\ timer' = TRUE /\ pending' = [r \in Request |-> "none"]
      /\ room' \in BOOLEAN /\ code' \in BOOLEAN
      /\ UNCHANGED <<started, visible, limited, member, seat, conns, others, calm>>
  BY FlagsAreTyped DEF OnClose, SocketWithout, Rearmed, Reset, server
<1>5. ClientTypeOK'  BY <1>3, <1>4, FlagsAreTyped DEF ClientTypeOK
<1>6. NotStranded'  BY <1>4 DEF NotStranded
<1>7. ConnectionsCounted'
  <2>1. ServerOpen' = ServerOpen  BY <1>3 DEF ServerOpen
  <2>. QED  BY <1>4, <2>1 DEF ConnectionsCounted
<1>. QED  BY <1>5, <1>6, <1>7

\* What is sent goes out on ws.socket.
LEMMA SendIsLinks ==
  ASSUME Inv, IsConnected, NEW f \in Frame, Send(f)
  PROVE  link' \in [Socket -> Link] /\ SameEnds
<1>. USE DEF Inv
<1>1. socket \in Socket /\ link[socket] \in Link /\ link[socket].up \in Seq(Frame)
  BY QueuesAreSeqs DEF IsConnected, ClientTypeOK
<1>2. Append(link[socket].up, f) \in Seq(Frame)  BY <1>1
<1>3. link' = [link EXCEPT ![socket] = [link[socket] EXCEPT !.up =
                IF link[socket].alive THEN Append(link[socket].up, f) ELSE link[socket].up]]
  BY <1>1 DEF Send, ClientTypeOK
<1>4. CASE link[socket].alive  BY <1>1, <1>2, <1>3, <1>4, UpIsLink, OneLinkKeepsEnds
<1>5. CASE ~link[socket].alive  BY <1>1, <1>3, <1>5, UpIsLink, OneLinkKeepsEnds
<1>. QED  BY <1>4, <1>5

LEMMA JoinKeeps == ASSUME Inv, Join PROVE Inv'
<1>1. PICK r \in Request : /\ pending' = [pending EXCEPT ![r] = "join"]
                           /\ Send([kind |-> "join", id |-> r])
  BY DEF Join, Pending
<1>2. [kind |-> "join", id |-> r] \in Frame  BY DEF Frame
<1>3. link' \in [Socket -> Link] /\ SameEnds  BY <1>1, <1>2, SendIsLinks DEF Join
<1>4. UNCHANGED <<socket, timer, started, visible, room, code, limited, member, seat, conns, others, calm>>
  BY DEF Join, tab, server
<1>5. ClientTypeOK'
  BY <1>1, <1>3, <1>4, FlagsAreTyped DEF Inv, ClientTypeOK, SameEnds
<1>. QED  BY <1>3, <1>4, <1>5, SameEndsKeep DEF Inv

LEMMA LeaveKeeps == ASSUME Inv, Leave PROVE Inv'
<1>1. link' \in [Socket -> Link] /\ SameEnds  BY NoteIsFrame, SendIsLinks DEF Leave
<1>2. UNCHANGED <<socket, timer, started, visible, room, code, limited, pending, member, seat, conns, others, calm>>
  BY DEF Leave, tab, server
<1>3. ClientTypeOK'  BY <1>1, <1>2, FlagsAreTyped DEF Inv, ClientTypeOK, SameEnds
<1>. QED  BY <1>1, <1>2, <1>3, SameEndsKeep DEF Inv

LEMMA TimeoutKeeps == ASSUME Inv, NEW r \in Request, Timeout(r) PROVE Inv'
<1>1. link' \in [Socket -> Link] /\ SameEnds
  BY AbandonedAreLinks DEF Timeout, SameEnds, Inv, ClientTypeOK
<1>2. /\ room' \in BOOLEAN /\ code' \in BOOLEAN
      /\ pending' \in [Request -> {"none", "rejoin", "join"}]
      /\ UNCHANGED <<socket, timer, started, visible, limited, member, seat, conns, others, calm>>
  BY FlagsAreTyped DEF Timeout, Reset, server, Inv, ClientTypeOK
<1>3. ClientTypeOK'  BY <1>1, <1>2, FlagsAreTyped DEF Inv, ClientTypeOK, SameEnds
<1>. QED  BY <1>1, <1>2, <1>3, SameEndsKeep DEF Inv

LEMMA OnMessageKeeps == ASSUME Inv, NEW s \in Socket, OnMessage(s) PROVE Inv'
<1>1. link' \in [Socket -> Link] /\ SameEnds
  <2>1. link[s] \in Link /\ link[s].down \in Seq(Frame) /\ link[s].down # <<>>
    BY QueuesAreSeqs DEF OnMessage, Inv
  <2>2. Tail(link[s].down) \in Seq(Frame)  BY <2>1
  <2>3. link' = [link EXCEPT ![s] = [link[s] EXCEPT !.down = Tail(link[s].down)]]
    BY DEF OnMessage, Inv, ClientTypeOK
  <2>. QED  BY <2>1, <2>2, <2>3, DownIsLink, OneLinkKeepsEnds DEF Inv
<1>2. /\ room' \in BOOLEAN /\ code' \in BOOLEAN /\ limited' \in BOOLEAN
  BY FlagsAreTyped DEF OnMessage, Reset, Inv
<1>3. pending' \in [Request -> {"none", "rejoin", "join"}]
  BY DEF OnMessage, Inv, ClientTypeOK
<1>4. UNCHANGED <<socket, timer, started, visible, member, seat, conns, others, calm>>
  BY DEF OnMessage, server
<1>5. ClientTypeOK'  BY <1>1, <1>2, <1>3, <1>4, FlagsAreTyped DEF Inv, ClientTypeOK, SameEnds
<1>. QED  BY <1>1, <1>4, <1>5, SameEndsKeep DEF Inv

-----------------------------------------------------------------------------
(***************************************************************************)
(* The server.                                                             *)
(***************************************************************************)
\* The links l, and every end of theirs is as in link.
Alike(l) ==
  /\ l \in [Socket -> Link]
  /\ \A t \in Socket : l[t].client = link[t].client /\ l[t].server = link[t].server

LEMMA AlikeWith ==
  ASSUME NEW l \in [Socket -> Link], Alike(l), NEW s \in Socket, NEW m \in Link,
         m.client = l[s].client, m.server = l[s].server
  PROVE  Alike([l EXCEPT ![s] = m])
  BY DEF Alike

LEMMA BoundIsLink ==
  ASSUME NEW l \in Link, NEW b \in BOOLEAN
  PROVE  LET c == [l EXCEPT !.bound = b]
         IN  c \in Link /\ c.client = l.client /\ c.server = l.server
  BY DEF Link

LEMMA TakenAlike ==
  ASSUME ClientTypeOK, NEW s \in Socket, link[s].up # <<>>
  PROVE  Alike(Taken(s))
<1>. DEFINE taken == [link[s] EXCEPT !.up = Tail(link[s].up)]
<1>1. link[s] \in Link /\ Tail(link[s].up) \in Seq(Frame)  BY QueuesAreSeqs
<1>2. taken \in Link /\ taken.client = link[s].client /\ taken.server = link[s].server
  BY <1>1, UpIsLink
<1>3. Alike(link)  BY DEF Alike, ClientTypeOK
<1>4. Taken(s) = [link EXCEPT ![s] = taken]  BY DEF Taken, ClientTypeOK
<1>. HIDE DEF taken
<1>5. link \in [Socket -> Link]  BY DEF ClientTypeOK
<1>6. Alike([link EXCEPT ![s] = taken])  BY <1>2, <1>3, <1>5, AlikeWith
<1>. QED  BY <1>4, <1>6

LEMMA AnsweredAlike ==
  ASSUME ClientTypeOK, NEW s \in Socket, link[s].up # <<>>,
         NEW k \in {"joined", "left", "evicted", "error", "busy"}
  PROVE  Alike(Answered(s, k))
<1>. DEFINE taken == [link[s] EXCEPT !.up = Tail(link[s].up)]
            answer == [kind |-> k, id |-> Head(link[s].up).id]
<1>1. link[s] \in Link /\ Tail(link[s].up) \in Seq(Frame) /\ Head(link[s].up) \in Frame
  BY QueuesAreSeqs
<1>2. taken \in Link /\ taken.client = link[s].client /\ taken.server = link[s].server
  BY <1>1, UpIsLink
<1>3. answer \in Frame  BY <1>1 DEF Frame
<1>4. Alike(link)  BY DEF Alike, ClientTypeOK
<1>5. Answered(s, k) = [link EXCEPT ![s] = Push(taken, answer)]
  BY DEF Answered, ClientTypeOK
<1>. HIDE DEF taken, answer
<1>6. /\ Push(taken, answer) \in Link
      /\ Push(taken, answer).client = link[s].client
      /\ Push(taken, answer).server = link[s].server
  BY <1>2, <1>3, PushIsLink
<1>. QED  BY <1>4, <1>5, <1>6, AlikeWith DEF ClientTypeOK

LEMMA RemovedAlike ==
  ASSUME ClientTypeOK, NEW l, Alike(l), NEW k \in {"left", "evicted"}
  PROVE  Alike(Removed(l, k))
<1>1. CASE seat = NoSocket  BY <1>1 DEF Removed
<1>2. CASE seat # NoSocket
  <2>. DEFINE unbound == [l[seat] EXCEPT !.bound = FALSE]
  <2>1. seat \in Socket /\ l[seat] \in Link  BY <1>2 DEF ClientTypeOK, Alike
  <2>2. unbound \in Link /\ unbound.client = l[seat].client /\ unbound.server = l[seat].server
    BY <2>1, BoundIsLink
  <2>3. Note(k) \in Frame  BY NoteIsFrame
  <2>4. Removed(l, k) = [l EXCEPT ![seat] = Push(unbound, Note(k))]
    BY <1>2, <2>1 DEF Removed, Alike
  <2>. HIDE DEF unbound
  <2>5. /\ Push(unbound, Note(k)) \in Link
        /\ Push(unbound, Note(k)).client = l[seat].client
        /\ Push(unbound, Note(k)).server = l[seat].server
    BY <2>2, <2>3, PushIsLink
  <2>6. l \in [Socket -> Link]  BY DEF Alike
  <2>. QED  BY <2>1, <2>4, <2>5, <2>6, AlikeWith
<1>. QED  BY <1>1, <1>2

\* A step that changes what is under way, who is a member and where he sits.
LEMMA MembershipKeeps ==
  ASSUME Inv, Alike(link'), member' \in BOOLEAN, seat' \in Socket \cup {NoSocket},
         UNCHANGED <<socket, timer, started, visible, pending, room, code, limited, conns, others, calm>>
  PROVE  Inv'
<1>1. link' \in [Socket -> Link] /\ SameEnds  BY DEF Alike, SameEnds
<1>2. ClientTypeOK'  BY <1>1, FlagsAreTyped DEF Inv, ClientTypeOK, SameEnds
<1>. QED  BY <1>1, <1>2, SameEndsKeep DEF Inv

LEMMA HandleKeeps == ASSUME Inv, NEW s \in Socket, Handle(s) PROVE Inv'
<1>1. link[s].up # <<>> /\ ClientTypeOK  BY DEF Handle, Inv
<1>2. member \in BOOLEAN /\ seat \in Socket \cup {NoSocket}
  BY <1>1, FlagsAreTyped DEF ClientTypeOK
<1>3. UNCHANGED <<socket, timer, started, visible, pending, room, code, limited, conns, others, calm>>
  BY DEF Handle, view
<1>4. CASE Busy(s)
  <2>1. Alike(link')  BY <1>1, <1>4, TakenAlike, AnsweredAlike DEF Busy
  <2>2. UNCHANGED <<member, seat>>  BY <1>4 DEF Busy
  <2>. QED  BY <1>2, <1>3, <2>1, <2>2, MembershipKeeps
<1>5. CASE HandleRejoin(s)
  <2>1. Alike(link')  BY <1>1, <1>5, AnsweredAlike DEF HandleRejoin
  <2>2. UNCHANGED <<member, seat>>  BY <1>5 DEF HandleRejoin
  <2>. QED  BY <1>2, <1>3, <2>1, <2>2, MembershipKeeps
<1>6. CASE HandleJoin(s)
  <2>1. CASE link' = Answered(s, "error") /\ UNCHANGED <<member, seat>>
    <3>1. Alike(link')  BY <1>1, <2>1, AnsweredAlike
    <3>. QED  BY <1>2, <1>3, <2>1, <3>1, MembershipKeeps
  <2>2. CASE /\ link' = [Answered(s, "joined") EXCEPT ![s].bound = TRUE]
             /\ member' = TRUE /\ seat' = s
    <3>. DEFINE answered == Answered(s, "joined")
                bound == [answered[s] EXCEPT !.bound = TRUE]
    <3>1. Alike(answered)  BY <1>1, AnsweredAlike
    <3>. HIDE DEF answered
    <3>2. answered \in [Socket -> Link] /\ answered[s] \in Link  BY <3>1 DEF Alike
    <3>3. bound \in Link /\ bound.client = answered[s].client /\ bound.server = answered[s].server
      BY <3>2, BoundIsLink
    <3>4. link' = [answered EXCEPT ![s] = bound]  BY <2>2, <3>1 DEF Alike, answered
    <3>. HIDE DEF bound
    <3>5. Alike(link')  BY <3>1, <3>2, <3>3, <3>4, AlikeWith
    <3>. QED  BY <1>3, <2>2, <3>5, MembershipKeeps
  <2>. QED  BY <1>6, <2>1, <2>2 DEF HandleJoin
<1>7. CASE HandleLeave(s)
  <2>1. Alike(link')  BY <1>1, <1>7, TakenAlike, RemovedAlike DEF HandleLeave
  <2>2. member' \in BOOLEAN /\ seat' \in Socket \cup {NoSocket}
    BY <1>2, <1>7 DEF HandleLeave
  <2>. QED  BY <1>3, <2>1, <2>2, MembershipKeeps
<1>. QED  BY <1>4, <1>5, <1>6, <1>7 DEF Handle

LEMMA RemovalKeeps == ASSUME Inv, Removal PROVE Inv'
<1>1. Alike(link)  BY DEF Alike, Inv, ClientTypeOK
<1>2. Alike(link')  BY <1>1, RemovedAlike DEF Removal, Inv
<1>. QED  BY <1>2, MembershipKeeps DEF Removal, view

\* The server opens its end: one connection more is counted.
LEMMA ServerOpens ==
  ASSUME ClientTypeOK, NEW s \in Socket, ~link[s].server, NEW m \in Link, m.server,
         link' = [link EXCEPT ![s] = m]
  PROVE  Cardinality(ServerOpen') = Cardinality(ServerOpen) + 1
<1>1. ServerOpen' = ServerOpen \cup {s} /\ s \notin ServerOpen
  BY DEF ServerOpen, ClientTypeOK
<1>2. IsFiniteSet(ServerOpen)  BY FS_Subset, ClientAssumption DEF ServerOpen
<1>. QED  BY <1>1, <1>2, FS_AddElement

\* It closes its end: one less.
LEMMA ServerCloses ==
  ASSUME ClientTypeOK, NEW s \in Socket, link[s].server, NEW m \in Link, ~m.server,
         link' = [link EXCEPT ![s] = m]
  PROVE  /\ Cardinality(ServerOpen') = Cardinality(ServerOpen) - 1
         /\ Cardinality(ServerOpen) \in Nat \ {0}
<1>1. ServerOpen' = ServerOpen \ {s} /\ s \in ServerOpen
  BY DEF ServerOpen, ClientTypeOK
<1>2. IsFiniteSet(ServerOpen)  BY FS_Subset, ClientAssumption DEF ServerOpen
<1>3. Cardinality(ServerOpen) # 0  BY <1>1, <1>2, FS_EmptySet
<1>. QED  BY <1>1, <1>2, <1>3, FS_RemoveElement, FS_CardinalityType

LEMMA OpenedIsLink ==
  ASSUME NEW l \in Link, NEW b \in BOOLEAN
  PROVE  LET o == [l EXCEPT !.server = TRUE, !.bound = b]
         IN  o \in Link /\ o.client = l.client /\ o.server = TRUE
  BY DEF Link

LEMMA GoneIsLink ==
  ASSUME NEW l \in Link
  PROVE  LET g == [l EXCEPT !.server = FALSE, !.bound = FALSE]
         IN  g \in Link /\ g.client = l.client /\ g.server = FALSE
  BY DEF Link

LEMMA DeadIsLink ==
  ASSUME NEW l \in Link
  PROVE  LET d == [l EXCEPT !.alive = FALSE]
         IN  d \in Link /\ d.client = l.client /\ d.server = l.server
  BY DEF Link

\* No end of the tab's changes, so it is as little stranded as before.
LEMMA ClientEndsKeep ==
  ASSUME Inv, \A t \in Socket : link'[t].client = link[t].client,
         UNCHANGED <<socket, timer, started, visible>>
  PROVE  NotStranded'
<1>1. Connecting' = Connecting  BY DEF Connecting
<1>. QED  BY <1>1 DEF Inv, NotStranded, IsConnected

LEMMA UpgradeKeeps == ASSUME Inv, NEW s \in Socket, Upgrade(s) PROVE Inv'
<1>. USE DEF Inv
<1>1. link[s] \in Link /\ member \in BOOLEAN  BY QueuesAreSeqs, FlagsAreTyped
<1>2. UNCHANGED <<socket, timer, started, visible, pending, room, code, limited, member, others, calm>>
  BY DEF Upgrade, view
<1>3. CASE conns < MaxConn
  <2>. DEFINE opened == [link[s] EXCEPT !.server = TRUE, !.bound = member]
  <2>1. opened \in Link /\ opened.client = link[s].client /\ opened.server = TRUE
    BY <1>1, OpenedIsLink
  <2>2. link' = [link EXCEPT ![s] = Greeted(opened)]
    BY <1>3 DEF Upgrade, ClientTypeOK
  <2>. HIDE DEF opened
  <2>3. /\ Greeted(opened) \in Link /\ Greeted(opened).client = link[s].client
        /\ Greeted(opened).server
    BY <2>1, NoteIsFrame, PushIsLink DEF Greeted
  <2>. DEFINE greeted == Greeted(opened)
  <2>4. greeted \in Link /\ greeted.client = link[s].client /\ greeted.server
    BY <2>3
  <2>5. link' = [link EXCEPT ![s] = greeted]  BY <2>2
  <2>. HIDE DEF greeted
  <2>6. link' \in [Socket -> Link] /\ \A t \in Socket : link'[t].client = link[t].client
    BY <2>4, <2>5 DEF ClientTypeOK
  <2>7. Cardinality(ServerOpen') = Cardinality(ServerOpen) + 1
    BY <2>4, <2>5, ServerOpens DEF Upgrade
  <2>8. conns' = conns + 1 /\ seat' \in Socket \cup {NoSocket}
    BY <1>3 DEF Upgrade, Counted, ClientTypeOK
  <2>9. ClientTypeOK'  BY <1>2, <2>6, <2>8, FlagsAreTyped DEF ClientTypeOK
  <2>10. NotStranded'  BY <1>2, <2>6, ClientEndsKeep
  <2>11. ConnectionsCounted'
    <3>1. Cardinality(ServerOpen) \in Nat
      BY FS_Subset, FS_CardinalityType, ClientAssumption DEF ServerOpen
    <3>. QED
      BY <1>2, <1>3, <2>7, <2>8, <3>1, ClientAssumption DEF ConnectionsCounted, ClientTypeOK
  <2>. QED  BY <2>9, <2>10, <2>11
<1>4. CASE ~(conns < MaxConn)
  <2>1. link' = [link EXCEPT ![s] = [link[s] EXCEPT !.alive = FALSE]]
    BY <1>4 DEF Upgrade, ClientTypeOK
  <2>2. link' \in [Socket -> Link] /\ SameEnds
    BY <1>1, <2>1, DeadIsLink, OneLinkKeepsEnds
  <2>3. UNCHANGED <<conns, seat>>  BY <1>4 DEF Upgrade, Counted
  <2>4. ClientTypeOK'  BY <1>2, <2>2, <2>3, FlagsAreTyped DEF ClientTypeOK, SameEnds
  <2>. QED  BY <1>2, <2>2, <2>3, <2>4, SameEndsKeep
<1>. QED  BY <1>3, <1>4

LEMMA ServerNoticesKeeps == ASSUME Inv, NEW s \in Socket, ServerNotices(s) PROVE Inv'
<1>. USE DEF Inv
<1>. DEFINE gone == [link[s] EXCEPT !.server = FALSE, !.bound = FALSE]
<1>1. gone \in Link /\ gone.client = link[s].client /\ ~gone.server
  BY QueuesAreSeqs, GoneIsLink
<1>2. link' = [link EXCEPT ![s] = gone]  BY DEF ServerNotices, ClientTypeOK
<1>. HIDE DEF gone
<1>3. link' \in [Socket -> Link] /\ \A t \in Socket : link'[t].client = link[t].client
  BY <1>1, <1>2 DEF ClientTypeOK
<1>4. UNCHANGED <<socket, timer, started, visible, pending, room, code, limited, member, others, calm>>
  BY DEF ServerNotices, view
<1>5. conns' = conns - 1 /\ seat' \in Socket \cup {NoSocket}
  BY DEF ServerNotices, ClientTypeOK
<1>6. /\ Cardinality(ServerOpen') = Cardinality(ServerOpen) - 1
      /\ Cardinality(ServerOpen) \in Nat \ {0}
  BY <1>1, <1>2, ServerCloses DEF ServerNotices
<1>7. conns' \in Nat  BY <1>5, <1>6 DEF ConnectionsCounted, ClientTypeOK
<1>8. ClientTypeOK'  BY <1>3, <1>4, <1>5, <1>7, FlagsAreTyped DEF ClientTypeOK
<1>9. NotStranded'  BY <1>3, <1>4, ClientEndsKeep
<1>10. ConnectionsCounted'
  BY <1>4, <1>5, <1>6, ClientAssumption DEF ConnectionsCounted, ClientTypeOK
<1>. QED  BY <1>8, <1>9, <1>10

\* The connections of the other tabs at the address.
LEMMA OthersKeep == ASSUME Inv, OtherOpens \/ OtherCloses PROVE Inv'
<1>. USE DEF Inv
<1>1. UNCHANGED <<link, socket, timer, started, visible, pending, room, code, limited, member, seat, calm>>
  BY DEF OtherOpens, OtherCloses, view
<1>2. ServerOpen' = ServerOpen /\ Connecting' = Connecting
  BY <1>1 DEF ServerOpen, Connecting
<1>3. Cardinality(ServerOpen) \in Nat
  BY FS_Subset, FS_CardinalityType, ClientAssumption DEF ServerOpen
<1>4. /\ conns' \in Nat /\ others' \in Nat /\ conns' <= MaxConn
      /\ conns' = others' + Cardinality(ServerOpen)
  BY <1>3, ClientAssumption DEF OtherOpens, OtherCloses, ConnectionsCounted, ClientTypeOK
<1>5. ClientTypeOK'  BY <1>1, <1>4, FlagsAreTyped DEF ClientTypeOK
<1>6. NotStranded'  BY <1>1, <1>2 DEF NotStranded, IsConnected
<1>7. ConnectionsCounted'  BY <1>2, <1>4 DEF ConnectionsCounted
<1>. QED  BY <1>5, <1>6, <1>7

-----------------------------------------------------------------------------
(***************************************************************************)
(* The network and the page.                                               *)
(***************************************************************************)
LEMMA CutIsLink ==
  ASSUME NEW l \in Link, NEW q \in Seq(Frame)
  PROVE  LET c == [l EXCEPT !.alive = FALSE, !.up = q, !.down = <<>>]
         IN  c \in Link /\ c.client = l.client /\ c.server = l.server
<1>1. <<>> \in Seq(Frame)  OBVIOUS
<1>. QED  BY <1>1 DEF Link

LEMMA DropKeeps == ASSUME Inv, NEW s \in Socket, Drop(s) PROVE Inv'
<1>. USE DEF Inv
<1>1. link[s] \in Link /\ link[s].up \in Seq(Frame)  BY QueuesAreSeqs
<1>2. PICK n \in 0 .. Len(link[s].up) :
        link' = [link EXCEPT ![s].alive = FALSE, ![s].up = SubSeq(@, 1, n), ![s].down = <<>>]
  BY DEF Drop
<1>. DEFINE q == SubSeq(link[s].up, 1, n)
<1>3. q \in Seq(Frame)  BY <1>1
<1>4. link' = [link EXCEPT ![s] = [link[s] EXCEPT !.alive = FALSE, !.up = q, !.down = <<>>]]
  BY <1>2 DEF ClientTypeOK
<1>. HIDE DEF q
<1>5. link' \in [Socket -> Link] /\ SameEnds
  BY <1>1, <1>3, <1>4, CutIsLink, OneLinkKeepsEnds
<1>6. UNCHANGED <<socket, timer, started, visible, pending, room, code, limited, member, seat, conns, others, calm>>
  BY DEF Drop, view, server
<1>7. ClientTypeOK'  BY <1>5, <1>6, FlagsAreTyped DEF ClientTypeOK, SameEnds
<1>. QED  BY <1>5, <1>6, <1>7, SameEndsKeep

LEMMA ReloadedIsLink ==
  ASSUME NEW l \in Link
  PROVE  LET c == [l EXCEPT !.client = "none", !.alive = FALSE, !.down = <<>>, !.alone = FALSE]
         IN  c \in Link /\ c.server = l.server
<1>1. <<>> \in Seq(Frame)  OBVIOUS
<1>. QED  BY <1>1 DEF Link

LEMMA ReloadKeeps == ASSUME Inv, Reload PROVE Inv'
<1>. USE DEF Inv
<1>. DEFINE a == Abandoned(link, Request)
<1>1. a \in [Socket -> Link] /\ \A t \in Socket : a[t].server = link[t].server
  BY AbandonedAreLinks DEF ClientTypeOK
<1>2. link' = [t \in Socket |-> [a[t] EXCEPT !.client = "none", !.alive = FALSE,
                                            !.down = <<>>, !.alone = FALSE]]
  BY DEF Reload
<1>. HIDE DEF a
<1>3. \A t \in Socket : link'[t] \in Link /\ link'[t].server = link[t].server
  BY <1>1, <1>2, ReloadedIsLink
<1>4. link' \in [Socket -> Link]  BY <1>2, <1>3
<1>5. /\ socket' = NoSocket /\ timer' = FALSE /\ started' = FALSE
      /\ room' = FALSE /\ limited' = FALSE /\ pending' = [r \in Request |-> "none"]
      /\ UNCHANGED <<visible, code, member, seat, conns, others, calm>>
  BY DEF Reload, server
<1>6. ClientTypeOK'  BY <1>4, <1>5, FlagsAreTyped DEF ClientTypeOK
<1>7. NotStranded'  BY <1>5 DEF NotStranded
<1>8. ConnectionsCounted'
  <2>1. ServerOpen' = ServerOpen  BY <1>3 DEF ServerOpen
  <2>. QED  BY <1>5, <2>1 DEF ConnectionsCounted
<1>. QED  BY <1>6, <1>7, <1>8

LEMMA CalmKeeps == ASSUME Inv, Calm PROVE Inv'
<1>. USE DEF Inv
<1>1. /\ UNCHANGED <<link, socket, timer, started, visible, pending, room, code, limited, member, seat, conns, others>>
      /\ calm' = TRUE
  BY DEF Calm, view, server
<1>2. ClientTypeOK'  BY <1>1, FlagsAreTyped DEF ClientTypeOK
<1>3. NotStranded'  BY <1>1 DEF NotStranded, IsConnected, Connecting
<1>4. ConnectionsCounted'  BY <1>1 DEF ConnectionsCounted, ServerOpen
<1>. QED  BY <1>2, <1>3, <1>4

LEMMA UnchangedKeeps == ASSUME Inv, UNCHANGED vars PROVE Inv'
<1>1. ClientTypeOK'  BY DEF Inv, ClientTypeOK, vars, view, server
<1>2. NotStranded'  BY DEF Inv, NotStranded, IsConnected, Connecting, vars
<1>3. ConnectionsCounted'  BY DEF Inv, ConnectionsCounted, ServerOpen, vars, server
<1>. QED  BY <1>1, <1>2, <1>3 DEF Inv

LEMMA InvInitial == Init => Inv
<1>. SUFFICES ASSUME Init PROVE Inv  OBVIOUS
<1>1. ClientTypeOK  BY UnusedIsLink DEF Init, ClientTypeOK
<1>2. NotStranded  BY DEF Init, NotStranded
<1>3. ConnectionsCounted
  <2>1. ServerOpen = {}  BY DEF Init, ServerOpen, Unused
  <2>. QED  BY <2>1, FS_EmptySet, ClientAssumption DEF Init, ConnectionsCounted
<1>. QED  BY <1>1, <1>2, <1>3 DEF Inv

LEMMA InvInductive == Inv /\ [Next]_vars => Inv'
<1>. SUFFICES ASSUME Inv, [Next]_vars PROVE Inv'  OBVIOUS
<1>1. CASE Connect  BY <1>1, ConnectKeeps
<1>2. CASE TimerFires  BY <1>2, TimerFiresKeeps
<1>3. CASE PageHides  BY <1>3, PageHidesKeeps
<1>4. CASE PageShows  BY <1>4, PageShowsKeeps
<1>5. CASE Join  BY <1>5, JoinKeeps
<1>6. CASE Leave  BY <1>6, LeaveKeeps
<1>7. CASE Reload  BY <1>7, ReloadKeeps
<1>8. ASSUME NEW s \in Socket, ClientOpens(s) \/ OnClose(s) \/ OnMessage(s)
      PROVE  Inv'
  BY <1>8, ClientOpensKeeps, OnCloseKeeps, OnMessageKeeps
<1>9. ASSUME NEW s \in Socket, Upgrade(s) \/ ServerNotices(s) \/ Handle(s) \/ Drop(s)
      PROVE  Inv'
  BY <1>9, UpgradeKeeps, ServerNoticesKeeps, HandleKeeps, DropKeeps
<1>10. ASSUME NEW r \in Request, Timeout(r) PROVE Inv'
  BY <1>10, TimeoutKeeps
<1>11. CASE Removal  BY <1>11, RemovalKeeps
<1>12. CASE OtherOpens \/ OtherCloses  BY <1>12, OthersKeep
<1>13. CASE Calm  BY <1>13, CalmKeeps
<1>14. CASE UNCHANGED vars  BY <1>14, UnchangedKeeps
<1>. QED
  BY <1>1, <1>2, <1>3, <1>4, <1>5, <1>6, <1>7, <1>8, <1>9, <1>10, <1>11, <1>12, <1>13, <1>14
  DEF Next

LEMMA SpecKeepsInv == Spec => []Inv
  BY InvInitial, InvInductive, PTL DEF Spec

-----------------------------------------------------------------------------
\* Every variable of the tab and of its seat keeps its type: in particular ws.socket,
\* when it is set, is an open socket, so no send reaches a closed one.
THEOREM ClientTypeCorrect == Spec => []ClientTypeOK
<1>1. Inv => ClientTypeOK  BY DEF Inv
<1>. QED  BY <1>1, SpecKeepsInv, PTL

\* However closes, failed attempts, page switches and timers interleave, a tab in front
\* that was told to connect is connected, connecting, or has the timer armed.
THEOREM TabNotStranded == Spec => []NotStranded
<1>1. Inv => NotStranded  BY DEF Inv
<1>. QED  BY <1>1, SpecKeepsInv, PTL

\* conn_per_ip_ counts the connections of the address that the server has open, for any
\* number of sockets and any cap, and never passes the cap.
THEOREM ConnectionsAreCounted == Spec => []ConnectionsCounted
<1>1. Inv => ConnectionsCounted  BY DEF Inv
<1>. QED  BY <1>1, SpecKeepsInv, PTL

-----------------------------------------------------------------------------
(***************************************************************************)
(* What tab and server have told each other.  A frame that shows the room  *)
(* to a tab whose user has left it is followed by one that hides it, and   *)
(* the other way round; every rejoin that is pending has its frame, or the *)
(* answer, under way.                                                      *)
(***************************************************************************)
Has(q, A) == \E i \in 1 .. Len(q) : q[i] \in A

\* Whatever of A there is in q comes before something of B.
Followed(q, A, B) ==
  \A i \in 1 .. Len(q) : q[i] \in A => \E j \in 1 .. Len(q) : j > i /\ q[j] \in B

OfKind(K)     == {f \in Frame : f.kind \in K}
Waiting(K, p) == {f \in Frame : f.kind \in K /\ f.id # NoRequest /\ p[f.id] = "rejoin"}
Carrying(r)   == {f \in Frame : f.kind = "rejoin" /\ f.id = r}
AnswerTo(r)   == {f \in Frame : f.kind \in {"joined", "evicted", "error", "busy"} /\ f.id = r}

Shows         == OfKind({"joined"})
Hides         == OfKind({"left", "evicted"})
Refuses(p)    == Waiting({"error", "busy"}, p)
Misleads(p)   == Hides \cup Waiting({"error"}, p)

LEMMA FramesAppended ==
  ASSUME NEW q \in Seq(Frame), NEW f \in Frame, NEW A, NEW B
  PROVE  /\ Append(q, f) \in Seq(Frame)
         /\ Has(Append(q, f), A) <=> (Has(q, A) \/ f \in A)
         /\ Followed(q, A, B) /\ f \notin A => Followed(Append(q, f), A, B)
         /\ f \in B /\ f \notin A => Followed(Append(q, f), A, B)
  <1>1. PICK r : r = Append(q, f)
    OBVIOUS
  <1>2. /\ r \in Seq(Frame) /\ Len(r) = Len(q) + 1 /\ Len(q) \in Nat
        /\ \A i \in 1 .. Len(q) : r[i] = q[i]
        /\ r[Len(q) + 1] = f
    BY <1>1, AppendProperties, LenProperties
  <1>3. Has(r, A) <=> (Has(q, A) \/ f \in A)
    <2>1. Has(q, A) => Has(r, A)
      BY <1>2 DEF Has
    <2>2. f \in A => Has(r, A)
      BY <1>2 DEF Has
    <2>3. Has(r, A) => Has(q, A) \/ f \in A
      <3> SUFFICES ASSUME NEW i \in 1 .. Len(q) + 1, r[i] \in A, f \notin A PROVE Has(q, A)
        BY <1>2 DEF Has
      <3>1. i \in 1 .. Len(q)
        BY <1>2
      <3> QED
        BY <1>2, <3>1 DEF Has
    <2> QED
      BY <2>1, <2>2, <2>3
  <1>4. ASSUME f \notin A, Followed(q, A, B) PROVE Followed(r, A, B)
    <2> SUFFICES ASSUME NEW i \in 1 .. Len(q) + 1, r[i] \in A
                 PROVE  \E j \in 1 .. Len(q) + 1 : j > i /\ r[j] \in B
      BY <1>2 DEF Followed
    <2>1. i \in 1 .. Len(q) /\ q[i] \in A
      BY <1>2, <1>4
    <2>2. PICK j \in 1 .. Len(q) : j > i /\ q[j] \in B
      BY <1>4, <2>1 DEF Followed
    <2>3. j \in 1 .. Len(q) + 1 /\ r[j] \in B
      BY <1>2, <2>2
    <2> QED
      BY <2>2, <2>3
  <1>5. ASSUME f \notin A, f \in B PROVE Followed(r, A, B)
    <2> SUFFICES ASSUME NEW i \in 1 .. Len(q) + 1, r[i] \in A
                 PROVE  \E j \in 1 .. Len(q) + 1 : j > i /\ r[j] \in B
      BY <1>2 DEF Followed
    <2>1. Len(q) + 1 \in 1 .. Len(q) + 1 /\ Len(q) + 1 > i /\ r[Len(q) + 1] \in B
      BY <1>2, <1>5
    <2> QED
      BY <2>1
  <1> QED
    BY <1>1, <1>2, <1>3, <1>4, <1>5

LEMMA FrameTaken ==
  ASSUME NEW q \in Seq(Frame), q # <<>>, NEW A, NEW B
  PROVE  /\ Tail(q) \in Seq(Frame) /\ Head(q) \in Frame
         /\ Has(q, A) <=> (Head(q) \in A \/ Has(Tail(q), A))
         /\ Followed(q, A, B) => /\ Followed(Tail(q), A, B)
                                 /\ Head(q) \in A => Has(Tail(q), B)
  <1>1. PICK t, h : t = Tail(q) /\ h = Head(q)
    OBVIOUS
  <1>2. /\ t \in Seq(Frame) /\ h \in Frame /\ h = q[1]
        /\ Len(t) = Len(q) - 1 /\ Len(q) \in Nat /\ Len(q) >= 1
        /\ \A i \in 1 .. Len(t) : t[i] = q[i + 1]
    BY <1>1, HeadTailProperties, EmptySeq, LenProperties
  <1>3. \A j \in 1 .. Len(q) : j > 1 => j - 1 \in 1 .. Len(t) /\ t[j - 1] = q[j]
    BY <1>2
  <1>4. Has(q, A) <=> (h \in A \/ Has(t, A))
    <2>1. Has(t, A) => Has(q, A)
      <3> SUFFICES ASSUME NEW i \in 1 .. Len(t), t[i] \in A PROVE Has(q, A)
        BY DEF Has
      <3>1. i + 1 \in 1 .. Len(q) /\ q[i + 1] \in A
        BY <1>2
      <3> QED
        BY <3>1 DEF Has
    <2>2. h \in A => Has(q, A)
      BY <1>2 DEF Has
    <2>3. Has(q, A) => h \in A \/ Has(t, A)
      <3> SUFFICES ASSUME NEW i \in 1 .. Len(q), q[i] \in A, h \notin A PROVE Has(t, A)
        BY DEF Has
      <3>1. i > 1
        BY <1>2
      <3> QED
        BY <1>3, <3>1 DEF Has
    <2> QED
      BY <2>1, <2>2, <2>3
  <1>5. ASSUME Followed(q, A, B) PROVE Followed(t, A, B)
    <2> SUFFICES ASSUME NEW i \in 1 .. Len(t), t[i] \in A
                 PROVE  \E j \in 1 .. Len(t) : j > i /\ t[j] \in B
      BY DEF Followed
    <2>1. i + 1 \in 1 .. Len(q) /\ q[i + 1] \in A
      BY <1>2
    <2>2. PICK j \in 1 .. Len(q) : j > i + 1 /\ q[j] \in B
      BY <1>5, <2>1 DEF Followed
    <2>3. j - 1 \in 1 .. Len(t) /\ j - 1 > i /\ t[j - 1] \in B
      BY <1>2, <1>3, <2>2
    <2> QED
      BY <2>3
  <1>6. ASSUME Followed(q, A, B), h \in A PROVE Has(t, B)
    <2>1. PICK j \in 1 .. Len(q) : j > 1 /\ q[j] \in B
      BY <1>2, <1>6 DEF Followed
    <2> QED
      BY <1>3, <2>1 DEF Has
  <1> QED
    BY <1>1, <1>2, <1>4, <1>5, <1>6

\* With fewer frames to be followed and more that follow.
LEMMA FollowedMore ==
  ASSUME NEW q, NEW A, NEW B, NEW A2 \in SUBSET A, NEW B2, B \subseteq B2
  PROVE  /\ Followed(q, A, B) => Followed(q, A2, B2)
         /\ Has(q, A2) => Has(q, A)
  BY DEF Followed, Has

\* A request that is given up is forgotten by the frames under way, and by them only.
LEMMA FramesForgotten ==
  ASSUME NEW q \in Seq(Frame), NEW ids, NEW r, r = Forgetting(q, ids)
  PROVE  /\ r \in Seq(Frame) /\ Len(r) = Len(q)
         /\ \A i \in 1 .. Len(q) : /\ q[i] \in Frame /\ r[i] \in Frame
                                   /\ r[i].kind = q[i].kind
                                   /\ r[i].id = IF q[i].id \in ids THEN NoRequest ELSE q[i].id
  <1>1. r \in Seq(Frame)
    BY ForgettingIsSeq
  <1>2. DOMAIN q = 1 .. Len(q) /\ Len(q) \in Nat /\ \A i \in 1 .. Len(q) : q[i] \in Frame
    BY LenProperties
  <1>3. r = [i \in 1 .. Len(q) |-> IF q[i].id \in ids THEN [q[i] EXCEPT !.id = NoRequest] ELSE q[i]]
    BY <1>2 DEF Forgetting
  <1>4. Len(r) = Len(q)
    BY <1>1, <1>2, <1>3, SMT
  <1>5. ASSUME NEW i \in 1 .. Len(q)
        PROVE  /\ r[i].kind = q[i].kind
               /\ r[i].id = IF q[i].id \in ids THEN NoRequest ELSE q[i].id
    BY <1>2, <1>3 DEF Frame
  <1>6. \A i \in 1 .. Len(q) : r[i] \in Frame
    BY <1>1, <1>4
  <1> QED
    BY <1>1, <1>2, <1>4, <1>5, <1>6

-----------------------------------------------------------------------------
Asked == OfKind({"rejoin"})
Known == OfKind({"joined", "busy"})

\* The state c of the tab's end, the frames u and q under way to the server and the tab,
\* whether the room has the user, and the tab's room, limited and pending.
Good(c, u, q, m, rm, lim, p) ==
  /\ ~Has(q, OfKind({"rejoin", "join", "leave"}))
  /\ ~Has(u, Waiting({"join"}, p))
  /\ ~m => /\ Followed(q, Shows, Hides)
           /\ c = "open" /\ rm => \/ Has(q, Hides) \/ Has(q, Refuses(p))
                                  \/ Has(u, Waiting({"rejoin"}, p))
  /\ m => /\ Followed(q, Misleads(p), Shows)
          /\ rm \/ lim \/ Has(q, Known) \/ Has(u, Asked)
  /\ c = "open" =>
       \A r \in Request : p[r] = "rejoin" => Has(u, Carrying(r)) \/ Has(q, AnswerTo(r))
  /\ c = "connecting" => u = <<>> /\ ~Has(q, {f \in Frame : f.id # NoRequest})

\* With fewer requests that wait for a rejoin, fewer frames are about one.
LEMMA FewerWaiting ==
  ASSUME NEW p, NEW p2, \A r \in Request : p2[r] = "rejoin" => p[r] = "rejoin", NEW K
  PROVE  Waiting(K, p2) \subseteq Waiting(K, p)
  BY DEF Waiting, Frame

Requests == [Request -> {"none", "rejoin", "join"}]

\* A frame f is taken, and t is left.
FirstOf(q, f, t) == q # <<>> /\ f = Head(q) /\ t = Tail(q)

\* What a frame f does to the requests, to the room that is shown and to limited.
Clears(f, p, p2)     == \A x \in Request : p2[x] = IF x = f.id THEN "none" ELSE p[x]
Turns(f, p, rm, rm2) == rm2 <=> f \in Shows \/ (rm /\ f \notin Hides /\ f \notin Refuses(p))
Slows(f, lim, lim2)  == lim2 <=> f \notin Shows /\ (f.kind = "busy" \/ lim)

\* OnMessage.
LEMMA Received ==
  ASSUME NEW u \in Seq(Frame), NEW q \in Seq(Frame), NEW m \in BOOLEAN,
         NEW rm \in BOOLEAN, NEW lim \in BOOLEAN, NEW p \in Requests,
         Good("open", u, q, m, rm, lim, p),
         NEW f, NEW t, FirstOf(q, f, t), NEW p2, NEW rm2 \in BOOLEAN, NEW lim2 \in BOOLEAN,
         Clears(f, p, p2), Turns(f, p, rm, rm2), Slows(f, lim, lim2)
  PROVE  Good("open", u, t, m, rm2, lim2, p2)
  <1> USE DEF FirstOf, Clears, Turns, Slows
  <1>1. /\ f \in Frame /\ t \in Seq(Frame)
        /\ \A A : Has(q, A) <=> (f \in A \/ Has(t, A))
        /\ \A A, B : Followed(q, A, B) => Followed(t, A, B) /\ (f \in A => Has(t, B))
    BY FrameTaken
  <1>2. f.kind \in {"joined", "left", "evicted", "error", "busy"} /\ f.id \in Request \cup {NoRequest}
    BY <1>1 DEF Good, OfKind, Frame
  <1>3. \A r \in Request : p2[r] = "rejoin" <=> p[r] = "rejoin" /\ r # f.id
    OBVIOUS
  <1>4. \A K : Waiting(K, p2) \subseteq Waiting(K, p)
    BY <1>3, FewerWaiting
  <1>5. ~Has(t, OfKind({"rejoin", "join", "leave"}))
    BY <1>1 DEF Good
  <1>6. ~Has(u, Waiting({"join"}, p2))
    BY <1>4, FollowedMore DEF Good
  <1>7. ASSUME ~m
        PROVE  /\ Followed(t, Shows, Hides)
               /\ rm2 => Has(t, Hides) \/ Has(t, Refuses(p2)) \/ Has(u, Waiting({"rejoin"}, p2))
    <2>1. Followed(t, Shows, Hides) /\ (f \in Shows => Has(t, Hides))
      BY <1>1, <1>7 DEF Good
    <2>2. ASSUME f \notin Shows, rm2
          PROVE  Has(t, Hides) \/ Has(t, Refuses(p2)) \/ Has(u, Waiting({"rejoin"}, p2))
      <3>1. rm /\ f \notin Hides /\ f \notin Refuses(p)
        BY <2>2
      <3>2. f.id # NoRequest => p[f.id] # "rejoin"
        BY <1>1, <1>2, <2>2, <3>1 DEF Shows, Hides, OfKind, Refuses, Waiting
      <3>3. \A r \in Request : p[r] = "rejoin" => p2[r] = "rejoin"
        BY <1>2, <1>3, <3>2, ClientAssumption
      <3>4. \A K : Waiting(K, p) \subseteq Waiting(K, p2)
        BY <3>3, FewerWaiting
      <3>5. Has(q, Hides) \/ Has(q, Refuses(p)) \/ Has(u, Waiting({"rejoin"}, p))
        BY <1>7, <3>1 DEF Good
      <3>6. Has(t, Hides) \/ Has(t, Refuses(p)) \/ Has(u, Waiting({"rejoin"}, p))
        BY <1>1, <3>1, <3>5
      <3>7. Refuses(p) \subseteq Refuses(p2) /\ Waiting({"rejoin"}, p) \subseteq Waiting({"rejoin"}, p2)
        BY <3>4 DEF Refuses
      <3>8. /\ Has(t, Refuses(p)) => Has(t, Refuses(p2))
            /\ Has(u, Waiting({"rejoin"}, p)) => Has(u, Waiting({"rejoin"}, p2))
        BY <3>7, FollowedMore
      <3> QED
        BY <3>6, <3>8
    <2> QED
      BY <2>1, <2>2
  <1>8. ASSUME m
        PROVE  /\ Followed(t, Misleads(p2), Shows)
               /\ rm2 \/ lim2 \/ Has(t, Known) \/ Has(u, Asked)
    <2>1. Followed(t, Misleads(p), Shows) /\ (f \in Misleads(p) => Has(t, Shows))
      BY <1>1, <1>8 DEF Good
    <2>2. Misleads(p2) \subseteq Misleads(p) /\ Shows \subseteq Known
      BY <1>4 DEF Misleads, Shows, Known, OfKind
    <2>3. Followed(t, Misleads(p2), Shows)
      BY <2>1, <2>2, FollowedMore
    <2>4. CASE f \in Shows
      BY <2>3, <2>4
    <2>5. CASE f.kind = "busy"
      <3>1. lim2
        BY <2>5 DEF Shows, OfKind
      <3> QED
        BY <2>3, <3>1
    <2>6. CASE f \in Misleads(p)
      <3>1. Has(t, Known)
        BY <2>1, <2>2, <2>6, FollowedMore
      <3> QED
        BY <2>3, <3>1
    <2>7. CASE f \notin Shows /\ f.kind # "busy" /\ f \notin Misleads(p)
      <3>1. f \notin Hides /\ f \notin Refuses(p) /\ f \notin Known
        BY <1>1, <1>2, <2>7 DEF Misleads, Refuses, Waiting, Known, Shows, OfKind
      <3>2. rm \/ lim \/ Has(q, Known) \/ Has(u, Asked)
        BY <1>8 DEF Good
      <3>3. rm2 = rm /\ lim2 = lim
        BY <2>7, <3>1
      <3> QED
        BY <1>1, <2>3, <3>1, <3>2, <3>3
    <2> QED
      BY <2>4, <2>5, <2>6, <2>7
  <1>9. ASSUME NEW r \in Request, p2[r] = "rejoin"
        PROVE  Has(u, Carrying(r)) \/ Has(t, AnswerTo(r))
    <2>1. p[r] = "rejoin" /\ f \notin AnswerTo(r)
      BY <1>3, <1>9 DEF AnswerTo
    <2>2. Has(u, Carrying(r)) \/ Has(q, AnswerTo(r))
      BY <2>1 DEF Good
    <2> QED
      BY <1>1, <2>1, <2>2
  <1> QED
    BY <1>5, <1>6, <1>7, <1>8, <1>9 DEF Good

LEMMA NoFrames == \A A, B : ~Has(<<>>, A) /\ Followed(<<>>, A, B)
  BY DEF Has, Followed

\* The requests that wait for a rejoin decide which frames matter.
LEMMA SameWaiting ==
  ASSUME NEW p, NEW p2, \A r \in Request : p2[r] = "rejoin" <=> p[r] = "rejoin"
  PROVE  \A K : Waiting(K, p2) = Waiting(K, p)
  BY DEF Waiting, Frame

\* Timeout.
LEMMA GiveUp ==
  ASSUME NEW u \in Seq(Frame), NEW q \in Seq(Frame), NEW m \in BOOLEAN,
         NEW rm \in BOOLEAN, NEW lim \in BOOLEAN, NEW p \in Requests,
         Good("open", u, q, m, rm, lim, p),
         NEW r \in Request, NEW p2, p2[r] = "none", \A x \in Request \ {r} : p2[x] = p[x],
         NEW rm2 \in BOOLEAN, rm2 => rm /\ p[r] # "rejoin", rm /\ p[r] # "rejoin" => rm2,
         NEW u2, u2 = Forgetting(u, {r}), NEW q2, q2 = Forgetting(q, {r})
  PROVE  Good("open", u2, q2, m, rm2, lim, p2)
  <1>1. /\ u2 \in Seq(Frame) /\ Len(u2) = Len(u)
        /\ \A i \in 1 .. Len(u) : /\ u[i] \in Frame /\ u2[i] \in Frame /\ u2[i].kind = u[i].kind
                                  /\ u2[i].id = IF u[i].id \in {r} THEN NoRequest ELSE u[i].id
    BY FramesForgotten
  <1>2. /\ q2 \in Seq(Frame) /\ Len(q2) = Len(q)
        /\ \A i \in 1 .. Len(q) : /\ q[i] \in Frame /\ q2[i] \in Frame /\ q2[i].kind = q[i].kind
                                  /\ q2[i].id = IF q[i].id \in {r} THEN NoRequest ELSE q[i].id
    BY FramesForgotten
  <1>3. \A x \in Request : p2[x] = IF x = r THEN "none" ELSE p[x]
    OBVIOUS
  <1>4. NoRequest \notin Request
    BY ClientAssumption
  <1>5. ASSUME NEW f \in Frame, NEW f2 \in Frame, f2.kind = f.kind,
               f2.id = IF f.id \in {r} THEN NoRequest ELSE f.id, NEW K
        PROVE  f2 \in OfKind(K) <=> f \in OfKind(K)
    BY <1>5 DEF OfKind
  <1>6. ASSUME NEW f \in Frame, NEW f2 \in Frame, f2.kind = f.kind,
               f2.id = IF f.id \in {r} THEN NoRequest ELSE f.id, NEW K
        PROVE  /\ f2 \in Waiting(K, p2) => f \in Waiting(K, p)
               /\ p[r] # "rejoin" /\ f \in Waiting(K, p) => f2 \in Waiting(K, p2)
    <2>1. f.id \in Request \cup {NoRequest}
      BY DEF Frame
    <2> QED
      BY <1>3, <1>4, <1>6, <2>1 DEF Waiting
  <1>7. ASSUME NEW f \in Frame, NEW f2 \in Frame, f2.kind = f.kind,
               f2.id = IF f.id \in {r} THEN NoRequest ELSE f.id, NEW x \in Request \ {r}
        PROVE  /\ f \in Carrying(x) => f2 \in Carrying(x)
               /\ f \in AnswerTo(x) => f2 \in AnswerTo(x)
    BY <1>4, <1>7 DEF Carrying, AnswerTo
  <1>8. /\ \A K : Has(u2, OfKind(K)) <=> Has(u, OfKind(K))
        /\ \A K : Has(q2, OfKind(K)) <=> Has(q, OfKind(K))
    BY <1>1, <1>2, <1>5 DEF Has
  <1>9. /\ \A K : Has(u2, Waiting(K, p2)) => Has(u, Waiting(K, p))
        /\ p[r] # "rejoin" => /\ \A K : Has(u, Waiting(K, p)) => Has(u2, Waiting(K, p2))
                              /\ \A K : Has(q, Waiting(K, p)) => Has(q2, Waiting(K, p2))
    BY <1>1, <1>2, <1>6 DEF Has
  <1>10. ~Has(q2, OfKind({"rejoin", "join", "leave"})) /\ ~Has(u2, Waiting({"join"}, p2))
    BY <1>8, <1>9 DEF Good
  <1>11. ASSUME ~m
        PROVE  /\ Followed(q2, Shows, Hides)
               /\ rm2 => Has(q2, Hides) \/ Has(q2, Refuses(p2)) \/ Has(u2, Waiting({"rejoin"}, p2))
    <2>1. Followed(q2, Shows, Hides)
      <3>1. \A i \in 1 .. Len(q) : /\ q2[i] \in Shows => q[i] \in Shows
                                   /\ q[i] \in Hides => q2[i] \in Hides
        BY <1>2, <1>5 DEF Shows, Hides
      <3>2. Followed(q, Shows, Hides)
        BY <1>11 DEF Good
      <3> QED
        BY <1>2, <3>1, <3>2 DEF Followed
    <2>2. ASSUME rm2 PROVE Has(q2, Hides) \/ Has(q2, Refuses(p2)) \/ Has(u2, Waiting({"rejoin"}, p2))
      <3>1. p[r] # "rejoin" /\ rm
        BY <2>2
      <3>2. Has(q, Hides) \/ Has(q, Refuses(p)) \/ Has(u, Waiting({"rejoin"}, p))
        BY <1>11, <3>1 DEF Good
      <3> QED
        BY <1>8, <1>9, <3>1, <3>2 DEF Hides, Refuses
    <2> QED
      BY <2>1, <2>2
  <1>12. ASSUME m
         PROVE  /\ Followed(q2, Misleads(p2), Shows)
                /\ rm2 \/ lim \/ Has(q2, Known) \/ Has(u2, Asked)
    <2>1. Followed(q, Misleads(p), Shows) /\ (rm \/ lim \/ Has(q, Known) \/ Has(u, Asked))
      BY <1>12 DEF Good
    <2>2. Followed(q2, Misleads(p2), Shows)
      <3>1. \A i \in 1 .. Len(q) : /\ q2[i] \in Misleads(p2) => q[i] \in Misleads(p)
                                   /\ q[i] \in Shows => q2[i] \in Shows
        BY <1>2, <1>5, <1>6 DEF Shows, Hides, Misleads
      <3> QED
        BY <1>2, <2>1, <3>1 DEF Followed
    <2>3. ASSUME p[r] = "rejoin" PROVE Has(q, Known) \/ Has(u, Asked)
      <3>1. Has(u, Carrying(r)) \/ Has(q, AnswerTo(r))
        BY <2>3 DEF Good
      <3>2. Has(u, Carrying(r)) => Has(u, Asked)
        BY DEF Has, Carrying, Asked, OfKind
      <3>3. ASSUME Has(q, AnswerTo(r)) PROVE Has(q, Known)
        <4>1. PICK i \in 1 .. Len(q) : q[i] \in AnswerTo(r)
          BY <3>3 DEF Has
        <4>2. CASE q[i] \in Known
          BY <4>2 DEF Has
        <4>3. CASE q[i] \notin Known
          <5>1. q[i] \in Misleads(p)
            BY <1>4, <2>3, <4>1, <4>3 DEF AnswerTo, Known, OfKind, Misleads, Hides, Waiting
          <5>2. PICK j \in 1 .. Len(q) : q[j] \in Shows
            BY <2>1, <5>1 DEF Followed
          <5> QED
            BY <5>2 DEF Has, Shows, Known, OfKind
        <4> QED
          BY <4>2, <4>3
      <3> QED
        BY <3>1, <3>2, <3>3
    <2> QED
      BY <1>8, <2>1, <2>2, <2>3 DEF Known, Asked
  <1>13. ASSUME NEW x \in Request, p2[x] = "rejoin"
         PROVE  Has(u2, Carrying(x)) \/ Has(q2, AnswerTo(x))
    <2>1. x # r /\ p[x] = "rejoin"
      BY <1>3, <1>13
    <2>2. Has(u, Carrying(x)) \/ Has(q, AnswerTo(x))
      BY <2>1 DEF Good
    <2>3. Has(u, Carrying(x)) => Has(u2, Carrying(x))
      BY <1>1, <1>7, <2>1 DEF Has
    <2>4. Has(q, AnswerTo(x)) => Has(q2, AnswerTo(x))
      BY <1>2, <1>7, <2>1 DEF Has
    <2> QED
      BY <2>2, <2>3, <2>4
  <1> QED
    BY <1>10, <1>11, <1>12, <1>13 DEF Good

\* Join and Leave.
LEMMA Sent ==
  ASSUME NEW u \in Seq(Frame), NEW q \in Seq(Frame), NEW m \in BOOLEAN,
         NEW rm \in BOOLEAN, NEW lim \in BOOLEAN, NEW p \in Requests,
         Good("open", u, q, m, rm, lim, p), NEW p2,
         \A r \in Request : p2[r] = "rejoin" <=> p[r] = "rejoin",
         NEW f \in Frame, f.kind \in {"join", "leave"}, f.id # NoRequest => p2[f.id] = "join"
  PROVE  Good("open", Append(u, f), q, m, rm, lim, p2)
  <1>1. \A K : Waiting(K, p2) = Waiting(K, p)
    BY SameWaiting
  <1>2. Refuses(p2) = Refuses(p) /\ Misleads(p2) = Misleads(p)
    BY <1>1 DEF Refuses, Misleads
  <1>3. \A A : Has(Append(u, f), A) <=> (Has(u, A) \/ f \in A)
    BY FramesAppended
  <1>4. f \notin Waiting({"join"}, p)
    <2>1. f \notin Waiting({"join"}, p2)
      BY DEF Waiting
    <2> QED
      BY <1>1, <2>1
  <1>5. ~Has(q, OfKind({"rejoin", "join", "leave"})) /\ ~Has(Append(u, f), Waiting({"join"}, p2))
    BY <1>1, <1>3, <1>4 DEF Good
  <1>6. ~m => /\ Followed(q, Shows, Hides)
              /\ rm => \/ Has(q, Hides) \/ Has(q, Refuses(p2))
                       \/ Has(Append(u, f), Waiting({"rejoin"}, p2))
    BY <1>1, <1>2, <1>3 DEF Good
  <1>7. m => /\ Followed(q, Misleads(p2), Shows)
             /\ rm \/ lim \/ Has(q, Known) \/ Has(Append(u, f), Asked)
    BY <1>2, <1>3 DEF Good
  <1>8. \A r \in Request : p2[r] = "rejoin" => Has(Append(u, f), Carrying(r)) \/ Has(q, AnswerTo(r))
    BY <1>3 DEF Good
  <1> QED
    BY <1>5, <1>6, <1>7, <1>8 DEF Good

\* ClientOpens with a code.
LEMMA OpensAsking ==
  ASSUME NEW u \in Seq(Frame), NEW q \in Seq(Frame), NEW m \in BOOLEAN,
         NEW rm \in BOOLEAN, NEW lim \in BOOLEAN, NEW p \in Requests,
         Good("connecting", u, q, m, rm, lim, p), \A x \in Request : p[x] = "none",
         NEW r \in Request, NEW p2, p2[r] = "rejoin", \A x \in Request \ {r} : p2[x] = p[x],
         NEW f \in Frame, f.kind = "rejoin", f.id = r
  PROVE  Good("open", Append(u, f), q, m, rm, lim, p2)
  <1>1. r # NoRequest
    BY ClientAssumption
  <1>2. \A A : Has(Append(u, f), A) <=> (Has(u, A) \/ f \in A)
    BY <1>1, FramesAppended
  <1>3. \A x \in Request : p2[x] = "rejoin" => x = r
    OBVIOUS
  <1>4. ~Has(u, Waiting({"join"}, p2)) /\ f \notin Waiting({"join"}, p2)
    BY <1>1, NoFrames DEF Good, Waiting
  <1>5. f \in Waiting({"rejoin"}, p2) /\ f \in Asked /\ f \in Carrying(r)
    BY <1>1, <1>3 DEF Waiting, Asked, OfKind, Carrying
  <1>6. ~m => Followed(q, Shows, Hides)
    BY DEF Good
  <1>7. ASSUME m PROVE Followed(q, Misleads(p2), Shows)
    <2>1. Followed(q, Misleads(p), Shows) /\ ~Has(q, {x \in Frame : x.id # NoRequest})
      BY <1>7 DEF Good
    <2>2. \A i \in 1 .. Len(q) : q[i] \in Misleads(p2) => q[i] \in Misleads(p)
      BY <2>1 DEF Has, Misleads, Waiting
    <2> QED
      BY <2>1, <2>2 DEF Followed
  <1> QED
    BY <1>2, <1>3, <1>4, <1>5, <1>6, <1>7 DEF Good

\* ClientOpens without one.
LEMMA OpensPlain ==
  ASSUME NEW u \in Seq(Frame), NEW q \in Seq(Frame), NEW m \in BOOLEAN,
         NEW rm \in BOOLEAN, NEW lim \in BOOLEAN, NEW p \in Requests,
         Good("connecting", u, q, m, rm, lim, p), \A x \in Request : p[x] = "none", ~rm
  PROVE  Good("open", u, q, m, rm, lim, p)
  BY DEF Good

\* Upgrade.
LEMMA Greets ==
  ASSUME NEW m \in BOOLEAN, NEW rm \in BOOLEAN, NEW lim \in BOOLEAN, NEW p, NEW q,
         q = IF m THEN Append(<<>>, Note("joined")) ELSE <<>>
  PROVE  Good("connecting", <<>>, q, m, rm, lim, p)
  <1>1. CASE ~m
    BY <1>1, NoFrames DEF Good
  <1>2. CASE m
    <2>1. PICK f \in Frame : f = Note("joined")
      BY NoteIsFrame
    <2>2. f.kind = "joined" /\ f.id = NoRequest
      BY <2>1 DEF Note
    <2>3. PICK e : e = <<>>
      OBVIOUS
    <2>4. e \in Seq(Frame) /\ (\A A, B : ~Has(e, A) /\ Followed(e, A, B))
      BY <2>3, NoFrames
    <2>5. q = Append(e, f)
      BY <1>2, <2>1, <2>3
    <2>6. ASSUME NEW A PROVE Has(q, A) <=> f \in A
      <3>1. Has(Append(e, f), A) <=> (Has(e, A) \/ f \in A)
        BY <2>4, FramesAppended
      <3> QED
        BY <2>4, <2>5, <3>1
    <2>7. f \notin Misleads(p) /\ f \in Known /\ f \notin OfKind({"rejoin", "join", "leave"})
      BY <2>1, <2>2 DEF Misleads, Hides, Waiting, Known, OfKind
    <2>8. Followed(q, Misleads(p), Shows)
      <3>1. Followed(e, Misleads(p), Shows) => Followed(Append(e, f), Misleads(p), Shows)
        BY <2>4, <2>7, FramesAppended
      <3> QED
        BY <2>4, <2>5, <3>1
    <2> QED
      BY <1>2, <2>2, <2>6, <2>7, <2>8, NoFrames DEF Good
  <1> QED
    BY <1>1, <1>2

\* At most a leave is taken.
AtMostLeaves(u, h, u2) == u2 = u \/ (FirstOf(u, h, u2) /\ h.kind = "leave")

\* Removal, and HandleLeave of a member.
LEMMA Tells ==
  ASSUME NEW u \in Seq(Frame), NEW q \in Seq(Frame),
         NEW rm \in BOOLEAN, NEW lim \in BOOLEAN, NEW p \in Requests,
         NEW c, Good(c, u, q, TRUE, rm, lim, p),
         NEW f \in Frame, f.kind \in {"left", "evicted"}, f.id = NoRequest,
         NEW u2, NEW h, AtMostLeaves(u, h, u2)
  PROVE  Good(c, u2, Append(q, f), FALSE, rm, lim, p)
  <1> USE DEF AtMostLeaves
  <1>1. \A A : Has(Append(q, f), A) <=> (Has(q, A) \/ f \in A)
    BY FramesAppended
  <1>2. (\A A : Has(u2, A) => Has(u, A)) /\ \A r : Has(u, Carrying(r)) => Has(u2, Carrying(r))
    <2>1. CASE u2 = u
      BY <2>1
    <2>2. CASE u2 # u
      <3>1. u # <<>> /\ Head(u).kind = "leave" /\ u2 = Tail(u)
        BY <2>2 DEF FirstOf
      <3>2. \A A : Has(u, A) <=> (Head(u) \in A \/ Has(u2, A))
        BY <3>1, FrameTaken
      <3> QED
        BY <3>1, <3>2 DEF Carrying
    <2> QED
      BY <2>1, <2>2
  <1>3. /\ f \notin OfKind({"rejoin", "join", "leave"}) /\ f \notin Shows /\ f \in Hides
        /\ f \notin {x \in Frame : x.id # NoRequest}
    BY DEF OfKind, Shows, Hides
  <1>4. Followed(Append(q, f), Shows, Hides)
    BY <1>3, FramesAppended
  <1>5. ~Has(Append(q, f), OfKind({"rejoin", "join", "leave"})) /\ ~Has(u2, Waiting({"join"}, p))
    BY <1>1, <1>2, <1>3 DEF Good
  <1>6. c = "open" => \A r \in Request : p[r] = "rejoin" =>
          Has(u2, Carrying(r)) \/ Has(Append(q, f), AnswerTo(r))
    BY <1>1, <1>2 DEF Good
  <1>7. ASSUME c = "connecting"
        PROVE  u2 = <<>> /\ ~Has(Append(q, f), {x \in Frame : x.id # NoRequest})
    BY <1>1, <1>3, <1>7 DEF Good, FirstOf
  <1>8. Has(Append(q, f), Hides)
    BY <1>1, <1>3
  <1> QED
    BY <1>4, <1>5, <1>6, <1>7, <1>8 DEF Good

\* A frame is taken without an answer.
LEMMA Takes ==
  ASSUME NEW u \in Seq(Frame), NEW q \in Seq(Frame), NEW m \in BOOLEAN,
         NEW rm \in BOOLEAN, NEW lim \in BOOLEAN, NEW p \in Requests,
         NEW c, Good(c, u, q, m, rm, lim, p), NEW h, NEW t, FirstOf(u, h, t), h.kind \notin {"rejoin", "join"}
  PROVE  Good(c, t, q, m, rm, lim, p)
  <1> USE DEF FirstOf
  <1>1. Head(u) \in Frame /\ \A A : Has(u, A) <=> (Head(u) \in A \/ Has(t, A))
    BY FrameTaken
  <1>2. /\ Head(u) \notin Waiting({"join"}, p) /\ Head(u) \notin Waiting({"rejoin"}, p)
        /\ Head(u) \notin Asked /\ \A r : Head(u) \notin Carrying(r)
    BY DEF Waiting, Asked, OfKind, Carrying
  <1>3. /\ Has(u, Waiting({"join"}, p)) <=> Has(t, Waiting({"join"}, p))
        /\ Has(u, Waiting({"rejoin"}, p)) <=> Has(t, Waiting({"rejoin"}, p))
        /\ Has(u, Asked) <=> Has(t, Asked)
        /\ \A r : Has(u, Carrying(r)) <=> Has(t, Carrying(r))
    BY <1>1, <1>2
  <1>4. c # "connecting"
    BY DEF Good
  <1> QED
    BY <1>3, <1>4 DEF Good

\* The answers there are to the frame h, and whether the user is a member then.
Fits(h, f, m, m2) ==
  /\ f.id = h.id
  /\ \/ h.kind = "rejoin" /\ f.kind = "busy" /\ m2 = m
     \/ h.kind = "join" /\ f.kind = "error" /\ m2 = m
     \/ h.kind = "rejoin" /\ f.kind = "joined" /\ m /\ m2
     \/ h.kind = "rejoin" /\ f.kind \in {"evicted", "error"} /\ ~m /\ ~m2
     \/ h.kind = "join" /\ f.kind = "joined" /\ ~m /\ m2

\* The server answers a rejoin or a join: over the rate, of a member, and of one who is
\* none, with m2 what he is then.
LEMMA Answers ==
  ASSUME NEW u \in Seq(Frame), NEW q \in Seq(Frame), NEW m \in BOOLEAN,
         NEW rm \in BOOLEAN, NEW lim \in BOOLEAN, NEW p \in Requests,
         Good("open", u, q, m, rm, lim, p), NEW m2 \in BOOLEAN,
         NEW h, NEW t, FirstOf(u, h, t), NEW f \in Frame, Fits(h, f, m, m2)
  PROVE  Good("open", t, Append(q, f), m2, rm, lim, p)
  <1> USE DEF FirstOf, Fits
  <1>1. \A A : Has(Append(q, f), A) <=> (Has(q, A) \/ f \in A)
    BY FramesAppended
  <1>2. h \in Frame /\ \A A : Has(u, A) <=> (h \in A \/ Has(t, A))
    BY FrameTaken
  <1>3. ~Has(Append(q, f), OfKind({"rejoin", "join", "leave"}))
    BY <1>1 DEF Good, OfKind
  <1>4. ~Has(t, Waiting({"join"}, p)) /\ h \notin Waiting({"join"}, p)
    BY <1>2 DEF Good
  <1>5. ASSUME NEW r \in Request, p[r] = "rejoin"
        PROVE  Has(t, Carrying(r)) \/ Has(Append(q, f), AnswerTo(r))
    <2>1. Has(u, Carrying(r)) \/ Has(q, AnswerTo(r))
      BY <1>5 DEF Good
    <2>2. h \in Carrying(r) => f \in AnswerTo(r)
      BY DEF Carrying, AnswerTo
    <2> QED
      BY <1>1, <1>2, <2>1, <2>2
  <1>6. ASSUME ~m2
        PROVE  /\ Followed(Append(q, f), Shows, Hides)
               /\ rm => \/ Has(Append(q, f), Hides) \/ Has(Append(q, f), Refuses(p))
                        \/ Has(t, Waiting({"rejoin"}, p))
    <2>1. f \notin Shows /\ ~m
      BY <1>6 DEF Shows, OfKind
    <2>2. Followed(q, Shows, Hides)
      BY <2>1 DEF Good
    <2>3. Followed(Append(q, f), Shows, Hides)
      BY <2>1, <2>2, FramesAppended
    <2>4. ASSUME rm PROVE Has(q, Hides) \/ Has(q, Refuses(p)) \/ Has(u, Waiting({"rejoin"}, p))
      BY <2>1, <2>4 DEF Good
    <2>5. h \in Waiting({"rejoin"}, p) => f \in Hides \/ f \in Refuses(p)
      BY <1>6 DEF Waiting, Hides, Refuses, OfKind
    <2> QED
      BY <1>1, <1>2, <2>3, <2>4, <2>5
  <1>7. ASSUME m2
        PROVE  /\ Followed(Append(q, f), Misleads(p), Shows)
               /\ rm \/ lim \/ Has(Append(q, f), Known) \/ Has(t, Asked)
    <2>1. f \notin Misleads(p)
      BY <1>2, <1>4, <1>7 DEF Misleads, Hides, OfKind, Waiting
    <2>2. CASE m
      <3>1. Followed(q, Misleads(p), Shows) /\ (rm \/ lim \/ Has(q, Known) \/ Has(u, Asked))
        BY <2>2 DEF Good
      <3>2. Followed(Append(q, f), Misleads(p), Shows)
        BY <2>1, <3>1, FramesAppended
      <3>3. h \in Asked => f \in Known
        BY <2>2 DEF Asked, Known, OfKind
      <3> QED
        BY <1>1, <1>2, <3>1, <3>2, <3>3
    <2>3. CASE ~m
      <3>1. f \in Shows /\ f \in Known
        BY <1>7, <2>3 DEF Shows, Known, OfKind
      <3>2. Followed(Append(q, f), Misleads(p), Shows)
        BY <2>1, <3>1, FramesAppended
      <3> QED
        BY <1>1, <3>1, <3>2
    <2> QED
      BY <2>2, <2>3
  <1> QED
    BY <1>3, <1>4, <1>5, <1>6, <1>7 DEF Good

-----------------------------------------------------------------------------
(***************************************************************************)
(* The steps.  A socket that was alone in use since it was opened is       *)
(* Linked: no other has an end at the tab or frames for the server.  While *)
(* it is alive, tab and server are Agreed on it.                           *)
(***************************************************************************)
Live(s) == link[s].alone /\ link[s].alive

Remembered == room => code
Awaited    == \A r \in Request : pending[r] # "none" => \E o \in Socket : link[o].client = "open"
SeatOpen   == seat # NoSocket => link[seat].server /\ link[seat].bound

Linked(s) ==
  /\ link[s].alone => /\ link[s].client # "none"
                      /\ \A o \in Socket \ {s} : link[o].client = "none" /\ link[o].up = <<>>
  /\ link[s].client = "open" /\ link[s].alive => link[s].server
  /\ Live(s) /\ ~link[s].server => link[s].up = <<>> /\ link[s].down = <<>>

Agreed(s) ==
  Live(s) /\ link[s].server =>
    /\ member => seat = s
    /\ Good(link[s].client, link[s].up, link[s].down, member, room, limited, pending)

ViewInv ==
  /\ Inv
  /\ Remembered /\ Awaited /\ SeatOpen
  /\ \A s \in Socket : Linked(s) /\ Agreed(s)

LEMMA ViewTypes ==
  ASSUME Inv
  PROVE  /\ link \in [Socket -> Link] /\ pending \in Requests
         /\ seat \in Socket \cup {NoSocket}
         /\ room \in BOOLEAN /\ limited \in BOOLEAN /\ member \in BOOLEAN /\ code \in BOOLEAN
         /\ \A s \in Socket : link[s].up \in Seq(Frame) /\ link[s].down \in Seq(Frame)
  BY QueuesAreSeqs, FlagsAreTyped DEF Inv, ClientTypeOK, Requests

LEMMA ViewUnchanged ==
  ASSUME ViewInv, UNCHANGED <<link, pending, room, code, limited, member, seat>>
  PROVE  /\ Remembered' /\ Awaited' /\ SeatOpen'
         /\ \A s \in Socket : Linked(s)' /\ Agreed(s)'
  BY DEF ViewInv, Remembered, Awaited, SeatOpen, Linked, Agreed, Live

\* A socket in use: no other is alone.
LEMMA OnlyOne ==
  ASSUME ViewInv, NEW s \in Socket, link[s].client # "none" \/ link[s].up # <<>>
  PROVE  \A t \in Socket \ {s} : ~link[t].alone
  BY DEF ViewInv, Linked

LEMMA OtherLinks ==
  ASSUME ViewInv, NEW s \in Socket, link[s].client # "none" \/ link[s].up # <<>>,
         \A t \in Socket \ {s} : link'[t] = link[t]
  PROVE  \A t \in Socket \ {s} : Linked(t)' /\ Agreed(t)'
  <1>1. \A t \in Socket \ {s} : ~link'[t].alone
    BY OnlyOne
  <1>2. \A t \in Socket \ {s} : link'[t].client = "open" /\ link'[t].alive => link'[t].server
    BY DEF ViewInv, Linked
  <1> QED
    BY <1>1, <1>2 DEF Linked, Agreed, Live

LEMMA NobodyAlone ==
  ASSUME \A t \in Socket : /\ ~link'[t].alone
                           /\ link'[t].client = "open" /\ link'[t].alive => link'[t].server
  PROVE  \A t \in Socket : Linked(t)' /\ Agreed(t)'
  BY DEF Linked, Agreed, Live

\* No end opens, and no queue that was empty at a closed end fills.
LEMMA EndsStay ==
  ASSUME ViewInv,
         \A t \in Socket :
           /\ link'[t].client = link[t].client
           /\ link'[t].alone => link[t].alone
           /\ link'[t].alive => link[t].alive /\ link'[t].server = link[t].server
           /\ link[t].up = <<>> => link'[t].up = <<>>
           /\ ~link[t].server /\ link[t].down = <<>> => link'[t].down = <<>>
  PROVE  \A t \in Socket : Linked(t)'
  <1> SUFFICES ASSUME NEW t \in Socket PROVE Linked(t)'
    OBVIOUS
  <1>1. Linked(t)
    BY DEF ViewInv
  <1>2. link'[t].alone => /\ link'[t].client # "none"
                          /\ \A o \in Socket \ {t} : link'[o].client = "none" /\ link'[o].up = <<>>
    BY <1>1 DEF Linked
  <1>3. link'[t].client = "open" /\ link'[t].alive => link'[t].server
    BY <1>1 DEF Linked
  <1>4. link'[t].alone /\ link'[t].alive /\ ~link'[t].server => link'[t].up = <<>> /\ link'[t].down = <<>>
    BY <1>1 DEF Linked, Live
  <1> QED
    BY <1>2, <1>3, <1>4 DEF Linked, Live

LEMMA ConnectOnceView ==
  ASSUME ViewInv, ConnectOnce, UNCHANGED <<pending, room, code, limited, member, seat>>
  PROVE  /\ Remembered' /\ Awaited' /\ SeatOpen'
         /\ \A s \in Socket : Linked(s)' /\ Agreed(s)'
  <1> DEFINE alone == \A o \in Socket : link[o].client = "none" /\ link[o].up = <<>>
  <1>1. PICK s \in Free : s = CHOOSE x \in Free : TRUE
    BY DEF ConnectOnce
  <1>2. link' = [t \in Socket |-> IF t = s THEN [Unused EXCEPT !.client = "connecting", !.alive = TRUE, !.alone = alone]
                                          ELSE [link[t] EXCEPT !.alone = FALSE]]
    BY <1>1 DEF ConnectOnce
  <1>3. s \in Socket /\ link[s].client = "none" /\ ~link[s].server /\ Inv
    BY <1>1 DEF Free, ViewInv
  <1>4. /\ link'[s].client = "connecting" /\ link'[s].server = FALSE
        /\ link'[s].up = <<>> /\ link'[s].down = <<>> /\ link'[s].alone = alone
    BY <1>2, <1>3 DEF Unused
  <1>5. \A t \in Socket \ {s} : /\ link'[t].client = link[t].client /\ link'[t].server = link[t].server
                                /\ link'[t].alive = link[t].alive /\ link'[t].bound = link[t].bound
                                /\ link'[t].up = link[t].up /\ link'[t].alone = FALSE
    BY <1>2, ViewTypes, <1>3 DEF Link
  <1>6. Remembered'
    BY DEF ViewInv, Remembered
  <1>7. Awaited'
    BY <1>3, <1>5 DEF ViewInv, Awaited
  <1>8. SeatOpen'
    BY <1>3, <1>5, ViewTypes DEF ViewInv, SeatOpen
  <1>9. Linked(s)' /\ Agreed(s)'
    BY <1>4, <1>5 DEF Linked, Agreed, Live
  <1>10. \A t \in Socket \ {s} : Linked(t)' /\ Agreed(t)'
    BY <1>5 DEF ViewInv, Linked, Agreed, Live
  <1> QED
    BY <1>6, <1>7, <1>8, <1>9, <1>10

LEMMA ClientOpensView ==
  ASSUME ViewInv, NEW s \in Socket, ClientOpens(s)
  PROVE  /\ Remembered' /\ Awaited' /\ SeatOpen'
         /\ \A t \in Socket : Linked(t)' /\ Agreed(t)'
  <1>1. /\ link[s].client = "connecting" /\ link[s].server /\ Inv
        /\ UNCHANGED <<room, code, limited, member, seat>>
    BY DEF ClientOpens, ViewInv, view, server
  <1>2. /\ \A t \in Socket \ {s} : link'[t] = link[t]
        /\ link'[s].client = "open" /\ link'[s].server /\ link'[s].bound = link[s].bound
        /\ link'[s].alone = link[s].alone /\ link'[s].alive = link[s].alive
        /\ link'[s].down = link[s].down
    <2>1. link \in [Socket -> Link]
      BY <1>1, ViewTypes
    <2>2. CASE code
      <3>1. PICK q : link' = [link EXCEPT ![s].client = "open", ![s].up = q]
        BY <2>2 DEF ClientOpens
      <3> QED
        BY <1>1, <2>1, <3>1 DEF Link
    <2>3. CASE ~code
      BY <1>1, <2>1, <2>3 DEF ClientOpens, Link
    <2> QED
      BY <2>2, <2>3
  <1>3. Remembered'
    BY <1>1 DEF ViewInv, Remembered
  <1>4. Awaited'
    BY <1>2 DEF Awaited
  <1>5. SeatOpen'
    BY <1>1, <1>2, ViewTypes DEF ViewInv, SeatOpen
  <1>6. Linked(s)'
    BY <1>1, <1>2 DEF ViewInv, Linked, Live
  <1>7. ASSUME Live(s)' PROVE Agreed(s)'
    <2>1. /\ link[s].alone /\ link[s].alive /\ (member => seat = s)
          /\ Good("connecting", link[s].up, link[s].down, member, room, limited, pending)
      BY <1>1, <1>2, <1>7 DEF ViewInv, Agreed, Live
    <2>2. \A r \in Request : pending[r] = "none"
      <3>1. \A o \in Socket : link[o].client # "open"
        BY <1>1, <2>1 DEF ViewInv, Linked
      <3> QED
        BY <3>1 DEF ViewInv, Awaited
    <2>3. Good("open", link'[s].up, link'[s].down, member', room', limited', pending')
      <3>1. CASE code
        <4>1. PICK r \in Request :
                /\ pending' = [pending EXCEPT ![r] = "rejoin"]
                /\ link' = [link EXCEPT ![s].client = "open",
                             ![s].up = IF link[s].alive THEN Append(@, [kind |-> "rejoin", id |-> r]) ELSE @]
          BY <3>1 DEF ClientOpens, Pending
        <4>2. PICK f \in Frame : f = [kind |-> "rejoin", id |-> r] /\ f.kind = "rejoin" /\ f.id = r
          <5>1. [kind |-> "rejoin", id |-> r] \in Frame
            BY DEF Frame
          <5> QED
            BY <5>1
        <4>3. link'[s].up = Append(link[s].up, f)
          BY <1>1, <2>1, <4>1, <4>2, ViewTypes DEF Link
        <4>4. /\ link[s].up \in Seq(Frame) /\ link[s].down \in Seq(Frame) /\ member \in BOOLEAN
              /\ room \in BOOLEAN /\ limited \in BOOLEAN /\ pending \in Requests
          BY <1>1, ViewTypes
        <4>5. Good("open", Append(link[s].up, f), link[s].down, member, room, limited, pending')
          <5>1. pending'[r] = "rejoin" /\ \A x \in Request \ {r} : pending'[x] = pending[x]
            BY <4>1, <4>4 DEF Requests
          <5> QED
            BY <2>1, <2>2, <4>2, <4>4, <5>1, OpensAsking
        <4> QED
          BY <1>1, <1>2, <4>3, <4>5
      <3>2. CASE ~code
        <4>1. link'[s].up = link[s].up /\ pending' = pending
          BY <1>1, <3>2, ViewTypes DEF ClientOpens, Link
        <4>2. ~room
          BY <3>2 DEF ViewInv, Remembered
        <4> QED
          BY <1>1, <1>2, <2>1, <2>2, <4>1, <4>2, ViewTypes, OpensPlain
      <3> QED
        BY <3>1, <3>2
    <2> QED
      BY <1>1, <1>2, <2>1, <2>3 DEF Agreed
  <1>8. \A t \in Socket \ {s} : Linked(t)' /\ Agreed(t)'
    BY <1>1, <1>2, OtherLinks
  <1>9. Agreed(s)'
    BY <1>7 DEF Agreed
  <1> QED
    BY <1>3, <1>4, <1>5, <1>6, <1>8, <1>9

LEMMA OnMessageView ==
  ASSUME ViewInv, NEW s \in Socket, OnMessage(s)
  PROVE  /\ Remembered' /\ Awaited' /\ SeatOpen'
         /\ \A t \in Socket : Linked(t)' /\ Agreed(t)'
  <1>1. /\ link[s].client = "open" /\ link[s].down # <<>> /\ Inv
        /\ UNCHANGED <<member, seat>>
    BY DEF OnMessage, ViewInv, server
  <1>2. PICK f \in Frame, d \in Seq(Frame) : f = Head(link[s].down) /\ d = Tail(link[s].down)
    BY <1>1, ViewTypes, FrameTaken
  <1>3. link' = [link EXCEPT ![s].down = d]
    BY <1>2 DEF OnMessage
  <1>4. /\ \A t \in Socket \ {s} : link'[t] = link[t]
        /\ link'[s].client = "open" /\ link'[s].server = link[s].server /\ link'[s].bound = link[s].bound
        /\ link'[s].alone = link[s].alone /\ link'[s].alive = link[s].alive
        /\ link'[s].up = link[s].up /\ link'[s].down = d
    BY <1>1, <1>3, ViewTypes DEF Link
  <1>5. \A x \in Request : pending'[x] = IF x = f.id THEN "none" ELSE pending[x]
    <2>1. pending' = IF f.id # NoRequest THEN [pending EXCEPT ![f.id] = "none"] ELSE pending
      BY <1>2 DEF OnMessage
    <2> QED
      BY <1>1, <2>1, ViewTypes, ClientAssumption DEF Requests
  <1>6. /\ room' = IF f \in Shows THEN TRUE
                   ELSE IF f \in Hides \/ f \in Refuses(pending) THEN FALSE ELSE room
        /\ code' = IF f \in Shows THEN TRUE
                   ELSE IF f \in Hides \/ f \in Refuses(pending) THEN FALSE ELSE code
        /\ limited' = IF f \in Shows THEN FALSE ELSE IF f.kind = "busy" THEN TRUE ELSE limited
    <2>1. /\ f \in Shows <=> f.kind = "joined"
          /\ f \in Hides <=> f.kind \in {"left", "evicted"}
          /\ f \in Refuses(pending) <=> /\ f.kind \in {"error", "busy"} /\ f.id # NoRequest
                                         /\ pending[f.id] = "rejoin"
      BY DEF Shows, Hides, OfKind, Refuses, Waiting
    <2> QED
      BY <1>2, <2>1 DEF OnMessage, Reset
  <1>7. Remembered'
    BY <1>6 DEF ViewInv, Remembered
  <1>8. Awaited'
    BY <1>4 DEF Awaited
  <1>9. SeatOpen'
    BY <1>1, <1>4, ViewTypes DEF ViewInv, SeatOpen
  <1>10. Linked(s)'
    <2>1. Linked(s)
      BY DEF ViewInv
    <2> QED
      BY <1>1, <1>4, <2>1 DEF Linked, Live
  <1>11. ASSUME Live(s)', link'[s].server PROVE Agreed(s)'
    <2>1. /\ Live(s) /\ link[s].server /\ (member => seat = s)
          /\ Good("open", link[s].up, link[s].down, member, room, limited, pending)
      BY <1>1, <1>4, <1>11 DEF ViewInv, Agreed, Live
    <2>2. PICK u \in Seq(Frame), q \in Seq(Frame) : u = link[s].up /\ q = link[s].down /\ q # <<>>
      BY <1>1, ViewTypes
    <2>3. Good("open", u, d, member, room', limited', pending')
      <3>1. PICK p, p2 : p \in Requests /\ p = pending /\ p2 = pending'
        BY <1>1, ViewTypes
      <3>2. PICK rm, lim : rm = room' /\ lim = limited'
        OBVIOUS
      <3>3. /\ member \in BOOLEAN /\ room \in BOOLEAN /\ limited \in BOOLEAN
            /\ Good("open", u, q, member, room, limited, p)
        BY <1>1, <2>1, <2>2, <3>1, ViewTypes
      <3>4. Clears(f, p, p2)
        BY <1>5, <3>1 DEF Clears
      <3>5. /\ rm \in BOOLEAN /\ lim \in BOOLEAN
            /\ Turns(f, p, room, rm) /\ Slows(f, limited, lim)
        BY <1>6, <3>1, <3>2, <3>3 DEF Turns, Slows
      <3>6. FirstOf(q, f, d)
        BY <1>2, <2>2 DEF FirstOf
      <3>7. Good("open", u, d, member, rm, lim, p2)
        BY <2>2, <3>1, <3>3, <3>4, <3>5, <3>6, Received
      <3> QED
        BY <3>1, <3>2, <3>7
    <2> QED
      BY <1>1, <1>4, <2>1, <2>2, <2>3 DEF Agreed
  <1>12. Agreed(s)'
    BY <1>11 DEF Agreed
  <1> QED
    BY <1>1, <1>4, <1>7, <1>8, <1>9, <1>10, <1>12, OtherLinks

\* What the tab sends.
LEMMA SendView ==
  ASSUME ViewInv, IsConnected, NEW f \in Frame, Send(f),
         f.kind \in {"join", "leave"}, f.id # NoRequest => pending'[f.id] = "join",
         \A r \in Request : pending'[r] = "rejoin" <=> pending[r] = "rejoin",
         UNCHANGED <<room, code, limited, member, seat>>
  PROVE  /\ Remembered' /\ Awaited' /\ SeatOpen'
         /\ \A t \in Socket : Linked(t)' /\ Agreed(t)'
  <1>1. PICK s \in Socket : s = socket /\ link[s].client = "open"
    BY DEF ViewInv, Inv, ClientTypeOK, IsConnected
  <1>2. Inv
    BY DEF ViewInv
  <1>3. link' = [link EXCEPT ![s].up = IF link[s].alive THEN Append(link[s].up, f) ELSE link[s].up]
    BY <1>1 DEF Send
  <1>4. /\ \A t \in Socket \ {s} : link'[t] = link[t]
        /\ link'[s].client = "open" /\ link'[s].server = link[s].server /\ link'[s].bound = link[s].bound
        /\ link'[s].alone = link[s].alone /\ link'[s].alive = link[s].alive
        /\ link'[s].down = link[s].down
        /\ link'[s].up = IF link[s].alive THEN Append(link[s].up, f) ELSE link[s].up
    <2>1. PICK q : q = IF link[s].alive THEN Append(link[s].up, f) ELSE link[s].up
      OBVIOUS
    <2> QED
      BY <1>1, <1>2, <1>3, <2>1, ViewTypes DEF Link
  <1>5. Remembered'
    BY DEF ViewInv, Remembered
  <1>6. Awaited'
    BY <1>4 DEF Awaited
  <1>7. SeatOpen'
    BY <1>2, <1>4, ViewTypes DEF ViewInv, SeatOpen
  <1>8. Linked(s)'
    <2>1. Linked(s)
      BY DEF ViewInv
    <2> QED
      BY <1>1, <1>4, <2>1 DEF Linked, Live
  <1>9. ASSUME Live(s)', link'[s].server PROVE Agreed(s)'
    <2>1. /\ Live(s) /\ link[s].server /\ (member => seat = s)
          /\ Good("open", link[s].up, link[s].down, member, room, limited, pending)
      BY <1>1, <1>4, <1>9 DEF ViewInv, Agreed, Live
    <2>2. PICK u \in Seq(Frame), q \in Seq(Frame) : u = link[s].up /\ q = link[s].down
      BY <1>2, ViewTypes
    <2>3. Good("open", Append(u, f), q, member, room, limited, pending')
      <3>1. PICK p, p2 : p \in Requests /\ p = pending /\ p2 = pending'
        BY <1>2, ViewTypes
      <3>2. /\ \A r \in Request : p2[r] = "rejoin" <=> p[r] = "rejoin"
            /\ f.id # NoRequest => p2[f.id] = "join"
        BY <3>1
      <3>3. Good("open", u, q, member, room, limited, p)
        BY <2>1, <2>2, <3>1
      <3>4. member \in BOOLEAN /\ room \in BOOLEAN /\ limited \in BOOLEAN
        BY <1>2, ViewTypes
      <3>5. Good("open", Append(u, f), q, member, room, limited, p2)
        BY <3>1, <3>2, <3>3, <3>4, Sent
      <3> QED
        BY <3>1, <3>5
    <2> QED
      BY <1>4, <2>1, <2>2, <2>3 DEF Agreed, Live
  <1>10. Agreed(s)'
    BY <1>9 DEF Agreed
  <1> QED
    BY <1>1, <1>4, <1>5, <1>6, <1>7, <1>8, <1>10, OtherLinks

LEMMA JoinView ==
  ASSUME ViewInv, Join
  PROVE  /\ Remembered' /\ Awaited' /\ SeatOpen'
         /\ \A t \in Socket : Linked(t)' /\ Agreed(t)'
  <1>1. PICK r \in Request : /\ pending[r] = "none" /\ pending' = [pending EXCEPT ![r] = "join"]
                             /\ Send([kind |-> "join", id |-> r])
    BY DEF Join, Pending
  <1>2. PICK f \in Frame : f = [kind |-> "join", id |-> r] /\ f.kind = "join" /\ f.id = r
    <2>1. [kind |-> "join", id |-> r] \in Frame
      BY DEF Frame
    <2> QED
      BY <2>1
  <1>3. pending \in Requests /\ IsConnected
    BY ViewTypes DEF ViewInv, Join
  <1>4. /\ pending'[f.id] = "join"
        /\ \A x \in Request : pending'[x] = "rejoin" <=> pending[x] = "rejoin"
    BY <1>1, <1>2, <1>3 DEF Requests
  <1>5. UNCHANGED <<room, code, limited, member, seat>>
    BY DEF Join, tab, server
  <1>6. Send(f)
    BY <1>1, <1>2
  <1> QED
    BY <1>2, <1>3, <1>4, <1>5, <1>6, SendView

LEMMA LeaveView ==
  ASSUME ViewInv, Leave
  PROVE  /\ Remembered' /\ Awaited' /\ SeatOpen'
         /\ \A t \in Socket : Linked(t)' /\ Agreed(t)'
  <1>1. PICK f \in Frame : f = Note("leave") /\ f.kind = "leave" /\ f.id = NoRequest
    BY NoteIsFrame DEF Note
  <1>2. UNCHANGED <<room, code, limited, member, seat, pending>> /\ Send(f) /\ IsConnected
    BY <1>1 DEF Leave, tab, server
  <1> QED
    BY <1>1, <1>2, SendView

LEMMA ForgottenLinks ==
  ASSUME Inv, NEW ids, NEW l \in [Socket -> Link], NEW s \in Socket, NEW a, a = Abandoned(l, ids)[s]
  PROVE  /\ a.client = l[s].client /\ a.server = l[s].server /\ a.alive = l[s].alive
         /\ a.bound = l[s].bound /\ a.alone = l[s].alone
         /\ a.up = Forgetting(l[s].up, ids) /\ a.down = Forgetting(l[s].down, ids)
         /\ l[s].up = <<>> => a.up = <<>>
         /\ l[s].down = <<>> => a.down = <<>>
  <1>1. l[s].up \in Seq(Frame) /\ l[s].down \in Seq(Frame) /\ l[s] \in Link
    BY DEF Link
  <1>2. a = [l[s] EXCEPT !.up = Forgetting(l[s].up, ids), !.down = Forgetting(l[s].down, ids)]
    BY DEF Abandoned
  <1>3. PICK u, d : u = Forgetting(l[s].up, ids) /\ d = Forgetting(l[s].down, ids)
    OBVIOUS
  <1>4. /\ a.client = l[s].client /\ a.server = l[s].server /\ a.alive = l[s].alive
        /\ a.bound = l[s].bound /\ a.alone = l[s].alone /\ a.up = u /\ a.down = d
    BY <1>1, <1>2, <1>3 DEF Link
  <1>5. ASSUME NEW q \in Seq(Frame), q = <<>> PROVE Forgetting(q, ids) = <<>>
    <2>1. PICK r : r = Forgetting(q, ids)
      OBVIOUS
    <2>2. r \in Seq(Frame) /\ Len(r) = Len(q)
      BY <2>1, FramesForgotten
    <2>3. Len(q) = 0
      BY <1>5, EmptySeq
    <2>4. r = <<>>
      BY <2>2, <2>3, EmptySeq
    <2> QED
      BY <2>1, <2>4
  <1>6. (l[s].up = <<>> => u = <<>>) /\ (l[s].down = <<>> => d = <<>>)
    BY <1>1, <1>3, <1>5
  <1> QED
    BY <1>3, <1>4, <1>6

LEMMA TimeoutView ==
  ASSUME ViewInv, NEW r \in Request, Timeout(r)
  PROVE  /\ Remembered' /\ Awaited' /\ SeatOpen'
         /\ \A t \in Socket : Linked(t)' /\ Agreed(t)'
  <1>1. /\ Inv /\ UNCHANGED <<limited, member, seat>> /\ pending[r] # "none"
        /\ link' = Abandoned(link, {r}) /\ pending' = [pending EXCEPT ![r] = "none"]
    BY DEF Timeout, ViewInv, server
  <1>2. ASSUME NEW t \in Socket
        PROVE  /\ link'[t].client = link[t].client /\ link'[t].server = link[t].server
               /\ link'[t].alive = link[t].alive /\ link'[t].bound = link[t].bound
               /\ link'[t].alone = link[t].alone
               /\ link'[t].up = Forgetting(link[t].up, {r}) /\ link'[t].down = Forgetting(link[t].down, {r})
               /\ link[t].up = <<>> => link'[t].up = <<>>
               /\ link[t].down = <<>> => link'[t].down = <<>>
    BY <1>1, ViewTypes, ForgottenLinks
  <1>3. room' = (IF pending[r] = "rejoin" THEN FALSE ELSE room) /\ Remembered'
    BY DEF Timeout, Reset, ViewInv, Remembered
  <1>4. pending'[r] = "none" /\ \A x \in Request \ {r} : pending'[x] = pending[x]
    BY <1>1, ViewTypes DEF Requests
  <1>5. Awaited'
    BY <1>2, <1>4 DEF ViewInv, Awaited
  <1>6. SeatOpen'
    BY <1>1, <1>2, ViewTypes DEF ViewInv, SeatOpen
  <1>7. \A t \in Socket : Linked(t)'
    BY <1>2, EndsStay
  <1>8. ASSUME NEW s \in Socket, Live(s)', link'[s].server PROVE Agreed(s)'
    <2>1. /\ Live(s) /\ link[s].server /\ (member => seat = s)
          /\ Good(link[s].client, link[s].up, link[s].down, member, room, limited, pending)
      BY <1>2, <1>8 DEF ViewInv, Agreed, Live
    <2>2. link[s].client = "open"
      <3>1. PICK o \in Socket : link[o].client = "open"
        BY <1>1 DEF ViewInv, Awaited
      <3> QED
        BY <2>1, <3>1, OnlyOne DEF Live
    <2>3. PICK u \in Seq(Frame), q \in Seq(Frame) : u = link[s].up /\ q = link[s].down
      BY <1>1, ViewTypes
    <2>4. PICK u2, q2 : u2 = Forgetting(u, {r}) /\ q2 = Forgetting(q, {r})
      OBVIOUS
    <2>5. PICK p, p2, rm2 : p \in Requests /\ p = pending /\ p2 = pending' /\ rm2 = room'
      BY <1>1, ViewTypes
    <2>6. rm2 \in BOOLEAN /\ (rm2 <=> (room /\ p[r] # "rejoin"))
      BY <1>1, <1>3, <2>5, ViewTypes
    <2>7. /\ member \in BOOLEAN /\ room \in BOOLEAN /\ limited \in BOOLEAN
          /\ Good("open", u, q, member, room, limited, p)
      BY <1>1, <2>1, <2>2, <2>3, <2>5, ViewTypes
    <2>8. p2[r] = "none" /\ \A x \in Request \ {r} : p2[x] = p[x]
      BY <1>4, <2>5
    <2>9. Good("open", u2, q2, member, rm2, limited, p2)
      BY <2>4, <2>5, <2>6, <2>7, <2>8, GiveUp
    <2> QED
      BY <1>1, <1>2, <2>1, <2>2, <2>3, <2>4, <2>5, <2>9 DEF Agreed
  <1>9. \A t \in Socket : Agreed(t)'
    BY <1>8 DEF Agreed
  <1> QED
    BY <1>3, <1>5, <1>6, <1>7, <1>9

LEMMA OnCloseView ==
  ASSUME ViewInv, NEW s \in Socket, OnClose(s)
  PROVE  /\ Remembered' /\ Awaited' /\ SeatOpen'
         /\ \A t \in Socket : Linked(t)' /\ Agreed(t)'
  <1> DEFINE closed == [link EXCEPT ![s].client = "none", ![s].alone = FALSE]
  <1>1. /\ Inv /\ UNCHANGED <<limited, member, seat>> /\ link[s].client # "none"
        /\ link' = Abandoned(closed, Request) /\ pending' = [r \in Request |-> "none"]
    BY DEF OnClose, ViewInv, server
  <1>2. link \in [Socket -> Link]
    BY <1>1, ViewTypes
  <1>3. closed \in [Socket -> Link]
    <2>1. closed = [link EXCEPT ![s] = [link[s] EXCEPT !.client = "none", !.alone = FALSE]]
      BY <1>2
    <2> QED
      BY <1>2, <2>1, ClosedIsLink
  <1>4. /\ \A t \in Socket : closed[t].server = link[t].server /\ closed[t].bound = link[t].bound
        /\ closed[s].client = "none" /\ ~closed[s].alone
        /\ \A t \in Socket \ {s} : closed[t] = link[t]
    BY <1>2 DEF Link
  <1> HIDE DEF closed
  <1>5. ASSUME NEW t \in Socket
        PROVE  /\ link'[t].client = closed[t].client /\ link'[t].server = closed[t].server
               /\ link'[t].alive = closed[t].alive /\ link'[t].bound = closed[t].bound
               /\ link'[t].alone = closed[t].alone
    BY <1>1, <1>3, ForgottenLinks
  <1>6. \A t \in Socket : /\ ~link'[t].alone
                          /\ link'[t].client = "open" /\ link'[t].alive => link'[t].server
    BY <1>1, <1>4, <1>5, OnlyOne DEF ViewInv, Linked
  <1>7. Remembered'
    BY DEF OnClose, Reset, ViewInv, Remembered
  <1>8. Awaited'
    BY <1>1 DEF Awaited
  <1>9. SeatOpen'
    BY <1>1, <1>4, <1>5, ViewTypes DEF ViewInv, SeatOpen
  <1> QED
    BY <1>6, <1>7, <1>8, <1>9, NobodyAlone

LEMMA ReloadView ==
  ASSUME ViewInv, Reload
  PROVE  /\ Remembered' /\ Awaited' /\ SeatOpen'
         /\ \A t \in Socket : Linked(t)' /\ Agreed(t)'
  <1>1. /\ Inv /\ UNCHANGED seat /\ ~room' /\ pending' = [r \in Request |-> "none"]
        /\ link \in [Socket -> Link]
    BY ViewTypes DEF Reload, ViewInv, server
  <1>2. PICK l : l = Abandoned(link, Request)
    OBVIOUS
  <1>3. l \in [Socket -> Link] /\ \A t \in Socket : l[t].server = link[t].server /\ l[t].bound = link[t].bound
    BY <1>1, <1>2, AbandonedAreLinks, ForgottenLinks
  <1>4. link' = [t \in Socket |-> [l[t] EXCEPT !.client = "none", !.alive = FALSE, !.down = <<>>,
                                              !.alone = FALSE]]
    BY <1>2 DEF Reload
  <1>5. \A t \in Socket : /\ link'[t].client = "none" /\ ~link'[t].alone
                          /\ link'[t].server = link[t].server /\ link'[t].bound = link[t].bound
    BY <1>3, <1>4 DEF Link
  <1>6. Remembered' /\ Awaited'
    BY <1>1 DEF Remembered, Awaited
  <1>7. SeatOpen'
    BY <1>1, <1>5, ViewTypes DEF ViewInv, SeatOpen
  <1> QED
    BY <1>5, <1>6, <1>7, NobodyAlone

LEMMA DropView ==
  ASSUME ViewInv, NEW s \in Socket, Drop(s)
  PROVE  /\ Remembered' /\ Awaited' /\ SeatOpen'
         /\ \A t \in Socket : Linked(t)' /\ Agreed(t)'
  <1>1. /\ Inv /\ link \in [Socket -> Link]
        /\ UNCHANGED <<pending, room, code, limited, member, seat>>
    BY ViewTypes DEF Drop, ViewInv, view, server
  <1>2. PICK n \in 0 .. Len(link[s].up) :
          link' = [link EXCEPT ![s].alive = FALSE, ![s].up = SubSeq(@, 1, n), ![s].down = <<>>]
    BY DEF Drop
  <1>3. PICK q : q = SubSeq(link[s].up, 1, n)
    OBVIOUS
  <1>4. link' = [link EXCEPT ![s].alive = FALSE, ![s].up = q, ![s].down = <<>>]
    BY <1>2, <1>3
  <1>5. /\ \A t \in Socket \ {s} : link'[t] = link[t]
        /\ ~link'[s].alive /\ link'[s].client = link[s].client /\ link'[s].server = link[s].server
        /\ link'[s].bound = link[s].bound /\ link'[s].alone = link[s].alone
        /\ link'[s].up = q /\ link'[s].down = <<>>
    BY <1>1, <1>4 DEF Link
  <1>6. link[s].up = <<>> => q = <<>>
    <2>1. PICK u \in Seq(Frame) : u = link[s].up
      BY <1>1, ViewTypes
    <2>2. q \in Seq(Frame) /\ (u = <<>> => Len(q) = 0)
      <3>1. u = <<>> => Len(u) = 0
        BY EmptySeq
      <3>2. n <= Len(u) /\ n \in Nat /\ Len(u) \in Nat
        BY <2>1, LenProperties
      <3> QED
        BY <1>3, <2>1, <3>1, <3>2, SubSeqProperties
    <2> QED
      BY <2>1, <2>2, EmptySeq
  <1>7. Remembered' /\ Awaited'
    BY <1>1, <1>5 DEF ViewInv, Remembered, Awaited
  <1>8. SeatOpen'
    BY <1>1, <1>5, ViewTypes DEF ViewInv, SeatOpen
  <1>9. \A t \in Socket : Linked(t)'
    BY <1>5, <1>6, EndsStay
  <1>10. \A t \in Socket : Agreed(t)'
    BY <1>1, <1>5 DEF ViewInv, Agreed, Live
  <1> QED
    BY <1>7, <1>8, <1>9, <1>10

LEMMA ServerNoticesView ==
  ASSUME ViewInv, NEW s \in Socket, ServerNotices(s)
  PROVE  /\ Remembered' /\ Awaited' /\ SeatOpen'
         /\ \A t \in Socket : Linked(t)' /\ Agreed(t)'
  <1>1. /\ Inv /\ link \in [Socket -> Link] /\ ~link[s].alive
        /\ UNCHANGED <<pending, room, code, limited, member>>
        /\ link' = [link EXCEPT ![s].server = FALSE, ![s].bound = FALSE]
        /\ seat' = IF link[s].bound /\ seat = s THEN NoSocket ELSE seat
    BY ViewTypes DEF ServerNotices, ViewInv, view
  <1>2. /\ \A t \in Socket \ {s} : link'[t] = link[t]
        /\ ~link'[s].alive /\ link'[s].client = link[s].client
        /\ link'[s].alone = link[s].alone
        /\ link'[s].up = link[s].up /\ link'[s].down = link[s].down
    BY <1>1 DEF Link
  <1>3. seat' # NoSocket => seat' = seat /\ seat # s
    BY <1>1 DEF ViewInv, SeatOpen
  <1>4. Remembered' /\ Awaited'
    BY <1>1, <1>2 DEF ViewInv, Remembered, Awaited
  <1>5. SeatOpen'
    BY <1>1, <1>2, <1>3, ViewTypes DEF ViewInv, SeatOpen
  <1>6. \A t \in Socket : Linked(t)'
    BY <1>2, EndsStay
  <1>7. \A t \in Socket : Agreed(t)'
    BY <1>1, <1>2, ClientAssumption DEF ViewInv, Agreed, Live
  <1> QED
    BY <1>4, <1>5, <1>6, <1>7

\* What sending a frame to the tab leaves as it was.
LEMMA PushFields ==
  ASSUME NEW l \in Link, NEW f \in Frame, NEW r, r = Push(l, f)
  PROVE  /\ r.client = l.client /\ r.server = l.server /\ r.alive = l.alive
         /\ r.bound = l.bound /\ r.alone = l.alone /\ r.up = l.up
         /\ r.down = IF l.alive THEN Append(l.down, f) ELSE l.down
  <1>1. PICK d : d = Append(l.down, f)
    OBVIOUS
  <1>2. r = IF l.alive THEN [l EXCEPT !.down = d] ELSE l
    BY <1>1 DEF Push
  <1> QED
    BY <1>1, <1>2 DEF Link

LEMMA UpgradeView ==
  ASSUME ViewInv, NEW s \in Socket, Upgrade(s)
  PROVE  /\ Remembered' /\ Awaited' /\ SeatOpen'
         /\ \A t \in Socket : Linked(t)' /\ Agreed(t)'
  <1>1. /\ Inv /\ link \in [Socket -> Link] /\ link[s].client = "connecting"
        /\ link[s].alive /\ ~link[s].server /\ member \in BOOLEAN
        /\ UNCHANGED <<pending, room, code, limited, member>>
    BY ViewTypes DEF Upgrade, ViewInv, view
  <1>2. seat # s
    BY <1>1, ClientAssumption DEF ViewInv, SeatOpen
  <1>3. CASE conns < MaxConn
    <2>1. PICK o : o = [link[s] EXCEPT !.server = TRUE, !.bound = member]
      OBVIOUS
    <2>2. /\ o \in Link /\ o.client = "connecting" /\ o.server /\ o.bound = member /\ o.alive
          /\ o.alone = link[s].alone /\ o.up = link[s].up /\ o.down = link[s].down
      BY <1>1, <2>1 DEF Link
    <2>3. PICK g : g = Greeted(o)
      OBVIOUS
    <2>4. PICK f \in Frame : f = Note("joined")
      BY NoteIsFrame
    <2>5. g = IF member THEN Push(o, f) ELSE o
      BY <2>3, <2>4 DEF Greeted
    <2>6. /\ g.client = "connecting" /\ g.server /\ g.bound = member /\ g.alone = link[s].alone
          /\ g.up = link[s].up
          /\ g.down = IF member THEN Append(link[s].down, f) ELSE link[s].down
      <3>1. CASE member
        <4>1. /\ g.client = o.client /\ g.server = o.server /\ g.bound = o.bound
              /\ g.alone = o.alone /\ g.up = o.up /\ g.down = IF o.alive THEN Append(o.down, f) ELSE o.down
          BY <2>2, <2>5, <3>1, PushFields
        <4>2. PICK d : d = Append(o.down, f) /\ d = Append(link[s].down, f)
          BY <2>2
        <4>3. g.down = d
          BY <2>2, <4>1, <4>2
        <4> QED
          BY <2>2, <3>1, <4>1, <4>2, <4>3
      <3>2. CASE ~member
        BY <2>2, <2>5, <3>2
      <3> QED
        BY <3>1, <3>2
    <2>7. link' = [link EXCEPT ![s] = g]
      BY <1>1, <1>3, <2>1, <2>3 DEF Upgrade
    <2>8. link'[s] = g /\ \A t \in Socket \ {s} : link'[t] = link[t]
      BY <1>1, <2>7
    <2>9. seat' = IF member THEN s ELSE seat
      BY <1>3 DEF Upgrade
    <2>10. Remembered'
      BY <1>1 DEF ViewInv, Remembered
    <2>11. Awaited'
      BY <1>1, <2>6, <2>8 DEF ViewInv, Awaited
    <2>12. SeatOpen'
      BY <1>1, <1>2, <2>6, <2>8, <2>9, ViewTypes DEF ViewInv, SeatOpen
    <2>13. Linked(s)'
      <3>1. Linked(s)
        BY DEF ViewInv
      <3> QED
        BY <1>1, <2>6, <2>8, <3>1 DEF Linked, Live
    <2>14. Agreed(s)'
      <3> SUFFICES ASSUME link[s].alone PROVE Agreed(s)'
        BY <2>6, <2>8 DEF Agreed, Live
      <3>1. link[s].up = <<>> /\ link[s].down = <<>>
        BY <1>1 DEF ViewInv, Linked, Live
      <3>2. g.up = <<>> /\ g.down = IF member THEN Append(<<>>, Note("joined")) ELSE <<>>
        BY <2>4, <2>6, <3>1
      <3>3. PICK q, p : q = g.down /\ p = pending
        OBVIOUS
      <3>4. room \in BOOLEAN /\ limited \in BOOLEAN
        BY <1>1, ViewTypes
      <3>5. Good("connecting", <<>>, q, member, room, limited, p)
        BY <1>1, <3>2, <3>3, <3>4, Greets
      <3> QED
        BY <1>1, <2>6, <2>8, <2>9, <3>2, <3>3, <3>5 DEF Agreed
    <2>15. \A t \in Socket \ {s} : Linked(t)' /\ Agreed(t)'
      BY <1>1, <2>8, OtherLinks
    <2> QED
      BY <2>10, <2>11, <2>12, <2>13, <2>14, <2>15
  <1>4. CASE ~(conns < MaxConn)
    <2>1. link' = [link EXCEPT ![s].alive = FALSE] /\ seat' = seat
      BY <1>4 DEF Upgrade
    <2>2. /\ \A t \in Socket \ {s} : link'[t] = link[t]
          /\ ~link'[s].alive /\ link'[s].client = link[s].client /\ link'[s].server = link[s].server
          /\ link'[s].bound = link[s].bound /\ link'[s].alone = link[s].alone
          /\ link'[s].up = link[s].up /\ link'[s].down = link[s].down
      BY <1>1, <2>1 DEF Link
    <2>3. Remembered' /\ Awaited'
      BY <1>1, <2>2 DEF ViewInv, Remembered, Awaited
    <2>4. SeatOpen'
      BY <1>1, <2>1, <2>2, ViewTypes DEF ViewInv, SeatOpen
    <2>5. \A t \in Socket : Linked(t)'
      BY <2>2, EndsStay
    <2>6. \A t \in Socket : Agreed(t)'
      BY <1>1, <2>1, <2>2 DEF ViewInv, Agreed, Live
    <2> QED
      BY <2>3, <2>4, <2>5, <2>6
  <1> QED
    BY <1>3, <1>4

LEMMA AnsweredView ==
  ASSUME ViewInv, NEW s \in Socket, link[s].server, link[s].up # <<>>,
         NEW f \in Frame, Fits(Head(link[s].up), f, member, member'),
         \A t \in Socket \ {s} : link'[t] = link[t],
         link'[s].client = link[s].client, link'[s].server = link[s].server,
         link'[s].alive = link[s].alive, link'[s].alone = link[s].alone,
         link'[s].up = Tail(link[s].up),
         link'[s].down = IF link[s].alive THEN Append(link[s].down, f) ELSE link[s].down,
         \/ seat' = seat /\ member' = member /\ link'[s].bound = link[s].bound
         \/ seat' = s /\ ~member /\ member' /\ link'[s].bound,
         member' \in BOOLEAN, UNCHANGED <<pending, room, code, limited>>
  PROVE  /\ Remembered' /\ Awaited' /\ SeatOpen'
         /\ \A t \in Socket : Linked(t)' /\ Agreed(t)'
  <1>1. Inv
    BY DEF ViewInv
  <1>2. Remembered'
    BY DEF ViewInv, Remembered
  <1>3. Awaited'
    <2>1. \A t \in Socket : link'[t].client = link[t].client
      OBVIOUS
    <2> QED
      BY <2>1 DEF ViewInv, Awaited
  <1>4. SeatOpen'
    BY <1>1, ViewTypes DEF ViewInv, SeatOpen
  <1>5. Linked(s)'
    <2>1. Linked(s)
      BY DEF ViewInv
    <2> QED
      BY <2>1 DEF Linked, Live
  <1>6. ASSUME Live(s)', link'[s].server PROVE Agreed(s)'
    <2>1. /\ Live(s) /\ link[s].server /\ (member => seat = s) /\ link[s].client # "none"
          /\ Good(link[s].client, link[s].up, link[s].down, member, room, limited, pending)
      BY <1>6 DEF ViewInv, Agreed, Linked, Live
    <2>2. link[s].client = "open"
      <3>1. link[s].client # "connecting"
        BY <2>1 DEF Good
      <3> QED
        BY <1>1, <2>1, <3>1, ViewTypes DEF Link
    <2>3. PICK u \in Seq(Frame), q \in Seq(Frame) : u = link[s].up /\ q = link[s].down
      BY <1>1, ViewTypes
    <2>4. PICK h, t : FirstOf(u, h, t) /\ h = Head(link[s].up) /\ t = Tail(link[s].up)
      BY <2>3 DEF FirstOf
    <2>5. PICK p, m2 : p \in Requests /\ p = pending /\ m2 \in BOOLEAN /\ m2 = member'
      BY <1>1, ViewTypes
    <2>6. /\ member \in BOOLEAN /\ room \in BOOLEAN /\ limited \in BOOLEAN
          /\ Good("open", u, q, member, room, limited, p)
      BY <1>1, <2>1, <2>2, <2>3, <2>5, ViewTypes
    <2>7. Fits(h, f, member, m2)
      BY <2>4, <2>5
    <2>8. Good("open", t, Append(q, f), m2, room, limited, p)
      BY <2>3, <2>4, <2>5, <2>6, <2>7, Answers
    <2>9. link'[s].up = t /\ link'[s].down = Append(q, f)
      BY <2>1, <2>3, <2>4 DEF Live
    <2> QED
      BY <2>1, <2>2, <2>5, <2>8, <2>9 DEF Agreed
  <1>7. Agreed(s)'
    BY <1>6 DEF Agreed
  <1>8. \A t \in Socket \ {s} : Linked(t)' /\ Agreed(t)'
    BY OtherLinks
  <1> QED
    BY <1>2, <1>3, <1>4, <1>5, <1>7, <1>8

\* What taking a frame leaves as it was.
LEMMA TakenFields ==
  ASSUME Inv, NEW s \in Socket, link[s].up # <<>>, NEW l, l = Taken(s)
  PROVE  /\ l \in [Socket -> Link] /\ \A o \in Socket \ {s} : l[o] = link[o]
         /\ l[s].client = link[s].client /\ l[s].server = link[s].server /\ l[s].bound = link[s].bound
         /\ l[s].alive = link[s].alive /\ l[s].alone = link[s].alone /\ l[s].down = link[s].down
         /\ FirstOf(link[s].up, Head(link[s].up), l[s].up)
  <1>1. PICK u, t : u \in Seq(Frame) /\ u = link[s].up /\ t = Tail(u) /\ u # <<>>
    BY ViewTypes
  <1>2. t \in Seq(Frame)
    BY <1>1, FrameTaken
  <1>3. l = [link EXCEPT ![s].up = t]
    BY <1>1 DEF Taken
  <1>4. /\ l \in [Socket -> Link] /\ \A o \in Socket \ {s} : l[o] = link[o]
        /\ l[s].client = link[s].client /\ l[s].server = link[s].server /\ l[s].bound = link[s].bound
        /\ l[s].alive = link[s].alive /\ l[s].alone = link[s].alone /\ l[s].down = link[s].down
        /\ l[s].up = t
    <2>1. link[s] \in Link /\ link \in [Socket -> Link]
      BY ViewTypes
    <2>2. PICK b : b = [link[s] EXCEPT !.up = t]
      OBVIOUS
    <2>3. /\ b \in Link /\ b.client = link[s].client /\ b.server = link[s].server
          /\ b.bound = link[s].bound /\ b.alive = link[s].alive /\ b.alone = link[s].alone
          /\ b.down = link[s].down /\ b.up = t
      BY <1>2, <2>1, <2>2 DEF Link
    <2>4. l = [link EXCEPT ![s] = b]
      BY <1>3, <2>1, <2>2
    <2> QED
      BY <2>1, <2>3, <2>4
  <1> QED
    BY <1>1, <1>4 DEF FirstOf

\* A frame is taken that nobody answers, and nobody removed.
LEMMA TakenView ==
  ASSUME ViewInv, NEW s \in Socket, link[s].server, link[s].up # <<>>,
         Head(link[s].up).kind \notin {"rejoin", "join"}, link' = Taken(s),
         UNCHANGED <<pending, room, code, limited, member>>,
         seat' = seat \/ (~member /\ seat' = NoSocket)
  PROVE  /\ Remembered' /\ Awaited' /\ SeatOpen'
         /\ \A t \in Socket : Linked(t)' /\ Agreed(t)'
  <1>1. Inv /\ link \in [Socket -> Link]
    BY ViewTypes DEF ViewInv
  <1>2. PICK u, h, t : /\ u \in Seq(Frame) /\ u = link[s].up /\ FirstOf(u, h, t)
                       /\ h.kind \notin {"rejoin", "join"} /\ h = Head(link[s].up) /\ t = link'[s].up
    BY <1>1, ViewTypes, TakenFields
  <1>4. /\ \A o \in Socket \ {s} : link'[o] = link[o]
        /\ link'[s].client = link[s].client /\ link'[s].server = link[s].server
        /\ link'[s].bound = link[s].bound
        /\ link'[s].alive = link[s].alive /\ link'[s].alone = link[s].alone
        /\ link'[s].up = t /\ link'[s].down = link[s].down
    BY <1>1, <1>2, TakenFields
  <1>5. Remembered'
    BY DEF ViewInv, Remembered
  <1>6. Awaited'
    BY <1>4 DEF ViewInv, Awaited
  <1>7. SeatOpen'
    BY <1>1, <1>4, ViewTypes DEF ViewInv, SeatOpen
  <1>8. Linked(s)'
    <2>1. Linked(s)
      BY DEF ViewInv
    <2> QED
      BY <1>4, <2>1 DEF Linked, Live
  <1>9. ASSUME Live(s)', link'[s].server PROVE Agreed(s)'
    <2>1. /\ Live(s) /\ link[s].server /\ (member => seat = s)
          /\ Good(link[s].client, link[s].up, link[s].down, member, room, limited, pending)
      BY <1>4, <1>9 DEF ViewInv, Agreed, Live
    <2>2. PICK c, q, p : /\ c = link[s].client /\ q = link[s].down /\ q \in Seq(Frame)
                         /\ p = pending /\ p \in Requests
      BY <1>1, ViewTypes
    <2>3. /\ member \in BOOLEAN /\ room \in BOOLEAN /\ limited \in BOOLEAN
          /\ Good(c, u, q, member, room, limited, p)
      BY <1>1, <1>2, <2>1, <2>2, ViewTypes
    <2>4. Good(c, t, q, member, room, limited, p)
      BY <1>2, <2>2, <2>3, Takes
    <2> QED
      BY <1>4, <2>1, <2>2, <2>4 DEF Agreed
  <1>10. Agreed(s)'
    BY <1>9 DEF Agreed
  <1> QED
    BY <1>4, <1>5, <1>6, <1>7, <1>8, <1>10, OtherLinks

LEMMA RemovedFields ==
  ASSUME NEW l \in [Socket -> Link], seat \in Socket, NEW kind, NEW f \in Frame, f = Note(kind),
         NEW r, r = Removed(l, kind)
  PROVE  /\ \A t \in Socket \ {seat} : r[t] = l[t]
         /\ r[seat].client = l[seat].client /\ r[seat].server = l[seat].server
         /\ r[seat].alive = l[seat].alive /\ r[seat].alone = l[seat].alone /\ r[seat].up = l[seat].up
         /\ r[seat].down = IF l[seat].alive THEN Append(l[seat].down, f) ELSE l[seat].down
  <1>1. PICK b : b = [l[seat] EXCEPT !.bound = FALSE]
    OBVIOUS
  <1>2. /\ b \in Link /\ b.client = l[seat].client /\ b.server = l[seat].server /\ b.alive = l[seat].alive
        /\ b.alone = l[seat].alone /\ b.up = l[seat].up /\ b.down = l[seat].down
    BY <1>1 DEF Link
  <1>3. PICK g : g = Push(b, f)
    OBVIOUS
  <1>4. /\ g.client = b.client /\ g.server = b.server /\ g.alive = b.alive
        /\ g.alone = b.alone /\ g.up = b.up
        /\ g.down = IF b.alive THEN Append(b.down, f) ELSE b.down
    BY <1>2, <1>3, PushFields
  <1>5. r = [l EXCEPT ![seat] = g]
    BY <1>1, <1>3, ClientAssumption DEF Removed
  <1>6. r[seat] = g /\ \A t \in Socket \ {seat} : r[t] = l[t]
    BY <1>5
  <1> QED
    BY <1>2, <1>4, <1>6

\* The member is removed, and told so if he is connected; he may have asked for it.
LEMMA RemovedView ==
  ASSUME ViewInv, member, ~member', seat' = NoSocket,
         UNCHANGED <<pending, room, code, limited>>,
         NEW kind \in {"left", "evicted"}, NEW l \in [Socket -> Link], link' = Removed(l, kind),
         \A t \in Socket :
           /\ l[t].client = link[t].client /\ l[t].server = link[t].server
           /\ l[t].alive = link[t].alive /\ l[t].alone = link[t].alone /\ l[t].down = link[t].down
           /\ AtMostLeaves(link[t].up, Head(link[t].up), l[t].up),
         member' \in BOOLEAN
  PROVE  /\ Remembered' /\ Awaited' /\ SeatOpen'
         /\ \A t \in Socket : Linked(t)' /\ Agreed(t)'
  <1>1. Inv
    BY DEF ViewInv
  <1>2. PICK f \in Frame : f = Note(kind) /\ f.kind = kind /\ f.id = NoRequest
    BY NoteIsFrame DEF Note
  <1>3. Remembered' /\ SeatOpen'
    BY DEF ViewInv, Remembered, SeatOpen
  <1>4. ASSUME seat = NoSocket
        PROVE  Awaited' /\ \A t \in Socket : Linked(t)' /\ Agreed(t)'
    <2>1. link' = l
      BY <1>4 DEF Removed
    <2>2. \A t \in Socket : Linked(t)'
      BY <2>1, EndsStay DEF AtMostLeaves, FirstOf
    <2>3. \A t \in Socket : ~(Live(t) /\ link[t].server)
      BY <1>4, ClientAssumption DEF ViewInv, Agreed
    <2>4. \A t \in Socket : Agreed(t)'
      BY <2>1, <2>3 DEF Agreed, Live
    <2>5. Awaited'
      BY <2>1 DEF ViewInv, Awaited
    <2> QED
      BY <2>2, <2>4, <2>5
  <1>5. ASSUME seat # NoSocket
        PROVE  Awaited' /\ \A t \in Socket : Linked(t)' /\ Agreed(t)'
    <2>1. PICK s \in Socket : s = seat /\ link[s].server
      BY <1>1, <1>5, ViewTypes DEF ViewInv, SeatOpen
    <2>2. /\ \A t \in Socket \ {s} : link'[t] = l[t]
          /\ link'[s].client = l[s].client /\ link'[s].server = l[s].server
          /\ link'[s].alive = l[s].alive /\ link'[s].alone = l[s].alone /\ link'[s].up = l[s].up
          /\ link'[s].down = IF l[s].alive THEN Append(l[s].down, f) ELSE l[s].down
      BY <1>2, <2>1, RemovedFields
    <2>3. Awaited'
      BY <2>2 DEF ViewInv, Awaited
    <2>4. \A t \in Socket : Linked(t)'
      <3>1. ASSUME NEW t \in Socket
            PROVE  /\ link'[t].client = link[t].client /\ link'[t].server = link[t].server
                   /\ link'[t].alive = link[t].alive /\ link'[t].alone = link[t].alone
                   /\ link'[t].up = l[t].up
        BY <2>2
      <3>2. \A t \in Socket : link[t].up = <<>> => link'[t].up = <<>>
        BY <3>1 DEF AtMostLeaves, FirstOf
      <3>3. \A t \in Socket : ~link[t].server => link'[t].down = link[t].down
        BY <2>1, <2>2
      <3> QED
        BY <3>1, <3>2, <3>3, EndsStay
    <2>5. ASSUME NEW t \in Socket \ {s} PROVE Agreed(t)'
      <3>1. ~(Live(t) /\ link[t].server)
        BY <2>1 DEF ViewInv, Agreed
      <3>2. ~(Live(t)' /\ link'[t].server)
        BY <2>2, <3>1 DEF Live
      <3> QED
        BY <3>2 DEF Agreed
    <2>6. ASSUME Live(s)' PROVE Agreed(s)'
      <3>1. /\ link[s].alive
            /\ Good(link[s].client, link[s].up, link[s].down, member, room, limited, pending)
        BY <2>1, <2>2, <2>6 DEF ViewInv, Agreed, Live
      <3>2. PICK c, u, q, p : /\ c = link[s].client /\ u = link[s].up /\ q = link[s].down
                              /\ u \in Seq(Frame) /\ q \in Seq(Frame)
                              /\ p = pending /\ p \in Requests
        BY <1>1, ViewTypes
      <3>3. PICK u2, h : u2 = l[s].up /\ h = Head(u)
        OBVIOUS
      <3>4. AtMostLeaves(u, h, u2)
        BY <3>2, <3>3 DEF AtMostLeaves
      <3>5. /\ room \in BOOLEAN /\ limited \in BOOLEAN /\ member = TRUE
            /\ Good(c, u, q, TRUE, room, limited, p) /\ f.kind \in {"left", "evicted"}
        BY <1>1, <1>2, <3>1, <3>2, ViewTypes
      <3>6. Good(c, u2, Append(q, f), FALSE, room, limited, p)
        BY <1>2, <3>2, <3>4, <3>5, Tells
      <3>7. link'[s].up = u2 /\ link'[s].down = Append(q, f) /\ link'[s].client = c
        BY <2>2, <3>1, <3>2, <3>3
      <3> QED
        BY <3>2, <3>6, <3>7 DEF Agreed
    <2> QED
      BY <2>3, <2>4, <2>5, <2>6 DEF Agreed
  <1> QED
    BY <1>3, <1>4, <1>5

AnswerFrame(s, kind) == [kind |-> kind, id |-> Head(link[s].up).id]

\* The frame f is an answer to the one taken from s, and sent in l.
Carries(f, s, kind) == f \in Frame /\ f.kind = kind /\ f.id = Head(link[s].up).id
Sends(l, s, f) ==
  /\ l \in [Socket -> Link] /\ \A o \in Socket \ {s} : l[o] = link[o]
  /\ l[s].client = link[s].client /\ l[s].server = link[s].server /\ l[s].bound = link[s].bound
  /\ l[s].alive = link[s].alive /\ l[s].alone = link[s].alone
  /\ l[s].up = Tail(link[s].up)
  /\ l[s].down = IF link[s].alive THEN Append(link[s].down, f) ELSE link[s].down

LEMMA AnsweredFields ==
  ASSUME Inv, NEW s \in Socket, link[s].up # <<>>, NEW l, NEW kind, l = Answered(s, kind),
         kind \in {"joined", "evicted", "error", "busy"},
         NEW f, f = AnswerFrame(s, kind)
  PROVE  Carries(f, s, kind) /\ Sends(l, s, f)
  <1>1. PICK u, h, t : /\ u \in Seq(Frame) /\ u = link[s].up /\ h = Head(u) /\ t = Tail(u)
                       /\ h \in Frame /\ t \in Seq(Frame)
    <2>1. link[s].up \in Seq(Frame)
      BY ViewTypes
    <2>2. Head(link[s].up) \in Frame /\ Tail(link[s].up) \in Seq(Frame)
      BY <2>1, FrameTaken
    <2> QED
      BY <2>1, <2>2
  <1>2. f \in Frame /\ f.kind = kind /\ f.id = h.id
    BY <1>1 DEF Frame, AnswerFrame
  <1>3. PICK b : b = [link[s] EXCEPT !.up = t]
    OBVIOUS
  <1>4. /\ b \in Link /\ b.client = link[s].client /\ b.server = link[s].server
        /\ b.bound = link[s].bound /\ b.alive = link[s].alive /\ b.alone = link[s].alone
        /\ b.down = link[s].down /\ b.up = t
    BY <1>1, <1>3, ViewTypes DEF Link
  <1>5. PICK g : g = Push(b, f)
    OBVIOUS
  <1>6. /\ g \in Link /\ g.client = b.client /\ g.server = b.server /\ g.alive = b.alive
        /\ g.bound = b.bound /\ g.alone = b.alone /\ g.up = b.up
        /\ g.down = IF b.alive THEN Append(b.down, f) ELSE b.down
    BY <1>2, <1>4, <1>5, PushFields, PushIsLink
  <1>7. l = [link EXCEPT ![s] = g]
    BY <1>1, <1>3, <1>5 DEF Answered, AnswerFrame
  <1>8. l \in [Socket -> Link] /\ l[s] = g /\ \A o \in Socket \ {s} : l[o] = link[o]
    BY <1>6, <1>7, ViewTypes
  <1> QED
    BY <1>1, <1>2, <1>4, <1>6, <1>8 DEF Carries, Sends

LEMMA HandleView ==
  ASSUME ViewInv, NEW s \in Socket, Handle(s)
  PROVE  /\ Remembered' /\ Awaited' /\ SeatOpen'
         /\ \A t \in Socket : Linked(t)' /\ Agreed(t)'
  <1>1. /\ Inv /\ member \in BOOLEAN /\ link[s].server /\ link[s].up # <<>>
        /\ UNCHANGED <<pending, room, code, limited>>
    BY ViewTypes DEF Handle, ViewInv, view
  <1>2. PICK h : h = Head(link[s].up)
    OBVIOUS
  <1>3. ASSUME NEW kind \in {"joined", "evicted", "error", "busy"}, link' = Answered(s, kind),
               seat' = seat, member' = member,
               \/ h.kind = "rejoin" /\ kind = "busy"
               \/ h.kind = "join" /\ kind = "error"
               \/ h.kind = "rejoin" /\ kind = "joined" /\ member
               \/ h.kind = "rejoin" /\ kind \in {"evicted", "error"} /\ ~member
        PROVE  /\ Remembered' /\ Awaited' /\ SeatOpen'
               /\ \A t \in Socket : Linked(t)' /\ Agreed(t)'
    <2>1. PICK f : f = AnswerFrame(s, kind)
      OBVIOUS
    <2>2. /\ f \in Frame /\ f.kind = kind /\ f.id = Head(link[s].up).id
          /\ \A o \in Socket \ {s} : link'[o] = link[o]
          /\ link'[s].client = link[s].client /\ link'[s].server = link[s].server
          /\ link'[s].bound = link[s].bound
          /\ link'[s].alive = link[s].alive /\ link'[s].alone = link[s].alone
          /\ link'[s].up = Tail(link[s].up)
          /\ link'[s].down = IF link[s].alive THEN Append(link[s].down, f) ELSE link[s].down
      <3>1. PICK l : l = link' /\ l = Answered(s, kind)
        BY <1>3
      <3>2. Carries(f, s, kind) /\ Sends(l, s, f)
        BY <1>1, <2>1, <3>1, AnsweredFields
      <3> QED
        BY <3>1, <3>2 DEF Carries, Sends
    <2>3. Fits(Head(link[s].up), f, member, member')
      BY <1>2, <1>3, <2>2 DEF Fits
    <2> QED
      BY <1>1, <1>3, <2>2, <2>3, AnsweredView
  <1>4. ASSUME link' = Taken(s), h.kind \notin {"rejoin", "join"}, member' = member,
               seat' = seat \/ (~member /\ seat' = NoSocket)
        PROVE  /\ Remembered' /\ Awaited' /\ SeatOpen'
               /\ \A t \in Socket : Linked(t)' /\ Agreed(t)'
    BY <1>1, <1>2, <1>4, TakenView
  <1>5. CASE Busy(s)
    <2>1. CASE h.kind = "rejoin"
      BY <1>2, <1>3, <1>5, <2>1 DEF Busy
    <2>2. CASE h.kind = "join"
      BY <1>2, <1>3, <1>5, <2>2 DEF Busy
    <2>3. CASE h.kind \notin {"rejoin", "join"}
      BY <1>2, <1>4, <1>5, <2>3 DEF Busy
    <2> QED
      BY <2>1, <2>2, <2>3
  <1>6. CASE HandleRejoin(s)
    BY <1>2, <1>3, <1>6 DEF HandleRejoin
  <1>7. CASE HandleJoin(s)
    <2>1. CASE link' = Answered(s, "error") /\ UNCHANGED <<member, seat>>
      BY <1>2, <1>3, <1>7, <2>1 DEF HandleJoin
    <2>2. CASE ~(link' = Answered(s, "error") /\ UNCHANGED <<member, seat>>)
      <3>1. /\ ~member /\ member' = TRUE /\ seat' = s /\ h.kind = "join"
            /\ link' = [Answered(s, "joined") EXCEPT ![s].bound = TRUE]
        BY <1>2, <1>7, <2>2 DEF HandleJoin
      <3>2. PICK f, l : /\ f = AnswerFrame(s, "joined")
                        /\ l = Answered(s, "joined")
        OBVIOUS
      <3>3. /\ f \in Frame /\ f.kind = "joined" /\ f.id = Head(link[s].up).id
            /\ l \in [Socket -> Link] /\ \A o \in Socket \ {s} : l[o] = link[o]
            /\ l[s].client = link[s].client /\ l[s].server = link[s].server
            /\ l[s].alive = link[s].alive /\ l[s].alone = link[s].alone
            /\ l[s].up = Tail(link[s].up)
            /\ l[s].down = IF link[s].alive THEN Append(link[s].down, f) ELSE link[s].down
        <4>1. Carries(f, s, "joined") /\ Sends(l, s, f)
          BY <1>1, <3>2, AnsweredFields
        <4> QED
          BY <4>1 DEF Carries, Sends
      <3>4. link' = [l EXCEPT ![s].bound = TRUE]
        BY <3>1, <3>2
      <3>5. /\ \A o \in Socket \ {s} : link'[o] = l[o]
            /\ link'[s].client = l[s].client /\ link'[s].server = l[s].server /\ link'[s].bound
            /\ link'[s].alive = l[s].alive /\ link'[s].alone = l[s].alone
            /\ link'[s].up = l[s].up /\ link'[s].down = l[s].down
        BY <3>3, <3>4 DEF Link
      <3>6. Fits(Head(link[s].up), f, member, member')
        BY <1>2, <3>1, <3>3 DEF Fits
      <3>7. /\ \A o \in Socket \ {s} : link'[o] = link[o]
            /\ link'[s].client = link[s].client /\ link'[s].server = link[s].server
            /\ link'[s].alive = link[s].alive /\ link'[s].alone = link[s].alone
            /\ link'[s].up = Tail(link[s].up)
            /\ link'[s].down = IF link[s].alive THEN Append(link[s].down, f) ELSE link[s].down
        BY <3>3, <3>5
      <3> QED
        BY <1>1, <3>1, <3>3, <3>5, <3>6, <3>7, AnsweredView
    <2> QED
      BY <2>1, <2>2
  <1>8. CASE HandleLeave(s)
    <2>1. h.kind = "leave"
      BY <1>2, <1>8 DEF HandleLeave
    <2>2. CASE link[s].bound /\ member
      <3>1. /\ link' = Removed(Taken(s), "left") /\ member' = FALSE /\ seat' = NoSocket
        BY <1>8, <2>2 DEF HandleLeave
      <3>2. PICK l : l = Taken(s)
        OBVIOUS
      <3>3. /\ l \in [Socket -> Link] /\ \A o \in Socket \ {s} : l[o] = link[o]
            /\ l[s].client = link[s].client /\ l[s].server = link[s].server
            /\ l[s].alive = link[s].alive /\ l[s].alone = link[s].alone /\ l[s].down = link[s].down
            /\ FirstOf(link[s].up, Head(link[s].up), l[s].up)
        BY <1>1, <3>2, TakenFields
      <3>4. ASSUME NEW t \in Socket
            PROVE  /\ l[t].client = link[t].client /\ l[t].server = link[t].server
                   /\ l[t].alive = link[t].alive /\ l[t].alone = link[t].alone /\ l[t].down = link[t].down
                   /\ AtMostLeaves(link[t].up, Head(link[t].up), l[t].up)
        BY <1>2, <2>1, <3>3 DEF AtMostLeaves
      <3>5. link' = Removed(l, "left")
        BY <3>1, <3>2
      <3> QED
        BY <1>1, <2>2, <3>1, <3>3, <3>4, <3>5, RemovedView
    <2>3. CASE ~(link[s].bound /\ member)
      <3>1. /\ link' = Taken(s) /\ member' = member
            /\ seat' = seat \/ (~member /\ seat' = NoSocket)
        BY <1>1, <1>8, <2>3 DEF HandleLeave
      <3> QED
        BY <1>4, <2>1, <3>1
    <2> QED
      BY <2>2, <2>3
  <1> QED
    BY <1>5, <1>6, <1>7, <1>8 DEF Handle

LEMMA RemovalView ==
  ASSUME ViewInv, Removal
  PROVE  /\ Remembered' /\ Awaited' /\ SeatOpen'
         /\ \A t \in Socket : Linked(t)' /\ Agreed(t)'
  <1>1. /\ Inv /\ UNCHANGED <<pending, room, code, limited>> /\ link \in [Socket -> Link]
        /\ member /\ member' = FALSE /\ seat' = NoSocket /\ link' = Removed(link, "evicted")
    BY ViewTypes DEF Removal, ViewInv, view
  <1>2. PICK l : l = link
    OBVIOUS
  <1>3. \A t \in Socket :
          /\ l[t].client = link[t].client /\ l[t].server = link[t].server
          /\ l[t].alive = link[t].alive /\ l[t].alone = link[t].alone /\ l[t].down = link[t].down
          /\ AtMostLeaves(link[t].up, Head(link[t].up), l[t].up)
    BY <1>2 DEF AtMostLeaves
  <1>4. l \in [Socket -> Link] /\ link' = Removed(l, "evicted")
    BY <1>1, <1>2
  <1> QED
    BY <1>1, <1>3, <1>4, RemovedView

LEMMA NextView ==
  ASSUME ViewInv, [Next]_vars
  PROVE  /\ Remembered' /\ Awaited' /\ SeatOpen'
         /\ \A t \in Socket : Linked(t)' /\ Agreed(t)'
  <1> DEFINE Goal == /\ Remembered' /\ Awaited' /\ SeatOpen'
                     /\ \A t \in Socket : Linked(t)' /\ Agreed(t)'
  <1>1. CASE Connect
    BY <1>1, ConnectOnceView DEF Connect, view, server
  <1>2. CASE TimerFires
    <2>1. CASE visible
      BY <1>2, <2>1, ConnectOnceView DEF TimerFires, view, server
    <2>2. CASE ~visible
      BY <1>2, <2>2, ViewUnchanged DEF TimerFires, view, server
    <2> QED
      BY <2>1, <2>2
  <1>3. CASE PageShows
    <2>1. CASE WakesUp
      BY <1>3, <2>1, ConnectOnceView DEF PageShows, view, server
    <2>2. CASE ~WakesUp
      BY <1>3, <2>2, ViewUnchanged DEF PageShows, view, server
    <2> QED
      BY <2>1, <2>2
  <1>4. CASE PageHides \/ OtherOpens \/ OtherCloses \/ Calm \/ UNCHANGED vars
    <2>1. UNCHANGED <<link, pending, room, code, limited, member, seat>>
      BY <1>4 DEF PageHides, OtherOpens, OtherCloses, Calm, vars, view, server
    <2> QED
      BY <2>1, ViewUnchanged
  <1>5. CASE Join
    BY <1>5, JoinView
  <1>6. CASE Leave
    BY <1>6, LeaveView
  <1>7. CASE Reload
    BY <1>7, ReloadView
  <1>8. ASSUME NEW s \in Socket, ClientOpens(s) \/ OnClose(s) \/ OnMessage(s) PROVE Goal
    BY <1>8, ClientOpensView, OnCloseView, OnMessageView
  <1>9. ASSUME NEW s \in Socket, Upgrade(s) \/ ServerNotices(s) \/ Handle(s) \/ Drop(s) PROVE Goal
    BY <1>9, UpgradeView, ServerNoticesView, HandleView, DropView
  <1>10. ASSUME NEW r \in Request, Timeout(r) PROVE Goal
    BY <1>10, TimeoutView
  <1>11. CASE Removal
    BY <1>11, RemovalView
  <1> QED
    BY <1>1, <1>2, <1>3, <1>4, <1>5, <1>6, <1>7, <1>8, <1>9, <1>10, <1>11 DEF Next

LEMMA ViewInductive == ViewInv /\ [Next]_vars => ViewInv'
  <1> SUFFICES ASSUME ViewInv, [Next]_vars PROVE ViewInv'
    OBVIOUS
  <1>1. Inv'
    BY InvInductive DEF ViewInv
  <1> QED
    BY <1>1, NextView DEF ViewInv

LEMMA ViewInitial == Init => ViewInv
  <1> SUFFICES ASSUME Init PROVE ViewInv
    OBVIOUS
  <1>1. \A s \in Socket : link[s] = Unused
    BY DEF Init
  <1>2. \A s \in Socket : /\ ~link[s].alone /\ link[s].client = "none"
    BY <1>1 DEF Unused
  <1>3. \A s \in Socket : Linked(s) /\ Agreed(s)
    BY <1>2 DEF Linked, Agreed, Live
  <1>4. Remembered /\ Awaited /\ SeatOpen
    BY DEF Init, Remembered, Awaited, SeatOpen
  <1> QED
    BY <1>3, <1>4, InvInitial DEF ViewInv

LEMMA AgreedView == ViewInv => ViewConverges
  <1> SUFFICES ASSUME ViewInv, Settled PROVE (room => member) /\ (member => (room \/ limited) /\ seat = socket)
    BY DEF ViewConverges
  <1>1. /\ socket \in Socket /\ link[socket].client = "open" /\ Live(socket)
        /\ link[socket].up = <<>> /\ link[socket].down = <<>>
    BY DEF Settled, IsConnected, Live, ViewInv, Inv, ClientTypeOK
  <1>2. link[socket].server
    BY <1>1 DEF ViewInv, Linked, Live
  <1>3. /\ member => seat = socket
        /\ Good("open", <<>>, <<>>, member, room, limited, pending)
    BY <1>1, <1>2 DEF ViewInv, Agreed
  <1> QED
    BY <1>3, NoFrames DEF Good

\* Once everything said on the only socket in use has arrived, the tab shows a room
\* exactly if the room has the user in it, connected by that socket: through lost
\* answers, timeouts, kicks, evictions and reconnects, for any number of sockets and
\* requests and any number of frames under way.
THEOREM ViewsConverge == Spec => []ViewConverges
  BY ViewInitial, ViewInductive, AgreedView, PTL DEF Spec
=============================================================================
