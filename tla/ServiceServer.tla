--------------------------- MODULE ServiceServer ---------------------------
(***************************************************************************)
(* A server process (network::Init(1)): the accept thread takes            *)
(* connections (CTaskAccept), the work thread reads the sockets of the     *)
(* sessions (CTaskWorkServer), and the one logic thread runs the server's  *)
(* MainLoop and dispatches the packet queue (CTaskLogic).  Only the logic  *)
(* thread changes the session table; the work thread reads it.             *)
(*                                                                         *)
(* The server is one whose own handlers leave m_Users to CServerBasic: the *)
(* login server (LoginCheck TRUE, a session waits for the answer of the    *)
(* certify server), the certify server and the farm (LoginCheck FALSE, no  *)
(* login).  The lobby and the game server are not: they add players that   *)
(* are announced to them before they have a session, and the lobby's login *)
(* handler takes players out (see LoginLobby).                             *)
(***************************************************************************)
EXTENDS ServerBasic

CONSTANT
  MaxMiss  \* bound: how often the unlocked lookup of RemoveSessionSocket
           \* misses a session because the table is written at that moment

ASSUME MaxMissIsNat == MaxMiss \in Nat

VARIABLES
  accepted,  \* CTaskAccept: the ACCEPT packet of the socket just accepted
  wpc,       \* CTaskWorkServer: where the work thread is
  fds,       \* CTaskWorkServer: sockets, then those select() left readable
  cur,       \* CTaskWorkServer: the netid of the entry being closed
  misses,    \* lookups of RemoveSessionSocket that missed so far
  lpc,       \* CTaskLogic: where the logic thread is
  lpkt,      \* CTaskLogic: the packet popped
  asked      \* the sessions whose login the certify server has not answered

workVars  == <<wpc, fds, cur, misses>>
logicVars == <<lpc, lpkt, asked>>
vars      == <<serverVars, accepted, workVars, logicVars>>

WorkState  == {"makeSet", "select", "recv", "close", "zero", "push"}
LogicState == {"mainLoop", "timer", "send", "pop", "dispatch"}

TypeOK ==
  /\ peer \in [Conn -> PeerState]
  /\ inbox \in [Conn -> Nat]
  /\ handle \in [Socket -> Conn \cup {NoConn}]
  /\ sessions \subseteq Conn /\ rmKeys \subseteq Conn /\ objects \subseteq Conn
  /\ players \subseteq Conn /\ members \subseteq Conn
  /\ sock \in [Conn -> Socket \cup {NoSock}]
  /\ state \in [Conn -> SessionState]
  /\ joined \subseteq Conn /\ left \subseteq Conn /\ refused \subseteq Conn
  /\ told \subseteq Conn /\ toSend \subseteq Conn /\ ticks \in 0..MaxTick
  /\ packets \in Seq(Packet)
  /\ accepted \in Packet \cup {NoPacket}
  /\ wpc \in WorkState
  /\ fds \subseteq Entry
  /\ cur \in Conn \cup {NoConn}
  /\ misses \in 0..MaxMiss
  /\ lpc \in LogicState
  /\ lpkt \in Packet \cup {NoPacket}
  /\ asked \subseteq Conn
  /\ wpc \in {"close", "zero", "push"} => cur \in Conn
  /\ lpc = "dispatch" => lpkt \in Packet

Init ==
  /\ ServerInit
  /\ accepted = NoPacket
  /\ wpc = "makeSet" /\ fds = {} /\ cur = NoConn /\ misses = 0
  /\ lpc = "mainLoop" /\ lpkt = NoPacket /\ asked = {}

-----------------------------------------------------------------------------
(* The accept thread: CTaskAccept::Run.                                    *)

Accept(c, s) ==
  /\ accepted = NoPacket
  /\ AcceptOn(c, s)
  /\ accepted' = AcceptPacket(c, s)
  /\ UNCHANGED <<tableVars, eventVars, sendVars, packets, workVars, logicVars>>

\* Mutant: the packet is lost.
PushAcceptLost ==
  /\ accepted # NoPacket
  /\ accepted' = NoPacket
  /\ UNCHANGED <<serverVars, workVars, logicVars>>

PushAccept ==
  /\ accepted # NoPacket
  /\ packets' = Append(packets, accepted)
  /\ accepted' = NoPacket
  /\ UNCHANGED <<osVars, tableVars, eventVars, sendVars, workVars, logicVars>>

AcceptThread == PushAccept \/ \E c \in Conn, s \in Socket : Accept(c, s)

-----------------------------------------------------------------------------
(* The work thread: CTaskWorkServer::Run.                                  *)

WorkMakeSet ==
  /\ wpc = "makeSet"
  /\ fds' \in MakeFDSET
  /\ wpc' = "select"
  /\ UNCHANGED <<serverVars, accepted, cur, misses, logicVars>>

WorkSelect ==
  /\ wpc = "select"
  /\ fds' = SelectReadable(fds)
  /\ wpc' = IF fds' = {} THEN "makeSet" ELSE "recv"
  /\ UNCHANGED <<serverVars, accepted, cur, misses, logicVars>>

WorkRecvData(e) ==
  /\ wpc = "recv" /\ e \in fds
  /\ ReceiveData(e)
  /\ fds' = fds \ {e}
  /\ wpc' = IF fds' = {} THEN "makeSet" ELSE "recv"
  /\ UNCHANGED <<tableVars, eventVars, sendVars, accepted, cur, misses,
                 logicVars>>

\* Mutant: the disconnect is queued before the socket is closed.
WorkRecvEndQueueFirst(e) ==
  /\ wpc = "recv" /\ e \in fds
  /\ EndOfStream(e)
  /\ cur' = e.id
  /\ fds' = fds \ {e}
  /\ wpc' = "close"
  /\ packets' = Append(packets, ClientDisconnectPacket(e.id))
  /\ UNCHANGED <<osVars, tableVars, eventVars, sendVars, accepted, misses,
                 logicVars>>

WorkRecvEnd(e) ==
  /\ wpc = "recv" /\ e \in fds
  /\ EndOfStream(e)
  /\ cur' = e.id
  /\ fds' = fds \ {e}
  /\ wpc' = "close"
  /\ UNCHANGED <<serverVars, accepted, misses, logicVars>>

\* The logic thread is about to change m_Sessions, or is changing it.
TableWrite == \/ lpc = "mainLoop" /\ rmKeys # {}
              \/ lpc = "dispatch" /\ lpkt.kind = "accept"

\* Mutant: the socket is forgotten without closesocket().
WorkCloseForgotten ==
  /\ wpc = "close"
  /\ cur \in sessions
  /\ wpc' = "zero"
  /\ UNCHANGED <<serverVars, accepted, fds, cur, misses, logicVars>>

\* RemoveSessionSocket, which holds no lock: GetSession, then closesocket().
WorkCloseSocket ==
  /\ wpc = "close"
  /\ cur \in sessions
  /\ CloseHandles({sock[cur]})
  /\ wpc' = "zero"
  /\ UNCHANGED <<peer, inbox, tableVars, eventVars, sendVars, packets,
                 accepted, fds, cur, misses, logicVars>>

\* RemoveSessionSocket finds no session.
WorkCloseMiss ==
  /\ wpc = "close"
  /\ \/ cur \notin sessions /\ UNCHANGED misses
     \/ TableWrite /\ misses < MaxMiss /\ misses' = misses + 1
  /\ wpc' = "push"
  /\ UNCHANGED <<serverVars, accepted, fds, cur, logicVars>>

\* Mutant: the closed socket stays in the session.
WorkZeroKept ==
  /\ wpc = "zero"
  /\ wpc' = "push"
  /\ UNCHANGED <<serverVars, accepted, fds, cur, misses, logicVars>>

\* RemoveSessionSocket: SetSocket(0), on the object found before.
WorkZeroSocket ==
  /\ wpc = "zero"
  /\ sock' = [sock EXCEPT ![cur] = NoSock]
  /\ wpc' = "push"
  /\ UNCHANGED <<osVars, sessions, rmKeys, state, objects, players, members,
                 eventVars, sendVars, packets, accepted, fds, cur, misses,
                 logicVars>>

WorkPushDisconnect ==
  /\ wpc = "push"
  /\ packets' = Append(packets, ClientDisconnectPacket(cur))
  /\ wpc' = IF fds = {} THEN "makeSet" ELSE "recv"
  /\ UNCHANGED <<osVars, tableVars, eventVars, sendVars, accepted, fds, cur,
                 misses, logicVars>>

WorkThread ==
  \/ WorkMakeSet \/ WorkSelect
  \/ \E e \in fds : WorkRecvData(e) \/ WorkRecvEnd(e)
  \/ WorkCloseSocket \/ WorkCloseMiss \/ WorkZeroSocket \/ WorkPushDisconnect

-----------------------------------------------------------------------------
(* The logic thread: CController::MainLoop, then CTaskLogic::Run.          *)

LogicMainLoop ==
  /\ lpc = "mainLoop"
  /\ RemoveClientProcess
  /\ lpc' = "timer"
  /\ UNCHANGED <<sendVars, packets, accepted, workVars, lpkt, asked>>

\* At most one timer of the server fires; its handler sends to every session.
LogicTimer ==
  /\ lpc = "timer"
  /\ ticks < MaxTick
  /\ SendAllBegin
  /\ lpc' = "send"
  /\ UNCHANGED <<osVars, tableVars, eventVars, packets, accepted, workVars,
                 lpkt, asked>>

LogicNoTimer ==
  /\ lpc = "timer"
  /\ lpc' = "pop"
  /\ UNCHANGED <<serverVars, accepted, workVars, lpkt, asked>>

LogicSend(n) ==
  /\ lpc = "send"
  /\ SendAllNext(n)
  /\ UNCHANGED <<osVars, tableVars, eventVars, accepted, workVars, logicVars>>

LogicSendEnd ==
  /\ lpc = "send" /\ toSend = {}
  /\ lpc' = "pop"
  /\ UNCHANGED <<serverVars, accepted, workVars, lpkt, asked>>

\* Mutant: the queue is popped at the wrong end.
LogicPopLast ==
  /\ lpc = "pop"
  /\ IF packets = <<>>
     THEN lpc' = "mainLoop" /\ UNCHANGED <<packets, lpkt>>
     ELSE /\ lpkt' = packets[Len(packets)]
          /\ packets' = SubSeq(packets, 1, Len(packets) - 1)
          /\ lpc' = "dispatch"
  /\ UNCHANGED <<osVars, tableVars, eventVars, sendVars, accepted, workVars,
                 asked>>

LogicPop ==
  /\ lpc = "pop"
  /\ \/ /\ packets = <<>>
        /\ lpc' = "mainLoop"
        /\ UNCHANGED <<packets, lpkt>>
     \/ /\ packets # <<>>
        /\ lpkt' = Head(packets)
        /\ packets' = Tail(packets)
        /\ lpc' = "dispatch"
  /\ UNCHANGED <<osVars, tableVars, eventVars, sendVars, accepted, workVars,
                 asked>>

\* Mutant: the queue is emptied before the main loop runs again.
DispatchedNext(kind) ==
  /\ lpc = "dispatch" /\ lpkt.kind = kind
  /\ lpc' = "pop" /\ lpkt' = NoPacket
  /\ UNCHANGED <<osVars, sendVars, packets, accepted, workVars>>

\* What every dispatch does besides the handler of the packet.
Dispatched(kind) ==
  /\ lpc = "dispatch" /\ lpkt.kind = kind
  /\ lpc' = "mainLoop" /\ lpkt' = NoPacket
  /\ UNCHANGED <<osVars, sendVars, packets, accepted, workVars>>

DispatchAccept ==
  /\ Dispatched("accept")
  /\ AddSession(lpkt.id, lpkt.sock)
  /\ UNCHANGED asked

DispatchDisconnect ==
  /\ Dispatched("clientDisconnect")
  /\ RemoveSession(lpkt.id)
  /\ UNCHANGED asked

\* The unique value does not match: nothing happens.
DispatchInvalid ==
  /\ Dispatched("invalid")
  /\ UNCHANGED <<tableVars, eventVars, asked>>

\* ReqLogIn: the session takes a name, and the certify server is asked.
ReqLogIn(n) ==
  /\ n \in players /\ n \in sessions /\ state[n] = "LOGIN_WAIT"
  /\ asked' = asked \cup {n}

\* A packet of a client reaches the listeners; it may be a login request.
DispatchData ==
  /\ Dispatched("data")
  /\ ReqLogIn(lpkt.id) \/ UNCHANGED asked
  /\ UNCHANGED <<tableVars, eventVars>>

(***************************************************************************)
(* AckUserLogin, the certify server's answer.  The core client that        *)
(* receives it fills the queue too; its packets are about no session until *)
(* one is found by its name, so they are not kept in packets: the answer   *)
(* is popped and dispatched at any turn after the question.                *)
(***************************************************************************)
DispatchAckUserLogin(n) ==
  /\ lpc = "pop" /\ n \in asked
  /\ \/ n \in sessions /\ state' = [state EXCEPT ![n] = "LOGIN"]
     \/ n \notin sessions /\ UNCHANGED state
  /\ asked' = asked \ {n}
  /\ lpc' = "mainLoop"
  /\ UNCHANGED <<osVars, sessions, rmKeys, sock, objects, players, members,
                 eventVars, sendVars, packets, accepted, workVars, lpkt>>

LogicThread ==
  \/ LogicMainLoop \/ LogicTimer \/ LogicNoTimer \/ LogicSendEnd \/ LogicPop
  \/ \E n \in toSend : LogicSend(n)
  \/ DispatchAccept \/ DispatchDisconnect \/ DispatchInvalid \/ DispatchData
  \/ \E n \in asked : DispatchAckUserLogin(n)

-----------------------------------------------------------------------------
ClientAction ==
  /\ \E c \in Conn : ClientStep(c)
  /\ UNCHANGED <<accepted, workVars, logicVars>>

Next == ClientAction \/ AcceptThread \/ WorkThread \/ LogicThread

Spec == Init /\ [][Next]_vars

\* Every thread loops for ever; the clients owe nothing.
FairSpec == Spec /\ WF_vars(AcceptThread) /\ WF_vars(WorkThread)
                 /\ WF_vars(LogicThread)
-----------------------------------------------------------------------------
(* Safety.                                                                 *)

\* Join and leave events balance: a session is in the table, with its object,
\* exactly from its OnClientJoin (AddSession) to its OnClientLeave
\* (RemoveClientProcess); none is dropped untold by the apply_removes() that
\* insert() makes, and none leaves twice.
EventsBalanced ==
  /\ left \subseteq joined
  /\ sessions = joined \ left
  /\ objects = sessions

\* The three containers of a login, certify or farm server agree: every session
\* has its place in the group tree until it leaves, and its player until its
\* removal is asked for, and there is no player without a session.  (The lobby,
\* whose handlers add and remove players by name, has no such agreement.)
MembershipAgrees ==
  /\ members = sessions
  /\ players = sessions \ rmKeys

\* No handle is leaked and none is shared: an open handle is in the accept
\* thread's hand, in an ACCEPT packet, or the socket of exactly one session
\* (or it is the one a refused connection left behind), and a session whose
\* socket is not closed yet holds the handle of its own connection.
SocketsAccounted ==
  /\ \A s \in Socket : handle[s] \notin refused \cup {NoConn} =>
       \/ AcceptPacket(handle[s], s) \in {accepted, lpkt}
       \/ \E i \in 1..Len(packets) : packets[i] = AcceptPacket(handle[s], s)
       \/ sock[handle[s]] = s /\ handle[s] \in sessions
  /\ \A n \in sessions : sock[n] # NoSock =>
       \/ handle[sock[n]] = n
       \/ wpc = "zero" /\ cur = n

\* The work thread keeps a pointer to a session from the unlocked GetSession
\* to SetSocket(0); the logic thread never deletes the object in between.
\* (What the logic thread does with its own pointers is not said here.)
NoUseAfterDelete == wpc = "zero" => cur \in objects

\* A packet that names a session is handled while the session and its player
\* are there: the ACCEPT went before it in the queue, a disconnect comes
\* after it, and a session is disconnected once.
DispatchFindsSession ==
  lpkt # NoPacket /\ lpkt.kind \in {"data", "clientDisconnect"} =>
    lpkt.id \in sessions \ rmKeys

\* The bytes a handler attributes to a session came from its own client,
\* though handles are closed and reused while the work thread holds a set of
\* them: netid_array[i] is the netid of fd_array[i], for a table that fits
\* FdSetSize.
SenderIsOrigin ==
  /\ \A i \in 1..Len(packets) :
       packets[i].kind = "data" => packets[i].id = packets[i].from
  /\ lpkt # NoPacket /\ lpkt.kind = "data" => lpkt.id = lpkt.from

\* A broadcast reaches every session whose client is still there, though the
\* work thread closes sockets while SendAll walks the table without a lock.
BroadcastComplete ==
  lpc = "send" /\ toSend = {} =>
    \A n \in sessions : n \in told \/ peer[n] = "gone"

-----------------------------------------------------------------------------
(* Liveness, for the threads as they are scheduled.                        *)

\* A client that goes away is eventually taken out of the table with its
\* leave event, whatever the other clients do.
ClosedClientLeaves ==
  \A c \in Conn : (c \in joined /\ peer[c] = "gone") ~> (c \in left)

\* A connection accepted is eventually announced, or turned away.
AcceptedJoins ==
  \A c \in Conn : (peer[c] = "open") ~> (c \in joined \cup refused)

\* A session that filled its inbox is eventually read, though the sockets
\* closed meanwhile make select() fail for everyone.
InboxDrains ==
  \A c \in Conn : (c \in joined /\ inbox[c] = MaxData) ~> (inbox[c] < MaxData)
=============================================================================
