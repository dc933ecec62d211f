----------------------------- MODULE ClientProcess -----------------------------
(***************************************************************************)
(* A client process: CClientBasic with its connection to a server (the     *)
(* "link", m_pConnectSvr), the P2P plug (a "peer" connection or a P2P      *)
(* host, CP2PClient) and the handler that moves it to another server       *)
(* (CBasicS2CHandler).                                                     *)
(*                                                                         *)
(* The process has no thread of the library (network::Init(0)): the user's *)
(* loop calls Proc(), which reads at most one packet of a plug, queues it, *)
(* and dispatches one packet that is queued for the plug.  Stop() only     *)
(* queues a DISCONNECT.  Handlers run inside each other: a disconnect may  *)
(* start the client again, which connects, which sends, which may fail and *)
(* disconnect.  They are operators on the state of the client, with the    *)
(* set of its possible next states as their result.                        *)
(***************************************************************************)
EXTENDS Naturals, Sequences, FiniteSets, SequencesExt

CONSTANTS
  MaxConn,    \* connections the process makes (a bound)
  MaxCalls,   \* calls of the user (a bound)
  MaxInbox    \* unread packets of a connection (a bound)

ASSUME ClientConstants ==
  MaxConn \in Nat /\ MaxCalls \in Nat /\ MaxInbox \in Nat

Plug == {"link", "peer"}
NoConn == 0
Conn == 1..MaxConn

VARIABLES
  client,   \* all that a handler of the process may change, see TypeOK
  turn,     \* whose Proc the loop calls next
  calls     \* how often the user called

vars == <<client, turn, calls>>

\* SESSION_STATE and MOVE_STATE
SessionState == {"disconnect", "login", "logoutWait"}
MoveState == {"endMove", "beginMove", "close", "connect"}

\* AckLogIn, AckMoveToServer, AckP2PConnect as a host or as a client; what a
\* P2P host sends.
Message(p) == IF p = "link" THEN {"login", "move", "host", "join"} ELSE {"data"}

Init ==
  /\ client = [state |-> [p \in Plug |-> "disconnect"],
               sock |-> [p \in Plug |-> NoConn],
               conns |-> 0,               \* connections made
               open |-> {},               \* those the process has not closed
               over |-> {},               \* those the other end has closed
               inbox |-> [p \in Plug |-> <<>>],  \* sent to it and not read
               queue |-> [p \in Plug \cup {"host"} |-> <<>>],
               move |-> "endMove",        \* m_ClientState
               mode |-> "client",         \* CP2PClient::m_State
               peer |-> FALSE,            \* is there a m_pP2pClient
               host |-> "none",           \* m_pP2pHost
               listed |-> FALSE]          \* is it in m_Servers
  /\ turn = "link" /\ calls = 0

IsConnect(c, p) == c.state[p] # "disconnect"

-----------------------------------------------------------------------------
(* What the handlers do to the client.                                     *)

\* CCoreClient::Close; CClientBasic::Close closes both plugs.
Close(c, p) ==
  [c EXCEPT !.state[p] = "disconnect",
            !.sock[p] = NoConn,
            !.inbox[p] = <<>>,
            !.open = @ \ {c.sock[p]}]

CloseHost(c) == IF c.host = "none" THEN c ELSE [c EXCEPT !.host = "off"]

CloseAll(c) == CloseHost(Close(Close(c, "link"), "peer"))

\* Close, and CController::RemoveCoreClient: the packets go, and the plug waits
\* for a removal that no main loop makes.
Dropped(c, p) ==
  [Close(c, p) EXCEPT !.queue[p] = <<>>, !.state[p] = "logoutWait"]

Made(c, p) ==
  [c EXCEPT !.conns = @ + 1, !.sock[p] = c.conns + 1,
            !.open = @ \cup {c.conns + 1}, !.state[p] = "login"]

\* Mutant: connect()'s result is not looked at.
ConnectedUnchecked(c, p) == {Made(c, p)}

\* LaunchCoreClient, when connect() succeeds.
Connected(c, p) == IF c.conns = MaxConn THEN {} ELSE {Made(c, p)}

\* LaunchCoreClient, when it fails.
NotConnected(c, p) == [c EXCEPT !.state[p] = "disconnect"]

\* CBasicS2CHandler::OnConnectClient: the client that moves logs in; a send()
\* that fails disconnects, and nobody connects again.
OnConnectClient(c) ==
  IF c.move = "close"
  THEN LET d == [c EXCEPT !.move = "connect"] IN {d, Dropped(d, "link")}
  ELSE {c}

Launch(c) == UNION {OnConnectClient(d) : d \in Connected(c, "link")}

\* Mutant: a connection that is there is not closed.
RestartedOpen(c) == c

\* CController::StartClient, StartCoreClient, before the launch.
Restarted(c) == IF IsConnect(c, "link") THEN CloseAll(c) ELSE c

\* CBasicS2CHandler::OnDisconnectClient: the client that moves is started again.
OnDisconnectClient(c) ==
  IF c.move = "beginMove"
  THEN LET d == Restarted([c EXCEPT !.move = "close"])
       IN Launch(d) \cup {NotConnected(d, "link")}
  ELSE {c}

\* A connect() that fails raises EVT_DISCONNECT too.
StartClient(c) ==
  LET d == Restarted(c)
  IN Launch(d) \cup OnDisconnectClient(NotConnected(d, "link"))

\* CCoreClient::Disconnect.
Disconnect(c, p) ==
  IF p = "link" THEN OnDisconnectClient(Dropped(c, p)) ELSE {Dropped(c, p)}

\* CCoreClient::Send to the server: it fails on a connection that is closed, or
\* when there is none, and may be told late that the other end closed it.
Send(c) ==
  IF ~IsConnect(c, "link") THEN {c}
  ELSE IF c.sock["link"] = NoConn THEN Disconnect(c, "link")
  ELSE {c} \cup (IF c.sock["link"] \in c.over THEN Disconnect(c, "link") ELSE {})

\* Mutant: only the client's own netid gets a packet.
StopClient(c) == c

\* CClientBasic::Stop: the packet for the client itself is never dispatched and
\* left out.
Stop(c) ==
  [c EXCEPT !.queue["link"] = Append(@, "disconnect"),
            !.queue["host"] = IF c.host = "none" THEN @ ELSE Append(@, "disconnect"),
            !.queue["peer"] = IF c.peer THEN Append(@, "disconnect") ELSE @]

\* CBasicS2CHandler::AckMoveToServer, AckLogIn.
AckMoveToServer(c) == [Stop(c) EXCEPT !.move = "beginMove"]

AckLogIn(c) == IF c.move = "connect" THEN [c EXCEPT !.move = "endMove"] ELSE c

\* CP2PClient::Bind: a host that was there is closed, the peer connection too.
\* StartServer refuses a server that is in its table, which it never leaves.
Bind(c) ==
  LET b == [c EXCEPT !.mode = "host"]
      d == IF c.host = "none" THEN [b EXCEPT !.host = "off"]
           ELSE CloseHost(Close(b, "peer"))
  IN IF d.listed THEN {d}
     ELSE {d, [d EXCEPT !.host = "on", !.listed = TRUE]}

\* CP2PClient::Connect.
Join(c) ==
  LET b == [c EXCEPT !.mode = "client", !.peer = TRUE]
      d == IF c.peer \/ IsConnect(c, "peer") THEN CloseHost(Close(b, "peer")) ELSE b
  IN Connected(d, "peer") \cup {NotConnected(d, "peer")}

\* CBasicS2CHandler::AckP2PConnect tells the server the result.
AckP2PConnect(c, kind) ==
  UNION {Send(d) : d \in IF kind = "host" THEN Bind(c) ELSE Join(c)}

-----------------------------------------------------------------------------
(* CCoreClient::Proc.                                                      *)

Readable(c, p) ==
  c.sock[p] # NoConn /\ (c.inbox[p] # <<>> \/ c.sock[p] \in c.over)

\* Mutant: recv() of 0 bytes is no error.
ReceivedNoEnd(c, p) ==
  IF c.inbox[p] = <<>> THEN c
  ELSE [c EXCEPT !.queue[p] = Append(@, Head(c.inbox[p])), !.inbox[p] = Tail(@)]

\* select(), which fails on a socket that is 0, and recv().
Received(c, p) ==
  IF ~Readable(c, p) THEN c
  ELSE IF c.inbox[p] # <<>>
  THEN [c EXCEPT !.queue[p] = Append(@, Head(c.inbox[p])), !.inbox[p] = Tail(@)]
  ELSE [c EXCEPT !.queue[p] = Append(@, "disconnect")]

Dispatch(c, p) ==
  IF c.queue[p] = <<>> THEN {c}
  ELSE LET m == Head(c.queue[p])
           d == [c EXCEPT !.queue[p] = Tail(@)]
       IN CASE m = "disconnect" -> Disconnect(d, p)
            [] m = "move" -> {AckMoveToServer(d)}
            [] m = "login" -> {AckLogIn(d)}
            [] m \in {"host", "join"} -> AckP2PConnect(d, m)
            [] m = "data" -> {d}

CoreProc(c, p) ==
  IF IsConnect(c, p) THEN Dispatch(Received(c, p), p) ELSE {c}

\* CClientBasic::Proc: the link and then the P2P plug, in its present role.
LinkProc ==
  /\ turn = "link" /\ turn' = "peer"
  /\ client' \in CoreProc(client, "link")
  /\ UNCHANGED calls

PeerProc ==
  /\ turn = "peer" /\ client.mode = "client" /\ turn' = "link"
  /\ client' \in CoreProc(client, "peer")
  /\ UNCHANGED calls

\* CServerBasic::Proc of the host is in UserLoopServer; here, its Disconnect.
HostProc ==
  /\ turn = "peer" /\ client.mode = "host" /\ turn' = "link"
  /\ client' = IF client.queue["host"] = <<>> THEN client
               ELSE [client EXCEPT !.queue["host"] = <<>>, !.host = "off"]
  /\ UNCHANGED calls

Proc == LinkProc \/ PeerProc \/ HostProc

-----------------------------------------------------------------------------
(* The user, between two calls of Proc.                                    *)

Call(results) ==
  /\ turn = "link" /\ calls < MaxCalls
  /\ calls' = calls + 1
  /\ client' \in results
  /\ UNCHANGED turn

CallStartClient == Call(StartClient(client))
CallStopClient == Call({Stop(client)})
CallSend == Call(Send(client))

(* The other ends of the connections. *)

IsOpen(p) == client.sock[p] \in client.open \ client.over

ServerSend(p, m) ==
  /\ IsOpen(p) /\ Len(client.inbox[p]) < MaxInbox
  /\ client' = [client EXCEPT !.inbox[p] = Append(@, m)]
  /\ UNCHANGED <<turn, calls>>

ServerClose(p) ==
  /\ IsOpen(p)
  /\ client' = [client EXCEPT !.over = @ \cup {client.sock[p]}]
  /\ UNCHANGED <<turn, calls>>

Next ==
  \/ Proc \/ CallStartClient \/ CallStopClient \/ CallSend
  \/ \E p \in Plug : ServerClose(p) \/ \E m \in Message(p) : ServerSend(p, m)

Spec == Init /\ [][Next]_vars

\* The user's loop goes on; nobody else owes anything.
FairSpec == Spec /\ WF_vars(Proc)

-----------------------------------------------------------------------------
TypeOK ==
  /\ client.state \in [Plug -> SessionState]
  /\ client.sock \in [Plug -> Conn \cup {NoConn}]
  /\ client.conns \in 0..MaxConn
  /\ client.open \subseteq Conn /\ client.over \subseteq Conn
  /\ \A p \in Plug : client.inbox[p] \in Seq(Message(p))
  /\ \A p \in Plug : client.queue[p] \in Seq(Message(p) \cup {"disconnect"})
  /\ client.queue["host"] \in Seq({"disconnect"})
  /\ client.move \in MoveState /\ client.mode \in {"client", "host"}
  /\ client.host \in {"none", "off", "on"}
  /\ client.peer \in BOOLEAN /\ client.listed \in BOOLEAN
  /\ turn \in Plug /\ calls \in 0..MaxCalls

\* Every connection the process has open is that of one of its plugs, which is
\* logged in: none is left behind by a start, a stop, a failed connect() or the
\* handlers that run inside each other, and none is used after it was closed.
ConnectionsHeld ==
  /\ client.open = {client.sock[p] : p \in Plug} \ {NoConn}
  /\ \A p \in Plug : client.sock[p] # NoConn => client.state[p] = "login"
  /\ client.sock["link"] = client.sock["peer"] => client.sock["link"] = NoConn

\* A client that was told to move to another server goes: it leaves the server it
\* is on and tries the one it was told, whatever the user and the servers do.
MoveGoesOn == client.move = "beginMove" ~> client.move # "beginMove"

\* A link whose other end is gone is given up, and so the user is told.
GoneIsNoticed ==
  \A n \in Conn :
    (client.sock["link"] = n /\ n \in client.over) ~> client.sock["link"] # n

=============================================================================
