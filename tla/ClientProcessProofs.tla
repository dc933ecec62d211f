-------------------------- MODULE ClientProcessProofs --------------------------
(***************************************************************************)
(* Proofs about ClientProcess.  The handlers are operators from a client   *)
(* to its possible next clients, so the induction is over them: each keeps *)
(* Good, whatever handler it is called from.                               *)
(***************************************************************************)
EXTENDS ClientProcess, TLAPS

\* The record that is a client.
ClientRecord ==
  [state : [Plug -> SessionState], sock : [Plug -> Conn \cup {NoConn}],
   conns : 0..MaxConn, open : SUBSET Conn, over : SUBSET Conn,
   inbox : [Plug -> Seq(Message("link") \cup Message("peer"))],
   queue : [Plug \cup {"host"} ->
              Seq(Message("link") \cup Message("peer") \cup {"disconnect"})],
   move : MoveState, mode : {"client", "host"}, peer : BOOLEAN,
   host : {"none", "off", "on"}, listed : BOOLEAN]

\* What is queued for a plug is what its other end sends.
Queued(c) ==
  /\ \A p \in Plug : c.inbox[p] \in Seq(Message(p))
  /\ \A p \in Plug : c.queue[p] \in Seq(Message(p) \cup {"disconnect"})
  /\ c.queue["host"] \in Seq({"disconnect"})

\* ConnectionsHeld, of any client.
Held(c) ==
  /\ c.open = {c.sock[p] : p \in Plug} \ {NoConn}
  /\ \A p \in Plug : c.sock[p] # NoConn => c.state[p] = "login"
  /\ c.sock["link"] = c.sock["peer"] => c.sock["link"] = NoConn

\* A connection that is yet to be made is not open.
Fresh(c) == c.open \subseteq 1..c.conns

Good(c) == c \in ClientRecord /\ Queued(c) /\ Held(c) /\ Fresh(c)

AllGood(C) == \A c \in C : Good(c)

-----------------------------------------------------------------------------
(* Sequences.                                                              *)

\* A packet more or less leaves a queue a queue of such packets.
LEMMA QueueSteps ==
  ASSUME NEW S, NEW s \in Seq(S)
  PROVE  /\ \A x \in S : Append(s, x) \in Seq(S)
         /\ s # <<>> => Head(s) \in S /\ Tail(s) \in Seq(S)
         /\ <<>> \in Seq(S)
  OBVIOUS

-----------------------------------------------------------------------------
(* Connections.                                                            *)

\* The fields of a client whose plug was closed, and that it is good.
LEMMA CloseGood ==
  ASSUME NEW c, Good(c), NEW p \in Plug
  PROVE  /\ Good(Close(c, p))
         /\ Close(c, p).sock[p] = NoConn
         /\ \A q \in Plug : c.sock[q] = NoConn => Close(c, p).sock[q] = NoConn
         /\ Close(c, p).queue = c.queue
         /\ Close(c, p).host = c.host
<1> DEFINE d == Close(c, p)
<1>1. /\ d.state = [c.state EXCEPT ![p] = "disconnect"]
      /\ d.sock = [c.sock EXCEPT ![p] = NoConn]
      /\ d.inbox = [c.inbox EXCEPT ![p] = <<>>]
      /\ d.open = c.open \ {c.sock[p]}
      /\ d.conns = c.conns /\ d.over = c.over /\ d.queue = c.queue
      /\ d.move = c.move /\ d.mode = c.mode /\ d.peer = c.peer
      /\ d.host = c.host /\ d.listed = c.listed
  BY DEF Good, ClientRecord, Close
<1>2. d \in ClientRecord
  <2>1. /\ [c.state EXCEPT ![p] = "disconnect"] \in [Plug -> SessionState]
        /\ [c.sock EXCEPT ![p] = NoConn] \in [Plug -> Conn \cup {NoConn}]
        /\ c.open \ {c.sock[p]} \in SUBSET Conn
    BY DEF Good, ClientRecord, SessionState
  <2>2. [c.inbox EXCEPT ![p] = <<>>]
          \in [Plug -> Seq(Message("link") \cup Message("peer"))]
    BY QueueSteps DEF Good, ClientRecord
  <2> QED BY <2>1, <2>2 DEF Good, ClientRecord, Close
<1>3. Queued(d)
  BY <1>1, QueueSteps DEF Good, ClientRecord, Queued
<1>4. Held(d)
  BY <1>1 DEF Good, ClientRecord, Held, Plug, NoConn, Conn
<1>5. Fresh(d)
  BY <1>1 DEF Good, Fresh
<1> QED BY <1>1, <1>2, <1>3, <1>4, <1>5 DEF Good, ClientRecord

\* CController::RemoveCoreClient's client, likewise.
LEMMA DroppedGood ==
  ASSUME NEW c, Good(c), NEW p \in Plug
  PROVE  /\ Good(Dropped(c, p))
         /\ Dropped(c, p).sock[p] = NoConn
<1> DEFINE e == Close(c, p)
           d == Dropped(c, p)
<1>1. Good(e) /\ e.sock[p] = NoConn
  BY CloseGood
<1>2. /\ d.state = [e.state EXCEPT ![p] = "logoutWait"]
      /\ d.queue = [e.queue EXCEPT ![p] = <<>>]
      /\ d.sock = e.sock /\ d.inbox = e.inbox /\ d.open = e.open
      /\ d.conns = e.conns
  BY <1>1 DEF Good, ClientRecord, Dropped
<1>3. d \in ClientRecord
  <2>1. [e.state EXCEPT ![p] = "logoutWait"] \in [Plug -> SessionState]
    BY <1>1 DEF Good, ClientRecord, SessionState
  <2>2. [e.queue EXCEPT ![p] = <<>>]
          \in [Plug \cup {"host"} ->
                 Seq(Message("link") \cup Message("peer") \cup {"disconnect"})]
    BY <1>1, QueueSteps DEF Good, ClientRecord
  <2> QED BY <1>1, <2>1, <2>2 DEF Good, ClientRecord, Dropped
<1>4. Queued(d)
  BY <1>1, <1>2, QueueSteps DEF Good, ClientRecord, Queued, Plug
<1>5. Held(d)
  BY <1>1, <1>2 DEF Good, ClientRecord, Held, Plug
<1>6. Fresh(d)
  BY <1>1, <1>2 DEF Good, Fresh
<1> QED BY <1>1, <1>2, <1>3, <1>4, <1>5, <1>6 DEF Good

\* A plug without a connection may get one.
LEMMA MadeGood ==
  ASSUME NEW c, Good(c), NEW p \in Plug, c.sock[p] = NoConn, c.conns # MaxConn
  PROVE  Good(Made(c, p))
<1> DEFINE d == Made(c, p)
           n == c.conns + 1
<1>1. /\ d.state = [c.state EXCEPT ![p] = "login"]
      /\ d.sock = [c.sock EXCEPT ![p] = n]
      /\ d.open = c.open \cup {n} /\ d.conns = n
      /\ d.queue = c.queue /\ d.inbox = c.inbox
  BY DEF Good, ClientRecord, Made
<1>2. c.conns \in Nat /\ n \in Conn /\ n \in 0..MaxConn /\ n # NoConn
  BY ClientConstants DEF Good, ClientRecord, Conn, NoConn
<1>3. d \in ClientRecord
  <2>1. /\ [c.state EXCEPT ![p] = "login"] \in [Plug -> SessionState]
        /\ [c.sock EXCEPT ![p] = n] \in [Plug -> Conn \cup {NoConn}]
        /\ c.open \cup {n} \in SUBSET Conn
    BY <1>2 DEF Good, ClientRecord, SessionState
  <2> QED BY <1>2, <2>1 DEF Good, ClientRecord, Made
<1>4. Queued(d)
  BY <1>1 DEF Good, Queued
<1>5. n \notin c.open
  BY <1>2 DEF Good, Fresh
<1>6. Held(d)
  <2>1. \A q \in Plug : c.sock[q] # NoConn => c.sock[q] \in c.open
    BY DEF Good, Held
  <2>2. \A q \in Plug : c.sock[q] # n
    BY <1>2, <1>5, <2>1
  <2> QED BY <1>1, <1>2, <2>2 DEF Good, ClientRecord, Held, Plug
<1>7. Fresh(d)
  BY <1>1, <1>2 DEF Good, Fresh
<1> QED BY <1>3, <1>4, <1>6, <1>7 DEF Good

\* What is no part of Held, Queued and Fresh may change.
LEMMA OtherFieldsGood ==
  ASSUME NEW c, Good(c), NEW d \in ClientRecord,
         d.state = c.state, d.sock = c.sock, d.conns = c.conns, d.open = c.open,
         d.inbox = c.inbox, d.queue = c.queue
  PROVE  Good(d)
BY DEF Good, Queued, Held, Fresh

\* A plug without a connection may be said to be disconnected.
LEMMA NotConnectedGood ==
  ASSUME NEW c, Good(c), NEW p \in Plug, c.sock[p] = NoConn
  PROVE  Good(NotConnected(c, p))
<1> DEFINE d == NotConnected(c, p)
<1>1. /\ d.state = [c.state EXCEPT ![p] = "disconnect"]
      /\ d.sock = c.sock /\ d.open = c.open /\ d.conns = c.conns
      /\ d.queue = c.queue /\ d.inbox = c.inbox
  BY DEF Good, ClientRecord, NotConnected
<1>2. d \in ClientRecord
  <2>1. [c.state EXCEPT ![p] = "disconnect"] \in [Plug -> SessionState]
    BY DEF Good, ClientRecord, SessionState
  <2> QED BY <2>1 DEF Good, ClientRecord, NotConnected
<1>3. Held(d)
  BY <1>1 DEF Good, ClientRecord, Held
<1> QED BY <1>1, <1>2, <1>3 DEF Good, Queued, Fresh

LEMMA CloseHostGood ==
  ASSUME NEW c, Good(c)
  PROVE  Good(CloseHost(c)) /\ CloseHost(c).sock = c.sock
<1>1. CASE c.host = "none"
  BY <1>1 DEF CloseHost
<1>2. CASE c.host # "none"
  <2> DEFINE d == [c EXCEPT !.host = "off"]
  <2>1. /\ d \in ClientRecord
        /\ d.state = c.state /\ d.sock = c.sock /\ d.conns = c.conns
        /\ d.open = c.open /\ d.inbox = c.inbox /\ d.queue = c.queue
    BY DEF Good, ClientRecord
  <2> QED BY <1>2, <2>1, OtherFieldsGood DEF CloseHost
<1> QED BY <1>1, <1>2

LEMMA CloseAllGood ==
  ASSUME NEW c, Good(c)
  PROVE  /\ Good(CloseAll(c))
         /\ \A p \in Plug : CloseAll(c).sock[p] = NoConn
<1> DEFINE d == Close(c, "link")
           e == Close(d, "peer")
<1>1. Good(d) /\ d.sock["link"] = NoConn
  BY CloseGood DEF Plug
<1>2. Good(e) /\ e.sock["link"] = NoConn /\ e.sock["peer"] = NoConn
  BY <1>1, CloseGood DEF Plug
<1> QED BY <1>2, CloseHostGood DEF CloseAll, Plug

-----------------------------------------------------------------------------
(* Handlers.                                                               *)

LEMMA ConnectedGood ==
  ASSUME NEW c, Good(c), NEW p \in Plug, c.sock[p] = NoConn
  PROVE  AllGood(Connected(c, p))
BY MadeGood DEF Connected, AllGood

\* CBasicS2CHandler::OnConnectClient
LEMMA OnConnectGood ==
  ASSUME NEW c, Good(c)
  PROVE  AllGood(OnConnectClient(c))
<1> DEFINE d == [c EXCEPT !.move = "connect"]
<1>1. Good(d)
  <2>1. /\ d \in ClientRecord
        /\ d.state = c.state /\ d.sock = c.sock /\ d.conns = c.conns
        /\ d.open = c.open /\ d.inbox = c.inbox /\ d.queue = c.queue
    BY DEF Good, ClientRecord, MoveState
  <2> QED BY <2>1, OtherFieldsGood
<1>2. Good(Dropped(d, "link"))
  BY <1>1, DroppedGood DEF Plug
<1> QED BY <1>1, <1>2 DEF OnConnectClient, AllGood

LEMMA LaunchGood ==
  ASSUME NEW c, Good(c), c.sock["link"] = NoConn
  PROVE  AllGood(Launch(c))
<1>1. AllGood(Connected(c, "link"))
  BY ConnectedGood DEF Plug
<1> QED BY <1>1, OnConnectGood DEF Launch, AllGood

\* The restarted client has no connection to the server.
LEMMA RestartedGood ==
  ASSUME NEW c, Good(c)
  PROVE  Good(Restarted(c)) /\ Restarted(c).sock["link"] = NoConn
<1>1. CASE IsConnect(c, "link")
  BY <1>1, CloseAllGood DEF Restarted, Plug
<1>2. CASE ~IsConnect(c, "link")
  BY <1>2 DEF Restarted, IsConnect, Good, Held, Plug
<1> QED BY <1>1, <1>2

\* A client that is to start again is started.
LEMMA OnDisconnectGood ==
  ASSUME NEW c, Good(c)
  PROVE  AllGood(OnDisconnectClient(c))
<1> DEFINE b == [c EXCEPT !.move = "close"]
           d == Restarted(b)
<1>1. Good(b)
  <2>1. /\ b \in ClientRecord
        /\ b.state = c.state /\ b.sock = c.sock /\ b.conns = c.conns
        /\ b.open = c.open /\ b.inbox = c.inbox /\ b.queue = c.queue
    BY DEF Good, ClientRecord, MoveState
  <2> QED BY <2>1, OtherFieldsGood
<1>2. Good(d) /\ d.sock["link"] = NoConn
  BY <1>1, RestartedGood
<1>3. AllGood(Launch(d)) /\ Good(NotConnected(d, "link"))
  BY <1>2, LaunchGood, NotConnectedGood DEF Plug
<1> QED BY <1>3 DEF OnDisconnectClient, AllGood

LEMMA StartGood ==
  ASSUME NEW c, Good(c)
  PROVE  AllGood(StartClient(c))
<1> DEFINE d == Restarted(c)
<1>1. Good(d) /\ d.sock["link"] = NoConn
  BY RestartedGood
<1>2. AllGood(Launch(d)) /\ Good(NotConnected(d, "link"))
  BY <1>1, LaunchGood, NotConnectedGood DEF Plug
<1>3. AllGood(OnDisconnectClient(NotConnected(d, "link")))
  BY <1>2, OnDisconnectGood
<1> QED BY <1>2, <1>3 DEF StartClient, AllGood

LEMMA DisconnectGood ==
  ASSUME NEW c, Good(c), NEW p \in Plug
  PROVE  AllGood(Disconnect(c, p))
<1>1. Good(Dropped(c, p))
  BY DroppedGood
<1>2. AllGood(OnDisconnectClient(Dropped(c, p)))
  BY <1>1, OnDisconnectGood
<1> QED BY <1>1, <1>2 DEF Disconnect, AllGood

LEMMA SendGood ==
  ASSUME NEW c, Good(c)
  PROVE  AllGood(Send(c))
<1>1. AllGood(Disconnect(c, "link"))
  BY DisconnectGood DEF Plug
<1> QED BY <1>1 DEF Send, AllGood

\* What is queued may be added to.
LEMMA QueueGood ==
  ASSUME NEW c, Good(c), NEW q,
         q \in [Plug \cup {"host"} ->
                  Seq(Message("link") \cup Message("peer") \cup {"disconnect"})],
         \A p \in Plug : q[p] \in Seq(Message(p) \cup {"disconnect"}),
         q["host"] \in Seq({"disconnect"}),
         NEW d \in ClientRecord,
         d.state = c.state, d.sock = c.sock, d.conns = c.conns, d.open = c.open,
         d.inbox = c.inbox, d.queue = q
  PROVE  Good(d)
BY DEF Good, Queued, Held, Fresh

\* CClientBasic::Stop
LEMMA StopGood ==
  ASSUME NEW c, Good(c)
  PROVE  Good(Stop(c))
<1> DEFINE d == Stop(c)
           q1 == [c.queue EXCEPT !["link"] = Append(@, "disconnect")]
           q2 == [q1 EXCEPT !["host"] = IF c.host = "none" THEN @
                                        ELSE Append(@, "disconnect")]
           q3 == [q2 EXCEPT !["peer"] = IF c.peer THEN Append(@, "disconnect")
                                        ELSE @]
           All == Message("link") \cup Message("peer") \cup {"disconnect"}
<1>1. /\ \A p \in Plug \cup {"host"} : c.queue[p] \in Seq(All)
      /\ \A p \in Plug : c.queue[p] \in Seq(Message(p) \cup {"disconnect"})
      /\ c.queue["host"] \in Seq({"disconnect"})
      /\ DOMAIN c.queue = Plug \cup {"host"}
  BY DEF Good, ClientRecord, Queued
<1>2. /\ \A p \in Plug \cup {"host"} : Append(c.queue[p], "disconnect") \in Seq(All)
      /\ \A p \in Plug : Append(c.queue[p], "disconnect")
                           \in Seq(Message(p) \cup {"disconnect"})
      /\ Append(c.queue["host"], "disconnect") \in Seq({"disconnect"})
  BY <1>1, QueueSteps
<1>3. /\ q3 = [p \in Plug \cup {"host"} |-> q3[p]]
      /\ \A p \in Plug \cup {"host"} :
           q3[p] = c.queue[p] \/ q3[p] = Append(c.queue[p], "disconnect")
  BY <1>1 DEF Plug
<1>4. /\ d.state = c.state /\ d.sock = c.sock /\ d.conns = c.conns
      /\ d.open = c.open /\ d.inbox = c.inbox /\ d.queue = q3
  BY DEF Stop, Good, ClientRecord
<1>5. q3 \in [Plug \cup {"host"} -> Seq(All)]
  BY <1>1, <1>2, <1>3
<1>6. /\ \A p \in Plug : q3[p] \in Seq(Message(p) \cup {"disconnect"})
      /\ q3["host"] \in Seq({"disconnect"})
  BY <1>1, <1>2, <1>3
<1>7. d \in ClientRecord
  <2>1. d.queue \in [Plug \cup {"host"} -> Seq(All)]
    <3> HIDE DEF q1, q2, q3, d
    <3> QED BY <1>4, <1>5
  <2> QED BY <2>1 DEF Good, ClientRecord, Stop
<1> HIDE DEF q1, q2, q3, d
<1> QED BY <1>4, <1>5, <1>6, <1>7, QueueGood DEF d

\* CBasicS2CHandler::AckMoveToServer, AckLogIn
LEMMA AckMoveGood ==
  ASSUME NEW c, Good(c)
  PROVE  Good(AckMoveToServer(c)) /\ Good(AckLogIn(c))
<1>1. Good(AckMoveToServer(c))
  <2> DEFINE b == Stop(c)
             d == [b EXCEPT !.move = "beginMove"]
  <2>1. Good(b)
    BY StopGood
  <2>2. /\ d \in ClientRecord
        /\ d.state = b.state /\ d.sock = b.sock /\ d.conns = b.conns
        /\ d.open = b.open /\ d.inbox = b.inbox /\ d.queue = b.queue
    <3> HIDE DEF b
    <3> QED BY <2>1 DEF Good, ClientRecord, MoveState
  <2>3. Good(d)
    <3> HIDE DEF b, d
    <3> QED BY <2>1, <2>2, OtherFieldsGood
  <2> QED BY <2>3 DEF AckMoveToServer
<1>2. Good(AckLogIn(c))
  <2> DEFINE d == [c EXCEPT !.move = "endMove"]
  <2>1. /\ d \in ClientRecord
        /\ d.state = c.state /\ d.sock = c.sock /\ d.conns = c.conns
        /\ d.open = c.open /\ d.inbox = c.inbox /\ d.queue = c.queue
    BY DEF Good, ClientRecord, MoveState
  <2> QED BY <2>1, OtherFieldsGood DEF AckLogIn
<1> QED BY <1>1, <1>2

\* CP2PClient::CreateP2PHost
LEMMA BindGood ==
  ASSUME NEW c, Good(c)
  PROVE  AllGood(Bind(c))
<1> DEFINE b == [c EXCEPT !.mode = "host"]
           e == [b EXCEPT !.host = "off"]
           f == CloseHost(Close(b, "peer"))
<1>1. Good(b)
  <2>1. /\ b \in ClientRecord
        /\ b.state = c.state /\ b.sock = c.sock /\ b.conns = c.conns
        /\ b.open = c.open /\ b.inbox = c.inbox /\ b.queue = c.queue
    BY DEF Good, ClientRecord
  <2> QED BY <2>1, OtherFieldsGood
<1>2. ASSUME NEW d, Good(d), NEW h \in {"off", "on"}, NEW l \in BOOLEAN
      PROVE  Good([d EXCEPT !.host = h]) /\ Good([d EXCEPT !.host = h, !.listed = l])
  <2> DEFINE x == [d EXCEPT !.host = h]
             y == [d EXCEPT !.host = h, !.listed = l]
  <2>1. /\ x \in ClientRecord
        /\ x.state = d.state /\ x.sock = d.sock /\ x.conns = d.conns
        /\ x.open = d.open /\ x.inbox = d.inbox /\ x.queue = d.queue
    BY <1>2 DEF Good, ClientRecord
  <2>2. /\ y \in ClientRecord
        /\ y.state = d.state /\ y.sock = d.sock /\ y.conns = d.conns
        /\ y.open = d.open /\ y.inbox = d.inbox /\ y.queue = d.queue
    BY <1>2 DEF Good, ClientRecord
  <2> QED BY <1>2, <2>1, <2>2, OtherFieldsGood
<1>3. Good(e) /\ Good(f)
  BY <1>1, <1>2, CloseGood, CloseHostGood DEF Plug
<1>4. /\ Good([e EXCEPT !.host = "on", !.listed = TRUE])
      /\ Good([f EXCEPT !.host = "on", !.listed = TRUE])
  <2> HIDE DEF e, f
  <2> QED BY <1>2, <1>3
<1> QED BY <1>3, <1>4 DEF Bind, AllGood

\* CP2PClient::CreateP2PClient
LEMMA JoinGood ==
  ASSUME NEW c, Good(c)
  PROVE  AllGood(Join(c))
<1> DEFINE b == [c EXCEPT !.mode = "client", !.peer = TRUE]
           d == IF c.peer \/ IsConnect(c, "peer") THEN CloseHost(Close(b, "peer")) ELSE b
<1>1. Good(b) /\ b.sock = c.sock
  <2>1. /\ b \in ClientRecord
        /\ b.state = c.state /\ b.sock = c.sock /\ b.conns = c.conns
        /\ b.open = c.open /\ b.inbox = c.inbox /\ b.queue = c.queue
    BY DEF Good, ClientRecord
  <2> QED BY <2>1, OtherFieldsGood
<1>2. Good(d) /\ d.sock["peer"] = NoConn
  <2>1. CASE c.peer \/ IsConnect(c, "peer")
    BY <1>1, <2>1, CloseGood, CloseHostGood DEF Plug
  <2>2. CASE ~(c.peer \/ IsConnect(c, "peer"))
    BY <1>1, <2>2 DEF IsConnect, Good, Held, Plug
  <2> QED BY <2>1, <2>2
<1> HIDE DEF d
<1>3. AllGood(Connected(d, "peer")) /\ Good(NotConnected(d, "peer"))
  BY <1>2, ConnectedGood, NotConnectedGood DEF Plug
<1> QED BY <1>3 DEF Join, AllGood, d

LEMMA AckP2PConnectGood ==
  ASSUME NEW c, Good(c), NEW kind
  PROVE  AllGood(AckP2PConnect(c, kind))
<1>1. AllGood(Bind(c)) /\ AllGood(Join(c))
  BY BindGood, JoinGood
<1>2. \A d \in Bind(c) \cup Join(c) : AllGood(Send(d))
  BY <1>1, SendGood DEF AllGood
<1> QED BY <1>2 DEF AckP2PConnect, AllGood

-----------------------------------------------------------------------------
(* Proc.                                                                   *)

\* A packet, or the end of the stream, goes from the socket to the queue.
LEMMA ReceivedGood ==
  ASSUME NEW c, Good(c), NEW p \in Plug
  PROVE  Good(Received(c, p))
<1> DEFINE All == Message("link") \cup Message("peer") \cup {"disconnect"}
<1>1. /\ c.inbox[p] \in Seq(Message(p))
      /\ c.inbox[p] \in Seq(Message("link") \cup Message("peer"))
      /\ c.queue[p] \in Seq(Message(p) \cup {"disconnect"})
      /\ c.queue[p] \in Seq(All)
  BY DEF Good, ClientRecord, Queued
<1>2. CASE c.inbox[p] # <<>>
  <2> DEFINE m == Head(c.inbox[p])
             i == [c.inbox EXCEPT ![p] = Tail(@)]
             q == [c.queue EXCEPT ![p] = Append(@, m)]
             d == [c EXCEPT !.queue[p] = Append(@, m), !.inbox[p] = Tail(@)]
  <2>1. /\ m \in Message(p) /\ m \in Message("link") \cup Message("peer")
        /\ Tail(c.inbox[p]) \in Seq(Message(p))
        /\ Tail(c.inbox[p]) \in Seq(Message("link") \cup Message("peer"))
    BY <1>1, <1>2, QueueSteps
  <2>2. /\ Append(c.queue[p], m) \in Seq(Message(p) \cup {"disconnect"})
        /\ Append(c.queue[p], m) \in Seq(All)
    <3> HIDE DEF m
    <3> QED BY <1>1, <2>1, QueueSteps
  <2>3. /\ i \in [Plug -> Seq(Message("link") \cup Message("peer"))]
        /\ q \in [Plug \cup {"host"} -> Seq(All)]
    <3> HIDE DEF m, All
    <3> QED BY <2>1, <2>2 DEF Good, ClientRecord, All
  <2>4. /\ d.state = c.state /\ d.sock = c.sock /\ d.conns = c.conns
        /\ d.open = c.open /\ d.inbox = i /\ d.queue = q
    <3> HIDE DEF m
    <3> QED BY DEF Good, ClientRecord
  <2>5. d \in ClientRecord
    <3>1. d.inbox \in [Plug -> Seq(Message("link") \cup Message("peer"))]
            /\ d.queue \in [Plug \cup {"host"} -> Seq(All)]
      <4> HIDE DEF d, i, q
      <4> QED BY <2>3, <2>4
    <3> HIDE DEF m
    <3> QED BY <3>1 DEF Good, ClientRecord
  <2>6. Queued(d)
    <3>1. /\ \A r \in Plug : i[r] \in Seq(Message(r))
          /\ \A r \in Plug : q[r] \in Seq(Message(r) \cup {"disconnect"})
          /\ q["host"] \in Seq({"disconnect"})
      <4> HIDE DEF m
      <4> QED BY <2>1, <2>2 DEF Good, ClientRecord, Queued, Plug
    <3> HIDE DEF d, i, q
    <3> QED BY <2>4, <3>1 DEF Queued
  <2>7. Good(d)
    <3> HIDE DEF d, i, q
    <3> QED BY <2>4, <2>5, <2>6 DEF Good, Held, Fresh
  <2> QED BY <1>2, <2>7 DEF Received
<1>3. CASE c.inbox[p] = <<>>
  <2> DEFINE q == [c.queue EXCEPT ![p] = Append(@, "disconnect")]
             d == [c EXCEPT !.queue[p] = Append(@, "disconnect")]
  <2>1. /\ Append(c.queue[p], "disconnect") \in Seq(Message(p) \cup {"disconnect"})
        /\ Append(c.queue[p], "disconnect") \in Seq(All)
    BY <1>1, QueueSteps
  <2>2. /\ q \in [Plug \cup {"host"} -> Seq(All)]
        /\ \A r \in Plug : q[r] \in Seq(Message(r) \cup {"disconnect"})
        /\ q["host"] \in Seq({"disconnect"})
    <3> HIDE DEF All
    <3> QED BY <2>1 DEF Good, ClientRecord, Queued, Plug, All
  <2>3. /\ d.state = c.state /\ d.sock = c.sock /\ d.conns = c.conns
        /\ d.open = c.open /\ d.inbox = c.inbox /\ d.queue = q
    BY DEF Good, ClientRecord
  <2>4. d \in ClientRecord
    <3>1. d.queue \in [Plug \cup {"host"} -> Seq(All)]
      BY <2>2, <2>3
    <3> QED BY <3>1 DEF Good, ClientRecord
  <2>5. Good(d)
    <3> HIDE DEF d, q
    <3> QED BY <2>2, <2>3, <2>4, QueueGood
  <2> QED BY <1>3, <2>5 DEF Received
<1> QED BY <1>2, <1>3

LEMMA DispatchGood ==
  ASSUME NEW c, Good(c), NEW p \in Plug
  PROVE  AllGood(Dispatch(c, p))
<1>1. CASE c.queue[p] = <<>>
  BY <1>1 DEF Dispatch, AllGood
<1>2. CASE c.queue[p] # <<>>
  <2> DEFINE All == Message("link") \cup Message("peer") \cup {"disconnect"}
             m == Head(c.queue[p])
             q == [c.queue EXCEPT ![p] = Tail(@)]
             d == [c EXCEPT !.queue[p] = Tail(@)]
  <2>1. /\ m \in Message(p) \cup {"disconnect"}
        /\ Tail(c.queue[p]) \in Seq(Message(p) \cup {"disconnect"})
        /\ Tail(c.queue[p]) \in Seq(All)
    BY <1>2, QueueSteps DEF Good, ClientRecord, Queued
  <2>2. /\ q \in [Plug \cup {"host"} -> Seq(All)]
        /\ \A r \in Plug : q[r] \in Seq(Message(r) \cup {"disconnect"})
        /\ q["host"] \in Seq({"disconnect"})
    <3> HIDE DEF All
    <3> QED BY <2>1 DEF Good, ClientRecord, Queued, Plug, All
  <2>3. /\ d.state = c.state /\ d.sock = c.sock /\ d.conns = c.conns
        /\ d.open = c.open /\ d.inbox = c.inbox /\ d.queue = q
    BY DEF Good, ClientRecord
  <2>4. d \in ClientRecord
    <3>1. d.queue \in [Plug \cup {"host"} -> Seq(All)]
      BY <2>2, <2>3
    <3> QED BY <3>1 DEF Good, ClientRecord
  <2>5. Good(d)
    <3> HIDE DEF d, q
    <3> QED BY <2>2, <2>3, <2>4, QueueGood
  <2> HIDE DEF m, q, d
  <2>6. m \in {"disconnect", "move", "login", "host", "join", "data"}
    BY <2>1 DEF Message
  <2>7. /\ AllGood(Disconnect(d, p)) /\ AllGood(AckP2PConnect(d, m))
        /\ Good(AckMoveToServer(d)) /\ Good(AckLogIn(d))
    BY <2>5, DisconnectGood, AckP2PConnectGood, AckMoveGood
  <2> QED BY <1>2, <2>5, <2>6, <2>7 DEF Dispatch, AllGood, m, d
<1> QED BY <1>1, <1>2

LEMMA CoreProcGood ==
  ASSUME NEW c, Good(c), NEW p \in Plug
  PROVE  AllGood(CoreProc(c, p))
BY ReceivedGood, DispatchGood DEF CoreProc, AllGood

-----------------------------------------------------------------------------
(* The specification.                                                      *)

ClientInv == Good(client) /\ turn \in Plug /\ calls \in 0..MaxCalls

LEMMA InitInv == Init => ClientInv
<1> SUFFICES ASSUME Init PROVE ClientInv
  OBVIOUS
<1>1. /\ client.state = [p \in Plug |-> "disconnect"]
      /\ client.sock = [p \in Plug |-> NoConn]
      /\ client.conns = 0 /\ client.open = {}
      /\ client.inbox = [p \in Plug |-> <<>>]
      /\ client.queue = [p \in Plug \cup {"host"} |-> <<>>]
  BY DEF Init
<1>2. /\ client.inbox \in [Plug -> Seq(Message("link") \cup Message("peer"))]
      /\ client.queue \in [Plug \cup {"host"} ->
                             Seq(Message("link") \cup Message("peer")
                                   \cup {"disconnect"})]
  BY <1>1, QueueSteps
<1>3. client \in ClientRecord
  BY <1>2, ClientConstants
     DEF Init, ClientRecord, SessionState, MoveState, Conn
<1>4. Queued(client)
  BY <1>1, QueueSteps DEF Queued, Plug
<1>5. Held(client) /\ Fresh(client)
  BY <1>1 DEF Held, Fresh, Plug
<1> QED BY <1>3, <1>4, <1>5, ClientConstants DEF ClientInv, Good, Init, Plug

\* Proc, the user's calls, and the other ends.
LEMMA NextInv == ClientInv /\ [Next]_vars => ClientInv'
<1> SUFFICES ASSUME ClientInv, [Next]_vars PROVE ClientInv'
  OBVIOUS
<1>1. Good(client)
  BY DEF ClientInv
<1>2. CASE LinkProc
  BY <1>1, <1>2, CoreProcGood DEF LinkProc, ClientInv, AllGood, Plug
<1>3. CASE PeerProc
  BY <1>1, <1>3, CoreProcGood DEF PeerProc, ClientInv, AllGood, Plug
<1>4. CASE HostProc
  <2> DEFINE q == [client.queue EXCEPT !["host"] = <<>>]
             d == [client EXCEPT !.queue["host"] = <<>>, !.host = "off"]
  <2>1. /\ d.state = client.state /\ d.sock = client.sock /\ d.conns = client.conns
        /\ d.open = client.open /\ d.inbox = client.inbox /\ d.queue = q
    BY <1>1 DEF Good, ClientRecord
  <2>2. /\ q \in [Plug \cup {"host"} ->
                    Seq(Message("link") \cup Message("peer") \cup {"disconnect"})]
        /\ \A r \in Plug : q[r] \in Seq(Message(r) \cup {"disconnect"})
        /\ q["host"] \in Seq({"disconnect"})
    BY <1>1, QueueSteps DEF Good, ClientRecord, Queued, Plug
  <2>3. d \in ClientRecord
    BY <1>1, <2>1, <2>2 DEF Good, ClientRecord
  <2>4. Good(d)
    <3> HIDE DEF d, q
    <3> QED BY <1>1, <2>1, <2>2, <2>3, QueueGood
  <2> QED BY <1>1, <1>4, <2>4 DEF HostProc, ClientInv, Plug
<1>5. CASE CallStartClient \/ CallStopClient \/ CallSend
  <2>1. AllGood(StartClient(client) \cup {Stop(client)} \cup Send(client))
    BY <1>1, StartGood, StopGood, SendGood DEF AllGood
  <2>2. Good(client')
    BY <1>5, <2>1 DEF CallStartClient, CallStopClient, CallSend, Call, AllGood
  <2> QED BY <1>5, <2>2, ClientConstants
          DEF CallStartClient, CallStopClient, CallSend, Call, ClientInv
<1>6. ASSUME NEW p \in Plug, ServerClose(p)
      PROVE  ClientInv'
  <2> DEFINE d == [client EXCEPT !.over = @ \cup {client.sock[p]}]
  <2>1. /\ d.state = client.state /\ d.sock = client.sock /\ d.conns = client.conns
        /\ d.open = client.open /\ d.inbox = client.inbox /\ d.queue = client.queue
    BY <1>1 DEF Good, ClientRecord
  <2>2. client.over \cup {client.sock[p]} \in SUBSET Conn
    BY <1>1, <1>6 DEF ServerClose, IsOpen, Good, ClientRecord
  <2>3. d \in ClientRecord
    BY <1>1, <2>2 DEF Good, ClientRecord
  <2>4. Good(d)
    <3> HIDE DEF d
    <3> QED BY <1>1, <2>1, <2>3, OtherFieldsGood
  <2> QED BY <1>6, <2>4 DEF ServerClose, ClientInv
<1>7. ASSUME NEW p \in Plug, NEW m \in Message(p), ServerSend(p, m)
      PROVE  ClientInv'
  <2> DEFINE i == [client.inbox EXCEPT ![p] = Append(@, m)]
             d == [client EXCEPT !.inbox[p] = Append(@, m)]
  <2>1. /\ d.state = client.state /\ d.sock = client.sock /\ d.conns = client.conns
        /\ d.open = client.open /\ d.inbox = i /\ d.queue = client.queue
    BY <1>1 DEF Good, ClientRecord
  <2>2. /\ Append(client.inbox[p], m) \in Seq(Message(p))
        /\ Append(client.inbox[p], m) \in Seq(Message("link") \cup Message("peer"))
    <3>1. m \in Message("link") \cup Message("peer")
      BY DEF Plug
    <3> QED BY <1>1, <3>1, QueueSteps DEF Good, ClientRecord, Queued
  <2>3. /\ i \in [Plug -> Seq(Message("link") \cup Message("peer"))]
        /\ \A r \in Plug : i[r] \in Seq(Message(r))
    BY <1>1, <2>2 DEF Good, ClientRecord, Queued
  <2>4. d \in ClientRecord
    <3>1. d.inbox \in [Plug -> Seq(Message("link") \cup Message("peer"))]
      BY <2>1, <2>3
    <3> QED BY <1>1, <3>1 DEF Good, ClientRecord
  <2>5. Good(d)
    <3> HIDE DEF d, i
    <3> QED BY <1>1, <2>1, <2>3, <2>4 DEF Good, Queued, Held, Fresh
  <2> QED BY <1>7, <2>5 DEF ServerSend, ClientInv
<1>8. CASE UNCHANGED vars
  BY <1>8 DEF vars, ClientInv
<1> QED BY <1>2, <1>3, <1>4, <1>5, <1>6, <1>7, <1>8 DEF Next, Proc

LEMMA InvAlways == Spec => []ClientInv
BY InitInv, NextInv, PTL DEF Spec

\* Every part of a client process keeps its type, for any number of connections,
\* calls and packets and any order of the handlers that run inside each other.
THEOREM TypeCorrect == Spec => []TypeOK
<1>1. ClientInv => TypeOK
  BY DEF ClientInv, Good, ClientRecord, Queued, TypeOK, Plug
<1> QED BY <1>1, InvAlways, PTL

\* No start, stop, failed connect or send leaves a connection open that no plug
\* has, or a plug with a connection that is closed or another plug's
\* (CController::StartClient, CCoreClient::Disconnect, CP2PClient::Bind).
THEOREM ConnectionsAreHeld == Spec => []ConnectionsHeld
<1>1. ClientInv => ConnectionsHeld
  BY DEF ClientInv, Good, Held, ConnectionsHeld
<1> QED BY <1>1, InvAlways, PTL
=============================================================================
