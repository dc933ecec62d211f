--------------------------- MODULE UserLoopServer ---------------------------
(***************************************************************************)
(* A P2P host in a client process (network::Init(0)): no accept thread and *)
(* no logic thread run, and the user's loop calls CServerBasic::Proc       *)
(* through CP2PClient::Proc.  Proc accepts, reads and dispatches one       *)
(* packet; nothing ever calls CServerBasic::MainLoop.                      *)
(***************************************************************************)
EXTENDS ServerBasic

VARIABLES
  pc,     \* where the user's loop is
  ready   \* Proc: the sockets select() left readable

hostVars == <<serverVars, pc, ready>>

LoopState == {"user", "accept", "select", "recv", "dispatch", "joined"}

HostTypeOK ==
  /\ peer \in [Conn -> PeerState]
  /\ inbox \in [Conn -> Nat]
  /\ handle \in [Socket -> Conn \cup {NoConn}]
  /\ sessions \subseteq Conn /\ rmKeys \subseteq Conn /\ objects \subseteq Conn
  /\ players \subseteq Conn /\ members \subseteq Conn
  /\ sock \in [Conn -> Socket \cup {NoSock}]
  /\ state \in [Conn -> SessionState]
  /\ joined \subseteq Conn /\ left \subseteq Conn /\ refused \subseteq Conn
  /\ told \subseteq Conn /\ toSend \subseteq Conn /\ ticks \in Nat
  /\ packets \in Seq(Packet)
  /\ pc \in LoopState
  /\ ready \subseteq Entry

HostInit == ServerInit /\ pc = "user" /\ ready = {}

-----------------------------------------------------------------------------
(* Between two calls of Proc the user may send to every member             *)
(* (CP2PClient::SendAll); the other broadcast is the one OnClientJoin      *)
(* makes.  Both walk the sessions one by one.                              *)

Broadcast ==
  /\ pc = "user" /\ toSend = {}
  /\ ticks < MaxTick
  /\ SendAllBegin
  /\ UNCHANGED <<osVars, tableVars, eventVars, packets, pc, ready>>

Send(n) ==
  /\ pc \in {"user", "joined"}
  /\ SendAllNext(n)
  /\ UNCHANGED <<osVars, tableVars, eventVars, pc, ready>>

\* SendAll is over, and so is Proc when a join started it.
SendEnd ==
  /\ pc \in {"user", "joined"} /\ toSend = {}
  /\ pc' = IF pc = "user" THEN "accept" ELSE "user"
  /\ UNCHANGED <<serverVars, ready>>

-----------------------------------------------------------------------------
(* CServerBasic::Proc.                                                     *)

\* Mutant: accept() without a packet.
AcceptForgotten(c, s) ==
  /\ pc = "accept"
  /\ AcceptOn(c, s)
  /\ pc' = "select"
  /\ UNCHANGED <<tableVars, eventVars, sendVars, packets, ready>>

\* AcceptProcess queues the ACCEPT packet of a connection, if one waits.
AcceptOne(c, s) ==
  /\ pc = "accept"
  /\ AcceptOn(c, s)
  /\ packets' = Append(packets, AcceptPacket(c, s))
  /\ pc' = "select"
  /\ UNCHANGED <<tableVars, eventVars, sendVars, ready>>

AcceptNone ==
  /\ pc = "accept"
  /\ \/ \A c \in Conn : peer[c] # "backlog"
     \/ \A s \in Socket : handle[s] # NoConn
  /\ pc' = "select"
  /\ UNCHANGED <<serverVars, ready>>

\* MakeFDSET and select(): no other thread of the process comes between.
Select ==
  /\ pc = "select"
  /\ \E F \in MakeFDSET : ready' = SelectReadable(F)
  /\ pc' = IF ready' = {} THEN "dispatch" ELSE "recv"
  /\ UNCHANGED serverVars

NextEntry(e) ==
  /\ ready' = ready \ {e}
  /\ pc' = IF ready' = {} THEN "dispatch" ELSE "recv"

ReceiveOne(e) ==
  /\ pc = "recv" /\ e \in ready
  /\ ReceiveData(e)
  /\ NextEntry(e)
  /\ UNCHANGED <<tableVars, eventVars, sendVars>>

\* RemoveSessionSocket, then the CLIENT_DISCONNECT packet.
CloseOne(e) ==
  /\ pc = "recv" /\ e \in ready
  /\ EndOfStream(e)
  /\ \/ /\ e.id \in sessions
        /\ CloseHandles({sock[e.id]})
        /\ sock' = [sock EXCEPT ![e.id] = NoSock]
     \/ e.id \notin sessions /\ UNCHANGED <<handle, sock>>
  /\ packets' = Append(packets, ClientDisconnectPacket(e.id))
  /\ NextEntry(e)
  /\ UNCHANGED <<peer, inbox, sessions, rmKeys, state, objects, players,
                 members, eventVars, sendVars>>

DispatchNothing ==
  /\ pc = "dispatch" /\ packets = <<>>
  /\ pc' = "user"
  /\ UNCHANGED <<serverVars, ready>>

\* DispatchPacket takes one packet off the queue and handles it.
Dispatch(kind) ==
  /\ pc = "dispatch"
  /\ packets # <<>> /\ Head(packets).kind = kind
  /\ packets' = Tail(packets)
  /\ UNCHANGED <<osVars, ready>>

\* Mutant: the sessions to tell are taken before the new one is in.
HostAcceptEarly ==
  /\ Dispatch("accept")
  /\ Insert(Head(packets).id, Head(packets).sock)
  /\ toSend' = sessions /\ told' = {} /\ UNCHANGED ticks
  /\ pc' = "joined"

\* A session that joins is announced to all of them, P2PMemberJoin.
HostDispatchAccept ==
  /\ Dispatch("accept")
  /\ LET c == Head(packets).id
         s == Head(packets).sock IN
     \/ /\ SocketInUse(s) /\ Refuse(c)
        /\ pc' = "user" /\ UNCHANGED sendVars
     \/ /\ ~SocketInUse(s) /\ Insert(c, s)
        /\ toSend' = sessions' /\ told' = {} /\ UNCHANGED ticks
        /\ pc' = "joined"

HostDispatchDisconnect ==
  /\ Dispatch("clientDisconnect")
  /\ RemoveSession(Head(packets).id)
  /\ pc' = "user" /\ UNCHANGED sendVars

HostDispatchInvalid ==
  /\ Dispatch("invalid")
  /\ pc' = "user" /\ UNCHANGED <<tableVars, eventVars, sendVars>>

\* A P2P host knows no login; the listeners are the user's.
HostDispatchData ==
  /\ Dispatch("data")
  /\ pc' = "user" /\ UNCHANGED <<tableVars, eventVars, sendVars>>

Loop ==
  \/ Broadcast \/ SendEnd
  \/ \E n \in toSend : Send(n)
  \/ AcceptNone \/ \E c \in Conn, s \in Socket : AcceptOne(c, s)
  \/ Select \/ \E e \in ready : ReceiveOne(e) \/ CloseOne(e)
  \/ DispatchNothing \/ HostDispatchAccept \/ HostDispatchDisconnect
  \/ HostDispatchInvalid \/ HostDispatchData

-----------------------------------------------------------------------------
HostClients == (\E c \in Conn : ClientStep(c)) /\ UNCHANGED <<pc, ready>>

HostNext == HostClients \/ Loop

HostSpec == HostInit /\ [][HostNext]_hostVars

\* The user's loop goes on for ever.
HostFairSpec == HostSpec /\ WF_hostVars(Loop)

-----------------------------------------------------------------------------
\* The insert of a new session clears what kept select() failing: of the
\* closed sockets only those whose disconnect is still queued remain.
JoinClearsClosed ==
  [][joined' # joined =>
      \A n \in sessions' : sock'[n] = NoSock =>
        \E i \in 1..Len(packets') :
          packets'[i] = ClientDisconnectPacket(n)]_hostVars

\* When the announcement of a join is over, every session, the new one too,
\* was sent it unless its client is gone.
JoinToldToAll ==
  pc = "joined" /\ toSend = {} =>
    \A n \in sessions : n \in told \/ peer[n] = "gone"

\* Closing the socket of a client that went away stops the host receiving
\* from that socket; the other clients are still read.
HostInboxDrains ==
  \A c \in Conn : (c \in joined /\ inbox[c] = MaxData) ~> (inbox[c] < MaxData)

\* A connection that waits in the backlog is eventually announced, even when
\* the host has gone deaf to its other clients.
BacklogJoins == \A c \in Conn : (peer[c] = "backlog") ~> (c \in joined)
=============================================================================
