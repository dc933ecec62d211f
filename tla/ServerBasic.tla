---------------------------- MODULE ServerBasic ----------------------------
(***************************************************************************)
(* The session table of one network server, CServerBasic, and what it      *)
(* shares with the threads that drive it: the operating system's sockets,  *)
(* the packet queue and the events it raises.                              *)
(*                                                                         *)
(* This module holds the state and one operator per operation of the       *)
(* class.  Which thread performs an operation, and what it may interleave  *)
(* with, is said by the modules that extend this one: ServiceServer (the   *)
(* accept, work and logic threads of a server process) and UserLoopServer  *)
(* (a P2P host, everything called in turn from CServerBasic::Proc).        *)
(* m_Users is what CServerBasic makes of it: a server whose own handlers   *)
(* add and remove players too (lobby, game server) is neither of the two.  *)
(*                                                                         *)
(* A connection stands for the netid its session is given: the constructor *)
(* of CSession draws a fresh id for every session (SessionTable says for   *)
(* how long), so the session of connection c is simply called c here.      *)
(***************************************************************************)
EXTENDS Integers, Sequences, FiniteSets

CONSTANTS
  Conn,        \* client connections; each connects once
  Socket,      \* socket handles the operating system hands out, and reuses
  NoConn,      \* no connection
  NoSock,      \* the socket value 0 of a session whose socket was closed
  LoginCheck,  \* m_IsLoginCheck, set by the login server: sessions start in
               \* LOGIN_WAIT
  FdSetSize,   \* FD_SETSIZE, 64 in winsock
  MaxData,     \* bound: packets of one client received and not yet popped
  MaxTick      \* bound: broadcasts made by timers or by the user

ASSUME ServerConstants ==
  /\ NoConn \notin Conn
  /\ NoSock \notin Socket
  /\ LoginCheck \in BOOLEAN
  /\ FdSetSize \in Nat \ {0}
  /\ MaxData \in Nat
  /\ MaxTick \in Nat

VARIABLES
  peer,      \* the client's end of each connection
  inbox,     \* packets received by the system and not yet read by recv()
  handle,    \* the connection a socket handle designates
  sessions,  \* the keys of m_Sessions
  rmKeys,    \* m_Sessions.m_RmKeys, the removals not applied yet
  sock,      \* CSession::m_Socket
  state,     \* CSession::m_State
  objects,   \* the CSession objects allocated and not deleted
  players,   \* the keys of m_Users
  members,   \* the players of m_RootGroup
  joined,    \* history: netids OnClientJoin was raised for
  left,      \* history: netids OnClientLeave was raised for
  refused,   \* history: connections AddSession turned away
  told,      \* history: the sessions the last SendAll has sent to
  toSend,    \* the sessions SendAll has still to visit
  ticks,     \* history: broadcasts begun
  packets    \* CPacketQueue::m_Packets

osVars      == <<peer, inbox, handle>>
tableVars   == <<sessions, rmKeys, sock, state, objects, players, members>>
eventVars   == <<joined, left, refused>>
sendVars    == <<told, toSend, ticks>>
serverVars  == <<osVars, tableVars, eventVars, sendVars, packets>>

PeerState == {"idle", "backlog", "open", "gone"}
SessionState == {"DISCONNECT", "LOGIN_WAIT", "LOGIN", "LOGOUT_WAIT"}

(***************************************************************************)
(* Packets.  "id" is the netid a packet is about or is attributed to,      *)
(* "from" the connection its bytes really came from.  "invalid" is a       *)
(* CLIENT_DISCONNECT whose unique value fails the verification.            *)
(***************************************************************************)
PacketKind == {"accept", "clientDisconnect", "invalid", "data"}

Packet == [kind : PacketKind, id : Conn, sock : Socket \cup {NoSock},
           from : Conn \cup {NoConn}]

NoPacket == <<>>

AcceptPacket(c, s) ==
  [kind |-> "accept", id |-> c, sock |-> s, from |-> NoConn]
ClientDisconnectPacket(n) ==
  [kind |-> "clientDisconnect", id |-> n, sock |-> NoSock, from |-> NoConn]
InvalidDisconnectPacket(n) ==
  [kind |-> "invalid", id |-> n, sock |-> NoSock, from |-> NoConn]
DataPacket(n, c) ==
  [kind |-> "data", id |-> n, sock |-> NoSock, from |-> c]

ServerInit ==
  /\ peer = [c \in Conn |-> "idle"]
  /\ inbox = [c \in Conn |-> 0]
  /\ handle = [s \in Socket |-> NoConn]
  /\ sessions = {} /\ rmKeys = {} /\ objects = {}
  /\ players = {} /\ members = {}
  /\ sock = [c \in Conn |-> NoSock]
  /\ state = [c \in Conn |-> "DISCONNECT"]
  /\ joined = {} /\ left = {} /\ refused = {}
  /\ told = {} /\ toSend = {} /\ ticks = 0
  /\ packets = <<>>

-----------------------------------------------------------------------------
(* The clients and the operating system.                                   *)

\* A client asks for a connection; it waits in the listen backlog.
Connect(c) ==
  /\ peer[c] = "idle"
  /\ peer' = [peer EXCEPT ![c] = "backlog"]
  /\ UNCHANGED <<inbox, handle, tableVars, eventVars, sendVars, packets>>

\* What client c sent and no thread has taken off the queue yet.
InFlight(c) ==
  inbox[c] + Cardinality({i \in 1..Len(packets) : packets[i].from = c})

\* A connected client sends one packet.
ClientSend(c) ==
  /\ peer[c] = "open"
  /\ InFlight(c) < MaxData
  /\ inbox' = [inbox EXCEPT ![c] = @ + 1]
  /\ UNCHANGED <<peer, handle, tableVars, eventVars, sendVars, packets>>

\* The client goes away; an abrupt close discards what was not read yet.
ClientClose(c) ==
  /\ peer[c] = "open"
  /\ peer' = [peer EXCEPT ![c] = "gone"]
  /\ inbox' \in {inbox, [inbox EXCEPT ![c] = 0]}
  /\ UNCHANGED <<handle, tableVars, eventVars, sendVars, packets>>

ClientStep(c) == Connect(c) \/ ClientSend(c) \/ ClientClose(c)

\* accept(): the connection c leaves the backlog and gets a free handle s.
AcceptOn(c, s) ==
  /\ peer[c] = "backlog" /\ handle[s] = NoConn
  /\ peer' = [peer EXCEPT ![c] = "open"]
  /\ handle' = [handle EXCEPT ![s] = c]
  /\ UNCHANGED inbox

\* closesocket() of every handle in S; they may be handed out again.
CloseHandles(S) ==
  handle' = [s \in Socket |-> IF s \in S THEN NoConn ELSE handle[s]]

\* select() reports handle s readable: data to read, or the end of stream.
Readable(s) ==
  /\ handle[s] # NoConn
  /\ inbox[handle[s]] > 0 \/ peer[handle[s]] = "gone"

\* A descriptor that is no socket makes select() fail, and send() on it too.
Valid(s) == s \in Socket /\ handle[s] # NoConn

\* send() on socket s may fail once the other end is gone, and must fail
\* when s is no socket.
SendMayFail(s) == Valid(s) => peer[handle[s]] = "gone"
\* Mutant: the end of a stream is not told from data.
ReceiveAnything(e) ==
  /\ Valid(e.sock)
  /\ LET c == handle[e.sock] IN
     /\ inbox' = [inbox EXCEPT ![c] = @ - 1]
     /\ packets' = Append(packets, DataPacket(e.id, c))
  /\ UNCHANGED <<peer, handle>>

\* recv() on entry e returns data, queued under the netid of the entry.  The
\* buffer is the caller's own, so reading and queueing are one step.
ReceiveData(e) ==
  /\ Valid(e.sock)
  /\ LET c == handle[e.sock] IN
     /\ inbox[c] > 0
     /\ inbox' = [inbox EXCEPT ![c] = @ - 1]
     /\ packets' = Append(packets, DataPacket(e.id, c))
  /\ UNCHANGED <<peer, handle>>

\* recv() on entry e returns an error or the end of the stream.  (It blocks
\* on an open connection with nothing to read.)
EndOfStream(e) ==
  Valid(e.sock) => inbox[handle[e.sock]] = 0 /\ peer[handle[e.sock]] = "gone"

-----------------------------------------------------------------------------
(* The operations of CServerBasic.                                         *)

\* FindSessionBySocket: some session, its removal pending or not, has s.
SocketInUse(s) == \E n \in sessions : sock[n] = s

\* Mutant: VectorMap::insert, which leaves the pending removals pending.
InsertKept(c, s) ==
  /\ sessions' = sessions \cup {c}
  /\ sock' = [sock EXCEPT ![c] = s]
  /\ state' = [state EXCEPT ![c] = IF LoginCheck THEN "LOGIN_WAIT" ELSE "LOGIN"]
  /\ objects' = objects \cup {c}
  /\ players' = players \cup {c}
  /\ members' = members \cup {c}
  /\ joined' = joined \cup {c}
  /\ UNCHANGED <<rmKeys, left, refused>>

(***************************************************************************)
(* AddSession of the connection c accepted on socket s.  insert() applies  *)
(* the pending removals first, without the leave event.  A connection      *)
(* whose socket looks taken is dropped and its socket left open.  The two  *)
(* other refusals, of a netid that is taken, need a pool that ran dry:     *)
(* they are in SessionTable.                                               *)
(***************************************************************************)
Refuse(c) ==
  /\ refused' = refused \cup {c}
  /\ UNCHANGED <<tableVars, joined, left>>

Insert(c, s) ==
  /\ sessions' = (sessions \ rmKeys) \cup {c}
  /\ rmKeys' = {}
  /\ sock' = [sock EXCEPT ![c] = s]
  /\ state' = [state EXCEPT ![c] = IF LoginCheck THEN "LOGIN_WAIT" ELSE "LOGIN"]
  /\ objects' = objects \cup {c}
  /\ players' = players \cup {c}
  /\ members' = members \cup {c}
  /\ joined' = joined \cup {c}
  /\ UNCHANGED <<left, refused>>

AddSession(c, s) ==
  \/ SocketInUse(s) /\ Refuse(c)
  \/ ~SocketInUse(s) /\ Insert(c, s)

\* Mutant: the session is taken out of the table at once.
RemoveSessionNow(n) ==
  /\ sessions' = sessions \ {n}
  /\ players' = players \ {n}
  /\ UNCHANGED <<rmKeys, sock, state, objects, members, eventVars>>

\* RemoveSession: the session is only marked, its player goes at once.
RemoveSession(n) ==
  /\ \/ /\ n \in sessions
        /\ state' = [state EXCEPT ![n] = "LOGOUT_WAIT"]
        /\ rmKeys' = rmKeys \cup {n}
     \/ n \notin sessions /\ UNCHANGED <<state, rmKeys>>
  /\ players' = players \ {n}
  /\ UNCHANGED <<sessions, sock, objects, members, eventVars>>

\* Mutant: the events are raised but the table keeps the sessions.
RemoveClientProcessKept ==
  /\ left' = left \cup (rmKeys \cap sessions)
  /\ rmKeys' = {}
  /\ UNCHANGED <<osVars, sessions, sock, state, objects, players, members,
                 joined, refused>>

(***************************************************************************)
(* RemoveClientProcess: every marked session leaves, with its event, its   *)
(* place in the group and its object, whose destructor closes the socket.  *)
(***************************************************************************)
RemoveClientProcess ==
  LET gone == rmKeys \cap sessions IN
  /\ left' = left \cup gone
  /\ members' = members \ gone
  /\ objects' = objects \ gone
  /\ CloseHandles({sock[n] : n \in gone})
  /\ sessions' = sessions \ rmKeys
  /\ rmKeys' = {}
  /\ UNCHANGED <<peer, inbox, sock, state, players, joined, refused>>

(***************************************************************************)
(* MakeFDSET: the descriptors to select on, with the netid of each.  Only  *)
(* FdSetSize sockets fit; every session past them still overwrites the     *)
(* netid of the last entry, netid_array[fd_count - 1], so that entry ends  *)
(* up with the netid of the table's last session.  The order of the table  *)
(* is not modelled: any session may be the last.                           *)
(***************************************************************************)
Entry == [sock : Socket \cup {NoSock}, id : Conn]

EntryOf(n) == [sock |-> sock[n], id |-> n]

MakeFDSET ==
  IF Cardinality(sessions) <= FdSetSize
  THEN {{EntryOf(n) : n \in sessions}}
  ELSE UNION {{{EntryOf(n) : n \in F \ {end}}
                 \cup {[sock |-> sock[end], id |-> over]} :
                   end \in F, over \in sessions \ F} :
                F \in {G \in SUBSET sessions : Cardinality(G) = FdSetSize}}

\* What select() leaves of the set F: nothing when it fails, which one
\* descriptor that is no socket is enough for.
SelectReadable(F) ==
  IF \A e \in F : Valid(e.sock) THEN {e \in F : Readable(e.sock)} ELSE {}

\* CSession::IsConnect
IsConnect(n) == state[n] \in {"LOGIN_WAIT", "LOGIN", "LOGOUT_WAIT"}

\* SendAll begins to walk m_Sessions.m_Seq.
SendAllBegin ==
  /\ toSend' = sessions
  /\ told' = {}
  /\ ticks' = ticks + 1

\* Mutant: the walk stops at the first session that cannot be sent to.
SendAllBreak(n) ==
  /\ n \in toSend
  /\ IF SendMayFail(sock[n])
     THEN /\ toSend' = {}
          /\ packets' = Append(packets, InvalidDisconnectPacket(n))
          /\ UNCHANGED told
     ELSE /\ toSend' = toSend \ {n}
          /\ told' = told \cup {n}
          /\ UNCHANGED packets
  /\ UNCHANGED ticks

(***************************************************************************)
(* SendAll visits session n.  A send() that fails reports it by a          *)
(* CLIENT_DISCONNECT to the server itself, built with the unique value and *)
(* the netid swapped: the packet will not pass its verification.           *)
(***************************************************************************)
SendAllNext(n) ==
  /\ n \in toSend
  /\ toSend' = toSend \ {n}
  /\ \/ ~IsConnect(n) /\ UNCHANGED <<told, packets>>
     \/ /\ IsConnect(n) /\ Valid(sock[n])
        /\ told' = told \cup {n}
        /\ UNCHANGED packets
     \/ /\ IsConnect(n) /\ SendMayFail(sock[n])
        /\ packets' = Append(packets, InvalidDisconnectPacket(n))
        /\ UNCHANGED told
  /\ UNCHANGED ticks

=============================================================================
