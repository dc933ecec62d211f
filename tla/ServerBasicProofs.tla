------------------------- MODULE ServerBasicProofs -------------------------
(***************************************************************************)
(* Proofs about the two programs made of ServerBasic, for any number of    *)
(* clients, sockets, packets and broadcasts: a server with its threads,    *)
(* ServiceServer, and a P2P host driven from the user's loop,              *)
(* UserLoopServer.                                                         *)
(***************************************************************************)
EXTENDS ServiceServer, UserLoopServer, SequenceTheorems, TLAPS

USE DEF NoPacket

-----------------------------------------------------------------------------
(* The packet queue.                                                       *)

\* What Append does to a sequence: one more element, the others in place.
LEMMA AppendElements ==
  ASSUME NEW S, NEW q \in Seq(S), NEW x \in S
  PROVE  /\ Append(q, x) \in Seq(S)
         /\ Len(Append(q, x)) = Len(q) + 1
         /\ \A i \in 1..Len(q) : Append(q, x)[i] = q[i]
         /\ Append(q, x)[Len(q) + 1] = x
  OBVIOUS

\* The packets the threads build are packets.
LEMMA PacketTypes ==
  ASSUME NEW n \in Conn, NEW c \in Conn, NEW s \in Socket \cup {NoSock}
  PROVE  /\ AcceptPacket(n, s) \in Packet
         /\ ClientDisconnectPacket(n) \in Packet
         /\ InvalidDisconnectPacket(n) \in Packet
         /\ DataPacket(n, c) \in Packet
  BY DEF AcceptPacket, ClientDisconnectPacket, InvalidDisconnectPacket,
         DataPacket, Packet, PacketKind

-----------------------------------------------------------------------------
(* Type correctness.                                                       *)

LEMMA InitType == Init => TypeOK
  <1> SUFFICES ASSUME Init PROVE TypeOK
    OBVIOUS
  <1>1. packets \in Seq(Packet)
    BY EmptySeq DEF Init, ServerInit
  <1> QED
    BY <1>1, ServerConstants, MaxMissIsNat
    DEF Init, ServerInit, TypeOK, PeerState, SessionState, WorkState,
        LogicState, Packet, Entry

\* The sets MakeFDSET can build hold entries, when the table is well typed.
LEMMA FdSetType ==
  ASSUME TypeOK, NEW F \in MakeFDSET
  PROVE  F \subseteq Entry
  BY DEF TypeOK, MakeFDSET, EntryOf, Entry

LEMMA ClientType ==
  ASSUME TypeOK, ClientAction
  PROVE  TypeOK'
  <1> PICK c \in Conn : ClientStep(c)
    BY DEF ClientAction
  <1> USE DEF TypeOK, ClientAction, tableVars, eventVars, sendVars, workVars,
              logicVars
  <1>1. CASE Connect(c)
    BY <1>1 DEF Connect, PeerState
  <1>2. CASE ClientSend(c)
    BY <1>2 DEF ClientSend
  <1>3. CASE ClientClose(c)
    <2>1. [inbox EXCEPT ![c] = 0] \in [Conn -> Nat]
      OBVIOUS
    <2>2. inbox' \in [Conn -> Nat]
      BY <1>3, <2>1 DEF ClientClose
    <2>3. peer' \in [Conn -> PeerState]
      BY <1>3 DEF ClientClose, PeerState
    <2> QED
      BY <1>3, <2>2, <2>3 DEF ClientClose
  <1> QED
    BY <1>1, <1>2, <1>3 DEF ClientStep

LEMMA AcceptType ==
  ASSUME TypeOK, AcceptThread
  PROVE  TypeOK'
  <1> USE DEF TypeOK, osVars, tableVars, eventVars, sendVars, workVars,
              logicVars
  <1>1. CASE PushAccept
    BY <1>1, AppendElements DEF PushAccept
  <1>2. ASSUME NEW c \in Conn, NEW s \in Socket, Accept(c, s)
        PROVE  TypeOK'
    BY <1>2, PacketTypes DEF Accept, AcceptOn, PeerState
  <1> QED
    BY <1>1, <1>2 DEF AcceptThread

LEMMA WorkType ==
  ASSUME TypeOK, WorkThread
  PROVE  TypeOK'
  <1> USE DEF TypeOK, serverVars, osVars, tableVars, eventVars, sendVars,
              logicVars, WorkState
  <1>1. CASE WorkMakeSet
    BY <1>1, FdSetType DEF WorkMakeSet
  <1>2. CASE WorkSelect
    BY <1>2 DEF WorkSelect, SelectReadable
  <1>3. ASSUME NEW e \in fds, WorkRecvData(e)
        PROVE  TypeOK'
    <2>1. /\ e.sock \in Socket /\ e.id \in Conn
          /\ handle[e.sock] \in Conn
      BY <1>3 DEF WorkRecvData, ReceiveData, Valid, Entry
    <2>2. packets' \in Seq(Packet)
      BY <1>3, <2>1, PacketTypes, AppendElements
      DEF WorkRecvData, ReceiveData
    <2>3. inbox' \in [Conn -> Nat]
      BY <1>3, <2>1 DEF WorkRecvData, ReceiveData
    <2> QED
      BY <1>3, <2>2, <2>3 DEF WorkRecvData, ReceiveData
  <1>4. ASSUME NEW e \in fds, WorkRecvEnd(e)
        PROVE  TypeOK'
    <2>1. e.id \in Conn
      BY DEF Entry
    <2> QED
      BY <1>4, <2>1 DEF WorkRecvEnd
  <1>5. CASE WorkCloseSocket
    BY <1>5 DEF WorkCloseSocket, CloseHandles
  <1>6. CASE WorkCloseMiss
    BY <1>6, MaxMissIsNat DEF WorkCloseMiss
  <1>7. CASE WorkZeroSocket
    BY <1>7 DEF WorkZeroSocket
  <1>8. CASE WorkPushDisconnect
    <2>1. packets' \in Seq(Packet)
      BY <1>8, PacketTypes, AppendElements DEF WorkPushDisconnect
    <2> QED
      BY <1>8, <2>1 DEF WorkPushDisconnect
  <1> QED
    BY <1>1, <1>2, <1>3, <1>4, <1>5, <1>6, <1>7, <1>8 DEF WorkThread

LEMMA LogicType ==
  ASSUME TypeOK, LogicThread
  PROVE  TypeOK'
  <1> USE DEF TypeOK, serverVars, osVars, tableVars, eventVars, sendVars,
              workVars, logicVars, LogicState
  <1>1. CASE LogicMainLoop
    BY <1>1 DEF LogicMainLoop, RemoveClientProcess, CloseHandles
  <1>2. CASE LogicTimer
    BY <1>2, ServerConstants DEF LogicTimer, SendAllBegin
  <1>3. CASE LogicNoTimer
    BY <1>3 DEF LogicNoTimer
  <1>4. CASE LogicSendEnd
    BY <1>4 DEF LogicSendEnd
  <1>5. CASE LogicPop
    <2>1. CASE packets = <<>>
      BY <1>5, <2>1 DEF LogicPop
    <2>2. CASE packets # <<>>
      <3>1. Head(packets) \in Packet /\ Tail(packets) \in Seq(Packet)
        BY <2>2, HeadTailProperties
      <3> QED
        BY <1>5, <2>2, <3>1 DEF LogicPop
    <2> QED
      BY <2>1, <2>2
  <1>6. ASSUME NEW n \in toSend, LogicSend(n)
        PROVE  TypeOK'
    <2>1. InvalidDisconnectPacket(n) \in Packet
      BY DEF InvalidDisconnectPacket, Packet, PacketKind
    <2>2. Append(packets, InvalidDisconnectPacket(n)) \in Seq(Packet)
      BY <2>1, AppendElements
    <2>3. packets' \in Seq(Packet)
      BY <1>6, <2>2 DEF LogicSend, SendAllNext
    <2> QED
      BY <1>6, <2>3 DEF LogicSend, SendAllNext
  <1>7. CASE DispatchAccept
    <2>1. lpkt.id \in Conn /\ lpkt.sock \in Socket \cup {NoSock}
      BY <1>7 DEF DispatchAccept, Dispatched, Packet
    <2> QED
      BY <1>7, <2>1
      DEF DispatchAccept, Dispatched, AddSession, Refuse, Insert, SessionState
  <1>8. CASE DispatchDisconnect
    <2>1. lpkt.id \in Conn
      BY <1>8 DEF DispatchDisconnect, Dispatched, Packet
    <2> QED
      BY <1>8, <2>1
      DEF DispatchDisconnect, Dispatched, RemoveSession, SessionState
  <1>9. CASE DispatchInvalid
    BY <1>9 DEF DispatchInvalid, Dispatched
  <1>10. CASE DispatchData
    <2>1. lpkt.id \in Conn
      BY <1>10 DEF DispatchData, Dispatched, Packet
    <2> QED
      BY <1>10, <2>1 DEF DispatchData, Dispatched, ReqLogIn
  <1>11. ASSUME NEW n \in asked, DispatchAckUserLogin(n)
         PROVE  TypeOK'
    BY <1>11 DEF DispatchAckUserLogin, SessionState
  <1> QED
    BY <1>1, <1>2, <1>3, <1>4, <1>5, <1>6, <1>7, <1>8, <1>9, <1>10, <1>11
    DEF LogicThread

LEMMA StepType == TypeOK /\ [Next]_vars => TypeOK'
  <1>1. CASE UNCHANGED vars
    BY <1>1 DEF vars, serverVars, osVars, tableVars, eventVars, sendVars,
                workVars, logicVars, TypeOK
  <1> QED
    BY <1>1, ClientType, AcceptType, WorkType, LogicType DEF Next

\* Every variable of the accept, work and logic threads keeps its type: no
\* counter of unread packets goes below zero, no thread handles a packet or a
\* netid it does not have (CTaskAccept, CTaskWorkServer, CTaskLogic).
THEOREM TypeCorrect == Spec => []TypeOK
  BY InitType, StepType, PTL DEF Spec

-----------------------------------------------------------------------------
(* The session table and its events.                                       *)

Arrived(c) == peer[c] \in {"open", "gone"}

\* A removal is only pending between its dispatch and the next main loop.
RemovalsPending ==
  /\ rmKeys \subseteq sessions
  /\ rmKeys # {} => lpc = "mainLoop"

\* The ACCEPT packet of a connection exists once: with the accept thread, in
\* the queue or with the logic thread, and not any more once it has joined.
AcceptHeld ==
  accepted # NoPacket =>
    /\ accepted.kind = "accept"
    /\ accepted.id \notin joined /\ Arrived(accepted.id)

AcceptQueued ==
  \A i \in 1..Len(packets) : packets[i].kind = "accept" =>
    /\ packets[i].id \notin joined /\ Arrived(packets[i].id)
    /\ accepted # NoPacket => accepted.id # packets[i].id
    /\ \A j \in 1..Len(packets) :
         packets[j].kind = "accept" /\ packets[j].id = packets[i].id => i = j

AcceptPopped ==
  lpc = "dispatch" /\ lpkt.kind = "accept" =>
    /\ lpkt.id \notin joined /\ Arrived(lpkt.id)
    /\ accepted # NoPacket => accepted.id # lpkt.id
    /\ \A i \in 1..Len(packets) :
         packets[i].kind = "accept" => packets[i].id # lpkt.id

JoinedArrived == \A c \in joined : Arrived(c)

AcceptOnce == AcceptHeld /\ AcceptQueued /\ AcceptPopped /\ JoinedArrived

TableInv ==
  /\ TypeOK
  /\ EventsBalanced
  /\ MembershipAgrees
  /\ RemovalsPending
  /\ AcceptOnce

LEMMA InitTable == Init => TableInv
  <1> SUFFICES ASSUME Init PROVE TableInv
    OBVIOUS
  <1>1. TypeOK
    BY InitType
  <1>2. EventsBalanced /\ MembershipAgrees /\ RemovalsPending
    BY DEF Init, ServerInit, EventsBalanced, MembershipAgrees, RemovalsPending
  <1>3. AcceptOnce
    BY EmptySeq DEF Init, ServerInit, AcceptOnce, AcceptHeld, AcceptQueued,
                    AcceptPopped, JoinedArrived
  <1> QED
    BY <1>1, <1>2, <1>3 DEF TableInv

\* A step that leaves the table and the events alone keeps them in agreement.
LEMMA TableKept ==
  ASSUME TableInv,
         UNCHANGED <<sessions, rmKeys, objects, players, members, joined, left>>,
         lpc' = lpc \/ rmKeys = {}
  PROVE  (EventsBalanced /\ MembershipAgrees /\ RemovalsPending)'
  BY DEF TableInv, EventsBalanced, MembershipAgrees, RemovalsPending

LEMMA TableStep ==
  ASSUME TableInv, Next
  PROVE  (EventsBalanced /\ MembershipAgrees /\ RemovalsPending)'
  <1> USE DEF serverVars, osVars, tableVars, eventVars, sendVars, workVars,
              logicVars
  <1>1. CASE ClientAction
    BY <1>1, TableKept
    DEF ClientAction, ClientStep, Connect, ClientSend, ClientClose
  <1>2. CASE AcceptThread
    BY <1>2, TableKept DEF AcceptThread, PushAccept, Accept, AcceptOn
  <1>3. CASE WorkThread
    BY <1>3, TableKept
    DEF WorkThread, WorkMakeSet, WorkSelect, WorkRecvData, ReceiveData,
        WorkRecvEnd, WorkCloseSocket, WorkCloseMiss, WorkZeroSocket,
        WorkPushDisconnect
  <1>4. CASE LogicMainLoop
    BY <1>4 DEF LogicMainLoop, RemoveClientProcess, TableInv, EventsBalanced,
                MembershipAgrees, RemovalsPending
  <1>5. CASE \/ LogicTimer \/ LogicNoTimer \/ LogicSendEnd \/ LogicPop
             \/ \E n \in toSend : LogicSend(n)
    <2>1. rmKeys = {}
      BY <1>5 DEF LogicTimer, LogicNoTimer, LogicSendEnd, LogicPop, LogicSend,
                  TableInv, RemovalsPending
    <2> QED
      BY <1>5, <2>1, TableKept
      DEF LogicTimer, SendAllBegin, LogicNoTimer, LogicSendEnd, LogicPop,
          LogicSend, SendAllNext
  <1>6. CASE DispatchAccept
    <2>1. rmKeys = {} /\ lpkt.id \notin joined
      BY <1>6 DEF DispatchAccept, Dispatched, TableInv, RemovalsPending,
                  AcceptOnce, AcceptPopped
    <2>2. CASE Refuse(lpkt.id)
      BY <1>6, <2>1, <2>2, TableKept DEF Refuse
    <2>3. CASE Insert(lpkt.id, lpkt.sock)
      BY <2>1, <2>3 DEF Insert, TableInv, EventsBalanced, MembershipAgrees,
                        RemovalsPending
    <2> QED
      BY <1>6, <2>2, <2>3 DEF DispatchAccept, AddSession
  <1>7. CASE DispatchDisconnect
    BY <1>7 DEF DispatchDisconnect, Dispatched, RemoveSession, TableInv,
                EventsBalanced, MembershipAgrees, RemovalsPending
  <1>8. CASE \/ DispatchInvalid \/ DispatchData
             \/ \E n \in asked : DispatchAckUserLogin(n)
    <2>1. rmKeys = {}
      BY <1>8 DEF DispatchInvalid, DispatchData, Dispatched,
                  DispatchAckUserLogin, TableInv, RemovalsPending
    <2> QED
      BY <1>8, <2>1, TableKept
      DEF DispatchInvalid, DispatchData, Dispatched, DispatchAckUserLogin
  <1> QED
    BY <1>1, <1>2, <1>3, <1>4, <1>5, <1>6, <1>7, <1>8 DEF Next, LogicThread

\* Queueing a packet that is no ACCEPT, or none, disturbs no ACCEPT under way.
LEMMA AcceptKept ==
  ASSUME TableInv,
         UNCHANGED <<accepted, joined>>,
         \A c \in Conn : Arrived(c) => Arrived(c)',
         \/ UNCHANGED packets
         \/ \E p \in Packet : p.kind # "accept" /\ packets' = Append(packets, p),
         UNCHANGED <<lpc, lpkt>> \/ lpc' # "dispatch"
  PROVE  AcceptOnce'
  <1> USE DEF TableInv, AcceptOnce
  <1>1. /\ packets \in Seq(Packet)
        /\ joined \subseteq Conn
        /\ accepted \in Packet \cup {NoPacket}
        /\ lpc = "dispatch" => lpkt \in Packet
    BY DEF TypeOK
  <1>2. \A p \in Packet : p.id \in Conn
    BY DEF Packet
  <1>3. \A i \in 1..Len(packets') : packets'[i].kind = "accept" =>
          i \in 1..Len(packets) /\ packets'[i] = packets[i]
    <2>1. CASE UNCHANGED packets
      BY <2>1
    <2>2. ASSUME NEW p \in Packet, p.kind # "accept",
                 packets' = Append(packets, p)
          PROVE  \A i \in 1..Len(packets') : packets'[i].kind = "accept" =>
                   i \in 1..Len(packets) /\ packets'[i] = packets[i]
      BY <1>1, <2>2, AppendElements
    <2> QED
      BY <2>1, <2>2
  <1>4. \A i \in 1..Len(packets) : packets[i] \in Packet
    BY <1>1, ElementOfSeq
  <1>5. AcceptHeld'
    BY <1>1, <1>2 DEF AcceptHeld
  <1>6. AcceptQueued'
    BY <1>2, <1>3, <1>4 DEF AcceptQueued
  <1>7. AcceptPopped'
    BY <1>1, <1>2, <1>3 DEF AcceptPopped
  <1>8. JoinedArrived'
    BY <1>1 DEF JoinedArrived
  <1> QED
    BY <1>5, <1>6, <1>7, <1>8

\* accept() takes a connection no thread has seen before.
LEMMA AcceptStepHeld ==
  ASSUME TableInv, NEW c \in Conn, NEW s \in Socket, Accept(c, s)
  PROVE  AcceptOnce'
  <1> USE DEF TableInv, AcceptOnce
  <1>1. /\ packets \in Seq(Packet) /\ joined \subseteq Conn
        /\ peer \in [Conn -> PeerState]
        /\ lpc = "dispatch" => lpkt \in Packet
    BY DEF TypeOK
  <1>2. /\ ~Arrived(c) /\ Arrived(c)'
        /\ \A d \in Conn : Arrived(d) => Arrived(d)'
    BY <1>1 DEF Accept, AcceptOn, Arrived
  <1>3. UNCHANGED <<packets, joined, lpc, lpkt>>
    BY DEF Accept, tableVars, eventVars, logicVars
  <1>4. /\ accepted' = AcceptPacket(c, s)
        /\ accepted'.kind = "accept" /\ accepted'.id = c
    BY DEF Accept, AcceptPacket
  <1>5. \A i \in 1..Len(packets) : packets[i].id \in Conn
    <2>1. \A i \in 1..Len(packets) : packets[i] \in Packet
      BY <1>1, ElementOfSeq
    <2> QED
      BY <2>1 DEF Packet
  <1>6. AcceptHeld'
    BY <1>2, <1>3, <1>4 DEF AcceptHeld, JoinedArrived
  <1>7. AcceptQueued'
    BY <1>2, <1>3, <1>4, <1>5 DEF AcceptQueued
  <1>8. AcceptPopped'
    BY <1>1, <1>2, <1>3, <1>4 DEF AcceptPopped, Packet
  <1>9. JoinedArrived'
    BY <1>1, <1>2, <1>3 DEF JoinedArrived
  <1> QED
    BY <1>6, <1>7, <1>8, <1>9

\* The packet goes from the accept thread's hand to the end of the queue.
LEMMA AcceptStepQueued ==
  ASSUME TableInv, PushAccept
  PROVE  AcceptOnce'
  <1> USE DEF TableInv, AcceptOnce
  <1>1. /\ packets \in Seq(Packet)
        /\ accepted \in Packet /\ accepted # NoPacket
        /\ accepted.kind = "accept"
    BY DEF TypeOK, PushAccept, AcceptHeld
  <1>2. UNCHANGED <<peer, joined, lpc, lpkt>>
    BY DEF PushAccept, osVars, eventVars, logicVars
  <1>3. /\ accepted' = NoPacket
        /\ packets' = Append(packets, accepted)
    BY DEF PushAccept
  <1>4. /\ Len(packets') = Len(packets) + 1
        /\ \A i \in 1..Len(packets) : packets'[i] = packets[i]
        /\ packets'[Len(packets) + 1] = accepted
    BY <1>1, <1>3, AppendElements
  <1>5. Len(packets) \in Nat
    BY <1>1, LenProperties
  <1>6. \A i \in 1..Len(packets') : i \in 1..Len(packets) \/ i = Len(packets) + 1
    BY <1>4, <1>5
  <1>7. AcceptHeld'
    BY <1>3 DEF AcceptHeld
  <1>8. accepted' = NoPacket
    BY <1>3
  <1>9. AcceptQueued'
    <2> SUFFICES ASSUME NEW i \in 1..Len(packets'),
                        packets'[i].kind = "accept"
                 PROVE  /\ packets'[i].id \notin joined
                        /\ Arrived(packets'[i].id)
                        /\ \A j \in 1..Len(packets') :
                             /\ packets'[j].kind = "accept"
                             /\ packets'[j].id = packets'[i].id
                             => i = j
      BY <1>2, <1>8 DEF AcceptQueued, Arrived
    <2>1. CASE i \in 1..Len(packets)
      BY <1>1, <1>4, <1>6, <2>1 DEF AcceptQueued
    <2>2. CASE i = Len(packets) + 1
      BY <1>1, <1>4, <1>6, <2>2 DEF AcceptQueued, AcceptHeld
    <2> QED
      BY <1>6, <2>1, <2>2
  <1>10. AcceptPopped'
    <2> SUFFICES ASSUME lpc = "dispatch", lpkt.kind = "accept",
                        NEW i \in 1..Len(packets'),
                        packets'[i].kind = "accept"
                 PROVE  packets'[i].id # lpkt.id
      BY <1>2, <1>8 DEF AcceptPopped, Arrived
    <2> QED
      BY <1>1, <1>4, <1>6 DEF AcceptPopped
  <1>11. JoinedArrived'
    BY <1>2 DEF JoinedArrived, Arrived
  <1> QED
    BY <1>7, <1>9, <1>10, <1>11

\* The packet goes from the head of the queue to the logic thread.
LEMMA AcceptStepPopped ==
  ASSUME TableInv, LogicPop
  PROVE  AcceptOnce'
  <1> USE DEF TableInv, AcceptOnce
  <1>1. UNCHANGED <<peer, joined, accepted>>
    BY DEF LogicPop, osVars, eventVars
  <1>2. CASE packets = <<>>
    BY <1>1, <1>2, AcceptKept DEF LogicPop, Arrived
  <1>3. CASE packets # <<>>
    <2>1. /\ packets \in Seq(Packet)
          /\ lpkt' = packets[1] /\ packets' = Tail(packets)
          /\ lpc' = "dispatch"
      BY <1>3 DEF LogicPop, TypeOK
    <2>2. /\ Len(packets) \in Nat \ {0}
          /\ Len(packets') = Len(packets) - 1
          /\ \A i \in 1..Len(packets') : packets'[i] = packets[i + 1]
      BY <1>3, <2>1, EmptySeq, HeadTailProperties
    <2>3. \A i \in 1..Len(packets') : i + 1 \in 2..Len(packets)
      BY <2>2
    <2>4. AcceptHeld'
      BY <1>1 DEF AcceptHeld, Arrived
    <2>5. AcceptQueued'
      <3> SUFFICES ASSUME NEW i \in 1..Len(packets'),
                          packets'[i].kind = "accept"
                   PROVE  /\ packets'[i].id \notin joined
                          /\ Arrived(packets'[i].id)
                          /\ accepted # NoPacket =>
                               accepted.id # packets'[i].id
                          /\ \A j \in 1..Len(packets') :
                               /\ packets'[j].kind = "accept"
                               /\ packets'[j].id = packets'[i].id
                               => i = j
        BY <1>1 DEF AcceptQueued, Arrived
      <3>1. /\ i + 1 \in 1..Len(packets)
            /\ packets'[i] = packets[i + 1]
        BY <2>2
      <3>2. /\ packets[i + 1].id \notin joined /\ Arrived(packets[i + 1].id)
            /\ accepted # NoPacket => accepted.id # packets[i + 1].id
            /\ \A m \in 1..Len(packets) :
                 /\ packets[m].kind = "accept"
                 /\ packets[m].id = packets[i + 1].id
                 => i + 1 = m
        <4> HIDE DEF TableInv
        <4>1. AcceptQueued
          BY DEF TableInv
        <4> QED
          BY <3>1, <4>1 DEF AcceptQueued
      <3>3. ASSUME NEW j \in 1..Len(packets'),
                   packets'[j].kind = "accept",
                   packets'[j].id = packets'[i].id
            PROVE  i = j
        <4> HIDE DEF TableInv
        <4>1. /\ j + 1 \in 1..Len(packets)
              /\ packets'[j] = packets[j + 1]
          BY <2>2
        <4>2. i + 1 = j + 1
          BY <3>1, <3>2, <3>3, <4>1
        <4> QED
          BY <4>2
      <3> HIDE DEF TableInv
      <3> QED
        BY <3>1, <3>2, <3>3
    <2>6. AcceptPopped'
      BY <1>1, <2>1, <2>2, <2>3 DEF AcceptPopped, AcceptQueued, Arrived
    <2>7. JoinedArrived'
      BY <1>1 DEF JoinedArrived, Arrived
    <2> QED
      BY <2>4, <2>5, <2>6, <2>7
  <1> QED
    BY <1>2, <1>3

\* The session the packet is for joins, and the packet is gone.
LEMMA AcceptStepJoined ==
  ASSUME TableInv, DispatchAccept
  PROVE  AcceptOnce'
  <1> USE DEF TableInv, AcceptOnce
  <1>1. /\ lpc = "dispatch" /\ lpkt.kind = "accept"
        /\ lpc' = "mainLoop"
        /\ UNCHANGED <<peer, packets, accepted>>
    BY DEF DispatchAccept, Dispatched, osVars
  <1>2. CASE Refuse(lpkt.id)
    BY <1>1, <1>2, AcceptKept DEF Refuse, Arrived
  <1>3. CASE Insert(lpkt.id, lpkt.sock)
    <2>1. joined' = joined \cup {lpkt.id}
      BY <1>3 DEF Insert
    <2>2. AcceptHeld'
      BY <1>1, <2>1 DEF AcceptHeld, AcceptPopped, Arrived
    <2>3. AcceptQueued'
      BY <1>1, <2>1 DEF AcceptQueued, AcceptPopped, Arrived
    <2>4. AcceptPopped' /\ JoinedArrived'
      BY <1>1, <2>1 DEF AcceptPopped, JoinedArrived, Arrived
    <2> QED
      BY <2>2, <2>3, <2>4
  <1> QED
    BY <1>2, <1>3 DEF DispatchAccept, AddSession

LEMMA AcceptStep ==
  ASSUME TableInv, Next
  PROVE  AcceptOnce'
  <1> USE DEF serverVars, osVars, tableVars, eventVars, sendVars, workVars,
              logicVars
  <1>1. TypeOK
    BY DEF TableInv
  <1>2. CASE ClientAction
    <2>1. PICK c \in Conn : ClientStep(c)
      BY <1>2 DEF ClientAction
    <2>2. UNCHANGED <<accepted, joined, packets, lpc, lpkt>>
      BY <1>2, <2>1 DEF ClientAction, ClientStep, Connect, ClientSend,
                        ClientClose
    <2>3. \A d \in Conn : Arrived(d) => Arrived(d)'
      BY <1>1, <2>1 DEF ClientStep, Connect, ClientSend, ClientClose, TypeOK,
                        Arrived
    <2> QED
      BY <2>2, <2>3, AcceptKept
  <1>3. CASE AcceptThread
    BY <1>3, AcceptStepHeld, AcceptStepQueued DEF AcceptThread
  <1>4. CASE WorkThread
    <2>1. UNCHANGED <<accepted, joined, peer, lpc, lpkt>>
      BY <1>4 DEF WorkThread, WorkMakeSet, WorkSelect, WorkRecvData,
                  ReceiveData, WorkRecvEnd, WorkCloseSocket, WorkCloseMiss,
                  WorkZeroSocket, WorkPushDisconnect
    <2>2. \/ UNCHANGED packets
          \/ \E p \in Packet :
               p.kind # "accept" /\ packets' = Append(packets, p)
      <3>1. ASSUME NEW e \in fds, WorkRecvData(e)
            PROVE  \E p \in Packet :
                     p.kind # "accept" /\ packets' = Append(packets, p)
        <4>1. e.id \in Conn /\ handle[e.sock] \in Conn
          BY <1>1, <3>1
          DEF WorkRecvData, ReceiveData, Valid, TypeOK, Entry
        <4>2. /\ DataPacket(e.id, handle[e.sock]) \in Packet
              /\ DataPacket(e.id, handle[e.sock]).kind # "accept"
          BY <4>1, PacketTypes DEF DataPacket, Packet, PacketKind
        <4> QED
          BY <3>1, <4>2 DEF WorkRecvData, ReceiveData
      <3>2. CASE WorkPushDisconnect
        <4>1. /\ ClientDisconnectPacket(cur) \in Packet
              /\ ClientDisconnectPacket(cur).kind # "accept"
          BY <1>1, <3>2 DEF WorkPushDisconnect, TypeOK, ClientDisconnectPacket,
                            Packet, PacketKind
        <4> QED
          BY <3>2, <4>1 DEF WorkPushDisconnect
      <3> QED
        BY <1>4, <3>1, <3>2
        DEF WorkThread, WorkMakeSet, WorkSelect, WorkRecvEnd, WorkCloseSocket,
            WorkCloseMiss, WorkZeroSocket
    <2> QED
      BY <2>1, <2>2, AcceptKept DEF Arrived
  <1>5. CASE LogicMainLoop \/ LogicTimer \/ LogicNoTimer \/ LogicSendEnd
    BY <1>5, AcceptKept
    DEF LogicMainLoop, RemoveClientProcess, LogicTimer, SendAllBegin,
        LogicNoTimer, LogicSendEnd, Arrived
  <1>6. ASSUME NEW n \in toSend, LogicSend(n)
        PROVE  AcceptOnce'
    <2>1. /\ InvalidDisconnectPacket(n) \in Packet
          /\ InvalidDisconnectPacket(n).kind # "accept"
      BY <1>1 DEF TypeOK, InvalidDisconnectPacket, Packet, PacketKind
    <2> QED
      BY <1>6, <2>1, AcceptKept DEF LogicSend, SendAllNext, Arrived
  <1>7. CASE DispatchDisconnect \/ DispatchInvalid \/ DispatchData
    BY <1>7, AcceptKept
    DEF DispatchDisconnect, DispatchInvalid, DispatchData, Dispatched,
        RemoveSession, Arrived
  <1>8. ASSUME NEW n \in asked, DispatchAckUserLogin(n)
        PROVE  AcceptOnce'
    BY <1>8, AcceptKept DEF DispatchAckUserLogin, Arrived
  <1> QED
    BY <1>2, <1>3, <1>4, <1>5, <1>6, <1>7, <1>8, AcceptStepPopped, AcceptStepJoined
    DEF Next, LogicThread

LEMMA StepTable == TableInv /\ [Next]_vars => TableInv'
  <1>1. CASE UNCHANGED vars
    BY <1>1 DEF vars, serverVars, osVars, tableVars, eventVars, sendVars,
                workVars, logicVars, TypeOK, TableInv, EventsBalanced,
                MembershipAgrees, RemovalsPending, AcceptOnce, AcceptHeld,
                AcceptQueued, AcceptPopped, JoinedArrived, Arrived
  <1>2. ASSUME TableInv, Next PROVE TableInv'
    <2>1. TypeOK'
      BY <1>2, StepType DEF TableInv
    <2> QED
      BY <1>2, <2>1, TableStep, AcceptStep DEF TableInv
  <1> QED
    BY <1>1, <1>2

LEMMA TableInvariant == Spec => []TableInv
  BY InitTable, StepTable, PTL DEF Spec

\* Join and leave events balance in every server, however often the unlocked
\* lookup misses and whatever MakeFDSET makes of a table too large for it.
THEOREM EventsBalance == Spec => []EventsBalanced
  <1>1. TableInv => EventsBalanced
    BY DEF TableInv
  <1> QED
    BY <1>1, TableInvariant, PTL

\* The group tree, the session table and the players agree in every server that
\* leaves its players to CServerBasic (login, certify, farm), however often the
\* unlocked lookup misses: AddSession, RemoveSession and RemoveClientProcess
\* change the three one after the other.
THEOREM MembershipsAgree == Spec => []MembershipAgrees
  <1>1. TableInv => MembershipAgrees
    BY DEF TableInv
  <1> QED
    BY <1>1, TableInvariant, PTL

-----------------------------------------------------------------------------
(* The sockets of a server, its threads and its queue.  The theorems are   *)
(* about the executions in which the unlocked lookup of                    *)
(* RemoveSessionSocket has missed no session that is there, and in which   *)
(* the sessions fit into a set of select() at any one time.                *)

SelectFits == Cardinality(sessions) <= FdSetSize

Benign == misses = 0 /\ SelectFits

-----------------------------------------------------------------------------
(* The invariant of the sockets.                                           *)

InTable(n) == n \in sessions \ rmKeys

\* A session whose socket is open designates it by its own handle; one whose
\* socket is closed has lost its client.
SocketsOwned ==
  \A n \in sessions :
    /\ state[n] # "DISCONNECT"
    /\ sock[n] # NoSock /\ ~(wpc = "zero" /\ cur = n) => handle[sock[n]] = n
    /\ sock[n] = NoSock => peer[n] = "gone"

\* The session the work thread closes is in the table all the while.
ClosingInTable ==
  wpc \in {"close", "zero", "push"} =>
    /\ InTable(cur) /\ peer[cur] = "gone"
    /\ sock[cur] = NoSock <=> wpc = "push"
    /\ wpc = "zero" => handle[sock[cur]] # cur

\* Only what the work thread has done with is marked.
MarkedClosed ==
  \A n \in rmKeys : sock[n] = NoSock /\ ~(wpc = "push" /\ cur = n)

\* The work thread's copy of a socket is out of date only for one that was
\* closed already, and then select() fails.
CopyIsCurrent ==
  \A e \in fds :
    /\ e.sock # NoSock =>
         /\ e.id \in sessions /\ sock[e.id] = e.sock
         /\ ~(wpc \in {"close", "zero"} /\ cur = e.id)
    /\ wpc # "select" => e.sock # NoSock

\* The work thread is done with session n and said so.
Ended(n) == InTable(n) /\ sock[n] = NoSock /\ ~(wpc = "push" /\ cur = n)

About(p, n) == p.id = n /\ p.kind \in {"data", "clientDisconnect"}

\* A session is disconnected once, after all it has sent.
EndsQueued ==
  \A i \in 1..Len(packets) : packets[i].kind = "clientDisconnect" =>
    /\ Ended(packets[i].id)
    /\ \A j \in 1..Len(packets) : About(packets[j], packets[i].id) => j <= i

EndPopped ==
  lpkt # NoPacket /\ lpkt.kind = "clientDisconnect" =>
    /\ Ended(lpkt.id)
    /\ \A j \in 1..Len(packets) : ~About(packets[j], lpkt.id)

DataQueued ==
  \A i \in 1..Len(packets) : packets[i].kind = "data" =>
    packets[i].id = packets[i].from /\ InTable(packets[i].id)

DataPopped ==
  lpkt # NoPacket /\ lpkt.kind = "data" => lpkt.id = lpkt.from /\ InTable(lpkt.id)

\* An ACCEPT packet has the open handle of its connection.
Opened(p) == p.kind = "accept" => p.sock \in Socket /\ handle[p.sock] = p.id

AcceptsOpen ==
  /\ accepted # NoPacket => Opened(accepted)
  /\ lpkt # NoPacket => Opened(lpkt)
  /\ \A i \in 1..Len(packets) : Opened(packets[i])

PoppedIsDispatched == lpkt # NoPacket => lpc = "dispatch"

\* A broadcast has visited whoever it will not visit.
SendCovers ==
  lpc = "send" =>
    \A n \in sessions : n \in told \/ n \in toSend \/ peer[n] = "gone"

\* The first part of SocketsAccounted; the second is in SocketsOwned.
Accounted(s) ==
  \/ AcceptPacket(handle[s], s) \in {accepted, lpkt}
  \/ \E i \in 1..Len(packets) : packets[i] = AcceptPacket(handle[s], s)
  \/ sock[handle[s]] = s /\ handle[s] \in sessions

HandlesAccounted ==
  \A s \in Socket : handle[s] \notin refused \cup {NoConn} => Accounted(s)

TableSide == SocketsOwned /\ ClosingInTable /\ MarkedClosed /\ CopyIsCurrent
             /\ PoppedIsDispatched /\ SendCovers

QueueSide == EndsQueued /\ EndPopped /\ DataQueued /\ DataPopped

Sides == TableSide /\ QueueSide /\ AcceptsOpen /\ HandlesAccounted

SocketInv == TableInv /\ Sides

-----------------------------------------------------------------------------
(* Lemmas about the queue.                                                 *)

\* The types this module needs, and what TableInv says of tables and queue.
LEMMA Known ==
  ASSUME TableInv
  PROVE  /\ peer \in [Conn -> PeerState] /\ handle \in [Socket -> Conn \cup {NoConn}]
         /\ sock \in [Conn -> Socket \cup {NoSock}] /\ state \in [Conn -> SessionState]
         /\ sessions \subseteq Conn /\ rmKeys \subseteq sessions /\ objects = sessions
         /\ joined \subseteq Conn /\ sessions \subseteq joined
         /\ packets \in Seq(Packet) /\ accepted \in Packet \cup {NoPacket}
         /\ lpkt \in Packet \cup {NoPacket} /\ (lpc = "dispatch" => lpkt \in Packet)
         /\ fds \subseteq Entry /\ misses \in 0..MaxMiss
         /\ (wpc \in {"close", "zero", "push"} => cur \in Conn)
BY DEF TableInv, TypeOK, EventsBalanced, RemovalsPending

\* An element of the queue is a packet, and no packet is NoPacket.
LEMMA QueueElements ==
  ASSUME TableInv
  PROVE  /\ \A i \in 1..Len(packets) : packets[i] \in Packet
         /\ \A p \in Packet : p.id \in Conn /\ p.sock \in Socket \cup {NoSock}
         /\ Len(packets) \in Nat
BY Known, ElementOfSeq, LenProperties DEF Packet

LEMMA NoPacketIsNone == NoPacket \notin Packet
<1>1. \A p \in Packet : "kind" \in DOMAIN p
  BY DEF Packet
<1>2. DOMAIN NoPacket = {}
  BY DEF NoPacket
<1> QED BY <1>1, <1>2

\* What the work thread has said of sessions stays so, when nothing is queued.
LEMMA EndsKept ==
  ASSUME TableInv, QueueSide, packets' = packets, lpkt' = lpkt \/ lpkt' = NoPacket,
         \A i \in 1..Len(packets) : packets[i].kind \in {"data", "clientDisconnect"} =>
           /\ InTable(packets[i].id) => InTable(packets[i].id)'
           /\ Ended(packets[i].id) => Ended(packets[i].id)',
         lpkt' # NoPacket /\ lpkt.kind \in {"data", "clientDisconnect"} =>
           /\ InTable(lpkt.id) => InTable(lpkt.id)'
           /\ Ended(lpkt.id) => Ended(lpkt.id)'
  PROVE  QueueSide'
<1> USE DEF QueueSide
<1>1. EndsQueued'
  BY DEF EndsQueued, About
<1>2. EndPopped'
  BY DEF EndPopped, About
<1>3. DataQueued'
  BY DEF DataQueued
<1>4. DataPopped'
  BY DEF DataPopped
<1> QED BY <1>1, <1>2, <1>3, <1>4

\* A packet is queued: the last one about an ended session, the data of one that
\* is not ended, or one that is about none.
LEMMA EndsAppended ==
  ASSUME TableInv, QueueSide, NEW p \in Packet,
         packets' = Append(packets, p), lpkt' = lpkt,
         \A n \in Conn : InTable(n) => InTable(n)',
         \A n \in Conn : Ended(n) => Ended(n)',
         \/ p.kind \in {"accept", "invalid"}
         \/ p.kind = "data" /\ p.id = p.from /\ InTable(p.id) /\ ~Ended(p.id)
         \/ p.kind = "clientDisconnect" /\ ~Ended(p.id) /\ Ended(p.id)'
  PROVE  QueueSide'
<1> USE DEF QueueSide
<1> DEFINE n == Len(packets)
<1>1. packets \in Seq(Packet) /\ n \in Nat /\ lpkt \in Packet \cup {NoPacket}
  BY Known, QueueElements
<1>2. /\ Len(packets') = n + 1 /\ packets'[n + 1] = p
      /\ \A i \in 1..n : packets'[i] = packets[i]
  BY <1>1, AppendElements
<1> HIDE DEF n
<1>3. \A i \in 1..Len(packets') : i \in 1..n \/ i = n + 1
  BY <1>1, <1>2
<1>4. \A i \in 1..n : packets[i] \in Packet /\ packets[i].id \in Conn
  BY QueueElements DEF n
<1>5. p.id \in Conn /\ (lpkt # NoPacket => lpkt.id \in Conn)
  BY <1>1, QueueElements
<1>6. About(p, p.id) => \A i \in 1..n :
        packets[i].kind = "clientDisconnect" => packets[i].id # p.id
  BY DEF EndsQueued, About, n
<1>7. EndsQueued'
  <2> SUFFICES ASSUME NEW i \in 1..Len(packets'), packets'[i].kind = "clientDisconnect"
               PROVE  /\ Ended(packets[i].id)'
                      /\ \A j \in 1..Len(packets') : About(packets'[j], packets'[i].id) => j <= i
    BY DEF EndsQueued, About
  <2>1. CASE i = n + 1
    BY <1>1, <1>2, <2>1
  <2>2. CASE i \in 1..n
    <3>1. packets'[i] = packets[i] /\ Ended(packets[i].id)
      BY <1>2, <2>2 DEF EndsQueued, n
    <3>2. \A j \in 1..n : About(packets'[j], packets[i].id) => j <= i
      BY <1>2, <2>2, <3>1 DEF EndsQueued, About, n
    <3>3. ~About(p, packets[i].id)
      BY <1>6, <2>2, <3>1 DEF About
    <3>4. \A m \in Conn : packets[i].id = m => Ended(m)'
      BY <3>1
    <3>5. Ended(packets[i].id)'
      BY <1>4, <2>2, <3>1, <3>4
    <3> QED BY <1>2, <1>3, <2>2, <3>1, <3>2, <3>3, <3>5
  <2> QED BY <1>3, <2>1, <2>2
<1>8. EndPopped'
  <2> SUFFICES ASSUME lpkt # NoPacket, lpkt.kind = "clientDisconnect"
               PROVE  /\ Ended(lpkt.id)'
                      /\ \A j \in 1..Len(packets') : ~About(packets'[j], lpkt.id)
    BY DEF EndPopped, About
  <2>1. Ended(lpkt.id) /\ \A j \in 1..n : ~About(packets[j], lpkt.id)
    BY DEF EndPopped, n
  <2>2. ~About(p, lpkt.id)
    BY <2>1 DEF About
  <2> QED BY <1>2, <1>3, <1>5, <2>1, <2>2 DEF About
<1>9. DataQueued'
  BY <1>2, <1>3, <1>4, <1>5 DEF DataQueued, n
<1>10. DataPopped'
  BY <1>5 DEF DataPopped
<1> QED BY <1>7, <1>8, <1>9, <1>10

\* The handles of ACCEPT packets stay open while only handles of sessions close.
LEMMA AcceptsKept ==
  ASSUME TableInv, AcceptsOpen,
         \/ packets' = packets
         \/ \E p \in Packet : p.kind # "accept" /\ packets' = Append(packets, p),
         UNCHANGED accepted, lpkt' = lpkt \/ lpkt' = NoPacket,
         \A s \in Socket : handle[s] \in Conn \ joined => handle'[s] = handle[s],
         lpkt' # NoPacket => lpc = "dispatch"
  PROVE  AcceptsOpen'
<1>1. \A q \in Packet : Opened(q) /\ q.kind = "accept" /\ q.id \notin joined => Opened(q)'
  BY QueueElements DEF Opened
<1>2. /\ packets \in Seq(Packet) /\ accepted \in Packet \cup {NoPacket}
      /\ lpkt \in Packet \cup {NoPacket}
  BY Known
<1>3. \A q \in Packet : q.kind # "accept" => Opened(q)'
  BY DEF Opened
<1>4. accepted # NoPacket => Opened(accepted)'
  BY <1>1, <1>2, <1>3 DEF AcceptsOpen, TableInv, AcceptOnce, AcceptHeld
<1>5. lpkt' # NoPacket => Opened(lpkt)'
  BY <1>1, <1>2, <1>3 DEF AcceptsOpen, TableInv, AcceptOnce, AcceptPopped
<1>6. \A i \in 1..Len(packets), q \in Packet : q = packets[i] => Opened(q)'
  <2> SUFFICES ASSUME NEW i \in 1..Len(packets), NEW q \in Packet, q = packets[i]
               PROVE  Opened(q)'
    OBVIOUS
  <2>1. Opened(q) /\ (q.kind = "accept" => q.id \notin joined)
    BY DEF AcceptsOpen, TableInv, AcceptOnce, AcceptQueued
  <2> QED BY <1>1, <1>3, <2>1
<1>7. ASSUME NEW i \in 1..Len(packets'), NEW q, q = packets'[i]
      PROVE  Opened(q)'
  <2>1. CASE packets' = packets
    BY <1>6, <1>7, <2>1, QueueElements
  <2>2. ASSUME NEW p \in Packet, p.kind # "accept", packets' = Append(packets, p)
        PROVE  Opened(q)'
    <3>1. (i \in 1..Len(packets) /\ packets'[i] = packets[i]) \/ packets'[i] = p
      BY <1>2, <2>2, AppendElements
    <3> QED BY <1>3, <1>6, <1>7, <2>2, <3>1, QueueElements
  <2> QED BY <2>1, <2>2
<1>8. \A i \in 1..Len(packets') : Opened(packets[i])'
  BY <1>7 DEF Opened
<1> QED BY <1>4, <1>5, <1>8 DEF AcceptsOpen

\* A handle stays accounted for while nothing that accounts for it goes.
LEMMA AccountedKept ==
  ASSUME TableInv, HandlesAccounted,
         \/ packets' = packets
         \/ \E p \in Packet : packets' = Append(packets, p),
         UNCHANGED accepted,
         lpkt' = lpkt \/ lpkt = NoPacket \/ lpkt.kind # "accept",
         refused \subseteq refused',
         \A s \in Socket : handle'[s] \in {handle[s], NoConn},
         \A s \in Socket : handle'[s] # NoConn /\ sock[handle[s]] = s /\ handle[s] \in sessions
           => sock'[handle[s]] = s /\ handle[s] \in sessions'
  PROVE  HandlesAccounted'
<1> SUFFICES ASSUME NEW s \in Socket, handle'[s] \notin refused' \cup {NoConn}
             PROVE  Accounted(s)'
  BY DEF HandlesAccounted
<1>1. handle'[s] = handle[s] /\ Accounted(s)
  BY DEF HandlesAccounted
<1> DEFINE a == AcceptPacket(handle[s], s)
<1>2. /\ a' = a /\ a \in Packet /\ a.kind = "accept"
  <2>1. handle[s] \in Conn
    BY <1>1, Known
  <2> QED BY <1>1, <2>1 DEF AcceptPacket, Packet, PacketKind
<1> HIDE DEF a
<1>3. CASE a \in {accepted, lpkt}
  <2>1. a \in {accepted', lpkt'}
    BY <1>2, <1>3, NoPacketIsNone
  <2> QED BY <1>1, <1>2, <2>1 DEF Accounted, a
<1>4. CASE \E i \in 1..Len(packets) : packets[i] = a
  <2> PICK i \in 1..Len(packets) : packets[i] = a
    BY <1>4
  <2>1. packets \in Seq(Packet)
    BY Known
  <2>2. i \in 1..Len(packets') /\ packets'[i] = a
    <3>1. CASE packets' = packets
      BY <3>1
    <3>2. ASSUME NEW p \in Packet, packets' = Append(packets, p)
          PROVE  i \in 1..Len(packets') /\ packets'[i] = a
      BY <2>1, <3>2, AppendElements
    <3> QED BY <3>1, <3>2
  <2> QED BY <1>1, <1>2, <2>2 DEF Accounted, a
<1>5. CASE sock[handle[s]] = s /\ handle[s] \in sessions
  BY <1>1, <1>5 DEF Accounted
<1> QED BY <1>1, <1>3, <1>4, <1>5 DEF Accounted, a

-----------------------------------------------------------------------------
(* The clients and the accept thread.                                      *)

LEMMA InitSides == Init => Sides
<1> SUFFICES ASSUME Init PROVE Sides
  OBVIOUS
<1>1. 1..Len(packets) = {}
  BY DEF Init, ServerInit
<1>2. /\ sessions = {} /\ rmKeys = {} /\ fds = {} /\ wpc = "makeSet" /\ lpc = "mainLoop"
      /\ accepted = NoPacket /\ lpkt = NoPacket /\ handle = [s \in Socket |-> NoConn]
  BY DEF Init, ServerInit
<1>3. TableSide
  BY <1>2 DEF TableSide, SocketsOwned, ClosingInTable, MarkedClosed, CopyIsCurrent,
              PoppedIsDispatched, SendCovers
<1>4. QueueSide
  BY <1>1, <1>2 DEF QueueSide, EndsQueued, EndPopped, DataQueued, DataPopped
<1>5. AcceptsOpen /\ HandlesAccounted
  BY <1>1, <1>2 DEF AcceptsOpen, HandlesAccounted
<1> QED BY <1>3, <1>4, <1>5 DEF Sides

\* The steps that change no session and nothing of the work thread.
LEMMA QuietSide ==
  ASSUME SocketInv,
         UNCHANGED <<sessions, rmKeys, sock, state, wpc, cur, fds, told, toSend>>,
         \A c \in Conn : peer[c] = "gone" => peer'[c] = "gone",
         \A s \in Socket : \/ handle'[s] = handle[s]
                           \/ handle[s] = NoConn /\ handle'[s] \notin sessions,
         lpkt' # NoPacket => lpc' = "dispatch", lpc' = "send" => lpc = "send"
  PROVE  TableSide'
<1> USE DEF SocketInv, Sides, TableSide
<1>1. /\ sessions \subseteq Conn /\ rmKeys \subseteq sessions
      /\ sock \in [Conn -> Socket \cup {NoSock}] /\ NoConn \notin Conn
  BY Known, ServerConstants
<1>2. SocketsOwned'
  BY <1>1 DEF SocketsOwned
<1>3. ClosingInTable'
  BY <1>1 DEF ClosingInTable, InTable
<1>4. MarkedClosed' /\ CopyIsCurrent'
  BY DEF MarkedClosed, CopyIsCurrent
<1>5. PoppedIsDispatched' /\ SendCovers'
  BY <1>1 DEF PoppedIsDispatched, SendCovers
<1> QED BY <1>2, <1>3, <1>4, <1>5

LEMMA EndedSame ==
  ASSUME UNCHANGED <<sessions, rmKeys, sock, wpc, cur>>, NEW n
  PROVE  /\ InTable(n) => InTable(n)'
         /\ Ended(n) => Ended(n)'
BY DEF InTable, Ended

\* A step that leaves the queue and the table alone.
LEMMA NothingQueued ==
  ASSUME SocketInv, UNCHANGED <<packets, accepted, lpkt, sessions, rmKeys, sock, wpc, cur>>,
         refused \subseteq refused', UNCHANGED handle, lpkt # NoPacket => lpc = "dispatch"
  PROVE  QueueSide' /\ AcceptsOpen' /\ HandlesAccounted'
<1>1. TableInv /\ QueueSide /\ AcceptsOpen /\ HandlesAccounted
  BY DEF SocketInv, Sides
<1>2. QueueSide'
  BY <1>1, EndsKept, EndedSame
<1>3. AcceptsOpen'
  BY <1>1, AcceptsKept
<1>4. HandlesAccounted'
  <2>1. \A s \in Socket : handle'[s] \in {handle[s], NoConn}
    OBVIOUS
  <2> QED BY <1>1, <2>1, AccountedKept
<1> QED BY <1>2, <1>3, <1>4

LEMMA ClientSides ==
  ASSUME SocketInv, ClientAction
  PROVE  Sides'
<1> PICK c \in Conn : ClientStep(c)
  BY DEF ClientAction
<1>1. UNCHANGED <<handle, tableVars, eventVars, sendVars, packets, accepted, workVars, logicVars>>
  BY DEF ClientAction, ClientStep, Connect, ClientSend, ClientClose
<1>2. \A d \in Conn : peer[d] = "gone" => peer'[d] = "gone"
  <2>1. peer \in [Conn -> PeerState]
    BY Known DEF SocketInv
  <2> QED BY <2>1 DEF ClientStep, Connect, ClientSend, ClientClose
<1>3. PoppedIsDispatched
  BY DEF SocketInv, Sides, TableSide
<1>4. TableSide'
  BY <1>1, <1>2, <1>3, QuietSide
     DEF tableVars, sendVars, workVars, logicVars, PoppedIsDispatched
<1>5. QueueSide' /\ AcceptsOpen' /\ HandlesAccounted'
  BY <1>1, <1>3, NothingQueued
     DEF tableVars, eventVars, workVars, logicVars, PoppedIsDispatched
<1> QED BY <1>4, <1>5 DEF Sides

LEMMA AcceptSides ==
  ASSUME SocketInv, NEW c \in Conn, NEW s \in Socket, Accept(c, s)
  PROVE  Sides'
<1>1. /\ UNCHANGED <<tableVars, eventVars, sendVars, packets, workVars, logicVars>>
      /\ peer[c] = "backlog" /\ handle[s] = NoConn
      /\ accepted = NoPacket /\ accepted' = AcceptPacket(c, s)
      /\ peer' = [peer EXCEPT ![c] = "open"] /\ handle' = [handle EXCEPT ![s] = c]
  BY DEF Accept, AcceptOn
<1>2. /\ TableInv /\ QueueSide /\ AcceptsOpen /\ HandlesAccounted /\ PoppedIsDispatched
      /\ peer \in [Conn -> PeerState] /\ handle \in [Socket -> Conn \cup {NoConn}]
      /\ sessions \subseteq joined /\ joined \subseteq Conn
      /\ lpkt \in Packet \cup {NoPacket}
  BY Known DEF SocketInv, Sides, TableSide
<1>3. c \notin joined
  BY <1>1, <1>2 DEF TableInv, AcceptOnce, JoinedArrived, Arrived
<1>4. \A t \in Socket : handle'[t] = IF t = s THEN c ELSE handle[t]
  BY <1>1, <1>2
<1>5. TableSide'
  <2>1. \A d \in Conn : peer[d] = "gone" => peer'[d] = "gone"
    BY <1>1, <1>2
  <2>2. \A t \in Socket : \/ handle'[t] = handle[t]
                          \/ handle[t] = NoConn /\ handle'[t] \notin sessions
    BY <1>1, <1>2, <1>3, <1>4
  <2> QED BY <1>1, <1>2, <2>1, <2>2, QuietSide
          DEF tableVars, sendVars, workVars, logicVars, PoppedIsDispatched
<1>6. QueueSide'
  BY <1>1, <1>2, EndsKept, EndedSame DEF tableVars, workVars, logicVars
<1>7. AcceptsOpen'
  <2>1. \A q \in Packet : Opened(q) => Opened(q)'
    BY <1>1, <1>4, ServerConstants, QueueElements, <1>2 DEF Opened
  <2>2. \A q : q = accepted' => Opened(q)'
    BY <1>1, <1>4 DEF Opened, AcceptPacket
  <2>3. accepted' # NoPacket => Opened(accepted)'
    BY <2>2 DEF Opened
  <2>4. lpkt' # NoPacket => Opened(lpkt)'
    BY <1>1, <1>2, <2>1 DEF AcceptsOpen, logicVars, Opened
  <2>5. \A i \in 1..Len(packets') : Opened(packets[i])'
    BY <1>1, <1>2, <2>1, QueueElements DEF AcceptsOpen, Opened
  <2> QED BY <2>3, <2>4, <2>5 DEF AcceptsOpen
<1>8. HandlesAccounted'
  <2> SUFFICES ASSUME NEW t \in Socket, handle'[t] \notin refused' \cup {NoConn}
               PROVE  Accounted(t)'
    BY DEF HandlesAccounted
  <2>1. CASE t = s
    BY <1>1, <1>4, <2>1 DEF Accounted, AcceptPacket
  <2>2. CASE t # s
    <3>1. handle'[t] = handle[t] /\ Accounted(t)
      BY <1>1, <1>2, <1>4, <2>2 DEF HandlesAccounted, eventVars
    <3>2. AcceptPacket(handle[t], t) # NoPacket
      <4>1. "kind" \in DOMAIN AcceptPacket(handle[t], t) /\ DOMAIN NoPacket = {}
        BY DEF AcceptPacket, NoPacket
      <4> QED BY <4>1
    <3> DEFINE a == AcceptPacket(handle[t], t)
    <3>3. a' = a
      BY <3>1 DEF AcceptPacket
    <3> HIDE DEF a
    <3>4. \/ a = lpkt
          \/ \E i \in 1..Len(packets) : packets[i] = a
          \/ sock[handle[t]] = t /\ handle[t] \in sessions
      BY <1>1, <3>1, <3>2 DEF Accounted, a
    <3> QED BY <1>1, <3>1, <3>3, <3>4 DEF Accounted, a, tableVars, logicVars
  <2> QED BY <2>1, <2>2
<1> QED BY <1>5, <1>6, <1>7, <1>8 DEF Sides

LEMMA PushAcceptSides ==
  ASSUME SocketInv, PushAccept
  PROVE  Sides'
<1>1. /\ UNCHANGED <<osVars, tableVars, eventVars, sendVars, workVars, logicVars>>
      /\ accepted # NoPacket /\ accepted' = NoPacket
      /\ packets' = Append(packets, accepted)
  BY DEF PushAccept
<1>2. /\ TableInv /\ QueueSide /\ AcceptsOpen /\ HandlesAccounted /\ PoppedIsDispatched
      /\ accepted \in Packet /\ packets \in Seq(Packet) /\ lpkt \in Packet \cup {NoPacket}
      /\ accepted.kind = "accept"
  BY <1>1, Known DEF SocketInv, Sides, TableSide, TableInv, AcceptOnce, AcceptHeld
<1>3. TableSide'
  BY <1>1, <1>2, QuietSide
     DEF osVars, tableVars, sendVars, workVars, logicVars, PoppedIsDispatched
<1>4. QueueSide'
  BY <1>1, <1>2, EndsAppended, EndedSame DEF tableVars, workVars, logicVars
<1>5. /\ \A i \in 1..Len(packets) : i \in 1..Len(packets') /\ packets'[i] = packets[i]
      /\ Len(packets) + 1 \in 1..Len(packets') /\ packets'[Len(packets) + 1] = accepted
      /\ \A i \in 1..Len(packets') : i \in 1..Len(packets) \/ packets'[i] = accepted
  BY <1>1, <1>2, AppendElements
<1>6. AcceptsOpen'
  <2>1. \A q : Opened(q) => Opened(q)'
    BY <1>1 DEF Opened, osVars
  <2>2. \A i \in 1..Len(packets') : Opened(packets'[i])
    BY <1>1, <1>2, <1>5 DEF AcceptsOpen
  <2>3. \A i \in 1..Len(packets') : Opened(packets[i])'
    BY <2>1, <2>2 DEF Opened
  <2> QED BY <1>1, <1>2, <2>1, <2>3 DEF AcceptsOpen, logicVars, Opened
<1>7. HandlesAccounted'
  <2> SUFFICES ASSUME NEW s \in Socket, handle'[s] \notin refused' \cup {NoConn}
               PROVE  Accounted(s)'
    BY DEF HandlesAccounted
  <2> DEFINE a == AcceptPacket(handle[s], s)
  <2>1. Accounted(s) /\ a' = a
    BY <1>1, <1>2 DEF HandlesAccounted, osVars, eventVars, AcceptPacket
  <2>2. a \in {accepted, lpkt} \/ (\E i \in 1..Len(packets) : packets[i] = a)
        \/ (sock[handle[s]] = s /\ handle[s] \in sessions)
    <3>1. Accounted(s)
      BY <2>1
    <3> QED BY <3>1 DEF Accounted
  <2>3. \/ a = lpkt'
        \/ \E i \in 1..Len(packets') : packets'[i] = a
        \/ (sock[handle[s]] = s /\ handle[s] \in sessions)
    <3> HIDE DEF a
    <3> QED BY <1>1, <1>5, <2>2 DEF logicVars
  <2> QED BY <1>1, <2>1, <2>3 DEF Accounted, osVars, tableVars
<1> QED BY <1>3, <1>4, <1>6, <1>7 DEF Sides

-----------------------------------------------------------------------------
(* The work thread.                                                        *)

\* MakeFDSET and select().
LEMMA SelectSides ==
  ASSUME SocketInv, Benign, WorkMakeSet \/ WorkSelect
  PROVE  Sides'
<1>1. /\ UNCHANGED <<serverVars, accepted, cur, misses, logicVars>>
      /\ wpc \notin {"close", "zero", "push"} /\ wpc' \notin {"close", "zero", "push"}
  BY DEF WorkMakeSet, WorkSelect
<1>2. /\ TableInv /\ QueueSide /\ AcceptsOpen /\ HandlesAccounted /\ TableSide
      /\ sessions \subseteq Conn /\ rmKeys \subseteq sessions /\ fds \subseteq Entry
      /\ sock \in [Conn -> Socket \cup {NoSock}]
  BY Known DEF SocketInv, Sides
<1>3. CopyIsCurrent'
  <2>1. CASE WorkMakeSet
    <3>1. Cardinality(sessions) <= FdSetSize
      BY DEF Benign, SelectFits
    <3>2. fds' = {EntryOf(n) : n \in sessions} /\ wpc' = "select"
      BY <2>1, <3>1 DEF WorkMakeSet, MakeFDSET
    <3> QED BY <1>1, <3>2
            DEF CopyIsCurrent, EntryOf, serverVars, tableVars
  <2>2. CASE WorkSelect
    <3>1. fds' \subseteq fds /\ \A e \in fds' : e.sock # NoSock
      BY <2>2, ServerConstants DEF WorkSelect, SelectReadable, Valid
    <3> QED BY <1>1, <1>2, <3>1 DEF CopyIsCurrent, TableSide, serverVars, tableVars
  <2> QED BY <2>1, <2>2
<1>4. TableSide'
  <2> USE DEF TableSide, serverVars, osVars, tableVars, sendVars, logicVars
  <2>1. SocketsOwned'
    BY <1>1, <1>2 DEF SocketsOwned
  <2>2. ClosingInTable' /\ MarkedClosed'
    BY <1>1, <1>2 DEF ClosingInTable, MarkedClosed
  <2>3. PoppedIsDispatched' /\ SendCovers'
    BY <1>1, <1>2 DEF PoppedIsDispatched, SendCovers
  <2> QED BY <1>3, <2>1, <2>2, <2>3
<1>5. QueueSide'
  <2>1. \A n : (InTable(n) => InTable(n)') /\ (Ended(n) => Ended(n)')
    BY <1>1 DEF InTable, Ended, serverVars, tableVars
  <2> QED BY <1>1, <1>2, <2>1, EndsKept DEF serverVars, logicVars
<1>6. AcceptsOpen'
  <2>1. UNCHANGED <<packets, accepted, lpkt, handle>> /\ (lpkt' # NoPacket => lpc = "dispatch")
    BY <1>1, <1>2 DEF serverVars, osVars, logicVars, TableSide, PoppedIsDispatched
  <2> QED BY <1>2, <2>1, AcceptsKept
<1>7. HandlesAccounted'
  BY <1>1, <1>2 DEF HandlesAccounted, Accounted, serverVars, osVars, eventVars, tableVars,
                    logicVars, AcceptPacket
<1> QED BY <1>4, <1>5, <1>6, <1>7 DEF Sides

\* recv() of data: the entry's session is in the table, and has said no end.
LEMMA RecvDataSides ==
  ASSUME SocketInv, NEW e \in fds, WorkRecvData(e)
  PROVE  Sides'
<1>1. /\ TableInv /\ QueueSide /\ AcceptsOpen /\ HandlesAccounted /\ TableSide
      /\ sessions \subseteq Conn /\ rmKeys \subseteq sessions /\ fds \subseteq Entry
      /\ sock \in [Conn -> Socket \cup {NoSock}] /\ handle \in [Socket -> Conn \cup {NoConn}]
      /\ lpkt \in Packet \cup {NoPacket}
  BY Known DEF SocketInv, Sides
<1>2. /\ UNCHANGED <<peer, handle, tableVars, eventVars, sendVars, accepted, cur, logicVars>>
      /\ wpc = "recv" /\ fds' = fds \ {e} /\ wpc' \in {"makeSet", "recv"} /\ Valid(e.sock)
      /\ packets' = Append(packets, DataPacket(e.id, handle[e.sock]))
  BY DEF WorkRecvData, ReceiveData
<1>3. /\ e.id \in sessions \ rmKeys /\ sock[e.id] = e.sock /\ e.sock # NoSock
      /\ handle[e.sock] = e.id /\ e.id \in Conn
  BY <1>1, <1>2 DEF TableSide, CopyIsCurrent, SocketsOwned, MarkedClosed
<1>4. TableSide'
  <2> USE DEF TableSide, tableVars, sendVars, logicVars
  <2>1. SocketsOwned' /\ ClosingInTable' /\ MarkedClosed'
    BY <1>1, <1>2 DEF SocketsOwned, ClosingInTable, MarkedClosed
  <2>2. CopyIsCurrent'
    BY <1>1, <1>2 DEF CopyIsCurrent
  <2>3. PoppedIsDispatched' /\ SendCovers'
    BY <1>1, <1>2 DEF PoppedIsDispatched, SendCovers
  <2> QED BY <2>1, <2>2, <2>3
<1> PICK p \in Packet : p = DataPacket(e.id, e.id)
  BY <1>3, PacketTypes, ServerConstants, <1>1
<1>5. p.kind = "data" /\ p.id = e.id /\ p.from = e.id /\ packets' = Append(packets, p)
  BY <1>2, <1>3 DEF DataPacket
<1>6. QueueSide'
  <2>1. \A n : (InTable(n) => InTable(n)') /\ (Ended(n) => Ended(n)')
    BY <1>2 DEF InTable, Ended, tableVars
  <2>2. InTable(p.id) /\ ~Ended(p.id)
    BY <1>3, <1>5 DEF InTable, Ended
  <2> QED BY <1>1, <1>2, <1>5, <2>1, <2>2, EndsAppended DEF logicVars
<1>7. AcceptsOpen'
  <2>1. UNCHANGED <<accepted, lpkt, handle>> /\ (lpkt' # NoPacket => lpc = "dispatch")
    BY <1>1, <1>2 DEF logicVars, TableSide, PoppedIsDispatched
  <2> QED BY <1>1, <1>5, <2>1, AcceptsKept
<1>8. HandlesAccounted'
  BY <1>1, <1>2, <1>5, AccountedKept DEF tableVars, eventVars, logicVars
<1> QED BY <1>4, <1>6, <1>7, <1>8 DEF Sides

\* recv() of the end of a stream: the client is gone.
LEMMA RecvEndSides ==
  ASSUME SocketInv, NEW e \in fds, WorkRecvEnd(e)
  PROVE  Sides'
<1>1. /\ TableInv /\ QueueSide /\ AcceptsOpen /\ HandlesAccounted /\ TableSide
      /\ sessions \subseteq Conn /\ rmKeys \subseteq sessions /\ fds \subseteq Entry
      /\ sock \in [Conn -> Socket \cup {NoSock}] /\ handle \in [Socket -> Conn \cup {NoConn}]
      /\ lpkt \in Packet \cup {NoPacket}
  BY Known DEF SocketInv, Sides
<1>2. /\ UNCHANGED <<serverVars, accepted, misses, logicVars>>
      /\ wpc = "recv" /\ fds' = fds \ {e} /\ wpc' = "close" /\ cur' = e.id /\ EndOfStream(e)
  BY DEF WorkRecvEnd
<1>3. /\ e.id \in sessions \ rmKeys /\ sock[e.id] = e.sock /\ e.sock # NoSock
      /\ handle[e.sock] = e.id /\ e.id \in Conn /\ e.sock \in Socket
  BY <1>1, <1>2 DEF TableSide, CopyIsCurrent, SocketsOwned, MarkedClosed
<1>4. peer[e.id] = "gone"
  BY <1>2, <1>3, ServerConstants DEF EndOfStream, Valid
<1>5. TableSide'
  <2> USE DEF TableSide, serverVars, osVars, tableVars, sendVars, logicVars
  <2>1. SocketsOwned' /\ MarkedClosed'
    BY <1>1, <1>2 DEF SocketsOwned, MarkedClosed
  <2>2. ClosingInTable'
    BY <1>2, <1>3, <1>4 DEF ClosingInTable, InTable
  <2>3. CopyIsCurrent'
    <3>1. \A f \in fds : f.id = e.id => f = e
      <4> SUFFICES ASSUME NEW f \in fds, f.id = e.id PROVE f = e
        OBVIOUS
      <4>1. f.sock = e.sock
        BY <1>1, <1>2, <1>3 DEF CopyIsCurrent
      <4> QED BY <1>1, <4>1 DEF Entry
    <3> QED BY <1>1, <1>2, <3>1 DEF CopyIsCurrent
  <2>4. PoppedIsDispatched' /\ SendCovers'
    BY <1>1, <1>2 DEF PoppedIsDispatched, SendCovers
  <2> QED BY <2>1, <2>2, <2>3, <2>4
<1>6. QueueSide'
  <2>1. \A n : (InTable(n) => InTable(n)') /\ (Ended(n) => Ended(n)')
    BY <1>2 DEF InTable, Ended, serverVars, tableVars
  <2> QED BY <1>1, <1>2, <2>1, EndsKept DEF serverVars, logicVars
<1>7. AcceptsOpen'
  <2>1. UNCHANGED <<packets, accepted, lpkt, handle>> /\ (lpkt' # NoPacket => lpc = "dispatch")
    BY <1>1, <1>2 DEF serverVars, osVars, logicVars, TableSide, PoppedIsDispatched
  <2> QED BY <1>1, <2>1, AcceptsKept
<1>8. HandlesAccounted'
  BY <1>1, <1>2 DEF HandlesAccounted, Accounted, serverVars, osVars, eventVars, tableVars,
                    logicVars, AcceptPacket
<1> QED BY <1>5, <1>6, <1>7, <1>8 DEF Sides

\* closesocket() closes the handle of the session that is being closed.
LEMMA CloseSides ==
  ASSUME SocketInv, WorkCloseSocket
  PROVE  Sides'
<1>1. /\ TableInv /\ QueueSide /\ AcceptsOpen /\ HandlesAccounted /\ TableSide
      /\ sessions \subseteq Conn /\ rmKeys \subseteq sessions /\ sessions \subseteq joined
      /\ sock \in [Conn -> Socket \cup {NoSock}] /\ handle \in [Socket -> Conn \cup {NoConn}]
      /\ lpkt \in Packet \cup {NoPacket}
  BY Known DEF SocketInv, Sides
<1>2. /\ UNCHANGED <<peer, inbox, tableVars, eventVars, sendVars, packets, accepted, fds, cur,
                     logicVars>>
      /\ wpc = "close" /\ wpc' = "zero"
      /\ \A s \in Socket : handle'[s] = IF s = sock[cur] THEN NoConn ELSE handle[s]
  BY DEF WorkCloseSocket, CloseHandles
<1>3. /\ cur \in sessions \ rmKeys /\ sock[cur] \in Socket /\ handle[sock[cur]] = cur
      /\ NoConn \notin Conn
  BY <1>1, <1>2, ServerConstants DEF TableSide, ClosingInTable, InTable, SocketsOwned
<1>4. TableSide'
  <2> USE DEF TableSide, tableVars, sendVars, logicVars
  <2>1. SocketsOwned'
    BY <1>1, <1>2, <1>3 DEF SocketsOwned
  <2>2. ClosingInTable'
    BY <1>1, <1>2, <1>3 DEF ClosingInTable, InTable
  <2>3. MarkedClosed' /\ CopyIsCurrent'
    BY <1>1, <1>2 DEF MarkedClosed, CopyIsCurrent
  <2>4. PoppedIsDispatched' /\ SendCovers'
    BY <1>1, <1>2 DEF PoppedIsDispatched, SendCovers
  <2> QED BY <2>1, <2>2, <2>3, <2>4
<1>5. QueueSide'
  <2>1. \A n : (InTable(n) => InTable(n)') /\ (Ended(n) => Ended(n)')
    BY <1>2 DEF InTable, Ended, tableVars
  <2> QED BY <1>1, <1>2, <2>1, EndsKept DEF logicVars
<1>6. AcceptsOpen'
  <2>1. \A s \in Socket : handle[s] \in Conn \ joined => handle'[s] = handle[s]
    BY <1>1, <1>2, <1>3
  <2>2. UNCHANGED <<packets, accepted, lpkt>> /\ (lpkt' # NoPacket => lpc = "dispatch")
    BY <1>1, <1>2 DEF logicVars, TableSide, PoppedIsDispatched
  <2> QED BY <1>1, <2>1, <2>2, AcceptsKept
<1>7. HandlesAccounted'
  <2>1. \A s \in Socket : handle'[s] \in {handle[s], NoConn}
    BY <1>2
  <2> QED BY <1>1, <1>2, <2>1, AccountedKept DEF tableVars, eventVars, logicVars
<1> QED BY <1>4, <1>5, <1>6, <1>7 DEF Sides

\* SetSocket(0).
LEMMA ZeroSides ==
  ASSUME SocketInv, WorkZeroSocket
  PROVE  Sides'
<1>1. /\ TableInv /\ QueueSide /\ AcceptsOpen /\ HandlesAccounted /\ TableSide
      /\ sessions \subseteq Conn /\ rmKeys \subseteq sessions /\ sessions \subseteq joined
      /\ sock \in [Conn -> Socket \cup {NoSock}] /\ handle \in [Socket -> Conn \cup {NoConn}]
      /\ lpkt \in Packet \cup {NoPacket}
  BY Known DEF SocketInv, Sides
<1>2. /\ UNCHANGED <<osVars, sessions, rmKeys, state, eventVars, sendVars, packets, accepted,
                     fds, cur, logicVars>>
      /\ wpc = "zero" /\ wpc' = "push"
      /\ \A n \in Conn : sock'[n] = IF n = cur THEN NoSock ELSE sock[n]
  BY <1>1 DEF WorkZeroSocket
<1>3. /\ cur \in sessions \ rmKeys /\ cur \in Conn /\ sock[cur] # NoSock
      /\ handle[sock[cur]] # cur /\ peer[cur] = "gone"
  BY <1>1, <1>2 DEF TableSide, ClosingInTable, InTable
<1>4. TableSide'
  <2> USE DEF TableSide, osVars, sendVars, logicVars
  <2>1. SocketsOwned'
    BY <1>1, <1>2, <1>3 DEF SocketsOwned
  <2>2. ClosingInTable'
    BY <1>1, <1>2, <1>3 DEF ClosingInTable, InTable
  <2>3. MarkedClosed'
    BY <1>1, <1>2, <1>3 DEF MarkedClosed
  <2>4. CopyIsCurrent'
    BY <1>1, <1>2, <1>3 DEF CopyIsCurrent
  <2>5. PoppedIsDispatched' /\ SendCovers'
    BY <1>1, <1>2 DEF PoppedIsDispatched, SendCovers
  <2> QED BY <2>1, <2>2, <2>3, <2>4, <2>5
<1>5. QueueSide'
  <2>1. \A n : (InTable(n) => InTable(n)') /\ (Ended(n) => Ended(n)')
    BY <1>1, <1>2, <1>3 DEF InTable, Ended
  <2> QED BY <1>1, <1>2, <2>1, EndsKept DEF logicVars
<1>6. AcceptsOpen'
  <2>1. UNCHANGED <<packets, accepted, lpkt, handle>> /\ (lpkt' # NoPacket => lpc = "dispatch")
    BY <1>1, <1>2 DEF osVars, logicVars, TableSide, PoppedIsDispatched
  <2> QED BY <1>1, <2>1, AcceptsKept
<1>7. HandlesAccounted'
  <2>1. \A s \in Socket : sock[handle[s]] = s /\ handle[s] \in sessions
          => sock'[handle[s]] = s /\ handle[s] \in sessions'
    BY <1>1, <1>2, <1>3
  <2> QED BY <1>1, <1>2, <2>1, AccountedKept DEF osVars, eventVars, logicVars
<1> QED BY <1>4, <1>5, <1>6, <1>7 DEF Sides

\* The end is queued, once: until now the session had not ended.
LEMMA PushSides ==
  ASSUME SocketInv, WorkPushDisconnect
  PROVE  Sides'
<1>1. /\ TableInv /\ QueueSide /\ AcceptsOpen /\ HandlesAccounted /\ TableSide
      /\ sessions \subseteq Conn /\ rmKeys \subseteq sessions
      /\ lpkt \in Packet \cup {NoPacket}
  BY Known DEF SocketInv, Sides
<1>2. /\ UNCHANGED <<osVars, tableVars, eventVars, sendVars, accepted, fds, cur, logicVars>>
      /\ wpc = "push" /\ wpc' \in {"makeSet", "recv"}
      /\ packets' = Append(packets, ClientDisconnectPacket(cur))
  BY DEF WorkPushDisconnect
<1>3. /\ InTable(cur) /\ cur \in Conn /\ sock[cur] = NoSock
  BY <1>1, <1>2 DEF TableSide, ClosingInTable, InTable
<1>4. TableSide'
  <2> USE DEF TableSide, osVars, tableVars, sendVars, logicVars
  <2>1. SocketsOwned' /\ ClosingInTable' /\ MarkedClosed'
    BY <1>1, <1>2 DEF SocketsOwned, ClosingInTable, MarkedClosed
  <2>2. CopyIsCurrent'
    BY <1>1, <1>2 DEF CopyIsCurrent
  <2>3. PoppedIsDispatched' /\ SendCovers'
    BY <1>1, <1>2 DEF PoppedIsDispatched, SendCovers
  <2> QED BY <2>1, <2>2, <2>3
<1> PICK p \in Packet : p = ClientDisconnectPacket(cur)
  BY <1>3 DEF ClientDisconnectPacket, Packet, PacketKind
<1>5. p.kind = "clientDisconnect" /\ p.id = cur /\ packets' = Append(packets, p)
  BY <1>2 DEF ClientDisconnectPacket
<1>6. QueueSide'
  <2>1. \A n : (InTable(n) => InTable(n)') /\ (Ended(n) => Ended(n)')
    BY <1>2 DEF InTable, Ended, tableVars
  <2>2. ~Ended(p.id) /\ Ended(p.id)'
    BY <1>2, <1>3, <1>5 DEF InTable, Ended, tableVars
  <2> QED BY <1>1, <1>2, <1>5, <2>1, <2>2, EndsAppended DEF logicVars
<1>7. AcceptsOpen'
  <2>1. UNCHANGED <<accepted, lpkt, handle>> /\ (lpkt' # NoPacket => lpc = "dispatch")
    BY <1>1, <1>2 DEF osVars, logicVars, TableSide, PoppedIsDispatched
  <2> QED BY <1>1, <1>5, <2>1, AcceptsKept
<1>8. HandlesAccounted'
  BY <1>1, <1>2, <1>5, AccountedKept DEF osVars, tableVars, eventVars, logicVars
<1> QED BY <1>4, <1>6, <1>7, <1>8 DEF Sides

LEMMA WorkSides ==
  ASSUME SocketInv, Benign, Benign', WorkThread
  PROVE  Sides'
<1>1. CASE WorkCloseMiss
  <2>1. misses = 0 /\ misses' = 0 /\ wpc = "close"
    BY <1>1 DEF Benign, WorkCloseMiss
  <2>2. cur \in sessions
    BY <2>1 DEF SocketInv, Sides, TableSide, ClosingInTable, InTable
  <2> QED BY <1>1, <2>1, <2>2 DEF WorkCloseMiss
<1> QED BY <1>1, SelectSides, RecvDataSides, RecvEndSides, CloseSides, ZeroSides, PushSides
        DEF WorkThread

-----------------------------------------------------------------------------
(* The logic thread.                                                       *)

\* RemoveClientProcess deletes marked sessions, whose sockets are closed.
LEMMA MainLoopSides ==
  ASSUME SocketInv, LogicMainLoop
  PROVE  Sides'
<1>1. /\ TableInv /\ QueueSide /\ AcceptsOpen /\ HandlesAccounted /\ TableSide
      /\ sessions \subseteq Conn /\ rmKeys \subseteq sessions
      /\ sock \in [Conn -> Socket \cup {NoSock}] /\ handle \in [Socket -> Conn \cup {NoConn}]
      /\ lpkt \in Packet \cup {NoPacket}
  BY Known DEF SocketInv, Sides
<1>2. /\ UNCHANGED <<peer, sock, state, refused, sendVars, packets, accepted, workVars, lpkt>>
      /\ lpc = "mainLoop" /\ lpc' = "timer"
      /\ sessions' = sessions \ rmKeys /\ rmKeys' = {}
  BY DEF LogicMainLoop, RemoveClientProcess
<1>3. UNCHANGED handle
  <2>1. \A n \in rmKeys \cap sessions : sock[n] = NoSock
    BY <1>1 DEF TableSide, MarkedClosed
  <2>2. handle' = [s \in Socket |-> IF s \in {sock[n] : n \in rmKeys \cap sessions}
                                    THEN NoConn ELSE handle[s]]
    BY DEF LogicMainLoop, RemoveClientProcess, CloseHandles
  <2> QED BY <1>1, <2>1, <2>2, ServerConstants
<1>4. lpkt = NoPacket
  BY <1>1, <1>2 DEF TableSide, PoppedIsDispatched
<1>5. TableSide'
  <2> USE DEF TableSide, sendVars, workVars
  <2>1. SocketsOwned' /\ MarkedClosed'
    BY <1>1, <1>2, <1>3 DEF SocketsOwned, MarkedClosed
  <2>2. ClosingInTable'
    BY <1>1, <1>2, <1>3 DEF ClosingInTable, InTable
  <2>3. CopyIsCurrent'
    BY <1>1, <1>2 DEF CopyIsCurrent, MarkedClosed
  <2>4. PoppedIsDispatched' /\ SendCovers'
    BY <1>2, <1>4 DEF PoppedIsDispatched, SendCovers
  <2> QED BY <2>1, <2>2, <2>3, <2>4
<1>6. QueueSide'
  <2>1. \A n : (InTable(n) => InTable(n)') /\ (Ended(n) => Ended(n)')
    BY <1>1, <1>2 DEF InTable, Ended, workVars
  <2> QED BY <1>1, <1>2, <2>1, EndsKept
<1>7. AcceptsOpen'
  BY <1>1, <1>2, <1>3, <1>4, AcceptsKept
<1>8. HandlesAccounted'
  <2>1. \A s \in Socket : sock[handle[s]] = s /\ handle[s] \in sessions
          => sock'[handle[s]] = s /\ handle[s] \in sessions'
    BY <1>1, <1>2, ServerConstants DEF TableSide, MarkedClosed
  <2> QED BY <1>1, <1>2, <1>3, <2>1, AccountedKept
<1> QED BY <1>5, <1>6, <1>7, <1>8 DEF Sides

LEMMA TimerSides ==
  ASSUME SocketInv, LogicTimer \/ LogicNoTimer \/ LogicSendEnd
  PROVE  Sides'
<1>1. /\ UNCHANGED <<osVars, tableVars, eventVars, packets, accepted, workVars, lpkt>>
      /\ lpc' # "dispatch" /\ lpc # "dispatch"
      /\ lpc' = "send" => toSend' = sessions
  BY DEF LogicTimer, LogicNoTimer, LogicSendEnd, SendAllBegin, serverVars
<1>2. TableSide /\ lpkt = NoPacket
  BY <1>1 DEF SocketInv, Sides, TableSide, PoppedIsDispatched
<1>3. TableSide'
  <2> USE DEF TableSide, osVars, tableVars, workVars
  <2>1. SocketsOwned' /\ ClosingInTable' /\ MarkedClosed' /\ CopyIsCurrent'
    BY <1>1, <1>2 DEF SocketsOwned, ClosingInTable, MarkedClosed, CopyIsCurrent, InTable
  <2>2. PoppedIsDispatched' /\ SendCovers'
    BY <1>1, <1>2 DEF PoppedIsDispatched, SendCovers
  <2> QED BY <2>1, <2>2
<1>4. QueueSide' /\ AcceptsOpen' /\ HandlesAccounted'
  BY <1>1, <1>2, NothingQueued DEF osVars, tableVars, eventVars, workVars
<1> QED BY <1>3, <1>4 DEF Sides

\* SendAll leaves out only who has gone.
LEMMA SendSides ==
  ASSUME SocketInv, NEW n \in toSend, LogicSend(n)
  PROVE  Sides'
<1>1. /\ TableInv /\ QueueSide /\ AcceptsOpen /\ HandlesAccounted /\ TableSide
      /\ sessions \subseteq Conn /\ sock \in [Conn -> Socket \cup {NoSock}]
      /\ state \in [Conn -> SessionState] /\ lpkt \in Packet \cup {NoPacket}
  BY Known DEF SocketInv, Sides
<1>2. /\ UNCHANGED <<osVars, tableVars, eventVars, accepted, workVars, logicVars>>
      /\ lpc = "send" /\ toSend' = toSend \ {n}
      /\ \/ told' = told /\ packets' = packets /\ ~IsConnect(n)
         \/ told' = told \cup {n} /\ packets' = packets
         \/ told' = told /\ SendMayFail(sock[n])
            /\ packets' = Append(packets, InvalidDisconnectPacket(n))
  BY DEF LogicSend, SendAllNext
<1>3. lpkt = NoPacket /\ UNCHANGED <<handle, sock, sessions, rmKeys, wpc, cur, refused, lpkt>>
  BY <1>1, <1>2 DEF TableSide, PoppedIsDispatched, osVars, tableVars, eventVars, workVars,
                    logicVars
<1>4. TableSide'
  <2> USE DEF TableSide, osVars, tableVars, workVars, logicVars
  <2>1. SocketsOwned' /\ ClosingInTable' /\ MarkedClosed' /\ CopyIsCurrent'
    BY <1>1, <1>2 DEF SocketsOwned, ClosingInTable, MarkedClosed, CopyIsCurrent, InTable
  <2>2. PoppedIsDispatched'
    BY <1>1, <1>2 DEF PoppedIsDispatched
  <2>3. n \in sessions => IsConnect(n)
    BY <1>1 DEF SocketsOwned, IsConnect, SessionState
  <2>4. n \in sessions /\ SendMayFail(sock[n]) => peer[n] = "gone"
    BY <1>1, ServerConstants DEF SocketsOwned, ClosingInTable, SendMayFail, Valid
  <2>5. SendCovers'
    BY <1>1, <1>2, <2>3, <2>4 DEF SendCovers
  <2> QED BY <2>1, <2>2, <2>5
<1>5. packets' = packets
      \/ \E p \in Packet : p.kind = "invalid" /\ packets' = Append(packets, p)
  <2>1. CASE packets' = packets
    BY <2>1
  <2>2. CASE packets' = Append(packets, InvalidDisconnectPacket(n))
    <3>1. n \in Conn
      BY DEF SocketInv, TableInv, TypeOK
    <3>2. /\ InvalidDisconnectPacket(n) \in Packet
          /\ InvalidDisconnectPacket(n).kind = "invalid"
      BY <3>1 DEF InvalidDisconnectPacket, Packet, PacketKind
    <3> QED BY <2>2, <3>2
  <2> QED BY <1>2, <2>1, <2>2
<1>6. QueueSide'
  BY <1>1, <1>3, <1>5, EndedSame, EndsKept, EndsAppended
<1>7. AcceptsOpen'
  BY <1>1, <1>2, <1>3, <1>5, AcceptsKept
<1>8. HandlesAccounted'
  BY <1>1, <1>2, <1>3, <1>5, AccountedKept
<1> QED BY <1>4, <1>6, <1>7, <1>8 DEF Sides

\* The head of the queue becomes the packet that is dispatched.
LEMMA PopSides ==
  ASSUME SocketInv, LogicPop
  PROVE  Sides'
<1>1. /\ TableInv /\ QueueSide /\ AcceptsOpen /\ HandlesAccounted /\ TableSide
      /\ packets \in Seq(Packet) /\ lpkt \in Packet \cup {NoPacket}
  BY Known DEF SocketInv, Sides
<1>2. /\ UNCHANGED <<osVars, tableVars, eventVars, sendVars, accepted, workVars>>
      /\ lpc = "pop"
      /\ \/ packets' = packets /\ lpkt' = lpkt /\ lpc' = "mainLoop"
         \/ packets # <<>> /\ lpkt' = Head(packets) /\ packets' = Tail(packets)
            /\ lpc' = "dispatch"
  BY DEF LogicPop
<1>3. lpkt = NoPacket
  BY <1>1, <1>2 DEF TableSide, PoppedIsDispatched
<1>4. TableSide'
  <2> USE DEF TableSide, osVars, tableVars, sendVars, workVars
  <2>1. SocketsOwned' /\ ClosingInTable' /\ MarkedClosed' /\ CopyIsCurrent'
    BY <1>1, <1>2 DEF SocketsOwned, ClosingInTable, MarkedClosed, CopyIsCurrent, InTable
  <2>2. PoppedIsDispatched' /\ SendCovers'
    BY <1>1, <1>2, <1>3 DEF PoppedIsDispatched, SendCovers
  <2> QED BY <2>1, <2>2
<1>5. CASE UNCHANGED <<packets, lpkt>>
  <2>1. UNCHANGED <<accepted, handle, sessions, rmKeys, sock, wpc, cur, refused>>
    BY <1>2 DEF osVars, tableVars, eventVars, workVars
  <2>2. QueueSide' /\ AcceptsOpen' /\ HandlesAccounted'
    BY <1>3, <1>5, <2>1, NothingQueued
  <2> QED BY <1>4, <2>2 DEF Sides
<1>6. CASE packets # <<>> /\ lpkt' = Head(packets) /\ packets' = Tail(packets)
  <2> DEFINE n == Len(packets)
  <2>1. /\ n \in Nat /\ 1 \in 1..n /\ lpkt' = packets[1]
        /\ \A i \in 1..Len(packets') : i \in Nat /\ i + 1 \in 1..n /\ packets'[i] = packets[i + 1]
        /\ \A i \in 1..n : i # 1 => i - 1 \in 1..Len(packets') /\ packets'[i - 1] = packets[i]
    BY <1>1, <1>6
  <2> HIDE DEF n
  <2>2. /\ \A m : InTable(m)' <=> InTable(m)
        /\ \A m : Ended(m)' <=> Ended(m)
        /\ \A p : Opened(p)' <=> Opened(p)
    BY <1>2 DEF osVars, tableVars, workVars, InTable, Ended, Opened
  <2>3. EndsQueued'
    <3> SUFFICES ASSUME NEW i \in 1..Len(packets'), packets'[i].kind = "clientDisconnect"
                 PROVE  /\ Ended(packets[i].id)'
                        /\ \A j \in 1..Len(packets') : About(packets'[j], packets'[i].id) => j <= i
      BY DEF EndsQueued, About
    <3> DEFINE q == packets[i + 1]
    <3>1. packets'[i] = q /\ i + 1 \in 1..n /\ i \in Nat
      BY <2>1
    <3>2. Ended(q.id) /\ \A j \in 1..n : About(packets[j], q.id) => j <= i + 1
      BY <1>1, <3>1 DEF QueueSide, EndsQueued, n
    <3> HIDE DEF q
    <3>3. \A m : m = q.id => Ended(m)'
      BY <2>2, <3>2
    <3>4. Ended(packets[i].id)'
      BY <3>1, <3>3
    <3>5. ASSUME NEW j \in 1..Len(packets'), About(packets'[j], q.id)
          PROVE  j <= i
      BY <2>1, <3>1, <3>2, <3>5
    <3> QED BY <3>1, <3>4, <3>5
  <2>4. EndPopped'
    <3> SUFFICES ASSUME lpkt'.kind = "clientDisconnect"
                 PROVE  /\ Ended(lpkt.id)'
                        /\ \A j \in 1..Len(packets') : ~About(packets'[j], lpkt'.id)
      BY DEF EndPopped, About
    <3> DEFINE q == packets[1]
    <3>1. Ended(q.id) /\ \A j \in 1..n : About(packets[j], q.id) => j <= 1
      BY <1>1, <2>1 DEF QueueSide, EndsQueued, n
    <3> HIDE DEF q
    <3>2. \A m : m = q.id => Ended(m)'
      BY <2>2, <3>1
    <3>3. lpkt' = q
      BY <2>1 DEF q
    <3>4. Ended(lpkt.id)'
      BY <3>2, <3>3
    <3>5. ASSUME NEW j \in 1..Len(packets'), About(packets'[j], q.id)
          PROVE  FALSE
      BY <2>1, <3>1, <3>5
    <3> QED BY <3>3, <3>4, <3>5
  <2>5. DataQueued' /\ DataPopped'
    <3>1. \A i \in 1..n : packets[i].kind = "data" =>
            packets[i].id = packets[i].from /\ InTable(packets[i].id)
      BY <1>1 DEF QueueSide, DataQueued, n
    <3>2. UNCHANGED <<sessions, rmKeys>>
      BY <1>2 DEF tableVars
    <3> QED BY <2>1, <3>1, <3>2 DEF DataQueued, DataPopped, InTable
  <2>6. AcceptsOpen'
    <3>1. UNCHANGED <<handle, accepted>>
      BY <1>2 DEF osVars
    <3>2. \A i \in 1..n : Opened(packets[i])
      BY <1>1 DEF AcceptsOpen, n
    <3>3. lpkt' # NoPacket => Opened(lpkt)'
      BY <2>1, <3>1, <3>2 DEF Opened
    <3>4. \A i \in 1..Len(packets') : Opened(packets[i])'
      BY <2>1, <3>1, <3>2 DEF Opened
    <3> QED BY <1>1, <3>1, <3>3, <3>4 DEF AcceptsOpen, Opened
  <2>7. HandlesAccounted'
    <3> SUFFICES ASSUME NEW s \in Socket, handle'[s] \notin refused' \cup {NoConn}
                 PROVE  Accounted(s)'
      BY DEF HandlesAccounted
    <3>1. UNCHANGED <<handle, accepted, sock, sessions, refused>>
      BY <1>2 DEF osVars, tableVars, eventVars
    <3> DEFINE a == AcceptPacket(handle[s], s)
    <3>2. Accounted(s) /\ a' = a /\ a # NoPacket
      <4>1. "kind" \in DOMAIN a /\ DOMAIN NoPacket = {}
        BY DEF AcceptPacket, NoPacket
      <4>2. Accounted(s) /\ a' = a
        BY <1>1, <3>1 DEF HandlesAccounted, AcceptPacket
      <4> QED BY <4>1, <4>2
    <3>3. a = accepted \/ (\E i \in 1..n : packets[i] = a)
          \/ (sock[handle[s]] = s /\ handle[s] \in sessions)
      <4>1. Accounted(s) /\ a # lpkt
        BY <1>3, <3>2
      <4> QED BY <4>1 DEF Accounted, n
    <3> HIDE DEF a
    <3>4. a \in {accepted', lpkt'} \/ (\E i \in 1..Len(packets') : packets'[i] = a)
          \/ (sock[handle[s]] = s /\ handle[s] \in sessions)
      <4>1. CASE a = accepted \/ (sock[handle[s]] = s /\ handle[s] \in sessions)
        BY <3>1, <4>1
      <4>2. ASSUME NEW i \in 1..n, packets[i] = a
            PROVE  a = lpkt' \/ (\E j \in 1..Len(packets') : packets'[j] = a)
        BY <2>1, <4>2
      <4> QED BY <3>3, <4>1, <4>2
    <3> QED BY <3>1, <3>2, <3>4 DEF Accounted, a
  <2>8. QueueSide'
    BY <2>3, <2>4, <2>5 DEF QueueSide
  <2> QED BY <1>4, <2>6, <2>7, <2>8 DEF Sides
<1> QED BY <1>2, <1>5, <1>6

\* A packet is done with, or the certify server's answer is, and no session
\* changes its place.
LEMMA HandledSides ==
  ASSUME SocketInv,
         \/ DispatchInvalid \/ DispatchData
         \/ \E n \in asked : DispatchAckUserLogin(n)
  PROVE  Sides'
<1>1. /\ TableInv /\ QueueSide /\ AcceptsOpen /\ HandlesAccounted /\ TableSide
      /\ sessions \subseteq Conn /\ state \in [Conn -> SessionState]
      /\ lpkt \in Packet \cup {NoPacket}
  BY Known DEF SocketInv, Sides
<1>2. /\ UNCHANGED <<osVars, sendVars, packets, accepted, workVars, eventVars>>
      /\ UNCHANGED <<sessions, rmKeys, sock>>
      /\ lpc' = "mainLoop" /\ lpkt' = NoPacket
      /\ lpkt = NoPacket \/ lpkt.kind # "accept"
      /\ state' = state \/ \E n \in sessions : state' = [state EXCEPT ![n] = "LOGIN"]
  <2>1. CASE DispatchInvalid \/ DispatchData
    BY <2>1 DEF DispatchInvalid, DispatchData, Dispatched, tableVars
  <2>2. CASE \E n \in asked : DispatchAckUserLogin(n)
    BY <1>1, <2>2 DEF DispatchAckUserLogin, TableSide, PoppedIsDispatched
  <2> QED BY <2>1, <2>2
<1>3. TableSide'
  <2> USE DEF TableSide, osVars, sendVars, workVars
  <2>1. \A n \in sessions : state'[n] # "DISCONNECT"
    BY <1>1, <1>2 DEF SocketsOwned
  <2>2. SocketsOwned' /\ ClosingInTable' /\ MarkedClosed' /\ CopyIsCurrent'
    BY <1>1, <1>2, <2>1 DEF SocketsOwned, ClosingInTable, MarkedClosed, CopyIsCurrent, InTable
  <2>3. PoppedIsDispatched' /\ SendCovers'
    BY <1>2 DEF PoppedIsDispatched, SendCovers
  <2> QED BY <2>2, <2>3
<1>4. UNCHANGED <<sessions, rmKeys, sock, wpc, cur, handle, accepted, packets, refused>>
  BY <1>2 DEF osVars, workVars, eventVars
<1>5. QueueSide'
  BY <1>1, <1>2, <1>4, EndedSame, EndsKept
<1>6. AcceptsOpen'
  BY <1>1, <1>2, <1>4, AcceptsKept
<1>7. HandlesAccounted'
  BY <1>1, <1>2, <1>4, AccountedKept
<1> QED BY <1>3, <1>5, <1>6, <1>7 DEF Sides

\* A session is marked on its only CLIENT_DISCONNECT, behind which there is
\* nothing about it.
LEMMA DisconnectSides ==
  ASSUME SocketInv, DispatchDisconnect
  PROVE  Sides'
<1> DEFINE n == lpkt.id
<1>1. /\ TableInv /\ QueueSide /\ AcceptsOpen /\ HandlesAccounted /\ TableSide
      /\ sessions \subseteq Conn /\ state \in [Conn -> SessionState] /\ rmKeys \subseteq sessions
      /\ lpkt \in Packet /\ lpkt # NoPacket
  BY Known, NoPacketIsNone DEF SocketInv, Sides, DispatchDisconnect, Dispatched
<1>2. /\ lpc = "dispatch" /\ lpkt.kind = "clientDisconnect" /\ lpkt' = NoPacket
      /\ lpc' = "mainLoop" /\ Ended(n) /\ n \in Conn
      /\ \A j \in 1..Len(packets) : ~About(packets[j], n)
  BY <1>1, QueueElements DEF DispatchDisconnect, Dispatched, QueueSide, EndPopped
<1>3. /\ UNCHANGED <<peer, handle, told, toSend, packets, accepted, wpc, fds, cur>>
      /\ UNCHANGED <<sessions, sock, refused>>
      /\ rmKeys' = rmKeys \cup {n} /\ state' = [state EXCEPT ![n] = "LOGOUT_WAIT"]
  BY <1>2 DEF DispatchDisconnect, Dispatched, RemoveSession, Ended, InTable, osVars, sendVars,
              workVars, eventVars
<1> HIDE DEF n
<1>4. TableSide'
  <2> USE DEF TableSide
  <2>1. \A m \in sessions : state'[m] # "DISCONNECT"
    BY <1>1, <1>3 DEF SocketsOwned
  <2>2. SocketsOwned' /\ CopyIsCurrent'
    BY <1>1, <1>3, <2>1 DEF SocketsOwned, CopyIsCurrent
  <2>3. ClosingInTable'
    BY <1>1, <1>2, <1>3 DEF ClosingInTable, InTable, Ended
  <2>4. MarkedClosed'
    BY <1>1, <1>2, <1>3 DEF MarkedClosed, Ended
  <2>5. PoppedIsDispatched' /\ SendCovers'
    BY <1>2 DEF PoppedIsDispatched, SendCovers
  <2> QED BY <2>2, <2>3, <2>4, <2>5
<1>5. QueueSide'
  <2>1. ASSUME NEW m, m # n
        PROVE  (InTable(m) => InTable(m)') /\ (Ended(m) => Ended(m)')
    BY <1>3, <2>1 DEF InTable, Ended
  <2>2. \A i \in 1..Len(packets) :
          packets[i].kind \in {"data", "clientDisconnect"} => packets[i].id # n
    BY <1>2 DEF About
  <2> QED BY <1>1, <1>2, <1>3, <2>1, <2>2, EndsKept
<1>6. AcceptsOpen'
  BY <1>1, <1>2, <1>3, AcceptsKept
<1>7. HandlesAccounted'
  BY <1>1, <1>2, <1>3, AccountedKept
<1> QED BY <1>4, <1>5, <1>6, <1>7 DEF Sides

\* AddSession: the handle of the ACCEPT packet becomes the session's, or stays
\* with a connection that is refused.
LEMMA JoinSides ==
  ASSUME SocketInv, DispatchAccept
  PROVE  Sides'
<1> DEFINE c == lpkt.id
           s == lpkt.sock
<1>1. /\ TableInv /\ QueueSide /\ AcceptsOpen /\ HandlesAccounted /\ TableSide
      /\ sessions \subseteq Conn /\ state \in [Conn -> SessionState]
      /\ sock \in [Conn -> Socket \cup {NoSock}] /\ handle \in [Socket -> Conn \cup {NoConn}]
      /\ packets \in Seq(Packet) /\ accepted \in Packet \cup {NoPacket}
      /\ sessions \subseteq joined /\ lpkt \in Packet /\ lpkt # NoPacket
      /\ wpc \in {"close", "zero", "push"} => cur \in sessions
  BY Known, NoPacketIsNone
     DEF SocketInv, Sides, DispatchAccept, Dispatched, TableSide, ClosingInTable, InTable
<1>2. /\ lpc = "dispatch" /\ lpkt.kind = "accept" /\ lpkt' = NoPacket /\ lpc' = "mainLoop"
      /\ UNCHANGED <<peer, handle, told, toSend, packets, accepted, wpc, fds, cur>>
      /\ AddSession(c, s)
  BY DEF DispatchAccept, Dispatched, osVars, sendVars, workVars
<1>3. c \in Conn /\ s \in Socket /\ handle[s] = c /\ c \notin joined /\ rmKeys = {}
  BY <1>1, <1>2, QueueElements
     DEF AcceptsOpen, Opened, TableInv, AcceptOnce, AcceptPopped, RemovalsPending
<1> HIDE DEF c, s
<1>4. \/ /\ UNCHANGED <<sessions, rmKeys, sock, state>> /\ refused' = refused \cup {c}
      \/ /\ sessions' = sessions \cup {c} /\ rmKeys' = {} /\ refused' = refused
         /\ sock' = [sock EXCEPT ![c] = s]
         /\ state' = [state EXCEPT ![c] = IF LoginCheck THEN "LOGIN_WAIT" ELSE "LOGIN"]
  BY <1>2, <1>3 DEF AddSession, Refuse, Insert, tableVars
<1>5. /\ \A n \in sessions : n # c /\ sock'[n] = sock[n] /\ state'[n] = state[n]
      /\ sessions \subseteq sessions' /\ rmKeys' = {}
      /\ \A n \in sessions' : n \in sessions \/
           (n = c /\ sock'[n] = s /\ state'[n] # "DISCONNECT")
  <2>1. c \notin sessions /\ rmKeys = {}
    BY <1>1, <1>3
  <2>2. CASE UNCHANGED <<sessions, rmKeys, sock, state>>
    BY <2>1, <2>2
  <2>3. CASE /\ sessions' = sessions \cup {c} /\ rmKeys' = {}
             /\ sock' = [sock EXCEPT ![c] = s]
             /\ state' = [state EXCEPT ![c] = IF LoginCheck THEN "LOGIN_WAIT" ELSE "LOGIN"]
    <3>1. sock'[c] = s /\ state'[c] # "DISCONNECT"
      BY <1>1, <1>3, <2>3
    <3>2. \A n \in sessions : n # c /\ sock'[n] = sock[n] /\ state'[n] = state[n]
      BY <1>1, <2>1, <2>3
    <3> QED BY <2>3, <3>1, <3>2
  <2> QED BY <1>4, <2>2, <2>3
<1>6. TableSide'
  <2> USE DEF TableSide
  <2>1. SocketsOwned'
    BY <1>1, <1>2, <1>3, <1>5, ServerConstants DEF SocketsOwned
  <2>2. ClosingInTable'
    BY <1>1, <1>2, <1>3, <1>5 DEF ClosingInTable, InTable
  <2>3. MarkedClosed' /\ CopyIsCurrent'
    BY <1>1, <1>2, <1>5 DEF MarkedClosed, CopyIsCurrent
  <2>4. PoppedIsDispatched' /\ SendCovers'
    BY <1>2 DEF PoppedIsDispatched, SendCovers
  <2> QED BY <2>1, <2>2, <2>3, <2>4
<1>7. QueueSide'
  <2>1. ASSUME NEW n PROVE (InTable(n) => InTable(n)') /\ (Ended(n) => Ended(n)')
    BY <1>2, <1>3, <1>5 DEF InTable, Ended
  <2> QED BY <1>1, <1>2, <2>1, EndsKept
<1>8. AcceptsOpen'
  BY <1>1, <1>2, AcceptsKept
<1>9. HandlesAccounted'
  <2> SUFFICES ASSUME NEW t \in Socket, handle'[t] \notin refused' \cup {NoConn}
               PROVE  Accounted(t)'
    BY DEF HandlesAccounted
  <2>1. handle'[t] = handle[t] /\ Accounted(t)
    BY <1>1, <1>2, <1>4 DEF HandlesAccounted
  <2> DEFINE a == AcceptPacket(handle[t], t)
  <2>2. a' = a /\ a.id = handle[t] /\ a.sock = t
    BY <2>1 DEF AcceptPacket
  <2>3. \/ a \in {accepted, lpkt}
        \/ \E i \in 1..Len(packets) : packets[i] = a
        \/ sock[handle[t]] = t /\ handle[t] \in sessions
    BY <2>1 DEF Accounted
  <2> HIDE DEF a
  <2>4. CASE a = lpkt
    <3>1. handle[t] = c /\ t = s
      BY <2>2, <2>4 DEF c, s
    <3>2. sessions' = sessions \cup {c} /\ sock' = [sock EXCEPT ![c] = s]
      BY <1>4, <2>1, <3>1
    <3> QED BY <1>1, <1>3, <2>1, <3>1, <3>2 DEF Accounted
  <2>5. CASE a # lpkt
    <3>1. \/ a = accepted'
          \/ \E i \in 1..Len(packets') : packets'[i] = a
          \/ sock'[handle[t]] = t /\ handle[t] \in sessions'
      BY <1>2, <1>5, <2>3, <2>5
    <3> QED BY <2>1, <2>2, <3>1 DEF Accounted, a
  <2> QED BY <2>4, <2>5
<1> QED BY <1>6, <1>7, <1>8, <1>9 DEF Sides

LEMMA LogicSides ==
  ASSUME SocketInv, LogicThread
  PROVE  Sides'
BY MainLoopSides, TimerSides, SendSides, PopSides, HandledSides, DisconnectSides, JoinSides
   DEF LogicThread

-----------------------------------------------------------------------------
(* The theorems.                                                           *)

LEMMA StutterSides ==
  ASSUME SocketInv, UNCHANGED vars
  PROVE  Sides'
<1>1. UNCHANGED <<sessions, rmKeys, sock, state, wpc, cur, fds, told, toSend, peer, handle, lpkt,
                  lpc, packets, accepted, refused>>
  BY DEF vars, serverVars, osVars, tableVars, eventVars, sendVars, workVars, logicVars
<1>2. PoppedIsDispatched
  BY DEF SocketInv, Sides, TableSide
<1>3. TableSide'
  BY <1>1, <1>2, QuietSide DEF PoppedIsDispatched
<1>4. QueueSide' /\ AcceptsOpen' /\ HandlesAccounted'
  BY <1>1, <1>2, NothingQueued DEF PoppedIsDispatched
<1> QED BY <1>3, <1>4 DEF Sides

LEMMA SocketInvariant == Spec /\ []Benign => []SocketInv
<1>1. Init => SocketInv
  BY InitTable, InitSides DEF SocketInv
<1>2. SocketInv /\ Benign /\ Benign' /\ [Next]_vars => SocketInv'
  <2> SUFFICES ASSUME SocketInv, Benign, Benign', [Next]_vars PROVE SocketInv'
    OBVIOUS
  <2>1. TableInv'
    BY StepTable DEF SocketInv
  <2>2. Sides'
    BY ClientSides, AcceptSides, PushAcceptSides, WorkSides, LogicSides, StutterSides
       DEF Next, AcceptThread
  <2> QED BY <2>1, <2>2 DEF SocketInv
<1> QED BY <1>1, <1>2, PTL DEF Spec

\* No handle is leaked or shared: every open one is in the accept thread's hand,
\* in an ACCEPT packet or with its session, unless its connection was refused.
THEOREM HandlesAreAccounted == Spec /\ []Benign => []SocketsAccounted
<1>1. SocketInv => SocketsAccounted
  BY DEF SocketInv, Sides, TableSide, HandlesAccounted, Accounted, SocketsOwned,
         SocketsAccounted
<1> QED BY <1>1, SocketInvariant, PTL

\* The session whose socket the work thread is about to set to 0 is not deleted
\* by the logic thread meanwhile.
THEOREM NeverUsedAfterDelete == Spec /\ []Benign => []NoUseAfterDelete
<1>1. SocketInv => NoUseAfterDelete
  BY Known DEF SocketInv, Sides, TableSide, ClosingInTable, InTable, NoUseAfterDelete
<1> QED BY <1>1, SocketInvariant, PTL

\* A packet of a session, or its end, is handled while the session is there: the
\* end is queued once, behind all the session has sent.
THEOREM DispatchesFindSessions == Spec /\ []Benign => []DispatchFindsSession
<1>1. SocketInv => DispatchFindsSession
  BY DEF SocketInv, Sides, QueueSide, EndPopped, DataPopped, Ended, InTable,
         DispatchFindsSession
<1> QED BY <1>1, SocketInvariant, PTL

\* Bytes are attributed to the session whose client sent them, though handles
\* are closed and used again while the work thread has a copy of them.
THEOREM SendersAreOrigins == Spec /\ []Benign => []SenderIsOrigin
<1>1. SocketInv => SenderIsOrigin
  BY DEF SocketInv, Sides, QueueSide, DataQueued, DataPopped, SenderIsOrigin
<1> QED BY <1>1, SocketInvariant, PTL

\* A broadcast passes over a session only if its client has gone.
THEOREM BroadcastsAreComplete == Spec /\ []Benign => []BroadcastComplete
<1>1. SocketInv => BroadcastComplete
  BY DEF SocketInv, Sides, TableSide, SendCovers, BroadcastComplete
<1> QED BY <1>1, SocketInvariant, PTL

-----------------------------------------------------------------------------
(* The P2P host of UserLoopServer: type correctness.                       *)

LEMMA HostInitType == HostInit => HostTypeOK
  <1> SUFFICES ASSUME HostInit PROVE HostTypeOK
    OBVIOUS
  <1>1. packets \in Seq(Packet)
    BY EmptySeq DEF HostInit, ServerInit
  <1> QED
    BY <1>1, ServerConstants
    DEF HostInit, ServerInit, HostTypeOK, PeerState, SessionState, LoopState,
        Packet, Entry

LEMMA HostFdSetType ==
  ASSUME HostTypeOK, NEW F \in MakeFDSET
  PROVE  F \subseteq Entry
  BY DEF HostTypeOK, MakeFDSET, EntryOf, Entry

LEMMA HostClientType ==
  ASSUME HostTypeOK, HostClients
  PROVE  HostTypeOK'
  <1> PICK c \in Conn : ClientStep(c)
    BY DEF HostClients
  <1> USE DEF HostTypeOK, HostClients, tableVars, eventVars, sendVars
  <1>1. CASE Connect(c)
    BY <1>1 DEF Connect, PeerState
  <1>2. CASE ClientSend(c)
    BY <1>2 DEF ClientSend
  <1>3. CASE ClientClose(c)
    <2>1. [inbox EXCEPT ![c] = 0] \in [Conn -> Nat]
      OBVIOUS
    <2>2. inbox' \in [Conn -> Nat]
      BY <1>3, <2>1 DEF ClientClose
    <2>3. peer' \in [Conn -> PeerState]
      BY <1>3 DEF ClientClose, PeerState
    <2> QED
      BY <1>3, <2>2, <2>3 DEF ClientClose
  <1> QED
    BY <1>1, <1>2, <1>3 DEF ClientStep

\* What a dispatch takes off the queue, and what it leaves on it.
LEMMA HostTaken ==
  ASSUME HostTypeOK, NEW kind, Dispatch(kind)
  PROVE  /\ packets # <<>> /\ Len(packets) \in Nat \ {0}
         /\ packets[1] = Head(packets) /\ packets[1].kind = kind
         /\ packets[1].id \in Conn /\ packets[1].sock \in Socket \cup {NoSock}
         /\ packets' \in Seq(Packet) /\ Len(packets') = Len(packets) - 1
         /\ \A i \in 1..Len(packets') : packets'[i] = packets[i + 1]
         /\ UNCHANGED <<osVars, ready>> /\ pc = "dispatch"
  <1>1. packets \in Seq(Packet) /\ packets # <<>> /\ packets' = Tail(packets)
    BY DEF Dispatch, HostTypeOK
  <1>2. Head(packets) \in Packet /\ Len(packets) \in Nat \ {0}
    BY <1>1, HeadTailProperties, EmptySeq, LenProperties
  <1>3. packets[1] = Head(packets)
    BY <1>1
  <1> QED
    BY <1>1, <1>2, <1>3, HeadTailProperties DEF Dispatch, Packet

LEMMA HostLoopType ==
  ASSUME HostTypeOK, Loop
  PROVE  HostTypeOK'
  <1> USE DEF HostTypeOK, serverVars, osVars, tableVars, eventVars, sendVars,
              LoopState
  <1>1. CASE Broadcast
    BY <1>1, ServerConstants DEF Broadcast, SendAllBegin
  <1>2. CASE SendEnd
    BY <1>2 DEF SendEnd
  <1>3. ASSUME NEW n \in toSend, Send(n)
        PROVE  HostTypeOK'
    <2>1. InvalidDisconnectPacket(n) \in Packet
      BY DEF InvalidDisconnectPacket, Packet, PacketKind
    <2>2. Append(packets, InvalidDisconnectPacket(n)) \in Seq(Packet)
      BY <2>1, AppendElements
    <2>3. packets' \in Seq(Packet)
      BY <1>3, <2>2 DEF Send, SendAllNext
    <2> QED
      BY <1>3, <2>3 DEF Send, SendAllNext
  <1>4. CASE AcceptNone
    BY <1>4 DEF AcceptNone
  <1>5. ASSUME NEW c \in Conn, NEW s \in Socket, AcceptOne(c, s)
        PROVE  HostTypeOK'
    <2>1. packets' \in Seq(Packet)
      BY <1>5, PacketTypes, AppendElements DEF AcceptOne
    <2> QED
      BY <1>5, <2>1 DEF AcceptOne, AcceptOn, PeerState
  <1>6. CASE Select
    <2>1. ready' \subseteq Entry
      BY <1>6, HostFdSetType DEF Select, SelectReadable
    <2> QED
      BY <1>6, <2>1 DEF Select
  <1>7. ASSUME NEW e \in ready, ReceiveOne(e)
        PROVE  HostTypeOK'
    <2>1. /\ e.sock \in Socket /\ e.id \in Conn
          /\ handle[e.sock] \in Conn
      BY <1>7 DEF ReceiveOne, ReceiveData, Valid, Entry
    <2>2. packets' \in Seq(Packet)
      BY <1>7, <2>1, PacketTypes, AppendElements
      DEF ReceiveOne, ReceiveData
    <2>3. inbox' \in [Conn -> Nat]
      BY <1>7, <2>1 DEF ReceiveOne, ReceiveData
    <2> QED
      BY <1>7, <2>2, <2>3 DEF ReceiveOne, ReceiveData, NextEntry
  <1>8. ASSUME NEW e \in ready, CloseOne(e)
        PROVE  HostTypeOK'
    <2>1. e.id \in Conn
      BY DEF Entry
    <2>2. packets' \in Seq(Packet)
      BY <1>8, <2>1, PacketTypes, AppendElements DEF CloseOne
    <2> QED
      BY <1>8, <2>1, <2>2 DEF CloseOne, CloseHandles, NextEntry
  <1>9. CASE DispatchNothing
    BY <1>9 DEF DispatchNothing
  <1>10. CASE HostDispatchAccept
    <2>1. Dispatch("accept")
      BY <1>10 DEF HostDispatchAccept
    <2> DEFINE c == Head(packets).id
               s == Head(packets).sock
    <2>2. /\ c \in Conn /\ s \in Socket \cup {NoSock}
          /\ packets' \in Seq(Packet) /\ UNCHANGED <<osVars, ready>>
      BY <2>1, HostTaken
    <2>3. \/ Refuse(c) /\ pc' = "user" /\ UNCHANGED sendVars
          \/ Insert(c, s) /\ toSend' = sessions' /\ told' = {}
             /\ UNCHANGED ticks /\ pc' = "joined"
      BY <1>10 DEF HostDispatchAccept
    <2> HIDE DEF c, s
    <2>4. CASE Refuse(c) /\ pc' = "user" /\ UNCHANGED sendVars
      BY <2>2, <2>4 DEF Refuse
    <2>5. CASE Insert(c, s) /\ toSend' = sessions' /\ told' = {}
               /\ UNCHANGED ticks /\ pc' = "joined"
      BY <2>2, <2>5 DEF Insert, SessionState
    <2> QED
      BY <2>3, <2>4, <2>5
  <1>11. CASE HostDispatchDisconnect
    <2>1. Dispatch("clientDisconnect")
      BY <1>11 DEF HostDispatchDisconnect
    <2> DEFINE n == Head(packets).id
    <2>2. n \in Conn /\ packets' \in Seq(Packet) /\ UNCHANGED <<osVars, ready>>
      BY <2>1, HostTaken
    <2>3. RemoveSession(n) /\ pc' = "user" /\ UNCHANGED sendVars
      BY <1>11 DEF HostDispatchDisconnect
    <2> HIDE DEF n
    <2> QED
      BY <2>2, <2>3 DEF RemoveSession, SessionState
  <1>12. CASE HostDispatchInvalid
    BY <1>12, HostTaken DEF HostDispatchInvalid, Dispatch
  <1>13. CASE HostDispatchData
    BY <1>13, HostTaken DEF HostDispatchData, Dispatch
  <1> QED
    BY <1>1, <1>2, <1>3, <1>4, <1>5, <1>6, <1>7, <1>8, <1>9, <1>10, <1>11,
       <1>12, <1>13 DEF Loop

LEMMA HostStepType == HostTypeOK /\ [HostNext]_hostVars => HostTypeOK'
  <1>1. CASE UNCHANGED hostVars
    BY <1>1 DEF hostVars, serverVars, osVars, tableVars, eventVars, sendVars,
                HostTypeOK
  <1> QED
    BY <1>1, HostClientType, HostLoopType DEF HostNext

\* Every variable of the host keeps its type: Proc receives no packet that was
\* not sent and queues none for a session it does not have a netid of.
THEOREM HostTypeCorrect == HostSpec => []HostTypeOK
  BY HostInitType, HostStepType, PTL DEF HostSpec

-----------------------------------------------------------------------------
(* The host's closed sockets and the joins that clear them.                *)

\* A CLIENT_DISCONNECT of n is still on the queue.
Announced(n) == \E i \in 1..Len(packets) : packets[i] = ClientDisconnectPacket(n)

\* A session whose socket is closed is marked for removal, or its disconnect is
\* still queued; the sockets in ACCEPT packets are sockets.
ClosedAnnounced ==
  /\ \A n \in sessions \ rmKeys : sock[n] = NoSock => Announced(n)
  /\ \A i \in 1..Len(packets) :
       packets[i].kind = "accept" => packets[i].sock \in Socket

\* A packet that is queued goes behind the others.
LEMMA HostQueued ==
  ASSUME HostTypeOK, NEW x \in Packet, packets' = Append(packets, x)
  PROVE  /\ Len(packets) \in Nat /\ Len(packets') = Len(packets) + 1
         /\ \A i \in 1..Len(packets) : packets'[i] = packets[i]
         /\ packets'[Len(packets) + 1] = x
         /\ \A n : Announced(n) => Announced(n)'
  <1>1. packets \in Seq(Packet)
    BY DEF HostTypeOK
  <1>2. /\ Len(packets) \in Nat /\ Len(packets') = Len(packets) + 1
        /\ \A i \in 1..Len(packets) : packets'[i] = packets[i]
        /\ packets'[Len(packets) + 1] = x
    BY <1>1, AppendElements, LenProperties
  <1>3. \A n : Announced(n) => Announced(n)'
    BY <1>2 DEF Announced, ClientDisconnectPacket
  <1> QED
    BY <1>2, <1>3

\* Queueing packets keeps it, if the sockets in ACCEPT packets are sockets.
LEMMA HostQueuedClosed ==
  ASSUME HostTypeOK, ClosedAnnounced, UNCHANGED <<sessions, rmKeys, sock>>,
         \/ UNCHANGED packets
         \/ \E x \in Packet : /\ packets' = Append(packets, x)
                              /\ x.kind = "accept" => x.sock \in Socket
  PROVE  ClosedAnnounced'
  <1>1. CASE UNCHANGED packets
    BY <1>1 DEF ClosedAnnounced, Announced
  <1>2. ASSUME NEW x \in Packet, packets' = Append(packets, x),
               x.kind = "accept" => x.sock \in Socket
        PROVE  ClosedAnnounced'
    <2>1. \A i \in 1..Len(packets') : i \in 1..Len(packets) \/ i = Len(packets) + 1
      BY <1>2, HostQueued
    <2>2. \A i \in 1..Len(packets') :
            packets'[i].kind = "accept" => packets'[i].sock \in Socket
      BY <1>2, <2>1, HostQueued DEF ClosedAnnounced
    <2> QED
      BY <1>2, <2>2, HostQueued DEF ClosedAnnounced
  <1> QED
    BY <1>1, <1>2

\* Taking the head off the queue loses the announcement of its own netid only.
LEMMA HostTakenClosed ==
  ASSUME HostTypeOK, ClosedAnnounced, NEW kind, Dispatch(kind)
  PROVE  /\ \A i \in 1..Len(packets') :
              packets'[i].kind = "accept" => packets'[i].sock \in Socket
         /\ \A n : Announced(n) =>
              \/ Announced(n)'
              \/ kind = "clientDisconnect" /\ n = Head(packets).id
  <1>1. \A i \in 1..Len(packets') :
          i \in Nat /\ i + 1 \in 1..Len(packets) /\ packets'[i] = packets[i + 1]
    BY HostTaken
  <1>2. \A i \in 1..Len(packets') :
          packets'[i].kind = "accept" => packets'[i].sock \in Socket
    BY <1>1 DEF ClosedAnnounced
  <1>3. ASSUME NEW n, Announced(n),
               ~(kind = "clientDisconnect" /\ n = Head(packets).id)
        PROVE  Announced(n)'
    <2>1. PICK i \in 1..Len(packets) : packets[i] = ClientDisconnectPacket(n)
      BY <1>3 DEF Announced
    <2>2. packets[i].kind = "clientDisconnect" /\ packets[i].id = n
      BY <2>1 DEF ClientDisconnectPacket
    <2>3. i # 1
      BY <1>3, <2>2, HostTaken
    <2>4. i - 1 \in 1..Len(packets') /\ packets'[i - 1] = packets[i]
      <3>1. /\ Len(packets) \in Nat /\ Len(packets') = Len(packets) - 1
            /\ \A j \in 1..Len(packets') : packets'[j] = packets[j + 1]
        BY HostTaken
      <3>2. i - 1 \in 1..Len(packets')
        BY <2>3, <3>1
      <3>3. packets'[i - 1] = packets[i - 1 + 1] /\ i - 1 + 1 = i
        BY <3>1, <3>2
      <3> QED
        BY <3>2, <3>3
    <2> QED
      BY <2>1, <2>4 DEF Announced, ClientDisconnectPacket
  <1> QED
    BY <1>2, <1>3

LEMMA HostStepClosed ==
  ASSUME HostTypeOK, ClosedAnnounced, [HostNext]_hostVars
  PROVE  ClosedAnnounced'
  <1> USE DEF serverVars, osVars, tableVars, eventVars, sendVars
  <1>1. CASE UNCHANGED hostVars
    BY <1>1, HostQueuedClosed DEF hostVars
  <1>2. CASE HostClients
    BY <1>2, HostQueuedClosed
    DEF HostClients, ClientStep, Connect, ClientSend, ClientClose
  <1>3. CASE Broadcast \/ SendEnd \/ AcceptNone \/ Select \/ DispatchNothing
    BY <1>3, HostQueuedClosed
    DEF Broadcast, SendEnd, AcceptNone, Select, DispatchNothing
  <1>4. ASSUME NEW n \in toSend, Send(n)
        PROVE  ClosedAnnounced'
    <2>1. /\ InvalidDisconnectPacket(n) \in Packet
          /\ InvalidDisconnectPacket(n).kind # "accept"
      BY DEF InvalidDisconnectPacket, Packet, PacketKind, HostTypeOK
    <2>2. /\ UNCHANGED <<sessions, rmKeys, sock>>
          /\ \/ UNCHANGED packets
             \/ packets' = Append(packets, InvalidDisconnectPacket(n))
      BY <1>4 DEF Send, SendAllNext
    <2> QED
      BY <2>1, <2>2, HostQueuedClosed
  <1>5. ASSUME NEW c \in Conn, NEW s \in Socket, AcceptOne(c, s)
        PROVE  ClosedAnnounced'
    <2>1. AcceptPacket(c, s) \in Packet /\ AcceptPacket(c, s).sock = s
      BY PacketTypes DEF AcceptPacket
    <2>2. /\ UNCHANGED <<sessions, rmKeys, sock>>
          /\ packets' = Append(packets, AcceptPacket(c, s))
      BY <1>5 DEF AcceptOne
    <2> QED
      BY <2>1, <2>2, HostQueuedClosed
  <1>6. ASSUME NEW e \in ready, ReceiveOne(e)
        PROVE  ClosedAnnounced'
    <2>1. e.id \in Conn /\ e.sock \in Socket /\ handle[e.sock] \in Conn
      BY <1>6 DEF ReceiveOne, ReceiveData, Valid, Entry, HostTypeOK
    <2>2. /\ DataPacket(e.id, handle[e.sock]) \in Packet
          /\ DataPacket(e.id, handle[e.sock]).kind # "accept"
      BY <2>1, PacketTypes DEF DataPacket
    <2>3. /\ UNCHANGED <<sessions, rmKeys, sock>>
          /\ packets' = Append(packets, DataPacket(e.id, handle[e.sock]))
      BY <1>6 DEF ReceiveOne, ReceiveData
    <2> QED
      BY <2>2, <2>3, HostQueuedClosed
  <1>7. ASSUME NEW e \in ready, CloseOne(e)
        PROVE  ClosedAnnounced'
    <2> DEFINE x == ClientDisconnectPacket(e.id)
    <2>1. x \in Packet /\ x.kind # "accept"
      BY PacketTypes DEF ClientDisconnectPacket, HostTypeOK, Entry
    <2>2. /\ UNCHANGED <<sessions, rmKeys>> /\ packets' = Append(packets, x)
          /\ \A n \in Conn : n # e.id => sock'[n] = sock[n]
      BY <1>7 DEF CloseOne, HostTypeOK
    <2>3. \A i \in 1..Len(packets') : i \in 1..Len(packets) \/ i = Len(packets) + 1
      BY <2>1, <2>2, HostQueued
    <2>4. Announced(e.id)'
      <3>1. Len(packets') \in 1..Len(packets') /\ packets'[Len(packets')] = x
        BY <2>1, <2>2, HostQueued
      <3> QED
        BY <3>1 DEF Announced, ClientDisconnectPacket
    <2>5. ASSUME NEW n \in sessions \ rmKeys, sock'[n] = NoSock
          PROVE  Announced(n)'
      <3>1. CASE n = e.id
        BY <2>4, <3>1
      <3>2. CASE n # e.id
        BY <2>1, <2>2, <2>5, <3>2, HostQueued DEF ClosedAnnounced, HostTypeOK
      <3> QED
        BY <3>1, <3>2
    <2>6. \A i \in 1..Len(packets') :
            packets'[i].kind = "accept" => packets'[i].sock \in Socket
      BY <2>1, <2>2, <2>3, HostQueued DEF ClosedAnnounced
    <2> QED
      BY <2>2, <2>5, <2>6 DEF ClosedAnnounced
  <1>8. CASE HostDispatchAccept
    <2> DEFINE c == Head(packets).id
               s == Head(packets).sock
    <2>1. Dispatch("accept") /\ c \in Conn /\ s \in Socket
      <3>1. Dispatch("accept")
        BY <1>8 DEF HostDispatchAccept
      <3>2. 1 \in 1..Len(packets)
        BY <3>1, HostTaken
      <3> QED
        BY <3>1, <3>2, HostTaken DEF ClosedAnnounced
    <2>2. Refuse(c) \/ Insert(c, s)
      BY <1>8 DEF HostDispatchAccept
    <2> HIDE DEF c, s
    <2>3. CASE Refuse(c)
      BY <2>1, <2>3, HostTakenClosed DEF Refuse, ClosedAnnounced
    <2>4. CASE Insert(c, s)
      <3>1. /\ sessions' = (sessions \ rmKeys) \cup {c} /\ sock'[c] = s
            /\ \A n \in Conn : n # c => sock'[n] = sock[n]
        BY <2>1, <2>4 DEF Insert, HostTypeOK
      <3>2. \A n \in sessions' : sock'[n] = NoSock => Announced(n)'
        BY <2>1, <3>1, HostTakenClosed, ServerConstants
        DEF ClosedAnnounced, HostTypeOK
      <3> QED
        BY <2>1, <3>2, HostTakenClosed DEF ClosedAnnounced
    <2> QED
      BY <2>2, <2>3, <2>4
  <1>9. CASE HostDispatchDisconnect
    <2>1. Dispatch("clientDisconnect")
      BY <1>9 DEF HostDispatchDisconnect
    <2>2. /\ UNCHANGED <<sessions, sock>> /\ rmKeys \subseteq rmKeys'
          /\ Head(packets).id \in sessions => Head(packets).id \in rmKeys'
      BY <1>9 DEF HostDispatchDisconnect, RemoveSession
    <2> QED
      BY <2>1, <2>2, HostTakenClosed DEF ClosedAnnounced
  <1>10. CASE HostDispatchInvalid \/ HostDispatchData
    <2>1. Dispatch("invalid") \/ Dispatch("data")
      BY <1>10 DEF HostDispatchInvalid, HostDispatchData
    <2>2. UNCHANGED <<sessions, rmKeys, sock>>
      BY <1>10 DEF HostDispatchInvalid, HostDispatchData
    <2> QED
      BY <2>1, <2>2, HostTakenClosed DEF ClosedAnnounced
  <1> QED
    BY <1>1, <1>2, <1>3, <1>4, <1>5, <1>6, <1>7, <1>8, <1>9, <1>10
    DEF HostNext, Loop

\* Only an insert raises OnClientJoin, and it leaves no removal pending.
LEMMA HostJoins ==
  ASSUME [HostNext]_hostVars, joined' # joined
  PROVE  rmKeys' = {}
  <1> USE DEF serverVars, osVars, tableVars, eventVars, sendVars
  <1>1. ~UNCHANGED hostVars
    BY DEF hostVars
  <1>2. ~HostClients
    BY DEF HostClients, ClientStep, Connect, ClientSend, ClientClose
  <1>3. /\ ~Broadcast /\ ~SendEnd /\ ~AcceptNone /\ ~Select /\ ~DispatchNothing
        /\ \A n : ~Send(n) /\ \A c, s : ~AcceptOne(c, s)
        /\ \A e : ~ReceiveOne(e) /\ ~CloseOne(e)
    BY DEF Broadcast, SendEnd, AcceptNone, Select, DispatchNothing, Send,
           AcceptOne, ReceiveOne, CloseOne
  <1>4. ~HostDispatchDisconnect /\ ~HostDispatchInvalid /\ ~HostDispatchData
    BY DEF HostDispatchDisconnect, RemoveSession, HostDispatchInvalid,
           HostDispatchData
  <1>5. HostDispatchAccept
    BY <1>1, <1>2, <1>3, <1>4 DEF HostNext, Loop
  <1> QED
    BY <1>5 DEF HostDispatchAccept, Refuse, Insert

\* The insert of a new session clears every closed socket but those whose
\* disconnect is still to be dispatched: what keeps select() failing, and the
\* host deaf, is gone with the next join.
THEOREM JoinsClearClosed == HostSpec => JoinClearsClosed
  <1>1. HostInit => ClosedAnnounced
    BY DEF HostInit, ServerInit, ClosedAnnounced
  <1>2. HostTypeOK /\ ClosedAnnounced /\ [HostNext]_hostVars => ClosedAnnounced'
    BY HostStepClosed
  <1>3. ClosedAnnounced' /\ [HostNext]_hostVars =>
          [joined' # joined =>
             \A n \in sessions' : sock'[n] = NoSock =>
               \E i \in 1..Len(packets') :
                 packets'[i] = ClientDisconnectPacket(n)]_hostVars
    BY HostJoins DEF ClosedAnnounced, Announced
  <1> QED
    BY <1>1, <1>2, <1>3, HostTypeCorrect, PTL DEF HostSpec, JoinClearsClosed

-----------------------------------------------------------------------------
(* The announcement of a join, as long as the sessions fit into a set of   *)
(* select().  With more of them an entry of the set has the socket of one  *)
(* session and the netid of another: the host closes the wrong socket and  *)
(* the announcement passes over a client that is still there.              *)

\* A connection in an ACCEPT packet has left the backlog and is no session yet;
\* it is in one packet, with the handle that designates it.
AcceptsWait ==
  /\ \A i \in 1..Len(packets) : packets[i].kind = "accept" =>
       /\ peer[packets[i].id] \in {"open", "gone"}
       /\ packets[i].id \notin sessions
       /\ packets[i].sock \in Socket
       /\ handle[packets[i].sock] = packets[i].id
  /\ \A i, j \in 1..Len(packets) :
       /\ packets[i].kind = "accept" /\ packets[j].kind = "accept"
       /\ packets[i].id = packets[j].id
       => i = j

\* The socket of a session is closed or designates its own connection, and it
\* is only closed when the client has gone.
SessionsOwn ==
  \A n \in sessions :
    /\ peer[n] \in {"open", "gone"}
    /\ IsConnect(n)
    /\ sock[n] \in Socket => handle[sock[n]] = n
    /\ sock[n] = NoSock => peer[n] = "gone"

\* The entries left to receive from are those of sessions.
ReadyAreSessions ==
  /\ pc # "recv" => ready = {}
  /\ \A e \in ready : e.id \in sessions /\ e.sock \in Socket /\ sock[e.id] = e.sock

\* Whom the announcement has not come to yet is still to come.
TellingAll ==
  /\ toSend \subseteq sessions
  /\ pc = "joined" =>
       \A n \in sessions : n \in toSend \/ n \in told \/ peer[n] = "gone"

HostInv ==
  /\ HostTypeOK /\ AcceptsWait /\ SessionsOwn /\ ReadyAreSessions /\ TellingAll
  /\ refused = {}

\* Clients go away and do not come back.
PeersGoOn ==
  \A c \in Conn : /\ peer[c] \in {"open", "gone"} => peer'[c] \in {"open", "gone"}
                  /\ peer[c] = "gone" => peer'[c] = "gone"

LEMMA HostPackets ==
  ASSUME HostTypeOK
  PROVE  \A i \in 1..Len(packets) : packets[i].id \in Conn
  <1>1. \A i \in 1..Len(packets) : packets[i] \in Packet
    BY ElementOfSeq DEF HostTypeOK
  <1> QED
    BY <1>1 DEF Packet

\* Queueing anything but an ACCEPT keeps the waiting ones.
LEMMA HostQueuedWait ==
  ASSUME HostTypeOK, AcceptsWait, PeersGoOn, UNCHANGED <<sessions, handle>>,
         \/ UNCHANGED packets
         \/ \E x \in Packet : packets' = Append(packets, x) /\ x.kind # "accept"
  PROVE  AcceptsWait'
  <1>1. \A i \in 1..Len(packets) : packets[i].id \in Conn
    BY HostPackets
  <1>2. CASE UNCHANGED packets
    BY <1>1, <1>2 DEF AcceptsWait, PeersGoOn
  <1>3. ASSUME NEW x \in Packet, packets' = Append(packets, x), x.kind # "accept"
        PROVE  AcceptsWait'
    <2>1. \A i \in 1..Len(packets') : packets'[i].kind = "accept" =>
            i \in 1..Len(packets) /\ packets'[i] = packets[i]
      BY <1>3, HostQueued
    <2> QED
      BY <1>1, <2>1 DEF AcceptsWait, PeersGoOn
  <1> QED
    BY <1>2, <1>3

\* The sessions stay what they are when nothing of theirs changes.
LEMMA HostSessionsSame ==
  ASSUME HostTypeOK, SessionsOwn, PeersGoOn, UNCHANGED <<sessions, handle, sock, state>>
  PROVE  SessionsOwn'
  BY DEF SessionsOwn, PeersGoOn, HostTypeOK, IsConnect

\* A dispatch of anything but an ACCEPT keeps those that wait.
LEMMA HostTakenWait ==
  ASSUME HostTypeOK, AcceptsWait, NEW kind, Dispatch(kind),
         \A n \in sessions' : \/ n \in sessions
                              \/ kind = "accept" /\ n = Head(packets).id
  PROVE  AcceptsWait'
  <1>1. /\ \A i \in 1..Len(packets') :
             i \in Nat /\ i + 1 \in 1..Len(packets) /\ packets'[i] = packets[i + 1]
        /\ packets[1] = Head(packets) /\ packets[1].kind = kind
        /\ 1 \in 1..Len(packets) /\ UNCHANGED <<peer, handle>>
    BY HostTaken DEF osVars
  <1>2. ASSUME NEW i \in 1..Len(packets'), packets'[i].kind = "accept"
        PROVE  /\ peer'[packets'[i].id] \in {"open", "gone"}
               /\ packets'[i].id \notin sessions'
               /\ packets'[i].sock \in Socket
               /\ handle'[packets'[i].sock] = packets'[i].id
    <2>1. i + 1 \in 1..Len(packets) /\ packets'[i] = packets[i + 1] /\ i + 1 # 1
      BY <1>1
    <2>2. packets'[i].id \notin sessions
      BY <1>2, <2>1 DEF AcceptsWait
    <2>3. kind = "accept" => packets'[i].id # Head(packets).id
      BY <1>1, <1>2, <2>1 DEF AcceptsWait
    <2> QED
      BY <1>1, <1>2, <2>1, <2>2, <2>3 DEF AcceptsWait
  <1>3. ASSUME NEW i \in 1..Len(packets'), NEW j \in 1..Len(packets'),
               packets'[i].kind = "accept", packets'[j].kind = "accept",
               packets'[i].id = packets'[j].id
        PROVE  i = j
    <2>1. i + 1 = j + 1
      BY <1>1, <1>3 DEF AcceptsWait
    <2> QED
      BY <1>1, <2>1
  <1> QED
    BY <1>2, <1>3 DEF AcceptsWait

LEMMA HostInitInv == HostInit => HostInv
  <1> SUFFICES ASSUME HostInit PROVE HostInv
    OBVIOUS
  <1>1. packets = <<>> /\ sessions = {} /\ toSend = {} /\ ready = {} /\ refused = {}
        /\ pc = "user"
    BY DEF HostInit, ServerInit
  <1>2. 1..Len(packets) = {}
    BY <1>1
  <1> QED
    BY <1>1, <1>2, HostInitType
    DEF HostInv, AcceptsWait, SessionsOwn, ReadyAreSessions, TellingAll

LEMMA HostClientInv ==
  ASSUME HostInv, HostClients
  PROVE  HostInv'
  <1>1. HostTypeOK'
    BY HostClientType DEF HostInv
  <1>2. UNCHANGED <<handle, tableVars, eventVars, sendVars, packets, pc, ready>>
    BY DEF HostClients, ClientStep, Connect, ClientSend, ClientClose
  <1>3. PeersGoOn
    BY DEF HostInv, HostTypeOK, HostClients, ClientStep, Connect, ClientSend,
           ClientClose, PeersGoOn
  <1>4. AcceptsWait'
    BY <1>2, <1>3, HostQueuedWait DEF HostInv, tableVars
  <1>5. SessionsOwn'
    BY <1>2, <1>3, HostSessionsSame DEF HostInv, tableVars
  <1>6. ReadyAreSessions'
    BY <1>2 DEF HostInv, ReadyAreSessions, tableVars
  <1>7. TellingAll'
    BY <1>2, <1>3 DEF HostInv, HostTypeOK, TellingAll, PeersGoOn, tableVars, sendVars
  <1> QED
    BY <1>1, <1>2, <1>4, <1>5, <1>6, <1>7 DEF HostInv, eventVars

\* The steps between the calls of the system and the dispatch, with those of
\* an announcement.
LEMMA HostTellInv ==
  ASSUME HostInv,
         \/ Broadcast \/ SendEnd \/ AcceptNone \/ DispatchNothing
         \/ \E n \in toSend : Send(n)
  PROVE  HostInv'
  <1> USE DEF serverVars, osVars, tableVars, eventVars, sendVars
  <1>1. HostTypeOK'
    BY HostLoopType DEF HostInv, Loop
  <1>2. UNCHANGED <<peer, handle, tableVars, eventVars, ready>>
    BY DEF Broadcast, SendEnd, AcceptNone, DispatchNothing, Send
  <1>3. PeersGoOn
    BY <1>2 DEF PeersGoOn
  <1>4. \/ UNCHANGED packets
        \/ \E x \in Packet : packets' = Append(packets, x) /\ x.kind # "accept"
    <2>1. \A n \in toSend : /\ InvalidDisconnectPacket(n) \in Packet
                            /\ InvalidDisconnectPacket(n).kind # "accept"
      BY DEF InvalidDisconnectPacket, Packet, PacketKind, HostInv, HostTypeOK
    <2> QED
      BY <2>1 DEF Broadcast, SendEnd, AcceptNone, DispatchNothing, Send, SendAllNext
  <1>5. AcceptsWait'
    BY <1>2, <1>3, <1>4, HostQueuedWait DEF HostInv
  <1>6. SessionsOwn'
    BY <1>2, <1>3, HostSessionsSame DEF HostInv
  <1>7. ReadyAreSessions'
    BY <1>2 DEF HostInv, ReadyAreSessions, Broadcast, SendEnd, AcceptNone,
                DispatchNothing, Send
  <1>8. TellingAll'
    <2>1. CASE Broadcast \/ SendEnd \/ AcceptNone \/ DispatchNothing
      BY <1>2, <2>1
      DEF HostInv, TellingAll, Broadcast, SendAllBegin, SendEnd, AcceptNone,
          DispatchNothing
    <2>2. ASSUME NEW n \in toSend, Send(n)
          PROVE  TellingAll'
      <3>1. n \in sessions /\ IsConnect(n) /\ sock[n] \in Socket \cup {NoSock}
        BY DEF HostInv, HostTypeOK, TellingAll, SessionsOwn
      <3>2. Valid(sock[n]) => handle[sock[n]] = n
        BY <3>1 DEF Valid, HostInv, SessionsOwn
      <3>3. ~Valid(sock[n]) => peer[n] = "gone"
        BY <3>1, ServerConstants DEF Valid, HostInv, HostTypeOK, SessionsOwn
      <3>4. /\ toSend' = toSend \ {n} /\ pc' = pc
            /\ told' = told \cup {n} \/ (told' = told /\ SendMayFail(sock[n]))
        BY <2>2, <3>1 DEF Send, SendAllNext
      <3>5. told' = told \cup {n} \/ (told' = told /\ peer[n] = "gone")
        BY <3>2, <3>3, <3>4 DEF SendMayFail
      <3> QED
        BY <1>2, <3>4, <3>5 DEF HostInv, TellingAll
    <2> QED
      BY <2>1, <2>2
  <1> QED
    BY <1>1, <1>2, <1>5, <1>6, <1>7, <1>8 DEF HostInv

LEMMA HostAcceptInv ==
  ASSUME HostInv, NEW c \in Conn, NEW s \in Socket, AcceptOne(c, s)
  PROVE  HostInv'
  <1>1. HostTypeOK'
    BY HostLoopType DEF HostInv, Loop
  <1>2. /\ peer[c] = "backlog" /\ handle[s] = NoConn
        /\ peer' = [peer EXCEPT ![c] = "open"]
        /\ handle' = [handle EXCEPT ![s] = c]
        /\ packets' = Append(packets, AcceptPacket(c, s))
        /\ pc = "accept" /\ pc' = "select"
        /\ UNCHANGED <<tableVars, eventVars, sendVars, ready>>
    BY DEF AcceptOne, AcceptOn
  <1>3. HostTypeOK /\ AcceptPacket(c, s) \in Packet
    BY PacketTypes DEF HostInv
  <1>4. PeersGoOn
    BY <1>2, <1>3 DEF PeersGoOn, HostTypeOK
  <1>5. \A n \in sessions : n # c
    BY <1>2 DEF HostInv, SessionsOwn
  <1>6. \A n \in sessions : sock[n] \in Socket => sock[n] # s
    BY <1>2, <1>3, ServerConstants DEF HostInv, HostTypeOK, SessionsOwn
  <1>7. SessionsOwn'
    BY <1>2, <1>3, <1>4, <1>6
    DEF HostInv, HostTypeOK, SessionsOwn, PeersGoOn, IsConnect, tableVars
  <1>8. AcceptsWait'
    <2>1. \A i \in 1..Len(packets) : packets[i].id \in Conn
      BY <1>3, HostPackets
    <2>2. \A i \in 1..Len(packets) : packets[i].kind = "accept" =>
            packets[i].id # c /\ packets[i].sock # s
      BY <1>2, <2>1, ServerConstants DEF HostInv, AcceptsWait
    <2>3. \A i \in 1..Len(packets') :
            \/ i \in 1..Len(packets) /\ packets'[i] = packets[i]
            \/ i = Len(packets) + 1 /\ packets'[i] = AcceptPacket(c, s)
      BY <1>2, <1>3, HostQueued
    <2>4. /\ AcceptPacket(c, s).id = c /\ AcceptPacket(c, s).sock = s
          /\ handle'[s] = c /\ peer'[c] = "open" /\ c \notin sessions'
      BY <1>2, <1>3, <1>5 DEF AcceptPacket, HostTypeOK, tableVars
    <2>5. ASSUME NEW i \in 1..Len(packets'), packets'[i].kind = "accept"
          PROVE  /\ peer'[packets'[i].id] \in {"open", "gone"}
                 /\ packets'[i].id \notin sessions'
                 /\ packets'[i].sock \in Socket
                 /\ handle'[packets'[i].sock] = packets'[i].id
      <3>1. CASE packets'[i] = AcceptPacket(c, s)
        BY <2>4, <3>1
      <3>2. CASE i \in 1..Len(packets) /\ packets'[i] = packets[i]
        BY <1>2, <1>3, <1>4, <2>1, <2>2, <2>5, <3>2
        DEF HostInv, HostTypeOK, AcceptsWait, PeersGoOn, tableVars
      <3> QED
        BY <2>3, <3>1, <3>2
    <2>6. ASSUME NEW i \in 1..Len(packets'), NEW j \in 1..Len(packets'),
                 packets'[i].kind = "accept", packets'[j].kind = "accept",
                 packets'[i].id = packets'[j].id
          PROVE  i = j
      BY <2>2, <2>3, <2>4, <2>6 DEF HostInv, AcceptsWait
    <2> QED
      BY <2>5, <2>6 DEF AcceptsWait
  <1>9. ReadyAreSessions' /\ TellingAll'
    BY <1>2, <1>3, <1>4
    DEF HostInv, ReadyAreSessions, TellingAll, tableVars, sendVars
  <1> QED
    BY <1>1, <1>2, <1>7, <1>8, <1>9 DEF HostInv, eventVars

LEMMA HostSelectInv ==
  ASSUME HostInv, SelectFits, Select
  PROVE  HostInv'
  <1>1. HostTypeOK'
    BY HostLoopType DEF HostInv, Loop
  <1>2. UNCHANGED serverVars /\ pc = "select" /\ pc' \in {"dispatch", "recv"}
        /\ (pc' # "recv" => ready' = {})
    BY DEF Select
  <1>3. \A e \in ready' : \E n \in sessions : e = EntryOf(n) /\ Valid(e.sock)
    BY DEF Select, MakeFDSET, SelectFits, SelectReadable
  <1>4. \A e \in ready' : e.id \in sessions /\ e.sock \in Socket /\ sock[e.id] = e.sock
    BY <1>3 DEF EntryOf, Valid
  <1>5. ReadyAreSessions'
    BY <1>2, <1>4 DEF ReadyAreSessions, serverVars, tableVars
  <1>6. AcceptsWait' /\ SessionsOwn' /\ TellingAll' /\ refused' = {}
    BY <1>2 DEF HostInv, AcceptsWait, SessionsOwn, TellingAll, IsConnect,
                serverVars, osVars, tableVars, sendVars, eventVars
  <1> QED
    BY <1>1, <1>5, <1>6 DEF HostInv

LEMMA HostReceiveInv ==
  ASSUME HostInv, NEW e \in ready, ReceiveOne(e)
  PROVE  HostInv'
  <1> USE DEF tableVars, eventVars, sendVars
  <1>1. HostTypeOK'
    BY HostLoopType DEF HostInv, Loop
  <1> DEFINE x == DataPacket(e.id, handle[e.sock])
  <1>2. x \in Packet /\ x.kind # "accept"
    <2>1. e.id \in Conn /\ handle[e.sock] \in Conn
      BY DEF ReceiveOne, ReceiveData, Valid, Entry, HostInv, HostTypeOK
    <2> QED
      BY <2>1, PacketTypes DEF DataPacket
  <1>3. /\ UNCHANGED <<peer, handle, tableVars, eventVars, sendVars>>
        /\ packets' = Append(packets, x)
        /\ pc = "recv" /\ pc' \in {"dispatch", "recv"}
        /\ ready' \subseteq ready /\ (pc' # "recv" => ready' = {})
    BY DEF ReceiveOne, ReceiveData, NextEntry
  <1>4. PeersGoOn
    BY <1>3 DEF PeersGoOn
  <1>5. AcceptsWait' /\ SessionsOwn'
    BY <1>2, <1>3, <1>4, HostQueuedWait, HostSessionsSame DEF HostInv
  <1>6. ReadyAreSessions' /\ TellingAll'
    BY <1>3 DEF HostInv, ReadyAreSessions, TellingAll
  <1> QED
    BY <1>1, <1>3, <1>5, <1>6 DEF HostInv

\* The socket that is closed is that of a session whose client has gone.
LEMMA HostCloseInv ==
  ASSUME HostInv, NEW e \in ready, CloseOne(e)
  PROVE  HostInv'
  <1> USE DEF eventVars, sendVars
  <1>1. HostTypeOK'
    BY HostLoopType DEF HostInv, Loop
  <1> DEFINE x == ClientDisconnectPacket(e.id)
             s == sock[e.id]
  <1>2. /\ e.id \in sessions /\ e.id \in Conn /\ e.sock = s /\ s \in Socket
        /\ handle[s] = e.id /\ HostTypeOK
    BY DEF HostInv, HostTypeOK, ReadyAreSessions, SessionsOwn
  <1>3. peer[e.id] = "gone"
    BY <1>2, ServerConstants DEF CloseOne, EndOfStream, Valid
  <1>4. /\ handle' = [t \in Socket |-> IF t = s THEN NoConn ELSE handle[t]]
        /\ sock' = [sock EXCEPT ![e.id] = NoSock]
        /\ packets' = Append(packets, x)
        /\ pc = "recv" /\ pc' \in {"dispatch", "recv"}
        /\ ready' = ready \ {e} /\ (pc' # "recv" => ready' = {})
        /\ UNCHANGED <<peer, sessions, rmKeys, state, refused, toSend, told>>
    BY <1>2 DEF CloseOne, CloseHandles, NextEntry
  <1>5. x \in Packet /\ x.kind # "accept"
    BY <1>2, PacketTypes DEF ClientDisconnectPacket
  <1>6. AcceptsWait'
    <2>1. \A i \in 1..Len(packets') : packets'[i].kind = "accept" =>
            i \in 1..Len(packets) /\ packets'[i] = packets[i]
      BY <1>2, <1>4, <1>5, HostQueued
    <2>2. \A i \in 1..Len(packets) : packets[i].kind = "accept" =>
            packets[i].sock # s
      BY <1>2 DEF HostInv, AcceptsWait
    <2> QED
      BY <1>4, <2>1, <2>2 DEF HostInv, AcceptsWait
  <1>7. SessionsOwn'
    <2>1. ASSUME NEW n \in sessions, n # e.id
          PROVE  /\ sock'[n] = sock[n]
                 /\ sock[n] \in Socket => handle'[sock[n]] = n
      BY <1>2, <1>4, <2>1 DEF HostInv, HostTypeOK, SessionsOwn
    <2>2. sock'[e.id] = NoSock
      BY <1>2, <1>4 DEF HostTypeOK
    <2> QED
      BY <1>3, <1>4, <2>1, <2>2, ServerConstants DEF HostInv, SessionsOwn, IsConnect
  <1>8. ReadyAreSessions'
    <2>1. ASSUME NEW d \in ready'
          PROVE  d.id \in sessions' /\ d.sock \in Socket /\ sock'[d.id] = d.sock
      <3>1. d \in ready /\ d # e /\ d \in Entry /\ e \in Entry
        BY <1>2, <1>4 DEF HostTypeOK
      <3>2. d.id \in sessions /\ d.sock \in Socket /\ sock[d.id] = d.sock
        BY <3>1 DEF HostInv, ReadyAreSessions
      <3>3. d.id # e.id
        BY <1>2, <3>1, <3>2 DEF Entry
      <3> QED
        BY <1>2, <1>4, <3>2, <3>3 DEF HostTypeOK
    <2> QED
      BY <1>4, <2>1 DEF ReadyAreSessions
  <1>9. TellingAll'
    BY <1>4 DEF HostInv, TellingAll
  <1> QED
    BY <1>1, <1>4, <1>6, <1>7, <1>8, <1>9 DEF HostInv

\* An ACCEPT is never refused, and its announcement begins with every session.
LEMMA HostJoinInv ==
  ASSUME HostInv, HostDispatchAccept
  PROVE  HostInv'
  <1>1. HostTypeOK'
    BY HostLoopType DEF HostInv, Loop
  <1> DEFINE c == Head(packets).id
             s == Head(packets).sock
  <1>2. Dispatch("accept") /\ HostTypeOK
    BY DEF HostInv, HostDispatchAccept
  <1>3. /\ c \in Conn /\ s \in Socket /\ handle[s] = c /\ c \notin sessions
        /\ peer[c] \in {"open", "gone"} /\ UNCHANGED <<osVars, ready>>
        /\ pc = "dispatch"
    <2>1. 1 \in 1..Len(packets)
      BY <1>2, HostTaken
    <2> QED
      BY <1>2, <2>1, HostTaken DEF HostInv, AcceptsWait
  <1>4. ~SocketInUse(s)
    BY <1>3 DEF SocketInUse, HostInv, SessionsOwn
  <1>5. /\ Insert(c, s) /\ toSend' = sessions' /\ pc' = "joined"
    BY <1>4 DEF HostDispatchAccept
  <1>6. /\ sessions' = (sessions \ rmKeys) \cup {c} /\ sock'[c] = s
        /\ state'[c] \in {"LOGIN_WAIT", "LOGIN"}
        /\ \A n \in Conn : n # c => sock'[n] = sock[n] /\ state'[n] = state[n]
        /\ UNCHANGED refused
    BY <1>2, <1>3, <1>5 DEF Insert, HostTypeOK
  <1>7. AcceptsWait'
    <2>1. \A n \in sessions' : n \in sessions \/ n = c
      BY <1>6
    <2> QED
      BY <1>2, <2>1, HostTakenWait DEF HostInv
  <1> HIDE DEF c, s
  <1>8. SessionsOwn'
    BY <1>2, <1>3, <1>6, ServerConstants
    DEF HostInv, HostTypeOK, SessionsOwn, IsConnect, osVars
  <1>9. ReadyAreSessions' /\ TellingAll' /\ refused' = {}
    BY <1>3, <1>5, <1>6 DEF HostInv, ReadyAreSessions, TellingAll
  <1> QED
    BY <1>1, <1>7, <1>8, <1>9 DEF HostInv

LEMMA HostHandledInv ==
  ASSUME HostInv, HostDispatchDisconnect \/ HostDispatchInvalid \/ HostDispatchData
  PROVE  HostInv'
  <1> USE DEF tableVars, eventVars, sendVars
  <1>1. HostTypeOK'
    BY HostLoopType DEF HostInv, Loop
  <1>2. PICK kind \in {"clientDisconnect", "invalid", "data"} : Dispatch(kind)
    BY DEF HostDispatchDisconnect, HostDispatchInvalid, HostDispatchData
  <1>3. HostTypeOK /\ Head(packets).id \in Conn /\ UNCHANGED <<osVars, ready>>
        /\ pc = "dispatch"
    BY <1>2, HostTaken DEF HostInv
  <1>4. /\ UNCHANGED <<sessions, sock, refused, toSend, told>> /\ pc' = "user"
        /\ state' = state \/ state' = [state EXCEPT ![Head(packets).id] = "LOGOUT_WAIT"]
    BY DEF HostDispatchDisconnect, RemoveSession, HostDispatchInvalid, HostDispatchData
  <1>5. AcceptsWait'
    BY <1>2, <1>4, HostTakenWait DEF HostInv
  <1>6. SessionsOwn'
    <2>1. \A n \in Conn : IsConnect(n) => IsConnect(n)'
      BY <1>3, <1>4 DEF IsConnect, HostTypeOK
    <2> QED
      BY <1>3, <1>4, <2>1 DEF HostInv, HostTypeOK, SessionsOwn, osVars
  <1>7. ReadyAreSessions' /\ TellingAll' /\ refused' = {}
    BY <1>3, <1>4 DEF HostInv, ReadyAreSessions, TellingAll
  <1> QED
    BY <1>1, <1>5, <1>6, <1>7 DEF HostInv

LEMMA HostStepInv == HostInv /\ SelectFits /\ [HostNext]_hostVars => HostInv'
  <1>1. ASSUME HostInv, UNCHANGED hostVars
        PROVE  HostInv'
    <2>1. HostTypeOK'
      BY <1>1, HostStepType DEF HostInv
    <2> QED
      BY <1>1, <2>1
      DEF HostInv, AcceptsWait, SessionsOwn, ReadyAreSessions, TellingAll, IsConnect,
          hostVars, serverVars, osVars, tableVars, eventVars, sendVars
  <1> QED
    BY <1>1, HostClientInv, HostTellInv, HostAcceptInv, HostSelectInv,
       HostReceiveInv, HostCloseInv, HostJoinInv, HostHandledInv
    DEF HostNext, Loop

LEMMA HostInvariant == HostSpec /\ []SelectFits => []HostInv
  BY HostInitInv, HostStepInv, PTL DEF HostSpec

\* As long as the sessions fit into a set of select(), the join of a session is
\* announced to every session whose client is still there (P2PMemberJoin),
\* whatever is closed, queued or reused meanwhile.
THEOREM JoinsAreTold == HostSpec /\ []SelectFits => []JoinToldToAll
  <1>1. HostInv => JoinToldToAll
    BY DEF HostInv, TellingAll, JoinToldToAll
  <1> QED
    BY <1>1, HostInvariant, PTL

\* So long, no connection is refused for a socket that looks taken: a handle is
\* closed only together with the session that had it (AddSession).
THEOREM NobodyIsRefused == HostSpec /\ []SelectFits => [](refused = {})
  <1>1. HostInv => refused = {}
    BY DEF HostInv
  <1> QED
    BY <1>1, HostInvariant, PTL
=============================================================================
