------------------------- MODULE ServerLifecycleProofs -------------------------
(* Proofs about ServerLifecycle. *)
EXTENDS ServerLifecycle, QueuesProofs

-----------------------------------------------------------------------------
(* The invariant.                                                          *)

\* TypeOK, of the part that starts and reads servers.
TypeInv ==
  /\ TypeOK
  /\ (lpc \in {"close", "unqueue", "mark", "clear", "connect", "start", "add", "join"}
        => lpkt \in Packet)

\* The logic thread starts servers only when it is the one that does, and is in
\* StartServer while it does.
StarterInv ==
  /\ starter = "logic" /\ spc # "idle" => lpc = "start"
  /\ starter = "main" =>
       /\ \A i \in DOMAIN packets : packets[i].kind # "start"
       /\ lpc \in {"close", "unqueue", "mark", "clear"} => lpkt.kind # "start"
       /\ lpc \notin {"connect", "start"}

\* Marks are applied before the next packet is popped.
MarksInv ==
  /\ lpc \in {"begin", "loop", "pop", "close", "unqueue", "mark", "connect", "add", "join"}
       => rmKeys = {}
  /\ rmKeys \subseteq servers
  /\ \A s \in rmKeys : sock[s] = NoHandle

\* A server that is stopped is in the table until it is marked, with its socket
\* closed; one that is being started is not in the table yet.
StopInv ==
  /\ lpc \in {"close", "unqueue", "mark"} => lpkt.to \in servers
  /\ lpc \in {"unqueue", "mark"} => sock[lpkt.to] = NoHandle
  /\ spc \in {"launch", "insert"} => ssvr \notin servers
  /\ spc = "insert" /\ sock[ssvr] # NoHandle => IsServerOn(ssvr)
  /\ \A s \in Server : IsServerOn(s) => sock[s] # NoHandle

TableInv == StarterInv /\ MarksInv /\ StopInv /\ ListeningIsListed

LifeInv == TypeInv /\ TableInv

-----------------------------------------------------------------------------
(* Lists.                                                                  *)

LEMMA ListSteps ==
  ASSUME NEW S, NEW q \in Seq(S)
  PROVE  /\ \A x \in S : Append(q, x) \in Seq(S)
         /\ q # <<>> => Head(q) \in S /\ Tail(q) \in Seq(S)
  OBVIOUS

\* CThread::Run takes a task out of its list.
LEMMA RemoveAtIsSeq ==
  ASSUME NEW S, NEW q \in Seq(S), NEW i \in DOMAIN q
  PROVE  RemoveAt(q, i) \in Seq(S)
<1>1. SubSeq(q, 1, i - 1) \in Seq(S) /\ SubSeq(q, i + 1, Len(q)) \in Seq(S)
  OBVIOUS
<1> QED BY <1>1 DEF RemoveAt

-----------------------------------------------------------------------------
(* Types.                                                                  *)

LEMMA InitTypes == Init => TypeInv
BY LifecycleConstants DEF Init, TypeInv, TypeOK, ServerState

LEMMA StartTypes ==
  ASSUME TypeInv, StarterInv,
         StartThread \/ (\E s \in Server : CallStart(s) \/ StopServer(s) \/ AskToStart(s))
  PROVE  TypeInv'
<1> USE DEF TypeInv, TypeOK
<1>1. ASSUME NEW s \in Server, CallStart(s)
      PROVE  TypeInv'
  BY <1>1, LifecycleConstants
     DEF CallStart, bounds, svrVars, tableVars, logicVars, workVars
<1>2. ASSUME NEW s \in Server, StopServer(s) \/ AskToStart(s)
      PROVE  TypeInv'
  <2> DEFINE stop == [to |-> s, kind |-> "disconnect"]
             start == [to |-> s, kind |-> "start"]
  <2>1. stop \in Packet /\ start \in Packet
    BY DEF Packet
  <2>2. packets' \in Seq(Packet)
    <3>1. packets' = Append(packets, stop) \/ packets' = Append(packets, start)
      BY <1>2 DEF StopServer, AskToStart
    <3>2. packets \in Seq(Packet)
      OBVIOUS
    <3> HIDE DEF stop, start, TypeInv, TypeOK
    <3>3. Append(packets, stop) \in Seq(Packet) /\ Append(packets, start) \in Seq(Packet)
      BY <2>1, <3>2
    <3> QED BY <3>1, <3>3
  <2> QED BY <1>2, <2>2, LifecycleConstants
          DEF StopServer, AskToStart, svrVars, tableVars, startVars, logicVars, workVars
<1>3. CASE StartFind
  BY <1>3 DEF StartFind, bounds, svrVars, tableVars, logicVars, workVars
<1>4. CASE LaunchServer
  <2>1. state' \in [Server -> ServerState] /\ sock' \in [Server -> Handle \cup {NoHandle}]
    BY <1>4 DEF LaunchServer, FreeHandle, ServerState, svrVars
  <2> QED BY <1>4, <2>1 DEF LaunchServer, bounds, tableVars, logicVars, workVars
<1>5. CASE StartInsert
  BY <1>5 DEF StartInsert, bounds, svrVars, logicVars
<1>6. CASE AddTask
  <2> DEFINE t == [id |-> sock[ssvr], server |-> ssvr]
  <2>1. t \in Task
    BY <1>6 DEF AddTask, Task
  <2>2. tasks' \in Seq(Task) /\ (wpc = "read" => turn \in DOMAIN tasks')
    <3>1. tasks' = tasks \/ tasks' = Append(tasks, t)
      BY <1>6 DEF AddTask
    <3> HIDE DEF t
    <3> QED BY <2>1, <3>1
  <2> QED BY <1>6, <2>2 DEF AddTask, bounds, svrVars, tableVars, logicVars
<1>7. CASE ThreadStart
  BY <1>7 DEF ThreadStart, bounds, svrVars, tableVars, logicVars
<1>8. CASE Started
  BY <1>8 DEF Started, bounds, svrVars, tableVars, logicVars, workVars
<1> QED BY <1>1, <1>2, <1>3, <1>4, <1>5, <1>6, <1>7, <1>8 DEF StartThread

LEMMA LogicTypes ==
  ASSUME TypeInv, LogicThread
  PROVE  TypeInv'
<1> USE DEF TypeInv, TypeOK
<1>1. CASE RemoveProcess \/ MainLoopBegin \/ MainLoopEnd
  BY <1>1 DEF RemoveProcess, MainLoopBegin, MainLoopEnd, bounds, svrVars, tableVars,
              startVars, workVars
<1>2. ASSUME NEW s \in Server, MainLoopServer(s)
      PROVE  TypeInv'
  BY <1>2 DEF MainLoopServer, bounds, svrVars, tableVars, startVars, workVars
<1>3. CASE Pop
  <2>1. packets' \in Seq(Packet) /\ (packets # <<>> => Head(packets) \in Packet)
    <3>1. packets \in Seq(Packet)
      OBVIOUS
    <3>2. packets # <<>> => Head(packets) \in Packet /\ Tail(packets) \in Seq(Packet)
      BY <3>1, ListSteps
    <3>3. packets' = packets \/ (packets # <<>> /\ packets' = Tail(packets))
      BY <1>3 DEF Pop
    <3> HIDE DEF TypeInv, TypeOK
    <3> QED BY <3>1, <3>2, <3>3
  <2>2. lpc' \in {"remove", "close", "add", "connect"}
        /\ lpkt' \in Packet \cup {NoServer}
        /\ (lpc' # "remove" => lpkt' \in Packet)
    BY <1>3, <2>1 DEF Pop, Packet
  <2> QED BY <1>3, <2>1, <2>2 DEF Pop, bounds, svrVars, tableVars, startVars, workVars
<1>4. CASE Close \/ Clear \/ MarkRemoved
  <2>1. lpkt.to \in Server
    BY <1>4 DEF Close, Clear, MarkRemoved, Packet
  <2>2. state' \in [Server -> ServerState] /\ sock' \in [Server -> Handle \cup {NoHandle}]
    BY <1>4 DEF Close, Clear, MarkRemoved, ServerState
  <2> QED BY <1>4, <2>1, <2>2
          DEF Close, Clear, MarkRemoved, bounds, tableVars, startVars, workVars
<1>5. CASE RemovePacket
  <2>1. packets' \in Seq(Packet)
    BY <1>5, KeptElements DEF RemovePacket
  <2> QED BY <1>5, <2>1 DEF RemovePacket, bounds, svrVars, tableVars, startVars, workVars
<1>6. CASE ConnectServer
  <2>1. lpkt.to \in Server
    BY <1>6 DEF ConnectServer, Packet
  <2> QED BY <1>6, <2>1
          DEF ConnectServer, bounds, svrVars, tableVars, startVars, workVars
<1>7. CASE ConnectEnd \/ AddSession \/ OnClientJoin
  BY <1>7 DEF ConnectEnd, AddSession, OnClientJoin, bounds, svrVars, tableVars,
              startVars, workVars
<1> QED BY <1>1, <1>2, <1>3, <1>4, <1>5, <1>6, <1>7 DEF LogicThread

LEMMA WorkTypes ==
  ASSUME TypeInv,
         WorkThread \/ PushAccept \/ (\E s \in Server : Accept(s)) \/ UNCHANGED vars
  PROVE  TypeInv'
<1> USE DEF TypeInv, TypeOK
<1>1. ASSUME NEW s \in Server, Accept(s)
      PROVE  TypeInv'
  BY <1>1, LifecycleConstants
     DEF Accept, svrVars, tableVars, startVars, logicVars, workVars
<1>2. CASE PushAccept
  <2>1. packets' \in Seq(Packet)
    BY <1>2, ListSteps DEF PushAccept, Packet
  <2> QED BY <1>2, <2>1 DEF PushAccept, bounds, svrVars, tableVars, startVars,
                            logicVars, workVars
<1>3. CASE RunCheck \/ RunExit \/ RunBegin \/ RunEnd
  BY <1>3 DEF RunCheck, RunExit, RunBegin, RunEnd, bounds, svrVars, tableVars,
              startVars, logicVars
<1>4. CASE TaskFind
  <2>1. tasks' \in Seq(Task) /\ turn' \in Nat \ {0}
    BY <1>4, RemoveAtIsSeq DEF TaskFind
  <2>2. wpc' \in {"find", "read"} /\ (wpc' = "read" => turn' \in DOMAIN tasks')
    BY <1>4 DEF TaskFind
  <2> QED BY <1>4, <2>1, <2>2
          DEF TaskFind, bounds, svrVars, tableVars, startVars, logicVars
<1>5. CASE TaskRead
  BY <1>5 DEF TaskRead, bounds, svrVars, tableVars, startVars, logicVars
<1>6. CASE UNCHANGED vars
  BY <1>6 DEF vars, bounds, svrVars, tableVars, startVars, logicVars, workVars
<1> QED BY <1>1, <1>2, <1>3, <1>4, <1>5, <1>6 DEF WorkThread

-----------------------------------------------------------------------------
(* The table of servers.                                                   *)

LEMMA InitTable == Init => TableInv
BY DEF Init, TableInv, StarterInv, MarksInv, StopInv, ListeningIsListed, IsServerOn

\* The steps that touch neither a server nor the table.
LEMMA QuietTable ==
  ASSUME LifeInv,
         UNCHANGED <<starter, svrVars, tableVars, startVars, lpc, lpkt>>,
         starter = "main" => \A i \in DOMAIN packets' : packets'[i].kind # "start"
  PROVE  TableInv'
BY DEF LifeInv, TableInv, StarterInv, MarksInv, StopInv, ListeningIsListed, IsServerOn,
       svrVars, tableVars, startVars

\* A packet is put into the queue.
LEMMA QueuedKind ==
  ASSUME LifeInv, NEW p \in Packet, p.kind # "start" \/ starter = "logic"
  PROVE  starter = "main" =>
           \A i \in DOMAIN Append(packets, p) : Append(packets, p)[i].kind # "start"
<1>1. packets \in Seq(Packet)
  BY DEF LifeInv, TypeInv, TypeOK
<1>2. starter = "main" => \A i \in DOMAIN packets : packets[i].kind # "start"
  BY DEF LifeInv, TableInv, StarterInv
<1> DEFINE q == Append(packets, p)
<1>3. \A i \in DOMAIN q : (i \in DOMAIN packets /\ q[i] = packets[i]) \/ q[i] = p
  BY <1>1
<1> HIDE DEF q
<1>4. starter = "main" => \A i \in DOMAIN q : q[i].kind # "start"
  BY <1>2, <1>3
<1> QED BY <1>4 DEF q

LEMMA WorkTable ==
  ASSUME LifeInv,
         \/ WorkThread \/ PushAccept \/ UNCHANGED vars
         \/ \E s \in Server : Accept(s) \/ StopServer(s) \/ AskToStart(s)
  PROVE  TableInv'
<1>1. starter = "main" => \A i \in DOMAIN packets : packets[i].kind # "start"
  BY DEF LifeInv, TableInv, StarterInv
<1>2. CASE WorkThread \/ UNCHANGED vars
  <2>1. UNCHANGED <<starter, svrVars, tableVars, startVars, lpc, lpkt, packets>>
    BY <1>2 DEF WorkThread, RunCheck, RunExit, RunBegin, TaskFind, TaskRead, RunEnd, vars,
                bounds, logicVars
  <2> QED BY <1>1, <2>1, QuietTable
<1>3. ASSUME NEW s \in Server, Accept(s)
      PROVE  TableInv'
  <2>1. UNCHANGED <<starter, svrVars, tableVars, startVars, lpc, lpkt, packets>>
    BY <1>3 DEF Accept, logicVars
  <2> QED BY <1>1, <2>1, QuietTable
<1>4. CASE PushAccept
  <2> DEFINE p == [to |-> got, kind |-> "accept"]
  <2>1. UNCHANGED <<starter, svrVars, tableVars, startVars, lpc, lpkt>>
        /\ p \in Packet /\ p.kind # "start"
        /\ (packets' = packets \/ packets' = Append(packets, p))
    BY <1>4 DEF PushAccept, bounds, logicVars, LifeInv, TypeInv, TypeOK, Packet
  <2> HIDE DEF p
  <2> QED BY <1>1, <2>1, QuietTable, QueuedKind
<1>5. ASSUME NEW s \in Server, StopServer(s)
      PROVE  TableInv'
  <2> DEFINE p == [to |-> s, kind |-> "disconnect"]
  <2>1. UNCHANGED <<starter, svrVars, tableVars, startVars, lpc, lpkt>>
        /\ p \in Packet /\ p.kind # "start" /\ packets' = Append(packets, p)
    BY <1>5 DEF StopServer, logicVars, Packet
  <2> HIDE DEF p
  <2> QED BY <2>1, QuietTable, QueuedKind
<1>6. ASSUME NEW s \in Server, AskToStart(s)
      PROVE  TableInv'
  <2> DEFINE p == [to |-> s, kind |-> "start"]
  <2>1. UNCHANGED <<starter, svrVars, tableVars, startVars, lpc, lpkt>>
        /\ p \in Packet /\ starter = "logic" /\ packets' = Append(packets, p)
    BY <1>6 DEF AskToStart, logicVars, Packet
  <2> HIDE DEF p
  <2> QED BY <2>1, QuietTable, QueuedKind
<1> QED BY <1>2, <1>3, <1>4, <1>5, <1>6

\* StartServer.
LEMMA StartTable ==
  ASSUME LifeInv, StartThread \/ (\E s \in Server : CallStart(s))
  PROVE  TableInv'
<1> USE DEF LifeInv, TableInv, StarterInv, MarksInv, StopInv, ListeningIsListed, IsServerOn
<1>1. ASSUME NEW s \in Server, CallStart(s)
      PROVE  TableInv'
  BY <1>1 DEF CallStart, svrVars, tableVars, logicVars
<1>2. CASE StartFind
  BY <1>2 DEF StartFind, bounds, svrVars, tableVars, logicVars
<1>3. CASE LaunchServer
  <2>1. CASE UNCHANGED svrVars /\ spc' = "done"
    BY <1>3, <2>1 DEF LaunchServer, bounds, svrVars, tableVars, logicVars
  <2>2. ASSUME NEW h \in FreeHandle, sock' = [sock EXCEPT ![ssvr] = h],
               state' = [state EXCEPT ![ssvr] = "login"], spc' = "insert"
        PROVE  TableInv'
    <3>1. ssvr \in Server /\ ssvr \notin servers /\ h # NoHandle /\ spc = "launch"
          /\ UNCHANGED <<starter, servers, rmKeys, packets, ssvr, lpc, lpkt>>
      BY <1>3, LifecycleConstants
         DEF LaunchServer, FreeHandle, TypeInv, TypeOK, bounds, tableVars, logicVars
    <3>2. \A s \in Server : /\ sock'[s] = IF s = ssvr THEN h ELSE sock[s]
                           /\ state'[s] = IF s = ssvr THEN "login" ELSE state[s]
      BY <2>2 DEF TypeInv, TypeOK
    <3>3. servers \subseteq Server /\ rmKeys \subseteq Server
      BY DEF TypeInv, TypeOK
    <3> QED BY <2>2, <3>1, <3>2, <3>3
  <2> QED BY <1>3, <2>1, <2>2 DEF LaunchServer
<1>4. CASE StartInsert
  <2>1. ssvr \in Server
    BY <1>4 DEF StartInsert, TypeInv, TypeOK
  <2> QED BY <1>4, <2>1 DEF StartInsert, bounds, svrVars, logicVars
<1>5. CASE AddTask
  BY <1>5 DEF AddTask, bounds, svrVars, tableVars, logicVars
<1>6. CASE ThreadStart
  BY <1>6 DEF ThreadStart, bounds, svrVars, tableVars, logicVars
<1>7. CASE Started
  <2>1. UNCHANGED <<starter, state, sock, servers, rmKeys, packets, lpc, lpkt>>
        /\ spc = "done" /\ spc' = "idle" /\ ssvr' = NoServer
    BY <1>7 DEF Started, bounds, svrVars, tableVars, logicVars
  <2> QED BY <2>1
<1> QED BY <1>1, <1>2, <1>3, <1>4, <1>5, <1>6, <1>7 DEF StartThread

\* The logic thread, outside of the packets it dispatches.
LEMMA LoopTable ==
  ASSUME LifeInv,
         \/ RemoveProcess \/ MainLoopBegin \/ MainLoopEnd \/ Pop
         \/ \E s \in Server : MainLoopServer(s)
  PROVE  TableInv'
<1> USE DEF LifeInv, TableInv, StarterInv, MarksInv, StopInv, ListeningIsListed, IsServerOn
<1>1. CASE RemoveProcess
  <2>1. UNCHANGED <<starter, state, sock, packets, spc, ssvr, lpkt>> /\ lpc' = "begin"
        /\ servers' = servers \ rmKeys /\ rmKeys' = {} /\ lpc = "remove"
    BY <1>1 DEF RemoveProcess, bounds, svrVars, startVars
  <2> QED BY <2>1
<1>2. CASE MainLoopBegin \/ MainLoopEnd \/ \E s \in Server : MainLoopServer(s)
  <2>1. UNCHANGED <<starter, state, sock, servers, rmKeys, packets, spc, ssvr, lpkt>>
        /\ lpc \in {"begin", "loop"} /\ lpc' \in {"loop", "pop"}
    BY <1>2 DEF MainLoopBegin, MainLoopEnd, MainLoopServer, bounds, svrVars, tableVars,
                startVars
  <2> QED BY <2>1
<1>3. CASE Pop
  <2>1. /\ UNCHANGED <<starter, state, sock, servers, rmKeys, spc, ssvr>> /\ lpc = "pop"
        /\ \/ packets' = packets /\ lpc' = "remove" /\ lpkt' = lpkt
           \/ packets # <<>> /\ packets' = Tail(packets) /\ lpc' = "remove" /\ lpkt' = lpkt
           \/ /\ packets # <<>> /\ packets' = Tail(packets) /\ lpkt' = Head(packets)
              /\ \/ lpc' \in {"close", "add"} /\ lpkt'.to \in servers
                 \/ lpc' = "connect" /\ lpkt'.kind = "start"
    <3>1. packets # <<>> => Head(packets) \in Packet
      <4>1. packets \in Seq(Packet)
        BY DEF TypeInv, TypeOK
      <4> QED BY <4>1, ListSteps
    <3> QED BY <1>3, <3>1 DEF Pop, Packet, bounds, svrVars, tableVars, startVars
  <2>2. starter = "main" =>
          /\ \A i \in DOMAIN packets' : packets'[i].kind # "start"
          /\ packets # <<>> => Head(packets).kind # "start"
    <3>1. packets \in Seq(Packet)
      BY DEF TypeInv, TypeOK
    <3>2. packets # <<>> => /\ 1 \in DOMAIN packets /\ Head(packets) = packets[1]
                            /\ \A i \in DOMAIN Tail(packets) :
                                 i + 1 \in DOMAIN packets /\ Tail(packets)[i] = packets[i + 1]
      BY <3>1
    <3>3. packets' = packets \/ (packets # <<>> /\ packets' = Tail(packets))
      BY <2>1
    <3> QED BY <3>2, <3>3
  <2> QED BY <2>1, <2>2
<1> QED BY <1>1, <1>2, <1>3

\* The logic thread dispatches a packet.
LEMMA DispatchTable ==
  ASSUME LifeInv,
         \/ Close \/ RemovePacket \/ MarkRemoved \/ Clear
         \/ ConnectServer \/ ConnectEnd \/ AddSession \/ OnClientJoin
  PROVE  TableInv'
<1> USE DEF LifeInv, TableInv, StarterInv, MarksInv, StopInv, ListeningIsListed, IsServerOn
<1> DEFINE x == lpkt.to
<1>1. lpkt \in Packet /\ x \in Server
  BY DEF TypeInv, TypeOK, Packet, Close, RemovePacket, MarkRemoved, Clear, ConnectServer,
         ConnectEnd, AddSession, OnClientJoin
<1>2. CASE Close
  <2>1. UNCHANGED <<starter, servers, rmKeys, packets, spc, ssvr, lpkt>>
        /\ lpc = "close" /\ lpc' = "unqueue"
    BY <1>2 DEF Close, bounds, tableVars, startVars
  <2>2. \A s \in Server : /\ sock'[s] = IF s = x THEN NoHandle ELSE sock[s]
                         /\ state'[s] = IF s = x THEN "disconnect" ELSE state[s]
    BY <1>2 DEF Close, TypeInv, TypeOK
  <2>3. rmKeys \subseteq Server /\ (spc # "idle" => ssvr \in Server)
    BY DEF TypeInv, TypeOK
  <2> QED BY <1>1, <2>1, <2>2, <2>3
<1>3. CASE RemovePacket
  <2> DEFINE K == {i \in DOMAIN packets :
                     packets[i].to # lpkt.to \/ packets[i].kind = "start"}
  <2>1. UNCHANGED <<starter, state, sock, servers, rmKeys, spc, ssvr, lpkt>>
        /\ lpc = "unqueue" /\ lpc' = "mark" /\ packets' = Kept(packets, K)
    BY <1>3 DEF RemovePacket, bounds, svrVars, tableVars, startVars
  <2>2. packets \in Seq(Packet) /\ K \subseteq DOMAIN packets
    BY DEF TypeInv, TypeOK
  <2> HIDE DEF K
  <2>3. \A n \in DOMAIN Kept(packets, K) : \E i \in K : Kept(packets, K)[n] = packets[i]
    BY <2>2, KeptElements
  <2> QED BY <2>1, <2>2, <2>3
<1>4. CASE MarkRemoved
  <2>1. UNCHANGED <<starter, sock, servers, packets, spc, ssvr, lpkt>>
        /\ lpc = "mark" /\ lpc' = "clear" /\ rmKeys' = rmKeys \cup {x}
    BY <1>4 DEF MarkRemoved, bounds, startVars
  <2>2. \A s \in Server : state'[s] = IF s = x THEN "logoutWait" ELSE state[s]
    BY <1>4 DEF MarkRemoved, TypeInv, TypeOK
  <2>3. spc # "idle" => ssvr \in Server
    BY DEF TypeInv, TypeOK
  <2> QED BY <1>1, <2>1, <2>2, <2>3
<1>5. CASE Clear
  <2>1. /\ UNCHANGED <<starter, servers, rmKeys, packets, lpkt>> /\ lpc = "clear"
        /\ \/ lpkt.kind = "start" /\ lpc' = "start" /\ spc' = "find" /\ ssvr' = x
           \/ lpc' = "remove" /\ spc' = spc /\ ssvr' = ssvr
    BY <1>5 DEF Clear, bounds, tableVars, startVars
  <2>2. \A s \in Server : /\ sock'[s] = IF s = x THEN NoHandle ELSE sock[s]
                         /\ state'[s] = IF s = x THEN "disconnect" ELSE state[s]
    BY <1>5 DEF Clear, TypeInv, TypeOK
  <2>3. rmKeys \subseteq Server /\ (spc # "idle" => ssvr \in Server)
    BY DEF TypeInv, TypeOK
  <2>4. StarterInv' /\ MarksInv'
    BY <1>1, <2>1, <2>2, <2>3
  <2>5. lpkt.kind = "start" => spc = "idle"
    BY <2>1 DEF TypeInv, TypeOK
  <2>6. StopInv'
    BY <1>1, <2>1, <2>2, <2>3, <2>5
  <2>7. ListeningIsListed'
    BY <1>1, <2>1, <2>2, <2>3, <2>5
  <2> QED BY <2>4, <2>6, <2>7
<1>6. CASE ConnectServer
  <2>1. /\ UNCHANGED <<starter, state, sock, servers, rmKeys, packets, lpkt>>
        /\ lpc = "connect"
        /\ \/ IsServerOn(x) /\ lpc' = "close" /\ spc' = spc /\ ssvr' = ssvr
           \/ lpc' = "start" /\ spc' = "find" /\ ssvr' = x
    BY <1>6 DEF ConnectServer, bounds, svrVars, tableVars, startVars
  <2>2. starter = "logic" /\ spc = "idle"
    BY <2>1 DEF TypeInv, TypeOK
  <2> QED BY <1>1, <2>1, <2>2
<1>7. CASE ConnectEnd \/ AddSession \/ OnClientJoin
  <2>1. UNCHANGED <<starter, state, sock, servers, rmKeys, packets, spc, ssvr, lpkt>>
        /\ \/ lpc = "start" /\ spc = "idle" /\ lpc' = "remove"
           \/ lpc = "add" /\ lpc' = "join"
           \/ lpc = "join" /\ lpc' = "remove"
    BY <1>7 DEF ConnectEnd, AddSession, OnClientJoin, bounds, svrVars, tableVars, startVars
  <2> QED BY <2>1
<1> QED BY <1>2, <1>3, <1>4, <1>5, <1>6, <1>7

-----------------------------------------------------------------------------
(* The theorems.                                                           *)

LEMMA LifeInvariant == Spec => []LifeInv
<1>1. Init => LifeInv
  BY InitTypes, InitTable DEF LifeInv
<1>2. LifeInv /\ [Next]_vars => LifeInv'
  <2> SUFFICES ASSUME LifeInv, [Next]_vars PROVE LifeInv'
    OBVIOUS
  <2>1. TypeInv /\ StarterInv
    BY DEF LifeInv, TableInv
  <2>2. CASE StartThread \/ \E s \in Server : CallStart(s)
    BY <2>1, <2>2, StartTypes, StartTable DEF LifeInv
  <2>3. CASE \E s \in Server : StopServer(s) \/ AskToStart(s)
    BY <2>1, <2>3, StartTypes, WorkTable DEF LifeInv
  <2>4. CASE LogicThread
    BY <2>1, <2>4, LogicTypes, LoopTable, DispatchTable DEF LogicThread, LifeInv
  <2>5. CASE WorkThread \/ PushAccept \/ (\E s \in Server : Accept(s)) \/ UNCHANGED vars
    BY <2>1, <2>5, WorkTypes, WorkTable DEF LifeInv
  <2> QED BY <2>2, <2>3, <2>4, <2>5 DEF Next
<1> QED BY <1>1, <1>2, PTL DEF Spec

\* The variables of the servers of a process, of its threads and of its packet
\* queue have their types, also while servers are started and stopped again.
THEOREM TypeCorrect == Spec => []TypeOK
<1>1. LifeInv => TypeOK
  BY DEF LifeInv, TypeInv
<1> QED BY <1>1, LifeInvariant, PTL

\* A server with a listening socket is on, in the table of servers and not about
\* to be removed from it, whatever is started and stopped meanwhile.
THEOREM ListedAlways == Spec => []ListeningIsListed
<1>1. LifeInv => ListeningIsListed
  BY DEF LifeInv, TableInv
<1> QED BY <1>1, LifeInvariant, PTL

\* Only the logic thread and the work thread have locks that another thread
\* waits for, and one of them waits for none that the other has.
LEMMA TwoHolders ==
  ASSUME LifeInv
  PROVE  /\ \A u \in Thread \ {"logic", "work"} : Has(u) = {}
         /\ \/ Wants("logic") \cap Has("work") = {}
            \/ Wants("work") \cap Has("logic") = {}
<1>1. \A u \in Thread \ {"logic", "work"} : Has(u) = {}
  BY DEF Has, Thread
<1>2. ASSUME lpc \in {"loop", "join"}
      PROVE  Wants("logic") \cap Has("work") = {}
  <2>1. starter = "logic" => WantsToStart = {}
    BY <1>2 DEF LifeInv, TableInv, StarterInv, WantsToStart
  <2>2. Wants("logic") \subseteq Server
    BY <1>2, <2>1 DEF Wants, LifeInv, TypeInv, TypeOK
  <2>3. Has("work") \subseteq {"tasks"}
    BY DEF Has
  <2> QED BY <2>2, <2>3, LifecycleConstants
<1>3. ASSUME lpc \notin {"loop", "join"}
      PROVE  Wants("work") \cap Has("logic") = {}
  BY <1>3 DEF Has
<1> QED BY <1>1, <1>2, <1>3

\* The threads of a server process never wait for each other in a circle: the
\* main loop, which has the lock of the controller while it waits for that of a
\* server, and the work thread, which has the lock of its tasks while it waits
\* for either, never have what the other waits for.
THEOREM NeverWaitInCircle == Spec => []NoWaitCycle
<1>1. LifeInv => NoWaitCycle
  <2> SUFFICES ASSUME LifeInv, NEW D \in (SUBSET Thread) \ {{}}
               PROVE  \E t \in D : \A u \in D \ {t} : Wants(t) \cap Has(u) = {}
    BY DEF NoWaitCycle
  <2>1. CASE "logic" \in D /\ "work" \in D
    BY <2>1, TwoHolders
  <2>2. CASE "logic" \in D /\ "work" \notin D
    BY <2>2, TwoHolders
  <2>3. CASE "work" \in D /\ "logic" \notin D
    BY <2>3, TwoHolders
  <2>4. CASE "work" \notin D /\ "logic" \notin D
    BY <2>4, TwoHolders
  <2> QED BY <2>1, <2>2, <2>3, <2>4
<1> QED BY <1>1, LifeInvariant, PTL
=============================================================================
