---------------------------- MODULE ServerLifecycle ----------------------------
(***************************************************************************)
(* The servers of one process: how they are started, found, stopped and    *)
(* removed, and the thread that reads their sockets.                       *)
(*                                                                         *)
(* CController keeps the servers of the process.  All servers              *)
(* (SERVICE_SEPERATE_THREAD) are read by one work thread, a CThread with   *)
(* one task per server, which ends when it has no task left.  StopServer   *)
(* only queues a packet; the logic thread closes the server when it comes  *)
(* to it, and the main loop removes it from the table later.               *)
(*                                                                         *)
(* Locks: a section that takes no second lock is one step, which waits     *)
(* while another thread has the lock.  Two sections do take others: the    *)
(* main loop has CController::m_CS while it takes each server's m_CS, and  *)
(* the work thread has its m_TaskCS while a task takes either.             *)
(***************************************************************************)
EXTENDS Naturals, Sequences, FiniteSets, SequencesExt, Queues

CONSTANTS
  Server,    \* the servers (CServerBasic), by netid
  Handle,    \* socket handles, used again after closesocket()
  NoHandle,  \* the socket of a server that does not listen
  NoServer,
  MaxCalls,  \* how often the program starts or stops a server (a bound)
  MaxAccept  \* how many connections come (a bound)

ASSUME LifecycleConstants ==
  /\ NoHandle \notin Handle /\ NoServer \notin Server
  /\ {"controller", "tasks"} \cap Server = {}
  /\ MaxCalls \in Nat /\ MaxAccept \in Nat

Thread == {"main", "logic", "accept", "work"}

VARIABLES
  starter,   \* the thread that starts servers, "main" or "logic"
  calls,     \* how often it did, or the main thread stopped one
  accepts,   \* how many connections came
  state,     \* CSession::m_State of a server
  sock,      \* its listening socket
  servers,   \* m_Servers
  rmKeys,    \* m_Servers.m_RmKeys
  packets,   \* the packet queue
  spc, ssvr, \* StartServer: where it is, for which server
  lpc, lpkt, \* CTaskLogic: where it is, the packet it dispatches
  todo,      \* MainLoop: the servers not looked at yet
  got,       \* CTaskAccept: the server whose connection was accepted
  thread,    \* CThread::m_State of the work thread, "none" when there is none
  wpc, turn, \* CThread::Run: where it is, the task whose turn it is
  tasks,     \* m_Tasks of the work thread
  missed     \* servers whose task was refused or left to a thread that ends

svrVars == <<state, sock>>
tableVars == <<servers, rmKeys>>
startVars == <<spc, ssvr>>
logicVars == <<lpc, lpkt, todo>>
workVars == <<thread, wpc, turn, tasks>>
bounds == <<starter, calls, accepts>>
vars == <<bounds, svrVars, tableVars, packets, startVars, logicVars, got,
          workVars, missed>>

\* SESSIONSTATE_DISCONNECT, _LOGIN, _LOGOUT_WAIT
ServerState == {"disconnect", "login", "logoutWait"}
Packet == [to : Server, kind : {"disconnect", "accept", "start"}]
Task == [id : Handle \cup {NoHandle}, server : Server]

IsServerOn(s) == state[s] = "login"
IsConnect(s) == state[s] # "disconnect"

-----------------------------------------------------------------------------
(* Locks: CController::m_CS, m_TaskCS of the work thread, m_CS of a server. *)

Has(t) ==
  CASE t = "logic" -> (IF lpc = "loop" THEN {"controller"} ELSE {})
                        \cup (IF lpc = "join" THEN {lpkt.to} ELSE {})
    [] t = "work" -> IF wpc \in {"find", "read"} THEN {"tasks"} ELSE {}
    [] OTHER -> {}

Free(lock, t) == \A u \in Thread \ {t} : lock \notin Has(u)

\* The lock a thread must get before it can go on.
WantsToStart ==
  CASE spc \in {"find", "insert"} -> {"controller"}
    [] spc = "add" -> {"tasks"}
    [] OTHER -> {}

Wants(t) ==
  (IF t = starter THEN WantsToStart ELSE {}) \cup
  CASE t = "logic" -> (IF lpc \in {"begin", "pop", "mark"} THEN {"controller"} ELSE {})
                        \cup (IF lpc = "loop" THEN todo ELSE {})
                        \cup (IF lpc = "add" THEN {lpkt.to} ELSE {})
    [] t = "work" -> (IF wpc = "tasks" THEN {"tasks"} ELSE {})
                       \cup (IF wpc = "find" /\ turn \in DOMAIN tasks
                             THEN {"controller"} ELSE {})
                       \cup (IF wpc = "read" THEN {tasks[turn].server} ELSE {})
    [] OTHER -> {"controller"}

Init ==
  /\ starter \in {"main", "logic"} /\ calls = 0 /\ accepts = 0
  /\ state = [s \in Server |-> "disconnect"]
  /\ sock = [s \in Server |-> NoHandle]
  /\ servers = {} /\ rmKeys = {} /\ packets = <<>>
  /\ spc = "idle" /\ ssvr = NoServer
  /\ lpc = "remove" /\ lpkt = NoServer /\ todo = {}
  /\ got = NoServer
  /\ thread = "none" /\ wpc = "none" /\ turn = 1 /\ tasks = <<>>
  /\ missed = {}

-----------------------------------------------------------------------------
(* CController::StartServer, in the thread that starts servers.            *)

CallStart(s) ==
  /\ starter = "main" /\ spc = "idle" /\ calls < MaxCalls
  /\ calls' = calls + 1
  /\ spc' = "find" /\ ssvr' = s
  /\ UNCHANGED <<starter, accepts, svrVars, tableVars, packets, logicVars, got,
                 workVars, missed>>

\* Mutant: it is not asked whether the server is in the table.
StartFindUnchecked ==
  /\ spc = "find" /\ Free("controller", starter)
  /\ spc' = "launch"
  /\ UNCHANGED <<bounds, svrVars, tableVars, packets, ssvr, logicVars, got,
                 workVars, missed>>

\* A server that is in the table is refused, also when it is to be removed.
StartFind ==
  /\ spc = "find" /\ Free("controller", starter)
  /\ spc' = IF ssvr \in servers THEN "done" ELSE "launch"
  /\ UNCHANGED <<bounds, svrVars, tableVars, packets, ssvr, logicVars, got,
                 workVars, missed>>

FreeHandle == Handle \ {sock[s] : s \in Server}

\* LaunchServer: socket(), bind(), listen(), which may fail.
LaunchServer ==
  /\ spc = "launch"
  /\ \/ /\ \E h \in FreeHandle : sock' = [sock EXCEPT ![ssvr] = h]
        /\ state' = [state EXCEPT ![ssvr] = "login"]
        /\ spc' = "insert"
     \/ spc' = "done" /\ UNCHANGED svrVars
  /\ UNCHANGED <<bounds, tableVars, packets, ssvr, logicVars, got, workVars, missed>>

\* StableVectorMap::insert applies the removals first.  AllocWorkThread makes
\* the work thread the first time.
StartInsert ==
  /\ spc = "insert" /\ Free("controller", starter)
  /\ servers' = (servers \ rmKeys) \cup {ssvr}
  /\ rmKeys' = {}
  /\ thread' = IF thread = "none" THEN "wait" ELSE thread
  /\ spc' = "add"
  /\ UNCHANGED <<bounds, svrVars, packets, ssvr, logicVars, got, wpc, turn, tasks,
                 missed>>

\* CThread::AddTask: the id of the task is the socket; a task whose id is there
\* is refused, and nobody looks at the result.
AddTask ==
  /\ spc = "add" /\ Free("tasks", starter)
  /\ \/ /\ \A i \in DOMAIN tasks : tasks[i].id # sock[ssvr]
        /\ tasks' = Append(tasks, [id |-> sock[ssvr], server |-> ssvr])
        /\ missed' = missed \ {ssvr}
     \/ /\ \E i \in DOMAIN tasks : tasks[i].id = sock[ssvr]
        /\ missed' = missed \cup {ssvr}
        /\ UNCHANGED tasks
  /\ spc' = "run"
  /\ UNCHANGED <<bounds, svrVars, tableVars, packets, ssvr, logicVars, got, thread,
                 wpc, turn>>

\* Mutant: a thread that has ended is not started again.
ThreadStartOnce ==
  /\ spc = "run"
  /\ IF thread = "wait"
     THEN /\ thread' = "run" /\ wpc' = "check" /\ UNCHANGED missed
     ELSE /\ missed' = IF wpc = "exit" THEN missed \cup {ssvr} ELSE missed
          /\ UNCHANGED <<thread, wpc>>
  /\ spc' = "done"
  /\ UNCHANGED <<bounds, svrVars, tableVars, packets, ssvr, logicVars, got, turn,
                 tasks>>

\* CThread::Start, with no lock: a thread that has seen that it has no task is
\* still RUN.
ThreadStart ==
  /\ spc = "run"
  /\ IF thread # "run"
     THEN /\ thread' = "run" /\ wpc' = "check" /\ UNCHANGED missed
     ELSE /\ missed' = IF wpc = "exit" THEN missed \cup {ssvr} ELSE missed
          /\ UNCHANGED <<thread, wpc>>
  /\ spc' = "done"
  /\ UNCHANGED <<bounds, svrVars, tableVars, packets, ssvr, logicVars, got, turn,
                 tasks>>

Started ==
  /\ spc = "done"
  /\ spc' = "idle" /\ ssvr' = NoServer
  /\ UNCHANGED <<bounds, svrVars, tableVars, packets, logicVars, got, workVars, missed>>

\* StopServer queues a packet.
StopServer(s) ==
  /\ calls < MaxCalls /\ (starter = "main" => spc = "idle")
  /\ calls' = calls + 1
  /\ packets' = Append(packets, [to |-> s, kind |-> "disconnect"])
  /\ UNCHANGED <<starter, accepts, svrVars, tableVars, startVars, logicVars, got,
                 workVars, missed>>

\* The logic thread is to start a server: a packet of another plug.
AskToStart(s) ==
  /\ starter = "logic" /\ calls < MaxCalls
  /\ calls' = calls + 1
  /\ packets' = Append(packets, [to |-> s, kind |-> "start"])
  /\ UNCHANGED <<starter, accepts, svrVars, tableVars, startVars, logicVars, got,
                 workVars, missed>>

-----------------------------------------------------------------------------
(* The logic thread: CTaskLogic::Run.                                      *)

\* RemoveProcess, with no lock.
RemoveProcess ==
  /\ lpc = "remove"
  /\ servers' = servers \ rmKeys /\ rmKeys' = {}
  /\ lpc' = "begin"
  /\ UNCHANGED <<bounds, svrVars, packets, startVars, lpkt, todo, got, workVars, missed>>

MainLoopBegin ==
  /\ lpc = "begin" /\ Free("controller", "logic")
  /\ todo' = servers
  /\ lpc' = "loop"
  /\ UNCHANGED <<bounds, svrVars, tableVars, packets, startVars, lpkt, got, workVars, missed>>

\* Mutant: the listener of a timer starts a server again.
MainLoopServerStart(s) ==
  /\ lpc = "loop" /\ s \in todo /\ Free(s, "logic")
  /\ todo' = todo \ {s}
  /\ IF starter = "logic" /\ spc = "idle" /\ calls < MaxCalls
     THEN calls' = calls + 1 /\ spc' = "find" /\ ssvr' = s
     ELSE UNCHANGED <<calls, startVars>>
  /\ UNCHANGED <<starter, accepts, svrVars, tableVars, packets, lpc, lpkt, got,
                 workVars, missed>>

\* CServerBasic::MainLoop of one server: RemoveClientProcess takes its lock.
MainLoopServer(s) ==
  /\ lpc = "loop" /\ s \in todo /\ Free(s, "logic")
  /\ todo' = todo \ {s}
  /\ UNCHANGED <<bounds, svrVars, tableVars, packets, startVars, lpc, lpkt, got,
                 workVars, missed>>

MainLoopEnd ==
  /\ lpc = "loop" /\ todo = {}
  /\ lpc' = "pop"
  /\ UNCHANGED <<bounds, svrVars, tableVars, packets, startVars, lpkt, todo, got,
                 workVars, missed>>

\* A packet to a server that is not in the table is dropped.
Pop ==
  /\ lpc = "pop" /\ Free("controller", "logic")
  /\ IF packets = <<>>
     THEN lpc' = "remove" /\ UNCHANGED <<packets, lpkt>>
     ELSE LET p == Head(packets)
          IN /\ packets' = Tail(packets)
             /\ IF p.kind # "start" /\ p.to \notin servers
                THEN lpc' = "remove" /\ UNCHANGED lpkt
                ELSE /\ lpkt' = p
                     /\ lpc' = CASE p.kind = "disconnect" -> "close"
                                 [] p.kind = "accept" -> "add"
                                 [] p.kind = "start" -> "connect"
  /\ UNCHANGED <<bounds, svrVars, tableVars, startVars, todo, got, workVars, missed>>

\* CServerBasic::Disconnect: Close.
Close ==
  /\ lpc = "close"
  /\ state' = [state EXCEPT ![lpkt.to] = "disconnect"]
  /\ sock' = [sock EXCEPT ![lpkt.to] = NoHandle]
  /\ lpc' = "unqueue"
  /\ UNCHANGED <<bounds, tableVars, packets, startVars, lpkt, todo, got, workVars, missed>>

\* RemoveServer: its packets are dropped, and then it is marked for removal.
RemovePacket ==
  /\ lpc = "unqueue"
  /\ packets' = Kept(packets, {i \in DOMAIN packets :
                       packets[i].to # lpkt.to \/ packets[i].kind = "start"})
  /\ lpc' = "mark"
  /\ UNCHANGED <<bounds, svrVars, tableVars, startVars, lpkt, todo, got, workVars, missed>>

MarkRemoved ==
  /\ lpc = "mark" /\ Free("controller", "logic")
  /\ rmKeys' = rmKeys \cup {lpkt.to}
  /\ state' = [state EXCEPT ![lpkt.to] = "logoutWait"]
  /\ lpc' = "clear"
  /\ UNCHANGED <<bounds, sock, servers, packets, startVars, lpkt, todo, got, workVars, missed>>

\* Clear: the sessions, and the socket again.  CMultiPlug::Connect goes on to
\* start the server.
Clear ==
  /\ lpc = "clear"
  /\ state' = [state EXCEPT ![lpkt.to] = "disconnect"]
  /\ sock' = [sock EXCEPT ![lpkt.to] = NoHandle]
  /\ IF lpkt.kind = "start"
     THEN lpc' = "start" /\ spc' = "find" /\ ssvr' = lpkt.to
     ELSE lpc' = "remove" /\ UNCHANGED startVars
  /\ UNCHANGED <<bounds, tableVars, packets, lpkt, todo, got, workVars, missed>>

\* CMultiPlug::Connect: a server that is on is disconnected first.
ConnectServer ==
  /\ lpc = "connect"
  /\ IF IsServerOn(lpkt.to)
     THEN lpc' = "close" /\ UNCHANGED startVars
     ELSE lpc' = "start" /\ spc' = "find" /\ ssvr' = lpkt.to
  /\ UNCHANGED <<bounds, svrVars, tableVars, packets, lpkt, todo, got, workVars, missed>>

\* StartServer has returned.
ConnectEnd ==
  /\ lpc = "start" /\ spc = "idle"
  /\ lpc' = "remove"
  /\ UNCHANGED <<bounds, svrVars, tableVars, packets, startVars, lpkt, todo, got,
                 workVars, missed>>

\* AddSession: the listeners of EVT_CLIENT_JOIN run under the server's lock.
AddSession ==
  /\ lpc = "add" /\ Free(lpkt.to, "logic")
  /\ lpc' = "join"
  /\ UNCHANGED <<bounds, svrVars, tableVars, packets, startVars, lpkt, todo, got,
                 workVars, missed>>

OnClientJoin ==
  /\ lpc = "join"
  /\ lpc' = "remove"
  /\ UNCHANGED <<bounds, svrVars, tableVars, packets, startVars, lpkt, todo, got,
                 workVars, missed>>

-----------------------------------------------------------------------------
(* The accept thread: MakeServersFDSET, select() and accept() of a server. *)

Accept(s) ==
  /\ got = NoServer /\ accepts < MaxAccept /\ Free("controller", "accept")
  /\ s \in servers /\ IsConnect(s) /\ sock[s] # NoHandle
  /\ got' = s /\ accepts' = accepts + 1
  /\ UNCHANGED <<starter, calls, svrVars, tableVars, packets, startVars, logicVars,
                 workVars, missed>>

PushAccept ==
  /\ got # NoServer /\ Free("controller", "accept")
  /\ packets' = IF got \in servers
                THEN Append(packets, [to |-> got, kind |-> "accept"])
                ELSE packets
  /\ got' = NoServer
  /\ UNCHANGED <<bounds, svrVars, tableVars, startVars, logicVars, workVars, missed>>

-----------------------------------------------------------------------------
(* The work thread: CThread::Run and CTaskWorkServer::Run.                 *)

\* m_Tasks is read with no lock.
RunCheck ==
  /\ wpc = "check"
  /\ wpc' = IF tasks = <<>> THEN "exit" ELSE "tasks"
  /\ UNCHANGED <<bounds, svrVars, tableVars, packets, startVars, logicVars, got,
                 thread, turn, tasks, missed>>

RunExit ==
  /\ wpc = "exit"
  /\ thread' = "end" /\ wpc' = "none"
  /\ UNCHANGED <<bounds, svrVars, tableVars, packets, startVars, logicVars, got,
                 turn, tasks, missed>>

RunBegin ==
  /\ wpc = "tasks" /\ Free("tasks", "work")
  /\ wpc' = "find" /\ turn' = 1
  /\ UNCHANGED <<bounds, svrVars, tableVars, packets, startVars, logicVars, got,
                 thread, tasks, missed>>

\* Mutant: the task of a server that is gone goes on after it was ended.
TaskFindGone ==
  /\ wpc = "find" /\ turn \in DOMAIN tasks /\ Free("controller", "work")
  /\ LET s == tasks[turn].server
     IN /\ tasks' = IF s \in servers THEN tasks ELSE RemoveAt(tasks, turn)
        /\ turn' = IF s \in servers /\ ~IsServerOn(s) THEN turn + 1 ELSE turn
        /\ wpc' = IF s \in servers /\ ~IsServerOn(s) THEN wpc ELSE "read"
  /\ UNCHANGED <<bounds, svrVars, tableVars, packets, startVars, logicVars, got,
                 thread, missed>>

\* The task looks its server up: the task of a server that is not in the table
\* ends, that of one that is not on has nothing to do.
TaskFind ==
  /\ wpc = "find" /\ turn \in DOMAIN tasks /\ Free("controller", "work")
  /\ LET s == tasks[turn].server
     IN \/ /\ s \notin servers
           /\ tasks' = RemoveAt(tasks, turn)
           /\ UNCHANGED <<wpc, turn>>
        \/ /\ s \in servers /\ ~IsServerOn(s)
           /\ turn' = turn + 1
           /\ UNCHANGED <<wpc, tasks>>
        \/ /\ s \in servers /\ IsServerOn(s)
           /\ wpc' = "read"
           /\ UNCHANGED <<turn, tasks>>
  /\ UNCHANGED <<bounds, svrVars, tableVars, packets, startVars, logicVars, got,
                 thread, missed>>

\* MakeFDSET takes the server's lock; then its sockets are read.
TaskRead ==
  /\ wpc = "read" /\ Free(tasks[turn].server, "work")
  /\ wpc' = "find" /\ turn' = turn + 1
  /\ UNCHANGED <<bounds, svrVars, tableVars, packets, startVars, logicVars, got,
                 thread, tasks, missed>>

RunEnd ==
  /\ wpc = "find" /\ turn > Len(tasks)
  /\ wpc' = "check"
  /\ UNCHANGED <<bounds, svrVars, tableVars, packets, startVars, logicVars, got,
                 thread, turn, tasks, missed>>

-----------------------------------------------------------------------------
StartThread ==
  StartFind \/ LaunchServer \/ StartInsert \/ AddTask \/ ThreadStart \/ Started

LogicThread ==
  \/ RemoveProcess \/ MainLoopBegin \/ MainLoopEnd \/ Pop
  \/ \E s \in Server : MainLoopServer(s)
  \/ Close \/ RemovePacket \/ MarkRemoved \/ Clear
  \/ ConnectServer \/ ConnectEnd \/ AddSession \/ OnClientJoin

WorkThread == RunCheck \/ RunExit \/ RunBegin \/ TaskFind \/ TaskRead \/ RunEnd

Next ==
  \/ StartThread \/ LogicThread \/ WorkThread \/ PushAccept
  \/ \E s \in Server : CallStart(s) \/ StopServer(s) \/ AskToStart(s) \/ Accept(s)

Spec == Init /\ [][Next]_vars

\* The threads run, and a thread that waits for a lock gets it some time: between
\* two rounds, without a lock, the other sleeps (CThread::Run, line 262).  Nobody
\* need ever start or stop a server, and no connection need ever come.
FairSpec ==
  Spec /\ SF_vars(StartThread) /\ SF_vars(LogicThread) /\ SF_vars(WorkThread)

-----------------------------------------------------------------------------
TypeOK ==
  /\ starter \in {"main", "logic"} /\ calls \in 0..MaxCalls /\ accepts \in 0..MaxAccept
  /\ state \in [Server -> ServerState] /\ sock \in [Server -> Handle \cup {NoHandle}]
  /\ servers \subseteq Server /\ rmKeys \subseteq Server /\ missed \subseteq Server
  /\ packets \in Seq(Packet)
  /\ spc \in {"idle", "find", "launch", "insert", "add", "run", "done"}
  /\ ssvr \in Server \cup {NoServer} /\ (spc # "idle" => ssvr \in Server)
  /\ lpc \in {"remove", "begin", "loop", "pop", "close", "unqueue", "mark", "clear",
             "connect", "start", "add", "join"}
  /\ lpkt \in Packet \cup {NoServer}
  /\ todo \subseteq Server /\ got \in Server \cup {NoServer}
  /\ thread \in {"none", "wait", "run", "end"}
  /\ wpc \in {"none", "check", "exit", "tasks", "find", "read"}
  /\ turn \in Nat \ {0} /\ tasks \in Seq(Task)
  /\ (wpc = "read" => turn \in DOMAIN tasks)

\* No threads wait for each other: in every set of threads there is one that
\* waits for no lock of another of the set.
NoWaitCycle ==
  \A D \in (SUBSET Thread) \ {{}} : \E t \in D : \A u \in D \ {t} :
    Wants(t) \cap Has(u) = {}

\* A server that has a listening socket, or has got one and is just being put
\* into the table, is on, in the table and not about to be removed from it: no
\* stop of an earlier life takes it away from the thread that accepts for it and
\* from the one that reads for it.
ListeningIsListed ==
  \A s \in Server :
    sock[s] # NoHandle /\ ~(ssvr = s /\ spc = "insert") =>
      IsServerOn(s) /\ s \in servers \ rmKeys

Reads(s) == wpc = "read" /\ tasks[turn].server = s

\* The sockets of a server that is on are read, again and again, although the
\* thread that reads them ends when no server is left and is started anew.
\* The two ways in which the code loses a server are named in missed: its task
\* is refused, because the handle of its socket is that of a task which has not
\* ended yet, or it is given to a thread that has already seen no task.
OnIsServed ==
  \A s \in Server :
    (IsServerOn(s) /\ s \notin missed) ~>
      (Reads(s) \/ ~IsServerOn(s) \/ s \in missed)

=============================================================================
