# MadSoccer network core: TLA+ specifications

This directory specifies the network library and the servers of MadSoccer, a
multi-process football game server written in C++ for Windows.  Paths below are
relative to `src/Src`.

## The system

A *server process* (`Common/Network/Service/ServerApp.cpp`) calls
`network::Init(1, ...)` and runs

* one **accept thread** (`CTaskAccept`): `select()` on the listening sockets,
  `accept()`, and an ACCEPT packet pushed on the queue;
* one **logic thread** (`CTaskLogic`): `CController::MainLoop()`, then one packet
  popped from the queue and dispatched;
* one **work thread** per server with a thread of its own (`CTaskWorkServer`):
  `select()` on the sockets of the sessions, `recv()`, and a packet pushed for
  everything read, or a CLIENT_DISCONNECT after the end of a stream.

A *client process* calls `network::Init(0)`; it has neither an accept nor a logic
thread, and the user's loop calls `Proc()`.  A client may host a P2P server
(`CP2PClient`) this way.

All threads share one `CPacketQueue`, the `CController` with its tables of servers
and clients, and each server's own tables (`CServerBasic`).

### Components

| component | state | operations | where it is hard |
|---|---|---|---|
| Session table, `CServerBasic` (`Common/Network/Controller/ServerBasic.cpp`) | `m_Sessions` with pending removals, `m_Users`, `m_RootGroup`, sockets | AddSession, RemoveSession, RemoveSessionSocket, RemoveClientProcess, MakeFDSET, SendAll, Proc | two threads on one table with half the accesses unlocked; removal in two steps; handles reused by the system |
| Server threads (`Common/Network/Task/*.h`) | accepted socket, the copied fd set, the popped packet | Run of the three tasks | stale copies of the table; order of packets of two producers |
| P2P host (`P2PClient.cpp`, `CServerBasic::Proc`) | as the session table | Bind, Proc, SendAll, OnClientJoin, OnClientLeave | no thread ever runs the main loop |
| Controller (`Controller.cpp`) | tables of servers, clients and core clients, threads | StartServer, StopServer, RemoveServer, StartClient, StopClient, MainLoop | removal in two steps, locks taken in two orders, a stop racing a start, handlers inside handlers |
| Threads and tasks (`Common/Common/thread`) | state, tasks, messages | AddTask, Start, Run, Exit, Terminate | unlocked state, a thread that ends while a task is added |
| Containers (`Common/Common/container`) | map, sequence, pending keys | insert, remove, apply_removes | map and sequence must agree |
| Netid pool (`Common/Common/etc/RandNoDuplicate.cpp`) | pool and counter | GenerateId | unlocked, finite, never refilled |
| Group tree (`Common/NetCommon/DataStructure/Group.cpp`) | children, players, viewers | AddChild, RemoveChild, AddPlayer, RemovePlayer | recursion over a tree that handlers change |
| Login, certify, lobby, game servers (`Server/*`) | users, certification keys, where every user is | ReqLogIn, ReqMoveToServer, ReqMovePlayer, ... | three servers agree on one player by messages; each may restart |
| Farm (`Server/FarmServerApp`, `Common/Network/MultiNetwork`) | sub servers, their ports and links | login, links, binding and connecting of sub servers | any order of starts and deaths; news that crosses questions |
| Clients (`ClientBasic.cpp`, `CoreClient.cpp`, `P2PClient.cpp`) | socket, state, queued packets | Start, Stop, Proc, Disconnect, the move to another server | disconnects from two sides, handlers that start the client again |
| Protocol compiler (`Tool/ProtocolCompiler`) | buffer, tokens, tree | Scan, Parse, the writing of code | lines longer than the buffer, two characters of look-ahead |
| Packets (`Common/Network/Packet`, generated code) | data, size, position | the operators of marshalling, Dispatch | what does not fit, arguments read in another order than written |

Not part of the network core, and not modelled: the event tables (a synchronous lookup and
call), rooms (unused by the servers), user interfaces, graphics, AI, logging, mathematics,
the vendored memory monitor.

### What makes each component correct

* **Session table.**  A session is in `m_Sessions`, with its object, exactly from
  its `OnClientJoin` to its `OnClientLeave`; it has a place in the group tree as
  long, and a player until its removal is asked for.  An open socket is known to
  exactly one session, or is on its way in an ACCEPT packet.  A broadcast reaches
  everybody who is still there.  Of the players this is so where a server's own handlers
  leave `m_Users` to `CServerBasic`: in the login, certify and farm servers.  The lobby and
  the game server also put players there who have no session yet, and the lobby's login
  takes players out by name (`BasicC2SHandler_LobbySvr.cpp:63`, 75): players and sessions
  need not agree there, and `LoginLobby` has the lobby's table of players apart from its
  sessions.
* **Server threads.**  Every packet handled for a session finds the session and its
  player; its bytes came from that session's client, as long as the sessions fit a set of
  `select()`; the work thread uses no session that was deleted.  Whoever connects joins,
  whoever leaves is removed, whatever the others do.
* **P2P host.**  The same, with no main loop; a join is announced to every member.
* **Netid pool and containers.**  No netid twice; map and vector agree; an element
  disappears only after it was marked; a new session never displaces another.
* **Controller, threads.**  A server that listens is in the controller's table unless a
  stop of it is on its way (`ListeningIsListed`), and its sockets are read, though the
  thread that reads them may be ending when it starts (`OnIsServed`); no threads wait for
  each other's locks in a circle (`NoWaitCycle`).
* **Group tree.**  A session is listed by the groups from one group up to the root and
  by no other, whatever was moved or created before; whoever moves is announced to
  everybody around the group it moves to.
* **Login, certify, lobby.**  What a server answers by a user's name reaches the client
  that asked (`LoginIsFound`), so that the login server has an id logged in once
  (`OneLoginPerId`); a client presents the key it was announced with (`KeysAgree`); the
  certify server does not lose anybody who is in the lobby (`LobbyIsLocated`); whoever was
  announced to the lobby gets in (`ExpectedArrives`).
* **Farm.**  What the farm hands out is bound, at the port it says
  (`AnnouncedAreBound`); servers that were to be connected are, whichever came first
  (`AskedAreConnected`).
* **Clients.**  No connection is open that no client has (`ConnectionsHeld`), through
  disconnects inside handlers of disconnects; a client told to move goes on to the
  other server (`MoveGoesOn`); a connection that is gone is noticed (`GoneIsNoticed`).
* **Protocol compiler and packets.**  A file is cut into the tokens it is written in
  (`ScansLexemes`), parsed to the tree of its grammar (`ParsesGrammar`), and a message
  sent by the generated code arrives with the arguments that fit (`MessageArrives`).

## The modules

| module | models | state that corresponds to the code |
|---|---|---|
| `ServerBasic` | `CServerBasic`, winsock, `CPacketQueue`, the clients | `sessions`, `rmKeys`: keys of `m_Sessions` and `m_RmKeys`; `sock`, `state`: fields of `CSession`; `objects`: the `CSession` allocated; `players`: `m_Users`; `members`: players of `m_RootGroup`; `packets`: the queue; `handle`, `peer`, `inbox`: the operating system's side of every socket |
| `ServiceServer` | the threads of a server process | `accepted`: the packet the accept thread is about to push; `wpc`, `fds`, `cur`: the work thread's place, its copy of the sockets and the netid it is closing; `lpc`, `lpkt`: the logic thread's place and its packet; `asked`: the sessions whose login the certify server has not answered |
| `UserLoopServer` | a P2P host under `CServerBasic::Proc` | `pc`, `ready`: the place in `Proc` and the readable sockets |
| `SessionTable` | `RandNoDuplicate`, `VectorMap`, `StableVectorMap`, and how `AddSession`, `RemoveSession`, `RemoveClientProcess` use them | `number`, `count`: `n_randNumber`, `n_randCount`; `map`, `seq`, `rmKeys`: the three fields of `m_Sessions`; `todo`: the keys `apply_removes` has still to visit |
| `DeferredTable` | what a `StableVectorMap` promises | `live`, `pending` |
| `GroupTree` | `CGroup`, the group requests of `CBasicC2SHandler`, the joining and leaving of sessions | `parent`: `m_pParent` of every group; `players`, `viewers`: `m_Players`, `m_Viewers`; `sessions`: the sessions of the server; `arrived`, `moved`, `told`: history |
| `ServerLifecycle` | start, stop and removal of servers by `CController`, and the thread that reads their sockets, with every lock | `servers`, `rmKeys`: `m_Servers`; `thread`, `tasks`: `CThread::m_State`, `m_Tasks`; `spc`, `lpc`, `wpc`: the places of the threads, which say who has which lock; `missed`: history |
| `ClientProcess` | `CClientBasic`, `CP2PClient` as a client and as a host, `CBasicS2CHandler` | `client`: all that a handler may change: session states, sockets, queued packets, `m_ClientState`, the P2P plug; its `conns`, `open`, `over`, `inbox`: the system's side |
| `Farm` | the farm server and the sub servers | `members`, `port`, `ready`, `reached`: the farm's groups and sessions; `plug`, `bound`, `conns`: the multi plugs of the sub servers; `toFarm`, `toSub`: packets on their way |
| `LoginLobby` | login, certify and lobby server and the clients | `sessions`, `users`: the tables of login server and lobby; `located`: the certify server's; `at`, `move`, `self`, `dest`: a client; `up`, `down` and four links: packets on their way |
| `ProtocolScanner` | `CProtocolScanner` | `memPoint`, `buf`, `linePos`: the file read in lines; `state`, `word`: the automaton; `meant`: history, the lexemes of a plain file |
| `ProtocolParser` | `CProtocolParser` | a parser is a value: the tokens left and whether an error was reported |
| `ProtocolCode` | both, with the order of arguments and numbers in the generated code, and `CPacket` | `rmis`: the tree; `packet`: a `CPacket`; `sent`, `got`: history |
| `Queues` | erasing from a list or a vector | |
| `...Proofs` | theorems about `ServiceServer` and `UserLoopServer` (both in `ServerBasicProofs`), `SessionTable` and `GroupTree` (both in `SessionGroupProofs`), which is why the second of each pair has `HostInit`, `TreeNext` and the like, `ServerLifecycle`, `ClientProcess`, `Farm`, `LoginLobby`, `ProtocolScanner`, and lemmas on `Queues` | |
| `MC...` | symmetry, functions and files of the small instances | |

`ServerBasic` has one operator per operation of the class; `ServiceServer` and
`UserLoopServer` extend it and say which thread performs an operation, and between
which steps another may come.  An action is what the code does between two points at
which another thread can see or change what it uses: an operation under `m_CS`
(`AddSession`, `RemoveClientProcess`, `MakeFDSET`) is one step;
`RemoveSessionSocket`, which holds no lock, is three (`WorkCloseSocket` or
`WorkCloseMiss`, `WorkZeroSocket`), and the packet it leads to a fourth
(`WorkPushDisconnect`); `SendAll`, which walks the table without a lock, takes one
step per session.

`SessionTable` opens up what `ServerBasic` takes as given: that a session may be called
by its connection (its netid is unique), and that `insert`, `remove` and
`apply_removes` act on one set of keys.  It is not restricted to a server with a main
loop: `RemoveClientProcess` may or may not run before the next `AddSession`, as in a P2P
host.

`GroupTree` opens up `members` of `ServerBasic`: the tree under `m_RootGroup`.  All of it
is used by the logic thread, so a handler is one step, with the announcements it sends
(`told`: whom they reach).  A session that leaves is one step too, since the main loop
takes out the marked sessions before the next dispatch, which
`ServerBasicProofs!RemovalsPending` proves.  A climb along `GetParent()` is described
without recursion: `Line(parent, g)` is the smallest set that holds `g` and is closed
under `parent`, and a climb that stops early is the part of that line before the first
group that stops it.

`ServerLifecycle` is about the process around the servers: a section of the code that
takes no second lock is one step that waits while another thread has the lock; of the two
sections that do take a second one, every lock is a step.  Accepting, reading and
dispatching are there only as users of the tables.

`ClientProcess` has one thread and nested calls instead: a disconnect calls the listeners,
one of which starts the client again, which sends, which may fail and disconnect.  Its
handlers are operators from the state of the process to the set of its next states, and an
action is one call of `Proc()` or of the user.

`Farm` and `LoginLobby` are distributed: a handler of a server is one step, as its logic
thread is its only thread with handlers, and links are queues that keep their order.
`LoginLobby` takes from `ServerBasicProofs!RemovalsPending` that a session that left is
out of the table before the next dispatch.  What a constructor does not write, the key of a
session, a player or a client, is `NoKey`, and compared with another key it may be equal or
not (`MayAgree`, `MayDiffer`).

`ProtocolCode` extends the scanner and the parser and follows a file from its text to a
message on the other side.  The parser is not a process: it is a set of functions, in the
shape of the code's recursive descent.  What it is compared with, the words of a grammar
and their trees (`Written`), is written down apart from it.

Operators whose comment begins with "Mutant:" are not part of the model.  Each is a
wrong form of the operator after it, for one run and one of its properties: with the
wrong form in place, that run finds that property violated.  They document what a
property is sensitive to.

Abstractions, by module:

* `ServerBasic`, `ServiceServer`: a packet is a whole value, read by one `recv()`; of a
  server's own handlers only the login of the login server is there, as what it does to
  the session (`ReqLogIn` asks, `DispatchAckUserLogin` is the certify server's answer,
  which its core client puts into the same queue; a refusal changes nothing), so that
  lobby and game server are not instances; an answer sent to one client is no step (see
  below for one that fails); a server's timers are the broadcasts they cause; the order of
  sessions in `m_Seq` matters to `MakeFDSET` only, where any session may be the last; the
  groups of a server are the one set `members`; a read of `std::map` without a lock may
  miss a session (`MaxMiss` times), but does not crash.
* `ServerLifecycle`: a server's sessions are left out; `Stop` from the work thread's own
  handlers does not occur in the programs.
* `ClientProcess`: addresses are left out (any `connect` may fail), so are the client's own
  sessions as a host (`UserLoopServer` has them); `m_Clients` and `m_CoreClients` follow
  the state of the client.
* `Farm`: the four messages with a sub server's links are one, the list of servers and the
  notice of a bound server one kind (`hosts`); a port is a number counted from the first of
  its range; a configuration lists a type once; connections end with the process at either end.
* `LoginLobby`: one server of each type; certify has login server and lobby as clients, the
  login server has the lobby (the configuration files are not in the repository);
  refusals, after which a client does nothing, are not kept.
* Protocols: a character stands for its class, an `int` takes two bytes of base 100, the
  sizes of buffer, token, packet and string are small constants in the code's order.

## The runs

| run | instance | what it shows |
|---|---|---|
| `ServiceServer_safe` | 3 connections, 2 sockets, one broadcast, a login server | sockets accounted for, the work thread uses no deleted session, packets find their session and are attributed to their sender, table, players and group agree, broadcasts are complete: 3.3 million states |
| `ServiceServer_live` | 2 connections, 2 sockets, one broadcast, one missed lookup, fair threads, no login | accepted connections join, closed ones leave though a broadcast to them failed, inboxes are drained; events and table stay balanced even when the unlocked lookup misses: 212 000 states |
| `UserLoopServer_host` | 2 connections, 2 sockets, one user broadcast, a fair loop | players and announcements are right; waiting connections are announced; a join clears the sockets that kept `select()` failing |
| `SessionTable_table` | 4 connections, pool of 3, `rand()` in 0..3 | map and vector agree, the pool never repeats, a joined session is never displaced, and the table implements `DeferredTable` |
| `GroupTree_moves` | 4 players, root, waiting group and 3 groups to create | every session has one place in the tree; players sit in inner groups only under the waiting group; a move is announced to everybody around |
| `ServerLifecycle_two` | 2 servers, 2 socket handles, 3 starts or stops, one connection | no circle of waiting threads, a listening server stays in the table and is served by the work thread: 270 000 states |
| `ClientProcess_moves` | 3 connections, 3 calls of the user, 1 unread packet | every open connection has a client, a move goes on, a lost connection is noticed: 150 000 states |
| `Farm_meet` | 2 lobby servers, 1 game server, one death, a taken port | announced ports are bound, askers end up connected: 110 000 states |
| `LoginLobby_same` | 2 clients of one id, 2 keys, 2 requests each, one restart | answers find their client, keys agree, nobody in the lobby is lost, the expected arrive: 292 000 states |
| `ProtocolCode_text` | 1375 files cut from pieces, 301 that follow the grammar; 1609 of them are plain | tokens, trees and messages are what was written |
| `UserLoopServer_deaf` | 2 connections, a fair loop | **violated**: see 1 below |
| `GroupTree_inner` | as moves | **violated**: see 2 |

Bounds.  A connection connects once, so a client that returns is another connection. Two
socket handles for three connections make the system reuse a handle while the work thread
still holds it, the case that matters; a third connection lets one client leave, one join
and one be read at the same time.  One unread packet per client (`MaxData`) is enough to
have data behind an ACCEPT, before a disconnect, and in the set of sockets at the moment
another is closed.  One broadcast (`MaxTick`) is enough as each is independent of the ones
before.  `FD_SETSIZE` (64) is scaled to the connections, so that the sessions of a run
always fit; beyond that `EventsBalance` and `MembershipsAgree` are proved, and of the rest
nothing is claimed.  `MaxMiss` 0 leaves the outcome of the unlocked lookup benign,
`MaxMiss` 1 lets it miss once; what is checked with 0 only (the properties of
`ServiceServer_safe`, but for `TypeOK` and `MembershipAgrees`, which are proved for any)
is not claimed when it misses.  In `SessionTable` the pool has one number left when the
two groups have theirs, so that the first session draws from the pool and the others from
`rand()`, of which every value is a reserved one, a group's, or the first session's.
Three groups to create in `GroupTree` give a chain of three, a fork, and a fork below a
chain; four players fill a group, its sibling and the waiting group while the fourth
moves.  Two servers in `ServerLifecycle` let the work thread go on for one while its task
for the other ends, and end when both are gone; two handles let a server get the handle of
another whose task is still there; three calls are a start, a stop and a start again.
Three connections of a client process are the first server, the one it is moved to, and a
peer; with three calls the user stops and connects in between.  In `Farm` two servers of
one type and a client type make every order of binding, asking and dying, and the second
outer port, which another program has, cannot be bound.  Two clients of one id in
`LoginLobby` are a user who returns before the servers noticed, or two users of one name;
two keys let a stale key match or not; two values of a netid that nobody wrote (`Garbage`)
let two announcements of one name wait in the lobby together, or the second be refused;
two requests each are a login and the lobby, and one restart in between makes keys and
admissions stale.  In `ProtocolCode` a line holds 15 characters and a token 9: words of 6
and 7 letters in files of three pieces fill a line exactly and one past it, in the middle
of a word, of a number, of a comment and of a two-character token; the 301 others have one
argument of every form, every pair of brief forms, and several packets and protocols;
`MaxPacket` 14 is too small for some of the messages.

Deadlock is not checked where the system may stop: everybody may have come and left
(`GroupTree`), all calls and deaths may be used up (`Farm`, `LoginLobby`), a file comes to an
end (`ProtocolCode`).

Fairness.  The three tasks of a server loop for ever and block only in `select()` with a
timeout of 0 or a few milliseconds, so each thread is weakly fair as a whole
(`WF_vars(WorkThread)`, ...); nothing is assumed of the choice between the sockets of a
set or of which session a broadcast visits next.  The P2P host's loop and the client's loop
are the user's frame loop, weakly fair.  Where locks are modelled (`ServerLifecycle`) a
thread that waits for one must get it some time, which is strong fairness of the thread:
every other thread sleeps between two rounds without a lock (`Thread.cpp:262`).  The servers
of `Farm` and `LoginLobby` handle what they receive, each weakly fair, and so do the clients
of `LoginLobby` with what they are told.  The clients owe nothing else: they may stay silent
for ever, and nobody need start a server.  `ProtocolCode` has no liveness.

### Where the code does something else than it says

1. **A P2P host goes deaf** (`UserLoopServer_deaf`).  Nothing runs `MainLoop` in a client
   process, so a session whose client left stays in the table with socket 0, and
   `select()` fails for every other client until a new one joins.
2. **Players in an inner group** (`GroupTree_inner`).  Players are to be in terminal groups
   only (`Group.cpp:62-63`, `BasicC2SHandler.cpp:204-205`), and `AddChild` refuses a group
   with players.  The waiting group is empty whenever nobody waits; a group may then be
   created below it, and the next session to join sits in an inner group.  `SendViewer`
   visits leaves only, so it hears no announcement; and `ReqGroupJoin` takes nobody back
   into the waiting group.

### Seen and not given a run

Sessions and their servers:
* `RemoveSessionSocket` calls `closesocket()` and then `SetSocket(0)`, with no lock.  In
  between `accept()` may return the same handle, and `AddSession` turns the client away as
  "Already Exist" (`ServerBasic.cpp:296`, 407-408); its socket is neither stored nor closed.
* `MakeFDSET` goes on writing `netid_array[fd_count - 1]` when the set is full
  (`ServerBasic.cpp:506`), so the last socket is paired with another session's netid.  When
  its client goes away, the host closes the socket of that other session, whose client is
  still there and is passed over by every announcement from then on.  The proof of
  `JoinsAreTold` needs `SelectFits` for that reason; without it TLC breaks `JoinToldToAll`
  with 3 connections, 3 sockets and a set of 1.
* Netids run out: 1024 numbers, none ever given back (`RandNoDuplicate.cpp:31-34`); then
  `assert(0)`, or `rand()`, which may return a reserved netid or a group's, though the
  comments (23, 46) promise one that was not given.  `SessionTable_table` shows that the
  sessions themselves survive it: `AddSession` asks players and groups first.
* `m_IsLoginCheck`'s comment (`ServerBasic.h:98`) lets only logged-in clients take part,
  while `IsConnect` is true of `LOGIN_WAIT`.
* The arguments of the CLIENT_DISCONNECT of a failed broadcast are swapped
  (`ServerBasic.cpp:541`), so it is always rejected (in the model:
  `InvalidDisconnectPacket`) and only the work thread's own `recv()` removes the client.
* A `Send` to one client that fails asks for the removal of the packet's sender, which line
  562 has just set to the server itself (`ServerBasic.cpp:570`), so no session is removed.
* `RemoveClientProcess` deletes the session and then reads its socket for the log line
  (`ServerBasic.cpp:463-464`), in every removal.  `NoUseAfterDelete` is about the pointer of
  the work thread only.
* A session dropped by the `apply_removes()` of `insert()` in a P2P host has no leave event,
  and its object is never deleted.
* `CGroup::RemoveChild` (`Group.cpp:83-105`) sets the map's entry to null before `remove()`,
  which then cannot find the child in the vector, whose dangling pointer stays; the lobby
  leaves its blank group behind when it finds no sub server
  (`BasicC2SHandler_LobbySvr.cpp:158`).  That one group of a line is a P2P group
  (`GroupTraverse.cpp:46`) is nowhere upheld, and the P2P state of a group and of a session
  is never taken back (`BasicC2SHandler.cpp:307`).

Starting and stopping servers:
* A server whose socket gets the handle of a task that is still there is not served:
  `AddTask` refuses, and nobody looks at its result.  `Start` may also see RUN while the
  thread is about to end (`missed` in the model; `OnIsServed` says it of all others).
* `CMultiPlug::Connect` on a server that is on disconnects it first; `StartServer` then
  refuses it, as it is still in the table (`MultiPlug.cpp:173-175`, `Controller.cpp:94-99`).
* A server that was stopped and dropped, and that the main thread starts again, can be
  cleared by the logic thread's late `Clear`.  `Clear` deletes sessions that the work thread
  may hold, and `RemovePacket` drops an ACCEPT with the only copy of its socket.
* `apply_removes` of the tables of clients runs outside `m_CS` (`Controller.cpp:645-647`).
* There is no deadlock as the programs are: it would take a `StartServer` from a listener of
  a timer or a join, or a second logic thread.
* `network::Clear` cleans the protocols up before the threads stop (`Network.cpp:38-44`);
  `OnTimer` may end its own timer while it is walked (`ServerBasic.cpp:804-810`).

Clients:
* After a disconnect that is not followed by a new connection the core client stays in
  LOGOUT_WAIT: `IsConnect()` is true for ever, with socket 0 (`ClientBasic.cpp:171`;
  `VirtualClient.cpp:105` loops on it), and every `Send` raises EVT_DISCONNECT again.
* Packets and a DISCONNECT of an earlier connection stay queued when the client is started
  again, and end the new one; the same for a peer connection while the plug is a host.
* A P2P host can bind once per process (`Controller.cpp:94-99`); the first `Bind` leaves an
  earlier peer connection open and unread.
* After a failed move the next connection, to whatever server, sends `ReqLogIn` with the
  key; after a refused login the next name and key are not stored
  (`BasicS2CHandler.cpp:33-40`).  At a move, listeners registered later hear EVT_CONNECT
  before EVT_DISCONNECT.

Farm, login and lobby:
* Each member of a group is passed once when a port is chosen (`SubServerGroup.cpp:78-90`),
  so two servers may be given one port; the second `bind` fails, and nothing is tried again.
  `std::unique` is used on a vector that is not sorted (`SubServerGroup.cpp:50-52`).
* A sub server that hears of a server between its login and `ConnectLink` is RUN, and skips
  the question for the list of the others.  A client plug stays RUN after a disconnect
  (`FarmServerPlug.cpp:154`) and is never connected again.
* The error replies for an inner port use the outer port's message
  (`FarmServer.cpp:302-321`); `MultiPlug::SendAll` returns after its first client
  (`MultiPlug.cpp:147-151`).
* `CPlayer`'s netid is never set (`Player.cpp:9-14`), and the lobby ignores that `AddPlayer`
  fails for the second of two that have the same (`LobbyServer.cpp:236-243`).
* `ReqUserMoveServer` of an unknown user goes on with a null pointer
  (`CertifyServer.cpp:168-174`); `ReqUserLogout` is never sent, `ReqMovePlayerCancel` is
  handled by nobody; the lobby tells port 0 until its first timer (`SubServerPlug.cpp:45`);
  two `ReqGroupCreate` before the answer leave a blank group; `rand()` gives equal keys after
  a restart of the login server.
* `AckMovePlayer` tells the first session of a name to move, whether or not that session is
  logged in.  A client that was not logs in at the lobby with an empty name and a key that
  nobody wrote: there it finds the player of some session that has no name yet, may take it
  away, and `ReqUserMoveServer` of the empty name stops the certify server (three requests of
  a client are enough; `ExpectedArrives` leaves such a client out by name).
* The lobby may let an id in twice (`BasicC2SHandler.cpp:33-41`,
  `BasicC2SHandler_LobbySvr.cpp:40-75`).  A client that is refused keeps the name on its
  session in LOGIN_WAIT, and `GetSession` finds that one before the one that is logged in;
  and the player of a session that is logged in has the name, but the key that its
  constructor left (`Player.cpp:9-14`).  It takes three clients of one id and two restarts of
  the login server.  On the login server this cannot happen (`OneLogin` is proved).

Protocols:
* The grammar of `ProtocolParser.h:58` has `a[]`, which the parser refuses; it takes
  `f(a,)` and `a<>`, and `f(a,,b)` makes it use a null pointer (`ProtocolParser.cpp:138-143`).
  Code is generated after syntax errors too (`ProtocolCompiler.cpp:16-20`).
* The text of a `/* */` comment is saved into the next token, `**/` does not close it, and a
  `//` comment or a word at the end of a file without a line end never ends.  A line of 256
  characters or more loses one per buffer (`ProtocolScanner.cpp:229-232`).  Reserved words
  are compared without case, so that `in` or `Event` cannot be names.
* A string of more than 126 characters shifts the arguments after it (`Packet.h:147`), and a
  read is bounded by the packet's room, not by what was written.

Elsewhere: `CSharedMem`'s `delete` frees nothing that `malloc` gave when the shared memory
was full (`SharedMemoryMng.cpp:162-181`).

## The proofs

All theorems hold for any number of connections, sockets, packets and broadcasts; the
assumptions are those named beside the constants (`ServerConstants`, `MaxMissIsNat`,
`TableConstants`, `FarmConstants`, ...).

* `ServerBasicProofs!TypeCorrect`: `Spec => []TypeOK`, by induction over the actions.
* `ServerBasicProofs!EventsBalance`, `MembershipsAgree`.  Neither property is inductive:
  that `insert()` drops no session untold needs that no removal is pending when an ACCEPT
  is dispatched (`RemovalsPending`: the main loop ran since the last dispatch), and that a
  session is not inserted twice needs that the ACCEPT of a connection exists once, in the
  accept thread's hand, in the queue or in the logic thread's, and only while the
  connection has not joined (`AcceptOnce`).  `TableInv` is the conjunction of these with
  the type invariant and the two properties.  They hold for any `MaxMiss` and any
  `FdSetSize`; `MembershipsAgree`, like all of `ServiceServer`, is about servers whose
  handlers leave the players to `CServerBasic`.
* `ServerBasicProofs!HandlesAreAccounted`, `NeverUsedAfterDelete`,
  `DispatchesFindSessions`, `SendersAreOrigins`, `BroadcastsAreComplete`: how the sockets,
  the queue and the threads' copies agree.  They are theorems of `Spec /\ []Benign`: of the
  runs in which no lookup has missed and the sessions at any one time fit a set of
  `select()`.  Nothing is assumed of the constants; any number of clients may come and go.
  The invariant (`SocketInv`) adds to `TableInv` that an open handle is on its way in an ACCEPT
  or a session's own (`HandlesAccounted`, `SocketsOwned`), that the session the work thread
  closes stays in the table (`ClosingInTable`), that the work thread's copy of the sockets is
  current but for one it closed itself (`CopyIsCurrent`), and that a CLIENT_DISCONNECT is
  about a session that has ended, once and after everything else about it (`EndsQueued`).
* `ServerBasicProofs!HostTypeCorrect`, `JoinsClearClosed`, `JoinsAreTold`,
  `NobodyIsRefused`, about a P2P host.  The first two assume nothing.  `JoinClearsClosed`
  follows from `ClosedAnnounced`: a session with a closed socket is marked, or its
  CLIENT_DISCONNECT is still queued; as an insert leaves no mark, only the latter are left
  after it.  `JoinsAreTold` is a theorem of `HostSpec /\ []SelectFits`: of the runs in which
  the sessions always fit a set of `select()`, however many come and go.  Its invariant
  (`HostInv`) says that the socket of a session is its own or closed, and closed only when
  the client has gone (`SessionsOwn`), that the entries left to receive from are those of
  sessions (`ReadyAreSessions`), and that an ACCEPT is queued once, for a connection that is
  no session yet, with the handle that designates it (`AcceptsWait`).
* `SessionGroupProofs!PoolNeverRepeats`.  The invariant (`PoolInv`): the numbers at and past
  `count` are those that were drawn, and the array holds every number once.
* `SessionGroupProofs!SeqAlwaysAgrees`, `JoinedStay`, `TypeCorrect`.  The invariant
  (`TableInv`) ties the vector to the map (`SeqInv`), every key to the netid of its session
  (`KeysInv`) and every key of the map to a player or a mark (`MarksInv`).  The point is
  `KeysInv`'s last part: a session being inserted has a netid that nobody has, or only a
  marked session, which `apply_removes` takes out before the insert.
* `SessionGroupProofs!TableIsDeferred`: `SessionTable` implements `DeferredTable`.  While
  `apply_removes` runs, the abstract table has already dropped the marked sessions.
* `SessionGroupProofs!EveryoneHasOnePlace`, `OnlyWaitingIsMixed`, `MovesAreAnnounced`,
  `TreeTypeCorrect`, for any number of players and groups.  The invariant (`TreeInv`) adds to
  the properties where the root and the waiting group are and that every parent is one of
  its group's viewers (`TreeShape`), and that a group on whose line a session is listed has
  no children unless it is the waiting group (`InnerListed`).  The lemmas are about `Line`,
  the least fixed point: every group on a line but its own has a child on it (`LineChild`),
  so a group without children is on no line but its own (`LeafLine`), and a new group
  changes no line but adds its own (`LineExtend`); from these a climb that adds or removes
  a player does so along the whole line.
* `ServerLifecycleProofs!ListedAlways`, `NeverWaitInCircle`, `TypeCorrect`, for any number of
  servers and handles.  The invariant (`LifeInv`) adds to `ListeningIsListed` that a logic
  thread that starts a server is dispatching its packet (`StarterInv`), that a removal is
  pending only from the end of a handler to the next main loop and only of servers that do
  not listen (`MarksInv`), and that the server being stopped is in the table while one being
  started is not, so that the two are never the same (`StopInv`).  That nobody waits in a
  circle needs the two threads that hold a lock while they want another, and that what one
  of them wants the other does not have.
* `ClientProcessProofs!ConnectionsAreHeld`, `TypeCorrect`, for any number of connections.
  The proof goes along the nesting of the handlers: each of them, given a process state that
  is `Good`, results in `Good` states only; `Good` adds to the property that a plug with a
  socket is logged in and that the plugs have different ones (`Held`), that no connection
  is open that was not made yet (`Fresh`), and what every queue may hold (`Queued`).
* `FarmProofs!AnnouncementsHold`, `TypeCorrect`, for any number of sub servers, types and
  ports, each type listed once in a configuration.  `AnnouncedAreBound` is not inductive:
  that the farm writes `m_ServerPort` of a link only while nothing is bound for it needs
  that question, port and report of one link are never under way together, and none of
  them while login or links are (`SoloInv`, `EarlyInv`), what each of them says while it is
  (`AskInv`, `TellInv`, `ReportInv`), and that the groups hold servers of their type that
  were started (`MembersInv`).  All but the last are about one sub server and its two
  queues (`Local`), so that a step is shown for the sub server it is about and the others
  are as they were (`Assemble`).
* `LoginLobbyProofs!LoginFound`, `OneLogin`, `KeysAgreeAlways`, `LobbyLocated`,
  `TypeCorrect`, for any number of clients, ids, keys, requests and restarts
  (`LobbyConstants` says that the empty name is no id and that a garbage netid is no
  client's).  `LoginIsFound` is kept by `MayLogIn`, which asks for the state of the first
  session of a name only: by the invariant itself that one is the session that is logged in,
  if there is one.  Together with it goes that a client has one session on a server
  (`OneSession`), which needs that a join comes first on a connection, to a server where the
  client has nothing (`JoinsFirst`, `Strangers`), and that only a client at the login server
  is told to move (`MovesFromLogin`): so nobody comes to the lobby twice.  `KeysAgree`
  follows the answers under way to a client (`HoldSteps`).  `LobbyIsLocated` is not
  inductive, as a restart of the lobby is reported after what the old lobby said: `LobbyHeard`
  adds that the word of a user is behind the last report of an end, and that nothing of the
  kind is under way once the user is located; only the lobby tells of moves
  (`RequestsApart`).  Types need that whoever is logged in has a name and a key
  (`LoginNamed`).
* `ProtocolScannerProofs!ScansAllLexemes`: a theorem of `ScanSpec`, for any files, reserved
  words and sizes of the two buffers; every step of `ProtocolCode` is a `ScanChar` or leaves
  the scanner alone.  What the tokens have to be is `Lexemes`, the longest lexemes between
  blanks and comments, a recursive function over the positions of the file that knows of no
  buffer and no automaton.  It says so of plain files (`Plain`): lines end with `\r\n` and
  fit into the buffer with their end, tokens fit into theirs, and there are no strings, no
  `/* */` comments and no byte that looks like the end of the file; what happens otherwise is
  listed above.  The invariant (`ScanInv`) has two parts.  `LineInv`: the buffer holds the
  line of the file that ends where the file was read to, so that the position in the buffer
  is a position in the file (`Pos`), which a character put back moves by one and a line read
  anew does not (`NextChar`); that needs that `GetString` reads whole lines (`StringIsLine`).
  `Scanned`: for each state of the automaton, from which position on what is left to read
  makes the lexemes of the file together with the tokens so far; between tokens that is the
  next character (`StartInv`), in a word where the word began (`WordInv`), after the first of
  two signs that one (`SignInv`), in a comment the end of its line (`CommentInv`).  That
  `LexemesFrom` satisfies its recursion is a lemma (`LexemesExist`): a function that does so
  from a position on is extended to the position before, as every blank, comment and lexeme
  ends behind its first character (`CommentGoesOn`, `LexemeEnds`).  That a token fits its
  buffer while it is read follows from the words read being part of a lexeme of the file
  (`WordStep`).
* `QueuesProofs`: what is kept of a list is what was to be kept, in its order and once
  (`KeptElements`), from the counting of positions (`PlacesOnto`).

Only model-checked: `AskedAreConnected` of `Farm`, `OnIsServed` and all other liveness, as
the prover does not handle fairness; `ParsesGrammar` and `MessageArrives` of `ProtocolCode`,
whose parser is recursive; and, of the scanner, how it reads files that are not plain, which
no property is about.

## Not modelled

* **The greater part of the repository**: clients' and tools' user interfaces, the graphics
  engine, mathematics, the AI, the memory monitor with its visualizer language, loaders of
  files.  They are sequential, and what they compute is geometry, drawing, memory layouts of
  a debugger, or text; a state machine of them would restate them.  The generated protocol
  code is the product of `ProtocolCode`'s generator, repeated for every protocol.
* **Game server**: at this commit it handles no login, so no player ever gets there; the
  group a lobby asks it to create, and what a refusal does to the lobby's tree, are listed
  above instead.  Rooms are not used by any server.
* **Events** are a lookup and a call; they appear as what their listeners do.
* **Threads**: `Terminate` and the messages of `CThread`, which no running server uses; work
  threads of clients (`CTaskWorkClient`), and a thread for each server
  (`SERVICE_EXCLUSIVE_THREAD`), which no program asks for.
* **Farm**: links among servers of one type, the configuration files, the limit of 100 ports.
* **Packets**: variants, maps, enumerations; everything a packet with a wrong size could do,
  as every packet is sent as a whole frame of 256 bytes and only a split read could make one.
* **Protocol compiler**: the text of the generated files beyond the order of arguments and
  the numbers, and `ProtocolDefine.cpp`.
