------------------------------- MODULE LoginLobby -------------------------------
(***************************************************************************)
(* The way of a player from the login server to the lobby.                 *)
(*                                                                         *)
(* A client logs in at the login server, which asks the certify server to  *)
(* admit the id.  To enter the lobby it is announced there first: the      *)
(* lobby makes a player for it, the login server tells it where to go, and *)
(* the client closes its connection and logs in at the lobby with the key  *)
(* it was given.  No server waits for another: between two steps clients   *)
(* leave, ask again, or ask for the id of another, and servers restart.    *)
(*                                                                         *)
(* One server of each type.  A handler is one step of its server's logic   *)
(* thread; a session that is closed is removed before the next dispatch    *)
(* (ServerBasicProofs!RemovalsPending).  Answers that the client does      *)
(* nothing with (refusals) are not kept.                                   *)
(***************************************************************************)
EXTENDS Queues

CONSTANTS
  Client,    \* client processes; one that returns is another
  Id,        \* user ids
  WishId,    \* the id a client logs in with
  NoName,    \* the empty name
  Key,       \* what rand() may return as certify key
  NoKey,     \* a key that was not written
  Garbage,   \* what the netid of a player nobody set it of may hold
  MaxCalls,  \* how often a client asks the login server for anything (a bound)
  MaxCrash   \* how often a server restarts (a bound)

ASSUME LobbyConstants ==
  /\ WishId \in [Client -> Id]
  /\ NoName \notin Id /\ NoKey \notin Key
  /\ Client \cap Garbage = {}
  /\ MaxCalls \in Nat /\ MaxCrash \in Nat

Server == {"login", "lobby"}
Name == Id \cup {NoName}
AnyKey == Key \cup {NoKey}

VARIABLES
  at,          \* the server a client is connected to
  move,        \* CBasicS2CHandler::m_ClientState
  self,        \* the certify key in m_Client; a client without one has no name
  dest,        \* whether the address in m_Client is that of the lobby
  calls,       \* how often a client has asked
  sessions,    \* m_Sessions of both servers, in order
  users,       \* m_Users of the lobby, in order
  info,        \* what the login server knows of the lobby's address
  located,     \* the certify server's m_Sessions: where every id is
  certifyUp,   \* whether the certify server runs
  restarts,    \* how often a server restarted
  up, down,    \* packets of the connections of clients
  toCertify, fromCertify,   \* packets of the links of the certify server
  toLobby, toLogin          \* packets of the link between login server and lobby

clientVars == <<at, move, self, dest, calls>>
tables == <<sessions, users>>
certify == <<located, certifyUp>>
links == <<toCertify, fromCertify, toLobby, toLogin>>
vars == <<clientVars, tables, info, certify, restarts, up, down, links>>

-----------------------------------------------------------------------------
(* Packets and tables.                                                     *)

JoinMsg == [type |-> "join"]
ByeMsg == [type |-> "bye"]
LogInMsg(id, k) == [type |-> "login", id |-> id, key |-> k]
LobbyInMsg == [type |-> "lobbyin"]
AckLogInMsg(k) == [type |-> "acklogin", key |-> k]
AckMoveMsg(to) == [type |-> "ackmove", to |-> to]

UserLoginMsg(id) == [type |-> "userlogin", id |-> id]
UserMoveMsg(id) == [type |-> "usermove", id |-> id]
GoneMsg == [type |-> "gone"]
PassMsg(id, k) == [id |-> id, key |-> k]
MoveMsg(id, k, to) == [id |-> id, key |-> k, to |-> to]
MovedMsg(id, to) == [id |-> id, to |-> to]

UpMsg ==
  {JoinMsg, ByeMsg, LobbyInMsg}
  \cup [type : {"login"}, id : Name, key : AnyKey]
DownMsg ==
  [type : {"acklogin"}, key : AnyKey] \cup [type : {"ackmove"}, to : {"zero", "real"}]
CertifyMsg ==
  {GoneMsg} \cup [type : {"userlogin"}, id : Id] \cup [type : {"usermove"}, id : Name]

Session == [client : Client, state : {"wait", "in"}, name : Name, key : AnyKey]
Player == [netid : Client \cup Garbage, name : Name, key : AnyKey]

NewSession(c) == [client |-> c, state |-> "wait", name |-> NoName, key |-> NoKey]
LoggedInAs(c, id, k) == [client |-> c, state |-> "in", name |-> id, key |-> k]
NewPlayer(n, id, k) == [netid |-> n, name |-> id, key |-> k]

\* The position of the first of that name, if there is one.
First(q, id) ==
  {i \in DOMAIN q : q[i].name = id /\ \A j \in 1..(i - 1) : q[j].name # id}

\* GetSession and GetPlayer of a name.
SessionNamed(s, id) == First(sessions[s], id)
PlayerNamed(id) == First(users, id)

\* The session of c is in that state.
IsIn(s, c, state) ==
  \E i \in DOMAIN sessions[s] : sessions[s][i].client = c /\ sessions[s][i].state = state

SetSession(s, e) ==
  sessions' = [sessions EXCEPT ![s] =
                 [i \in DOMAIN @ |-> IF @[i].client = e.client THEN e ELSE @[i]]]

\* A server gets the next packet of a client.
Gets(s, c, m) == /\ up[s][c] # <<>> /\ Head(up[s][c]) = m
                 /\ up' = [up EXCEPT ![s][c] = Tail(@)]

\* A packet to a client reaches it if it is still connected.
Tell(s, c, m) == down' = IF at[c] = s THEN [down EXCEPT ![c] = Append(@, m)] ELSE down

\* A client receives the next packet of its server.
Hears(c, m) == /\ down[c] # <<>> /\ Head(down[c]) = m
               /\ down' = [down EXCEPT ![c] = Tail(@)]

-----------------------------------------------------------------------------
(* The clients.                                                            *)

Init ==
  /\ at = [c \in Client |-> "out"]
  /\ move = [c \in Client |-> "end"]
  /\ self = [c \in Client |-> NoKey]
  /\ dest = [c \in Client |-> "zero"]
  /\ calls = [c \in Client |-> 0]
  /\ sessions = [s \in Server |-> <<>>]
  /\ users = <<>>
  /\ info = "none"
  /\ located = [id \in Name |-> "none"]
  /\ certifyUp = TRUE
  /\ restarts = 0
  /\ up = [s \in Server |-> [c \in Client |-> <<>>]]
  /\ down = [c \in Client |-> <<>>]
  /\ toCertify = [s \in Server |-> <<>>]
  /\ fromCertify = <<>> /\ toLobby = <<>> /\ toLogin = <<>>

Connect(c) ==
  /\ at[c] = "out"
  /\ at' = [at EXCEPT ![c] = "login"]
  /\ up' = [up EXCEPT !["login"][c] = <<JoinMsg>>]
  /\ UNCHANGED <<move, self, dest, calls, tables, info, certify, restarts, down, links>>

Asks(c, m) ==
  /\ at[c] = "login" /\ move[c] = "end" /\ calls[c] < MaxCalls
  /\ up' = [up EXCEPT !["login"][c] = Append(@, m)]
  /\ calls' = [calls EXCEPT ![c] = @ + 1]
  /\ UNCHANGED <<at, move, self, dest, tables, info, certify, restarts, down, links>>

\* The user logs in, or enters the lobby.
Ask(c) == Asks(c, LogInMsg(WishId[c], NoKey)) \/ (self[c] # NoKey /\ Asks(c, LobbyInMsg))

\* AckLogIn: the end of a move, or the name and key of the login server.
AckLogIn(c, k) ==
  /\ Hears(c, AckLogInMsg(k))
  /\ IF move[c] = "connect"
     THEN move' = [move EXCEPT ![c] = "end"] /\ UNCHANGED self
     ELSE self' = [self EXCEPT ![c] = k] /\ UNCHANGED move
  /\ UNCHANGED <<at, dest, calls, tables, info, certify, restarts, up, links>>

\* AckMoveToServer: Stop, which disconnects later, and the new address.
AckMoveToServer(c, to) ==
  /\ Hears(c, AckMoveMsg(to))
  /\ move' = [move EXCEPT ![c] = "begin"]
  /\ dest' = [dest EXCEPT ![c] = to]
  /\ UNCHANGED <<at, self, calls, tables, info, certify, restarts, up, links>>

\* The name in m_Client: AckLogIn sets it together with the key.
OwnName(c) == IF self[c] = NoKey THEN NoName ELSE WishId[c]

\* The connection is closed, by Stop or by a server that ended, and
\* OnDisconnectClient connects to the new server, where OnConnectClient logs in.
\* A client that cannot connect there stays out.
OnDisconnectClient(c) ==
  /\ at[c] = "cut" \/ (at[c] = "login" /\ move[c] = "begin")
  /\ down' = [down EXCEPT ![c] = <<>>]
  /\ LET left == IF at[c] = "login" THEN [up EXCEPT !["login"][c] = Append(@, ByeMsg)]
                                    ELSE up
     IN \/ /\ move[c] = "begin" /\ dest[c] = "real"
           /\ at' = [at EXCEPT ![c] = "lobby"]
           /\ move' = [move EXCEPT ![c] = "connect"]
           /\ up' = [left EXCEPT !["lobby"][c] = <<JoinMsg, LogInMsg(OwnName(c), self[c])>>]
        \/ /\ move[c] = "begin" /\ dest[c] = "zero"
           /\ at' = [at EXCEPT ![c] = "gone"]
           /\ move' = [move EXCEPT ![c] = "close"]
           /\ up' = left
        \/ /\ move[c] # "begin"
           /\ at' = [at EXCEPT ![c] = "gone"]
           /\ UNCHANGED <<move, up>>
  /\ UNCHANGED <<self, dest, calls, tables, info, certify, restarts, links>>

\* The user ends the client.
Leave(c) ==
  /\ at[c] \in Server
  /\ at' = [at EXCEPT ![c] = "gone"]
  /\ up' = [up EXCEPT ![at[c]][c] = Append(@, ByeMsg)]
  /\ down' = [down EXCEPT ![c] = <<>>]
  /\ UNCHANGED <<move, self, dest, calls, tables, info, certify, restarts, links>>

-----------------------------------------------------------------------------
(* Login server and lobby.                                                 *)

\* AddSession, and the player it makes, whose name and key are not set.
Join(s, c) ==
  /\ Gets(s, c, JoinMsg)
  /\ sessions' = [sessions EXCEPT ![s] = Append(@, NewSession(c))]
  /\ users' = IF s = "lobby" THEN Append(users, NewPlayer(c, NoName, NoKey)) ELSE users
  /\ UNCHANGED <<clientVars, info, certify, restarts, down, links>>

RemoveSession(s, c) ==
  /\ Gets(s, c, ByeMsg)
  /\ sessions' = [sessions EXCEPT ![s] = Kept(@, {i \in DOMAIN @ : @[i].client # c})]
  /\ users' = IF s = "lobby" THEN Kept(users, {i \in DOMAIN users : users[i].netid # c})
                             ELSE users
  /\ UNCHANGED <<clientVars, info, certify, restarts, down, links>>

\* Mutant: it is not asked who has the name.
MayTakeName(s, c, id) == IsIn(s, c, "wait")

\* CBasicC2SHandler::ReqLogIn: the client has its player, nobody is logged in
\* with the id, and the client is not logged in.  Then the session takes the
\* name.  (At the login server nothing takes a player from its session.)
MayLogIn(s, c, id) ==
  /\ s = "lobby" => \E i \in DOMAIN users : users[i].netid = c
  /\ \A i \in SessionNamed(s, id) : sessions[s][i].state # "in"
  /\ IsIn(s, c, "wait")

\* CBasicC2SHandler_LoginSvr::ReqLogIn
LoginReqLogIn(c, id) ==
  /\ Gets("login", c, LogInMsg(id, NoKey))
  /\ \/ /\ MayLogIn("login", c, id)
        /\ SetSession("login", [NewSession(c) EXCEPT !.name = id])
        /\ toCertify' = [toCertify EXCEPT !["login"] = Append(@, UserLoginMsg(id))]
     \/ /\ ~MayLogIn("login", c, id)
        /\ UNCHANGED <<sessions, toCertify>>
  /\ UNCHANGED <<clientVars, users, info, certify, restarts, down, fromCertify, toLobby, toLogin>>

\* Mutant: the answer is written before the key is taken.
AckUserLoginEarly ==
  /\ fromCertify # <<>> /\ fromCertify' = Tail(fromCertify)
  /\ LET m == Head(fromCertify)
     IN \/ \E i \in SessionNamed("login", m.id) :
             LET e == sessions["login"][i]
             IN /\ SetSession("login", LoggedInAs(e.client, m.id, m.key))
                /\ Tell("login", e.client, AckLogInMsg(e.key))
        \/ SessionNamed("login", m.id) = {} /\ UNCHANGED <<sessions, down>>
  /\ UNCHANGED <<clientVars, users, info, certify, restarts, up, toCertify, toLobby, toLogin>>

\* AckUserLogin, of an admission: it goes to the first session of that name.
AckUserLogin ==
  /\ fromCertify # <<>> /\ fromCertify' = Tail(fromCertify)
  /\ LET m == Head(fromCertify)
     IN \/ \E i \in SessionNamed("login", m.id) :
             LET e == sessions["login"][i]
             IN /\ SetSession("login", LoggedInAs(e.client, m.id, m.key))
                /\ Tell("login", e.client, AckLogInMsg(m.key))
        \/ SessionNamed("login", m.id) = {} /\ UNCHANGED <<sessions, down>>
  /\ UNCHANGED <<clientVars, users, info, certify, restarts, up, toCertify, toLobby, toLogin>>

\* Mutant: it is not asked whether a lobby is known.
MayEnterNone(c) == IsIn("login", c, "in")

MayEnter(c) == IsIn("login", c, "in") /\ info # "none"

\* ReqLobbyIn: of a session that is logged in, when a lobby is known.
ReqLobbyIn(c) ==
  /\ Gets("login", c, LobbyInMsg)
  /\ \/ /\ MayEnter(c)
        /\ \E e \in {sessions["login"][i] : i \in DOMAIN sessions["login"]} :
             /\ e.client = c
             /\ toLobby' = Append(toLobby, MoveMsg(e.name, e.key, info))
     \/ /\ ~MayEnter(c)
        /\ UNCHANGED toLobby
  /\ UNCHANGED <<clientVars, tables, info, certify, restarts, down, toCertify, fromCertify, toLogin>>

\* CLobbyServer::ReqMovePlayer: a player with the name and key, whose netid is
\* not written.  AddPlayer refuses it when that is another's; nobody looks.
ReqMovePlayer ==
  /\ toLobby # <<>> /\ toLobby' = Tail(toLobby)
  /\ LET m == Head(toLobby)
     IN \/ /\ SessionNamed("lobby", m.id) = {}
           /\ \E n \in Garbage :
                users' = IF \E i \in DOMAIN users : users[i].netid = n
                         THEN users
                         ELSE Append(users, NewPlayer(n, m.id, m.key))
           /\ toLogin' = Append(toLogin, MovedMsg(m.id, m.to))
        \/ /\ SessionNamed("lobby", m.id) # {}
           /\ UNCHANGED <<users, toLogin>>
  /\ UNCHANGED <<clientVars, sessions, info, certify, restarts, up, down, toCertify, fromCertify>>

\* CLoginServer::AckMovePlayer: by name.  For a client that is gone the lobby
\* gets a cancellation that it does not handle.
AckMovePlayer ==
  /\ toLogin # <<>> /\ toLogin' = Tail(toLogin)
  /\ LET m == Head(toLogin)
     IN \/ \E i \in SessionNamed("login", m.id) :
             Tell("login", sessions["login"][i].client, AckMoveMsg(m.to))
        \/ SessionNamed("login", m.id) = {} /\ UNCHANGED down
  /\ UNCHANGED <<clientVars, tables, info, certify, restarts, up, toCertify, fromCertify, toLobby>>

\* Mutant: the player that waits is taken away before its key is looked at.
LobbyReqLogInEarly(c, id, k) ==
  /\ Gets("lobby", c, LogInMsg(id, k))
  /\ SetSession("lobby", [NewSession(c) EXCEPT !.name = id])
  /\ users' = Kept(users, {i \in DOMAIN users : users[i].name # id})
  /\ UNCHANGED <<clientVars, info, certify, restarts, down, links>>

\* What two keys may be found to be: one that was not written has any value.
MayAgree(k, l) == k = l \/ NoKey \in {k, l}
MayDiffer(k, l) == k # l \/ NoKey \in {k, l}

\* CBasicC2SHandler_LobbySvr::ReqLogIn: the first player of the name is to have
\* the key.  It is taken away, and the session's own gets its name, but not
\* its key.  (For a client without a name it is a session's own player.)
LobbyReqLogIn(c, id, k) ==
  /\ Gets("lobby", c, LogInMsg(id, k))
  /\ \/ /\ MayLogIn("lobby", c, id)
        /\ \E i \in PlayerNamed(id) :
             /\ MayAgree(users[i].key, k)
             /\ users' = LET named == [j \in DOMAIN users |->
                                         IF users[j].netid = c
                                         THEN [users[j] EXCEPT !.name = id] ELSE users[j]]
                         IN Kept(named, {j \in DOMAIN named : named[j].netid # users[i].netid})
        /\ SetSession("lobby", LoggedInAs(c, id, k))
        /\ toCertify' = [toCertify EXCEPT !["lobby"] = Append(@, UserMoveMsg(id))]
        /\ Tell("lobby", c, AckLogInMsg(k))
     \/ /\ MayLogIn("lobby", c, id)
        /\ \A i \in PlayerNamed(id) : MayDiffer(users[i].key, k)
        /\ SetSession("lobby", [NewSession(c) EXCEPT !.name = id])
        /\ UNCHANGED <<users, toCertify, down>>
     \/ /\ ~MayLogIn("lobby", c, id)
        /\ UNCHANGED <<sessions, users, toCertify, down>>
  /\ UNCHANGED <<clientVars, info, certify, restarts, fromCertify, toLobby, toLogin>>

\* SendServerInfo: when the link is made, with port 0, and every ten seconds.
SendServerInfo ==
  /\ info' = IF info = "none" THEN "zero" ELSE "real"
  /\ info # "real"
  /\ UNCHANGED <<clientVars, tables, certify, restarts, up, down, links>>

-----------------------------------------------------------------------------
(* The certify server.                                                     *)

CertifyGets(s, m) ==
  /\ certifyUp /\ toCertify[s] # <<>> /\ Head(toCertify[s]) = m
  /\ toCertify' = [toCertify EXCEPT ![s] = Tail(@)]

\* The process that sent what is received from s is still there.
SenderIsUp(s) == \A i \in DOMAIN toCertify[s] : toCertify[s][i] # GoneMsg

\* ReqUserLogin: AddPlayer refuses an id that is there; nothing else ever ends
\* the stay of an id but the end of the server it is at.
ReqUserLogin(s, id) ==
  /\ CertifyGets(s, UserLoginMsg(id))
  /\ \/ /\ located[id] = "none"
        /\ located' = [located EXCEPT ![id] = s]
        /\ \E k \in Key : fromCertify' = IF SenderIsUp(s)
                                          THEN Append(fromCertify, PassMsg(id, k))
                                          ELSE fromCertify
     \/ /\ located[id] # "none"
        /\ UNCHANGED <<located, fromCertify>>
  /\ UNCHANGED <<clientVars, tables, info, certifyUp, restarts, up, down, toLobby, toLogin>>

\* ReqUserMoveServer: of an id that is not there it goes on with no object.
ReqUserMoveServer(s, id) ==
  /\ CertifyGets(s, UserMoveMsg(id))
  /\ \/ located[id] # "none" /\ located' = [located EXCEPT ![id] = s] /\ UNCHANGED certifyUp
     \/ located[id] = "none" /\ certifyUp' = FALSE /\ UNCHANGED located
  /\ UNCHANGED <<clientVars, tables, info, restarts, up, down, fromCertify, toLobby, toLogin>>

\* Mutant: all ids are logged out when a server ends.
LogoutAll(s) == Id

\* PlayerLogoutConnectingServer: the ids that are at servers of that type.
LogoutOf(s) == {id \in Name : located[id] = s}

OnServerLeave(s) ==
  /\ CertifyGets(s, GoneMsg)
  /\ located' = [id \in Name |-> IF id \in LogoutOf(s) THEN "none" ELSE located[id]]
  /\ UNCHANGED <<clientVars, tables, info, certifyUp, restarts, up, down, fromCertify,
                 toLobby, toLogin>>

\* A server ends and another process takes its place.
Restart(s) ==
  /\ restarts < MaxCrash /\ restarts' = restarts + 1
  /\ at' = [c \in Client |-> IF at[c] = s THEN "cut" ELSE at[c]]
  /\ sessions' = [sessions EXCEPT ![s] = <<>>]
  /\ users' = IF s = "lobby" THEN <<>> ELSE users
  /\ info' = "none"
  /\ up' = [up EXCEPT ![s] = [c \in Client |-> <<>>]]
  /\ down' = [c \in Client |-> IF at[c] = s THEN <<>> ELSE down[c]]
  /\ toCertify' = [toCertify EXCEPT ![s] = Append(@, GoneMsg)]
  /\ fromCertify' = IF s = "login" THEN <<>> ELSE fromCertify
  /\ toLobby' = <<>> /\ toLogin' = <<>>
  /\ UNCHANGED <<move, self, dest, calls, certify>>

-----------------------------------------------------------------------------
ClientHandles(c) ==
  \/ OnDisconnectClient(c)
  \/ \E k \in AnyKey : AckLogIn(c, k)
  \/ \E to \in {"zero", "real"} : AckMoveToServer(c, to)

LoginHandles ==
  \/ AckUserLogin \/ AckMovePlayer
  \/ \E c \in Client :
       \/ Join("login", c) \/ RemoveSession("login", c) \/ ReqLobbyIn(c)
       \/ \E id \in Id : LoginReqLogIn(c, id)

LobbyHandles ==
  \/ ReqMovePlayer
  \/ \E c \in Client :
       \/ Join("lobby", c) \/ RemoveSession("lobby", c)
       \/ \E id \in Name, k \in AnyKey : LobbyReqLogIn(c, id, k)

CertifyHandles ==
  \E s \in Server :
    \/ OnServerLeave(s)
    \/ \E id \in Id : ReqUserLogin(s, id)
    \/ \E id \in Name : ReqUserMoveServer(s, id)

Next ==
  \/ \E c \in Client : Connect(c) \/ Ask(c) \/ Leave(c) \/ ClientHandles(c)
  \/ LoginHandles \/ LobbyHandles \/ CertifyHandles \/ SendServerInfo
  \/ \E s \in Server : Restart(s)

Spec == Init /\ [][Next]_vars

\* Servers and clients handle what they receive.  Users may do nothing, and
\* nothing is assumed of the certify server.
FairSpec ==
  /\ Spec
  /\ WF_vars(LoginHandles) /\ WF_vars(LobbyHandles)
  /\ \A c \in Client : WF_vars(ClientHandles(c))

-----------------------------------------------------------------------------
TypeOK ==
  /\ at \in [Client -> Server \cup {"out", "cut", "gone"}]
  /\ move \in [Client -> {"end", "begin", "close", "connect"}]
  /\ self \in [Client -> AnyKey]
  /\ dest \in [Client -> {"zero", "real"}]
  /\ calls \in [Client -> 0..MaxCalls]
  /\ sessions \in [Server -> Seq(Session)] /\ users \in Seq(Player)
  /\ info \in {"none", "zero", "real"}
  /\ located \in [Name -> Server \cup {"none"}] /\ certifyUp \in BOOLEAN
  /\ restarts \in 0..MaxCrash
  /\ up \in [Server -> [Client -> Seq(UpMsg)]] /\ down \in [Client -> Seq(DownMsg)]
  /\ toCertify \in [Server -> Seq(CertifyMsg)]
  /\ fromCertify \in Seq([id : Id, key : Key])
  /\ toLobby \in Seq([id : Id, key : Key, to : {"zero", "real"}])
  /\ toLogin \in Seq([id : Id, to : {"zero", "real"}])

LoggedIn(s) == {i \in DOMAIN sessions[s] : sessions[s][i].state = "in"}

\* The answers to the login server name a user, and are given to the first
\* session of that name: for a user who is logged in that is its own session,
\* although others that asked for the same id keep the name.
LoginIsFound ==
  \A i \in LoggedIn("login") : i \in SessionNamed("login", sessions["login"][i].name)

\* So an id is logged in with at most once on the login server.  (The lobby,
\* where a client that is refused keeps the name too, does not have this.)
OneLoginPerId ==
  \A i, j \in LoggedIn("login") :
    sessions["login"][i].name = sessions["login"][j].name => i = j

\* The key of a client that has k, after the packets d.
Told(d) == {n \in DOMAIN d : d[n].type = "acklogin"}
WillHold(k, d, key) ==
  \/ Told(d) = {} /\ k = key
  \/ \E n \in Told(d) : (\A m \in Told(d) : m <= n) /\ d[n].key = key

\* The login server announces a user to the lobby with the key of its session,
\* and the client presents its own: the last one it was told, if it is still on
\* its way, is that of the session.
KeysAgree ==
  \A i \in LoggedIn("login") :
    LET e == sessions["login"][i]
    IN at[e.client] = "login" => WillHold(self[e.client], down[e.client], e.key)

\* The certify server has everybody who is in the lobby there, or is about to
\* hear of it, or has stopped over such a message.
LobbyIsLocated ==
  \A i \in LoggedIn("lobby") :
    LET id == sessions["lobby"][i].name
    IN \/ located[id] = "lobby" \/ ~certifyUp
       \/ UserMoveMsg(id) \in {toCertify["lobby"][n] : n \in DOMAIN toCertify["lobby"]}

\* When a client was told to move and a player waits for it in the lobby, its
\* user is logged in there in the end, unless the client is ended, a server
\* restarts, or a client is moved that did not log in: that one may take away
\* the player of the session, as neither has a name.  (It may be another client
\* of that user: after a restart of the login server two of them are on their
\* way with keys that may be the same.)
ExpectedArrives ==
  \A c \in Client, n \in 0..MaxCrash :
    (/\ move[c] = "begin" /\ dest[c] = "real" /\ restarts = n /\ self[c] # NoKey
     /\ \E i \in PlayerNamed(WishId[c]) : users[i].key = self[c])
      ~> \/ \E i \in LoggedIn("lobby") : sessions["lobby"][i].name = WishId[c]
         \/ at[c] = "gone" \/ restarts > n
         \/ \E d \in Client : self[d] = NoKey /\ move[d] # "end"

=============================================================================
