---------------------------- MODULE LoginLobbyProofs ----------------------------
(***************************************************************************)
(* Proofs about LoginLobby, for any number of clients, ids, keys, requests *)
(* and restarts.  What is sent by name reaches whom it is for because of   *)
(* what is true of the connections: the one session a client has on a      *)
(* server, the packets that can still be on their way to or from it, and   *)
(* where a client is while it is told to move.                             *)
(***************************************************************************)
EXTENDS LoginLobby, QueuesProofs

-----------------------------------------------------------------------------
(* The invariant.                                                          *)

\* Whoever is logged in at the login server has a name and a key.
LoginNamed ==
  \A i \in LoggedIn("login") :
    sessions["login"][i].name \in Id /\ sessions["login"][i].key \in Key

\* Only the login server asks the certify server to admit an id, and only the
\* lobby tells it of a move.
RequestsApart ==
  \A n \in DOMAIN toCertify["login"] : toCertify["login"][n].type # "usermove"

HasSession(s, c) == \E i \in DOMAIN sessions[s] : sessions[s][i].client = c

\* A client has one session on a server.
OneSession ==
  \A s \in Server : \A i, j \in DOMAIN sessions[s] :
    sessions[s][i].client = sessions[s][j].client => i = j

\* What makes a session comes first on a connection, to a server that has none.
JoinsFirst ==
  \A s \in Server, c \in Client : \A n \in DOMAIN up[s][c] :
    up[s][c][n] = JoinMsg => n = 1 /\ ~HasSession(s, c)

\* A server has nothing of a client that has not been there.
NotThere(s, c) == up[s][c] = <<>> /\ ~HasSession(s, c)
Strangers ==
  \A c \in Client :
    /\ at[c] = "out" => NotThere("login", c)
    /\ at[c] \in {"out", "login"} \/ move[c] = "begin" => NotThere("lobby", c)

\* Only a client at the login server is told to move, once.
MovesFromLogin ==
  \A c \in Client :
    /\ at[c] \in {"out", "login"} => move[c] \in {"end", "begin"}
    /\ at[c] = "lobby" => move[c] # "begin"
    /\ \A n \in DOMAIN down[c] : down[c][n].type = "ackmove" => at[c] = "login"

\* From the start of a stay in the lobby the certify server is on its way to
\* know of it: the word of it comes after that of the end of an earlier lobby.
HeardFrom(q, id) ==
  \E n \in DOMAIN q :
    q[n] = UserMoveMsg(id) /\ \A m \in DOMAIN q : m > n => q[m] # GoneMsg
LobbyHeard ==
  \A i \in LoggedIn("lobby") :
    LET id == sessions["lobby"][i].name
    IN \/ ~certifyUp
       \/ located[id] = "lobby" /\ SenderIsUp("lobby")
       \/ HeardFrom(toCertify["lobby"], id)

Inv == /\ TypeOK /\ LoginNamed /\ RequestsApart
       /\ OneSession /\ JoinsFirst /\ Strangers /\ MovesFromLogin
       /\ LoginIsFound /\ KeysAgree /\ LobbyHeard

-----------------------------------------------------------------------------
(* Queues and tables.                                                      *)

\* A packet more or less.
LEMMA QueueSteps ==
  ASSUME NEW S, NEW q \in Seq(S)
  PROVE  /\ <<>> \in Seq(S)
         /\ \A x \in S : /\ Append(q, x) \in Seq(S)
                         /\ DOMAIN Append(q, x) = DOMAIN q \cup {Len(q) + 1}
                         /\ Append(q, x)[Len(q) + 1] = x
                         /\ \A n \in DOMAIN q : Append(q, x)[n] = q[n]
         /\ q # <<>> => /\ Head(q) \in S /\ Head(q) = q[1] /\ 1 \in DOMAIN q
                        /\ Tail(q) \in Seq(S)
                        /\ \A n \in DOMAIN Tail(q) : /\ n + 1 \in DOMAIN q
                                                     /\ Tail(q)[n] = q[n + 1]
         /\ \A n \in DOMAIN q : q[n] \in S /\ n \in Nat /\ n # Len(q) + 1 /\ n <= Len(q)
         /\ \A n \in DOMAIN q : n # 1 => n - 1 \in DOMAIN Tail(q) /\ Tail(q)[n - 1] = q[n]
  OBVIOUS

\* The elements of r are those of q at K, in their order.
IsOf(r, q, K) ==
  \E f \in [DOMAIN r -> K] :
    /\ \A n \in DOMAIN r : r[n] = q[f[n]]
    /\ \A m, n \in DOMAIN r : m < n => f[m] < f[n]
    /\ \A i \in K : \E n \in DOMAIN r : f[n] = i

\* What is kept is found, in its order, among what there was.
LEMMA KeptFrom ==
  ASSUME NEW S, NEW q \in Seq(S), NEW K \in SUBSET DOMAIN q
  PROVE  /\ Kept(q, K) \in Seq(S)
         /\ IsOf(Kept(q, K), q, K)
<1> DEFINE D == DOMAIN Kept(q, K)
           from(n) == CHOOSE i \in K : Place(K, i) = n /\ Kept(q, K)[n] = q[i]
           f == [n \in D |-> from(n)]
<1>1. Kept(q, K) \in Seq(S) /\ D \subseteq Nat
  BY KeptElements
<1>2. \A n \in D : from(n) \in K /\ Place(K, from(n)) = n /\ Kept(q, K)[n] = q[from(n)]
  BY KeptElements
<1> HIDE DEF from
<1>3. ASSUME NEW m \in D, NEW n \in D, m < n
      PROVE  f[m] < f[n]
  <2>1. /\ f[m] \in K /\ f[n] \in K /\ m \in Nat /\ n \in Nat
        /\ Place(K, f[m]) = m /\ Place(K, f[n]) = n
    BY <1>1, <1>2
  <2>2. f[n] < f[m] => n < m
    BY <2>1, Places
  <2>3. f[n] # f[m]
    BY <2>1, <1>3
  <2>4. f[n] \in Nat /\ f[m] \in Nat
    BY <2>1
  <2> QED BY <1>3, <2>1, <2>2, <2>3, <2>4
<1>4. ASSUME NEW i \in K
      PROVE  \E n \in D : f[n] = i
  <2> DEFINE n == Place(K, i)
  <2>1. n \in D
    BY KeptElements
  <2> HIDE DEF n
  <2>2. f[n] \in K /\ Place(K, f[n]) = n
    BY <1>2, <2>1
  <2>3. f[n] \in Nat /\ i \in Nat /\ n \in Nat
    BY <1>1, <2>1, <2>2
  <2>4. i < f[n] => Place(K, i) < Place(K, f[n])
    BY <2>2, Places
  <2>5. f[n] < i => Place(K, f[n]) < Place(K, i)
    BY <2>2, Places
  <2>6. f[n] = i
    BY <2>2, <2>3, <2>4, <2>5 DEF n
  <2> QED BY <2>1, <2>6
<1>5. f \in [D -> K] /\ \A n \in D : Kept(q, K)[n] = q[f[n]]
  BY <1>2
<1> QED BY <1>1, <1>3, <1>4, <1>5 DEF IsOf

\* A session is replaced by another of the same client.
LEMMA Replaced ==
  ASSUME TypeOK, NEW s \in Server, NEW e \in Session, SetSession(s, e)
  PROVE  /\ sessions' \in [Server -> Seq(Session)]
         /\ \A t \in Server : t # s => sessions'[t] = sessions[t]
         /\ DOMAIN sessions'[s] = DOMAIN sessions[s]
         /\ \A i \in DOMAIN sessions[s] :
              sessions'[s][i] = IF sessions[s][i].client = e.client THEN e ELSE sessions[s][i]
<1> DEFINE q == sessions[s]
           r == [i \in DOMAIN q |-> IF q[i].client = e.client THEN e ELSE q[i]]
<1>1. sessions \in [Server -> Seq(Session)] /\ q \in Seq(Session)
  BY DEF TypeOK
<1>2. r \in Seq(Session) /\ DOMAIN r = DOMAIN q
  BY <1>1
<1>3. sessions' = [sessions EXCEPT ![s] = r]
  BY DEF SetSession
<1> QED BY <1>1, <1>2, <1>3

\* The session of a client is taken away.
LEMMA Removed ==
  ASSUME TypeOK, NEW s \in Server, NEW c \in Client, RemoveSession(s, c)
  PROVE  /\ sessions' \in [Server -> Seq(Session)]
         /\ \A t \in Server : t # s => sessions'[t] = sessions[t]
         /\ \E f \in [DOMAIN sessions'[s] -> DOMAIN sessions[s]] :
              /\ \A n \in DOMAIN sessions'[s] : /\ sessions'[s][n] = sessions[s][f[n]]
                                                /\ sessions'[s][n].client # c
              /\ \A m, n \in DOMAIN sessions'[s] : m < n => f[m] < f[n]
              /\ \A i \in DOMAIN sessions[s] : sessions[s][i].client # c =>
                   \E n \in DOMAIN sessions'[s] : f[n] = i
<1> DEFINE q == sessions[s]
           K == {i \in DOMAIN q : q[i].client # c}
           r == Kept(q, K)
<1>1. sessions \in [Server -> Seq(Session)] /\ q \in Seq(Session) /\ K \in SUBSET DOMAIN q
  BY DEF TypeOK
<1>2. sessions' = [sessions EXCEPT ![s] = r]
  BY DEF RemoveSession
<1>3. r \in Seq(Session) /\ IsOf(r, q, K)
  BY <1>1, KeptFrom
<1>4. sessions'[s] = r /\ \A t \in Server : t # s => sessions'[t] = sessions[t]
  BY <1>1, <1>2
<1> HIDE DEF r
<1>5. PICK f \in [DOMAIN r -> K] : /\ \A n \in DOMAIN r : r[n] = q[f[n]]
                                   /\ \A m, n \in DOMAIN r : m < n => f[m] < f[n]
                                   /\ \A i \in K : \E n \in DOMAIN r : f[n] = i
  BY <1>3 DEF IsOf
<1>6. f \in [DOMAIN r -> DOMAIN q] /\ \A n \in DOMAIN r : f[n] \in K
  BY <1>5
<1>7. \A n \in DOMAIN r : r[n].client # c
  BY <1>5, <1>6
<1>8. sessions' \in [Server -> Seq(Session)]
  BY <1>1, <1>2, <1>3
<1> QED BY <1>4, <1>5, <1>6, <1>7, <1>8

-----------------------------------------------------------------------------
(* Types.                                                                  *)

\* What is sent, and what a table takes in.
LEMMA Packets ==
  /\ JoinMsg \in UpMsg /\ ByeMsg \in UpMsg /\ LobbyInMsg \in UpMsg
  /\ \A id \in Name, k \in AnyKey : LogInMsg(id, k) \in UpMsg
  /\ \A k \in AnyKey : AckLogInMsg(k) \in DownMsg
  /\ \A to \in {"zero", "real"} : AckMoveMsg(to) \in DownMsg
  /\ GoneMsg \in CertifyMsg
  /\ \A id \in Id : UserLoginMsg(id) \in CertifyMsg
  /\ \A id \in Name : UserMoveMsg(id) \in CertifyMsg
  BY DEF JoinMsg, ByeMsg, LobbyInMsg, LogInMsg, UpMsg, AckLogInMsg, AckMoveMsg, DownMsg,
         GoneMsg, UserLoginMsg, UserMoveMsg, CertifyMsg, Name, AnyKey

LEMMA Entries ==
  ASSUME NEW c \in Client, NEW id \in Name, NEW k \in AnyKey
  PROVE  /\ NewSession(c) \in Session
         /\ [NewSession(c) EXCEPT !.name = id] \in Session
         /\ [NewSession(c) EXCEPT !.name = id] =
              [client |-> c, state |-> "wait", name |-> id, key |-> NoKey]
         /\ LoggedInAs(c, id, k) \in Session
         /\ \A e \in Session : e.client \in Client /\ e.name \in Name /\ e.key \in AnyKey
         /\ \A n \in Client \cup Garbage : NewPlayer(n, id, k) \in Player
         /\ \A p \in Player : [p EXCEPT !.name = id] \in Player
<1>1. NoName \in Name /\ NoKey \in AnyKey
  BY DEF Name, AnyKey
<1>2. NewSession(c) \in Session
  BY <1>1 DEF NewSession, Session
<1>3. /\ [NewSession(c) EXCEPT !.name = id] \in Session
      /\ [NewSession(c) EXCEPT !.name = id] =
           [client |-> c, state |-> "wait", name |-> id, key |-> NoKey]
  BY <1>1 DEF NewSession, Session
<1>4. LoggedInAs(c, id, k) \in Session
  BY DEF LoggedInAs, Session
<1>5. \A e \in Session : e.client \in Client /\ e.name \in Name /\ e.key \in AnyKey
  BY DEF Session
<1>6. \A n \in Client \cup Garbage : NewPlayer(n, id, k) \in Player
  BY DEF NewPlayer, Player
<1>7. \A p \in Player : [p EXCEPT !.name = id] \in Player
  BY DEF Player
<1> QED BY <1>2, <1>3, <1>4, <1>5, <1>6, <1>7

LEMMA SessionAt ==
  ASSUME TypeOK, NEW s \in Server, NEW i \in DOMAIN sessions[s]
  PROVE  /\ sessions[s] \in Seq(Session) /\ sessions[s][i] \in Session /\ i \in Nat
         /\ sessions[s][i].client \in Client /\ sessions[s][i].name \in Name
         /\ sessions[s][i].state \in {"wait", "in"}
<1>1. sessions[s] \in Seq(Session)
  BY DEF TypeOK
<1>2. sessions[s][i] \in Session /\ i \in Nat
  BY <1>1
<1> QED BY <1>1, <1>2 DEF Session

LEMMA InitTypeOK == LobbyConstants /\ Init => TypeOK
  BY DEF LobbyConstants, Init, TypeOK, Server, Name, AnyKey

\* The packets of the connections, when one more is sent or the next is taken.
LEMMA UpSteps ==
  ASSUME TypeOK, NEW s \in Server, NEW c \in Client
  PROVE  /\ up[s][c] \in Seq(UpMsg)
         /\ \A q \in Seq(UpMsg), f \in [Server -> [Client -> Seq(UpMsg)]] :
              [f EXCEPT ![s][c] = q] \in [Server -> [Client -> Seq(UpMsg)]]
         /\ \A m \in UpMsg :
              [up EXCEPT ![s][c] = Append(@, m)] \in [Server -> [Client -> Seq(UpMsg)]]
         /\ \A m : Gets(s, c, m) => up' \in [Server -> [Client -> Seq(UpMsg)]]
<1>1. up \in [Server -> [Client -> Seq(UpMsg)]] /\ up[s] \in [Client -> Seq(UpMsg)]
      /\ up[s][c] \in Seq(UpMsg)
  BY DEF TypeOK
<1>2. \A q \in Seq(UpMsg), f \in [Server -> [Client -> Seq(UpMsg)]] :
        [f EXCEPT ![s][c] = q] \in [Server -> [Client -> Seq(UpMsg)]]
  OBVIOUS
<1>3. \A m \in UpMsg : Append(up[s][c], m) \in Seq(UpMsg)
  BY <1>1
<1>4. up[s][c] # <<>> => Tail(up[s][c]) \in Seq(UpMsg)
  BY <1>1
<1>5. \A m : Gets(s, c, m) => up' = [up EXCEPT ![s][c] = Tail(up[s][c])] /\ up[s][c] # <<>>
  BY <1>1 DEF Gets
<1>6. \A m : Gets(s, c, m) => up' \in [Server -> [Client -> Seq(UpMsg)]]
  <2> TAKE m
  <2> HAVE Gets(s, c, m)
  <2>1. Tail(up[s][c]) \in Seq(UpMsg) /\ up' = [up EXCEPT ![s][c] = Tail(up[s][c])]
    BY <1>4, <1>5
  <2> HIDE DEF Gets
  <2> QED BY <1>1, <1>2, <2>1
<1>7. \A m \in UpMsg :
        [up EXCEPT ![s][c] = Append(@, m)] \in [Server -> [Client -> Seq(UpMsg)]]
  <2> TAKE m \in UpMsg
  <2>1. [up EXCEPT ![s][c] = Append(@, m)] = [up EXCEPT ![s][c] = Append(up[s][c], m)]
    BY <1>1
  <2> QED BY <1>1, <1>2, <1>3, <2>1
<1> QED BY <1>1, <1>2, <1>6, <1>7

LEMMA DownSteps ==
  ASSUME TypeOK, NEW c \in Client
  PROVE  /\ down[c] \in Seq(DownMsg)
         /\ [down EXCEPT ![c] = <<>>] \in [Client -> Seq(DownMsg)]
         /\ \A s, m : m \in DownMsg /\ Tell(s, c, m) => down' \in [Client -> Seq(DownMsg)]
         /\ \A m : Hears(c, m) => down' \in [Client -> Seq(DownMsg)]
  <1>1. down \in [Client -> Seq(DownMsg)] /\ down[c] \in Seq(DownMsg)
  BY DEF TypeOK
<1>2. [down EXCEPT ![c] = <<>>] \in [Client -> Seq(DownMsg)]
  BY <1>1
<1>3. ASSUME NEW s, NEW m \in DownMsg, Tell(s, c, m)
      PROVE  down' \in [Client -> Seq(DownMsg)]
  <2>1. Append(down[c], m) \in Seq(DownMsg)
    BY <1>1
  <2> QED BY <1>1, <1>3, <2>1 DEF Tell
<1>4. ASSUME NEW m, Hears(c, m)
      PROVE  down' \in [Client -> Seq(DownMsg)]
  <2>1. Tail(down[c]) \in Seq(DownMsg)
    BY <1>1, <1>4 DEF Hears
  <2> QED BY <1>1, <1>4, <2>1 DEF Hears
<1> QED BY <1>1, <1>2, <1>3, <1>4

LEMMA TypeStep ==
  ASSUME LobbyConstants, TypeOK, LoginNamed, OneSession, [Next]_vars
  PROVE  TypeOK'
<1> USE DEF clientVars, tables, certify, links
<1>1. ASSUME NEW c \in Client, Connect(c)
      PROVE  TypeOK'
  BY <1>1, UpSteps, Packets DEF Connect, TypeOK, Server
<1>2. ASSUME NEW c \in Client, Ask(c)
      PROVE  TypeOK'
  <2>1. PICK m \in UpMsg : Asks(c, m)
    BY <1>2, Packets DEF LobbyConstants, Ask, Name, AnyKey
  <2>2. up' \in [Server -> [Client -> Seq(UpMsg)]]
    BY <2>1, UpSteps DEF Asks, Server
  <2>3. calls' \in [Client -> 0..MaxCalls]
    BY <2>1 DEF LobbyConstants, Asks, TypeOK
  <2> QED BY <2>1, <2>2, <2>3 DEF Asks, TypeOK
<1>3. ASSUME NEW c \in Client, Leave(c)
      PROVE  TypeOK'
  BY <1>3, UpSteps, DownSteps, Packets DEF Leave, TypeOK
<1>4. ASSUME NEW c \in Client, OnDisconnectClient(c)
      PROVE  TypeOK'
  <2> DEFINE left == IF at[c] = "login" THEN [up EXCEPT !["login"][c] = Append(@, ByeMsg)]
                                        ELSE up
             first == <<JoinMsg, LogInMsg(OwnName(c), self[c])>>
  <2>1. left \in [Server -> [Client -> Seq(UpMsg)]]
    BY UpSteps, Packets DEF TypeOK, Server
  <2>2. first \in Seq(UpMsg)
    <3>1. OwnName(c) \in Name /\ self[c] \in AnyKey
      BY DEF LobbyConstants, OwnName, Name, TypeOK
    <3>2. JoinMsg \in UpMsg /\ LogInMsg(OwnName(c), self[c]) \in UpMsg
      BY <3>1, Packets
    <3> QED BY <3>2
  <2> HIDE DEF left, first
  <2>3. [left EXCEPT !["lobby"][c] = first] \in [Server -> [Client -> Seq(UpMsg)]]
    BY <2>1, <2>2, UpSteps DEF Server
  <2>4. up' \in [Server -> [Client -> Seq(UpMsg)]]
    BY <1>4, <2>1, <2>3 DEF OnDisconnectClient, TypeOK, left, first
  <2>5. down' \in [Client -> Seq(DownMsg)]
    BY <1>4, DownSteps DEF OnDisconnectClient
  <2>6. /\ at' \in [Client -> Server \cup {"out", "cut", "gone"}]
        /\ move' \in [Client -> {"end", "begin", "close", "connect"}]
    BY <1>4 DEF OnDisconnectClient, TypeOK, Server
  <2> QED BY <1>4, <2>4, <2>5, <2>6 DEF OnDisconnectClient, TypeOK
<1>5. ASSUME NEW c \in Client, NEW k \in AnyKey, AckLogIn(c, k)
      PROVE  TypeOK'
  BY <1>5, DownSteps DEF AckLogIn, TypeOK
<1>6. ASSUME NEW c \in Client, NEW to \in {"zero", "real"}, AckMoveToServer(c, to)
      PROVE  TypeOK'
  BY <1>6, DownSteps DEF AckMoveToServer, TypeOK
<1>7. ASSUME NEW s \in Server, NEW c \in Client, Join(s, c)
      PROVE  TypeOK'
  <2>1. up' \in [Server -> [Client -> Seq(UpMsg)]]
    BY <1>7, UpSteps DEF Join
  <2>2. NewSession(c) \in Session /\ NewPlayer(c, NoName, NoKey) \in Player
    BY Entries DEF Name, AnyKey
  <2>3. sessions' \in [Server -> Seq(Session)]
    <3>1. Append(sessions[s], NewSession(c)) \in Seq(Session)
      BY <2>2 DEF TypeOK
    <3> QED BY <1>7, <3>1 DEF Join, TypeOK
  <2>4. users' \in Seq(Player)
    BY <1>7, <2>2 DEF Join, TypeOK
  <2> QED BY <1>7, <2>1, <2>3, <2>4 DEF Join, TypeOK
<1>8. ASSUME NEW s \in Server, NEW c \in Client, RemoveSession(s, c)
      PROVE  TypeOK'
  BY <1>8, UpSteps, Removed, KeptElements DEF RemoveSession, TypeOK
<1>9. ASSUME NEW c \in Client, NEW id \in Id, LoginReqLogIn(c, id)
      PROVE  TypeOK'
  <2>1. up' \in [Server -> [Client -> Seq(UpMsg)]]
    BY <1>9, UpSteps DEF LoginReqLogIn, Server
  <2>2. [NewSession(c) EXCEPT !.name = id] \in Session
    BY Entries DEF Name, AnyKey
  <2>3. sessions' \in [Server -> Seq(Session)]
    BY <1>9, <2>2, Replaced DEF LoginReqLogIn, TypeOK, Server
  <2>4. toCertify' \in [Server -> Seq(CertifyMsg)]
    <3>1. Append(toCertify["login"], UserLoginMsg(id)) \in Seq(CertifyMsg)
      BY Packets DEF TypeOK, Server
    <3> QED BY <1>9, <3>1 DEF LoginReqLogIn, TypeOK
  <2> QED BY <1>9, <2>1, <2>3, <2>4 DEF LoginReqLogIn, TypeOK
<1>10. ASSUME AckUserLogin
       PROVE  TypeOK'
  <2> DEFINE m == Head(fromCertify)
  <2>1. m.id \in Id /\ m.key \in Key /\ fromCertify' \in Seq([id : Id, key : Key])
    <3> DEFINE S == [id : Id, key : Key]
    <3>1. fromCertify \in Seq(S) /\ fromCertify # <<>> /\ fromCertify' = Tail(fromCertify)
      BY <1>10 DEF AckUserLogin, TypeOK
    <3> HIDE DEF S
    <3>2. m \in S /\ fromCertify' \in Seq(S)
      BY <3>1
    <3> QED BY <3>2 DEF S
  <2> HIDE DEF m
  <2>2. CASE UNCHANGED <<sessions, down>>
    BY <1>10, <2>1, <2>2 DEF AckUserLogin, TypeOK
  <2>3. ASSUME NEW i \in SessionNamed("login", m.id),
               SetSession("login", LoggedInAs(sessions["login"][i].client, m.id, m.key)),
               Tell("login", sessions["login"][i].client, AckLogInMsg(m.key))
        PROVE  TypeOK'
    <3>1. sessions["login"][i].client \in Client
      BY SessionAt DEF SessionNamed, First, Server
    <3>2. LoggedInAs(sessions["login"][i].client, m.id, m.key) \in Session
      BY <2>1, <3>1, Entries DEF Name, AnyKey
    <3>3. sessions' \in [Server -> Seq(Session)]
      BY <2>3, <3>2, Replaced DEF Server
    <3>4. down' \in [Client -> Seq(DownMsg)]
      BY <2>1, <2>3, <3>1, DownSteps, Packets DEF AnyKey
    <3> QED BY <1>10, <2>1, <3>3, <3>4 DEF AckUserLogin, TypeOK
  <2> QED BY <1>10, <2>2, <2>3 DEF AckUserLogin, m
<1>11. ASSUME NEW c \in Client, ReqLobbyIn(c)
       PROVE  TypeOK'
  <2>1. up' \in [Server -> [Client -> Seq(UpMsg)]]
    BY <1>11, UpSteps DEF ReqLobbyIn, Server
  <2>2. CASE UNCHANGED toLobby
    BY <1>11, <2>1, <2>2 DEF ReqLobbyIn, TypeOK
  <2>3. ASSUME MayEnter(c),
               NEW i \in DOMAIN sessions["login"], sessions["login"][i].client = c,
               toLobby' = Append(toLobby, MoveMsg(sessions["login"][i].name,
                                                  sessions["login"][i].key, info))
        PROVE  TypeOK'
    <3> DEFINE e == sessions["login"][i]
    <3>1. e.state = "in"
      BY <2>3 DEF MayEnter, IsIn, OneSession, Server
    <3>2. e.name \in Id /\ e.key \in Key
      BY <3>1 DEF LoginNamed, LoggedIn
    <3>3. info \in {"zero", "real"}
      BY <2>3 DEF MayEnter, TypeOK
    <3>4. MoveMsg(e.name, e.key, info) \in [id : Id, key : Key, to : {"zero", "real"}]
      BY <3>2, <3>3 DEF MoveMsg
    <3>5. toLobby' \in Seq([id : Id, key : Key, to : {"zero", "real"}])
      BY <2>3, <3>4 DEF TypeOK
    <3> QED BY <1>11, <2>1, <3>5 DEF ReqLobbyIn, TypeOK
  <2> QED BY <1>11, <2>2, <2>3 DEF ReqLobbyIn
<1>12. ASSUME ReqMovePlayer
       PROVE  TypeOK'
  <2> DEFINE m == Head(toLobby)
  <2>1. /\ m.id \in Id /\ m.key \in Key /\ m.to \in {"zero", "real"}
        /\ toLobby' \in Seq([id : Id, key : Key, to : {"zero", "real"}])
    <3> DEFINE S == [id : Id, key : Key, to : {"zero", "real"}]
    <3>1. toLobby \in Seq(S) /\ toLobby # <<>> /\ toLobby' = Tail(toLobby)
      BY <1>12 DEF ReqMovePlayer, TypeOK
    <3> HIDE DEF S
    <3>2. m \in S /\ toLobby' \in Seq(S)
      BY <3>1
    <3> QED BY <3>2 DEF S
  <2> HIDE DEF m
  <2>2. MovedMsg(m.id, m.to) \in [id : Id, to : {"zero", "real"}]
    BY <2>1 DEF MovedMsg
  <2>3. toLogin' \in Seq([id : Id, to : {"zero", "real"}])
    <3> DEFINE S == [id : Id, to : {"zero", "real"}]
    <3>1. toLogin \in Seq(S) /\ Append(toLogin, MovedMsg(m.id, m.to)) \in Seq(S)
      BY <2>2, QueueSteps DEF TypeOK
    <3> QED BY <1>12, <3>1 DEF ReqMovePlayer, m
  <2>4. \A n \in Garbage : NewPlayer(n, m.id, m.key) \in Player
    BY <2>1 DEF NewPlayer, Player, Name, AnyKey
  <2>5. users' \in Seq(Player)
    <3>1. /\ users \in Seq(Player)
          /\ \A n \in Garbage : Append(users, NewPlayer(n, m.id, m.key)) \in Seq(Player)
      BY <2>4, QueueSteps DEF TypeOK
    <3> QED BY <1>12, <3>1 DEF ReqMovePlayer, m
  <2> QED BY <1>12, <2>1, <2>3, <2>5 DEF ReqMovePlayer, TypeOK
<1>13. ASSUME AckMovePlayer
       PROVE  TypeOK'
  <2> DEFINE m == Head(toLogin)
  <2>1. m.to \in {"zero", "real"} /\ toLogin' \in Seq([id : Id, to : {"zero", "real"}])
    <3> DEFINE S == [id : Id, to : {"zero", "real"}]
    <3>1. toLogin \in Seq(S) /\ toLogin # <<>> /\ toLogin' = Tail(toLogin)
      BY <1>13 DEF AckMovePlayer, TypeOK
    <3> HIDE DEF S
    <3>2. m \in S /\ toLogin' \in Seq(S)
      BY <3>1
    <3> QED BY <3>2 DEF S
  <2> HIDE DEF m
  <2>2. CASE UNCHANGED down
    BY <1>13, <2>1, <2>2 DEF AckMovePlayer, TypeOK
  <2>3. ASSUME NEW i \in SessionNamed("login", m.id),
               Tell("login", sessions["login"][i].client, AckMoveMsg(m.to))
        PROVE  TypeOK'
    <3>1. sessions["login"][i].client \in Client
      BY SessionAt DEF SessionNamed, First, Server
    <3>2. down' \in [Client -> Seq(DownMsg)]
      BY <2>1, <2>3, <3>1, DownSteps, Packets
    <3> QED BY <1>13, <2>1, <3>2 DEF AckMovePlayer, TypeOK
  <2> QED BY <1>13, <2>2, <2>3 DEF AckMovePlayer, m
<1>14. ASSUME NEW c \in Client, NEW id \in Name, NEW k \in AnyKey, LobbyReqLogIn(c, id, k)
       PROVE  TypeOK'
  <2>1. up' \in [Server -> [Client -> Seq(UpMsg)]]
    BY <1>14, UpSteps DEF LobbyReqLogIn, Server
  <2>2. sessions' \in [Server -> Seq(Session)]
    BY <1>14, Entries, Replaced DEF LobbyReqLogIn, TypeOK, Server
  <2>3. toCertify' \in [Server -> Seq(CertifyMsg)]
    <3>1. Append(toCertify["lobby"], UserMoveMsg(id)) \in Seq(CertifyMsg)
      BY Packets DEF TypeOK, Server
    <3> QED BY <1>14, <3>1 DEF LobbyReqLogIn, TypeOK
  <2>4. down' \in [Client -> Seq(DownMsg)]
    BY <1>14, DownSteps, Packets DEF LobbyReqLogIn, TypeOK
  <2>5. users' \in Seq(Player)
    <3> DEFINE named == [j \in DOMAIN users |->
                          IF users[j].netid = c THEN [users[j] EXCEPT !.name = id] ELSE users[j]]
               K(i) == {j \in DOMAIN named : named[j].netid # users[i].netid}
    <3>1. named \in Seq(Player)
      <4>1. \A j \in DOMAIN users :
              users[j] \in Player /\ [users[j] EXCEPT !.name = id] \in Player
        BY QueueSteps, Entries DEF TypeOK
      <4>2. DOMAIN users = 1..Len(users) /\ Len(users) \in Nat
        BY DEF TypeOK
      <4>3. named \in [1..Len(users) -> Player]
        BY <4>1, <4>2
      <4> QED BY <4>2, <4>3
    <3>2. \A i : K(i) \in SUBSET DOMAIN named
      OBVIOUS
    <3>3. users' = users \/ \E i : users' = Kept(named, K(i))
      BY <1>14 DEF LobbyReqLogIn
    <3> HIDE DEF named, K
    <3> QED BY <3>1, <3>2, <3>3, KeptElements DEF TypeOK
  <2> QED BY <1>14, <2>1, <2>2, <2>3, <2>4, <2>5 DEF LobbyReqLogIn, TypeOK
<1>15. ASSUME SendServerInfo
       PROVE  TypeOK'
  BY <1>15 DEF SendServerInfo, TypeOK
<1>16. ASSUME NEW s \in Server, NEW id \in Id, ReqUserLogin(s, id)
       PROVE  TypeOK'
  <2>1. Tail(toCertify[s]) \in Seq(CertifyMsg)
    BY <1>16 DEF ReqUserLogin, CertifyGets, TypeOK
  <2>2. toCertify' \in [Server -> Seq(CertifyMsg)]
    BY <1>16, <2>1 DEF ReqUserLogin, CertifyGets, TypeOK
  <2>3. \A k \in Key : PassMsg(id, k) \in [id : Id, key : Key]
    BY DEF PassMsg
  <2>4. fromCertify' \in Seq([id : Id, key : Key])
    <3>1. /\ fromCertify \in Seq([id : Id, key : Key])
          /\ \A k \in Key : Append(fromCertify, PassMsg(id, k)) \in Seq([id : Id, key : Key])
      BY <2>3, QueueSteps DEF TypeOK
    <3> QED BY <1>16, <3>1 DEF ReqUserLogin
  <2>5. located' \in [Name -> Server \cup {"none"}]
    BY <1>16 DEF ReqUserLogin, TypeOK
  <2> QED BY <1>16, <2>2, <2>4, <2>5 DEF ReqUserLogin, CertifyGets, TypeOK
<1>17. ASSUME NEW s \in Server, NEW id \in Name, ReqUserMoveServer(s, id)
       PROVE  TypeOK'
  <2>1. Tail(toCertify[s]) \in Seq(CertifyMsg)
    BY <1>17 DEF ReqUserMoveServer, CertifyGets, TypeOK
  <2>2. toCertify' \in [Server -> Seq(CertifyMsg)]
    BY <1>17, <2>1 DEF ReqUserMoveServer, CertifyGets, TypeOK
  <2>3. located' \in [Name -> Server \cup {"none"}] /\ certifyUp' \in BOOLEAN
    BY <1>17 DEF ReqUserMoveServer, TypeOK
  <2> QED BY <1>17, <2>2, <2>3 DEF ReqUserMoveServer, CertifyGets, TypeOK
<1>18. ASSUME NEW s \in Server, OnServerLeave(s)
       PROVE  TypeOK'
  BY <1>18 DEF OnServerLeave, CertifyGets, TypeOK
<1>19. ASSUME NEW s \in Server, Restart(s)
       PROVE  TypeOK'
  BY <1>19, Packets DEF LobbyConstants, Restart, TypeOK
<1>20. CASE UNCHANGED vars
  BY <1>20 DEF vars, TypeOK
<1> QED
  BY <1>1, <1>2, <1>3, <1>4, <1>5, <1>6, <1>7, <1>8, <1>9, <1>10, <1>11, <1>12, <1>13,
     <1>14, <1>15, <1>16, <1>17, <1>18, <1>19, <1>20
     DEF Next, ClientHandles, LoginHandles, LobbyHandles, CertifyHandles, Server

-----------------------------------------------------------------------------
(* Which step changes what.                                                *)

LEMMA SessionsFrame ==
  ASSUME [Next]_vars
  PROVE  \/ sessions' = sessions
         \/ \E s \in Server, c \in Client : Join(s, c) \/ RemoveSession(s, c)
         \/ \E c \in Client, id \in Id : LoginReqLogIn(c, id)
         \/ AckUserLogin
         \/ \E c \in Client, id \in Name, k \in AnyKey : LobbyReqLogIn(c, id, k)
         \/ \E s \in Server : Restart(s)
<1> USE DEF clientVars, tables, certify, links
<1>1. ASSUME NEW c \in Client, Connect(c) \/ Ask(c) \/ Leave(c) \/ ClientHandles(c)
      PROVE  sessions' = sessions
  BY <1>1 DEF Connect, Ask, Asks, Leave, ClientHandles, OnDisconnectClient, AckLogIn,
              AckMoveToServer
<1>2. CertifyHandles => sessions' = sessions
  BY DEF CertifyHandles, OnServerLeave, ReqUserLogin, ReqUserMoveServer
<1> QED
  BY <1>1, <1>2 DEF Next, vars, LoginHandles, LobbyHandles, AckMovePlayer, ReqLobbyIn,
                    ReqMovePlayer, SendServerInfo, Server

LEMMA UpFrame ==
  ASSUME [Next]_vars
  PROVE  \/ up' = up
         \/ \E c \in Client : Connect(c) \/ Ask(c) \/ Leave(c) \/ OnDisconnectClient(c)
         \/ \E s \in Server, c \in Client : \E m : Gets(s, c, m)
         \/ \E s \in Server : Restart(s)
<1> USE DEF clientVars, tables, certify, links
<1>1. ASSUME NEW c \in Client, ClientHandles(c)
      PROVE  up' = up \/ OnDisconnectClient(c)
  BY <1>1 DEF ClientHandles, AckLogIn, AckMoveToServer
<1>2. CertifyHandles => up' = up
  BY DEF CertifyHandles, OnServerLeave, ReqUserLogin, ReqUserMoveServer
<1>3. LoginHandles => \/ up' = up
                      \/ \E c \in Client : \E m : Gets("login", c, m)
  BY DEF LoginHandles, AckUserLogin, AckMovePlayer, Join, RemoveSession, ReqLobbyIn, LoginReqLogIn
<1>4. LobbyHandles => \/ up' = up
                      \/ \E c \in Client : \E m : Gets("lobby", c, m)
  BY DEF LobbyHandles, ReqMovePlayer, Join, RemoveSession, LobbyReqLogIn
<1> QED
  BY <1>1, <1>2, <1>3, <1>4 DEF Next, vars, SendServerInfo, Server

LEMMA DownFrame ==
  ASSUME [Next]_vars
  PROVE  \/ down' = down
         \/ \E c \in Client : Leave(c) \/ ClientHandles(c)
         \/ AckUserLogin \/ AckMovePlayer
         \/ \E c \in Client, id \in Name, k \in AnyKey : LobbyReqLogIn(c, id, k)
         \/ \E s \in Server : Restart(s)
<1> USE DEF clientVars, tables, certify, links
<1>2. CertifyHandles => down' = down
  BY DEF CertifyHandles, OnServerLeave, ReqUserLogin, ReqUserMoveServer
<1> QED
  BY <1>2 DEF Next, vars, Connect, Ask, Asks, LoginHandles, LobbyHandles, Join, RemoveSession,
              ReqLobbyIn, LoginReqLogIn, ReqMovePlayer, SendServerInfo

LEMMA ClientFrame ==
  ASSUME [Next]_vars
  PROVE  \/ UNCHANGED <<at, move, self>>
         \/ \E c \in Client : Connect(c) \/ Leave(c) \/ ClientHandles(c)
         \/ \E s \in Server : Restart(s)
<1> USE DEF clientVars, tables, certify, links
<1>2. CertifyHandles => UNCHANGED <<at, move, self>>
  BY DEF CertifyHandles, OnServerLeave, ReqUserLogin, ReqUserMoveServer
<1>3. LoginHandles => UNCHANGED <<at, move, self>>
  BY DEF LoginHandles, AckUserLogin, AckMovePlayer, Join, RemoveSession, ReqLobbyIn, LoginReqLogIn
<1>4. LobbyHandles => UNCHANGED <<at, move, self>>
  BY DEF LobbyHandles, ReqMovePlayer, Join, RemoveSession, LobbyReqLogIn
<1> QED
  BY <1>2, <1>3, <1>4 DEF Next, vars, Ask, Asks, SendServerInfo

LEMMA CertifyFrame ==
  ASSUME [Next]_vars
  PROVE  \/ UNCHANGED <<located, certifyUp, toCertify>>
         \/ \E c \in Client, id \in Id : LoginReqLogIn(c, id)
         \/ \E c \in Client, id \in Name, k \in AnyKey : LobbyReqLogIn(c, id, k)
         \/ CertifyHandles
         \/ \E s \in Server : Restart(s)
<1> USE DEF clientVars, tables, certify, links
<1>1. ASSUME NEW c \in Client, Connect(c) \/ Ask(c) \/ Leave(c) \/ ClientHandles(c)
      PROVE  UNCHANGED <<located, certifyUp, toCertify>>
  BY <1>1 DEF Connect, Ask, Asks, Leave, ClientHandles, OnDisconnectClient, AckLogIn,
              AckMoveToServer
<1> QED
  BY <1>1 DEF Next, vars, LoginHandles, LobbyHandles, AckUserLogin, AckMovePlayer, Join,
              RemoveSession, ReqLobbyIn, ReqMovePlayer, SendServerInfo

\* The answer of the certify server that is the next.
LEMMA NextPass ==
  ASSUME TypeOK, fromCertify # <<>>
  PROVE  Head(fromCertify).id \in Id /\ Head(fromCertify).key \in Key
<1> DEFINE S == [id : Id, key : Key]
<1>1. fromCertify \in Seq(S) /\ fromCertify # <<>>
  BY DEF TypeOK
<1> HIDE DEF S
<1>2. Head(fromCertify) \in S
  BY <1>1
<1> QED BY <1>2 DEF S

\* How the table of a server changes.
LEMMA SessionsChange ==
  ASSUME TypeOK, [Next]_vars, NEW s \in Server
  PROVE  \/ sessions'[s] = sessions[s]
         \/ \E c \in Client : Join(s, c)
         \/ \E c \in Client : RemoveSession(s, c)
         \/ \E e \in Session : SetSession(s, e)
         \/ sessions'[s] = <<>>
<1>0. sessions \in [Server -> Seq(Session)] /\ NoName \in Name
  BY DEF TypeOK, Name
<1>1. ASSUME NEW t \in Server, NEW c \in Client, Join(t, c), t # s
      PROVE  sessions'[s] = sessions[s]
  BY <1>0, <1>1 DEF Join
<1>2. ASSUME NEW t \in Server, NEW c \in Client, RemoveSession(t, c), t # s
      PROVE  sessions'[s] = sessions[s]
  BY <1>0, <1>2 DEF RemoveSession
<1>3. ASSUME NEW t \in Server, NEW e \in Session, SetSession(t, e)
      PROVE  SetSession(s, e) \/ sessions'[s] = sessions[s]
  BY <1>0, <1>3, Replaced
<1>4. ASSUME NEW c \in Client, NEW id \in Id, LoginReqLogIn(c, id)
      PROVE  sessions' = sessions \/ \E e \in Session : SetSession("login", e)
  BY <1>4, Entries DEF LoginReqLogIn, Name, AnyKey
<1>5. ASSUME AckUserLogin
      PROVE  sessions' = sessions \/ \E e \in Session : SetSession("login", e)
  <2> DEFINE m == Head(fromCertify)
  <2>1. m.id \in Name /\ m.key \in AnyKey
    BY <1>5, NextPass DEF AckUserLogin, Name, AnyKey
  <2>2. \/ sessions' = sessions
        \/ \E i \in SessionNamed("login", m.id) :
             SetSession("login", LoggedInAs(sessions["login"][i].client, m.id, m.key))
    BY <1>5 DEF AckUserLogin
  <2> HIDE DEF m
  <2>3. ASSUME NEW i \in SessionNamed("login", m.id)
        PROVE  LoggedInAs(sessions["login"][i].client, m.id, m.key) \in Session
    BY <2>1, SessionAt, Entries DEF SessionNamed, First, Server
  <2> QED BY <2>2, <2>3
<1>6. ASSUME NEW c \in Client, NEW id \in Name, NEW k \in AnyKey, LobbyReqLogIn(c, id, k)
      PROVE  sessions' = sessions \/ \E e \in Session : SetSession("lobby", e)
  BY <1>6, Entries DEF LobbyReqLogIn
<1>7. ASSUME NEW t \in Server, Restart(t)
      PROVE  sessions'[s] \in {sessions[s], <<>>}
  BY <1>0, <1>7 DEF Restart
<1>8. \A t \in Server : (\E e \in Session : SetSession(t, e)) =>
        (\E e \in Session : SetSession(s, e)) \/ sessions'[s] = sessions[s]
  BY <1>3
<1>9. "login" \in Server /\ "lobby" \in Server
  BY DEF Server
<1> HIDE DEF Server
<1> QED BY <1>1, <1>2, <1>4, <1>5, <1>6, <1>7, <1>8, <1>9, SessionsFrame

LEMMA TableStep ==
  ASSUME TypeOK, [Next]_vars, NEW s \in Server
  PROVE  sessions'[s] \in Seq(Session)
<1>1. sessions[s] \in Seq(Session)
  BY DEF TypeOK
<1>2. ASSUME NEW c \in Client, Join(s, c)
      PROVE  sessions'[s] \in Seq(Session)
  <2>1. NewSession(c) \in Session
    BY Entries DEF Name, AnyKey
  <2>2. sessions'[s] = Append(sessions[s], NewSession(c))
    BY <1>2 DEF Join, TypeOK
  <2> QED BY <1>1, <2>1, <2>2
<1>3. ASSUME NEW c \in Client, RemoveSession(s, c)
      PROVE  sessions'[s] \in Seq(Session)
  BY <1>3, Removed
<1>4. ASSUME NEW e \in Session, SetSession(s, e)
      PROVE  sessions'[s] \in Seq(Session)
  BY <1>4, Replaced
<1>5. sessions'[s] = <<>> => sessions'[s] \in Seq(Session)
  OBVIOUS
<1> QED BY <1>1, <1>2, <1>3, <1>4, <1>5, SessionsChange

\* But for one that joins, the sessions of a server are of clients that had one.
LEMMA NoNewSession ==
  ASSUME TypeOK, [Next]_vars, NEW s \in Server, \A c \in Client : ~Join(s, c)
  PROVE  /\ \A c \in Client : HasSession(s, c)' => HasSession(s, c)
         /\ OneSession => \A i, j \in DOMAIN sessions'[s] :
              sessions'[s][i].client = sessions'[s][j].client => i = j
<1>1. CASE sessions'[s] = sessions[s]
  BY <1>1 DEF HasSession, OneSession
<1>2. ASSUME NEW e \in Session, SetSession(s, e)
      PROVE  /\ \A c \in Client : HasSession(s, c)' => HasSession(s, c)
             /\ OneSession => \A i, j \in DOMAIN sessions'[s] :
                  sessions'[s][i].client = sessions'[s][j].client => i = j
  <2>1. /\ DOMAIN sessions'[s] = DOMAIN sessions[s]
        /\ \A i \in DOMAIN sessions[s] : sessions'[s][i].client = sessions[s][i].client
    BY <1>2, Replaced
  <2> QED BY <2>1 DEF HasSession, OneSession
<1>3. ASSUME NEW d \in Client, RemoveSession(s, d)
      PROVE  /\ \A c \in Client : HasSession(s, c)' => HasSession(s, c)
             /\ OneSession => \A i, j \in DOMAIN sessions'[s] :
                  sessions'[s][i].client = sessions'[s][j].client => i = j
  <2>1. PICK f \in [DOMAIN sessions'[s] -> DOMAIN sessions[s]] :
          /\ \A n \in DOMAIN sessions'[s] : sessions'[s][n] = sessions[s][f[n]]
          /\ \A m, n \in DOMAIN sessions'[s] : m < n => f[m] < f[n]
    BY <1>3, Removed
  <2>2. /\ DOMAIN sessions'[s] \subseteq Nat /\ DOMAIN sessions[s] \subseteq Nat
        /\ \A n \in DOMAIN sessions'[s] : f[n] \in DOMAIN sessions[s]
    BY <1>3, Removed DEF TypeOK
  <2>3. \A m, n \in DOMAIN sessions'[s] : f[m] = f[n] => m = n
    BY <2>1, <2>2
  <2>4. OneSession => \A i, j \in DOMAIN sessions'[s] :
          sessions'[s][i].client = sessions'[s][j].client => i = j
    BY <2>1, <2>2, <2>3 DEF OneSession
  <2> QED BY <2>1, <2>2, <2>4 DEF HasSession
<1>4. CASE sessions'[s] = <<>>
  BY <1>4 DEF HasSession
<1> QED BY <1>1, <1>2, <1>3, <1>4, SessionsChange

\* One that joins had none, and is the last.
LEMMA Joins ==
  ASSUME TypeOK, JoinsFirst, NEW s \in Server, NEW c \in Client, Join(s, c)
  PROVE  /\ ~HasSession(s, c) /\ up[s][c] # <<>> /\ up' = [up EXCEPT ![s][c] = Tail(@)]
         /\ DOMAIN sessions'[s] = DOMAIN sessions[s] \cup {Len(sessions[s]) + 1}
         /\ sessions'[s][Len(sessions[s]) + 1] = NewSession(c)
         /\ \A i \in DOMAIN sessions[s] : sessions'[s][i] = sessions[s][i]
         /\ \A t \in Server : t # s => sessions'[t] = sessions[t]
         /\ \A n \in DOMAIN up'[s][c] : up'[s][c][n] # JoinMsg
<1>1. up[s][c] \in Seq(UpMsg) /\ up \in [Server -> [Client -> Seq(UpMsg)]]
  BY UpSteps DEF TypeOK
<1>2. up[s][c] # <<>> /\ Head(up[s][c]) = JoinMsg /\ up' = [up EXCEPT ![s][c] = Tail(@)]
  BY <1>1 DEF Join, Gets
<1>3. 1 \in DOMAIN up[s][c] /\ up[s][c][1] = JoinMsg
  BY <1>1, <1>2, QueueSteps
<1>4. ~HasSession(s, c)
  BY <1>3 DEF JoinsFirst
<1>5. sessions' = [sessions EXCEPT ![s] = Append(sessions[s], NewSession(c))]
      /\ sessions \in [Server -> Seq(Session)] /\ sessions[s] \in Seq(Session)
  BY DEF Join, TypeOK
<1>6. NewSession(c) \in Session
  BY Entries DEF Name, AnyKey
<1>7. sessions'[s] = Append(sessions[s], NewSession(c))
      /\ \A t \in Server : t # s => sessions'[t] = sessions[t]
  BY <1>5
<1>8. /\ DOMAIN sessions'[s] = DOMAIN sessions[s] \cup {Len(sessions[s]) + 1}
      /\ sessions'[s][Len(sessions[s]) + 1] = NewSession(c)
      /\ \A i \in DOMAIN sessions[s] : sessions'[s][i] = sessions[s][i]
  BY <1>5, <1>6, <1>7, QueueSteps
<1>9. ASSUME NEW n \in DOMAIN up'[s][c], up'[s][c][n] = JoinMsg
      PROVE  FALSE
  <2>1. up'[s][c] = Tail(up[s][c])
    BY <1>1, <1>2
  <2>2. n + 1 \in DOMAIN up[s][c] /\ up[s][c][n + 1] = JoinMsg /\ n \in Nat /\ n # 0
    BY <1>1, <1>2, <1>9, <2>1
  <2>3. n + 1 = 1
    BY <2>2 DEF JoinsFirst
  <2> QED BY <2>2, <2>3
<1> QED BY <1>2, <1>4, <1>7, <1>8, <1>9

LEMMA OneSessionStep ==
  ASSUME TypeOK, JoinsFirst, OneSession, [Next]_vars
  PROVE  OneSession'
<1> SUFFICES ASSUME NEW s \in Server
             PROVE  \A i, j \in DOMAIN sessions'[s] :
                      sessions'[s][i].client = sessions'[s][j].client => i = j
  BY DEF OneSession
<1>1. CASE \A c \in Client : ~Join(s, c)
  BY <1>1, NoNewSession
<1>2. ASSUME NEW c \in Client, Join(s, c)
      PROVE  \A i, j \in DOMAIN sessions'[s] :
               sessions'[s][i].client = sessions'[s][j].client => i = j
  <2>1. \A i \in DOMAIN sessions[s] : sessions[s][i].client # c
    BY <1>2, Joins DEF HasSession
  <2>2. NewSession(c).client = c
    BY DEF NewSession
  <2> QED BY <1>2, <2>1, <2>2, Joins DEF OneSession
<1> QED BY <1>1, <1>2

-----------------------------------------------------------------------------
(* Connections.                                                            *)

\* How the packets of a client to a server change.
LEMMA UpChange ==
  ASSUME TypeOK, [Next]_vars, NEW s \in Server, NEW c \in Client
  PROVE  \/ up'[s][c] = up[s][c]
         \/ \E m \in UpMsg : m # JoinMsg /\ at[c] = s /\ up'[s][c] = Append(up[s][c], m)
         \/ up[s][c] # <<>> /\ up'[s][c] = Tail(up[s][c])
         \/ up'[s][c] = <<>>
         \/ Connect(c) /\ s = "login" /\ up'[s][c] = <<JoinMsg>>
         \/ /\ OnDisconnectClient(c) /\ s = "lobby" /\ move[c] = "begin" /\ at'[c] = "lobby"
            /\ move'[c] = "connect"
            /\ up'[s][c] = <<JoinMsg, LogInMsg(OwnName(c), self[c])>>
<1> DEFINE Sent == \E m \in UpMsg :
                     m # JoinMsg /\ at[c] = s /\ up'[s][c] = Append(up[s][c], m)
<1>0. /\ up \in [Server -> [Client -> Seq(UpMsg)]]
      /\ at \in [Client -> Server \cup {"out", "cut", "gone"}]
      /\ move \in [Client -> {"end", "begin", "close", "connect"}]
  BY DEF TypeOK
<1>1. ByeMsg # JoinMsg /\ LobbyInMsg # JoinMsg /\ \A id, k : LogInMsg(id, k) # JoinMsg
  BY DEF ByeMsg, JoinMsg, LobbyInMsg, LogInMsg
<1>2. ByeMsg \in UpMsg /\ LobbyInMsg \in UpMsg
      /\ \A id \in Name, k \in AnyKey : LogInMsg(id, k) \in UpMsg
  BY Packets
<1>3. ASSUME NEW d \in Client, Connect(d)
      PROVE  \/ up'[s][c] = up[s][c]
             \/ Connect(c) /\ s = "login" /\ up'[s][c] = <<JoinMsg>>
  BY <1>0, <1>3 DEF Connect, Server
<1>4. ASSUME NEW d \in Client, Ask(d)
      PROVE  up'[s][c] = up[s][c] \/ Sent
  <2>1. PICK m : Asks(d, m) /\ m # JoinMsg /\ (LobbyConstants => m \in UpMsg)
    BY <1>1, <1>2, <1>4 DEF Ask, LobbyConstants, Name, AnyKey
  <2>2. m \in UpMsg
    BY <2>1, LobbyConstants
  <2>3. \/ up'[s][c] = up[s][c]
        \/ at[c] = s /\ up'[s][c] = Append(up[s][c], m)
    BY <1>0, <2>1 DEF Asks, Server
  <2> QED BY <2>1, <2>2, <2>3
<1>5. ASSUME NEW d \in Client, Leave(d)
      PROVE  up'[s][c] = up[s][c] \/ Sent
  <2>1. \/ up'[s][c] = up[s][c]
        \/ at[c] = s /\ up'[s][c] = Append(up[s][c], ByeMsg)
    BY <1>0, <1>5 DEF Leave, Server
  <2> QED BY <1>1, <1>2, <2>1
<1>6. ASSUME NEW d \in Client, OnDisconnectClient(d)
      PROVE  \/ up'[s][c] = up[s][c] \/ Sent
             \/ /\ OnDisconnectClient(c) /\ s = "lobby" /\ move[c] = "begin" /\ at'[c] = "lobby"
                /\ move'[c] = "connect"
                /\ up'[s][c] = <<JoinMsg, LogInMsg(OwnName(c), self[c])>>
  <2> DEFINE left == IF at[d] = "login" THEN [up EXCEPT !["login"][d] = Append(@, ByeMsg)]
                                        ELSE up
             first == <<JoinMsg, LogInMsg(OwnName(d), self[d])>>
  <2>1. left \in [Server -> [Client -> Seq(UpMsg)]]
    BY UpSteps, Packets DEF TypeOK, Server
  <2>2. \/ left[s][c] = up[s][c]
        \/ at[c] = s /\ left[s][c] = Append(up[s][c], ByeMsg)
    BY <1>0 DEF Server
  <2> HIDE DEF left, first
  <2>3. \/ up' = left \/ up' = up
        \/ /\ move[d] = "begin" /\ up' = [left EXCEPT !["lobby"][d] = first]
           /\ at' = [at EXCEPT ![d] = "lobby"]
           /\ move' = [move EXCEPT ![d] = "connect"]
    BY <1>6 DEF OnDisconnectClient, left, first
  <2>4. CASE up' = left \/ up' = up
    BY <1>1, <1>2, <2>2, <2>4
  <2>5. CASE /\ move[d] = "begin" /\ up' = [left EXCEPT !["lobby"][d] = first]
             /\ at' = [at EXCEPT ![d] = "lobby"] /\ move' = [move EXCEPT ![d] = "connect"]
    <3>1. up'[s][c] = IF s = "lobby" /\ c = d THEN first ELSE left[s][c]
      BY <2>1, <2>5 DEF Server
    <3>2. at'[d] = "lobby" /\ move'[d] = "connect"
      BY <1>0, <2>5
    <3> QED BY <1>1, <1>2, <1>6, <2>2, <2>5, <3>1, <3>2 DEF first
  <2> QED BY <2>3, <2>4, <2>5
<1>7. ASSUME NEW t \in Server, NEW d \in Client, NEW m, Gets(t, d, m)
      PROVE  \/ up'[s][c] = up[s][c]
             \/ up[s][c] # <<>> /\ up'[s][c] = Tail(up[s][c])
  BY <1>0, <1>7 DEF Gets
<1>8. ASSUME NEW t \in Server, Restart(t)
      PROVE  up'[s][c] \in {up[s][c], <<>>}
  BY <1>0, <1>8 DEF Restart
<1> HIDE DEF Server
<1> QED BY <1>3, <1>4, <1>5, <1>6, <1>7, <1>8, UpFrame

LEMMA JoinsFirstStep ==
  ASSUME TypeOK, JoinsFirst, Strangers, [Next]_vars
  PROVE  JoinsFirst'
<1> SUFFICES ASSUME NEW s \in Server, NEW c \in Client, NEW n \in DOMAIN up'[s][c],
                    up'[s][c][n] = JoinMsg
             PROVE  n = 1 /\ ~HasSession(s, c)'
  BY DEF JoinsFirst
<1>1. up[s][c] \in Seq(UpMsg)
  BY UpSteps
<1>2. ~Join(s, c)
  BY Joins
<1>3. HasSession(s, c)' => HasSession(s, c)
  <2>1. CASE \A d \in Client : ~Join(s, d)
    BY <2>1, NoNewSession
  <2>2. ASSUME NEW d \in Client, Join(s, d)
        PROVE  HasSession(s, c)' => HasSession(s, c)
    <3>1. d # c /\ NewSession(d).client = d
      BY <1>2, <2>2 DEF NewSession
    <3> QED BY <2>2, <3>1, Joins DEF HasSession
  <2> QED BY <2>1, <2>2
<1>4. CASE up'[s][c] = up[s][c]
  BY <1>3, <1>4 DEF JoinsFirst
<1>5. ASSUME NEW m \in UpMsg, m # JoinMsg, up'[s][c] = Append(up[s][c], m)
      PROVE  n = 1 /\ ~HasSession(s, c)'
  <2>1. n \in DOMAIN up[s][c] /\ up[s][c][n] = JoinMsg
    BY <1>1, <1>5, QueueSteps
  <2> QED BY <1>3, <2>1 DEF JoinsFirst
<1>6. CASE up[s][c] # <<>> /\ up'[s][c] = Tail(up[s][c])
  <2>1. n \in Nat /\ n # 0 /\ n + 1 \in DOMAIN up[s][c] /\ up[s][c][n + 1] = JoinMsg
    BY <1>1, <1>6
  <2>2. n + 1 = 1
    BY <2>1 DEF JoinsFirst
  <2> QED BY <2>1, <2>2
<1>7. CASE up'[s][c] = <<>>
  BY <1>7
<1>8. CASE Connect(c) /\ s = "login" /\ up'[s][c] = <<JoinMsg>>
  <2>1. ~HasSession(s, c)
    BY <1>8 DEF Connect, Strangers, NotThere
  <2> QED BY <1>3, <1>8, <2>1
<1>9. CASE /\ s = "lobby" /\ move[c] = "begin"
           /\ up'[s][c] = <<JoinMsg, LogInMsg(OwnName(c), self[c])>>
  <2>1. ~HasSession(s, c)
    BY <1>9 DEF Strangers, NotThere
  <2>2. n = 1
    BY <1>9 DEF LogInMsg, JoinMsg
  <2> QED BY <1>3, <2>1, <2>2
<1> QED BY <1>4, <1>5, <1>6, <1>7, <1>8, <1>9, UpChange

\* Where clients come from, and that what a client was sent is lost with its
\* connection.
LEMMA ClientChange ==
  ASSUME TypeOK, MovesFromLogin, [Next]_vars, NEW c \in Client
  PROVE  /\ at'[c] = "out" => at[c] = "out"
         /\ at'[c] = "login" => at[c] = "login" \/ Connect(c)
         /\ at[c] = "login" /\ at'[c] # "login" => down'[c] = <<>>
         /\ at'[c] = "lobby" => move'[c] # "begin"
         /\ move'[c] = "begin" => move[c] = "begin" \/ at[c] = "login"
         /\ at'[c] \in {"out", "login"} => move'[c] \in {"end", "begin"}
<1>0. /\ at \in [Client -> Server \cup {"out", "cut", "gone"}]
      /\ move \in [Client -> {"end", "begin", "close", "connect"}]
      /\ down \in [Client -> Seq(DownMsg)] /\ down[c] \in Seq(DownMsg)
      /\ at[c] \in Server \cup {"out", "cut", "gone"}
      /\ move[c] \in {"end", "begin", "close", "connect"}
  BY DEF TypeOK
<1>1. /\ at[c] \in {"out", "login"} => move[c] \in {"end", "begin"}
      /\ at[c] = "lobby" => move[c] # "begin"
  BY DEF MovesFromLogin
<1>2. CASE UNCHANGED <<at, move, self>>
  BY <1>0, <1>1, <1>2
<1>3. ASSUME NEW d \in Client, Connect(d)
      PROVE  /\ at'[c] = at[c] \/ (Connect(c) /\ at'[c] = "login" /\ at[c] = "out")
             /\ move' = move
  BY <1>0, <1>3 DEF Connect
<1>4. ASSUME NEW d \in Client, Leave(d) \/ OnDisconnectClient(d), d # c
      PROVE  at'[c] = at[c] /\ move'[c] = move[c]
  BY <1>0, <1>4 DEF Leave, OnDisconnectClient
<1>5. Leave(c) => at'[c] = "gone" /\ down'[c] = <<>> /\ move' = move
  BY <1>0 DEF Leave
<1>6. OnDisconnectClient(c) =>
        /\ down'[c] = <<>>
        /\ at'[c] = "gone" \/ (at'[c] = "lobby" /\ move'[c] = "connect")
        /\ at'[c] = "gone" => move'[c] = move[c] \/ move'[c] = "close"
  BY <1>0 DEF OnDisconnectClient
<1>7. ASSUME NEW d \in Client, NEW k \in AnyKey, AckLogIn(d, k)
      PROVE  /\ at' = at
             /\ move'[c] = move[c] \/ move'[c] = "end"
  BY <1>0, <1>7 DEF AckLogIn
<1>8. ASSUME NEW d \in Client, NEW to \in {"zero", "real"}, AckMoveToServer(d, to)
      PROVE  /\ at' = at
             /\ move'[c] = move[c] \/ (at[c] = "login" /\ move'[c] = "begin")
  <2>1. at' = at /\ (d # c => move'[c] = move[c])
    BY <1>0, <1>8 DEF AckMoveToServer
  <2>2. ASSUME d = c
        PROVE  at[c] = "login" /\ move'[c] = "begin"
    <3>1. down[c] # <<>> /\ Head(down[c]) = AckMoveMsg(to) /\ move'[c] = "begin"
      BY <1>0, <1>8, <2>2 DEF AckMoveToServer, Hears
    <3>2. 1 \in DOMAIN down[c] /\ down[c][1].type = "ackmove"
      BY <1>0, <3>1, QueueSteps DEF AckMoveMsg
    <3> QED BY <3>1, <3>2 DEF MovesFromLogin
  <2> QED BY <2>1, <2>2
<1>9. ASSUME NEW s \in Server, Restart(s)
      PROVE  /\ move' = move
             /\ at'[c] = at[c] \/ (at'[c] = "cut" /\ down'[c] = <<>>)
  BY <1>0, <1>9 DEF Restart
<1> QED
  BY <1>0, <1>1, <1>2, <1>3, <1>4, <1>5, <1>6, <1>7, <1>8, <1>9, ClientFrame DEF ClientHandles

LEMMA StrangersStep ==
  ASSUME TypeOK, JoinsFirst, Strangers, MovesFromLogin, [Next]_vars
  PROVE  Strangers'
<1> SUFFICES ASSUME NEW c \in Client
             PROVE  /\ at'[c] = "out" => NotThere("login", c)'
                    /\ at'[c] \in {"out", "login"} \/ move'[c] = "begin" => NotThere("lobby", c)'
  BY DEF Strangers
<1>1. ASSUME NEW s \in Server, NotThere(s, c), at[c] # s, ~Connect(c) \/ s = "lobby",
             ~(at'[c] = "lobby" /\ move'[c] = "connect")
      PROVE  NotThere(s, c)'
  <2>1. \A d \in Client : Join(s, d) => d # c
    BY <1>1, Joins DEF NotThere
  <2>2. ~HasSession(s, c)'
    <3>1. CASE \A d \in Client : ~Join(s, d)
      BY <1>1, <3>1, NoNewSession DEF NotThere
    <3>2. ASSUME NEW d \in Client, Join(s, d)
          PROVE  ~HasSession(s, c)'
      <4>1. d # c /\ NewSession(d).client = d
        BY <2>1, <3>2 DEF NewSession
      <4> QED BY <1>1, <3>2, <4>1, Joins DEF HasSession, NotThere
    <3> QED BY <3>1, <3>2
  <2>3. up'[s][c] = <<>>
    BY <1>1, UpChange DEF NotThere
  <2> QED BY <2>2, <2>3 DEF NotThere
<1>2. ASSUME at'[c] = "out"
      PROVE  NotThere("login", c)'
  <2>1. at[c] = "out" /\ ~Connect(c)
    BY <1>2, ClientChange DEF Connect, TypeOK
  <2> QED BY <1>1, <1>2, <2>1 DEF Strangers, Server
<1>3. ASSUME at'[c] \in {"out", "login"} \/ move'[c] = "begin"
      PROVE  NotThere("lobby", c)'
  <2>1. at'[c] # "lobby" \/ move'[c] # "connect"
    BY <1>3, ClientChange
  <2>2. at[c] \in {"out", "login"} \/ move[c] = "begin"
    BY <1>3, ClientChange DEF Connect
  <2>3. NotThere("lobby", c) /\ at[c] # "lobby"
    BY <2>2 DEF Strangers, MovesFromLogin
  <2> QED BY <1>1, <2>1, <2>3 DEF Server
<1> QED BY <1>2, <1>3

\* What a client may find among its packets after a step.
LEMMA DownChange ==
  ASSUME TypeOK, [Next]_vars, NEW c \in Client
  PROVE  \/ down'[c] = down[c]
         \/ down'[c] = <<>> /\ at'[c] # "login"
         \/ down[c] # <<>> /\ down'[c] = Tail(down[c]) /\ ClientHandles(c)
         \/ \E k \in AnyKey : /\ down'[c] = Append(down[c], AckLogInMsg(k))
                              /\ AckUserLogin \/ at[c] = "lobby"
         \/ \E to \in {"zero", "real"} : /\ down'[c] = Append(down[c], AckMoveMsg(to))
                                         /\ at[c] = "login"
<1>0. /\ down \in [Client -> Seq(DownMsg)]
      /\ at \in [Client -> Server \cup {"out", "cut", "gone"}]
  BY DEF TypeOK
<1>1. ASSUME NEW d \in Client, Leave(d) \/ OnDisconnectClient(d)
      PROVE  down'[c] = down[c] \/ (down'[c] = <<>> /\ at'[c] # "login")
  BY <1>0, <1>1 DEF Leave, OnDisconnectClient
<1>2. ASSUME NEW d \in Client, NEW m, Hears(d, m)
      PROVE  \/ down'[c] = down[c]
             \/ d = c /\ down[c] # <<>> /\ down'[c] = Tail(down[c])
  BY <1>0, <1>2 DEF Hears
<1>3. ASSUME NEW s \in Server, NEW d, NEW m, Tell(s, d, m)
      PROVE  down'[c] = down[c] \/ (at[c] = s /\ down'[c] = Append(down[c], m))
  BY <1>0, <1>3 DEF Tell
<1>4. ASSUME AckUserLogin
      PROVE  down'[c] = down[c] \/ \E k \in AnyKey : down'[c] = Append(down[c], AckLogInMsg(k))
  <2>1. Head(fromCertify).key \in AnyKey
    BY <1>4, NextPass DEF AckUserLogin, AnyKey
  <2> QED BY <1>3, <1>4, <2>1 DEF AckUserLogin, Server
<1>5. ASSUME AckMovePlayer
      PROVE  \/ down'[c] = down[c]
             \/ \E to \in {"zero", "real"} : /\ down'[c] = Append(down[c], AckMoveMsg(to))
                                             /\ at[c] = "login"
  <2>1. Head(toLogin).to \in {"zero", "real"}
    <3> DEFINE S == [id : Id, to : {"zero", "real"}]
    <3>1. toLogin \in Seq(S) /\ toLogin # <<>>
      BY <1>5 DEF AckMovePlayer, TypeOK
    <3> HIDE DEF S
    <3>2. Head(toLogin) \in S
      BY <3>1
    <3> QED BY <3>2 DEF S
  <2> QED BY <1>3, <1>5, <2>1 DEF AckMovePlayer, Server
<1>6. ASSUME NEW d \in Client, NEW id \in Name, NEW k \in AnyKey, LobbyReqLogIn(d, id, k)
      PROVE  \/ down'[c] = down[c]
             \/ down'[c] = Append(down[c], AckLogInMsg(k)) /\ at[c] = "lobby"
  BY <1>3, <1>6 DEF LobbyReqLogIn, Server
<1>7. ASSUME NEW s \in Server, Restart(s)
      PROVE  down'[c] = down[c] \/ (down'[c] = <<>> /\ at'[c] # "login")
  BY <1>0, <1>7 DEF Restart
<1>8. ASSUME NEW d \in Client, ClientHandles(d)
      PROVE  \/ down'[c] = down[c]
             \/ down'[c] = <<>> /\ at'[c] # "login"
             \/ d = c /\ down[c] # <<>> /\ down'[c] = Tail(down[c])
  BY <1>1, <1>2, <1>8 DEF ClientHandles, AckLogIn, AckMoveToServer
<1> QED BY <1>1, <1>4, <1>5, <1>6, <1>7, <1>8, DownFrame

LEMMA MovesFromLoginStep ==
  ASSUME TypeOK, MovesFromLogin, [Next]_vars
  PROVE  MovesFromLogin'
<1> SUFFICES ASSUME NEW c \in Client
             PROVE  /\ at'[c] \in {"out", "login"} => move'[c] \in {"end", "begin"}
                    /\ at'[c] = "lobby" => move'[c] # "begin"
                    /\ \A n \in DOMAIN down'[c] : down'[c][n].type = "ackmove" => at'[c] = "login"
  BY DEF MovesFromLogin
<1>1. ASSUME NEW n \in DOMAIN down'[c], down'[c][n].type = "ackmove"
      PROVE  at[c] = "login" /\ down'[c] # <<>>
  <2>1. down[c] \in Seq(DownMsg)
    BY DownSteps
  <2>2. \A m \in DOMAIN down[c] : down[c][m].type = "ackmove" => at[c] = "login"
    BY DEF MovesFromLogin
  <2>3. CASE down[c] # <<>> /\ down'[c] = Tail(down[c])
    BY <1>1, <2>1, <2>2, <2>3, QueueSteps
  <2>4. ASSUME NEW k \in AnyKey, down'[c] = Append(down[c], AckLogInMsg(k))
        PROVE  at[c] = "login"
    <3>1. AckLogInMsg(k) \in DownMsg /\ AckLogInMsg(k).type # "ackmove"
      BY Packets DEF AckLogInMsg
    <3> QED BY <1>1, <2>1, <2>2, <2>4, <3>1, QueueSteps
  <2> QED BY <1>1, <2>2, <2>3, <2>4, DownChange
<1> QED BY <1>1, ClientChange

-----------------------------------------------------------------------------
(* Names and keys at the login server.                                     *)

LEMMA FirstIs ==
  ASSUME NEW q \in Seq(Session), NEW i \in DOMAIN q, NEW id
  PROVE  i \in First(q, id) <=>
           q[i].name = id /\ \A j \in DOMAIN q : j < i => q[j].name # id
<1>1. i \in Nat /\ DOMAIN q = 1..Len(q) /\ Len(q) \in Nat
  OBVIOUS
<1>2. \A j \in DOMAIN q : j < i <=> j \in 1..(i - 1)
  BY <1>1
<1>3. 1..(i - 1) \subseteq DOMAIN q
  BY <1>1
<1> QED BY <1>2, <1>3 DEF First

\* The steps of the login server that change what its sessions are.
LEMMA LoginChange ==
  ASSUME TypeOK, [Next]_vars
  PROVE  \/ sessions'["login"] = sessions["login"]
         \/ \E c \in Client : Join("login", c) \/ RemoveSession("login", c)
         \/ \E c \in Client, id \in Id :
              /\ MayLogIn("login", c, id) /\ UNCHANGED <<at, self, down>>
              /\ SetSession("login", [NewSession(c) EXCEPT !.name = id])
         \/ \E id \in Id, k \in Key : \E i \in SessionNamed("login", id) :
              /\ AckUserLogin
              /\ SetSession("login", LoggedInAs(sessions["login"][i].client, id, k))
              /\ Tell("login", sessions["login"][i].client, AckLogInMsg(k))
              /\ UNCHANGED <<at, self>>
         \/ sessions'["login"] = <<>>
<1>0. sessions \in [Server -> Seq(Session)] /\ NoName \in Name
      /\ "login" \in Server /\ "lobby" \in Server
  BY DEF TypeOK, Name, Server
<1>1. ASSUME NEW c \in Client, Join("lobby", c) \/ RemoveSession("lobby", c)
      PROVE  sessions'["login"] = sessions["login"]
  BY <1>0, <1>1 DEF Join, RemoveSession
<1>2. ASSUME NEW c \in Client, NEW id \in Id, LoginReqLogIn(c, id)
      PROVE  \/ sessions' = sessions
             \/ /\ MayLogIn("login", c, id) /\ UNCHANGED <<at, self, down>>
                /\ SetSession("login", [NewSession(c) EXCEPT !.name = id])
  BY <1>2 DEF LoginReqLogIn, clientVars
<1>3. ASSUME AckUserLogin
      PROVE  \/ sessions' = sessions
             \/ \E id \in Id, k \in Key : \E i \in SessionNamed("login", id) :
                  /\ SetSession("login", LoggedInAs(sessions["login"][i].client, id, k))
                  /\ Tell("login", sessions["login"][i].client, AckLogInMsg(k))
                  /\ UNCHANGED <<at, self>>
  BY <1>3, NextPass DEF AckUserLogin, clientVars
<1>4. ASSUME NEW c \in Client, NEW id \in Name, NEW k \in AnyKey, LobbyReqLogIn(c, id, k)
      PROVE  sessions'["login"] = sessions["login"]
  BY <1>0, <1>4 DEF LobbyReqLogIn, SetSession
<1>5. ASSUME NEW s \in Server, Restart(s)
      PROVE  sessions'["login"] \in {sessions["login"], <<>>}
  BY <1>0, <1>5 DEF Restart
<1> QED BY <1>1, <1>2, <1>3, <1>4, <1>5, SessionsFrame DEF Server

LEMMA LoginStep ==
  ASSUME TypeOK, JoinsFirst, OneSession, LoginNamed, LoginIsFound, [Next]_vars
  PROVE  LoginNamed' /\ LoginIsFound'
<1> DEFINE q == sessions["login"]
           r == sessions'["login"]
           Apart(i, t) == \A j \in DOMAIN t : j < i => t[j].name # t[i].name
<1>1. "login" \in Server /\ q \in Seq(Session) /\ r \in Seq(Session) /\ OneSession'
  BY TypeStep, OneSessionStep, LobbyConstants DEF TypeOK, Server
<1>2. SUFFICES ASSUME NEW i \in DOMAIN r, r[i].state = "in"
               PROVE  r[i].name \in Id /\ r[i].key \in Key /\ Apart(i, r)
  BY <1>1, FirstIs DEF LoginNamed, LoginIsFound, LoggedIn, SessionNamed
<1>3. \A n \in DOMAIN q : q[n].state = "in" =>
        q[n].name \in Id /\ q[n].key \in Key /\ Apart(n, q)
  BY <1>1, FirstIs DEF LoginNamed, LoginIsFound, LoggedIn, SessionNamed
<1>4. \A m, n \in DOMAIN q : q[m].client = q[n].client => m = n
  BY <1>1 DEF OneSession
<1>5. DOMAIN q \subseteq Nat /\ DOMAIN r \subseteq Nat
  BY <1>1
<1>6. CASE r = q
  BY <1>2, <1>3, <1>6
<1>7. ASSUME NEW c \in Client, Join("login", c)
      PROVE  r[i].name \in Id /\ r[i].key \in Key /\ Apart(i, r)
  <2>1. /\ DOMAIN r = DOMAIN q \cup {Len(q) + 1} /\ r[Len(q) + 1].state = "wait"
        /\ \A n \in DOMAIN q : r[n] = q[n]
    <3>1. NewSession(c).state = "wait"
      BY DEF NewSession
    <3>2. /\ DOMAIN r = DOMAIN q \cup {Len(q) + 1} /\ r[Len(q) + 1] = NewSession(c)
          /\ \A n \in DOMAIN q : r[n] = q[n]
      BY <1>1, <1>7, Joins
    <3> QED BY <3>1, <3>2
  <2>2. i \in DOMAIN q /\ \A j \in DOMAIN r : j < i => j \in DOMAIN q
    BY <1>1, <1>2, <2>1
  <2> QED BY <1>2, <1>3, <2>1, <2>2
<1>8. ASSUME NEW c \in Client, RemoveSession("login", c)
      PROVE  r[i].name \in Id /\ r[i].key \in Key /\ Apart(i, r)
  <2>1. PICK f \in [DOMAIN r -> DOMAIN q] :
          /\ \A n \in DOMAIN r : r[n] = q[f[n]]
          /\ \A m, n \in DOMAIN r : m < n => f[m] < f[n]
    BY <1>1, <1>8, Removed
  <2> QED BY <1>2, <1>3, <2>1
<1>9. ASSUME NEW c \in Client, NEW id \in Id, MayLogIn("login", c, id),
             SetSession("login", [NewSession(c) EXCEPT !.name = id])
      PROVE  r[i].name \in Id /\ r[i].key \in Key /\ Apart(i, r)
  <2> DEFINE e == [client |-> c, state |-> "wait", name |-> id, key |-> NoKey]
  <2>1. e \in Session /\ [NewSession(c) EXCEPT !.name = id] = e
    BY Entries DEF Name, AnyKey
  <2>2. /\ e.client = c /\ e.state = "wait" /\ e.name = id
    OBVIOUS
  <2> HIDE DEF e
  <2>3. /\ DOMAIN r = DOMAIN q
        /\ \A n \in DOMAIN q : r[n] = IF q[n].client = c THEN e ELSE q[n]
    BY <1>1, <1>9, <2>1, <2>2, Replaced
  <2>4. r[i] = q[i] /\ q[i].state = "in"
    BY <1>2, <2>2, <2>3
  <2>5. q[i].name # id
    <3>1. i \in SessionNamed("login", q[i].name)
      BY <2>3, <2>4 DEF LoginIsFound, LoggedIn
    <3> QED BY <1>9, <2>4, <3>1 DEF MayLogIn
  <2> QED BY <1>2, <1>3, <2>2, <2>3, <2>4, <2>5
<1>10. ASSUME NEW id \in Id, NEW k \in Key, NEW p \in SessionNamed("login", id),
              SetSession("login", LoggedInAs(q[p].client, id, k))
       PROVE  r[i].name \in Id /\ r[i].key \in Key /\ Apart(i, r)
  <2> DEFINE e == LoggedInAs(q[p].client, id, k)
  <2>1. p \in DOMAIN q /\ q[p].name = id /\ Apart(p, q) /\ q[p].client \in Client
    BY <1>1, FirstIs, SessionAt DEF SessionNamed, First
  <2>2. /\ e \in Session /\ e.client = q[p].client /\ e.name = id /\ e.key = k
    BY <2>1, Entries DEF LoggedInAs, Name, AnyKey
  <2> HIDE DEF e
  <2>3. /\ DOMAIN r = DOMAIN q
        /\ \A n \in DOMAIN q : r[n] = IF q[n].client = e.client THEN e ELSE q[n]
    BY <1>1, <1>10, <2>2, Replaced DEF e
  <2>4. \A n \in DOMAIN q : r[n] = IF n = p THEN e ELSE q[n]
    BY <1>4, <2>1, <2>2, <2>3
  <2>5. \A n \in DOMAIN q : r[n].name = q[n].name
    BY <2>1, <2>2, <2>4
  <2>6. Apart(i, q)
    BY <1>2, <1>3, <2>1, <2>3, <2>4
  <2>7. Apart(i, r)
    BY <2>3, <2>5, <2>6
  <2> QED BY <1>2, <1>3, <2>2, <2>3, <2>4, <2>7
<1>11. CASE r = <<>>
  BY <1>2, <1>11
<1> QED BY <1>6, <1>7, <1>8, <1>9, <1>10, <1>11, LoginChange

\* One packet more or less, and the key a client will hold.
LEMMA HoldSteps ==
  ASSUME NEW d \in Seq(DownMsg), NEW k, NEW key, NEW x \in AnyKey, NEW to \in {"zero", "real"}
  PROVE  /\ WillHold(k, Append(d, AckLogInMsg(x)), x)
         /\ WillHold(k, d, key) => WillHold(k, Append(d, AckMoveMsg(to)), key)
         /\ d # <<>> /\ WillHold(k, d, key) =>
              /\ Head(d) = AckLogInMsg(x) => WillHold(x, Tail(d), key)
              /\ Head(d) = AckMoveMsg(to) => WillHold(k, Tail(d), key)
<1> DEFINE a == Append(d, AckLogInMsg(x))
           b == Append(d, AckMoveMsg(to))
           t == Tail(d)
<1>1. /\ AckLogInMsg(x) \in DownMsg /\ AckLogInMsg(x).type = "acklogin"
      /\ AckLogInMsg(x).key = x
      /\ AckMoveMsg(to) \in DownMsg /\ AckMoveMsg(to).type = "ackmove"
  BY Packets DEF AckLogInMsg, AckMoveMsg
<1>2. \A n \in DOMAIN d : n \in Nat /\ n # Len(d) + 1 /\ n <= Len(d) /\ Len(d) \in Nat
  OBVIOUS
<1>3. /\ DOMAIN a = DOMAIN d \cup {Len(d) + 1} /\ a[Len(d) + 1] = AckLogInMsg(x)
      /\ \A n \in DOMAIN d : a[n] = d[n]
  BY <1>1, QueueSteps
<1>4. /\ DOMAIN b = DOMAIN d \cup {Len(d) + 1} /\ b[Len(d) + 1] = AckMoveMsg(to)
      /\ \A n \in DOMAIN d : b[n] = d[n]
  BY <1>1, QueueSteps
<1> HIDE DEF a, b
<1>5. WillHold(k, a, x)
  <2>1. Len(d) + 1 \in Told(a) /\ a[Len(d) + 1].key = x
    BY <1>1, <1>3 DEF Told
  <2>2. \A m \in Told(a) : m <= Len(d) + 1
    BY <1>2, <1>3 DEF Told
  <2> QED BY <2>1, <2>2 DEF WillHold
<1>6. WillHold(k, d, key) => WillHold(k, b, key)
  <2>1. Told(b) = Told(d)
    BY <1>1, <1>2, <1>4 DEF Told
  <2>2. \A n \in Told(d) : b[n] = d[n]
    BY <1>4 DEF Told
  <2> QED BY <2>1, <2>2 DEF WillHold
<1>7. ASSUME d # <<>>, WillHold(k, d, key)
      PROVE  /\ Head(d) = AckLogInMsg(x) => WillHold(x, t, key)
             /\ Head(d) = AckMoveMsg(to) => WillHold(k, t, key)
  <2>1. /\ Head(d) = d[1] /\ 1 \in DOMAIN d
        /\ \A n \in DOMAIN t : n \in Nat /\ n + 1 \in DOMAIN d /\ t[n] = d[n + 1] /\ n # 0
        /\ \A n \in DOMAIN d : n # 1 => n - 1 \in DOMAIN t /\ t[n - 1] = d[n]
    BY <1>7, QueueSteps
  <2> HIDE DEF t
  <2>2. \A n \in Told(t) : n + 1 \in Told(d) /\ n \in Nat /\ n # 0
    BY <2>1 DEF Told
  <2>3. \A n \in Told(d) : n # 1 => n - 1 \in Told(t) /\ n \in Nat
    BY <1>2, <2>1 DEF Told
  <2>4. ASSUME NEW n \in Told(d), \A m \in Told(d) : m <= n, d[n].key = key, n # 1
        PROVE  WillHold(x, t, key) /\ WillHold(k, t, key)
    <3>1. n - 1 \in Told(t) /\ t[n - 1].key = key /\ n \in Nat
      BY <2>1, <2>3, <2>4 DEF Told
    <3>2. \A m \in Told(t) : m <= n - 1
      BY <2>2, <2>4, <3>1
    <3> QED BY <3>1, <3>2 DEF WillHold
  <2>5. ASSUME Head(d) = AckLogInMsg(x)
        PROVE  WillHold(x, t, key)
    <3>1. 1 \in Told(d) /\ d[1].key = x
      BY <1>1, <2>1, <2>5 DEF Told
    <3>2. PICK n \in Told(d) : (\A m \in Told(d) : m <= n) /\ d[n].key = key
      BY <1>7, <3>1 DEF WillHold
    <3>3. CASE n = 1
      <4>1. Told(t) = {}
        <5> SUFFICES ASSUME NEW m \in Told(t)
                     PROVE  FALSE
          OBVIOUS
        <5>1. m \in Nat /\ m # 0 /\ m + 1 <= 1
          BY <2>2, <3>2, <3>3
        <5> QED BY <5>1
      <4> QED BY <3>1, <3>2, <3>3, <4>1 DEF WillHold
    <3> QED BY <2>4, <3>2, <3>3
  <2>6. ASSUME Head(d) = AckMoveMsg(to)
        PROVE  WillHold(k, t, key)
    <3>1. 1 \notin Told(d)
      BY <1>1, <2>1, <2>6 DEF Told
    <3>2. CASE Told(d) = {} /\ k = key
      <4>1. Told(t) = {}
        BY <2>2, <3>2
      <4> QED BY <3>2, <4>1 DEF WillHold
    <3> QED BY <1>7, <2>4, <3>1, <3>2 DEF WillHold
  <2> QED BY <2>5, <2>6
<1> QED BY <1>5, <1>6, <1>7 DEF a, b

\* What a client at the login server will hold changes with an answer of the
\* certify server only.
LEMMA Holds ==
  ASSUME TypeOK, MovesFromLogin, [Next]_vars, ~AckUserLogin,
         NEW c \in Client, at[c] = "login", at'[c] = "login",
         NEW key, WillHold(self[c], down[c], key)
  PROVE  WillHold(self'[c], down'[c], key)
<1>0. /\ down \in [Client -> Seq(DownMsg)] /\ down[c] \in Seq(DownMsg)
      /\ self \in [Client -> AnyKey]
      /\ at \in [Client -> Server \cup {"out", "cut", "gone"}]
  BY DEF TypeOK
<1>1. CASE self'[c] = self[c] /\ down'[c] = down[c]
  BY <1>1
<1>2. ASSUME NEW d \in Client, Leave(d) \/ OnDisconnectClient(d)
      PROVE  self'[c] = self[c] /\ down'[c] = down[c]
  <2>1. d # c
    BY <1>0, <1>2 DEF Leave, OnDisconnectClient
  <2> QED BY <1>0, <1>2, <2>1 DEF Leave, OnDisconnectClient
<1>3. ASSUME NEW d \in Client, NEW k \in AnyKey, AckLogIn(d, k)
      PROVE  WillHold(self'[c], down'[c], key)
  <2>1. CASE d # c
    <3>1. self'[c] = self[c] /\ down'[c] = down[c]
      BY <1>0, <1>3, <2>1 DEF AckLogIn, Hears
    <3> QED BY <1>1, <3>1
  <2>2. CASE d = c
    <3>1. move[c] # "connect"
      BY DEF MovesFromLogin
    <3>2. /\ down[c] # <<>> /\ Head(down[c]) = AckLogInMsg(k)
          /\ down'[c] = Tail(down[c]) /\ self'[c] = k
      BY <1>0, <1>3, <2>2, <3>1 DEF AckLogIn, Hears
    <3> QED BY <1>0, <3>2, HoldSteps
  <2> QED BY <2>1, <2>2
<1>4. ASSUME NEW d \in Client, NEW to \in {"zero", "real"}, AckMoveToServer(d, to)
      PROVE  WillHold(self'[c], down'[c], key)
  <2>1. CASE d # c
    <3>1. self'[c] = self[c] /\ down'[c] = down[c]
      BY <1>0, <1>4, <2>1 DEF AckMoveToServer, Hears
    <3> QED BY <1>1, <3>1
  <2>2. CASE d = c
    <3>1. /\ down[c] # <<>> /\ Head(down[c]) = AckMoveMsg(to)
          /\ down'[c] = Tail(down[c]) /\ self'[c] = self[c]
      BY <1>0, <1>4, <2>2 DEF AckMoveToServer, Hears
    <3>2. NoKey \in AnyKey
      BY DEF AnyKey
    <3> QED BY <1>0, <3>1, <3>2, HoldSteps
  <2> QED BY <2>1, <2>2
<1>5. CASE ~\E d \in Client : Leave(d) \/ ClientHandles(d)
  <2>1. self' = self
    BY <1>5, ClientFrame DEF Connect, Restart
  <2>2. \/ down'[c] = down[c]
        \/ \E to \in {"zero", "real"} : down'[c] = Append(down[c], AckMoveMsg(to))
    BY <1>5, DownChange
  <2>3. NoKey \in AnyKey
    BY DEF AnyKey
  <2> QED BY <1>0, <1>1, <2>1, <2>2, <2>3, HoldSteps
<1> QED BY <1>1, <1>2, <1>3, <1>4, <1>5 DEF ClientHandles

LEMMA KeysStep ==
  ASSUME TypeOK, JoinsFirst, OneSession, Strangers, MovesFromLogin, LoginIsFound, KeysAgree,
         [Next]_vars
  PROVE  KeysAgree'
<1> DEFINE q == sessions["login"]
           r == sessions'["login"]
<1>1. /\ "login" \in Server /\ q \in Seq(Session) /\ down \in [Client -> Seq(DownMsg)]
      /\ \A n \in DOMAIN q : q[n].client \in Client
      /\ \A m, n \in DOMAIN q : q[m].client = q[n].client => m = n
  BY SessionAt DEF TypeOK, Server, OneSession
<1> SUFFICES ASSUME NEW i \in DOMAIN r, r[i].state = "in", at'[r[i].client] = "login"
             PROVE  WillHold(self'[r[i].client], down'[r[i].client], r[i].key)
  BY DEF KeysAgree, LoggedIn
<1> DEFINE c == r[i].client
<1>2. \A n \in DOMAIN q : q[n].state = "in" /\ at[q[n].client] = "login" =>
        WillHold(self[q[n].client], down[q[n].client], q[n].key)
  BY DEF KeysAgree, LoggedIn
<1>3. ASSUME NEW n \in DOMAIN q, q[n].client = c, q[n].state = "in", q[n].key = r[i].key,
             ~AckUserLogin
      PROVE  WillHold(self'[c], down'[c], r[i].key)
  <2>1. c \in Client
    BY <1>1, <1>3
  <2>2. ~Connect(c)
    <3>1. HasSession("login", c)
      BY <1>3 DEF HasSession
    <3> QED BY <2>1, <3>1 DEF Connect, Strangers, NotThere
  <2>3. at[c] = "login" /\ at'[c] = "login"
    BY <2>1, <2>2, ClientChange
  <2>4. WillHold(self[c], down[c], r[i].key)
    BY <1>2, <1>3, <2>3
  <2> HIDE DEF c
  <2> QED BY <1>3, <2>1, <2>3, <2>4, Holds
<1>4. CASE AckUserLogin
  <2>1. at' = at /\ self' = self /\ sessions \in [Server -> Seq(Session)]
    BY <1>4 DEF AckUserLogin, clientVars, TypeOK
  <2>2. CASE UNCHANGED <<sessions, down>>
    BY <1>2, <2>1, <2>2
  <2>3. ASSUME NEW k \in Key, NEW id \in Id, NEW p \in SessionNamed("login", id),
               SetSession("login", LoggedInAs(q[p].client, id, k)),
               Tell("login", q[p].client, AckLogInMsg(k))
        PROVE  WillHold(self'[c], down'[c], r[i].key)
    <3> DEFINE e == LoggedInAs(q[p].client, id, k)
    <3>1. p \in DOMAIN q /\ q[p].client \in Client
      BY <1>1 DEF SessionNamed, First
    <3>2. e \in Session /\ e.client = q[p].client /\ e.key = k
      BY <3>1, Entries DEF LoggedInAs, Name, AnyKey
    <3> HIDE DEF e
    <3>3. /\ DOMAIN r = DOMAIN q
          /\ \A n \in DOMAIN q : r[n] = IF q[n].client = e.client THEN e ELSE q[n]
      BY <1>1, <2>3, <3>2, Replaced DEF e
    <3>4. \A n \in DOMAIN q : r[n] = IF n = p THEN e ELSE q[n]
      BY <1>1, <3>1, <3>2, <3>3
    <3>5. CASE i = p
      <4>1. c = q[p].client /\ r[i].key = k /\ k \in AnyKey
        BY <3>1, <3>2, <3>4, <3>5 DEF AnyKey
      <4>2. down'[c] = Append(down[c], AckLogInMsg(k))
        BY <1>1, <2>1, <2>3, <3>1, <4>1 DEF Tell
      <4>3. down[c] \in Seq(DownMsg)
        BY <1>1, <3>1, <4>1
      <4> HIDE DEF c
      <4> QED BY <4>1, <4>2, <4>3, HoldSteps
    <3>6. CASE i # p
      <4>1. r[i] = q[i] /\ i \in DOMAIN q /\ c # q[p].client
        BY <1>1, <3>1, <3>3, <3>4, <3>6
      <4>2. down'[c] = down[c]
        BY <1>1, <2>3, <3>1, <4>1 DEF Tell
      <4> QED BY <1>2, <2>1, <4>1, <4>2
    <3> QED BY <3>5, <3>6
  <2> QED BY <1>4, <2>2, <2>3, NextPass DEF AckUserLogin
<1>5. CASE ~AckUserLogin
  <2>1. CASE r = q
    BY <1>3, <1>5, <2>1
  <2>2. ASSUME NEW d \in Client, Join("login", d)
        PROVE  \E n \in DOMAIN q : q[n] = r[i]
    <3>1. NewSession(d).state = "wait"
      BY DEF NewSession
    <3>2. /\ DOMAIN r = DOMAIN q \cup {Len(q) + 1} /\ r[Len(q) + 1] = NewSession(d)
          /\ \A n \in DOMAIN q : r[n] = q[n]
      BY <1>1, <2>2, Joins
    <3> QED BY <3>1, <3>2
  <2>3. ASSUME NEW d \in Client, RemoveSession("login", d)
        PROVE  \E n \in DOMAIN q : q[n] = r[i]
    <3>1. PICK f \in [DOMAIN r -> DOMAIN q] : \A n \in DOMAIN r : r[n] = q[f[n]]
      BY <1>1, <2>3, Removed
    <3> QED BY <3>1
  <2>4. ASSUME NEW d \in Client, NEW id \in Id,
               SetSession("login", [NewSession(d) EXCEPT !.name = id])
        PROVE  \E n \in DOMAIN q : q[n] = r[i]
    <3> DEFINE e == [client |-> d, state |-> "wait", name |-> id, key |-> NoKey]
    <3>1. e \in Session /\ [NewSession(d) EXCEPT !.name = id] = e /\ e.state = "wait"
      BY Entries DEF Name, AnyKey
    <3> HIDE DEF e
    <3>2. /\ DOMAIN r = DOMAIN q
          /\ \A n \in DOMAIN q : r[n] = IF q[n].client = e.client THEN e ELSE q[n]
      BY <1>1, <2>4, <3>1, Replaced
    <3> QED BY <3>1, <3>2
  <2>5. r # <<>>
    OBVIOUS
  <2> QED BY <1>3, <1>5, <2>1, <2>2, <2>3, <2>4, <2>5, LoginChange
<1> QED BY <1>4, <1>5

-----------------------------------------------------------------------------
(* What the certify server is told.                                        *)

NoneGone(q) == \A n \in DOMAIN q : q[n] # GoneMsg

LEMMA HeardSteps ==
  ASSUME NEW q \in Seq(CertifyMsg), NEW id
  PROVE  /\ \A m \in CertifyMsg : m # GoneMsg =>
              /\ NoneGone(q) => NoneGone(Append(q, m))
              /\ HeardFrom(q, id) => HeardFrom(Append(q, m), id)
         /\ UserMoveMsg(id) \in CertifyMsg => HeardFrom(Append(q, UserMoveMsg(id)), id)
         /\ q # <<>> =>
              /\ NoneGone(q) => NoneGone(Tail(q)) /\ Head(q) # GoneMsg
              /\ HeardFrom(q, id) => \/ HeardFrom(Tail(q), id)
                                     \/ Head(q) = UserMoveMsg(id) /\ NoneGone(Tail(q))
<1>0. \A n \in DOMAIN q : n \in Nat /\ n # 0 /\ n # Len(q) + 1 /\ n <= Len(q) /\ Len(q) \in Nat
  OBVIOUS
<1>1. ASSUME NEW m \in CertifyMsg, m # GoneMsg
      PROVE  /\ NoneGone(q) => NoneGone(Append(q, m))
             /\ HeardFrom(q, id) => HeardFrom(Append(q, m), id)
  <2> DEFINE a == Append(q, m)
  <2>1. /\ DOMAIN a = DOMAIN q \cup {Len(q) + 1} /\ a[Len(q) + 1] = m
        /\ \A n \in DOMAIN q : a[n] = q[n]
    BY QueueSteps
  <2> HIDE DEF a
  <2>2. NoneGone(q) => NoneGone(a)
    BY <1>1, <2>1 DEF NoneGone
  <2>3. HeardFrom(q, id) => HeardFrom(a, id)
    BY <1>1, <2>1 DEF HeardFrom
  <2> QED BY <2>2, <2>3 DEF a
<1>2. ASSUME UserMoveMsg(id) \in CertifyMsg
      PROVE  HeardFrom(Append(q, UserMoveMsg(id)), id)
  <2> DEFINE a == Append(q, UserMoveMsg(id))
  <2>1. DOMAIN a = DOMAIN q \cup {Len(q) + 1} /\ a[Len(q) + 1] = UserMoveMsg(id)
    BY <1>2, QueueSteps
  <2> HIDE DEF a
  <2>2. \A m \in DOMAIN a : ~(m > Len(q) + 1)
    BY <1>0, <2>1
  <2>3. HeardFrom(a, id)
    BY <2>1, <2>2 DEF HeardFrom
  <2> QED BY <2>3 DEF a
<1>3. ASSUME q # <<>>
      PROVE  /\ NoneGone(q) => NoneGone(Tail(q)) /\ Head(q) # GoneMsg
             /\ HeardFrom(q, id) => \/ HeardFrom(Tail(q), id)
                                    \/ Head(q) = UserMoveMsg(id) /\ NoneGone(Tail(q))
  <2> DEFINE t == Tail(q)
  <2>1. /\ Head(q) = q[1] /\ 1 \in DOMAIN q
        /\ \A n \in DOMAIN t : n \in Nat /\ n + 1 \in DOMAIN q /\ t[n] = q[n + 1] /\ n # 0
        /\ \A n \in DOMAIN q : n # 1 => n - 1 \in DOMAIN t /\ t[n - 1] = q[n]
    BY <1>3, QueueSteps
  <2> HIDE DEF t
  <2>2. NoneGone(q) => NoneGone(t) /\ Head(q) # GoneMsg
    BY <2>1 DEF NoneGone
  <2>3. ASSUME HeardFrom(q, id)
        PROVE  HeardFrom(t, id) \/ (Head(q) = UserMoveMsg(id) /\ NoneGone(t))
    <3>1. PICK n \in DOMAIN q : q[n] = UserMoveMsg(id) /\ \A m \in DOMAIN q : m > n => q[m] # GoneMsg
      BY <2>3 DEF HeardFrom
    <3>2. CASE n = 1
      <4>1. ASSUME NEW m \in DOMAIN t PROVE t[m] # GoneMsg
        <5>1. m + 1 \in DOMAIN q /\ m + 1 > n /\ t[m] = q[m + 1]
          BY <2>1, <3>2
        <5> QED BY <3>1, <5>1
      <4> QED BY <2>1, <3>1, <3>2, <4>1 DEF NoneGone
    <3>3. CASE n # 1
      <4>1. n - 1 \in DOMAIN t /\ t[n - 1] = UserMoveMsg(id)
        BY <2>1, <3>1, <3>3
      <4>2. ASSUME NEW m \in DOMAIN t, m > n - 1 PROVE t[m] # GoneMsg
        <5>1. m + 1 \in DOMAIN q /\ m + 1 > n /\ t[m] = q[m + 1]
          BY <1>0, <2>1, <4>2
        <5> QED BY <3>1, <5>1
      <4> QED BY <4>1, <4>2 DEF HeardFrom
    <3> QED BY <3>2, <3>3
  <2> QED BY <2>2, <2>3 DEF t
<1> QED BY <1>1, <1>2, <1>3

LEMMA RequestsStep ==
  ASSUME TypeOK, RequestsApart, [Next]_vars
  PROVE  RequestsApart'
<1> DEFINE q == toCertify["login"]
           r == toCertify'["login"]
<1>0. toCertify \in [Server -> Seq(CertifyMsg)] /\ q \in Seq(CertifyMsg) /\ "login" \in Server
  BY DEF TypeOK, Server
<1>1. ASSUME NEW m \in CertifyMsg, m.type # "usermove", r = Append(q, m)
      PROVE  RequestsApart'
  <2>1. /\ DOMAIN r = DOMAIN q \cup {Len(q) + 1} /\ r[Len(q) + 1] = m
        /\ \A n \in DOMAIN q : r[n] = q[n]
    BY <1>0, <1>1, QueueSteps
  <2> QED BY <1>1, <2>1 DEF RequestsApart
<1>2. CASE q # <<>> /\ r = Tail(q)
  <2>1. \A n \in DOMAIN r : n + 1 \in DOMAIN q /\ r[n] = q[n + 1]
    BY <1>0, <1>2, QueueSteps
  <2> QED BY <2>1 DEF RequestsApart
<1>3. CASE r = q
  BY <1>3 DEF RequestsApart
<1>4. ASSUME NEW c \in Client, NEW id \in Id, LoginReqLogIn(c, id)
      PROVE  r = q \/ \E m \in CertifyMsg : m.type # "usermove" /\ r = Append(q, m)
  <2>1. UserLoginMsg(id) \in CertifyMsg /\ UserLoginMsg(id).type # "usermove"
    BY Packets DEF UserLoginMsg
  <2> QED BY <1>0, <1>4, <2>1 DEF LoginReqLogIn
<1>5. ASSUME NEW c \in Client, NEW id \in Name, NEW k \in AnyKey, LobbyReqLogIn(c, id, k)
      PROVE  r = q
  BY <1>0, <1>5 DEF LobbyReqLogIn
<1>6. ASSUME NEW s \in Server, Restart(s)
      PROVE  r = q \/ \E m \in CertifyMsg : m.type # "usermove" /\ r = Append(q, m)
  <2>1. GoneMsg \in CertifyMsg /\ GoneMsg.type # "usermove"
    BY Packets DEF GoneMsg
  <2> QED BY <1>0, <1>6, <2>1 DEF Restart
<1>7. CertifyHandles => r = q \/ (q # <<>> /\ r = Tail(q))
  BY <1>0 DEF CertifyHandles, OnServerLeave, ReqUserLogin, ReqUserMoveServer, CertifyGets
<1> QED BY <1>1, <1>2, <1>3, <1>4, <1>5, <1>6, <1>7, CertifyFrame

\* Who is in the lobby was there, but for one that logs in.
LEMMA LobbyChange ==
  ASSUME TypeOK, JoinsFirst, [Next]_vars, NEW i \in DOMAIN sessions'["lobby"],
         sessions'["lobby"][i].state = "in"
  PROVE  \/ \E n \in LoggedIn("lobby") : sessions["lobby"][n] = sessions'["lobby"][i]
         \/ \E c \in Client, id \in Name, k \in AnyKey :
              /\ LobbyReqLogIn(c, id, k)
              /\ toCertify' = [toCertify EXCEPT !["lobby"] = Append(@, UserMoveMsg(id))]
              /\ sessions'["lobby"][i].name = id
<1> DEFINE q == sessions["lobby"]
           r == sessions'["lobby"]
<1>1. /\ "lobby" \in Server /\ "login" \in Server /\ q \in Seq(Session)
      /\ sessions \in [Server -> Seq(Session)]
  BY DEF TypeOK, Server
<1> SUFFICES \/ \E n \in DOMAIN q : q[n] = r[i]
             \/ \E c \in Client, id \in Name, k \in AnyKey :
                  /\ LobbyReqLogIn(c, id, k)
                  /\ toCertify' = [toCertify EXCEPT !["lobby"] = Append(@, UserMoveMsg(id))]
                  /\ r[i].name = id
  BY DEF LoggedIn
<1>2. CASE r = q
  BY <1>2
<1>3. ASSUME NEW d \in Client, Join("lobby", d)
      PROVE  \E n \in DOMAIN q : q[n] = r[i]
  <2>1. NewSession(d).state = "wait"
    BY DEF NewSession
  <2>2. /\ DOMAIN r = DOMAIN q \cup {Len(q) + 1} /\ r[Len(q) + 1] = NewSession(d)
        /\ \A n \in DOMAIN q : r[n] = q[n]
    BY <1>1, <1>3, Joins
  <2> QED BY <2>1, <2>2
<1>4. ASSUME NEW d \in Client, RemoveSession("lobby", d)
      PROVE  \E n \in DOMAIN q : q[n] = r[i]
  <2>1. PICK f \in [DOMAIN r -> DOMAIN q] :
          /\ \A n \in DOMAIN r : r[n] = q[f[n]] /\ r[n].client # d
          /\ \A m, n \in DOMAIN r : m < n => f[m] < f[n]
          /\ \A n \in DOMAIN q : q[n].client # d => \E m \in DOMAIN r : f[m] = n
    BY <1>1, <1>4, Removed
  <2> QED BY <2>1
<1>5. ASSUME NEW d \in Client, Join("login", d) \/ RemoveSession("login", d)
      PROVE  r = q
  BY <1>1, <1>5 DEF Join, RemoveSession
<1>6. ASSUME NEW d \in Client, NEW id \in Id, LoginReqLogIn(d, id)
      PROVE  r = q
  BY <1>1, <1>6 DEF LoginReqLogIn, SetSession
<1>7. AckUserLogin => r = q
  BY <1>1 DEF AckUserLogin, SetSession
<1>8. ASSUME NEW s \in Server, Restart(s)
      PROVE  r = q
  BY <1>1, <1>8 DEF Restart
<1>9. ASSUME NEW c \in Client, NEW id \in Name, NEW k \in AnyKey, LobbyReqLogIn(c, id, k)
      PROVE  \/ \E n \in DOMAIN q : q[n] = r[i]
             \/ /\ toCertify' = [toCertify EXCEPT !["lobby"] = Append(@, UserMoveMsg(id))]
                /\ r[i].name = id
  <2> DEFINE e == LoggedInAs(c, id, k)
             w == [client |-> c, state |-> "wait", name |-> id, key |-> NoKey]
  <2>1. /\ e \in Session /\ w \in Session /\ [NewSession(c) EXCEPT !.name = id] = w
        /\ w.state = "wait" /\ e.name = id
    BY Entries DEF LoggedInAs
  <2>2. \/ sessions' = sessions \/ SetSession("lobby", w)
        \/ /\ SetSession("lobby", e)
           /\ toCertify' = [toCertify EXCEPT !["lobby"] = Append(@, UserMoveMsg(id))]
    BY <1>9, <2>1 DEF LobbyReqLogIn
  <2> HIDE DEF e, w
  <2>3. \A x \in Session : SetSession("lobby", x) =>
          /\ DOMAIN r = DOMAIN q
          /\ \A n \in DOMAIN q : r[n] = IF q[n].client = x.client THEN x ELSE q[n]
    BY <1>1, Replaced
  <2> QED BY <2>1, <2>2, <2>3
<1> QED BY <1>2, <1>3, <1>4, <1>5, <1>6, <1>7, <1>8, <1>9, SessionsFrame DEF Server

LEMMA HeardStep ==
  ASSUME TypeOK, JoinsFirst, RequestsApart, LobbyHeard, [Next]_vars
  PROVE  LobbyHeard'
<1> DEFINE q == toCertify["lobby"]
           r == toCertify'["lobby"]
           Known(id) == \/ ~certifyUp
                        \/ located[id] = "lobby" /\ NoneGone(q)
                        \/ HeardFrom(q, id)
<1>0. /\ toCertify \in [Server -> Seq(CertifyMsg)] /\ q \in Seq(CertifyMsg)
      /\ "lobby" \in Server /\ "login" \in Server
      /\ located \in [Name -> Server \cup {"none"}]
  BY DEF TypeOK, Server
<1> SUFFICES ASSUME NEW i \in DOMAIN sessions'["lobby"], sessions'["lobby"][i].state = "in"
             PROVE  \/ ~certifyUp'
                    \/ located'[sessions'["lobby"][i].name] = "lobby" /\ NoneGone(r)
                    \/ HeardFrom(r, sessions'["lobby"][i].name)
  BY DEF LobbyHeard, LoggedIn, SenderIsUp, NoneGone
<1> DEFINE id == sessions'["lobby"][i].name
           Told1 == \/ ~certifyUp'
                    \/ located'[id] = "lobby" /\ NoneGone(r)
                    \/ HeardFrom(r, id)
<1>1. id \in Name
  <2>1. sessions'["lobby"] \in Seq(Session)
    BY <1>0, TableStep
  <2>2. sessions'["lobby"][i] \in Session
    BY <2>1
  <2> QED BY <2>2 DEF Session
<1>2. ASSUME NEW c \in Client, NEW k \in AnyKey, LobbyReqLogIn(c, id, k),
             toCertify' = [toCertify EXCEPT !["lobby"] = Append(@, UserMoveMsg(id))]
      PROVE  Told1
  <2>1. r = Append(q, UserMoveMsg(id)) /\ UserMoveMsg(id) \in CertifyMsg
    BY <1>0, <1>1, <1>2, Packets
  <2> HIDE DEF id
  <2> QED BY <1>0, <2>1, HeardSteps
<1>3. ASSUME Known(id)
      PROVE  Told1
  <2> HIDE DEF id
  <2>1. CASE UNCHANGED <<located, certifyUp>> /\ r = q
    BY <1>3, <2>1
  <2>2. ASSUME NEW m \in CertifyMsg, m # GoneMsg, r = Append(q, m), UNCHANGED <<located, certifyUp>>
        PROVE  Told1
    BY <1>0, <1>3, <2>2, HeardSteps
  <2>3. ASSUME NEW c \in Client, NEW d \in Id, LoginReqLogIn(c, d)
        PROVE  UNCHANGED <<located, certifyUp>> /\ r = q
    BY <1>0, <2>3 DEF LoginReqLogIn, certify
  <2>4. ASSUME NEW c \in Client, NEW d \in Name, NEW k \in AnyKey, LobbyReqLogIn(c, d, k)
        PROVE  Told1
    <3>1. UserMoveMsg(d) \in CertifyMsg /\ UserMoveMsg(d) # GoneMsg
      BY Packets DEF UserMoveMsg, GoneMsg
    <3>2. /\ UNCHANGED <<located, certifyUp>>
          /\ r = q \/ r = Append(q, UserMoveMsg(d))
      BY <1>0, <2>4 DEF LobbyReqLogIn, certify
    <3> QED BY <2>1, <2>2, <3>1, <3>2
  <2>5. ASSUME NEW d \in Id, ReqUserLogin("login", d)
        PROVE  Told1
    <3>1. /\ r = q /\ certifyUp' = certifyUp
          /\ located[id] = "lobby" => located'[id] = "lobby"
      BY <1>0, <1>1, <2>5 DEF ReqUserLogin, CertifyGets
    <3> QED BY <1>3, <3>1
  <2>6. ASSUME NEW d \in Id, ReqUserLogin("lobby", d)
        PROVE  Told1
    <3>1. /\ q # <<>> /\ r = Tail(q) /\ Head(q) = UserLoginMsg(d) /\ certifyUp' = certifyUp
          /\ located[id] = "lobby" => located'[id] = "lobby"
      BY <1>0, <1>1, <2>6 DEF ReqUserLogin, CertifyGets
    <3>2. UserLoginMsg(d) # UserMoveMsg(id)
      BY DEF UserLoginMsg, UserMoveMsg
    <3> QED BY <1>0, <1>3, <3>1, <3>2, HeardSteps
  <2>7. ASSUME NEW d \in Name, ReqUserMoveServer("login", d)
        PROVE  FALSE
    <3>1. /\ toCertify["login"] # <<>> /\ Head(toCertify["login"]) = UserMoveMsg(d)
          /\ toCertify["login"] \in Seq(CertifyMsg)
      BY <1>0, <2>7 DEF ReqUserMoveServer, CertifyGets
    <3>2. 1 \in DOMAIN toCertify["login"] /\ toCertify["login"][1].type = "usermove"
      BY <3>1, QueueSteps DEF UserMoveMsg
    <3> QED BY <3>2 DEF RequestsApart
  <2>8. ASSUME NEW d \in Name, ReqUserMoveServer("lobby", d)
        PROVE  Told1
    <3>1. /\ q # <<>> /\ r = Tail(q) /\ Head(q) = UserMoveMsg(d)
          /\ \/ certifyUp' = FALSE
             \/ /\ certifyUp' = certifyUp /\ located'[d] = "lobby"
                /\ located[id] = "lobby" => located'[id] = "lobby"
      BY <1>0, <1>1, <2>8 DEF ReqUserMoveServer, CertifyGets
    <3>2. UserMoveMsg(d) = UserMoveMsg(id) => d = id
      BY DEF UserMoveMsg
    <3> QED BY <1>0, <1>3, <3>1, <3>2, HeardSteps
  <2>9. ASSUME OnServerLeave("login")
        PROVE  Told1
    <3>1. /\ r = q /\ certifyUp' = certifyUp
          /\ located[id] = "lobby" => located'[id] = "lobby"
      BY <1>0, <1>1, <2>9 DEF OnServerLeave, CertifyGets, LogoutOf
    <3> QED BY <1>3, <3>1
  <2>10. ASSUME OnServerLeave("lobby")
         PROVE  Told1
    <3>1. q # <<>> /\ r = Tail(q) /\ Head(q) = GoneMsg /\ certifyUp' = certifyUp
      BY <1>0, <2>10 DEF OnServerLeave, CertifyGets
    <3>2. UserMoveMsg(id) # GoneMsg
      BY DEF UserMoveMsg, GoneMsg
    <3> QED BY <1>0, <1>3, <3>1, <3>2, HeardSteps
  <2>11. ASSUME NEW s \in Server, Restart(s)
         PROVE  UNCHANGED <<located, certifyUp>> /\ r = q
    <3>1. s # "lobby"
      BY <2>11 DEF Restart, TypeOK, Server
    <3> QED BY <1>0, <2>11, <3>1 DEF Restart, certify, Server
  <2> QED
    BY <2>1, <2>3, <2>4, <2>5, <2>6, <2>7, <2>8, <2>9, <2>10, <2>11, CertifyFrame
       DEF CertifyHandles, Server
<1>4. \A n \in LoggedIn("lobby") : Known(sessions["lobby"][n].name)
  BY DEF LobbyHeard, SenderIsUp, NoneGone
<1> QED BY <1>2, <1>3, <1>4, LobbyChange

-----------------------------------------------------------------------------
(* What follows.                                                           *)

LEMMA InitInv == Init => Inv
<1> SUFFICES ASSUME Init
             PROVE  Inv
  OBVIOUS
<1>1. TypeOK
  BY InitTypeOK, LobbyConstants
<1>2. /\ sessions = [s \in Server |-> <<>>] /\ toCertify = [s \in Server |-> <<>>]
      /\ up = [s \in Server |-> [c \in Client |-> <<>>]] /\ down = [c \in Client |-> <<>>]
      /\ at = [c \in Client |-> "out"] /\ move = [c \in Client |-> "end"]
      /\ "login" \in Server /\ "lobby" \in Server
  BY DEF Init, Server
<1>3. \A s \in Server : sessions[s] = <<>> /\ DOMAIN sessions[s] = {}
  BY <1>2
<1>4. \A s \in Server, c \in Client : up[s][c] = <<>> /\ DOMAIN up[s][c] = {}
  BY <1>2
<1>5. LoggedIn("login") = {} /\ LoggedIn("lobby") = {}
  BY <1>2, <1>3 DEF LoggedIn
<1>6. LoginNamed /\ LoginIsFound /\ KeysAgree /\ LobbyHeard
  BY <1>5 DEF LoginNamed, LoginIsFound, KeysAgree, LobbyHeard
<1>7. RequestsApart
  BY <1>2 DEF RequestsApart
<1>8. OneSession /\ JoinsFirst
  BY <1>3, <1>4 DEF OneSession, JoinsFirst
<1>9. Strangers
  BY <1>2, <1>3, <1>4 DEF Strangers, NotThere, HasSession
<1>10. MovesFromLogin
  BY <1>2 DEF MovesFromLogin
<1> QED BY <1>1, <1>6, <1>7, <1>8, <1>9, <1>10 DEF Inv

LEMMA Invariant == Spec => []Inv
<1>1. Init => Inv
  BY InitInv
<1>2. Inv /\ [Next]_vars => Inv'
  <2> SUFFICES ASSUME Inv, [Next]_vars
               PROVE  Inv'
    OBVIOUS
  <2>1. TypeOK'
    BY TypeStep, LobbyConstants DEF Inv
  <2>2. OneSession' /\ JoinsFirst' /\ Strangers' /\ MovesFromLogin'
    BY OneSessionStep, JoinsFirstStep, StrangersStep, MovesFromLoginStep DEF Inv
  <2>3. LoginNamed' /\ LoginIsFound'
    BY LoginStep DEF Inv
  <2>4. KeysAgree'
    BY KeysStep DEF Inv
  <2>5. RequestsApart' /\ LobbyHeard'
    BY RequestsStep, HeardStep DEF Inv
  <2> QED BY <2>1, <2>2, <2>3, <2>4, <2>5 DEF Inv
<1> QED BY <1>1, <1>2, PTL DEF Spec

\* Every variable stays in its type; in particular the lobby is only told of
\* users that have a name and a key that was written.
THEOREM TypeCorrect == Spec => []TypeOK
<1>1. Inv => TypeOK
  BY DEF Inv
<1> QED BY <1>1, Invariant, PTL

\* An answer that names a user who is logged in at the login server reaches the
\* session of that user: GetSession of the name finds it first.
THEOREM LoginFound == Spec => []LoginIsFound
<1>1. Inv => LoginIsFound
  BY DEF Inv
<1> QED BY <1>1, Invariant, PTL

\* The login server never has one id logged in twice.
THEOREM OneLogin == Spec => []OneLoginPerId
<1>1. Inv => OneLoginPerId
  <2> SUFFICES ASSUME Inv, NEW i \in LoggedIn("login"), NEW j \in LoggedIn("login"),
                      sessions["login"][i].name = sessions["login"][j].name
               PROVE  i = j
    BY DEF OneLoginPerId
  <2>1. /\ sessions["login"] \in Seq(Session)
        /\ i \in DOMAIN sessions["login"] /\ j \in DOMAIN sessions["login"]
    BY DEF Inv, TypeOK, Server, LoggedIn
  <2>2. /\ i \in First(sessions["login"], sessions["login"][i].name)
        /\ j \in First(sessions["login"], sessions["login"][j].name)
    BY DEF Inv, LoginIsFound, SessionNamed
  <2>3. ~(i < j) /\ ~(j < i)
    BY <2>1, <2>2, FirstIs
  <2> QED BY <2>1, <2>3
<1> QED BY <1>1, Invariant, PTL

\* The key the login server announces a user with is the one its client will
\* present at the lobby.
THEOREM KeysAgreeAlways == Spec => []KeysAgree
<1>1. Inv => KeysAgree
  BY DEF Inv
<1> QED BY <1>1, Invariant, PTL

\* Whoever is logged in at the lobby is located there by the certify server, or
\* the word of it is under way, whichever servers restarted in between.
THEOREM LobbyLocated == Spec => []LobbyIsLocated
<1>1. Inv => LobbyIsLocated
  BY DEF Inv, LobbyHeard, LobbyIsLocated, HeardFrom
<1> QED BY <1>1, Invariant, PTL
=============================================================================
