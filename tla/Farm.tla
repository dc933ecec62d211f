--------------------------------- MODULE Farm ---------------------------------
(***************************************************************************)
(* A farm of servers: the farm server (CFarmServer with its groups and     *)
(* CRemoteSubServer sessions) and the sub servers (CFarmServerPlug and     *)
(* its CMultiPlugs) that ask it which ports to bind and whom to connect    *)
(* to.                                                                     *)
(*                                                                         *)
(* Every process handles its packets on one logic thread, so a handler is  *)
(* one step.  What is hard is the order in which the farm hears of sub     *)
(* servers that start, bind and die independently: a client of a server    *)
(* learns of it either from the list it asks for or from the notice the    *)
(* farm sends when the server has bound.                                   *)
(*                                                                         *)
(* Sub servers are on one machine.  All processes of one kind have the     *)
(* same configuration, and every kind has a group in the farm's.           *)
(***************************************************************************)
EXTENDS Naturals, Sequences, FiniteSets, Functions, Queues

CONSTANTS
  Server,    \* the processes of sub servers; a restart is another process
  Type,      \* the server types, CSubServerGroup::GetSvrType
  TypeOf,    \* the type of every sub server
  Inputs,    \* the types a type connects to, in configuration order, each once
  Outputs,   \* the types that connect to a type, likewise
  Client,    \* "client", the plug of the outer port
  Taken,     \* the ports other programs hold, by a plug whose range they are in
  Garbage,   \* what an m_ServerPort that was never written may hold
  MaxCrash   \* how many sub servers may die (a bound)

ASSUME FarmConstants ==
  /\ TypeOf \in [Server -> Type]
  /\ Inputs \in [Type -> Seq(Type)] /\ Outputs \in [Type -> Seq(Type)]
  /\ \A t \in Type : IsInjective(Inputs[t]) /\ IsInjective(Outputs[t])
  /\ \A t, u \in Type : u \in Range(Inputs[t]) <=> t \in Range(Outputs[u])
  /\ \A t \in Type : Range(Inputs[t]) \cap Range(Outputs[t]) = {}
  /\ Client \notin Type
  /\ Taken \subseteq (Type \cup {Client}) \X Nat
  /\ Garbage \subseteq Nat
  /\ MaxCrash \in Nat

VARIABLES
  life,     \* of every sub server: not started, running or dead
  members,  \* the players of every group of the farm server, in order
  port,     \* of every session of the farm: m_ServerPort of its output links,
            \* and m_OuterPort as that of Client
  ready,    \* the output links in state CONNECT
  reached,  \* the input links in state CONNECT
  plug,     \* CMultiPlug::m_State, by the type it is linked to
  bound,    \* the ports a sub server listens on, by plug
  conns,    \* the connections of a sub server: <<server, plug of it>>
  asked,    \* history: the input links a sub server asked a list for
  toFarm,   \* packets on their way to the farm server
  toSub     \* packets on their way to the sub servers

farmVars == <<members, port, ready, reached>>
subVars == <<life, plug, bound, conns, asked>>
vars == <<farmVars, subVars, toFarm, toSub>>

InputTypes(s) == Range(Inputs[TypeOf[s]])
OutputTypes(s) == Range(Outputs[TypeOf[s]])
ServerPlugs(s) == OutputTypes(s) \cup {Client}
On(s) == life[s] = "on"

-----------------------------------------------------------------------------
(* The protocol farm.                                                      *)

LoginMsg == [type |-> "login"]
LinksMsg == [type |-> "links"]
InfoListMsg(x) == [type |-> "infolist", plug |-> x]
BindPortMsg(x) == [type |-> "bindport", plug |-> x]
BindDoneMsg(x) == [type |-> "binddone", plug |-> x]
ConnDoneMsg(x) == [type |-> "conndone", plug |-> x]

AckLoginMsg == [type |-> "acklogin"]
AckLinksMsg == [type |-> "acklinks"]
AckPortMsg(x, n) == [type |-> "ackport", plug |-> x, port |-> n]
\* AckServerInfoList has all ports at once, BindSubServer one.
HostsMsg(x, ns) == [type |-> "hosts", plug |-> x, ports |-> ns]

FarmMsg ==
  {LoginMsg, LinksMsg}
  \cup [type : {"infolist", "conndone"}, plug : Type]
  \cup [type : {"bindport", "binddone"}, plug : Type \cup {Client}]

SubMsg ==
  {AckLoginMsg, AckLinksMsg}
  \cup [type : {"ackport"}, plug : Type \cup {Client}, port : Nat]
  \cup [type : {"hosts"}, plug : Type, ports : SUBSET Nat]

FarmGets(s, m) == /\ toFarm[s] # <<>> /\ Head(toFarm[s]) = m
                  /\ toFarm' = [toFarm EXCEPT ![s] = Tail(@)]

Reply(s, m) == toSub' = [toSub EXCEPT ![s] = Append(@, m)]

SubGets(s, m) == /\ On(s) /\ toSub[s] # <<>> /\ Head(toSub[s]) = m
                 /\ toSub' = [toSub EXCEPT ![s] = Tail(@)]

SendFarm(s, ms) == toFarm' = [toFarm EXCEPT ![s] = @ \o ms]

-----------------------------------------------------------------------------
(* The farm server.                                                        *)

\* ReqSubServerLogin: from the waiting group to the group of its type.
Login(s) ==
  /\ FarmGets(s, LoginMsg)
  /\ members' = [members EXCEPT ![TypeOf[s]] = Append(@, s)]
  /\ Reply(s, AckLoginMsg)
  /\ UNCHANGED <<port, ready, reached, subVars>>

\* SendSubServerP2PCLink to SendSubServerOutputLink, which a sub server sends
\* together and of which only the last answer has an effect.  The ports of the
\* new links are not written.
SetLinks(s) ==
  /\ FarmGets(s, LinksMsg)
  /\ \E g \in [OutputTypes(s) -> Garbage] :
       port' = [port EXCEPT ![s] =
                  [x \in ServerPlugs(s) |-> IF x = Client THEN @[x] ELSE g[x]]]
  /\ ready' = [ready EXCEPT ![s] = {}]
  /\ reached' = [reached EXCEPT ![s] = {}]
  /\ Reply(s, AckLinksMsg)
  /\ UNCHANGED <<members, subVars>>

\* Mutant: the list holds the links that are still to be bound as well.
AllHostsFor(t, u) ==
  {port[r][u] : r \in {m \in Range(members[t]) : u \in DOMAIN port[m]}}

\* The ports where servers of type t wait for clients of type u.
HostsFor(t, u) ==
  {port[r][u] : r \in {m \in Range(members[t]) : u \in ready[m]}}

ReqServerInfoList(s, x) ==
  /\ FarmGets(s, InfoListMsg(x))
  /\ Reply(s, HostsMsg(x, HostsFor(x, TypeOf[s])))
  /\ UNCHANGED <<farmVars, subVars>>

\* The ports a sub server holds in the range that plug x takes its port from.
Held(r, x) == {port[r][y] : y \in {z \in DOMAIN port[r] : (z = Client) = (x = Client)}}

\* GetToBindInnerPort and GetToBindOuterPort of a sub server: the first port
\* from n that it does not hold itself.
NextPort(r, x, n) ==
  CHOOSE k \in n..(n + Cardinality(Held(r, x))) :
    k \notin Held(r, x) /\ \A j \in n..(k - 1) : j \in Held(r, x)

\* The port of the group: each member in turn is asked for the next one, from
\* the port the member before it gave; no member is asked again.
PortAfter(q, x) ==
  LET pass[i \in 0..Len(q)] == IF i = 0 THEN 1 ELSE NextPort(q[i], x, pass[i - 1])
  IN pass[Len(q)]

\* ReqToBindInnerPort, ReqToBindOuterPort
ReqToBindPort(s, x) ==
  /\ FarmGets(s, BindPortMsg(x))
  /\ LET n == PortAfter(members[TypeOf[s]], x)
     IN /\ port' = [port EXCEPT ![s][x] = n]
        /\ Reply(s, AckPortMsg(x, n))
  /\ UNCHANGED <<members, ready, reached, subVars>>

\* Mutant: the servers s connects to are told, not those that connect to it.
BindSubServerInputs(s, x, c) == \E t \in InputTypes(s) : c \in Range(members[t])

\* Whom BindSubServer tells that plug x of s is bound: the members of every
\* group s has an output link to, also those for which x is not.
BindSubServer(s, x, c) == \E t \in OutputTypes(s) : c \in Range(members[t])

\* Mutant: the outer port is taken for one more output link.
BindCompleteAnyPlug(s, x) ==
  /\ FarmGets(s, BindDoneMsg(x))
  /\ ready' = [ready EXCEPT ![s] = @ \cup {x}]
  /\ UNCHANGED <<members, port, reached, subVars, toSub>>

\* ReqSubServerBindComplete
ReqSubServerBindComplete(s, x) ==
  /\ FarmGets(s, BindDoneMsg(x))
  /\ ready' = [ready EXCEPT ![s] = @ \cup ({x} \ {Client})]
  /\ toSub' = [c \in Server |->
                 IF x # Client /\ BindSubServer(s, x, c)
                 THEN Append(toSub[c], HostsMsg(TypeOf[s], {port[s][x]}))
                 ELSE toSub[c]]
  /\ UNCHANGED <<members, port, reached, subVars>>

ReqSubClientConnectComplete(s, x) ==
  /\ FarmGets(s, ConnDoneMsg(x))
  /\ reached' = [reached EXCEPT ![s] = @ \cup ({x} \cap InputTypes(s))]
  /\ UNCHANGED <<members, port, ready, subVars, toSub>>

\* The session of a dead sub server leaves; what it had sent and the farm has
\* not handled yet may be lost.
Leave(s) ==
  /\ life[s] = "dead"
  /\ members' = [members EXCEPT ![TypeOf[s]] = Kept(@, {i \in DOMAIN @ : @[i] # s})]
  /\ port' = [port EXCEPT ![s] = [x \in {Client} |-> 0]]
  /\ ready' = [ready EXCEPT ![s] = {}]
  /\ reached' = [reached EXCEPT ![s] = {}]
  /\ toFarm' = [toFarm EXCEPT ![s] = <<>>]
  /\ toSub' = [toSub EXCEPT ![s] = <<>>]
  /\ life' = [life EXCEPT ![s] = "gone"]
  /\ UNCHANGED <<plug, bound, conns, asked>>

-----------------------------------------------------------------------------
(* The sub servers.                                                        *)

Init ==
  /\ life = [s \in Server |-> "off"]
  /\ members = [t \in Type |-> <<>>]
  /\ port = [s \in Server |-> [x \in {Client} |-> 0]]
  /\ ready = [s \in Server |-> {}]
  /\ reached = [s \in Server |-> {}]
  /\ plug = [s \in Server |-> [x \in InputTypes(s) \cup ServerPlugs(s) |-> "wait"]]
  /\ bound = [s \in Server |-> <<>>]
  /\ conns = [s \in Server |-> {}]
  /\ asked = [s \in Server |-> {}]
  /\ toFarm = [s \in Server |-> <<>>]
  /\ toSub = [s \in Server |-> <<>>]

\* CMultiNetwork::Start: the process starts and connects to the farm server.
Start(s) ==
  /\ life[s] = "off"
  /\ life' = [life EXCEPT ![s] = "on"]
  /\ SendFarm(s, <<LoginMsg>>)
  /\ UNCHANGED <<farmVars, plug, bound, conns, asked, toSub>>

AckSubServerLogin(s) ==
  /\ SubGets(s, AckLoginMsg)
  /\ SendFarm(s, <<LinksMsg>>)
  /\ UNCHANGED <<farmVars, subVars>>

\* The plugs ConnectSubController goes on with: those not connected yet.
Unconnected(s, q) == Kept(q, {i \in DOMAIN q : plug[s][q[i]] = "wait"})

\* AckSendSubServerOutputLink: ConnectLink.
ConnectLink(s) ==
  /\ SubGets(s, AckLinksMsg)
  /\ LET ins == Unconnected(s, Inputs[TypeOf[s]])
         outs == Unconnected(s, Append(Outputs[TypeOf[s]], Client))
     IN /\ plug' = [plug EXCEPT ![s] =
                      [x \in DOMAIN @ |-> IF @[x] = "wait" THEN "try" ELSE @[x]]]
        /\ asked' = [asked EXCEPT ![s] = Range(ins)]
        /\ SendFarm(s, [i \in DOMAIN ins |-> InfoListMsg(ins[i])]
                       \o [i \in DOMAIN outs |-> BindPortMsg(outs[i])])
  /\ UNCHANGED <<farmVars, life, bound, conns>>

\* The plugs, with their process, that listen on port n of the range of type t
\* that plug x takes its ports from.
Listeners(t, x, n) ==
  {c \in {s \in Server : On(s) /\ TypeOf[s] = t} \X (Type \cup {Client}) :
     /\ c[2] \in DOMAIN bound[c[1]] /\ bound[c[1]][c[2]] = n
     /\ (c[2] = Client) = (x = Client)}

CanBind(s, x, n) == Listeners(TypeOf[s], x, n) = {} /\ <<x, n>> \notin Taken

\* AckToBindInnerPort, AckToBindOuterPort: StartServer, and OnConnectLink when
\* the server listens.  A port that another process has cannot be bound; then
\* nothing happens, and nothing is tried again.
AckToBindPort(s, x, n) ==
  /\ SubGets(s, AckPortMsg(x, n))
  /\ \/ /\ CanBind(s, x, n)
        /\ bound' = [bound EXCEPT ![s] =
                       [y \in DOMAIN @ \cup {x} |-> IF y = x THEN n ELSE @[y]]]
        /\ plug' = [plug EXCEPT ![s][x] = "run"]
        /\ SendFarm(s, <<BindDoneMsg(x)>>)
     \/ /\ ~CanBind(s, x, n)
        /\ UNCHANGED <<plug, bound, toFarm>>
  /\ UNCHANGED <<farmVars, life, conns, asked>>

\* AckServerInfoList, BindSubServer: a core client for every host, and
\* OnConnectLink when one connects.  A host that nobody listens on any more is
\* not tried again.  A host may be connected to twice, which is not kept here.
ConnectHosts(s, x, ns) ==
  /\ SubGets(s, HostsMsg(x, ns))
  /\ LET hosts == UNION {Listeners(x, x, n) : n \in ns}
     IN \/ /\ hosts # {}
           /\ conns' = [conns EXCEPT ![s] = @ \cup hosts]
           /\ plug' = [plug EXCEPT ![s][x] = "run"]
           /\ SendFarm(s, <<ConnDoneMsg(x)>>)
        \/ /\ hosts = {}
           /\ UNCHANGED <<conns, plug, toFarm>>
  /\ UNCHANGED <<farmVars, life, bound, asked>>

\* A sub server dies; the connections to it end.
Die(s) ==
  /\ On(s) /\ Cardinality({r \in Server : life[r] \in {"dead", "gone"}}) < MaxCrash
  /\ life' = [life EXCEPT ![s] = "dead"]
  /\ bound' = [bound EXCEPT ![s] = <<>>]
  /\ conns' = [r \in Server |-> IF r = s THEN {} ELSE {c \in conns[r] : c[1] # s}]
  /\ UNCHANGED <<farmVars, plug, asked, toFarm, toSub>>

-----------------------------------------------------------------------------
FarmHandles(s) ==
  \/ Login(s) \/ SetLinks(s) \/ Leave(s)
  \/ \E x \in Type \cup {Client} :
       \/ ReqServerInfoList(s, x) \/ ReqToBindPort(s, x)
       \/ ReqSubServerBindComplete(s, x) \/ ReqSubClientConnectComplete(s, x)

SubHandles(s) ==
  \/ AckSubServerLogin(s) \/ ConnectLink(s)
  \/ \E m \in Range(toSub[s]) :
       \/ m.type = "ackport" /\ AckToBindPort(s, m.plug, m.port)
       \/ m.type = "hosts" /\ ConnectHosts(s, m.plug, m.ports)

Next == \E s \in Server : Start(s) \/ Die(s) \/ FarmHandles(s) \/ SubHandles(s)

Spec == Init /\ [][Next]_vars

\* The logic threads of the farm server and of every sub server handle what
\* they receive.  Whether a sub server is started is up to its operator.
FairSpec ==
  /\ Spec
  /\ WF_vars(\E s \in Server : FarmHandles(s))
  /\ \A s \in Server : WF_vars(SubHandles(s))

-----------------------------------------------------------------------------
TypeOK ==
  /\ life \in [Server -> {"off", "on", "dead", "gone"}]
  /\ members \in [Type -> Seq(Server)]
  /\ \A s \in Server :
       /\ DOMAIN port[s] \in {{Client}, ServerPlugs(s)}
       /\ Range(port[s]) \subseteq Nat
       /\ ready[s] \subseteq DOMAIN port[s] \ {Client}
       /\ reached[s] \subseteq InputTypes(s)
       /\ plug[s] \in [InputTypes(s) \cup ServerPlugs(s) -> {"wait", "try", "run"}]
       /\ DOMAIN bound[s] \subseteq ServerPlugs(s) /\ Range(bound[s]) \subseteq Nat
       /\ conns[s] \subseteq Server \X (Type \cup {Client})
       /\ asked[s] \subseteq InputTypes(s)
       /\ toFarm[s] \in Seq(FarmMsg) /\ toSub[s] \in Seq(SubMsg)

\* What the farm server holds and hands out is true of the sub servers: a link
\* it counts as bound is bound, at the port it has, and every port on its way
\* to a client is one a server of that type listens on, or one has died.
AnnouncedAreBound ==
  /\ \A s \in Server : On(s) =>
       \A x \in ready[s] : x \in DOMAIN bound[s] /\ bound[s][x] = port[s][x]
  /\ \A c \in Server : \A m \in Range(toSub[c]) : m.type = "hosts" =>
       \A n \in m.ports : \E r \in Server :
         /\ TypeOf[r] = m.plug
         /\ life[r] \in {"dead", "gone"} \/ (On(r) /\ n \in Range(bound[r]))

\* The pairs of a client and a server of it.
Linked == {l \in Server \X Server : TypeOf[l[2]] \in InputTypes(l[1])}

Connected(c, s) == \E x \in Type : <<s, x>> \in conns[c]

\* A sub server that asked for a list of servers ends up connected to each of
\* them that is ever bound for it, whether it was bound before the list was
\* made or after, unless one of the two dies.
AskedAreConnected ==
  \A l \in Linked :
    (TypeOf[l[2]] \in asked[l[1]] /\ TypeOf[l[1]] \in ready[l[2]])
      ~> (Connected(l[1], l[2]) \/ ~On(l[1]) \/ ~On(l[2]))

=============================================================================
