------------------------------ MODULE GroupTree ------------------------------
(***************************************************************************)
(* The groups of one server: the tree of CGroup under                      *)
(* CServerBasic::m_RootGroup, how sessions enter and leave it, and the     *)
(* requests of the clients that change it (CBasicC2SHandler).  All of it   *)
(* runs on the logic thread, one packet at a time, so each handler is one  *)
(* step; what is hard is the order of the requests.                        *)
(*                                                                         *)
(* A group lists its own players and those of every group below it:        *)
(* AddPlayer and RemovePlayer climb from a group to the root.  A request   *)
(* that is refused changes nothing and is not a step here.                 *)
(***************************************************************************)
EXTENDS FiniteSets

CONSTANTS
  Player,   \* the netids of the sessions; each joins the server once
  Group,    \* the netids of groups, as many as may be created (a bound)
  Root,     \* CServerBasic::m_RootGroup
  Wait,     \* the "Waiting Group", m_WaitGroupId
  NoGroup   \* no parent

ASSUME GroupConstants ==
  /\ Root \in Group /\ Wait \in Group /\ Root # Wait
  /\ NoGroup \notin Group

VARIABLES
  sessions,  \* the sessions that joined and have not left
  arrived,   \* history: the sessions that ever joined
  parent,    \* CGroup::m_pParent of every group in the tree
  players,   \* CGroup::m_Players
  viewers,   \* CGroup::m_Viewers
  moved,     \* history: the move the last step made, [who, to], or NoMove
  told       \* history: the players the announcements of the last step reach

treeVars == <<sessions, arrived, parent, players, viewers, moved, told>>

groups == DOMAIN parent

NoMove == <<>>

\* The function f with v for x, a new argument.
Extend(f, x, v) == [y \in DOMAIN f \cup {x} |-> IF y = x THEN v ELSE f[y]]

-----------------------------------------------------------------------------
(* The tree.  par is the parent function, pl the players of every group.   *)

\* The groups from g up to the root, as GetParent() visits them: the smallest
\* set that holds g and the parent of each of its groups.
UpClosed(par, S) == \A h \in S : par[h] \in DOMAIN par => par[h] \in S

Line(par, g) ==
  {a \in DOMAIN par :
     \A S \in SUBSET DOMAIN par : g \in S /\ UpClosed(par, S) => a \in S}

Children(par, g) == {c \in DOMAIN par : par[c] = g}

\* The groups a climb from g passes on its way to a, both included.
Passed(par, g, a) == {b \in Line(par, g) : a \in Line(par, b)}

\* The climb stops at the first group that has the player already.
AddPlayerNApplyParent(par, pl, g, p) ==
  [a \in DOMAIN pl |->
     IF a \in Line(par, g) /\ \A b \in Passed(par, g, a) : p \notin pl[b]
     THEN pl[a] \cup {p} ELSE pl[a]]

\* Mutant: the player is taken out of its own group only.
RemovePlayerHere(par, pl, g, p) == [pl EXCEPT ![g] = @ \ {p}]

\* The climb stops at the first group that does not have the player.
RemovePlayerNApplyParent(par, pl, g, p) ==
  [a \in DOMAIN pl |->
     IF a \in Line(par, g) /\ \A b \in Passed(par, g, a) : p \in pl[b]
     THEN pl[a] \ {p} ELSE pl[a]]

\* What GetChildFromPlayer returns on the root: the group reached by going
\* down, child by child, as long as a child lists the player.
PlacesOf(p) ==
  {g \in groups : /\ \A a \in Line(parent, g) : p \in players[a]
                  /\ \A c \in Children(parent, g) : p \notin players[c]}

\* Mutant: the players of a group do not keep it from having children.
NeverTerminal(g) == FALSE

IsTerminal(g) == Children(parent, g) = {} /\ players[g] # {}

-----------------------------------------------------------------------------
(* Whom a packet sent to group g with SEND_T_V reaches: its own players,   *)
(* and for each of its viewers the players of the leaves below the viewer, *)
(* except those below g.                                                   *)

Leaves(par, v) ==
  {l \in DOMAIN par : Children(par, l) = {} /\ v \in Line(par, l)}

\* Mutant: only the leaves right below the viewer.
SendViewerFlat(par, pl, v, g) ==
  UNION {pl[l] : l \in {k \in Leaves(par, v) : par[k] = v /\ k # g}}

SendViewerRecursive(par, pl, v, g) ==
  UNION {pl[l] : l \in {k \in Leaves(par, v) :
                          ~(g \in Line(par, k) /\ v \in Line(par, g))}}

SendTargetViewer(par, pl, vw, g) ==
  pl[g] \cup UNION {SendViewerRecursive(par, pl, v, g) : v \in vw[g]}

-----------------------------------------------------------------------------
TreeInit ==
  /\ sessions = {} /\ arrived = {}
  /\ parent = [g \in {Root, Wait} |-> IF g = Wait THEN Root ELSE NoGroup]
  /\ players = [g \in {Root, Wait} |-> {}]
  /\ viewers = [g \in {Root, Wait} |-> IF g = Wait THEN {Root} ELSE {}]
  /\ moved = NoMove /\ told = {}

\* A session joins: it goes to the waiting group.
AddSession(p) ==
  /\ p \notin arrived
  /\ arrived' = arrived \cup {p}
  /\ sessions' = sessions \cup {p}
  /\ players' = AddPlayerNApplyParent(parent, players, Wait, p)
  /\ moved' = NoMove /\ told' = {}
  /\ UNCHANGED <<parent, viewers>>

\* A session leaves: marked by the dispatch of its CLIENT_DISCONNECT, taken out
\* of its group by the main loop, which runs before the next dispatch
\* (ServerBasicProofs!RemovalsPending).
LeaveServer(p) ==
  /\ p \in sessions
  /\ sessions' = sessions \ {p}
  /\ players' \in
       IF PlacesOf(p) = {} THEN {players}
       ELSE {RemovePlayerNApplyParent(parent, players, g, p) : g \in PlacesOf(p)}
  /\ moved' = NoMove /\ told' = {}
  /\ UNCHANGED <<arrived, parent, viewers>>

\* Player p, in group from, asks to join group to.
ReqGroupJoin(p, from, to) ==
  /\ p \in sessions /\ from \in PlacesOf(p) /\ to \in groups
  /\ to # from /\ IsTerminal(to)
  /\ players' = AddPlayerNApplyParent(parent,
                  RemovePlayerNApplyParent(parent, players, from, p), to, p)
  /\ moved' = [who |-> p, to |-> to]
  /\ told' = SendTargetViewer(parent, players', viewers, to)
             \cup SendTargetViewer(parent, players', viewers, from)
  /\ UNCHANGED <<sessions, arrived, parent, viewers>>

\* Mutant: SetParent() is forgotten.
AddChildUnlinked(g, new) ==
  /\ new \in Group \ groups /\ ~IsTerminal(g)
  /\ parent' = parent

\* A group from the factory, whose netid no group of the tree has, below g; a
\* group with players and no children takes none.
AddChild(g, new) ==
  /\ new \in Group \ groups /\ ~IsTerminal(g)
  /\ parent' = Extend(parent, new, g)

\* A new, empty group below g, and g as its viewer.
CreateBlankGroup(g, new) ==
  /\ g \in groups
  /\ AddChild(g, new)
  /\ viewers' = Extend(viewers, new, {g})

\* Player p, in group from, creates a group below g and moves into it.
ReqGroupCreate(p, from, g, new) ==
  /\ p \in sessions /\ from \in PlacesOf(p)
  /\ CreateBlankGroup(g, new)
  /\ players' = AddPlayerNApplyParent(parent',
                  RemovePlayerNApplyParent(parent',
                    Extend(players, new, {}), from, p), new, p)
  /\ moved' = [who |-> p, to |-> new]
  /\ told' = SendTargetViewer(parent', players', viewers', new)
  /\ UNCHANGED <<sessions, arrived>>

\* Player p creates a group below g and stays where it is.
ReqGroupCreateBlank(p, g, new) ==
  /\ p \in sessions /\ PlacesOf(p) # {}
  /\ CreateBlankGroup(g, new)
  /\ players' = Extend(players, new, {})
  /\ moved' = NoMove
  /\ told' = SendTargetViewer(parent', players', viewers', new)
  /\ UNCHANGED <<sessions, arrived>>

TreeNext ==
  \E p \in Player :
    \/ AddSession(p)
    \/ LeaveServer(p)
    \/ \E from, to \in groups : ReqGroupJoin(p, from, to)
    \/ \E from, g \in groups, new \in Group \ groups :
         ReqGroupCreate(p, from, g, new)
    \/ \E g \in groups, new \in Group \ groups : ReqGroupCreateBlank(p, g, new)

TreeSpec == TreeInit /\ [][TreeNext]_treeVars

-----------------------------------------------------------------------------
\* Every group of the tree but the root has its parent in the tree, and its
\* players and viewers are known players and groups (the fields of CGroup).
TreeTypeOK ==
  /\ sessions \subseteq arrived /\ arrived \subseteq Player
  /\ {Root, Wait} \subseteq groups /\ groups \subseteq Group
  /\ parent \in [groups -> groups \cup {NoGroup}]
  /\ players \in [groups -> SUBSET Player]
  /\ viewers \in [groups -> SUBSET groups]
  /\ told \subseteq sessions
  /\ moved = NoMove \/ moved \in [who : sessions, to : groups]

\* The groups that list a session are exactly those from one group up to the
\* root, so GetChildFromPlayer always finds its place, and no group lists a
\* session that left, whatever moves were made before
\* (CGroup::AddPlayerNApplyParent, RemovePlayerNApplyParent).
OnePlace ==
  \A p \in Player :
    LET listed == {g \in groups : p \in players[g]}
    IN IF p \in sessions
       THEN \E g \in groups : listed = Line(parent, g)
       ELSE listed = {}

\* A player sits in a group that has children only if that group is the waiting
\* group: a group somebody moved into never becomes an inner node under it
\* (CGroup::IsTerminal, asked by ReqGroupJoin and AddChild).
InnerOnlyWaiting ==
  \A p \in sessions : \A g \in PlacesOf(p) :
    g # Wait => Children(parent, g) = {}

\* Whoever moves is announced to everybody in a leaf below the parent of the
\* group it moved to, however deep, itself included (CServerBasic::SendViewer).
MoveAnnounced ==
  moved # NoMove =>
    /\ moved.who \in told
    /\ \A l \in Leaves(parent, parent[moved.to]) : players[l] \subseteq told

\* What the comments of CGroup::AddChild and CBasicC2SHandler::CreateBlankGroup
\* say: players belong to terminal nodes only.  A group created below the
\* waiting group while that is empty makes it an inner node, and the next
\* session to join sits there.
PlayersInTerminals ==
  \A p \in sessions : \A g \in PlacesOf(p) : Children(parent, g) = {}
=============================================================================
