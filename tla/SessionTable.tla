---------------------------- MODULE SessionTable ----------------------------
(***************************************************************************)
(* The session table of CServerBasic in detail: the netids its sessions    *)
(* draw from the process's pool (RandNoDuplicate), the map and the vector  *)
(* of m_Sessions (StableVectorMap over VectorMap), the users and the       *)
(* group members, as the one thread that changes them does, step by step.  *)
(*                                                                         *)
(* ServerBasic calls a session by its connection.  Here a session has the  *)
(* netid it drew, which nothing gives back: a server that has seen more    *)
(* clients than the pool has numbers goes on with those of rand(), and     *)
(* AddSession meets netids that are already in use.                        *)
(***************************************************************************)
EXTENDS Integers, SequencesExt

CONSTANTS
  Conn,      \* client connections; each connects once
  PoolSize,  \* MAX_RAND_COUNT, 1024
  FirstId,   \* the first netid of the pool, 10; those below are reserved
  MaxRand    \* RAND_MAX

ASSUME TableConstants ==
  /\ PoolSize \in Nat \ {0}
  /\ FirstId \in Nat
  /\ MaxRand \in Nat

VARIABLES
  number,   \* n_randNumber
  count,    \* n_randCount
  root,     \* netid of m_RootGroup
  wait,     \* m_WaitGroupId
  id,       \* CSession::m_Id of the session made for a connection
  map,      \* m_Sessions.m_RandomAccess
  seq,      \* m_Sessions.m_Seq
  rmKeys,   \* m_Sessions.m_RmKeys
  users,    \* the keys of m_Users
  members,  \* the players of the groups
  pc,       \* where the thread is
  todo,     \* apply_removes: the keys still to remove
  new,      \* AddSession: the connection of the session to insert
  joined,   \* history: connections OnClientJoin was raised for
  marked,   \* history: connections whose session was found by RemoveSession
  wild      \* history: connections whose netid is not from the pool

poolVars  == <<number, count>>
groupVars == <<root, wait>>
tableVars == <<map, seq, rmKeys>>
userVars  == <<users, members>>
histVars  == <<joined, marked, wild>>
vars == <<poolVars, groupVars, id, tableVars, userVars, pc, todo, new, histVars>>

NoId == -1
PoolId == FirstId .. FirstId + PoolSize - 1
NetId == PoolId \cup 0..MaxRand

TypeOK ==
  /\ number \in [0..PoolSize - 1 -> PoolId]
  /\ count \in 0..PoolSize
  /\ root \in NetId \cup {NoId} /\ wait \in NetId \cup {NoId}
  /\ id \in [Conn -> NetId \cup {NoId}]
  /\ DOMAIN map \subseteq NetId /\ map \in [DOMAIN map -> Conn]
  /\ seq \in Seq(Conn)
  /\ rmKeys \subseteq NetId
  /\ users \subseteq NetId /\ members \subseteq NetId
  /\ pc \in {"root", "wait", "idle", "apply", "insert"}
  /\ todo \subseteq NetId
  /\ new \subseteq Conn /\ \A c \in new : id[c] \in NetId
  /\ joined \subseteq Conn /\ marked \subseteq Conn /\ wild \subseteq Conn

\* InitRandNoDuplicate, and an empty server.
Init ==
  /\ number = [i \in 0..PoolSize - 1 |-> FirstId + i]
  /\ count = PoolSize
  /\ root = NoId /\ wait = NoId
  /\ id = [c \in Conn |-> NoId]
  /\ map = [k \in {} |-> NoId] /\ seq = <<>> /\ rmKeys = {}
  /\ users = {} /\ members = {}
  /\ pc = "root" /\ todo = {} /\ new = {}
  /\ joined = {} /\ marked = {} /\ wild = {}

-----------------------------------------------------------------------------
(* RandNoDuplicate.                                                        *)

\* Mutant: the number drawn stays where it can be drawn again.
DrawUnswapped(r) ==
  /\ count > 0
  /\ \E idx \in 0..count - 1 : r = number[idx]
  /\ count' = count - 1
  /\ UNCHANGED number

\* A number of the pool, swapped out of the part still to draw from.
DrawPooled(r) ==
  /\ count > 0
  /\ \E idx \in 0..count - 1 :
       /\ r = number[idx]
       /\ number' = [number EXCEPT ![idx] = number[count - 1],
                                   ![count - 1] = number[idx]]
  /\ count' = count - 1

\* Mutant: the counter goes on down.
DrawRandomCounted(r) ==
  /\ count <= 0
  /\ r \in 0..MaxRand
  /\ count' = count - 1
  /\ UNCHANGED number

\* The pool is empty: assert(0), and in a release build any rand().
DrawRandom(r) ==
  /\ count <= 0
  /\ r \in 0..MaxRand
  /\ UNCHANGED poolVars

-----------------------------------------------------------------------------
(* The groups of a server draw their netids when it is constructed.        *)

MakeRootGroup ==
  /\ pc = "root"
  /\ \E r \in NetId : DrawPooled(r) /\ root' = r
  /\ pc' = "wait"
  /\ UNCHANGED <<wait, id, tableVars, userVars, todo, new, histVars>>

MakeWaitGroup ==
  /\ pc = "wait"
  /\ \E r \in NetId : DrawPooled(r) /\ wait' = r
  /\ pc' = "idle"
  /\ UNCHANGED <<root, id, tableVars, userVars, todo, new, histVars>>

-----------------------------------------------------------------------------
(* AddSession.                                                             *)

\* The constructor of CSession draws the netid of connection c.
NewSession(c, r) ==
  /\ pc = "idle" /\ id[c] = NoId
  /\ \/ DrawPooled(r) /\ UNCHANGED wild
     \/ DrawRandom(r) /\ wild' = wild \cup {c}
  /\ id' = [id EXCEPT ![c] = r]
  /\ UNCHANGED <<groupVars, tableVars, joined, marked>>

\* A player, or a member of the group, has that netid already: the session
\* is deleted, and its socket is closed with it.
AddSessionTaken(c, r) ==
  /\ NewSession(c, r)
  /\ r \in users \cup members
  /\ UNCHANGED <<userVars, pc, todo, new>>

\* Mutant: nothing asks whether the netid is taken.
AddSessionUnchecked(c, r) ==
  /\ NewSession(c, r)
  /\ users' = users \cup {r} /\ members' = members \cup {r}
  /\ new' = {c}
  /\ todo' = rmKeys
  /\ pc' = "insert"

\* Mutant: VectorMap::insert, without the pending removals.
AddSessionUnapplied(c, r) ==
  /\ NewSession(c, r)
  /\ r \notin users \cup members
  /\ users' = users \cup {r} /\ members' = members \cup {r}
  /\ new' = {c}
  /\ todo' = {}
  /\ pc' = "insert"

\* The player is made, and insert() starts with the pending removals.
AddSessionFree(c, r) ==
  /\ NewSession(c, r)
  /\ r \notin users \cup members
  /\ users' = users \cup {r} /\ members' = members \cup {r}
  /\ new' = {c}
  /\ todo' = rmKeys
  /\ pc' = "insert"

\* Mutant: the element that goes is the last one.
RemoveOneLast(k) ==
  /\ pc \in {"apply", "insert"} /\ k \in todo
  /\ todo' = todo \ {k}
  /\ \/ /\ k \in DOMAIN map
        /\ seq' = Front(seq)
        /\ map' = [n \in DOMAIN map \ {k} |-> map[n]]
     \/ k \notin DOMAIN map /\ UNCHANGED <<map, seq>>
  /\ UNCHANGED <<poolVars, groupVars, id, rmKeys, userVars, pc, new, histVars>>

\* apply_removes, one key: removevector rotates the element out of m_Seq.
RemoveOne(k) ==
  /\ pc \in {"apply", "insert"} /\ k \in todo
  /\ todo' = todo \ {k}
  /\ \/ /\ k \in DOMAIN map
        /\ seq' = RemoveFirst(seq, map[k])
        /\ map' = [n \in DOMAIN map \ {k} |-> map[n]]
     \/ k \notin DOMAIN map /\ UNCHANGED <<map, seq>>
  /\ UNCHANGED <<poolVars, groupVars, id, rmKeys, userVars, pc, new, histVars>>

\* putvector: the slot after the others, or a new one.
PutVector(s, i, c) == IF Len(s) >= i THEN [s EXCEPT ![i] = c] ELSE Append(s, c)

\* VectorMap::insert, whose result is ignored, and OnClientJoin.
InsertNew(c) ==
  /\ pc = "insert" /\ todo = {} /\ c \in new
  /\ rmKeys' = {}
  /\ \/ /\ id[c] \notin DOMAIN map
        /\ map' = [n \in DOMAIN map \cup {id[c]} |->
                     IF n = id[c] THEN c ELSE map[n]]
        /\ seq' = PutVector(seq, Cardinality(DOMAIN map'), c)
     \/ id[c] \in DOMAIN map /\ UNCHANGED <<map, seq>>
  /\ new' = {}
  /\ joined' = joined \cup {c}
  /\ pc' = "idle"
  /\ UNCHANGED <<poolVars, groupVars, id, userVars, todo, marked, wild>>

-----------------------------------------------------------------------------
(* RemoveSession and RemoveClientProcess.                                  *)

RemoveSession(n) ==
  /\ pc = "idle"
  /\ \/ /\ n \in DOMAIN map
        /\ rmKeys' = rmKeys \cup {n}
        /\ marked' = marked \cup {map[n]}
     \/ n \notin DOMAIN map /\ UNCHANGED <<rmKeys, marked>>
  /\ users' = users \ {n}
  /\ UNCHANGED <<poolVars, groupVars, id, map, seq, members, pc, todo, new,
                 joined, wild>>

\* The events and the groups first, apply_removes for the table last.
RemoveClientProcess ==
  /\ pc = "idle" /\ rmKeys # {}
  /\ members' = members \ (rmKeys \cap DOMAIN map)
  /\ todo' = rmKeys
  /\ pc' = "apply"
  /\ UNCHANGED <<poolVars, groupVars, id, tableVars, users, new, histVars>>

ApplyEnd ==
  /\ pc = "apply" /\ todo = {}
  /\ rmKeys' = {}
  /\ pc' = "idle"
  /\ UNCHANGED <<poolVars, groupVars, id, map, seq, userVars, todo, new,
                 histVars>>

\* Disconnects name netids that were given, also of sessions already gone.
Next ==
  \/ MakeRootGroup \/ MakeWaitGroup
  \/ \E c \in Conn, r \in NetId : AddSessionTaken(c, r) \/ AddSessionFree(c, r)
  \/ \E k \in todo : RemoveOne(k)
  \/ \E c \in new : InsertNew(c)
  \/ \E c \in joined : RemoveSession(id[c])
  \/ RemoveClientProcess \/ ApplyEnd

Spec == Init /\ [][Next]_vars

-----------------------------------------------------------------------------
(* Properties.                                                             *)

\* No two ids of the pool are the same, those of the groups included, and
\* none is reserved: RandNoDuplicate never draws a number twice.
PooledIdsUnique ==
  LET pooled == {c \in Conn \ wild : id[c] # NoId} IN
  /\ \A c, d \in pooled : id[c] = id[d] => c = d
  /\ \A c \in pooled : id[c] \notin {root, wait} /\ id[c] >= FirstId
  /\ root = wait => root = NoId

\* The two halves of a VectorMap agree: m_Seq holds every session of the map
\* once and nothing else, also while apply_removes is half way.
SeqAgrees ==
  /\ Len(seq) = Cardinality(DOMAIN map)
  /\ \A i \in 1..Len(seq) : \E k \in DOMAIN map : map[k] = seq[i]
  /\ \A k \in DOMAIN map : \E i \in 1..Len(seq) : seq[i] = map[k]
  /\ \A i, j \in 1..Len(seq) : seq[i] = seq[j] => i = j

\* A client that joined is in the table under its own netid, with its player,
\* until its removal is asked for: no other session takes its place, not even
\* one that draws the same netid, and insert() never fails unnoticed.
JoinedAreFound ==
  \A c \in joined \ marked :
    /\ id[c] \in DOMAIN map /\ map[id[c]] = c
    /\ id[c] \in users

\* The table, taken by what a walk over m_Seq finds, is a table with deferred
\* removal: see DeferredTable.
Found == {seq[i] : i \in 1..Len(seq)}
Deferred ==
  INSTANCE DeferredTable WITH
    Element <- Conn,
    live    <- IF pc \in {"apply", "insert"}
               THEN {c \in Found : id[c] \notin rmKeys} ELSE Found,
    pending <- IF pc \in {"apply", "insert"}
               THEN {} ELSE {c \in Found : id[c] \in rmKeys}
ImplementsDeferred == Deferred!Spec
=============================================================================
