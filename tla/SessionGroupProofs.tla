--------------------------- MODULE SessionGroupProofs ---------------------------
(***************************************************************************)
(* Proofs about the two tables CServerBasic keeps of its clients: the      *)
(* sessions (SessionTable), for any number of clients, any pool and any    *)
(* range of rand(), and the tree of groups (GroupTree), for any number of  *)
(* players and groups, in whatever order the requests come.                *)
(*                                                                         *)
(* Line(par, g) of the tree is a least closed set, so the facts about it   *)
(* are proved from that: it is closed under the parent, it lies in every   *)
(* closed set that holds g, and a new group adds only its own line.        *)
(***************************************************************************)
EXTENDS SessionTable, GroupTree, FiniteSetTheorems, SequenceTheorems, TLAPS
-----------------------------------------------------------------------------
(* Sequences without repetition.                                           *)

Elements(s) == {s[i] : i \in 1..Len(s)}
NoRepeat(s) == \A i, j \in 1..Len(s) : s[i] = s[j] => i = j

\* What RemoveAt leaves: the elements before i in place, those after i one
\* place further down.
LEMMA RemoveAtElements ==
  ASSUME NEW S, NEW s \in Seq(S), NEW i \in 1..Len(s)
  PROVE  /\ RemoveAt(s, i) \in Seq(S)
         /\ Len(RemoveAt(s, i)) = Len(s) - 1
         /\ \A j \in 1..Len(s) - 1 :
              RemoveAt(s, i)[j] = IF j < i THEN s[j] ELSE s[j + 1]
  <1> DEFINE a == SubSeq(s, 1, i - 1)
             b == SubSeq(s, i + 1, Len(s))
  <1>1. /\ a \in Seq(S) /\ Len(a) = i - 1
        /\ \A j \in 1..i - 1 : a[j] = s[j]
    OBVIOUS
  <1>2. /\ b \in Seq(S) /\ Len(b) = Len(s) - i
        /\ \A j \in 1..Len(s) - i : b[j] = s[i + j]
    OBVIOUS
  <1>3. RemoveAt(s, i) = a \o b
    BY DEF RemoveAt
  <1> HIDE DEF a, b
  <1>4. /\ a \o b \in Seq(S)
        /\ Len(a \o b) = Len(s) - 1
        /\ \A j \in 1..Len(s) - 1 :
             (a \o b)[j] = IF j < i THEN a[j] ELSE b[j - (i - 1)]
    <2>1. Len(a) + Len(b) = Len(s) - 1
      BY <1>1, <1>2
    <2>2. \A j \in 1..Len(a) + Len(b) :
            (a \o b)[j] = IF j <= Len(a) THEN a[j] ELSE b[j - Len(a)]
      BY <1>1, <1>2, ConcatProperties
    <2>3. a \o b \in Seq(S) /\ Len(a \o b) = Len(a) + Len(b)
      BY <1>1, <1>2, ConcatProperties
    <2>4. ASSUME NEW j \in 1..Len(s) - 1
          PROVE  (a \o b)[j] = IF j < i THEN a[j] ELSE b[j - (i - 1)]
      <3>1. (j <= i - 1) = (j < i)
        OBVIOUS
      <3> QED
        BY <1>1, <2>1, <2>2, <3>1
    <2> QED
      BY <2>1, <2>3, <2>4
  <1>5. ASSUME NEW j \in 1..Len(s) - 1
        PROVE  RemoveAt(s, i)[j] = IF j < i THEN s[j] ELSE s[j + 1]
    <2>1. CASE j < i
      BY <1>1, <1>3, <1>4, <2>1
    <2>2. CASE ~(j < i)
      <3>1. j - (i - 1) \in 1..Len(s) - i /\ i + (j - (i - 1)) = j + 1
        BY <2>2
      <3> QED
        BY <1>2, <1>3, <1>4, <2>2, <3>1
    <2> QED
      BY <2>1, <2>2
  <1> QED
    BY <1>3, <1>4, <1>5

\* The first occurrence of a value is at its only place, if it has only one.
LEMMA SelectOnly ==
  ASSUME NEW S, NEW s \in Seq(S), NoRepeat(s), NEW i \in 1..Len(s)
  PROVE  RemoveFirst(s, s[i]) = RemoveAt(s, i)
  <1> DEFINE I == {j \in 1..Len(s) : s[j] = s[i]}
  <1>1. I = {i}
    BY DEF NoRepeat
  <1>2. Min(I) = i
    BY <1>1 DEF Min
  <1>3. SelectInSeq(s, LAMBDA v : v = s[i]) = i
    BY <1>1, <1>2 DEF SelectInSeq
  <1> QED
    BY <1>3 DEF RemoveFirst

\* removevector on a vector of different elements: the element goes, and the
\* others stay, each once.
LEMMA RemoveFirstElements ==
  ASSUME NEW S, NEW s \in Seq(S), NoRepeat(s), NEW i \in 1..Len(s)
  PROVE  LET t == RemoveFirst(s, s[i]) IN
         /\ t \in Seq(S)
         /\ Len(t) = Len(s) - 1
         /\ NoRepeat(t)
         /\ Elements(t) = Elements(s) \ {s[i]}
  <1> DEFINE t == RemoveAt(s, i)
  <1>1. /\ t \in Seq(S) /\ Len(t) = Len(s) - 1
        /\ \A j \in 1..Len(s) - 1 : t[j] = IF j < i THEN s[j] ELSE s[j + 1]
    BY RemoveAtElements
  <1> HIDE DEF t
  <1>2. NoRepeat(t)
    BY <1>1 DEF NoRepeat
  <1>3. ASSUME NEW x \in Elements(t)
        PROVE  x \in Elements(s) \ {s[i]}
    <2>1. PICK j \in 1..Len(t) : t[j] = x
      BY DEF Elements
    <2>2. PICK m \in 1..Len(s) : m # i /\ s[m] = x
      <3>1. CASE j < i
        BY <1>1, <2>1, <3>1
      <3>2. CASE ~(j < i)
        BY <1>1, <2>1, <3>2
      <3> QED
        BY <3>1, <3>2
    <2> QED
      BY <2>2 DEF Elements, NoRepeat
  <1>4. ASSUME NEW x \in Elements(s) \ {s[i]}
        PROVE  x \in Elements(t)
    <2>1. PICK m \in 1..Len(s) : s[m] = x
      BY DEF Elements
    <2>2. PICK j \in 1..Len(t) : t[j] = x
      <3>1. CASE m < i
        BY <1>1, <2>1, <3>1
      <3>2. CASE ~(m < i)
        <4>1. m # i
          BY <2>1
        <4>2. m - 1 \in 1..Len(s) - 1 /\ ~(m - 1 < i) /\ (m - 1) + 1 = m
          BY <3>2, <4>1
        <4>3. t[m - 1] = x
          BY <1>1, <2>1, <4>2
        <4> QED
          BY <1>1, <4>2, <4>3
      <3> QED
        BY <3>1, <3>2
    <2> QED
      BY <2>2 DEF Elements
  <1> QED
    BY <1>1, <1>2, <1>3, <1>4, SelectOnly DEF t

\* putvector in the slot after the last is Append.
LEMMA PutVectorElements ==
  ASSUME NEW S, NEW s \in Seq(S), NoRepeat(s), NEW c \in S, c \notin Elements(s)
  PROVE  LET t == PutVector(s, Len(s) + 1, c) IN
         /\ t \in Seq(S)
         /\ Len(t) = Len(s) + 1
         /\ NoRepeat(t)
         /\ Elements(t) = Elements(s) \cup {c}
  <1> DEFINE t == Append(s, c)
  <1>1. /\ t \in Seq(S) /\ Len(t) = Len(s) + 1
        /\ \A j \in 1..Len(s) : t[j] = s[j]
        /\ t[Len(s) + 1] = c
    OBVIOUS
  <1>2. PutVector(s, Len(s) + 1, c) = t
    BY DEF PutVector
  <1> HIDE DEF t
  <1>3. NoRepeat(t)
    <2> SUFFICES ASSUME NEW i \in 1..Len(t), NEW j \in 1..Len(t), t[i] = t[j]
                 PROVE  i = j
      BY DEF NoRepeat
    <2>1. CASE i \in 1..Len(s) /\ j \in 1..Len(s)
      BY <1>1, <2>1 DEF NoRepeat
    <2>2. CASE i = Len(s) + 1 /\ j \in 1..Len(s)
      BY <1>1, <2>2 DEF Elements
    <2>3. CASE i \in 1..Len(s) /\ j = Len(s) + 1
      BY <1>1, <2>3 DEF Elements
    <2> QED
      BY <1>1, <2>1, <2>2, <2>3
  <1>4. Elements(t) = Elements(s) \cup {c}
    <2>1. Elements(t) \subseteq Elements(s) \cup {c}
      BY <1>1 DEF Elements
    <2>2. Elements(s) \subseteq Elements(t)
      BY <1>1 DEF Elements
    <2>3. c \in Elements(t)
      BY <1>1 DEF Elements
    <2> QED
      BY <2>1, <2>2, <2>3
  <1> QED
    BY <1>1, <1>2, <1>3, <1>4

-----------------------------------------------------------------------------
(* The inductive invariant.                                                *)

\* The vector holds what the map holds.
SeqInv ==
  /\ IsFiniteSet(DOMAIN map)
  /\ Len(seq) = Cardinality(DOMAIN map)
  /\ NoRepeat(seq)
  /\ Elements(seq) = {map[k] : k \in DOMAIN map}

\* Every session is under its own netid, and one that is being inserted has a
\* netid only a marked session can still have.
KeysInv ==
  /\ \A k \in DOMAIN map : map[k] \in joined /\ id[map[k]] = k
  /\ \A c \in joined : id[c] # NoId
  /\ new \cap joined = {}
  /\ \A c \in new :
       /\ pc = "insert" /\ id[c] \in users
       /\ id[c] \in DOMAIN map => id[c] \in rmKeys

\* A marked session loses its player at once and goes when its key is visited.
MarksInv ==
  /\ todo \subseteq rmKeys
  /\ pc \in {"apply", "insert"} => DOMAIN map \cap rmKeys \subseteq todo
  /\ DOMAIN map \subseteq users \cup rmKeys
  /\ \A k \in DOMAIN map \cap rmKeys : map[k] \in marked

\* The numbers past count are drawn, and no number is in the pool twice.
Drawn(r) == \E i \in count..PoolSize - 1 : number[i] = r
PoolInv ==
  /\ \A i, j \in 0..PoolSize - 1 : number[i] = number[j] => i = j
  /\ root # NoId => Drawn(root)
  /\ wait # NoId => Drawn(wait)
  /\ \A c \in Conn \ wild : id[c] # NoId => Drawn(id[c])
  /\ pc = "root" => root = NoId /\ wait = NoId
  /\ pc = "wait" => wait = NoId

TableInv == TypeOK /\ SeqInv /\ KeysInv /\ MarksInv /\ JoinedAreFound

-----------------------------------------------------------------------------
(* Type correctness.                                                       *)

\* No netid is the value of a connection that has none.
LEMMA NetIdIsId == \A r \in NetId : r # NoId
  BY TableConstants DEF NetId, PoolId, NoId

LEMMA InitType == Init => TypeOK
  <1> SUFFICES ASSUME Init PROVE TypeOK
    OBVIOUS
  <1>1. number \in [0..PoolSize - 1 -> PoolId] /\ count \in 0..PoolSize
    BY TableConstants DEF Init, PoolId
  <1>2. seq \in Seq(Conn)
    BY EmptySeq DEF Init
  <1> QED
    BY <1>1, <1>2 DEF Init, TypeOK, NoId

\* A number drawn from the pool leaves the pool well typed.
LEMMA DrawType ==
  ASSUME TypeOK, NEW r \in NetId, DrawPooled(r)
  PROVE  /\ number' \in [0..PoolSize - 1 -> PoolId]
         /\ count' \in 0..PoolSize
  <1>1. PICK idx \in 0..count - 1 :
          number' = [number EXCEPT ![idx] = number[count - 1],
                                   ![count - 1] = number[idx]]
    BY DEF DrawPooled
  <1>2. /\ idx \in 0..PoolSize - 1 /\ count - 1 \in 0..PoolSize - 1
        /\ count' \in 0..PoolSize
    BY TableConstants DEF DrawPooled, TypeOK
  <1>3. number[idx] \in PoolId /\ number[count - 1] \in PoolId
    BY <1>2 DEF TypeOK
  <1> QED
    BY <1>1, <1>2, <1>3 DEF TypeOK

LEMMA NewSessionType ==
  ASSUME TypeOK, NEW c \in Conn, NEW r \in NetId, NewSession(c, r)
  PROVE  /\ number' \in [0..PoolSize - 1 -> PoolId]
         /\ count' \in 0..PoolSize
         /\ id' \in [Conn -> NetId \cup {NoId}]
         /\ wild' \subseteq Conn
  <1>1. CASE DrawPooled(r) /\ UNCHANGED wild
    BY <1>1, DrawType DEF NewSession, TypeOK
  <1>2. CASE DrawRandom(r) /\ wild' = wild \cup {c}
    BY <1>2 DEF NewSession, DrawRandom, poolVars, TypeOK
  <1> QED
    BY <1>1, <1>2 DEF NewSession


-----------------------------------------------------------------------------
(* The vector and the map.                                                 *)

LEMMA SeqUnchanged ==
  ASSUME SeqInv, UNCHANGED <<map, seq>>
  PROVE  SeqInv'
  BY DEF SeqInv

\* Taking the session of key k out of both.
LEMMA RemoveOneTable ==
  ASSUME TypeOK, SeqInv, KeysInv, NEW k \in todo, RemoveOne(k)
  PROVE  /\ DOMAIN map' = DOMAIN map \ {k}
         /\ \A n \in DOMAIN map' : map'[n] = map[n]
         /\ seq' \in Seq(Conn)
         /\ SeqInv'
  <1>1. CASE k \in DOMAIN map
    <2>1. /\ seq' = RemoveFirst(seq, map[k])
          /\ map' = [n \in DOMAIN map \ {k} |-> map[n]]
      BY <1>1 DEF RemoveOne
    <2>2. PICK i \in 1..Len(seq) : seq[i] = map[k]
      BY <1>1 DEF SeqInv, Elements
    <2>3. /\ seq' \in Seq(Conn)
          /\ Len(seq') = Len(seq) - 1
          /\ NoRepeat(seq')
          /\ Elements(seq') = Elements(seq) \ {map[k]}
      <3>1. seq \in Seq(Conn) /\ NoRepeat(seq)
        BY DEF TypeOK, SeqInv
      <3>2. seq' = RemoveFirst(seq, seq[i])
        BY <2>1, <2>2
      <3>3. /\ RemoveFirst(seq, seq[i]) \in Seq(Conn)
            /\ Len(RemoveFirst(seq, seq[i])) = Len(seq) - 1
            /\ NoRepeat(RemoveFirst(seq, seq[i]))
            /\ Elements(RemoveFirst(seq, seq[i])) = Elements(seq) \ {seq[i]}
        BY <2>2, <3>1, RemoveFirstElements
      <3> QED
        BY ONLY <2>2, <3>2, <3>3
    <2>4. /\ IsFiniteSet(DOMAIN map')
          /\ Cardinality(DOMAIN map') = Cardinality(DOMAIN map) - 1
      BY <1>1, <2>1, FS_RemoveElement DEF SeqInv
    <2>5. Elements(seq') = {map'[n] : n \in DOMAIN map'}
      BY <1>1, <2>1, <2>3 DEF SeqInv, KeysInv
    <2> QED
      BY <2>1, <2>3, <2>4, <2>5 DEF SeqInv
  <1>2. CASE k \notin DOMAIN map
    <2>1. UNCHANGED <<map, seq>>
      BY <1>2 DEF RemoveOne
    <2> QED
      BY <1>2, <2>1, SeqUnchanged DEF TypeOK
  <1> QED
    BY <1>1, <1>2

\* Putting the session of connection c, whose netid is free, into both.
LEMMA InsertNewTable ==
  ASSUME TypeOK, SeqInv, KeysInv, MarksInv, NEW c \in new, InsertNew(c)
  PROVE  /\ id[c] \notin DOMAIN map
         /\ DOMAIN map' = DOMAIN map \cup {id[c]}
         /\ map'[id[c]] = c
         /\ \A n \in DOMAIN map : map'[n] = map[n]
         /\ seq' \in Seq(Conn)
         /\ Elements(seq') = Elements(seq) \cup {c}
         /\ SeqInv'
  <1>1. id[c] \notin DOMAIN map
    BY DEF InsertNew, KeysInv, MarksInv
  <1>2. /\ map' = [n \in DOMAIN map \cup {id[c]} |->
                     IF n = id[c] THEN c ELSE map[n]]
        /\ seq' = PutVector(seq, Cardinality(DOMAIN map'), c)
    BY <1>1 DEF InsertNew
  <1>3. /\ IsFiniteSet(DOMAIN map')
        /\ Cardinality(DOMAIN map') = Len(seq) + 1
    BY <1>1, <1>2, FS_AddElement DEF SeqInv
  <1>4. c \in Conn /\ c \notin Elements(seq)
    BY DEF KeysInv, SeqInv, TypeOK
  <1>5. /\ seq' \in Seq(Conn)
        /\ Len(seq') = Len(seq) + 1
        /\ NoRepeat(seq')
        /\ Elements(seq') = Elements(seq) \cup {c}
    <2>1. seq \in Seq(Conn) /\ NoRepeat(seq)
      BY DEF TypeOK, SeqInv
    <2>2. seq' = PutVector(seq, Len(seq) + 1, c)
      BY <1>2, <1>3
    <2> QED
      BY <1>4, <2>1, <2>2, PutVectorElements
  <1>6. Elements(seq') = {map'[n] : n \in DOMAIN map'}
    BY <1>1, <1>2, <1>5 DEF SeqInv
  <1> QED
    BY <1>1, <1>2, <1>3, <1>5, <1>6 DEF SeqInv

LEMMA InitTable == Init => SeqInv /\ KeysInv /\ MarksInv /\ JoinedAreFound
  <1> SUFFICES ASSUME Init
               PROVE  SeqInv /\ KeysInv /\ MarksInv /\ JoinedAreFound
    OBVIOUS
  <1>1. DOMAIN map = {} /\ seq = <<>> /\ Len(seq) = 0
    BY DEF Init
  <1>2. SeqInv
    BY <1>1, FS_EmptySet DEF SeqInv, NoRepeat, Elements
  <1> QED
    BY <1>1, <1>2 DEF Init, KeysInv, MarksInv, JoinedAreFound

LEMMA TableStep == TableInv /\ [Next]_vars => TableInv'
  <1> SUFFICES ASSUME TableInv, [Next]_vars PROVE TableInv'
    OBVIOUS
  <1> USE DEF TableInv, poolVars, groupVars, tableVars, userVars, histVars
  <1>1. CASE MakeRootGroup
    <2>1. TypeOK'
      BY <1>1, DrawType DEF MakeRootGroup, TypeOK
    <2>2. SeqInv'
      BY <1>1, SeqUnchanged DEF MakeRootGroup
    <2>3. KeysInv'
      BY <1>1 DEF MakeRootGroup, KeysInv
    <2>4. MarksInv'
      BY <1>1 DEF MakeRootGroup, MarksInv
    <2>5. JoinedAreFound'
      BY <1>1 DEF MakeRootGroup, JoinedAreFound
    <2> QED
      BY <2>1, <2>2, <2>3, <2>4, <2>5
  <1>2. CASE MakeWaitGroup
    <2>1. TypeOK'
      BY <1>2, DrawType DEF MakeWaitGroup, TypeOK
    <2>2. SeqInv'
      BY <1>2, SeqUnchanged DEF MakeWaitGroup
    <2>3. KeysInv'
      BY <1>2 DEF MakeWaitGroup, KeysInv
    <2>4. MarksInv'
      BY <1>2 DEF MakeWaitGroup, MarksInv
    <2>5. JoinedAreFound'
      BY <1>2 DEF MakeWaitGroup, JoinedAreFound
    <2> QED
      BY <2>1, <2>2, <2>3, <2>4, <2>5
  <1>3. ASSUME NEW c \in Conn, NEW r \in NetId, AddSessionTaken(c, r)
        PROVE  TableInv'
    <2>1. TypeOK'
      BY <1>3, NewSessionType
      DEF AddSessionTaken, NewSession, TypeOK, NetId, PoolId, NoId
    <2>2. SeqInv'
      BY <1>3, SeqUnchanged DEF AddSessionTaken, NewSession
    <2>3. c \notin joined /\ c \notin new
      <3>1. id[c] = NoId /\ pc = "idle"
        BY <1>3 DEF AddSessionTaken, NewSession
      <3> QED
        BY <3>1 DEF KeysInv
    <2>4. \A d \in Conn \ {c} : id'[d] = id[d]
      BY <1>3 DEF AddSessionTaken, NewSession, TypeOK
    <2>5. KeysInv'
      BY <1>3, <2>3, <2>4
      DEF AddSessionTaken, NewSession, KeysInv, TypeOK
    <2>6. MarksInv'
      BY <1>3 DEF AddSessionTaken, NewSession, MarksInv
    <2>7. JoinedAreFound'
      BY <1>3, <2>3, <2>4
      DEF AddSessionTaken, NewSession, JoinedAreFound, TypeOK
    <2> QED
      BY <2>1, <2>2, <2>5, <2>6, <2>7
  <1>4. ASSUME NEW c \in Conn, NEW r \in NetId, AddSessionFree(c, r)
        PROVE  TableInv'
    <2>1. c \notin joined /\ id'[c] = r /\ r # NoId
      BY <1>4, TableConstants
      DEF AddSessionFree, NewSession, KeysInv, TypeOK, NetId, PoolId, NoId
    <2>2. \A d \in Conn \ {c} : id'[d] = id[d]
      BY <1>4 DEF AddSessionFree, NewSession, TypeOK
    <2>3. TypeOK'
      BY <1>4, <2>1, NewSessionType DEF AddSessionFree, NewSession, TypeOK
    <2>4. SeqInv'
      BY <1>4, SeqUnchanged DEF AddSessionFree, NewSession
    <2>5. KeysInv'
      BY <1>4, <2>1, <2>2
      DEF AddSessionFree, NewSession, KeysInv, MarksInv, TypeOK
    <2>6. MarksInv'
      BY <1>4 DEF AddSessionFree, NewSession, MarksInv
    <2>7. JoinedAreFound'
      BY <1>4, <2>1, <2>2
      DEF AddSessionFree, NewSession, JoinedAreFound, TypeOK
    <2> QED
      BY <2>3, <2>4, <2>5, <2>6, <2>7
  <1>5. ASSUME NEW k \in todo, RemoveOne(k)
        PROVE  TableInv'
    <2>1. /\ DOMAIN map' = DOMAIN map \ {k}
          /\ \A n \in DOMAIN map' : map'[n] = map[n]
          /\ seq' \in Seq(Conn)
          /\ SeqInv'
      BY <1>5, RemoveOneTable
    <2>2. map' \in [DOMAIN map' -> Conn]
      BY <1>5 DEF RemoveOne, TypeOK
    <2>3. TypeOK'
      BY <1>5, <2>1, <2>2 DEF RemoveOne, TypeOK
    <2>4. KeysInv'
      BY <1>5, <2>1 DEF RemoveOne, KeysInv
    <2>5. MarksInv'
      BY <1>5, <2>1 DEF RemoveOne, MarksInv
    <2>6. JoinedAreFound'
      BY <1>5, <2>1 DEF RemoveOne, JoinedAreFound, MarksInv
    <2> QED
      BY <2>1, <2>3, <2>4, <2>5, <2>6
  <1>6. ASSUME NEW c \in new, InsertNew(c)
        PROVE  TableInv'
    <2>1. /\ id[c] \notin DOMAIN map
          /\ DOMAIN map' = DOMAIN map \cup {id[c]}
          /\ map'[id[c]] = c
          /\ \A n \in DOMAIN map : map'[n] = map[n]
          /\ seq' \in Seq(Conn)
          /\ SeqInv'
      BY <1>6, InsertNewTable
    <2>2. /\ id[c] \in NetId /\ id[c] # NoId /\ id[c] \in users
          /\ c \in Conn
      <3>1. c \in Conn /\ id[c] \in NetId
        BY DEF TypeOK
      <3>2. id[c] \in users
        BY DEF KeysInv
      <3> QED
        BY <3>1, <3>2, NetIdIsId
    <2>3. map' \in [DOMAIN map' -> Conn]
      BY <1>6, <2>1, <2>2 DEF InsertNew, TypeOK
    <2>4. TypeOK'
      BY <1>6, <2>1, <2>2, <2>3 DEF InsertNew, TypeOK
    <2>5. KeysInv'
      BY <1>6, <2>1, <2>2 DEF InsertNew, KeysInv
    <2>6. MarksInv'
      BY <1>6, <2>1, <2>2 DEF InsertNew, MarksInv
    <2>7. JoinedAreFound'
      BY <1>6, <2>1, <2>2 DEF InsertNew, JoinedAreFound
    <2> QED
      BY <2>1, <2>4, <2>5, <2>6, <2>7
  <1>7. ASSUME NEW c \in joined, RemoveSession(id[c])
        PROVE  TableInv'
    <2>1. TypeOK'
      BY <1>7, TableConstants
      DEF RemoveSession, TypeOK, KeysInv
    <2>2. SeqInv'
      BY <1>7, SeqUnchanged DEF RemoveSession
    <2>3. KeysInv'
      BY <1>7 DEF RemoveSession, KeysInv
    <2>4. MarksInv'
      BY <1>7 DEF RemoveSession, MarksInv
    <2>5. JoinedAreFound'
      BY <1>7 DEF RemoveSession, JoinedAreFound
    <2> QED
      BY <2>1, <2>2, <2>3, <2>4, <2>5
  <1>8. CASE RemoveClientProcess
    <2>1. TypeOK'
      BY <1>8 DEF RemoveClientProcess, TypeOK
    <2> QED
      BY <1>8, <2>1, SeqUnchanged
      DEF RemoveClientProcess, KeysInv, MarksInv, JoinedAreFound
  <1>9. CASE ApplyEnd
    <2>1. TypeOK'
      BY <1>9 DEF ApplyEnd, TypeOK
    <2> QED
      BY <1>9, <2>1, SeqUnchanged
      DEF ApplyEnd, KeysInv, MarksInv, JoinedAreFound
  <1>10. CASE UNCHANGED vars
    <2>1. TypeOK'
      BY <1>10 DEF vars, TypeOK
    <2> QED
      BY <1>10, <2>1, SeqUnchanged
      DEF vars, KeysInv, MarksInv, JoinedAreFound
  <1> QED
    BY <1>1, <1>2, <1>3, <1>4, <1>5, <1>6, <1>7, <1>8, <1>9, <1>10 DEF Next

LEMMA TableAlways == Spec => []TableInv
  <1>1. Init => TableInv
    BY InitType, InitTable DEF TableInv
  <1> QED
    BY <1>1, TableStep, PTL DEF Spec

\* Every variable keeps its type, whatever rand() returns.
THEOREM TypeCorrect == Spec => []TypeOK
  <1>1. TableInv => TypeOK
    BY DEF TableInv
  <1> QED
    BY <1>1, TableAlways, PTL

\* m_Seq and m_RandomAccess of m_Sessions hold the same sessions at every
\* step of VectorMap::insert and of the removals of StableVectorMap.
THEOREM SeqAlwaysAgrees == Spec => []SeqAgrees
  <1>1. TableInv => SeqAgrees
    BY DEF TableInv, SeqInv, SeqAgrees, NoRepeat, Elements
  <1> QED
    BY <1>1, TableAlways, PTL

\* A session that joined is found under its netid until it is marked, also
\* when AddSession draws the netid of a session that is there.
THEOREM JoinedStay == Spec => []JoinedAreFound
  <1>1. TableInv => JoinedAreFound
    BY DEF TableInv
  <1> QED
    BY <1>1, TableAlways, PTL

-----------------------------------------------------------------------------
(* The pool.                                                               *)

\* Drawing a number: what was drawn stays drawn, the new one was not, and the
\* pool still has every number once.
LEMMA DrawPool ==
  ASSUME TypeOK, PoolInv, NEW r \in NetId, DrawPooled(r)
  PROVE  /\ r \in PoolId
         /\ ~Drawn(r) /\ Drawn(r)'
         /\ \A q : Drawn(q) => Drawn(q)'
         /\ \A i, j \in 0..PoolSize - 1 : number'[i] = number'[j] => i = j
  <1>1. PICK idx \in 0..count - 1 :
          /\ r = number[idx]
          /\ number' = [number EXCEPT ![idx] = number[count - 1],
                                      ![count - 1] = number[idx]]
    BY DEF DrawPooled
  <1>2. /\ count \in Nat /\ count > 0 /\ count <= PoolSize /\ PoolSize \in Nat
        /\ count' = count - 1
        /\ idx \in 0..PoolSize - 1 /\ count - 1 \in 0..PoolSize - 1
    BY TableConstants DEF DrawPooled, TypeOK
  <1>3. \A i \in 0..PoolSize - 1 :
          number'[i] = IF i = count - 1 THEN number[idx]
                       ELSE IF i = idx THEN number[count - 1] ELSE number[i]
    BY <1>1, <1>2 DEF TypeOK
  <1>4. r \in PoolId
    BY <1>1, <1>2 DEF TypeOK
  <1>5. ~Drawn(r)
    BY <1>1, <1>2 DEF Drawn, PoolInv
  <1>6. Drawn(r)'
    <2>1. number'[count - 1] = number[idx]
      BY <1>2, <1>3
    <2>2. number'[count - 1] = r
      BY <1>1, <2>1
    <2>3. count - 1 \in count'..PoolSize - 1
      BY <1>2
    <2> QED
      BY <2>2, <2>3 DEF Drawn
  <1>7. ASSUME NEW q, Drawn(q)
        PROVE  Drawn(q)'
    <2>1. PICK i \in count..PoolSize - 1 : number[i] = q
      BY <1>7 DEF Drawn
    <2>2. i \in count'..PoolSize - 1 /\ number'[i] = q
      BY <1>2, <1>3, <2>1
    <2> QED
      BY <2>2 DEF Drawn
  <1>8. \A i, j \in 0..PoolSize - 1 : number'[i] = number'[j] => i = j
    BY <1>2, <1>3 DEF PoolInv
  <1> QED
    BY <1>4, <1>5, <1>6, <1>7, <1>8

PoolTableInv == TypeOK /\ PoolInv /\ PooledIdsUnique

LEMMA PoolUnchanged ==
  ASSUME PoolTableInv, UNCHANGED <<poolVars, groupVars, id, wild>>,
         pc' \notin {"root", "wait"}
  PROVE  PoolInv' /\ PooledIdsUnique'
  BY DEF PoolTableInv, poolVars, groupVars, PoolInv, PooledIdsUnique, Drawn

\* A connection's draw keeps the netids of the others apart from its own.
LEMMA PoolNewSession ==
  ASSUME PoolTableInv, NEW c \in Conn, NEW r \in NetId, NewSession(c, r),
         pc' \in {"idle", "insert"}
  PROVE  PoolInv' /\ PooledIdsUnique'
  <1> USE DEF PoolTableInv, groupVars
  <1>1. /\ id[c] = NoId /\ id' = [id EXCEPT ![c] = r]
        /\ id \in [Conn -> NetId \cup {NoId}]
        /\ root' = root /\ wait' = wait /\ r # NoId
    BY NetIdIsId DEF NewSession, TypeOK
  <1>2. CASE DrawPooled(r) /\ UNCHANGED wild
    <2>1. /\ r \in PoolId
          /\ ~Drawn(r) /\ Drawn(r)'
          /\ \A q : Drawn(q) => Drawn(q)'
          /\ \A i, j \in 0..PoolSize - 1 : number'[i] = number'[j] => i = j
      BY <1>2, DrawPool
    <2>2. \A d \in Conn \ wild : id'[d] # NoId =>
            d = c \/ (id'[d] = id[d] /\ Drawn(id[d]))
      BY <1>1 DEF PoolInv
    <2>3. PoolInv'
      BY <1>1, <1>2, <2>1, <2>2 DEF PoolInv
    <2>4. r # root /\ r # wait /\ r >= FirstId
      BY <1>1, <2>1, TableConstants DEF PoolInv, PoolId
    <2>5. \A d \in Conn \ wild : id[d] = r => d = c
      BY <1>1, <2>1 DEF PoolInv
    <2>6. PooledIdsUnique'
      BY <1>1, <1>2, <2>4, <2>5 DEF PooledIdsUnique
    <2> QED
      BY <2>3, <2>6
  <1>3. CASE DrawRandom(r) /\ wild' = wild \cup {c}
    <2>1. UNCHANGED <<number, count>>
      BY <1>3 DEF DrawRandom, poolVars
    <2>2. \A d \in Conn \ wild' : d \in Conn \ wild /\ id'[d] = id[d]
      BY <1>1, <1>3
    <2>3. PoolInv'
      BY <1>1, <1>3, <2>1, <2>2 DEF PoolInv, Drawn
    <2>4. PooledIdsUnique'
      BY <1>1, <2>2 DEF PooledIdsUnique
    <2> QED
      BY <2>3, <2>4
  <1> QED
    BY <1>2, <1>3 DEF NewSession

LEMMA PoolStep ==
  PoolTableInv /\ TypeOK' /\ [Next]_vars => PoolTableInv'
  <1> SUFFICES ASSUME PoolTableInv, TypeOK', [Next]_vars
               PROVE  PoolInv' /\ PooledIdsUnique'
    BY DEF PoolTableInv
  <1> USE DEF tableVars, userVars, histVars
  <1>1. CASE MakeRootGroup
    <2>1. PICK r \in NetId : DrawPooled(r) /\ root' = r
      BY <1>1 DEF MakeRootGroup
    <2>2. /\ ~Drawn(r) /\ Drawn(r)'
          /\ \A q : Drawn(q) => Drawn(q)'
          /\ \A i, j \in 0..PoolSize - 1 : number'[i] = number'[j] => i = j
      BY <2>1, DrawPool DEF PoolTableInv
    <2>3. r # NoId /\ wait' = NoId /\ UNCHANGED <<id, wild>> /\ pc' = "wait"
      BY <1>1, NetIdIsId DEF MakeRootGroup, PoolTableInv, PoolInv
    <2>4. PoolInv'
      BY <2>1, <2>2, <2>3 DEF PoolTableInv, PoolInv
    <2>5. \A c \in Conn \ wild : id[c] # NoId => id[c] # r
      BY <2>2 DEF PoolTableInv, PoolInv
    <2>6. PooledIdsUnique'
      BY <2>1, <2>3, <2>5 DEF PoolTableInv, PooledIdsUnique
    <2> QED
      BY <2>4, <2>6
  <1>2. CASE MakeWaitGroup
    <2>1. PICK r \in NetId : DrawPooled(r) /\ wait' = r
      BY <1>2 DEF MakeWaitGroup
    <2>2. /\ ~Drawn(r) /\ Drawn(r)'
          /\ \A q : Drawn(q) => Drawn(q)'
          /\ \A i, j \in 0..PoolSize - 1 : number'[i] = number'[j] => i = j
      BY <2>1, DrawPool DEF PoolTableInv
    <2>3. r # NoId /\ root' = root /\ UNCHANGED <<id, wild>> /\ pc' = "idle"
      BY <1>2, NetIdIsId DEF MakeWaitGroup
    <2>4. PoolInv'
      BY <2>1, <2>2, <2>3 DEF PoolTableInv, PoolInv
    <2>5. \A c \in Conn \ wild : id[c] # NoId => id[c] # r
      BY <2>2 DEF PoolTableInv, PoolInv
    <2>6. root # r
      BY <2>2, <2>3 DEF PoolTableInv, PoolInv
    <2>7. PooledIdsUnique'
      BY <2>1, <2>3, <2>5, <2>6 DEF PoolTableInv, PooledIdsUnique
    <2> QED
      BY <2>4, <2>7
  <1>3. ASSUME NEW c \in Conn, NEW r \in NetId, AddSessionTaken(c, r)
        PROVE  PoolInv' /\ PooledIdsUnique'
    BY <1>3, PoolNewSession DEF AddSessionTaken, NewSession
  <1>4. ASSUME NEW c \in Conn, NEW r \in NetId, AddSessionFree(c, r)
        PROVE  PoolInv' /\ PooledIdsUnique'
    BY <1>4, PoolNewSession DEF AddSessionFree
  <1>5. ASSUME NEW k \in todo, RemoveOne(k)
        PROVE  PoolInv' /\ PooledIdsUnique'
    BY <1>5, PoolUnchanged DEF RemoveOne
  <1>6. ASSUME NEW c \in new, InsertNew(c)
        PROVE  PoolInv' /\ PooledIdsUnique'
    BY <1>6, PoolUnchanged DEF InsertNew
  <1>7. ASSUME NEW c \in joined, RemoveSession(id[c])
        PROVE  PoolInv' /\ PooledIdsUnique'
    BY <1>7, PoolUnchanged DEF RemoveSession
  <1>8. CASE RemoveClientProcess
    BY <1>8, PoolUnchanged DEF RemoveClientProcess
  <1>9. CASE ApplyEnd
    BY <1>9, PoolUnchanged DEF ApplyEnd
  <1>10. CASE UNCHANGED vars
    BY <1>10 DEF vars, poolVars, groupVars, PoolTableInv, PoolInv,
                 PooledIdsUnique, Drawn
  <1> QED
    BY <1>1, <1>2, <1>3, <1>4, <1>5, <1>6, <1>7, <1>8, <1>9, <1>10 DEF Next

\* RandNoDuplicate gives no number of its pool twice, to groups and sessions
\* alike, however many there are.
THEOREM PoolNeverRepeats == Spec => []PooledIdsUnique
  <1>1. Init => PoolTableInv
    BY InitType, TableConstants
    DEF Init, PoolTableInv, PoolInv, PooledIdsUnique, NoId
  <1>2. PoolTableInv => PooledIdsUnique
    BY DEF PoolTableInv
  <1> QED
    BY <1>1, <1>2, PoolStep, TypeCorrect, PTL DEF Spec

-----------------------------------------------------------------------------
(* The table is a table with deferred removal.                             *)

\* The mapping of SessionTable!Deferred.
live == IF pc \in {"apply", "insert"}
        THEN {c \in Found : id[c] \notin rmKeys} ELSE Found
pending == IF pc \in {"apply", "insert"}
           THEN {} ELSE {c \in Found : id[c] \in rmKeys}

\* The sessions found in the vector are those of the map.
LEMMA FoundInMap ==
  ASSUME TableInv
  PROVE  /\ Found = {map[k] : k \in DOMAIN map}
         /\ \A k \in DOMAIN map : id[map[k]] = k
         /\ Found \subseteq joined
  <1>1. Found = {map[k] : k \in DOMAIN map}
    BY DEF TableInv, SeqInv, Found, Elements
  <1>2. \A k \in DOMAIN map : map[k] \in joined /\ id[map[k]] = k
    BY DEF TableInv, KeysInv
  <1> QED
    BY <1>1, <1>2

LEMMA DeferredUnchanged ==
  ASSUME UNCHANGED <<seq, rmKeys, id>>,
         pc' \in {"apply", "insert"} <=> pc \in {"apply", "insert"}
  PROVE  UNCHANGED <<live, pending>>
  BY DEF live, pending, Found

\* Every step of the detailed table is a step of DeferredTable, or a stutter.
LEMMA DeferredStep ==
  TableInv /\ TableInv' /\ [Next]_vars => [Deferred!Next]_<<live, pending>>
  <1> SUFFICES ASSUME TableInv, TableInv', [Next]_vars
               PROVE  Deferred!Next \/ UNCHANGED <<live, pending>>
    OBVIOUS
  <1> USE DEF tableVars
  <1>1. CASE MakeRootGroup
    BY <1>1, DeferredUnchanged DEF MakeRootGroup
  <1>2. CASE MakeWaitGroup
    BY <1>2, DeferredUnchanged DEF MakeWaitGroup
  <1>3. ASSUME NEW c \in Conn, NEW r \in NetId, NewSession(c, r)
        PROVE  /\ Found' = Found
               /\ \A d \in Found : id'[d] = id[d]
    <2>1. c \notin Found
      BY <1>3, FoundInMap DEF NewSession, TableInv, KeysInv
    <2>2. id' = [id EXCEPT ![c] = r] /\ id \in [Conn -> NetId \cup {NoId}]
      BY <1>3 DEF NewSession, TableInv, TypeOK
    <2>3. Found \subseteq Conn
      BY FoundInMap DEF TableInv, TypeOK
    <2> QED
      BY <1>3, <2>1, <2>2, <2>3 DEF NewSession, Found
  <1>4. ASSUME NEW c \in Conn, NEW r \in NetId, AddSessionTaken(c, r)
        PROVE  UNCHANGED <<live, pending>>
    <2>1. pc = "idle" /\ pc' = "idle" /\ rmKeys' = rmKeys /\ NewSession(c, r)
      BY <1>4 DEF AddSessionTaken, NewSession
    <2> QED
      BY <1>3, <2>1 DEF live, pending
  <1>5. ASSUME NEW c \in Conn, NEW r \in NetId, AddSessionFree(c, r)
        PROVE  Deferred!Next
    <2>1. pc = "idle" /\ pc' = "insert" /\ rmKeys' = rmKeys /\ NewSession(c, r)
      BY <1>5 DEF AddSessionFree, NewSession
    <2>2. live' = live \ pending /\ pending' = {}
      BY <1>3, <2>1 DEF live, pending
    <2> QED
      BY <2>2 DEF Deferred!Next, Deferred!Apply, live, pending
  <1>6. ASSUME NEW k \in todo, RemoveOne(k)
        PROVE  UNCHANGED <<live, pending>>
    <2>1. /\ pc \in {"apply", "insert"} /\ pc' = pc
          /\ UNCHANGED <<rmKeys, id>>
      BY <1>6 DEF RemoveOne
    <2>2. /\ DOMAIN map' = DOMAIN map \ {k}
          /\ \A n \in DOMAIN map' : map'[n] = map[n]
          /\ k \in rmKeys
      BY <1>6, RemoveOneTable DEF TableInv, MarksInv
    <2>3. /\ Found' = {map'[n] : n \in DOMAIN map'}
          /\ \A n \in DOMAIN map' : id'[map'[n]] = n
      BY FoundInMap DEF TableInv, SeqInv, KeysInv, Found, Elements
    <2>4. live' = live
      BY <2>1, <2>2, <2>3, FoundInMap DEF live
    <2> QED
      BY <2>1, <2>4 DEF pending
  <1>7. ASSUME NEW c \in new, InsertNew(c)
        PROVE  Deferred!Next
    <2>1. pc = "insert" /\ pc' = "idle" /\ rmKeys' = {} /\ id' = id /\ todo = {}
      BY <1>7 DEF InsertNew
    <2>2. Found' = Found \cup {c}
      BY <1>7, InsertNewTable DEF TableInv, Found, Elements
    <2>3. c \in Conn /\ c \notin Found
      BY FoundInMap DEF TableInv, TypeOK, KeysInv
    <2>4. \A d \in Found : id[d] \notin rmKeys
      BY <2>1, FoundInMap DEF TableInv, MarksInv
    <2>5. /\ c \notin live /\ pending = {}
          /\ live' = live \cup {c} /\ pending' = {}
      BY <2>1, <2>2, <2>3, <2>4 DEF live, pending
    <2> QED
      BY <2>3, <2>5 DEF Deferred!Next, Deferred!Add, live, pending
  <1>8. ASSUME NEW c \in joined, RemoveSession(id[c])
        PROVE  Deferred!Next \/ UNCHANGED <<live, pending>>
    <2>1. pc = "idle" /\ pc' = "idle" /\ UNCHANGED <<seq, id>>
      BY <1>8 DEF RemoveSession
    <2>2. CASE id[c] \in DOMAIN map
      <3>1. rmKeys' = rmKeys \cup {id[c]}
        BY <1>8, <2>2 DEF RemoveSession
      <3> DEFINE e == map[id[c]]
      <3>2. e \in Found /\ e \in Conn /\ id[e] = id[c]
        BY <2>2, FoundInMap DEF TableInv, TypeOK
      <3>3. \A d \in Found : id[d] = id[e] => d = e
        BY <2>2, <3>2, FoundInMap
      <3>4. e \in live /\ live' = live /\ pending' = pending \cup {e}
        BY <2>1, <3>1, <3>2, <3>3 DEF live, pending, Found
      <3> QED
        BY <3>2, <3>4 DEF Deferred!Next, Deferred!Mark, live, pending
    <2>3. CASE id[c] \notin DOMAIN map
      BY <1>8, <2>1, <2>3, DeferredUnchanged DEF RemoveSession
    <2> QED
      BY <2>2, <2>3
  <1>9. CASE RemoveClientProcess
    <2>1. pc = "idle" /\ pc' = "apply" /\ UNCHANGED <<seq, id, rmKeys>>
      BY <1>9 DEF RemoveClientProcess
    <2>2. live' = live \ pending /\ pending' = {}
      BY <2>1 DEF live, pending, Found
    <2> QED
      BY <2>2 DEF Deferred!Next, Deferred!Apply, live, pending
  <1>10. CASE ApplyEnd
    <2>1. /\ pc = "apply" /\ pc' = "idle" /\ todo = {} /\ rmKeys' = {}
          /\ UNCHANGED <<seq, id>>
      BY <1>10 DEF ApplyEnd
    <2>2. \A d \in Found : id[d] \notin rmKeys
      BY <2>1, FoundInMap DEF TableInv, MarksInv
    <2>3. Found' = Found
      BY <2>1 DEF Found
    <2> QED
      BY <2>1, <2>2, <2>3 DEF live, pending
  <1>11. CASE UNCHANGED vars
    BY <1>11, DeferredUnchanged DEF vars
  <1> QED
    BY <1>1, <1>2, <1>4, <1>5, <1>6, <1>7, <1>8, <1>9, <1>10, <1>11 DEF Next

\* m_Sessions, with its map, its vector and its keys to remove, implements a
\* table with deferred removal: no walk ever sees an element disappear that
\* was not marked, or stay when the marked ones are taken out.
THEOREM TableIsDeferred == Spec => ImplementsDeferred
  <1>1. Init => Deferred!Init
    BY DEF Init, Deferred!Init, Found
  <1>2. Spec => Deferred!Spec
    BY <1>1, DeferredStep, TableAlways, PTL
    DEF Spec, Deferred!Spec, live, pending
  <1> QED
    BY <1>2 DEF ImplementsDeferred

-----------------------------------------------------------------------------
(* The line of a group.                                                    *)

\* A group's line holds it, and the parent of each of its groups, and nothing
\* that a closed set with the group need not hold.
LEMMA LineFacts ==
  ASSUME NEW par, NEW g \in DOMAIN par
  PROVE  /\ Line(par, g) \subseteq DOMAIN par
         /\ g \in Line(par, g)
         /\ UpClosed(par, Line(par, g))
         /\ \A S \in SUBSET DOMAIN par :
              g \in S /\ UpClosed(par, S) => Line(par, g) \subseteq S
  BY DEF Line, UpClosed

\* The line of a group on g's line is part of it.
LEMMA LineBelow ==
  ASSUME NEW par, NEW g \in DOMAIN par, NEW h \in Line(par, g)
  PROVE  Line(par, h) \subseteq Line(par, g)
  BY LineFacts

\* A group on g's line other than g has a child on it.
LEMMA LineChild ==
  ASSUME NEW par, NEW g \in DOMAIN par, NEW h \in Line(par, g), h # g
  PROVE  \E c \in Line(par, g) : par[c] = h
  <1> DEFINE S == {a \in Line(par, g) :
                     a = g \/ \E c \in Line(par, g) : par[c] = a}
  <1>1. S \in SUBSET DOMAIN par /\ g \in S
    BY LineFacts
  <1>2. UpClosed(par, S)
    BY LineFacts DEF UpClosed
  <1>3. Line(par, g) \subseteq S
    <2> HIDE DEF S
    <2> QED
      BY <1>1, <1>2, LineFacts
  <1> QED
    BY <1>3

\* A new group below k leaves the lines of the others as they are; its own is
\* itself and the line of k.
LEMMA LineExtend ==
  ASSUME NEW par, NEW k \in DOMAIN par, NEW made, made \notin DOMAIN par,
         \A h \in DOMAIN par : par[h] # made
  PROVE  LET ext == Extend(par, made, k) IN
         /\ \A h \in DOMAIN par : Line(ext, h) = Line(par, h)
         /\ Line(ext, made) = {made} \cup Line(par, k)
  <1> DEFINE ext == Extend(par, made, k)
  <1>1. /\ DOMAIN ext = DOMAIN par \cup {made}
        /\ ext[made] = k
        /\ \A h \in DOMAIN par : ext[h] = par[h]
    BY DEF Extend
  <1> HIDE DEF ext
  <1>2. ASSUME NEW h \in DOMAIN par
        PROVE  Line(ext, h) = Line(par, h)
    <2>1. /\ Line(par, h) \in SUBSET DOMAIN ext
          /\ h \in Line(par, h)
          /\ UpClosed(ext, Line(par, h))
      BY <1>1, LineFacts DEF UpClosed
    <2>2. Line(ext, h) \subseteq Line(par, h)
      BY <1>1, <2>1, LineFacts
    <2>3. /\ Line(ext, h) \in SUBSET DOMAIN par
          /\ h \in Line(ext, h)
      BY <1>1, <2>2, LineFacts
    <2>4. UpClosed(par, Line(ext, h))
      <3>1. UpClosed(ext, Line(ext, h))
        BY <1>1, LineFacts
      <3> QED
        BY <1>1, <2>3, <3>1 DEF UpClosed
    <2>5. Line(par, h) \subseteq Line(ext, h)
      BY <2>3, <2>4, LineFacts
    <2> QED
      BY <2>2, <2>5
  <1>3. Line(ext, made) = {made} \cup Line(par, k)
    <2> DEFINE S == {made} \cup Line(par, k)
    <2>1. S \in SUBSET DOMAIN ext /\ made \in S
      BY <1>1, LineFacts
    <2>2. UpClosed(ext, S)
      BY <1>1, LineFacts DEF UpClosed
    <2> HIDE DEF S
    <2>3. Line(ext, made) \subseteq S
      BY <1>1, <2>1, <2>2, LineFacts
    <2>4. made \in Line(ext, made) /\ k \in Line(ext, made)
      BY <1>1, LineFacts DEF UpClosed
    <2>5. Line(ext, k) \subseteq Line(ext, made)
      BY <1>1, <2>4, LineBelow
    <2> QED
      BY <1>2, <2>3, <2>4, <2>5 DEF S
  <1> QED
    BY <1>2, <1>3 DEF ext

-----------------------------------------------------------------------------
(* What the climbs do to a player that is in one place, or in none.        *)

Listed(pl, p) == {g \in DOMAIN pl : p \in pl[g]}

\* A player no group lists is listed afterwards by the groups of the line.
LEMMA AddPlayerListed ==
  ASSUME NEW par, NEW g \in DOMAIN par, NEW pl, DOMAIN pl = DOMAIN par, NEW p,
         Listed(pl, p) = {}
  PROVE  LET made == AddPlayerNApplyParent(par, pl, g, p) IN
         /\ DOMAIN made = DOMAIN par
         /\ Listed(made, p) = Line(par, g)
         /\ \A q : q # p => Listed(made, q) = Listed(pl, q)
         /\ \A a \in DOMAIN par : pl[a] \subseteq made[a] /\ made[a] \subseteq pl[a] \cup {p}
  BY LineFacts DEF AddPlayerNApplyParent, Passed, Listed

\* A player listed by exactly one line, that of g, is listed nowhere after.
LEMMA RemovePlayerListed ==
  ASSUME NEW par, NEW g \in DOMAIN par, NEW pl, DOMAIN pl = DOMAIN par, NEW p,
         Listed(pl, p) = Line(par, g)
  PROVE  LET made == RemovePlayerNApplyParent(par, pl, g, p) IN
         /\ DOMAIN made = DOMAIN par
         /\ Listed(made, p) = {}
         /\ \A q : q # p => Listed(made, q) = Listed(pl, q)
         /\ \A a \in DOMAIN par : made[a] = pl[a] \ {p}
  BY LineFacts DEF RemovePlayerNApplyParent, Passed, Listed

\* GetChildFromPlayer finds the group whose line lists the player.
LEMMA PlaceFound ==
  ASSUME DOMAIN players = groups, NEW p, NEW h \in groups,
         Listed(players, p) = Line(parent, h)
  PROVE  PlacesOf(p) \subseteq {h}
  <1> SUFFICES ASSUME NEW g \in PlacesOf(p), g # h
               PROVE  FALSE
    OBVIOUS
  <1>1. g \in groups /\ g \in Line(parent, h)
    BY LineFacts DEF PlacesOf, Listed, groups
  <1>2. PICK c \in Line(parent, h) : parent[c] = g
    BY <1>1, LineChild DEF groups
  <1>3. c \in Children(parent, g) /\ p \in players[c]
    BY <1>2 DEF Children, Listed, groups
  <1> QED
    BY <1>3 DEF PlacesOf


-----------------------------------------------------------------------------
(* The inductive invariant.                                                *)

\* The waiting group is below the root, and every other group has its parent
\* for a viewer.
TreeShape ==
  /\ parent[Root] = NoGroup /\ parent[Wait] = Root
  /\ \A g \in groups : parent[g] \in groups => parent[g] \in viewers[g]

\* InnerOnlyWaiting, of the group whose line lists the player.
InnerListed ==
  \A p \in sessions : \A h \in groups \ {Wait} :
    Listed(players, p) = Line(parent, h) => Children(parent, h) = {}

TreeInv == TreeTypeOK /\ TreeShape /\ OnePlace /\ InnerListed /\ MoveAnnounced

\* OnePlace in terms of Listed.
LEMMA OnePlaceListed ==
  ASSUME TreeTypeOK
  PROVE  OnePlace <=> \A p \in Player :
           IF p \in sessions
           THEN \E g \in groups : Listed(players, p) = Line(parent, g)
           ELSE Listed(players, p) = {}
  BY DEF TreeTypeOK, OnePlace, Listed

\* Only sessions are listed.
LEMMA ListedAreSessions ==
  ASSUME TreeTypeOK, OnePlace
  PROVE  \A g \in groups : players[g] \subseteq sessions
  BY DEF TreeTypeOK, OnePlace

\* The place GetChildFromPlayer finds is the one whose line lists the player.
LEMMA PlaceListed ==
  ASSUME TreeTypeOK, OnePlace, NEW p \in sessions, NEW g \in PlacesOf(p)
  PROVE  g \in groups /\ Listed(players, p) = Line(parent, g)
  <1>1. p \in Player /\ DOMAIN players = groups
    BY DEF TreeTypeOK
  <1>2. PICK h \in groups : Listed(players, p) = Line(parent, h)
    BY <1>1, OnePlaceListed
  <1>3. g = h
    BY <1>1, <1>2, PlaceFound
  <1> QED
    BY <1>2, <1>3

\* A group with no children is on no other group's line.
LEMMA LeafLine ==
  ASSUME NEW par, NEW g \in DOMAIN par, Children(par, g) = {},
         NEW h \in DOMAIN par, g \in Line(par, h)
  PROVE  h = g
  <1> SUFFICES ASSUME h # g
               PROVE  FALSE
    OBVIOUS
  <1>1. PICK c \in Line(par, h) : par[c] = g
    BY LineChild
  <1> QED
    BY <1>1, LineFacts DEF Children

\* A packet sent to a leaf and its viewers, its parent among them, reaches
\* every leaf below the parent.
LEMMA LeafAnnounced ==
  ASSUME NEW par, NEW pl, NEW vw, NEW to \in DOMAIN par,
         Children(par, to) = {},
         par[to] \in DOMAIN par => par[to] \in vw[to],
         NEW l \in Leaves(par, par[to])
  PROVE  pl[l] \subseteq SendTargetViewer(par, pl, vw, to)
  <1>1. CASE l = to
    BY <1>1 DEF SendTargetViewer
  <1>2. CASE l # to
    <2>1. l \in DOMAIN par /\ par[to] \in Line(par, l)
      BY DEF Leaves
    <2>2. par[to] \in vw[to]
      BY <2>1, LineFacts
    <2>3. to \notin Line(par, l)
      BY <1>2, <2>1, LeafLine
    <2>4. pl[l] \subseteq SendViewerRecursive(par, pl, par[to], to)
      BY <2>3 DEF SendViewerRecursive
    <2> QED
      BY <2>2, <2>4 DEF SendTargetViewer
  <1> QED
    BY <1>1, <1>2

\* A packet reaches nobody that no group lists.
LEMMA AnnouncedListed ==
  ASSUME NEW par, NEW pl, NEW vw, NEW to \in DOMAIN par, NEW S,
         \A g \in DOMAIN par : pl[g] \subseteq S
  PROVE  SendTargetViewer(par, pl, vw, to) \subseteq S
  BY DEF SendTargetViewer, SendViewerRecursive, Leaves

-----------------------------------------------------------------------------
(* Every step keeps the invariant.                                         *)

\* The empty tree has the invariant.
LEMMA InitInv ==
  TreeInit => TreeInv
  <1> SUFFICES ASSUME TreeInit
               PROVE  TreeInv
    OBVIOUS
  <1>1. TreeTypeOK
    BY GroupConstants DEF TreeInit, TreeTypeOK, groups
  <1>2. TreeShape
    BY GroupConstants DEF TreeInit, TreeShape, groups
  <1>3. OnePlace /\ InnerListed
    BY DEF TreeInit, OnePlace, InnerListed, groups
  <1>4. MoveAnnounced
    BY DEF TreeInit, MoveAnnounced
  <1> QED
    BY <1>1, <1>2, <1>3, <1>4 DEF TreeInv

\* The line of the waiting group is itself and the root; no other group has it.
LEMMA WaitLine ==
  ASSUME TreeTypeOK, TreeShape
  PROVE  /\ Line(parent, Wait) \subseteq {Wait, Root}
         /\ \A h \in groups : Line(parent, h) = Line(parent, Wait) => h = Wait
  <1>1. /\ Root \in groups /\ Wait \in groups
        /\ NoGroup \notin groups /\ Root # Wait
    BY GroupConstants DEF TreeTypeOK
  <1>2. UpClosed(parent, {Wait, Root}) /\ UpClosed(parent, {Root})
    BY <1>1 DEF UpClosed, TreeShape, groups
  <1>3. Line(parent, Wait) \subseteq {Wait, Root}
    BY <1>1, <1>2, LineFacts DEF groups
  <1>4. Line(parent, Root) \subseteq {Root}
    BY <1>1, <1>2, LineFacts DEF groups
  <1>5. \A h \in groups : h \in Line(parent, h)
    BY LineFacts DEF groups
  <1> QED
    BY <1>1, <1>3, <1>4, <1>5

\* Every session has its place.
LEMMA PlaceExists ==
  ASSUME TreeTypeOK, TreeShape, OnePlace, InnerListed, NEW p \in sessions
  PROVE  PlacesOf(p) # {}
  <1>1. DOMAIN players = DOMAIN parent
    BY DEF TreeTypeOK, groups
  <1>2. PICK h \in groups : Listed(players, p) = Line(parent, h)
    BY OnePlaceListed DEF TreeTypeOK
  <1>3. \A a \in Line(parent, h) : p \in players[a]
    BY <1>2 DEF Listed
  <1>4. \A c \in Children(parent, h) : p \notin players[c]
    <2>1. CASE h # Wait
      BY <1>2, <2>1 DEF InnerListed
    <2>2. CASE h = Wait
      <3>1. \A c \in Children(parent, h) : c \notin {Wait, Root}
        BY <2>2, GroupConstants DEF Children, TreeShape
      <3> QED
        BY <1>1, <1>2, <2>2, <3>1, WaitLine DEF Listed, Children
    <2> QED
      BY <2>1, <2>2
  <1> QED
    BY <1>3, <1>4 DEF PlacesOf

\* A session that joins is listed by the waiting group's line, and nobody moves.
LEMMA AddSessionInv ==
  ASSUME TreeInv, NEW p \in Player, AddSession(p)
  PROVE  TreeInv'
  <1>1. TreeTypeOK /\ TreeShape /\ OnePlace /\ InnerListed
    BY DEF TreeInv
  <1>2. /\ p \notin sessions /\ sessions' = sessions \cup {p}
        /\ UNCHANGED <<parent, viewers>> /\ groups' = groups
    BY <1>1 DEF AddSession, TreeTypeOK, groups
  <1>3. Wait \in DOMAIN parent /\ DOMAIN players = DOMAIN parent
    BY <1>1 DEF TreeTypeOK, groups
  <1>4. Listed(players, p) = {}
    BY <1>1, <1>2, OnePlaceListed
  <1>5. players' = AddPlayerNApplyParent(parent, players, Wait, p)
    BY DEF AddSession
  <1>6. /\ DOMAIN players' = groups
        /\ Listed(players', p) = Line(parent, Wait)
        /\ \A q : q # p => Listed(players', q) = Listed(players, q)
        /\ \A a \in groups : players'[a] \subseteq players[a] \cup {p}
    BY <1>3, <1>4, <1>5, AddPlayerListed DEF groups
  <1>7. TreeTypeOK'
    <2>1. players' \in [groups -> SUBSET Player]
      <3>1. \A a \in groups : players'[a] \in SUBSET Player
        BY <1>1, <1>6 DEF TreeTypeOK
      <3>2. players' = [a \in DOMAIN players' |-> players'[a]]
        BY <1>5 DEF AddPlayerNApplyParent
      <3> QED
        BY <1>6, <3>1, <3>2
    <2> QED
      BY <1>1, <1>2, <2>1 DEF TreeTypeOK, AddSession
  <1>8. OnePlace'
    <2>1. \A q \in Player :
            IF q \in sessions'
            THEN \E g \in groups' : Listed(players', q) = Line(parent', g)
            ELSE Listed(players', q) = {}
      BY <1>1, <1>2, <1>3, <1>6, OnePlaceListed DEF groups
    <2> QED
      BY <1>2, <1>6, <2>1 DEF OnePlace, Listed
  <1>9. InnerListed'
    <2> SUFFICES ASSUME NEW q \in sessions', NEW h \in groups \ {Wait},
                        Listed(players', q) = Line(parent, h)
                 PROVE  Children(parent, h) = {}
      BY <1>2 DEF InnerListed
    <2>1. CASE q = p
      BY <1>1, <1>6, <2>1, WaitLine
    <2>2. CASE q # p
      BY <1>1, <1>2, <1>6, <2>2 DEF InnerListed
    <2> QED
      BY <2>1, <2>2
  <1>10. TreeShape' /\ MoveAnnounced'
    BY <1>1, <1>2 DEF TreeShape, MoveAnnounced, AddSession
  <1> QED
    BY <1>7, <1>8, <1>9, <1>10 DEF TreeInv

\* A session that leaves is listed nowhere, and nobody moves.
LEMMA LeaveServerInv ==
  ASSUME TreeInv, NEW p \in Player, LeaveServer(p)
  PROVE  TreeInv'
  <1>1. TreeTypeOK /\ TreeShape /\ OnePlace /\ InnerListed
    BY DEF TreeInv
  <1>2. /\ p \in sessions /\ sessions' = sessions \ {p}
        /\ UNCHANGED <<arrived, parent, viewers>> /\ groups' = groups
        /\ moved' = NoMove /\ told' = {}
    BY DEF LeaveServer, groups
  <1>3. DOMAIN players = DOMAIN parent
    BY <1>1 DEF TreeTypeOK, groups
  <1>4. PICK h \in PlacesOf(p) :
          players' = RemovePlayerNApplyParent(parent, players, h, p)
    BY <1>1, <1>2, PlaceExists DEF LeaveServer
  <1>5. h \in groups /\ Listed(players, p) = Line(parent, h)
    BY <1>1, <1>2, <1>4, PlaceListed
  <1>6. /\ DOMAIN players' = groups
        /\ Listed(players', p) = {}
        /\ \A q : q # p => Listed(players', q) = Listed(players, q)
        /\ \A a \in groups : players'[a] = players[a] \ {p}
    BY <1>3, <1>4, <1>5, RemovePlayerListed DEF groups
  <1>7. TreeTypeOK'
    <2>1. players' \in [groups -> SUBSET Player]
      <3>1. \A a \in groups : players'[a] \in SUBSET Player
        BY <1>1, <1>6 DEF TreeTypeOK
      <3>2. players' = [a \in DOMAIN players' |-> players'[a]]
        BY <1>4 DEF RemovePlayerNApplyParent
      <3> QED
        BY <1>6, <3>1, <3>2
    <2> QED
      BY <1>1, <1>2, <2>1 DEF TreeTypeOK
  <1>8. OnePlace'
    <2>1. \A q \in Player :
            IF q \in sessions'
            THEN \E g \in groups' : Listed(players', q) = Line(parent', g)
            ELSE Listed(players', q) = {}
      BY <1>1, <1>2, <1>6, OnePlaceListed
    <2> QED
      BY <1>2, <1>6, <2>1 DEF OnePlace, Listed
  <1>9. InnerListed'
    BY <1>1, <1>2, <1>6 DEF InnerListed
  <1>10. TreeShape' /\ MoveAnnounced'
    BY <1>1, <1>2 DEF TreeShape, MoveAnnounced
  <1> QED
    BY <1>7, <1>8, <1>9, <1>10 DEF TreeInv

\* A move to a terminal group, which stays one.
LEMMA ReqGroupJoinInv ==
  ASSUME TreeInv, NEW p \in Player, NEW from \in groups, NEW to \in groups,
         ReqGroupJoin(p, from, to)
  PROVE  TreeInv'
  <1>1. TreeTypeOK /\ TreeShape /\ OnePlace /\ InnerListed
    BY DEF TreeInv
  <1>2. /\ p \in sessions /\ from \in PlacesOf(p)
        /\ Children(parent, to) = {}
        /\ UNCHANGED <<sessions, arrived, parent, viewers>> /\ groups' = groups
        /\ moved' = [who |-> p, to |-> to]
    BY DEF ReqGroupJoin, IsTerminal, groups
  <1>3. DOMAIN players = DOMAIN parent
    BY <1>1 DEF TreeTypeOK, groups
  <1>4. Listed(players, p) = Line(parent, from)
    BY <1>1, <1>2, PlaceListed
  <1> DEFINE out == RemovePlayerNApplyParent(parent, players, from, p)
  <1>5. /\ DOMAIN out = DOMAIN parent
        /\ Listed(out, p) = {}
        /\ \A q : q # p => Listed(out, q) = Listed(players, q)
        /\ \A a \in groups : out[a] = players[a] \ {p}
    BY <1>3, <1>4, RemovePlayerListed DEF groups
  <1>6. players' = AddPlayerNApplyParent(parent, out, to, p)
    BY DEF ReqGroupJoin
  <1> HIDE DEF out
  <1>7. /\ DOMAIN players' = groups
        /\ Listed(players', p) = Line(parent, to)
        /\ \A q : q # p => Listed(players', q) = Listed(players, q)
        /\ \A a \in groups : players'[a] \subseteq players[a] \cup {p}
    BY <1>5, <1>6, AddPlayerListed DEF groups
  <1>8. players' \in [groups -> SUBSET Player]
    <2>1. \A a \in groups : players'[a] \in SUBSET Player
      BY <1>1, <1>7 DEF TreeTypeOK
    <2>2. players' = [a \in DOMAIN players' |-> players'[a]]
      BY <1>6 DEF AddPlayerNApplyParent
    <2> QED
      BY <1>7, <2>1, <2>2
  <1>9. OnePlace'
    <2>1. \A q \in Player :
            IF q \in sessions
            THEN \E g \in groups : Listed(players', q) = Line(parent, g)
            ELSE Listed(players', q) = {}
      BY <1>1, <1>2, <1>7, OnePlaceListed
    <2> QED
      BY <1>2, <1>7, <2>1 DEF OnePlace, Listed
  <1>10. \A g \in groups : players'[g] \subseteq sessions
    BY <1>1, <1>2, <1>7, ListedAreSessions
  <1>11. told' = SendTargetViewer(parent, players', viewers, to)
                 \cup SendTargetViewer(parent, players', viewers, from)
    BY DEF ReqGroupJoin
  <1>12. TreeTypeOK'
    <2>1. told' \subseteq sessions
      BY <1>10, <1>11, AnnouncedListed DEF groups
    <2>2. moved' \in [who : sessions, to : groups]
      BY <1>2
    <2> QED
      BY <1>1, <1>2, <1>8, <2>1, <2>2 DEF TreeTypeOK
  <1>13. InnerListed'
    <2> SUFFICES ASSUME NEW q \in sessions, NEW h \in groups \ {Wait},
                        Listed(players', q) = Line(parent, h)
                 PROVE  Children(parent, h) = {}
      BY <1>2 DEF InnerListed
    <2>1. CASE q = p
      <3>1. to \in Line(parent, h)
        BY <1>7, <2>1, LineFacts DEF groups
      <3>2. h = to
        BY <1>2, <3>1, LeafLine DEF groups
      <3> QED
        BY <1>2, <3>2
    <2>2. CASE q # p
      BY <1>1, <1>7, <2>2 DEF InnerListed
    <2> QED
      BY <2>1, <2>2
  <1>14. MoveAnnounced'
    <2>1. p \in players'[to]
      BY <1>7, LineFacts DEF Listed, groups
    <2>2. p \in told'
      BY <1>11, <2>1 DEF SendTargetViewer
    <2>3. \A l \in Leaves(parent, parent[to]) : players'[l] \subseteq told'
      BY <1>1, <1>2, <1>11, LeafAnnounced DEF TreeShape, groups
    <2> QED
      BY <1>2, <2>2, <2>3 DEF MoveAnnounced
  <1>15. TreeShape'
    BY <1>1, <1>2 DEF TreeShape
  <1> QED
    BY <1>9, <1>12, <1>13, <1>14, <1>15 DEF TreeInv

\* What a new, blank group does to the tree.
LEMMA BlankGroup ==
  ASSUME TreeTypeOK, TreeShape, NEW g, NEW made, CreateBlankGroup(g, made)
  PROVE  /\ g \in groups /\ made \notin groups /\ made \in Group
         /\ groups' = groups \cup {made}
         /\ parent' \in [groups' -> groups' \cup {NoGroup}]
         /\ viewers' \in [groups' -> SUBSET groups']
         /\ parent'[made] = g
         /\ \A h \in groups : Line(parent', h) = Line(parent, h)
         /\ Children(parent', made) = {}
         /\ \A h \in groups \ {g} : Children(parent', h) = Children(parent, h)
         /\ TreeShape'
  <1>1. /\ made \in Group \ groups /\ g \in groups
        /\ parent' = Extend(parent, made, g)
        /\ viewers' = Extend(viewers, made, {g})
    BY DEF CreateBlankGroup, AddChild
  <1>2. /\ groups' = groups \cup {made}
        /\ parent'[made] = g /\ viewers'[made] = {g}
        /\ \A h \in groups : parent'[h] = parent[h] /\ viewers'[h] = viewers[h]
    BY <1>1 DEF Extend, groups, TreeTypeOK
  <1>3. \A h \in groups : parent[h] # made
    BY <1>1, GroupConstants DEF TreeTypeOK
  <1>4. /\ parent' \in [groups' -> groups' \cup {NoGroup}]
        /\ viewers' \in [groups' -> SUBSET groups']
    BY <1>1, <1>2 DEF TreeTypeOK, Extend, groups
  <1>5. \A h \in groups : Line(parent', h) = Line(parent, h)
    BY <1>1, <1>3, LineExtend DEF groups
  <1>6. /\ Children(parent', made) = {}
        /\ \A h \in groups \ {g} : Children(parent', h) = Children(parent, h)
    BY <1>1, <1>2, <1>3 DEF Children, groups
  <1>7. TreeShape'
    BY <1>1, <1>2, <1>3 DEF TreeShape, TreeTypeOK
  <1> QED
    BY <1>1, <1>2, <1>4, <1>5, <1>6, <1>7

\* The players, with an empty list for a new group.
LEMMA BlankPlayers ==
  ASSUME TreeTypeOK, NEW made, made \notin groups
  PROVE  LET blank == Extend(players, made, {}) IN
         /\ blank \in [groups \cup {made} -> SUBSET Player]
         /\ \A q : Listed(blank, q) = Listed(players, q)
         /\ \A a \in groups : blank[a] = players[a]
  BY DEF TreeTypeOK, Extend, Listed, groups

\* A player whose place had no children keeps it when another group gets one.
LEMMA InnerKept ==
  ASSUME TreeTypeOK, TreeShape, InnerListed, NEW g, NEW made,
         CreateBlankGroup(g, made),
         NEW q \in sessions, NEW h \in groups' \ {Wait},
         Listed(players, q) = Line(parent', h)
  PROVE  Children(parent', h) = {}
  <1>1. h \in groups
    <2>1. Listed(players, q) \subseteq groups
      BY DEF Listed, TreeTypeOK
    <2>2. h \in Line(parent', h)
      BY LineFacts DEF groups
    <2> QED
      BY <2>1, <2>2
  <1>2. Listed(players, q) = Line(parent, h)
    BY <1>1, BlankGroup
  <1>3. Children(parent, h) = {} /\ h # g
    <2>1. Children(parent, h) = {}
      BY <1>1, <1>2 DEF InnerListed
    <2>2. q \in players[h]
      BY <1>1, <1>2, LineFacts DEF Listed, groups
    <2> QED
      BY <2>1, <2>2 DEF CreateBlankGroup, AddChild, IsTerminal
  <1> QED
    BY <1>1, <1>3, BlankGroup

\* A new group nobody is in.
LEMMA ReqGroupCreateBlankInv ==
  ASSUME TreeInv, NEW p \in Player, NEW g \in groups, NEW made,
         ReqGroupCreateBlank(p, g, made)
  PROVE  TreeInv'
  <1>1. TreeTypeOK /\ TreeShape /\ OnePlace /\ InnerListed
    BY DEF TreeInv
  <1>2. /\ CreateBlankGroup(g, made)
        /\ players' = Extend(players, made, {})
        /\ UNCHANGED <<sessions, arrived>> /\ moved' = NoMove
        /\ told' = SendTargetViewer(parent', players', viewers', made)
    BY DEF ReqGroupCreateBlank
  <1>3. /\ made \notin groups /\ made \in Group /\ groups' = groups \cup {made}
        /\ parent' \in [groups' -> groups' \cup {NoGroup}]
        /\ viewers' \in [groups' -> SUBSET groups']
        /\ \A h \in groups : Line(parent', h) = Line(parent, h)
        /\ TreeShape'
    BY <1>1, <1>2, BlankGroup
  <1>4. /\ players' \in [groups' -> SUBSET Player]
        /\ \A q : Listed(players', q) = Listed(players, q)
    BY <1>1, <1>2, <1>3, BlankPlayers
  <1>5. OnePlace'
    <2>1. \A q \in Player :
            IF q \in sessions
            THEN \E h \in groups' : Listed(players', q) = Line(parent', h)
            ELSE Listed(players', q) = {}
      BY <1>1, <1>3, <1>4, OnePlaceListed
    <2> QED
      BY <1>2, <1>4, <2>1 DEF OnePlace, Listed
  <1>6. TreeTypeOK'
    <2>1. \A h \in groups' : players'[h] \subseteq sessions
      BY <1>2, <1>4, <1>5 DEF OnePlace
    <2>2. told' \subseteq sessions
      BY <1>2, <1>3, <2>1, AnnouncedListed DEF groups
    <2> QED
      BY <1>1, <1>2, <1>3, <1>4, <2>2 DEF TreeTypeOK
  <1>7. InnerListed'
    BY <1>1, <1>2, <1>4, InnerKept DEF InnerListed
  <1>8. MoveAnnounced'
    BY <1>2 DEF MoveAnnounced
  <1> QED
    BY <1>3, <1>5, <1>6, <1>7, <1>8 DEF TreeInv

\* A move to a new group.
LEMMA ReqGroupCreateInv ==
  ASSUME TreeInv, NEW p \in Player, NEW from \in groups, NEW g \in groups,
         NEW made, ReqGroupCreate(p, from, g, made)
  PROVE  TreeInv'
  <1>1. TreeTypeOK /\ TreeShape /\ OnePlace /\ InnerListed
    BY DEF TreeInv
  <1> DEFINE blank == Extend(players, made, {})
             out == RemovePlayerNApplyParent(parent', blank, from, p)
  <1>2. /\ CreateBlankGroup(g, made)
        /\ p \in sessions /\ from \in PlacesOf(p)
        /\ players' = AddPlayerNApplyParent(parent', out, made, p)
        /\ UNCHANGED <<sessions, arrived>> /\ moved' = [who |-> p, to |-> made]
        /\ told' = SendTargetViewer(parent', players', viewers', made)
    BY DEF ReqGroupCreate
  <1>3. /\ made \notin groups /\ made \in Group /\ groups' = groups \cup {made}
        /\ parent' \in [groups' -> groups' \cup {NoGroup}]
        /\ viewers' \in [groups' -> SUBSET groups']
        /\ \A h \in groups : Line(parent', h) = Line(parent, h)
        /\ Children(parent', made) = {}
        /\ TreeShape'
    BY <1>1, <1>2, BlankGroup
  <1>4. /\ blank \in [groups' -> SUBSET Player]
        /\ \A q : Listed(blank, q) = Listed(players, q)
    BY <1>1, <1>3, BlankPlayers
  <1>5. Listed(blank, p) = Line(parent', from)
    BY <1>1, <1>2, <1>3, <1>4, PlaceListed
  <1>6. DOMAIN blank = DOMAIN parent' /\ from \in DOMAIN parent'
    BY <1>3, <1>4
  <1> HIDE DEF blank
  <1>7. /\ DOMAIN out = DOMAIN parent'
        /\ Listed(out, p) = {}
        /\ \A q : q # p => Listed(out, q) = Listed(blank, q)
        /\ \A a \in groups' : out[a] = blank[a] \ {p}
    BY <1>5, <1>6, RemovePlayerListed DEF groups
  <1> HIDE DEF out
  <1>8. /\ DOMAIN players' = groups'
        /\ Listed(players', p) = Line(parent', made)
        /\ \A q : q # p => Listed(players', q) = Listed(players, q)
        /\ \A a \in groups' : players'[a] \subseteq blank[a] \cup {p}
    <2>1. groups' = DOMAIN parent' /\ made \in DOMAIN parent'
      BY <1>3 DEF groups
    <2>2. players' = AddPlayerNApplyParent(parent', out, made, p)
      BY <1>2
    <2>3. /\ DOMAIN players' = DOMAIN parent'
          /\ Listed(players', p) = Line(parent', made)
          /\ \A q : q # p => Listed(players', q) = Listed(out, q)
          /\ \A a \in DOMAIN parent' : players'[a] \subseteq out[a] \cup {p}
      BY <1>7, <2>1, <2>2, AddPlayerListed
    <2> QED
      BY <1>4, <1>7, <2>1, <2>3
  <1>9. players' \in [groups' -> SUBSET Player]
    <2>1. \A a \in groups' : players'[a] \in SUBSET Player
      BY <1>4, <1>8
    <2>2. players' = [a \in DOMAIN players' |-> players'[a]]
      BY <1>2 DEF AddPlayerNApplyParent
    <2> QED
      BY <1>8, <2>1, <2>2
  <1>10. OnePlace'
    <2>1. \A q \in Player :
            IF q \in sessions
            THEN \E h \in groups' : Listed(players', q) = Line(parent', h)
            ELSE Listed(players', q) = {}
      BY <1>1, <1>2, <1>3, <1>8, OnePlaceListed
    <2> QED
      BY <1>2, <1>8, <2>1 DEF OnePlace, Listed
  <1>11. TreeTypeOK'
    <2>1. \A h \in groups' : players'[h] \subseteq sessions
      BY <1>2, <1>9, <1>10 DEF OnePlace
    <2>2. told' \subseteq sessions
      BY <1>2, <1>3, <2>1, AnnouncedListed DEF groups
    <2>3. moved' \in [who : sessions, to : groups']
      BY <1>2, <1>3
    <2> QED
      BY <1>1, <1>2, <1>3, <1>9, <2>2, <2>3 DEF TreeTypeOK
  <1>12. InnerListed'
    <2> SUFFICES ASSUME NEW q \in sessions, NEW h \in groups' \ {Wait},
                        Listed(players', q) = Line(parent', h)
                 PROVE  Children(parent', h) = {}
      BY <1>2 DEF InnerListed
    <2>1. CASE q = p
      <3>1. made \in Line(parent', h) /\ made \in groups'
        BY <1>3, <1>8, <2>1, LineFacts DEF groups
      <3>2. h = made
        BY <1>3, <3>1, LeafLine DEF groups
      <3> QED
        BY <1>3, <3>2
    <2>2. CASE q # p
      BY <1>1, <1>2, <1>8, <2>2, InnerKept
    <2> QED
      BY <2>1, <2>2
  <1>13. MoveAnnounced'
    <2>1. made \in DOMAIN parent'
      BY <1>3
    <2>2. p \in told'
      <3>1. p \in players'[made]
        BY <1>8, <2>1, LineFacts DEF Listed
      <3> QED
        BY <1>2, <3>1 DEF SendTargetViewer
    <2>3. \A l \in Leaves(parent', parent'[made]) : players'[l] \subseteq told'
      BY <1>2, <1>3, <2>1, LeafAnnounced DEF TreeShape, groups
    <2> QED
      BY <1>2, <2>2, <2>3 DEF MoveAnnounced
  <1> QED
    BY <1>3, <1>10, <1>11, <1>12, <1>13 DEF TreeInv

-----------------------------------------------------------------------------
(* The theorems.                                                           *)

\* The invariant is inductive.
LEMMA StepInv ==
  TreeInv /\ [TreeNext]_treeVars => TreeInv'
  <1> SUFFICES ASSUME TreeInv, [TreeNext]_treeVars
               PROVE  TreeInv'
    OBVIOUS
  <1>1. CASE TreeNext
    BY <1>1, AddSessionInv, LeaveServerInv, ReqGroupJoinInv,
       ReqGroupCreateInv, ReqGroupCreateBlankInv DEF TreeNext
  <1>2. CASE UNCHANGED treeVars
    BY <1>2 DEF treeVars, TreeInv, TreeTypeOK, TreeShape, OnePlace, InnerListed,
                MoveAnnounced, Listed, groups
  <1> QED
    BY <1>1, <1>2

\* The invariant implies the properties.
LEMMA InvImplies ==
  TreeInv => TreeTypeOK /\ OnePlace /\ InnerOnlyWaiting /\ MoveAnnounced
  <1> SUFFICES ASSUME TreeInv
               PROVE  InnerOnlyWaiting
    BY DEF TreeInv
  <1>1. \A p \in sessions : \A g \in PlacesOf(p) :
          g \in groups /\ Listed(players, p) = Line(parent, g)
    BY PlaceListed DEF TreeInv
  <1> QED
    BY <1>1 DEF TreeInv, InnerListed, InnerOnlyWaiting

\* The fields of CGroup keep their types, and the tree its parents.
THEOREM TreeTypeCorrect ==
  TreeSpec => []TreeTypeOK
  BY InitInv, StepInv, InvImplies, PTL DEF TreeSpec

\* AddPlayer and RemovePlayer, climbing to the root, keep every session in the
\* groups of one line, and take it out of all of them when it leaves.
THEOREM EveryoneHasOnePlace ==
  TreeSpec => []OnePlace
  BY InitInv, StepInv, InvImplies, PTL DEF TreeSpec

\* Only the waiting group has players of its own next to groups below it.
THEOREM OnlyWaitingIsMixed ==
  TreeSpec => []InnerOnlyWaiting
  BY InitInv, StepInv, InvImplies, PTL DEF TreeSpec

\* The announcement of a move reaches every leaf below the parent of the new
\* group.
THEOREM MovesAreAnnounced ==
  TreeSpec => []MoveAnnounced
  BY InitInv, StepInv, InvImplies, PTL DEF TreeSpec
=============================================================================
