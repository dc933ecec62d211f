------------------------------ MODULE FarmProofs ------------------------------
(***************************************************************************)
(* What the farm server announces is bound, for any number of sub servers, *)
(* types and ports.                                                        *)
(***************************************************************************)
EXTENDS Farm, QueuesProofs, SequenceTheorems

Plugs == Type \cup {Client}

-----------------------------------------------------------------------------
(* The ports that are handed out.                                          *)

\* The values of a function on a finite set are finitely many.
LEMMA FiniteValues ==
  ASSUME NEW f, IsFiniteSet(DOMAIN f)
  PROVE  IsFiniteSet(Range(f))
<1>1. [y \in DOMAIN f |-> f[y]] \in Surjection(DOMAIN f, Range(f))
  BY DEF Surjection, Range
<1> QED BY <1>1, FS_Surjection

\* A port that a sub server does not hold is found among as many as it holds
\* and one more.
LEMMA NextPortExists ==
  ASSUME NEW H, IsFiniteSet(H), NEW n \in Nat
  PROVE  /\ Cardinality(H) \in Nat
         /\ \E k \in n..(n + Cardinality(H)) : k \notin H /\ \A j \in n..(k - 1) : j \in H
<1> DEFINE c == Cardinality(H)
           I == n..(n + c)
           F == I \ H
<1>1. c \in Nat
  BY FS_CardinalityType
<1>2. F # {}
  <2> SUFFICES ASSUME I \subseteq H PROVE FALSE
    OBVIOUS
  <2>1. IsFiniteSet(I) /\ Cardinality(I) = c + 1
    BY <1>1, FS_Interval
  <2>2. Cardinality(I) <= c
    BY FS_Subset
  <2> QED BY <1>1, <2>1, <2>2
<1>3. F \in SUBSET Nat
  BY <1>1
<1>4. PICK k \in F : \A j \in F : k <= j
  BY <1>2, <1>3, LeastOf
<1>5. \A j \in n..(k - 1) : j \in H
  BY <1>1, <1>4
<1> QED BY <1>1, <1>4, <1>5

LEMMA NextPortType ==
  ASSUME NEW r, NEW x, IsFiniteSet(DOMAIN port[r]), NEW n \in Nat
  PROVE  NextPort(r, x, n) \in Nat
<1> DEFINE H == Held(r, x)
<1>1. H \subseteq Range(port[r])
  BY DEF Held, Range
<1>2. IsFiniteSet(H)
  BY <1>1, FiniteValues, FS_Subset
<1> HIDE DEF H
<1>3. /\ Cardinality(H) \in Nat
      /\ \E k \in n..(n + Cardinality(H)) : k \notin H /\ \A j \in n..(k - 1) : j \in H
  BY <1>2, NextPortExists
<1>4. NextPort(r, x, n) \in n..(n + Cardinality(H))
  BY <1>3 DEF NextPort, H
<1> QED BY <1>3, <1>4

-----------------------------------------------------------------------------
\* The recursion over the members of a group is defined: of the lengths for
\* which it is not there would be a least one.
LEMMA PassExists ==
  ASSUME NEW S, NEW q \in Seq(S), NEW x
  PROVE  \E f : f = [i \in 0..Len(q) |-> IF i = 0 THEN 1 ELSE NextPort(q[i], x, f[i - 1])]
<1> DEFINE Fits(f, n) == f = [i \in 0..n |-> IF i = 0 THEN 1 ELSE NextPort(q[i], x, f[i - 1])]
           Bad == {n \in 0..Len(q) : ~\E f : Fits(f, n)}
<1>1. Len(q) \in Nat
  OBVIOUS
<1>2. SUFFICES ASSUME Bad # {} PROVE FALSE
  BY <1>1
<1>3. Bad \in SUBSET Nat
  BY <1>1
<1>4. PICK n \in Bad : \A m \in Bad : n <= m
  <2> HIDE DEF Bad
  <2> QED BY <1>2, <1>3, LeastOf
<1>5. n \in 0..Len(q)
  OBVIOUS
<1>6. CASE n = 0
  <2> DEFINE f == [i \in 0..0 |-> 1]
  <2>1. Fits(f, 0)
    OBVIOUS
  <2> QED BY <1>6, <2>1
<1>7. CASE n # 0
  <2>1. n - 1 \in 0..Len(q) /\ n - 1 \notin Bad
    BY <1>1, <1>4, <1>5, <1>7
  <2>2. PICK f : Fits(f, n - 1)
    BY <2>1
  <2> DEFINE e == NextPort(q[n], x, f[n - 1])
             g == [i \in 0..n |-> IF i < n THEN f[i] ELSE e]
             h == [i \in 0..n |-> IF i = 0 THEN 1 ELSE NextPort(q[i], x, g[i - 1])]
  <2>3. \A i \in 0..(n - 1) : f[i] = IF i = 0 THEN 1 ELSE NextPort(q[i], x, f[i - 1])
    BY <2>2
  <2> HIDE DEF e
  <2>4. ASSUME NEW i \in 0..n PROVE g[i] = h[i]
    <3>1. CASE i < n
      <4>1. g[i] = f[i] /\ (i # 0 => g[i - 1] = f[i - 1])
        BY <1>5, <3>1
      <4> QED BY <1>5, <2>3, <3>1, <4>1
    <3>2. CASE i = n
      <4>1. g[i] = e /\ g[i - 1] = f[i - 1]
        BY <1>5, <1>7, <3>2
      <4> QED BY <1>7, <3>2, <4>1 DEF e
    <3> QED BY <1>5, <3>1, <3>2
  <2>5. g = h
    BY <2>4
  <2> HIDE DEF g
  <2> QED BY <2>5
<1> QED BY <1>6, <1>7

LEMMA PortAfterType ==
  ASSUME NEW S, NEW q \in Seq(S), NEW x,
         \A r \in S : \A n \in Nat : NextPort(r, x, n) \in Nat
  PROVE  PortAfter(q, x) \in Nat
<1> DEFINE L == Len(q)
           Fits(f) == f = [i \in 0..L |-> IF i = 0 THEN 1 ELSE NextPort(q[i], x, f[i - 1])]
           pass == CHOOSE f : Fits(f)
           Bad == {i \in 0..L : pass[i] \notin Nat}
<1>1. L \in Nat /\ \A i \in 1..L : q[i] \in S
  OBVIOUS
<1>2. Fits(pass)
  BY PassExists
<1>3. PortAfter(q, x) = pass[L]
  BY DEF PortAfter
<1>4. \A i \in 0..L : pass[i] = IF i = 0 THEN 1 ELSE NextPort(q[i], x, pass[i - 1])
  BY <1>2
<1> HIDE DEF pass, L
<1>5. \A i \in 0..L : pass[i] \in Nat
  <2> SUFFICES ASSUME Bad # {} PROVE FALSE
    OBVIOUS
  <2>1. Bad \in SUBSET Nat
    BY <1>1
  <2>2. PICK n \in Bad : \A m \in Bad : n <= m
    <3> HIDE DEF Bad
    <3> QED BY <2>1, LeastOf
  <2>3. n \in 0..L /\ pass[n] \notin Nat
    OBVIOUS
  <2>4. n # 0
    BY <1>4, <2>3
  <2>5. n - 1 \in 0..L /\ n - 1 \notin Bad
    BY <1>1, <2>2, <2>3, <2>4
  <2>6. pass[n - 1] \in Nat
    BY <2>5
  <2>7. q[n] \in S
    BY <1>1, <2>3, <2>4
  <2>8. pass[n] = NextPort(q[n], x, pass[n - 1])
    BY <1>4, <2>3, <2>4
  <2>9. NextPort(q[n], x, pass[n - 1]) \in Nat
    BY <2>6, <2>7
  <2> QED BY <2>3, <2>8, <2>9
<1> HIDE DEF Bad
<1>6. L \in 0..L
  BY <1>1
<1> QED BY <1>3, <1>5, <1>6

-----------------------------------------------------------------------------
(* What is under way between the farm server and one sub server.  The      *)
(* messages of a track are answers to each other: there is one at a time.  *)

Hand == <<"hand", Client>>
Bind(x) == <<"bind", x>>
Track == {Hand} \cup {Bind(x) : x \in Plugs}

OfTrack(m, k) ==
  IF k[1] = "hand"
  THEN m.type \in {"login", "acklogin", "links", "acklinks"}
  ELSE m.type \in {"bindport", "ackport", "binddone"} /\ m.plug = k[2]

Some(q, k) == \E i \in 1..Len(q) : OfTrack(q[i], k)
Once(q, k) == \A i, j \in 1..Len(q) : OfTrack(q[i], k) /\ OfTrack(q[j], k) => i = j
Solo(a, b, k) == Once(a, k) /\ Once(b, k) /\ ~(Some(a, k) /\ Some(b, k))
None(a, b, k) == ~Some(a, k) /\ ~Some(b, k)

LEMMA TailElements ==
  ASSUME NEW S, NEW q \in Seq(S), q # <<>>
  PROVE  /\ Head(q) = q[1] /\ 1 \in 1..Len(q)
         /\ Tail(q) \in Seq(S)
         /\ \A i \in 1..Len(Tail(q)) : i + 1 \in 1..Len(q) /\ Tail(q)[i] = q[i + 1]
OBVIOUS

LEMMA ConcatElements ==
  ASSUME NEW S, NEW q \in Seq(S), NEW r \in Seq(S), NEW c, c = q \o r
  PROVE  /\ c \in Seq(S)
         /\ \A i \in 1..Len(c) :
              \/ i \in 1..Len(q) /\ c[i] = q[i]
              \/ \E j \in 1..Len(r) : i = Len(q) + j /\ c[i] = r[j]
<1>1. Len(c) = Len(q) + Len(r) /\ Len(q) \in Nat /\ Len(r) \in Nat
  OBVIOUS
<1>2. ASSUME NEW i \in 1..Len(c), i \notin 1..Len(q)
      PROVE  \E j \in 1..Len(r) : i = Len(q) + j /\ c[i] = r[j]
  <2>1. i - Len(q) \in 1..Len(r) /\ i = Len(q) + (i - Len(q))
    BY <1>1, <1>2
  <2>2. c[i] = r[i - Len(q)]
    BY <1>1, <1>2
  <2> QED BY <2>1, <2>2
<1>3. \A i \in 1..Len(q) : c[i] = q[i]
  BY <1>1
<1> QED BY <1>2, <1>3

\* A message that is taken was the only one of its track.
LEMMA TakeTrack ==
  ASSUME NEW S, NEW a \in Seq(S), a # <<>>, NEW b, NEW k, Solo(a, b, k)
  PROVE  /\ Solo(Tail(a), b, k)
         /\ Some(Tail(a), k) => Some(a, k)
         /\ OfTrack(Head(a), k) => None(Tail(a), b, k) /\ Some(a, k)
<1>1. /\ Head(a) = a[1] /\ 1 \in 1..Len(a)
      /\ \A i \in 1..Len(Tail(a)) : i + 1 \in 1..Len(a) /\ Tail(a)[i] = a[i + 1]
      /\ \A i \in 1..Len(Tail(a)) : i \in Nat
  BY TailElements
<1>2. Some(Tail(a), k) => Some(a, k)
  BY <1>1 DEF Some
<1>3. Once(Tail(a), k)
  BY <1>1 DEF Once, Solo
<1>4. OfTrack(Head(a), k) => ~Some(Tail(a), k)
  <2> SUFFICES ASSUME OfTrack(a[1], k), NEW i \in 1..Len(Tail(a)), OfTrack(Tail(a)[i], k)
               PROVE  FALSE
    BY <1>1 DEF Some
  <2>1. i + 1 = 1
    BY <1>1 DEF Once, Solo
  <2> QED BY <1>1, <2>1
<1>5. OfTrack(Head(a), k) => Some(a, k)
  BY <1>1 DEF Some
<1> QED BY <1>2, <1>3, <1>4, <1>5 DEF Solo, None

\* Messages that are sent are the only ones of their tracks.
LEMMA GiveTrack ==
  ASSUME NEW S, NEW b \in Seq(S), NEW ms \in Seq(S), NEW a, NEW k, Solo(a, b, k),
         Once(ms, k), Some(ms, k) => None(a, b, k), NEW c, c = b \o ms
  PROVE  /\ Solo(a, c, k)
         /\ Some(c, k) => Some(b, k) \/ Some(ms, k)
<1>1. \A i \in 1..Len(c) : \/ i \in 1..Len(b) /\ c[i] = b[i]
                           \/ \E j \in 1..Len(ms) : i = Len(b) + j /\ c[i] = ms[j]
  BY ConcatElements
<1>2. Some(c, k) => Some(b, k) \/ Some(ms, k)
  BY <1>1 DEF Some
<1>3. Once(c, k)
  <2> SUFFICES ASSUME NEW i \in 1..Len(c), NEW j \in 1..Len(c),
                      OfTrack(c[i], k), OfTrack(c[j], k)
               PROVE  i = j
    BY DEF Once
  <2>1. CASE Some(ms, k)
    <3>1. ~Some(b, k)
      BY <2>1 DEF None
    <3>2. PICK n \in 1..Len(ms) : i = Len(b) + n /\ c[i] = ms[n]
      BY <1>1, <3>1 DEF Some
    <3>3. PICK n2 \in 1..Len(ms) : j = Len(b) + n2 /\ c[j] = ms[n2]
      BY <1>1, <3>1 DEF Some
    <3> QED BY <3>2, <3>3 DEF Once
  <2>2. CASE ~Some(ms, k)
    <3>1. i \in 1..Len(b) /\ c[i] = b[i] /\ j \in 1..Len(b) /\ c[j] = b[j]
      BY <1>1, <2>2 DEF Some
    <3> QED BY <3>1 DEF Once, Solo
  <2> QED BY <2>1, <2>2
<1> QED BY <1>2, <1>3 DEF Solo, None

-----------------------------------------------------------------------------
(* The invariant of one sub server: v is what there is of it.              *)

View(s) == [life |-> life[s], up |-> toFarm[s], down |-> toSub[s],
            ready |-> ready[s], port |-> port[s], bound |-> bound[s]]

SoloInv(v) == \A k \in Track : Solo(v.up, v.down, k)

\* A sub server that is on its way to its links has bound nothing.
EarlyInv(v) ==
  v.life = "off" \/ ~None(v.up, v.down, Hand) =>
    v.ready = {} /\ DOMAIN v.bound = {} /\ \A x \in Plugs : None(v.up, v.down, Bind(x))

OffInv(v) == v.life = "off" => v.up = <<>> /\ v.down = <<>>

LinksInv(s, v) ==
  \A i \in 1..Len(v.down) : v.down[i].type = "acklinks" => DOMAIN v.port = ServerPlugs(s)

\* A port that is asked for is neither bound nor counted as bound.
AskInv(v) ==
  \A i \in 1..Len(v.up) : v.up[i].type = "bindport" =>
    v.up[i].plug \in DOMAIN v.port /\ v.up[i].plug \notin v.ready \cup DOMAIN v.bound

\* A port that is told is the one the farm has, and is not bound yet.
TellInv(v) ==
  \A i \in 1..Len(v.down) : v.down[i].type = "ackport" =>
    /\ v.down[i].plug \in DOMAIN v.port /\ v.down[i].port = v.port[v.down[i].plug]
    /\ v.down[i].plug \notin DOMAIN v.bound

IsBound(v, x) == x \in DOMAIN v.bound /\ v.bound[x] = v.port[x]

\* A port that is reported is bound.
ReportInv(v) ==
  \A i \in 1..Len(v.up) : v.up[i].type = "binddone" =>
    v.up[i].plug \in DOMAIN v.port /\ (v.life = "on" => IsBound(v, v.up[i].plug))

\* The first part of AnnouncedAreBound.
ReadyInv(v) == v.life = "on" => \A x \in v.ready : IsBound(v, x)

Local(s, v) ==
  /\ SoloInv(v) /\ EarlyInv(v) /\ OffInv(v) /\ LinksInv(s, v)
  /\ AskInv(v) /\ TellInv(v) /\ ReportInv(v) /\ ReadyInv(v)

Typed(v) == v.up \in Seq(FarmMsg) /\ v.down \in Seq(SubMsg)

\* It is not disturbed when a message is taken out of either queue.
LEMMA Dropped ==
  ASSUME NEW s, NEW v, Typed(v), Local(s, v), NEW w,
         w.life = v.life, w.ready = v.ready, w.port = v.port, w.bound = v.bound,
         \/ v.up # <<>> /\ w.up = Tail(v.up) /\ w.down = v.down
         \/ v.down # <<>> /\ w.down = Tail(v.down) /\ w.up = v.up
  PROVE  Local(s, w) /\ Typed(w)
<1>1. CASE v.up # <<>> /\ w.up = Tail(v.up) /\ w.down = v.down
  <2>1. \A i \in 1..Len(w.up) : i + 1 \in 1..Len(v.up) /\ w.up[i] = v.up[i + 1]
    BY <1>1, TailElements DEF Typed
  <2>2. ASSUME NEW k \in Track PROVE Solo(w.up, w.down, k) /\ (Some(w.up, k) => Some(v.up, k))
    BY <1>1, TakeTrack DEF Typed, Local, SoloInv
  <2>3. Hand \in Track /\ \A x \in Plugs : Bind(x) \in Track
    BY DEF Track
  <2>4. v.life # "off"
    BY <1>1 DEF Local, OffInv
  <2>5. SoloInv(w)
    BY <2>2 DEF SoloInv
  <2>6. EarlyInv(w)
    BY <1>1, <2>2, <2>3 DEF EarlyInv, Local, None
  <2>7. LinksInv(s, w) /\ TellInv(w) /\ ReadyInv(w)
    BY <1>1 DEF Local, LinksInv, TellInv, ReadyInv, IsBound
  <2>8. AskInv(w) /\ ReportInv(w)
    BY <2>1 DEF Local, AskInv, ReportInv, IsBound
  <2>9. Typed(w)
    BY <1>1 DEF Typed
  <2> QED BY <2>4, <2>5, <2>6, <2>7, <2>8, <2>9 DEF Local, OffInv
<1>2. CASE v.down # <<>> /\ w.down = Tail(v.down) /\ w.up = v.up
  <2>1. \A i \in 1..Len(w.down) : i + 1 \in 1..Len(v.down) /\ w.down[i] = v.down[i + 1]
    BY <1>2, TailElements DEF Typed
  <2>2. ASSUME NEW k \in Track PROVE Solo(w.up, w.down, k) /\ (Some(w.down, k) => Some(v.down, k))
    <3>1. Solo(v.down, v.up, k)
      BY DEF Local, SoloInv, Solo
    <3>2. Solo(w.down, w.up, k) /\ (Some(w.down, k) => Some(v.down, k))
      BY <1>2, <3>1, TakeTrack DEF Typed
    <3> QED BY <3>2 DEF Solo
  <2>3. Hand \in Track /\ \A x \in Plugs : Bind(x) \in Track
    BY DEF Track
  <2>4. v.life # "off"
    BY <1>2 DEF Local, OffInv
  <2>5. SoloInv(w)
    BY <2>2 DEF SoloInv
  <2>6. EarlyInv(w)
    BY <1>2, <2>2, <2>3 DEF EarlyInv, Local, None
  <2>7. LinksInv(s, w) /\ TellInv(w)
    BY <2>1 DEF Local, LinksInv, TellInv
  <2>8. AskInv(w) /\ ReportInv(w) /\ ReadyInv(w)
    BY <1>2 DEF Local, AskInv, ReportInv, ReadyInv, IsBound
  <2>9. Typed(w)
    BY <1>2 DEF Typed
  <2> QED BY <2>4, <2>5, <2>6, <2>7, <2>8, <2>9 DEF Local, OffInv
<1> QED BY <1>1, <1>2

Tells(v, w, m) == w.up = v.up /\ w.down = Append(v.down, m)

\* A message to the sub server: what the queues hold then.
LEMMA GiveDown ==
  ASSUME NEW v, Typed(v), SoloInv(v), NEW m \in SubMsg,
         \A k \in Track : OfTrack(m, k) => None(v.up, v.down, k),
         NEW w, Tells(v, w, m)
  PROVE  /\ SoloInv(w) /\ Typed(w)
         /\ \A k \in Track : Some(w.down, k) => Some(v.down, k) \/ OfTrack(m, k)
         /\ \A i \in 1..Len(w.down) : \/ i \in 1..Len(v.down) /\ w.down[i] = v.down[i]
                                      \/ w.down[i] = m
<1> DEFINE ms == <<m>>
           q == v.down
           c == w.down
<1>1. w.up = v.up /\ ms \in Seq(SubMsg) /\ c = q \o ms /\ q \in Seq(SubMsg)
  BY AppendIsConcat DEF Typed, Tells
<1>2. \A i \in 1..Len(ms) : i = 1 /\ ms[i] = m
  OBVIOUS
<1> HIDE DEF ms, q, c
<1>3. ASSUME NEW k \in Track
      PROVE  Solo(w.up, c, k) /\ (Some(c, k) => Some(q, k) \/ OfTrack(m, k))
  <2>1. Once(ms, k) /\ (Some(ms, k) => OfTrack(m, k))
    BY <1>2 DEF Once, Some
  <2>2. Solo(w.up, q, k) /\ (OfTrack(m, k) => None(w.up, q, k))
    BY <1>1 DEF SoloInv, q
  <2>3. Solo(w.up, c, k) /\ (Some(c, k) => Some(q, k) \/ Some(ms, k))
    BY <1>1, <2>1, <2>2, GiveTrack
  <2> QED BY <2>1, <2>3
<1>4. /\ c \in Seq(SubMsg)
      /\ \A i \in 1..Len(c) : \/ i \in 1..Len(q) /\ c[i] = q[i]
                              \/ \E j \in 1..Len(ms) : i = Len(q) + j /\ c[i] = ms[j]
  BY <1>1, ConcatElements
<1>5. SoloInv(w)
  BY <1>3 DEF SoloInv, c
<1>6. \A i \in 1..Len(c) : (i \in 1..Len(q) /\ c[i] = q[i]) \/ c[i] = m
  BY <1>2, <1>4
<1>7. Typed(w)
  BY <1>1, <1>4 DEF Typed, c
<1> QED BY <1>3, <1>5, <1>6, <1>7 DEF c, q

\* Messages that may be given to the farm server.
Sendable(v, ms) ==
  \A k \in Track : Once(ms, k) /\ (Some(ms, k) => None(v.up, v.down, k))

Sends(v, w, ms) == w.down = v.down /\ w.up = v.up \o ms

\* Messages to the farm server, likewise.
LEMMA GiveUp ==
  ASSUME NEW v, Typed(v), SoloInv(v), NEW ms \in Seq(FarmMsg), Sendable(v, ms),
         NEW w, Sends(v, w, ms)
  PROVE  /\ SoloInv(w) /\ Typed(w)
         /\ \A k \in Track : Some(w.up, k) => Some(v.up, k) \/ Some(ms, k)
         /\ \A i \in 1..Len(w.up) : \/ i \in 1..Len(v.up) /\ w.up[i] = v.up[i]
                                    \/ \E j \in 1..Len(ms) : w.up[i] = ms[j]
<1> DEFINE q == v.up
           c == w.up
<1>1. w.down = v.down /\ c = q \o ms /\ q \in Seq(FarmMsg)
  BY DEF Typed, Sends
<1> HIDE DEF q, c
<1>2. ASSUME NEW k \in Track
      PROVE  Solo(w.down, c, k) /\ (Some(c, k) => Some(q, k) \/ Some(ms, k))
  <2>1. Solo(w.down, q, k)
    BY <1>1 DEF SoloInv, Solo, q
  <2>2. Once(ms, k) /\ (Some(ms, k) => None(w.down, q, k))
    BY <1>1 DEF None, Sendable, q
  <2> QED BY <1>1, <2>1, <2>2, GiveTrack
<1>3. /\ c \in Seq(FarmMsg)
      /\ \A i \in 1..Len(c) : \/ i \in 1..Len(q) /\ c[i] = q[i]
                              \/ \E j \in 1..Len(ms) : i = Len(q) + j /\ c[i] = ms[j]
  BY <1>1, ConcatElements
<1>4. SoloInv(w)
  BY <1>2 DEF SoloInv, Solo, c
<1>5. Typed(w)
  BY <1>1, <1>3 DEF Typed, c
<1> QED BY <1>2, <1>3, <1>4, <1>5 DEF c, q

\* One message to the farm server.
LEMMA GiveUpOne ==
  ASSUME NEW v, Typed(v), SoloInv(v), NEW m \in FarmMsg,
         \A k \in Track : OfTrack(m, k) => None(v.up, v.down, k),
         NEW w, Sends(v, w, <<m>>)
  PROVE  /\ SoloInv(w) /\ Typed(w)
         /\ \A k \in Track : Some(w.up, k) => Some(v.up, k) \/ OfTrack(m, k)
         /\ \A i \in 1..Len(w.up) : \/ i \in 1..Len(v.up) /\ w.up[i] = v.up[i]
                                    \/ w.up[i] = m
<1> DEFINE ms == <<m>>
<1>1. ms \in Seq(FarmMsg) /\ Sends(v, w, ms) /\ \A i \in 1..Len(ms) : i = 1 /\ ms[i] = m
  OBVIOUS
<1> HIDE DEF ms
<1>2. \A k \in Track : Once(ms, k) /\ (Some(ms, k) => OfTrack(m, k))
  BY <1>1 DEF Once, Some
<1>3. Sendable(v, ms)
  BY <1>2 DEF Sendable
<1>4. /\ SoloInv(w) /\ Typed(w)
      /\ \A k \in Track : Some(w.up, k) => Some(v.up, k) \/ Some(ms, k)
      /\ \A i \in 1..Len(w.up) : \/ i \in 1..Len(v.up) /\ w.up[i] = v.up[i]
                                 \/ \E j \in 1..Len(ms) : w.up[i] = ms[j]
  BY <1>1, <1>3, GiveUp
<1> QED BY <1>1, <1>2, <1>4

-----------------------------------------------------------------------------
(* The steps of one sub server, with the farm's answers to it.             *)

LEMMA Tracks == Hand \in Track /\ \A x \in Plugs : Bind(x) \in Track
BY DEF Track

LEMMA LocalStart ==
  ASSUME NEW s, NEW v, Typed(v), Local(s, v), v.life = "off", NEW w,
         w.life = "on", w.ready = v.ready, w.port = v.port, w.bound = v.bound,
         Sends(v, w, <<LoginMsg>>)
  PROVE  Local(s, w) /\ Typed(w)
<1>1. v.up = <<>> /\ v.down = <<>> /\ v.ready = {} /\ DOMAIN v.bound = {}
  BY DEF Local, OffInv, EarlyInv
<1>2. \A k \in Track : None(v.up, v.down, k)
  BY <1>1 DEF None, Some
<1>3. LoginMsg \in FarmMsg /\ \A x \in Plugs : ~OfTrack(LoginMsg, Bind(x))
  BY DEF FarmMsg, LoginMsg, OfTrack, Bind
<1>4. /\ SoloInv(w) /\ Typed(w)
      /\ \A k \in Track : Some(w.up, k) => Some(v.up, k) \/ OfTrack(LoginMsg, k)
      /\ \A i \in 1..Len(w.up) : \/ i \in 1..Len(v.up) /\ w.up[i] = v.up[i]
                                 \/ w.up[i] = LoginMsg
  BY <1>2, <1>3, GiveUpOne DEF Local
<1>5. EarlyInv(w)
  BY <1>1, <1>2, <1>3, <1>4, Tracks DEF EarlyInv, None, Sends
<1>6. LinksInv(s, w) /\ TellInv(w)
  BY <1>1 DEF LinksInv, TellInv, Sends
<1>7. \A i \in 1..Len(w.up) : w.up[i].type = "login"
  BY <1>1, <1>4 DEF LoginMsg
<1>8. AskInv(w) /\ ReportInv(w) /\ ReadyInv(w)
  BY <1>1, <1>7 DEF AskInv, ReportInv, ReadyInv
<1> QED BY <1>4, <1>5, <1>6, <1>8 DEF Local, OffInv

\* A list of servers or the notice of one.
LEMMA LocalHosts ==
  ASSUME NEW s, NEW v, Typed(v), Local(s, v), v.life # "off", NEW m \in SubMsg,
         m.type = "hosts", NEW w,
         w.life = v.life, w.ready = v.ready, w.port = v.port, w.bound = v.bound,
         Tells(v, w, m)
  PROVE  Local(s, w) /\ Typed(w)
<1>1. \A k \in Track : ~OfTrack(m, k)
  BY DEF OfTrack, Track
<1>2. /\ SoloInv(w) /\ Typed(w)
      /\ \A k \in Track : Some(w.down, k) => Some(v.down, k)
      /\ \A i \in 1..Len(w.down) : \/ i \in 1..Len(v.down) /\ w.down[i] = v.down[i]
                                   \/ w.down[i] = m
  BY <1>1, GiveDown DEF Local
<1>3. EarlyInv(w)
  BY <1>2, Tracks DEF EarlyInv, None, Local, Sends, Tells
<1>4. LinksInv(s, w) /\ TellInv(w)
  BY <1>2 DEF LinksInv, TellInv, Local
<1>5. AskInv(w) /\ ReportInv(w) /\ ReadyInv(w)
  BY DEF AskInv, ReportInv, ReadyInv, IsBound, Local, Tells
<1> QED BY <1>2, <1>3, <1>4, <1>5 DEF Local, OffInv

\* A message to the farm server that is of no track.
LEMMA LocalPlain ==
  ASSUME NEW s, NEW v, Typed(v), Local(s, v), v.life # "off", NEW m \in FarmMsg,
         m.type \in {"infolist", "conndone"}, NEW w,
         w.life = v.life, w.ready = v.ready, w.port = v.port, w.bound = v.bound,
         Sends(v, w, <<m>>)
  PROVE  Local(s, w) /\ Typed(w)
<1>1. \A k \in Track : ~OfTrack(m, k)
  BY DEF OfTrack, Track
<1>2. /\ SoloInv(w) /\ Typed(w)
      /\ \A k \in Track : Some(w.up, k) => Some(v.up, k)
      /\ \A i \in 1..Len(w.up) : \/ i \in 1..Len(v.up) /\ w.up[i] = v.up[i]
                                 \/ w.up[i] = m
  BY <1>1, GiveUpOne DEF Local
<1>3. EarlyInv(w)
  BY <1>2, Tracks DEF EarlyInv, None, Local, Sends, Tells
<1>4. LinksInv(s, w) /\ TellInv(w) /\ ReadyInv(w)
  BY DEF LinksInv, TellInv, ReadyInv, IsBound, Local, Sends
<1>5. AskInv(w) /\ ReportInv(w)
  BY <1>2 DEF AskInv, ReportInv, IsBound, Local
<1> QED BY <1>2, <1>3, <1>4, <1>5 DEF Local, OffInv

SameRest(v, w) ==
  w.life = v.life /\ w.ready = v.ready /\ w.port = v.port /\ w.bound = v.bound

\* Nothing is under way, and nothing is bound.
Quiet(v) ==
  v.ready = {} /\ DOMAIN v.bound = {} /\ \A k \in Track : None(v.up, v.down, k)

\* What is known when a message m has been taken, and w is left.
Remains(s, w, m) ==
  /\ Local(s, w) /\ Typed(w) /\ w.life # "off"
  /\ OfTrack(m, Hand) => Quiet(w)
  /\ \A x \in Plugs : OfTrack(m, Bind(x)) =>
       None(w.up, w.down, Bind(x)) /\ None(w.up, w.down, Hand)

LEMMA TakeUp ==
  ASSUME NEW s, NEW v, Typed(v), Local(s, v), v.up # <<>>,
         NEW w, SameRest(v, w), w.up = Tail(v.up), w.down = v.down
  PROVE  Remains(s, w, Head(v.up))
<1>1. Local(s, w) /\ Typed(w) /\ w.life # "off"
  BY Dropped DEF SameRest, Local, OffInv
<1>2. ASSUME NEW k \in Track
      PROVE  /\ None(v.up, v.down, k) => None(w.up, w.down, k)
             /\ OfTrack(Head(v.up), k) => None(w.up, w.down, k) /\ ~None(v.up, v.down, k)
  BY TakeTrack DEF Local, SoloInv, Typed, None
<1>3. OfTrack(Head(v.up), Hand) => Quiet(w)
  BY <1>2, Tracks DEF Quiet, Local, EarlyInv, Track, SameRest
<1>4. ASSUME NEW x \in Plugs, OfTrack(Head(v.up), Bind(x))
      PROVE  None(w.up, w.down, Bind(x)) /\ None(w.up, w.down, Hand)
  BY <1>2, <1>4, Tracks DEF Local, EarlyInv
<1> QED BY <1>1, <1>3, <1>4 DEF Remains

LEMMA TakeDown ==
  ASSUME NEW s, NEW v, Typed(v), Local(s, v), v.down # <<>>,
         NEW w, SameRest(v, w), w.down = Tail(v.down), w.up = v.up
  PROVE  Remains(s, w, Head(v.down))
<1>1. Local(s, w) /\ Typed(w) /\ w.life # "off"
  BY Dropped DEF SameRest, Local, OffInv
<1>2. ASSUME NEW k \in Track
      PROVE  /\ None(v.up, v.down, k) => None(w.up, w.down, k)
             /\ OfTrack(Head(v.down), k) => None(w.up, w.down, k) /\ ~None(v.up, v.down, k)
  <2>1. Solo(v.down, v.up, k)
    BY DEF Local, SoloInv, Solo
  <2> QED BY <2>1, TakeTrack DEF Typed, None
<1>3. OfTrack(Head(v.down), Hand) => Quiet(w)
  BY <1>2, Tracks DEF Quiet, Local, EarlyInv, Track, SameRest
<1>4. ASSUME NEW x \in Plugs, OfTrack(Head(v.down), Bind(x))
      PROVE  None(w.up, w.down, Bind(x)) /\ None(w.up, w.down, Hand)
  BY <1>2, <1>4, Tracks DEF Local, EarlyInv
<1> QED BY <1>1, <1>3, <1>4 DEF Remains

\* No message of a track that is idle.
LEMMA NoneOf ==
  ASSUME NEW v, Typed(v)
  PROVE  /\ None(v.up, v.down, Hand) =>
              \A i \in 1..Len(v.down) : v.down[i].type # "acklinks"
         /\ \A x \in Plugs : None(v.up, v.down, Bind(x)) =>
              /\ \A i \in 1..Len(v.up) :
                   v.up[i].type \in {"bindport", "binddone"} => v.up[i].plug # x
              /\ \A i \in 1..Len(v.down) : v.down[i].type = "ackport" => v.down[i].plug # x
BY DEF None, Some, OfTrack, Hand, Bind

LEMMA PlugsTyped ==
  ASSUME NEW v, Typed(v)
  PROVE  /\ \A i \in 1..Len(v.up) :
              v.up[i].type \in {"bindport", "binddone"} => v.up[i].plug \in Plugs
         /\ \A i \in 1..Len(v.down) : v.down[i].type = "ackport" => v.down[i].plug \in Plugs
<1>1. \A m \in FarmMsg : m.type \in {"bindport", "binddone"} => m.plug \in Plugs
  BY DEF FarmMsg, LoginMsg, LinksMsg, Plugs
<1>2. \A m \in SubMsg : m.type = "ackport" => m.plug \in Plugs
  BY DEF SubMsg, AckLoginMsg, AckLinksMsg, Plugs
<1>3. (\A i \in 1..Len(v.up) : v.up[i] \in FarmMsg) /\ (\A i \in 1..Len(v.down) : v.down[i] \in SubMsg)
  BY DEF Typed
<1> QED BY <1>1, <1>2, <1>3

\* Quiet means that no message of a track is there.
LEMMA QuietQueues ==
  ASSUME NEW v, Typed(v), Quiet(v)
  PROVE  /\ \A i \in 1..Len(v.up) : v.up[i].type \notin {"bindport", "binddone"}
         /\ \A i \in 1..Len(v.down) : v.down[i].type \notin {"ackport", "acklinks"}
BY NoneOf, PlugsTyped, Tracks DEF Quiet

\* Login, SetLinks: the answer on the way to the links.
LEMMA LocalTold ==
  ASSUME NEW s, NEW v, Typed(v), Local(s, v), Quiet(v), v.life # "off",
         NEW m \in {AckLoginMsg, AckLinksMsg}, NEW w, Tells(v, w, m),
         w.life = v.life, w.ready = {}, w.bound = v.bound,
         m = AckLinksMsg => DOMAIN w.port = ServerPlugs(s)
  PROVE  Local(s, w) /\ Typed(w)
<1>1. m \in SubMsg /\ m.type \in {"acklogin", "acklinks"} /\ (m = AckLinksMsg <=> m.type = "acklinks")
  BY DEF SubMsg, AckLoginMsg, AckLinksMsg
<1>2. \A k \in Track : None(v.up, v.down, k)
  BY DEF Quiet
<1>3. \A x \in Plugs : ~OfTrack(m, Bind(x))
  BY <1>1 DEF OfTrack, Bind
<1>4. /\ SoloInv(w) /\ Typed(w)
      /\ \A k \in Track : Some(w.down, k) => Some(v.down, k) \/ OfTrack(m, k)
      /\ \A i \in 1..Len(w.down) : \/ i \in 1..Len(v.down) /\ w.down[i] = v.down[i]
                                   \/ w.down[i] = m
  BY <1>1, <1>2, GiveDown DEF Local
<1>5. w.up = v.up
  BY DEF Tells
<1>6. EarlyInv(w)
  BY <1>2, <1>3, <1>4, <1>5, Tracks DEF EarlyInv, None, Quiet
<1>7. \A i \in 1..Len(w.down) : w.down[i].type = "acklinks" => DOMAIN w.port = ServerPlugs(s)
  BY <1>1, <1>4, QuietQueues
<1>8. \A i \in 1..Len(w.down) : w.down[i].type # "ackport"
  BY <1>1, <1>4, QuietQueues
<1>9. \A i \in 1..Len(w.up) : w.up[i].type \notin {"bindport", "binddone"}
  BY <1>5, QuietQueues
<1> QED BY <1>4, <1>6, <1>7, <1>8, <1>9
        DEF Local, OffInv, LinksInv, AskInv, TellInv, ReportInv, ReadyInv

\* AckSubServerLogin.
LEMMA LocalLinks ==
  ASSUME NEW s, NEW v, Typed(v), Local(s, v), Quiet(v), v.life # "off",
         NEW w, Sends(v, w, <<LinksMsg>>), SameRest(v, w)
  PROVE  Local(s, w) /\ Typed(w)
<1>1. LinksMsg \in FarmMsg /\ LinksMsg.type = "links"
  BY DEF FarmMsg, LinksMsg
<1>2. \A k \in Track : None(v.up, v.down, k)
  BY DEF Quiet
<1>3. \A x \in Plugs : ~OfTrack(LinksMsg, Bind(x))
  BY <1>1 DEF OfTrack, Bind
<1>4. /\ SoloInv(w) /\ Typed(w)
      /\ \A k \in Track : Some(w.up, k) => Some(v.up, k) \/ OfTrack(LinksMsg, k)
      /\ \A i \in 1..Len(w.up) : \/ i \in 1..Len(v.up) /\ w.up[i] = v.up[i]
                                 \/ w.up[i] = LinksMsg
  BY <1>1, <1>2, GiveUpOne DEF Local
<1>5. w.down = v.down
  BY DEF Sends
<1>6. EarlyInv(w)
  BY <1>2, <1>3, <1>4, <1>5, Tracks DEF EarlyInv, None, Quiet, SameRest
<1>7. \A i \in 1..Len(w.down) : w.down[i].type \notin {"ackport", "acklinks"}
  BY <1>5, QuietQueues
<1>8. \A i \in 1..Len(w.up) : w.up[i].type \notin {"bindport", "binddone"}
  BY <1>1, <1>4, QuietQueues
<1> QED BY <1>4, <1>6, <1>7, <1>8
        DEF Local, OffInv, LinksInv, AskInv, TellInv, ReportInv, ReadyInv, SameRest, Quiet

\* ConnectLink: lists are asked for, and ports for different plugs.
LEMMA LocalConnect ==
  ASSUME NEW s, NEW v, Typed(v), Local(s, v), Quiet(v), v.life # "off",
         NEW ms \in Seq(FarmMsg), NEW w, Sends(v, w, ms), SameRest(v, w),
         \A i \in 1..Len(ms) : /\ ms[i].type \in {"infolist", "bindport"}
                               /\ ms[i].type = "bindport" => ms[i].plug \in DOMAIN v.port,
         \A i, j \in 1..Len(ms) :
           ms[i].type = "bindport" /\ ms[j].type = "bindport" /\ ms[i].plug = ms[j].plug => i = j
  PROVE  Local(s, w) /\ Typed(w)
<1>1. \A k \in Track : None(v.up, v.down, k)
  BY DEF Quiet
<1>2. ASSUME NEW k \in Track PROVE Once(ms, k)
  BY DEF Once, OfTrack, Track, Bind, Hand
<1>3. Sendable(v, ms)
  BY <1>1, <1>2 DEF Sendable
<1>4. ~Some(ms, Hand)
  BY DEF Some, OfTrack, Hand
<1>5. /\ SoloInv(w) /\ Typed(w)
      /\ \A k \in Track : Some(w.up, k) => Some(v.up, k) \/ Some(ms, k)
      /\ \A i \in 1..Len(w.up) : \/ i \in 1..Len(v.up) /\ w.up[i] = v.up[i]
                                 \/ \E j \in 1..Len(ms) : w.up[i] = ms[j]
  BY <1>3, GiveUp DEF Local
<1>6. w.down = v.down
  BY DEF Sends
<1>7. EarlyInv(w)
  BY <1>1, <1>4, <1>5, <1>6, Tracks DEF EarlyInv, None, SameRest
<1>8. \A i \in 1..Len(w.down) : w.down[i].type \notin {"ackport", "acklinks"}
  BY <1>6, QuietQueues
<1>9. \A i \in 1..Len(w.up) : /\ w.up[i].type # "binddone"
                              /\ w.up[i].type = "bindport" => w.up[i].plug \in DOMAIN w.port
  BY <1>5, QuietQueues DEF SameRest
<1>10. w.ready = {} /\ DOMAIN w.bound = {} /\ w.life # "off"
  BY DEF Quiet, SameRest
<1> QED BY <1>5, <1>7, <1>8, <1>9, <1>10
        DEF Local, OffInv, LinksInv, AskInv, TellInv, ReportInv, ReadyInv

\* ReqToBindPort: the farm chooses a port.
LEMMA LocalChosen ==
  ASSUME NEW s, NEW v, Typed(v), Local(s, v), v.life # "off", NEW x \in Plugs, NEW n \in Nat,
         None(v.up, v.down, Bind(x)), None(v.up, v.down, Hand),
         v.ready \subseteq DOMAIN v.port,
         x \in DOMAIN v.port, x \notin v.ready \cup DOMAIN v.bound,
         NEW w, Tells(v, w, AckPortMsg(x, n)), w.port = [v.port EXCEPT ![x] = n],
         w.life = v.life, w.ready = v.ready, w.bound = v.bound
  PROVE  Local(s, w) /\ Typed(w)
<1> DEFINE m == AckPortMsg(x, n)
<1>1. m \in SubMsg /\ m.type = "ackport" /\ m.plug = x /\ m.port = n
  BY DEF SubMsg, AckPortMsg, Plugs
<1> HIDE DEF m
<1>2. \A k \in Track : OfTrack(m, k) => k = Bind(x)
  BY <1>1 DEF OfTrack, Track, Bind, Hand
<1>3. /\ SoloInv(w) /\ Typed(w)
      /\ \A k \in Track : Some(w.down, k) => Some(v.down, k) \/ OfTrack(m, k)
      /\ \A i \in 1..Len(w.down) : \/ i \in 1..Len(v.down) /\ w.down[i] = v.down[i]
                                   \/ w.down[i] = m
  BY <1>1, <1>2, GiveDown DEF Local, m
<1>4. w.up = v.up
  BY DEF Tells
<1>5. EarlyInv(w)
  <2>1. ~OfTrack(m, Hand)
    BY <1>1 DEF OfTrack, Hand
  <2> QED BY <1>3, <1>4, <2>1, Tracks DEF EarlyInv, None
<1>6. DOMAIN w.port = DOMAIN v.port /\ w.port[x] = n /\ \A y \in DOMAIN v.port : y # x => w.port[y] = v.port[y]
  OBVIOUS
<1>7. LinksInv(s, w)
  BY <1>1, <1>3, <1>6 DEF LinksInv, Local
<1>8. AskInv(w)
  BY <1>4, <1>6 DEF AskInv, Local
<1>9. TellInv(w)
  BY <1>1, <1>3, <1>6, NoneOf DEF TellInv, Local
<1>10. ReportInv(w)
  BY <1>4, <1>6, NoneOf DEF ReportInv, Local, IsBound
<1>11. ReadyInv(w)
  <2>1. SUFFICES ASSUME w.life = "on", NEW y \in w.ready PROVE IsBound(w, y)
    BY DEF ReadyInv
  <2>2. IsBound(v, y) /\ y # x /\ y \in DOMAIN v.port
    BY <2>1 DEF Local, ReadyInv
  <2> QED BY <1>6, <2>2 DEF IsBound
<1> QED BY <1>3, <1>5, <1>7, <1>8, <1>9, <1>10, <1>11 DEF Local, OffInv

\* ReqSubServerBindComplete: the farm counts a port as bound.
LEMMA LocalReady ==
  ASSUME NEW s, NEW v, Typed(v), Local(s, v), v.life # "off", NEW x \in Plugs,
         None(v.up, v.down, Bind(x)), None(v.up, v.down, Hand),
         v.life = "on" => IsBound(v, x),
         NEW w, w.ready = v.ready \cup ({x} \ {Client}),
         w.life = v.life, w.port = v.port, w.bound = v.bound, w.up = v.up, w.down = v.down
  PROVE  Local(s, w) /\ Typed(w)
<1>1. SoloInv(w) /\ EarlyInv(w) /\ OffInv(w) /\ LinksInv(s, w) /\ TellInv(w) /\ Typed(w)
  BY DEF Local, SoloInv, EarlyInv, OffInv, LinksInv, TellInv, Typed
<1>2. AskInv(w)
  BY NoneOf DEF Local, AskInv
<1>3. ReportInv(w) /\ ReadyInv(w)
  BY DEF Local, ReportInv, ReadyInv, IsBound
<1> QED BY <1>1, <1>2, <1>3 DEF Local

\* AckToBindPort: the plug listens.
LEMMA LocalListens ==
  ASSUME NEW s, NEW v, Typed(v), Local(s, v), v.life # "off", NEW x \in Plugs,
         None(v.up, v.down, Bind(x)), None(v.up, v.down, Hand),
         x \in DOMAIN v.port, x \notin DOMAIN v.bound,
         NEW w, Sends(v, w, <<BindDoneMsg(x)>>),
         w.bound = [y \in DOMAIN v.bound \cup {x} |-> IF y = x THEN v.port[x] ELSE v.bound[y]],
         w.life = v.life, w.ready = v.ready, w.port = v.port
  PROVE  Local(s, w) /\ Typed(w)
<1> DEFINE m == BindDoneMsg(x)
<1>1. m \in FarmMsg /\ m.type = "binddone" /\ m.plug = x
  BY DEF FarmMsg, BindDoneMsg, Plugs
<1>s. Sends(v, w, <<m>>)
  OBVIOUS
<1> HIDE DEF m
<1>2. \A k \in Track : OfTrack(m, k) => k = Bind(x)
  BY <1>1 DEF OfTrack, Track, Bind, Hand
<1>3. /\ SoloInv(w) /\ Typed(w)
      /\ \A k \in Track : Some(w.up, k) => Some(v.up, k) \/ OfTrack(m, k)
      /\ \A i \in 1..Len(w.up) : \/ i \in 1..Len(v.up) /\ w.up[i] = v.up[i]
                                 \/ w.up[i] = m
  BY <1>1, <1>2, <1>s, GiveUpOne DEF Local
<1>4. w.down = v.down
  BY DEF Sends
<1>5. EarlyInv(w)
  <2>1. ~OfTrack(m, Hand)
    BY <1>1 DEF OfTrack, Hand
  <2> QED BY <1>3, <1>4, <2>1, Tracks DEF EarlyInv, None
<1>6. /\ DOMAIN w.bound = DOMAIN v.bound \cup {x} /\ IsBound(w, x)
      /\ \A y : IsBound(v, y) => IsBound(w, y)
  BY DEF IsBound
<1>7. LinksInv(s, w)
  BY <1>4 DEF LinksInv, Local
<1>8. AskInv(w)
  BY <1>1, <1>3, <1>6, NoneOf DEF AskInv, Local
<1>9. TellInv(w)
  BY <1>4, <1>6, NoneOf DEF TellInv, Local
<1>10. ReportInv(w)
  BY <1>1, <1>3, <1>6 DEF ReportInv, Local
<1>11. ReadyInv(w)
  BY <1>6 DEF ReadyInv, Local
<1> QED BY <1>3, <1>5, <1>7, <1>8, <1>9, <1>10, <1>11 DEF Local, OffInv

LEMMA LocalDies ==
  ASSUME NEW s, NEW v, Typed(v), Local(s, v),
         NEW w, w.life = "dead", DOMAIN w.bound = {}, v.life = "on",
         w.ready = v.ready, w.port = v.port, w.up = v.up, w.down = v.down
  PROVE  Local(s, w) /\ Typed(w)
BY DEF Local, SoloInv, EarlyInv, OffInv, LinksInv, AskInv, TellInv, ReportInv, ReadyInv, Typed

LEMMA LocalGone ==
  ASSUME NEW s, NEW w, w.life = "gone", w.ready = {}, w.up = <<>>, w.down = <<>>
  PROVE  Local(s, w) /\ Typed(w)
<1>1. Len(w.up) = 0 /\ Len(w.down) = 0
  OBVIOUS
<1>2. \A k \in Track : Solo(w.up, w.down, k) /\ None(w.up, w.down, k)
  BY <1>1 DEF Solo, None, Once, Some
<1> QED BY <1>1, <1>2, Tracks
        DEF Local, SoloInv, EarlyInv, OffInv, LinksInv, AskInv, TellInv, ReportInv, ReadyInv, Typed

\* Nothing has happened to a sub server.
LEMMA LocalSame ==
  ASSUME NEW s, NEW v, Local(s, v), NEW w, SameRest(v, w), w.up = v.up, w.down = v.down
  PROVE  Local(s, w)
BY DEF SameRest, Local, SoloInv, EarlyInv, OffInv, LinksInv, AskInv, TellInv, ReportInv,
       ReadyInv, IsBound

-----------------------------------------------------------------------------
(* The invariant of the farm.                                              *)

Domains ==
  /\ DOMAIN port = Server /\ DOMAIN ready = Server /\ DOMAIN reached = Server
  /\ DOMAIN plug = Server /\ DOMAIN bound = Server /\ DOMAIN conns = Server
  /\ DOMAIN asked = Server /\ DOMAIN toFarm = Server /\ DOMAIN toSub = Server

\* The farm's groups hold servers of their type that were started.
MembersInv ==
  \A t \in Type : \A r \in Range(members[t]) : TypeOf[r] = t /\ life[r] # "off"

\* A server of type t listens on n, or one has died.
Offered(t, n) ==
  \E r \in Server : /\ TypeOf[r] = t
                    /\ life[r] \in {"dead", "gone"} \/ (On(r) /\ n \in Range(bound[r]))

\* The second part of AnnouncedAreBound.
HostsInv ==
  \A c \in Server : \A m \in Range(toSub[c]) : m.type = "hosts" =>
    \A n \in m.ports : Offered(m.plug, n)

FarmInv ==
  /\ TypeOK /\ Domains /\ MembersInv
  /\ \A s \in Server : Local(s, View(s))
  /\ HostsInv

\* TypeOK for one sub server, but for the queues.
TypedServer(s) ==
  /\ DOMAIN port[s] \in {{Client}, ServerPlugs(s)}
  /\ Range(port[s]) \subseteq Nat
  /\ ready[s] \subseteq DOMAIN port[s] \ {Client}
  /\ reached[s] \subseteq InputTypes(s)
  /\ plug[s] \in [InputTypes(s) \cup ServerPlugs(s) -> {"wait", "try", "run"}]
  /\ DOMAIN bound[s] \subseteq ServerPlugs(s) /\ Range(bound[s]) \subseteq Nat
  /\ conns[s] \subseteq Server \X (Type \cup {Client})
  /\ asked[s] \subseteq InputTypes(s)

LifeType == life \in [Server -> {"off", "on", "dead", "gone"}]
MembersType == members \in [Type -> Seq(Server)]

LEMMA TypeParts ==
  TypeOK <=> /\ LifeType /\ MembersType
             /\ \A s \in Server : TypedServer(s) /\ Typed(View(s))
BY DEF TypeOK, LifeType, MembersType, TypedServer, Typed, View

LEMMA Links ==
  ASSUME NEW s \in Server
  PROVE  /\ TypeOf[s] \in Type
         /\ Inputs[TypeOf[s]] \in Seq(Type) /\ Outputs[TypeOf[s]] \in Seq(Type)
         /\ InputTypes(s) \subseteq Type /\ OutputTypes(s) \subseteq Type
         /\ ServerPlugs(s) \subseteq Plugs /\ Client \in ServerPlugs(s)
BY FarmConstants DEF InputTypes, OutputTypes, ServerPlugs, Plugs, Range

LEMMA FinitePlugs ==
  ASSUME NEW s \in Server
  PROVE  IsFiniteSet(ServerPlugs(s))
<1> DEFINE q == Outputs[TypeOf[s]]
<1>1. q \in Seq(Type)
  BY Links
<1>2. ServerPlugs(s) = Range(q) \cup {Client}
  BY DEF ServerPlugs, OutputTypes
<1> HIDE DEF q
<1>3. Len(q) \in Nat /\ DOMAIN q = 1..Len(q)
  BY <1>1
<1>4. IsFiniteSet(1..Len(q))
  BY <1>3, FS_Interval
<1>5. IsFiniteSet(Range(q))
  BY <1>3, <1>4, FiniteValues
<1> QED BY <1>2, <1>5, FS_AddElement

\* What a queue holds after a message was added or taken.
LEMMA QueueRange ==
  ASSUME NEW S, NEW q \in Seq(S)
  PROVE  /\ \A m \in S : Range(Append(q, m)) = Range(q) \cup {m}
         /\ q # <<>> => Range(Tail(q)) \subseteq Range(q) /\ Head(q) \in Range(q) /\ Head(q) \in S
<1>1. ASSUME NEW m \in S PROVE Range(Append(q, m)) = Range(q) \cup {m}
  <2>1. /\ DOMAIN Append(q, m) = 1..(Len(q) + 1) /\ DOMAIN q = 1..Len(q) /\ Len(q) \in Nat
        /\ \A i \in 1..Len(q) : Append(q, m)[i] = q[i]
        /\ Append(q, m)[Len(q) + 1] = m
    OBVIOUS
  <2> HIDE <1>1
  <2> QED BY <2>1 DEF Range
<1>2. q # <<>> => Range(Tail(q)) \subseteq Range(q) /\ Head(q) \in Range(q) /\ Head(q) \in S
  <2> SUFFICES ASSUME q # <<>>
               PROVE  Range(Tail(q)) \subseteq Range(q) /\ Head(q) \in Range(q) /\ Head(q) \in S
    OBVIOUS
  <2>1. /\ Head(q) = q[1] /\ 1 \in 1..Len(q)
        /\ \A i \in 1..Len(Tail(q)) : i + 1 \in 1..Len(q) /\ Tail(q)[i] = q[i + 1]
        /\ DOMAIN Tail(q) = 1..Len(Tail(q)) /\ DOMAIN q = 1..Len(q)
    BY TailElements
  <2> QED BY <2>1 DEF Range
<1> QED BY <1>1, <1>2

\* What of a sub server is left as it is.
SameServer(r) ==
  /\ life'[r] = life[r] /\ port'[r] = port[r] /\ ready'[r] = ready[r]
  /\ reached'[r] = reached[r] /\ plug'[r] = plug[r] /\ bound'[r] = bound[r]
  /\ conns'[r] = conns[r] /\ asked'[r] = asked[r]

LEMMA OthersStay ==
  ASSUME FarmInv, NEW r \in Server, SameServer(r), toFarm'[r] = toFarm[r], toSub'[r] = toSub[r]
  PROVE  Local(r, View(r)') /\ Typed(View(r)') /\ TypedServer(r)'
<1>1. Local(r, View(r)) /\ Typed(View(r)) /\ TypedServer(r)
  BY TypeParts DEF FarmInv
<1>2. Local(r, View(r)')
  BY <1>1, LocalSame DEF SameRest, View, SameServer
<1>3. Typed(View(r)')
  BY <1>1 DEF Typed, View
<1>4. TypedServer(r)'
  BY <1>1 DEF TypedServer, SameServer
<1> QED BY <1>2, <1>3, <1>4

LEMMA OfferedStays ==
  ASSUME FarmInv,
         \A r \in Server : \/ life'[r] = life[r] \/ life'[r] \in {"dead", "gone"}
                           \/ life[r] = "off",
         \A r \in Server : life'[r] = "on" => Range(bound[r]) \subseteq Range(bound'[r]),
         NEW t, NEW n, Offered(t, n)
  PROVE  Offered(t, n)'
BY DEF Offered, On

\* The ports that are on their way, after a step.
LEMMA HostsStay ==
  ASSUME FarmInv, \A t, n : Offered(t, n) => Offered(t, n)',
         \A c \in Server : \A m \in Range(toSub'[c]) :
           m \in Range(toSub[c]) \/ (m.type = "hosts" => \A n \in m.ports : Offered(m.plug, n)')
  PROVE  HostsInv'
BY DEF FarmInv, HostsInv

\* What is left when the farm server takes a message of s.
UpTaken(s) == [View(s) EXCEPT !.up = Tail(@)]

LEMMA FarmTakes ==
  ASSUME FarmInv, NEW s \in Server, NEW m, FarmGets(s, m)
  PROVE  /\ Remains(s, UpTaken(s), m)
         /\ toFarm[s] \in Seq(FarmMsg) /\ toFarm[s] # <<>> /\ m = Head(toFarm[s]) /\ m \in FarmMsg
         /\ toFarm'[s] = Tail(toFarm[s]) /\ DOMAIN toFarm' = Server
         /\ \A r \in Server \ {s} : toFarm'[r] = toFarm[r]
<1>1. Local(s, View(s)) /\ Typed(View(s)) /\ DOMAIN toFarm = Server
  BY TypeParts DEF FarmInv, Domains
<1>2. toFarm[s] \in Seq(FarmMsg) /\ toFarm[s] # <<>> /\ m = Head(toFarm[s])
  BY <1>1 DEF FarmGets, Typed, View
<1>3. Remains(s, UpTaken(s), m)
  <2> DEFINE v == View(s)
             w == UpTaken(s)
  <2>1. SameRest(v, w) /\ w.up = Tail(v.up) /\ w.down = v.down
    BY DEF UpTaken, View, SameRest
  <2>2. v.up # <<>> /\ m = Head(v.up)
    BY <1>2 DEF View
  <2> HIDE DEF v, w
  <2>3. Local(s, v) /\ Typed(v)
    BY <1>1 DEF v
  <2>4. Remains(s, w, m)
    BY <2>1, <2>2, <2>3, TakeUp
  <2> QED BY <2>4 DEF w
<1>4. /\ toFarm'[s] = Tail(toFarm[s]) /\ DOMAIN toFarm' = Server
      /\ \A r \in Server \ {s} : toFarm'[r] = toFarm[r]
  BY <1>1 DEF FarmGets
<1>5. m \in FarmMsg
  BY <1>2, QueueRange
<1> QED BY <1>2, <1>3, <1>4, <1>5

\* What is left when s takes a message.
DownTaken(s) == [View(s) EXCEPT !.down = Tail(@)]

LEMMA SubTakes ==
  ASSUME FarmInv, NEW s \in Server, NEW m, SubGets(s, m)
  PROVE  /\ Remains(s, DownTaken(s), m) /\ life[s] = "on"
         /\ toSub[s] \in Seq(SubMsg) /\ toSub[s] # <<>> /\ m = Head(toSub[s]) /\ m \in SubMsg
         /\ toSub'[s] = Tail(toSub[s]) /\ DOMAIN toSub' = Server
         /\ \A r \in Server \ {s} : toSub'[r] = toSub[r]
         /\ \A c \in Server : Range(toSub'[c]) \subseteq Range(toSub[c])
<1>1. Local(s, View(s)) /\ Typed(View(s)) /\ DOMAIN toSub = Server
  BY TypeParts DEF FarmInv, Domains
<1>2. toSub[s] \in Seq(SubMsg) /\ toSub[s] # <<>> /\ m = Head(toSub[s]) /\ life[s] = "on"
  BY <1>1 DEF SubGets, Typed, View, On
<1>3. Remains(s, DownTaken(s), m)
  <2> DEFINE v == View(s)
             w == DownTaken(s)
  <2>1. SameRest(v, w) /\ w.down = Tail(v.down) /\ w.up = v.up
    BY DEF DownTaken, View, SameRest
  <2>2. v.down # <<>> /\ m = Head(v.down)
    BY <1>2 DEF View
  <2> HIDE DEF v, w
  <2>3. Local(s, v) /\ Typed(v)
    BY <1>1 DEF v
  <2>4. Remains(s, w, m)
    BY <2>1, <2>2, <2>3, TakeDown
  <2> QED BY <2>4 DEF w
<1>4. /\ toSub'[s] = Tail(toSub[s]) /\ DOMAIN toSub' = Server
      /\ \A r \in Server \ {s} : toSub'[r] = toSub[r]
  BY <1>1 DEF SubGets
<1>5. m \in SubMsg /\ Range(Tail(toSub[s])) \subseteq Range(toSub[s])
  BY <1>2, QueueRange
<1>6. \A c \in Server : Range(toSub'[c]) \subseteq Range(toSub[c])
  BY <1>4, <1>5
<1> QED BY <1>2, <1>3, <1>4, <1>5, <1>6

LEMMA Replies ==
  ASSUME FarmInv, NEW s \in Server, NEW m \in SubMsg, Reply(s, m)
  PROVE  /\ toSub'[s] = Append(toSub[s], m) /\ DOMAIN toSub' = Server
         /\ \A r \in Server \ {s} : toSub'[r] = toSub[r]
         /\ \A c \in Server : \A k \in Range(toSub'[c]) : k \in Range(toSub[c]) \/ k = m
<1>1. DOMAIN toSub = Server /\ toSub[s] \in Seq(SubMsg)
  BY TypeParts DEF FarmInv, Domains, Typed, View
<1>2. /\ toSub'[s] = Append(toSub[s], m) /\ DOMAIN toSub' = Server
      /\ \A r \in Server \ {s} : toSub'[r] = toSub[r]
  BY <1>1 DEF Reply
<1>3. Range(Append(toSub[s], m)) = Range(toSub[s]) \cup {m}
  BY <1>1, QueueRange
<1> QED BY <1>2, <1>3

-----------------------------------------------------------------------------
(* The steps of the farm server.                                           *)

\* What every step has to establish: for s itself, for the others, and for
\* the groups and the ports on their way.
LEMMA Assemble ==
  ASSUME FarmInv, NEW s \in Server, Domains', LifeType', MembersType', MembersInv',
         Local(s, View(s)'), Typed(View(s)'), TypedServer(s)',
         \A r \in Server \ {s} : Local(r, View(r)') /\ Typed(View(r)') /\ TypedServer(r)',
         HostsInv'
  PROVE  FarmInv'
<1>1. \A r \in Server : Local(r, View(r)') /\ Typed(View(r)') /\ TypedServer(r)'
  OBVIOUS
<1>2. (\A r \in Server : Local(r, View(r)))'
  BY <1>1
<1>3. (\A r \in Server : TypedServer(r) /\ Typed(View(r)))'
  BY <1>1
<1>4. TypeOK'
  BY <1>3 DEF TypeOK, LifeType, MembersType, TypedServer, Typed, View
<1> QED BY <1>2, <1>4 DEF FarmInv

LEMMA StepLogin ==
  ASSUME FarmInv, NEW s \in Server, Login(s)
  PROVE  FarmInv'
<1> DEFINE d == UpTaken(s)
           w == View(s)'
           t == TypeOf[s]
<1>1. /\ FarmGets(s, LoginMsg) /\ Reply(s, AckLoginMsg)
      /\ members' = [members EXCEPT ![t] = Append(@, s)]
      /\ UNCHANGED <<port, ready, reached, life, plug, bound, conns, asked>>
  BY DEF Login, subVars
<1>2. AckLoginMsg \in SubMsg /\ AckLoginMsg.type # "hosts"
  BY DEF SubMsg, AckLoginMsg
<1>3. /\ Remains(s, d, LoginMsg)
      /\ toFarm'[s] = Tail(toFarm[s]) /\ DOMAIN toFarm' = Server
      /\ \A r \in Server \ {s} : toFarm'[r] = toFarm[r]
  BY <1>1, FarmTakes
<1>4. /\ toSub'[s] = Append(toSub[s], AckLoginMsg) /\ DOMAIN toSub' = Server
      /\ \A r \in Server \ {s} : toSub'[r] = toSub[r]
      /\ \A c \in Server : \A k \in Range(toSub'[c]) : k \in Range(toSub[c]) \/ k = AckLoginMsg
  BY <1>1, <1>2, Replies
<1>5. /\ Tells(d, w, AckLoginMsg)
      /\ w.life = d.life /\ w.ready = d.ready /\ w.port = d.port /\ w.bound = d.bound
  BY <1>1, <1>3, <1>4 DEF UpTaken, View, Tells
<1>6. Quiet(d) /\ Local(s, d) /\ Typed(d) /\ d.life # "off"
  BY <1>3 DEF Remains, OfTrack, Hand, LoginMsg
<1>7. Local(s, w) /\ Typed(w)
  <2> HIDE DEF d, w
  <2>1. AckLoginMsg # AckLinksMsg
    BY DEF AckLoginMsg, AckLinksMsg
  <2> QED BY <1>5, <1>6, <2>1, LocalTold DEF Quiet
<1>8. TypedServer(s)'
  BY <1>1, TypeParts DEF FarmInv, TypedServer
<1>9. \A r \in Server \ {s} : Local(r, View(r)') /\ Typed(View(r)') /\ TypedServer(r)'
  BY <1>1, <1>3, <1>4, OthersStay DEF SameServer
<1>10. t \in Type /\ members \in [Type -> Seq(Server)]
  BY Links, TypeParts DEF FarmInv, MembersType
<1>11. MembersType'
  BY <1>1, <1>10 DEF MembersType
<1>12. MembersInv'
  <2>1. Range(members'[t]) = Range(members[t]) \cup {s}
    BY <1>1, <1>10, QueueRange
  <2>2. \A u \in Type \ {t} : members'[u] = members[u]
    BY <1>1, <1>10
  <2>3. life[s] # "off"
    BY <1>6 DEF UpTaken, View
  <2> QED BY <1>1, <2>1, <2>2, <2>3 DEF MembersInv, FarmInv
<1>13. HostsInv'
  <2>1. \A n, u : Offered(u, n) => Offered(u, n)'
    BY <1>1 DEF Offered, On
  <2> QED BY <1>2, <1>4, <2>1, HostsStay
<1>14. Domains' /\ LifeType'
  BY <1>1, <1>3, <1>4, TypeParts DEF FarmInv, Domains, LifeType
<1> QED BY <1>7, <1>8, <1>9, <1>11, <1>12, <1>13, <1>14, Assemble

\* The groups, when nobody joins or leaves them.
LEMMA MembersStay ==
  ASSUME FarmInv, members' = members, \A r \in Server : life[r] # "off" => life'[r] # "off"
  PROVE  MembersType' /\ MembersInv'
<1>1. members \in [Type -> Seq(Server)]
  BY TypeParts DEF FarmInv, MembersType
<1>2. \A t \in Type : Range(members[t]) \subseteq Server
  BY <1>1, RangeOfSeq
<1> QED BY <1>1, <1>2 DEF FarmInv, MembersType, MembersInv

LEMMA StepSetLinks ==
  ASSUME FarmInv, NEW s \in Server, SetLinks(s)
  PROVE  FarmInv'
<1> DEFINE d == UpTaken(s)
           w == View(s)'
<1>1. /\ FarmGets(s, LinksMsg) /\ Reply(s, AckLinksMsg)
      /\ ready' = [ready EXCEPT ![s] = {}] /\ reached' = [reached EXCEPT ![s] = {}]
      /\ UNCHANGED <<members, life, plug, bound, conns, asked>>
  BY DEF SetLinks, subVars
<1>2. PICK g \in [OutputTypes(s) -> Garbage] :
        port' = [port EXCEPT ![s] = [x \in ServerPlugs(s) |-> IF x = Client THEN @[x] ELSE g[x]]]
  BY DEF SetLinks
<1>3. Domains /\ TypedServer(s)
  BY TypeParts DEF FarmInv
<1>4. /\ DOMAIN port' = Server /\ DOMAIN port'[s] = ServerPlugs(s)
      /\ \A x \in ServerPlugs(s) : port'[s][x] = IF x = Client THEN port[s][x] ELSE g[x]
      /\ \A r \in Server \ {s} : port'[r] = port[r]
  BY <1>2, <1>3 DEF Domains
<1>5. Range(port'[s]) \subseteq Nat
  <2>1. \A x \in ServerPlugs(s) \ {Client} : g[x] \in Nat
    BY FarmConstants DEF ServerPlugs
  <2>2. port[s][Client] \in Nat
    BY <1>3, Links DEF TypedServer, Range
  <2> QED BY <1>4, <2>1, <2>2 DEF Range
<1>6. AckLinksMsg \in SubMsg /\ AckLinksMsg.type # "hosts"
  BY DEF SubMsg, AckLinksMsg
<1>7. /\ Remains(s, d, LinksMsg)
      /\ toFarm'[s] = Tail(toFarm[s]) /\ DOMAIN toFarm' = Server
      /\ \A r \in Server \ {s} : toFarm'[r] = toFarm[r]
  BY <1>1, FarmTakes
<1>8. /\ toSub'[s] = Append(toSub[s], AckLinksMsg) /\ DOMAIN toSub' = Server
      /\ \A r \in Server \ {s} : toSub'[r] = toSub[r]
      /\ \A c \in Server : \A k \in Range(toSub'[c]) : k \in Range(toSub[c]) \/ k = AckLinksMsg
  BY <1>1, <1>6, Replies
<1>9. /\ ready'[s] = {} /\ reached'[s] = {}
      /\ \A r \in Server \ {s} : ready'[r] = ready[r] /\ reached'[r] = reached[r]
      /\ DOMAIN ready' = Server /\ DOMAIN reached' = Server
  BY <1>1, <1>3 DEF Domains
<1>10. /\ Tells(d, w, AckLinksMsg) /\ w.life = d.life /\ w.ready = {} /\ w.bound = d.bound
       /\ DOMAIN w.port = ServerPlugs(s)
  BY <1>1, <1>4, <1>7, <1>8, <1>9 DEF UpTaken, View, Tells
<1>11. Quiet(d) /\ Local(s, d) /\ Typed(d) /\ d.life # "off"
  BY <1>7 DEF Remains, OfTrack, Hand, LinksMsg
<1>12. Local(s, w) /\ Typed(w)
  <2> HIDE DEF d, w
  <2> QED BY <1>10, <1>11, LocalTold
<1>13. TypedServer(s)'
  BY <1>1, <1>3, <1>4, <1>5, <1>9 DEF TypedServer
<1>14. \A r \in Server \ {s} : Local(r, View(r)') /\ Typed(View(r)') /\ TypedServer(r)'
  BY <1>1, <1>4, <1>7, <1>8, <1>9, OthersStay DEF SameServer
<1>15. MembersType' /\ MembersInv'
  BY <1>1, MembersStay
<1>16. HostsInv'
  <2>1. \A n, u : Offered(u, n) => Offered(u, n)'
    BY <1>1 DEF Offered, On
  <2> QED BY <1>6, <1>8, <2>1, HostsStay
<1>17. Domains' /\ LifeType'
  BY <1>1, <1>3, <1>4, <1>7, <1>8, <1>9, TypeParts DEF FarmInv, Domains, LifeType
<1> QED BY <1>12, <1>13, <1>14, <1>15, <1>16, <1>17, Assemble

LEMMA StepInfoList ==
  ASSUME FarmInv, NEW s \in Server, NEW x, ReqServerInfoList(s, x)
  PROVE  FarmInv'
<1> DEFINE d == UpTaken(s)
           w == View(s)'
           ns == HostsFor(x, TypeOf[s])
           m == HostsMsg(x, ns)
<1>1. /\ FarmGets(s, InfoListMsg(x)) /\ Reply(s, m)
      /\ UNCHANGED <<members, port, ready, reached, life, plug, bound, conns, asked>>
  BY DEF ReqServerInfoList, farmVars, subVars
<1>2. /\ Remains(s, d, InfoListMsg(x)) /\ InfoListMsg(x) \in FarmMsg
      /\ toFarm'[s] = Tail(toFarm[s]) /\ DOMAIN toFarm' = Server
      /\ \A r \in Server \ {s} : toFarm'[r] = toFarm[r]
  BY <1>1, FarmTakes
<1>3. x \in Type
  BY <1>2 DEF FarmMsg, InfoListMsg, LoginMsg, LinksMsg
<1>4. Range(members[x]) \subseteq Server
  BY <1>3, TypeParts, RangeOfSeq DEF FarmInv, MembersType
<1>5. ASSUME NEW n \in ns PROVE n \in Nat /\ Offered(x, n)
  <2>1. PICK r \in Range(members[x]) : TypeOf[s] \in ready[r] /\ n = port[r][TypeOf[s]]
    BY <1>5 DEF HostsFor
  <2>2. r \in Server /\ TypeOf[r] = x /\ life[r] # "off"
    BY <1>3, <1>4 DEF FarmInv, MembersInv
  <2>3. TypedServer(r) /\ LifeType
    BY <2>2, TypeParts DEF FarmInv
  <2>4. n \in Nat
    BY <2>1, <2>3 DEF TypedServer, Range
  <2>5. ReadyInv(View(r))
    BY <2>2 DEF FarmInv, Local
  <2>6. life[r] = "on" => n \in Range(bound[r])
    BY <2>1, <2>5 DEF ReadyInv, IsBound, View, Range
  <2> QED BY <2>2, <2>3, <2>4, <2>6 DEF Offered, On, LifeType
<1>6. m \in SubMsg /\ m.type = "hosts" /\ m.plug = x /\ m.ports = ns
  BY <1>3, <1>5 DEF SubMsg, HostsMsg
<1> HIDE DEF m, ns
<1>7. /\ toSub'[s] = Append(toSub[s], m) /\ DOMAIN toSub' = Server
      /\ \A r \in Server \ {s} : toSub'[r] = toSub[r]
      /\ \A c \in Server : \A k \in Range(toSub'[c]) : k \in Range(toSub[c]) \/ k = m
  BY <1>1, <1>6, Replies
<1>8. /\ Tells(d, w, m)
      /\ w.life = d.life /\ w.ready = d.ready /\ w.port = d.port /\ w.bound = d.bound
  BY <1>1, <1>2, <1>7 DEF UpTaken, View, Tells
<1>9. Local(s, d) /\ Typed(d) /\ d.life # "off"
  BY <1>2 DEF Remains
<1>10. Local(s, w) /\ Typed(w)
  <2> HIDE DEF d, w
  <2> QED BY <1>6, <1>8, <1>9, LocalHosts
<1>11. TypedServer(s)'
  BY <1>1, TypeParts DEF FarmInv, TypedServer
<1>12. \A r \in Server \ {s} : Local(r, View(r)') /\ Typed(View(r)') /\ TypedServer(r)'
  BY <1>1, <1>2, <1>7, OthersStay DEF SameServer
<1>13. MembersType' /\ MembersInv'
  BY <1>1, MembersStay
<1>14. HostsInv'
  <2>1. \A n, u : Offered(u, n) => Offered(u, n)'
    BY <1>1 DEF Offered, On
  <2> QED BY <1>5, <1>6, <1>7, <2>1, HostsStay
<1>15. Domains' /\ LifeType'
  BY <1>1, <1>2, <1>7, TypeParts DEF FarmInv, Domains, LifeType
<1> QED BY <1>10, <1>11, <1>12, <1>13, <1>14, <1>15, Assemble

LEMMA StepBindPort ==
  ASSUME FarmInv, NEW s \in Server, NEW x, ReqToBindPort(s, x)
  PROVE  FarmInv'
<1> DEFINE d == UpTaken(s)
           w == View(s)'
           n == PortAfter(members[TypeOf[s]], x)
           m == AckPortMsg(x, n)
<1>1. /\ FarmGets(s, BindPortMsg(x)) /\ Reply(s, m)
      /\ port' = [port EXCEPT ![s][x] = n]
      /\ UNCHANGED <<members, ready, reached, life, plug, bound, conns, asked>>
  BY DEF ReqToBindPort, subVars
<1>2. /\ Remains(s, d, BindPortMsg(x)) /\ BindPortMsg(x) \in FarmMsg
      /\ toFarm[s] \in Seq(FarmMsg) /\ toFarm[s] # <<>> /\ BindPortMsg(x) = Head(toFarm[s])
      /\ toFarm'[s] = Tail(toFarm[s]) /\ DOMAIN toFarm' = Server
      /\ \A r \in Server \ {s} : toFarm'[r] = toFarm[r]
  BY <1>1, FarmTakes
<1>3. x \in Plugs
  BY <1>2 DEF FarmMsg, BindPortMsg, LoginMsg, LinksMsg, Plugs
<1>4. n \in Nat
  <2>1. \A r \in Server : \A k \in Nat : NextPort(r, x, k) \in Nat
    <3> TAKE r \in Server
    <3>1. DOMAIN port[r] \in {{Client}, ServerPlugs(r)}
      BY TypeParts DEF FarmInv, TypedServer
    <3>2. IsFiniteSet({Client})
      BY FS_Singleton
    <3>3. IsFiniteSet(DOMAIN port[r])
      BY <3>1, <3>2, FinitePlugs
    <3> QED BY <3>3, NextPortType
  <2>2. members[TypeOf[s]] \in Seq(Server)
    BY Links, TypeParts DEF FarmInv, MembersType
  <2> QED BY <2>1, <2>2, PortAfterType
<1>5. m \in SubMsg /\ m.type # "hosts"
  BY <1>3, <1>4 DEF SubMsg, AckPortMsg, Plugs
<1>6. /\ toSub'[s] = Append(toSub[s], m) /\ DOMAIN toSub' = Server
      /\ \A r \in Server \ {s} : toSub'[r] = toSub[r]
      /\ \A c \in Server : \A k \in Range(toSub'[c]) : k \in Range(toSub[c]) \/ k = m
  BY <1>1, <1>5, Replies
<1> HIDE DEF n
<1>7. Domains /\ TypedServer(s) /\ AskInv(View(s))
  BY TypeParts DEF FarmInv, Local
<1>8. x \in DOMAIN port[s] /\ x \notin ready[s] \cup DOMAIN bound[s]
  <2>1. 1 \in 1..Len(toFarm[s]) /\ toFarm[s][1] = BindPortMsg(x)
    BY <1>2, TailElements
  <2> QED BY <1>7, <2>1 DEF AskInv, View, BindPortMsg
<1>9. /\ port'[s] = [port[s] EXCEPT ![x] = n] /\ DOMAIN port' = Server
      /\ \A r \in Server \ {s} : port'[r] = port[r]
  BY <1>1, <1>7 DEF Domains
<1>10. /\ Tells(d, w, m) /\ w.port = [d.port EXCEPT ![x] = n]
       /\ w.life = d.life /\ w.ready = d.ready /\ w.bound = d.bound
  BY <1>1, <1>2, <1>6, <1>9 DEF UpTaken, View, Tells
<1>11. /\ Local(s, d) /\ Typed(d) /\ d.life # "off"
       /\ None(d.up, d.down, Bind(x)) /\ None(d.up, d.down, Hand)
  BY <1>2, <1>3 DEF Remains, OfTrack, Bind, BindPortMsg
<1>12. /\ x \in DOMAIN d.port /\ x \notin d.ready \cup DOMAIN d.bound
       /\ d.ready \subseteq DOMAIN d.port
  BY <1>7, <1>8 DEF UpTaken, View, TypedServer
<1>13. Local(s, w) /\ Typed(w)
  <2> HIDE DEF d, w
  <2> QED BY <1>3, <1>4, <1>10, <1>11, <1>12, LocalChosen
<1>14. TypedServer(s)'
  <2>1. DOMAIN port'[s] = DOMAIN port[s] /\ Range(port'[s]) \subseteq Range(port[s]) \cup {n}
    BY <1>8, <1>9 DEF Range
  <2> QED BY <1>1, <1>4, <1>7, <2>1 DEF TypedServer
<1>15. \A r \in Server \ {s} : Local(r, View(r)') /\ Typed(View(r)') /\ TypedServer(r)'
  BY <1>1, <1>2, <1>6, <1>9, OthersStay DEF SameServer
<1>16. MembersType' /\ MembersInv'
  BY <1>1, MembersStay
<1>17. HostsInv'
  <2>1. \A k, u : Offered(u, k) => Offered(u, k)'
    BY <1>1 DEF Offered, On
  <2> QED BY <1>5, <1>6, <2>1, HostsStay
<1>18. Domains' /\ LifeType'
  BY <1>1, <1>2, <1>6, <1>9, TypeParts DEF FarmInv, Domains, LifeType
<1> QED BY <1>13, <1>14, <1>15, <1>16, <1>17, <1>18, Assemble

LEMMA StepConnDone ==
  ASSUME FarmInv, NEW s \in Server, NEW x, ReqSubClientConnectComplete(s, x)
  PROVE  FarmInv'
<1> DEFINE d == UpTaken(s)
           w == View(s)'
<1>1. /\ FarmGets(s, ConnDoneMsg(x))
      /\ reached' = [reached EXCEPT ![s] = @ \cup ({x} \cap InputTypes(s))]
      /\ UNCHANGED <<members, port, ready, life, plug, bound, conns, asked, toSub>>
  BY DEF ReqSubClientConnectComplete, subVars
<1>2. /\ Remains(s, d, ConnDoneMsg(x))
      /\ toFarm'[s] = Tail(toFarm[s]) /\ DOMAIN toFarm' = Server
      /\ \A r \in Server \ {s} : toFarm'[r] = toFarm[r]
  BY <1>1, FarmTakes
<1>3. Domains /\ TypedServer(s)
  BY TypeParts DEF FarmInv
<1>4. /\ reached'[s] \subseteq InputTypes(s) /\ DOMAIN reached' = Server
      /\ \A r \in Server \ {s} : reached'[r] = reached[r]
  BY <1>1, <1>3 DEF Domains, TypedServer
<1>5. SameRest(d, w) /\ w.up = d.up /\ w.down = d.down
  BY <1>1, <1>2 DEF UpTaken, View, SameRest
<1>6. Local(s, w) /\ Typed(w)
  <2>1. Local(s, d) /\ Typed(d)
    BY <1>2 DEF Remains
  <2> HIDE DEF d, w
  <2> QED BY <1>5, <2>1, LocalSame DEF Typed
<1>7. TypedServer(s)'
  BY <1>1, <1>3, <1>4 DEF TypedServer
<1>8. \A r \in Server \ {s} : Local(r, View(r)') /\ Typed(View(r)') /\ TypedServer(r)'
  BY <1>1, <1>2, <1>4, OthersStay DEF SameServer
<1>9. MembersType' /\ MembersInv'
  BY <1>1, MembersStay
<1>10. HostsInv'
  <2>1. \A k, u : Offered(u, k) => Offered(u, k)'
    BY <1>1 DEF Offered, On
  <2> QED BY <1>1, <2>1, HostsStay
<1>11. Domains' /\ LifeType'
  BY <1>1, <1>2, <1>4, TypeParts DEF FarmInv, Domains, LifeType
<1> QED BY <1>6, <1>7, <1>8, <1>9, <1>10, <1>11, Assemble

LEMMA StepLeave ==
  ASSUME FarmInv, NEW s \in Server, Leave(s)
  PROVE  FarmInv'
<1> DEFINE w == View(s)'
           t == TypeOf[s]
<1>1. /\ life[s] = "dead" /\ life' = [life EXCEPT ![s] = "gone"]
      /\ members' = [members EXCEPT ![t] = Kept(@, {i \in DOMAIN @ : @[i] # s})]
      /\ port' = [port EXCEPT ![s] = [x \in {Client} |-> 0]]
      /\ ready' = [ready EXCEPT ![s] = {}] /\ reached' = [reached EXCEPT ![s] = {}]
      /\ toFarm' = [toFarm EXCEPT ![s] = <<>>] /\ toSub' = [toSub EXCEPT ![s] = <<>>]
      /\ UNCHANGED <<plug, bound, conns, asked>>
  BY DEF Leave
<1>2. Domains /\ TypedServer(s) /\ LifeType /\ MembersType /\ t \in Type
  BY Links, TypeParts DEF FarmInv
<1>3. /\ life'[s] = "gone" /\ port'[s] = [x \in {Client} |-> 0]
      /\ ready'[s] = {} /\ reached'[s] = {} /\ toFarm'[s] = <<>> /\ toSub'[s] = <<>>
      /\ \A r \in Server \ {s} : SameServer(r) /\ toFarm'[r] = toFarm[r] /\ toSub'[r] = toSub[r]
  BY <1>1, <1>2 DEF Domains, LifeType, SameServer
<1>4. Local(s, w) /\ Typed(w)
  <2>1. w.life = "gone" /\ w.ready = {} /\ w.up = <<>> /\ w.down = <<>>
    BY <1>3 DEF View
  <2> HIDE DEF w
  <2> QED BY <2>1, LocalGone
<1>5. TypedServer(s)'
  <2>1. DOMAIN port'[s] = {Client} /\ Range(port'[s]) \subseteq Nat
    BY <1>3 DEF Range
  <2> QED BY <1>1, <1>2, <1>3, <2>1 DEF TypedServer
<1>6. \A r \in Server \ {s} : Local(r, View(r)') /\ Typed(View(r)') /\ TypedServer(r)'
  BY <1>3, OthersStay
<1>7. members'[t] \in Seq(Server) /\ Range(members'[t]) \subseteq Range(members[t])
  <2> DEFINE q == members[t]
             K == {i \in DOMAIN q : q[i] # s}
  <2>1. q \in Seq(Server) /\ K \in SUBSET DOMAIN q
    BY <1>2 DEF MembersType
  <2>2. members'[t] = Kept(q, K)
    BY <1>1, <1>2 DEF MembersType
  <2> HIDE DEF q, K
  <2>3. /\ Kept(q, K) \in Seq(Server)
        /\ \A k \in DOMAIN Kept(q, K) : \E i \in K : Kept(q, K)[k] = q[i]
    BY <2>1, KeptElements
  <2>4. Range(Kept(q, K)) \subseteq Range(q)
    BY <2>1, <2>3 DEF Range
  <2> QED BY <2>2, <2>3, <2>4 DEF q
<1>8. \A u \in Type \ {t} : members'[u] = members[u]
  BY <1>1, <1>2 DEF MembersType
<1>9. MembersType'
  BY <1>1, <1>2, <1>7, <1>8 DEF MembersType
<1>10. MembersInv'
  <2>1. \A u \in Type : Range(members[u]) \subseteq Server
    BY <1>2, RangeOfSeq DEF MembersType
  <2>2. \A r \in Server : life[r] # "off" => life'[r] # "off"
    BY <1>3 DEF SameServer
  <2>3. \A u \in Type : Range(members'[u]) \subseteq Range(members[u])
    BY <1>7, <1>8
  <2> QED BY <2>1, <2>2, <2>3 DEF MembersInv, FarmInv
<1>11. HostsInv'
  <2>1. \A k, u : Offered(u, k) => Offered(u, k)'
    BY <1>1, <1>3 DEF Offered, On, SameServer
  <2>2. \A c \in Server : Range(toSub'[c]) \subseteq Range(toSub[c])
    BY <1>3 DEF Range
  <2> QED BY <2>1, <2>2, HostsStay
<1>12. Domains' /\ LifeType'
  BY <1>1, <1>2 DEF Domains, LifeType
<1> QED BY <1>4, <1>5, <1>6, <1>9, <1>10, <1>11, <1>12, Assemble

LEMMA StepBindDone ==
  ASSUME FarmInv, NEW s \in Server, NEW x, ReqSubServerBindComplete(s, x)
  PROVE  FarmInv'
<1> DEFINE d == UpTaken(s)
           m == HostsMsg(TypeOf[s], {port[s][x]})
           Told(c) == x # Client /\ BindSubServer(s, x, c)
           v(c) == [View(c)' EXCEPT !.down = toSub[c]]
<1>1. /\ FarmGets(s, BindDoneMsg(x))
      /\ ready' = [ready EXCEPT ![s] = @ \cup ({x} \ {Client})]
      /\ toSub' = [c \in Server |-> IF Told(c) THEN Append(toSub[c], m) ELSE toSub[c]]
      /\ UNCHANGED <<members, port, reached, life, plug, bound, conns, asked>>
  BY DEF ReqSubServerBindComplete, subVars
<1>2. /\ Remains(s, d, BindDoneMsg(x)) /\ BindDoneMsg(x) \in FarmMsg
      /\ toFarm[s] \in Seq(FarmMsg) /\ toFarm[s] # <<>> /\ BindDoneMsg(x) = Head(toFarm[s])
      /\ toFarm'[s] = Tail(toFarm[s]) /\ DOMAIN toFarm' = Server
      /\ \A r \in Server \ {s} : toFarm'[r] = toFarm[r]
  BY <1>1, FarmTakes
<1>3. x \in Plugs
  BY <1>2 DEF FarmMsg, BindDoneMsg, LoginMsg, LinksMsg, Plugs
<1>4. Domains /\ TypedServer(s) /\ LifeType /\ ReportInv(View(s)) /\ TypeOf[s] \in Type
  BY Links, TypeParts DEF FarmInv, Local
<1>5. x \in DOMAIN port[s] /\ (life[s] = "on" => IsBound(View(s), x))
  <2>1. 1 \in 1..Len(toFarm[s]) /\ toFarm[s][1] = BindDoneMsg(x)
    BY <1>2, TailElements
  <2> QED BY <1>4, <2>1 DEF ReportInv, View, BindDoneMsg
<1>6. port[s][x] \in Nat
  BY <1>4, <1>5 DEF TypedServer, Range
<1>7. m \in SubMsg /\ m.type = "hosts" /\ m.plug = TypeOf[s] /\ m.ports = {port[s][x]}
  BY <1>4, <1>6 DEF SubMsg, HostsMsg
<1>8. life[s] # "off"
  BY <1>2 DEF Remains, UpTaken, View
<1>9. Offered(TypeOf[s], port[s][x])
  <2>1. life[s] = "on" => port[s][x] \in Range(bound[s])
    BY <1>5 DEF IsBound, View, Range
  <2> QED BY <1>4, <1>8, <2>1 DEF Offered, On, LifeType
<1> HIDE DEF m
<1>10. /\ ready'[s] = ready[s] \cup ({x} \ {Client}) /\ DOMAIN ready' = Server
       /\ \A r \in Server \ {s} : ready'[r] = ready[r]
  BY <1>1, <1>4 DEF Domains
<1>11. Local(s, v(s)) /\ Typed(v(s))
  <2> DEFINE w == v(s)
  <2>1. /\ Local(s, d) /\ Typed(d) /\ d.life # "off"
        /\ None(d.up, d.down, Bind(x)) /\ None(d.up, d.down, Hand)
    BY <1>2, <1>3 DEF Remains, OfTrack, Bind, BindDoneMsg
  <2>2. d.life = "on" => IsBound(d, x)
    BY <1>5 DEF UpTaken, View, IsBound
  <2>3. /\ w.ready = d.ready \cup ({x} \ {Client}) /\ w.life = d.life /\ w.port = d.port
        /\ w.bound = d.bound /\ w.up = d.up /\ w.down = d.down
    BY <1>1, <1>2, <1>10 DEF UpTaken, View
  <2> HIDE DEF d, w
  <2>4. Local(s, w) /\ Typed(w)
    BY <1>3, <2>1, <2>2, <2>3, LocalReady
  <2> QED BY <2>4 DEF w
<1>12. ASSUME NEW c \in Server PROVE Local(c, v(c)) /\ Typed(v(c))
  <2> DEFINE w == v(c)
             u == View(c)
  <2>1. CASE c # s
    <3>1. SameRest(u, w) /\ w.up = u.up /\ w.down = u.down
      BY <1>1, <1>2, <1>10, <2>1 DEF View, SameRest
    <3>2. Local(c, u) /\ Typed(u)
      BY TypeParts DEF FarmInv
    <3> HIDE DEF u, w
    <3>3. Local(c, w) /\ Typed(w)
      BY <3>1, <3>2, LocalSame DEF Typed
    <3> QED BY <3>3 DEF w
  <2> QED BY <1>11, <2>1
<1>13. ASSUME NEW c \in Server PROVE Local(c, View(c)') /\ Typed(View(c)')
  <2> DEFINE w == View(c)'
             u == v(c)
  <2>1. SameRest(u, w) /\ w.up = u.up /\ u.down = toSub[c] /\ w.down = toSub'[c]
    BY DEF View, SameRest
  <2>2. Local(c, u) /\ Typed(u) /\ u.life = life'[c]
    BY <1>12 DEF View
  <2>3. CASE Told(c)
    <3>1. life[c] # "off"
      <4>1. PICK t \in OutputTypes(s) : c \in Range(members[t])
        BY <2>3 DEF BindSubServer
      <4>2. t \in Type
        BY Links
      <4> QED BY <4>1, <4>2 DEF FarmInv, MembersInv
    <3>2. Tells(u, w, m) /\ u.life # "off"
      BY <1>1, <2>1, <2>2, <2>3, <3>1 DEF Tells
    <3> HIDE DEF u, w
    <3>3. Local(c, w) /\ Typed(w)
      BY <1>7, <2>1, <2>2, <3>2, LocalHosts DEF SameRest
    <3> QED BY <3>3 DEF w
  <2>4. CASE ~Told(c)
    <3>1. w.down = u.down
      BY <1>1, <2>1, <2>4
    <3> HIDE DEF u, w
    <3>2. Local(c, w) /\ Typed(w)
      BY <2>1, <2>2, <3>1, LocalSame DEF Typed
    <3> QED BY <3>2 DEF w
  <2> QED BY <2>3, <2>4
<1>14. \A r \in Server : TypedServer(r)'
  <2>1. TypedServer(s)'
    BY <1>1, <1>4, <1>5, <1>10 DEF TypedServer
  <2>2. \A r \in Server \ {s} : TypedServer(r)'
    BY <1>1, <1>10, TypeParts DEF FarmInv, TypedServer
  <2> QED BY <2>1, <2>2
<1>15. MembersType' /\ MembersInv'
  BY <1>1, MembersStay
<1>16. HostsInv'
  <2>1. \A k, u : Offered(u, k) => Offered(u, k)'
    BY <1>1 DEF Offered, On
  <2>2. ASSUME NEW c \in Server, NEW k \in Range(toSub'[c])
        PROVE  k \in Range(toSub[c]) \/ k = m
    <3>1. toSub[c] \in Seq(SubMsg)
      BY TypeParts DEF FarmInv, Typed, View
    <3>2. Range(Append(toSub[c], m)) = Range(toSub[c]) \cup {m}
      BY <1>7, <3>1, QueueRange
    <3> QED BY <1>1, <2>2, <3>2
  <2> QED BY <1>7, <1>9, <2>1, <2>2, HostsStay
<1>17. Domains' /\ LifeType'
  BY <1>1, <1>2, <1>4, <1>10 DEF Domains, LifeType
<1> QED BY <1>13, <1>14, <1>15, <1>16, <1>17, Assemble

-----------------------------------------------------------------------------
(* The steps of the sub servers.                                           *)

LEMMA Sent ==
  ASSUME FarmInv, NEW s \in Server, NEW ms \in Seq(FarmMsg), SendFarm(s, ms)
  PROVE  /\ toFarm'[s] = toFarm[s] \o ms /\ DOMAIN toFarm' = Server
         /\ \A r \in Server \ {s} : toFarm'[r] = toFarm[r]
<1>1. DOMAIN toFarm = Server
  BY DEF FarmInv, Domains
<1> QED BY <1>1 DEF SendFarm

LEMMA StepStart ==
  ASSUME FarmInv, NEW s \in Server, Start(s)
  PROVE  FarmInv'
<1> DEFINE v == View(s)
           w == View(s)'
           ms == <<LoginMsg>>
<1>1. /\ life[s] = "off" /\ life' = [life EXCEPT ![s] = "on"] /\ SendFarm(s, ms)
      /\ UNCHANGED <<members, port, ready, reached, plug, bound, conns, asked, toSub>>
  BY DEF Start, farmVars
<1>2. Domains /\ LifeType /\ TypedServer(s) /\ Local(s, v) /\ Typed(v)
  BY TypeParts DEF FarmInv
<1>3. ms \in Seq(FarmMsg)
  BY DEF FarmMsg
<1>4. /\ toFarm'[s] = toFarm[s] \o ms /\ DOMAIN toFarm' = Server
      /\ \A r \in Server \ {s} : toFarm'[r] = toFarm[r]
  <2> HIDE DEF ms
  <2> QED BY <1>1, <1>3, Sent
<1>5. life'[s] = "on" /\ \A r \in Server \ {s} : life'[r] = life[r]
  BY <1>1, <1>2 DEF LifeType
<1>6. /\ v.life = "off" /\ w.life = "on" /\ Sends(v, w, ms)
      /\ w.ready = v.ready /\ w.port = v.port /\ w.bound = v.bound
  BY <1>1, <1>4, <1>5 DEF View, Sends
<1>7. Local(s, w) /\ Typed(w)
  <2> HIDE DEF v, w
  <2> QED BY <1>2, <1>6, LocalStart
<1>8. TypedServer(s)'
  BY <1>1, <1>2 DEF TypedServer
<1>9. \A r \in Server \ {s} : Local(r, View(r)') /\ Typed(View(r)') /\ TypedServer(r)'
  BY <1>1, <1>4, <1>5, OthersStay DEF SameServer
<1>10. MembersType' /\ MembersInv'
  BY <1>1, <1>5, MembersStay
<1>11. HostsInv'
  <2>1. \A k, u : Offered(u, k) => Offered(u, k)'
    BY <1>1, <1>5 DEF Offered, On
  <2> QED BY <1>1, <2>1, HostsStay
<1>12. Domains' /\ LifeType'
  BY <1>1, <1>2, <1>4 DEF Domains, LifeType
<1> QED BY <1>7, <1>8, <1>9, <1>10, <1>11, <1>12, Assemble

LEMMA StepDie ==
  ASSUME FarmInv, NEW s \in Server, Die(s)
  PROVE  FarmInv'
<1>1. /\ life[s] = "on" /\ life' = [life EXCEPT ![s] = "dead"]
      /\ bound' = [bound EXCEPT ![s] = <<>>]
      /\ conns' = [r \in Server |-> IF r = s THEN {} ELSE {c \in conns[r] : c[1] # s}]
      /\ UNCHANGED <<members, port, ready, reached, plug, asked, toFarm, toSub>>
  BY DEF Die, On, farmVars
<1>2. Domains /\ LifeType /\ \A r \in Server : TypedServer(r) /\ Local(r, View(r)) /\ Typed(View(r))
  BY TypeParts DEF FarmInv
<1>3. /\ life'[s] = "dead" /\ DOMAIN bound'[s] = {} /\ Range(bound'[s]) = {}
      /\ \A r \in Server \ {s} : life'[r] = life[r] /\ bound'[r] = bound[r]
  BY <1>1, <1>2 DEF LifeType, Domains, Range
<1>4. \A r \in Server : conns'[r] \subseteq conns[r]
  BY <1>1
<1>5. ASSUME NEW r \in Server PROVE Local(r, View(r)') /\ Typed(View(r)') /\ TypedServer(r)'
  <2> DEFINE v == View(r)
             w == View(r)'
  <2>1. Local(r, v) /\ Typed(v)
    BY <1>2
  <2>2. w.ready = v.ready /\ w.port = v.port /\ w.up = v.up /\ w.down = v.down
    BY <1>1 DEF View
  <2>3. CASE r = s
    <3>1. v.life = "on" /\ w.life = "dead" /\ DOMAIN w.bound = {}
      BY <1>1, <1>3, <2>3 DEF View
    <3>2. Local(r, w) /\ Typed(w)
      <4> HIDE DEF v, w
      <4> QED BY <2>1, <2>2, <3>1, LocalDies
    <3>3. TypedServer(r)'
      BY <1>1, <1>2, <1>3, <1>4, <2>3 DEF TypedServer
    <3> QED BY <3>2, <3>3
  <2>4. CASE r # s
    <3>1. SameRest(v, w)
      BY <1>1, <1>3, <2>4 DEF View, SameRest
    <3>2. Local(r, w) /\ Typed(w)
      <4> HIDE DEF v, w
      <4> QED BY <2>1, <2>2, <3>1, LocalSame DEF Typed
    <3>3. TypedServer(r)'
      BY <1>1, <1>2, <1>3, <1>4, <2>4 DEF TypedServer
    <3> QED BY <3>2, <3>3
  <2> QED BY <2>3, <2>4
<1>6. MembersType' /\ MembersInv'
  BY <1>1, <1>3, MembersStay
<1>7. HostsInv'
  <2>1. \A k, u : Offered(u, k) => Offered(u, k)'
    BY <1>1, <1>3 DEF Offered, On
  <2> QED BY <1>1, <2>1, HostsStay
<1>8. Domains' /\ LifeType'
  BY <1>1, <1>2 DEF Domains, LifeType
<1> QED BY <1>5, <1>6, <1>7, <1>8, Assemble

LEMMA StepAckLogin ==
  ASSUME FarmInv, NEW s \in Server, AckSubServerLogin(s)
  PROVE  FarmInv'
<1> DEFINE d == DownTaken(s)
           w == View(s)'
           ms == <<LinksMsg>>
<1>1. /\ SubGets(s, AckLoginMsg) /\ SendFarm(s, ms)
      /\ UNCHANGED <<members, port, ready, reached, life, plug, bound, conns, asked>>
  BY DEF AckSubServerLogin, farmVars, subVars
<1>2. /\ Remains(s, d, AckLoginMsg)
      /\ toSub'[s] = Tail(toSub[s]) /\ DOMAIN toSub' = Server
      /\ \A r \in Server \ {s} : toSub'[r] = toSub[r]
      /\ \A c \in Server : Range(toSub'[c]) \subseteq Range(toSub[c])
  BY <1>1, SubTakes
<1>3. ms \in Seq(FarmMsg)
  BY DEF FarmMsg
<1>4. /\ toFarm'[s] = toFarm[s] \o ms /\ DOMAIN toFarm' = Server
      /\ \A r \in Server \ {s} : toFarm'[r] = toFarm[r]
  <2> HIDE DEF ms
  <2> QED BY <1>1, <1>3, Sent
<1>5. Sends(d, w, ms) /\ SameRest(d, w)
  BY <1>1, <1>2, <1>4 DEF View, DownTaken, Sends, SameRest
<1>6. Local(s, d) /\ Typed(d) /\ Quiet(d) /\ d.life # "off"
  BY <1>2 DEF Remains, OfTrack, Hand, AckLoginMsg
<1>7. Local(s, w) /\ Typed(w)
  <2> HIDE DEF d, w
  <2> QED BY <1>5, <1>6, LocalLinks
<1>8. TypedServer(s)'
  BY <1>1, TypeParts DEF FarmInv, TypedServer
<1>9. \A r \in Server \ {s} : Local(r, View(r)') /\ Typed(View(r)') /\ TypedServer(r)'
  BY <1>1, <1>2, <1>4, OthersStay DEF SameServer
<1>10. MembersType' /\ MembersInv'
  BY <1>1, MembersStay
<1>11. HostsInv'
  <2>1. \A k, u : Offered(u, k) => Offered(u, k)'
    BY <1>1 DEF Offered, On
  <2> QED BY <1>2, <2>1, HostsStay
<1>12. Domains' /\ LifeType'
  BY <1>1, <1>2, <1>4, TypeParts DEF FarmInv, Domains, LifeType
<1> QED BY <1>7, <1>8, <1>9, <1>10, <1>11, <1>12, Assemble

\* The plugs that are not connected yet, each once.
LEMMA UnconnectedElements ==
  ASSUME NEW S, NEW q \in Seq(S), IsInjective(q), NEW s
  PROVE  LET u == Unconnected(s, q)
         IN /\ u \in Seq(S) /\ Range(u) \subseteq Range(q)
            /\ \A i, j \in DOMAIN u : u[i] = u[j] => i = j
<1> DEFINE K == {i \in DOMAIN q : plug[s][q[i]] = "wait"}
           u == Kept(q, K)
<1>1. K \in SUBSET DOMAIN q /\ Unconnected(s, q) = u
  BY DEF Unconnected
<1> HIDE DEF K
<1>2. /\ u \in Seq(S)
      /\ \A n \in DOMAIN u : \E i \in K : Place(K, i) = n /\ u[n] = q[i]
  BY <1>1, KeptElements
<1> HIDE DEF u
<1>3. Range(u) \subseteq Range(q)
  BY <1>1, <1>2 DEF Range
<1>4. ASSUME NEW m \in DOMAIN u, NEW n \in DOMAIN u, u[m] = u[n] PROVE m = n
  <2>1. PICK i \in K : Place(K, i) = m /\ u[m] = q[i]
    BY <1>2
  <2>2. PICK j \in K : Place(K, j) = n /\ u[n] = q[j]
    BY <1>2
  <2>3. i = j
    BY <1>1, <1>4, <2>1, <2>2 DEF IsInjective
  <2> QED BY <2>1, <2>2, <2>3
<1> QED BY <1>1, <1>2, <1>3, <1>4

\* A message for every plug of a list.
LEMMA ForEvery ==
  ASSUME NEW q \in Seq(Plugs), NEW f, DOMAIN f = DOMAIN q, \A i \in DOMAIN q : f[i] \in FarmMsg,
         f = [i \in DOMAIN q |-> f[i]]
  PROVE  f \in Seq(FarmMsg) /\ Len(f) = Len(q)
<1>1. Len(q) \in Nat /\ DOMAIN q = 1..Len(q)
  OBVIOUS
<1>2. f \in [1..Len(q) -> FarmMsg]
  BY <1>1
<1> HIDE DEF FarmMsg
<1> QED BY <1>1, <1>2, SeqDef

LEMMA StepConnectLink ==
  ASSUME FarmInv, NEW s \in Server, ConnectLink(s)
  PROVE  FarmInv'
<1> DEFINE d == DownTaken(s)
           w == View(s)'
           ins == Unconnected(s, Inputs[TypeOf[s]])
           all == Append(Outputs[TypeOf[s]], Client)
           outs == Unconnected(s, all)
           lists == [i \in DOMAIN ins |-> InfoListMsg(ins[i])]
           binds == [i \in DOMAIN outs |-> BindPortMsg(outs[i])]
           ms == lists \o binds
<1>1. /\ SubGets(s, AckLinksMsg) /\ SendFarm(s, ms)
      /\ plug' = [plug EXCEPT ![s] = [x \in DOMAIN @ |-> IF @[x] = "wait" THEN "try" ELSE @[x]]]
      /\ asked' = [asked EXCEPT ![s] = Range(ins)]
      /\ UNCHANGED <<members, port, ready, reached, life, bound, conns>>
  BY DEF ConnectLink, farmVars
<1>2. /\ Remains(s, d, AckLinksMsg) /\ toSub[s] \in Seq(SubMsg) /\ toSub[s] # <<>>
      /\ AckLinksMsg = Head(toSub[s])
      /\ toSub'[s] = Tail(toSub[s]) /\ DOMAIN toSub' = Server
      /\ \A r \in Server \ {s} : toSub'[r] = toSub[r]
      /\ \A c \in Server : Range(toSub'[c]) \subseteq Range(toSub[c])
  BY <1>1, SubTakes
<1>3. Domains /\ TypedServer(s) /\ LinksInv(s, View(s)) /\ TypeOf[s] \in Type
  BY Links, TypeParts DEF FarmInv, Local
<1>4. DOMAIN port[s] = ServerPlugs(s)
  <2>1. 1 \in 1..Len(toSub[s]) /\ toSub[s][1] = AckLinksMsg
    BY <1>2, TailElements
  <2> QED BY <1>3, <2>1 DEF LinksInv, View, AckLinksMsg
<1>5. /\ ins \in Seq(Type) /\ Range(ins) \subseteq InputTypes(s)
  <2>1. Inputs[TypeOf[s]] \in Seq(Type) /\ IsInjective(Inputs[TypeOf[s]])
    BY <1>3, Links, FarmConstants
  <2> QED BY <2>1, UnconnectedElements DEF InputTypes
<1>6. /\ outs \in Seq(Plugs) /\ Range(outs) \subseteq ServerPlugs(s)
      /\ \A i, j \in DOMAIN outs : outs[i] = outs[j] => i = j
  <2> DEFINE o == Outputs[TypeOf[s]]
  <2>1. o \in Seq(Type) /\ IsInjective(o) /\ Client \notin Type
    BY <1>3, Links, FarmConstants
  <2>2. OutputTypes(s) = Range(o)
    BY DEF OutputTypes
  <2> HIDE DEF o
  <2>3. /\ Append(o, Client) \in Seq(Plugs)
        /\ DOMAIN Append(o, Client) = 1..(Len(o) + 1) /\ DOMAIN o = 1..Len(o) /\ Len(o) \in Nat
        /\ \A i \in 1..Len(o) : Append(o, Client)[i] = o[i] /\ o[i] \in Type
        /\ Append(o, Client)[Len(o) + 1] = Client
    BY <2>1 DEF Plugs
  <2>4. IsInjective(Append(o, Client))
    BY <2>1, <2>3 DEF IsInjective
  <2>5. Range(Append(o, Client)) = Range(o) \cup {Client}
    BY <2>3 DEF Range
  <2>6. Range(outs) \subseteq Range(Append(o, Client)) /\ outs \in Seq(Plugs)
        /\ \A i, j \in DOMAIN outs : outs[i] = outs[j] => i = j
    BY <2>3, <2>4, UnconnectedElements DEF o
  <2> QED BY <2>2, <2>5, <2>6 DEF ServerPlugs
<1> HIDE DEF ins, outs
<1>7. lists \in Seq(FarmMsg) /\ \A i \in DOMAIN lists : lists[i].type = "infolist"
  <2>1. ins \in Seq(Plugs)
    BY <1>5 DEF Plugs
  <2>2. \A i \in DOMAIN ins : ins[i] \in Type
    BY <1>5
  <2>3. \A i \in DOMAIN ins : lists[i] \in FarmMsg
    BY <2>2 DEF FarmMsg, InfoListMsg
  <2>4. DOMAIN lists = DOMAIN ins /\ lists = [i \in DOMAIN ins |-> lists[i]]
    OBVIOUS
  <2>5. \A i \in DOMAIN lists : lists[i].type = "infolist"
    BY DEF InfoListMsg
  <2> HIDE DEF lists
  <2> QED BY <2>1, <2>3, <2>4, <2>5, ForEvery
<1>8. /\ binds \in Seq(FarmMsg) /\ DOMAIN binds = DOMAIN outs
      /\ \A i \in DOMAIN binds : binds[i].type = "bindport" /\ binds[i].plug = outs[i]
  <2>1. \A i \in DOMAIN outs : outs[i] \in Plugs
    BY <1>6
  <2>2. \A i \in DOMAIN outs : binds[i] \in FarmMsg
    BY <2>1 DEF FarmMsg, BindPortMsg, Plugs
  <2>3. DOMAIN binds = DOMAIN outs /\ binds = [i \in DOMAIN outs |-> binds[i]]
    OBVIOUS
  <2>4. \A i \in DOMAIN binds : binds[i].type = "bindport" /\ binds[i].plug = outs[i]
    BY DEF BindPortMsg
  <2> HIDE DEF binds
  <2> QED BY <1>6, <2>2, <2>3, <2>4, ForEvery
<1> HIDE DEF lists, binds, ms
<1>9. /\ ms \in Seq(FarmMsg)
      /\ \A i \in 1..Len(ms) :
           \/ i \in 1..Len(lists) /\ ms[i] = lists[i]
           \/ \E j \in 1..Len(binds) : i = Len(lists) + j /\ ms[i] = binds[j]
  BY <1>7, <1>8, ConcatElements DEF ms
<1>10. DOMAIN lists = 1..Len(lists) /\ DOMAIN binds = 1..Len(binds)
  BY <1>7, <1>8
<1>11. \A i \in 1..Len(ms) : /\ ms[i].type \in {"infolist", "bindport"}
                             /\ ms[i].type = "bindport" => ms[i].plug \in DOMAIN port[s]
  <2>1. \A j \in DOMAIN binds : binds[j].plug \in ServerPlugs(s)
    BY <1>6, <1>8 DEF Range
  <2> QED BY <1>4, <1>7, <1>8, <1>9, <1>10, <2>1
<1>12. ASSUME NEW i \in 1..Len(ms), NEW j \in 1..Len(ms), ms[i].type = "bindport",
              ms[j].type = "bindport", ms[i].plug = ms[j].plug
       PROVE  i = j
  <2>1. PICK k \in 1..Len(binds) : i = Len(lists) + k /\ ms[i] = binds[k]
    BY <1>7, <1>9, <1>10, <1>12
  <2>2. PICK l \in 1..Len(binds) : j = Len(lists) + l /\ ms[j] = binds[l]
    BY <1>7, <1>9, <1>10, <1>12
  <2>3. k \in DOMAIN binds /\ l \in DOMAIN binds /\ binds[k].plug = binds[l].plug
    BY <1>10, <1>12, <2>1, <2>2
  <2>4. k \in DOMAIN outs /\ l \in DOMAIN outs /\ outs[k] = outs[l]
    BY <1>8, <2>3
  <2>5. k = l
    BY <1>6, <2>4
  <2> QED BY <2>1, <2>2, <2>5
<1>13. /\ toFarm'[s] = toFarm[s] \o ms /\ DOMAIN toFarm' = Server
       /\ \A r \in Server \ {s} : toFarm'[r] = toFarm[r]
  BY <1>1, <1>9, Sent DEF ms
<1>14. Sends(d, w, ms) /\ SameRest(d, w) /\ d.port = port[s]
  BY <1>1, <1>2, <1>13 DEF View, DownTaken, Sends, SameRest
<1>15. Local(s, d) /\ Typed(d) /\ Quiet(d) /\ d.life # "off"
  BY <1>2 DEF Remains, OfTrack, Hand, AckLinksMsg
<1>16. Local(s, w) /\ Typed(w)
  <2> HIDE DEF d, w
  <2> QED BY <1>9, <1>11, <1>12, <1>14, <1>15, LocalConnect
<1>17. /\ DOMAIN plug' = Server /\ DOMAIN asked' = Server /\ asked'[s] = Range(ins)
       /\ plug'[s] = [x \in DOMAIN plug[s] |-> IF plug[s][x] = "wait" THEN "try" ELSE plug[s][x]]
       /\ \A r \in Server \ {s} : plug'[r] = plug[r] /\ asked'[r] = asked[r]
  BY <1>1, <1>3 DEF Domains
<1>18. TypedServer(s)'
  <2>1. plug'[s] \in [InputTypes(s) \cup ServerPlugs(s) -> {"wait", "try", "run"}]
    BY <1>3, <1>17 DEF TypedServer
  <2> QED BY <1>1, <1>3, <1>5, <1>17, <2>1 DEF TypedServer
<1>19. \A r \in Server \ {s} : Local(r, View(r)') /\ Typed(View(r)') /\ TypedServer(r)'
  BY <1>1, <1>2, <1>13, <1>17, OthersStay DEF SameServer
<1>20. MembersType' /\ MembersInv'
  BY <1>1, MembersStay
<1>21. HostsInv'
  <2>1. \A k, u : Offered(u, k) => Offered(u, k)'
    BY <1>1 DEF Offered, On
  <2> QED BY <1>2, <2>1, HostsStay
<1>22. Domains' /\ LifeType'
  BY <1>1, <1>2, <1>3, <1>13, <1>17, TypeParts DEF FarmInv, Domains, LifeType
<1> QED BY <1>16, <1>18, <1>19, <1>20, <1>21, <1>22, Assemble

LEMMA StepAckPort ==
  ASSUME FarmInv, NEW s \in Server, NEW x, NEW n, AckToBindPort(s, x, n)
  PROVE  FarmInv'
<1> DEFINE d == DownTaken(s)
           w == View(s)'
           ms == <<BindDoneMsg(x)>>
           Listens == /\ bound' = [bound EXCEPT ![s] =
                                    [y \in DOMAIN @ \cup {x} |-> IF y = x THEN n ELSE @[y]]]
                      /\ plug' = [plug EXCEPT ![s][x] = "run"] /\ SendFarm(s, ms)
<1>1. /\ SubGets(s, AckPortMsg(x, n))
      /\ Listens \/ UNCHANGED <<plug, bound, toFarm>>
      /\ UNCHANGED <<members, port, ready, reached, life, conns, asked>>
  BY DEF AckToBindPort, farmVars
<1>2. /\ Remains(s, d, AckPortMsg(x, n)) /\ toSub[s] \in Seq(SubMsg) /\ toSub[s] # <<>>
      /\ AckPortMsg(x, n) = Head(toSub[s]) /\ AckPortMsg(x, n) \in SubMsg
      /\ toSub'[s] = Tail(toSub[s]) /\ DOMAIN toSub' = Server
      /\ \A r \in Server \ {s} : toSub'[r] = toSub[r]
      /\ \A c \in Server : Range(toSub'[c]) \subseteq Range(toSub[c])
  BY <1>1, SubTakes
<1>3. x \in Plugs /\ n \in Nat
  BY <1>2 DEF SubMsg, AckPortMsg, AckLoginMsg, AckLinksMsg, Plugs
<1>4. Domains /\ TypedServer(s) /\ TellInv(View(s))
  BY TypeParts DEF FarmInv, Local
<1>5. x \in DOMAIN port[s] /\ n = port[s][x] /\ x \notin DOMAIN bound[s]
  <2>1. 1 \in 1..Len(toSub[s]) /\ toSub[s][1] = AckPortMsg(x, n)
    BY <1>2, TailElements
  <2> QED BY <1>4, <2>1 DEF TellInv, View, AckPortMsg
<1>6. /\ Local(s, d) /\ Typed(d) /\ d.life # "off"
      /\ None(d.up, d.down, Bind(x)) /\ None(d.up, d.down, Hand)
  BY <1>2, <1>3 DEF Remains, OfTrack, Bind, AckPortMsg
<1>7. d.port = port[s] /\ d.bound = bound[s] /\ d.up = toFarm[s]
  BY DEF DownTaken, View
<1>8. MembersType' /\ MembersInv'
  BY <1>1, MembersStay
<1>9. CASE Listens
  <2>1. ms \in Seq(FarmMsg)
    BY <1>3 DEF FarmMsg, BindDoneMsg, Plugs
  <2>2. /\ toFarm'[s] = toFarm[s] \o ms /\ DOMAIN toFarm' = Server
        /\ \A r \in Server \ {s} : toFarm'[r] = toFarm[r]
    <3> HIDE DEF ms
    <3> QED BY <1>9, <2>1, Sent
  <2>3. /\ DOMAIN bound' = Server /\ DOMAIN plug' = Server
        /\ bound'[s] = [y \in DOMAIN bound[s] \cup {x} |-> IF y = x THEN n ELSE bound[s][y]]
        /\ plug'[s] = [plug[s] EXCEPT ![x] = "run"]
        /\ \A r \in Server \ {s} : bound'[r] = bound[r] /\ plug'[r] = plug[r]
    BY <1>4, <1>9 DEF Domains
  <2>4. /\ Sends(d, w, ms) /\ w.life = d.life /\ w.ready = d.ready /\ w.port = d.port
        /\ w.bound = [y \in DOMAIN d.bound \cup {x} |-> IF y = x THEN d.port[x] ELSE d.bound[y]]
    BY <1>1, <1>2, <1>5, <1>7, <2>2, <2>3 DEF View, DownTaken, Sends
  <2>5. x \in DOMAIN d.port /\ x \notin DOMAIN d.bound
    BY <1>5, <1>7
  <2>6. Local(s, w) /\ Typed(w)
    <3> HIDE DEF d, w
    <3> QED BY <1>3, <1>6, <2>4, <2>5, LocalListens
  <2>7. TypedServer(s)'
    <3>1. x \in ServerPlugs(s)
      BY <1>4, <1>5, Links DEF TypedServer
    <3>2. DOMAIN bound'[s] \subseteq ServerPlugs(s) /\ Range(bound'[s]) \subseteq Nat
      <4>1. DOMAIN bound[s] \subseteq ServerPlugs(s) /\ \A y \in DOMAIN bound[s] : bound[s][y] \in Nat
        BY <1>4 DEF TypedServer, Range
      <4>2. /\ DOMAIN bound'[s] = DOMAIN bound[s] \cup {x}
            /\ \A y \in DOMAIN bound'[s] : bound'[s][y] \in Nat
        BY <1>3, <2>3, <4>1
      <4> QED BY <3>1, <4>1, <4>2 DEF Range
    <3>3. plug'[s] \in [InputTypes(s) \cup ServerPlugs(s) -> {"wait", "try", "run"}]
      BY <1>4, <2>3 DEF TypedServer
    <3> QED BY <1>1, <1>4, <3>2, <3>3 DEF TypedServer
  <2>8. \A r \in Server \ {s} : Local(r, View(r)') /\ Typed(View(r)') /\ TypedServer(r)'
    BY <1>1, <1>2, <2>2, <2>3, OthersStay DEF SameServer
  <2>9. HostsInv'
    <3>1. Range(bound[s]) \subseteq Range(bound'[s])
      BY <1>5, <2>3 DEF Range
    <3>2. \A r \in Server : Range(bound[r]) \subseteq Range(bound'[r])
      BY <2>3, <3>1
    <3>3. \A u, k : Offered(u, k) => Offered(u, k)'
      BY <1>1, <3>2 DEF Offered, On
    <3> QED BY <1>2, <3>3, HostsStay
  <2>10. Domains' /\ LifeType'
    BY <1>1, <1>2, <1>4, <2>2, <2>3, TypeParts DEF FarmInv, Domains, LifeType
  <2> QED BY <1>8, <2>6, <2>7, <2>8, <2>9, <2>10, Assemble
<1>10. CASE UNCHANGED <<plug, bound, toFarm>>
  <2>1. SameRest(d, w) /\ w.up = d.up /\ w.down = d.down
    BY <1>1, <1>2, <1>10 DEF View, DownTaken, SameRest
  <2>2. Local(s, w) /\ Typed(w)
    <3> HIDE DEF d, w
    <3> QED BY <1>6, <2>1, LocalSame DEF Typed
  <2>3. TypedServer(s)'
    BY <1>1, <1>4, <1>10 DEF TypedServer
  <2>4. \A r \in Server \ {s} : Local(r, View(r)') /\ Typed(View(r)') /\ TypedServer(r)'
    BY <1>1, <1>2, <1>10, OthersStay DEF SameServer
  <2>5. HostsInv'
    <3>1. \A u, k : Offered(u, k) => Offered(u, k)'
      BY <1>1, <1>10 DEF Offered, On
    <3> QED BY <1>2, <3>1, HostsStay
  <2>6. Domains' /\ LifeType'
    BY <1>1, <1>2, <1>4, <1>10, TypeParts DEF FarmInv, Domains, LifeType
  <2> QED BY <1>8, <2>2, <2>3, <2>4, <2>5, <2>6, Assemble
<1> QED BY <1>1, <1>9, <1>10

LEMMA StepConnectHosts ==
  ASSUME FarmInv, NEW s \in Server, NEW x, NEW ns, ConnectHosts(s, x, ns)
  PROVE  FarmInv'
<1> DEFINE d == DownTaken(s)
           w == View(s)'
           m == ConnDoneMsg(x)
           hosts == UNION {Listeners(x, x, n) : n \in ns}
           Connects == /\ conns' = [conns EXCEPT ![s] = @ \cup hosts]
                       /\ plug' = [plug EXCEPT ![s][x] = "run"] /\ SendFarm(s, <<m>>)
<1>1. /\ SubGets(s, HostsMsg(x, ns))
      /\ Connects \/ UNCHANGED <<conns, plug, toFarm>>
      /\ UNCHANGED <<members, port, ready, reached, life, bound, asked>>
  BY DEF ConnectHosts, farmVars
<1>2. /\ Remains(s, d, HostsMsg(x, ns)) /\ HostsMsg(x, ns) \in SubMsg
      /\ toSub'[s] = Tail(toSub[s]) /\ DOMAIN toSub' = Server
      /\ \A r \in Server \ {s} : toSub'[r] = toSub[r]
      /\ \A c \in Server : Range(toSub'[c]) \subseteq Range(toSub[c])
  BY <1>1, SubTakes
<1>3. x \in Type
  BY <1>2 DEF SubMsg, HostsMsg, AckLoginMsg, AckLinksMsg
<1>4. Domains /\ TypedServer(s)
  BY TypeParts DEF FarmInv
<1>5. Local(s, d) /\ Typed(d) /\ d.life # "off"
  BY <1>2 DEF Remains
<1>6. MembersType' /\ MembersInv'
  BY <1>1, MembersStay
<1>7. HostsInv'
  <2>1. \A u, k : Offered(u, k) => Offered(u, k)'
    BY <1>1 DEF Offered, On
  <2> QED BY <1>2, <2>1, HostsStay
<1>8. hosts \subseteq Server \X Plugs
  BY DEF Listeners, Plugs
<1> HIDE DEF hosts
<1>9. CASE Connects
  <2>1. m \in FarmMsg /\ m.type = "conndone" /\ <<m>> \in Seq(FarmMsg)
    BY <1>3 DEF FarmMsg, ConnDoneMsg
  <2> HIDE DEF m
  <2>2. /\ toFarm'[s] = toFarm[s] \o <<m>> /\ DOMAIN toFarm' = Server
        /\ \A r \in Server \ {s} : toFarm'[r] = toFarm[r]
    BY <1>9, <2>1, Sent
  <2>3. /\ DOMAIN conns' = Server /\ DOMAIN plug' = Server
        /\ conns'[s] = conns[s] \cup hosts /\ plug'[s] = [plug[s] EXCEPT ![x] = "run"]
        /\ \A r \in Server \ {s} : conns'[r] = conns[r] /\ plug'[r] = plug[r]
    BY <1>4, <1>9 DEF Domains
  <2>4. /\ Sends(d, w, <<m>>)
        /\ w.life = d.life /\ w.ready = d.ready /\ w.port = d.port /\ w.bound = d.bound
    BY <1>1, <1>2, <2>2 DEF View, DownTaken, Sends
  <2>5. Local(s, w) /\ Typed(w)
    <3> HIDE DEF d, w
    <3> QED BY <1>5, <2>1, <2>4, LocalPlain
  <2>6. TypedServer(s)'
    <3>1. plug'[s] \in [InputTypes(s) \cup ServerPlugs(s) -> {"wait", "try", "run"}]
      BY <1>4, <2>3 DEF TypedServer
    <3> QED BY <1>1, <1>4, <1>8, <2>3, <3>1 DEF TypedServer, Plugs
  <2>7. \A r \in Server \ {s} : Local(r, View(r)') /\ Typed(View(r)') /\ TypedServer(r)'
    BY <1>1, <1>2, <2>2, <2>3, OthersStay DEF SameServer
  <2>8. Domains' /\ LifeType'
    BY <1>1, <1>2, <1>4, <2>2, <2>3, TypeParts DEF FarmInv, Domains, LifeType
  <2> QED BY <1>6, <1>7, <2>5, <2>6, <2>7, <2>8, Assemble
<1>10. CASE UNCHANGED <<conns, plug, toFarm>>
  <2>1. SameRest(d, w) /\ w.up = d.up /\ w.down = d.down
    BY <1>1, <1>2, <1>10 DEF View, DownTaken, SameRest
  <2>2. Local(s, w) /\ Typed(w)
    <3> HIDE DEF d, w
    <3> QED BY <1>5, <2>1, LocalSame DEF Typed
  <2>3. TypedServer(s)'
    BY <1>1, <1>4, <1>10 DEF TypedServer
  <2>4. \A r \in Server \ {s} : Local(r, View(r)') /\ Typed(View(r)') /\ TypedServer(r)'
    BY <1>1, <1>2, <1>10, OthersStay DEF SameServer
  <2>5. Domains' /\ LifeType'
    BY <1>1, <1>2, <1>4, <1>10, TypeParts DEF FarmInv, Domains, LifeType
  <2> QED BY <1>6, <1>7, <2>2, <2>3, <2>4, <2>5, Assemble
<1> QED BY <1>1, <1>9, <1>10

-----------------------------------------------------------------------------
(* The theorems.                                                           *)

LEMMA FarmStarts == Init => FarmInv
<1> SUFFICES ASSUME Init PROVE FarmInv
  OBVIOUS
<1>1. Domains /\ LifeType /\ MembersType
  BY DEF Init, Domains, LifeType, MembersType
<1>2. ASSUME NEW s \in Server PROVE Local(s, View(s)) /\ Typed(View(s)) /\ TypedServer(s)
  <2> DEFINE v == View(s)
  <2>1. /\ v.life = "off" /\ v.up = <<>> /\ v.down = <<>> /\ v.ready = {}
        /\ DOMAIN v.bound = {} /\ Len(v.up) = 0 /\ Len(v.down) = 0
    BY DEF Init, View
  <2>2. Local(s, v) /\ Typed(v)
    <3> HIDE DEF v
    <3>1. \A k \in Track : Solo(v.up, v.down, k) /\ None(v.up, v.down, k)
      BY <2>1 DEF Solo, None, Once, Some
    <3> QED BY <2>1, <3>1, Tracks
            DEF Local, SoloInv, EarlyInv, OffInv, LinksInv, AskInv, TellInv, ReportInv, ReadyInv, Typed
  <2>3. TypedServer(s)
    <3>1. DOMAIN port[s] = {Client} /\ Range(port[s]) \subseteq Nat
      BY DEF Init, Range
    <3>2. DOMAIN bound[s] = {} /\ Range(bound[s]) = {}
      BY DEF Init, Range
    <3>3. plug[s] \in [InputTypes(s) \cup ServerPlugs(s) -> {"wait", "try", "run"}]
      BY DEF Init
    <3> QED BY <3>1, <3>2, <3>3 DEF Init, TypedServer
  <2> QED BY <2>2, <2>3
<1>3. TypeOK
  BY <1>1, <1>2, TypeParts
<1>4. MembersInv
  BY DEF Init, MembersInv, Range
<1>5. HostsInv
  BY DEF Init, HostsInv, Range
<1> QED BY <1>1, <1>2, <1>3, <1>4, <1>5 DEF FarmInv

LEMMA FarmSteps == FarmInv /\ [Next]_vars => FarmInv'
<1> SUFFICES ASSUME FarmInv, [Next]_vars PROVE FarmInv'
  OBVIOUS
<1>1. ASSUME UNCHANGED vars PROVE FarmInv'
  <2>1. UNCHANGED <<life, members, port, ready, reached, plug, bound, conns, asked, toFarm, toSub>>
    BY <1>1 DEF vars, farmVars, subVars
  <2>2. \A r \in Server : Local(r, View(r)') /\ Typed(View(r)') /\ TypedServer(r)'
    BY <2>1, OthersStay DEF SameServer
  <2>3. Domains' /\ LifeType' /\ MembersType' /\ MembersInv'
    BY <2>1, TypeParts DEF FarmInv, Domains, LifeType, MembersType, MembersInv
  <2>4. HostsInv'
    BY <2>1 DEF FarmInv, HostsInv, Offered, On
  <2>5. TypeOK'
    BY <2>2, <2>3 DEF TypeOK, LifeType, MembersType, TypedServer, Typed, View
  <2> QED BY <2>2, <2>3, <2>4, <2>5 DEF FarmInv
<1>2. ASSUME NEW s \in Server, Start(s) \/ Die(s) \/ FarmHandles(s) \/ SubHandles(s)
      PROVE  FarmInv'
  <2>1. CASE Start(s)
    BY <2>1, StepStart
  <2>2. CASE Die(s)
    BY <2>2, StepDie
  <2>3. CASE FarmHandles(s)
    BY <2>3, StepLogin, StepSetLinks, StepLeave, StepInfoList, StepBindPort, StepBindDone,
       StepConnDone DEF FarmHandles
  <2>4. CASE SubHandles(s)
    BY <2>4, StepAckLogin, StepConnectLink, StepAckPort, StepConnectHosts DEF SubHandles
  <2> QED BY <1>2, <2>1, <2>2, <2>3, <2>4
<1> QED BY <1>1, <1>2 DEF Next

\* FarmInv gives what the runs check.
LEMMA FarmInvGives == FarmInv => TypeOK /\ AnnouncedAreBound
<1> SUFFICES ASSUME FarmInv PROVE AnnouncedAreBound
  BY DEF FarmInv
<1>1. ASSUME NEW s \in Server, On(s), NEW x \in ready[s]
      PROVE  x \in DOMAIN bound[s] /\ bound[s][x] = port[s][x]
  <2>1. ReadyInv(View(s))
    BY DEF FarmInv, Local
  <2> QED BY <1>1, <2>1 DEF ReadyInv, IsBound, View, On
<1> QED BY <1>1 DEF AnnouncedAreBound, FarmInv, HostsInv, Offered

LEMMA FarmHolds == Spec => []FarmInv
BY FarmStarts, FarmSteps, PTL DEF Spec

\* The farm server and the sub servers keep their state in its types: also the
\* ports the farm hands out are numbers, whatever the members of a group hold.
THEOREM TypeCorrect == Spec => []TypeOK
BY FarmHolds, FarmInvGives, PTL

\* However sub servers start, bind and die, and whatever the farm had under way
\* for them, a link the farm counts as bound is bound at the port it has, and
\* each port on its way to a client is one where a server of that type listens
\* unless one has died (BindSubServer, ReqServerInfoList).
THEOREM AnnouncementsHold == Spec => []AnnouncedAreBound
BY FarmHolds, FarmInvGives, PTL
=============================================================================
