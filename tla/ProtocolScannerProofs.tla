------------------------- MODULE ProtocolScannerProofs -------------------------
(***************************************************************************)
(* The scanner of the protocol compiler reads every plain file as its      *)
(* lexemes, whatever the sizes of its buffers.                             *)
(*                                                                         *)
(* LexemesFrom(t) is the list of the lexemes from each position of t on.   *)
(* The invariant says, for each state of the scanner, from which position  *)
(* on what is left to read: the tokens so far and the lexemes from there   *)
(* on are those of the file.                                               *)
(***************************************************************************)
EXTENDS ProtocolScanner, QueuesProofs, SequenceTheorems, TLAPS

-----------------------------------------------------------------------------
(* The classes of characters have none in common.                          *)

\* The end of a line is a string, but to the provers, which do not look into
\* STRING.
Char == STRING \cup {"\n"}

PairFirst == {"=", "!", "|", "&", "-", "<", ">", ":"}
SingleChar == {"*", "+", "%", "(", ")", "{", "}", "[", "]", ",", ";"}

\* The first characters of pairs and the single characters.
LEMMA Domains == DOMAIN Pair = PairFirst /\ DOMAIN Single = SingleChar
  BY DEF Pair, Single, PairFirst, SingleChar

\* A blank is of no other class.
LEMMA BlankApart ==
  /\ "\n" \in Blank /\ "\r" \notin Blank
  /\ \A c \in Blank : /\ c \notin {"/", "$", Quote, "EOF", "."}
                      /\ c \notin Letter /\ c \notin Digit
                      /\ c \notin PairFirst /\ c \notin SingleChar
<1>1. "\n" \in Blank /\ "\r" \notin Blank
  BY Zenon DEF Blank
<1>2. \A c \in Blank : c \notin {"/", "$", Quote, "EOF", "."}
  BY Zenon DEF Blank, Quote
<1>3. \A c \in Blank : c \notin Letter /\ c \notin Digit
  BY Zenon DEF Blank, Letter, Digit
<1>4. \A c \in Blank : c \notin PairFirst
  BY Zenon DEF Blank, PairFirst
<1>5. \A c \in Blank : c \notin SingleChar
  BY Zenon DEF Blank, SingleChar
<1> QED BY <1>1, <1>2, <1>3, <1>4, <1>5

\* Nor are the others.
LEMMA OthersApart ==
  /\ \A c \in {"/", "$", Quote, "EOF", ".", "\n", "\r"} :
       /\ c \notin Letter /\ c \notin Digit
       /\ c \notin PairFirst /\ c \notin SingleChar
  /\ \A c \in Letter : c \notin Digit /\ c \notin PairFirst /\ c \notin SingleChar
  /\ \A c \in Digit : c \notin PairFirst /\ c \notin SingleChar
  /\ \A c \in PairFirst : c \notin SingleChar
<1>1. \A c \in {"/", "$", Quote, "EOF", ".", "\n", "\r"} :
        /\ c \notin Letter /\ c \notin Digit
        /\ c \notin PairFirst /\ c \notin SingleChar
  BY Zenon DEF Letter, Digit, PairFirst, SingleChar, Quote
<1>2. \A c \in Letter : c \notin Digit /\ c \notin PairFirst /\ c \notin SingleChar
  BY Zenon DEF Letter, Digit, PairFirst, SingleChar
<1>3. \A c \in Digit : c \notin PairFirst /\ c \notin SingleChar
  BY Zenon DEF Digit, PairFirst, SingleChar
<1>4. \A c \in PairFirst : c \notin SingleChar
  BY Zenon DEF PairFirst, SingleChar
<1> QED BY <1>1, <1>2, <1>3, <1>4

-----------------------------------------------------------------------------
(* Lexemes.                                                                *)

\* What the scanner may add to its tokens.
ScannedToken == {Lexeme(w) : w \in Seq(Char)} \cup {EndOfFile}

\* A set of positions that has the last, and every position after which it has
\* all, has all positions.
LEMMA BackToFirst ==
  ASSUME NEW n \in Nat, NEW G, n + 1 \in G,
         \A k \in 1..n : (\A j \in k + 1 .. n + 1 : j \in G) => k \in G
  PROVE  \A k \in 1 .. n + 1 : k \in G
<1>1. SUFFICES ASSUME NEW m \in 1 .. n + 1, m \notin G PROVE FALSE
  OBVIOUS
<1> DEFINE T == {d \in 0..n : n + 1 - d \notin G}
<1>2. T \in SUBSET Nat /\ n + 1 - m \in T
  BY <1>1
<1>3. PICK d \in T : \A e \in T : d <= e
  BY <1>2, LeastOf
<1>4. d \in 1..n
  <2>1. d \in 0..n /\ n + 1 - d \notin G
    BY <1>3
  <2>2. d # 0
    BY <2>1
  <2> QED BY <2>1, <2>2
<1>5. ASSUME NEW j \in n + 2 - d .. n + 1 PROVE j \in G
  <2>1. n + 1 - j \in 0..n /\ n + 1 - j < d /\ n + 1 - (n + 1 - j) = j
    BY <1>4
  <2>2. n + 1 - j \notin T
    BY <2>1, <1>3, <1>4
  <2> QED BY <2>1, <2>2
<1>6. n + 1 - d \in 1..n /\ (n + 1 - d) + 1 = n + 2 - d
  BY <1>4
<1>7. n + 1 - d \in G
  BY <1>5, <1>6
<1> QED BY <1>3, <1>7

\* The end of the line at i is the first one from i on.
LEMMA LineEndIs ==
  ASSUME NEW t \in Seq(Char), NEW i \in 1 .. Len(t), NEW j \in i .. Len(t),
         t[j] = "\n", \A k \in i .. j - 1 : t[k] # "\n"
  PROVE  LineEnd(t, i) = j
<1> DEFINE P(e) == t[e] = "\n" /\ \A k \in i .. e - 1 : t[k] # "\n"
<1>1. \A e \in i .. Len(t) : P(e) => e = j
  <2> SUFFICES ASSUME NEW e \in i .. Len(t), P(e) PROVE e = j
    OBVIOUS
  <2>1. ~(e < j) /\ ~(j < e)
    OBVIOUS
  <2> QED BY <2>1
<1>2. LineEnd(t, i) = CHOOSE e \in i .. Len(t) : P(e)
  BY DEF LineEnd
<1>3. P(j)
  OBVIOUS
<1> HIDE DEF P
<1> QED BY <1>1, <1>2, <1>3

\* A line of a file that is ended has an end.
LEMMA LineEnds ==
  ASSUME NEW t \in Seq(Char), t # <<>>, t[Len(t)] = "\n", NEW i \in 1 .. Len(t)
  PROVE  \E j \in i .. Len(t) : t[j] = "\n" /\ \A k \in i .. j - 1 : t[k] # "\n"
<1> DEFINE T == {j \in i .. Len(t) : t[j] = "\n"}
<1>1. T \in SUBSET Nat /\ Len(t) \in T
  OBVIOUS
<1>2. PICK j \in T : \A e \in T : j <= e
  BY <1>1, LeastOf
<1>3. j \in i .. Len(t) /\ t[j] = "\n"
  BY <1>2
<1>4. ASSUME NEW k \in i .. j - 1 PROVE t[k] # "\n"
  <2>1. k \in i .. Len(t) /\ ~(j <= k)
    BY <1>3
  <2> QED BY <2>1, <1>2
<1> QED BY <1>3, <1>4

\* The end of the lexeme at i is where it cannot be made longer.
LEMMA LexemeEndIs ==
  ASSUME NEW t \in Seq(Char), NEW i \in 1 .. Len(t), NEW j \in i .. Len(t),
         \A k \in i .. j : IsLexeme(SubSeq(t, i, k)),
         j < Len(t) => ~IsLexeme(SubSeq(t, i, j + 1))
  PROVE  LexemeEnd(t, i) = j
<1> DEFINE P(e) == /\ \A k \in i .. e : IsLexeme(SubSeq(t, i, k))
                   /\ e < Len(t) => ~IsLexeme(SubSeq(t, i, e + 1))
<1>1. \A e \in i .. Len(t) : P(e) => e = j
  <2> SUFFICES ASSUME NEW e \in i .. Len(t), P(e) PROVE e = j
    OBVIOUS
  <2>1. ~(e < j)
    OBVIOUS
  <2>2. ~(j < e)
    OBVIOUS
  <2> QED BY <2>1, <2>2
<1>2. LexemeEnd(t, i) = CHOOSE e \in i .. Len(t) : P(e)
  BY DEF LexemeEnd
<1>3. P(j)
  OBVIOUS
<1> HIDE DEF P
<1> QED BY <1>1, <1>2, <1>3

\* Every lexeme has an end.
LEMMA LexemeEnds ==
  ASSUME NEW t \in Seq(Char), NEW i \in 1 .. Len(t)
  PROVE  /\ LexemeEnd(t, i) \in i .. Len(t)
         /\ LexemeEnd(t, i) < Len(t) => ~IsLexeme(SubSeq(t, i, LexemeEnd(t, i) + 1))
<1> DEFINE T == {k \in i .. Len(t) : ~IsLexeme(SubSeq(t, i, k))}
<1>1. T \in SUBSET Nat /\ i \notin T
  <2>1. Len(SubSeq(t, i, i)) = 1
    OBVIOUS
  <2> QED BY <2>1 DEF IsLexeme
<1>2. CASE T = {}
  <2>1. \A k \in i .. Len(t) : IsLexeme(SubSeq(t, i, k))
    BY <1>2
  <2>2. LexemeEnd(t, i) = Len(t)
    BY <2>1, LexemeEndIs
  <2> QED BY <2>2
<1>3. CASE T # {}
  <2>1. PICK k \in T : \A e \in T : k <= e
    BY <1>1, <1>3, LeastOf
  <2>2. k \in i + 1 .. Len(t) /\ ~IsLexeme(SubSeq(t, i, k))
    BY <2>1, <1>1
  <2>3. ASSUME NEW e \in i .. k - 1 PROVE IsLexeme(SubSeq(t, i, e))
    <3>1. e \in i .. Len(t) /\ ~(k <= e)
      BY <2>2
    <3> QED BY <3>1, <2>1
  <2>4. k - 1 \in i .. Len(t) /\ (k - 1) + 1 = k
    BY <2>2
  <2>5. LexemeEnd(t, i) = k - 1
    BY <2>2, <2>3, <2>4, LexemeEndIs
  <2> QED BY <2>2, <2>4, <2>5
<1> QED BY <1>2, <1>3

\* The character that begins a comment does not end its line.
LEMMA CommentGoesOn ==
  ASSUME NEW t \in Seq(Char), t # <<>>, t[Len(t)] = "\n",
         NEW i \in 1 .. Len(t), BeginsComment(t, i)
  PROVE  LineEnd(t, i) \in i + 1 .. Len(t)
<1>1. PICK j \in i .. Len(t) : t[j] = "\n" /\ \A k \in i .. j - 1 : t[k] # "\n"
  BY LineEnds
<1>2. LineEnd(t, i) = j
  BY <1>1, LineEndIs
<1>3. j # i
  BY <1>1 DEF BeginsComment
<1> QED BY <1>2, <1>3

\* The lexemes from a position on are a list, if those from later positions are.
LEMMA FromIsList ==
  ASSUME NEW t \in Seq(Char), t # <<>>, t[Len(t)] = "\n",
         NEW i \in 1 .. Len(t) + 1, NEW f,
         \A j \in i + 1 .. Len(t) + 1 : f[j] \in Seq(ScannedToken)
  PROVE  From(t, f, i) \in Seq(ScannedToken)
<1>1. CASE i > Len(t)
  <2>1. EndOfFile \in ScannedToken
    BY DEF ScannedToken
  <2>2. From(t, f, i) = <<EndOfFile>>
    BY <1>1 DEF From
  <2> QED BY <2>1, <2>2
<1>2. CASE i <= Len(t) /\ t[i] \in Blank \cup {"\r"}
  <2>1. From(t, f, i) = f[i + 1]
    BY <1>2, BlankApart DEF From, BeginsComment
  <2>2. i + 1 \in i + 1 .. Len(t) + 1
    BY <1>2
  <2> QED BY <2>1, <2>2
<1>3. CASE /\ i <= Len(t) /\ t[i] \notin Blank \cup {"\r"}
           /\ BeginsComment(t, i)
  <2>1. LineEnd(t, i) \in i + 1 .. Len(t) + 1
    BY <1>3, CommentGoesOn
  <2> QED BY <1>3, <2>1 DEF From
<1>4. CASE /\ i <= Len(t) /\ t[i] \notin Blank \cup {"\r"}
           /\ ~BeginsComment(t, i)
  <2> DEFINE e == LexemeEnd(t, i)
             w == SubSeq(t, i, e)
  <2>1. e \in i .. Len(t)
    BY <1>4, LexemeEnds
  <2> HIDE DEF e
  <2>2. w \in Seq(Char) /\ f[e + 1] \in Seq(ScannedToken)
    BY <2>1
  <2>3. Lexeme(w) \in ScannedToken
    BY <2>2 DEF ScannedToken
  <2>4. From(t, f, i) = <<Lexeme(w)>> \o f[e + 1]
    BY <1>4 DEF From, e
  <2> HIDE DEF w
  <2> QED BY <2>2, <2>3, <2>4
<1> QED BY <1>1, <1>2, <1>3, <1>4

\* They depend on those from later positions only.
LEMMA FromLater ==
  ASSUME NEW t \in Seq(Char), t # <<>>, t[Len(t)] = "\n",
         NEW i \in 1 .. Len(t) + 1, NEW f, NEW g,
         \A j \in i + 1 .. Len(t) + 1 : f[j] = g[j]
  PROVE  From(t, f, i) = From(t, g, i)
<1>1. CASE i > Len(t)
  BY <1>1 DEF From
<1>2. CASE i <= Len(t) /\ t[i] \in Blank \cup {"\r"}
  <2>1. From(t, f, i) = f[i + 1] /\ From(t, g, i) = g[i + 1]
    BY <1>2, BlankApart DEF From, BeginsComment
  <2>2. i + 1 \in i + 1 .. Len(t) + 1
    BY <1>2
  <2> QED BY <2>1, <2>2
<1>3. CASE /\ i <= Len(t) /\ t[i] \notin Blank \cup {"\r"}
           /\ BeginsComment(t, i)
  <2>1. LineEnd(t, i) \in i + 1 .. Len(t) + 1
    BY <1>3, CommentGoesOn
  <2> QED BY <1>3, <2>1 DEF From
<1>4. CASE /\ i <= Len(t) /\ t[i] \notin Blank \cup {"\r"}
           /\ ~BeginsComment(t, i)
  <2>1. LexemeEnd(t, i) + 1 \in i + 1 .. Len(t) + 1
    BY <1>4, LexemeEnds
  <2> QED BY <1>4, <2>1 DEF From
<1> QED BY <1>1, <1>2, <1>3, <1>4

\* The recursion of LexemesFrom is well-founded: there is a function that
\* satisfies it.
LEMMA LexemesExist ==
  ASSUME NEW t \in Seq(Char), t # <<>>, t[Len(t)] = "\n"
  PROVE  \E f : f = [i \in 1 .. Len(t) + 1 |-> From(t, f, i)]
<1> DEFINE n == Len(t)
           Solves(f, k) == \A i \in k .. n + 1 : f[i] = From(t, f, i)
           G == {k \in 1 .. n + 1 : \E f \in [1 .. n + 1 -> Seq(ScannedToken)] : Solves(f, k)}
<1>0. n \in Nat \ {0}
  OBVIOUS
<1>1. n + 1 \in G
  <2> DEFINE f == [i \in 1 .. n + 1 |-> <<EndOfFile>>]
  <2>1. <<EndOfFile>> \in Seq(ScannedToken)
    BY DEF ScannedToken
  <2>2. f \in [1 .. n + 1 -> Seq(ScannedToken)]
    BY <2>1
  <2>3. From(t, f, n + 1) = <<EndOfFile>>
    BY DEF From
  <2>4. Solves(f, n + 1)
    BY <1>0, <2>3
  <2>5. n + 1 \in 1 .. n + 1
    BY <1>0
  <2> HIDE DEF f, Solves, n
  <2> QED BY <2>2, <2>4, <2>5
<1>2. ASSUME NEW k \in 1..n, \A j \in k + 1 .. n + 1 : j \in G
      PROVE  k \in G
  <2>0. k + 1 \in G
    <3> HIDE DEF G
    <3> QED BY <1>0, <1>2
  <2>1. PICK f \in [1 .. n + 1 -> Seq(ScannedToken)] : Solves(f, k + 1)
    <3> HIDE DEF Solves, n
    <3> QED BY <2>0
  <2> DEFINE g == [f EXCEPT ![k] = From(t, f, k)]
  <2>2. From(t, f, k) \in Seq(ScannedToken)
    <3>1. \A j \in k + 1 .. n + 1 : f[j] \in Seq(ScannedToken)
      BY <1>0, <2>1
    <3>2. k \in 1 .. Len(t) + 1
      BY <1>0
    <3> QED BY <3>1, <3>2, FromIsList
  <2>3. g \in [1 .. n + 1 -> Seq(ScannedToken)]
    BY <2>2
  <2>4. /\ g[k] = From(t, f, k)
        /\ \A j \in k + 1 .. n + 1 : g[j] = f[j]
    OBVIOUS
  <2> HIDE DEF g
  <2>5. ASSUME NEW i \in k .. n + 1 PROVE g[i] = From(t, g, i)
    <3>1. \A j \in i + 1 .. n + 1 : f[j] = g[j]
      BY <2>4
    <3>2. From(t, f, i) = From(t, g, i)
      <4>1. i \in 1 .. Len(t) + 1
        BY <1>0
      <4> QED BY <3>1, <4>1, FromLater
    <3>3. g[i] = From(t, f, i)
      BY <2>1, <2>4
    <3> QED BY <3>2, <3>3
  <2> QED BY <2>3, <2>5
<1> HIDE DEF G
<1>3. 1 \in G
  <2> HIDE DEF n
  <2>1. \A k \in 1 .. n + 1 : k \in G
    BY <1>0, <1>1, <1>2, BackToFirst
  <2> QED BY <1>0, <2>1
<1>4. PICK f \in [1 .. n + 1 -> Seq(ScannedToken)] : Solves(f, 1)
  BY <1>3 DEF G
<1>5. f = [i \in 1 .. n + 1 |-> From(t, f, i)]
  BY <1>4
<1> QED BY <1>5

\* LexemesFrom satisfies its recursion, and its values are lists of tokens.
LEMMA LexemesRecur ==
  ASSUME NEW t \in Seq(Char), t # <<>>, t[Len(t)] = "\n"
  PROVE  \A i \in 1 .. Len(t) + 1 :
           /\ LexemesFrom(t)[i] = From(t, LexemesFrom(t), i)
           /\ LexemesFrom(t)[i] \in Seq(ScannedToken)
<1> DEFINE n == Len(t)
           P(f) == f = [i \in 1 .. n + 1 |-> From(t, f, i)]
           h == LexemesFrom(t)
           G == {i \in 1 .. n + 1 : h[i] \in Seq(ScannedToken)}
<1>1. h = CHOOSE f : P(f)
  BY DEF LexemesFrom
<1>2. \E f : P(f)
  BY LexemesExist
<1>3. P(h)
  <2> HIDE DEF P, h
  <2> QED BY <1>1, <1>2
<1>4. \A i \in 1 .. n + 1 : h[i] = From(t, h, i)
  BY <1>3
<1> HIDE DEF h
<1>5. n + 1 \in G
  <2>1. h[n + 1] = From(t, h, n + 1)
    BY <1>4
  <2>2. From(t, h, n + 1) \in Seq(ScannedToken)
    BY FromIsList
  <2> QED BY <2>1, <2>2
<1>6. ASSUME NEW k \in 1..n, \A j \in k + 1 .. n + 1 : j \in G
      PROVE  k \in G
  <2>1. From(t, h, k) \in Seq(ScannedToken)
    BY <1>6, FromIsList
  <2> QED BY <2>1, <1>4
<1>7. \A k \in 1 .. n + 1 : k \in G
  <2>1. n \in Nat
    OBVIOUS
  <2> HIDE DEF G, n
  <2> QED BY <1>5, <1>6, <2>1, BackToFirst
<1> QED BY <1>4, <1>7 DEF h

\* At the end of the file, at a blank and at a comment.
LEMMA LexemesAtEnd ==
  ASSUME NEW t \in Seq(Char), t # <<>>, t[Len(t)] = "\n"
  PROVE  LexemesFrom(t)[Len(t) + 1] = <<EndOfFile>>
<1>1. Len(t) + 1 \in 1 .. Len(t) + 1
  OBVIOUS
<1>2. LexemesFrom(t)[Len(t) + 1] = From(t, LexemesFrom(t), Len(t) + 1)
  BY <1>1, LexemesRecur
<1>3. From(t, LexemesFrom(t), Len(t) + 1) = <<EndOfFile>>
  BY DEF From
<1> QED BY <1>2, <1>3

\* A blank is passed over.
LEMMA LexemesAtBlank ==
  ASSUME NEW t \in Seq(Char), t # <<>>, t[Len(t)] = "\n",
         NEW i \in 1 .. Len(t), t[i] \in Blank \cup {"\r"}
  PROVE  LexemesFrom(t)[i] = LexemesFrom(t)[i + 1]
<1> DEFINE f == LexemesFrom(t)
<1>1. f[i] = From(t, f, i)
  BY LexemesRecur
<1> HIDE DEF f
<1>2. From(t, f, i) = f[i + 1]
  BY BlankApart DEF From, BeginsComment
<1> QED BY <1>1, <1>2 DEF f

\* A comment is passed over up to its line's end.
LEMMA LexemesAtComment ==
  ASSUME NEW t \in Seq(Char), t # <<>>, t[Len(t)] = "\n",
         NEW i \in 1 .. Len(t), BeginsComment(t, i),
         NEW j \in i .. Len(t), t[j] = "\n", \A k \in i .. j - 1 : t[k] # "\n"
  PROVE  LexemesFrom(t)[i] = LexemesFrom(t)[j]
<1> DEFINE f == LexemesFrom(t)
<1>1. f[i] = From(t, f, i)
  BY LexemesRecur
<1>2. LineEnd(t, i) = j
  BY LineEndIs
<1>3. t[i] \notin Blank \cup {"\r"}
  BY BlankApart DEF BeginsComment
<1> HIDE DEF f
<1>4. From(t, f, i) = f[LineEnd(t, i)]
  BY <1>3 DEF From
<1> QED BY <1>1, <1>2, <1>4 DEF f

\* At a lexeme.
LEMMA LexemesAtLexeme ==
  ASSUME NEW t \in Seq(Char), t # <<>>, t[Len(t)] = "\n",
         NEW i \in 1 .. Len(t), t[i] \notin Blank \cup {"\r"}, ~BeginsComment(t, i)
  PROVE  LexemesFrom(t)[i] =
           <<Lexeme(SubSeq(t, i, LexemeEnd(t, i)))>> \o LexemesFrom(t)[LexemeEnd(t, i) + 1]
<1> DEFINE f == LexemesFrom(t)
<1>1. f[i] = From(t, f, i)
  BY LexemesRecur
<1> HIDE DEF f
<1>2. From(t, f, i) =
        <<Lexeme(SubSeq(t, i, LexemeEnd(t, i)))>> \o f[LexemeEnd(t, i) + 1]
  BY DEF From
<1> QED BY <1>1, <1>2 DEF f

-----------------------------------------------------------------------------
(* The forms of lexemes.                                                   *)

\* The characters of a word that begins with c.
WordRest(c) == IF c \in Letter THEN Letter \cup Digit \cup {"."} ELSE Digit \cup {"."}

LEMMA LongLexeme ==
  ASSUME NEW w \in Seq(Char), Len(w) > 1
  PROVE  IsLexeme(w) <=>
           \/ w[1] \in PairFirst /\ Len(w) = 2 /\ w[2] = Pair[w[1]][1]
           \/ w[1] \in Letter \cup Digit /\ \A k \in 1 .. Len(w) : w[k] \in WordRest(w[1])
<1>0. w # <<>> /\ Len(w) # 1
  <2>1. w # <<>>
    OBVIOUS
  <2> DEFINE l == Len(w)
  <2>2. l \in Nat /\ l > 1
    OBVIOUS
  <2> HIDE DEF l
  <2>3. l # 1
    BY <2>2
  <2> QED BY <2>1, <2>3 DEF l
<1>1. Head(w) = w[1]
  BY <1>0
<1>2. (\E c \in DOMAIN Pair : w = <<c, Pair[c][1]>>) <=>
        w[1] \in PairFirst /\ Len(w) = 2 /\ w[2] = Pair[w[1]][1]
  <2>1. ASSUME NEW c \in PairFirst, w = <<c, Pair[c][1]>>
        PROVE  w[1] \in PairFirst /\ Len(w) = 2 /\ w[2] = Pair[w[1]][1]
    <3> DEFINE d == Pair[c][1]
    <3> HIDE DEF d
    <3>1. w = <<c, d>>
      BY <2>1 DEF d
    <3>2. w[1] = c /\ Len(w) = 2 /\ w[2] = d
      BY <3>1
    <3> QED BY <3>2 DEF d
  <2>2. ASSUME w[1] \in PairFirst, Len(w) = 2, w[2] = Pair[w[1]][1]
        PROVE  w = <<w[1], Pair[w[1]][1]>>
    <3>1. w = <<w[1], w[2]>>
      BY <2>2
    <3> QED BY <3>1, <2>2
  <2> QED BY <2>1, <2>2, Domains
<1>3. \A C : ToSet(w) \subseteq C <=> \A k \in 1 .. Len(w) : w[k] \in C
  BY DEF ToSet
<1>4. \A c \in Letter : c \notin Digit
  BY OthersApart
<1>5. w[1] \in Letter => WordRest(w[1]) = Letter \cup Digit \cup {"."}
  BY DEF WordRest
<1>6. w[1] \in Digit => WordRest(w[1]) = Digit \cup {"."}
  BY <1>4 DEF WordRest
<1> QED BY <1>0, <1>1, <1>2, <1>3, <1>4, <1>5, <1>6 DEF IsLexeme

\* A word goes on while its characters do.
LEMMA WordEnds ==
  ASSUME NEW t \in Seq(Char), NEW i \in 1 .. Len(t), NEW j \in i .. Len(t),
         t[i] \in Letter \cup Digit, \A k \in i .. j : t[k] \in WordRest(t[i])
  PROVE  /\ LexemeEnd(t, i) >= j
         /\ j < Len(t) /\ t[j + 1] \notin WordRest(t[i]) => LexemeEnd(t, i) = j
<1>1. ASSUME NEW k \in i .. j PROVE IsLexeme(SubSeq(t, i, k))
  <2> DEFINE w == SubSeq(t, i, k)
  <2>1. /\ w \in Seq(Char) /\ Len(w) = k - i + 1
        /\ \A m \in 1 .. Len(w) : w[m] = t[i + m - 1]
    OBVIOUS
  <2> HIDE DEF w
  <2>2. CASE k = i
    BY <2>1, <2>2 DEF IsLexeme, w
  <2>3. CASE k > i
    <3>1. w[1] = t[i] /\ Len(w) > 1
      BY <2>1, <2>3
    <3>2. \A m \in 1 .. Len(w) : w[m] \in WordRest(w[1])
      BY <2>1, <3>1
    <3>3. IsLexeme(w)
      BY <2>1, <3>1, <3>2, LongLexeme
    <3> QED BY <3>3 DEF w
  <2> QED BY <2>2, <2>3
<1>2. LexemeEnd(t, i) >= j
  <2> SUFFICES ASSUME LexemeEnd(t, i) < j PROVE FALSE
    BY LexemeEnds
  <2>1. LexemeEnd(t, i) + 1 \in i .. j /\ LexemeEnd(t, i) < Len(t)
    BY LexemeEnds
  <2> QED BY <1>1, <2>1, LexemeEnds
<1>3. ASSUME j < Len(t), t[j + 1] \notin WordRest(t[i])
      PROVE  LexemeEnd(t, i) = j
  <2> DEFINE w == SubSeq(t, i, j + 1)
  <2>1. /\ w \in Seq(Char) /\ Len(w) = j - i + 2 /\ w[1] = t[i]
        /\ w[j - i + 2] = t[j + 1]
    BY <1>3
  <2> HIDE DEF w
  <2>2. t[i] \notin PairFirst
    BY OthersApart
  <2>3. Len(w) > 1 /\ j - i + 2 \in 1 .. Len(w)
    BY <2>1
  <2>4. ~IsLexeme(w)
    BY <1>3, <2>1, <2>2, <2>3, LongLexeme
  <2> QED BY <1>1, <2>4, LexemeEndIs DEF w
<1> QED BY <1>2, <1>3

\* A character that begins no word is a lexeme, alone or as the first of a pair.
LEMMA SignEnds ==
  ASSUME NEW t \in Seq(Char), NEW i \in 1 .. Len(t) - 1, t[i] \notin Letter \cup Digit
  PROVE  LexemeEnd(t, i) =
           IF t[i] \in PairFirst /\ t[i + 1] = Pair[t[i]][1] THEN i + 1 ELSE i
<1>1. /\ Len(SubSeq(t, i, i)) = 1 /\ i \in i .. Len(t) /\ i + 1 \in i .. Len(t)
      /\ i \in 1 .. Len(t)
  OBVIOUS
<1>2. IsLexeme(SubSeq(t, i, i))
  BY <1>1 DEF IsLexeme
<1> DEFINE w == SubSeq(t, i, i + 1)
<1>3. w \in Seq(Char) /\ Len(w) = 2 /\ w[1] = t[i] /\ w[2] = t[i + 1]
  <2>1. w \in Seq(Char) /\ Len(w) = 2
    BY <1>1
  <2>2. \A m \in 1 .. 2 : w[m] = t[i + m - 1]
    BY <1>1
  <2> HIDE DEF w
  <2> QED BY <2>1, <2>2
<1> HIDE DEF w
<1>4. IsLexeme(w) <=> t[i] \in PairFirst /\ t[i + 1] = Pair[t[i]][1]
  <2>1. Len(w) > 1
    BY <1>3
  <2>2. ~(w[1] \in Letter \cup Digit)
    BY <1>3
  <2>3. IsLexeme(w) <=> w[1] \in PairFirst /\ Len(w) = 2 /\ w[2] = Pair[w[1]][1]
    BY <1>3, <2>1, <2>2, LongLexeme
  <2> QED BY <1>3, <2>3
<1>5. CASE ~(t[i] \in PairFirst /\ t[i + 1] = Pair[t[i]][1])
  <2>1. \A k \in i .. i : IsLexeme(SubSeq(t, i, k))
    BY <1>2
  <2>2. ~IsLexeme(SubSeq(t, i, i + 1))
    BY <1>4, <1>5 DEF w
  <2>3. LexemeEnd(t, i) = i
    BY <1>1, <2>1, <2>2, LexemeEndIs
  <2> QED BY <1>5, <2>3
<1>6. CASE t[i] \in PairFirst /\ t[i + 1] = Pair[t[i]][1]
  <2>1. \A k \in i .. i + 1 : IsLexeme(SubSeq(t, i, k))
    <3>1. \A k \in i .. i + 1 : k = i \/ k = i + 1
      OBVIOUS
    <3>2. IsLexeme(SubSeq(t, i, i + 1))
      BY <1>4, <1>6 DEF w
    <3> QED BY <1>2, <3>1, <3>2
  <2>2. ASSUME i + 1 < Len(t) PROVE ~IsLexeme(SubSeq(t, i, i + 2))
    <3> DEFINE v == SubSeq(t, i, i + 2)
    <3>1. v \in Seq(Char) /\ Len(v) = 3 /\ v[1] = t[i]
      BY <2>2
    <3> HIDE DEF v
    <3>2. ~IsLexeme(v)
      <4>1. Len(v) > 1 /\ Len(v) # 2 /\ ~(v[1] \in Letter \cup Digit)
        BY <3>1
      <4> QED BY <3>1, <4>1, LongLexeme
    <3> QED BY <3>2 DEF v
  <2>3. (i + 1) + 1 = i + 2
    OBVIOUS
  <2>4. LexemeEnd(t, i) = i + 1
    BY <1>1, <2>1, <2>2, <2>3, LexemeEndIs
  <2> QED BY <1>6, <2>4
<1> QED BY <1>5, <1>6

\* The token of a lexeme goes by its first character.
LEMMA LexemeKinds ==
  ASSUME NEW w \in Seq(Char), w # <<>>
  PROVE  /\ w[1] \in Letter => Lexeme(w) = [kind |-> reservedLookup(w), str |-> w]
         /\ w[1] \in Digit => Lexeme(w) = [kind |-> "NUM", str |-> w]
         /\ w[1] \in SingleChar => Lexeme(w) = [kind |-> Single[w[1]], str |-> w]
         /\ w[1] \in PairFirst =>
              Lexeme(w) = [kind |-> Pair[w[1]][IF Len(w) = 2 THEN 2 ELSE 3], str |-> <<>>]
         /\ w = <<"/">> => Lexeme(w) = [kind |-> "DIV", str |-> <<>>]
         /\ /\ w[1] \notin Letter \cup Digit \cup SingleChar \cup PairFirst
            /\ w # <<"/">>
            => Lexeme(w) = [kind |-> "_ERROR", str |-> w]
<1>1. Head(w) = w[1]
  OBVIOUS
<1>2. w = <<"/">> => w[1] \notin Letter \cup Digit \cup SingleChar \cup PairFirst
  <2>1. w = <<"/">> => w[1] = "/"
    OBVIOUS
  <2> QED BY <2>1, OthersApart
<1>3. w[1] \in Letter => w[1] \notin Digit \cup SingleChar \cup PairFirst
  BY OthersApart
<1>4. w[1] \in Digit => w[1] \notin Letter \cup SingleChar \cup PairFirst
  BY OthersApart
<1>5. w[1] \in SingleChar => w[1] \notin Letter \cup Digit \cup PairFirst
  BY OthersApart
<1>6. w[1] \in PairFirst => w[1] \notin Letter \cup Digit \cup SingleChar
  BY OthersApart
<1> QED
  BY <1>1, <1>2, <1>3, <1>4, <1>5, <1>6, Domains DEF Lexeme

-----------------------------------------------------------------------------
(* Lines.                                                                  *)

\* What the lines of a plain file are.
Lines(t) ==
  /\ t \in Seq(Char) /\ t # <<>> /\ t[Len(t)] = "\n"
  /\ \A i \in 1 .. Len(t) : t[i] = "\n" <=> i > 1 /\ t[i - 1] = "\r"
  /\ \A i \in 1 .. Len(t) + 2 - MaxBuff :
       \E j \in i .. i + MaxBuff - 2 : t[j] \in {"\r", "\n"}

\* At the start of a line there is an end of it, and the buffer has room.
LEMMA LineFits ==
  ASSUME NEW t, Lines(t), NEW m \in 0 .. Len(t) - 1, m = 0 \/ t[m] = "\n"
  PROVE  \E k \in 1 .. MaxBuff - 1 :
           /\ m + k < Len(t) /\ t[m + k] = "\r" /\ t[m + k + 1] = "\n"
           /\ \A h \in 1 .. k - 1 : t[m + h] # "\r" /\ t[m + h] # "\n"
<1> DEFINE n == Len(t)
           T == {k \in 1 .. n - m : t[m + k] = "\r"}
<1>1. t \in Seq(Char) /\ n \in Nat /\ t[n] = "\n" /\ m \in 0 .. n - 1
  BY DEF Lines
<1>2. \A i \in 1 .. n : t[i] = "\n" <=> i > 1 /\ t[i - 1] = "\r"
  BY DEF Lines
<1>3. t[m + 1] # "\n"
  <2>1. m + 1 \in 1 .. n
    BY <1>1
  <2>2. t[m + 1] = "\n" => m + 1 > 1 /\ t[(m + 1) - 1] = "\r"
    BY <1>2, <2>1
  <2>3. (m + 1) - 1 = m
    BY <1>1
  <2> QED BY <1>1, <2>2, <2>3
<1>4. \A j \in m + 1 .. n : t[j] = "\n" => j > m + 1 /\ t[j - 1] = "\r"
  BY <1>1, <1>2, <1>3
<1>5. MaxBuff \in Nat /\ MaxBuff > 1
  BY BufferSizes
<1>6. \E k \in T : k < MaxBuff
  <2>1. CASE n - m < MaxBuff
    <3>1. n > m + 1 /\ t[n - 1] = "\r"
      BY <1>1, <1>4
    <3>2. n - 1 - m \in 1 .. n - m /\ m + (n - 1 - m) = n - 1
      BY <1>1, <3>1
    <3>3. n - 1 - m \in T
      BY <3>1, <3>2
    <3> QED BY <1>1, <1>5, <2>1, <3>3
  <2>2. CASE n - m >= MaxBuff
    <3>1. m + 1 \in 1 .. n + 2 - MaxBuff
      BY <1>1, <1>5, <2>2
    <3>2. PICK j \in m + 1 .. (m + 1) + MaxBuff - 2 : t[j] \in {"\r", "\n"}
      BY <3>1 DEF Lines
    <3>3. j \in m + 1 .. n /\ j - m \in 1 .. n - m /\ m + (j - m) = j
      BY <1>1, <1>5, <2>2
    <3>4. CASE t[j] = "\r"
      <4>1. j - m \in T /\ j - m < MaxBuff
        BY <1>1, <1>5, <3>3, <3>4
      <4> QED BY <4>1
    <3>5. CASE t[j] = "\n"
      <4>1. j > m + 1 /\ t[j - 1] = "\r"
        BY <1>4, <3>3, <3>5
      <4>2. j - 1 - m \in 1 .. n - m /\ m + (j - 1 - m) = j - 1 /\ j - 1 - m < MaxBuff
        BY <1>1, <1>5, <3>3, <4>1
      <4>3. j - 1 - m \in T
        BY <4>1, <4>2
      <4> QED BY <4>2, <4>3
    <3> QED BY <3>2, <3>4, <3>5
  <2> QED BY <1>1, <1>5, <2>1, <2>2
<1>7. PICK k \in T : \A h \in T : k <= h
  <2>1. T \in SUBSET Nat
    BY <1>1
  <2> HIDE DEF T
  <2>2. T # {}
    BY <1>6
  <2> QED BY <2>1, <2>2, LeastOf
<1>8. k \in 1 .. n - m /\ t[m + k] = "\r" /\ k < MaxBuff
  BY <1>5, <1>6, <1>7
<1>9. m + k < n
  BY <1>1, <1>8
<1>10. t[m + k + 1] = "\n"
  <2>1. m + k + 1 \in 1 .. n /\ (m + k + 1) - 1 = m + k /\ m + k + 1 > 1
    BY <1>1, <1>8, <1>9
  <2> QED BY <1>2, <1>8, <2>1
<1>11. ASSUME NEW h \in 1 .. k - 1 PROVE t[m + h] # "\r" /\ t[m + h] # "\n"
  <2>1. \A g \in 1 .. k - 1 : t[m + g] # "\r"
    <3> SUFFICES ASSUME NEW g \in 1 .. k - 1, t[m + g] = "\r" PROVE FALSE
      OBVIOUS
    <3>1. g \in T /\ ~(k <= g)
      BY <1>1, <1>8
    <3> HIDE DEF T
    <3> QED BY <1>7, <3>1
  <2>2. ASSUME t[m + h] = "\n" PROVE FALSE
    <3>1. m + h \in m + 1 .. n
      BY <1>1, <1>8
    <3>2. m + h > m + 1 /\ t[(m + h) - 1] = "\r"
      BY <1>4, <2>2, <3>1
    <3>3. h - 1 \in 1 .. k - 1 /\ m + (h - 1) = (m + h) - 1
      BY <1>1, <1>8, <3>2
    <3> QED BY <2>1, <3>2, <3>3
  <2> QED BY <2>1, <2>2
<1>12. k \in 1 .. MaxBuff - 1
  BY <1>1, <1>5, <1>8
<1> HIDE DEF T
<1> QED BY <1>8, <1>9, <1>10, <1>11, <1>12

\* GetString puts a whole line into the buffer, and reads its end.
LEMMA StringIsLine ==
  ASSUME Lines(text), memPoint \in 0 .. Len(text) - 1,
         memPoint = 0 \/ text[memPoint] = "\n"
  PROVE  LET s == GetString.str
             m == memPoint + GetString.read
         IN  /\ s \in Seq(Char) /\ s # <<>> /\ s[Len(s)] = "\n"
             /\ GetString.read = Len(s) + 1 /\ m \in 1 .. Len(text)
             /\ text[m - 1] = "\r" /\ text[m] = "\n"
             /\ \A k \in 1 .. Len(s) - 1 :
                  s[k] = text[memPoint + k] /\ s[k] # "\r" /\ s[k] # "\n"
<1> DEFINE n == Len(text)
           rest == SubSeq(text, memPoint + 1, n)
           I == {k \in 1 .. Len(rest) : rest[k] = "\r"}
           cr == SelectInSeq(rest, LAMBDA c : c = "\r")
<1>1. text \in Seq(Char) /\ n \in Nat
  BY DEF Lines
<1>2. PICK k \in 1 .. MaxBuff - 1 :
        /\ memPoint + k < n /\ text[memPoint + k] = "\r" /\ text[memPoint + k + 1] = "\n"
        /\ \A h \in 1 .. k - 1 : text[memPoint + h] # "\r" /\ text[memPoint + h] # "\n"
  BY LineFits
<1>3. MaxBuff \in Nat
  BY BufferSizes
<1>4. /\ rest \in Seq(Char) /\ Len(rest) = n - memPoint
      /\ \A h \in 1 .. n - memPoint : rest[h] = text[memPoint + h]
  BY <1>1
<1>5. cr = k
  <2>1. cr = IF I # {} THEN CHOOSE x \in I : \A y \in I : x <= y ELSE 0
    BY DEF SelectInSeq, Min
  <2> HIDE DEF rest
  <2>2. k \in I
    BY <1>1, <1>2, <1>3, <1>4
  <2>3. \A y \in I : k <= y
    <3> SUFFICES ASSUME NEW y \in I, y < k PROVE FALSE
      BY <1>1, <1>2, <1>3, <1>4
    <3>1. y \in 1 .. k - 1 /\ y \in 1 .. n - memPoint /\ rest[y] = "\r"
      BY <1>1, <1>2, <1>3, <1>4
    <3> QED BY <1>2, <1>4, <3>1
  <2>4. \A x \in I : (\A y \in I : x <= y) => x = k
    <3> SUFFICES ASSUME NEW x \in I, x <= k PROVE x = k
      BY <2>2
    <3>1. k <= x /\ x \in Int /\ k \in Int
      BY <1>1, <1>2, <1>3, <1>4, <2>3
    <3> QED BY <3>1
  <2> HIDE DEF I
  <2>5. (CHOOSE x \in I : \A y \in I : x <= y) = k
    BY <2>2, <2>3, <2>4
  <2> QED BY <2>1, <2>2, <2>5
<1> DEFINE s == Append(SubSeq(rest, 1, k - 1), "\n")
<1>6. /\ s \in Seq(Char) /\ Len(s) = k /\ s[k] = "\n"
      /\ \A h \in 1 .. k - 1 : s[h] = rest[h]
  <2> HIDE DEF rest
  <2>1. /\ SubSeq(rest, 1, k - 1) \in Seq(Char) /\ Len(SubSeq(rest, 1, k - 1)) = k - 1
        /\ \A h \in 1 .. k - 1 : SubSeq(rest, 1, k - 1)[h] = rest[h]
    BY <1>1, <1>2, <1>3, <1>4
  <2> DEFINE r == SubSeq(rest, 1, k - 1)
  <2> HIDE DEF r
  <2>0. r \in Seq(Char) /\ Len(r) = k - 1 /\ k \in Nat
    BY <1>2, <1>3, <2>1 DEF r
  <2>2. /\ Append(r, "\n") \in Seq(Char) /\ Len(Append(r, "\n")) = k
        /\ Append(r, "\n")[k] = "\n"
        /\ \A h \in 1 .. k - 1 : Append(r, "\n")[h] = r[h]
    <3>1. /\ Append(r, "\n") \in Seq(Char)
          /\ Len(Append(r, "\n")) = Len(r) + 1
      <4>1. "\n" \in Char
        BY DEF Char
      <4> QED BY <2>0, <4>1, AppendProperties
    <3>0. Len(r) + 1 = k
      BY <2>0
    <3>2. /\ \A h \in 1 .. Len(r) : Append(r, "\n")[h] = r[h]
          /\ Append(r, "\n")[Len(r) + 1] = "\n"
      BY <2>0, AppendProperties
    <3> QED BY <2>0, <3>0, <3>1, <3>2
  <2> QED BY <2>1, <2>2 DEF r
<1>7. GetString.str = s /\ GetString.read = k + 1
  <2>1. k \in 1 .. MaxBuff /\ k < MaxBuff
    BY <1>2, <1>3
  <2> HIDE DEF s
  <2>2. Len(s) < MaxBuff
    BY <1>6, <2>1
  <2> DEFINE line == IF cr \in 1 .. MaxBuff THEN Append(SubSeq(rest, 1, cr - 1), "\n")
                     ELSE SubSeq(rest, 1, IF Len(rest) < MaxBuff THEN Len(rest) ELSE MaxBuff)
  <2>3. line = s
    <3> HIDE DEF cr, rest
    <3> QED BY <1>5, <2>1 DEF s
  <2>4. /\ GetString.str = IF Len(line) < MaxBuff THEN line ELSE Front(line)
        /\ GetString.read = IF cr \in 1 .. MaxBuff THEN cr + 1
                            ELSE IF Len(rest) < MaxBuff THEN Len(rest) ELSE MaxBuff
    BY DEF GetString
  <2> HIDE DEF line, cr, rest
  <2> QED BY <1>5, <2>1, <2>2, <2>3, <2>4
<1> HIDE DEF s, cr, rest, I
<1>8. /\ memPoint + (k + 1) \in 1 .. n /\ (memPoint + (k + 1)) - 1 = memPoint + k
      /\ memPoint + (k + 1) = memPoint + k + 1
  BY <1>1, <1>2, <1>3
<1>9. s # <<>> /\ k + 1 = Len(s) + 1
  BY <1>2, <1>3, <1>6
<1>10. ASSUME NEW h \in 1 .. Len(s) - 1
       PROVE  s[h] = text[memPoint + h] /\ s[h] # "\r" /\ s[h] # "\n"
  <2>1. h \in 1 .. k - 1 /\ h \in 1 .. n - memPoint
    BY <1>1, <1>2, <1>3, <1>6
  <2> QED BY <1>2, <1>4, <1>6, <2>1
<1> QED BY <1>2, <1>6, <1>7, <1>8, <1>9, <1>10

\* The position in the file of the next character.
Pos == IF linePos < Len(buf) THEN memPoint - Len(buf) + linePos ELSE memPoint + 1

\* The buffer has the line of the file that ends where the file was read to.
LineInv ==
  /\ memPoint \in 0 .. Len(text) /\ linePos \in 0 .. Len(buf)
  /\ buf \in Seq(Char)
  /\ buf = <<>> => memPoint = 0
  /\ buf # <<>> =>
       /\ Len(buf) < memPoint
       /\ text[memPoint - 1] = "\r" /\ text[memPoint] = "\n"
       /\ buf[Len(buf)] = "\n"
       /\ \A k \in 1 .. Len(buf) - 1 :
            /\ buf[k] = text[memPoint - Len(buf) - 1 + k]
            /\ buf[k] # "\r" /\ buf[k] # "\n"

\* The next character, from the line in the buffer.
LEMMA NextOfLine ==
  ASSUME Lines(text), LineInv, linePos < Len(buf), NEW back \in {0, 1},
         text' = text, buf' = GetNextChar.buf,
         memPoint' = memPoint + GetNextChar.read, linePos' = GetNextChar.pos - back
  PROVE  /\ Pos \in 1 .. Len(text) - 1 /\ text[Pos] # "\n"
         /\ GetNextChar.c = IF text[Pos] = "\r" THEN "\n" ELSE text[Pos]
         /\ LineInv'
         /\ Pos' = IF back = 1 THEN Pos ELSE IF text[Pos] = "\r" THEN Pos + 2 ELSE Pos + 1
<1> DEFINE L == Len(buf)
           n == Len(text)
<1>1. /\ n \in Nat /\ L \in Nat /\ memPoint \in 0 .. n /\ linePos \in 0 .. L - 1
      /\ buf # <<>> /\ L < memPoint
      /\ text[memPoint - 1] = "\r" /\ text[memPoint] = "\n" /\ buf[L] = "\n"
      /\ \A k \in 1 .. L - 1 : /\ buf[k] = text[memPoint - L - 1 + k]
                               /\ buf[k] # "\r" /\ buf[k] # "\n"
  <2>1. n \in Nat
    BY DEF Lines
  <2>2. buf # <<>> /\ L \in Nat
    BY DEF LineInv
  <2> QED BY <2>1, <2>2 DEF LineInv
<1>2. GetNextChar = [c |-> buf[linePos + 1], buf |-> buf, pos |-> linePos + 1, read |-> 0]
  BY <1>1 DEF GetNextChar
<1>3. /\ GetNextChar.c = buf[linePos + 1] /\ buf' = buf /\ memPoint' = memPoint
      /\ linePos' = linePos + 1 - back
  BY <1>1, <1>2
<1>4. Pos = memPoint - L + linePos
  BY DEF Pos
<1>5. LineInv'
  <2>1. linePos' \in 0 .. L
    BY <1>1, <1>3
  <2> QED BY <1>3, <2>1 DEF LineInv
<1>6. Pos' = IF linePos + 1 - back < L THEN memPoint - L + (linePos + 1 - back)
             ELSE memPoint + 1
  BY <1>3 DEF Pos
<1> HIDE DEF L, n
<1>7. CASE linePos + 1 = L
  <2>1. Pos = memPoint - 1 /\ buf[linePos + 1] = "\n" /\ text[Pos] = "\r"
    <3>1. Pos = memPoint - 1
      BY <1>1, <1>4, <1>7
    <3> QED BY <1>1, <1>7, <3>1
  <2>2. Pos \in 1 .. n - 1
    BY <1>1, <2>1
  <2>3. Pos' = IF back = 1 THEN Pos ELSE Pos + 2
    BY <1>1, <1>4, <1>6, <1>7
  <2> QED BY <1>3, <1>5, <2>1, <2>2, <2>3 DEF n
<1>8. CASE linePos + 1 < L
  <2>1. linePos + 1 \in 1 .. L - 1 /\ memPoint - L - 1 + (linePos + 1) = Pos
    BY <1>1, <1>4, <1>8
  <2>2. buf[linePos + 1] = text[Pos] /\ text[Pos] # "\r" /\ text[Pos] # "\n"
    BY <1>1, <2>1
  <2>3. Pos \in 1 .. n - 1
    BY <1>1, <1>4, <1>8
  <2>4. Pos' = IF back = 1 THEN Pos ELSE Pos + 1
    BY <1>1, <1>4, <1>6, <1>8
  <2> QED BY <1>3, <1>5, <2>2, <2>3, <2>4 DEF n
<1> QED BY <1>1, <1>7, <1>8

\* The next character, from a line that is read anew.
LEMMA NextOfFile ==
  ASSUME Lines(text), LineInv, linePos >= Len(buf), memPoint < Len(text),
         NEW back \in {0, 1}, text' = text, buf' = GetNextChar.buf,
         memPoint' = memPoint + GetNextChar.read, linePos' = GetNextChar.pos - back
  PROVE  /\ Pos \in 1 .. Len(text) - 1 /\ text[Pos] # "\n"
         /\ GetNextChar.c = IF text[Pos] = "\r" THEN "\n" ELSE text[Pos]
         /\ LineInv'
         /\ Pos' = IF back = 1 THEN Pos ELSE IF text[Pos] = "\r" THEN Pos + 2 ELSE Pos + 1
<1> DEFINE n == Len(text)
           s == GetString.str
           m == memPoint + GetString.read
<1>1. /\ n \in Nat /\ Len(buf) \in Nat /\ memPoint \in 0 .. n - 1 /\ linePos = Len(buf)
      /\ memPoint = 0 \/ text[memPoint] = "\n"
  <2>1. n \in Nat /\ Len(buf) \in Nat
    BY DEF Lines, LineInv
  <2>2. memPoint \in 0 .. n /\ linePos \in 0 .. Len(buf)
    BY DEF LineInv
  <2>3. memPoint = 0 \/ text[memPoint] = "\n"
    BY DEF LineInv
  <2> QED BY <2>1, <2>2, <2>3
<1>2. /\ s \in Seq(Char) /\ s # <<>> /\ s[Len(s)] = "\n"
      /\ GetString.read = Len(s) + 1 /\ m \in 1 .. n
      /\ text[m - 1] = "\r" /\ text[m] = "\n"
      /\ \A k \in 1 .. Len(s) - 1 :
           s[k] = text[memPoint + k] /\ s[k] # "\r" /\ s[k] # "\n"
  BY <1>1, StringIsLine
<1> HIDE DEF n
<1>3. GetNextChar = [c |-> s[1], buf |-> s, pos |-> 1, read |-> GetString.read]
  <2>1. linePos >= Len(buf) /\ memPoint < Len(text)
    OBVIOUS
  <2> QED BY <2>1, <1>1 DEF GetNextChar
<1>4. /\ GetNextChar.c = s[1] /\ buf' = s /\ memPoint' = m /\ linePos' = 1 - back
  BY <1>3
<1> HIDE DEF s, m
<1> DEFINE L == Len(s)
<1>5. L \in Nat \ {0} /\ m = memPoint + L + 1
  <2>1. L \in Nat /\ L # 0
    BY <1>2
  <2> QED BY <1>1, <1>2, <2>1 DEF m
<1>6. Pos = memPoint + 1
  BY <1>1 DEF Pos
<1>7. LineInv'
  <2>1. /\ memPoint' \in 0 .. n /\ linePos' \in 0 .. L /\ buf' \in Seq(Char)
        /\ buf' # <<>> /\ L < memPoint' /\ Len(buf') = L
    BY <1>1, <1>2, <1>4, <1>5
  <2>2. text'[memPoint' - 1] = "\r" /\ text'[memPoint'] = "\n" /\ buf'[Len(buf')] = "\n"
    BY <1>2, <1>4
  <2>3. ASSUME NEW k \in 1 .. Len(buf') - 1
        PROVE  /\ buf'[k] = text'[memPoint' - Len(buf') - 1 + k]
               /\ buf'[k] # "\r" /\ buf'[k] # "\n"
    <3>1. k \in 1 .. Len(s) - 1 /\ memPoint' - Len(buf') - 1 + k = memPoint + k
      BY <1>1, <1>4, <1>5
    <3> QED BY <1>2, <1>4, <3>1
  <2> HIDE DEF L
  <2> QED BY <2>1, <2>2, <2>3 DEF LineInv, n
<1>8. Pos' = IF 1 - back < L THEN m - L + (1 - back) ELSE m + 1
  BY <1>4 DEF Pos
<1> HIDE DEF L
<1>9. CASE L = 1
  <2>1. s[1] = "\n" /\ m = memPoint + 2
    BY <1>1, <1>2, <1>5, <1>9 DEF L
  <2>2. text[Pos] = "\r"
    <3>1. m - 1 = Pos
      BY <1>1, <1>6, <2>1
    <3> QED BY <1>2, <3>1
  <2>3. Pos \in 1 .. n - 1
    BY <1>1, <1>2, <1>6, <2>1
  <2>4. Pos' = IF back = 1 THEN Pos ELSE Pos + 2
    BY <1>1, <1>6, <1>8, <1>9, <2>1
  <2> QED BY <1>4, <1>7, <2>1, <2>2, <2>3, <2>4 DEF n
<1>10. CASE L > 1
  <2>1. 1 \in 1 .. Len(s) - 1
    BY <1>5, <1>10 DEF L
  <2>2. s[1] = text[Pos] /\ text[Pos] # "\r" /\ text[Pos] # "\n"
    BY <1>2, <1>6, <2>1
  <2>3. Pos \in 1 .. n - 1
    BY <1>1, <1>2, <1>5, <1>6, <1>10
  <2>4. Pos' = IF back = 1 THEN Pos ELSE Pos + 1
    BY <1>1, <1>5, <1>6, <1>8, <1>10
  <2> QED BY <1>4, <1>7, <2>2, <2>3, <2>4 DEF n
<1> QED BY <1>5, <1>9, <1>10

\* The next character, or the end of the file; a character that is put back is
\* the next one again, even if its line is gone.
LEMMA NextChar ==
  ASSUME Lines(text), LineInv, NEW back \in {0, 1}, text' = text,
         buf' = GetNextChar.buf, memPoint' = memPoint + GetNextChar.read,
         linePos' = GetNextChar.pos - back
  PROVE  /\ Pos \in 1 .. Len(text) + 1
         /\ Pos <= Len(text) =>
              /\ Pos < Len(text) /\ text[Pos] # "\n"
              /\ GetNextChar.c = IF text[Pos] = "\r" THEN "\n" ELSE text[Pos]
              /\ LineInv'
              /\ Pos' = IF back = 1 THEN Pos
                        ELSE IF text[Pos] = "\r" THEN Pos + 2 ELSE Pos + 1
         /\ Pos = Len(text) + 1 /\ back = 0 => GetNextChar.c = "EOF" /\ LineInv' /\ Pos' = Pos
<1> DEFINE n == Len(text)
<1>1. /\ n \in Nat /\ Len(buf) \in Nat /\ memPoint \in 0 .. n /\ linePos \in 0 .. Len(buf)
  BY DEF Lines, LineInv
<1>2. CASE linePos < Len(buf)
  <2>1. Pos \in 1 .. n - 1
    BY <1>2, NextOfLine
  <2>2. Pos < n /\ Pos # n + 1 /\ Pos \in 1 .. n + 1
    BY <1>1, <2>1
  <2> HIDE DEF n
  <2> QED BY <1>2, <2>2, NextOfLine DEF n
<1>3. CASE linePos >= Len(buf) /\ memPoint < n
  <2>1. Pos \in 1 .. n - 1
    BY <1>3, NextOfFile
  <2>2. Pos < n /\ Pos # n + 1 /\ Pos \in 1 .. n + 1
    BY <1>1, <2>1
  <2> HIDE DEF n
  <2> QED BY <1>3, <2>2, NextOfFile DEF n
<1>4. CASE linePos >= Len(buf) /\ memPoint = n
  <2>1. Pos = n + 1
    BY <1>1, <1>4 DEF Pos
  <2>2. GetNextChar = [c |-> "EOF", buf |-> buf, pos |-> linePos, read |-> 0]
    BY <1>1, <1>4 DEF GetNextChar
  <2>3. GetNextChar.c = "EOF" /\ buf' = buf /\ memPoint' = memPoint /\ linePos' = linePos - back
    BY <1>1, <2>2
  <2>4. back = 0 => linePos' = linePos
    BY <1>1, <2>3
  <2>5. back = 0 => LineInv' /\ Pos' = Pos
    BY <2>3, <2>4 DEF LineInv, Pos
  <2> HIDE DEF n
  <2>6. ~(n + 1 <= n) /\ n + 1 \in 1 .. n + 1
    BY <1>1
  <2> QED BY <2>1, <2>3, <2>5, <2>6 DEF n
<1> QED BY <1>1, <1>2, <1>3, <1>4

-----------------------------------------------------------------------------
(* The invariant.                                                          *)

\* A plain file, but for what its lexemes are.
Clean(t) ==
  /\ Lines(t)
  /\ \A i \in 1 .. Len(t) : /\ t[i] \notin {Quote, "EOF"}
                            /\ t[i] = "/" => t[i + 1] # "*"

\* The tokens so far, and what there is to read from i on.
Left(i) == tokens \o LexemesFrom(text)[i]

StartInv ==
  state = "START" => word = <<>> /\ Left(Pos) = meant

\* A word is what was read since it began.
WordInv ==
  state \in {"INID", "INNUM"} =>
    /\ Pos <= Len(text)
    /\ \E i \in 1 .. Pos - 1 :
         /\ text[i] \in IF state = "INID" THEN Letter ELSE Digit
         /\ \A k \in i .. Pos - 1 : text[k] \in WordRest(text[i])
         /\ word = SubSeq(text, i, Pos - 1) /\ Left(i) = meant

\* A sign that may be the first of two is the character before.
SignInv ==
  state \in PairFirst \cup {"INDIV"} =>
    /\ word = <<>> /\ Pos \in 2 .. Len(text)
    /\ text[Pos - 1] = IF state = "INDIV" THEN "/" ELSE state
    /\ Left(Pos - 1) = meant

\* A comment goes on to the end of its line.
CommentInv ==
  state = "INCOMMENT" =>
    /\ word = <<>>
    /\ \E j \in Pos .. Len(text) :
         /\ text[j] = "\n" /\ \A k \in Pos .. j - 1 : text[k] # "\n"
         /\ Left(j) = meant

Scanned ==
  /\ LineInv /\ tokens \in Seq(ScannedToken)
  /\ state \in {"START", "INID", "INNUM", "INDIV", "INCOMMENT", "END"} \cup PairFirst
  /\ StartInv /\ WordInv /\ SignInv /\ CommentInv
  /\ state = "END" => tokens = meant

ScanInv ==
  /\ text \in Seq(Char)
  /\ IF Plain(text) THEN meant = Lexemes(text) /\ Scanned ELSE meant = <<>>

\* The states named by a character are none of the others.
LEMMA StatesApart ==
  \A s \in PairFirst :
    s \notin {"START", "INID", "INNUM", "INDIV", "INCOMMENT", "END", "DONE", "INSTR",
              "INMULTI_COMMENT", "OUTMULTI_COMMENT"}
  BY DEF PairFirst

\* The quote is none of the other characters with a meaning of their own.
LEMMA QuoteApart == Quote \notin {"\n", "\r", "EOF", "/", "$"}
  BY Zenon DEF Quote

\* The tokens of signs end no file and are no names.
LEMMA SignKinds ==
  /\ \A c \in SingleChar : Single[c] # "ENDFILE" /\ Single[c] # "ID"
  /\ \A c \in PairFirst : /\ Pair[c][1] \notin {"\n", "\r"}
                          /\ Pair[c][2] # "ENDFILE" /\ Pair[c][2] # "ID"
                          /\ Pair[c][3] # "ENDFILE" /\ Pair[c][3] # "ID"
<1>1. \A c \in PairFirst : /\ Pair[c][1] \notin {"\n", "\r"}
                           /\ Pair[c][2] # "ENDFILE" /\ Pair[c][2] # "ID"
                           /\ Pair[c][3] # "ENDFILE" /\ Pair[c][3] # "ID"
  BY DEF Pair, PairFirst
<1>2. \A c \in SingleChar : Single[c] # "ENDFILE" /\ Single[c] # "ID"
  BY Zenon DEF Single, SingleChar
<1> QED BY <1>1, <1>2

\* A round of the loop, while the token's buffer has room.
LEMMA Round ==
  ASSUME ScanChar, LineInv, Len(word) < MaxToken, word \in Seq(Char),
         NEW mv, mv = Move(state, GetNextChar.c)
  PROVE  LET saved == IF mv.save THEN Append(word, GetNextChar.c) ELSE word
             kind == IF mv.kind = "ID" THEN reservedLookup(saved) ELSE mv.kind
         IN  /\ text' = text /\ meant' = meant
             /\ buf' = GetNextChar.buf /\ memPoint' = memPoint + GetNextChar.read
             /\ linePos' = GetNextChar.pos - (IF mv.unget THEN 1 ELSE 0)
             /\ mv.to # "DONE" => state' = mv.to /\ word' = saved /\ tokens' = tokens
             /\ mv.to = "DONE" =>
                  /\ tokens' = Append(tokens, [kind |-> kind, str |-> saved])
                  /\ state' = IF kind = "ENDFILE" THEN "END" ELSE "START"
                  /\ word' = <<>>
<1> DEFINE saved == IF mv.save THEN Append(word, GetNextChar.c) ELSE word
           kind == IF mv.kind = "ID" THEN reservedLookup(saved) ELSE mv.kind
<1>1. ~(Len(word) >= MaxToken)
  <2>1. MaxToken \in Nat /\ Len(word) \in Nat
    BY BufferSizes
  <2> QED BY <2>1
<1>2. GetNextChar.pos \in Int
  <2>1. linePos \in Int
    BY DEF LineInv
  <2>2. GetNextChar.pos \in {linePos + 1, 1, linePos}
    BY DEF GetNextChar
  <2> QED BY <2>1, <2>2
<1>3. /\ text' = text /\ meant' = meant
      /\ buf' = GetNextChar.buf /\ memPoint' = memPoint + GetNextChar.read
      /\ linePos' = IF mv.unget THEN GetNextChar.pos - 1 ELSE GetNextChar.pos
  BY DEF ScanChar
<1>4. linePos' = GetNextChar.pos - (IF mv.unget THEN 1 ELSE 0)
  BY <1>2, <1>3
<1>5. \/ mv.to = "DONE" /\ EndToken({mv.kind}, saved)
      \/ mv.to # "DONE" /\ state' = mv.to /\ word' = saved /\ tokens' = tokens
  BY <1>1 DEF ScanChar
<1> HIDE DEF saved
<1>6. EndToken({mv.kind}, saved) =>
        /\ tokens' = Append(tokens, [kind |-> kind, str |-> saved])
        /\ state' = IF kind = "ENDFILE" THEN "END" ELSE "START"
        /\ word' = <<>>
  BY DEF EndToken
<1> HIDE DEF kind
<1> QED BY <1>3, <1>4, <1>5, <1>6 DEF kind, saved

\* A token is read.
LEMMA TokenRead ==
  ASSUME Clean(text), tokens \in Seq(ScannedToken), text' = text, meant' = meant,
         NEW i, NEW j \in 1 .. Len(text) + 1, NEW x \in ScannedToken,
         LexemesFrom(text)[i] = <<x>> \o LexemesFrom(text)[j],
         Left(i) = meant, tokens' = Append(tokens, x)
  PROVE  tokens' \in Seq(ScannedToken) /\ tokens' \o LexemesFrom(text')[j] = meant'
<1> DEFINE s == LexemesFrom(text)[j]
<1>1. s \in Seq(ScannedToken)
  BY LexemesRecur DEF Clean, Lines
<1> HIDE DEF s
<1>2. tokens' \in Seq(ScannedToken)
  BY AppendProperties
<1>3. <<x>> \in Seq(ScannedToken) /\ Append(tokens, x) = tokens \o <<x>>
  BY AppendIsConcat
<1>4. (tokens \o <<x>>) \o s = tokens \o (<<x>> \o s)
  BY <1>1, <1>3, ConcatAssociative
<1> QED BY <1>2, <1>3, <1>4 DEF Left, s

\* The scanner is between two tokens.
LEMMA ToStart ==
  ASSUME LineInv', tokens' \in Seq(ScannedToken), state' = "START", word' = <<>>,
         tokens' \o LexemesFrom(text')[Pos'] = meant'
  PROVE  Scanned'
<1>1. state' \notin PairFirst
  BY StatesApart
<1>2. StartInv' /\ WordInv' /\ SignInv' /\ CommentInv'
  BY <1>1 DEF StartInv, WordInv, SignInv, CommentInv, Left
<1> QED BY <1>2 DEF Scanned

-----------------------------------------------------------------------------
(* The steps.                                                              *)

\* What the automaton does at the start of a token.
LEMMA StartMoves ==
  ASSUME NEW c
  PROVE  /\ c \in Digit => AtStart(c) = Stay("INNUM", TRUE)
         /\ c \in Letter => AtStart(c) = Stay("INID", TRUE)
         /\ c \in PairFirst => AtStart(c) = Stay(c, FALSE)
         /\ c = Quote => AtStart(c) = Stay("INSTR", FALSE)
         /\ c = "/" => AtStart(c) = Stay("INDIV", FALSE)
         /\ c = "$" => AtStart(c) = Stay("INCOMMENT", FALSE)
         /\ c \in Blank => AtStart(c) = Stay("START", FALSE)
         /\ c = "EOF" => AtStart(c) = Done("ENDFILE", FALSE)
         /\ c \in SingleChar => AtStart(c) = Done(Single[c], TRUE)
         /\ /\ c \notin Digit \cup Letter \cup PairFirst \cup Blank \cup SingleChar
            /\ c \notin {Quote, "/", "$", "EOF"}
            => AtStart(c) = Done("_ERROR", TRUE)
<1>1. Quote \notin Digit \cup Letter \cup PairFirst \cup Blank \cup SingleChar
  BY OthersApart, BlankApart
<1>2. c \in {"/", "$", "EOF"} =>
        c \notin Digit \cup Letter \cup PairFirst \cup Blank \cup SingleChar
  BY OthersApart, BlankApart
<1>3. c \in Digit => c \notin Letter \cup PairFirst \cup Blank \cup SingleChar
  BY OthersApart, BlankApart
<1>4. c \in Letter => c \notin PairFirst \cup Blank \cup SingleChar
  BY OthersApart, BlankApart
<1>5. c \in PairFirst => c \notin Blank \cup SingleChar
  BY OthersApart, BlankApart
<1>6. c \in Blank => c \notin SingleChar
  BY BlankApart
<1>7. Quote \notin {"/", "$", "EOF"}
  BY QuoteApart
<1>8. DOMAIN Pair = PairFirst /\ DOMAIN Single = SingleChar
  BY Domains
<1>9. AtStart(c) =
        CASE c \in Digit -> Stay("INNUM", TRUE)
          [] c \in Letter -> Stay("INID", TRUE)
          [] c \in PairFirst -> Stay(c, FALSE)
          [] c = Quote -> Stay("INSTR", FALSE)
          [] c = "/" -> Stay("INDIV", FALSE)
          [] c = "$" -> Stay("INCOMMENT", FALSE)
          [] c \in Blank -> Stay("START", FALSE)
          [] c = "EOF" -> Done("ENDFILE", FALSE)
          [] c \in SingleChar -> Done(Single[c], TRUE)
          [] OTHER -> Done("_ERROR", TRUE)
  BY <1>8 DEF AtStart
<1> QED BY <1>1, <1>2, <1>3, <1>4, <1>5, <1>6, <1>7, <1>9

\* What the automaton does in the states of a plain file.
LEMMA Moves ==
  ASSUME NEW c
  PROVE  /\ Move("START", c) = AtStart(c)
         /\ Move("INCOMMENT", c) = Stay(IF c = "\n" THEN "START" ELSE "INCOMMENT", FALSE)
         /\ Move("INNUM", c) = IF c \in Digit \cup {"."} THEN Stay("INNUM", TRUE)
                               ELSE Before("NUM")
         /\ Move("INID", c) = IF c \in Letter \cup Digit \cup {"."} THEN Stay("INID", TRUE)
                              ELSE Before("ID")
         /\ Move("INDIV", c) = AfterSlash(c)
         /\ \A s \in PairFirst : Move(s, c) = InPair(s, c)
<1>1. \A s \in PairFirst : Move(s, c) = InPair(s, c)
  BY StatesApart DEF Move
<1> QED BY <1>1 DEF Move, InComment, InWord

\* A round at the start of a token.
LEMMA StartStep ==
  ASSUME Clean(text), Scanned, ScanChar, state = "START", Pos <= Len(text)
  PROVE  Scanned' /\ text' = text /\ meant' = meant
<1> DEFINE c == GetNextChar.c
           n == Len(text)
           d == text[Pos]
           mv == Move(state, c)
<1>1. /\ Lines(text) /\ LineInv /\ tokens \in Seq(ScannedToken)
      /\ word = <<>> /\ Left(Pos) = meant
      /\ text \in Seq(Char) /\ text # <<>> /\ text[n] = "\n" /\ n \in Nat
  BY DEF Clean, Scanned, StartInv, Lines
<1>2. Len(word) < MaxToken /\ word \in Seq(Char)
  BY <1>1, BufferSizes
<1>3. mv = AtStart(c)
  BY Moves
<1>4. mv.unget = FALSE
  <2> HIDE DEF mv, c
  <2> QED BY <1>3, StartMoves DEF Stay, Done
<1>5. /\ text' = text /\ meant' = meant
      /\ buf' = GetNextChar.buf /\ memPoint' = memPoint + GetNextChar.read
      /\ linePos' = GetNextChar.pos - 0
  BY <1>1, <1>2, <1>4, Round
<1>6. /\ Pos \in 1 .. n - 1 /\ d # "\n" /\ c = (IF d = "\r" THEN "\n" ELSE d)
      /\ LineInv' /\ Pos' = IF d = "\r" THEN Pos + 2 ELSE Pos + 1
  <2>1. Pos \in 1 .. n + 1 /\ Pos <= n
    BY <1>1, <1>5, NextChar
  <2> HIDE DEF n
  <2> QED BY <1>1, <1>5, <2>1, NextChar DEF n
<1> DEFINE saved == IF mv.save THEN Append(word, c) ELSE word
           kind == IF mv.kind = "ID" THEN reservedLookup(saved) ELSE mv.kind
<1>7. /\ mv.to # "DONE" => state' = mv.to /\ word' = saved /\ tokens' = tokens
      /\ mv.to = "DONE" =>
           /\ tokens' = Append(tokens, [kind |-> kind, str |-> saved])
           /\ state' = IF kind = "ENDFILE" THEN "END" ELSE "START"
           /\ word' = <<>>
  BY <1>1, <1>2, Round
<1>8. d \notin {Quote, "EOF"} /\ Pos \in 1 .. n
  BY <1>1, <1>6 DEF Clean
<1> HIDE DEF mv, c, d, n
<1>9. CASE d \in Blank \cup {"\r"}
  <2>1. c \in Blank
    BY <1>6, <1>9, BlankApart
  <2>2. mv = Stay("START", FALSE)
    BY <1>3, <2>1, StartMoves
  <2>3. state' = "START" /\ word' = word /\ tokens' = tokens
    BY <1>7, <2>2 DEF Stay
  <2>4. LexemesFrom(text)[Pos] = LexemesFrom(text)[Pos + 1]
    BY <1>1, <1>8, <1>9, LexemesAtBlank DEF d, n
  <2>5. CASE d = "\r"
    <3>1. Pos + 1 \in 1 .. n /\ text[Pos + 1] = "\n"
      <4>1. Pos + 1 \in 1 .. n /\ Pos + 1 > 1 /\ (Pos + 1) - 1 = Pos
        BY <1>1, <1>6
      <4> QED BY <1>1, <2>5, <4>1 DEF Lines, d, n
    <3>2. LexemesFrom(text)[Pos + 1] = LexemesFrom(text)[(Pos + 1) + 1]
      BY <1>1, <3>1, LexemesAtBlank, BlankApart DEF n
    <3>3. Pos' = (Pos + 1) + 1
      BY <1>6, <2>5
    <3>4. tokens' \o LexemesFrom(text')[Pos'] = meant'
      BY <1>1, <1>5, <2>3, <2>4, <3>2, <3>3 DEF Left
    <3> QED BY <1>1, <1>5, <1>6, <2>3, <3>4, ToStart
  <2>6. CASE d # "\r"
    <3>1. Pos' = Pos + 1
      BY <1>6, <2>6
    <3>2. tokens' \o LexemesFrom(text')[Pos'] = meant'
      BY <1>1, <1>5, <2>3, <2>4, <3>1 DEF Left
    <3> QED BY <1>1, <1>5, <1>6, <2>3, <3>2, ToStart
  <2> QED BY <2>5, <2>6
<1>10. ASSUME d \notin Blank \cup {"\r"} PROVE c = d /\ Pos' = Pos + 1
  BY <1>6, <1>10
<1>11. CASE d \in Letter \cup Digit
  <2>1. d \notin Blank \cup {"\r"} /\ (d \in Letter => d \notin Digit)
    BY <1>11, OthersApart, BlankApart
  <2>2. mv = Stay(IF d \in Letter THEN "INID" ELSE "INNUM", TRUE)
    BY <1>3, <1>10, <1>11, <2>1, StartMoves
  <2>3. /\ state' = (IF d \in Letter THEN "INID" ELSE "INNUM")
        /\ word' = Append(<<>>, d) /\ tokens' = tokens
    BY <1>1, <1>7, <1>10, <2>1, <2>2 DEF Stay
  <2>4. word' = SubSeq(text, Pos, Pos)
    <3>1. Append(<<>>, d) = SubSeq(text, Pos, Pos)
      BY <1>1, <1>8 DEF d, n
    <3> QED BY <2>3, <3>1
  <2>5. Pos \in 1 .. Pos' - 1 /\ Pos' - 1 = Pos /\ Pos' <= n
    BY <1>1, <1>6, <1>10, <2>1
  <2>6. \A k \in Pos .. Pos' - 1 : text[k] \in WordRest(text[Pos])
    <3>1. \A k \in Pos .. Pos' - 1 : k = Pos
      BY <1>6, <2>5
    <3>2. text[Pos] \in WordRest(text[Pos])
      BY <1>11 DEF WordRest, d
    <3> QED BY <3>1, <3>2
  <2>7. text[Pos] \in IF state' = "INID" THEN Letter ELSE Digit
    BY <1>11, <2>3 DEF d
  <2>8. tokens' \o LexemesFrom(text')[Pos] = meant'
    BY <1>1, <1>5, <2>3 DEF Left
  <2>9. WordInv'
    BY <1>5, <2>4, <2>5, <2>6, <2>7, <2>8 DEF WordInv, Left, n
  <2>10. state' \in {"INID", "INNUM"} /\ state' \notin PairFirst
    BY <2>3, StatesApart
  <2>11. StartInv' /\ SignInv' /\ CommentInv'
    BY <2>10 DEF StartInv, SignInv, CommentInv
  <2> QED BY <1>1, <1>5, <1>6, <2>3, <2>9, <2>10, <2>11 DEF Scanned
<1>12. CASE d \in PairFirst \cup {"/"}
  <2>1. d \notin Blank \cup {"\r"}
    BY <1>12, OthersApart, BlankApart
  <2>2. d \in PairFirst => d # "/" /\ d # "DONE" /\ d # "INDIV"
    BY OthersApart, StatesApart
  <2>3. mv = Stay(IF d = "/" THEN "INDIV" ELSE d, FALSE)
    <3>1. c = d /\ mv = AtStart(d)
      BY <1>3, <1>10, <2>1
    <3>2. d = "/" => AtStart(d) = Stay("INDIV", FALSE)
      BY StartMoves
    <3>3. d \in PairFirst => AtStart(d) = Stay(d, FALSE)
      BY StartMoves
    <3> QED BY <1>12, <2>2, <3>1, <3>2, <3>3
  <2>4. state' = (IF d = "/" THEN "INDIV" ELSE d) /\ word' = <<>> /\ tokens' = tokens
    BY <1>1, <1>7, <1>12, <2>3, <2>2 DEF Stay
  <2>5. Pos' - 1 = Pos /\ Pos' \in 2 .. n
    BY <1>1, <1>6, <1>10, <2>1
  <2>6. SignInv'
    <3>1. text'[Pos' - 1] = IF state' = "INDIV" THEN "/" ELSE state'
      BY <1>5, <1>12, <2>2, <2>4, <2>5 DEF d
    <3>2. tokens' \o LexemesFrom(text')[Pos' - 1] = meant'
      BY <1>1, <1>5, <2>4, <2>5 DEF Left
    <3> QED BY <1>5, <2>4, <2>5, <3>1, <3>2 DEF SignInv, Left, n
  <2>7. state' \in PairFirst \cup {"INDIV"}
        /\ state' \notin {"START", "INID", "INNUM", "INCOMMENT", "END"}
    BY <1>12, <2>4, StatesApart
  <2>8. StartInv' /\ WordInv' /\ CommentInv'
    BY <2>7 DEF StartInv, WordInv, CommentInv
  <2> QED BY <1>1, <1>5, <1>6, <2>4, <2>6, <2>7, <2>8 DEF Scanned
<1>13. CASE d = "$"
  <2>1. d \notin Blank \cup {"\r"}
    BY <1>13, BlankApart
  <2>2. mv = Stay("INCOMMENT", FALSE)
    BY <1>3, <1>10, <1>13, <2>1, StartMoves
  <2>3. state' = "INCOMMENT" /\ word' = <<>> /\ tokens' = tokens
    BY <1>1, <1>7, <2>2 DEF Stay
  <2>4. PICK j \in Pos .. n : text[j] = "\n" /\ \A k \in Pos .. j - 1 : text[k] # "\n"
    BY <1>1, <1>8, LineEnds DEF n
  <2>5. BeginsComment(text, Pos)
    BY <1>13 DEF BeginsComment, d
  <2>6. LexemesFrom(text)[Pos] = LexemesFrom(text)[j]
    BY <1>1, <1>8, <2>4, <2>5, LexemesAtComment DEF n
  <2>7. j \in Pos' .. n /\ \A k \in Pos' .. j - 1 : text[k] # "\n"
    <3>1. j # Pos
      BY <1>13, <2>4 DEF d
    <3> QED BY <1>1, <1>6, <1>10, <2>1, <2>4, <3>1
  <2>8. CommentInv'
    BY <1>1, <1>5, <2>3, <2>4, <2>6, <2>7 DEF CommentInv, Left, n
  <2>9. state' \notin PairFirst
    BY <2>3, StatesApart
  <2>10. StartInv' /\ WordInv' /\ SignInv'
    BY <2>3, <2>9 DEF StartInv, WordInv, SignInv
  <2> QED BY <1>1, <1>5, <1>6, <2>3, <2>8, <2>10 DEF Scanned
<1>14. CASE d \notin Blank \cup {"\r", "/", "$"} \cup Letter \cup Digit \cup PairFirst
  <2>1. c = d /\ Pos' = Pos + 1
    BY <1>10, <1>14
  <2> DEFINE k == IF d \in SingleChar THEN Single[d] ELSE "_ERROR"
             x == [kind |-> k, str |-> Append(<<>>, d)]
  <2>2. mv = Done(k, TRUE)
    BY <1>3, <1>8, <1>14, <2>1, StartMoves
  <2>3. k # "ID" /\ k # "ENDFILE"
    BY SignKinds
  <2> HIDE DEF k
  <2>4. tokens' = Append(tokens, x) /\ state' = "START" /\ word' = <<>>
    <3>1. mv.to = "DONE" /\ mv.kind = k /\ mv.save = TRUE
      BY <2>2 DEF Done
    <3> QED BY <1>1, <1>7, <2>1, <2>3, <3>1
  <2>5. d \in Char
    BY <1>1, <1>8 DEF d, n
  <2>6. Append(<<>>, d) = SubSeq(text, Pos, Pos)
    BY <1>1, <1>8 DEF d, n
  <2>7. LexemeEnd(text, Pos) = Pos
    BY <1>1, <1>6, <1>14, SignEnds DEF d, n
  <2>8. ~BeginsComment(text, Pos)
    BY <1>14 DEF BeginsComment, d
  <2>9. Lexeme(Append(<<>>, d)) = x
    <3> DEFINE w == Append(<<>>, d)
    <3>1. w \in Seq(Char) /\ w # <<>> /\ w[1] = d
      BY <2>5
    <3>2. w # <<"/">>
      BY <1>14
    <3> HIDE DEF w
    <3> QED BY <1>14, <3>1, <3>2, LexemeKinds DEF k, w
  <2>10. LexemesFrom(text)[Pos] = <<x>> \o LexemesFrom(text)[Pos + 1]
    <3>1. LexemesFrom(text)[Pos] =
            <<Lexeme(SubSeq(text, Pos, Pos))>> \o LexemesFrom(text)[Pos + 1]
      BY <1>1, <1>8, <1>14, <2>7, <2>8, LexemesAtLexeme DEF d, n
    <3> QED BY <2>6, <2>9, <3>1
  <2>11. x \in ScannedToken
    <3>1. Append(<<>>, d) \in Seq(Char)
      BY <2>5
    <3> HIDE DEF x
    <3> QED BY <2>9, <3>1 DEF ScannedToken
  <2> HIDE DEF x
  <2>12. Pos + 1 \in 1 .. Len(text) + 1
    BY <1>1, <1>8 DEF n
  <2>13. tokens' \in Seq(ScannedToken) /\ tokens' \o LexemesFrom(text')[Pos + 1] = meant'
    BY <1>1, <1>5, <2>4, <2>10, <2>11, <2>12, TokenRead
  <2> QED BY <1>5, <1>6, <2>1, <2>4, <2>13, ToStart
<1> QED BY <1>5, <1>9, <1>11, <1>12, <1>13, <1>14

\* The end of the file.
LEMMA EndStep ==
  ASSUME Clean(text), Scanned, ScanChar, state = "START", Pos > Len(text)
  PROVE  Scanned' /\ text' = text /\ meant' = meant
<1> DEFINE c == GetNextChar.c
           n == Len(text)
           mv == Move(state, c)
<1>1. /\ Lines(text) /\ LineInv /\ tokens \in Seq(ScannedToken)
      /\ word = <<>> /\ Left(Pos) = meant
      /\ text \in Seq(Char) /\ text # <<>> /\ text[n] = "\n" /\ n \in Nat
  BY DEF Clean, Scanned, StartInv, Lines
<1>2. Len(word) < MaxToken /\ word \in Seq(Char)
  BY <1>1, BufferSizes
<1>3. linePos >= Len(buf) /\ memPoint = n /\ Pos = n + 1
  <2>1. /\ memPoint \in 0 .. n /\ linePos \in 0 .. Len(buf) /\ Len(buf) \in Nat
    BY <1>1 DEF LineInv
  <2> QED BY <1>1, <2>1 DEF Pos
<1>4. c = "EOF"
  BY <1>1, <1>3 DEF GetNextChar
<1>5. mv = Done("ENDFILE", FALSE)
  BY <1>4, StartMoves, Moves
<1>6. /\ mv.to = "DONE" /\ mv.kind = "ENDFILE" /\ mv.save = FALSE /\ mv.unget = FALSE
  BY <1>5 DEF Done
<1> DEFINE saved == IF mv.save THEN Append(word, c) ELSE word
           kind == IF mv.kind = "ID" THEN reservedLookup(saved) ELSE mv.kind
<1>7. /\ text' = text /\ meant' = meant
      /\ buf' = GetNextChar.buf /\ memPoint' = memPoint + GetNextChar.read
      /\ linePos' = GetNextChar.pos - (IF mv.unget THEN 1 ELSE 0)
      /\ tokens' = Append(tokens, [kind |-> kind, str |-> saved])
      /\ state' = IF kind = "ENDFILE" THEN "END" ELSE "START"
      /\ word' = <<>>
  BY <1>1, <1>2, <1>6, Round
<1>8. saved = <<>> /\ kind = "ENDFILE"
  BY <1>1, <1>6
<1> HIDE DEF mv, c, n, saved, kind
<1>9. tokens' = Append(tokens, EndOfFile) /\ state' = "END"
  BY <1>7, <1>8 DEF EndOfFile
<1>10. linePos' = GetNextChar.pos - 0
  BY <1>6, <1>7
<1>11. LineInv'
  BY <1>1, <1>3, <1>7, <1>10, NextChar DEF n
<1>12. EndOfFile \in ScannedToken
  BY DEF ScannedToken
<1>13. tokens' \in Seq(ScannedToken) /\ tokens' = meant'
  <2>1. LexemesFrom(text)[Pos] = <<EndOfFile>>
    BY <1>1, <1>3, LexemesAtEnd DEF n
  <2>2. Append(tokens, EndOfFile) = tokens \o <<EndOfFile>>
    BY <1>1, <1>12, AppendIsConcat
  <2>3. Append(tokens, EndOfFile) \in Seq(ScannedToken)
    BY <1>1, <1>12, AppendProperties
  <2> QED BY <1>1, <1>7, <1>9, <2>1, <2>2, <2>3 DEF Left
<1>14. state' \notin PairFirst
  BY <1>9, StatesApart
<1>15. StartInv' /\ WordInv' /\ SignInv' /\ CommentInv'
  BY <1>9, <1>14 DEF StartInv, WordInv, SignInv, CommentInv
<1> QED BY <1>7, <1>9, <1>11, <1>13, <1>15 DEF Scanned

\* In a comment.
LEMMA CommentStep ==
  ASSUME Clean(text), Scanned, ScanChar, state = "INCOMMENT"
  PROVE  Scanned' /\ text' = text /\ meant' = meant
<1> DEFINE c == GetNextChar.c
           n == Len(text)
           mv == Move(state, c)
<1>1. /\ Lines(text) /\ LineInv /\ tokens \in Seq(ScannedToken) /\ word = <<>>
      /\ text \in Seq(Char) /\ text # <<>> /\ text[n] = "\n" /\ n \in Nat
  BY DEF Clean, Scanned, CommentInv, Lines
<1>2. PICK j \in Pos .. n : /\ text[j] = "\n" /\ \A k \in Pos .. j - 1 : text[k] # "\n"
                            /\ Left(j) = meant
  BY DEF Scanned, CommentInv
<1>3. Len(word) < MaxToken /\ word \in Seq(Char)
  BY <1>1, BufferSizes
<1>4. mv = Stay(IF c = "\n" THEN "START" ELSE "INCOMMENT", FALSE)
  BY Moves
<1>5. /\ mv.to = (IF c = "\n" THEN "START" ELSE "INCOMMENT") /\ mv.to # "DONE"
      /\ mv.save = FALSE /\ mv.unget = FALSE
  BY <1>4 DEF Stay
<1>6. /\ text' = text /\ meant' = meant
      /\ buf' = GetNextChar.buf /\ memPoint' = memPoint + GetNextChar.read
      /\ linePos' = GetNextChar.pos - 0
      /\ state' = mv.to /\ word' = <<>> /\ tokens' = tokens
  BY <1>1, <1>3, <1>5, Round
<1>7. Pos \in 1 .. n + 1
  BY <1>1, <1>6, NextChar
<1>8. j \in Int /\ Pos <= n /\ Pos <= j /\ j <= n
  BY <1>1, <1>2, <1>7
<1>9. /\ Pos < n /\ text[Pos] # "\n" /\ c = (IF text[Pos] = "\r" THEN "\n" ELSE text[Pos])
      /\ LineInv' /\ Pos' = IF text[Pos] = "\r" THEN Pos + 2 ELSE Pos + 1
  <2> HIDE DEF n, mv
  <2> QED BY <1>1, <1>6, <1>8, NextChar DEF n
<1> HIDE DEF mv, c, n
<1>10. j # Pos
  BY <1>2, <1>9
<1>11. CASE text[Pos] = "\r"
  <2>1. state' = "START" /\ Pos' = Pos + 2
    BY <1>5, <1>6, <1>9, <1>11
  <2>2. Pos + 1 \in 1 .. n /\ text[Pos + 1] = "\n"
    <3>1. Pos + 1 \in 1 .. n /\ Pos + 1 > 1 /\ (Pos + 1) - 1 = Pos
      BY <1>1, <1>7, <1>9
    <3> QED BY <1>1, <1>11, <3>1 DEF Lines, n
  <2>3. j = Pos + 1
    <3>1. ~(j > Pos + 1)
      <4> SUFFICES ASSUME j > Pos + 1 PROVE FALSE
        OBVIOUS
      <4>1. Pos + 1 \in Pos .. j - 1
        BY <1>7, <1>8
      <4> QED BY <1>2, <2>2, <4>1
    <3> QED BY <1>7, <1>8, <1>10, <3>1
  <2>4. LexemesFrom(text)[j] = LexemesFrom(text)[j + 1] /\ j + 1 = Pos'
    <3>1. j \in 1 .. n /\ text[j] \in Blank
      BY <2>2, <2>3, BlankApart
    <3>2. j + 1 = Pos'
      BY <1>7, <2>1, <2>3
    <3> QED BY <1>1, <3>1, <3>2, LexemesAtBlank DEF n
  <2>5. tokens' \o LexemesFrom(text')[Pos'] = meant'
    BY <1>2, <1>6, <2>4 DEF Left
  <2> QED BY <1>1, <1>6, <1>9, <2>1, <2>5, ToStart
<1>12. CASE text[Pos] # "\r"
  <2>1. state' = "INCOMMENT" /\ Pos' = Pos + 1
    BY <1>5, <1>6, <1>9, <1>12
  <2>2. j \in Pos' .. n /\ \A k \in Pos' .. j - 1 : text[k] # "\n"
    <3>1. j \in Pos' .. n /\ \A k \in Pos' .. j - 1 : k \in Pos .. j - 1
      BY <1>1, <1>7, <1>8, <1>10, <2>1
    <3> QED BY <1>2, <3>1
  <2>3. CommentInv'
    BY <1>2, <1>6, <2>2 DEF CommentInv, Left, n
  <2>4. state' \notin PairFirst
    BY <2>1, StatesApart
  <2>5. StartInv' /\ WordInv' /\ SignInv'
    BY <2>1, <2>4 DEF StartInv, WordInv, SignInv
  <2> QED BY <1>1, <1>6, <1>9, <2>1, <2>3, <2>5 DEF Scanned
<1> QED BY <1>6, <1>11, <1>12

\* In a word.  The word so far is part of a lexeme of the file, so it fits.
LEMMA WordStep ==
  ASSUME Clean(text), Scanned, ScanChar, state \in {"INID", "INNUM"},
         meant = LexemesFrom(text)[1], \A x \in ToSet(meant) : Len(x.str) < MaxToken
  PROVE  Scanned' /\ text' = text /\ meant' = meant
<1> DEFINE c == GetNextChar.c
           n == Len(text)
           d == text[Pos]
           mv == Move(state, c)
<1>1. /\ Lines(text) /\ LineInv /\ tokens \in Seq(ScannedToken)
      /\ text \in Seq(Char) /\ text # <<>> /\ text[n] = "\n" /\ n \in Nat
      /\ Pos <= n
  BY DEF Clean, Scanned, WordInv, Lines
<1>2. PICK i \in 1 .. Pos - 1 :
        /\ text[i] \in IF state = "INID" THEN Letter ELSE Digit
        /\ \A k \in i .. Pos - 1 : text[k] \in WordRest(text[i])
        /\ word = SubSeq(text, i, Pos - 1) /\ Left(i) = meant
  BY DEF Scanned, WordInv
<1>3. /\ text[i] \in Letter \cup Digit
      /\ state = "INID" => text[i] \in Letter /\ WordRest(text[i]) = Letter \cup Digit \cup {"."}
      /\ state = "INNUM" =>
           /\ text[i] \in Digit /\ text[i] \notin Letter
           /\ WordRest(text[i]) = Digit \cup {"."}
  BY <1>2, OthersApart DEF WordRest
<1>4. Pos \in 1 .. n
  <2>1. Pos \in Int
    BY <1>1 DEF Pos, LineInv
  <2> QED BY <1>1, <1>2, <2>1
<1>5. i \in 1 .. n /\ Pos - 1 \in i .. n /\ i <= Pos - 1
  BY <1>1, <1>2, <1>4
<1>6. /\ word \in Seq(Char) /\ Len(word) = Pos - i /\ word # <<>> /\ word[1] = text[i]
  <2> DEFINE w == SubSeq(text, i, Pos - 1)
  <2>1. w \in Seq(Char) /\ Len(w) = Pos - i
    BY <1>1, <1>4, <1>5
  <2>2. w[1] = text[i]
    BY <1>1, <1>4, <1>5
  <2>3. Len(w) # 0
    <3> HIDE DEF w
    <3> QED BY <1>4, <1>5, <2>1
  <2> HIDE DEF w
  <2>4. w # <<>>
    BY <2>1, <2>3
  <2> QED BY <1>2, <2>1, <2>2, <2>4 DEF w
<1>7. text[i] \notin Blank \cup {"\r"} /\ ~BeginsComment(text, i)
  BY <1>3, BlankApart, OthersApart DEF BeginsComment
<1> DEFINE e == LexemeEnd(text, i)
<1>8. e \in i .. n /\ e >= Pos - 1
  BY <1>1, <1>2, <1>3, <1>5, LexemeEnds, WordEnds
<1>9. LexemesFrom(text)[i] = <<Lexeme(SubSeq(text, i, e))>> \o LexemesFrom(text)[e + 1]
  BY <1>1, <1>5, <1>7, LexemesAtLexeme
<1>10. Len(word) < MaxToken
  <2> DEFINE w == SubSeq(text, i, e)
  <2> HIDE DEF e
  <2>1. w \in Seq(Char) /\ Len(w) = e - i + 1
    BY <1>1, <1>5, <1>8
  <2>2. w[1] = text[i]
    BY <1>1, <1>5, <1>8
  <2>3. w # <<>>
    <3>1. Len(w) # 0
      <4> HIDE DEF w
      <4> QED BY <1>5, <1>8, <2>1
    <3> HIDE DEF w
    <3> QED BY <2>1, <3>1
  <2> HIDE DEF w
  <2>4. Lexeme(w).str = w
    BY <1>3, <2>1, <2>2, <2>3, LexemeKinds
  <2> DEFINE r == LexemesFrom(text)[e + 1]
             s == <<Lexeme(w)>> \o r
  <2>5. Lexeme(w) \in ScannedToken
    BY <2>1 DEF ScannedToken
  <2>6. r \in Seq(ScannedToken)
    <3>1. e + 1 \in 1 .. Len(text) + 1
      BY <1>1, <1>5, <1>8
    <3> QED BY <1>1, <3>1, LexemesRecur
  <2> HIDE DEF r
  <2>7. s \in Seq(ScannedToken) /\ Len(s) = 1 + Len(r) /\ s[1] = Lexeme(w)
    <3> DEFINE x == Lexeme(w)
    <3>1. x \in ScannedToken
      BY <2>5
    <3> HIDE DEF x
    <3>2. <<x>> \in Seq(ScannedToken) /\ Len(<<x>>) = 1 /\ <<x>>[1] = x
      BY <3>1
    <3> DEFINE y == <<x>>
    <3> HIDE DEF y
    <3>3. y \in Seq(ScannedToken) /\ Len(y) = 1 /\ y[1] = x
      BY <3>2 DEF y
    <3>4. /\ y \o r \in Seq(ScannedToken) /\ Len(y \o r) = 1 + Len(r)
          /\ \A k \in 1 .. 1 + Len(r) :
               (y \o r)[k] = IF k <= 1 THEN y[k] ELSE r[k - 1]
      BY <2>6, <3>3, ConcatProperties
    <3>5. 1 \in 1 .. 1 + Len(r)
      BY <2>6
    <3>6. (y \o r)[1] = x
      BY <3>3, <3>4, <3>5
    <3> QED BY <3>4, <3>6 DEF x, y
  <2>8. meant = tokens \o s
    BY <1>2, <1>9 DEF Left, w, r
  <2> HIDE DEF s
  <2> DEFINE q == Len(tokens) + 1
  <2>9. q \in 1 .. Len(meant) /\ meant[q] = Lexeme(w)
    <3>1. /\ tokens \o s \in Seq(ScannedToken) /\ Len(tokens \o s) = Len(tokens) + Len(s)
          /\ \A k \in 1 .. Len(tokens) + Len(s) :
               (tokens \o s)[k] = IF k <= Len(tokens) THEN tokens[k] ELSE s[k - Len(tokens)]
      <4>1. tokens \in Seq(ScannedToken) /\ s \in Seq(ScannedToken)
        BY <1>1, <2>7
      <4> QED BY <4>1, ConcatProperties
    <3>2. Len(tokens) \in Nat /\ Len(r) \in Nat
      BY <1>1, <2>6
    <3>3. q \in 1 .. Len(tokens) + Len(s) /\ ~(q <= Len(tokens)) /\ q - Len(tokens) = 1
      BY <2>7, <3>2
    <3> HIDE DEF q
    <3> QED BY <2>7, <2>8, <3>1, <3>3
  <2>10. Lexeme(w) \in ToSet(meant)
    <3>1. meant \in Seq(ScannedToken)
      <4>1. 1 \in 1 .. Len(text) + 1
        BY <1>1
      <4> QED BY <1>1, <4>1, LexemesRecur
    <3> HIDE DEF q
    <3>2. q \in DOMAIN meant
      BY <2>9, <3>1
    <3> QED BY <2>9, <3>2 DEF ToSet
  <2>11. Len(w) < MaxToken
    BY <2>4, <2>10
  <2> QED BY <1>4, <1>5, <1>6, <1>8, <2>1, <2>11, BufferSizes
<1> HIDE DEF e
<1>11. mv = IF c \in WordRest(text[i]) THEN Stay(state, TRUE)
            ELSE Before(IF state = "INID" THEN "ID" ELSE "NUM")
  BY <1>3, Moves
<1> DEFINE saved == IF mv.save THEN Append(word, c) ELSE word
           kind == IF mv.kind = "ID" THEN reservedLookup(saved) ELSE mv.kind
           back == IF mv.unget THEN 1 ELSE 0
<1>12. /\ text' = text /\ meant' = meant
       /\ buf' = GetNextChar.buf /\ memPoint' = memPoint + GetNextChar.read
       /\ linePos' = GetNextChar.pos - back
       /\ mv.to # "DONE" => state' = mv.to /\ word' = saved /\ tokens' = tokens
       /\ mv.to = "DONE" =>
            /\ tokens' = Append(tokens, [kind |-> kind, str |-> saved])
            /\ state' = IF kind = "ENDFILE" THEN "END" ELSE "START"
            /\ word' = <<>>
  BY <1>1, <1>6, <1>10, Round
<1>13. back \in {0, 1}
  OBVIOUS
<1> HIDE DEF mv, back
<1>14. /\ Pos < n /\ d # "\n" /\ c = (IF d = "\r" THEN "\n" ELSE d)
       /\ LineInv' /\ Pos' = IF back = 1 THEN Pos ELSE IF d = "\r" THEN Pos + 2 ELSE Pos + 1
  BY <1>1, <1>12, <1>13, NextChar
<1>15. c \in WordRest(text[i]) <=> d \in WordRest(text[i])
  <2>1. "\n" \notin WordRest(text[i]) /\ "\r" \notin WordRest(text[i])
    BY OthersApart DEF WordRest
  <2> QED BY <1>14, <2>1
<1> HIDE DEF c, d, n
<1>16. CASE d \in WordRest(text[i])
  <2>1. c = d /\ d # "\r"
    <3>1. "\r" \notin WordRest(text[i])
      BY OthersApart DEF WordRest
    <3> QED BY <1>14, <1>16, <3>1
  <2>2. mv = Stay(state, TRUE)
    BY <1>11, <1>15, <1>16
  <2>3. mv.to = state /\ mv.save = TRUE /\ mv.unget = FALSE
    BY <2>2 DEF Stay
  <2>4. state' = state /\ word' = Append(word, d) /\ tokens' = tokens
    BY <1>12, <2>1, <2>3
  <2>5. Pos' = Pos + 1
    BY <1>14, <2>1, <2>3 DEF back
  <2>6. word' = SubSeq(text, i, Pos' - 1)
    <3>1. Pos' - 1 = Pos
      BY <1>4, <2>5
    <3>2. Append(SubSeq(text, i, Pos - 1), text[Pos]) = SubSeq(text, i, Pos)
      BY <1>1, <1>4, <1>5 DEF n
    <3> QED BY <1>2, <2>4, <3>1, <3>2 DEF d
  <2>7. i \in 1 .. Pos' - 1 /\ Pos' <= n /\ Pos' - 1 = Pos
    BY <1>1, <1>4, <1>5, <1>14, <2>5
  <2>8. \A k \in i .. Pos' - 1 : text[k] \in WordRest(text[i])
    <3> SUFFICES ASSUME NEW k \in i .. Pos PROVE text[k] \in WordRest(text[i])
      BY <2>7
    <3>1. k = Pos \/ k \in i .. Pos - 1
      BY <1>4, <1>5
    <3> QED BY <1>2, <1>16, <3>1 DEF d
  <2>9. tokens' \o LexemesFrom(text')[i] = meant'
    BY <1>2, <1>12, <2>4 DEF Left
  <2>10. WordInv'
    BY <1>2, <1>12, <2>4, <2>6, <2>7, <2>8, <2>9 DEF WordInv, Left, n
  <2>11. state' \in {"INID", "INNUM"} /\ state' \notin PairFirst
    BY <2>4, StatesApart
  <2>12. StartInv' /\ SignInv' /\ CommentInv'
    BY <2>11 DEF StartInv, SignInv, CommentInv
  <2> QED BY <1>1, <1>12, <1>14, <2>4, <2>10, <2>11, <2>12 DEF Scanned
<1>17. CASE d \notin WordRest(text[i])
  <2>1. mv = Before(IF state = "INID" THEN "ID" ELSE "NUM")
    BY <1>11, <1>15, <1>17
  <2>2. /\ mv.to = "DONE" /\ mv.save = FALSE /\ mv.unget = TRUE
        /\ mv.kind = IF state = "INID" THEN "ID" ELSE "NUM"
    BY <2>1 DEF Before
  <2>3. saved = word
    BY <2>2
  <2>4. kind = (IF state = "INID" THEN reservedLookup(word) ELSE "NUM")
    BY <2>2, <2>3
  <2>5. [kind |-> kind, str |-> saved] = Lexeme(word)
    <3> HIDE DEF kind, saved
    <3> QED BY <1>3, <1>6, <2>3, <2>4, LexemeKinds
  <2>6. kind # "ENDFILE"
    <3>1. reservedLookup(word) # "ENDFILE"
      BY ReservedKinds DEF reservedLookup
    <3> HIDE DEF kind
    <3> QED BY <2>4, <3>1
  <2> HIDE DEF kind, saved
  <2>7. tokens' = Append(tokens, Lexeme(word)) /\ state' = "START" /\ word' = <<>>
    BY <1>12, <2>2, <2>5, <2>6
  <2>8. Pos' = Pos
    BY <1>14, <2>2 DEF back
  <2>9. e = Pos - 1
    <3>1. Pos - 1 < n /\ (Pos - 1) + 1 = Pos
      BY <1>1, <1>4, <1>14
    <3> QED BY <1>1, <1>2, <1>3, <1>5, <1>17, <3>1, WordEnds DEF e, d, n
  <2>10. LexemesFrom(text)[i] = <<Lexeme(word)>> \o LexemesFrom(text)[Pos]
    <3>1. e + 1 = Pos
      BY <1>4, <2>9
    <3> QED BY <1>2, <1>9, <2>9, <3>1
  <2>11. Lexeme(word) \in ScannedToken
    BY <1>6 DEF ScannedToken
  <2>12. Pos \in 1 .. Len(text) + 1
    BY <1>1, <1>4 DEF n
  <2>13. tokens' \in Seq(ScannedToken) /\ tokens' \o LexemesFrom(text')[Pos] = meant'
    BY <1>1, <1>2, <1>12, <2>7, <2>10, <2>11, <2>12, TokenRead
  <2> QED BY <1>12, <1>14, <2>7, <2>8, <2>13, ToStart
<1> QED BY <1>12, <1>16, <1>17

\* After the first character of a pair.
LEMMA PairStep ==
  ASSUME Clean(text), Scanned, ScanChar, state \in PairFirst
  PROVE  Scanned' /\ text' = text /\ meant' = meant
<1> DEFINE c == GetNextChar.c
           n == Len(text)
           i == Pos - 1
           d == text[Pos]
           p == Pair[state]
           mv == Move(state, c)
<1>1. /\ Lines(text) /\ LineInv /\ tokens \in Seq(ScannedToken) /\ word = <<>>
      /\ text \in Seq(Char) /\ text # <<>> /\ text[n] = "\n" /\ n \in Nat
  BY DEF Clean, Scanned, SignInv, Lines
<1>2. Pos \in 2 .. n /\ text[i] = state /\ Left(i) = meant
  <2>1. state # "INDIV"
    BY StatesApart
  <2> QED BY <2>1 DEF Scanned, SignInv
<1>3. Len(word) < MaxToken /\ word \in Seq(Char)
  BY <1>1, BufferSizes
<1>4. mv = IF c = p[1] THEN Done(p[2], FALSE) ELSE Before(p[3])
  BY Moves DEF InPair
<1> DEFINE kind == IF c = p[1] THEN p[2] ELSE p[3]
           back == IF c = p[1] THEN 0 ELSE 1
           x == [kind |-> kind, str |-> <<>>]
<1>5. /\ mv.to = "DONE" /\ mv.save = FALSE /\ mv.kind = kind
      /\ (IF mv.unget THEN 1 ELSE 0) = back
  <2> HIDE DEF mv, p, c
  <2> QED BY <1>4 DEF Done, Before
<1>6. kind # "ID" /\ kind # "ENDFILE" /\ p[1] \notin {"\n", "\r"}
  BY SignKinds
<1> HIDE DEF mv, c, p, kind, back
<1>7. /\ text' = text /\ meant' = meant
      /\ buf' = GetNextChar.buf /\ memPoint' = memPoint + GetNextChar.read
      /\ linePos' = GetNextChar.pos - back
      /\ tokens' = Append(tokens, x) /\ state' = "START" /\ word' = <<>>
  BY <1>1, <1>3, <1>5, <1>6, Round DEF mv, c
<1>8. back \in {0, 1}
  BY DEF back
<1>9. /\ Pos < n /\ d # "\n" /\ c = (IF d = "\r" THEN "\n" ELSE d)
      /\ LineInv' /\ Pos' = IF back = 1 THEN Pos ELSE IF d = "\r" THEN Pos + 2 ELSE Pos + 1
  <2>1. Pos <= Len(text)
    BY <1>1, <1>2
  <2> QED BY <1>1, <1>7, <1>8, <2>1, NextChar DEF c
<1>10. c = p[1] <=> d = p[1]
  BY <1>6, <1>9
<1> DEFINE e == IF d = p[1] THEN Pos ELSE i
           w == SubSeq(text, i, e)
<1>11. i \in 1 .. n - 1 /\ i + 1 = Pos /\ i \in 1 .. n
  BY <1>1, <1>2
<1> HIDE DEF i, d, e
<1>12. LexemeEnd(text, i) = e
  <2>1. text[i] \notin Letter \cup Digit
    BY <1>2, OthersApart
  <2> QED BY <1>1, <1>2, <1>11, <2>1, SignEnds DEF d, e, p, n
<1>13. text[i] \notin Blank \cup {"\r"} /\ ~BeginsComment(text, i)
  BY <1>2, OthersApart, BlankApart DEF BeginsComment
<1>14. e \in {i, i + 1} /\ e \in i .. n /\ e + 1 \in 1 .. n + 1
  BY <1>1, <1>9, <1>11 DEF e
<1>15. w \in Seq(Char) /\ Len(w) = e - i + 1 /\ w[1] = state
  <2>1. w \in Seq(Char) /\ Len(w) = e - i + 1
    BY <1>1, <1>11, <1>14 DEF n
  <2>2. w[1] = text[i]
    BY <1>1, <1>11, <1>14 DEF n
  <2> QED BY <1>2, <2>1, <2>2
<1> HIDE DEF w
<1>16. Lexeme(w) = x
  <2>1. Len(w) = IF d = p[1] THEN 2 ELSE 1
    BY <1>11, <1>15 DEF e
  <2>2. w # <<>>
    BY <1>15, <2>1
  <2>3. Lexeme(w) = [kind |-> Pair[state][IF Len(w) = 2 THEN 2 ELSE 3], str |-> <<>>]
    BY <1>15, <2>2, LexemeKinds
  <2>4. Pair[state][IF Len(w) = 2 THEN 2 ELSE 3] = kind
    BY <1>10, <2>1 DEF kind, p
  <2> QED BY <2>3, <2>4
<1>17. LexemesFrom(text)[i] = <<x>> \o LexemesFrom(text)[e + 1]
  BY <1>1, <1>11, <1>12, <1>13, <1>16, LexemesAtLexeme DEF n, w
<1>18. x \in ScannedToken
  BY <1>15, <1>16 DEF ScannedToken
<1>19. Pos' = e + 1
  <2>1. d = p[1] => d # "\r" /\ back = 0
    BY <1>6, <1>10 DEF back
  <2>2. d # p[1] => back = 1
    BY <1>10 DEF back
  <2> QED BY <1>9, <1>11, <2>1, <2>2 DEF e
<1> HIDE DEF x
<1>20. tokens' \in Seq(ScannedToken) /\ tokens' \o LexemesFrom(text')[e + 1] = meant'
  BY <1>1, <1>2, <1>7, <1>14, <1>17, <1>18, TokenRead DEF i, n
<1> QED BY <1>7, <1>9, <1>19, <1>20, ToStart

\* After a slash: a comment, for a plain file has none of the form of C, or DIV.
LEMMA SlashStep ==
  ASSUME Clean(text), Scanned, ScanChar, state = "INDIV"
  PROVE  Scanned' /\ text' = text /\ meant' = meant
<1> DEFINE c == GetNextChar.c
           n == Len(text)
           i == Pos - 1
           d == text[Pos]
           mv == Move(state, c)
           back == IF mv.unget THEN 1 ELSE 0
<1>1. /\ Lines(text) /\ LineInv /\ tokens \in Seq(ScannedToken) /\ word = <<>>
      /\ text \in Seq(Char) /\ text # <<>> /\ text[n] = "\n" /\ n \in Nat
  BY DEF Clean, Scanned, SignInv, Lines
<1>2. Pos \in 2 .. n /\ text[i] = "/" /\ Left(i) = meant
  BY DEF Scanned, SignInv
<1>3. Len(word) < MaxToken /\ word \in Seq(Char)
  BY <1>1, BufferSizes
<1>4. mv = AfterSlash(c)
  BY Moves
<1> DEFINE saved == IF mv.save THEN Append(word, c) ELSE word
           kind == IF mv.kind = "ID" THEN reservedLookup(saved) ELSE mv.kind
<1>5. /\ text' = text /\ meant' = meant
      /\ buf' = GetNextChar.buf /\ memPoint' = memPoint + GetNextChar.read
      /\ linePos' = GetNextChar.pos - back
      /\ mv.to # "DONE" => state' = mv.to /\ word' = saved /\ tokens' = tokens
      /\ mv.to = "DONE" =>
           /\ tokens' = Append(tokens, [kind |-> kind, str |-> saved])
           /\ state' = IF kind = "ENDFILE" THEN "END" ELSE "START"
           /\ word' = <<>>
  BY <1>1, <1>3, Round
<1>6. back \in {0, 1}
  OBVIOUS
<1> HIDE DEF mv, back, saved, kind
<1>7. /\ Pos < n /\ d # "\n" /\ c = (IF d = "\r" THEN "\n" ELSE d)
      /\ LineInv' /\ Pos' = IF back = 1 THEN Pos ELSE IF d = "\r" THEN Pos + 2 ELSE Pos + 1
  <2>1. Pos <= Len(text)
    BY <1>1, <1>2
  <2> QED BY <1>1, <1>5, <1>6, <2>1, NextChar
<1>8. i \in 1 .. n - 1 /\ i + 1 = Pos /\ i \in 1 .. n /\ Pos \in 1 .. n
  BY <1>1, <1>2
<1>9. d # "*"
  <2>1. text[i + 1] # "*"
    BY <1>2, <1>8 DEF Clean
  <2> QED BY <1>8, <2>1
<1> HIDE DEF c, d, n, i
<1>10. CASE d = "/"
  <2>1. mv = Stay("INCOMMENT", FALSE)
    BY <1>4, <1>7, <1>10 DEF AfterSlash
  <2>2. mv.to = "INCOMMENT" /\ mv.save = FALSE /\ mv.unget = FALSE
    BY <2>1 DEF Stay
  <2>3. state' = "INCOMMENT" /\ word' = <<>> /\ tokens' = tokens
    BY <1>1, <1>5, <2>2 DEF saved
  <2>4. Pos' = Pos + 1
    BY <1>7, <1>10, <2>2 DEF back
  <2>5. BeginsComment(text, i)
    BY <1>1, <1>2, <1>7, <1>8, <1>10 DEF BeginsComment, d, n
  <2>6. PICK j \in i .. n : text[j] = "\n" /\ \A k \in i .. j - 1 : text[k] # "\n"
    BY <1>1, <1>8, LineEnds DEF n
  <2>7. j \in Pos + 1 .. n /\ \A k \in Pos + 1 .. j - 1 : k \in i .. j - 1
    <3>1. j # i /\ j # Pos
      BY <1>2, <1>10, <2>6 DEF d
    <3> QED BY <1>1, <1>8, <2>6, <3>1
  <2>8. LexemesFrom(text)[i] = LexemesFrom(text)[j]
    BY <1>1, <1>8, <2>5, <2>6, LexemesAtComment DEF n
  <2>9. CommentInv'
    <3>1. j \in Pos' .. n /\ \A k \in Pos' .. j - 1 : text[k] # "\n"
      BY <2>4, <2>6, <2>7
    <3>2. tokens' \o LexemesFrom(text')[j] = meant'
      BY <1>2, <1>5, <2>3, <2>8 DEF Left
    <3> QED BY <1>5, <2>3, <2>6, <3>1, <3>2 DEF CommentInv, Left, n
  <2>10. state' \notin PairFirst
    BY <2>3, StatesApart
  <2>11. StartInv' /\ WordInv' /\ SignInv'
    BY <2>3, <2>10 DEF StartInv, WordInv, SignInv
  <2> QED BY <1>1, <1>5, <1>7, <2>3, <2>9, <2>11 DEF Scanned
<1>11. CASE d # "/"
  <2>1. c # "/" /\ c # "*"
    BY <1>7, <1>9, <1>11
  <2>2. mv = Before("DIV")
    BY <1>4, <2>1 DEF AfterSlash
  <2>3. mv.to = "DONE" /\ mv.save = FALSE /\ mv.unget = TRUE /\ mv.kind = "DIV"
    BY <2>2 DEF Before
  <2>4. saved = <<>> /\ kind = "DIV"
    BY <1>1, <2>3 DEF saved, kind
  <2> DEFINE x == [kind |-> "DIV", str |-> <<>>]
             w == SubSeq(text, i, i)
  <2>5. tokens' = Append(tokens, x) /\ state' = "START" /\ word' = <<>>
    BY <1>5, <2>3, <2>4
  <2>6. Pos' = Pos
    BY <1>7, <2>3 DEF back
  <2>7. w \in Seq(Char) /\ w = <<"/">>
    <3>1. w \in Seq(Char) /\ Len(w) = 1
      BY <1>1, <1>8 DEF n
    <3>2. w[1] = text[i]
      BY <1>1, <1>8 DEF n
    <3> HIDE DEF w
    <3>3. w = <<w[1]>>
      BY <3>1
    <3> QED BY <1>2, <3>1, <3>2, <3>3
  <2> HIDE DEF w
  <2>8. Lexeme(w) = x
    <3>1. w # <<>>
      BY <2>7
    <3> QED BY <2>7, <3>1, LexemeKinds
  <2>9. LexemeEnd(text, i) = i
    <3>1. text[i] \notin Letter \cup Digit /\ text[i] \notin PairFirst
      BY <1>2, OthersApart
    <3> QED BY <1>1, <1>8, <3>1, SignEnds DEF n
  <2>10. text[i] \notin Blank \cup {"\r"} /\ ~BeginsComment(text, i)
    <3>1. text[i + 1] # "/"
      BY <1>8, <1>11 DEF d
    <3> QED BY <1>2, <3>1, BlankApart DEF BeginsComment
  <2>11. LexemesFrom(text)[i] = <<x>> \o LexemesFrom(text)[Pos]
    BY <1>1, <1>8, <2>8, <2>9, <2>10, LexemesAtLexeme DEF n, w
  <2>12. x \in ScannedToken
    BY <2>7, <2>8 DEF ScannedToken
  <2> HIDE DEF x
  <2>13. Pos \in 1 .. Len(text) + 1
    BY <1>1, <1>8 DEF n
  <2>14. tokens' \in Seq(ScannedToken) /\ tokens' \o LexemesFrom(text')[Pos] = meant'
    BY <1>1, <1>2, <1>5, <2>5, <2>11, <2>12, <2>13, TokenRead
  <2> QED BY <1>5, <1>7, <2>5, <2>6, <2>14, ToStart
<1> QED BY <1>5, <1>10, <1>11

-----------------------------------------------------------------------------
(* The specification.                                                      *)

\* What a plain file is.
LEMMA PlainClean ==
  ASSUME NEW t \in Seq(Char), Plain(t)
  PROVE  Clean(t) /\ \A x \in ToSet(Lexemes(t)) : Len(x.str) < MaxToken
<1>1. DOMAIN t = 1 .. Len(t) /\ Last(t) = t[Len(t)]
  BY DEF Last
<1>2. Lines(t)
  BY <1>1 DEF Plain, Lines
<1>3. \A i \in 1 .. Len(t) : /\ t[i] \notin {Quote, "EOF"}
                             /\ t[i] = "/" => t[i + 1] # "*"
  BY <1>1 DEF Plain
<1> QED BY <1>2, <1>3 DEF Plain, Clean

\* A list of tokens is a prefix of what it is made into.
LEMMA PrefixOfJoined ==
  ASSUME NEW a \in Seq(ScannedToken), NEW b \in Seq(ScannedToken)
  PROVE  IsPrefix(a, a \o b)
<1> DEFINE t == a \o b
           r == SubSeq(t, 1, Len(a))
           q == SubSeq(a, 1, Len(a))
<1>1. /\ t \in Seq(ScannedToken) /\ Len(t) = Len(a) + Len(b)
      /\ \A k \in 1 .. Len(a) + Len(b) : t[k] = IF k <= Len(a) THEN a[k] ELSE b[k - Len(a)]
  BY ConcatProperties
<1>2. Len(a) \in Nat /\ Len(b) \in Nat
  OBVIOUS
<1> HIDE DEF t
<1>3. Len(a) <= Len(t)
  BY <1>1, <1>2
<1>4. \A k \in 1 .. Len(a) : t[k] = a[k]
  <2> SUFFICES ASSUME NEW k \in 1 .. Len(a) PROVE t[k] = a[k]
    OBVIOUS
  <2>1. k \in 1 .. Len(a) + Len(b) /\ k <= Len(a)
    BY <1>2
  <2> QED BY <1>1, <2>1
<1>5. /\ r \in Seq(ScannedToken) /\ Len(r) = Len(a)
      /\ \A k \in 1 .. Len(a) : r[k] = t[k]
  BY <1>1, <1>2, <1>3
<1>6. /\ q \in Seq(ScannedToken) /\ Len(q) = Len(a)
      /\ \A k \in 1 .. Len(a) : q[k] = a[k]
  BY <1>2
<1> HIDE DEF r, q
<1>7. r = q
  BY <1>4, <1>5, <1>6, SeqEqual
<1> QED BY <1>3, <1>7 DEF IsPrefix, r, q, t

\* Nothing is read at first.
LEMMA ScanInitInv == ScanInit => ScanInv
<1> SUFFICES ASSUME ScanInit PROVE ScanInv
  OBVIOUS
<1>1. text \in Seq(Char)
  <2>1. text \in Seq(STRING)
    BY FilesAreText DEF ScanInit
  <2>2. STRING \subseteq Char
    BY DEF Char
  <2>3. Len(text) \in Nat /\ text \in [1 .. Len(text) -> Char]
    <3> DEFINE S == STRING
    <3>1. text \in Seq(S) /\ S \subseteq Char
      BY <2>1, <2>2
    <3> HIDE DEF S
    <3>2. /\ Len(text) \in Nat /\ DOMAIN text = 1 .. Len(text)
          /\ text = [k \in 1 .. Len(text) |-> text[k]]
          /\ \A k \in 1 .. Len(text) : text[k] \in S
      BY <3>1
    <3>3. \A k \in 1 .. Len(text) : text[k] \in Char
      BY <3>1, <3>2
    <3> QED BY <3>2, <3>3
  <2> QED BY <2>3
<1>2. CASE Plain(text)
  <2>1. Clean(text) /\ meant = Lexemes(text)
    BY <1>1, <1>2, PlainClean DEF ScanInit
  <2>2. text # <<>> /\ text[Len(text)] = "\n" /\ Len(text) \in Nat
    BY <1>1, <2>1 DEF Clean, Lines
  <2>3. Len(buf) = 0 /\ buf \in Seq(Char)
    BY DEF ScanInit
  <2>4. LineInv /\ Pos = 1
    BY <2>2, <2>3 DEF ScanInit, LineInv, Pos
  <2>5. tokens \in Seq(ScannedToken) /\ tokens = <<>>
    BY DEF ScanInit
  <2>6. Left(Pos) = meant
    <3>1. 1 \in 1 .. Len(text) + 1
      BY <2>2
    <3>2. LexemesFrom(text)[1] \in Seq(ScannedToken)
      BY <1>1, <2>2, <3>1, LexemesRecur
    <3>3. <<>> \o LexemesFrom(text)[1] = LexemesFrom(text)[1]
      BY <3>2, ConcatEmptySeq
    <3> QED BY <2>1, <2>4, <2>5, <3>3 DEF Left, Lexemes
  <2>7. state = "START" /\ word = <<>> /\ state \notin PairFirst
    BY StatesApart DEF ScanInit
  <2>8. StartInv /\ WordInv /\ SignInv /\ CommentInv
    BY <2>6, <2>7 DEF StartInv, WordInv, SignInv, CommentInv
  <2>9. Scanned
    BY <2>4, <2>5, <2>7, <2>8 DEF Scanned
  <2> QED BY <1>1, <1>2, <2>1, <2>9 DEF ScanInv
<1>3. CASE ~Plain(text)
  BY <1>1, <1>3 DEF ScanInit, ScanInv
<1> QED BY <1>2, <1>3

\* A round of the loop keeps the invariant.
LEMMA ScanCharInv == ScanInv /\ ScanChar => ScanInv'
<1> SUFFICES ASSUME ScanInv, ScanChar PROVE ScanInv'
  OBVIOUS
<1>1. text' = text /\ meant' = meant
  BY DEF ScanChar
<1>2. text \in Seq(Char)
  BY DEF ScanInv
<1>3. CASE ~Plain(text)
  BY <1>1, <1>3 DEF ScanInv
<1>4. CASE Plain(text)
  <2>1. Scanned /\ meant = Lexemes(text)
    BY <1>4 DEF ScanInv
  <2>2. Clean(text) /\ \A x \in ToSet(meant) : Len(x.str) < MaxToken
    BY <1>2, <1>4, <2>1, PlainClean
  <2>3. meant = LexemesFrom(text)[1]
    BY <2>1 DEF Lexemes
  <2>4. \/ state = "START" \/ state \in {"INID", "INNUM"} \/ state = "INDIV"
        \/ state = "INCOMMENT" \/ state \in PairFirst
    BY <2>1 DEF Scanned, ScanChar
  <2>5. Scanned'
    <3>1. CASE state = "START"
      <4>1. Pos \in Int /\ Len(text) \in Int
        BY <1>2, <2>1 DEF Scanned, LineInv, Pos
      <4>2. Pos <= Len(text) \/ Pos > Len(text)
        BY <4>1
      <4> QED BY <2>1, <2>2, <3>1, <4>2, StartStep, EndStep
    <3>2. CASE state \in {"INID", "INNUM"}
      BY <2>1, <2>2, <2>3, <3>2, WordStep
    <3>3. CASE state = "INDIV"
      BY <2>1, <2>2, <3>3, SlashStep
    <3>4. CASE state = "INCOMMENT"
      BY <2>1, <2>2, <3>4, CommentStep
    <3>5. CASE state \in PairFirst
      BY <2>1, <2>2, <3>5, PairStep
    <3> QED BY <2>4, <3>1, <3>2, <3>3, <3>4, <3>5
  <2> QED BY <1>1, <1>2, <1>4, <2>1, <2>5 DEF ScanInv
<1> QED BY <1>3, <1>4

\* A step that leaves the scanner alone keeps the invariant.
LEMMA ScanStays == ScanInv /\ UNCHANGED scanVars => ScanInv'
<1> SUFFICES ASSUME ScanInv, UNCHANGED scanVars PROVE ScanInv'
  OBVIOUS
<1>1. /\ text' = text /\ memPoint' = memPoint /\ buf' = buf /\ linePos' = linePos
      /\ state' = state /\ word' = word /\ tokens' = tokens /\ meant' = meant
  BY DEF scanVars
<1>2. Pos' = Pos /\ \A i : Left(i)' = Left(i)
  BY <1>1 DEF Pos, Left
<1>3. LineInv => LineInv'
  BY <1>1 DEF LineInv
<1>4. StartInv => StartInv'
  BY <1>1, <1>2 DEF StartInv
<1>5. WordInv => WordInv'
  BY <1>1, <1>2 DEF WordInv
<1>6. SignInv => SignInv'
  BY <1>1, <1>2 DEF SignInv
<1>7. CommentInv => CommentInv'
  BY <1>1, <1>2 DEF CommentInv
<1>8. Scanned => Scanned'
  BY <1>1, <1>3, <1>4, <1>5, <1>6, <1>7 DEF Scanned
<1> QED BY <1>1, <1>8 DEF ScanInv

\* What is still to be read is a list of tokens that completes those read.
LEMMA ScanInvScans == ScanInv => ScansLexemes
<1> SUFFICES ASSUME ScanInv, meant # <<>>
             PROVE  IsPrefix(tokens, meant) /\ (state = "END" => tokens = meant)
  BY DEF ScansLexemes
<1> DEFINE n == Len(text)
<1>1. Plain(text) /\ Scanned /\ text \in Seq(Char)
  BY DEF ScanInv
<1>2. Clean(text)
  BY <1>1, PlainClean
<1>3. /\ n \in Nat /\ tokens \in Seq(ScannedToken) /\ LineInv
      /\ StartInv /\ WordInv /\ SignInv /\ CommentInv
      /\ state = "END" => tokens = meant
      /\ state \in {"START", "INID", "INNUM", "INDIV", "INCOMMENT", "END"} \cup PairFirst
  BY <1>1 DEF Scanned
<1>4. Pos \in 1 .. n + 1
  <2>1. /\ Len(buf) \in Nat /\ memPoint \in 0 .. n /\ linePos \in 0 .. Len(buf)
        /\ linePos < Len(buf) => Len(buf) < memPoint
    <3>1. linePos < Len(buf) /\ linePos \in 0 .. Len(buf) => buf # <<>>
      OBVIOUS
    <3> QED BY <1>3, <3>1 DEF LineInv
  <2> QED BY <1>3, <2>1 DEF Pos
<1>5. ASSUME NEW i \in 1 .. n + 1, Left(i) = meant PROVE IsPrefix(tokens, meant)
  <2>1. LexemesFrom(text)[i] \in Seq(ScannedToken)
    BY <1>2, LexemesRecur DEF Clean, Lines
  <2> QED BY <1>3, <1>5, <2>1, PrefixOfJoined DEF Left
<1> HIDE DEF n
<1>6. CASE state = "START"
  BY <1>3, <1>4, <1>5, <1>6 DEF StartInv
<1>7. CASE state \in {"INID", "INNUM"}
  <2>1. PICK i \in 1 .. Pos - 1 : Left(i) = meant
    BY <1>3, <1>7 DEF WordInv
  <2>2. i \in 1 .. n + 1
    BY <1>3, <1>4
  <2> QED BY <1>3, <1>5, <1>7, <2>1, <2>2
<1>8. CASE state \in PairFirst \cup {"INDIV"}
  <2>1. Left(Pos - 1) = meant /\ Pos \in 2 .. n
    BY <1>3, <1>8 DEF SignInv, n
  <2>2. Pos - 1 \in 1 .. n + 1
    BY <1>3, <2>1
  <2> QED BY <1>3, <1>5, <1>8, <2>1, <2>2
<1>9. CASE state = "INCOMMENT"
  <2>1. PICK j \in Pos .. n : Left(j) = meant
    BY <1>3, <1>9 DEF CommentInv, n
  <2>2. j \in 1 .. n + 1
    BY <1>3, <1>4
  <2> QED BY <1>3, <1>5, <1>9, <2>1, <2>2
<1>10. CASE state = "END"
  <2>1. meant \in Seq(ScannedToken) /\ <<>> \in Seq(ScannedToken)
    BY <1>3, <1>10
  <2>2. meant \o <<>> = meant
    BY <2>1, ConcatEmptySeq
  <2>3. IsPrefix(meant, meant \o <<>>)
    BY <2>1, PrefixOfJoined
  <2> QED BY <1>3, <1>10, <2>2, <2>3
<1> QED BY <1>3, <1>6, <1>7, <1>8, <1>9, <1>10

\* CProtocolScanner cuts every plain file into the longest lexemes between its
\* blanks and comments, whatever the sizes of the line and of the token's
\* buffer: where a line is read anew and where a character is put back, none is
\* lost and none is read twice, and at the token ENDFILE all are read.
THEOREM ScansAllLexemes == ScanSpec => []ScansLexemes
<1>1. ScanInv /\ [ScanChar]_scanVars => ScanInv'
  BY ScanCharInv, ScanStays
<1> QED BY <1>1, ScanInitInv, ScanInvScans, PTL DEF ScanSpec
=============================================================================
