---------------------------- MODULE ProtocolScanner ----------------------------
(***************************************************************************)
(* CProtocolScanner: how the protocol compiler cuts a .prt file into       *)
(* tokens.  The file is read in lines of at most MaxBuff characters, a     *)
(* line in single characters, and a character that ends a token is put     *)
(* back by one step of the position in the line.                           *)
(*                                                                         *)
(* Characters stand for their class: one letter is as good as another.     *)
(* The queue of looked-ahead tokens is the rest of the token sequence.     *)
(***************************************************************************)
EXTENDS Integers, Sequences, SequencesExt, TLC

CONSTANTS
  Text,      \* the files: sequences of characters
  Reserved,  \* the tokens of the words in the table reservedWords
  MaxBuff,   \* MAX_BUFF, the size of m_Buf
  MaxToken,  \* MAX_TOKENLEN
  MaxTokens  \* bound: tokens read, for a scanner that never comes to an end

ASSUME BufferSizes == MaxBuff \in Nat \ {0, 1} /\ MaxToken \in Nat \ {0}
ASSUME FilesAreText == \A t \in Text : t \in Seq(STRING)
\* The table has ten words, none of them with the token of the end.
ASSUME ReservedKinds == \A w \in DOMAIN Reserved : Reserved[w] # "ENDFILE"

VARIABLES
  text,     \* m_pFileMem, the file
  memPoint, \* m_pCurrentMemPoint, characters of the file read into lines
  buf,      \* m_Buf, the line
  linePos,  \* m_nLinePos, characters of the line read
  state,    \* the scanner's state, or "END" after the token ENDFILE
  word,     \* pToken, what is saved of the current token
  tokens,   \* the tokens so far
  meant     \* history: the lexemes of the file, if it is plain

scanVars == <<text, memPoint, buf, linePos, state, word, tokens, meant>>

-----------------------------------------------------------------------------
(* Characters and tokens.                                                  *)

Digit == {"1", "2"}
Letter == {"a", "i", "p", "s", "v", "_", "@"}
Blank == {" ", "\t", "\n"}
Quote == "\""

\* The two-character tokens: the second character, the token with it and the
\* one without it.  The scanner's state after the first is named by it.
Pair ==
  [c \in {"=", "!", "|", "&", "-", "<", ">", ":"} |->
     CASE c = "=" -> <<"=", "EQ", "ASSIGN">>
       [] c = "!" -> <<"=", "NEQ", "NEG">>
       [] c = "|" -> <<"|", "OR", "_ERROR">>
       [] c = "&" -> <<"&", "AND", "REF">>
       [] c = "-" -> <<">", "ARROW", "MINUS">>
       [] c = "<" -> <<"=", "LTEQ", "LT">>
       [] c = ">" -> <<"=", "RTEQ", "RT">>
       [] c = ":" -> <<":", "SCOPE", "COLON">>]

Single ==
  [c \in {"*", "+", "%", "(", ")", "{", "}", "[", "]", ",", ";"} |->
     CASE c = "*" -> "TIMES"
       [] c = "+" -> "PLUS"
       [] c = "%" -> "REMAINDER"
       [] c = "(" -> "LPAREN"
       [] c = ")" -> "RPAREN"
       [] c = "{" -> "LBRACE"
       [] c = "}" -> "RBRACE"
       [] c = "[" -> "LBRACKET"
       [] c = "]" -> "RBRACKET"
       [] c = "," -> "COMMA"
       [] c = ";" -> "SEMICOLON"]

Kind ==
  {"_ERROR", "ENDFILE", "ID", "NUM", "STRING", "DIV"}
    \cup {Reserved[w] : w \in DOMAIN Reserved}
    \cup {Single[c] : c \in DOMAIN Single}
    \cup UNION {{Pair[c][2], Pair[c][3]} : c \in DOMAIN Pair}

reservedLookup(w) == IF w \in DOMAIN Reserved THEN Reserved[w] ELSE "ID"

-----------------------------------------------------------------------------
(* The automaton of _GetToken.                                             *)

Stay(to, save) == [to |-> to, save |-> save, unget |-> FALSE, kind |-> "_ERROR"]
Done(kind, save) == [to |-> "DONE", save |-> save, unget |-> FALSE, kind |-> kind]
\* The character belongs to the next token.
Before(kind) == [to |-> "DONE", save |-> FALSE, unget |-> TRUE, kind |-> kind]

AtStart(c) ==
  CASE c \in Digit -> Stay("INNUM", TRUE)
    [] c \in Letter -> Stay("INID", TRUE)
    [] c \in DOMAIN Pair -> Stay(c, FALSE)
    [] c = Quote -> Stay("INSTR", FALSE)
    [] c = "/" -> Stay("INDIV", FALSE)
    [] c = "$" -> Stay("INCOMMENT", FALSE)
    [] c \in Blank -> Stay("START", FALSE)
    [] c = "EOF" -> Done("ENDFILE", FALSE)
    [] c \in DOMAIN Single -> Done(Single[c], TRUE)
    [] OTHER -> Done("_ERROR", TRUE)

InComment(s, c) ==
  CASE s = "INCOMMENT" -> Stay(IF c = "\n" THEN "START" ELSE s, FALSE)
    [] s = "INMULTI_COMMENT" -> Stay(IF c = "*" THEN "OUTMULTI_COMMENT" ELSE s, TRUE)
    [] s = "OUTMULTI_COMMENT" -> Stay(IF c = "/" THEN "START" ELSE "INMULTI_COMMENT", TRUE)

InWord(s, c) ==
  CASE s = "INNUM" -> IF c \in Digit \cup {"."} THEN Stay(s, TRUE) ELSE Before("NUM")
    [] s = "INID" -> IF c \in Letter \cup Digit \cup {"."} THEN Stay(s, TRUE) ELSE Before("ID")
    [] s = "INSTR" -> IF c = Quote THEN Done("STRING", FALSE) ELSE Stay(s, TRUE)

AfterSlash(c) ==
  CASE c = "/" -> Stay("INCOMMENT", FALSE)
    [] c = "*" -> Stay("INMULTI_COMMENT", FALSE)
    [] OTHER -> Before("DIV")

InPair(s, c) == IF c = Pair[s][1] THEN Done(Pair[s][2], FALSE) ELSE Before(Pair[s][3])

Move(s, c) ==
  CASE s = "START" -> AtStart(c)
    [] s \in {"INCOMMENT", "INMULTI_COMMENT", "OUTMULTI_COMMENT"} -> InComment(s, c)
    [] s \in {"INNUM", "INID", "INSTR"} -> InWord(s, c)
    [] s = "INDIV" -> AfterSlash(c)
    [] OTHER -> InPair(s, c)

-----------------------------------------------------------------------------
(* Lines.                                                                  *)

\* Mutant: a line that leaves room for its end only is cut, too.
GetStringShort ==
  LET rest == SubSeq(text, memPoint + 1, Len(text))
      cr == SelectInSeq(rest, LAMBDA c : c = "\r")
      ended == cr \in 1..MaxBuff
      read == IF Len(rest) < MaxBuff THEN Len(rest) ELSE MaxBuff
      line == IF ended THEN Append(SubSeq(rest, 1, cr - 1), "\n")
              ELSE SubSeq(rest, 1, read)
  IN  [str |-> IF Len(line) < MaxBuff - 1 THEN line ELSE Front(line),
       read |-> IF ended THEN cr + 1 ELSE read]

(***************************************************************************)
(* GetString: what it puts into the buffer, and how much of the file it    *)
(* reads for it.  A line ends with "\r", of which two characters are read  *)
(* and a "\n" is stored.  When the buffer is full its last character is    *)
(* overwritten by the end of the string.                                   *)
(***************************************************************************)
GetString ==
  LET rest == SubSeq(text, memPoint + 1, Len(text))
      cr == SelectInSeq(rest, LAMBDA c : c = "\r")
      ended == cr \in 1..MaxBuff
      read == IF Len(rest) < MaxBuff THEN Len(rest) ELSE MaxBuff
      line == IF ended THEN Append(SubSeq(rest, 1, cr - 1), "\n")
              ELSE SubSeq(rest, 1, read)
  IN  [str |-> IF Len(line) < MaxBuff THEN line ELSE Front(line),
       read |-> IF ended THEN cr + 1 ELSE read]

\* GetNextChar: the line and the position after it, and the character read.
GetNextChar ==
  LET refill == linePos >= Len(buf)
      next == GetString
  IN  CASE ~refill -> [c |-> buf[linePos + 1], buf |-> buf, pos |-> linePos + 1, read |-> 0]
        [] refill /\ memPoint < Len(text) ->
             [c |-> next.str[1], buf |-> next.str, pos |-> 1, read |-> next.read]
        [] OTHER -> [c |-> "EOF", buf |-> buf, pos |-> linePos, read |-> 0]

-----------------------------------------------------------------------------
(* What is to be read: the longest lexemes between blanks and comments.    *)

IsLexeme(w) ==
  \/ Len(w) = 1
  \/ \E c \in DOMAIN Pair : w = <<c, Pair[c][1]>>
  \/ Head(w) \in Letter /\ ToSet(w) \subseteq Letter \cup Digit \cup {"."}
  \/ Head(w) \in Digit /\ ToSet(w) \subseteq Digit \cup {"."}

Lexeme(w) ==
  CASE Head(w) \in Letter -> [kind |-> reservedLookup(w), str |-> w]
    [] Head(w) \in Digit -> [kind |-> "NUM", str |-> w]
    [] Head(w) \in DOMAIN Single -> [kind |-> Single[Head(w)], str |-> w]
    [] Head(w) \in DOMAIN Pair ->
         [kind |-> Pair[Head(w)][IF Len(w) = 2 THEN 2 ELSE 3], str |-> <<>>]
    [] w = <<"/">> -> [kind |-> "DIV", str |-> <<>>]
    [] OTHER -> [kind |-> "_ERROR", str |-> w]

EndOfFile == [kind |-> "ENDFILE", str |-> <<>>]

\* Where the longest lexeme that begins at i ends.
LexemeEnd(t, i) ==
  CHOOSE j \in i .. Len(t) :
    /\ \A k \in i..j : IsLexeme(SubSeq(t, i, k))
    /\ j < Len(t) => ~IsLexeme(SubSeq(t, i, j + 1))

\* Where the line goes on at i and ends.
LineEnd(t, i) ==
  CHOOSE j \in i .. Len(t) : t[j] = "\n" /\ \A k \in i..j - 1 : t[k] # "\n"

BeginsComment(t, i) ==
  t[i] = "$" \/ (t[i] = "/" /\ i < Len(t) /\ t[i + 1] = "/")

\* The lexemes from position i on, given those from every later position.
From(t, f, i) ==
  CASE i > Len(t) -> <<EndOfFile>>
    [] i <= Len(t) /\ t[i] \in Blank \cup {"\r"} -> f[i + 1]
    [] i <= Len(t) /\ BeginsComment(t, i) -> f[LineEnd(t, i)]
    [] OTHER -> <<Lexeme(SubSeq(t, i, LexemeEnd(t, i)))>> \o f[LexemeEnd(t, i) + 1]

LexemesFrom(t) == LET f[i \in 1 .. Len(t) + 1] == From(t, f, i) IN f

Lexemes(t) == LexemesFrom(t)[1]

\* The files the scanner reads as they are meant: every line is ended, by "\r\n",
\* and fits into the buffer, every token fits into its own, no comment has the
\* form of C, and there is no string and no byte that looks like the end.
Plain(t) ==
  /\ t # <<>> /\ Last(t) = "\n"
  /\ \A i \in DOMAIN t : t[i] = "\n" <=> i > 1 /\ t[i - 1] = "\r"
  /\ \A i \in 1 .. Len(t) + 2 - MaxBuff :
       \E j \in i .. i + MaxBuff - 2 : t[j] \in {"\r", "\n"}
  /\ \A i \in DOMAIN t :
       /\ t[i] \notin {Quote, "EOF"}
       /\ t[i] = "/" => t[i + 1] # "*"
  /\ \A k \in ToSet(Lexemes(t)) : Len(k.str) < MaxToken

-----------------------------------------------------------------------------
(* The scanner.                                                            *)

ScanInit ==
  /\ text \in Text
  /\ memPoint = 0 /\ buf = <<>> /\ linePos = 0
  /\ state = "START" /\ word = <<>> /\ tokens = <<>>
  /\ meant = IF Plain(text) THEN Lexemes(text) ELSE <<>>

\* The token is complete: its kind is in kinds.
EndToken(kinds, w) ==
  \E k \in kinds :
    LET kind == IF k = "ID" THEN reservedLookup(w) ELSE k IN
    /\ tokens' = Append(tokens, [kind |-> kind, str |-> w])
    /\ state' = IF kind = "ENDFILE" THEN "END" ELSE "START"
    /\ word' = <<>>

(***************************************************************************)
(* One round of _GetToken.  A token that fills its buffer is ended without *)
(* a kind, which is then whatever the variable held.                       *)
(***************************************************************************)
ScanChar ==
  LET next == GetNextChar
      move == Move(state, next.c)
      full == Len(word) >= MaxToken
      saved == IF move.save /\ ~full THEN Append(word, next.c) ELSE word
  IN  /\ state # "END" /\ Len(tokens) < MaxTokens
      /\ buf' = next.buf /\ memPoint' = memPoint + next.read
      /\ linePos' = IF move.unget THEN next.pos - 1 ELSE next.pos
      /\ \/ full /\ EndToken(IF move.to = "DONE" THEN {move.kind} ELSE Kind, Front(word))
         \/ ~full /\ move.to = "DONE" /\ EndToken({move.kind}, saved)
         \/ /\ ~full /\ move.to # "DONE"
            /\ state' = move.to /\ word' = saved /\ UNCHANGED tokens
      /\ UNCHANGED <<text, meant>>

ScanSpec == ScanInit /\ [][ScanChar]_scanVars

\* A plain file comes out of the scanner as the longest lexemes between its
\* blanks and comments: at a line that is read anew, and at a character that is
\* put back, none is lost and none is read twice.
ScansLexemes ==
  meant # <<>> => IsPrefix(tokens, meant) /\ (state = "END" => tokens = meant)
=============================================================================
