----------------------------- MODULE ProtocolParser -----------------------------
(***************************************************************************)
(* CProtocolParser: the tree of a sequence of tokens, by recursive         *)
(* descent.  A parser p has the tokens that are left (the last of them,    *)
(* ENDFILE, is never used up) and what went wrong; every function gives    *)
(* the value it returns and the parser after it.  A null pointer is <<>>.  *)
(***************************************************************************)
EXTENDS Naturals, Sequences

Token(p) == p.ts[1].kind
\* GetTokenQ(1)
NextToken(p) == IF Len(p.ts) > 1 THEN p.ts[2].kind ELSE Token(p)

Advance(p) == IF Len(p.ts) > 1 THEN [p EXCEPT !.ts = Tail(@)] ELSE p

\* A token that is not the expected one is an error, and stays.
Match(p, t) == IF Token(p) = t THEN Advance(p) ELSE [p EXCEPT !.error = TRUE]

Gives(val, p) == [val |-> val, p |-> p]
\* What F makes of the value and the parser that come from r.
Then(r, F(_, _)) == F(r.val, r.p)

Str(p) == p.ts[1].str

id(p) == Gives(Str(p), Match(p, "ID"))
number(p) == Gives(Str(p), Match(p, "NUM"))

\* atoi: the digits a number begins with.
DigitValue == [c \in {"1", "2"} |-> IF c = "1" THEN 1 ELSE 2]
RECURSIVE atoi(_, _)
atoi(s, n) ==
  IF s = <<>> \/ Head(s) \notin DOMAIN DigitValue THEN n
  ELSE atoi(Tail(s), 10 * n + DigitValue[Head(s)])

num(p) == Gives(atoi(Str(p), 0), Match(p, "NUM"))

-----------------------------------------------------------------------------
(* Arguments.                                                              *)

RECURSIVE type_sub(_)
type_sub(p) ==
  CASE Token(p) # "ID" -> Gives(<<>>, p)
    [] Token(p) = "ID" /\ NextToken(p) = "LT" ->
         Then(id(p), LAMBDA name, q : Then(type_sub(Match(q, "LT")), LAMBDA inner, r :
           Gives(name \o <<"<">> \o inner \o <<">">>, Match(r, "RT"))))
    [] Token(p) = "ID" /\ NextToken(p) = "SCOPE" ->
         Then(id(p), LAMBDA name, q : Then(type_sub(Match(q, "SCOPE")), LAMBDA inner, r :
           Gives(name \o <<":", ":">> \o inner, r)))
    [] OTHER -> id(p)

index(p) ==
  IF Token(p) # "LBRACKET" THEN Gives(<<>>, p)
  ELSE Then(number(Match(p, "LBRACKET")), LAMBDA n, q :
         Gives(<<"[">> \o n \o <<"]">>, Match(q, "RBRACKET")))

\* An index follows a name only.
named(p, mark) ==
  IF Token(p) # "ID" THEN Gives(mark, p)
  ELSE Then(id(p), LAMBDA name, q : Then(index(q), LAMBDA i, r :
         Gives(mark \o name \o i, r)))

\* Mutant: a name after a mark is left over.
varMarked(p) ==
  CASE Token(p) = "TIMES" -> Gives(<<"*">>, Match(p, "TIMES"))
    [] Token(p) = "REF" -> Gives(<<"&">>, Match(p, "REF"))
    [] OTHER -> named(p, <<>>)

\* The mark and the name may each be missing.
var(p) ==
  CASE Token(p) = "TIMES" -> named(Match(p, "TIMES"), <<"*">>)
    [] Token(p) = "REF" -> named(Match(p, "REF"), <<"&">>)
    [] OTHER -> named(p, <<>>)

type(p) ==
  Then(type_sub(p), LAMBDA t, q : Then(var(q), LAMBDA v, r :
    Gives([type |-> t, var |-> v], r)))

arg(p) ==
  IF Token(p) # "ID" THEN Gives(<<>>, p)
  ELSE Then(type(p), LAMBDA a, q : Gives(<<a>>, q))

\* The loop of arg_list after the argument last.  It writes to that argument,
\* which is missing after two commas in a row: the program ends there.
RECURSIVE MoreArgs(_, _, _)
MoreArgs(args, last, p) ==
  CASE Token(p) # "COMMA" -> Gives(args, p)
    [] Token(p) = "COMMA" /\ last = <<>> -> Gives(args, [p EXCEPT !.crashed = TRUE])
    [] OTHER -> Then(arg(Match(p, "COMMA")), LAMBDA a, q : MoreArgs(args \o a, a, q))

arg_list(p) ==
  Then(arg(p), LAMBDA a, q : IF a = <<>> THEN Gives(<<>>, q) ELSE MoreArgs(a, a, q))

-----------------------------------------------------------------------------
(* Protocols.                                                              *)

protocol(p) ==
  IF Token(p) # "ID" THEN Gives(<<>>, p)
  ELSE Then(id(p), LAMBDA name, q : Then(arg_list(Match(q, "LPAREN")), LAMBDA args, r :
         Gives(<<[name |-> name, argList |-> args]>>, Match(r, "RPAREN"))))

stmt(p) ==
  Then(protocol(p), LAMBDA s, q : Gives(s, IF s = <<>> THEN q ELSE Match(q, "SEMICOLON")))

RECURSIVE stmt_list(_)
stmt_list(p) ==
  Then(stmt(p), LAMBDA s, q :
    IF s = <<>> THEN Gives(s, q)
    ELSE Then(stmt_list(q), LAMBDA rest, r : Gives(s \o rest, r)))

rmi(p) ==
  IF Token(p) # "PROTOCOL" THEN Gives(<<>>, p)
  ELSE Then(id(Match(p, "PROTOCOL")), LAMBDA name, q : Then(num(q), LAMBDA n, r :
         Then(stmt_list(Match(r, "LBRACE")), LAMBDA ss, u :
           Gives(<<[name |-> name, number |-> n, protocol |-> ss]>>, Match(u, "RBRACE")))))

RECURSIVE rmi_list(_)
rmi_list(p) ==
  Then(rmi(p), LAMBDA m, q :
    IF m = <<>> THEN Gives(m, q)
    ELSE Then(rmi_list(q), LAMBDA rest, r : Gives(m \o rest, r)))

(***************************************************************************)
(* Parse: the list of protocols, null for an empty file and for one that   *)
(* has tokens left, and whether there was an error or the program ended.   *)
(***************************************************************************)
Parse(ts) ==
  Then(rmi_list([ts |-> ts, error |-> FALSE, crashed |-> FALSE]), LAMBDA list, p :
    [rmis |-> IF Token(p) = "ENDFILE" THEN list ELSE <<>>,
     error |-> p.error \/ Token(p) # "ENDFILE",
     crashed |-> p.crashed])
=============================================================================
