----------------------------- MODULE MCProtocolCode -----------------------------
EXTENDS ProtocolCode

CONSTANT MaxPieces

\* Files cut from short pieces and files that follow the grammar.  Among the
\* pieces are two words that fill a line up to its end, or with one character
\* more than it holds.
Piece == {<<"a">>, <<"1">>, <<"<">>, <<"=">>, <<"/">>, <<" ">>, <<".">>, <<"$">>, NewLine,
          [i \in 1..6 |-> "a"], [i \in 1..7 |-> "a"]}
Cut == {FlattenSeq(ps) \o NewLine : ps \in UNION {[1..n -> Piece] : n \in 1..MaxPieces}}

Type == {<<"i">>, <<"s">>, <<"v", "<", "i", ">">>, <<"v", "<", "s", ">">>, <<"a", ":", ":", "i">>}
Var == {<<>>, <<"a">>, <<"&">>, <<"*", "i">>, <<"a", "[", "1", "]">>}
Arg == [type : Type, var : Var]
BriefArg == {a \in Arg : a.var \in {<<>>, <<"&">>, <<"a">>}}
PacketOf(args) == [name |-> <<"a">>, argList |-> args]
List(n, ps) == [name |-> <<"s">>, number |-> n, protocol |-> ps]

Lists ==
  {<<List(1, <<PacketOf(args)>>)>> : args \in {<<>>} \cup [1..1 -> Arg] \cup [1..2 -> BriefArg]}
    \cup {<<List(n, <<PacketOf(<<>>), PacketOf(args), PacketOf(<<>>)>>), List(2, <<PacketOf(args)>>)>> :
            n \in 1..2, args \in [1..1 -> Arg]}

MCWritten == {SourceOf(list) : list \in Lists}
MCText == Cut \cup MCWritten
MCReserved == (<<"p">> :> "PROTOCOL") @@ (<<"a", "1">> :> "ARG_IN")

MCInt == {<<"i", 0>>, <<"i", 1>>}
MCString == {<<"s", [i \in 1..n |-> 65]>> : n \in {0, 3, 4}}
MCValue(t) ==
  CASE t = <<"s">> -> MCString
    [] t = <<"v", "<", "i", ">">> -> {<<"v", s>> : s \in {<<>>} \cup [1..3 -> MCInt]}
    [] t = <<"v", "<", "s", ">">> -> {<<"v", s>> : s \in {<<>>} \cup [1..1 -> MCString]}
    [] OTHER -> MCInt
=============================================================================
