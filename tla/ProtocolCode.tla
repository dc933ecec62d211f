------------------------------ MODULE ProtocolCode ------------------------------
(***************************************************************************)
(* From a .prt file to a message that is sent and dispatched: the file is  *)
(* scanned (ProtocolScanner) and parsed (ProtocolParser), the generator    *)
(* numbers the packets and writes, for the sender and for the dispatcher,  *)
(* the arguments in their order, and the two programs built from that code *)
(* put a message into a CPacket and take it out again.                     *)
(***************************************************************************)
EXTENDS ProtocolScanner, ProtocolParser

CONSTANTS
  MaxPacket,   \* MAX_PACKETSIZE
  HeaderSize,  \* HEADER_SIZE, the first of the packet's data
  MaxString,   \* MAX_STRINGSIZE
  MaxSequence, \* the longest vector GetSequence reads
  Value(_),    \* the values sent for an argument of a type
  Written      \* the files of Text that follow the grammar of the parser

ASSUME PacketSizes ==
  /\ HeaderSize \in Nat /\ MaxPacket \in Nat /\ HeaderSize < MaxPacket
  /\ MaxString \in Nat \ {0, 1} /\ MaxSequence \in Nat

VARIABLES
  phase,  \* "scan", then "code", "sent" and "done"
  rmis,   \* the parser's list of protocols
  faults, \* what the parser reported
  sent,   \* history: the message given to the sender's function
  packet, \* the CPacket on its way
  got     \* history: the message the listener was called with

codeVars == <<phase, rmis, faults, sent, packet, got>>
vars == <<scanVars, codeVars>>

-----------------------------------------------------------------------------
(* The generator.                                                          *)

\* Mutant: the first packet has the number of the protocol.
NumberedFromZero(protocols, first) == [k \in DOMAIN protocols |-> first + k - 2]

\* The recursion over a protocol's packets that adds one to the id.
Numbered(protocols, first) == [k \in DOMAIN protocols |-> first + k - 1]

\* WriteProtocolCpp: the ids the sender's functions set.
SendIds(r) == Numbered(r.protocol, r.number + 1)

\* WriteProtocolDispatchFunc: the packets by the case labels of Dispatch.
CaseOf(r, id_) ==
  LET hit == {k \in DOMAIN r.protocol : r.number + k = id_} IN
  IF hit = {} THEN 0 ELSE CHOOSE k \in hit : TRUE

\* AddDispatcher keeps the first dispatcher of an id; GetDispatcher finds it.
DispatcherOf(number_) ==
  SelectInSeq(rmis, LAMBDA r : r.number = number_)

-----------------------------------------------------------------------------
(* CPacket and the marshalling of its data.  A byte is a number below Base; *)
(* an int takes two of them.                                               *)

Base == 100
IntBytes(n) == <<n % Base, n \div Base>>
IntOf(bytes) == bytes[1] + Base * bytes[2]
Unread == <<"unread">>

IsVector(t) == Head(t) = "v"
ElementType(t) == SubSeq(t, 3, Len(t) - 1)

\* Append and AppendPtr: what does not fit is left out without a word.
AppendBytes(pk, bytes) ==
  IF pk.write + Len(bytes) >= MaxPacket THEN pk
  ELSE [pk EXCEPT !.write = @ + Len(bytes),
                  !.data = [i \in DOMAIN @ |-> IF i \in pk.write .. pk.write + Len(bytes) - 1
                                               THEN bytes[i - pk.write + 1] ELSE @[i]]]

RECURSIVE Put(_, _, _)
Put(pk, t, v) ==
  IF IsVector(t)
  THEN FoldLeft(LAMBDA q, e : Put(q, ElementType(t), e),
                AppendBytes(pk, IntBytes(Len(v[2]))), v[2])
  ELSE AppendBytes(pk, IF t = <<"s">> THEN Append(v[2], 0) ELSE IntBytes(v[2]))

\* A reader has the packet's data, m_ReadIdx, and whether it is still known
\* what it reads.
DataAt(rd, n) == [i \in 1..n |-> rd.data[rd.at + i - 1]]

GetInt(rd) ==
  IF rd.at + 2 >= MaxPacket THEN Gives(Unread, rd)
  ELSE Gives(<<"i", IntOf(DataAt(rd, 2))>>, [rd EXCEPT !.at = @ + 2])

\* GetDataString: up to the end of the string, of the buffer or of the packet.
GetDataString(rd) ==
  LET room == IF MaxPacket - rd.at < MaxString - 1 THEN MaxPacket - rd.at ELSE MaxString - 1
      bytes == DataAt(rd, room)
      nul == SelectInSeq(bytes, LAMBDA b : b = 0)
  IN  IF nul = 0 THEN Gives(<<"s", bytes>>, [rd EXCEPT !.at = @ + room])
      ELSE Gives(<<"s", SubSeq(bytes, 1, nul - 1)>>, [rd EXCEPT !.at = @ + nul])

RECURSIVE Get(_, _), GetElements(_, _, _)
\* A count that could not be read is any number: nothing is known after it.
Get(rd, t) ==
  LET count == GetInt(rd) IN
  CASE ~rd.known -> Gives(Unread, rd)
    [] rd.known /\ t = <<"s">> -> GetDataString(rd)
    [] rd.known /\ IsVector(t) ->
         IF count.val = Unread THEN Gives(Unread, [rd EXCEPT !.known = FALSE])
         ELSE IF count.val[2] > MaxSequence THEN Gives(<<"v", <<>>>>, count.p)
         ELSE LET es == GetElements(count.p, ElementType(t), count.val[2]) IN
              Gives(<<"v", es.val>>, es.p)
    [] OTHER -> count

GetElements(rd, t, n) ==
  IF n = 0 THEN Gives(<<>>, rd)
  ELSE LET first == Get(rd, t)
           rest == GetElements(first.p, t, n - 1)
       IN  Gives(<<first.val>> \o rest.val, rest.p)

RECURSIVE GetAll(_, _)
GetAll(rd, args) ==
  IF args = <<>> THEN <<>>
  ELSE LET first == Get(rd, Head(args).type) IN <<first.val>> \o GetAll(first.p, Tail(args))

-----------------------------------------------------------------------------
(* The programs.                                                           *)

NoMessage == [rmi |-> 0, packet |-> 0, args |-> <<>>]

Init ==
  /\ ScanInit
  /\ phase = "scan" /\ rmis = <<>> /\ faults = {} /\ sent = NoMessage
  /\ packet = <<>> /\ got = NoMessage

Scan == phase = "scan" /\ ScanChar /\ UNCHANGED codeVars

\* main: code is written for whatever list the parser returns.
Compile ==
  LET tree == Parse(tokens) IN
  /\ phase = "scan" /\ state = "END"
  /\ phase' = IF tree.rmis = <<>> \/ tree.crashed THEN "done" ELSE "code"
  /\ rmis' = tree.rmis
  /\ faults' = (IF tree.error THEN {"error"} ELSE {})
               \cup (IF tree.crashed THEN {"crash"} ELSE {})
  /\ UNCHANGED <<scanVars, sent, packet, got>>

\* A sender's function: WriteFirstImpleProtocol and WriteImpleArg.  The data of
\* a new packet is not initialized.
Send ==
  \E r \in DOMAIN rmis, fill \in {0, Base - 1} : \E k \in DOMAIN rmis[r].protocol :
    LET args == rmis[r].protocol[k].argList
        new == [write |-> HeaderSize, data |-> [i \in 0 .. MaxPacket - 1 |-> fill]]
        Values == [i \in DOMAIN args |-> Value(args[i].type)]
        PutAll(vs) == FoldLeft(LAMBDA pk, i : Put(pk, args[i].type, vs[i]), new,
                               [i \in DOMAIN args |-> i])
    IN  /\ phase = "code" /\ faults = {}
        /\ \E vs \in {f \in [DOMAIN args -> UNION {Values[i] : i \in DOMAIN args}] :
                        \A i \in DOMAIN args : f[i] \in Values[i]} :
             /\ sent' = [rmi |-> r, packet |-> k, args |-> vs]
             /\ packet' = [protocol |-> rmis[r].number, id |-> SendIds(rmis[r])[k],
                           data |-> PutAll(vs).data]
        /\ phase' = "sent"
        /\ UNCHANGED <<scanVars, rmis, faults, got>>

\* CTaskLogic and Dispatch: the dispatcher of the protocol, the case of the
\* packet, and the arguments in their order (WriteDispatchImpleArg2).
Receive ==
  LET r == DispatcherOf(packet.protocol)
      k == CaseOf(rmis[r], packet.id)
      args == rmis[r].protocol[k].argList
      reads == GetAll([data |-> packet.data, at |-> HeaderSize, known |-> TRUE], args)
  IN  /\ phase = "sent"
      /\ got' = IF k = 0 THEN [rmi |-> r, packet |-> 0, args |-> <<>>]
                ELSE [rmi |-> r, packet |-> k, args |-> reads]
      /\ phase' = "done"
      /\ UNCHANGED <<scanVars, rmis, faults, sent, packet>>

Next == Scan \/ Compile \/ Send \/ Receive

Spec == Init /\ [][Next]_vars

-----------------------------------------------------------------------------
(* Properties.                                                             *)

\* The protocols as a file: what is written between two names does not matter
\* to the scanner, a line for each argument keeps the lines short.
NewLine == <<"\r", "\n">>
SourceOfArgs(args) ==
  FlattenSeq([i \in DOMAIN args |->
    args[i].type \o <<" ">> \o args[i].var
      \o (IF i < Len(args) THEN <<",">> ELSE <<>>) \o NewLine])
SourceOfPackets(ps) ==
  FlattenSeq([i \in DOMAIN ps |->
    ps[i].name \o <<"(">> \o SourceOfArgs(ps[i].argList) \o <<")", ";">> \o NewLine])
SourceOf(list) ==
  FlattenSeq([i \in DOMAIN list |->
    <<"p", " ">> \o list[i].name \o <<" ", ToString(list[i].number)>> \o NewLine
      \o <<"{">> \o SourceOfPackets(list[i].protocol) \o <<"}">> \o NewLine])

\* A file that follows the grammar is parsed without an error, and every token
\* of it is in its place of the tree.
ParsesGrammar ==
  phase # "scan" /\ text \in Written =>
    faults = {} /\ Lexemes(SourceOf(rmis)) = tokens

Size(t, v) ==
  IF ~IsVector(t) THEN IF t = <<"s">> THEN Len(v[2]) + 1 ELSE 2
  ELSE 2 + FoldLeft(LAMBDA n, e : n + (IF ElementType(t) = <<"s">> THEN Len(e[2]) + 1 ELSE 2),
                    0, v[2])

Short(t, v) ==
  IF IsVector(t)
  THEN /\ Len(v[2]) <= MaxSequence
       /\ \A i \in DOMAIN v[2] : ElementType(t) = <<"s">> => Len(v[2][i][2]) < MaxString - 1
  ELSE t = <<"s">> => Len(v[2]) < MaxString - 1

\* A message is dispatched as the packet it is, and every argument that fits
\* into the packet, with all before it, is read as it was sent.
MessageArrives ==
  phase = "done" /\ sent # NoMessage
    /\ (\A i, j \in DOMAIN rmis : rmis[i].number = rmis[j].number => i = j) =>
    LET args == rmis[sent.rmi].protocol[sent.packet].argList
        End(i) == HeaderSize + FoldLeft(LAMBDA n, j : n + Size(args[j].type, sent.args[j]),
                                        0, [j \in 1..i |-> j])
    IN  /\ got.rmi = sent.rmi /\ got.packet = sent.packet
        /\ \A i \in DOMAIN args :
             /\ End(i) < MaxPacket
             /\ \A j \in 1..i : Short(args[j].type, sent.args[j])
             => got.args[i] = sent.args[i]
=============================================================================
