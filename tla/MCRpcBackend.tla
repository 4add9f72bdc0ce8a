----------------------------- MODULE MCRpcBackend -----------------------------
(***************************************************************************)
(* Interfaces for RpcBackend: every type as an argument of each direction  *)
(* and as a result, two calls of it under way; methods of all kinds around *)
(* an event, which counts for the index; three events, for the chain.      *)
(***************************************************************************)
EXTENDS RpcBackend

IntType == RpcBasicType("Integer")

RpcTypes ==
  { IntType, RpcBasicType("Char"), RpcBooleanType, RpcStringType, RpcListType,
    FlattenableType, RpcDataType, RpcGenericListType(RpcStringType),
    RpcGenericListType(FlattenableType) }

Arg(name, type, direction) ==
  [name |-> name, type |-> type, dimension |-> 0, direction |-> direction]

Item(name, oneway, returns, args) ==
  [name |-> name, event |-> FALSE, oneway |-> oneway, returns |-> returns, args |-> args]

Event(name, args) == [Item(name, FALSE, <<>>, args) EXCEPT !.event = TRUE]

Returning(type) == <<[type |-> type, dimension |-> 0]>>

\* Every accepted argument, with an int behind it, and every result.
OneMethod ==
  {<<f>> : f \in {f \in
     {Item("f", FALSE, <<>>, <<Arg("a", t, d), Arg("b", IntType, "")>>) :
        t \in RpcTypes, d \in {"", "in", "out", "inout"}}
     \cup {Item("f", FALSE, Returning(t), <<>>) : t \in RpcTypes} : AcceptedItem(f)}}

GetInt == Item("get", FALSE, Returning(IntType), <<>>)
Fill == Item("fill", FALSE, <<>>, <<Arg("o", FlattenableType, "out")>>)
Tell == Item("tell", FALSE, <<>>, <<Arg("a", IntType, "in")>>)
Fire == Item("fire", TRUE, Returning(IntType), <<Arg("o", RpcListType, "inout")>>)
Both == Item("both", FALSE, Returning(RpcStringType), <<Arg("o", FlattenableType, "out")>>)
Changed == Event("changed", <<Arg("a", IntType, "")>>)
Moved == Event("moved", <<Arg("a", FlattenableType, "in"), Arg("b", IntType, "")>>)
Gone == Event("gone", <<>>)

\* Methods of every kind of answer.
ManyMethods ==
  { <<GetInt, Fill, Tell>>, <<Fire, Both>>, <<Fill, Both, GetInt>> }

Client(face0, calls0, operations0) ==
  [face |-> face0, calls |-> calls0, operations |-> operations0]

\* Every type for one call; two calls of methods of every kind, with an event
\* between them or not; a listener of one event and of three.
MCClients ==
  {Client(f, <<1>>, 0) : f \in OneMethod}
    \cup UNION {{Client(f, <<i, j>>, 0) : i, j \in DOMAIN f} : f \in ManyMethods}
    \cup { Client(<<GetInt, Gone, Fill>>, <<1, 3>>, 0), Client(<<Changed>>, <<>>, 3),
           Client(<<Gone, Moved, Changed>>, <<>>, 2), Client(<<Fill, Gone>>, <<1>>, 1) }

MCContents == {"x"}

=============================================================================
