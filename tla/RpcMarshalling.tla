---------------------------- MODULE RpcMarshalling ----------------------------
(***************************************************************************)
(* The RpcData half of the Type classes (Type.cpp).  An RpcData is a       *)
(* function from the keys put into it to the words under them; a word      *)
(* remembers the put method that wrote it, so that reading it with a get   *)
(* method of another kind shows.  RpcData itself is not in this repository.*)
(*                                                                         *)
(* A type is the record of the answers its class gives: puts and gets name *)
(* the methods of WriteToRpcData and CreateFromRpcData.                    *)
(***************************************************************************)
EXTENDS Signature

CONSTANT Garbage    \* what an RpcData gives for a missing key or another kind

\* A class whose two methods use the RpcData methods of one kind.
Flattened(kind) ==
  [puts |-> kind, gets |-> kind, canBeOut |-> FALSE, creator |-> "", zero |-> Null]

\* BasicType: byte, int, long, float, double; and CharType.
RpcBasicType(kind) == [Flattened(kind) EXCEPT !.zero = 0]
RpcBooleanType == [Flattened("Boolean") EXCEPT !.zero = False]
RpcStringType == Flattened("String")

\* ListType, and a list of elements without an RPC_CREATOR.
RpcListType == [Flattened("List") EXCEPT !.canBeOut = TRUE]

\* UserDataType: the creator is the RPC_CREATOR field of the class.
FlattenableType ==
  [Flattened("Flattenable") EXCEPT !.canBeOut = TRUE, !.creator = "RPC_CREATOR"]

\* RpcDataType is a UserDataType with methods of its own.
RpcDataType == [FlattenableType EXCEPT !.puts = "RpcData", !.gets = "RpcData"]

\* Plausible bug, for the mutation runs: only the writer looks at the elements.
RpcGenericListTypeWriter(element) ==
  [Flattened("List") EXCEPT !.canBeOut = TRUE,
     !.puts = IF element.creator # "" THEN "FlattenableList" ELSE "List"]

\* GenericListType: the methods depend on the RPC_CREATOR of the elements.  A
\* list of RpcData is left out: its get method is built with an argument too few.
RpcGenericListType(element) ==
  [Flattened(IF element.creator # "" THEN "FlattenableList" ELSE "List")
     EXCEPT !.canBeOut = TRUE]

NoData == <<>>

\* A value put with the method of its type.
Entry(type, v) == [kind |-> type.puts, value |-> v]

\* data.putX(key, v): a later value replaces an earlier one.
Put(data, key, type, v) ==
  [k \in DOMAIN data \cup {key} |-> IF k = key THEN Entry(type, v) ELSE data[k]]

\* data.getX(key)
Get(data, key, type) ==
  IF key \in DOMAIN data /\ data[key].kind = type.gets THEN data[key].value
  ELSE Garbage

=============================================================================
