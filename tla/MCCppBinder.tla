----------------------------- MODULE MCCppBinder -----------------------------
(***************************************************************************)
(* Interfaces for CppBinder.  OneMethod has those whose classes compile    *)
(* and whose results fit an int: every such result, every pair of argument *)
(* types next to each other in both orders, oneway and not.  TwoMethods    *)
(* has every pair of names like getFooBar of up to three letters.          *)
(* LongResult is the method whose result does not fit.                     *)
(***************************************************************************)
EXTENDS CppBinder

Method(name, oneway, returns, args) ==
  [name |-> name, oneway |-> oneway, returns |-> returns, args |-> args]

Arg(type, direction) == [type |-> type, dimension |-> 0, direction |-> direction]

Returning(type) == <<[type |-> type, dimension |-> 0]>>

ArgTypes == {t \in DOMAIN TypeMap : LookupType(t).decl = "value"}

FittingResults == {<<>>} \cup {Returning(t) : t \in {"int", "byte", "boolean"}}

a1 == <<"a">>
b1 == <<"b">>

TwoArguments ==
  {Method(a1, oneway, <<>>, <<Arg(s, ""), Arg(t, "in")>>) :
     oneway \in BOOLEAN, s, t \in ArgTypes}

WithResult ==
  {Method(a1, FALSE, r, <<Arg(t, "")>>) : r \in FittingResults, t \in {"int", "String"}}
    \cup {Method(a1, FALSE, r, <<>>) : r \in FittingResults}

OneMethod == {<<m>> : m \in {m \in TwoArguments \cup WithResult : Compiles(m)}}

MCUpperOf == [a |-> "A", b |-> "B"]

Letters == {"a", "b", "A", "B"}

Names == {n \in UNION {[1..k -> Letters] : k \in 1..3} : CamelCase(n)}

TwoMethods ==
  { << Method(p[1], FALSE, <<>>, <<>>), Method(p[2], FALSE, <<>>, <<>>) >> :
      p \in {q \in Names \X Names : q[1] # q[2]} }

MCInterfaces == OneMethod \cup TwoMethods

LongResult == { <<Method(a1, FALSE, Returning("long"), <<Arg("int", "")>>)>> }

MCObjects == {"x", "y"}

=============================================================================
