----------------------------- MODULE MCJavaBinder -----------------------------
(***************************************************************************)
(* Interfaces for JavaBinder.  Every class of types occurs as a result, as *)
(* an argument of each direction it may have, and as an array if it can be *)
(* one; the pairs put a value of each shape before another one, so that a  *)
(* word too many or too few shifts what follows.                           *)
(***************************************************************************)
EXTENDS JavaBinder

IntType == BasicType("Int")

JavaTypes ==
  { IntType, BooleanType, CharType, StringType, CharSequenceType, IBinderType,
    MapType, ListType, UserDataType, InterfaceType, GenericListType(StringType),
    GenericListType(UserDataType), GenericListType(IBinderType) }

Arg(type, dimension, direction) ==
  [type |-> type, dimension |-> dimension, direction |-> direction]

AcceptedArgs ==
  {a \in {Arg(t, d, dir) : t \in JavaTypes, d \in 0..1, dir \in {"", "in", "out", "inout"}} :
     AcceptedArg(a)}

Method(oneway, returns, args) ==
  [oneway |-> oneway, returns |-> returns, args |-> args]

Returning(type, dimension) == <<[type |-> type, dimension |-> dimension]>>

\* Every accepted argument, alone.
OneArgument == {Method(FALSE, <<>>, <<a>>) : a \in AcceptedArgs}

\* The same, oneway.
Oneway == {Method(TRUE, <<>>, <<a>>) : a \in AcceptedArgs}

\* Every type as a result, with an inout object behind it.
WithResult ==
  {Method(FALSE, Returning(t, 0), <<Arg(UserDataType, 0, "inout")>>) : t \in JavaTypes}
    \cup {Method(FALSE, Returning(t, 1), <<Arg(IntType, 0, "")>>) :
            t \in {t \in JavaTypes : t.array # "none"}}

\* Two arguments, of the shapes that take no word, one word, two words, or a
\* length on the way there.
Shapes ==
  { Arg(IntType, 0, ""), Arg(IntType, 1, "out"), Arg(UserDataType, 0, "out"),
    Arg(UserDataType, 0, "inout"), Arg(ListType, 0, "in"), Arg(ListType, 0, "out") }

TwoArguments ==
  {Method(oneway, <<>>, <<a, b>>) : oneway \in BOOLEAN, a, b \in Shapes}

\* A container in each place: every type behind one that goes in, and one that
\* comes back in front of one that does.
WithContainer ==
  {Method(FALSE, Returning(t, 0), <<Arg(MapType, 0, "in")>>) : t \in JavaTypes}
    \cup {Method(FALSE, Returning(MapType, 0), <<Arg(ListType, 0, "out"), Arg(MapType, 0, d)>>) :
            d \in {"in", "inout"}}

Single(methods) == {<<m>> : m \in {m \in methods : Compiles(m)}}

\* Two methods, to tell which one a code stands for.
TwoMethods ==
  { << Method(FALSE, <<>>, <<Arg(IntType, 0, "")>>),
       Method(FALSE, Returning(IntType, 0), <<Arg(IntType, 0, "")>>) >> }

MCInterfaces ==
  Single(OneArgument \cup Oneway \cup WithResult \cup WithContainer \cup TwoArguments)
    \cup TwoMethods

MCContents == {"x"}

=============================================================================
