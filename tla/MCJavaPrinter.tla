---------------------------- MODULE MCJavaPrinter ----------------------------
(***************************************************************************)
(* Trees for JavaPrinter: every expression of depth two, in each place a   *)
(* back end puts one, over two operands; statements, methods and classes   *)
(* of every form the back ends build, and a class as they build it.  An    *)
(* assignment is only a statement, and there is one interface at most:     *)
(* nothing in src builds anything else.                                    *)
(***************************************************************************)
EXTENDS JavaReader

MCTypeNames == {"p.A", "int", "List"}
MCNames == {"v", "w", "len", "read", "Stub"}
MCLiterals == {"null", "0", "this", "-1"}

Literal(value) == [node |-> "LiteralExpression", value |-> value]
V(name) == [node |-> "Variable", name |-> name]
Field(object, clazz) == [node |-> "FieldVariable", object |-> object, clazz |-> clazz, name |-> "len"]
Call(obj, clazz, args) ==
  [node |-> "MethodCall", obj |-> obj, clazz |-> clazz, name |-> "read", arguments |-> args]
Compared(l, op, r) == [node |-> "Comparison", lvalue |-> l, op |-> op, rvalue |-> r]
Instance(type, args) == [node |-> "NewExpression", type |-> type, arguments |-> args]
Array(type, size) == [node |-> "NewArrayExpression", type |-> type, size |-> size]
Choice(c, a, b) == [node |-> "Ternary", condition |-> c, ifpart |-> a, elsepart |-> b]
CastTo(type, e) == [node |-> "Cast", type |-> type, expression |-> e]

Leaves ==
  {Literal("null"), V("v"), [node |-> "StringLiteralExpression", value |-> "v"]}

\* The expressions with an operand from a set, and others from another.
Around(S, T) ==
  {Field(<<e>>, <<>>) : e \in S} \cup {Call(<<e>>, <<>>, <<>>) : e \in S}
    \cup {Call(o, <<>>, <<e>>) : e \in S, o \in {<<>>} \cup {<<x>> : x \in T}}
    \cup {Call(<<>>, <<"p.A">>, <<x, e>>) : e \in S, x \in T}
    \cup {Call(<<e>>, <<>>, <<x>>) : e \in S, x \in T}
    \cup {Compared(e, op, x) : e \in S, x \in T, op \in {"==", "<", "&&"}}
    \cup {Compared(x, op, e) : e \in S, x \in T, op \in {"!=", "&&"}}
    \cup {Compared(e, "instanceof", Literal("p.A")) : e \in S}
    \cup {Instance("p.A", <<e>>) : e \in S} \cup {Instance("List", <<e, x>>) : e \in S, x \in T}
    \cup {Array("p.A", e) : e \in S}
    \cup {Choice(e, x, x) : e \in S, x \in T} \cup {Choice(x, e, x) : e \in S, x \in T}
    \cup {Choice(x, x, e) : e \in S, x \in T}
    \cup {CastTo(t, e) : t \in {"p.A", "int"}, e \in S}

Shallow ==
  Around(Leaves, {V("w"), Literal("0")}) \cup
    {Field(<<>>, <<"p.A">>), Call(<<>>, <<"p.A">>, <<>>), Instance("p.A", <<>>)}
Deep == Around(Shallow, {V("w")})

Block0(ss) == [node |-> "StatementBlock", statements |-> ss]
Run(e) == [node |-> "ExpressionStatement", expression |-> e]
Assign(e, cast) == [node |-> "Assignment", lvalue |-> V("v"), rvalue |-> e, cast |-> cast]
Local(type, n, cast, value) ==
  [node |-> "VariableDeclaration", lvalue |-> [type |-> type, dimension |-> n, name |-> "w"],
   cast |-> cast, rvalue |-> value]
Return(e) == [node |-> "ReturnStatement", expression |-> e]
IfElse(e, b, other) == [node |-> "IfStatement", expression |-> e, statements |-> b, elseif |-> other]
CaseOf(label, ss) == [node |-> "Case", cases |-> <<label>>, statements |-> Block0(ss)]
SwitchOn(e, cases) == [node |-> "SwitchStatement", expression |-> e, cases |-> cases]
Break0 == [node |-> "Break"]

Null == Literal("null")
Less == Compared(V("len"), "<", Literal("0"))
Else(ss) == <<IfElse(<<>>, Block0(ss), <<>>)>>

\* The places of an expression.
Placed(e) ==
  {Run(Assign(e, <<>>)), Run(Assign(e, <<"int">>)), Local("p.A", 1, <<>>, <<e>>),
   Return(e), IfElse(<<e>>, Block0(<<>>), <<>>), SwitchOn(e, <<>>)}

Statements ==
  UNION {Placed(e) : e \in Shallow} \cup {Return(e) : e \in Deep}
    \cup {Run(Assign(e, <<"p.A">>)) : e \in Deep}
    \cup {Run(Call(<<V("v")>>, <<>>, <<e, e>>)) : e \in Shallow}
    \cup {Local(t, n, c, <<>>) : t \in {"int", "p.A"}, n \in 0..2, c \in {<<>>}}
    \cup {Local("int", 0, <<"int">>, <<Null>>),
          IfElse(<<Less>>, Block0(<<Run(Assign(Null, <<>>))>>), Else(<<Return(Null), Break0>>)),
          IfElse(<<Less>>, Block0(<<IfElse(<<Less>>, Block0(<<>>), <<>>)>>),
                 <<IfElse(<<Less>>, Block0(<<Return(Null)>>), Else(<<>>))>>),
          Block0(<<Block0(<<Break0>>), Return(Null)>>),
          SwitchOn(V("v"), <<CaseOf("v", <<Run(Assign(Null, <<>>)), Return(Null)>>),
                              CaseOf("w", <<SwitchOn(V("w"), <<CaseOf("", <<>>)>>), Break0>>),
                              CaseOf("", <<>>)>>),
          [node |-> "CatchStatement", exception |-> <<[type |-> "p.A", dimension |-> 0, name |-> "w"]>>,
           statements |-> Block0(<<Break0>>)]}

MethodOf(m, returned, n, params, thrown, body) ==
  [node |-> "Method", modifiers |-> m, returnType |-> returned, returnTypeDimension |-> n,
   name |-> "read", parameters |-> params, exceptions |-> thrown, statements |-> body]
ParamV == [type |-> "p.A", dimension |-> 0, name |-> "v"]
ParamW == [type |-> "int", dimension |-> 1, name |-> "w"]

Methods ==
  {MethodOf(m, r, IF r = <<>> THEN 0 ELSE n, ps, thrown, body) :
     m \in {{}, PUBLIC, PRIVATE \cup STATIC, PROTECTED \cup ABSTRACT, PUBLIC \cup FINAL \cup OVERRIDE},
     r \in {<<>>, <<"p.A">>}, n \in {0, 1}, ps \in {<<>>, <<ParamV>>, <<ParamV, ParamW>>},
     thrown \in {<<>>, <<"p.A">>, <<"p.A", "List">>},
     body \in {<<>>, <<Block0(<<>>)>>, <<Block0(<<Return(Null)>>)>>}}

FieldOf(m, value) ==
  [node |-> "Field", modifiers |-> m, variable |-> [type |-> "p.A", name |-> "v"], value |-> value]

ClassOf(m, what, extends, interfaces, elements) ==
  [node |-> "Class", modifiers |-> m, what |-> what, type |-> "Stub", extends |-> extends,
   interfaces |-> interfaces, elements |-> elements]

\* An interface with its stub and its proxy, which hold one method.
AnInterface ==
  LET OnTransact ==
        MethodOf(PUBLIC \cup OVERRIDE, <<"int">>, 0, <<ParamV, ParamW>>, <<"p.A">>, <<Block0(<<
          SwitchOn(V("v"), <<CaseOf("read", <<
            Local("p.A", 0, <<>>, <<>>),
            IfElse(<<Compared(Literal("0"), "!=", Call(<<V("v")>>, <<>>, <<>>))>>,
                   Block0(<<Run(Assign(Call(<<Field(<<>>, <<"p.A">>)>>, <<>>, <<V("v")>>), <<>>))>>),
                   Else(<<Run(Assign(Null, <<>>))>>)),
            Return(Literal("this"))>>)>>),
          Return(Call(<<Literal("this")>>, <<>>, <<V("v"), V("w")>>))>>)>>)
      Proxied ==
        MethodOf(PUBLIC, <<"int">>, 1, <<ParamV>>, <<"p.A">>, <<Block0(<<
          Local("int", 1, <<>>, <<>>),
          [node |-> "TryStatement", statements |-> Block0(<<
             Run(Call(<<V("w")>>, <<>>, <<Choice(Compared(V("v"), "!=", Null),
                                                  Call(<<V("v")>>, <<>>, <<>>), Null)>>))>>)],
          [node |-> "FinallyStatement", statements |-> Block0(<<Run(Call(<<V("w")>>, <<>>, <<>>))>>)],
          Return(V("w"))>>)>>)
      Proxy == ClassOf(PRIVATE \cup STATIC, "class", <<>>, <<"p.A">>,
                       <<FieldOf(PRIVATE, <<>>), Proxied>>)
      Stub == ClassOf(PUBLIC \cup STATIC \cup ABSTRACT, "class", <<"p.A">>, <<"p.A">>,
                      <<FieldOf(PRIVATE \cup STATIC \cup FINAL, <<"0">>), OnTransact, Proxy>>)
  IN  ClassOf(PUBLIC, "interface", <<>>, <<"p.A">>,
              <<Stub, MethodOf(PUBLIC, <<"int">>, 1, <<ParamV>>, <<"p.A">>, <<>>)>>)

Classes ==
  {AnInterface, ClassOf({}, "class", <<"List">>, <<>>, <<>>), ClassOf(PROTECTED, "interface", <<>>, <<>>, <<>>)}
    \cup {ClassOf(PUBLIC, "class", <<>>, <<>>, <<FieldOf(m \cup STATIC, v)>>) :
            m \in {{}, PRIVATE, FINAL}, v \in {<<>>, <<"0">>}}
    \cup {ClassOf(PUBLIC, what, <<>>, <<>>, <<m>>) : what \in {"class", "interface"}, m \in Methods}
    \cup {ClassOf(PUBLIC, "class", <<>>, <<>>,
                  <<MethodOf({}, <<"int">>, 0, <<>>, <<>>, <<Block0(<<s>>)>>)>>) : s \in Statements}

MCDocuments ==
  {[node |-> "Document", package |-> <<"p">>, classes |-> <<c>>] : c \in Classes}
    \cup {[node |-> "Document", package |-> <<>>, classes |-> <<AnInterface>>]}

=============================================================================
