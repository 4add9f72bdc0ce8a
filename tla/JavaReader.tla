----------------------------- MODULE JavaReader -----------------------------
(***************************************************************************)
(* How Java reads a text, as far as JavaPrinter writes it, with the        *)
(* precedences of the language: the trees are those of JavaPrinter.  A     *)
(* reading that begins at p is [t |-> the tree, p |-> where it ends]; no   *)
(* reading ends at 0, and none begins there.                               *)
(***************************************************************************)
EXTENDS JavaPrinter

CONSTANTS
  TypeNames,    \* words that name types
  Names,        \* words that name variables and members
  Literals      \* other values

At(s, p) == IF p \in DOMAIN s THEN s[p] ELSE ""
Expect(s, p, word) == IF At(s, p) = word THEN p + 1 ELSE 0
Failed == [t |-> [node |-> "none"], p |-> 0]
AName(s, p) == At(s, p) \in Names \cup TypeNames
IsCast(s, p) == At(s, p) = "(" /\ At(s, p + 1) \in TypeNames /\ At(s, p + 2) = ")"

\* A reading of the kind that is asked for.
RECURSIVE One(_, _, _)
Expr(s, p) == One("Expr", s, p)

\* Many readings, up to a word that closes them.
RECURSIVE Many(_, _, _, _)
Many(s, p, close, what) ==
  IF p = 0 \/ At(s, p) = close THEN [t |-> <<>>, p |-> Expect(s, p, close)]
  ELSE LET one == One(what, s, p)
           more == Many(s, one.p, close, what)
       IN  [t |-> <<one.t>> \o more.t, p |-> more.p]

\* Many with commas between them, up to a word that comes after the last.
RECURSIVE Commas(_, _, _, _)
Commas(s, p, ends, what) ==
  IF p = 0 \/ At(s, p) \in ends THEN [t |-> <<>>, p |-> p]
  ELSE LET one == One(what, s, p)
           next == IF At(s, one.p) \in ends THEN one.p ELSE Expect(s, one.p, ",")
           more == Commas(s, next, ends, what)
       IN  [t |-> <<one.t>> \o more.t, p |-> more.p]

-----------------------------------------------------------------------------
(* Expressions.                                                            *)

\* What a name is, after the object or type it belongs to.
Member(s, p, obj, clazz) ==
  IF At(s, p + 1) = "("
    THEN LET args == Commas(s, p + 2, {")"}, "Expr")
         IN  [t |-> [node |-> "MethodCall", obj |-> obj, clazz |-> clazz, name |-> At(s, p),
                     arguments |-> args.t],
              p |-> Expect(s, args.p, ")")]
    ELSE [t |-> [node |-> "FieldVariable", object |-> obj, clazz |-> clazz, name |-> At(s, p)],
          p |-> p + 1]

New(s, p) ==
  IF At(s, p + 1) = "("
    THEN LET args == Commas(s, p + 2, {")"}, "Expr")
         IN  [t |-> [node |-> "NewExpression", type |-> At(s, p), arguments |-> args.t],
              p |-> Expect(s, args.p, ")")]
    ELSE LET size == Expr(s, Expect(s, p + 1, "["))
         IN  [t |-> [node |-> "NewArrayExpression", type |-> At(s, p), size |-> size.t],
              p |-> Expect(s, size.p, "]")]

Primary(s, p) ==
  LET w == At(s, p)
  IN  CASE w = "(" -> LET e == Expr(s, p + 1) IN [e EXCEPT !.p = Expect(s, e.p, ")")]
        [] w = "new" -> New(s, p + 1)
        [] w = "\"" -> [t |-> [node |-> "StringLiteralExpression", value |-> At(s, p + 1)],
                        p |-> Expect(s, p + 2, "\"")]
        [] w \in Names /\ At(s, p + 1) = "(" -> Member(s, p, <<>>, <<>>)
        [] w \in Names /\ At(s, p + 1) # "(" -> [t |-> [node |-> "Variable", name |-> w], p |-> p + 1]
        [] w \in TypeNames /\ At(s, p + 1) = "." -> Member(s, p + 2, <<>>, <<w>>)
        [] w \in Literals \/ (w \in TypeNames /\ At(s, p + 1) # ".") ->
             [t |-> [node |-> "LiteralExpression", value |-> w], p |-> p + 1]
        [] OTHER -> Failed

RECURSIVE Selected(_, _)
Selected(s, e) ==
  IF At(s, e.p) # "." THEN e
  ELSE IF AName(s, e.p + 1) THEN Selected(s, Member(s, e.p + 1, <<e.t>>, <<>>))
  ELSE Failed

\* A cast takes all that is selected from what follows it.
RECURSIVE Unary(_, _)
Unary(s, p) ==
  IF IsCast(s, p)
    THEN LET e == Unary(s, p + 3)
         IN  [t |-> [node |-> "Cast", type |-> At(s, p + 1), expression |-> e.t], p |-> e.p]
    ELSE Selected(s, Primary(s, p))

\* The operators, the ones that bind less first; all are left associative.
Operators == <<{"&&"}, {"==", "!="}, {"<", "instanceof"}>>

RECURSIVE Binary(_, _, _), BinaryRest(_, _, _)
BinaryRest(s, left, level) ==
  IF At(s, left.p) \notin Operators[level] THEN left
  ELSE LET right == Binary(s, left.p + 1, level + 1)
       IN  BinaryRest(s, [t |-> [node |-> "Comparison", lvalue |-> left.t, op |-> At(s, left.p),
                                 rvalue |-> right.t], p |-> right.p], level)
Binary(s, p, level) ==
  IF level > Len(Operators) THEN Unary(s, p) ELSE BinaryRest(s, Binary(s, p, level + 1), level)

\* What is assigned: a cast that is not in parentheses belongs to the assignment.
Value(s, p) ==
  LET e == Expr(s, p)
  IN  IF IsCast(s, p) /\ e.t.node = "Cast"
        THEN [cast |-> <<e.t.type>>, t |-> e.t.expression, p |-> e.p]
        ELSE [cast |-> <<>>, t |-> e.t, p |-> e.p]

AnExpr(s, p) ==
  LET e == Binary(s, p, 1)
      ifpart == Expr(s, e.p + 1)
      elsepart == Expr(s, Expect(s, ifpart.p, ":"))
      value == Value(s, e.p + 1)
  IN  CASE At(s, e.p) = "?" ->
             [t |-> [node |-> "Ternary", condition |-> e.t, ifpart |-> ifpart.t,
                     elsepart |-> elsepart.t], p |-> elsepart.p]
        [] At(s, e.p) = "=" ->
             [t |-> [node |-> "Assignment", lvalue |-> e.t, rvalue |-> value.t,
                     cast |-> value.cast], p |-> value.p]
        [] OTHER -> e

-----------------------------------------------------------------------------
(* Statements.                                                             *)

\* Pairs of brackets.
RECURSIVE Brackets(_, _)
Brackets(s, p) ==
  IF At(s, p) = "[" /\ At(s, p + 1) = "]" THEN 1 + Brackets(s, p + 2) ELSE 0

Declared(s, p) ==
  LET n == Brackets(s, p + 1)
      at == p + 1 + 2 * n
  IN  IF At(s, p) \in TypeNames /\ At(s, at) \in Names
        THEN [t |-> [type |-> At(s, p), dimension |-> n, name |-> At(s, at)], p |-> at + 1]
        ELSE Failed

Block(s, p) ==
  LET body == Many(s, Expect(s, p, "{"), "}", "Statement")
  IN  [t |-> [node |-> "StatementBlock", statements |-> body.t], p |-> body.p]

IfNode(condition, body, other) ==
  [node |-> "IfStatement", expression |-> condition, statements |-> body, elseif |-> other]

RECURSIVE If(_, _)
If(s, p) ==
  LET e == Expr(s, Expect(s, p + 1, "("))
      body == Block(s, Expect(s, e.p, ")"))
      last == Block(s, body.p + 1)
      other == IF At(s, body.p + 1) = "if" THEN If(s, body.p + 1)
               ELSE [t |-> IfNode(<<>>, last.t, <<>>), p |-> last.p]
  IN  IF At(s, body.p) = "else"
        THEN [t |-> IfNode(<<e.t>>, body.t, <<other.t>>), p |-> other.p]
        ELSE [t |-> IfNode(<<e.t>>, body.t, <<>>), p |-> body.p]

ACase(s, p) ==
  LET label == IF At(s, p) = "default" THEN "" ELSE At(s, p + 1)
      body == Block(s, CASE At(s, p) = "default" -> Expect(s, p + 1, ":")
                         [] At(s, p) = "case" -> Expect(s, p + 2, ":")
                         [] OTHER -> 0)
  IN  [t |-> [node |-> "Case", cases |-> <<label>>, statements |-> body.t], p |-> body.p]

Switch(s, p) ==
  LET e == Expr(s, Expect(s, p + 1, "("))
      cases == Many(s, Expect(s, Expect(s, e.p, ")"), "{"), "}", "ACase")
  IN  [t |-> [node |-> "SwitchStatement", expression |-> e.t, cases |-> cases.t], p |-> cases.p]

\* try, catch and finally are statements of their own in AST.h.
Guarded(s, p) ==
  LET v == Declared(s, Expect(s, p + 1, "("))
      body == Block(s, IF At(s, p) = "catch" THEN Expect(s, v.p, ")") ELSE p + 1)
  IN  [t |-> CASE At(s, p) = "try" -> [node |-> "TryStatement", statements |-> body.t]
               [] At(s, p) = "finally" -> [node |-> "FinallyStatement", statements |-> body.t]
               [] At(s, p) = "catch" -> [node |-> "CatchStatement", exception |-> <<v.t>>,
                                         statements |-> body.t],
       p |-> body.p]

VariableDeclared(s, p) ==
  LET v == Declared(s, p)
      value == Value(s, v.p + 1)
  IN  IF At(s, v.p) = "="
        THEN [t |-> [node |-> "VariableDeclaration", lvalue |-> v.t, cast |-> value.cast,
                     rvalue |-> <<value.t>>], p |-> Expect(s, value.p, ";")]
        ELSE [t |-> [node |-> "VariableDeclaration", lvalue |-> v.t, cast |-> <<>>,
                     rvalue |-> <<>>], p |-> Expect(s, v.p, ";")]

AStatement(s, p) ==
  LET e == Expr(s, IF At(s, p) = "return" THEN p + 1 ELSE p)
      Ended(node) == [t |-> [node |-> node, expression |-> e.t], p |-> Expect(s, e.p, ";")]
  IN  CASE At(s, p) = "{" -> Block(s, p)
        [] At(s, p) = "if" -> If(s, p)
        [] At(s, p) = "switch" -> Switch(s, p)
        [] At(s, p) \in {"try", "catch", "finally"} -> Guarded(s, p)
        [] At(s, p) = "break" -> [t |-> [node |-> "Break"], p |-> Expect(s, p + 1, ";")]
        [] At(s, p) = "return" -> Ended("ReturnStatement")
        [] At(s, p) \in TypeNames /\ At(s, p + 1) # "." -> VariableDeclared(s, p)
        [] OTHER -> Ended("ExpressionStatement")

-----------------------------------------------------------------------------
(* Classes.                                                                *)

Bits(word) ==
  CASE word = "@Override" -> OVERRIDE [] word = "public" -> PUBLIC
    [] word = "private" -> PRIVATE [] word = "protected" -> PROTECTED
    [] word = "static" -> STATIC [] word = "final" -> FINAL
    [] word = "abstract" -> ABSTRACT [] OTHER -> {}

RECURSIVE Modifiers(_, _)
Modifiers(s, p) ==
  IF Bits(At(s, p)) = {} THEN [t |-> {}, p |-> p]
  ELSE LET more == Modifiers(s, p + 1) IN [t |-> Bits(At(s, p)) \cup more.t, p |-> more.p]

ATypeName(s, p) ==
  IF At(s, p) \in TypeNames THEN [t |-> At(s, p), p |-> p + 1] ELSE [t |-> "", p |-> 0]

AField(s, m, p) ==
  LET assigned == At(s, p + 2) = "="
  IN  [t |-> [node |-> "Field", modifiers |-> m,
              variable |-> [type |-> At(s, p), name |-> At(s, p + 1)],
              value |-> IF assigned THEN <<At(s, p + 3)>> ELSE <<>>],
       p |-> Expect(s, IF assigned THEN p + 4 ELSE p + 2, ";")]

\* A method from its name on.
AMethod(s, m, returned, n, p) ==
  LET params == Commas(s, Expect(s, p + 1, "("), {")"}, "Declared")
      q == Expect(s, params.p, ")")
      thrown == IF At(s, q) = "throws" THEN Commas(s, q + 1, {"{", ";"}, "ATypeName")
                ELSE [t |-> <<>>, p |-> q]
      body == Block(s, thrown.p)
      abstract == At(s, thrown.p) = ";"
  IN  [t |-> [node |-> "Method", modifiers |-> m, returnType |-> returned,
              returnTypeDimension |-> n, name |-> At(s, p), parameters |-> params.t,
              exceptions |-> thrown.t, statements |-> IF abstract THEN <<>> ELSE <<body.t>>],
       p |-> IF abstract THEN thrown.p + 1 ELSE body.p]

AClass(s, m, p) ==
  LET extends == At(s, p) = "class" /\ At(s, p + 2) = "extends"
      at == IF extends THEN p + 4 ELSE p + 2
      heirs == Commas(s, at + 1, {"{"}, "ATypeName")
      some == At(s, at) = IF At(s, p) = "class" THEN "implements" ELSE "extends"
      body == Many(s, Expect(s, IF some THEN heirs.p ELSE at, "{"), "}", "Element")
  IN  [t |-> [node |-> "Class", modifiers |-> m, what |-> At(s, p), type |-> At(s, p + 1),
              extends |-> IF extends THEN <<At(s, p + 3)>> ELSE <<>>,
              interfaces |-> IF some THEN heirs.t ELSE <<>>, elements |-> body.t],
       p |-> body.p]

AnElement(s, p) ==
  LET m == Modifiers(s, p)
      n == Brackets(s, m.p + 1)
  IN  CASE At(s, m.p) \in {"class", "interface"} -> AClass(s, m.t, m.p)
        [] AName(s, m.p) /\ At(s, m.p + 1) = "(" -> AMethod(s, m.t, <<>>, 0, m.p)
        [] AName(s, m.p) /\ At(s, m.p + 2 * n + 2) = "(" ->
             AMethod(s, m.t, <<At(s, m.p)>>, n, m.p + 2 * n + 1)
        [] AName(s, m.p) /\ At(s, m.p + 2) \in {"=", ";"} -> AField(s, m.t, m.p)
        [] OTHER -> Failed

One(what, s, p) ==
  CASE what = "Expr" -> AnExpr(s, p)
    [] what = "Statement" -> AStatement(s, p)
    [] what = "ACase" -> ACase(s, p)
    [] what = "Declared" -> Declared(s, p)
    [] what = "ATypeName" -> ATypeName(s, p)
    [] what = "Element" -> AnElement(s, p)

\* All of a text.
Read(s) ==
  LET packaged == At(s, 1) = "package"
      c == One("Element", s, IF packaged THEN Expect(s, 3, ";") ELSE 1)
  IN  IF c.p = Len(s) + 1
        THEN [node |-> "Document", package |-> IF packaged THEN <<At(s, 2)>> ELSE <<>>,
              classes |-> <<c.t>>]
        ELSE Failed.t

-----------------------------------------------------------------------------
(* Properties.                                                             *)

\* The file says what the back end built: read with the precedences of Java it
\* is the same tree, whatever is nested in what.
ReadsBack == todo = <<>> => Read(text) = document

=============================================================================
