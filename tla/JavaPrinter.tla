----------------------------- MODULE JavaPrinter -----------------------------
(***************************************************************************)
(* The syntax tree of AST.h and how it is written: every Write prints some *)
(* words itself and calls Write for the nodes below.  A node has the       *)
(* fields of its struct; a pointer that may be NULL is a sequence of at    *)
(* most one element, a vector a sequence.  A type stands for the name it   *)
(* is written with, and a Variable among the expressions for its name.     *)
(* Words are separated; white space and comments are left out.             *)
(***************************************************************************)
EXTENDS Integers, SequencesExt

CONSTANT Documents      \* the trees generate_java is run on

VARIABLES
  document,
  todo,     \* what the calls of Write under way have still to do, innermost first
  text      \* the words in the file

vars == <<document, todo, text>>

\* One fprintf.
Put(words) == [node |-> "fprintf", words |-> words]

\* The modifiers are bits, those of the scope 1 and 2.
PUBLIC == {1}
PRIVATE == {2}
PROTECTED == {1, 2}
SCOPE_MASK == {1, 2}
STATIC == {16}
FINAL == {32}
ABSTRACT == {64}
OVERRIDE == {256}
ALL_MODIFIERS == SCOPE_MASK \cup STATIC \cup FINAL \cup ABSTRACT \cup OVERRIDE

WriteModifiers(mod, mask) ==
  LET m == mod \cap mask
      Flag(flag, word) == IF flag \subseteq m THEN <<word>> ELSE <<>>
  IN  Put(Flag(OVERRIDE, "@Override")
          \o (CASE m \cap SCOPE_MASK = PUBLIC -> <<"public">>
                [] m \cap SCOPE_MASK = PRIVATE -> <<"private">>
                [] m \cap SCOPE_MASK = PROTECTED -> <<"protected">>
                [] OTHER -> <<>>)
          \o Flag(STATIC, "static") \o Flag(FINAL, "final") \o Flag(ABSTRACT, "abstract"))

\* Some pieces with commas between them.
Listed(pieces) ==
  FlattenSeq([k \in DOMAIN pieces |-> IF k = Len(pieces) THEN <<pieces[k]>>
                                     ELSE <<pieces[k], Put(<<",">>)>>])

\* What is written for a pointer unless it is NULL.
IfAny(pointer, Pieces(_)) == IF pointer = <<>> THEN <<>> ELSE Pieces(pointer[1])

Dimensions(n) == FlattenSeq([k \in 1..n |-> <<"[", "]">>])

\* Variable::WriteDeclaration.
WriteDeclaration(v) == Put(<<v.type>> \o Dimensions(v.dimension) \o <<v.name>>)

-----------------------------------------------------------------------------
(* Expressions.                                                            *)

LiteralWrite(e) == <<Put(<<e.value>>)>>
StringLiteralWrite(e) == <<Put(<<"\"", e.value, "\"">>)>>
VariableWrite(e) == <<Put(<<e.name>>)>>

FieldVariableWrite(e) ==
  (IF e.object # <<>> THEN e.object ELSE IfAny(e.clazz, LAMBDA c : <<Put(<<c>>)>>))
    \o <<Put(<<".", e.name>>)>>

\* The cast of an assignment or a declaration, before its value.
ValueWrite(cast, rvalue) ==
  <<Put(<<"=">>)>> \o IfAny(cast, LAMBDA c : <<Put(<<"(", c, ")">>)>>) \o <<rvalue>>

AssignmentWrite(e) == <<e.lvalue>> \o ValueWrite(e.cast, e.rvalue)

MethodCallWrite(e) ==
  (IF e.obj # <<>> THEN e.obj \o <<Put(<<".">>)>>
   ELSE IfAny(e.clazz, LAMBDA c : <<Put(<<c, ".">>)>>))
    \o <<Put(<<e.name, "(">>)>> \o Listed(e.arguments) \o <<Put(<<")">>)>>

ComparisonWrite(e) ==
  <<Put(<<"(">>), e.lvalue, Put(<<e.op>>), e.rvalue, Put(<<")">>)>>

NewWrite(e) == <<Put(<<"new", e.type, "(">>)>> \o Listed(e.arguments) \o <<Put(<<")">>)>>
NewArrayWrite(e) == <<Put(<<"new", e.type, "[">>), e.size, Put(<<"]">>)>>

TernaryWrite(e) ==
  <<Put(<<"(", "(">>), e.condition, Put(<<")", "?", "(">>), e.ifpart,
    Put(<<")", ":", "(">>), e.elsepart, Put(<<")", ")">>)>>

\* Plausible bug, for the mutation runs: no parentheses around the whole.
CastWriteBare(e) == <<Put(<<"(", e.type, ")">>), e.expression>>

CastWrite(e) == <<Put(<<"(", "(", e.type, ")">>), e.expression, Put(<<")">>)>>

-----------------------------------------------------------------------------
(* Statements.                                                             *)

BlockWrite(s) == <<Put(<<"{">>)>> \o s.statements \o <<Put(<<"}">>)>>
ExpressionStatementWrite(s) == <<s.expression, Put(<<";">>)>>

VariableDeclarationWrite(s) ==
  <<WriteDeclaration(s.lvalue)>> \o IfAny(s.rvalue, LAMBDA e : ValueWrite(s.cast, e))
    \o <<Put(<<";">>)>>

\* The last elseif has no expression.
IfWrite(s) ==
  IfAny(s.expression, LAMBDA e : <<Put(<<"if", "(">>), e, Put(<<")">>)>>)
    \o <<s.statements>> \o IfAny(s.elseif, LAMBDA other : <<Put(<<"else">>), other>>)

ReturnWrite(s) == <<Put(<<"return">>), s.expression, Put(<<";">>)>>
TryWrite(s) == <<Put(<<"try">>), s.statements>>

CatchWrite(s) ==
  <<Put(<<"catch">>)>>
    \o IfAny(s.exception, LAMBDA v : <<Put(<<"(">>), WriteDeclaration(v), Put(<<")">>)>>)
    \o <<s.statements>>

FinallyWrite(s) == <<Put(<<"finally">>), s.statements>>

\* An empty label, or none, is the default.
CaseWrite(c) ==
  LET Label(name) == IF name = "" THEN Put(<<"default", ":">>) ELSE Put(<<"case", name, ":">>)
  IN  (IF c.cases = <<>> THEN <<Label("")>> ELSE [k \in DOMAIN c.cases |-> Label(c.cases[k])])
        \o <<c.statements>>

SwitchWrite(s) ==
  <<Put(<<"switch", "(">>), s.expression, Put(<<")", "{">>)>> \o s.cases \o <<Put(<<"}">>)>>

BreakWrite(s) == <<Put(<<"break", ";">>)>>

-----------------------------------------------------------------------------
(* Classes.                                                                *)

FieldWrite(f) ==
  <<WriteModifiers(f.modifiers, SCOPE_MASK \cup STATIC \cup FINAL \cup OVERRIDE),
    Put(<<f.variable.type, f.variable.name>>)>>
    \o IfAny(f.value, LAMBDA value : <<Put(<<"=", value>>)>>) \o <<Put(<<";">>)>>

\* A constructor has no return type, a method of an interface no statements.
MethodWrite(m) ==
  <<WriteModifiers(m.modifiers, SCOPE_MASK \cup STATIC \cup ABSTRACT \cup FINAL \cup OVERRIDE)>>
    \o IfAny(m.returnType, LAMBDA t : <<Put(<<t>> \o Dimensions(m.returnTypeDimension))>>)
    \o <<Put(<<m.name, "(">>)>>
    \o Listed([k \in DOMAIN m.parameters |-> WriteDeclaration(m.parameters[k])])
    \o <<Put(<<")">>)>>
    \o (IF m.exceptions = <<>> THEN <<>>
        ELSE <<Put(<<"throws">>)>>
               \o Listed([k \in DOMAIN m.exceptions |-> Put(<<m.exceptions[k]>>)]))
    \o IF m.statements = <<>> THEN <<Put(<<";">>)>> ELSE m.statements

\* The interfaces have no commas between them.
ClassWrite(c) ==
  <<WriteModifiers(c.modifiers, ALL_MODIFIERS), Put(<<c.what, c.type>>)>>
    \o IfAny(c.extends, LAMBDA t : <<Put(<<"extends", t>>)>>)
    \o (IF c.interfaces = <<>> THEN <<>>
        ELSE <<Put(<<IF c.what = "class" THEN "implements" ELSE "extends">> \o c.interfaces)>>)
    \o <<Put(<<"{">>)>> \o c.elements \o <<Put(<<"}">>)>>

DocumentWrite(d) ==
  IfAny(d.package, LAMBDA package : <<Put(<<"package", package, ";">>)>>) \o d.classes

\* The virtual method Write.
Written(n) ==
  CASE n.node = "LiteralExpression" -> LiteralWrite(n)
    [] n.node = "StringLiteralExpression" -> StringLiteralWrite(n)
    [] n.node = "Variable" -> VariableWrite(n)
    [] n.node = "FieldVariable" -> FieldVariableWrite(n)
    [] n.node = "Assignment" -> AssignmentWrite(n)
    [] n.node = "MethodCall" -> MethodCallWrite(n)
    [] n.node = "Comparison" -> ComparisonWrite(n)
    [] n.node = "NewExpression" -> NewWrite(n)
    [] n.node = "NewArrayExpression" -> NewArrayWrite(n)
    [] n.node = "Ternary" -> TernaryWrite(n)
    [] n.node = "Cast" -> CastWrite(n)
    [] n.node = "StatementBlock" -> BlockWrite(n)
    [] n.node = "ExpressionStatement" -> ExpressionStatementWrite(n)
    [] n.node = "VariableDeclaration" -> VariableDeclarationWrite(n)
    [] n.node = "IfStatement" -> IfWrite(n)
    [] n.node = "ReturnStatement" -> ReturnWrite(n)
    [] n.node = "TryStatement" -> TryWrite(n)
    [] n.node = "CatchStatement" -> CatchWrite(n)
    [] n.node = "FinallyStatement" -> FinallyWrite(n)
    [] n.node = "Case" -> CaseWrite(n)
    [] n.node = "SwitchStatement" -> SwitchWrite(n)
    [] n.node = "Break" -> BreakWrite(n)
    [] n.node = "Field" -> FieldWrite(n)
    [] n.node = "Method" -> MethodWrite(n)
    [] n.node = "Class" -> ClassWrite(n)
    [] n.node = "Document" -> DocumentWrite(n)

-----------------------------------------------------------------------------
(* generate_java writes the document it has built.                         *)

Init == document \in Documents /\ todo = <<document>> /\ text = <<>>

Fprintf ==
  /\ todo # <<>> /\ Head(todo).node = "fprintf"
  /\ text' = text \o Head(todo).words /\ todo' = Tail(todo)
  /\ UNCHANGED document

Write ==
  /\ todo # <<>> /\ Head(todo).node # "fprintf"
  /\ todo' = Written(Head(todo)) \o Tail(todo)
  /\ UNCHANGED <<document, text>>

Next == Fprintf \/ Write

Spec == Init /\ [][Next]_vars

=============================================================================
