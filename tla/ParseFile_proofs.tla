--------------------------- MODULE ParseFile_proofs ---------------------------
(***************************************************************************)
(* Proofs about module ParseContract, for every file: the type invariant,  *)
(* that the document is handed over exactly when the parser says it found  *)
(* no error, that everything handed over is in the order of the file, and  *)
(* that a file parsed without an error has been handed over whole.         *)
(***************************************************************************)
EXTENDS ParseContract, SequenceLemmas

-----------------------------------------------------------------------------
(* Nodes: what the values on the stack are.                                *)

Place == Nat \ {0}
TypeNode == [type : Place, array : {0} \cup Place]
ArgNode == [direction : {0} \cup Place, type : TypeNode, name : Place]
MethodNode ==
  [kind : {"method"}, oneway : BOOLEAN, type : TypeNode, name : Place, args : Seq(ArgNode)]
ParcelableNode == [kind : {"parcelable", "flattenable"}, name : Place, package : Nat]
InterfaceNode ==
  [kind : {"binder", "oneway_binder", "rpc"}, name : Place, package : Nat, items : Seq(MethodNode)]
ItemNode == ParcelableNode \cup InterfaceNode

\* The places of the file a node has its words from.
TypePlaces(t) == {t.type, t.array} \ {0}
ArgPlaces(a) == ({a.direction, a.name} \ {0}) \cup TypePlaces(a.type)
ArgsPlaces(args) == UNION {ArgPlaces(args[k]) : k \in DOMAIN args}
MethodPlaces(m) == TypePlaces(m.type) \cup {m.name} \cup ArgsPlaces(m.args)
MethodsPlaces(methods) == UNION {MethodPlaces(methods[k]) : k \in DOMAIN methods}
ItemPlaces(item) ==
  {item.name} \cup IF "items" \in DOMAIN item THEN MethodsPlaces(item.items) ELSE {}
ItemsPlaces(items) == UNION {ItemPlaces(items[k]) : k \in DOMAIN items}

\* They are in the order of the file.
Before(A, B) == \A a \in A, b \in B : a < b

TypeOrdered(t) == t.array # 0 => t.type < t.array
ArgOrdered(a) ==
  /\ TypeOrdered(a.type)
  /\ Before({a.direction}, TypePlaces(a.type)) /\ Before(TypePlaces(a.type), {a.name})
ArgsOrdered(args) ==
  /\ \A k \in DOMAIN args : ArgOrdered(args[k])
  /\ \A j, k \in DOMAIN args : j < k => Before(ArgPlaces(args[j]), ArgPlaces(args[k]))
MethodOrdered(m) ==
  /\ TypeOrdered(m.type) /\ Before(TypePlaces(m.type), {m.name})
  /\ Before({m.name}, ArgsPlaces(m.args)) /\ ArgsOrdered(m.args)
MethodsOrdered(methods) ==
  /\ \A k \in DOMAIN methods : MethodOrdered(methods[k])
  /\ \A j, k \in DOMAIN methods :
       j < k => Before(MethodPlaces(methods[j]), MethodPlaces(methods[k]))
ItemOrdered(item) ==
  "items" \in DOMAIN item =>
    Before({item.name}, MethodsPlaces(item.items)) /\ MethodsOrdered(item.items)
ItemsOrdered(items) ==
  /\ \A k \in DOMAIN items : ItemOrdered(items[k])
  /\ \A j, k \in DOMAIN items : j < k => Before(ItemPlaces(items[j]), ItemPlaces(items[k]))

\* The symbols whose values are nothing the document is made of.
Headless == {"error", "document", "headers", "package", "imports", "interface_keywords"}

\* The value of a symbol, and the places it is from.
DeclarationSymbols == {"parcelable_decl", "interface_decl", "declaration"}

Means(x, v) ==
  /\ x \in Tokens => v \in Place
  /\ x = "direction" => v \in {0} \cup Place
  /\ x = "type" => v \in TypeNode /\ TypeOrdered(v)
  /\ x = "arg" => v \in ArgNode /\ ArgOrdered(v)
  /\ x = "arg_list" => v \in Seq(ArgNode) /\ ArgsOrdered(v)
  /\ x = "method_decl" => v \in MethodNode /\ MethodOrdered(v)
  /\ x = "interface_items" => v \in Seq(MethodNode) /\ MethodsOrdered(v)
  /\ x = "interface_header" => v \in {"binder", "oneway_binder", "rpc"}
  /\ x \in DeclarationSymbols => v = Absent \/ (v \in ItemNode /\ ItemOrdered(v))
  /\ x = "document_items" => v \in Seq(ItemNode) /\ ItemsOrdered(v)

Places(x, v) ==
  IF x \in Tokens \cup {"direction"} THEN {v} \ {0}
  ELSE IF x = "type" THEN TypePlaces(v)
  ELSE IF x = "arg" THEN ArgPlaces(v)
  ELSE IF x = "arg_list" THEN ArgsPlaces(v)
  ELSE IF x = "method_decl" THEN MethodPlaces(v)
  ELSE IF x = "interface_items" THEN MethodsPlaces(v)
  ELSE IF x \in DeclarationSymbols THEN (IF v = Absent THEN {} ELSE ItemPlaces(v))
  ELSE IF x = "document_items" THEN ItemsPlaces(v)
  ELSE {}

-----------------------------------------------------------------------------
(* The actions of the grammar make nodes of nodes.                         *)

\* What the symbols mean, one by one.
LEMMA MeansToken ==
  ASSUME NEW x \in Tokens, NEW v
  PROVE  (Means(x, v) <=> v \in Place) /\ Places(x, v) = {v} \ {0}
BY Zenon DEF Means, Places, Tokens, DeclarationSymbols

LEMMA MeansDirection ==
  ASSUME NEW v
  PROVE  /\ (Means("direction", v) <=> v \in {0} \cup Place)
         /\ Places("direction", v) = {v} \ {0}
BY Zenon DEF Means, Places, Tokens, DeclarationSymbols

LEMMA MeansType ==
  ASSUME NEW v
  PROVE  /\ (Means("type", v) <=> v \in TypeNode /\ TypeOrdered(v))
         /\ Places("type", v) = TypePlaces(v)
BY Zenon DEF Means, Places, Tokens, DeclarationSymbols

LEMMA MeansArg ==
  ASSUME NEW v
  PROVE  /\ (Means("arg", v) <=> v \in ArgNode /\ ArgOrdered(v))
         /\ Places("arg", v) = ArgPlaces(v)
BY Zenon DEF Means, Places, Tokens, DeclarationSymbols

LEMMA MeansArgs ==
  ASSUME NEW v
  PROVE  /\ (Means("arg_list", v) <=> v \in Seq(ArgNode) /\ ArgsOrdered(v))
         /\ Places("arg_list", v) = ArgsPlaces(v)
BY Zenon DEF Means, Places, Tokens, DeclarationSymbols

LEMMA MeansMethod ==
  ASSUME NEW v
  PROVE  /\ (Means("method_decl", v) <=> v \in MethodNode /\ MethodOrdered(v))
         /\ Places("method_decl", v) = MethodPlaces(v)
BY Zenon DEF Means, Places, Tokens, DeclarationSymbols

LEMMA MeansMethods ==
  ASSUME NEW v
  PROVE  /\ (Means("interface_items", v) <=> v \in Seq(MethodNode) /\ MethodsOrdered(v))
         /\ Places("interface_items", v) = MethodsPlaces(v)
BY Zenon DEF Means, Places, Tokens, DeclarationSymbols

LEMMA MeansHeader ==
  ASSUME NEW v
  PROVE  /\ (Means("interface_header", v) <=> v \in {"binder", "oneway_binder", "rpc"})
         /\ Places("interface_header", v) = {}
BY Zenon DEF Means, Places, Tokens, DeclarationSymbols

LEMMA MeansDeclaration ==
  ASSUME NEW x \in DeclarationSymbols, NEW v
  PROVE  /\ Means(x, v) <=> v = Absent \/ (v \in ItemNode /\ ItemOrdered(v))
         /\ Places(x, v) = IF v = Absent THEN {} ELSE ItemPlaces(v)
BY Zenon DEF Means, Places, Tokens, DeclarationSymbols

LEMMA MeansItems ==
  ASSUME NEW v
  PROVE  /\ (Means("document_items", v) <=> v \in Seq(ItemNode) /\ ItemsOrdered(v))
         /\ Places("document_items", v) = ItemsPlaces(v)
BY Zenon DEF Means, Places, Tokens, DeclarationSymbols

LEMMA MeansNothing ==
  ASSUME NEW x \in Headless, NEW v
  PROVE  Means(x, v) /\ Places(x, v) = {}
BY Zenon DEF Means, Places, Tokens, DeclarationSymbols, Headless

\* A node more at the end of a list, behind all of it.
LEMMA ArgAppended ==
  ASSUME NEW args \in Seq(ArgNode), ArgsOrdered(args), NEW arg \in ArgNode, ArgOrdered(arg),
         Before(ArgsPlaces(args), ArgPlaces(arg))
  PROVE  /\ Append(args, arg) \in Seq(ArgNode) /\ ArgsOrdered(Append(args, arg))
         /\ ArgsPlaces(Append(args, arg)) \subseteq ArgsPlaces(args) \cup ArgPlaces(arg)
<1> DEFINE more == Append(args, arg)
<1>1. /\ more \in Seq(ArgNode) /\ Len(args) \in Nat /\ DOMAIN args = 1..Len(args)
      /\ DOMAIN more = 1..(Len(args) + 1) /\ more[Len(args) + 1] = arg
      /\ \A k \in 1..Len(args) : more[k] = args[k]
  OBVIOUS
<1> HIDE DEF more
<1>2. \A k \in DOMAIN more : k \in DOMAIN args \/ k = Len(args) + 1
  BY <1>1
<1>3. ASSUME NEW j \in DOMAIN more, NEW k \in DOMAIN more, j < k
      PROVE  Before(ArgPlaces(more[j]), ArgPlaces(more[k]))
  <2>1. j \in DOMAIN args
    BY <1>1, <1>3
  <2>2. ArgPlaces(args[j]) \subseteq ArgsPlaces(args)
    BY <2>1 DEF ArgsPlaces
  <2>3. CASE k \in DOMAIN args
    BY <1>1, <1>3, <2>1, <2>3 DEF ArgsOrdered
  <2>4. CASE k = Len(args) + 1
    BY <1>1, <2>1, <2>2, <2>4 DEF Before
  <2>5. QED
    BY <1>2, <2>3, <2>4
<1>4. \A k \in DOMAIN more : ArgOrdered(more[k])
  BY <1>1, <1>2 DEF ArgsOrdered
<1>5. ArgsPlaces(more) \subseteq ArgsPlaces(args) \cup ArgPlaces(arg)
  BY <1>1, <1>2 DEF ArgsPlaces
<1>6. QED
  BY <1>1, <1>3, <1>4, <1>5 DEF ArgsOrdered, more

\* The same for methods.
LEMMA MethodAppended ==
  ASSUME NEW methods \in Seq(MethodNode), MethodsOrdered(methods),
         NEW method \in MethodNode, MethodOrdered(method),
         Before(MethodsPlaces(methods), MethodPlaces(method))
  PROVE  /\ Append(methods, method) \in Seq(MethodNode)
         /\ MethodsOrdered(Append(methods, method))
         /\ MethodsPlaces(Append(methods, method)) \subseteq
              MethodsPlaces(methods) \cup MethodPlaces(method)
<1> DEFINE more == Append(methods, method)
<1>1. /\ more \in Seq(MethodNode) /\ Len(methods) \in Nat /\ DOMAIN methods = 1..Len(methods)
      /\ DOMAIN more = 1..(Len(methods) + 1) /\ more[Len(methods) + 1] = method
      /\ \A k \in 1..Len(methods) : more[k] = methods[k]
  OBVIOUS
<1> HIDE DEF more
<1>2. \A k \in DOMAIN more : k \in DOMAIN methods \/ k = Len(methods) + 1
  BY <1>1
<1>3. ASSUME NEW j \in DOMAIN more, NEW k \in DOMAIN more, j < k
      PROVE  Before(MethodPlaces(more[j]), MethodPlaces(more[k]))
  <2>1. j \in DOMAIN methods
    BY <1>1, <1>3
  <2>2. MethodPlaces(methods[j]) \subseteq MethodsPlaces(methods)
    BY <2>1 DEF MethodsPlaces
  <2>3. CASE k \in DOMAIN methods
    BY <1>1, <1>3, <2>1, <2>3 DEF MethodsOrdered
  <2>4. CASE k = Len(methods) + 1
    BY <1>1, <2>1, <2>2, <2>4 DEF Before
  <2>5. QED
    BY <1>2, <2>3, <2>4
<1>4. \A k \in DOMAIN more : MethodOrdered(more[k])
  BY <1>1, <1>2 DEF MethodsOrdered
<1>5. MethodsPlaces(more) \subseteq MethodsPlaces(methods) \cup MethodPlaces(method)
  BY <1>1, <1>2 DEF MethodsPlaces
<1>6. QED
  BY <1>1, <1>3, <1>4, <1>5 DEF MethodsOrdered, more

\* The same for declarations.
LEMMA ItemAppended ==
  ASSUME NEW items \in Seq(ItemNode), ItemsOrdered(items), NEW item \in ItemNode, ItemOrdered(item),
         Before(ItemsPlaces(items), ItemPlaces(item))
  PROVE  /\ Append(items, item) \in Seq(ItemNode) /\ ItemsOrdered(Append(items, item))
         /\ ItemsPlaces(Append(items, item)) \subseteq ItemsPlaces(items) \cup ItemPlaces(item)
<1> DEFINE more == Append(items, item)
<1>1. /\ more \in Seq(ItemNode) /\ Len(items) \in Nat /\ DOMAIN items = 1..Len(items)
      /\ DOMAIN more = 1..(Len(items) + 1) /\ more[Len(items) + 1] = item
      /\ \A k \in 1..Len(items) : more[k] = items[k]
  OBVIOUS
<1> HIDE DEF more
<1>2. \A k \in DOMAIN more : k \in DOMAIN items \/ k = Len(items) + 1
  BY <1>1
<1>3. ASSUME NEW j \in DOMAIN more, NEW k \in DOMAIN more, j < k
      PROVE  Before(ItemPlaces(more[j]), ItemPlaces(more[k]))
  <2>1. j \in DOMAIN items
    BY <1>1, <1>3
  <2>2. ItemPlaces(items[j]) \subseteq ItemsPlaces(items)
    BY <2>1 DEF ItemsPlaces
  <2>3. CASE k \in DOMAIN items
    BY <1>1, <1>3, <2>1, <2>3 DEF ItemsOrdered
  <2>4. CASE k = Len(items) + 1
    BY <1>1, <2>1, <2>2, <2>4 DEF Before
  <2>5. QED
    BY <1>2, <2>3, <2>4
<1>4. \A k \in DOMAIN more : ItemOrdered(more[k])
  BY <1>1, <1>2 DEF ItemsOrdered
<1>5. ItemsPlaces(more) \subseteq ItemsPlaces(items) \cup ItemPlaces(item)
  BY <1>1, <1>2 DEF ItemsPlaces
<1>6. QED
  BY <1>1, <1>3, <1>4, <1>5 DEF ItemsOrdered, more

\* A list without a node.
LEMMA NoNodes ==
  \A x \in {"arg_list", "interface_items", "document_items"} :
    Means(x, <<>>) /\ Places(x, <<>>) = {}
<1>1. <<>> \in Seq(ArgNode) /\ ArgsOrdered(<<>>) /\ ArgsPlaces(<<>>) = {}
  BY DEF ArgsOrdered, ArgsPlaces
<1>2. <<>> \in Seq(MethodNode) /\ MethodsOrdered(<<>>) /\ MethodsPlaces(<<>>) = {}
  BY DEF MethodsOrdered, MethodsPlaces
<1>3. <<>> \in Seq(ItemNode) /\ ItemsOrdered(<<>>) /\ ItemsPlaces(<<>>) = {}
  BY DEF ItemsOrdered, ItemsPlaces
<1>4. QED
  BY <1>1, <1>2, <1>3, MeansArgs, MeansMethods, MeansItems, Zenon

-----------------------------------------------------------------------------
(* The actions of the grammar: each makes what its symbol means, of the    *)
(* places it was given.                                                    *)

\* A rule has one of the forms the table lists.
LEMMA RuleForms ==
  RulesTyped /\ TablesTyped /\ ItemsExplain /\ DocumentWhole /\ RulesSpelled /\ PlacesApart
BY TablesAssumption

\* v are the values of the symbols, in the order of the file.
Given(symbols, v) ==
  /\ DOMAIN v = 1..Len(symbols)
  /\ \A k \in 1..Len(symbols) : Means(symbols[k], v[k])
  /\ \A j, k \in 1..Len(symbols) :
       j < k => Before(Places(symbols[j], v[j]), Places(symbols[k], v[k]))

GivenPlaces(symbols, v) == UNION {Places(symbols[k], v[k]) : k \in 1..Len(symbols)}

Makes(lhs, value, symbols, v) ==
  Means(lhs, value) /\ Places(lhs, value) \subseteq GivenPlaces(symbols, v)

\* "arg_list : arg_list ',' arg"
LEMMA MadeArgs ==
  ASSUME NEW symbols, NEW v, Given(symbols, v), Len(symbols) \in Nat, 3 <= Len(symbols),
         symbols[1] = "arg_list", symbols[3] = "arg"
  PROVE  Makes("arg_list", AppendArg(v[1], v[3]), symbols, v)
<1>1. /\ v[1] \in Seq(ArgNode) /\ ArgsOrdered(v[1]) /\ v[3] \in ArgNode /\ ArgOrdered(v[3])
      /\ Before(ArgsPlaces(v[1]), ArgPlaces(v[3]))
      /\ ArgsPlaces(v[1]) \cup ArgPlaces(v[3]) \subseteq GivenPlaces(symbols, v)
  <2>1. 1 \in 1..Len(symbols) /\ 3 \in 1..Len(symbols)
    OBVIOUS
  <2>2. /\ Means("arg_list", v[1]) /\ Means("arg", v[3])
        /\ Before(Places("arg_list", v[1]), Places("arg", v[3]))
        /\ Places("arg_list", v[1]) \cup Places("arg", v[3]) \subseteq GivenPlaces(symbols, v)
    BY <2>1 DEF Given, GivenPlaces
  <2>3. QED
    BY <2>2, MeansArgs, MeansArg
<1>2. CASE v[1] = <<>>
  BY <1>1, <1>2, MeansArgs, MeansArg DEF Makes, AppendArg
<1>3. CASE v[1] # <<>>
  <2>1. AppendArg(v[1], v[3]) = Append(v[1], v[3])
    BY <1>3 DEF AppendArg
  <2>2. /\ Append(v[1], v[3]) \in Seq(ArgNode) /\ ArgsOrdered(Append(v[1], v[3]))
        /\ ArgsPlaces(Append(v[1], v[3])) \subseteq ArgsPlaces(v[1]) \cup ArgPlaces(v[3])
    BY <1>1, ArgAppended
  <2>3. ArgsPlaces(Append(v[1], v[3])) \subseteq GivenPlaces(symbols, v)
    BY <1>1, <2>2
  <2>4. QED
    BY <2>1, <2>2, <2>3, MeansArgs, Zenon DEF Makes
<1>4. QED
  BY <1>2, <1>3

\* "interface_items : interface_items method_decl" and
\* "document_items : document_items declaration"
LEMMA MadeMethods ==
  ASSUME NEW symbols, NEW v, Given(symbols, v), Len(symbols) \in Nat, 2 <= Len(symbols),
         symbols[1] = "interface_items", symbols[2] = "method_decl"
  PROVE  Makes("interface_items", IF v[2] = Absent THEN v[1] ELSE Append(v[1], v[2]), symbols, v)
<1>1. 1 \in 1..Len(symbols) /\ 2 \in 1..Len(symbols)
  OBVIOUS
<1>2. /\ Means("interface_items", v[1]) /\ Means("method_decl", v[2])
      /\ Before(Places("interface_items", v[1]), Places("method_decl", v[2]))
      /\ Places("interface_items", v[1]) \cup Places("method_decl", v[2])
           \subseteq GivenPlaces(symbols, v)
  BY <1>1 DEF Given, GivenPlaces
<1>3. /\ v[1] \in Seq(MethodNode) /\ MethodsOrdered(v[1])
      /\ v[2] \in MethodNode /\ MethodOrdered(v[2])
      /\ Before(MethodsPlaces(v[1]), MethodPlaces(v[2]))
      /\ MethodsPlaces(v[1]) \cup MethodPlaces(v[2]) \subseteq GivenPlaces(symbols, v)
  BY <1>2, MeansMethods, MeansMethod
<1>4. CASE v[2] = Absent
  BY <1>3, <1>4, MeansMethods, MeansMethod DEF Makes
<1>5. CASE v[2] # Absent
  <2>1. /\ Append(v[1], v[2]) \in Seq(MethodNode) /\ MethodsOrdered(Append(v[1], v[2]))
        /\ MethodsPlaces(Append(v[1], v[2])) \subseteq MethodsPlaces(v[1]) \cup MethodPlaces(v[2])
    BY <1>3, <1>5, MethodAppended
  <2>2. MethodsPlaces(Append(v[1], v[2])) \subseteq GivenPlaces(symbols, v)
    BY <1>3, <1>5, <2>1
  <2>3. QED
    BY <1>5, <2>1, <2>2, MeansMethods, Zenon DEF Makes
<1>6. QED
  BY <1>4, <1>5

LEMMA MadeItems ==
  ASSUME NEW symbols, NEW v, Given(symbols, v), Len(symbols) \in Nat, 2 <= Len(symbols),
         symbols[1] = "document_items", symbols[2] = "declaration"
  PROVE  Makes("document_items", IF v[2] = Absent THEN v[1] ELSE Append(v[1], v[2]), symbols, v)
<1>1. 1 \in 1..Len(symbols) /\ 2 \in 1..Len(symbols)
  OBVIOUS
<1>2. /\ Means("document_items", v[1]) /\ Means("declaration", v[2])
      /\ Before(Places("document_items", v[1]), Places("declaration", v[2]))
      /\ Places("document_items", v[1]) \cup Places("declaration", v[2])
           \subseteq GivenPlaces(symbols, v)
  BY <1>1 DEF Given, GivenPlaces
<1>3. /\ v[1] \in Seq(ItemNode) /\ ItemsOrdered(v[1])
      /\ v[2] = Absent \/ (v[2] \in ItemNode /\ ItemOrdered(v[2]))
      /\ Before(ItemsPlaces(v[1]), IF v[2] = Absent THEN {} ELSE ItemPlaces(v[2]))
      /\ ItemsPlaces(v[1]) \cup (IF v[2] = Absent THEN {} ELSE ItemPlaces(v[2]))
           \subseteq GivenPlaces(symbols, v)
  <2>1. "declaration" \in DeclarationSymbols
    BY DEF DeclarationSymbols
  <2>2. QED
    BY <1>2, <2>1, MeansItems, MeansDeclaration
<1>4. CASE v[2] = Absent
  BY <1>3, <1>4, MeansItems, MeansDeclaration DEF Makes
<1>5. CASE v[2] # Absent
  <2>1. /\ Append(v[1], v[2]) \in Seq(ItemNode) /\ ItemsOrdered(Append(v[1], v[2]))
        /\ ItemsPlaces(Append(v[1], v[2])) \subseteq ItemsPlaces(v[1]) \cup ItemPlaces(v[2])
    BY <1>3, <1>5, ItemAppended
  <2>2. ItemsPlaces(Append(v[1], v[2])) \subseteq GivenPlaces(symbols, v)
    BY <1>3, <1>5, <2>1
  <2>3. QED
    BY <1>5, <2>1, <2>2, MeansItems, Zenon DEF Makes
<1>6. QED
  BY <1>4, <1>5

\* "type : T_IDENTIFIER", and with an array after it.
LEMMA MadeType ==
  ASSUME NEW symbols, NEW v, Given(symbols, v), Len(symbols) \in Nat, 1 <= Len(symbols),
         symbols[1] \in Tokens
  PROVE  /\ Makes("type", [type |-> v[1], array |-> 0], symbols, v)
         /\ 2 <= Len(symbols) /\ symbols[2] \in Tokens =>
              Makes("type", [type |-> v[1], array |-> v[2]], symbols, v)
<1>1. v[1] \in Place /\ {v[1]} \subseteq GivenPlaces(symbols, v)
  <2>1. Means(symbols[1], v[1]) /\ Places(symbols[1], v[1]) \subseteq GivenPlaces(symbols, v)
    BY DEF Given, GivenPlaces
  <2>2. QED
    BY <2>1, MeansToken, MeansType DEF Place
<1>2. ASSUME 2 <= Len(symbols), symbols[2] \in Tokens
      PROVE  v[2] \in Place /\ {v[2]} \subseteq GivenPlaces(symbols, v) /\ v[1] < v[2]
  <2>1. /\ Means(symbols[2], v[2]) /\ Places(symbols[2], v[2]) \subseteq GivenPlaces(symbols, v)
        /\ Before(Places(symbols[1], v[1]), Places(symbols[2], v[2]))
    BY <1>2 DEF Given, GivenPlaces
  <2>2. /\ v[2] \in Place /\ Places(symbols[2], v[2]) = {v[2]} \ {0}
        /\ Places(symbols[1], v[1]) = {v[1]} \ {0}
    BY <1>2, <2>1, MeansToken, MeansType
  <2>3. QED
    BY <1>1, <2>1, <2>2 DEF Place, Before
<1>3. \A a \in {0} \cup Place :
        LET t == [type |-> v[1], array |-> a]
        IN  /\ t \in TypeNode /\ TypePlaces(t) = {v[1], a} \ {0}
            /\ (a = 0 \/ v[1] < a => TypeOrdered(t))
  BY <1>1 DEF TypeNode, TypePlaces, TypeOrdered, Place
<1>4. Makes("type", [type |-> v[1], array |-> 0], symbols, v)
  BY <1>1, <1>3, MeansToken, MeansType DEF Makes
<1>5. QED
  BY <1>1, <1>2, <1>3, <1>4, MeansToken, MeansType DEF Makes

\* "arg : direction type T_IDENTIFIER"
LEMMA MadeArg ==
  ASSUME NEW symbols, NEW v, Given(symbols, v), Len(symbols) \in Nat, 3 <= Len(symbols),
         symbols[1] = "direction", symbols[2] = "type", symbols[3] \in Tokens
  PROVE  Makes("arg", [direction |-> v[1], type |-> v[2], name |-> v[3]], symbols, v)
<1> DEFINE a == [direction |-> v[1], type |-> v[2], name |-> v[3]]
<1>1. 1 \in 1..Len(symbols) /\ 2 \in 1..Len(symbols) /\ 3 \in 1..Len(symbols)
  OBVIOUS
<1>2. /\ Means("direction", v[1]) /\ Means("type", v[2]) /\ Means(symbols[3], v[3])
      /\ Before(Places("direction", v[1]), Places("type", v[2]))
      /\ Before(Places("type", v[2]), Places(symbols[3], v[3]))
      /\ Places("direction", v[1]) \cup Places("type", v[2]) \cup Places(symbols[3], v[3])
           \subseteq GivenPlaces(symbols, v)
  BY <1>1 DEF Given, GivenPlaces
<1>3. /\ v[1] \in {0} \cup Place /\ v[2] \in TypeNode /\ TypeOrdered(v[2]) /\ v[3] \in Place
      /\ Before({v[1]} \ {0}, TypePlaces(v[2])) /\ Before(TypePlaces(v[2]), {v[3]} \ {0})
      /\ ({v[1]} \ {0}) \cup TypePlaces(v[2]) \cup ({v[3]} \ {0}) \subseteq GivenPlaces(symbols, v)
  <2>1. /\ v[1] \in {0} \cup Place /\ Places("direction", v[1]) = {v[1]} \ {0}
        /\ v[2] \in TypeNode /\ TypeOrdered(v[2]) /\ Places("type", v[2]) = TypePlaces(v[2])
        /\ v[3] \in Place /\ Places(symbols[3], v[3]) = {v[3]} \ {0}
    BY <1>2, MeansDirection, MeansType, MeansToken, MeansArg, Zenon
  <2>2. QED
    BY <1>2, <2>1
<1>4. TypePlaces(v[2]) \subseteq Place
  BY <1>3 DEF TypePlaces, TypeNode, Place
<1>5. Before({v[1]}, TypePlaces(v[2])) /\ Before(TypePlaces(v[2]), {v[3]})
  BY <1>3, <1>4 DEF Before, Place
<1>6. a \in ArgNode /\ a.direction = v[1] /\ a.type = v[2] /\ a.name = v[3]
  BY <1>3 DEF ArgNode
<1> HIDE DEF a
<1>7. ArgOrdered(a) /\ ArgPlaces(a) \subseteq GivenPlaces(symbols, v)
  BY <1>3, <1>5, <1>6 DEF ArgOrdered, ArgPlaces
<1>8. QED
  BY <1>6, <1>7, MeansDirection, MeansType, MeansToken, MeansArg DEF Makes, a

\* "method_decl : type T_IDENTIFIER '(' arg_list ')' ';'", and with T_ONEWAY
\* before it: n is the place of the type.
LEMMA MadeMethod ==
  ASSUME NEW symbols, NEW v, Given(symbols, v), Len(symbols) \in Nat,
         NEW n \in {1, 2}, n + 3 <= Len(symbols), NEW oneway \in BOOLEAN,
         symbols[n] = "type", symbols[n + 1] \in Tokens, symbols[n + 3] = "arg_list"
  PROVE  Makes("method_decl", Method(oneway, v[n], v[n + 1], v[n + 3]), symbols, v)
<1> DEFINE m == Method(oneway, v[n], v[n + 1], v[n + 3])
<1>1. n \in 1..Len(symbols) /\ n + 1 \in 1..Len(symbols) /\ n + 3 \in 1..Len(symbols)
  OBVIOUS
<1>2. /\ Means("type", v[n]) /\ Means(symbols[n + 1], v[n + 1]) /\ Means("arg_list", v[n + 3])
      /\ Before(Places("type", v[n]), Places(symbols[n + 1], v[n + 1]))
      /\ Before(Places(symbols[n + 1], v[n + 1]), Places("arg_list", v[n + 3]))
      /\ Places("type", v[n]) \subseteq GivenPlaces(symbols, v)
      /\ Places(symbols[n + 1], v[n + 1]) \subseteq GivenPlaces(symbols, v)
      /\ Places("arg_list", v[n + 3]) \subseteq GivenPlaces(symbols, v)
  BY <1>1 DEF Given, GivenPlaces
<1>3. /\ v[n] \in TypeNode /\ TypeOrdered(v[n]) /\ v[n + 1] \in Place
      /\ v[n + 3] \in Seq(ArgNode) /\ ArgsOrdered(v[n + 3])
      /\ Before(TypePlaces(v[n]), {v[n + 1]}) /\ Before({v[n + 1]}, ArgsPlaces(v[n + 3]))
      /\ TypePlaces(v[n]) \cup {v[n + 1]} \cup ArgsPlaces(v[n + 3])
           \subseteq GivenPlaces(symbols, v)
  <2>1. v[n + 1] \in Place /\ Places(symbols[n + 1], v[n + 1]) = {v[n + 1]}
    <3>1. v[n + 1] \in Place /\ Places(symbols[n + 1], v[n + 1]) = {v[n + 1]} \ {0}
      BY <1>2, MeansToken, MeansType, MeansArgs, MeansMethod
    <3>2. QED
      BY <3>1 DEF Place
  <2>2. /\ v[n] \in TypeNode /\ TypeOrdered(v[n]) /\ Places("type", v[n]) = TypePlaces(v[n])
        /\ v[n + 3] \in Seq(ArgNode) /\ ArgsOrdered(v[n + 3])
        /\ Places("arg_list", v[n + 3]) = ArgsPlaces(v[n + 3])
    BY <1>2, MeansToken, MeansType, MeansArgs, MeansMethod
  <2>3. QED
    BY <1>2, <2>1, <2>2
<1>4. /\ m \in MethodNode /\ m.type = v[n] /\ m.name = v[n + 1] /\ m.args = v[n + 3]
  BY <1>3 DEF MethodNode, Method
<1> HIDE DEF m
<1>5. MethodOrdered(m) /\ MethodPlaces(m) \subseteq GivenPlaces(symbols, v)
  BY <1>3, <1>4 DEF MethodOrdered, MethodPlaces
<1>6. QED
  BY <1>4, <1>5, MeansToken, MeansType, MeansArgs, MeansMethod DEF Makes, m

\* "parcelable_decl : T_PARCELABLE T_IDENTIFIER ';'", and T_FLATTENABLE.
LEMMA MadeParcelable ==
  ASSUME NEW symbols, NEW v, Given(symbols, v), Len(symbols) \in Nat, 2 <= Len(symbols),
         symbols[2] \in Tokens, NEW kind \in {"parcelable", "flattenable"}, package \in Nat
  PROVE  Makes("parcelable_decl", [kind |-> kind, name |-> v[2], package |-> package], symbols, v)
<1> DEFINE item == [kind |-> kind, name |-> v[2], package |-> package]
<1>1. v[2] \in Place /\ v[2] \in GivenPlaces(symbols, v)
  <2>1. /\ Means(symbols[2], v[2]) /\ Places(symbols[2], v[2]) \subseteq GivenPlaces(symbols, v)
    BY DEF Given, GivenPlaces
  <2>2. QED
    BY <2>1, MeansToken, MeansDeclaration DEF Place
<1>2. /\ item \in ParcelableNode /\ item.name = v[2] /\ "items" \notin DOMAIN item
  BY <1>1 DEF ParcelableNode
<1> HIDE DEF item
<1>3. item \in ItemNode /\ ItemOrdered(item) /\ ItemPlaces(item) \subseteq GivenPlaces(symbols, v)
  BY <1>1, <1>2 DEF ItemNode, ItemOrdered, ItemPlaces
<1>4. "parcelable_decl" \in DeclarationSymbols /\ (item = Absent \/ item # Absent)
  BY DEF DeclarationSymbols
<1>5. QED
  BY <1>3, <1>4, MeansToken, MeansDeclaration DEF Makes, item

\* "interface_decl : interface_header T_IDENTIFIER '{' interface_items '}'"
LEMMA MadeInterface ==
  ASSUME NEW symbols, NEW v, Given(symbols, v), Len(symbols) \in Nat, 4 <= Len(symbols),
         symbols[1] = "interface_header", symbols[2] \in Tokens, symbols[4] = "interface_items",
         package \in Nat
  PROVE  Makes("interface_decl",
               [kind |-> v[1], name |-> v[2], package |-> package, items |-> v[4]], symbols, v)
<1> DEFINE item == [kind |-> v[1], name |-> v[2], package |-> package, items |-> v[4]]
<1>1. 1 \in 1..Len(symbols) /\ 2 \in 1..Len(symbols) /\ 4 \in 1..Len(symbols)
  OBVIOUS
<1>2. /\ Means("interface_header", v[1]) /\ Means(symbols[2], v[2])
      /\ Means("interface_items", v[4])
      /\ Before(Places(symbols[2], v[2]), Places("interface_items", v[4]))
      /\ Places(symbols[2], v[2]) \cup Places("interface_items", v[4])
           \subseteq GivenPlaces(symbols, v)
  BY <1>1 DEF Given, GivenPlaces
<1>3. v[2] \in Place /\ Places(symbols[2], v[2]) = {v[2]}
  <2>1. v[2] \in Place /\ Places(symbols[2], v[2]) = {v[2]} \ {0}
    BY <1>2, MeansToken, MeansHeader, MeansMethods, MeansDeclaration
  <2>2. QED
    BY <2>1 DEF Place
<1>4. /\ v[1] \in {"binder", "oneway_binder", "rpc"}
      /\ v[4] \in Seq(MethodNode) /\ MethodsOrdered(v[4])
      /\ Before({v[2]}, MethodsPlaces(v[4]))
      /\ {v[2]} \cup MethodsPlaces(v[4]) \subseteq GivenPlaces(symbols, v)
  BY <1>2, <1>3, MeansToken, MeansHeader, MeansMethods, MeansDeclaration
<1>5. /\ item \in InterfaceNode /\ item.name = v[2] /\ item.items = v[4]
      /\ "items" \in DOMAIN item
  BY <1>3, <1>4 DEF InterfaceNode
<1> HIDE DEF item
<1>6. item \in ItemNode /\ ItemOrdered(item) /\ ItemPlaces(item) \subseteq GivenPlaces(symbols, v)
  BY <1>4, <1>5 DEF ItemNode, ItemOrdered, ItemPlaces
<1>7. "interface_decl" \in DeclarationSymbols /\ (item = Absent \/ item # Absent)
  BY DEF DeclarationSymbols
<1>8. QED
  BY <1>6, <1>7, MeansToken, MeansHeader, MeansMethods, MeansDeclaration DEF Makes, item

\* A value handed on.
LEMMA MadeFirst ==
  ASSUME NEW symbols, NEW v, Given(symbols, v), Len(symbols) \in Nat, 1 <= Len(symbols)
  PROVE  /\ Makes(symbols[1], v[1], symbols, v)
         /\ symbols[1] \in DeclarationSymbols => Makes("declaration", v[1], symbols, v)
         /\ symbols[1] \in Tokens => Makes("direction", v[1], symbols, v)
<1>1. Means(symbols[1], v[1]) /\ Places(symbols[1], v[1]) \subseteq GivenPlaces(symbols, v)
  BY DEF Given, GivenPlaces
<1>2. "declaration" \in DeclarationSymbols
  BY DEF DeclarationSymbols
<1>3. symbols[1] \in DeclarationSymbols =>
        Means("declaration", v[1]) /\ Places("declaration", v[1]) = Places(symbols[1], v[1])
  BY <1>1, <1>2, MeansToken, MeansDirection, MeansDeclaration
<1>4. symbols[1] \in Tokens =>
        Means("direction", v[1]) /\ Places("direction", v[1]) = Places(symbols[1], v[1])
  BY <1>1, MeansToken, MeansDirection, MeansDeclaration
<1>5. QED
  BY <1>1, <1>3, <1>4 DEF Makes

LEMMA ValueIs ==
  ASSUME NEW v
  PROVE  /\ Value("no_items", v) = <<>>
         /\ Value("append_item", v) = IF v[2] = Absent THEN v[1] ELSE Append(v[1], v[2])
         /\ Value("first", v) = v[1]
         /\ Value("null", v) = Absent
         /\ \A kind \in {"parcelable", "flattenable"} :
              Value(kind, v) = [kind |-> kind, name |-> v[2], package |-> package]
         /\ \A kind \in {"binder", "oneway_binder", "rpc"} : Value(kind, v) = kind
         /\ Value("interface", v) =
              [kind |-> v[1], name |-> v[2], package |-> package, items |-> v[4]]
         /\ Value("method", v) = Method(FALSE, v[1], v[2], v[4])
         /\ Value("oneway_method", v) = Method(TRUE, v[2], v[3], v[5])
         /\ Value("one_arg", v) = <<v[1]>>
         /\ Value("append_arg", v) = AppendArg(v[1], v[3])
         /\ Value("arg", v) = [direction |-> v[1], type |-> v[2], name |-> v[3]]
         /\ Value("no_direction", v) = 0
         /\ Value("plain", v) = [type |-> v[1], array |-> 0]
         /\ Value("array", v) = [type |-> v[1], array |-> v[2]]
BY Zenon DEF Value

\* What every action makes.  A rule of the grammar has the form its action needs.
LEMMA MeantValue ==
  ASSUME NEW lhs, NEW rhs, NEW does, RuleTyped(lhs, rhs, does), lhs # "accept",
         NEW v, Given(rhs, v), package \in Nat
  PROVE  Makes(lhs, Value(does, v), rhs, v)
<1> DEFINE value == Value(does, v)
<1> HIDE DEF value
<1>1. Len(rhs) \in Nat
  BY Zenon DEF RuleTyped
<1>2. lhs \in Headless => Makes(lhs, value, rhs, v)
  BY MeansNothing DEF Makes
<1>3. CASE does \in {"accept", "nothing", "document", "import"}
  <2>1. lhs \in Headless
    BY <1>3, Zenon DEF RuleTyped, Headless
  <2>2. QED
    BY <1>2, <2>1 DEF value
<1>4. CASE does = "no_items"
  <2>1. lhs \in {"document_items", "interface_items", "arg_list"}
    BY <1>4, Zenon DEF RuleTyped
  <2>2. value = <<>>
    BY <1>4, ValueIs, Zenon DEF value
  <2>3. QED
    BY <2>1, <2>2, NoNodes DEF Makes, value
<1>5. CASE does = "append_item"
  <2>1. value = IF v[2] = Absent THEN v[1] ELSE Append(v[1], v[2])
    BY <1>5, ValueIs, Zenon DEF value
  <2>2. lhs \in {"document_items", "interface_items"}
    BY <1>5, Zenon DEF RuleTyped
  <2>3. CASE lhs = "document_items"
    <3>1. 2 <= Len(rhs) /\ rhs[1] = "document_items" /\ rhs[2] = "declaration"
      BY <1>5, <2>3, Zenon DEF RuleTyped
    <3>2. QED
      BY <1>1, <2>1, <2>3, <3>1, MadeItems DEF value
  <2>4. CASE lhs = "interface_items"
    <3>1. 2 <= Len(rhs) /\ rhs[1] = "interface_items" /\ rhs[2] = "method_decl"
      BY <1>5, <2>4, Zenon DEF RuleTyped
    <3>2. QED
      BY <1>1, <2>1, <2>4, <3>1, MadeMethods DEF value
  <2>5. QED
    BY <2>2, <2>3, <2>4
<1>6. CASE does = "first"
  <2>1. \/ rhs[1] = lhs
        \/ lhs = "declaration" /\ rhs[1] \in DeclarationSymbols
        \/ lhs = "direction" /\ rhs[1] \in Tokens
    BY <1>6, Zenon DEF RuleTyped, DeclarationSymbols
  <2>2. 1 <= Len(rhs)
    BY <1>6, Zenon DEF RuleTyped
  <2>3. value = v[1]
    BY <1>6, ValueIs, Zenon DEF value
  <2>4. QED
    BY <1>1, <2>1, <2>2, <2>3, MadeFirst DEF value
<1>7. CASE does = "null"
  <2>1. lhs \in DeclarationSymbols
    BY <1>7, Zenon DEF RuleTyped, DeclarationSymbols
  <2>2. value = Absent
    BY <1>7, ValueIs, Zenon DEF value
  <2>3. Means(lhs, value) /\ Places(lhs, value) = {}
    BY <2>1, <2>2, MeansDeclaration
  <2>4. QED
    BY <2>3 DEF Makes, value
<1>8. CASE does \in {"parcelable", "flattenable"}
  <2>1. value = [kind |-> does, name |-> v[2], package |-> package]
    BY <1>8, ValueIs, Zenon DEF value
  <2>2. lhs = "parcelable_decl" /\ 2 <= Len(rhs) /\ rhs[2] \in Tokens
    BY <1>8, Zenon DEF RuleTyped
  <2>3. QED
    BY <1>1, <1>8, <2>1, <2>2, MadeParcelable DEF value
<1>9. CASE does \in {"binder", "oneway_binder", "rpc"}
  <2>1. value = does
    BY <1>9, ValueIs, Zenon DEF value
  <2>2. lhs = "interface_header"
    BY <1>9, Zenon DEF RuleTyped
  <2>3. Means(lhs, value) /\ Places(lhs, value) = {}
    BY <1>9, <2>1, <2>2, MeansHeader
  <2>4. QED
    BY <2>3 DEF Makes, value
<1>10. CASE does = "interface"
  <2>1. value = [kind |-> v[1], name |-> v[2], package |-> package, items |-> v[4]]
    BY <1>10, ValueIs, Zenon DEF value
  <2>2. /\ lhs = "interface_decl" /\ 4 <= Len(rhs)
        /\ rhs[1] = "interface_header" /\ rhs[2] \in Tokens /\ rhs[4] = "interface_items"
    BY <1>10, Zenon DEF RuleTyped
  <2>3. QED
    BY <1>1, <2>1, <2>2, MadeInterface DEF value
<1>11. CASE does = "method"
  <2>1. value = Method(FALSE, v[1], v[2], v[4])
    BY <1>11, ValueIs, Zenon DEF value
  <2>2. /\ lhs = "method_decl" /\ 4 <= Len(rhs)
        /\ rhs[1] = "type" /\ rhs[2] \in Tokens /\ rhs[4] = "arg_list"
    BY <1>11, Zenon DEF RuleTyped
  <2>3. PICK n \in {1, 2} : n = 1 /\ n + 1 = 2 /\ n + 3 = 4
    OBVIOUS
  <2>4. Makes("method_decl", Method(FALSE, v[n], v[n + 1], v[n + 3]), rhs, v)
    BY <1>1, <2>2, <2>3, MadeMethod
  <2>5. QED
    BY <2>1, <2>2, <2>3, <2>4 DEF value
<1>12. CASE does = "oneway_method"
  <2>1. value = Method(TRUE, v[2], v[3], v[5])
    BY <1>12, ValueIs, Zenon DEF value
  <2>2. /\ lhs = "method_decl" /\ 5 <= Len(rhs)
        /\ rhs[2] = "type" /\ rhs[3] \in Tokens /\ rhs[5] = "arg_list"
    BY <1>12, Zenon DEF RuleTyped
  <2>3. PICK n \in {1, 2} : n = 2 /\ n + 1 = 3 /\ n + 3 = 5
    OBVIOUS
  <2>4. Makes("method_decl", Method(TRUE, v[n], v[n + 1], v[n + 3]), rhs, v)
    BY <1>1, <2>2, <2>3, MadeMethod
  <2>5. QED
    BY <2>1, <2>2, <2>3, <2>4 DEF value
<1>13. CASE does = "one_arg"
  <2>1. value = <<v[1]>>
    BY <1>13, ValueIs, Zenon DEF value
  <2>2. lhs = "arg_list" /\ 1 <= Len(rhs) /\ rhs[1] = "arg"
    BY <1>13, Zenon DEF RuleTyped
  <2>3. /\ v[1] \in ArgNode /\ ArgOrdered(v[1])
        /\ ArgPlaces(v[1]) \subseteq GivenPlaces(rhs, v)
    <3>1. Makes("arg", v[1], rhs, v)
      BY <1>1, <2>2, MadeFirst
    <3>2. QED
      BY <3>1, MeansArg DEF Makes
  <2>4. PICK args : args = <<v[1]>>
    OBVIOUS
  <2>5. /\ args \in Seq(ArgNode) /\ ArgsOrdered(args)
        /\ ArgsPlaces(args) = ArgPlaces(v[1])
    BY <2>3, <2>4 DEF ArgsOrdered, ArgsPlaces
  <2>6. QED
    BY <2>1, <2>2, <2>3, <2>4, <2>5, MeansArgs DEF Makes, value
<1>14. CASE does = "append_arg"
  <2>1. value = AppendArg(v[1], v[3])
    BY <1>14, ValueIs, Zenon DEF value
  <2>2. lhs = "arg_list" /\ 3 <= Len(rhs) /\ rhs[1] = "arg_list" /\ rhs[3] = "arg"
    BY <1>14, Zenon DEF RuleTyped
  <2>3. QED
    BY <1>1, <2>1, <2>2, MadeArgs DEF value
<1>15. CASE does = "arg"
  <2>1. value = [direction |-> v[1], type |-> v[2], name |-> v[3]]
    BY <1>15, ValueIs, Zenon DEF value
  <2>2. /\ lhs = "arg" /\ 3 <= Len(rhs)
        /\ rhs[1] = "direction" /\ rhs[2] = "type" /\ rhs[3] \in Tokens
    BY <1>15, Zenon DEF RuleTyped
  <2>3. QED
    BY <1>1, <2>1, <2>2, MadeArg DEF value
<1>16. CASE does = "no_direction"
  <2>1. value = 0
    BY <1>16, ValueIs, Zenon DEF value
  <2>2. lhs = "direction"
    BY <1>16, Zenon DEF RuleTyped
  <2>3. Means(lhs, value) /\ Places(lhs, value) = {}
    BY <2>1, <2>2, MeansDirection
  <2>4. QED
    BY <2>3 DEF Makes, value
<1>17. CASE does = "plain"
  <2>1. value = [type |-> v[1], array |-> 0]
    BY <1>17, ValueIs, Zenon DEF value
  <2>2. lhs = "type" /\ 1 <= Len(rhs) /\ rhs[1] \in Tokens
    BY <1>17, Zenon DEF RuleTyped
  <2>3. QED
    BY <1>1, <2>1, <2>2, MadeType DEF value
<1>18. CASE does = "array"
  <2>1. value = [type |-> v[1], array |-> v[2]]
    BY <1>18, ValueIs, Zenon DEF value
  <2>2. lhs = "type" /\ 1 <= Len(rhs) /\ rhs[1] \in Tokens /\ 2 <= Len(rhs) /\ rhs[2] \in Tokens
    BY <1>18, Zenon DEF RuleTyped
  <2>3. QED
    BY <1>1, <2>1, <2>2, MadeType DEF value
<1>19. does \in
         {"accept", "nothing", "document", "import", "no_items", "append_item", "first", "null",
          "parcelable", "flattenable", "binder", "oneway_binder", "rpc", "interface", "method",
          "oneway_method", "one_arg", "append_arg", "arg", "no_direction", "plain", "array"}
  BY Zenon DEF RuleTyped
<1>20. QED
  BY <1>3, <1>4, <1>5, <1>6, <1>7, <1>8, <1>9, <1>10, <1>11, <1>12, <1>13, <1>14, <1>15, <1>16,
     <1>17, <1>18, <1>19, Zenon DEF value

-----------------------------------------------------------------------------
(* The stack.                                                              *)

SymbolOf(entry) == Tables[entry.state].symbol
PlacesOf(entry) == Places(SymbolOf(entry), entry.value)

\* An entry is entered from a state by the symbol whose value is in it.
Entered(state, entry) ==
  LET goto == Tables[state].goto
  IN  /\ SymbolOf(entry) \in DOMAIN goto \ {"EOF"} /\ goto[SymbolOf(entry)] = entry.state
      /\ Means(SymbolOf(entry), entry.value)

\* Each state was entered from the one below, and the places are in the order of
\* the stack.
Explained(s) ==
  /\ s \in Seq({s[k] : k \in DOMAIN s}) /\ s # <<>> /\ s[1].state = Start
  /\ \A k \in 2..Len(s) : Entered(s[k - 1].state, s[k])

InOrder(s) == \A j, k \in 2..Len(s) : j < k => Before(PlacesOf(s[j]), PlacesOf(s[k]))

LEMMA Lengths == \A s : \A E : s \in Seq(E) => Len(s) \in Nat /\ DOMAIN s = 1..Len(s)
OBVIOUS

\* Where a symbol leads to.
LEMMA Goto ==
  ASSUME NEW n \in DOMAIN Tables, NEW x \in DOMAIN Tables[n].goto
  PROVE  /\ Tables[n].goto[x] \in DOMAIN Tables /\ Tables[Tables[n].goto[x]].symbol = x
         /\ \A i \in Tables[Tables[n].goto[x]].items :
              i.dot > 0 => /\ Rules[i.rule].rhs[i.dot] = x
                           /\ [rule |-> i.rule, dot |-> i.dot - 1] \in Tables[n].items
<1>1. Tables[n].goto[x] \in DOMAIN Tables
  BY RuleForms, Zenon DEF TablesTyped
<1>2. QED
  BY <1>1, RuleForms, Zenon DEF ItemsExplain

\* The states of a stack are states.
LEMMA StatesOf ==
  ASSUME NEW s, Explained(s)
  PROVE  /\ Len(s) \in Nat /\ 1 <= Len(s) /\ DOMAIN s = 1..Len(s)
         /\ \A k \in DOMAIN s : s[k].state \in DOMAIN Tables
<1>1. Len(s) \in Nat /\ 1 <= Len(s) /\ DOMAIN s = 1..Len(s)
  <2>1. PICK E : s \in Seq(E)
    BY DEF Explained
  <2>2. s # <<>>
    BY DEF Explained
  <2>3. QED
    BY <2>1, <2>2
<1> DEFINE N == {n \in Nat : n + 1 \in DOMAIN s => s[n + 1].state \in DOMAIN Tables}
<1>2. 0 \in N
  <2>1. s[1].state = Start /\ Start \in DOMAIN Tables
    BY RuleForms DEF Explained, TablesTyped
  <2>2. QED
    BY <2>1
<1>3. ASSUME NEW n \in N PROVE n + 1 \in N
  <2>1. SUFFICES ASSUME n + 2 \in DOMAIN s PROVE s[n + 2].state \in DOMAIN Tables
    OBVIOUS
  <2>2. PICK k \in 2..Len(s) : k = n + 2 /\ k - 1 = n + 1 /\ k - 1 \in DOMAIN s
    BY <1>1, <2>1
  <2>3. s[k - 1].state \in DOMAIN Tables /\ Entered(s[k - 1].state, s[k])
    BY <2>2 DEF Explained
  <2>4. s[k].state \in DOMAIN Tables
    BY <2>3, Goto DEF Entered
  <2>5. QED
    BY <2>2, <2>4
<1>4. N = Nat
  <2> HIDE DEF N
  <2>1. N \in SUBSET Nat
    BY DEF N
  <2>2. QED
    BY <1>2, <1>3, <2>1, AllNumbers
<1>5. ASSUME NEW k \in DOMAIN s PROVE s[k].state \in DOMAIN Tables
  <2>1. k - 1 \in N /\ (k - 1) + 1 = k
    BY <1>1, <1>4
  <2>2. QED
    BY <2>1
<1>6. QED
  BY <1>1, <1>5

\* A symbol more on top, behind everything.
LEMMA Pushed ==
  ASSUME NEW s, Explained(s), InOrder(s), NEW x, NEW value, NEW e,
         x \in DOMAIN Tables[s[Len(s)].state].goto \ {"EOF"},
         e = [state |-> Tables[s[Len(s)].state].goto[x], value |-> value],
         Means(x, value), \A k \in 2..Len(s) : Before(PlacesOf(s[k]), Places(x, value))
  PROVE  /\ Explained(Append(s, e)) /\ InOrder(Append(s, e))
         /\ SymbolOf(e) = x /\ PlacesOf(e) = Places(x, value)
         /\ Len(Append(s, e)) = Len(s) + 1 /\ Append(s, e)[Len(s) + 1] = e
         /\ \A k \in DOMAIN s : Append(s, e)[k] = s[k]
<1> DEFINE more == Append(s, e)
<1>1. /\ Len(s) \in Nat /\ 1 <= Len(s) /\ DOMAIN s = 1..Len(s)
      /\ s[Len(s)].state \in DOMAIN Tables
  BY StatesOf
<1>2. SymbolOf(e) = x /\ PlacesOf(e) = Places(x, value) /\ e.state = Tables[s[Len(s)].state].goto[x]
      /\ e.value = value
  BY <1>1, Goto DEF SymbolOf, PlacesOf
<1>3. PICK E : s \in Seq(E)
  BY DEF Explained
<1>4. /\ more \in Seq(E \cup {e}) /\ Len(more) = Len(s) + 1 /\ more[Len(s) + 1] = e
      /\ DOMAIN more = 1..(Len(s) + 1) /\ \A k \in DOMAIN s : more[k] = s[k]
  <2>1. PICK F : F = E \cup {e}
    OBVIOUS
  <2>2. s \in Seq(F) /\ e \in F
    BY <1>3, <2>1
  <2>3. QED
    BY <2>1, <2>2
<1> HIDE DEF more
<1>5. more \in Seq({more[k] : k \in DOMAIN more})
  BY <1>1, <1>4
<1>6. ASSUME NEW k \in 2..Len(more) PROVE Entered(more[k - 1].state, more[k])
  <2>1. CASE k \in 2..Len(s)
    <3>1. k \in DOMAIN s /\ k - 1 \in DOMAIN s
      BY <1>1, <2>1
    <3>2. QED
      BY <1>4, <2>1, <3>1 DEF Explained
  <2>2. CASE k = Len(s) + 1
    <3>1. more[k] = e /\ more[k - 1] = s[Len(s)]
      BY <1>1, <1>4, <2>2
    <3>2. QED
      BY <1>2, <3>1 DEF Entered
  <2>3. QED
    BY <1>1, <1>4, <2>1, <2>2
<1>7. ASSUME NEW j \in 2..Len(more), NEW k \in 2..Len(more), j < k
      PROVE  Before(PlacesOf(more[j]), PlacesOf(more[k]))
  <2>1. j \in 2..Len(s) /\ more[j] = s[j]
    BY <1>1, <1>4, <1>7
  <2>2. CASE k \in 2..Len(s)
    BY <1>1, <1>4, <1>7, <2>1, <2>2 DEF InOrder
  <2>3. CASE k = Len(s) + 1
    BY <1>2, <1>4, <2>1, <2>3
  <2>4. QED
    BY <1>1, <1>4, <2>2, <2>3
<1>8. more # <<>> /\ more[1].state = Start
  BY <1>1, <1>4 DEF Explained
<1>9. Explained(more) /\ InOrder(more)
  BY <1>5, <1>6, <1>7, <1>8 DEF Explained, InOrder
<1>10. QED
  BY <1>2, <1>4, <1>9 DEF more

\* What is left when the top is popped.
LEMMA Popped ==
  ASSUME NEW s, Explained(s), InOrder(s), NEW m \in 1..Len(s)
  PROVE  /\ Explained(SubSeq(s, 1, m)) /\ InOrder(SubSeq(s, 1, m))
         /\ Len(SubSeq(s, 1, m)) = m /\ \A k \in 1..m : SubSeq(s, 1, m)[k] = s[k]
<1> DEFINE less == SubSeq(s, 1, m)
<1>1. Len(s) \in Nat /\ DOMAIN s = 1..Len(s)
  BY StatesOf
<1>2. PICK E : s \in Seq(E)
  BY DEF Explained
<1>3. /\ less \in Seq(E) /\ Len(less) = m /\ DOMAIN less = 1..m
      /\ \A k \in 1..m : less[k] = s[k]
  <2>1. m \in 1..Len(s) /\ 1 \in 1..(Len(s) + 1)
    BY <1>1
  <2>2. \A k \in 1..m : s[k] \in E
    BY <1>1, <1>2
  <2>3. less = [k \in 1..m |-> s[k]]
    BY <1>1, <1>2
  <2>4. QED
    BY <2>2, <2>3
<1> HIDE DEF less
<1>4. less \in Seq({less[k] : k \in DOMAIN less})
  BY <1>3
<1>5. \A k \in 2..m : k \in 2..Len(s) /\ k \in 1..m /\ k - 1 \in 1..m
  BY <1>1
<1>6. less # <<>> /\ less[1].state = Start
  <2>1. 1 \in 1..m
    BY <1>1
  <2>2. QED
    BY <1>3, <2>1 DEF Explained
<1>7. Explained(less)
  BY <1>3, <1>4, <1>5, <1>6 DEF Explained
<1>8. InOrder(less)
  BY <1>3, <1>5 DEF InOrder
<1>9. QED
  BY <1>3, <1>7, <1>8 DEF less

\* A rule to reduce by has its right side on top of the stack, above a state that
\* can go on with its left side.
LEMMA RightSideOnTop ==
  ASSUME NEW s, Explained(s), NEW r \in DOMAIN Rules,
         [rule |-> r, dot |-> Len(Rules[r].rhs)] \in Tables[s[Len(s)].state].items
  PROVE  /\ Len(Rules[r].rhs) \in Nat /\ Len(Rules[r].rhs) < Len(s)
         /\ \A k \in 1..Len(Rules[r].rhs) :
              SymbolOf(s[Len(s) - Len(Rules[r].rhs) + k]) = Rules[r].rhs[k]
         /\ Rules[r].lhs \in DOMAIN Tables[s[Len(s) - Len(Rules[r].rhs)].state].goto \ {"EOF"}
         /\ Rules[r].lhs # "accept"
<1> DEFINE rhs == Rules[r].rhs
           lhs == Rules[r].lhs
           L == Len(rhs)
           n == Len(s)
           Item(d) == [rule |-> r, dot |-> d]
           Seen(d) == /\ d < n /\ Item(L - d) \in Tables[s[n - d].state].items
                      /\ \A k \in (L - d + 1)..L : SymbolOf(s[n - L + k]) = rhs[k]
           N == {d \in Nat : d <= L => Seen(d)}
<1>1. /\ n \in Nat /\ 1 <= n /\ DOMAIN s = 1..n
      /\ \A k \in DOMAIN s : s[k].state \in DOMAIN Tables
  BY StatesOf
<1>2. RuleTyped(lhs, rhs, Rules[r].does)
  BY RuleForms DEF RulesTyped
<1>3. L \in Nat /\ lhs \notin Terminals /\ (lhs = "accept" => L = 2 /\ rhs[2] = "EOF")
  BY <1>2, Zenon DEF RuleTyped
<1>4. lhs # "EOF"
  BY <1>3, Zenon DEF Terminals
<1> HIDE DEF rhs, lhs
<1>5. 0 \in N
  <2>1. L - 0 = L /\ n - 0 = n /\ 0 < n /\ (L - 0 + 1)..L = {}
    BY <1>1, <1>3
  <2>2. Item(L) \in Tables[s[n].state].items
    BY DEF rhs
  <2>3. QED
    BY <2>1, <2>2
<1>6. ASSUME NEW d \in N PROVE d + 1 \in N
  <2>1. SUFFICES ASSUME d + 1 <= L PROVE Seen(d + 1)
    OBVIOUS
  <2>2. d \in Nat /\ Seen(d)
    BY <1>3, <2>1
  <2> DEFINE dot == L - d
             state == s[n - d].state
  <2>3. dot \in Nat /\ dot > 0 /\ n - d \in DOMAIN s /\ Item(dot) \in Tables[state].items
    BY <1>1, <1>3, <2>1, <2>2
  <2>4. n - d # 1
    <3>1. SUFFICES ASSUME n - d = 1 PROVE FALSE
      OBVIOUS
    <3>2. state = Start
      BY <3>1 DEF Explained
    <3>3. Start \in DOMAIN Tables /\ \A i \in Tables[Start].items : i.dot = 0
      BY RuleForms, Zenon DEF TablesTyped, ItemsExplain
    <3>4. PICK i \in Tables[state].items : i.dot = dot
      BY <2>3, Zenon
    <3> HIDE DEF state, dot
    <3>5. i.dot = 0
      BY <3>2, <3>3, <3>4, Zenon
    <3>6. QED
      BY <2>3, <3>4, <3>5
  <2>5. PICK k \in 2..n : k = n - d /\ k - 1 = n - (d + 1) /\ k - 1 \in DOMAIN s
    <3>1. d < n
      BY <2>2
    <3> HIDE DEF N, Seen, n
    <3>2. n - d \in 2..n
      BY <1>1, <2>2, <2>4, <3>1
    <3>3. (n - d) - 1 = n - (d + 1) /\ (n - d) - 1 \in DOMAIN s
      BY <1>1, <2>2, <3>2
    <3>4. QED
      BY <3>2, <3>3
  <2>6. Entered(s[k - 1].state, s[k])
    BY <2>5 DEF Explained
  <2> DEFINE x == SymbolOf(s[k])
             below == s[k - 1].state
  <2>7. below \in DOMAIN Tables /\ x \in DOMAIN Tables[below].goto
        /\ Tables[below].goto[x] = state
    BY <1>1, <2>5, <2>6 DEF Entered
  <2>8. \A i \in Tables[state].items :
          i.dot > 0 => /\ Rules[i.rule].rhs[i.dot] = x
                       /\ [rule |-> i.rule, dot |-> i.dot - 1] \in Tables[below].items
    <3> HIDE DEF x, below, state
    <3>1. QED
      BY <2>7, Goto, Zenon
  <2>9. rhs[dot] = x /\ Item(dot - 1) \in Tables[below].items
    <3> HIDE DEF x, below, state
    <3>1. Item(dot).dot = dot /\ Item(dot).rule = r
      OBVIOUS
    <3>2. QED
      BY <2>3, <2>8, <3>1 DEF rhs
  <2>10. d + 1 < n /\ L - (d + 1) = dot - 1 /\ n - (d + 1) = k - 1
    BY <1>1, <1>3, <2>2, <2>5
  <2>11. ASSUME NEW j \in (L - (d + 1) + 1)..L PROVE SymbolOf(s[n - L + j]) = rhs[j]
    <3>1. j = dot \/ j \in (L - d + 1)..L
      BY <1>3, <2>2
    <3>2. j = dot => n - L + j = k
      BY <1>1, <1>3, <2>2, <2>5
    <3>3. QED
      BY <2>2, <2>9, <3>1, <3>2
  <2>12. QED
    BY <2>9, <2>10, <2>11
<1>7. Seen(L)
  <2>1. N = Nat
    <3> HIDE DEF N
    <3>1. N \in SUBSET Nat
      BY DEF N
    <3>2. QED
      BY <1>5, <1>6, <3>1, AllNumbers
  <2>2. L \in N
    BY <1>3, <2>1
  <2>3. QED
    BY <1>3, <2>2
<1>8. L < n /\ \A k \in 1..L : SymbolOf(s[n - L + k]) = rhs[k]
  BY <1>3, <1>7
<1>9. Item(0) \in Tables[s[n - L].state].items /\ n - L \in DOMAIN s
  BY <1>1, <1>3, <1>7, <1>8
<1>10. lhs # "accept"
  <2>1. SUFFICES ASSUME L = 2, rhs[2] = "EOF" PROVE FALSE
    BY <1>3
  <2>2. SymbolOf(s[n]) = "EOF" /\ n \in 2..n
    BY <1>1, <1>8, <2>1
  <2>3. QED
    BY <2>2 DEF Explained, Entered
<1>11. lhs \in DOMAIN Tables[s[n - L].state].goto
  <2>1. r = 1 => lhs = "accept"
    BY RuleForms, Zenon DEF TablesTyped, lhs
  <2>2. s[n - L].state \in DOMAIN Tables
    BY <1>1, <1>9
  <2>3. ASSUME NEW m \in DOMAIN Tables, Item(0) \in Tables[m].items
        PROVE  lhs \in DOMAIN Tables[m].goto
    <3>1. \A i \in Tables[m].items :
            i.dot = 0 => IF i.rule = 1 THEN m = Start
                                       ELSE Rules[i.rule].lhs \in DOMAIN Tables[m].goto
      BY RuleForms, Zenon DEF ItemsExplain
    <3>2. Item(0).dot = 0 /\ Item(0).rule = r
      OBVIOUS
    <3>3. QED
      BY <1>10, <2>1, <2>3, <3>1, <3>2 DEF lhs
  <2>4. QED
    BY <1>9, <2>2, <2>3
<1>12. QED
  BY <1>3, <1>4, <1>8, <1>10, <1>11 DEF rhs, lhs

-----------------------------------------------------------------------------
(* The scanner.                                                            *)

\* The lexemes that end a comment or a block, and the comment to the end of the line.
Closers == {"*/", "}%%"}
LineComment == "//"

\* The start condition after each lexeme of the file.
Scanning(h) ==
  /\ h \in [0..Len(file) -> LexStates] /\ h[0] = started
  /\ \A q \in 1..Len(file) : h[q] = Scanned(q, h[q - 1])
  /\ \A q \in 1..Len(file) : file[q] \in Closers => h[q - 1] # "INITIAL"

\* The function ScannedFrom is.
Scans(f, p, state) ==
  f = [q \in (p - 1)..Len(file) |-> IF q < p THEN state ELSE ScanStep(q)[f[q - 1]]]

LEMMA FileTyped ==
  ASSUME file \in Files
  PROVE  /\ Len(file) \in Nat /\ DOMAIN file = 1..Len(file)
         /\ \A q \in 1..Len(file) : file[q] \in Lexemes
BY FilesAssumption

LEMMA ScannedTyped ==
  ASSUME NEW q, NEW state \in LexStates
  PROVE  Scanned(q, state) \in LexStates
BY Zenon DEF Scanned, LexStates

LEMMA ScanStepIs ==
  ASSUME NEW q, NEW state \in LexStates
  PROVE  ScanStep(q)[state] = Scanned(q, state)
BY DEF ScanStep

\* There is one such function.
LEMMA ScansUnique ==
  ASSUME file \in Files, NEW p \in 1..(Len(file) + 1), NEW state,
         NEW f, Scans(f, p, state), NEW g, Scans(g, p, state)
  PROVE  f = g
<1> DEFINE Same(n) == (p - 1) + n <= Len(file) => f[(p - 1) + n] = g[(p - 1) + n]
           N == {n \in Nat : Same(n)}
<1>1. Len(file) \in Nat /\ p - 1 \in Nat /\ p - 1 < p
  BY FileTyped
<1>2. /\ Len(file) \in Nat /\ p - 1 \in Nat
      /\ f = [q \in (p - 1)..Len(file) |-> f[q]] /\ g = [q \in (p - 1)..Len(file) |-> g[q]]
  BY FileTyped DEF Scans
<1>3. \A q \in (p - 1)..Len(file) :
        /\ f[q] = IF q < p THEN state ELSE ScanStep(q)[f[q - 1]]
        /\ g[q] = IF q < p THEN state ELSE ScanStep(q)[g[q - 1]]
  BY Zenon DEF Scans
<1>4. Same(0)
  <2>1. ASSUME p - 1 <= Len(file) PROVE f[p - 1] = g[p - 1]
    <3>1. p - 1 \in (p - 1)..Len(file)
      BY <1>1, <2>1
    <3>2. f[p - 1] = state /\ g[p - 1] = state
      BY <1>1, <1>3, <3>1, Zenon
    <3>3. QED
      BY <3>2
  <2>2. (p - 1) + 0 = p - 1
    BY <1>2
  <2>3. QED
    BY <2>1, <2>2
<1>5. ASSUME NEW n \in Nat, Same(n) PROVE Same(n + 1)
  <2>1. SUFFICES ASSUME (p - 1) + (n + 1) <= Len(file)
                 PROVE  f[(p - 1) + (n + 1)] = g[(p - 1) + (n + 1)]
    OBVIOUS
  <2>2. PICK q \in (p - 1)..Len(file) : q = (p - 1) + (n + 1) /\ q - 1 = (p - 1) + n /\ ~(q < p)
    BY <1>2, <2>1
  <2>3. f[q - 1] = g[q - 1]
    BY <1>2, <1>5, <2>1, <2>2
  <2>4. f[q] = g[q]
    BY <1>3, <2>2, <2>3
  <2>5. QED
    BY <2>2, <2>4
<1>6. \A n \in Nat : Same(n)
  <2> HIDE DEF Same
  <2>1. N \in SUBSET Nat /\ 0 \in N /\ \A n \in N : n + 1 \in N
    BY <1>4, <1>5
  <2>2. N = Nat
    <3> HIDE DEF N
    <3>1. QED
      BY <2>1, AllNumbers
  <2>3. QED
    BY <2>2
<1>7. ASSUME NEW q \in (p - 1)..Len(file) PROVE f[q] = g[q]
  <2>1. PICK n \in Nat : (p - 1) + n = q
    <3>1. q - (p - 1) \in Nat /\ (p - 1) + (q - (p - 1)) = q
      BY <1>2, SMTT(30)
    <3>2. QED
      BY <3>1
  <2>2. Same(n)
    BY <1>6
  <2>3. QED
    BY <1>2, <2>1, <2>2
<1>8. QED
  BY <1>2, <1>7

\* A function that scans is what ScannedFrom gives.
LEMMA ScannedFromIs ==
  ASSUME file \in Files, NEW p \in 1..(Len(file) + 1), NEW state, NEW f, Scans(f, p, state)
  PROVE  ScannedFrom(p, state) = f
<1> DEFINE g == CHOOSE g : Scans(g, p, state)
<1>1. Scans(g, p, state)
  BY Zenon
<1>2. ScannedFrom(p, state) = g
  BY Zenon DEF ScannedFrom, Scans
<1> HIDE DEF g
<1>3. QED
  BY <1>1, <1>2, ScansUnique

\* A file has its start conditions.
LEMMA ScanningBegins ==
  ASSUME file \in Files, started \in LexStates, EndsBegun
  PROVE  \E h : Scanning(h)
<1> DEFINE step == [q \in 1..Len(file) |-> [x \in LexStates |-> Scanned(q, x)]]
<1>1. Len(file) \in Nat /\ DOMAIN file = 1..Len(file)
  BY FileTyped
<1>2. step \in [1..Len(file) -> [LexStates -> LexStates]]
  <2>1. ASSUME NEW q \in 1..Len(file)
        PROVE  [x \in LexStates |-> Scanned(q, x)] \in [LexStates -> LexStates]
    BY ScannedTyped
  <2>2. QED
    BY <2>1
<1>3. \A q \in 1..Len(file), x \in LexStates : step[q][x] = Scanned(q, x)
  OBVIOUS
<1> HIDE DEF step
<1>4. PICK h \in [0..Len(file) -> LexStates] :
        h[0] = started /\ \A q \in 1..Len(file) : h[q] = step[q][h[q - 1]]
  <2>1. PICK n \in Nat : n = Len(file)
    BY <1>1
  <2>2. PICK base \in LexStates : base = started
    OBVIOUS
  <2>3. PICK steps \in [1..n -> [LexStates -> LexStates]] : steps = step
    BY <1>2, <2>1
  <2>4. PICK h : Steps(h, n, LexStates, base, steps)
    BY Recursion
  <2>5. QED
    BY <2>1, <2>2, <2>3, <2>4 DEF Steps
<1>5. \A q \in 1..Len(file) : h[q] = Scanned(q, h[q - 1])
  <2>1. \A q \in 1..Len(file) : q - 1 \in 0..Len(file)
    BY <1>1
  <2>2. QED
    BY <1>3, <1>4, <2>1
<1>6. Scans(h, 1, started)
  <2>1. 1 - 1 = 0 /\ h = [q \in 0..Len(file) |-> h[q]]
    OBVIOUS
  <2>2. \A q \in 0..Len(file) : h[q] = IF q < 1 THEN started ELSE ScanStep(q)[h[q - 1]]
    <3>1. ASSUME NEW q \in 1..Len(file) PROVE h[q] = ScanStep(q)[h[q - 1]]
      <4>1. h[q - 1] \in LexStates
        BY <1>1, <1>4
      <4>2. QED
        BY <1>5, <4>1, ScanStepIs
    <3>2. \A q \in 0..Len(file) : q < 1 => q = 0
      BY <1>1
    <3>3. \A q \in 0..Len(file) : ~(q < 1) => q \in 1..Len(file)
      BY <1>1
    <3>4. QED
      BY <1>4, <3>1, <3>2, <3>3
  <2>3. QED
    BY <2>1, <2>2 DEF Scans
<1>7. ScannedFrom(1, started) = h
  <2>1. PICK p \in 1..(Len(file) + 1) : p = 1
    BY <1>1
  <2>2. QED
    BY <1>6, <2>1, ScannedFromIs
<1>8. \A q \in 1..Len(file) : file[q] \in Closers => h[q - 1] # "INITIAL"
  BY <1>1, <1>7, Zenon DEF EndsBegun, Closers
<1>9. QED
  BY <1>4, <1>5, <1>8, Zenon DEF Scanning

\* What is no end of a comment or block and no comment is a token.
LEMMA TokenThere ==
  ASSUME NEW q \in 1..Len(file), file \in Files, Scanned(q, "INITIAL") = "INITIAL",
         file[q] # LineComment, file[q] \notin Closers
  PROVE  TokenAt(q) \in Tokens
<1>1. ~(q > Len(file)) /\ file[q] \in Lexemes
  BY FileTyped
<1>2. "IDENTIFIER" \in Tokens
  BY Zenon DEF Tokens
<1>3. TokenAt(q) = IF file[q] = "UNKNOWN" THEN "IDENTIFIER" ELSE file[q]
  BY <1>1, Zenon DEF TokenAt
<1>4. file[q] # "/*" /\ file[q] # "%%{"
  BY Zenon DEF Scanned
<1>5. file[q] \in Tokens \/ file[q] = "UNKNOWN"
  BY <1>1, <1>4, Zenon DEF Lexemes, Closers, LineComment
<1>6. QED
  BY <1>2, <1>3, <1>5, Zenon

\* Neither in a comment or a block nor the end of one.
Takes(h, q) == h[q - 1] = "INITIAL" /\ h[q] = "INITIAL" /\ file[q] # LineComment

\* Where the next token is.
LEMMA NextTokenIs ==
  ASSUME file \in Files, NEW h, Scanning(h), read \in 0..Len(file), lex = h[read]
  PROVE  /\ NextToken.at \in (read + 1)..(Len(file) + 1)
         /\ NextToken.lex = h[IF NextToken.at <= Len(file) THEN NextToken.at ELSE Len(file)]
         /\ NextToken.at <= Len(file) => TokenAt(NextToken.at) \in Tokens
         /\ NextToken.at <= Len(file) => Takes(h, NextToken.at)
         /\ \A q \in (read + 1)..Len(file) : q < NextToken.at => ~Takes(h, q)
<1> DEFINE after == [q \in read..Len(file) |-> h[q]]
           tokens == {q \in (read + 1)..Len(file) :
                        after[q - 1] = "INITIAL" /\ after[q] = "INITIAL" /\ file[q] # LineComment}
<1>1. /\ Len(file) \in Nat /\ h \in [0..Len(file) -> LexStates]
      /\ \A q \in 1..Len(file) : h[q] = Scanned(q, h[q - 1])
      /\ \A q \in 1..Len(file) : file[q] \in Closers => h[q - 1] # "INITIAL"
  BY FileTyped, Zenon DEF Scanning
<1>2. ScannedFrom(read + 1, lex) = after
  <2>1. PICK p \in 1..(Len(file) + 1) : p = read + 1 /\ p - 1 = read
    BY <1>1
  <2>2. \A q \in read..Len(file) : after[q] = IF q < p THEN lex ELSE ScanStep(q)[after[q - 1]]
    <3>1. ASSUME NEW q \in read..Len(file), ~(q < p)
          PROVE  after[q] = ScanStep(q)[after[q - 1]]
      <4>1. q \in 1..Len(file) /\ q - 1 \in read..Len(file)
        BY <1>1, <2>1, <3>1
      <4>2. after[q] = h[q] /\ after[q - 1] = h[q - 1]
        BY <4>1
      <4>3. q - 1 \in 0..Len(file) /\ h[q - 1] \in LexStates
        BY <1>1, <4>1
      <4>4. QED
        BY <1>1, <4>1, <4>2, <4>3, ScanStepIs
    <3>2. ASSUME NEW q \in read..Len(file), q < p PROVE after[q] = lex
      BY <1>1, <2>1, <3>2
    <3>3. QED
      BY <3>1, <3>2
  <2>3. after = [q \in read..Len(file) |-> after[q]]
    OBVIOUS
  <2> HIDE DEF after
  <2>4. Scans(after, p, lex)
    BY <2>1, <2>2, <2>3 DEF Scans
  <2>5. QED
    BY <2>1, <2>4, ScannedFromIs
<1>3. NextToken = IF tokens = {} THEN [at |-> Len(file) + 1, lex |-> after[Len(file)]]
                  ELSE [at |-> Min(tokens), lex |-> "INITIAL"]
  BY <1>2, Zenon DEF NextToken, LineComment
<1>4. \A q \in (read + 1)..Len(file) : Takes(h, q) <=> q \in tokens
  <2>1. ASSUME NEW q \in (read + 1)..Len(file)
        PROVE  after[q - 1] = h[q - 1] /\ after[q] = h[q]
    BY <1>1
  <2>2. QED
    BY <2>1 DEF Takes
<1>5. CASE tokens = {}
  <2>1. NextToken.at = Len(file) + 1 /\ NextToken.lex = after[Len(file)]
    BY <1>3, <1>5
  <2>2. after[Len(file)] = h[Len(file)]
    BY <1>1
  <2>3. \A q \in (read + 1)..Len(file) : ~Takes(h, q)
    BY <1>4, <1>5, Zenon
  <2>4. QED
    BY <1>1, <2>1, <2>2, <2>3
<1>6. CASE tokens # {}
  <2>1. NextToken.at = Min(tokens) /\ NextToken.lex = "INITIAL"
    BY <1>3, <1>6
  <2>2. Min(tokens) \in tokens /\ \A q \in tokens : Min(tokens) <= q
    <3>1. tokens \subseteq Nat
      BY <1>1
    <3> HIDE DEF tokens
    <3>2. QED
      BY <1>6, <3>1, MinOfNaturals
  <2>3. PICK q \in (read + 1)..Len(file) :
          /\ q = NextToken.at /\ file[q] # LineComment /\ after[q - 1] = "INITIAL" /\ after[q] = "INITIAL"
    BY <2>1, <2>2, Zenon
  <2>4. q \in 1..Len(file) /\ q \in read..Len(file) /\ q - 1 \in read..Len(file)
    BY <1>1, <2>3
  <2>5. h[q - 1] = "INITIAL" /\ h[q] = "INITIAL"
    BY <2>3, <2>4
  <2>6. file[q] \notin Closers /\ Scanned(q, "INITIAL") = "INITIAL"
    BY <1>1, <2>4, <2>5, Zenon
  <2>7. TokenAt(q) \in Tokens
    BY <2>3, <2>4, <2>6, TokenThere
  <2>8. q <= Len(file) /\ q \in (read + 1)..(Len(file) + 1)
    BY <1>1, <2>4
  <2>9. Takes(h, q)
    BY <2>3, <2>5 DEF Takes
  <2>10. ASSUME NEW p \in (read + 1)..Len(file), p < q PROVE ~Takes(h, p)
    <3>1. Min(tokens) = q /\ ~(q <= p)
      BY <1>1, <2>1, <2>3, <2>10
    <3>2. p \notin tokens
      BY <2>2, <3>1, Zenon
    <3>3. QED
      BY <1>4, <3>2, Zenon
  <2>11. QED
    BY <2>1, <2>3, <2>5, <2>7, <2>8, <2>9, <2>10
<1>7. QED
  BY <1>5, <1>6

-----------------------------------------------------------------------------
(* The invariant.                                                          *)

\* The scanner has got as far as the last token, which is at hand or has been
\* taken.
FileRead ==
  /\ file \in Files /\ started \in LexStates /\ lex \in LexStates /\ read \in 0..(Len(file) + 1)
  /\ \E h : Scanning(h) /\ lex = h[IF read <= Len(file) THEN read ELSE Len(file)]
  /\ lookahead = <<>> => read <= Len(file)
  /\ lookahead # <<>> =>
       /\ lookahead = <<[token |-> TokenAt(read), at |-> read]>> /\ read > 0
       /\ read <= Len(file) => TokenAt(read) \in Tokens

Typed ==
  /\ status \in 0..3 /\ phase \in {"parsing", "recovering", "accepted", "aborted"}
  /\ gError \in BOOLEAN /\ package \in 0..Len(file) /\ called \in 0..1 /\ gImports \in Seq(Nat)

\* The places the parser has gone past.
Passed == {p \in 1..Len(file) : p <= read /\ (lookahead # <<>> => p < read)}

ImportPlaces == {gImports[k] : k \in DOMAIN gImports}

Placed ==
  /\ \A k \in 2..Len(stack) : PlacesOf(stack[k]) \subseteq Passed
  /\ ImportPlaces \subseteq Passed

\* The imports are between the headers that are on the stack and the rest.
ImportsBetween(s, imports) ==
  \A k \in 2..Len(s) :
    IF SymbolOf(s[k]) \in HeaderSymbols THEN Before(PlacesOf(s[k]), imports)
                                        ELSE Before(imports, PlacesOf(s[k]))

\* They were put in front one by one, when no more header could come.
HeadersFirst ==
  /\ \A j, k \in DOMAIN gImports : j < k => gImports[j] < gImports[k]
  /\ ImportsBetween(stack, ImportPlaces)
  /\ gImports # <<>> /\ phase = "parsing" =>
       Len(stack) > 1 /\ SymbolOf(stack[Len(stack)]) \notin HeaderSymbols

\* The document is given when the file has ended, and then nothing is left to do.
GivenLast ==
  /\ called = 0 => /\ document = <<>> /\ phase # "accepted"
                   /\ \A k \in 2..Len(stack) : SymbolOf(stack[k]) # "document"
  /\ called = 1 => /\ phase \in {"parsing", "accepted"}
                   /\ lookahead # <<>> /\ Token = "EOF"
                   /\ SymbolOf(stack[Len(stack)]) = "document"
                   /\ document \in Seq(ItemNode) /\ ItemsOrdered(document)
                   /\ Before(ImportPlaces, ItemsPlaces(document))

IInv ==
  /\ FileRead /\ Typed /\ Explained(stack) /\ InOrder(stack) /\ Placed /\ HeadersFirst
  /\ GivenLast

LEMMA Kept ==
  ASSUME FileRead, UNCHANGED <<file, started>>
  PROVE  /\ \A h : Scanning(h) => Scanning(h)'
         /\ Len(file)' = Len(file)
         /\ UNCHANGED <<lex, read, lookahead>> => FileRead' /\ Passed' = Passed
<1>1. \A h : Scanning(h) => Scanning(h)'
  BY Zenon DEF Scanning, Scanned
<1>2. ASSUME UNCHANGED <<lex, read, lookahead>> PROVE FileRead'
  <2>1. TokenAt(read)' = TokenAt(read)
    BY <1>2, Zenon DEF TokenAt
  <2>2. PICK h : Scanning(h) /\ lex = h[IF read <= Len(file) THEN read ELSE Len(file)]
    BY Zenon DEF FileRead
  <2>3. (\E h_1 : Scanning(h_1) /\ lex = h_1[IF read <= Len(file) THEN read ELSE Len(file)])'
    BY <1>1, <1>2, <2>2, Zenon
  <2>4. QED
    BY <1>2, <2>1, <2>3, Zenon DEF FileRead
<1>3. UNCHANGED <<lex, read, lookahead>> => Passed' = Passed
  BY DEF Passed
<1>4. QED
  BY <1>1, <1>2, <1>3

\* The token at hand.
LEMMA AtHand ==
  ASSUME FileRead, lookahead # <<>>
  PROVE  /\ lookahead[1].at = read /\ Token = TokenAt(read) /\ read \in Nat \ {0}
         /\ Token # "EOF" => Token \in Tokens /\ read \in 1..Len(file)
         /\ Token \in Terminals
<1>1. lookahead[1].at = read /\ Token = TokenAt(read) /\ read \in Nat \ {0} /\ Len(file) \in Nat
  BY FileTyped DEF FileRead, Token
<1>2. read > Len(file) => TokenAt(read) = "EOF"
  BY Zenon DEF TokenAt
<1>3. read <= Len(file) => TokenAt(read) \in Tokens
  BY Zenon DEF FileRead
<1>4. \A t \in Tokens \cup {"EOF"} : t \in Terminals
  BY Zenon DEF Terminals
<1>5. QED
  BY <1>1, <1>2, <1>3, <1>4

\* A token is no symbol a document is made of, but for its place.
LEMMA TokensApart ==
  /\ "EOF" \notin Tokens /\ "error" \notin Tokens /\ "document" \notin Tokens
  /\ "error" \in Headless /\ "error" \notin HeaderSymbols /\ "error" # "EOF"
BY Zenon DEF Tokens, Headless, HeaderSymbols

-----------------------------------------------------------------------------
(* The steps.  here is the row of the tables for the state on top.         *)

LEMMA Beginning == Init => IInv
<1> SUFFICES ASSUME Init PROVE IInv
  OBVIOUS
<1> DEFINE bottom == [state |-> Start, value |-> 0]
<1>1. /\ file \in Files /\ started \in LexStates /\ EndsBegun /\ lex = started /\ read = 0
      /\ lookahead = <<>> /\ stack = <<bottom>> /\ status = 0 /\ phase = "parsing"
      /\ gError = FALSE /\ package = 0 /\ gImports = <<>> /\ called = 0 /\ document = <<>>
  BY DEF Init
<1>2. Len(file) \in Nat
  BY <1>1, FileTyped
<1>3. FileRead
  <2>1. PICK h : Scanning(h)
    BY <1>1, ScanningBegins
  <2>2. h[0] = started
    BY <2>1, Zenon DEF Scanning
  <2>3. QED
    BY <1>1, <1>2, <2>1, <2>2 DEF FileRead
<1>4. Typed
  <2>1. /\ status = 0 /\ phase = "parsing" /\ gError = FALSE /\ package = 0 /\ gImports = <<>>
        /\ called = 0
    BY <1>1
  <2>2. gImports \in Seq(Nat)
    BY <2>1
  <2>3. gError \in BOOLEAN
    BY <2>1
  <2>4. QED
    BY <1>2, <2>1, <2>2, <2>3 DEF Typed
<1>5. /\ stack \in Seq({stack[k] : k \in DOMAIN stack}) /\ Len(stack) = 1 /\ stack # <<>>
      /\ stack[1].state = Start /\ 2..Len(stack) = {}
  <2> HIDE DEF bottom
  <2>1. bottom.state = Start
    BY DEF bottom
  <2>2. QED
    BY <1>1, <2>1
<1>6. Explained(stack) /\ InOrder(stack)
  BY <1>5 DEF Explained, InOrder
<1>7. ImportPlaces = {} /\ DOMAIN gImports = {}
  BY <1>1 DEF ImportPlaces
<1>8. Placed /\ HeadersFirst /\ GivenLast
  <2>1. /\ gImports = <<>> /\ phase = "parsing" /\ called = 0 /\ document = <<>>
    BY <1>1
  <2>2. Placed
    BY <1>5, <1>7, Zenon DEF Placed
  <2>3. HeadersFirst
    BY <1>5, <1>7, <2>1, Zenon DEF HeadersFirst, ImportsBetween
  <2>4. GivenLast
    <3>1. called # 1 /\ phase # "accepted"
      BY <2>1
    <3>2. QED
      BY <1>5, <2>1, <3>1, Zenon DEF GivenLast
  <2>5. QED
    BY <2>2, <2>3, <2>4
<1>9. QED
  BY <1>3, <1>4, <1>6, <1>8 DEF IInv

\* The token at hand is taken.
LEMMA TokenTaken ==
  ASSUME FileRead, lookahead # <<>>, Token # "EOF", lookahead' = <<>>,
         UNCHANGED <<file, started, lex, read>>
  PROVE  FileRead' /\ Passed \subseteq Passed' /\ read \in Passed'
<1>1. read \in 1..Len(file) /\ Len(file)' = Len(file) /\ Len(file) \in Nat
  BY AtHand, FileTyped DEF FileRead
<1>2. PICK h : Scanning(h) /\ lex = h[IF read <= Len(file) THEN read ELSE Len(file)]
  BY Zenon DEF FileRead
<1>3. Scanning(h)'
  BY <1>2, Kept
<1>4. (\E h_1 : Scanning(h_1) /\ lex = h_1[IF read <= Len(file) THEN read ELSE Len(file)])'
  BY <1>1, <1>2, <1>3, Zenon
<1>5. read' <= Len(file)'
  BY <1>1
<1>6. FileRead'
  BY <1>4, <1>5, Zenon DEF FileRead
<1>7. QED
  BY <1>1, <1>6 DEF Passed

LEMMA ReadTokenKeeps ==
  ASSUME IInv, NEW here, ReadToken(here)
  PROVE  IInv'
<1>1. /\ FileRead /\ Typed /\ Explained(stack) /\ InOrder(stack) /\ Placed /\ HeadersFirst
      /\ GivenLast
  BY DEF IInv
<1>2. /\ phase = "parsing" /\ lookahead = <<>>
      /\ read' = NextToken.at /\ lex' = NextToken.lex
      /\ lookahead' = <<[token |-> TokenAt(read'), at |-> read']>>
      /\ package' = IF TokenAt(read') = "PACKAGE" THEN read' ELSE package
      /\ UNCHANGED <<file, started, stack, status, phase, gError, gImports, called, document>>
  BY DEF ReadToken
<1>3. file \in Files /\ Len(file) \in Nat /\ Len(file)' = Len(file) /\ read \in 0..Len(file)
  BY <1>1, <1>2, FileTyped DEF FileRead
<1>4. PICK h : Scanning(h) /\ lex = h[read]
  BY <1>1, <1>2, <1>3 DEF FileRead
<1>5. /\ read' \in (read + 1)..(Len(file) + 1)
      /\ lex' = h[IF read' <= Len(file) THEN read' ELSE Len(file)]
      /\ read' <= Len(file) => TokenAt(read') \in Tokens
  BY <1>2, <1>3, <1>4, NextTokenIs
<1>6. TokenAt(read)' = TokenAt(read')
  BY <1>2, Zenon DEF TokenAt
<1>7. FileRead'
  <2>1. Scanning(h)'
    BY <1>1, <1>2, <1>4, Kept
  <2>2. h \in [0..Len(file) -> LexStates]
    BY <1>4, Zenon DEF Scanning
  <2>3. lex' \in LexStates
    BY <1>3, <1>5, <2>2
  <2>4. /\ file' \in Files /\ started' \in LexStates
    BY <1>1, <1>2 DEF FileRead
  <2>5. /\ read' \in 0..(Len(file)' + 1) /\ read' > 0
    BY <1>3, <1>5
  <2>6. (\E h_1 : Scanning(h_1) /\ lex = h_1[IF read <= Len(file) THEN read ELSE Len(file)])'
    BY <1>3, <1>5, <2>1, Zenon
  <2>7. lookahead' # <<>>
    BY <1>2
  <2>8. /\ lookahead' = <<[token |-> TokenAt(read)', at |-> read']>>
        /\ read' <= Len(file)' => TokenAt(read)' \in Tokens
    BY <1>2, <1>3, <1>5, <1>6, Zenon
  <2>9. QED
    BY <2>3, <2>4, <2>5, <2>6, <2>7, <2>8, Zenon DEF FileRead
<1>8. Passed \subseteq Passed'
  BY <1>2, <1>3, <1>5 DEF Passed
<1>9. Typed'
  <2>1. TokenAt(read') = "PACKAGE" => read' <= Len(file)
    <3>1. SUFFICES ASSUME read' > Len(file) PROVE TokenAt(read') # "PACKAGE"
      BY <1>3, <1>5
    <3>2. TokenAt(read') = "EOF"
      BY <3>1, Zenon DEF TokenAt
    <3>3. QED
      BY <3>2
  <2>2. package' \in 0..Len(file)'
    BY <1>1, <1>2, <1>3, <1>5, <2>1 DEF Typed
  <2>3. QED
    BY <1>1, <1>2, <2>2 DEF Typed
<1>10. ImportPlaces' = ImportPlaces
  BY <1>2 DEF ImportPlaces
<1>11. Placed' /\ HeadersFirst'
  BY <1>1, <1>2, <1>8, <1>10 DEF Placed, HeadersFirst
<1>12. GivenLast'
  <2>1. called # 1
    BY <1>1, <1>2 DEF GivenLast
  <2>2. QED
    BY <1>1, <1>2, <2>1 DEF GivenLast
<1>13. QED
  BY <1>1, <1>2, <1>7, <1>9, <1>11, <1>12 DEF IInv

LEMMA AcceptKeeps ==
  ASSUME IInv, NEW here, here = Tables[stack[Len(stack)].state], Accept(here)
  PROVE  IInv'
<1>1. /\ FileRead /\ Typed /\ Explained(stack) /\ InOrder(stack) /\ Placed /\ HeadersFirst
      /\ GivenLast
  BY DEF IInv
<1>2. /\ "EOF" \in DOMAIN here.goto /\ phase' = "accepted"
      /\ UNCHANGED <<file, started, lex, read, lookahead, stack, status, gError, package, gImports,
                     called, document>>
  BY DEF Accept
<1>3. FileRead' /\ Passed' = Passed /\ Len(file)' = Len(file)
  BY <1>1, <1>2, Kept
<1>4. ImportPlaces' = ImportPlaces
  BY <1>2 DEF ImportPlaces
<1>5. Typed' /\ Placed' /\ HeadersFirst'
  BY <1>1, <1>2, <1>3, <1>4 DEF Typed, Placed, HeadersFirst
<1>6. called = 1
  <2>1. SUFFICES ASSUME called = 0 PROVE FALSE
    BY <1>1 DEF Typed
  <2>2. Len(stack) \in Nat /\ 1 <= Len(stack) /\ stack[Len(stack)].state \in DOMAIN Tables
    BY <1>1, StatesOf
  <2>3. SymbolOf(stack[Len(stack)]) = "document"
    <3>1. \A n \in DOMAIN Tables :
            "EOF" \in DOMAIN Tables[n].goto => Tables[n].symbol = "document"
      BY RuleForms, Zenon DEF DocumentWhole
    <3>2. QED
      BY <1>2, <2>2, <3>1 DEF SymbolOf
  <2>4. CASE Len(stack) = 1
    <3>1. SymbolOf(stack[Len(stack)]) = "none"
      BY <1>1, <2>4, RuleForms DEF Explained, SymbolOf, TablesTyped
    <3>2. QED
      BY <2>3, <3>1
  <2>5. CASE Len(stack) \in 2..Len(stack)
    BY <1>1, <2>1, <2>3, <2>5 DEF GivenLast
  <2>6. QED
    BY <2>2, <2>4, <2>5
<1>7. GivenLast'
  <2>1. Token' = Token
    BY <1>2 DEF Token
  <2>2. QED
    BY <1>1, <1>2, <1>4, <1>6, <2>1 DEF GivenLast
<1>8. QED
  BY <1>1, <1>2, <1>3, <1>5, <1>7 DEF IInv

\* An error is met only before the document is given.
LEMMA StuckBefore ==
  ASSUME IInv, NEW here, here = Tables[stack[Len(stack)].state], Stuck(here)
  PROVE  called = 0
<1>1. SUFFICES ASSUME called = 1 PROVE FALSE
  BY DEF IInv, Typed
<1>2. Token = "EOF" /\ SymbolOf(stack[Len(stack)]) = "document"
  BY <1>1 DEF IInv, GivenLast
<1>3. stack[Len(stack)].state \in DOMAIN Tables
  BY StatesOf DEF IInv
<1>4. \A n \in DOMAIN Tables :
        Tables[n].symbol = "document" => "EOF" \in DOMAIN Tables[n].goto
  BY RuleForms, Zenon DEF DocumentWhole
<1>5. Token \in DOMAIN here.goto
  BY <1>2, <1>3, <1>4 DEF SymbolOf
<1>6. QED
  BY <1>5 DEF Stuck

LEMMA ErrorKeeps ==
  ASSUME IInv, NEW here, here = Tables[stack[Len(stack)].state], Error(here)
  PROVE  IInv'
<1>1. /\ FileRead /\ Typed /\ Explained(stack) /\ InOrder(stack) /\ Placed /\ HeadersFirst
      /\ GivenLast
  BY DEF IInv
<1>2. /\ Stuck(here) /\ phase' = "recovering" /\ gError' = (gError \/ status = 0)
      /\ UNCHANGED <<file, started, lex, read, lookahead, stack, status, package, gImports, called,
                     document>>
  BY DEF Error
<1>3. FileRead' /\ Passed' = Passed /\ Len(file)' = Len(file)
  BY <1>1, <1>2, Kept
<1>4. ImportPlaces' = ImportPlaces
  BY <1>2 DEF ImportPlaces
<1>5. gError' \in BOOLEAN
  BY <1>2, Zenon
<1>6. Typed' /\ Placed' /\ HeadersFirst'
  BY <1>1, <1>2, <1>3, <1>4, <1>5 DEF Typed, Placed, HeadersFirst
<1>7. called = 0
  BY <1>2, StuckBefore
<1>8. GivenLast'
  BY <1>1, <1>2, <1>7 DEF GivenLast
<1>9. QED
  BY <1>1, <1>2, <1>3, <1>6, <1>8 DEF IInv

LEMMA DiscardKeeps ==
  ASSUME IInv, NEW here, here = Tables[stack[Len(stack)].state], Discard(here)
  PROVE  IInv'
<1>1. /\ FileRead /\ Typed /\ Explained(stack) /\ InOrder(stack) /\ Placed /\ HeadersFirst
      /\ GivenLast
  BY DEF IInv
<1>2. /\ Stuck(here) /\ lookahead # <<>>
      /\ \/ phase' = "aborted" /\ UNCHANGED lookahead
         \/ Token # "EOF" /\ phase' = "recovering" /\ lookahead' = <<>>
      /\ UNCHANGED <<file, started, lex, read, stack, status, gError, package, gImports, called,
                     document>>
  BY DEF Discard, Stuck
<1>3. Len(file)' = Len(file)
  BY <1>2
<1>4. FileRead' /\ Passed \subseteq Passed'
  <2>1. CASE UNCHANGED lookahead
    BY <1>1, <1>2, <2>1, Kept
  <2>2. CASE Token # "EOF" /\ lookahead' = <<>>
    BY <1>1, <1>2, <2>2, TokenTaken
  <2>3. QED
    BY <1>2, <2>1, <2>2
<1>5. ImportPlaces' = ImportPlaces
  BY <1>2 DEF ImportPlaces
<1>6. Typed' /\ Placed' /\ HeadersFirst'
  BY <1>1, <1>2, <1>3, <1>4, <1>5 DEF Typed, Placed, HeadersFirst
<1>7. called = 0
  BY <1>2, StuckBefore
<1>8. GivenLast'
  BY <1>1, <1>2, <1>7 DEF GivenLast
<1>9. QED
  BY <1>1, <1>2, <1>4, <1>6, <1>8 DEF IInv

\* What is on a stack with a symbol more.
LEMMA EachPushed ==
  ASSUME NEW s, Explained(s), NEW e
  PROVE  /\ \A k \in 2..Len(Append(s, e)) :
              (k \in 2..Len(s) /\ Append(s, e)[k] = s[k]) \/ (k = Len(s) + 1 /\ Append(s, e)[k] = e)
         /\ Len(Append(s, e)) = Len(s) + 1 /\ Len(s) + 1 > 1 /\ Append(s, e)[Len(s) + 1] = e
<1>1. Len(s) \in Nat /\ 1 <= Len(s) /\ DOMAIN s = 1..Len(s)
  BY StatesOf
<1>2. PICK E : s \in Seq(E)
  BY DEF Explained
<1>3. PICK F : F = E \cup {e}
  OBVIOUS
<1>4. s \in Seq(F) /\ e \in F
  BY <1>2, <1>3
<1>5. Len(Append(s, e)) = Len(s) + 1 /\ \A k \in 1..Len(s) : Append(s, e)[k] = s[k]
  BY <1>4
<1>6. Append(s, e)[Len(s) + 1] = e
  BY <1>1, <1>4
<1>7. QED
  BY <1>1, <1>5, <1>6

\* The imports stay where they are among the symbols.
LEMMA ImportsPushed ==
  ASSUME NEW s, Explained(s), NEW imports, ImportsBetween(s, imports), NEW e,
         IF SymbolOf(e) \in HeaderSymbols THEN Before(PlacesOf(e), imports)
                                          ELSE Before(imports, PlacesOf(e))
  PROVE  ImportsBetween(Append(s, e), imports)
BY EachPushed, Zenon DEF ImportsBetween

\* The state the parser begins in is only at the bottom.
LEMMA StartBelow ==
  ASSUME NEW s, Explained(s), NEW k \in DOMAIN s, s[k].state = Start
  PROVE  k = 1
<1>1. Len(s) \in Nat /\ DOMAIN s = 1..Len(s) /\ \A j \in DOMAIN s : s[j].state \in DOMAIN Tables
  BY StatesOf
<1>2. SUFFICES ASSUME k \in 2..Len(s) PROVE FALSE
  BY <1>1
<1>3. Entered(s[k - 1].state, s[k]) /\ s[k - 1].state \in DOMAIN Tables
  BY <1>1, <1>2 DEF Explained
<1>4. SymbolOf(s[k]) = "none"
  BY RuleForms DEF SymbolOf, TablesTyped
<1>5. QED
  BY <1>3, <1>4, RuleForms DEF Entered, TablesTyped

\* Nothing is thrown away once the document is given.
LEMMA RecoverKeeps ==
  ASSUME IInv, NEW here, here = Tables[stack[Len(stack)].state], Recover(here)
  PROVE  IInv'
<1>1. /\ FileRead /\ Typed /\ Explained(stack) /\ InOrder(stack) /\ Placed /\ HeadersFirst
      /\ GivenLast
  BY DEF IInv
<1>2. /\ phase = "recovering" /\ status' = 3 /\ phase' \in {"parsing", "recovering", "aborted"}
      /\ UNCHANGED <<file, started, lex, read, lookahead, gError, package, gImports, called, document>>
  BY DEF Recover
<1>3. FileRead' /\ Passed' = Passed /\ Len(file)' = Len(file)
  BY <1>1, <1>2, Kept
<1>4. ImportPlaces' = ImportPlaces
  BY <1>2 DEF ImportPlaces
<1>5. Typed'
  BY <1>1, <1>2, <1>3 DEF Typed
<1>6. called = 0
  BY <1>1, <1>2 DEF Typed, GivenLast
<1>7. /\ Len(stack) \in Nat /\ 1 <= Len(stack) /\ DOMAIN stack = 1..Len(stack)
      /\ stack[Len(stack)].state \in DOMAIN Tables
  BY <1>1, StatesOf
<1>8. CASE "error" \in DOMAIN here.goto
  <2> DEFINE e == [state |-> here.goto["error"], value |-> 0]
  <2>1. stack' = Append(stack, e) /\ phase' = "parsing"
    BY <1>8 DEF Recover
  <2>2. Means("error", 0) /\ Places("error", 0) = {} /\ "error" \notin HeaderSymbols
        /\ "error" \in DOMAIN here.goto \ {"EOF"} /\ "error" # "document"
    BY <1>8, MeansNothing, TokensApart
  <2>3. \A k \in 2..Len(stack) : Before(PlacesOf(stack[k]), Places("error", 0))
    BY <2>2 DEF Before
  <2>4. /\ Explained(stack') /\ InOrder(stack') /\ SymbolOf(e) = "error" /\ PlacesOf(e) = {}
    BY <1>1, <2>1, <2>2, <2>3, Pushed
  <2> HIDE DEF e
  <2>5. /\ \A k \in 2..Len(stack') :
             (k \in 2..Len(stack) /\ stack'[k] = stack[k]) \/ (k = Len(stack) + 1 /\ stack'[k] = e)
        /\ Len(stack') = Len(stack) + 1 /\ Len(stack) + 1 > 1 /\ stack'[Len(stack) + 1] = e
    BY <1>1, <2>1, EachPushed
  <2>6. Placed'
    BY <1>1, <1>3, <1>4, <2>4, <2>5 DEF Placed
  <2>7. HeadersFirst'
    <3>1. ImportsBetween(stack', ImportPlaces)
      <4>1. Before(ImportPlaces, PlacesOf(e))
        BY <2>4 DEF Before
      <4>2. QED
        BY <1>1, <2>1, <2>2, <2>4, <4>1, ImportsPushed DEF HeadersFirst
    <3>2. Len(stack') > 1 /\ SymbolOf(stack'[Len(stack')]) \notin HeaderSymbols
      BY <2>2, <2>4, <2>5
    <3>3. QED
      BY <1>1, <1>2, <1>4, <3>1, <3>2 DEF HeadersFirst
  <2>8. GivenLast'
    <3>1. \A k \in 2..Len(stack') : SymbolOf(stack'[k]) # "document"
      BY <1>1, <1>6, <2>2, <2>4, <2>5 DEF GivenLast
    <3>2. QED
      BY <1>1, <1>2, <1>6, <3>1 DEF GivenLast
  <2>9. QED
    BY <1>3, <1>5, <2>4, <2>6, <2>7, <2>8 DEF IInv
<1>9. CASE "error" \notin DOMAIN here.goto
  <2>1. PICK m \in 1..Len(stack) : stack' = SubSeq(stack, 1, m) /\ phase' # "parsing"
    <3>1. CASE Len(stack) = 1
      <4>1. stack' = stack /\ phase' = "aborted"
        BY <1>9, <3>1 DEF Recover
      <4>2. PICK E : stack \in Seq(E)
        BY <1>1 DEF Explained
      <4>3. SubSeq(stack, 1, 1) = stack
        BY <1>7, <3>1, <4>2
      <4>4. 1 \in 1..Len(stack)
        BY <1>7
      <4>5. QED
        BY <4>1, <4>3, <4>4
    <3>2. CASE Len(stack) # 1
      <4>1. stack' = Front(stack) /\ phase' = "recovering"
        BY <1>2, <1>9, <3>2 DEF Recover
      <4>2. Front(stack) = SubSeq(stack, 1, Len(stack) - 1)
        BY Zenon DEF Front
      <4>3. Len(stack) - 1 \in 1..Len(stack)
        BY <1>7, <3>2
      <4>4. QED
        BY <4>1, <4>2, <4>3
    <3>3. QED
      BY <3>1, <3>2
  <2>2. /\ Explained(stack') /\ InOrder(stack') /\ Len(stack') = m
        /\ \A k \in 1..m : stack'[k] = stack[k]
    BY <1>1, <2>1, Popped
  <2>3. \A k \in 2..Len(stack') : k \in 2..Len(stack) /\ stack'[k] = stack[k]
    BY <1>7, <2>2
  <2>4. Placed'
    BY <1>1, <1>3, <1>4, <2>3 DEF Placed
  <2>5. HeadersFirst'
    <3>1. ImportsBetween(stack', ImportPlaces)
      BY <1>1, <2>3, Zenon DEF HeadersFirst, ImportsBetween
    <3>2. QED
      BY <1>1, <1>2, <1>4, <2>1, <3>1 DEF HeadersFirst
  <2>6. GivenLast'
    <3>1. \A k \in 2..Len(stack') : SymbolOf(stack'[k]) # "document"
      BY <1>1, <1>6, <2>3 DEF GivenLast
    <3>2. QED
      BY <1>1, <1>2, <1>6, <3>1 DEF GivenLast
  <2>7. QED
    BY <1>3, <1>5, <2>2, <2>4, <2>5, <2>6 DEF IInv
<1>10. QED
  BY <1>8, <1>9

LEMMA ShiftKeeps ==
  ASSUME IInv, NEW here, here = Tables[stack[Len(stack)].state], Shift(here)
  PROVE  IInv'
<1> DEFINE x == Token
           e == [state |-> here.goto[x], value |-> read]
<1>1. /\ FileRead /\ Typed /\ Explained(stack) /\ InOrder(stack) /\ Placed /\ HeadersFirst
      /\ GivenLast
  BY DEF IInv
<1>2. /\ phase = "parsing" /\ lookahead # <<>> /\ x \in DOMAIN here.goto \ {"EOF"}
      /\ stack' = Append(stack, [state |-> here.goto[x], value |-> lookahead[1].at])
      /\ lookahead' = <<>>
      /\ status' = IF status > 0 THEN status - 1 ELSE 0
      /\ UNCHANGED <<file, started, lex, read, phase, gError, package, gImports, called, document>>
  BY DEF Shift
<1>3. /\ lookahead[1].at = read /\ x \in Tokens /\ read \in 1..Len(file) /\ read \in Nat \ {0}
      /\ Len(file) \in Nat
  BY <1>1, <1>2, AtHand, FileTyped DEF FileRead
<1>4. FileRead' /\ Passed \subseteq Passed' /\ read \in Passed' /\ Len(file)' = Len(file)
  BY <1>1, <1>2, TokenTaken
<1>5. ImportPlaces' = ImportPlaces
  BY <1>2 DEF ImportPlaces
<1>6. Typed'
  BY <1>1, <1>2, <1>4 DEF Typed
<1>7. /\ Len(stack) \in Nat /\ 1 <= Len(stack) /\ DOMAIN stack = 1..Len(stack)
      /\ stack[Len(stack)].state \in DOMAIN Tables
  BY <1>1, StatesOf
<1>8. stack' = Append(stack, e)
  BY <1>2, <1>3
<1>9. Means(x, read) /\ Places(x, read) = {read}
  BY <1>3, MeansToken DEF Place
<1>10. \A p \in Passed : p < read
  BY <1>2 DEF Passed
<1>11. \A k \in 2..Len(stack) : Before(PlacesOf(stack[k]), Places(x, read))
  BY <1>1, <1>9, <1>10 DEF Placed, Before
<1>12. /\ Explained(stack') /\ InOrder(stack') /\ SymbolOf(e) = x /\ PlacesOf(e) = {read}
  <2> HIDE DEF x
  <2>1. /\ x \in DOMAIN Tables[stack[Len(stack)].state].goto \ {"EOF"}
        /\ e = [state |-> Tables[stack[Len(stack)].state].goto[x], value |-> read]
    BY <1>2
  <2> HIDE DEF e
  <2>2. /\ Explained(Append(stack, e)) /\ InOrder(Append(stack, e))
        /\ SymbolOf(e) = x /\ PlacesOf(e) = Places(x, read)
    <3>1. PICK s : s = stack
      OBVIOUS
    <3>2. /\ Explained(s) /\ InOrder(s) /\ x \in DOMAIN Tables[s[Len(s)].state].goto \ {"EOF"}
          /\ e = [state |-> Tables[s[Len(s)].state].goto[x], value |-> read]
          /\ \A k \in 2..Len(s) : Before(PlacesOf(s[k]), Places(x, read))
      BY <1>1, <1>11, <2>1, <3>1
    <3>3. Means(x, read)
      BY <1>9
    <3>4. /\ Explained(Append(s, e)) /\ InOrder(Append(s, e))
          /\ SymbolOf(e) = x /\ PlacesOf(e) = Places(x, read)
      BY <3>2, <3>3, Pushed
    <3>5. QED
      BY <3>1, <3>4
  <2>3. QED
    BY <1>8, <1>9, <2>2
<1>13. /\ \A k \in 2..Len(stack') :
            (k \in 2..Len(stack) /\ stack'[k] = stack[k]) \/ (k = Len(stack) + 1 /\ stack'[k] = e)
       /\ Len(stack') = Len(stack) + 1 /\ Len(stack) + 1 > 1 /\ stack'[Len(stack) + 1] = e
  BY <1>1, <1>8, EachPushed
<1> HIDE DEF e, x
<1>14. Placed'
  BY <1>1, <1>4, <1>5, <1>12, <1>13 DEF Placed
<1>15. x \in HeaderSymbols => gImports = <<>>
  <2>1. SUFFICES ASSUME x \in HeaderSymbols, gImports # <<>> PROVE FALSE
    OBVIOUS
  <2>2. Len(stack) > 1 /\ SymbolOf(stack[Len(stack)]) \notin HeaderSymbols
    BY <1>1, <1>2, <2>1 DEF HeadersFirst
  <2>3. HeaderSymbols \cap DOMAIN Tables[stack[Len(stack)].state].goto # {}
    BY <1>2, <2>1
  <2>4. stack[Len(stack)].state = Start
    BY <1>7, <2>2, <2>3, RuleForms, Zenon DEF DocumentWhole, SymbolOf
  <2>5. Len(stack) = 1
    BY <1>1, <1>7, <2>4, StartBelow
  <2>6. QED
    BY <2>2, <2>5
<1>16. HeadersFirst'
  <2>1. gImports = <<>> => ImportPlaces = {}
    BY DEF ImportPlaces
  <2>2. Before(ImportPlaces, {read})
    BY <1>1, <1>10 DEF Placed, Before
  <2>3. ImportPlaces = {} => Before({read}, ImportPlaces)
    BY DEF Before
  <2>4. IF SymbolOf(e) \in HeaderSymbols THEN Before(PlacesOf(e), ImportPlaces)
                                         ELSE Before(ImportPlaces, PlacesOf(e))
    BY <1>12, <1>15, <2>1, <2>2, <2>3
  <2>5. ImportsBetween(stack', ImportPlaces)
    BY <1>1, <1>8, <2>4, ImportsPushed DEF HeadersFirst
  <2>6. gImports # <<>> => Len(stack') > 1 /\ SymbolOf(stack'[Len(stack')]) \notin HeaderSymbols
    BY <1>12, <1>13, <1>15
  <2>7. QED
    BY <1>1, <1>2, <1>5, <2>5, <2>6 DEF HeadersFirst
<1>17. GivenLast'
  <2>1. called # 1
    BY <1>1, <1>2 DEF GivenLast, x
  <2>2. x # "document"
    BY <1>3, TokensApart
  <2>3. \A k \in 2..Len(stack') : SymbolOf(stack'[k]) # "document"
    <3>1. called = 0
      BY <1>1, <2>1 DEF Typed
    <3>2. \A k \in 2..Len(stack) : SymbolOf(stack[k]) # "document"
      BY <1>1, <3>1 DEF GivenLast
    <3>3. QED
      BY <1>12, <1>13, <2>2, <3>2
  <2>4. QED
    BY <1>1, <1>2, <2>1, <2>3 DEF GivenLast
<1>18. QED
  BY <1>4, <1>6, <1>12, <1>14, <1>16, <1>17 DEF IInv

\* Below a header there are headers only.
LEMMA HeadersBelow ==
  ASSUME NEW s, Explained(s), NEW k \in 2..Len(s), SymbolOf(s[k]) \in HeaderSymbols
  PROVE  \A j \in 2..k : SymbolOf(s[j]) \in HeaderSymbols
<1> DEFINE Header(n) == k - n \in 2..k => SymbolOf(s[k - n]) \in HeaderSymbols
           N == {n \in Nat : Header(n)}
<1>1. /\ Len(s) \in Nat /\ DOMAIN s = 1..Len(s) /\ k \in Nat /\ k <= Len(s)
      /\ \A j \in DOMAIN s : s[j].state \in DOMAIN Tables
  BY StatesOf
<1>2. Header(0)
  BY <1>1
<1>3. ASSUME NEW n \in Nat, Header(n) PROVE Header(n + 1)
  <2>1. SUFFICES ASSUME k - (n + 1) \in 2..k PROVE SymbolOf(s[k - (n + 1)]) \in HeaderSymbols
    OBVIOUS
  <2>2. PICK j \in 2..Len(s) :
          j = k - n /\ j - 1 = k - (n + 1) /\ j - 1 \in DOMAIN s /\ j - 1 # 1 /\ k - n \in 2..k
    BY <1>1, <2>1
  <2>3. SymbolOf(s[j]) \in HeaderSymbols
    BY <1>3, <2>2
  <2>4. /\ Entered(s[j - 1].state, s[j]) /\ s[j - 1].state \in DOMAIN Tables
        /\ s[j - 1].state # Start
    BY <1>1, <2>2, StartBelow DEF Explained
  <2>5. HeaderSymbols \cap DOMAIN Tables[s[j - 1].state].goto # {}
    BY <2>3, <2>4 DEF Entered
  <2>6. SymbolOf(s[j - 1]) \in HeaderSymbols
    BY <2>4, <2>5, RuleForms, Zenon DEF DocumentWhole, SymbolOf
  <2>7. QED
    BY <2>2, <2>6
<1>4. \A n \in Nat : Header(n)
  <2> HIDE DEF Header
  <2>1. N \in SUBSET Nat /\ 0 \in N /\ \A n \in N : n + 1 \in N
    BY <1>2, <1>3
  <2>2. N = Nat
    <3> HIDE DEF N
    <3>1. QED
      BY <2>1, AllNumbers
  <2>3. QED
    BY <2>2
<1>5. ASSUME NEW j \in 2..k PROVE SymbolOf(s[j]) \in HeaderSymbols
  <2>1. k - j \in Nat /\ k - (k - j) = j
    BY <1>1
  <2>2. Header(k - j)
    BY <1>4, <2>1
  <2>3. QED
    BY <2>1, <2>2
<1>6. QED
  BY <1>5

\* On top of m entries the right side of a rule, with the values v.
OnTop(s, r, rhs, m, v) ==
  /\ rhs = Rules[r].rhs /\ [rule |-> r, dot |-> Len(rhs)] \in Tables[s[Len(s)].state].items
  /\ m = Len(s) - Len(rhs) /\ v = [k \in 1..Len(rhs) |-> s[m + k].value]

\* More is those m entries with the left side on top.
Reduced(s, m, lhs, value, e, more) ==
  /\ e = [state |-> Tables[s[m].state].goto[lhs], value |-> value]
  /\ more = Append(SubSeq(s, 1, m), e)

\* The values of the right side are in the order of the file.
LEMMA RightSide ==
  ASSUME NEW s, Explained(s), InOrder(s), NEW r \in DOMAIN Rules, NEW rhs, NEW m, NEW v,
         OnTop(s, r, rhs, m, v)
  PROVE  /\ Len(rhs) \in Nat /\ m \in Nat /\ 1 <= m /\ m \in 1..Len(s) /\ Len(s) = m + Len(rhs)
         /\ Given(rhs, v)
         /\ \A k \in 1..Len(rhs) :
              /\ m + k \in 2..Len(s) /\ SymbolOf(s[m + k]) = rhs[k]
              /\ PlacesOf(s[m + k]) = Places(rhs[k], v[k])
         /\ Rules[r].lhs \in DOMAIN Tables[s[m].state].goto \ {"EOF"} /\ Rules[r].lhs # "accept"
<1>1. /\ Len(rhs) \in Nat /\ Len(rhs) < Len(s) /\ Len(s) \in Nat
      /\ \A k \in 1..Len(rhs) : SymbolOf(s[m + k]) = rhs[k]
      /\ Rules[r].lhs \in DOMAIN Tables[s[m].state].goto \ {"EOF"} /\ Rules[r].lhs # "accept"
  <2>1. [rule |-> r, dot |-> Len(Rules[r].rhs)] \in Tables[s[Len(s)].state].items
    BY DEF OnTop
  <2>2. /\ Len(Rules[r].rhs) \in Nat /\ Len(Rules[r].rhs) < Len(s)
        /\ \A k \in 1..Len(Rules[r].rhs) :
             SymbolOf(s[Len(s) - Len(Rules[r].rhs) + k]) = Rules[r].rhs[k]
        /\ Rules[r].lhs \in DOMAIN Tables[s[Len(s) - Len(Rules[r].rhs)].state].goto \ {"EOF"}
        /\ Rules[r].lhs # "accept"
    BY <2>1, RightSideOnTop
  <2>3. Len(s) \in Nat
    BY StatesOf
  <2>4. rhs = Rules[r].rhs /\ m = Len(s) - Len(Rules[r].rhs)
    BY DEF OnTop
  <2>5. QED
    BY <2>2, <2>3, <2>4
<1>2. /\ m \in Nat /\ 1 <= m /\ m \in 1..Len(s) /\ Len(s) = m + Len(rhs)
      /\ \A k \in 1..Len(rhs) : m + k \in 2..Len(s)
  <2>1. m = Len(s) - Len(rhs)
    BY DEF OnTop
  <2>2. QED
    BY <1>1, <2>1
<1>3. ASSUME NEW k \in 1..Len(rhs)
      PROVE  Means(rhs[k], v[k]) /\ PlacesOf(s[m + k]) = Places(rhs[k], v[k])
  <2>1. PICK q \in 2..Len(s) : q = m + k
    BY <1>2
  <2>2. Entered(s[q - 1].state, s[q])
    BY DEF Explained
  <2>3. v[k] = s[q].value /\ SymbolOf(s[q]) = rhs[k]
    BY <1>1, <2>1 DEF OnTop
  <2>4. QED
    BY <2>1, <2>2, <2>3 DEF Entered, PlacesOf
<1>4. ASSUME NEW j \in 1..Len(rhs), NEW k \in 1..Len(rhs), j < k
      PROVE  Before(Places(rhs[j], v[j]), Places(rhs[k], v[k]))
  <2>1. PICK p \in 2..Len(s), q \in 2..Len(s) : p = m + j /\ q = m + k
    BY <1>2
  <2>2. p < q
    BY <1>1, <1>2, <1>4, <2>1
  <2>3. Before(PlacesOf(s[p]), PlacesOf(s[q]))
    BY <2>2 DEF InOrder
  <2>4. QED
    BY <1>3, <2>1, <2>3
<1>5. Given(rhs, v)
  <2>1. DOMAIN v = 1..Len(rhs)
    BY DEF OnTop
  <2>2. QED
    BY <1>3, <1>4, <2>1 DEF Given
<1>6. QED
  BY <1>1, <1>2, <1>3, <1>5

\* More is a stack of m entries of s and one.
OneMore(s, m, e, more) ==
  /\ Explained(more) /\ InOrder(more) /\ Len(more) = m + 1 /\ Len(more) > 1 /\ more[Len(more)] = e
  /\ \A k \in 2..Len(more) : \/ k \in 2..m /\ k \in 2..Len(s) /\ more[k] = s[k]
                             \/ k = Len(more) /\ more[k] = e

Replaces(s, r, rhs, m, v, lhs, does, e, more) ==
  /\ Explained(s) /\ InOrder(s) /\ r \in DOMAIN Rules /\ OnTop(s, r, rhs, m, v)
  /\ lhs = Rules[r].lhs /\ does = Rules[r].does /\ Reduced(s, m, lhs, Value(does, v), e, more)

\* The left side takes the place of the right.
LEMMA Replaced ==
  ASSUME NEW s, NEW r, NEW rhs, NEW m, NEW v, NEW lhs, NEW does, NEW e, NEW more,
         Replaces(s, r, rhs, m, v, lhs, does, e, more), package \in Nat
  PROVE  /\ OneMore(s, m, e, more) /\ SymbolOf(e) = lhs
         /\ PlacesOf(e) = Places(lhs, Value(does, v))
         /\ PlacesOf(e) \subseteq GivenPlaces(rhs, v)
<1>1. /\ Explained(s) /\ InOrder(s) /\ r \in DOMAIN Rules /\ OnTop(s, r, rhs, m, v)
      /\ lhs = Rules[r].lhs /\ does = Rules[r].does /\ Reduced(s, m, lhs, Value(does, v), e, more)
  BY DEF Replaces
<1>2. /\ Len(rhs) \in Nat /\ m \in Nat /\ 1 <= m /\ m \in 1..Len(s) /\ Len(s) = m + Len(rhs)
      /\ Given(rhs, v)
      /\ \A k \in 1..Len(rhs) :
           m + k \in 2..Len(s) /\ PlacesOf(s[m + k]) = Places(rhs[k], v[k])
      /\ lhs \in DOMAIN Tables[s[m].state].goto \ {"EOF"} /\ lhs # "accept"
  BY <1>1, RightSide
<1>3. Means(lhs, Value(does, v)) /\ Places(lhs, Value(does, v)) \subseteq GivenPlaces(rhs, v)
  <2>1. rhs = Rules[r].rhs
    BY <1>1 DEF OnTop
  <2>2. RuleTyped(lhs, rhs, does)
    BY <1>1, <2>1, RuleForms DEF RulesTyped
  <2>3. Makes(lhs, Value(does, v), rhs, v)
    BY <1>2, <2>2, MeantValue
  <2>4. QED
    BY <2>3 DEF Makes
<1> DEFINE value == Value(does, v)
<1> HIDE DEF value
<1>4. PICK less : less = SubSeq(s, 1, m)
  OBVIOUS
<1>5. /\ Explained(less) /\ InOrder(less) /\ Len(less) = m /\ \A k \in 1..m : less[k] = s[k]
  BY <1>1, <1>2, <1>4, Popped
<1>6. \A k \in 2..m : k \in 2..Len(s) /\ less[k] = s[k]
  BY <1>2, <1>5
<1>7. ASSUME NEW k \in 2..m PROVE Before(PlacesOf(less[k]), Places(lhs, value))
  <2>1. ASSUME NEW j \in 1..Len(rhs) PROVE Before(PlacesOf(s[k]), Places(rhs[j], v[j]))
    <3>1. PICK q \in 2..Len(s) : q = m + j
      BY <1>2
    <3>2. k \in 2..Len(s) /\ k < q
      BY <1>2, <3>1
    <3>3. QED
      BY <1>1, <1>2, <3>1, <3>2 DEF InOrder
  <2>2. Before(PlacesOf(s[k]), GivenPlaces(rhs, v))
    BY <2>1, Zenon DEF GivenPlaces, Before
  <2>3. QED
    BY <1>3, <1>6, <2>2 DEF Before, value
<1>8. more = Append(less, e) /\ less[Len(less)] = s[m]
  BY <1>1, <1>2, <1>4, <1>5 DEF Reduced
<1>9. /\ Explained(more) /\ InOrder(more) /\ SymbolOf(e) = lhs /\ PlacesOf(e) = Places(lhs, value)
  <2>1. /\ e = [state |-> Tables[less[Len(less)].state].goto[lhs], value |-> value]
        /\ lhs \in DOMAIN Tables[less[Len(less)].state].goto \ {"EOF"}
        /\ \A k \in 2..Len(less) : Before(PlacesOf(less[k]), Places(lhs, value))
    BY <1>1, <1>2, <1>5, <1>7, <1>8 DEF Reduced, value
  <2>2. /\ Explained(Append(less, e)) /\ InOrder(Append(less, e)) /\ SymbolOf(e) = lhs
        /\ PlacesOf(e) = Places(lhs, value)
    <3>1. Means(lhs, value)
      BY <1>3 DEF value
    <3>2. QED
      BY <1>5, <2>1, <3>1, Pushed
  <2>3. QED
    BY <1>8, <2>2
<1>10. /\ \A k \in 2..Len(Append(less, e)) :
            \/ k \in 2..Len(less) /\ Append(less, e)[k] = less[k]
            \/ k = Len(less) + 1 /\ Append(less, e)[k] = e
       /\ Len(Append(less, e)) = Len(less) + 1 /\ Len(less) + 1 > 1
       /\ Append(less, e)[Len(less) + 1] = e
  BY <1>5, EachPushed
<1>11. /\ \A k \in 2..Len(more) : (k \in 2..m /\ more[k] = less[k]) \/ (k = m + 1 /\ more[k] = e)
       /\ Len(more) = m + 1 /\ m + 1 > 1 /\ more[m + 1] = e
  BY <1>5, <1>8, <1>10
<1>12. \A k \in 2..Len(more) :
         \/ k \in 2..m /\ k \in 2..Len(s) /\ more[k] = s[k]
         \/ k = Len(more) /\ more[k] = e
  BY <1>6, <1>11, Zenon
<1>13. QED
  BY <1>3, <1>9, <1>11, <1>12 DEF value, OneMore

\* What a reduction does.
Reduces(r, rhs, m, v, e) ==
  /\ r \in DOMAIN Rules /\ OnTop(stack, r, rhs, m, v)
  /\ Reduced(stack, m, Rules[r].lhs, Value(Rules[r].does, v), e, stack')
  /\ Callbacks(Rules[r], v) /\ phase = "parsing"
  /\ Rules[r].lhs = "document" => lookahead # <<>> /\ Token = "EOF"
  /\ Rules[r].lhs # "interface_keywords"
  /\ UNCHANGED <<file, started, lex, read, lookahead, status, phase, gError, package>>

\* What the tables say of a reduction.
LEMMA RowReduces ==
  ASSUME NEW n \in DOMAIN Tables, NEW t \in Terminals, NEW r, r = Tables[n].reduces[t], r # 0
  PROVE  /\ r \in DOMAIN Rules /\ [rule |-> r, dot |-> Len(Rules[r].rhs)] \in Tables[n].items
         /\ Rules[r].lhs = "document" => t = "EOF" /\ ~Tables[n].consistent
         /\ t # "error" => Rules[r].lhs # "interface_keywords"
<1>1. Tables[n].reduces \in [Terminals -> {0} \cup DOMAIN Rules]
  BY RuleForms, Zenon DEF TablesTyped
<1>2. r \in DOMAIN Rules
  BY <1>1
<1>3. [rule |-> r, dot |-> Len(Rules[r].rhs)] \in Tables[n].items
  BY RuleForms, Zenon DEF ItemsExplain
<1>4. Rules[r].lhs = "document" => t = "EOF" /\ ~Tables[n].consistent
  BY RuleForms, Zenon DEF DocumentWhole
<1>5. t # "error" => Rules[r].lhs # "interface_keywords"
  BY RuleForms, Zenon DEF PlacesApart
<1>6. QED
  BY <1>2, <1>3, <1>4, <1>5

LEMMA ReduceReduces ==
  ASSUME IInv, NEW here, here = Tables[stack[Len(stack)].state], Reduce(here)
  PROVE  called = 0 /\ \E r, rhs, m, v, e : Reduces(r, rhs, m, v, e)
<1>1. /\ phase = "parsing" /\ FileRead /\ Typed /\ Explained(stack) /\ GivenLast
      /\ UNCHANGED <<file, started, lex, read, lookahead, status, phase, gError, package>>
  BY DEF IInv, Reduce
<1>2. PICK n \in DOMAIN Tables : n = stack[Len(stack)].state /\ here = Tables[n]
  BY <1>1, StatesOf
<1>3. PICK r : /\ r = Chosen(here) /\ r # 0
               /\ LET rule == Rules[r]
                      length == Len(rule.rhs)
                      v == [k \in 1..length |-> stack[Len(stack) - length + k].value]
                      below == SubSeq(stack, 1, Len(stack) - length)
                  IN  /\ stack' = Append(below, [state |-> Tables[Last(below).state].goto[rule.lhs],
                                                 value |-> Value(rule.does, v)])
                      /\ Callbacks(rule, v)
  BY Zenon DEF Reduce
<1>4. PICK t \in Terminals : /\ r = here.reduces[t]
                             /\ here.consistent \/ (lookahead # <<>> /\ t = Token)
                             /\ ~here.consistent => Token \notin DOMAIN here.goto
                             /\ t # "error"
  <2>1. "EOF" \in Terminals /\ "EOF" # "error"
    BY Zenon DEF Terminals
  <2>2. lookahead # <<>> => Token \in Terminals /\ Token # "error"
    BY <1>1, AtHand, TokensApart
  <2>3. QED
    BY <1>3, <2>1, <2>2, Zenon DEF Chosen
<1>5. /\ r \in DOMAIN Rules /\ [rule |-> r, dot |-> Len(Rules[r].rhs)] \in here.items
      /\ Rules[r].lhs = "document" => t = "EOF" /\ ~here.consistent
      /\ Rules[r].lhs # "interface_keywords"
  <2>1. r = Tables[n].reduces[t] /\ r # 0
    BY <1>2, <1>3, <1>4, Zenon
  <2>2. QED
    BY <1>2, <1>4, <2>1, RowReduces
<1>6. Rules[r].lhs = "document" => lookahead # <<>> /\ Token = "EOF"
  BY <1>4, <1>5, Zenon
<1>7. called = 0
  <2>1. SUFFICES ASSUME called = 1 PROVE FALSE
    BY <1>1 DEF Typed
  <2>2. Token = "EOF" /\ SymbolOf(stack[Len(stack)]) = "document"
    BY <1>1, <2>1 DEF GivenLast
  <2>3. ~here.consistent /\ "EOF" \in DOMAIN here.goto
    BY <1>2, <2>2, RuleForms, Zenon DEF DocumentWhole, SymbolOf
  <2>4. QED
    BY <1>4, <2>2, <2>3, Zenon
<1> DEFINE rhs == Rules[r].rhs
           m == Len(stack) - Len(rhs)
           v == [k \in 1..Len(rhs) |-> stack[Len(stack) - Len(rhs) + k].value]
           below == SubSeq(stack, 1, m)
           e == [state |-> Tables[stack[m].state].goto[Rules[r].lhs],
                 value |-> Value(Rules[r].does, v)]
<1>8. OnTop(stack, r, rhs, m, v)
  BY <1>2, <1>5 DEF OnTop
<1>9. Last(below) = stack[m]
  <2>1. /\ Len(rhs) \in Nat /\ m \in Nat /\ 1 <= m /\ m \in 1..Len(stack)
    <3> HIDE DEF rhs, m, v
    <3>1. Explained(stack) /\ InOrder(stack)
      BY DEF IInv
    <3>2. QED
      BY <1>5, <1>8, <3>1, RightSide
  <2>2. /\ Len(below) = m /\ \A k \in 1..m : below[k] = stack[k]
    <3> HIDE DEF m
    <3>1. QED
      BY <2>1, Popped DEF IInv
  <2>3. Last(below) = below[Len(below)]
    BY Zenon DEF Last
  <2> HIDE DEF below, m
  <2>4. QED
    BY <2>1, <2>2, <2>3
<1>10. Reduced(stack, m, Rules[r].lhs, Value(Rules[r].does, v), e, stack') /\ Callbacks(Rules[r], v)
  BY <1>3, <1>9, Zenon DEF Reduced
<1> HIDE DEF rhs, m, v, below, e
<1>11. Reduces(r, rhs, m, v, e)
  BY <1>1, <1>5, <1>6, <1>8, <1>10, Zenon DEF Reduces
<1>12. QED
  BY <1>7, <1>11, ZenonT(40)

LEMMA ReduceKeeps ==
  ASSUME IInv, NEW here, here = Tables[stack[Len(stack)].state], Reduce(here)
  PROVE  IInv'
<1>1. /\ FileRead /\ Typed /\ Explained(stack) /\ InOrder(stack) /\ Placed /\ HeadersFirst
      /\ GivenLast /\ called = 0
  BY ReduceReduces DEF IInv
<1>2. PICK r, rhs, m, v, e : Reduces(r, rhs, m, v, e)
  BY ReduceReduces
<1>3. PICK lhs, does : lhs = Rules[r].lhs /\ does = Rules[r].does
  OBVIOUS
<1>4. /\ r \in DOMAIN Rules /\ OnTop(stack, r, rhs, m, v) /\ phase = "parsing"
      /\ Reduced(stack, m, lhs, Value(does, v), e, stack')
      /\ lhs = "document" => lookahead # <<>> /\ Token = "EOF"
      /\ gImports' = IF does = "import" THEN <<v[1]>> \o gImports ELSE gImports
      /\ IF does = "document" THEN called' = called + 1 /\ document' = Last(v)
                              ELSE UNCHANGED <<called, document>>
      /\ UNCHANGED <<file, started, lex, read, lookahead, status, phase, gError, package>>
  BY <1>2, <1>3, Zenon DEF Reduces, Callbacks
<1>5. RuleTyped(lhs, rhs, does)
  <2>1. rhs = Rules[r].rhs
    BY <1>4, Zenon DEF OnTop
  <2>2. QED
    BY <1>3, <1>4, <2>1, RuleForms DEF RulesTyped
<1>6. /\ Len(rhs) \in Nat /\ m \in Nat /\ 1 <= m /\ m \in 1..Len(stack)
      /\ Len(stack) = m + Len(rhs) /\ Given(rhs, v)
      /\ \A k \in 1..Len(rhs) :
           /\ m + k \in 2..Len(stack) /\ SymbolOf(stack[m + k]) = rhs[k]
           /\ PlacesOf(stack[m + k]) = Places(rhs[k], v[k])
  BY <1>1, <1>4, RightSide
<1>7. /\ Explained(stack') /\ InOrder(stack') /\ Len(stack') = m + 1 /\ Len(stack') > 1
      /\ SymbolOf(e) = lhs /\ stack'[Len(stack')] = e
      /\ PlacesOf(e) = Places(lhs, Value(does, v)) /\ PlacesOf(e) \subseteq GivenPlaces(rhs, v)
      /\ \A k \in 2..Len(stack') :
           \/ k \in 2..m /\ k \in 2..Len(stack) /\ stack'[k] = stack[k]
           \/ k = Len(stack') /\ stack'[k] = e
  <2>1. package \in Nat
    <3>1. file \in Files
      BY <1>1 DEF FileRead
    <3>2. QED
      BY <1>1, <3>1, FileTyped DEF Typed
  <2>2. OnTop(stack, r, rhs, m, v) /\ Reduced(stack, m, lhs, Value(does, v), e, stack')
    BY <1>4, Zenon
  <2>3. /\ OneMore(stack, m, e, stack') /\ SymbolOf(e) = lhs
        /\ PlacesOf(e) = Places(lhs, Value(does, v)) /\ PlacesOf(e) \subseteq GivenPlaces(rhs, v)
    <3>1. r \in DOMAIN Rules /\ Explained(stack) /\ InOrder(stack)
      BY <1>1, <1>4, Zenon
    <3>2. lhs = Rules[r].lhs /\ does = Rules[r].does
      BY <1>3
    <3>3. PICK s, more : s = stack /\ more = stack'
      OBVIOUS
    <3>4. Replaces(s, r, rhs, m, v, lhs, does, e, more)
      BY <2>2, <3>1, <3>2, <3>3, Zenon DEF Replaces
    <3>5. /\ OneMore(s, m, e, more) /\ SymbolOf(e) = lhs
          /\ PlacesOf(e) = Places(lhs, Value(does, v)) /\ PlacesOf(e) \subseteq GivenPlaces(rhs, v)
      BY <2>1, <3>4, Replaced
    <3>6. QED
      BY <3>3, <3>5
  <2>4. QED
    BY <2>3 DEF OneMore
<1>8. FileRead' /\ Passed' = Passed /\ Len(file)' = Len(file)
  BY <1>1, <1>4, Kept
<1>9. GivenPlaces(rhs, v) \subseteq Passed
  BY <1>1, <1>6, Zenon DEF Placed, GivenPlaces
<1>10. /\ lhs \notin Terminals /\ (lhs = "document" <=> does = "document")
       /\ (lhs = "imports" <=> does = "import")
       /\ lhs = "package" => Len(rhs) > 0 /\ rhs[Len(rhs)] \in HeaderSymbols
       /\ \A k \in 1..Len(rhs) : rhs[k] \in HeaderSymbols => lhs \in {"headers", "imports", "package"}
       /\ does = "document" => Len(rhs) > 0 /\ rhs[Len(rhs)] = "document_items"
       /\ does = "import" => 1 <= Len(rhs) /\ rhs[1] = "IMPORT"
  BY <1>5, Zenon DEF RuleTyped
<1>11. lhs \in {"headers", "imports", "package"} => PlacesOf(e) = {}
  <2>1. lhs \in {"headers", "imports", "package"} => lhs \in Headless
    BY Zenon DEF Headless
  <2>2. QED
    BY <1>7, <2>1, MeansNothing
<1>12. gImports \in Seq(Nat) /\ ImportPlaces \subseteq Passed
  BY <1>1 DEF Typed, Placed
<1>13. CASE does = "import"
  <2>1. /\ lhs = "imports" /\ 1 \in 1..Len(rhs) /\ rhs[1] = "IMPORT"
        /\ gImports' = <<v[1]>> \o gImports /\ UNCHANGED <<called, document>>
        /\ lhs # "document"
    BY <1>4, <1>6, <1>10, <1>13
  <2>2. PICK q \in 2..Len(stack) : q = m + 1 /\ SymbolOf(stack[q]) = "IMPORT"
                                   /\ PlacesOf(stack[q]) = Places("IMPORT", v[1])
    BY <1>6, <2>1
  <2>3. /\ v[1] \in Place /\ PlacesOf(stack[q]) = {v[1]}
    <3>1. "IMPORT" \in Tokens
      BY Zenon DEF Tokens
    <3>2. Means("IMPORT", v[1])
      BY <1>6, <2>1, Zenon DEF Given
    <3>3. QED
      BY <2>2, <3>1, <3>2, MeansToken DEF Place
  <2>4. SymbolOf(stack[q]) \in HeaderSymbols
    BY <2>2, Zenon DEF HeaderSymbols
  <2>5. v[1] \in Passed /\ Before({v[1]}, ImportPlaces)
    BY <1>1, <2>3, <2>4 DEF Placed, HeadersFirst, ImportsBetween
  <2>6. /\ gImports' \in Seq(Nat) /\ Len(gImports') = Len(gImports) + 1 /\ gImports'[1] = v[1]
        /\ DOMAIN gImports' = 1..(Len(gImports) + 1) /\ Len(gImports) \in Nat
        /\ \A k \in 2..(Len(gImports) + 1) : gImports'[k] = gImports[k - 1] /\ k - 1 \in DOMAIN gImports
    <3>1. v[1] \in Nat
      BY <2>3 DEF Place
    <3>2. QED
      BY <1>12, <2>1, <3>1
  <2>7. ImportPlaces' \subseteq {v[1]} \cup ImportPlaces
    BY <2>6 DEF ImportPlaces
  <2>8. Placed'
    BY <1>1, <1>7, <1>8, <1>9, <1>12, <2>5, <2>7 DEF Placed
  <2>9. HeadersFirst'
    <3>1. ASSUME NEW j \in DOMAIN gImports', NEW k \in DOMAIN gImports', j < k
          PROVE  gImports'[j] < gImports'[k]
      <4>1. /\ k \in 2..(Len(gImports) + 1) /\ gImports'[k] = gImports[k - 1]
            /\ k - 1 \in DOMAIN gImports
        BY <2>6, <3>1
      <4>2. CASE j = 1
        <5>1. gImports[k - 1] \in ImportPlaces
          BY <4>1 DEF ImportPlaces
        <5>2. v[1] < gImports[k - 1]
          BY <2>5, <5>1 DEF Before
        <5>3. QED
          BY <2>6, <4>1, <4>2, <5>2
      <4>3. CASE j # 1
        <5>1. j \in 2..(Len(gImports) + 1) /\ j - 1 < k - 1
          BY <2>6, <3>1, <4>3
        <5>2. QED
          BY <1>1, <2>6, <4>1, <5>1 DEF HeadersFirst
      <4>4. QED
        BY <4>2, <4>3
    <3>2. \A k \in 2..m : SymbolOf(stack[k]) \in HeaderSymbols /\ k \in 2..Len(stack) /\ k < q
      <4>1. \A k \in 2..q : SymbolOf(stack[k]) \in HeaderSymbols
        BY <1>1, <2>4, HeadersBelow
      <4>2. QED
        BY <1>6, <2>2, <4>1
    <3>3. ASSUME NEW k \in 2..m PROVE Before(PlacesOf(stack[k]), ImportPlaces')
      <4>1. Before(PlacesOf(stack[k]), ImportPlaces)
        BY <1>1, <3>2 DEF HeadersFirst, ImportsBetween
      <4>2. Before(PlacesOf(stack[k]), {v[1]})
        BY <1>1, <2>3, <3>2 DEF InOrder
      <4>3. QED
        BY <2>7, <4>1, <4>2 DEF Before
    <3>4. lhs \notin HeaderSymbols /\ PlacesOf(e) = {}
      BY <1>11, <2>1, Zenon DEF HeaderSymbols
    <3>5. ImportsBetween(stack', ImportPlaces')
      <4>1. Before(ImportPlaces', {})
        BY DEF Before
      <4>2. QED
        BY <1>7, <3>2, <3>3, <3>4, <4>1, Zenon DEF ImportsBetween
    <3>6. Len(stack') > 1 /\ SymbolOf(stack'[Len(stack')]) \notin HeaderSymbols
      BY <1>7, <3>4
    <3>7. QED
      BY <3>1, <3>5, <3>6 DEF HeadersFirst
  <2>10. GivenLast'
    <3>1. \A k \in 2..Len(stack') : SymbolOf(stack'[k]) # "document"
      BY <1>1, <1>7, <2>1 DEF GivenLast
    <3>2. QED
      BY <1>1, <1>4, <2>1, <3>1 DEF GivenLast
  <2>11. Typed'
    BY <1>1, <1>4, <1>8, <2>1, <2>6 DEF Typed
  <2>12. QED
    BY <1>7, <1>8, <2>8, <2>9, <2>10, <2>11 DEF IInv
<1>14. CASE does # "import"
  <2>1. gImports' = gImports /\ ImportPlaces' = ImportPlaces
    BY <1>4, <1>14 DEF ImportPlaces
  <2>2. Placed'
    BY <1>1, <1>7, <1>8, <1>9, <2>1 DEF Placed
  <2>3. lhs \in HeaderSymbols => lhs = "package"
    BY <1>10, Zenon DEF HeaderSymbols, Terminals, Tokens
  <2>4. lhs \in HeaderSymbols => gImports = <<>>
    <3>1. SUFFICES ASSUME lhs = "package" PROVE gImports = <<>>
      BY <2>3
    <3>2. PICK k \in 1..Len(rhs) : k = Len(rhs) /\ rhs[k] \in HeaderSymbols
      BY <1>6, <1>10, <3>1
    <3>3. SymbolOf(stack[Len(stack)]) \in HeaderSymbols
      BY <1>6, <3>2
    <3>4. QED
      BY <1>1, <1>4, <3>3 DEF HeadersFirst
  <2>5. IF lhs \in HeaderSymbols THEN Before(PlacesOf(e), ImportPlaces)
                                 ELSE Before(ImportPlaces, PlacesOf(e))
    <3>1. CASE lhs \in {"headers", "imports", "package"}
      BY <1>11, <3>1 DEF Before
    <3>2. CASE lhs \notin {"headers", "imports", "package"}
      <4>1. \A k \in 1..Len(rhs) : Before(ImportPlaces, Places(rhs[k], v[k]))
        BY <1>1, <1>6, <1>10, <3>2, Zenon DEF HeadersFirst, ImportsBetween
      <4>2. Before(ImportPlaces, GivenPlaces(rhs, v))
        BY <4>1, Zenon DEF GivenPlaces, Before
      <4>3. Before(ImportPlaces, PlacesOf(e))
        BY <1>7, <4>2 DEF Before
      <4>4. QED
        BY <2>3, <3>2, <4>3
    <3>3. QED
      BY <3>1, <3>2
  <2>6. HeadersFirst'
    <3>1. ImportsBetween(stack', ImportPlaces)
      BY <1>1, <1>7, <2>5, Zenon DEF HeadersFirst, ImportsBetween
    <3>2. gImports # <<>> => Len(stack') > 1 /\ SymbolOf(stack'[Len(stack')]) \notin HeaderSymbols
      BY <1>7, <2>4
    <3>3. QED
      BY <1>1, <2>1, <3>1, <3>2 DEF HeadersFirst
  <2>7. CASE does = "document"
    <3>1. /\ lhs = "document" /\ called' = 1 /\ document' = Last(v)
          /\ lookahead # <<>> /\ Token = "EOF"
      BY <1>1, <1>4, <1>10, <2>7
    <3>2. PICK k \in 1..Len(rhs) : k = Len(rhs) /\ rhs[k] = "document_items"
      BY <1>6, <1>10, <2>7
    <3>3. document' = v[k]
      <4>1. Len(v) = Len(rhs)
        <5>1. v \in [1..Len(rhs) -> {v[j] : j \in 1..Len(rhs)}]
          BY <1>4 DEF OnTop
        <5>2. QED
          BY <1>6, <5>1
      <4>2. QED
        BY <3>1, <3>2, <4>1, Zenon DEF Last
    <3>4. document' \in Seq(ItemNode) /\ ItemsOrdered(document')
      <4>1. Means("document_items", v[k])
        BY <1>6, <3>2, Zenon DEF Given
      <4>2. QED
        BY <3>3, <4>1, MeansItems
    <3>5. Before(ImportPlaces, ItemsPlaces(document'))
      <4>1. m + k \in 2..Len(stack) /\ SymbolOf(stack[m + k]) = "document_items"
            /\ PlacesOf(stack[m + k]) = ItemsPlaces(v[k])
        BY <1>6, <3>2, MeansItems
      <4>2. "document_items" \notin HeaderSymbols
        BY Zenon DEF HeaderSymbols
      <4>3. QED
        BY <1>1, <3>3, <4>1, <4>2, Zenon DEF HeadersFirst, ImportsBetween
    <3>6. SymbolOf(stack'[Len(stack')]) = "document"
      BY <1>7, <3>1
    <3>7. UNCHANGED <<lookahead, phase>> /\ Token' = "EOF" /\ phase = "parsing"
      BY <1>4, <3>1 DEF Token
    <3>8. GivenLast'
      <4>1. called' # 0
        BY <3>1
      <4>2. QED
        BY <2>1, <3>1, <3>4, <3>5, <3>6, <3>7, <4>1, Zenon DEF GivenLast
    <3>9. Typed'
      BY <1>1, <1>4, <1>8, <2>1, <3>1 DEF Typed
    <3>10. QED
      BY <1>7, <1>8, <2>2, <2>6, <3>8, <3>9 DEF IInv
  <2>8. CASE does # "document"
    <3>1. UNCHANGED <<called, document>> /\ lhs # "document"
      BY <1>4, <1>10, <2>8
    <3>2. \A k \in 2..Len(stack') : SymbolOf(stack'[k]) # "document"
      BY <1>1, <1>7, <3>1 DEF GivenLast
    <3>3. GivenLast'
      BY <1>1, <1>4, <3>1, <3>2 DEF GivenLast
    <3>4. Typed'
      BY <1>1, <1>4, <1>8, <2>1, <3>1 DEF Typed
    <3>5. QED
      BY <1>7, <1>8, <2>2, <2>6, <3>3, <3>4 DEF IInv
  <2>9. QED
    BY <2>7, <2>8
<1>15. QED
  BY <1>13, <1>14

-----------------------------------------------------------------------------
(* The marks of a document.                                                *)

\* Places in the order of the file.
Marking(marks, places) ==
  /\ marks \in Seq(Nat) /\ \A k \in DOMAIN marks : marks[k] \in places
  /\ \A j, k \in DOMAIN marks : j < k => marks[j] < marks[k]

LEMMA MarkingFew ==
  /\ \A places : Marking(<<>>, places)
  /\ \A x \in Nat : Marking(<<x>>, {x})
  /\ \A x, y \in Nat : x < y => Marking(<<x, y>>, {x, y})
<1>1. \A places : Marking(<<>>, places)
  BY DEF Marking
<1>2. ASSUME NEW x \in Nat PROVE Marking(<<x>>, {x})
  <2>1. <<x>> \in Seq(Nat) /\ DOMAIN <<x>> = {1} /\ <<x>>[1] = x
    OBVIOUS
  <2>2. QED
    BY <2>1 DEF Marking
<1>3. ASSUME NEW x \in Nat, NEW y \in Nat, x < y PROVE Marking(<<x, y>>, {x, y})
  <2>1. /\ <<x, y>> \in Seq(Nat) /\ DOMAIN <<x, y>> = {1, 2} /\ <<x, y>>[1] = x /\ <<x, y>>[2] = y
    OBVIOUS
  <2>2. QED
    BY <1>3, <2>1 DEF Marking
<1>4. QED
  BY <1>1, <1>2, <1>3

LEMMA MarksJoined ==
  ASSUME NEW a, NEW b, NEW A, NEW B, Marking(a, A), Marking(b, B), Before(A, B)
  PROVE  Marking(a \o b, A \cup B)
<1>1. a \in Seq(Nat) /\ b \in Seq(Nat)
  BY DEF Marking
<1>2. PICK c \in Seq(Nat) :
        /\ c = a \o b /\ Len(c) = Len(a) + Len(b) /\ DOMAIN c = 1..(Len(a) + Len(b))
        /\ \A k \in 1..(Len(a) + Len(b)) : c[k] = IF k <= Len(a) THEN a[k] ELSE b[k - Len(a)]
  <2>1. PICK c : c = a \o b
    OBVIOUS
  <2>2. /\ c \in Seq(Nat) /\ Len(c) = Len(a) + Len(b)
        /\ \A k \in 1..(Len(a) + Len(b)) : c[k] = IF k <= Len(a) THEN a[k] ELSE b[k - Len(a)]
    BY <1>1, <2>1, ConcatProperties
  <2>3. DOMAIN c = 1..(Len(a) + Len(b))
    BY <2>2
  <2>4. QED
    BY <2>1, <2>2, <2>3, Zenon
<1>3. Len(a) \in Nat /\ Len(b) \in Nat /\ DOMAIN a = 1..Len(a) /\ DOMAIN b = 1..Len(b)
  BY <1>1
<1>4. ASSUME NEW k \in DOMAIN c
      PROVE  \/ k <= Len(a) /\ k \in DOMAIN a /\ c[k] = a[k] /\ c[k] \in A
             \/ k > Len(a) /\ k - Len(a) \in DOMAIN b /\ c[k] = b[k - Len(a)] /\ c[k] \in B
  <2>1. k \in 1..(Len(a) + Len(b))
    BY <1>2
  <2>2. CASE k <= Len(a)
    <3>1. k \in DOMAIN a
      BY <1>3, <2>1, <2>2
    <3>2. c[k] = a[k]
      BY <1>2, <2>1, <2>2
    <3>3. QED
      BY <2>2, <3>1, <3>2 DEF Marking
  <2>3. CASE k > Len(a)
    <3>1. k - Len(a) \in DOMAIN b
      BY <1>3, <2>1, <2>3
    <3>2. c[k] = b[k - Len(a)]
      BY <1>2, <1>3, <2>1, <2>3
    <3>3. QED
      BY <2>3, <3>1, <3>2 DEF Marking
  <2>4. QED
    BY <1>3, <2>1, <2>2, <2>3
<1>5. ASSUME NEW j \in DOMAIN c, NEW k \in DOMAIN c, j < k PROVE c[j] < c[k]
  <2>1. j \in Nat /\ k \in Nat
    BY <1>2, <1>3
  <2>2. CASE k <= Len(a)
    <3>1. j <= Len(a)
      BY <1>3, <1>5, <2>1, <2>2
    <3>2. /\ j \in DOMAIN a /\ c[j] = a[j] /\ k \in DOMAIN a /\ c[k] = a[k]
      BY <1>3, <1>4, <2>1, <2>2, <3>1
    <3>3. QED
      BY <1>5, <3>2 DEF Marking
  <2>3. CASE j > Len(a)
    <3>1. k > Len(a) /\ j - Len(a) < k - Len(a)
      BY <1>3, <1>5, <2>1, <2>3
    <3>2. /\ j - Len(a) \in DOMAIN b /\ c[j] = b[j - Len(a)]
          /\ k - Len(a) \in DOMAIN b /\ c[k] = b[k - Len(a)]
      BY <1>3, <1>4, <2>1, <2>3, <3>1
    <3>3. QED
      BY <3>1, <3>2 DEF Marking
  <2>4. CASE j <= Len(a) /\ k > Len(a)
    <3>1. c[j] \in A /\ c[k] \in B
      BY <1>3, <1>4, <2>1, <2>4
    <3>2. QED
      BY <3>1 DEF Before
  <2>5. QED
    BY <1>3, <2>1, <2>2, <2>3, <2>4
<1>6. \A k \in DOMAIN c : c[k] \in A \cup B
  BY <1>4
<1>7. Marking(c, A \cup B)
  BY <1>5, <1>6 DEF Marking
<1>8. QED
  BY <1>2, <1>7

\* Parts one after the other: placed gives the places of each.
LEMMA MarksFlattened ==
  ASSUME NEW n \in Nat, NEW parts, NEW placed, DOMAIN parts = 1..n,
         parts = [k \in 1..n |-> parts[k]], \A k \in 1..n : Marking(parts[k], placed[k]),
         \A j, k \in 1..n : j < k => Before(placed[j], placed[k])
  PROVE  Marking(FlattenSeq(parts), UNION {placed[k] : k \in 1..n})
<1>1. parts \in Seq(Seq(Nat)) /\ Len(parts) = n
  <2>1. \A k \in 1..n : parts[k] \in Seq(Nat)
    BY DEF Marking
  <2>2. QED
    BY <2>1
<1>2. CASE n = 0
  <2>1. parts = <<>>
    BY <1>1, <1>2
  <2>2. FlattenSeq(parts) = <<>>
    BY <2>1, Zenon, LenProperties, EmptySeq DEF FlattenSeq
  <2>3. QED
    BY <2>2, MarkingFew
<1>3. CASE n # 0
  <2>1. PICK f : Flattens(f, parts) /\ FlattenSeq(parts) = f[n]
    BY <1>1, <1>3, FlattenSteps
  <2>2. \A i \in 1..n : f[i] = IF i = 1 THEN parts[i] ELSE f[i - 1] \o parts[i]
    BY <1>1, <2>1 DEF Flattens
  <2> DEFINE Upto(i) == UNION {placed[k] : k \in 1..i}
             Done(i) == i + 1 <= n => Marking(f[i + 1], Upto(i + 1))
             N == {i \in Nat : Done(i)}
  <2>3. Done(0)
    <3>1. f[1] = parts[1] /\ 1 \in 1..n
      BY <1>3, <2>2
    <3>2. Upto(1) = placed[1]
      <4>1. 1..1 = {1}
        OBVIOUS
      <4>2. QED
        BY <4>1
    <3> HIDE DEF Upto
    <3>3. 0 + 1 = 1 /\ Marking(f[1], Upto(1))
      BY <1>3, <3>1, <3>2
    <3>4. QED
      BY <3>3
  <2>4. ASSUME NEW i \in Nat, Done(i) PROVE Done(i + 1)
    <3>1. SUFFICES ASSUME (i + 1) + 1 <= n PROVE Marking(f[(i + 1) + 1], Upto((i + 1) + 1))
      BY Zenon
    <3>2. Marking(f[i + 1], Upto(i + 1))
      <4> HIDE DEF Upto
      <4>1. i + 1 <= n
        BY <3>1
      <4>2. QED
        BY <2>4, <4>1
    <3>3. PICK k \in 1..n : k = (i + 1) + 1 /\ k - 1 = i + 1 /\ k # 1
      BY <3>1
    <3>4. f[k] = f[i + 1] \o parts[k]
      BY <2>2, <3>3
    <3>5. \A j \in 1..(i + 1) : j \in 1..n /\ j < k
      BY <3>3
    <3>6. Before(Upto(i + 1), placed[k])
      <4>1. \A j \in 1..(i + 1) : Before(placed[j], placed[k])
        BY <3>5
      <4>2. QED
        BY <4>1, Zenon DEF Before
    <3>7. Upto(i + 1) \cup placed[k] = Upto(k)
      <4>1. 1..k = (1..(i + 1)) \cup {k}
        BY <3>3
      <4>2. QED
        BY <4>1, Zenon
    <3>8. Marking(f[i + 1] \o parts[k], Upto(i + 1) \cup placed[k])
      <4>1. PICK a, A : a = f[i + 1] /\ A = Upto(i + 1)
        OBVIOUS
      <4>2. Marking(a, A) /\ Marking(parts[k], placed[k]) /\ Before(A, placed[k])
        BY <3>2, <3>6, <4>1
      <4>3. Marking(a \o parts[k], A \cup placed[k])
        BY <4>2, MarksJoined
      <4>4. QED
        BY <4>1, <4>3
    <3> HIDE DEF Upto
    <3>9. QED
      BY <3>3, <3>4, <3>7, <3>8
  <2>5. \A i \in Nat : Done(i)
    <3> HIDE DEF Done
    <3>1. N \in SUBSET Nat /\ 0 \in N /\ \A i \in N : i + 1 \in N
      BY <2>3, <2>4
    <3>2. N = Nat
      <4> HIDE DEF N
      <4>1. QED
        BY <3>1, AllNumbers
    <3>3. QED
      BY <3>2
  <2>6. PICK i \in Nat : i + 1 = n
    <3>1. n - 1 \in Nat /\ (n - 1) + 1 = n
      BY <1>3
    <3>2. QED
      BY <3>1
  <2>7. Marking(f[n], Upto(n))
    <3> HIDE DEF Upto
    <3>1. i + 1 <= n => Marking(f[i + 1], Upto(i + 1))
      BY <2>5
    <3>2. QED
      BY <2>6, <3>1
  <2>8. QED
    BY <2>1, <2>7
<1>4. QED
  BY <1>2, <1>3

LEMMA MarksOfType ==
  ASSUME NEW t \in TypeNode, TypeOrdered(t)
  PROVE  Marking(TypeMarks(t), TypePlaces(t))
<1>1. t.type \in Nat \ {0} /\ t.array \in Nat
  BY DEF TypeNode, Place
<1>2. CASE t.array = 0
  <2>1. TypeMarks(t) = <<t.type>> /\ TypePlaces(t) = {t.type}
    BY <1>1, <1>2 DEF TypeMarks, TypePlaces
  <2>2. QED
    BY <1>1, <2>1, MarkingFew
<1>3. CASE t.array # 0
  <2>1. TypeMarks(t) = <<t.type, t.array>> /\ TypePlaces(t) = {t.type, t.array} /\ t.type < t.array
    BY <1>1, <1>3 DEF TypeMarks, TypePlaces, TypeOrdered
  <2>2. QED
    BY <1>1, <2>1, MarkingFew
<1>4. QED
  BY <1>2, <1>3

LEMMA MarksOfArg ==
  ASSUME NEW a \in ArgNode, ArgOrdered(a)
  PROVE  Marking(ArgMarks(a), ArgPlaces(a))
<1>1. /\ a.direction \in Nat /\ a.type \in TypeNode /\ a.name \in Nat /\ a.name # 0
      /\ TypeOrdered(a.type) /\ Before({a.direction}, TypePlaces(a.type))
      /\ Before(TypePlaces(a.type), {a.name})
  BY DEF ArgNode, Place, ArgOrdered
<1>2. PICK first, A : /\ first = IF a.direction = 0 THEN <<>> ELSE <<a.direction>>
                      /\ A = {a.direction} \ {0}
  OBVIOUS
<1>3. Marking(first, A)
  <2>1. CASE a.direction = 0
    BY <1>2, <2>1, MarkingFew
  <2>2. CASE a.direction # 0
    <3>1. first = <<a.direction>> /\ A = {a.direction}
      BY <1>2, <2>2
    <3>2. QED
      BY <1>1, <3>1, MarkingFew
  <2>3. QED
    BY <2>1, <2>2
<1>4. PICK type, T : type = TypeMarks(a.type) /\ T = TypePlaces(a.type) /\ Marking(type, T)
  BY <1>1, MarksOfType
<1>5. PICK name : name = a.name /\ Marking(<<name>>, {name})
  BY <1>1, MarkingFew
<1>6. Marking(first \o type, A \cup T)
  <2>1. Before(A, T)
    BY <1>1, <1>2, <1>4 DEF Before
  <2>2. QED
    BY <1>3, <1>4, <2>1, MarksJoined
<1>7. Before(A \cup T, {name})
  <2>1. PICK t \in T : TRUE
    <3>1. a.type.type \in TypePlaces(a.type)
      BY <1>1 DEF TypeNode, TypePlaces, Place
    <3>2. QED
      BY <1>4, <3>1
  <2>2. T \subseteq Nat
    BY <1>1, <1>4 DEF TypeNode, TypePlaces, Place
  <2>3. a.direction < t /\ t < name
    BY <1>1, <1>4, <1>5, <2>1 DEF Before
  <2>4. a.direction < name
    BY <1>1, <1>5, <2>1, <2>2, <2>3
  <2>5. QED
    BY <1>1, <1>2, <1>4, <1>5, <2>4 DEF Before
<1>8. Marking((first \o type) \o <<name>>, (A \cup T) \cup {name})
  <2>1. PICK b, B : b = first \o type /\ B = A \cup T
    OBVIOUS
  <2>2. Marking(b \o <<name>>, B \cup {name})
    BY <1>5, <1>6, <1>7, <2>1, MarksJoined
  <2>3. QED
    BY <2>1, <2>2
<1>9. ArgMarks(a) = (first \o type) \o <<name>>
  BY <1>2, <1>4, <1>5, Zenon DEF ArgMarks
<1>10. ArgPlaces(a) = (A \cup T) \cup {name}
  <2>1. ArgPlaces(a) = ({a.direction, a.name} \ {0}) \cup TypePlaces(a.type)
    BY DEF ArgPlaces
  <2>2. QED
    BY <1>1, <1>2, <1>4, <1>5, <2>1
<1>11. QED
  BY <1>8, <1>9, <1>10

LEMMA MarksOfMethod ==
  ASSUME NEW m \in MethodNode, MethodOrdered(m)
  PROVE  Marking(MethodMarks(m), MethodPlaces(m))
<1>1. /\ m.type \in TypeNode /\ TypeOrdered(m.type) /\ m.name \in Nat /\ m.args \in Seq(ArgNode)
      /\ ArgsOrdered(m.args)
      /\ Before(TypePlaces(m.type), {m.name}) /\ Before({m.name}, ArgsPlaces(m.args))
  BY DEF MethodNode, Place, MethodOrdered
<1>2. PICK n, args : /\ n \in Nat /\ args = m.args /\ n = Len(args) /\ DOMAIN args = 1..n
                     /\ \A k \in 1..n : args[k] \in ArgNode
  BY <1>1
<1>3. PICK parts, placed : /\ parts = [k \in 1..n |-> ArgMarks(args[k])]
                           /\ placed = [k \in 1..n |-> ArgPlaces(args[k])]
  OBVIOUS
<1>4. Marking(FlattenSeq(parts), UNION {placed[k] : k \in 1..n})
  <2>1. /\ DOMAIN parts = 1..n /\ parts = [k \in 1..n |-> parts[k]]
        /\ \A k \in 1..n : parts[k] = ArgMarks(args[k]) /\ placed[k] = ArgPlaces(args[k])
    BY <1>3
  <2>2. \A k \in 1..n : Marking(parts[k], placed[k])
    <3>1. ASSUME NEW k \in 1..n PROVE args[k] \in ArgNode /\ ArgOrdered(args[k])
      BY <1>1, <1>2 DEF ArgsOrdered
    <3>2. QED
      BY <2>1, <3>1, MarksOfArg
  <2>3. \A j, k \in 1..n : j < k => Before(placed[j], placed[k])
    <3>1. ArgsOrdered(args)
      BY <1>1, <1>2
    <3>2. \A j, k \in 1..n : j < k => Before(ArgPlaces(args[j]), ArgPlaces(args[k]))
      BY <1>2, <3>1 DEF ArgsOrdered
    <3>3. QED
      BY <2>1, <3>2
  <2>4. n \in Nat
    BY <1>2
  <2>5. QED
    BY <2>1, <2>2, <2>3, <2>4, MarksFlattened
<1>5. PICK rest, R : rest = FlattenSeq(parts) /\ R = ArgsPlaces(args) /\ Marking(rest, R)
  <2>1. UNION {placed[k] : k \in 1..n} = ArgsPlaces(args)
    BY <1>2, <1>3 DEF ArgsPlaces
  <2>2. QED
    BY <1>4, <2>1
<1>6. PICK type, T : type = TypeMarks(m.type) /\ T = TypePlaces(m.type) /\ Marking(type, T)
  BY <1>1, MarksOfType
<1>7. PICK name, x : name = <<x>> /\ x = m.name /\ Marking(name, {x})
  BY <1>1, MarkingFew
<1>8. PICK head, H : /\ head = type \o name /\ H = T \cup {x} /\ Marking(head, H)
  BY <1>1, <1>6, <1>7, MarksJoined
<1>9. Before(H, R)
  <2>1. m.type.type \in T /\ T \subseteq Nat
    BY <1>1, <1>6 DEF TypeNode, TypePlaces, Place
  <2>2. Before(T, {x}) /\ Before({x}, R) /\ x \in Nat /\ R \subseteq Nat
    <3>1. R \subseteq Nat
      <4>1. \A k \in 1..n : ArgPlaces(args[k]) \subseteq Nat
        BY <1>2 DEF ArgNode, TypeNode, ArgPlaces, TypePlaces, Place
      <4>2. QED
        BY <1>2, <1>5, <4>1 DEF ArgsPlaces
    <3>2. QED
      BY <1>1, <1>2, <1>5, <1>6, <1>7, <3>1
  <2>3. ASSUME NEW t \in T, NEW r \in R PROVE t < r
    <3>1. t < x /\ x < r /\ t \in Nat /\ r \in Nat
      BY <2>1, <2>2 DEF Before
    <3>2. QED
      BY <2>2, <3>1
  <2>4. QED
    BY <1>8, <2>2, <2>3 DEF Before
<1>10. Marking(head \o rest, H \cup R)
  BY <1>5, <1>8, <1>9, MarksJoined
<1>11. MethodMarks(m) = head \o rest
  <2>1. DOMAIN m.args = 1..n /\ \A k \in 1..n : m.args[k] = args[k]
    BY <1>2
  <2>2. FlattenSeq([k \in DOMAIN m.args |-> ArgMarks(m.args[k])]) = rest
    BY <1>2, <1>3, <1>5
  <2>3. QED
    BY <1>6, <1>7, <1>8, <2>2, Zenon DEF MethodMarks
<1>12. MethodPlaces(m) = H \cup R
  BY <1>2, <1>5, <1>6, <1>7, <1>8 DEF MethodPlaces
<1>13. QED
  BY <1>10, <1>11, <1>12

LEMMA MarksOfItem ==
  ASSUME NEW item \in ItemNode, ItemOrdered(item)
  PROVE  Marking(ItemMarks(item), ItemPlaces(item))
<1>1. item.name \in Nat /\ Marking(<<item.name>>, {item.name})
  <2>1. item.name \in Nat
    BY DEF ItemNode, ParcelableNode, InterfaceNode, Place
  <2>2. QED
    BY <2>1, MarkingFew
<1>2. CASE "items" \notin DOMAIN item
  <2>1. <<item.name>> \o <<>> = <<item.name>>
    BY <1>1
  <2>2. ItemMarks(item) = <<item.name>> /\ ItemPlaces(item) = {item.name}
    BY <1>2, <2>1 DEF ItemMarks, ItemPlaces
  <2>3. QED
    BY <1>1, <2>2
<1>3. CASE "items" \in DOMAIN item
  <2>1. /\ item.items \in Seq(MethodNode) /\ MethodsOrdered(item.items)
        /\ Before({item.name}, MethodsPlaces(item.items))
    BY <1>3 DEF ItemNode, ParcelableNode, InterfaceNode, ItemOrdered
  <2>2. PICK n, methods : /\ n \in Nat /\ methods = item.items /\ n = Len(methods)
                          /\ DOMAIN methods = 1..n
                          /\ \A k \in 1..n : methods[k] \in MethodNode
    BY <2>1
  <2>3. PICK parts, placed : /\ parts = [k \in 1..n |-> MethodMarks(methods[k])]
                             /\ placed = [k \in 1..n |-> MethodPlaces(methods[k])]
    OBVIOUS
  <2>4. Marking(FlattenSeq(parts), UNION {placed[k] : k \in 1..n})
    <3>1. /\ DOMAIN parts = 1..n /\ parts = [k \in 1..n |-> parts[k]]
          /\ \A k \in 1..n : parts[k] = MethodMarks(methods[k]) /\ placed[k] = MethodPlaces(methods[k])
      BY <2>3
    <3>2. \A k \in 1..n : Marking(parts[k], placed[k])
      <4>1. ASSUME NEW k \in 1..n PROVE methods[k] \in MethodNode /\ MethodOrdered(methods[k])
        BY <2>1, <2>2 DEF MethodsOrdered
      <4>2. QED
        BY <3>1, <4>1, MarksOfMethod
    <3>3. \A j, k \in 1..n : j < k => Before(placed[j], placed[k])
      <4>1. MethodsOrdered(methods)
        BY <2>1, <2>2
      <4>2. \A j, k \in 1..n : j < k => Before(MethodPlaces(methods[j]), MethodPlaces(methods[k]))
        BY <2>2, <4>1 DEF MethodsOrdered
      <4>3. QED
        BY <3>1, <4>2
    <3>4. n \in Nat
      BY <2>2
    <3>5. QED
      BY <3>1, <3>2, <3>3, <3>4, MarksFlattened
  <2>5. PICK rest, R : rest = FlattenSeq(parts) /\ R = MethodsPlaces(methods) /\ Marking(rest, R)
    <3>1. UNION {placed[k] : k \in 1..n} = MethodsPlaces(methods)
      BY <2>2, <2>3 DEF MethodsPlaces
    <3>2. QED
      BY <2>4, <3>1
  <2>6. PICK name, x : name = <<x>> /\ x = item.name /\ Marking(name, {x})
    BY <1>1
  <2>7. Marking(name \o rest, {x} \cup R)
    BY <2>1, <2>2, <2>5, <2>6, MarksJoined
  <2>8. ItemMarks(item) = name \o rest
    <3>1. FlattenSeq([k \in DOMAIN item.items |-> MethodMarks(item.items[k])]) = rest
      BY <2>2, <2>3, <2>5
    <3>2. QED
      BY <1>3, <2>6, <3>1, Zenon DEF ItemMarks
  <2>9. ItemPlaces(item) = {x} \cup R
    BY <1>3, <2>2, <2>5, <2>6 DEF ItemPlaces
  <2>10. QED
    BY <2>7, <2>8, <2>9
<1>4. QED
  BY <1>2, <1>3

LEMMA MarksOfDocument ==
  ASSUME IInv
  PROVE  \E places : Marking(DocumentMarks, places)
<1>1. /\ document \in Seq(ItemNode) /\ ItemsOrdered(document)
      /\ Before(ImportPlaces, ItemsPlaces(document))
  <2>1. CASE called = 0
    <3>1. document = <<>>
      BY <2>1 DEF IInv, GivenLast
    <3>2. document \in Seq(ItemNode) /\ DOMAIN document = {}
      BY <3>1
    <3>3. QED
      BY <3>2 DEF ItemsOrdered, ItemsPlaces, Before
  <2>2. CASE called = 1
    BY <2>2 DEF IInv, GivenLast
  <2>3. QED
    BY <2>1, <2>2 DEF IInv, Typed
<1>2. PICK n \in Nat : /\ n = Len(document) /\ DOMAIN document = 1..n
                       /\ \A k \in 1..n : document[k] \in ItemNode
  BY <1>1
<1>3. PICK parts, placed : /\ parts = [k \in 1..n |-> ItemMarks(document[k])]
                           /\ placed = [k \in 1..n |-> ItemPlaces(document[k])]
  OBVIOUS
<1>4. Marking(FlattenSeq(parts), UNION {placed[k] : k \in 1..n})
  <2>1. /\ DOMAIN parts = 1..n /\ parts = [k \in 1..n |-> parts[k]]
        /\ \A k \in 1..n : parts[k] = ItemMarks(document[k]) /\ placed[k] = ItemPlaces(document[k])
    BY <1>3
  <2>2. \A k \in 1..n : Marking(parts[k], placed[k])
    <3>1. ASSUME NEW k \in 1..n PROVE document[k] \in ItemNode /\ ItemOrdered(document[k])
      BY <1>1, <1>2 DEF ItemsOrdered
    <3>2. QED
      BY <2>1, <3>1, MarksOfItem
  <2>3. \A j, k \in 1..n : j < k => Before(placed[j], placed[k])
    <3>1. \A j, k \in 1..n : j < k => Before(ItemPlaces(document[j]), ItemPlaces(document[k]))
      BY <1>1, <1>2 DEF ItemsOrdered
    <3>2. QED
      BY <2>1, <3>1
  <2>4. QED
    BY <2>1, <2>2, <2>3, MarksFlattened
<1>5. PICK rest, R : rest = FlattenSeq(parts) /\ R = ItemsPlaces(document) /\ Marking(rest, R)
  <2>1. UNION {placed[k] : k \in 1..n} = ItemsPlaces(document)
    BY <1>2, <1>3 DEF ItemsPlaces
  <2>2. QED
    BY <1>4, <2>1
<1>6. Marking(gImports, ImportPlaces)
  BY DEF IInv, Typed, HeadersFirst, Marking, ImportPlaces
<1>7. PICK places : places = ImportPlaces \cup R /\ Marking(gImports \o rest, places)
  BY <1>1, <1>5, <1>6, MarksJoined
<1>8. DocumentMarks = gImports \o rest
  BY <1>2, <1>3, <1>5, Zenon DEF DocumentMarks
<1>9. QED
  BY <1>7, <1>8, Zenon

-----------------------------------------------------------------------------
(* The text of what is on the stack.                                       *)

\* The tokens an action keeps the word of; of the others it knows the word.
Naming == {"IMPORT", "IDENTIFIER", "GENERIC", "ARRAY", "*", "IN", "OUT", "INOUT"}

\* A symbol with its value, written back.
Spelling(x, v) ==
  IF x \in Naming THEN <<file[v]>>
  ELSE IF x \in Tokens THEN <<x>>
  ELSE IF x = "direction" THEN (IF v = 0 THEN <<>> ELSE <<file[v]>>)
  ELSE IF x = "type" THEN Text(TypeMarks(v))
  ELSE IF x = "arg" THEN Text(ArgMarks(v))
  ELSE IF x = "arg_list" THEN ArgsText(v)
  ELSE IF x = "method_decl" THEN MethodText(v)
  ELSE IF x = "interface_items" THEN MethodsText(v)
  ELSE IF x = "interface_header" THEN KindText(v)
  ELSE IF x \in DeclarationSymbols THEN ItemText(v)
  ELSE IF x = "document_items" THEN ItemsText(v)
  ELSE IF x = "package" THEN <<"PACKAGE">>
  ELSE IF x = "imports" THEN Text(gImports)
  ELSE IF x = "headers" THEN PackageText \o Text(gImports)
  ELSE IF x = "document" THEN DocumentText
  ELSE <<>>

SpellingOf(entry) == Spelling(SymbolOf(entry), entry.value)

Spelled(s) == FlattenSeq([k \in DOMAIN s |-> SpellingOf(s[k])])

\* The place the parser has got past.
Gone == IF lookahead = <<>> THEN read ELSE read - 1

\* A package statement that comes too late: its token is an error yet to be found.
Belated == lookahead # <<>> /\ Token = "PACKAGE" /\ Len(stack) > 1

\* The package and the imports noted are those on the stack.
Headed ==
  /\ Len(stack) = 1 => (package # 0 <=> lookahead # <<>> /\ Token = "PACKAGE")
  /\ Len(stack) > 1 =>
       /\ package # 0 => SymbolOf(stack[2]) \in FrontSymbols
       /\ SymbolOf(stack[2]) \in {"PACKAGE", "package"} => package # 0
  /\ gImports # <<>> =>
       \E k \in 2..Len(stack) : SymbolOf(stack[k]) \in {"imports", "headers", "document"}

\* Items are there, and in the package of the file.
Packaged(x, v) ==
  /\ x \in DeclarationSymbols => v # Absent /\ v.package = package
  /\ x = "document_items" => \A k \in DOMAIN v : v[k].package = package

Carried ==
  /\ \A k \in 2..Len(stack) : Packaged(SymbolOf(stack[k]), stack[k].value)
  /\ called = 1 => Packaged("document_items", document)

\* All that is written up to the place is on the stack.
Clear == Text(WrittenUpto(Gone)) = Spelled(stack) /\ Headed /\ Carried

\* While no error is found and nothing slips, all that is written has been taken, and
\* is on the stack.
Undisturbed ==
  ~gError /\ ~Slip =>
    /\ phase \in {"parsing", "accepted"} /\ status = 0
    /\ \A k \in DOMAIN stack : SymbolOf(stack[k]) \notin {"error", "interface_keywords"}
    /\ lookahead # <<>> /\ read <= Len(file) => IsWritten(read)
    /\ ~Belated => Clear
\* The words a text is made of.
Letters == {file[p] : p \in Nat} \cup Tokens

-----------------------------------------------------------------------------
(* Texts of marks, and of the nodes.                                       *)

\* The text of marks, word for word.
LEMMA TextIs ==
  ASSUME NEW marks \in Seq(Nat)
  PROVE  /\ Text(marks) \in Seq(Letters) /\ Len(Text(marks)) = Len(marks)
         /\ \A k \in 1..Len(marks) : Text(marks)[k] = file[marks[k]]
<1>1. \A k \in DOMAIN marks : file[marks[k]] \in Letters
  BY DEF Letters
<1>2. PICK E, t : E = Letters /\ t = Text(marks)
  OBVIOUS
<1>3. t = [k \in 1..Len(marks) |-> file[marks[k]]] /\ Len(marks) \in Nat
  BY <1>2 DEF Text
<1>4. \A k \in 1..Len(marks) : file[marks[k]] \in E
  BY <1>1, <1>2
<1>5. t \in Seq(E) /\ Len(t) = Len(marks)
  BY <1>3, <1>4
<1>6. QED
  BY <1>2, <1>3, <1>5

\* What one sequence after another is.
LEMMA JoinHas ==
  ASSUME NEW S, NEW a \in Seq(S), NEW b \in Seq(S), NEW c, c = a \o b
  PROVE  /\ c \in Seq(S) /\ Len(a) \in Nat /\ Len(b) \in Nat /\ Len(c) = Len(a) + Len(b)
         /\ \A k \in 1..Len(a) : c[k] = a[k]
         /\ \A k \in 1..Len(b) : c[Len(a) + k] = b[k]
<1>1. c \in Seq(S) /\ Len(a) \in Nat /\ Len(b) \in Nat /\ Len(c) = Len(a) + Len(b)
  OBVIOUS
<1>2. \A k \in 1..Len(a) : c[k] = a[k]
  OBVIOUS
<1>3. \A k \in 1..Len(b) : c[Len(a) + k] = b[k]
  OBVIOUS
<1>4. QED
  BY <1>1, <1>2, <1>3

\* What two lists put together are.
LEMMA JoinIs ==
  ASSUME NEW S, NEW a \in Seq(S), NEW b \in Seq(S), NEW c \in Seq(S),
         Len(c) = Len(a) + Len(b), \A k \in 1..Len(a) : c[k] = a[k],
         \A k \in 1..Len(b) : c[Len(a) + k] = b[k]
  PROVE  c = a \o b
<1>1. PICK d : d = a \o b
  OBVIOUS
<1>2. /\ d \in Seq(S) /\ Len(a) \in Nat /\ Len(b) \in Nat /\ Len(d) = Len(a) + Len(b)
      /\ \A k \in 1..Len(a) : d[k] = a[k]
      /\ \A k \in 1..Len(b) : d[Len(a) + k] = b[k]
  BY <1>1, JoinHas
<1>3. ASSUME NEW k \in 1..Len(c) PROVE c[k] = d[k]
  <2>1. CASE k <= Len(a)
    BY <1>2, <2>1
  <2>2. CASE k > Len(a)
    <3>1. PICK j \in 1..Len(b) : k = Len(a) + j
      <4>1. k - Len(a) \in 1..Len(b) /\ k = Len(a) + (k - Len(a))
        BY <1>2, <2>2
      <4>2. QED
        BY <4>1
    <3>2. QED
      BY <1>2, <3>1
  <2>3. QED
    BY <1>2, <2>1, <2>2
<1>4. c = d
  <2>1. Len(c) = Len(d) /\ d \in Seq(S) /\ \A k \in 1..Len(c) : c[k] = d[k]
    BY <1>2, <1>3
  <2>2. QED
    BY <2>1, SeqEqual
<1>5. QED
  BY <1>1, <1>4

\* The text of marks after marks.
LEMMA TextJoined ==
  ASSUME NEW a \in Seq(Nat), NEW b \in Seq(Nat)
  PROVE  a \o b \in Seq(Nat) /\ Text(a \o b) = Text(a) \o Text(b)
<1>1. PICK c : c = a \o b
  OBVIOUS
<1>2. /\ c \in Seq(Nat) /\ Len(a) \in Nat /\ Len(b) \in Nat /\ Len(c) = Len(a) + Len(b)
      /\ \A k \in 1..Len(a) : c[k] = a[k]
      /\ \A k \in 1..Len(b) : c[Len(a) + k] = b[k]
  BY <1>1, JoinHas
<1>3. PICK s, t, u : s = Text(a) /\ t = Text(b) /\ u = Text(c)
  OBVIOUS
<1>4. /\ s \in Seq(Letters) /\ Len(s) = Len(a) /\ \A k \in 1..Len(a) : s[k] = file[a[k]]
      /\ t \in Seq(Letters) /\ Len(t) = Len(b) /\ \A k \in 1..Len(b) : t[k] = file[b[k]]
      /\ u \in Seq(Letters) /\ Len(u) = Len(c) /\ \A k \in 1..Len(c) : u[k] = file[c[k]]
  BY <1>2, <1>3, TextIs, Zenon
<1>5. \A k \in 1..Len(s) : u[k] = s[k]
  <2>1. ASSUME NEW k \in 1..Len(a) PROVE u[k] = s[k]
    <3>1. k \in 1..Len(c)
      BY <1>2
    <3>2. u[k] = file[c[k]] /\ c[k] = a[k] /\ s[k] = file[a[k]]
      BY <1>2, <1>4, <3>1, Zenon
    <3>3. QED
      BY <3>2
  <2>2. QED
    BY <1>4, <2>1
<1>6. \A k \in 1..Len(t) : u[Len(s) + k] = t[k]
  <2>1. ASSUME NEW k \in 1..Len(b) PROVE u[Len(a) + k] = t[k]
    <3>1. Len(a) + k \in 1..Len(c)
      BY <1>2
    <3>2. u[Len(a) + k] = file[c[Len(a) + k]] /\ c[Len(a) + k] = b[k] /\ t[k] = file[b[k]]
      BY <1>2, <1>4, <3>1, Zenon
    <3>3. QED
      BY <3>2
  <2>2. QED
    BY <1>4, <2>1
<1>7. u = s \o t
  <2>1. Len(u) = Len(s) + Len(t)
    BY <1>2, <1>4
  <2>2. PICK E : E = Letters
    OBVIOUS
  <2>3. s \in Seq(E) /\ t \in Seq(E) /\ u \in Seq(E)
    BY <1>4, <2>2
  <2>4. QED
    BY <1>5, <1>6, <2>1, <2>3, JoinIs
<1>8. QED
  BY <1>1, <1>2, <1>3, <1>7

LEMMA TextFew ==
  /\ Text(<<>>) = <<>>
  /\ \A p : Text(<<p>>) = <<file[p]>>
  /\ \A p, q : Text(<<p, q>>) = <<file[p], file[q]>>
BY DEF Text

\* A place's word is a word.
LEMMA WordOf ==
  /\ \A p \in Nat : file[p] \in Letters
  /\ \A x \in Tokens : x \in Letters
  /\ "," \in Letters /\ "(" \in Letters /\ ")" \in Letters /\ ";" \in Letters /\ "{" \in Letters
  /\ "}" \in Letters /\ "ONEWAY" \in Letters /\ "INTERFACE" \in Letters /\ "RPC" \in Letters
  /\ "PARCELABLE" \in Letters /\ "FLATTENABLE" \in Letters /\ "PACKAGE" \in Letters
BY Zenon DEF Letters, Tokens

LEMMA MarksTyped ==
  /\ \A t \in TypeNode : TypeMarks(t) \in Seq(Nat)
  /\ \A a \in ArgNode : ArgMarks(a) \in Seq(Nat)
<1>1. ASSUME NEW t \in TypeNode PROVE TypeMarks(t) \in Seq(Nat)
  <2>1. t.type \in Nat /\ t.array \in Nat
    BY DEF TypeNode, Place
  <2>2. PICK p \in Nat, q \in Nat : p = t.type /\ q = t.array
    BY <2>1
  <2>3. <<p>> \in Seq(Nat) /\ <<p, q>> \in Seq(Nat)
    OBVIOUS
  <2>4. QED
    BY <2>2, <2>3, Zenon DEF TypeMarks
<1>2. ASSUME NEW a \in ArgNode PROVE ArgMarks(a) \in Seq(Nat)
  <2>1. a.direction \in Nat /\ a.type \in TypeNode /\ a.name \in Nat
    BY DEF ArgNode, Place
  <2>2. PICK p \in Nat, q \in Nat, t \in Seq(Nat) :
          p = a.direction /\ q = a.name /\ t = TypeMarks(a.type)
    BY <1>1, <2>1
  <2>3. <<p>> \in Seq(Nat) /\ <<q>> \in Seq(Nat) /\ <<>> \in Seq(Nat)
    OBVIOUS
  <2>4. PICK d \in Seq(Nat) : d = IF a.direction = 0 THEN <<>> ELSE <<a.direction>>
    BY <2>2, <2>3
  <2>5. d \o t \in Seq(Nat) /\ (d \o t) \o <<q>> \in Seq(Nat)
    BY <2>3, ConcatProperties
  <2>6. QED
    BY <2>2, <2>4, <2>5, Zenon DEF ArgMarks
<1>3. QED
  BY <1>1, <1>2

\* The first of the arguments, and one more.
LEMMA ArgTextTyped ==
  ASSUME NEW args \in Seq(ArgNode), NEW k \in DOMAIN args
  PROVE  ArgText(args, k) \in Seq(Letters)
<1>1. PICK t \in Seq(Letters) : t = Text(ArgMarks(args[k]))
  BY MarksTyped, TextIs
<1>2. <<",">> \in Seq(Letters) /\ <<>> \in Seq(Letters)
  <2>1. PICK E : E = Letters
    OBVIOUS
  <2>2. PICK x \in E : x = ","
    BY <2>1, WordOf, Zenon
  <2>3. <<x>> \in Seq(E) /\ <<>> \in Seq(E)
    OBVIOUS
  <2>4. QED
    BY <2>1, <2>2, <2>3, Zenon
<1>3. PICK c \in Seq(Letters) : c = IF k > 1 THEN <<",">> ELSE <<>>
  BY <1>2
<1>4. c \o t \in Seq(Letters)
  BY ConcatProperties
<1>5. QED
  BY <1>1, <1>3, <1>4, Zenon DEF ArgText

\* Short texts.
LEMMA WordsOf ==
  /\ <<>> \in Seq(Letters) /\ \A x \in Letters : <<x>> \in Seq(Letters)
  /\ \A x, y \in Letters : <<x, y>> \in Seq(Letters) /\ <<x>> \o <<y>> = <<x, y>>
  /\ \A x, y, z \in Letters : <<x, y, z>> \in Seq(Letters) /\ <<x, y>> \o <<z>> = <<x, y, z>>
  /\ \A a \in Seq(Letters), x, y \in Letters : (a \o <<x>>) \o <<y>> = a \o <<x, y>>
<1>1. Wordy(Letters)
  BY WordsJoined
<1>2. QED
  BY <1>1, Zenon DEF Wordy

\* Texts after texts.
LEMMA TextsJoined ==
  /\ \A a, b \in Seq(Letters) : a \o b \in Seq(Letters)
  /\ \A a \in Seq(Letters) : a \o <<>> = a /\ <<>> \o a = a
  /\ \A a, b, c \in Seq(Letters) : (a \o b) \o c = a \o (b \o c)
<1>1. Joining(Letters)
  BY JoiningAll
<1>2. QED
  BY <1>1, Zenon DEF Joining

LEMMA NoText == ArgsText(<<>>) = <<>> /\ MethodsText(<<>>) = <<>> /\ ItemsText(<<>>) = <<>>
<1>1. [k \in DOMAIN <<>> |-> ArgText(<<>>, k)] = <<>>
  OBVIOUS
<1>2. [k \in DOMAIN <<>> |-> MethodText(<<>>[k])] = <<>>
  OBVIOUS
<1>3. [k \in DOMAIN <<>> |-> ItemText(<<>>[k])] = <<>>
  OBVIOUS
<1>4. ArgsText(<<>>) = <<>>
  BY <1>1, FlattenNothing DEF ArgsText
<1>5. MethodsText(<<>>) = <<>>
  BY <1>2, FlattenNothing DEF MethodsText
<1>6. ItemsText(<<>>) = <<>>
  BY <1>3, FlattenNothing DEF ItemsText
<1>7. QED
  BY <1>4, <1>5, <1>6

\* The text of an argument list.
LEMMA ArgsTextTyped ==
  ASSUME NEW args \in Seq(ArgNode)
  PROVE  ArgsText(args) \in Seq(Letters)
<1>1. PICK n \in Nat : n = Len(args) /\ DOMAIN args = 1..n
  OBVIOUS
<1>2. PICK parts : parts = [k \in 1..n |-> ArgText(args, k)]
  OBVIOUS
<1>3. parts = Leading(parts, n) /\ \A k \in 1..n : parts[k] = ArgText(args, k)
  BY <1>2 DEF Leading
<1>4. \A k \in 1..n : parts[k] \in Seq(Letters)
  BY <1>1, <1>3, ArgTextTyped, Zenon
<1>5. FlattenSeq(parts) \in Seq(Letters)
  BY <1>3, <1>4, FlattenParts DEF InParts
<1>6. QED
  BY <1>1, <1>2, <1>5, Zenon DEF ArgsText

\* One argument more, with the comma if it is not the first.
LEMMA ArgsTextMore ==
  ASSUME NEW args \in Seq(ArgNode), NEW a \in ArgNode
  PROVE  /\ args # <<>> => ArgsText(Append(args, a)) = ArgsText(args) \o (<<",">> \o Text(ArgMarks(a)))
         /\ args = <<>> => ArgsText(Append(args, a)) = Text(ArgMarks(a))
<1>1. PICK n, more : n = Len(args) /\ more = Append(args, a)
  OBVIOUS
<1>2. /\ n \in Nat /\ DOMAIN args = 1..n /\ more \in Seq(ArgNode) /\ DOMAIN more = 1..(n + 1)
      /\ more[n + 1] = a /\ \A k \in 1..n : more[k] = args[k]
  BY <1>1, Longer
<1>3. PICK parts, longer : /\ parts = [k \in 1..n |-> ArgText(args, k)]
                           /\ longer = [k \in 1..(n + 1) |-> ArgText(more, k)]
  OBVIOUS
<1>4. /\ parts = Leading(parts, n) /\ longer = Leading(longer, n + 1)
      /\ \A k \in 1..n : parts[k] = ArgText(args, k)
      /\ \A k \in 1..(n + 1) : longer[k] = ArgText(more, k)
  BY <1>3 DEF Leading
<1>5. \A k \in 1..(n + 1) : longer[k] \in Seq(Letters)
  BY <1>2, <1>4, ArgTextTyped, Zenon
<1>6. \A k \in 1..n : k \in 1..(n + 1)
  BY <1>2
<1>7. \A k \in 1..n : longer[k] = parts[k]
  BY <1>2, <1>4, <1>6, Zenon DEF ArgText
<1>8. FlattenSeq(longer) = FlattenSeq(parts) \o longer[n + 1]
  <2>1. \A k \in 1..n : parts[k] \in Seq(Letters)
    BY <1>5, <1>6, <1>7, Zenon
  <2>2. InParts(parts, n, Letters) /\ InParts(longer, n + 1, Letters) /\ OneMorePart(longer, parts, n)
    BY <1>4, <1>5, <1>7, <2>1 DEF InParts, OneMorePart
  <2>3. QED
    BY <1>2, <2>2, FlattenMore, ZenonT(40)
<1>9. FlattenSeq(longer) = ArgsText(Append(args, a)) /\ FlattenSeq(parts) = ArgsText(args)
  BY <1>1, <1>2, <1>3, Zenon DEF ArgsText
<1>10. n + 1 \in 1..(n + 1)
  BY <1>2
<1>11. ASSUME args # <<>> PROVE longer[n + 1] = <<",">> \o Text(ArgMarks(a))
  <2>1. n + 1 > 1
    BY <1>1, <1>2, <1>11, EmptySeq
  <2>2. QED
    BY <1>2, <1>4, <1>10, <2>1, Zenon DEF ArgText
<1>12. ASSUME args = <<>> PROVE ArgsText(Append(args, a)) = Text(ArgMarks(a))
  <2>1. ~(n + 1 > 1)
    BY <1>1, <1>12
  <2>2. longer[n + 1] = <<>> \o Text(ArgMarks(a))
    BY <1>2, <1>4, <1>10, <2>1, Zenon DEF ArgText
  <2>3. Text(ArgMarks(a)) \in Seq(Letters)
    BY MarksTyped, TextIs, Zenon
  <2>4. <<>> \o Text(ArgMarks(a)) = Text(ArgMarks(a))
    BY <2>3, TextsJoined, Zenon
  <2>5. FlattenSeq(parts) = <<>>
    BY <1>9, <1>12, NoText, Zenon
  <2>6. QED
    BY <1>8, <1>9, <2>2, <2>4, <2>5, Zenon
<1>13. QED
  BY <1>8, <1>9, <1>11, <1>12, Zenon

\* The text of methods, of one and of a list with one more.
LEMMA MethodTextTyped ==
  ASSUME NEW m \in MethodNode
  PROVE  MethodText(m) \in Seq(Letters)
<1>1. m.oneway \in BOOLEAN /\ m.type \in TypeNode /\ m.name \in Nat /\ m.args \in Seq(ArgNode)
  BY DEF MethodNode, Place
<1>2. Text(TypeMarks(m.type)) \in Seq(Letters)
  BY <1>1, MarksTyped, TextIs, Zenon
<1>3. (IF m.oneway THEN <<"ONEWAY">> ELSE <<>>) \in Seq(Letters)
  BY WordOf, WordsOf, Zenon
<1>4. <<file[m.name], "(">> \in Seq(Letters) /\ <<")", ";">> \in Seq(Letters)
  BY <1>1, WordOf, WordsOf, Zenon
<1>5. ArgsText(m.args) \in Seq(Letters)
  BY <1>1, ArgsTextTyped
<1>6. QED
  BY <1>2, <1>3, <1>4, <1>5, TextsJoined, Zenon DEF MethodText

LEMMA MethodsTextTyped ==
  ASSUME NEW methods \in Seq(MethodNode)
  PROVE  MethodsText(methods) \in Seq(Letters)
<1>1. PICK n \in Nat : n = Len(methods) /\ DOMAIN methods = 1..n
  OBVIOUS
<1>2. PICK parts : parts = [k \in 1..n |-> MethodText(methods[k])]
  OBVIOUS
<1>3. parts = Leading(parts, n) /\ \A k \in 1..n : parts[k] = MethodText(methods[k])
  BY <1>2 DEF Leading
<1>4. \A k \in 1..n : methods[k] \in MethodNode
  BY <1>1
<1>5. \A k \in 1..n : parts[k] \in Seq(Letters)
  BY <1>3, <1>4, MethodTextTyped, Zenon
<1>6. FlattenSeq(parts) \in Seq(Letters)
  BY <1>3, <1>5, FlattenParts DEF InParts
<1>7. QED
  BY <1>1, <1>2, <1>6, Zenon DEF MethodsText

LEMMA MethodsTextMore ==
  ASSUME NEW methods \in Seq(MethodNode), NEW m \in MethodNode
  PROVE  MethodsText(Append(methods, m)) = MethodsText(methods) \o MethodText(m)
<1>1. PICK n, more : n = Len(methods) /\ more = Append(methods, m)
  OBVIOUS
<1>2. /\ n \in Nat /\ DOMAIN methods = 1..n /\ more \in Seq(MethodNode) /\ DOMAIN more = 1..(n + 1)
      /\ more[n + 1] = m /\ \A k \in 1..n : more[k] = methods[k]
  BY <1>1, Longer
<1>3. PICK parts, longer : /\ parts = [k \in 1..n |-> MethodText(methods[k])]
                           /\ longer = [k \in 1..(n + 1) |-> MethodText(more[k])]
  OBVIOUS
<1>4. /\ parts = Leading(parts, n) /\ longer = Leading(longer, n + 1)
      /\ \A k \in 1..n : parts[k] = MethodText(methods[k])
      /\ \A k \in 1..(n + 1) : longer[k] = MethodText(more[k])
  BY <1>3 DEF Leading
<1>5. \A k \in 1..(n + 1) : more[k] \in MethodNode
  BY <1>2
<1>6. \A k \in 1..(n + 1) : longer[k] \in Seq(Letters)
  BY <1>4, <1>5, MethodTextTyped, Zenon
<1>7. (\A k \in 1..n : k \in 1..(n + 1)) /\ n + 1 \in 1..(n + 1)
  BY <1>2
<1>8. (\A k \in 1..n : longer[k] = parts[k]) /\ longer[n + 1] = MethodText(m)
  BY <1>2, <1>4, <1>7, Zenon
<1>9. FlattenSeq(longer) = FlattenSeq(parts) \o longer[n + 1]
  <2>1. \A k \in 1..n : parts[k] \in Seq(Letters)
    BY <1>6, <1>7, <1>8, Zenon
  <2>2. InParts(parts, n, Letters) /\ InParts(longer, n + 1, Letters) /\ OneMorePart(longer, parts, n)
    BY <1>4, <1>6, <1>8, <2>1 DEF InParts, OneMorePart
  <2>3. QED
    BY <1>2, <2>2, FlattenMore, Zenon
<1>10. FlattenSeq(longer) = MethodsText(Append(methods, m)) /\ FlattenSeq(parts) = MethodsText(methods)
  BY <1>1, <1>2, <1>3, Zenon DEF MethodsText
<1>11. QED
  BY <1>8, <1>9, <1>10, Zenon

LEMMA KindTextTyped == \A kind : KindText(kind) \in Seq(Letters)
BY WordOf, WordsOf, Zenon DEF KindText

\* The text of declarations, of one and of a list with one more.
LEMMA ItemTextTyped ==
  ASSUME NEW item \in ItemNode
  PROVE  ItemText(item) \in Seq(Letters)
<1>1. item.name \in Nat
  BY DEF ItemNode, ParcelableNode, InterfaceNode, Place
<1>2. item.kind \notin {"parcelable", "flattenable"} => item.items \in Seq(MethodNode)
  BY DEF ItemNode, ParcelableNode, InterfaceNode
<1>3. /\ <<"PARCELABLE", file[item.name], ";">> \in Seq(Letters)
      /\ <<"FLATTENABLE", file[item.name], ";">> \in Seq(Letters)
      /\ <<file[item.name], "{">> \in Seq(Letters) /\ <<"}">> \in Seq(Letters)
  BY <1>1, WordOf, WordsOf, Zenon
<1>4. item.kind \notin {"parcelable", "flattenable"} => MethodsText(item.items) \in Seq(Letters)
  BY <1>2, MethodsTextTyped
<1>5. QED
  BY <1>3, <1>4, KindTextTyped, TextsJoined, Zenon DEF ItemText

LEMMA ItemsTextTyped ==
  ASSUME NEW items \in Seq(ItemNode)
  PROVE  ItemsText(items) \in Seq(Letters)
<1>1. PICK n \in Nat : n = Len(items) /\ DOMAIN items = 1..n
  OBVIOUS
<1>2. PICK parts : parts = [k \in 1..n |-> ItemText(items[k])]
  OBVIOUS
<1>3. parts = Leading(parts, n) /\ \A k \in 1..n : parts[k] = ItemText(items[k])
  BY <1>2 DEF Leading
<1>4. \A k \in 1..n : items[k] \in ItemNode
  BY <1>1
<1>5. \A k \in 1..n : parts[k] \in Seq(Letters)
  BY <1>3, <1>4, ItemTextTyped, Zenon
<1>6. FlattenSeq(parts) \in Seq(Letters)
  BY <1>3, <1>5, FlattenParts DEF InParts
<1>7. QED
  BY <1>1, <1>2, <1>6, Zenon DEF ItemsText

LEMMA ItemsTextMore ==
  ASSUME NEW items \in Seq(ItemNode), NEW item \in ItemNode
  PROVE  ItemsText(Append(items, item)) = ItemsText(items) \o ItemText(item)
<1>1. PICK n, more : n = Len(items) /\ more = Append(items, item)
  OBVIOUS
<1>2. /\ n \in Nat /\ DOMAIN items = 1..n /\ more \in Seq(ItemNode) /\ DOMAIN more = 1..(n + 1)
      /\ more[n + 1] = item /\ \A k \in 1..n : more[k] = items[k]
  BY <1>1, Longer
<1>3. PICK parts, longer : /\ parts = [k \in 1..n |-> ItemText(items[k])]
                           /\ longer = [k \in 1..(n + 1) |-> ItemText(more[k])]
  OBVIOUS
<1>4. /\ parts = Leading(parts, n) /\ longer = Leading(longer, n + 1)
      /\ \A k \in 1..n : parts[k] = ItemText(items[k])
      /\ \A k \in 1..(n + 1) : longer[k] = ItemText(more[k])
  BY <1>3 DEF Leading
<1>5. \A k \in 1..(n + 1) : more[k] \in ItemNode
  BY <1>2
<1>6. \A k \in 1..(n + 1) : longer[k] \in Seq(Letters)
  BY <1>4, <1>5, ItemTextTyped, Zenon
<1>7. (\A k \in 1..n : k \in 1..(n + 1)) /\ n + 1 \in 1..(n + 1)
  BY <1>2
<1>8. (\A k \in 1..n : longer[k] = parts[k]) /\ longer[n + 1] = ItemText(item)
  BY <1>2, <1>4, <1>7, Zenon
<1>9. FlattenSeq(longer) = FlattenSeq(parts) \o longer[n + 1]
  <2>1. \A k \in 1..n : parts[k] \in Seq(Letters)
    BY <1>6, <1>7, <1>8, Zenon
  <2>2. InParts(parts, n, Letters) /\ InParts(longer, n + 1, Letters) /\ OneMorePart(longer, parts, n)
    BY <1>4, <1>6, <1>8, <2>1 DEF InParts, OneMorePart
  <2>3. QED
    BY <1>2, <2>2, FlattenMore, Zenon
<1>10. FlattenSeq(longer) = ItemsText(Append(items, item)) /\ FlattenSeq(parts) = ItemsText(items)
  BY <1>1, <1>2, <1>3, Zenon DEF ItemsText
<1>11. QED
  BY <1>8, <1>9, <1>10, Zenon

-----------------------------------------------------------------------------
(* Symbols with their values.                                              *)

\* What each symbol says of its value.
LEMMA SpellingToken ==
  ASSUME NEW v
  PROVE  /\ \A x \in Naming : Spelling(x, v) = <<file[v]>>
         /\ \A x \in Tokens \ Naming : Spelling(x, v) = <<x>>
BY Zenon DEF Spelling

LEMMA SpellingParts ==
  ASSUME NEW v
  PROVE  /\ Spelling("direction", v) = IF v = 0 THEN <<>> ELSE <<file[v]>>
         /\ Spelling("type", v) = Text(TypeMarks(v))
         /\ Spelling("arg", v) = Text(ArgMarks(v))
         /\ Spelling("arg_list", v) = ArgsText(v)
         /\ Spelling("method_decl", v) = MethodText(v)
         /\ Spelling("interface_items", v) = MethodsText(v)
         /\ Spelling("interface_header", v) = KindText(v)
BY Zenon DEF Spelling, Naming, Tokens

LEMMA SpellingItems ==
  ASSUME NEW v
  PROVE  /\ \A x \in DeclarationSymbols : Spelling(x, v) = ItemText(v)
         /\ Spelling("document_items", v) = ItemsText(v)
BY Zenon DEF Spelling, Naming, Tokens, DeclarationSymbols

LEMMA SpellingHeaders ==
  ASSUME NEW v
  PROVE  /\ Spelling("package", v) = <<"PACKAGE">>
         /\ Spelling("imports", v) = Text(gImports)
         /\ Spelling("headers", v) = PackageText \o Text(gImports)
         /\ Spelling("document", v) = DocumentText
         /\ \A x \in {"none", "error", "interface_keywords"} : Spelling(x, v) = <<>>
BY Zenon DEF Spelling, Naming, Tokens, DeclarationSymbols

\* What stands in a side, all of it there.
Standing(x, v) == Means(x, v) /\ (x \in DeclarationSymbols => v # Absent)

Noted == gImports \in Seq(Nat) /\ document \in Seq(ItemNode)

LEMMA HeadersTyped ==
  ASSUME Noted
  PROVE  /\ PackageText \in Seq(Letters) /\ Text(gImports) \in Seq(Letters)
         /\ ItemsText(document) \in Seq(Letters) /\ DocumentText \in Seq(Letters)
<1>1. PackageText \in Seq(Letters)
  BY WordOf, WordsOf, Zenon DEF PackageText
<1>2. Text(gImports) \in Seq(Letters)
  BY TextIs, Zenon DEF Noted
<1>3. ItemsText(document) \in Seq(Letters)
  BY ItemsTextTyped, Zenon DEF Noted
<1>4. DocumentText \in Seq(Letters)
  BY <1>1, <1>2, <1>3, TextsJoined, Zenon DEF DocumentText
<1>5. QED
  BY <1>1, <1>2, <1>3, <1>4

\* What a symbol says is a text.
LEMMA SpellingTyped ==
  ASSUME NEW x, NEW v, Standing(x, v), Noted
  PROVE  Spelling(x, v) \in Seq(Letters)
<1>1. Means(x, v) /\ (x \in DeclarationSymbols => v # Absent)
  BY DEF Standing
<1>2. <<>> \in Seq(Letters)
  BY WordsOf
<1>3. CASE x \in Tokens
  <2>1. v \in Nat
    BY <1>1, <1>3, MeansToken DEF Place
  <2>2. <<file[v]>> \in Seq(Letters) /\ <<x>> \in Seq(Letters)
    BY <1>3, <2>1, WordOf, WordsOf, Zenon
  <2>3. QED
    BY <1>3, <2>2, SpellingToken, Zenon
<1>4. CASE x = "direction"
  <2>1. v = 0 \/ v \in Nat
    BY <1>1, <1>4, MeansDirection DEF Place
  <2>2. v # 0 => <<file[v]>> \in Seq(Letters)
    BY <2>1, WordOf, WordsOf, Zenon
  <2>3. QED
    BY <1>2, <1>4, <2>2, SpellingParts, Zenon
<1>5. CASE x = "type"
  <2>1. Text(TypeMarks(v)) \in Seq(Letters)
    BY <1>1, <1>5, MeansType, MarksTyped, TextIs, Zenon
  <2>2. QED
    BY <1>5, <2>1, SpellingParts, Zenon
<1>6. CASE x = "arg"
  <2>1. Text(ArgMarks(v)) \in Seq(Letters)
    BY <1>1, <1>6, MeansArg, MarksTyped, TextIs, Zenon
  <2>2. QED
    BY <1>6, <2>1, SpellingParts, Zenon
<1>7. CASE x = "arg_list"
  BY <1>1, <1>7, MeansArgs, ArgsTextTyped, SpellingParts, Zenon
<1>8. CASE x = "method_decl"
  BY <1>1, <1>8, MeansMethod, MethodTextTyped, SpellingParts, Zenon
<1>9. CASE x = "interface_items"
  BY <1>1, <1>9, MeansMethods, MethodsTextTyped, SpellingParts, Zenon
<1>10. CASE x = "interface_header"
  BY <1>10, KindTextTyped, SpellingParts, Zenon
<1>11. CASE x \in DeclarationSymbols
  BY <1>1, <1>11, MeansDeclaration, ItemTextTyped, SpellingItems, Zenon
<1>12. CASE x = "document_items"
  BY <1>1, <1>12, MeansItems, ItemsTextTyped, SpellingItems, Zenon
<1>13. CASE x = "package"
  <2>1. <<"PACKAGE">> \in Seq(Letters)
    BY WordOf, WordsOf, Zenon
  <2>2. QED
    BY <1>13, <2>1, SpellingHeaders, Zenon
<1>14. CASE x = "imports"
  BY <1>14, HeadersTyped, SpellingHeaders, Zenon
<1>15. CASE x = "headers"
  <2>1. PackageText \o Text(gImports) \in Seq(Letters)
    BY HeadersTyped, TextsJoined, Zenon
  <2>2. QED
    BY <1>15, <2>1, SpellingHeaders, Zenon
<1>16. CASE x = "document"
  BY <1>16, HeadersTyped, SpellingHeaders, Zenon
<1>17. \A y \in Naming : y \in Tokens
  BY Zenon DEF Naming, Tokens
<1>18. x \notin Tokens => Spelling(x, v) \in Seq(Letters)
  BY <1>2, <1>4, <1>5, <1>6, <1>7, <1>8, <1>9, <1>10, <1>11, <1>12, <1>13, <1>14, <1>15, <1>16,
     <1>17, Zenon DEF Spelling
<1>19. QED
  BY <1>3, <1>18

\* The right side of a rule, written back.
Said(rhs, v, k) == Spelling(rhs[k], v[k])
Side(rhs, v) == FlattenSeq([k \in 1..Len(rhs) |-> Said(rhs, v, k)])

Stand(rhs, v) ==
  Given(rhs, v) /\ \A k \in 1..Len(rhs) : rhs[k] \in DeclarationSymbols => v[k] # Absent

\* What a right side says, part by part and put together.
LEMMA SideTyped ==
  ASSUME NEW rhs, NEW v, Stand(rhs, v), Noted, NEW k \in 1..Len(rhs)
  PROVE  Said(rhs, v, k) \in Seq(Letters)
BY SpellingTyped, Zenon DEF Said, Stand, Given, Standing

LEMMA SideUnrolls ==
  ASSUME NEW rhs, NEW v, Stand(rhs, v), Noted, NEW n \in Nat, n = Len(rhs)
  PROVE  \E g : /\ g[0] = <<>> /\ g[n] = Side(rhs, v)
                /\ \A k \in 0..n : g[k] \in Seq(Letters)
                /\ \A k \in 1..n : g[k] = g[k - 1] \o Said(rhs, v, k)
<1>1. PICK parts : parts = [k \in 1..n |-> Said(rhs, v, k)]
  OBVIOUS
<1>2. /\ parts = Leading(parts, n)
      /\ \A k \in 1..n : parts[k] = Said(rhs, v, k)
  BY <1>1 DEF Leading
<1>3. \A k \in 1..n : parts[k] \in Seq(Letters)
  BY <1>2, SideTyped
<1>4. PICK g : Unrolls(g, n, parts, Letters) /\ g[n] = FlattenSeq(Leading(parts, n))
  BY <1>3, Unrolled, Zenon
<1>5. g[n] = Side(rhs, v)
  BY <1>1, <1>2, <1>4 DEF Side
<1>6. QED
  BY <1>2, <1>4, <1>5, Zenon DEF Unrolls

\* The sides a rule has, symbol by symbol.
LEMMA SideOf ==
  ASSUME NEW rhs, NEW v, Stand(rhs, v), Noted
  PROVE  /\ Len(rhs) = 0 => Side(rhs, v) = <<>>
         /\ Len(rhs) = 1 => Side(rhs, v) = Said(rhs, v, 1)
         /\ Len(rhs) = 2 => Side(rhs, v) = Said(rhs, v, 1) \o Said(rhs, v, 2)
         /\ Len(rhs) = 3 => Side(rhs, v) = (Said(rhs, v, 1) \o Said(rhs, v, 2)) \o Said(rhs, v, 3)
<1>1. ASSUME NEW n \in 0..3, n = Len(rhs)
      PROVE  \E g : /\ g[0] = <<>> /\ g[n] = Side(rhs, v)
                    /\ \A k \in 1..n : Said(rhs, v, k) \in Seq(Letters)
                    /\ \A k \in 1..n : g[k] = g[k - 1] \o Said(rhs, v, k)
  <2>1. n \in Nat
    BY <1>1
  <2>2. \A k \in 1..n : Said(rhs, v, k) \in Seq(Letters)
    BY <1>1, SideTyped, Zenon
  <2>3. QED
    BY <1>1, <2>1, <2>2, SideUnrolls
<1>2. ASSUME Len(rhs) = 0 PROVE Side(rhs, v) = <<>>
  <2>1. PICK n \in 0..3 : n = 0
    OBVIOUS
  <2>2. QED
    BY <1>1, <1>2, <2>1
<1>3. ASSUME NEW n \in 1..3, n = Len(rhs)
      PROVE  \E g : /\ g[n] = Side(rhs, v) /\ g[1] = Said(rhs, v, 1)
                    /\ \A k \in 2..n : g[k] = g[k - 1] \o Said(rhs, v, k)
  <2>1. n \in 0..3 /\ 1 \in 1..n /\ 1 - 1 = 0 /\ \A k \in 2..n : k \in 1..n
    OBVIOUS
  <2>2. PICK g : /\ g[0] = <<>> /\ g[n] = Side(rhs, v)
                 /\ \A k \in 1..n : Said(rhs, v, k) \in Seq(Letters)
                 /\ \A k \in 1..n : g[k] = g[k - 1] \o Said(rhs, v, k)
    BY <1>1, <1>3, <2>1, Zenon
  <2>3. g[1] = <<>> \o Said(rhs, v, 1) /\ Said(rhs, v, 1) \in Seq(Letters)
    <3>1. g[1] = g[1 - 1] \o Said(rhs, v, 1) /\ Said(rhs, v, 1) \in Seq(Letters)
      BY <2>1, <2>2, Zenon
    <3>2. QED
      BY <2>1, <2>2, <3>1
  <2>4. g[1] = Said(rhs, v, 1)
    BY <2>3, TextsJoined, Zenon
  <2>5. QED
    BY <2>1, <2>2, <2>4, Zenon
<1>4. ASSUME Len(rhs) = 1 PROVE Side(rhs, v) = Said(rhs, v, 1)
  <2>1. PICK n \in 1..3 : n = 1
    OBVIOUS
  <2>2. QED
    BY <1>3, <1>4, <2>1
<1>5. ASSUME Len(rhs) = 2 PROVE Side(rhs, v) = Said(rhs, v, 1) \o Said(rhs, v, 2)
  <2>1. PICK n \in 1..3 : n = 2 /\ 2 - 1 = 1 /\ 2 \in 2..n
    OBVIOUS
  <2>2. PICK g : /\ g[n] = Side(rhs, v) /\ g[1] = Said(rhs, v, 1)
                 /\ \A k \in 2..n : g[k] = g[k - 1] \o Said(rhs, v, k)
    BY <1>3, <1>5, <2>1
  <2>3. g[2] = g[2 - 1] \o Said(rhs, v, 2)
    BY <2>1, <2>2, Zenon
  <2>4. QED
    BY <2>1, <2>2, <2>3
<1>6. ASSUME Len(rhs) = 3
      PROVE  Side(rhs, v) = (Said(rhs, v, 1) \o Said(rhs, v, 2)) \o Said(rhs, v, 3)
  <2>1. PICK n \in 1..3 : n = 3 /\ 2 - 1 = 1 /\ 3 - 1 = 2 /\ 2 \in 2..n /\ 3 \in 2..n
    OBVIOUS
  <2>2. PICK g : /\ g[n] = Side(rhs, v) /\ g[1] = Said(rhs, v, 1)
                 /\ \A k \in 2..n : g[k] = g[k - 1] \o Said(rhs, v, k)
    BY <1>3, <1>6, <2>1
  <2>3. g[2] = g[2 - 1] \o Said(rhs, v, 2) /\ g[3] = g[3 - 1] \o Said(rhs, v, 3)
    BY <2>1, <2>2, Zenon
  <2>4. QED
    BY <2>1, <2>2, <2>3
<1>7. QED
  BY <1>2, <1>4, <1>5, <1>6

\* The longer ones, of a method and of an interface.
LEMMA LongSideOf ==
  ASSUME NEW rhs, NEW v, Stand(rhs, v), Noted
  PROVE  /\ Len(rhs) = 5 =>
              Side(rhs, v) = (((Said(rhs, v, 1) \o Said(rhs, v, 2)) \o Said(rhs, v, 3))
                               \o Said(rhs, v, 4)) \o Said(rhs, v, 5)
         /\ Len(rhs) = 6 =>
              Side(rhs, v) = ((((Said(rhs, v, 1) \o Said(rhs, v, 2)) \o Said(rhs, v, 3))
                                \o Said(rhs, v, 4)) \o Said(rhs, v, 5)) \o Said(rhs, v, 6)
         /\ Len(rhs) = 7 =>
              Side(rhs, v) = (((((Said(rhs, v, 1) \o Said(rhs, v, 2)) \o Said(rhs, v, 3))
                                 \o Said(rhs, v, 4)) \o Said(rhs, v, 5)) \o Said(rhs, v, 6))
                               \o Said(rhs, v, 7)
<1>1. ASSUME NEW n \in 5..7, n = Len(rhs)
      PROVE  \E g : /\ g[n] = Side(rhs, v) /\ g[1] = Said(rhs, v, 1)
                    /\ g[2] = g[1] \o Said(rhs, v, 2) /\ g[3] = g[2] \o Said(rhs, v, 3)
                    /\ g[4] = g[3] \o Said(rhs, v, 4) /\ g[5] = g[4] \o Said(rhs, v, 5)
                    /\ n > 5 => g[6] = g[5] \o Said(rhs, v, 6)
                    /\ n > 6 => g[7] = g[6] \o Said(rhs, v, 7)
  <2>1. n \in Nat
    OBVIOUS
  <2>2. PICK g : /\ g[0] = <<>> /\ g[n] = Side(rhs, v)
                 /\ \A k \in 1..n : g[k] = g[k - 1] \o Said(rhs, v, k)
    BY <1>1, <2>1, SideUnrolls
  <2>3. /\ 1 \in 1..n /\ 2 \in 1..n /\ 3 \in 1..n /\ 4 \in 1..n /\ 5 \in 1..n
        /\ (n > 5 => 6 \in 1..n) /\ (n > 6 => 7 \in 1..n)
        /\ 1 - 1 = 0 /\ 2 - 1 = 1 /\ 3 - 1 = 2 /\ 4 - 1 = 3 /\ 5 - 1 = 4 /\ 6 - 1 = 5 /\ 7 - 1 = 6
    OBVIOUS
  <2>4. /\ g[1] = g[1 - 1] \o Said(rhs, v, 1) /\ g[2] = g[2 - 1] \o Said(rhs, v, 2)
        /\ g[3] = g[3 - 1] \o Said(rhs, v, 3) /\ g[4] = g[4 - 1] \o Said(rhs, v, 4)
        /\ g[5] = g[5 - 1] \o Said(rhs, v, 5)
        /\ n > 5 => g[6] = g[6 - 1] \o Said(rhs, v, 6)
        /\ n > 6 => g[7] = g[7 - 1] \o Said(rhs, v, 7)
    BY <2>2, <2>3, Zenon
  <2>5. Said(rhs, v, 1) \in Seq(Letters)
    BY <1>1, <2>3, SideTyped, Zenon
  <2>6. g[1] = Said(rhs, v, 1)
    <3>1. <<>> \o Said(rhs, v, 1) = Said(rhs, v, 1)
      BY <2>5, TextsJoined, Zenon
    <3>2. QED
      BY <2>2, <2>3, <2>4, <3>1
  <2>7. QED
    BY <2>2, <2>3, <2>4, <2>6
<1>2. ASSUME NEW n \in 5..7, n = Len(rhs)
      PROVE  \E a, b, c : /\ a = (((Said(rhs, v, 1) \o Said(rhs, v, 2)) \o Said(rhs, v, 3))
                                  \o Said(rhs, v, 4)) \o Said(rhs, v, 5)
                          /\ b = a \o Said(rhs, v, 6) /\ c = b \o Said(rhs, v, 7)
                          /\ n = 5 => Side(rhs, v) = a
                          /\ n = 6 => Side(rhs, v) = b
                          /\ n = 7 => Side(rhs, v) = c
  <2>1. PICK g : /\ g[n] = Side(rhs, v) /\ g[1] = Said(rhs, v, 1)
                 /\ g[2] = g[1] \o Said(rhs, v, 2) /\ g[3] = g[2] \o Said(rhs, v, 3)
                 /\ g[4] = g[3] \o Said(rhs, v, 4) /\ g[5] = g[4] \o Said(rhs, v, 5)
                 /\ n > 5 => g[6] = g[5] \o Said(rhs, v, 6)
                 /\ n > 6 => g[7] = g[6] \o Said(rhs, v, 7)
    BY <1>1, <1>2, Zenon
  <2>2. g[5] = (((Said(rhs, v, 1) \o Said(rhs, v, 2)) \o Said(rhs, v, 3))
                 \o Said(rhs, v, 4)) \o Said(rhs, v, 5)
    BY <2>1, Zenon
  <2>3. /\ n > 5 => g[6] = g[5] \o Said(rhs, v, 6)
        /\ n > 6 => g[7] = (g[5] \o Said(rhs, v, 6)) \o Said(rhs, v, 7)
        /\ (n = 6 => n > 5) /\ (n = 7 => n > 5 /\ n > 6)
    <3>1. (n = 6 => n > 5) /\ (n = 7 => n > 5 /\ n > 6) /\ (n > 6 => n > 5)
      OBVIOUS
    <3>2. QED
      BY <2>1, <3>1, Zenon
  <2>4. PICK a : a = g[5]
    OBVIOUS
  <2>5. QED
    BY <2>1, <2>2, <2>3, <2>4, ZenonT(40)
<1>3. (5 \in 5..7) /\ (6 \in 5..7) /\ (7 \in 5..7)
  OBVIOUS
<1>4. QED
  BY <1>2, <1>3, Zenon

-----------------------------------------------------------------------------
(* The text of what an action makes is the text of what it is made of.     *)

\* Tokens that are their own word.
Words == Tokens \ Naming

\* A symbol on the right side.
LEMMA SaidAs ==
  ASSUME NEW rhs, NEW v, NEW k, NEW x, rhs[k] = x
  PROVE  Said(rhs, v, k) = Spelling(x, v[k])
BY DEF Said

\* Of a symbol in its place on a right side: what its value is, and what it says.
LEMMA StandsFor ==
  ASSUME NEW rhs, NEW v, Stand(rhs, v), NEW k \in 1..Len(rhs), NEW x, rhs[k] = x
  PROVE  Means(x, v[k]) /\ (x \in DeclarationSymbols => v[k] # Absent)
BY DEF Stand, Given

\* A token there: its own word, or the one at its place.
LEMMA SaidName ==
  ASSUME NEW rhs, NEW v, Stand(rhs, v), NEW k \in 1..Len(rhs), NEW x \in Naming, rhs[k] = x
  PROVE  v[k] \in Place /\ v[k] \in Nat /\ v[k] # 0 /\ Said(rhs, v, k) = <<file[v[k]]>>
<1>1. x \in Tokens
  BY Zenon DEF Naming, Tokens
<1>2. Means(x, v[k])
  BY StandsFor
<1>3. v[k] \in Place
  BY <1>1, <1>2, MeansToken, Zenon
<1>4. Said(rhs, v, k) = <<file[v[k]]>>
  <2>1. Spelling(x, v[k]) = <<file[v[k]]>>
    BY SpellingToken, Zenon
  <2>2. QED
    BY <2>1, SaidAs
<1>5. QED
  BY <1>3, <1>4 DEF Place

LEMMA SaidWord ==
  ASSUME NEW rhs, NEW v, NEW k \in 1..Len(rhs), NEW x \in Words, rhs[k] = x
  PROVE  Said(rhs, v, k) = <<x>>
<1>1. Spelling(x, v[k]) = <<x>>
  BY SpellingToken, Zenon DEF Words
<1>2. QED
  BY <1>1, SaidAs

LEMMA NamesAre ==
  /\ "IDENTIFIER" \in Naming /\ "GENERIC" \in Naming /\ "ARRAY" \in Naming /\ "*" \in Naming
  /\ "IN" \in Naming /\ "OUT" \in Naming /\ "INOUT" \in Naming /\ "IMPORT" \in Naming
BY Zenon DEF Naming

LEMMA WordsAre ==
  /\ \A x \in Words : x \in Letters
  /\ "PARCELABLE" \in Words /\ "FLATTENABLE" \in Words
  /\ "INTERFACE" \in Words /\ "ONEWAY" \in Words /\ "RPC" \in Words
  /\ "PACKAGE" \in Words /\ ";" \in Words /\ "{" \in Words
  /\ "}" \in Words /\ "(" \in Words /\ ")" \in Words
  /\ "," \in Words
<1>1. \A x \in Words : x \in Letters
  BY WordOf, Zenon DEF Words
<1>2. QED
  BY <1>1, Zenon DEF Naming, Tokens, Words

\* The actions, one for each kind of node: a type with its array mark or pointer,
LEMMA SpelledType ==
  ASSUME NEW rhs, NEW v, Stand(rhs, v), Noted
  PROVE  /\ \A x \in {"IDENTIFIER", "GENERIC"} : rhs = <<x>> =>
              Spelling("type", [type |-> v[1], array |-> 0]) = Side(rhs, v)
         /\ \A x \in {"ARRAY", "*"} : rhs = <<"IDENTIFIER", x>> =>
              Spelling("type", [type |-> v[1], array |-> v[2]]) = Side(rhs, v)
<1>1. ASSUME NEW x \in {"IDENTIFIER", "GENERIC"}, rhs = <<x>>
      PROVE  Spelling("type", [type |-> v[1], array |-> 0]) = Side(rhs, v)
  <2>1. Len(rhs) = 1 /\ 1 \in 1..Len(rhs) /\ rhs[1] = x
    BY <1>1
  <2>2. x \in Naming
    BY NamesAre
  <2>3. Said(rhs, v, 1) = <<file[v[1]]>>
    BY <2>1, <2>2, SaidName
  <2>4. PICK t : t = [type |-> v[1], array |-> 0]
    OBVIOUS
  <2>5. t.type = v[1] /\ t.array = 0
    BY <2>4
  <2>6. Text(TypeMarks(t)) = <<file[v[1]]>>
    BY <2>5, TextFew, Zenon DEF TypeMarks
  <2>7. Side(rhs, v) = Said(rhs, v, 1)
    BY <2>1, SideOf, Zenon
  <2>8. Spelling("type", t) = <<file[v[1]]>>
    BY <2>6, SpellingParts, Zenon
  <2>9. QED
    BY <2>3, <2>4, <2>7, <2>8, Zenon
<1>2. ASSUME NEW x \in {"ARRAY", "*"}, rhs = <<"IDENTIFIER", x>>
      PROVE  Spelling("type", [type |-> v[1], array |-> v[2]]) = Side(rhs, v)
  <2>1. Len(rhs) = 2 /\ 1 \in 1..Len(rhs) /\ 2 \in 1..Len(rhs) /\ rhs[1] = "IDENTIFIER" /\ rhs[2] = x
    BY <1>2
  <2>2. x \in Naming /\ "IDENTIFIER" \in Naming
    BY NamesAre
  <2>3. v[1] \in Nat /\ Said(rhs, v, 1) = <<file[v[1]]>>
    BY <2>1, <2>2, SaidName
  <2>4. v[2] \in Nat /\ v[2] # 0 /\ Said(rhs, v, 2) = <<file[v[2]]>>
    BY <2>1, <2>2, SaidName
  <2>5. <<file[v[1]]>> \o <<file[v[2]]>> = <<file[v[1]], file[v[2]]>>
    BY <2>3, <2>4, WordOf, WordsOf, Zenon
  <2>6. PICK t : t = [type |-> v[1], array |-> v[2]]
    OBVIOUS
  <2>7. t.type = v[1] /\ t.array = v[2]
    BY <2>6
  <2>8. Text(TypeMarks(t)) = <<file[v[1]], file[v[2]]>>
    BY <2>4, <2>7, TextFew, Zenon DEF TypeMarks
  <2>9. Side(rhs, v) = Said(rhs, v, 1) \o Said(rhs, v, 2)
    BY <2>1, SideOf, Zenon
  <2>10. Spelling("type", t) = <<file[v[1]], file[v[2]]>>
    BY <2>8, SpellingParts, Zenon
  <2>11. QED
    BY <2>3, <2>4, <2>5, <2>6, <2>9, <2>10, Zenon
<1>3. QED
  BY <1>1, <1>2

\* an argument with its direction,
LEMMA SpelledArg ==
  ASSUME NEW rhs, NEW v, Stand(rhs, v), Noted, rhs = <<"direction", "type", "IDENTIFIER">>
  PROVE  Spelling("arg", [direction |-> v[1], type |-> v[2], name |-> v[3]]) = Side(rhs, v)
<1>1. /\ Len(rhs) = 3 /\ 1 \in 1..Len(rhs) /\ 2 \in 1..Len(rhs) /\ 3 \in 1..Len(rhs)
      /\ rhs[1] = "direction" /\ rhs[2] = "type" /\ rhs[3] = "IDENTIFIER"
  OBVIOUS
<1>2. v[3] \in Nat /\ Said(rhs, v, 3) = <<file[v[3]]>>
  BY <1>1, NamesAre, SaidName
<1>3. Said(rhs, v, 1) = Spelling("direction", v[1]) /\ Said(rhs, v, 2) = Spelling("type", v[2])
  BY <1>1, SaidAs
<1>4. Said(rhs, v, 1) = (IF v[1] = 0 THEN <<>> ELSE <<file[v[1]]>>)
      /\ Said(rhs, v, 2) = Text(TypeMarks(v[2]))
  BY <1>3, SpellingParts, Zenon
<1>5. Means("direction", v[1]) /\ Means("type", v[2])
  BY <1>1, StandsFor
<1>6. v[1] \in Nat /\ v[2] \in TypeNode
  BY <1>5, MeansDirection, MeansType DEF Place
<1>7. PICK a : a = [direction |-> v[1], type |-> v[2], name |-> v[3]]
  OBVIOUS
<1>8. a.direction = v[1] /\ a.type = v[2] /\ a.name = v[3]
  BY <1>7
<1>9. PICK p \in Nat, q \in Nat : p = v[1] /\ q = v[3]
  BY <1>2, <1>6
<1>10. PICK d \in Seq(Nat), n \in Seq(Nat) : d = (IF p = 0 THEN <<>> ELSE <<p>>) /\ n = <<q>>
  <2>1. <<p>> \in Seq(Nat) /\ <<q>> \in Seq(Nat) /\ <<>> \in Seq(Nat)
    OBVIOUS
  <2>2. QED
    BY <2>1, Zenon
<1>11. PICK t \in Seq(Nat) : t = TypeMarks(v[2])
  BY <1>6, MarksTyped, Zenon
<1>12. ArgMarks(a) = (d \o t) \o n
  BY <1>8, <1>9, <1>10, <1>11, Zenon DEF ArgMarks
<1>13. Text((d \o t) \o n) = (Text(d) \o Text(t)) \o Text(n)
  <2>1. d \o t \in Seq(Nat) /\ Text(d \o t) = Text(d) \o Text(t)
    BY TextJoined
  <2>2. Text((d \o t) \o n) = Text(d \o t) \o Text(n)
    BY <2>1, TextJoined
  <2>3. QED
    BY <2>1, <2>2
<1>14. Text(d) = Said(rhs, v, 1) /\ Text(t) = Said(rhs, v, 2) /\ Text(n) = Said(rhs, v, 3)
  BY <1>2, <1>4, <1>9, <1>10, <1>11, TextFew, Zenon
<1>15. Side(rhs, v) = (Said(rhs, v, 1) \o Said(rhs, v, 2)) \o Said(rhs, v, 3)
  BY <1>1, SideOf, Zenon
<1>16. Spelling("arg", a) = Text(ArgMarks(a))
  BY SpellingParts, Zenon
<1>17. QED
  BY <1>7, <1>12, <1>13, <1>14, <1>15, <1>16, Zenon

\* a list of arguments: the first, and one more after a comma,
LEMMA SpelledFirstArg ==
  ASSUME NEW rhs, NEW v, Stand(rhs, v), Noted, rhs = <<"arg">>
  PROVE  Spelling("arg_list", <<v[1]>>) = Side(rhs, v)
<1>1. Len(rhs) = 1 /\ 1 \in 1..Len(rhs) /\ rhs[1] = "arg"
  OBVIOUS
<1>2. Means("arg", v[1])
  BY <1>1, StandsFor
<1>3. PICK x \in ArgNode : x = v[1]
  BY <1>2, MeansArg
<1>4. PICK none : none = <<>>
  OBVIOUS
<1>5. none \in Seq(ArgNode) /\ <<x>> = Append(none, x)
  BY <1>4
<1>6. ArgsText(Append(none, x)) = Text(ArgMarks(x))
  BY <1>4, <1>5, ArgsTextMore, Zenon
<1>7. Side(rhs, v) = Said(rhs, v, 1)
  BY <1>1, SideOf, Zenon
<1>8. Said(rhs, v, 1) = Spelling("arg", v[1])
  BY <1>1, SaidAs
<1>9. QED
  BY <1>3, <1>5, <1>6, <1>7, <1>8, SpellingParts, Zenon

LEMMA SpelledMoreArgs ==
  ASSUME NEW rhs, NEW v, Stand(rhs, v), Noted, NEW comma \in Words,
         rhs = <<"arg_list", comma, "arg">>
  PROVE  /\ v[1] \in Seq(ArgNode) /\ v[3] \in ArgNode
         /\ Side(rhs, v) = ArgsText(v[1]) \o (<<comma>> \o Text(ArgMarks(v[3])))
<1>1. /\ Len(rhs) = 3 /\ 1 \in 1..Len(rhs) /\ 2 \in 1..Len(rhs) /\ 3 \in 1..Len(rhs)
      /\ rhs[1] = "arg_list" /\ rhs[2] = comma /\ rhs[3] = "arg"
  OBVIOUS
<1>2. Means("arg_list", v[1]) /\ Means("arg", v[3])
  BY <1>1, StandsFor
<1>3. v[1] \in Seq(ArgNode) /\ v[3] \in ArgNode
  BY <1>2, MeansArgs, MeansArg, Zenon
<1>4. Said(rhs, v, 2) = <<comma>>
  BY <1>1, SaidWord
<1>5. Said(rhs, v, 1) = Spelling("arg_list", v[1]) /\ Said(rhs, v, 3) = Spelling("arg", v[3])
  BY <1>1, SaidAs
<1>6. Spelling("arg_list", v[1]) = ArgsText(v[1]) /\ Spelling("arg", v[3]) = Text(ArgMarks(v[3]))
  BY SpellingParts, Zenon
<1>7. Said(rhs, v, 1) = ArgsText(v[1]) /\ Said(rhs, v, 3) = Text(ArgMarks(v[3]))
  BY <1>5, <1>6, Zenon
<1>8. Side(rhs, v) = (Said(rhs, v, 1) \o Said(rhs, v, 2)) \o Said(rhs, v, 3)
  BY <1>1, SideOf, Zenon
<1>9. /\ Said(rhs, v, 1) \in Seq(Letters) /\ Said(rhs, v, 2) \in Seq(Letters)
      /\ Said(rhs, v, 3) \in Seq(Letters)
  BY <1>1, SideTyped
<1>10. Side(rhs, v) = Said(rhs, v, 1) \o (Said(rhs, v, 2) \o Said(rhs, v, 3))
  <2>1. PICK a \in Seq(Letters), b \in Seq(Letters), c \in Seq(Letters) :
          a = Said(rhs, v, 1) /\ b = Said(rhs, v, 2) /\ c = Said(rhs, v, 3)
    BY <1>9
  <2>2. (a \o b) \o c = a \o (b \o c)
    BY TextsJoined, Zenon
  <2>3. QED
    BY <1>8, <2>1, <2>2
<1>11. QED
  BY <1>3, <1>4, <1>7, <1>10, Zenon

LEMMA SpelledArgs ==
  ASSUME NEW rhs, NEW v, Stand(rhs, v), Noted
  PROVE  /\ rhs = <<"arg">> => Spelling("arg_list", <<v[1]>>) = Side(rhs, v)
         /\ rhs = <<"arg_list", ",", "arg">> /\ v[1] # <<>> =>
              Spelling("arg_list", AppendArg(v[1], v[3])) = Side(rhs, v)
<1>1. ASSUME rhs = <<"arg_list", ",", "arg">>, v[1] # <<>>
      PROVE  Spelling("arg_list", AppendArg(v[1], v[3])) = Side(rhs, v)
  <2>1. /\ v[1] \in Seq(ArgNode) /\ v[3] \in ArgNode
        /\ Side(rhs, v) = ArgsText(v[1]) \o (<<",">> \o Text(ArgMarks(v[3])))
    BY <1>1, WordsAre, SpelledMoreArgs, Zenon
  <2>2. ArgsText(Append(v[1], v[3])) = ArgsText(v[1]) \o (<<",">> \o Text(ArgMarks(v[3])))
    BY <1>1, <2>1, ArgsTextMore, Zenon
  <2>3. AppendArg(v[1], v[3]) = Append(v[1], v[3])
    BY <1>1, Zenon DEF AppendArg
  <2>4. QED
    BY <2>1, <2>2, <2>3, SpellingParts, Zenon
<1>2. QED
  BY <1>1, SpelledFirstArg, Zenon

\* "parcelable_decl : T_PARCELABLE T_IDENTIFIER ';'", and T_FLATTENABLE.
LEMMA NamedSide ==
  ASSUME NEW rhs, NEW v, Stand(rhs, v), Noted,
         NEW word \in Words, NEW semicolon \in Words,
         rhs = <<word, "IDENTIFIER", semicolon>>
  PROVE  Side(rhs, v) = <<word, file[v[2]], semicolon>>
<1>1. /\ Len(rhs) = 3 /\ 1 \in 1..Len(rhs) /\ 2 \in 1..Len(rhs) /\ 3 \in 1..Len(rhs)
      /\ rhs[1] = word /\ rhs[2] = "IDENTIFIER" /\ rhs[3] = semicolon
  OBVIOUS
<1>2. v[2] \in Nat /\ Said(rhs, v, 2) = <<file[v[2]]>>
  BY <1>1, NamesAre, SaidName
<1>3. Said(rhs, v, 1) = <<word>> /\ Said(rhs, v, 3) = <<semicolon>>
  BY <1>1, SaidWord
<1>4. PICK name \in Letters : name = file[v[2]]
  BY <1>2, WordOf, Zenon
<1>5. word \in Letters /\ semicolon \in Letters
  BY WordsAre, Zenon
<1>6. (<<word>> \o <<name>>) \o <<semicolon>> = <<word, name, semicolon>>
  <2>1. <<word>> \o <<name>> = <<word, name>>
    BY <1>5, WordsOf, Zenon
  <2>2. <<word, name>> \o <<semicolon>> = <<word, name, semicolon>>
    BY <1>5, WordsOf, Zenon
  <2>3. QED
    BY <2>1, <2>2
<1>7. Side(rhs, v) = (Said(rhs, v, 1) \o Said(rhs, v, 2)) \o Said(rhs, v, 3)
  BY <1>1, SideOf, Zenon
<1>8. QED
  BY <1>2, <1>3, <1>4, <1>6, <1>7

\* a parcelable,
LEMMA SpelledParcelable ==
  ASSUME NEW rhs, NEW v, Stand(rhs, v), Noted
  PROVE  /\ rhs = <<"PARCELABLE", "IDENTIFIER", ";">> =>
              Spelling("parcelable_decl",
                       [kind |-> "parcelable", name |-> v[2], package |-> package]) = Side(rhs, v)
         /\ rhs = <<"FLATTENABLE", "IDENTIFIER", ";">> =>
              Spelling("parcelable_decl",
                       [kind |-> "flattenable", name |-> v[2], package |-> package]) = Side(rhs, v)
<1>1. PICK p : p = [kind |-> "parcelable", name |-> v[2], package |-> package]
  OBVIOUS
<1>2. PICK f : f = [kind |-> "flattenable", name |-> v[2], package |-> package]
  OBVIOUS
<1>3. p.kind = "parcelable" /\ p.name = v[2] /\ f.kind = "flattenable" /\ f.name = v[2]
  BY <1>1, <1>2
<1>4. /\ ItemText(p) = <<"PARCELABLE", file[v[2]], ";">>
      /\ ItemText(f) = <<"FLATTENABLE", file[v[2]], ";">>
  BY <1>3, Zenon DEF ItemText
<1>5. /\ Spelling("parcelable_decl", p) = <<"PARCELABLE", file[v[2]], ";">>
      /\ Spelling("parcelable_decl", f) = <<"FLATTENABLE", file[v[2]], ";">>
  BY <1>4, SpellingItems, Zenon DEF DeclarationSymbols
<1>6. "PARCELABLE" \in Words /\ "FLATTENABLE" \in Words /\ ";" \in Words
  BY WordsAre, Zenon
<1>7. ASSUME NEW word \in Words, rhs = <<word, "IDENTIFIER", ";">>
      PROVE  Side(rhs, v) = <<word, file[v[2]], ";">>
  BY <1>6, <1>7, NamedSide, Zenon
<1>8. ASSUME rhs = <<"PARCELABLE", "IDENTIFIER", ";">>
      PROVE  Spelling("parcelable_decl", p) = Side(rhs, v)
  <2>1. Side(rhs, v) = <<"PARCELABLE", file[v[2]], ";">>
    BY <1>6, <1>7, <1>8, Zenon
  <2>2. QED
    BY <1>5, <2>1, Zenon
<1>9. ASSUME rhs = <<"FLATTENABLE", "IDENTIFIER", ";">>
      PROVE  Spelling("parcelable_decl", f) = Side(rhs, v)
  <2>1. Side(rhs, v) = <<"FLATTENABLE", file[v[2]], ";">>
    BY <1>6, <1>7, <1>9, Zenon
  <2>2. QED
    BY <1>5, <2>1, Zenon
<1>10. QED
  BY <1>1, <1>2, <1>8, <1>9, Zenon

\* The words before the name of an interface.
LEMMA SpelledHeader ==
  ASSUME NEW rhs, NEW v, Stand(rhs, v), Noted
  PROVE  /\ rhs = <<"INTERFACE">> => Spelling("interface_header", "binder") = Side(rhs, v)
         /\ rhs = <<"RPC">> => Spelling("interface_header", "rpc") = Side(rhs, v)
         /\ rhs = <<"ONEWAY", "INTERFACE">> =>
              Spelling("interface_header", "oneway_binder") = Side(rhs, v)
<1>1. /\ Spelling("interface_header", "binder") = <<"INTERFACE">>
      /\ Spelling("interface_header", "rpc") = <<"RPC">>
      /\ Spelling("interface_header", "oneway_binder") = <<"ONEWAY", "INTERFACE">>
  <2>1. KindText("binder") = <<"INTERFACE">> /\ KindText("rpc") = <<"RPC">>
        /\ KindText("oneway_binder") = <<"ONEWAY", "INTERFACE">>
    BY Zenon DEF KindText
  <2>2. QED
    BY <2>1, SpellingParts, Zenon
<1>2. ASSUME NEW word \in Words, rhs = <<word>> PROVE Side(rhs, v) = <<word>>
  <2>1. Len(rhs) = 1 /\ 1 \in 1..Len(rhs) /\ rhs[1] = word
    BY <1>2
  <2>2. Said(rhs, v, 1) = <<word>>
    BY <2>1, SaidWord
  <2>3. QED
    BY <2>1, <2>2, SideOf, Zenon
<1>3. ASSUME rhs = <<"ONEWAY", "INTERFACE">> PROVE Side(rhs, v) = <<"ONEWAY", "INTERFACE">>
  <2>1. /\ Len(rhs) = 2 /\ 1 \in 1..Len(rhs) /\ 2 \in 1..Len(rhs)
        /\ rhs[1] = "ONEWAY" /\ rhs[2] = "INTERFACE"
    BY <1>3
  <2>2. "ONEWAY" \in Words /\ "INTERFACE" \in Words
    BY WordsAre, Zenon
  <2>3. Said(rhs, v, 1) = <<"ONEWAY">> /\ Said(rhs, v, 2) = <<"INTERFACE">>
    BY <2>1, <2>2, SaidWord
  <2>4. <<"ONEWAY">> \o <<"INTERFACE">> = <<"ONEWAY", "INTERFACE">>
    BY WordOf, WordsOf, Zenon
  <2>5. Side(rhs, v) = Said(rhs, v, 1) \o Said(rhs, v, 2)
    BY <2>1, SideOf, Zenon
  <2>6. QED
    BY <2>3, <2>4, <2>5
<1>4. QED
  <2>1. "INTERFACE" \in Words /\ "RPC" \in Words
    BY WordsAre, Zenon
  <2>2. QED
    BY <1>1, <1>2, <1>3, <2>1

\* "interface_decl : interface_header T_IDENTIFIER '{' interface_items '}'"
LEMMA InterfaceSide ==
  ASSUME NEW rhs, NEW v, Stand(rhs, v), Noted,
         NEW begin \in Words, NEW end \in Words,
         rhs = <<"interface_header", "IDENTIFIER", begin, "interface_items", end>>
  PROVE  /\ v[1] \in {"binder", "oneway_binder", "rpc"}
         /\ Side(rhs, v) = ((KindText(v[1]) \o <<file[v[2]], begin>>) \o MethodsText(v[4]))
                             \o <<end>>
<1>1. /\ Len(rhs) = 5 /\ 1 \in 1..Len(rhs) /\ 2 \in 1..Len(rhs) /\ 3 \in 1..Len(rhs)
      /\ 4 \in 1..Len(rhs) /\ 5 \in 1..Len(rhs)
      /\ rhs[1] = "interface_header" /\ rhs[2] = "IDENTIFIER" /\ rhs[3] = begin
      /\ rhs[4] = "interface_items" /\ rhs[5] = end
  OBVIOUS
<1>2. v[2] \in Nat /\ Said(rhs, v, 2) = <<file[v[2]]>>
  BY <1>1, NamesAre, SaidName
<1>3. Said(rhs, v, 3) = <<begin>> /\ Said(rhs, v, 5) = <<end>>
  BY <1>1, SaidWord
<1>4. /\ Said(rhs, v, 1) = Spelling("interface_header", v[1])
      /\ Said(rhs, v, 4) = Spelling("interface_items", v[4])
  BY <1>1, SaidAs
<1>5. /\ Spelling("interface_header", v[1]) = KindText(v[1])
      /\ Spelling("interface_items", v[4]) = MethodsText(v[4])
  BY SpellingParts, Zenon
<1>6. PICK kind \in Seq(Letters), name \in Letters, open \in Letters :
        kind = KindText(v[1]) /\ name = file[v[2]] /\ open = begin
  BY <1>2, WordOf, WordsAre, KindTextTyped, Zenon
<1>7. (kind \o <<name>>) \o <<open>> = kind \o <<name, open>>
  BY WordsOf, Zenon
<1>8. Side(rhs, v) = (((Said(rhs, v, 1) \o Said(rhs, v, 2)) \o Said(rhs, v, 3))
                       \o Said(rhs, v, 4)) \o Said(rhs, v, 5)
  BY <1>1, LongSideOf, Zenon
<1>9. Means("interface_header", v[1])
  BY <1>1, StandsFor
<1>10. v[1] \in {"binder", "oneway_binder", "rpc"}
  BY <1>9, MeansHeader, Zenon
<1>11. QED
  BY <1>2, <1>3, <1>4, <1>5, <1>6, <1>7, <1>8, <1>10

\* an interface with its header,
LEMMA SpelledInterface ==
  ASSUME NEW rhs, NEW v, Stand(rhs, v), Noted,
         rhs = <<"interface_header", "IDENTIFIER", "{", "interface_items", "}">>
  PROVE  Spelling("interface_decl",
                  [kind |-> v[1], name |-> v[2], package |-> package, items |-> v[4]])
           = Side(rhs, v)
<1>1. "{" \in Words /\ "}" \in Words
  BY WordsAre, Zenon
<1>2. Side(rhs, v) = ((KindText(v[1]) \o <<file[v[2]], "{">>) \o MethodsText(v[4])) \o <<"}">>
  BY <1>1, InterfaceSide, Zenon
<1>3. v[1] \in {"binder", "oneway_binder", "rpc"}
  BY <1>1, InterfaceSide, Zenon
<1>4. PICK item : item = [kind |-> v[1], name |-> v[2], package |-> package, items |-> v[4]]
  BY Zenon
<1>5. item.kind = v[1] /\ item.name = v[2] /\ item.items = v[4]
  BY <1>4, Zenon
<1>6. item.kind # "parcelable" /\ item.kind # "flattenable"
  BY <1>3, <1>5, Zenon
<1>7. ItemText(item) = ((KindText(v[1]) \o <<file[v[2]], "{">>) \o MethodsText(v[4])) \o <<"}">>
  BY <1>5, <1>6, Zenon DEF ItemText
<1>8. Spelling("interface_decl", item) = ItemText(item)
  BY SpellingItems, Zenon DEF DeclarationSymbols
<1>9. QED
  BY <1>2, <1>4, <1>7, <1>8, Zenon

\* "method_decl : type T_IDENTIFIER '(' arg_list ')' ';'"
MethodRule(rhs, begin, end, semicolon) ==
  /\ begin \in Words /\ end \in Words /\ semicolon \in Words
  /\ rhs = <<"type", "IDENTIFIER", begin, "arg_list", end, semicolon>>
OnewayMethodRule(rhs, begin, end, semicolon) ==
  /\ begin \in Words /\ end \in Words /\ semicolon \in Words
  /\ rhs = <<"ONEWAY", "type", "IDENTIFIER", begin, "arg_list", end, semicolon>>

\* a method, oneway or not,
LEMMA MethodSide ==
  ASSUME NEW rhs, NEW v, Stand(rhs, v), Noted, NEW begin, NEW end, NEW semicolon,
         MethodRule(rhs, begin, end, semicolon)
  PROVE  /\ Text(TypeMarks(v[1])) \in Seq(Letters)
         /\ Side(rhs, v) = ((Text(TypeMarks(v[1])) \o <<file[v[2]], begin>>) \o ArgsText(v[4]))
                             \o <<end, semicolon>>
<1>1. /\ Len(rhs) = 6 /\ 1 \in 1..Len(rhs) /\ 2 \in 1..Len(rhs) /\ 3 \in 1..Len(rhs)
      /\ 4 \in 1..Len(rhs) /\ 5 \in 1..Len(rhs) /\ 6 \in 1..Len(rhs)
      /\ rhs[1] = "type" /\ rhs[2] = "IDENTIFIER" /\ rhs[3] = begin
      /\ rhs[4] = "arg_list" /\ rhs[5] = end /\ rhs[6] = semicolon
  BY DEF MethodRule
<1>2. begin \in Words /\ end \in Words /\ semicolon \in Words
  BY DEF MethodRule
<1>3. v[2] \in Nat /\ Said(rhs, v, 2) = <<file[v[2]]>>
  BY <1>1, NamesAre, SaidName
<1>4. Said(rhs, v, 3) = <<begin>> /\ Said(rhs, v, 5) = <<end>> /\ Said(rhs, v, 6) = <<semicolon>>
  BY <1>1, <1>2, SaidWord
<1>5. Said(rhs, v, 1) = Spelling("type", v[1]) /\ Said(rhs, v, 4) = Spelling("arg_list", v[4])
  BY <1>1, SaidAs
<1>6. /\ Spelling("type", v[1]) = Text(TypeMarks(v[1]))
      /\ Spelling("arg_list", v[4]) = ArgsText(v[4])
  BY SpellingParts, Zenon
<1>7. Said(rhs, v, 1) \in Seq(Letters) /\ Said(rhs, v, 4) \in Seq(Letters)
  BY <1>1, SideTyped
<1>8. PICK type \in Seq(Letters), args \in Seq(Letters) :
        type = Said(rhs, v, 1) /\ args = Said(rhs, v, 4)
  BY <1>7, Zenon
<1>9. PICK name \in Letters, open \in Letters, close \in Letters, last \in Letters :
        name = file[v[2]] /\ open = begin /\ close = end /\ last = semicolon
  BY <1>2, <1>3, WordOf, WordsAre, Zenon
<1>10. (type \o <<name>>) \o <<open>> = type \o <<name, open>>
  BY WordsOf, Zenon
<1>11. PICK before \in Seq(Letters) : before = (type \o <<name, open>>) \o args
  <2>1. <<name, open>> \in Seq(Letters)
    BY WordsOf, Zenon
  <2>2. type \o <<name, open>> \in Seq(Letters)
    BY <2>1, TextsJoined, Zenon
  <2>3. QED
    BY <2>2, TextsJoined, Zenon
<1>12. (before \o <<close>>) \o <<last>> = before \o <<close, last>>
  BY WordsOf, Zenon
<1>13. Side(rhs, v) = ((((Said(rhs, v, 1) \o Said(rhs, v, 2)) \o Said(rhs, v, 3))
                        \o Said(rhs, v, 4)) \o Said(rhs, v, 5)) \o Said(rhs, v, 6)
  BY <1>1, LongSideOf, Zenon
<1>14. Side(rhs, v) = (before \o <<close>>) \o <<last>>
  BY <1>3, <1>4, <1>8, <1>9, <1>10, <1>11, <1>13
<1>15. Text(TypeMarks(v[1])) = type /\ ArgsText(v[4]) = args
  BY <1>5, <1>6, <1>8
<1>16. QED
  BY <1>9, <1>11, <1>12, <1>14, <1>15, Zenon

\* The same after T_ONEWAY.
LEMMA OnewayMethodSide ==
  ASSUME NEW rhs, NEW v, Stand(rhs, v), Noted, NEW begin, NEW end, NEW semicolon,
         OnewayMethodRule(rhs, begin, end, semicolon)
  PROVE  Side(rhs, v) =
           (((<<"ONEWAY">> \o Text(TypeMarks(v[2]))) \o <<file[v[3]], begin>>) \o ArgsText(v[5]))
             \o <<end, semicolon>>
<1>1. /\ Len(rhs) = 7 /\ 1 \in 1..Len(rhs) /\ 2 \in 1..Len(rhs) /\ 3 \in 1..Len(rhs)
      /\ 4 \in 1..Len(rhs) /\ 5 \in 1..Len(rhs) /\ 6 \in 1..Len(rhs) /\ 7 \in 1..Len(rhs)
      /\ rhs[1] = "ONEWAY" /\ rhs[2] = "type" /\ rhs[3] = "IDENTIFIER" /\ rhs[4] = begin
      /\ rhs[5] = "arg_list" /\ rhs[6] = end /\ rhs[7] = semicolon
  BY DEF OnewayMethodRule
<1>2. begin \in Words /\ end \in Words /\ semicolon \in Words
  BY DEF OnewayMethodRule
<1>3. v[3] \in Nat /\ Said(rhs, v, 3) = <<file[v[3]]>>
  BY <1>1, NamesAre, SaidName
<1>4. "ONEWAY" \in Words
  BY WordsAre, Zenon
<1>5. /\ Said(rhs, v, 1) = <<"ONEWAY">> /\ Said(rhs, v, 4) = <<begin>>
      /\ Said(rhs, v, 6) = <<end>> /\ Said(rhs, v, 7) = <<semicolon>>
  BY <1>1, <1>2, <1>4, SaidWord
<1>6. Said(rhs, v, 2) = Spelling("type", v[2]) /\ Said(rhs, v, 5) = Spelling("arg_list", v[5])
  BY <1>1, SaidAs
<1>7. /\ Spelling("type", v[2]) = Text(TypeMarks(v[2]))
      /\ Spelling("arg_list", v[5]) = ArgsText(v[5])
  BY SpellingParts, Zenon
<1>8. Said(rhs, v, 1) \in Seq(Letters) /\ Said(rhs, v, 2) \in Seq(Letters)
      /\ Said(rhs, v, 5) \in Seq(Letters)
  BY <1>1, SideTyped
<1>9. PICK type \in Seq(Letters), args \in Seq(Letters) :
        type = Said(rhs, v, 1) \o Said(rhs, v, 2) /\ args = Said(rhs, v, 5)
  BY <1>8, TextsJoined, Zenon
<1>10. PICK name \in Letters, open \in Letters, close \in Letters, last \in Letters :
        name = file[v[3]] /\ open = begin /\ close = end /\ last = semicolon
  BY <1>2, <1>3, WordOf, WordsAre, Zenon
<1>11. (type \o <<name>>) \o <<open>> = type \o <<name, open>>
  BY WordsOf, Zenon
<1>12. PICK before \in Seq(Letters) : before = (type \o <<name, open>>) \o args
  <2>1. <<name, open>> \in Seq(Letters)
    BY WordsOf, Zenon
  <2>2. type \o <<name, open>> \in Seq(Letters)
    BY <2>1, TextsJoined, Zenon
  <2>3. QED
    BY <2>2, TextsJoined, Zenon
<1>13. (before \o <<close>>) \o <<last>> = before \o <<close, last>>
  BY WordsOf, Zenon
<1>14. Side(rhs, v) = (((((Said(rhs, v, 1) \o Said(rhs, v, 2)) \o Said(rhs, v, 3))
                         \o Said(rhs, v, 4)) \o Said(rhs, v, 5)) \o Said(rhs, v, 6))
                        \o Said(rhs, v, 7)
  BY <1>1, LongSideOf, Zenon
<1>15. Side(rhs, v) = (before \o <<close>>) \o <<last>>
  BY <1>3, <1>5, <1>9, <1>10, <1>11, <1>12, <1>14
<1>16. <<"ONEWAY">> \o Text(TypeMarks(v[2])) = type /\ ArgsText(v[5]) = args
  BY <1>5, <1>6, <1>7, <1>9
<1>17. QED
  BY <1>10, <1>12, <1>13, <1>15, <1>16, Zenon

LEMMA SpelledMethod ==
  ASSUME NEW rhs, NEW v, Stand(rhs, v), Noted
  PROVE  /\ rhs = <<"type", "IDENTIFIER", "(", "arg_list", ")", ";">> =>
              Spelling("method_decl", Method(FALSE, v[1], v[2], v[4])) = Side(rhs, v)
         /\ rhs = <<"ONEWAY", "type", "IDENTIFIER", "(", "arg_list", ")", ";">> =>
              Spelling("method_decl", Method(TRUE, v[2], v[3], v[5])) = Side(rhs, v)
<1>1. "(" \in Words /\ ")" \in Words /\ ";" \in Words
  BY WordsAre, Zenon
<1>2. ASSUME NEW begin, NEW end, NEW semicolon, MethodRule(rhs, begin, end, semicolon)
      PROVE  /\ Text(TypeMarks(v[1])) \in Seq(Letters)
             /\ Side(rhs, v) =
                  ((Text(TypeMarks(v[1])) \o <<file[v[2]], begin>>) \o ArgsText(v[4]))
                    \o <<end, semicolon>>
  BY <1>2, MethodSide
<1>3. ASSUME NEW begin, NEW end, NEW semicolon, OnewayMethodRule(rhs, begin, end, semicolon)
       PROVE  Side(rhs, v) =
                (((<<"ONEWAY">> \o Text(TypeMarks(v[2]))) \o <<file[v[3]], begin>>)
                   \o ArgsText(v[5])) \o <<end, semicolon>>
  BY <1>3, OnewayMethodSide
<1>4. PICK m : m = Method(FALSE, v[1], v[2], v[4])
  BY Zenon
<1>5. PICK n : n = Method(TRUE, v[2], v[3], v[5])
  BY Zenon
<1>6. /\ m.oneway = FALSE /\ m.type = v[1] /\ m.name = v[2] /\ m.args = v[4]
      /\ n.oneway = TRUE /\ n.type = v[2] /\ n.name = v[3] /\ n.args = v[5]
  BY <1>4, <1>5 DEF Method
<1>7. Spelling("method_decl", m) = MethodText(m) /\ Spelling("method_decl", n) = MethodText(n)
  BY SpellingParts, Zenon
<1>8. ASSUME rhs = <<"type", "IDENTIFIER", "(", "arg_list", ")", ";">>
      PROVE  Spelling("method_decl", m) = Side(rhs, v)
  <2>1. /\ Text(TypeMarks(v[1])) \in Seq(Letters)
        /\ Side(rhs, v) = ((Text(TypeMarks(v[1])) \o <<file[v[2]], "(">>) \o ArgsText(v[4]))
                            \o <<")", ";">>
    <3>1. MethodRule(rhs, "(", ")", ";")
      BY <1>1, <1>8, Zenon DEF MethodRule
    <3>2. QED
      BY <1>2, <3>1, Zenon
  <2>2. MethodText(m) = (((<<>> \o Text(TypeMarks(v[1]))) \o <<file[v[2]], "(">>) \o ArgsText(v[4]))
                          \o <<")", ";">>
    <3>1. PICK first : first = IF m.oneway THEN <<"ONEWAY">> ELSE <<>>
      BY Zenon
    <3>2. first = <<>>
      BY <1>6, <3>1, Zenon
    <3>3. MethodText(m) = (((first \o Text(TypeMarks(m.type))) \o <<file[m.name], "(">>)
                            \o ArgsText(m.args)) \o <<")", ";">>
      BY <3>1, Zenon DEF MethodText
    <3>4. QED
      BY <1>6, <3>2, <3>3, Zenon
  <2>3. <<>> \o Text(TypeMarks(v[1])) = Text(TypeMarks(v[1]))
    BY <2>1, TextsJoined, Zenon
  <2>4. QED
    BY <1>7, <2>1, <2>2, <2>3, Zenon
<1>9. ASSUME rhs = <<"ONEWAY", "type", "IDENTIFIER", "(", "arg_list", ")", ";">>
      PROVE  Spelling("method_decl", n) = Side(rhs, v)
  <2>1. Side(rhs, v) =
          (((<<"ONEWAY">> \o Text(TypeMarks(v[2]))) \o <<file[v[3]], "(">>) \o ArgsText(v[5]))
            \o <<")", ";">>
    <3>1. OnewayMethodRule(rhs, "(", ")", ";")
      BY <1>1, <1>9, Zenon DEF OnewayMethodRule
    <3>2. QED
      BY <1>3, <3>1, Zenon
  <2>2. MethodText(n) =
          (((<<"ONEWAY">> \o Text(TypeMarks(v[2]))) \o <<file[v[3]], "(">>) \o ArgsText(v[5]))
            \o <<")", ";">>
    <3>1. PICK first : first = IF n.oneway THEN <<"ONEWAY">> ELSE <<>>
      BY Zenon
    <3>2. first = <<"ONEWAY">>
      BY <1>6, <3>1, Zenon
    <3>3. MethodText(n) = (((first \o Text(TypeMarks(n.type))) \o <<file[n.name], "(">>)
                            \o ArgsText(n.args)) \o <<")", ";">>
      BY <3>1, Zenon DEF MethodText
    <3>4. QED
      BY <1>6, <3>2, <3>3, Zenon
  <2>3. QED
    BY <1>7, <2>1, <2>2, Zenon
<1>10. QED
  BY <1>4, <1>5, <1>8, <1>9, Zenon

\* "interface_items : interface_items method_decl" and
\* "document_items : document_items declaration"
Appended(v) == IF v[2] = Absent THEN v[1] ELSE Append(v[1], v[2])

\* and a list of methods or of declarations with one more.
LEMMA SpelledItems ==
  ASSUME NEW rhs, NEW v, Stand(rhs, v), Noted, Len(rhs) = 2
  PROVE  /\ rhs[1] = "interface_items" /\ rhs[2] = "method_decl" =>
              Spelling("interface_items", Appended(v)) = Side(rhs, v)
         /\ rhs[1] = "document_items" /\ rhs[2] = "declaration" =>
              Spelling("document_items", Appended(v)) = Side(rhs, v)
<1>1. 1 \in 1..Len(rhs) /\ 2 \in 1..Len(rhs)
  OBVIOUS
<1>2. Side(rhs, v) = Said(rhs, v, 1) \o Said(rhs, v, 2)
  BY SideOf, Zenon
<1>3. ASSUME rhs[1] = "interface_items", rhs[2] = "method_decl"
      PROVE  Spelling("interface_items", Appended(v)) = Side(rhs, v)
  <2>1. Means("interface_items", v[1]) /\ Means("method_decl", v[2])
    BY <1>1, <1>3, StandsFor
  <2>2. v[1] \in Seq(MethodNode) /\ v[2] \in MethodNode
    BY <2>1, MeansMethods, MeansMethod, Zenon
  <2>3. v[2].kind = "method" /\ Absent.kind = "null"
    BY <2>2 DEF MethodNode, Absent
  <2>4. Appended(v) = Append(v[1], v[2])
    BY <2>3 DEF Appended
  <2>5. MethodsText(Append(v[1], v[2])) = MethodsText(v[1]) \o MethodText(v[2])
    BY <2>2, MethodsTextMore, Zenon
  <2>6. /\ Said(rhs, v, 1) = Spelling("interface_items", v[1])
        /\ Said(rhs, v, 2) = Spelling("method_decl", v[2])
    BY <1>3, SaidAs
  <2>7. QED
    BY <1>2, <2>4, <2>5, <2>6, SpellingParts, Zenon
<1>4. ASSUME rhs[1] = "document_items", rhs[2] = "declaration"
      PROVE  Spelling("document_items", Appended(v)) = Side(rhs, v)
  <2>1. Means("document_items", v[1]) /\ Means("declaration", v[2])
    BY <1>1, <1>4, StandsFor
  <2>2. "declaration" \in DeclarationSymbols
    BY DEF DeclarationSymbols
  <2>3. v[2] # Absent
    BY <1>1, <1>4, <2>2, StandsFor
  <2>4. v[1] \in Seq(ItemNode) /\ v[2] \in ItemNode
    BY <2>1, <2>2, <2>3, MeansItems, MeansDeclaration, Zenon
  <2>5. Appended(v) = Append(v[1], v[2])
    BY <2>3 DEF Appended
  <2>6. ItemsText(Append(v[1], v[2])) = ItemsText(v[1]) \o ItemText(v[2])
    BY <2>4, ItemsTextMore, Zenon
  <2>7. /\ Said(rhs, v, 1) = Spelling("document_items", v[1])
        /\ Said(rhs, v, 2) = Spelling("declaration", v[2])
    BY <1>4, SaidAs
  <2>8. /\ Spelling("document_items", Appended(v)) = ItemsText(Appended(v))
        /\ Said(rhs, v, 1) = ItemsText(v[1]) /\ Said(rhs, v, 2) = ItemText(v[2])
    BY <2>2, <2>7, SpellingItems, Zenon
  <2>9. QED
    BY <1>2, <2>5, <2>6, <2>8, Zenon
<1>5. QED
  BY <1>3, <1>4

\* A value handed on.
LEMMA SpelledFirst ==
  ASSUME NEW rhs, NEW v, Stand(rhs, v), Noted, Len(rhs) = 1
  PROVE  /\ rhs[1] \in DeclarationSymbols => Spelling("declaration", v[1]) = Side(rhs, v)
         /\ rhs[1] \in {"IN", "OUT", "INOUT"} => Spelling("direction", v[1]) = Side(rhs, v)
<1>1. 1 \in 1..Len(rhs)
  OBVIOUS
<1>2. Side(rhs, v) = Said(rhs, v, 1)
  BY SideOf, Zenon
<1>3. ASSUME rhs[1] \in DeclarationSymbols PROVE Spelling("declaration", v[1]) = Side(rhs, v)
  <2>1. Said(rhs, v, 1) = Spelling(rhs[1], v[1])
    BY Zenon DEF Said
  <2>2. Spelling(rhs[1], v[1]) = ItemText(v[1]) /\ Spelling("declaration", v[1]) = ItemText(v[1])
    BY <1>3, SpellingItems, Zenon DEF DeclarationSymbols
  <2>3. QED
    BY <1>2, <2>1, <2>2
<1>4. ASSUME rhs[1] \in {"IN", "OUT", "INOUT"} PROVE Spelling("direction", v[1]) = Side(rhs, v)
  <2>1. rhs[1] \in Naming
    BY <1>4, NamesAre
  <2>2. v[1] # 0 /\ Said(rhs, v, 1) = <<file[v[1]]>>
    BY <1>1, <2>1, SaidName
  <2>3. Spelling("direction", v[1]) = <<file[v[1]]>>
    BY <2>2, SpellingParts, Zenon
  <2>4. QED
    BY <1>2, <2>2, <2>3
<1>5. QED
  BY <1>3, <1>4

\* The headers: "package" and what came before the items.
LEMMA SpelledHeaders ==
  ASSUME NEW rhs, NEW v, Stand(rhs, v), Noted, NEW w
  PROVE  /\ rhs = <<"PACKAGE">> => Spelling("package", w) = Side(rhs, v)
         /\ rhs = <<"package">> /\ package # 0 /\ gImports = <<>> =>
              Spelling("headers", w) = Side(rhs, v)
         /\ rhs = <<"imports">> /\ package = 0 => Spelling("headers", w) = Side(rhs, v)
         /\ rhs = <<"package", "imports">> /\ package # 0 => Spelling("headers", w) = Side(rhs, v)
<1>1. /\ Spelling("headers", w) = PackageText \o Text(gImports)
      /\ Spelling("package", w) = <<"PACKAGE">>
  BY SpellingHeaders, Zenon
<1>2. /\ Text(gImports) \in Seq(Letters) /\ PackageText \in Seq(Letters)
      /\ PackageText \o <<>> = PackageText /\ <<>> \o Text(gImports) = Text(gImports)
  BY HeadersTyped, TextsJoined, Zenon
<1>3. /\ package # 0 => PackageText = <<"PACKAGE">>
      /\ package = 0 => PackageText = <<>>
      /\ gImports = <<>> => Text(gImports) = <<>>
  BY TextFew, Zenon DEF PackageText
<1>4. ASSUME NEW x, rhs = <<x>>
      PROVE  Side(rhs, v) = Spelling(x, v[1])
  <2>1. Len(rhs) = 1 /\ rhs[1] = x
    BY <1>4
  <2>2. Said(rhs, v, 1) = Spelling(x, v[1])
    BY <2>1, SaidAs
  <2>3. QED
    BY <2>1, <2>2, SideOf, Zenon
<1>5. ASSUME rhs = <<"package", "imports">>
      PROVE  Side(rhs, v) = <<"PACKAGE">> \o Text(gImports)
  <2>1. Len(rhs) = 2 /\ rhs[1] = "package" /\ rhs[2] = "imports"
    BY <1>5
  <2>2. Said(rhs, v, 1) = Spelling("package", v[1]) /\ Said(rhs, v, 2) = Spelling("imports", v[2])
    BY <2>1, SaidAs
  <2>3. Spelling("package", v[1]) = <<"PACKAGE">> /\ Spelling("imports", v[2]) = Text(gImports)
    BY SpellingHeaders, Zenon
  <2>4. Side(rhs, v) = Said(rhs, v, 1) \o Said(rhs, v, 2)
    BY <2>1, SideOf, Zenon
  <2>5. QED
    BY <2>2, <2>3, <2>4
<1>6. rhs = <<"PACKAGE">> => Side(rhs, v) = <<"PACKAGE">>
  <2>1. Spelling("PACKAGE", v[1]) = <<"PACKAGE">>
    BY WordsAre, SpellingToken, Zenon DEF Words
  <2>2. QED
    BY <1>4, <2>1, Zenon
<1>7. /\ rhs = <<"package">> => Side(rhs, v) = <<"PACKAGE">>
      /\ rhs = <<"imports">> => Side(rhs, v) = Text(gImports)
  BY <1>4, SpellingHeaders, Zenon
<1>8. QED
  BY <1>1, <1>2, <1>3, <1>5, <1>6, <1>7, Zenon

\* What an action takes without a trace.
Traceless(does, rhs, v) ==
  does = "null" \/ (does = "append_arg" /\ v[1] = <<>>)

\* The package and the imports are where the headers are.
HeadersThere(rhs) ==
  /\ rhs = <<"package">> => package # 0 /\ gImports = <<>>
  /\ rhs = <<"imports">> => package = 0
  /\ rhs = <<"package", "imports">> => package # 0

\* Every other action keeps the text of what it is made of.
LEMMA SpelledValue ==
  ASSUME NEW lhs, NEW rhs, NEW does, RuleTyped(lhs, rhs, does), RuleSpelled(lhs, rhs, does),
         lhs \notin {"accept", "interface_keywords"}, NEW v, Stand(rhs, v), Noted,
         does \notin {"import", "document"}, ~Traceless(does, rhs, v), HeadersThere(rhs)
  PROVE  Spelling(lhs, Value(does, v)) = Side(rhs, v)
<1> DEFINE value == Value(does, v)
<1> HIDE DEF value
<1>1. CASE does = "nothing"
  <2>1. \/ lhs = "headers" /\ rhs \in {<<"package">>, <<"imports">>, <<"package", "imports">>}
        \/ lhs = "package" /\ rhs = <<"PACKAGE">>
    BY <1>1, Zenon DEF RuleSpelled
  <2>2. \A w : Spelling(lhs, w) = Side(rhs, v)
    BY <2>1, SpelledHeaders, Zenon DEF HeadersThere
  <2>3. QED
    BY <2>2, Zenon
<1>2. CASE does = "no_items"
  <2>1. lhs \in {"document_items", "interface_items", "arg_list"} /\ rhs = <<>>
    BY <1>2, Zenon DEF RuleTyped, RuleSpelled
  <2>2. value = <<>>
    BY <1>2, ValueIs, Zenon DEF value
  <2>3. Side(rhs, v) = <<>>
    <3>1. Len(rhs) = 0
      BY <2>1
    <3>2. QED
      BY <3>1, SideOf, Zenon
  <2>4. Spelling(lhs, <<>>) = <<>>
    BY <2>1, NoText, SpellingParts, SpellingItems, Zenon
  <2>5. QED
    BY <2>2, <2>3, <2>4, Zenon DEF value
<1>3. CASE does = "append_item"
  <2>1. value = Appended(v)
    BY <1>3, ValueIs, Zenon DEF value, Appended
  <2>2. Len(rhs) = 2
    BY <1>3, Zenon DEF RuleSpelled
  <2>3. \/ lhs = "document_items" /\ rhs[1] = "document_items" /\ rhs[2] = "declaration"
        \/ lhs = "interface_items" /\ rhs[1] = "interface_items" /\ rhs[2] = "method_decl"
    BY <1>3, Zenon DEF RuleTyped
  <2>4. QED
    BY <2>1, <2>2, <2>3, SpelledItems, Zenon DEF value
<1>4. CASE does = "first"
  <2>1. value = v[1]
    BY <1>4, ValueIs, Zenon DEF value
  <2>2. Len(rhs) = 1 /\ lhs \in {"declaration", "direction"}
    BY <1>4, Zenon DEF RuleSpelled
  <2>3. lhs = "direction" => rhs[1] \in {"IN", "OUT", "INOUT"}
    BY <1>4, Zenon DEF RuleSpelled
  <2>4. lhs = "declaration" => rhs[1] \in DeclarationSymbols
    BY <1>4, Zenon DEF RuleTyped, DeclarationSymbols
  <2>5. QED
    BY <2>1, <2>2, <2>3, <2>4, SpelledFirst, Zenon DEF value
<1>5. CASE does \in {"parcelable", "flattenable"}
  <2>1. value = [kind |-> does, name |-> v[2], package |-> package]
    BY <1>5, ValueIs, Zenon DEF value
  <2>2. lhs = "parcelable_decl"
    BY <1>5, Zenon DEF RuleTyped
  <2>3. /\ does = "parcelable" => rhs = <<"PARCELABLE", "IDENTIFIER", ";">>
        /\ does = "flattenable" => rhs = <<"FLATTENABLE", "IDENTIFIER", ";">>
    BY Zenon DEF RuleSpelled
  <2>4. QED
    BY <1>5, <2>1, <2>2, <2>3, SpelledParcelable, Zenon DEF value
<1>6. CASE does \in {"binder", "oneway_binder", "rpc"}
  <2>1. value = does
    BY <1>6, ValueIs, Zenon DEF value
  <2>2. lhs = "interface_header"
    BY <1>6, Zenon DEF RuleTyped
  <2>3. /\ does = "binder" => rhs = <<"INTERFACE">>
        /\ does = "oneway_binder" => rhs = <<"ONEWAY", "INTERFACE">>
        /\ does = "rpc" => rhs = <<"RPC">>
    BY Zenon DEF RuleSpelled
  <2>4. QED
    BY <1>6, <2>1, <2>2, <2>3, SpelledHeader, Zenon DEF value
<1>7. CASE does = "interface"
  <2>1. value = [kind |-> v[1], name |-> v[2], package |-> package, items |-> v[4]]
    BY <1>7, ValueIs, Zenon DEF value
  <2>2. lhs = "interface_decl"
    BY <1>7, Zenon DEF RuleTyped
  <2>3. rhs = <<"interface_header", "IDENTIFIER", "{", "interface_items", "}">>
    BY <1>7, Zenon DEF RuleSpelled
  <2>4. QED
    BY <2>1, <2>2, <2>3, SpelledInterface, Zenon DEF value
<1>8. CASE does = "method"
  <2>1. value = Method(FALSE, v[1], v[2], v[4])
    BY <1>8, ValueIs, Zenon DEF value
  <2>2. lhs = "method_decl"
    BY <1>8, Zenon DEF RuleTyped
  <2>3. rhs = <<"type", "IDENTIFIER", "(", "arg_list", ")", ";">>
    BY <1>8, Zenon DEF RuleSpelled
  <2>4. QED
    BY <2>1, <2>2, <2>3, SpelledMethod, Zenon DEF value
<1>9. CASE does = "oneway_method"
  <2>1. value = Method(TRUE, v[2], v[3], v[5])
    BY <1>9, ValueIs, Zenon DEF value
  <2>2. lhs = "method_decl"
    BY <1>9, Zenon DEF RuleTyped
  <2>3. rhs = <<"ONEWAY", "type", "IDENTIFIER", "(", "arg_list", ")", ";">>
    BY <1>9, Zenon DEF RuleSpelled
  <2>4. QED
    BY <2>1, <2>2, <2>3, SpelledMethod, Zenon DEF value
<1>10. CASE does = "one_arg"
  <2>1. value = <<v[1]>>
    BY <1>10, ValueIs, Zenon DEF value
  <2>2. lhs = "arg_list" /\ rhs = <<"arg">>
    BY <1>10, Zenon DEF RuleTyped, RuleSpelled
  <2>3. QED
    BY <2>1, <2>2, SpelledArgs, Zenon DEF value
<1>11. CASE does = "append_arg"
  <2>1. value = AppendArg(v[1], v[3])
    BY <1>11, ValueIs, Zenon DEF value
  <2>2. lhs = "arg_list" /\ rhs = <<"arg_list", ",", "arg">>
    BY <1>11, Zenon DEF RuleTyped, RuleSpelled
  <2>3. v[1] # <<>>
    BY <1>11, Zenon DEF Traceless
  <2>4. QED
    BY <2>1, <2>2, <2>3, SpelledArgs, Zenon DEF value
<1>12. CASE does = "arg"
  <2>1. value = [direction |-> v[1], type |-> v[2], name |-> v[3]]
    BY <1>12, ValueIs, Zenon DEF value
  <2>2. lhs = "arg" /\ rhs = <<"direction", "type", "IDENTIFIER">>
    BY <1>12, Zenon DEF RuleTyped, RuleSpelled
  <2>3. QED
    BY <2>1, <2>2, SpelledArg, Zenon DEF value
<1>13. CASE does = "no_direction"
  <2>1. value = 0
    BY <1>13, ValueIs, Zenon DEF value
  <2>2. lhs = "direction" /\ rhs = <<>>
    BY <1>13, Zenon DEF RuleTyped, RuleSpelled
  <2>3. Len(rhs) = 0
    BY <2>2
  <2>4. QED
    BY <2>1, <2>2, <2>3, SideOf, SpellingParts, Zenon DEF value
<1>14. CASE does = "plain"
  <2>1. value = [type |-> v[1], array |-> 0]
    BY <1>14, ValueIs, Zenon DEF value
  <2>2. lhs = "type"
    BY <1>14, Zenon DEF RuleTyped
  <2>3. rhs \in {<<"IDENTIFIER">>, <<"GENERIC">>}
    BY <1>14, Zenon DEF RuleSpelled
  <2>4. QED
    BY <2>1, <2>2, <2>3, SpelledType, Zenon DEF value
<1>15. CASE does = "array"
  <2>1. value = [type |-> v[1], array |-> v[2]]
    BY <1>15, ValueIs, Zenon DEF value
  <2>2. lhs = "type"
    BY <1>15, Zenon DEF RuleTyped
  <2>3. rhs \in {<<"IDENTIFIER", "ARRAY">>, <<"IDENTIFIER", "*">>}
    BY <1>15, Zenon DEF RuleSpelled
  <2>4. QED
    BY <2>1, <2>2, <2>3, SpelledType, Zenon DEF value
<1>16. does \in
         {"accept", "nothing", "document", "import", "no_items", "append_item", "first", "null",
          "parcelable", "flattenable", "binder", "oneway_binder", "rpc", "interface", "method",
          "oneway_method", "one_arg", "append_arg", "arg", "no_direction", "plain", "array"}
  BY Zenon DEF RuleTyped
<1>17. does \notin {"accept", "document", "import", "null"}
  <2>1. does # "accept"
    BY Zenon DEF RuleSpelled
  <2>2. QED
    BY <2>1, Zenon DEF Traceless
<1>18. QED
  BY <1>1, <1>2, <1>3, <1>4, <1>5, <1>6, <1>7, <1>8, <1>9, <1>10, <1>11, <1>12, <1>13, <1>14,
     <1>15, <1>16, <1>17, Zenon

-----------------------------------------------------------------------------
(* What is written of a file.                                              *)

\* The condition the scanner is in after a lexeme.
LEMMA WithinTyped ==
  ASSUME NEW k, NEW state \in LexStates
  PROVE  Within(k, state) \in LexStates /\ WithinStep(k)[state] = Within(k, state)
<1>1. Within(k, state) \in LexStates
  BY Zenon DEF Within, LexStates
<1>2. QED
  BY <1>1 DEF WithinStep

Withins(f) == f = [k \in 0..Len(file) |-> IF k = 0 THEN started ELSE WithinStep(k)[f[k - 1]]]

\* What each lexeme leaves the file within.
LEMMA WithinUptoIs ==
  ASSUME file \in Files, started \in LexStates
  PROVE  /\ WithinUpto[0] = started /\ \A k \in 0..Len(file) : WithinUpto[k] \in LexStates
         /\ \A k \in 1..Len(file) : WithinUpto[k] = Within(k, WithinUpto[k - 1])
<1> DEFINE step == [k \in 1..Len(file) |-> WithinStep(k)]
<1>1. Len(file) \in Nat
  BY FileTyped
<1>2. step \in [1..Len(file) -> [LexStates -> LexStates]]
  <2>1. ASSUME NEW k \in 1..Len(file) PROVE WithinStep(k) \in [LexStates -> LexStates]
    <3>1. \A state \in LexStates : WithinStep(k)[state] \in LexStates
      BY WithinTyped
    <3>2. QED
      BY <3>1 DEF WithinStep
  <2>2. QED
    BY <2>1
<1>3. \A k \in 1..Len(file) : step[k] = WithinStep(k)
  OBVIOUS
<1> HIDE DEF step
<1>4. PICK h : /\ h \in [0..Len(file) -> LexStates] /\ h[0] = started
               /\ \A k \in 1..Len(file) : h[k] = WithinStep(k)[h[k - 1]]
  <2>1. PICK n \in Nat : n = Len(file)
    BY <1>1
  <2>2. PICK base \in LexStates : base = started
    OBVIOUS
  <2>3. PICK steps \in [1..n -> [LexStates -> LexStates]] : steps = step
    BY <1>2, <2>1
  <2>4. PICK h : Steps(h, n, LexStates, base, steps)
    BY Recursion
  <2>5. QED
    BY <1>3, <2>1, <2>2, <2>3, <2>4 DEF Steps
<1>5. Withins(h)
  <2>1. \A k \in 0..Len(file) : k # 0 => k \in 1..Len(file)
    BY <1>1
  <2>2. QED
    BY <1>4, <2>1 DEF Withins
<1>6. PICK f : Withins(f) /\ WithinUpto = f
  <2>1. WithinUpto = CHOOSE f : Withins(f)
    BY Zenon DEF WithinUpto, Withins
  <2>2. QED
    BY <1>5, <2>1, Zenon
<1>7. /\ f[0] = started
      /\ \A k \in 1..Len(file) : f[k] = WithinStep(k)[f[k - 1]]
  <2>1. \A k \in 0..Len(file) : f[k] = IF k = 0 THEN started ELSE WithinStep(k)[f[k - 1]]
    BY <1>6, Zenon DEF Withins
  <2>2. 0 \in 0..Len(file) /\ \A k \in 1..Len(file) : k \in 0..Len(file) /\ k # 0
    BY <1>1
  <2>3. QED
    BY <2>1, <2>2
<1>8. \A k \in 0..Len(file) : f[k] \in LexStates
  <2> DEFINE N == {n \in Nat : n <= Len(file) => f[n] \in LexStates}
  <2>1. 0 \in N
    BY <1>7
  <2>2. ASSUME NEW n \in N PROVE n + 1 \in N
    <3>1. SUFFICES ASSUME n + 1 <= Len(file) PROVE f[n + 1] \in LexStates
      OBVIOUS
    <3>2. PICK k \in 1..Len(file) : k = n + 1 /\ k - 1 = n
      BY <1>1, <3>1
    <3>3. f[k - 1] \in LexStates
      BY <1>1, <3>1, <3>2
    <3>4. f[k] \in LexStates
      BY <1>7, <3>3, WithinTyped
    <3>5. QED
      BY <3>2, <3>4
  <2>3. N = Nat
    <3>1. N \in SUBSET Nat
      OBVIOUS
    <3> HIDE DEF N
    <3>2. QED
      BY <2>1, <2>2, <3>1, AllNumbers
  <2>4. QED
    BY <1>1, <2>3
<1>9. \A k \in 1..Len(file) : k - 1 \in 0..Len(file)
  BY <1>1
<1>10. QED
  BY <1>6, <1>7, <1>8, <1>9, WithinTyped

\* No block to copy ends before the file does.
Uncopied == ~\E k \in 1..(Len(file) - 1) : file[k] = "}%%" /\ WithinUpto[k - 1] = "COPYING"

\* An end of a block is of no effect unless a block is open: the contract says so too.
LEMMA WithinScanned ==
  ASSUME NEW k \in 1..Len(file), file \in Files, NEW state \in LexStates,
         state = "COPYING" /\ file[k] = "}%%" => k = Len(file)
  PROVE  Within(k, state) = Scanned(k, state)
<1>1. CASE state = "INITIAL"
  BY <1>1, Zenon DEF Within, Scanned
<1>2. CASE state = "LONG_COMMENT"
  BY <1>2, Zenon DEF Within, Scanned
<1>3. CASE state = "COPYING"
  BY <1>3, Zenon DEF Within, Scanned
<1>4. QED
  BY <1>1, <1>2, <1>3, Zenon DEF LexStates

\* Then the scanner takes for a token what is written, no more and no less.
LEMMA WithinIs ==
  ASSUME file \in Files, started \in LexStates, Uncopied, NEW h, Scanning(h)
  PROVE  \A k \in 0..Len(file) : WithinUpto[k] = h[k]
<1>1. Len(file) \in Nat
  BY FileTyped
<1>2. h[0] = started /\ \A q \in 1..Len(file) : h[q] = Scanned(q, h[q - 1])
  BY Zenon DEF Scanning
<1> DEFINE N == {n \in Nat : n <= Len(file) => WithinUpto[n] = h[n]}
<1>3. 0 \in N
  BY <1>2, WithinUptoIs
<1>4. ASSUME NEW n \in N PROVE n + 1 \in N
  <2>1. SUFFICES ASSUME n + 1 <= Len(file) PROVE WithinUpto[n + 1] = h[n + 1]
    OBVIOUS
  <2>2. PICK k \in 1..Len(file) : k = n + 1 /\ k - 1 = n
    BY <1>1, <2>1
  <2>3. WithinUpto[k - 1] = h[k - 1] /\ WithinUpto[k - 1] \in LexStates
    BY <1>1, <2>1, <2>2, WithinUptoIs
  <2>4. WithinUpto[k - 1] = "COPYING" /\ file[k] = "}%%" => k = Len(file)
    <3>1. k # Len(file) => k \in 1..(Len(file) - 1)
      BY <1>1
    <3>2. QED
      BY <3>1, Zenon DEF Uncopied
  <2>5. Within(k, WithinUpto[k - 1]) = Scanned(k, WithinUpto[k - 1])
    BY <2>3, <2>4, WithinScanned
  <2>6. WithinUpto[k] = h[k]
    BY <1>2, <2>3, <2>5, WithinUptoIs
  <2>7. QED
    BY <2>2, <2>6
<1>5. N = Nat
  <2>1. N \in SUBSET Nat
    OBVIOUS
  <2> HIDE DEF N
  <2>2. QED
    BY <1>3, <1>4, <2>1, AllNumbers
<1>6. QED
  BY <1>1, <1>5

\* One lexeme more.
LEMMA WrittenGrows ==
  ASSUME NEW n \in Nat
  PROVE  /\ WrittenUpto(0) = <<>> /\ WrittenUpto(n) \in Seq(Nat)
         /\ WrittenUpto(n + 1) = WrittenUpto(n) \o (IF IsWritten(n + 1) THEN <<n + 1>> ELSE <<>>)
<1>1. PICK parts : parts = [k \in 1..(n + 1) |-> IF IsWritten(k) THEN <<k>> ELSE <<>>]
  OBVIOUS
<1>2. \A k \in 1..(n + 1) : parts[k] = (IF IsWritten(k) THEN <<k>> ELSE <<>>)
  BY <1>1
<1>3. \A k \in 1..(n + 1) : parts[k] \in Seq(Nat)
  <2>1. ASSUME NEW k \in 1..(n + 1) PROVE <<k>> \in Seq(Nat) /\ <<>> \in Seq(Nat)
    OBVIOUS
  <2>2. QED
    BY <1>2, <2>1
<1>4. WrittenUpto(n) = FlattenSeq(Leading(parts, n))
  <2>1. [k \in 1..n |-> IF IsWritten(k) THEN <<k>> ELSE <<>>] = Leading(parts, n)
    BY <1>2 DEF Leading
  <2>2. QED
    BY <2>1 DEF WrittenUpto
<1>5. WrittenUpto(n + 1) = FlattenSeq(Leading(parts, n + 1))
  <2>1. [k \in 1..(n + 1) |-> IF IsWritten(k) THEN <<k>> ELSE <<>>] = Leading(parts, n + 1)
    BY <1>2 DEF Leading
  <2>2. QED
    BY <2>1 DEF WrittenUpto
<1>6. WrittenUpto(0) = <<>>
  <2>1. [k \in 1..0 |-> IF IsWritten(k) THEN <<k>> ELSE <<>>] = <<>>
    OBVIOUS
  <2>2. QED
    BY <2>1, FlattenNothing, Zenon DEF WrittenUpto
<1>7. /\ FlattenSeq(Leading(parts, n)) \in Seq(Nat)
      /\ FlattenSeq(Leading(parts, n + 1)) = FlattenSeq(Leading(parts, n)) \o parts[n + 1]
  BY <1>3, FlattenGrows
<1>8. n + 1 \in 1..(n + 1)
  OBVIOUS
<1>9. QED
  BY <1>2, <1>4, <1>5, <1>6, <1>7, <1>8, Zenon

\* Nothing more.
LEMMA WrittenStays ==
  ASSUME NEW m \in Nat, NEW n \in Nat, m <= n, \A k \in (m + 1)..n : ~IsWritten(k)
  PROVE  WrittenUpto(n) = WrittenUpto(m)
<1> DEFINE N == {d \in Nat : m + d <= n => WrittenUpto(m + d) = WrittenUpto(m)}
<1>1. 0 \in N
  <2>1. m + 0 = m
    OBVIOUS
  <2>2. QED
    BY <2>1
<1>2. ASSUME NEW d \in N PROVE d + 1 \in N
  <2>1. SUFFICES ASSUME m + (d + 1) <= n PROVE WrittenUpto(m + (d + 1)) = WrittenUpto(m)
    OBVIOUS
  <2>2. PICK k \in Nat : k = m + d
    OBVIOUS
  <2>3. m + (d + 1) = k + 1 /\ k + 1 \in (m + 1)..n
    BY <2>1, <2>2
  <2>4. WrittenUpto(k) = WrittenUpto(m)
    BY <2>1, <2>2
  <2>5. WrittenUpto(k + 1) = WrittenUpto(k) \o <<>> /\ WrittenUpto(k) \in Seq(Nat)
    BY <2>3, WrittenGrows
  <2>6. WrittenUpto(k) \o <<>> = WrittenUpto(k)
    BY <2>5, ConcatEmptySeq
  <2>7. QED
    BY <2>3, <2>4, <2>5, <2>6
<1>3. N = Nat
  <2>1. N \in SUBSET Nat
    OBVIOUS
  <2> HIDE DEF N
  <2>2. QED
    BY <1>1, <1>2, <2>1, AllNumbers
<1>4. PICK d \in Nat : m + d = n
  <2>1. n - m \in Nat /\ m + (n - m) = n
    OBVIOUS
  <2>2. QED
    BY <2>1
<1>5. m + d <= n => WrittenUpto(m + d) = WrittenUpto(m)
  BY <1>3
<1>6. QED
  BY <1>4, <1>5

\* What is written up to a lexeme comes first in what is written.
LEMMA WrittenLeads ==
  ASSUME file \in Files, NEW n \in 0..Len(file)
  PROVE  \E rest \in Seq(Nat) : Written = WrittenUpto(n) \o rest
<1>1. Len(file) \in Nat /\ n \in Nat
  BY FileTyped
<1>2. PICK d \in Nat : n + d = Len(file)
  <2>1. Len(file) - n \in Nat /\ n + (Len(file) - n) = Len(file)
    BY <1>1
  <2>2. QED
    BY <2>1
<1>3. PICK parts : parts = [k \in 1..(n + d) |-> IF IsWritten(k) THEN <<k>> ELSE <<>>]
  OBVIOUS
<1>4. \A k \in 1..(n + d) : parts[k] = (IF IsWritten(k) THEN <<k>> ELSE <<>>)
  BY <1>3
<1>5. \A k \in 1..(n + d) : parts[k] \in Seq(Nat)
  <2>1. ASSUME NEW k \in 1..(n + d) PROVE <<k>> \in Seq(Nat) /\ <<>> \in Seq(Nat)
    OBVIOUS
  <2>2. QED
    BY <1>4, <2>1
<1>6. /\ FlattenSeq(Following(parts, n, d)) \in Seq(Nat)
      /\ FlattenSeq(Leading(parts, n + d))
           = FlattenSeq(Leading(parts, n)) \o FlattenSeq(Following(parts, n, d))
  <2>1. n \in Nat /\ d \in Nat
    BY <1>1
  <2>2. QED
    BY <1>5, <2>1, FlattenSplit, Zenon
<1>7. WrittenUpto(n) = FlattenSeq(Leading(parts, n))
  <2>1. [k \in 1..n |-> IF IsWritten(k) THEN <<k>> ELSE <<>>] = Leading(parts, n)
    BY <1>1, <1>4 DEF Leading
  <2>2. QED
    BY <2>1 DEF WrittenUpto
<1>8. Written = FlattenSeq(Leading(parts, n + d))
  <2>1. [k \in 1..(n + d) |-> IF IsWritten(k) THEN <<k>> ELSE <<>>] = Leading(parts, n + d)
    BY <1>4 DEF Leading
  <2>2. QED
    BY <1>2, <2>1 DEF WrittenUpto, Written
<1>9. QED
  BY <1>6, <1>7, <1>8, Zenon

\* Two words of it, one after the other.
LEMMA WordsAdjacent ==
  ASSUME file \in Files, NEW n \in 0..Len(file), NEW k, k \in 2..Len(Text(WrittenUpto(n))),
         NEW a, Text(WrittenUpto(n))[k - 1] \in a, NEW b, Text(WrittenUpto(n))[k] = b
  PROVE  Adjacent(a, b)
<1>1. n \in Nat
  BY FileTyped
<1>2. PICK w \in Seq(Nat) : w = WrittenUpto(n)
  BY <1>1, WrittenGrows
<1>3. /\ Len(Text(w)) = Len(w) /\ Len(w) \in Nat
      /\ \A j \in 1..Len(w) : Text(w)[j] = file[w[j]]
  BY TextIs
<1>4. k \in 2..Len(w) /\ k \in 1..Len(w) /\ k - 1 \in 1..Len(w)
  BY <1>2, <1>3
<1>5. file[w[k - 1]] \in a /\ file[w[k]] = b
  BY <1>2, <1>3, <1>4
<1>6. PICK rest \in Seq(Nat) : Written = w \o rest
  BY <1>2, WrittenLeads
<1>7. PICK all : all = w \o rest
  OBVIOUS
<1>8. Len(all) = Len(w) + Len(rest) /\ Len(rest) \in Nat /\ \A j \in 1..Len(w) : all[j] = w[j]
  BY <1>7, JoinHas
<1>9. k \in 2..Len(all) /\ all[k - 1] = w[k - 1] /\ all[k] = w[k]
  <2>1. k <= Len(w) /\ 2 <= k /\ k \in Int
    BY <1>4
  <2>2. k \in 2..Len(all)
    BY <1>3, <1>8, <2>1
  <2>3. QED
    BY <1>4, <1>8, <2>2
<1>10. Written = all
  BY <1>6, <1>7
<1>11. QED
  BY <1>5, <1>9, <1>10, Zenon DEF Adjacent

-----------------------------------------------------------------------------
(* The text of what a step leaves alone.                                   *)

\* The file stays, and with it the text of marks and nodes.
LEMMA TextKept ==
  ASSUME file' = file
  PROVE  \A marks : Text(marks)' = Text(marks)
BY DEF Text

LEMMA ArgsTextKept ==
  ASSUME file' = file
  PROVE  \A args : ArgsText(args)' = ArgsText(args)
<1>1. SUFFICES ASSUME NEW args PROVE ArgsText(args)' = ArgsText(args)
  OBVIOUS
<1>2. \A k : ArgText(args, k)' = ArgText(args, k)
  <2>1. SUFFICES ASSUME NEW k PROVE ArgText(args, k)' = ArgText(args, k)
    OBVIOUS
  <2>2. PICK marks : marks = ArgMarks(args[k])
    OBVIOUS
  <2>3. Text(marks)' = Text(marks)
    BY TextKept
  <2>4. QED
    BY <2>2, <2>3, Zenon DEF ArgText
<1>3. [k \in DOMAIN args |-> ArgText(args, k)'] = [k \in DOMAIN args |-> ArgText(args, k)]
  BY <1>2
<1>4. QED
  BY <1>3, Zenon DEF ArgsText

LEMMA MethodsTextKept ==
  ASSUME file' = file
  PROVE  /\ \A m : MethodText(m)' = MethodText(m)
         /\ \A methods : MethodsText(methods)' = MethodsText(methods)
<1>1. \A m : MethodText(m)' = MethodText(m)
  <2>1. SUFFICES ASSUME NEW m PROVE MethodText(m)' = MethodText(m)
    OBVIOUS
  <2>2. PICK marks, args : marks = TypeMarks(m.type) /\ args = m.args
    OBVIOUS
  <2>3. Text(marks)' = Text(marks) /\ ArgsText(args)' = ArgsText(args)
    BY TextKept, ArgsTextKept
  <2>4. QED
    BY <2>2, <2>3, Zenon DEF MethodText
<1>2. ASSUME NEW methods PROVE MethodsText(methods)' = MethodsText(methods)
  <2>1. \A k : MethodText(methods[k])' = MethodText(methods[k])
    BY <1>1, Zenon
  <2>2. [k \in DOMAIN methods |-> MethodText(methods[k])']
          = [k \in DOMAIN methods |-> MethodText(methods[k])]
    BY <2>1
  <2>3. QED
    BY <2>2, Zenon DEF MethodsText
<1>3. QED
  BY <1>1, <1>2

LEMMA ItemsTextKept ==
  ASSUME file' = file
  PROVE  /\ \A item : ItemText(item)' = ItemText(item)
         /\ \A items : ItemsText(items)' = ItemsText(items)
<1>1. \A item : ItemText(item)' = ItemText(item)
  <2>1. SUFFICES ASSUME NEW item PROVE ItemText(item)' = ItemText(item)
    OBVIOUS
  <2>2. PICK methods : methods = item.items
    OBVIOUS
  <2>3. MethodsText(methods)' = MethodsText(methods)
    BY MethodsTextKept
  <2>4. QED
    BY <2>2, <2>3, Zenon DEF ItemText
<1>2. ASSUME NEW items PROVE ItemsText(items)' = ItemsText(items)
  <2>1. \A k : ItemText(items[k])' = ItemText(items[k])
    BY <1>1, Zenon
  <2>2. [k \in DOMAIN items |-> ItemText(items[k])'] = [k \in DOMAIN items |-> ItemText(items[k])]
    BY <2>1
  <2>3. QED
    BY <2>2, Zenon DEF ItemsText
<1>3. QED
  BY <1>1, <1>2

\* The symbols whose text depends on more than the file.
WithHeaders == {"imports", "headers", "document"}

\* What a symbol says, the headers and the document apart, needs only the file.
LEMMA SpellingKept ==
  ASSUME file' = file
  PROVE  /\ \A x, v : x \notin WithHeaders => Spelling(x, v)' = Spelling(x, v)
         /\ UNCHANGED <<package, gImports, document>> =>
              \A x, v : Spelling(x, v)' = Spelling(x, v)
<1>1. ASSUME NEW x, NEW v, x \notin WithHeaders PROVE Spelling(x, v)' = Spelling(x, v)
  <2>1. PICK type, arg : type = TypeMarks(v) /\ arg = ArgMarks(v)
    OBVIOUS
  <2>2. /\ Text(type)' = Text(type) /\ Text(arg)' = Text(arg) /\ ArgsText(v)' = ArgsText(v)
        /\ MethodText(v)' = MethodText(v) /\ MethodsText(v)' = MethodsText(v)
        /\ ItemText(v)' = ItemText(v) /\ ItemsText(v)' = ItemsText(v)
        /\ file'[v] = file[v]
    BY TextKept, ArgsTextKept, MethodsTextKept, ItemsTextKept
  <2>3. x # "imports" /\ x # "headers" /\ x # "document"
    BY <1>1 DEF WithHeaders
  <2>4. QED
    BY <2>1, <2>2, <2>3, Zenon DEF Spelling
<1>2. ASSUME UNCHANGED <<package, gImports, document>>, NEW x, NEW v, x \in WithHeaders
      PROVE  Spelling(x, v)' = Spelling(x, v)
  <2>1. PackageText' = PackageText
    BY <1>2 DEF PackageText
  <2>2. Text(gImports)' = Text(gImports)
    BY <1>2 DEF Text
  <2>3. ItemsText(document)' = ItemsText(document)
    <3>1. PICK d : d = document
      OBVIOUS
    <3>2. d = document'
      BY <1>2, <3>1
    <3>3. ItemsText(d)' = ItemsText(d)
      BY ItemsTextKept
    <3>4. QED
      BY <3>1, <3>2, <3>3
  <2>4. DocumentText' = DocumentText
    BY <2>1, <2>2, <2>3, Zenon DEF DocumentText
  <2>5. x \notin Naming /\ x \notin Tokens /\ x \notin DeclarationSymbols
    BY <1>2, Zenon DEF WithHeaders, Naming, Tokens, DeclarationSymbols
  <2>6. QED
    BY <1>2, <2>1, <2>2, <2>4, <2>5, Zenon DEF Spelling, WithHeaders
<1>3. QED
  BY <1>1, <1>2

-----------------------------------------------------------------------------
(* The text of a stack.                                                    *)

\* A stack with its items there.
Stands(s) ==
  /\ Explained(s)
  /\ \A k \in 2..Len(s) : SymbolOf(s[k]) \in DeclarationSymbols => s[k].value # Absent

Texts(s) == [k \in DOMAIN s |-> SpellingOf(s[k])]

\* The texts of a stack, and all of them together.
LEMMA TextsTyped ==
  ASSUME NEW s, Stands(s), Noted, NEW n, n = Len(s)
  PROVE  /\ n \in Nat /\ 1 <= n /\ DOMAIN s = 1..n /\ Spelled(s) = FlattenSeq(Texts(s))
         /\ Texts(s) = Leading(Texts(s), n)
         /\ \A k \in 1..n : Texts(s)[k] = SpellingOf(s[k]) /\ SpellingOf(s[k]) \in Seq(Letters)
         /\ SpellingOf(s[1]) = <<>>
<1>1. Explained(s)
  BY DEF Stands
<1>2. n \in Nat /\ 1 <= n /\ DOMAIN s = 1..n
  BY <1>1, StatesOf
<1>3. SpellingOf(s[1]) = <<>>
  <2>1. SymbolOf(s[1]) = "none"
    BY <1>1, RuleForms DEF Explained, SymbolOf, TablesTyped
  <2>2. QED
    BY <2>1, SpellingHeaders, Zenon DEF SpellingOf
<1>4. ASSUME NEW k \in 1..n PROVE SpellingOf(s[k]) \in Seq(Letters)
  <2>1. CASE k = 1
    <3>1. <<>> \in Seq(Letters)
      OBVIOUS
    <3>2. QED
      BY <1>3, <2>1, <3>1, Zenon
  <2>2. CASE k # 1
    <3>1. k \in 2..Len(s)
      BY <1>2, <2>2
    <3>2. Means(SymbolOf(s[k]), s[k].value)
      BY <1>1, <3>1, Zenon DEF Explained, Entered
    <3>3. Standing(SymbolOf(s[k]), s[k].value)
      BY <3>1, <3>2, Zenon DEF Stands, Standing
    <3>4. QED
      BY <3>3, SpellingTyped, Zenon DEF SpellingOf
  <2>3. QED
    BY <2>1, <2>2
<1>5. PICK parts : parts = Texts(s)
  OBVIOUS
<1>6. \A k \in 1..n : parts[k] = SpellingOf(s[k])
  BY <1>2, <1>5 DEF Texts
<1>7. parts = Leading(parts, n)
  BY <1>2, <1>5 DEF Texts, Leading
<1>8. Spelled(s) = FlattenSeq(parts)
  BY <1>5 DEF Spelled, Texts
<1>9. QED
  BY <1>2, <1>3, <1>4, <1>5, <1>6, <1>7, <1>8, Zenon

LEMMA SpelledTyped ==
  ASSUME NEW s, Stands(s), Noted
  PROVE  Spelled(s) \in Seq(Letters)
<1>1. PICK parts, n : parts = Texts(s) /\ n = Len(s)
  OBVIOUS
<1>2. /\ n \in Nat /\ Spelled(s) = FlattenSeq(parts) /\ parts = Leading(parts, n)
      /\ \A k \in 1..n : parts[k] = SpellingOf(s[k]) /\ SpellingOf(s[k]) \in Seq(Letters)
  BY <1>1, TextsTyped, Zenon
<1>3. InParts(parts, n, Letters)
  BY <1>2, Zenon DEF InParts
<1>4. QED
  BY <1>2, <1>3, FlattenParts, Zenon

\* The bottom of the stack says nothing.
LEMMA SpelledBottom ==
  ASSUME NEW s, Stands(s), Noted, Len(s) = 1
  PROVE  Spelled(s) = <<>>
<1>1. PICK parts : parts = Texts(s)
  OBVIOUS
<1>2. /\ Spelled(s) = FlattenSeq(parts) /\ parts = Leading(parts, 1) /\ 1 \in 1..1
      /\ parts[1] = SpellingOf(s[1]) /\ SpellingOf(s[1]) = <<>>
  <2>1. 1 \in 1..1
    OBVIOUS
  <2>2. QED
    BY <1>1, <2>1, TextsTyped, Zenon
<1>3. /\ Leading(parts, 0) = <<>> /\ 0 + 1 = 1 /\ \A k \in 1..1 : parts[k] \in Seq(Letters)
  <2>1. parts[1] \in Seq(Letters)
    <3>1. parts[1] = <<>>
      BY <1>2, Zenon
    <3>2. QED
      BY <3>1
  <2>2. Leading(parts, 0) = <<>>
    BY DEF Leading
  <2>3. QED
    BY <2>1, <2>2
<1>4. /\ FlattenSeq(Leading(parts, 0 + 1)) = FlattenSeq(Leading(parts, 0)) \o parts[0 + 1]
  BY <1>3, FlattenGrows
<1>5. Spelled(s) = <<>> \o <<>>
  BY <1>2, <1>3, <1>4, FlattenNothing, Zenon
<1>6. QED
  BY <1>5

\* One symbol more on the stack.
LEMMA SpelledPushed ==
  ASSUME NEW s, Stands(s), NEW e, NEW more, Stands(more), Noted, more = Append(s, e)
  PROVE  /\ Spelled(more) = Spelled(s) \o SpellingOf(e)
         /\ Spelled(s) \in Seq(Letters) /\ SpellingOf(e) \in Seq(Letters)
<1>1. PICK n : n = Len(s)
  OBVIOUS
<1>2. /\ n \in Nat /\ Len(more) = n + 1 /\ more[n + 1] = e /\ \A k \in 1..n : more[k] = s[k]
  <2>1. PICK E : s \in Seq(E)
    BY DEF Stands, Explained
  <2>2. PICK F : F = E \cup {e}
    OBVIOUS
  <2>3. s \in Seq(F) /\ e \in F
    BY <2>1, <2>2
  <2>4. QED
    BY <1>1, <2>3, OneMoreAtEnd
<1>3. PICK parts, longer : parts = Texts(s) /\ longer = Texts(more)
  OBVIOUS
<1>4. /\ Spelled(s) = FlattenSeq(parts) /\ parts = Leading(parts, n)
      /\ \A k \in 1..n : parts[k] = SpellingOf(s[k]) /\ SpellingOf(s[k]) \in Seq(Letters)
  BY <1>1, <1>3, TextsTyped, Zenon
<1>5. /\ Spelled(more) = FlattenSeq(longer) /\ longer = Leading(longer, n + 1)
      /\ \A k \in 1..(n + 1) : longer[k] = SpellingOf(more[k]) /\ SpellingOf(more[k]) \in Seq(Letters)
  BY <1>2, <1>3, TextsTyped, Zenon
<1>6. n + 1 \in 1..(n + 1) /\ \A k \in 1..n : k \in 1..(n + 1)
  BY <1>2
<1>7. /\ InParts(parts, n, Letters) /\ InParts(longer, n + 1, Letters) /\ OneMorePart(longer, parts, n)
      /\ longer[n + 1] = SpellingOf(e) /\ SpellingOf(e) \in Seq(Letters)
  BY <1>2, <1>4, <1>5, <1>6, Zenon DEF InParts, OneMorePart
<1>8. FlattenSeq(longer) = FlattenSeq(parts) \o longer[n + 1]
  BY <1>2, <1>7, FlattenMore, Zenon
<1>9. FlattenSeq(parts) \in Seq(Letters)
  BY <1>2, <1>7, FlattenParts, Zenon
<1>10. QED
  BY <1>4, <1>5, <1>7, <1>8, <1>9, Zenon

\* The right side of a rule on top of it.
Tops(s, r, rhs, m, v) ==
  Stands(s) /\ InOrder(s) /\ r \in DOMAIN Rules /\ OnTop(s, r, rhs, m, v)

\* Its text is the last of the stack's.
LEMMA SpelledSplit ==
  ASSUME NEW s, NEW r, NEW rhs, NEW m, NEW v, Tops(s, r, rhs, m, v), Noted
  PROVE  /\ Stands(SubSeq(s, 1, m)) /\ Stand(rhs, v)
         /\ Spelled(s) = Spelled(SubSeq(s, 1, m)) \o Side(rhs, v)
         /\ Side(rhs, v) \in Seq(Letters)
<1> DEFINE less == SubSeq(s, 1, m)
<1>1. Stands(s) /\ Explained(s) /\ InOrder(s) /\ r \in DOMAIN Rules /\ OnTop(s, r, rhs, m, v)
  BY DEF Tops, Stands
<1>2. /\ Len(rhs) \in Nat /\ m \in Nat /\ 1 <= m /\ m \in 1..Len(s) /\ Len(s) = m + Len(rhs)
      /\ Given(rhs, v)
      /\ \A k \in 1..Len(rhs) : m + k \in 2..Len(s) /\ SymbolOf(s[m + k]) = rhs[k]
  BY <1>1, RightSide
<1>3. \A k \in 1..Len(rhs) : v[k] = s[m + k].value
  BY <1>1 DEF OnTop
<1>4. Stand(rhs, v)
  BY <1>1, <1>2, <1>3, Zenon DEF Stand, Stands
<1>5. /\ Explained(less) /\ Len(less) = m /\ \A k \in 1..m : less[k] = s[k]
  BY <1>1, <1>2, Popped
<1> HIDE DEF less
<1>6. \A k \in 2..m : k \in 2..Len(s) /\ k \in 1..m
  BY <1>2
<1>7. Stands(less)
  BY <1>1, <1>5, <1>6, Zenon DEF Stands
<1>8. PICK n \in Nat : n = Len(rhs)
  BY <1>2
<1>9. PICK parts, front : parts = Texts(s) /\ front = Texts(less)
  OBVIOUS
<1>10. /\ Spelled(s) = FlattenSeq(parts) /\ parts = Leading(parts, m + n)
       /\ \A k \in 1..(m + n) : parts[k] = SpellingOf(s[k]) /\ SpellingOf(s[k]) \in Seq(Letters)
  BY <1>1, <1>2, <1>8, <1>9, TextsTyped, Zenon
<1>11. /\ Spelled(less) = FlattenSeq(front) /\ front = Leading(front, m)
       /\ \A k \in 1..m : front[k] = SpellingOf(less[k])
  BY <1>5, <1>7, <1>9, TextsTyped, Zenon
<1>12. Leading(parts, m) = front
  <2>1. \A k \in 1..m : k \in 1..(m + n)
    BY <1>2, <1>8
  <2>2. \A k \in 1..m : parts[k] = front[k]
    BY <1>5, <1>10, <1>11, <2>1, Zenon
  <2>3. Leading(parts, m) = Leading(front, m)
    BY <2>2 DEF Leading
  <2>4. QED
    BY <1>11, <2>3
<1>13. Following(parts, m, n) = [k \in 1..Len(rhs) |-> Said(rhs, v, k)]
  <2>1. ASSUME NEW k \in 1..n PROVE parts[m + k] = Said(rhs, v, k)
    <3>1. m + k \in 1..(m + n)
      BY <1>2, <1>8
    <3>2. parts[m + k] = Spelling(SymbolOf(s[m + k]), s[m + k].value)
      BY <1>10, <3>1 DEF SpellingOf
    <3>3. k \in 1..Len(rhs)
      BY <1>8
    <3>4. QED
      BY <1>2, <1>3, <3>2, <3>3, Zenon DEF Said
  <2>2. QED
    BY <1>8, <2>1 DEF Following
<1>14. /\ FlattenSeq(Following(parts, m, n)) \in Seq(Letters)
       /\ FlattenSeq(Leading(parts, m + n))
            = FlattenSeq(Leading(parts, m)) \o FlattenSeq(Following(parts, m, n))
  <2>1. \A k \in 1..(m + n) : parts[k] \in Seq(Letters)
    BY <1>10, Zenon
  <2>2. m \in Nat /\ n \in Nat
    BY <1>2
  <2>3. QED
    BY <2>1, <2>2, FlattenSplit, Zenon
<1>15. QED
  BY <1>4, <1>7, <1>10, <1>11, <1>12, <1>13, <1>14, Zenon DEF Side, less

\* Unless the headers are on it what a stack says needs only the file.
LEMMA SpelledKept ==
  ASSUME file' = file
  PROVE  /\ \A s : (\A k \in DOMAIN s : SymbolOf(s[k]) \notin WithHeaders) =>
              Spelled(s)' = Spelled(s)
         /\ UNCHANGED <<package, gImports, document>> => \A s : Spelled(s)' = Spelled(s)
<1>1. ASSUME NEW s, \A k \in DOMAIN s : SpellingOf(s[k])' = SpellingOf(s[k])
      PROVE  Spelled(s)' = Spelled(s)
  <2>1. [k \in DOMAIN s |-> SpellingOf(s[k])'] = [k \in DOMAIN s |-> SpellingOf(s[k])]
    BY <1>1
  <2>2. QED
    BY <2>1, Zenon DEF Spelled
<1>2. ASSUME NEW s, \A k \in DOMAIN s : SymbolOf(s[k]) \notin WithHeaders
      PROVE  Spelled(s)' = Spelled(s)
  <2>1. \A k \in DOMAIN s : SpellingOf(s[k])' = SpellingOf(s[k])
    <3>1. SUFFICES ASSUME NEW k \in DOMAIN s PROVE SpellingOf(s[k])' = SpellingOf(s[k])
      OBVIOUS
    <3>2. PICK x, v : x = SymbolOf(s[k]) /\ v = s[k].value
      OBVIOUS
    <3>3. Spelling(x, v)' = Spelling(x, v)
      BY <1>2, <3>2, SpellingKept, Zenon
    <3>4. QED
      BY <3>2, <3>3, Zenon DEF SpellingOf
  <2>2. QED
    BY <1>1, <2>1
<1>3. ASSUME UNCHANGED <<package, gImports, document>>, NEW s
      PROVE  Spelled(s)' = Spelled(s)
  <2>1. \A k \in DOMAIN s : SpellingOf(s[k])' = SpellingOf(s[k])
    <3>1. SUFFICES ASSUME NEW k \in DOMAIN s PROVE SpellingOf(s[k])' = SpellingOf(s[k])
      OBVIOUS
    <3>2. PICK x, v : x = SymbolOf(s[k]) /\ v = s[k].value
      OBVIOUS
    <3>3. Spelling(x, v)' = Spelling(x, v)
      BY <1>3, SpellingKept, Zenon
    <3>4. QED
      BY <3>2, <3>3, Zenon DEF SpellingOf
  <2>2. QED
    BY <1>1, <2>1
<1>4. QED
  BY <1>2, <1>3

\* What is written needs only the file and the condition it began in.
LEMMA WrittenKept ==
  ASSUME file' = file, started' = started
  PROVE  /\ \A k : IsWritten(k)' <=> IsWritten(k)
         /\ \A n : Text(WrittenUpto(n))' = Text(WrittenUpto(n))
         /\ Slip' <=> Slip
<1>1. \A k : WithinStep(k)' = WithinStep(k)
  <2>1. SUFFICES ASSUME NEW k PROVE WithinStep(k)' = WithinStep(k)
    OBVIOUS
  <2>2. \A state : Within(k, state)' = Within(k, state)
    BY Zenon DEF Within
  <2>3. QED
    BY <2>2 DEF WithinStep
<1>2. \A f : Withins(f)' <=> Withins(f)
  <2>1. SUFFICES ASSUME NEW f PROVE Withins(f)' <=> Withins(f)
    OBVIOUS
  <2>2. [k \in 0..Len(file)' |-> IF k = 0 THEN started' ELSE WithinStep(k)'[f[k - 1]]]
          = [k \in 0..Len(file) |-> IF k = 0 THEN started ELSE WithinStep(k)[f[k - 1]]]
    BY <1>1
  <2>3. QED
    BY <2>2, Zenon DEF Withins
<1>3. WithinUpto' = WithinUpto
  <2>1. WithinUpto = CHOOSE f : Withins(f)
    BY Zenon DEF WithinUpto, Withins
  <2>2. WithinUpto' = CHOOSE f : Withins(f)'
    BY Zenon DEF WithinUpto, Withins
  <2>3. (CHOOSE f : Withins(f)') = (CHOOSE f : Withins(f))
    BY <1>2
  <2>4. QED
    BY <2>1, <2>2, <2>3, Zenon
<1>4. \A k : IsWritten(k)' <=> IsWritten(k)
  BY <1>3, Zenon DEF IsWritten
<1>5. \A n : WrittenUpto(n)' = WrittenUpto(n)
  <2>1. SUFFICES ASSUME NEW n PROVE WrittenUpto(n)' = WrittenUpto(n)
    OBVIOUS
  <2>2. [k \in 1..n |-> (IF IsWritten(k) THEN <<k>> ELSE <<>>)']
          = [k \in 1..n |-> IF IsWritten(k) THEN <<k>> ELSE <<>>]
    BY <1>4
  <2>3. QED
    BY <2>2, Zenon DEF WrittenUpto
<1>6. Written' = Written
  <2>1. PICK n : n = Len(file)
    OBVIOUS
  <2>2. n = Len(file)' /\ WrittenUpto(n)' = WrittenUpto(n)
    BY <1>5, <2>1
  <2>3. QED
    BY <2>1, <2>2, Zenon DEF Written
<1>7. ASSUME NEW n PROVE Text(WrittenUpto(n))' = Text(WrittenUpto(n))
  <2>1. PICK w : w = WrittenUpto(n)
    OBVIOUS
  <2>2. w = WrittenUpto(n)' /\ Text(w)' = Text(w)
    BY <1>5, <2>1, TextKept
  <2>3. QED
    BY <2>1, <2>2, Zenon DEF Text
<1>8. \A a, b : Adjacent(a, b)' <=> Adjacent(a, b)
  BY <1>6, Zenon DEF Adjacent
<1>9. Slip' <=> Slip
  BY <1>3, <1>8, Zenon DEF Slip
<1>10. QED
  BY <1>4, <1>7, <1>9

-----------------------------------------------------------------------------
(* What slips.                                                             *)

\* The text of a stack ends with that of its top.
LEMMA SpelledTop ==
  ASSUME NEW s, Stands(s), InOrder(s), Noted, NEW m, m = Len(s), m > 1
  PROVE  \E front \in Seq(Letters) : Spelled(s) = front \o SpellingOf(s[m])
<1>1. Explained(s) /\ m \in Nat /\ 1 <= m - 1 /\ m - 1 \in 1..Len(s)
  BY StatesOf DEF Stands
<1>2. PICK n, less : n = m - 1 /\ less = SubSeq(s, 1, n)
  OBVIOUS
<1>3. n \in 1..Len(s) /\ n \in Nat /\ n + 1 = m /\ n + 1 = Len(s)
  BY <1>1, <1>2
<1>4. Explained(less) /\ Len(less) = n /\ \A k \in 1..n : less[k] = s[k]
  BY <1>1, <1>2, <1>3, Popped
<1>5. Stands(less)
  <2>1. \A k \in 2..n : k \in 2..Len(s) /\ k \in 1..n
    BY <1>1, <1>2
  <2>2. QED
    BY <1>3, <1>4, <2>1, Zenon DEF Stands
<1>6. PICK parts, longer : parts = Texts(less) /\ longer = Texts(s)
  OBVIOUS
<1>7. /\ Spelled(less) = FlattenSeq(parts) /\ parts = Leading(parts, n)
      /\ \A k \in 1..n : parts[k] = SpellingOf(less[k]) /\ SpellingOf(less[k]) \in Seq(Letters)
  BY <1>3, <1>4, <1>5, <1>6, TextsTyped, Zenon
<1>8. /\ Spelled(s) = FlattenSeq(longer) /\ longer = Leading(longer, n + 1)
      /\ \A k \in 1..(n + 1) : longer[k] = SpellingOf(s[k]) /\ SpellingOf(s[k]) \in Seq(Letters)
  BY <1>3, <1>6, TextsTyped, Zenon
<1>9. n \in Nat /\ n + 1 \in 1..(n + 1) /\ \A k \in 1..n : k \in 1..(n + 1)
  BY <1>1, <1>2
<1>10. /\ InParts(parts, n, Letters) /\ InParts(longer, n + 1, Letters) /\ OneMorePart(longer, parts, n)
       /\ longer[n + 1] = SpellingOf(s[n + 1])
  BY <1>3, <1>4, <1>7, <1>8, <1>9, Zenon DEF InParts, OneMorePart
<1>11. FlattenSeq(longer) = FlattenSeq(parts) \o longer[n + 1]
  BY <1>9, <1>10, FlattenMore, Zenon
<1>12. FlattenSeq(parts) \in Seq(Letters)
  BY <1>9, <1>10, FlattenParts, Zenon
<1>13. QED
  BY <1>3, <1>8, <1>10, <1>11, <1>12, Zenon

\* Two words of what has been taken, one after the other.
LEMMA TakenAdjacent ==
  ASSUME file \in Files, NEW n \in 0..Len(file), NEW front \in Seq(Letters), NEW a,
         NEW x \in Letters, x \in a, NEW b \in Letters, NEW rest \in Seq(Letters),
         Text(WrittenUpto(n)) = (front \o <<x>>) \o (<<b>> \o rest)
  PROVE  Adjacent(a, b)
<1>1. PICK all : all = Text(WrittenUpto(n))
  OBVIOUS
<1>2. PICK S : S = Letters
  OBVIOUS
<1>3. PICK left, right : left = front \o <<x>> /\ right = <<b>> \o rest
  OBVIOUS
<1>4. left \in Seq(S) /\ Len(left) = Len(front) + 1 /\ left[Len(front) + 1] = x /\ Len(front) \in Nat
  BY <1>2, <1>3
<1>5. right \in Seq(S) /\ Len(right) = 1 + Len(rest) /\ right[1] = b /\ Len(rest) \in Nat
  BY <1>2, <1>3
<1>6. PICK k : k = Len(front) + 2
  OBVIOUS
<1>7. all = left \o right
  BY <1>1, <1>3, Zenon
<1>8. k \in 2..Len(all) /\ all[k - 1] = left[Len(front) + 1] /\ all[k] = right[1]
  BY <1>4, <1>5, <1>6, <1>7
<1>9. k \in 2..Len(all) /\ all[k - 1] \in a /\ all[k] = b
  BY <1>4, <1>5, <1>8
<1>10. QED
  BY <1>1, <1>9, WordsAdjacent

\* A rule that leaves no trace of what it is made of is reduced by after a slip.
LEMMA TracelessSlips ==
  ASSUME file \in Files, NEW n \in 0..Len(file), NEW s, Noted,
         Text(WrittenUpto(n)) = Spelled(s), NEW r, NEW rhs, NEW m, NEW v,
         Tops(s, r, rhs, m, v), RuleTyped(Rules[r].lhs, rhs, Rules[r].does),
         RuleSpelled(Rules[r].lhs, rhs, Rules[r].does), Traceless(Rules[r].does, rhs, v)
  PROVE  Slip
<1>1. PICK less : less = SubSeq(s, 1, m)
  OBVIOUS
<1>2. /\ Stands(less) /\ Stand(rhs, v) /\ Spelled(s) = Spelled(less) \o Side(rhs, v)
      /\ Side(rhs, v) \in Seq(Letters)
  <2>1. Tops(s, r, rhs, m, v)
    OBVIOUS
  <2>2. /\ Stands(SubSeq(s, 1, m)) /\ Stand(rhs, v)
        /\ Spelled(s) = Spelled(SubSeq(s, 1, m)) \o Side(rhs, v) /\ Side(rhs, v) \in Seq(Letters)
    BY <2>1, SpelledSplit, Zenon
  <2>3. QED
    BY <1>1, <2>2
<1>3. CASE Rules[r].does = "null"
  <2>1. rhs \in {<<"PARCELABLE", ";">>, <<"FLATTENABLE", ";">>}
    BY <1>3, Zenon DEF RuleSpelled
  <2>2. ASSUME NEW x \in Words, NEW semicolon \in Words, rhs = <<x, semicolon>>,
               x \in {"PARCELABLE", "FLATTENABLE"}
        PROVE  Adjacent({"PARCELABLE", "FLATTENABLE"}, semicolon)
    <3>1. Len(rhs) = 2 /\ rhs[1] = x /\ rhs[2] = semicolon
      BY <2>2
    <3>2. Said(rhs, v, 1) = <<x>> /\ Said(rhs, v, 2) = <<semicolon>>
      BY <3>1, SaidWord
    <3>3. Side(rhs, v) = Said(rhs, v, 1) \o Said(rhs, v, 2)
      BY <1>2, <3>1, SideOf, Zenon
    <3>4. x \in Letters /\ semicolon \in Letters
      BY DEF Letters, Words
    <3>5. PICK front : front = Spelled(less)
      OBVIOUS
    <3>6. front \in Seq(Letters)
      BY <1>2, <3>5, SpelledTyped
    <3>7. Text(WrittenUpto(n)) = front \o (<<x>> \o <<semicolon>>)
      BY <1>2, <3>2, <3>3, <3>5, Zenon
    <3>8. Text(WrittenUpto(n)) = (front \o <<x>>) \o (<<semicolon>> \o <<>>)
      <4>1. PICK u, w : u = <<x>> /\ w = <<semicolon>>
        OBVIOUS
      <4>2. u \in Seq(Letters) /\ w \in Seq(Letters)
        BY <3>4, <4>1, WordsOf, Zenon
      <4>3. front \o (u \o w) = (front \o u) \o w /\ w \o <<>> = w
        BY <3>6, <4>2, TextsJoined, Zenon
      <4>4. QED
        BY <3>7, <4>1, <4>3, Zenon
    <3>9. <<>> \in Seq(Letters)
      OBVIOUS
    <3>10. QED
      BY <2>2, <3>4, <3>6, <3>8, <3>9, TakenAdjacent, Zenon
  <2>3. "PARCELABLE" \in Words /\ "FLATTENABLE" \in Words /\ ";" \in Words
    BY WordsAre, Zenon
  <2>4. Adjacent({"PARCELABLE", "FLATTENABLE"}, ";")
    BY <2>1, <2>2, <2>3, Zenon
  <2>5. QED
    BY <2>4, Zenon DEF Slip
<1>4. CASE Rules[r].does = "append_arg" /\ v[1] = <<>>
  <2>1. rhs = <<"arg_list", ",", "arg">> /\ Rules[r].lhs = "arg_list"
    BY <1>4, Zenon DEF RuleSpelled, RuleTyped
  <2>2. Explained(s) /\ InOrder(s) /\ r \in DOMAIN Rules /\ OnTop(s, r, rhs, m, v)
    BY DEF Tops, Stands
  <2>3. /\ m \in Nat /\ 1 <= m /\ m \in 1..Len(s)
        /\ Rules[r].lhs \in DOMAIN Tables[s[m].state].goto \ {"EOF"}
    BY <2>2, RightSide
  <2>4. /\ Explained(less) /\ InOrder(less) /\ Len(less) = m /\ \A k \in 1..m : less[k] = s[k]
    BY <1>1, <2>2, <2>3, Popped
  <2>5. SymbolOf(less[m]) = "("
    <3>1. m \in 1..m /\ s[m].state \in DOMAIN Tables
      BY <2>2, <2>3, StatesOf
    <3>2. less[m] = s[m]
      BY <2>4, <3>1
    <3>3. "arg_list" \in DOMAIN Tables[s[m].state].goto
      BY <2>1, <2>3, Zenon
    <3>4. QED
      BY <3>1, <3>2, <3>3, RuleForms, Zenon DEF PlacesApart, SymbolOf
  <2>6. m > 1
    <3>1. SymbolOf(less[1]) = "none"
      BY <2>4, RuleForms, Zenon DEF Explained, SymbolOf, TablesTyped
    <3>2. m # 1
      BY <2>5, <3>1, Zenon
    <3>3. QED
      BY <2>3, <3>2
  <2>7. PICK front \in Seq(Letters) : Spelled(less) = front \o SpellingOf(less[m])
    BY <1>2, <2>4, <2>6, SpelledTop
  <2>8. SpellingOf(less[m]) = <<"(">>
    BY <2>5, WordsAre, SpellingToken, Zenon DEF SpellingOf, Words
  <2>9. ASSUME NEW begin \in Words, NEW comma \in Words, rhs = <<"arg_list", comma, "arg">>,
               SpellingOf(less[m]) = <<begin>>
        PROVE  Adjacent({begin}, comma)
    <3>1. Len(rhs) = 3 /\ rhs[1] = "arg_list" /\ rhs[2] = comma /\ rhs[3] = "arg" /\ 3 \in 1..Len(rhs)
      BY <2>9
    <3>2. Said(rhs, v, 2) = <<comma>>
      BY <3>1, SaidWord
    <3>3. Said(rhs, v, 1) = <<>>
      <4>1. Said(rhs, v, 1) = Spelling("arg_list", v[1])
        BY <3>1, SaidAs
      <4>2. QED
        BY <1>4, <4>1, SpellingParts, NoText, Zenon
    <3>4. PICK rest \in Seq(Letters) : rest = Said(rhs, v, 3)
      BY <1>2, <3>1, SideTyped
    <3>5. Side(rhs, v) = (Said(rhs, v, 1) \o Said(rhs, v, 2)) \o Said(rhs, v, 3)
      BY <1>2, <3>1, SideOf, Zenon
    <3>6. begin \in Letters /\ comma \in Letters /\ <<comma>> \in Seq(Letters)
      BY DEF Letters, Words
    <3>7. <<>> \o <<comma>> = <<comma>>
      BY <3>6, JoiningAll, Zenon DEF Joining
    <3>8. Text(WrittenUpto(n)) = (front \o <<begin>>) \o (<<comma>> \o rest)
      BY <1>2, <2>7, <2>9, <3>2, <3>3, <3>4, <3>5, <3>7, Zenon
    <3>9. begin \in {begin}
      OBVIOUS
    <3>10. QED
      BY <3>6, <3>8, <3>9, TakenAdjacent
  <2>10. Adjacent({"("}, ",")
    BY <2>1, <2>8, <2>9, WordsAre, Zenon
  <2>11. QED
    BY <2>10, Zenon DEF Slip
<1>5. QED
  BY <1>3, <1>4, Zenon DEF Traceless

-----------------------------------------------------------------------------
(* The text a step makes.                                                  *)

\* What the invariant says of the values the parser keeps.
LEMMA NotedThere ==
  ASSUME IInv
  PROVE  /\ Noted /\ file \in Files /\ Len(file) \in Nat /\ package \in Nat
         /\ Explained(stack) /\ InOrder(stack)
<1>1. FileRead /\ Typed /\ GivenLast /\ Explained(stack) /\ InOrder(stack)
  BY DEF IInv
<1>2. file \in Files /\ Len(file) \in Nat
  BY <1>1, FileTyped DEF FileRead
<1>3. document \in Seq(ItemNode)
  <2>1. <<>> \in Seq(ItemNode)
    OBVIOUS
  <2>2. called = 0 \/ called = 1
    BY <1>1 DEF Typed
  <2>3. QED
    BY <1>1, <2>1, <2>2, Zenon DEF GivenLast
<1>4. gImports \in Seq(Nat) /\ package \in Nat
  BY <1>1, <1>2 DEF Typed
<1>5. QED
  BY <1>1, <1>2, <1>3, <1>4 DEF Noted

\* The stack holds no declaration that is missing.
LEMMA CarriedStands ==
  ASSUME NEW s, Explained(s), \A k \in 2..Len(s) : Packaged(SymbolOf(s[k]), s[k].value)
  PROVE  Stands(s)
BY Zenon DEF Packaged, Stands

\* What stands at the beginning only is entered from the bottom.
LEMMA FrontLast ==
  ASSUME NEW s, Explained(s), NEW m \in 1..Len(s), NEW x \in FrontSymbols,
         x \in DOMAIN Tables[s[m].state].goto
  PROVE  m = 1
<1>1. m \in DOMAIN s /\ s[m].state \in DOMAIN Tables
  BY StatesOf
<1>2. FrontSymbols \cap DOMAIN Tables[s[m].state].goto # {}
  OBVIOUS
<1>3. s[m].state = Start
  BY <1>1, <1>2, RuleForms, Zenon DEF PlacesApart
<1>4. QED
  BY <1>1, <1>3, StartBelow

\* What reduces while nothing is wrong.
Falls(r, rhs, m, v, lhs, does) ==
  /\ Tops(stack, r, rhs, m, v) /\ RuleTyped(lhs, rhs, does) /\ RuleSpelled(lhs, rhs, does)
  /\ ~Traceless(does, rhs, v) /\ lhs \notin {"accept", "interface_keywords"}
  /\ lhs \notin Terminals /\ (lhs \in FrontSymbols => m = 1)
  /\ Len(rhs) \in Nat /\ m \in Nat /\ 1 <= m /\ m \in 1..Len(stack)
  /\ Len(stack) = m + Len(rhs) /\ DOMAIN stack = 1..Len(stack)
  /\ Len(v) = Len(rhs) /\ Given(rhs, v)
  /\ \A k \in 1..Len(rhs) : /\ m + k \in 2..Len(stack) /\ SymbolOf(stack[m + k]) = rhs[k]
                            /\ v[k] = stack[m + k].value

\* The rule a reduction is by leaves no trace only after a slip.
LEMMA ReduceRule ==
  ASSUME IInv, ~Slip, Clear, \A k \in DOMAIN stack : SymbolOf(stack[k]) # "error",
         NEW r, NEW rhs, NEW m, NEW v, NEW e, Reduces(r, rhs, m, v, e), NEW lhs, lhs = Rules[r].lhs,
         NEW does, does = Rules[r].does
  PROVE  Falls(r, rhs, m, v, lhs, does)
<1>1. /\ Noted /\ file \in Files /\ Len(file) \in Nat /\ Explained(stack) /\ InOrder(stack)
      /\ FileRead
  BY NotedThere DEF IInv
<1>2. /\ r \in DOMAIN Rules /\ OnTop(stack, r, rhs, m, v) /\ lhs # "interface_keywords"
  BY Zenon DEF Reduces
<1>3. Stands(stack)
  BY <1>1, CarriedStands, Zenon DEF Clear, Carried
<1>4. Tops(stack, r, rhs, m, v)
  BY <1>1, <1>2, <1>3, Zenon DEF Tops
<1>5. rhs = Rules[r].rhs /\ \A k \in 1..Len(rhs) : v[k] = stack[m + k].value
  BY <1>2 DEF OnTop
<1>6. RuleTyped(lhs, rhs, does)
  BY <1>2, <1>5, RuleForms DEF RulesTyped
<1>7. /\ Len(rhs) \in Nat /\ m \in Nat /\ 1 <= m /\ m \in 1..Len(stack)
      /\ Len(stack) = m + Len(rhs) /\ Given(rhs, v)
      /\ \A k \in 1..Len(rhs) : m + k \in 2..Len(stack) /\ SymbolOf(stack[m + k]) = rhs[k]
      /\ lhs \in DOMAIN Tables[stack[m].state].goto \ {"EOF"} /\ lhs # "accept"
  BY <1>1, <1>2, RightSide
<1>8. DOMAIN stack = 1..Len(stack) /\ Len(stack) \in Nat
  BY <1>1, StatesOf
<1>9. RuleSpelled(lhs, rhs, does)
  <2>1. \A k \in 1..Len(rhs) : rhs[k] # "error"
    <3>1. \A k \in 1..Len(rhs) : m + k \in DOMAIN stack
      BY <1>7, <1>8
    <3>2. QED
      BY <1>7, <3>1, Zenon
  <2>2. \A k \in 1..Len(Rules[r].rhs) : Rules[r].rhs[k] # "error"
    BY <1>5, <2>1
  <2>3. QED
    BY <1>2, <1>5, <2>2, RuleForms, Zenon DEF RulesSpelled
<1>10. ~Traceless(does, rhs, v)
  <2>1. SUFFICES ASSUME Traceless(does, rhs, v) PROVE Slip
    OBVIOUS
  <2>2. PICK n : n = Gone
    OBVIOUS
  <2>3. n \in 0..Len(file)
    BY <1>1, <2>2 DEF FileRead, Gone
  <2>4. Text(WrittenUpto(n)) = Spelled(stack)
    BY <2>2 DEF Clear
  <2>5. PICK s : s = stack
    OBVIOUS
  <2>6. Text(WrittenUpto(n)) = Spelled(s) /\ Tops(s, r, rhs, m, v)
    BY <1>4, <2>4, <2>5
  <2>7. RuleTyped(Rules[r].lhs, rhs, Rules[r].does) /\ RuleSpelled(Rules[r].lhs, rhs, Rules[r].does)
        /\ Traceless(Rules[r].does, rhs, v)
    BY <1>6, <1>9, <2>1
  <2>8. QED
    BY <1>1, <2>3, <2>6, <2>7, TracelessSlips
<1>11. lhs \notin Terminals
  BY <1>6, Zenon DEF RuleTyped
<1>12. lhs \in FrontSymbols => m = 1
  BY <1>1, <1>7, FrontLast
<1>13. Len(v) = Len(rhs)
  <2>1. v \in [1..Len(rhs) -> {v[j] : j \in 1..Len(rhs)}]
    BY <1>2 DEF OnTop
  <2>2. QED
    BY <1>7, <2>1
<1>14. QED
  BY <1>2, <1>4, <1>5, <1>6, <1>7, <1>8, <1>9, <1>10, <1>11, <1>12, <1>13 DEF Falls

\* The headers are noted where they are reduced.
LEMMA HeadersNoted ==
  ASSUME NEW r, NEW rhs, NEW m, NEW v, NEW lhs, NEW does, Falls(r, rhs, m, v, lhs, does), Headed
  PROVE  /\ does # "import" => HeadersThere(rhs)
         /\ does = "document" /\ rhs = <<"document_items">> => package = 0 /\ gImports = <<>>
         /\ does = "import" /\ rhs = <<"IMPORT">> => gImports = <<>>
<1>1. /\ RuleTyped(lhs, rhs, does) /\ RuleSpelled(lhs, rhs, does) /\ lhs # "accept"
      /\ lhs \in FrontSymbols => m = 1
  BY Zenon DEF Falls
<1>2. ASSUME NEW x, rhs[1] = x, lhs \in FrontSymbols, Len(rhs) >= 1
      PROVE  Len(stack) > 1 /\ SymbolOf(stack[2]) = x
  <2>1. m = 1 /\ 1 \in 1..Len(rhs) /\ 1 + 1 = 2
    BY <1>1, <1>2 DEF Falls
  <2>2. SymbolOf(stack[2]) = rhs[1] /\ 2 \in 2..Len(stack)
    BY <2>1 DEF Falls
  <2>3. QED
    BY <1>2, <2>2
<1>3. ASSUME NEW x, rhs = <<x>>, lhs \in FrontSymbols, gImports # <<>>
      PROVE  x \in {"imports", "headers", "document"}
  <2>1. Len(rhs) = 1 /\ rhs[1] = x
    BY <1>3
  <2>2. m = 1 /\ Len(stack) = 2 /\ SymbolOf(stack[2]) = x
    BY <1>1, <1>2, <1>3, <2>1 DEF Falls
  <2>3. PICK k \in 2..Len(stack) : SymbolOf(stack[k]) \in {"imports", "headers", "document"}
    BY <1>3, Zenon DEF Headed
  <2>4. k = 2
    BY <2>2, <2>3
  <2>5. QED
    BY <2>2, <2>3, <2>4
<1>4. /\ \A k \in 1..Len(rhs) : /\ rhs[k] \in FrontSymbols => lhs \in FrontSymbols \cup {"accept"}
                                /\ rhs[k] \in {"imports", "headers", "document"} =>
                                     lhs \in {"imports", "headers", "document", "accept"}
      /\ does = "import" <=> lhs = "imports"
      /\ does = "document" <=> lhs = "document"
  BY <1>1, Zenon DEF RuleSpelled, RuleTyped
<1>5. "package" \in FrontSymbols /\ "headers" \in FrontSymbols /\ "document" \in FrontSymbols
      /\ "imports" \notin FrontSymbols /\ "document_items" \notin FrontSymbols
  BY Zenon DEF FrontSymbols
<1>6. /\ Len(stack) > 1 /\ package # 0 => SymbolOf(stack[2]) \in FrontSymbols
      /\ Len(stack) > 1 /\ SymbolOf(stack[2]) = "package" => package # 0
  BY DEF Headed
<1>7. ASSUME does # "import" PROVE HeadersThere(rhs)
  <2>1. CASE rhs = <<"package">>
    <3>1. Len(rhs) = 1 /\ rhs[1] = "package" /\ 1 \in 1..Len(rhs)
      BY <2>1
    <3>2. lhs \in FrontSymbols
      BY <1>1, <1>4, <1>5, <3>1
    <3>3. SymbolOf(stack[2]) = "package" /\ Len(stack) > 1
      BY <1>2, <3>1, <3>2
    <3>4. package # 0
      BY <1>6, <3>3
    <3>5. gImports = <<>>
      BY <1>3, <2>1, <3>2
    <3>6. rhs # <<"imports">> /\ rhs # <<"package", "imports">>
      BY <2>1
    <3>7. QED
      BY <3>4, <3>5, <3>6 DEF HeadersThere
  <2>2. CASE rhs = <<"imports">>
    <3>1. Len(rhs) = 1 /\ rhs[1] = "imports" /\ 1 \in 1..Len(rhs)
      BY <2>2
    <3>2. lhs \in FrontSymbols
      BY <1>1, <1>4, <1>5, <1>7, <3>1
    <3>3. SymbolOf(stack[2]) = "imports" /\ Len(stack) > 1
      BY <1>2, <3>1, <3>2
    <3>4. package = 0
      BY <1>5, <1>6, <3>3
    <3>5. rhs # <<"package">> /\ rhs # <<"package", "imports">>
      BY <2>2
    <3>6. QED
      BY <3>4, <3>5 DEF HeadersThere
  <2>3. CASE rhs = <<"package", "imports">>
    <3>1. Len(rhs) = 2 /\ rhs[1] = "package" /\ 1 \in 1..Len(rhs)
      BY <2>3
    <3>2. lhs \in FrontSymbols
      BY <1>1, <1>4, <1>5, <3>1
    <3>3. SymbolOf(stack[2]) = "package" /\ Len(stack) > 1
      BY <1>2, <3>1, <3>2
    <3>4. package # 0
      BY <1>6, <3>3
    <3>5. rhs # <<"package">> /\ rhs # <<"imports">>
      BY <2>3
    <3>6. QED
      BY <3>4, <3>5 DEF HeadersThere
  <2>4. QED
    BY <2>1, <2>2, <2>3, Zenon DEF HeadersThere
<1>8. ASSUME does = "document", rhs = <<"document_items">> PROVE package = 0 /\ gImports = <<>>
  <2>1. lhs \in FrontSymbols /\ Len(rhs) = 1 /\ rhs[1] = "document_items"
    BY <1>4, <1>5, <1>8
  <2>2. SymbolOf(stack[2]) = "document_items" /\ Len(stack) > 1
    BY <1>2, <2>1
  <2>3. package = 0
    BY <1>5, <1>6, <2>2
  <2>4. gImports = <<>>
    BY <1>3, <1>8, <2>1
  <2>5. QED
    BY <2>3, <2>4
<1>9. ASSUME does = "import", rhs = <<"IMPORT">> PROVE gImports = <<>>
  <2>1. Explained(stack) /\ Len(rhs) = 1 /\ rhs[1] = "IMPORT" /\ Len(stack) \in Nat
    BY <1>9, StatesOf DEF Falls, Tops, Stands
  <2>2. PICK q : q = m + 1
    OBVIOUS
  <2>3. q \in 2..Len(stack) /\ SymbolOf(stack[q]) = "IMPORT" /\ Len(stack) = q
    <3>1. 1 \in 1..Len(rhs)
      BY <2>1
    <3>2. QED
      BY <2>1, <2>2, <3>1 DEF Falls
  <2>4. \A k \in 2..q : SymbolOf(stack[k]) \in HeaderSymbols
    <3>1. "IMPORT" \in HeaderSymbols
      BY Zenon DEF HeaderSymbols
    <3>2. QED
      BY <2>1, <2>3, <3>1, HeadersBelow
  <2>5. \A k \in 2..Len(stack) : SymbolOf(stack[k]) \notin {"imports", "headers", "document"}
    BY <2>3, <2>4 DEF HeaderSymbols
  <2>6. QED
    BY <2>5, Zenon DEF Headed
<1>10. QED
  BY <1>7, <1>8, <1>9

\* The text of an import and of the imports after it, and that of a whole document.
LEMMA ImportSide ==
  ASSUME NEW lhs, NEW rhs, NEW v, RuleSpelled(lhs, rhs, "import"), Stand(rhs, v), Noted,
         rhs = <<"IMPORT">> => gImports = <<>>
  PROVE  Side(rhs, v) = Text(<<v[1]>> \o gImports) /\ <<v[1]>> \o gImports \in Seq(Nat)
<1>1. rhs \in {<<"IMPORT">>, <<"IMPORT", "imports">>}
  BY Zenon DEF RuleSpelled
<1>2. rhs[1] = "IMPORT" /\ 1 \in 1..Len(rhs)
  BY <1>1
<1>3. v[1] \in Nat /\ Said(rhs, v, 1) = <<file[v[1]]>>
  BY <1>2, NamesAre, SaidName
<1>4. PICK a, g : a = <<v[1]>> /\ g = gImports
  OBVIOUS
<1>5. a \in Seq(Nat) /\ g \in Seq(Nat) /\ a \o g \in Seq(Nat)
  BY <1>3, <1>4 DEF Noted
<1>6. Text(a) = <<file[v[1]]>>
  BY <1>3, <1>4, TextFew, Zenon
<1>7. Text(a \o g) = Text(a) \o Text(g)
  BY <1>5, TextJoined
<1>8. CASE rhs = <<"IMPORT">>
  <2>1. Len(rhs) = 1 /\ g = <<>>
    BY <1>4, <1>8
  <2>2. Side(rhs, v) = <<file[v[1]]>>
    BY <1>3, <2>1, SideOf, Zenon
  <2>3. a \o g = a
    BY <1>5, <2>1
  <2>4. QED
    BY <1>4, <1>5, <1>6, <2>2, <2>3, Zenon
<1>9. CASE rhs = <<"IMPORT", "imports">>
  <2>1. Len(rhs) = 2 /\ rhs[2] = "imports"
    BY <1>9
  <2>2. Side(rhs, v) = Said(rhs, v, 1) \o Said(rhs, v, 2)
    BY <2>1, SideOf, Zenon
  <2>3. Said(rhs, v, 2) = Spelling("imports", v[2])
    BY <2>1, SaidAs
  <2>4. Said(rhs, v, 2) = Text(g)
    BY <1>4, <2>3, SpellingHeaders, Zenon
  <2>5. QED
    BY <1>3, <1>4, <1>5, <1>6, <1>7, <2>2, <2>4, Zenon
<1>10. QED
  BY <1>1, <1>8, <1>9

\* The document says the headers and the declarations.
LEMMA DocumentSide ==
  ASSUME NEW lhs, NEW rhs, NEW v, RuleSpelled(lhs, rhs, "document"), Stand(rhs, v), Noted,
         Len(v) = Len(rhs),
         rhs = <<"document_items">> => package = 0 /\ gImports = <<>>
  PROVE  /\ Side(rhs, v) = (PackageText \o Text(gImports)) \o ItemsText(Last(v))
         /\ Len(rhs) \in 1..Len(rhs) /\ rhs[Len(rhs)] = "document_items" /\ Last(v) = v[Len(rhs)]
<1>1. rhs \in {<<"document_items">>, <<"headers", "document_items">>}
  BY Zenon DEF RuleSpelled
<1>2. Len(rhs) \in 1..Len(rhs) /\ rhs[Len(rhs)] = "document_items" /\ Len(rhs) \in Nat
  BY <1>1
<1>3. Last(v) = v[Len(rhs)]
  BY Zenon DEF Last
<1>4. PICK items : items = v[Len(rhs)]
  OBVIOUS
<1>5. Said(rhs, v, Len(rhs)) = ItemsText(items) /\ ItemsText(items) \in Seq(Letters)
  <2>1. Said(rhs, v, Len(rhs)) = Spelling("document_items", items)
    BY <1>2, <1>4, SaidAs
  <2>2. Said(rhs, v, Len(rhs)) \in Seq(Letters)
    BY <1>2, SideTyped
  <2>3. QED
    BY <2>1, <2>2, SpellingItems, Zenon
<1>6. CASE rhs = <<"document_items">>
  <2>1. Len(rhs) = 1
    BY <1>6
  <2>2. Side(rhs, v) = ItemsText(items)
    BY <1>5, <2>1, SideOf, Zenon
  <2>3. PackageText = <<>> /\ Text(gImports) = <<>>
    BY <1>6, TextFew, Zenon DEF PackageText
  <2>4. <<>> \o <<>> = <<>> /\ <<>> \o ItemsText(items) = ItemsText(items)
    BY <1>5, WordsOf, TextsJoined, Zenon
  <2>5. QED
    BY <1>2, <1>3, <1>4, <2>2, <2>3, <2>4, Zenon
<1>7. CASE rhs = <<"headers", "document_items">>
  <2>1. Len(rhs) = 2 /\ rhs[1] = "headers"
    BY <1>7
  <2>2. Side(rhs, v) = Said(rhs, v, 1) \o Said(rhs, v, 2)
    BY <2>1, SideOf, Zenon
  <2>3. Said(rhs, v, 1) = Spelling("headers", v[1])
    BY <2>1, SaidAs
  <2>4. Said(rhs, v, 1) = PackageText \o Text(gImports)
    BY <2>3, SpellingHeaders, Zenon
  <2>5. QED
    BY <1>2, <1>3, <1>4, <1>5, <2>1, <2>2, <2>4, Zenon
<1>8. QED
  BY <1>1, <1>6, <1>7

\* An item is made in the package of the file.
LEMMA MadePackaged ==
  ASSUME NEW r, NEW rhs, NEW m, NEW v, NEW lhs, NEW does, Falls(r, rhs, m, v, lhs, does), Carried
  PROVE  /\ Packaged(lhs, Value(does, v))
         /\ \A k \in 1..Len(rhs) : Packaged(rhs[k], v[k])
<1>1. /\ RuleTyped(lhs, rhs, does) /\ RuleSpelled(lhs, rhs, does) /\ ~Traceless(does, rhs, v)
      /\ Len(rhs) \in Nat
  BY Zenon DEF Falls
<1>2. \A k \in 1..Len(rhs) : Packaged(rhs[k], v[k])
  BY Zenon DEF Falls, Carried
<1>3. /\ does \in {"accept", "nothing"} => lhs \in {"accept", "headers", "package", "interface_keywords"}
      /\ (lhs = "document" <=> does = "document") /\ (lhs = "imports" <=> does = "import")
      /\ does = "append_item" => lhs \in {"document_items", "interface_items"}
      /\ does = "append_item" /\ lhs = "document_items" => rhs[1] = lhs /\ rhs[2] = "declaration"
      /\ does = "no_items" => lhs \in {"document_items", "interface_items", "arg_list"}
      /\ does \in {"parcelable", "flattenable"} => lhs = "parcelable_decl"
  BY <1>1, Zenon DEF RuleTyped
<1>4. /\ does \in {"binder", "oneway_binder", "rpc"} => lhs = "interface_header"
      /\ does = "interface" => lhs = "interface_decl"
      /\ does \in {"method", "oneway_method"} => lhs = "method_decl"
      /\ does \in {"one_arg", "append_arg"} => lhs = "arg_list"
      /\ does = "arg" => lhs = "arg"
      /\ does = "no_direction" => lhs = "direction"
      /\ does \in {"plain", "array"} => lhs = "type"
  BY <1>1, Zenon DEF RuleTyped
<1>5. /\ does = "first" /\ lhs = "declaration" =>
           Len(rhs) = 1 /\ rhs[1] \in {"parcelable_decl", "interface_decl", "declaration"}
      /\ does = "first" => lhs \in {"declaration", "direction"}
      /\ does = "append_item" => Len(rhs) = 2
      /\ does # "null"
  BY <1>1, Zenon DEF RuleTyped, RuleSpelled, Traceless
<1>6. does \in {"accept", "nothing", "document", "import", "no_items", "append_item", "first", "null",
                "parcelable", "flattenable", "binder", "oneway_binder", "rpc", "interface", "method",
                "oneway_method", "one_arg", "append_arg", "arg", "no_direction", "plain", "array"}
  BY <1>1, Zenon DEF RuleTyped
<1>7. CASE lhs \in DeclarationSymbols
  <2>1. does \in {"first", "parcelable", "flattenable", "interface"}
    BY <1>3, <1>4, <1>5, <1>6, <1>7 DEF DeclarationSymbols
  <2>2. Value(does, v) # Absent /\ Value(does, v).package = package
    <3>1. CASE does = "first"
      <4>1. lhs = "declaration"
        BY <1>5, <1>7, <3>1 DEF DeclarationSymbols
      <4>2. 1 \in 1..Len(rhs) /\ rhs[1] \in DeclarationSymbols
        BY <1>5, <3>1, <4>1 DEF DeclarationSymbols
      <4>3. v[1] # Absent /\ v[1].package = package
        BY <1>2, <4>2, Zenon DEF Packaged
      <4>4. QED
        BY <3>1, <4>3, ValueIs, Zenon
    <3>2. CASE does \in {"parcelable", "flattenable"}
      <4>1. Value(does, v) = [kind |-> does, name |-> v[2], package |-> package]
        BY <3>2, ValueIs, Zenon
      <4>2. PICK value : value = Value(does, v)
        OBVIOUS
      <4>3. value.kind = does /\ value.package = package /\ does # "null"
        BY <3>2, <4>1, <4>2
      <4>4. value # Absent
        BY <4>3 DEF Absent
      <4>5. QED
        BY <4>2, <4>3, <4>4
    <3>3. CASE does = "interface"
      <4>1. Value(does, v) = [kind |-> v[1], name |-> v[2], package |-> package, items |-> v[4]]
        BY <3>3, ValueIs, Zenon
      <4>2. PICK value : value = Value(does, v)
        OBVIOUS
      <4>3. value.package = package /\ "package" \in DOMAIN value
        BY <4>1, <4>2
      <4>4. value # Absent
        BY <4>3 DEF Absent
      <4>5. QED
        BY <4>2, <4>3, <4>4
    <3>4. QED
      BY <2>1, <3>1, <3>2, <3>3
  <2>3. lhs # "document_items"
    BY <1>7, Zenon DEF DeclarationSymbols
  <2>4. QED
    BY <1>2, <2>2, <2>3, Zenon DEF Packaged
<1>8. CASE lhs = "document_items"
  <2>1. does \in {"no_items", "append_item"}
    BY <1>3, <1>4, <1>5, <1>6, <1>8
  <2>2. lhs \notin DeclarationSymbols
    BY <1>8, Zenon DEF DeclarationSymbols
  <2>3. CASE does = "no_items"
    <3>1. Value(does, v) = <<>>
      BY <2>3, ValueIs, Zenon
    <3>2. \A k \in DOMAIN <<>> : FALSE
      OBVIOUS
    <3>3. QED
      BY <1>2, <2>2, <3>1, <3>2, Zenon DEF Packaged
  <2>4. CASE does = "append_item"
    <3>1. /\ 1 \in 1..Len(rhs) /\ 2 \in 1..Len(rhs) /\ rhs[1] = "document_items" /\ rhs[2] = "declaration"
      BY <1>3, <1>5, <1>8, <2>4
    <3>2. PICK items, item : items = v[1] /\ item = v[2]
      OBVIOUS
    <3>3. "declaration" \in DeclarationSymbols
      BY Zenon DEF DeclarationSymbols
    <3>4. /\ item # Absent /\ item.package = package /\ \A k \in DOMAIN items : items[k].package = package
      BY <1>2, <3>1, <3>2, <3>3, Zenon DEF Packaged
    <3>5. items \in Seq(ItemNode)
      <4>1. Means("document_items", v[1])
        <5>1. Given(rhs, v)
          BY Zenon DEF Falls
        <5>2. QED
          BY <3>1, <5>1, Zenon DEF Given
      <4>2. QED
        BY <3>2, <4>1, MeansItems
    <3>6. Value(does, v) = Append(items, item)
      BY <2>4, <3>2, <3>4, ValueIs, Zenon
    <3>7. PICK more : more = Append(items, item)
      OBVIOUS
    <3>8. ASSUME NEW k \in DOMAIN more PROVE more[k].package = package
      <4>1. PICK E : E = ItemNode \cup {item}
        OBVIOUS
      <4>2. items \in Seq(E) /\ item \in E
        BY <3>5, <4>1
      <4>3. PICK n : n = Len(items)
        OBVIOUS
      <4>4. /\ n \in Nat /\ DOMAIN items = 1..n /\ DOMAIN more = 1..(n + 1) /\ more[n + 1] = item
            /\ \A j \in 1..n : more[j] = items[j]
        BY <3>7, <4>2, <4>3, Longer
      <4>5. k \in 1..n \/ k = n + 1
        BY <4>4
      <4>6. QED
        BY <3>4, <4>4, <4>5
    <3>9. QED
      BY <1>2, <2>2, <3>6, <3>7, <3>8, Zenon DEF Packaged
  <2>5. QED
    BY <2>1, <2>3, <2>4
<1>9. CASE lhs \notin DeclarationSymbols /\ lhs # "document_items"
  BY <1>2, <1>9, Zenon DEF Packaged
<1>10. QED
  BY <1>7, <1>8, <1>9

\* A symbol more is its text more, also after a step.
TextsAdd ==
  Noted => \A s, e : Stands(s) /\ Stands(Append(s, e)) =>
                       Spelled(Append(s, e)) = Spelled(s) \o SpellingOf(e)

\* Of this state and of the next.
LEMMA TextsAdded == TextsAdd
<1>1. ASSUME Noted, NEW s, NEW e, Stands(s), Stands(Append(s, e))
      PROVE  Spelled(Append(s, e)) = Spelled(s) \o SpellingOf(e)
  BY <1>1, SpelledPushed
<1>2. QED
  BY <1>1 DEF TextsAdd

LEMMA TextsAddedNext == TextsAdd'
BY TextsAdded, PTL

\* The invariant has what the lemmas on texts need, in this state and in the next.
LEMMA NotedAlways == IInv => Noted
BY NotedThere

LEMMA NotedNext == IInv' => Noted'
BY NotedAlways, PTL

LEMMA TextsNext ==
  ASSUME Noted', NEW s, NEW e, Stands(s), Stands(Append(s, e))
  PROVE  Spelled(Append(s, e))' = Spelled(s)' \o SpellingOf(e)'
<1>1. \A s_1, e_1 : Stands(s_1) /\ Stands(Append(s_1, e_1)) =>
                      Spelled(Append(s_1, e_1))' = Spelled(s_1)' \o SpellingOf(e_1)'
  BY TextsAddedNext DEF TextsAdd
<1>2. QED
  BY <1>1

-----------------------------------------------------------------------------
(* A reduction keeps the text.                                             *)

\* What the callbacks do to the headers and the document.
Called(does, v) ==
  /\ file' = file /\ started' = started /\ package' = package
  /\ gImports' = IF does = "import" THEN <<v[1]>> \o gImports ELSE gImports
  /\ document' = IF does = "document" THEN Last(v) ELSE document

HeaderTexts ==
  \A v : Spelling("imports", v) = Text(gImports) /\ Spelling("document", v) = DocumentText

\* Of this state and of the next.
LEMMA HeaderTextsAre == HeaderTexts
BY SpellingHeaders, Zenon DEF HeaderTexts

LEMMA HeaderTextsNext == HeaderTexts'
BY HeaderTextsAre, PTL

LEMMA HeadersNext ==
  \A v : Spelling("imports", v)' = Text(gImports)' /\ Spelling("document", v)' = DocumentText'
BY HeaderTextsNext DEF HeaderTexts

\* The symbol it makes has the text of what it is made of.
LEMMA MadeText ==
  ASSUME NEW r, NEW rhs, NEW m, NEW v, NEW lhs, NEW does, Falls(r, rhs, m, v, lhs, does), Headed,
         Noted, Stand(rhs, v), Called(does, v), NEW value, value = Value(does, v)
  PROVE  Spelling(lhs, value)' = Side(rhs, v)
<1>1. /\ RuleTyped(lhs, rhs, does) /\ RuleSpelled(lhs, rhs, does) /\ ~Traceless(does, rhs, v)
      /\ lhs \notin {"accept", "interface_keywords"} /\ Len(v) = Len(rhs)
  BY Zenon DEF Falls
<1>2. /\ does # "import" => HeadersThere(rhs)
      /\ does = "document" /\ rhs = <<"document_items">> => package = 0 /\ gImports = <<>>
      /\ does = "import" /\ rhs = <<"IMPORT">> => gImports = <<>>
  BY HeadersNoted
<1>3. file' = file /\ package' = package
  BY DEF Called
<1>4. (lhs = "document" <=> does = "document") /\ (lhs = "imports" <=> does = "import")
  BY <1>1, Zenon DEF RuleTyped
<1>5. CASE does \notin {"import", "document"}
  <2>1. UNCHANGED <<package, gImports, document>>
    BY <1>5 DEF Called
  <2>2. Spelling(lhs, value)' = Spelling(lhs, value)
    BY <1>3, <2>1, SpellingKept, Zenon
  <2>3. Spelling(lhs, Value(does, v)) = Side(rhs, v)
    BY <1>1, <1>2, <1>5, SpelledValue, Zenon
  <2>4. QED
    BY <2>2, <2>3, Zenon
<1>6. CASE does = "import"
  <2>1. lhs = "imports" /\ RuleSpelled(lhs, rhs, "import") /\ (rhs = <<"IMPORT">> => gImports = <<>>)
    BY <1>1, <1>2, <1>4, <1>6, Zenon
  <2>2. Side(rhs, v) = Text(<<v[1]>> \o gImports)
    BY <2>1, ImportSide
  <2>3. PICK g : g = <<v[1]>> \o gImports
    OBVIOUS
  <2>4. gImports' = g
    BY <1>6, <2>3 DEF Called
  <2>5. Text(g)' = Text(g)
    BY <1>3, TextKept, Zenon
  <2>6. Text(gImports)' = Text(g)'
    BY <2>4
  <2>7. Spelling("imports", value)' = Text(gImports)'
    BY HeadersNext, Zenon
  <2>8. QED
    BY <2>1, <2>2, <2>3, <2>5, <2>6, <2>7
<1>7. CASE does = "document"
  <2>1. lhs = "document" /\ RuleSpelled(lhs, rhs, "document")
        /\ (rhs = <<"document_items">> => package = 0 /\ gImports = <<>>)
    BY <1>1, <1>2, <1>4, <1>7, Zenon
  <2>2. Side(rhs, v) = (PackageText \o Text(gImports)) \o ItemsText(Last(v))
    BY <1>1, <2>1, DocumentSide
  <2>3. PICK g, items : g = gImports /\ items = Last(v)
    OBVIOUS
  <2>4. gImports' = g /\ document' = items
    BY <1>7, <2>3 DEF Called
  <2>5. Text(gImports)' = Text(g)' /\ Text(g)' = Text(g)
    BY <1>3, <2>4, TextKept
  <2>6. ItemsText(document)' = ItemsText(items)' /\ ItemsText(items)' = ItemsText(items)
    BY <1>3, <2>4, ItemsTextKept
  <2>7. PackageText' = PackageText
    BY <1>3, Zenon DEF PackageText
  <2>8. DocumentText' = (PackageText' \o Text(gImports)') \o ItemsText(document)'
    BY Zenon DEF DocumentText
  <2>9. Spelling("document", value)' = DocumentText'
    BY HeadersNext, Zenon
  <2>10. QED
    BY <2>1, <2>2, <2>3, <2>5, <2>6, <2>7, <2>8, <2>9
<1>8. QED
  BY <1>5, <1>6, <1>7

\* What is below it keeps its own.
LEMMA BelowKept ==
  ASSUME NEW r, NEW rhs, NEW m, NEW v, NEW lhs, NEW does, Falls(r, rhs, m, v, lhs, does),
         Called(does, v), NEW less, less = SubSeq(stack, 1, m)
  PROVE  Spelled(less)' = Spelled(less)
<1>1. /\ RuleTyped(lhs, rhs, does) /\ RuleSpelled(lhs, rhs, does) /\ Tops(stack, r, rhs, m, v)
      /\ lhs \in FrontSymbols => m = 1
  BY Zenon DEF Falls
<1>2. /\ m \in Nat /\ 1 <= m /\ m \in 1..Len(stack) /\ Len(stack) = m + Len(rhs) /\ Len(rhs) \in Nat
  BY DEF Falls
<1>3. Explained(stack) /\ InOrder(stack)
  BY <1>1 DEF Tops, Stands
<1>4. /\ Explained(less) /\ Len(less) = m /\ \A k \in 1..m : less[k] = stack[k]
  BY <1>2, <1>3, Popped
<1>5. DOMAIN less = 1..m /\ SymbolOf(less[1]) = "none"
  <2>1. DOMAIN less = 1..m
    BY <1>4, StatesOf
  <2>2. SymbolOf(less[1]) = "none"
    BY <1>4, RuleForms DEF Explained, SymbolOf, TablesTyped
  <2>3. QED
    BY <2>1, <2>2
<1>6. file' = file
  BY DEF Called
<1>7. "none" \notin WithHeaders
  BY Zenon DEF WithHeaders
<1>8. CASE does \notin {"import", "document"}
  <2>1. UNCHANGED <<package, gImports, document>>
    BY <1>8 DEF Called
  <2>2. QED
    BY <1>6, <2>1, SpelledKept, Zenon
<1>9. CASE does = "import"
  <2>1. 1 \in 1..Len(rhs) /\ rhs[1] = "IMPORT"
    <3>1. 1 <= Len(rhs) /\ rhs[1] = "IMPORT"
      BY <1>1, <1>9, Zenon DEF RuleTyped
    <3>2. QED
      BY <1>2, <3>1
  <2>2. PICK q : q = m + 1
    OBVIOUS
  <2>3. q \in 2..Len(stack) /\ SymbolOf(stack[q]) = "IMPORT"
    BY <2>1, <2>2 DEF Falls
  <2>4. \A k \in 2..q : SymbolOf(stack[k]) \in HeaderSymbols
    <3>1. "IMPORT" \in HeaderSymbols
      BY Zenon DEF HeaderSymbols
    <3>2. QED
      BY <1>3, <2>3, <3>1, HeadersBelow
  <2>5. \A x \in HeaderSymbols : x \notin WithHeaders
    BY Zenon DEF HeaderSymbols, WithHeaders
  <2>6. ASSUME NEW k \in DOMAIN less PROVE SymbolOf(less[k]) \notin WithHeaders
    <3>1. CASE k = 1
      BY <1>5, <1>7, <3>1
    <3>2. CASE k # 1
      <4>1. k \in 2..q /\ k \in 1..m
        BY <1>2, <1>5, <2>2, <3>2
      <4>2. QED
        BY <1>4, <2>4, <2>5, <4>1
    <3>3. QED
      BY <3>1, <3>2
  <2>7. QED
    BY <1>6, <2>6, SpelledKept, Zenon
<1>10. CASE does = "document"
  <2>1. lhs = "document"
    BY <1>1, <1>10, Zenon DEF RuleTyped
  <2>2. m = 1
    BY <1>1, <2>1, Zenon DEF FrontSymbols
  <2>3. \A k \in DOMAIN less : SymbolOf(less[k]) \notin WithHeaders
    BY <1>5, <1>7, <2>2
  <2>4. QED
    BY <1>6, <2>3, SpelledKept, Zenon
<1>11. QED
  BY <1>8, <1>9, <1>10

\* The stack says after a reduction what it said before.
LEMMA ReduceText ==
  ASSUME NEW r, NEW rhs, NEW m, NEW v, NEW lhs, NEW does, Falls(r, rhs, m, v, lhs, does), Headed,
         Noted, Noted', Called(does, v), NEW e, Stands(stack'),
         Reduced(stack, m, lhs, Value(does, v), e, stack'), SymbolOf(e) = lhs
  PROVE  Spelled(stack)' = Spelled(stack)
<1>1. PICK s, more, less, value :
        s = stack /\ more = stack' /\ less = SubSeq(s, 1, m) /\ value = Value(does, v)
  OBVIOUS
<1>2. /\ Stands(less) /\ Stand(rhs, v) /\ Spelled(s) = Spelled(less) \o Side(rhs, v)
  <2>1. Tops(s, r, rhs, m, v)
    BY <1>1 DEF Falls
  <2>2. /\ Stands(SubSeq(s, 1, m)) /\ Stand(rhs, v)
        /\ Spelled(s) = Spelled(SubSeq(s, 1, m)) \o Side(rhs, v)
    BY <2>1, SpelledSplit
  <2>3. QED
    BY <1>1, <2>2
<1>3. more = Append(less, e) /\ e.value = value
  BY <1>1 DEF Reduced
<1>4. Stands(Append(less, e))
  BY <1>1, <1>3
<1>5. Spelled(Append(less, e))' = Spelled(less)' \o SpellingOf(e)'
  BY <1>2, <1>4, TextsNext
<1>6. Spelled(less)' = Spelled(less)
  BY <1>1, BelowKept
<1>7. SpellingOf(e)' = Spelling(lhs, value)'
  BY <1>3, Zenon DEF SpellingOf
<1>8. Spelling(lhs, value)' = Side(rhs, v)
  BY <1>1, <1>2, MadeText
<1>9. Spelled(more)' = Spelled(s)
  BY <1>2, <1>3, <1>5, <1>6, <1>7, <1>8
<1>10. Spelled(stack)' = Spelled(more)'
  BY <1>1
<1>11. QED
  BY <1>1, <1>9, <1>10

-----------------------------------------------------------------------------
(* A reduction leaves nothing out.                                         *)

\* What a reduction leaves on the stack.
Leaves(m, lhs, does, v, e) ==
  /\ OneMore(stack, m, e, stack') /\ SymbolOf(e) = lhs /\ e.value = Value(does, v)
  /\ Reduced(stack, m, lhs, Value(does, v), e, stack') /\ Called(does, v)
  /\ called' = IF does = "document" THEN called + 1 ELSE called
  /\ UNCHANGED <<read, lookahead, phase, status, gError>>
  /\ lhs \notin {"error", "interface_keywords"}

\* What a reduction leaves of the stack.
LEMMA ReduceLeaves ==
  ASSUME IInv, NEW r, NEW rhs, NEW m, NEW v, NEW e, Reduces(r, rhs, m, v, e), NEW lhs,
         lhs = Rules[r].lhs, NEW does, does = Rules[r].does
  PROVE  Leaves(m, lhs, does, v, e)
<1>1. /\ r \in DOMAIN Rules /\ OnTop(stack, r, rhs, m, v) /\ lhs # "interface_keywords"
      /\ Reduced(stack, m, lhs, Value(does, v), e, stack')
      /\ gImports' = IF does = "import" THEN <<v[1]>> \o gImports ELSE gImports
      /\ IF does = "document" THEN called' = called + 1 /\ document' = Last(v)
                              ELSE UNCHANGED <<called, document>>
      /\ UNCHANGED <<file, started, lex, read, lookahead, status, phase, gError, package>>
  BY Zenon DEF Reduces, Callbacks
<1>2. Explained(stack) /\ InOrder(stack) /\ package \in Nat
  BY NotedThere
<1>3. PICK s, more : s = stack /\ more = stack'
  OBVIOUS
<1>4. Replaces(s, r, rhs, m, v, lhs, does, e, more)
  BY <1>1, <1>2, <1>3, Zenon DEF Replaces
<1>5. OneMore(s, m, e, more) /\ SymbolOf(e) = lhs
  BY <1>2, <1>4, Replaced
<1>6. e.value = Value(does, v)
  BY <1>1 DEF Reduced
<1>7. lhs # "error"
  <2>1. rhs = Rules[r].rhs
    BY <1>1, Zenon DEF OnTop
  <2>2. RuleTyped(lhs, rhs, does)
    BY <1>1, <2>1, RuleForms DEF RulesTyped
  <2>3. "error" \in Terminals
    BY Zenon DEF Terminals
  <2>4. QED
    BY <2>2, <2>3, Zenon DEF RuleTyped
<1>8. Called(does, v)
  <2>1. document' = IF does = "document" THEN Last(v) ELSE document
    BY <1>1
  <2>2. file' = file /\ started' = started /\ package' = package
    BY <1>1
  <2>3. QED
    BY <1>1, <2>1, <2>2, Zenon DEF Called
<1>9. called' = IF does = "document" THEN called + 1 ELSE called
  BY <1>1
<1>10. lhs \notin {"error", "interface_keywords"}
  BY <1>1, <1>7
<1>11. UNCHANGED <<read, lookahead, phase, status, gError>>
  BY <1>1
<1>12. OneMore(stack, m, e, stack')
  BY <1>3, <1>5
<1>13. QED
  BY <1>1, <1>5, <1>6, <1>8, <1>9, <1>10, <1>11, <1>12, Zenon DEF Leaves

\* A reduction puts no symbol of an error on the stack.
LEMMA ReduceSymbols ==
  ASSUME NEW m, NEW lhs, NEW does, NEW v, NEW e, Leaves(m, lhs, does, v, e),
         \A k \in DOMAIN stack : SymbolOf(stack[k]) \notin {"error", "interface_keywords"},
         Explained(stack)
  PROVE  \A k \in DOMAIN stack' : SymbolOf(stack'[k]) \notin {"error", "interface_keywords"}
<1>1. OneMore(stack, m, e, stack') /\ SymbolOf(e) = lhs /\ lhs \notin {"error", "interface_keywords"}
  BY DEF Leaves
<1>2. PICK s, more : s = stack /\ more = stack'
  OBVIOUS
<1>3. /\ Explained(more)
      /\ \A k \in 2..Len(more) : \/ k \in 2..m /\ k \in 2..Len(s) /\ more[k] = s[k]
                                 \/ k = Len(more) /\ more[k] = e
  BY <1>1, <1>2 DEF OneMore
<1>4. /\ DOMAIN more = 1..Len(more) /\ Len(more) \in Nat
      /\ DOMAIN s = 1..Len(s) /\ Len(s) \in Nat
  BY <1>2, <1>3, StatesOf
<1>5. SymbolOf(more[1]) = "none"
  BY <1>3, RuleForms DEF Explained, SymbolOf, TablesTyped
<1>6. ASSUME NEW k \in DOMAIN more PROVE SymbolOf(more[k]) \notin {"error", "interface_keywords"}
  <2>1. k = 1 \/ k \in 2..Len(more)
    BY <1>4
  <2>2. \A j \in 2..Len(s) : j \in DOMAIN s
    BY <1>4
  <2>3. QED
    BY <1>1, <1>2, <1>3, <1>5, <2>1, <2>2
<1>7. QED
  BY <1>2, <1>6

\* The items are still in the package of the file.
LEMMA ReduceCarried ==
  ASSUME NEW r, NEW rhs, NEW m, NEW v, NEW lhs, NEW does, Falls(r, rhs, m, v, lhs, does), Carried,
         NEW e, Leaves(m, lhs, does, v, e), called = 0
  PROVE  Carried'
<1>1. OneMore(stack, m, e, stack') /\ SymbolOf(e) = lhs /\ e.value = Value(does, v) /\ Called(does, v)
      /\ called' = IF does = "document" THEN called + 1 ELSE called
  BY DEF Leaves
<1>2. /\ Packaged(lhs, Value(does, v))
      /\ \A k \in 1..Len(rhs) : Packaged(rhs[k], v[k])
  BY MadePackaged
<1>3. package' = package
  BY <1>1 DEF Called
<1>4. \A x, w : Packaged(x, w) => Packaged(x, w)'
  BY <1>3, Zenon DEF Packaged
<1>5. ASSUME NEW k \in 2..Len(stack') PROVE Packaged(SymbolOf(stack[k]), stack[k].value)'
  <2>1. PICK x, w : x = SymbolOf(stack'[k]) /\ w = stack'[k].value
    OBVIOUS
  <2>2. \/ k \in 2..Len(stack) /\ stack'[k] = stack[k]
        \/ stack'[k] = e
    BY <1>1 DEF OneMore
  <2>3. Packaged(x, w)
    <3>1. CASE k \in 2..Len(stack) /\ stack'[k] = stack[k]
      BY <2>1, <3>1, Zenon DEF Carried
    <3>2. CASE stack'[k] = e
      BY <1>1, <1>2, <2>1, <3>2
    <3>3. QED
      BY <2>2, <3>1, <3>2
  <2>4. Packaged(x, w)'
    BY <1>4, <2>3
  <2>5. QED
    BY <2>1, <2>4
<1>6. ASSUME called' = 1 PROVE Packaged("document_items", document)'
  <2>1. does = "document" /\ document' = Last(v)
    BY <1>1, <1>6 DEF Called
  <2>2. /\ RuleTyped(lhs, rhs, does) /\ Len(v) = Len(rhs) /\ Len(rhs) \in Nat
    BY Zenon DEF Falls
  <2>3. Len(rhs) > 0 /\ rhs[Len(rhs)] = "document_items"
    BY <2>1, <2>2, Zenon DEF RuleTyped
  <2>4. Len(rhs) \in 1..Len(rhs)
    BY <2>2, <2>3
  <2>5. PICK items : items = v[Len(rhs)]
    OBVIOUS
  <2>6. document' = items
    BY <2>1, <2>2, <2>5, Zenon DEF Last
  <2>7. Packaged("document_items", items)
    BY <1>2, <2>3, <2>4, <2>5
  <2>8. Packaged("document_items", items)'
    BY <1>4, <2>7
  <2>9. QED
    BY <2>6, <2>8
<1>7. QED
  BY <1>5, <1>6 DEF Carried

\* A reduction keeps the package and the imports with those on the stack.
LEMMA ReduceHeaded ==
  ASSUME NEW r, NEW rhs, NEW m, NEW v, NEW lhs, NEW does, Falls(r, rhs, m, v, lhs, does), Headed,
         NEW e, Leaves(m, lhs, does, v, e), ~(lookahead # <<>> /\ Token = "PACKAGE")
  PROVE  Headed'
<1>1. /\ OneMore(stack, m, e, stack') /\ SymbolOf(e) = lhs /\ Called(does, v)
      /\ Reduced(stack, m, lhs, Value(does, v), e, stack')
  BY DEF Leaves
<1>2. PICK s, more : s = stack /\ more = stack'
  OBVIOUS
<1>3. /\ m \in Nat /\ 1 <= m /\ Len(s) = m + Len(rhs) /\ Len(rhs) \in Nat
      /\ \A k \in 1..Len(rhs) : m + k \in 2..Len(s) /\ SymbolOf(s[m + k]) = rhs[k]
  BY <1>2 DEF Falls
<1>4. /\ RuleTyped(lhs, rhs, does) /\ RuleSpelled(lhs, rhs, does) /\ lhs \notin Terminals
      /\ lhs # "accept"
  BY Zenon DEF Falls
<1>5. /\ lhs = "package" => rhs = <<"PACKAGE">>
      /\ \A k \in 1..Len(rhs) : /\ rhs[k] \in FrontSymbols => lhs \in FrontSymbols
                                /\ rhs[k] \in {"imports", "headers", "document"} =>
                                     lhs \in {"imports", "headers", "document"}
      /\ does = "import" <=> lhs = "imports"
  BY <1>4, Zenon DEF RuleTyped, RuleSpelled
<1>6. lhs # "PACKAGE"
  BY <1>4, Zenon DEF Terminals, Tokens
<1>7. /\ Len(more) = m + 1 /\ more[m + 1] = e /\ m + 1 > 1
      /\ \A k \in 2..m : k \in 2..Len(s) /\ more[k] = s[k] /\ k \in 2..Len(more)
  <2>1. /\ Len(more) = m + 1 /\ Len(more) > 1 /\ more[Len(more)] = e /\ more = Append(SubSeq(s, 1, m), e)
    BY <1>1, <1>2 DEF OneMore, Reduced
  <2>2. Explained(s) /\ InOrder(s) /\ m \in 1..Len(s)
    BY <1>2 DEF Falls, Tops, Stands
  <2>3. PICK less : less = SubSeq(s, 1, m)
    OBVIOUS
  <2>4. Explained(less) /\ Len(less) = m /\ \A k \in 1..m : less[k] = s[k]
    BY <2>2, <2>3, Popped
  <2>5. DOMAIN less = 1..m /\ Len(s) \in Nat
    BY <2>2, <2>4, StatesOf
  <2>6. ASSUME NEW k \in 2..m PROVE k \in 2..Len(s) /\ more[k] = s[k] /\ k \in 2..Len(more)
    <3>1. k \in 1..m
      BY <1>3
    <3>2. PICK E : less \in Seq(E)
      BY <2>4 DEF Explained
    <3>3. PICK F : F = E \cup {e}
      OBVIOUS
    <3>4. less \in Seq(F) /\ e \in F
      BY <3>2, <3>3
    <3>5. Append(less, e)[k] = less[k]
      BY <2>4, <3>1, <3>4
    <3>6. k \in 2..Len(s) /\ k \in 2..Len(more)
      BY <1>3, <2>1, <2>2, <2>5
    <3>7. QED
      BY <2>1, <2>3, <2>4, <3>1, <3>5, <3>6
  <2>7. QED
    BY <1>3, <2>1, <2>6
<1>8. /\ Len(s) = 1 => package = 0
      /\ Len(s) > 1 =>
           /\ package # 0 => SymbolOf(s[2]) \in FrontSymbols
           /\ SymbolOf(s[2]) \in {"PACKAGE", "package"} => package # 0
      /\ gImports # <<>> =>
           \E k \in 2..Len(s) : SymbolOf(s[k]) \in {"imports", "headers", "document"}
  BY <1>2 DEF Headed
<1>9. /\ package # 0 => SymbolOf(more[2]) \in FrontSymbols
      /\ SymbolOf(more[2]) \in {"PACKAGE", "package"} => package # 0
  <2>1. CASE m = 1
    <3>1. SymbolOf(more[2]) = lhs
      BY <1>1, <1>7, <2>1
    <3>2. CASE Len(rhs) = 0
      <4>1. package = 0
        BY <1>3, <1>8, <2>1, <3>2
      <4>2. lhs # "package"
        BY <1>5, <3>2
      <4>3. QED
        BY <1>6, <3>1, <4>1, <4>2
    <3>3. CASE Len(rhs) # 0
      <4>1. 1 \in 1..Len(rhs) /\ m + 1 = 2 /\ Len(s) > 1
        BY <1>3, <2>1, <3>3
      <4>2. SymbolOf(s[2]) = rhs[1]
        BY <1>3, <4>1
      <4>3. package # 0 => lhs \in FrontSymbols
        BY <1>5, <1>8, <4>1, <4>2
      <4>4. lhs = "package" => package # 0
        <5>1. SUFFICES ASSUME lhs = "package" PROVE package # 0
          OBVIOUS
        <5>2. rhs[1] = "PACKAGE"
          BY <1>5, <5>1
        <5>3. QED
          BY <1>8, <4>1, <4>2, <5>2
      <4>5. QED
        BY <1>6, <3>1, <4>3, <4>4
    <3>4. QED
      BY <3>2, <3>3
  <2>2. CASE m # 1
    <3>1. 2 \in 2..m /\ Len(s) > 1
      BY <1>3, <2>2
    <3>2. more[2] = s[2]
      BY <1>7, <3>1
    <3>3. QED
      BY <1>8, <3>1, <3>2
  <2>3. QED
    BY <2>1, <2>2
<1>10. ASSUME gImports' # <<>>
       PROVE  \E k \in 2..Len(more) : SymbolOf(more[k]) \in {"imports", "headers", "document"}
  <2>1. m + 1 \in 2..Len(more) /\ SymbolOf(more[m + 1]) = lhs
    BY <1>1, <1>3, <1>7
  <2>2. CASE does = "import"
    BY <1>5, <2>1, <2>2
  <2>3. CASE does # "import"
    <3>1. gImports # <<>>
      BY <1>1, <1>10, <2>3 DEF Called
    <3>2. PICK k \in 2..Len(s) : SymbolOf(s[k]) \in {"imports", "headers", "document"}
      BY <1>8, <3>1
    <3>3. CASE k <= m
      <4>1. k \in 2..m
        BY <3>3
      <4>2. QED
        BY <1>7, <3>2, <4>1
    <3>4. CASE ~(k <= m)
      <4>1. PICK j \in 1..Len(rhs) : k = m + j
        <5>1. k - m \in 1..Len(rhs) /\ k = m + (k - m)
          BY <1>3, <3>4
        <5>2. QED
          BY <5>1
      <4>2. rhs[j] \in {"imports", "headers", "document"}
        BY <1>3, <3>2, <4>1
      <4>3. QED
        BY <1>5, <2>1, <4>2
    <3>5. QED
      BY <3>3, <3>4
  <2>4. QED
    BY <2>2, <2>3
<1>11. package' = package /\ Len(more) > 1 /\ Len(more) # 1
  BY <1>1, <1>3, <1>7 DEF Called
<1>12. /\ Len(stack') > 1 /\ Len(stack') # 1
       /\ package' # 0 => SymbolOf(stack'[2]) \in FrontSymbols
       /\ SymbolOf(stack'[2]) \in {"PACKAGE", "package"} => package' # 0
       /\ gImports' # <<>> =>
            \E k \in 2..Len(stack') : SymbolOf(stack'[k]) \in {"imports", "headers", "document"}
  BY <1>2, <1>9, <1>10, <1>11
<1>13. QED
  BY <1>12, Zenon DEF Headed

\* A reduction loses nothing.
LEMMA ReduceUndisturbed ==
  ASSUME IInv, IInv', Undisturbed, NEW here, here = Tables[stack[Len(stack)].state], Reduce(here)
  PROVE  Undisturbed'
<1>1. PICK r, rhs, m, v, e : Reduces(r, rhs, m, v, e)
  BY ReduceReduces
<1>2. PICK lhs, does : lhs = Rules[r].lhs /\ does = Rules[r].does
  OBVIOUS
<1>3. Leaves(m, lhs, does, v, e) /\ called = 0
  BY <1>1, <1>2, ReduceLeaves, ReduceReduces
<1>4. /\ UNCHANGED <<file, started, read, lookahead, phase, status, gError, package>>
      /\ OneMore(stack, m, e, stack') /\ Called(does, v) /\ SymbolOf(e) = lhs
      /\ Reduced(stack, m, lhs, Value(does, v), e, stack')
  BY <1>3 DEF Leaves, Called
<1>5. /\ \A k : IsWritten(k)' <=> IsWritten(k)
      /\ \A n : Text(WrittenUpto(n))' = Text(WrittenUpto(n))
      /\ Slip' <=> Slip
  BY <1>4, WrittenKept
<1>6. SUFFICES ASSUME ~gError, ~Slip
      PROVE  /\ phase' \in {"parsing", "accepted"} /\ status' = 0
             /\ \A k \in DOMAIN stack' : SymbolOf(stack'[k]) \notin {"error", "interface_keywords"}
             /\ lookahead' # <<>> /\ read' <= Len(file)' => IsWritten(read)'
             /\ ~Belated' => Clear'
  BY <1>4, <1>5 DEF Undisturbed
<1>7. /\ phase \in {"parsing", "accepted"} /\ status = 0
      /\ \A k \in DOMAIN stack : SymbolOf(stack[k]) \notin {"error", "interface_keywords"}
      /\ lookahead # <<>> /\ read <= Len(file) => IsWritten(read)
      /\ ~Belated => Clear
  BY <1>6 DEF Undisturbed
<1>8. /\ Noted /\ Explained(stack) /\ package \in Nat
  BY NotedThere
<1>9. \A k \in DOMAIN stack' : SymbolOf(stack'[k]) \notin {"error", "interface_keywords"}
  BY <1>3, <1>7, <1>8, ReduceSymbols
<1>10. lookahead' # <<>> /\ read' <= Len(file)' => IsWritten(read)'
  <2>1. PICK k : k = read
    OBVIOUS
  <2>2. IsWritten(k)' <=> IsWritten(k)
    BY <1>5
  <2>3. IsWritten(read)' <=> IsWritten(k)'
    BY <1>4, <2>1
  <2>4. QED
    BY <1>4, <1>7, <2>1, <2>2, <2>3
<1>11. ASSUME ~Belated' PROVE Clear'
  <2>1. ~(lookahead # <<>> /\ Token = "PACKAGE")
    <3>1. Len(stack') > 1
      BY <1>4 DEF OneMore
    <3>2. Token' = Token
      BY <1>4 DEF Token
    <3>3. QED
      BY <1>4, <1>11, <3>1, <3>2 DEF Belated
  <2>2. Clear
    BY <1>7, <2>1 DEF Belated
  <2>3. Headed /\ Carried /\ Text(WrittenUpto(Gone)) = Spelled(stack)
    BY <2>2 DEF Clear
  <2>4. Falls(r, rhs, m, v, lhs, does)
    <3>1. \A k \in DOMAIN stack : SymbolOf(stack[k]) # "error"
      BY <1>7
    <3>2. QED
      BY <1>1, <1>2, <1>6, <2>2, <3>1, ReduceRule
  <2>5. Headed'
    BY <1>3, <2>1, <2>3, <2>4, ReduceHeaded
  <2>6. Carried'
    BY <1>3, <2>3, <2>4, ReduceCarried
  <2>7. Stands(stack')
    <3>1. Explained(stack')
      BY <1>4 DEF OneMore
    <3>2. \A k \in 2..Len(stack') : Packaged(SymbolOf(stack[k]), stack[k].value)'
      BY <2>6 DEF Carried
    <3>3. \A k \in 2..Len(stack') :
            SymbolOf(stack'[k]) \in DeclarationSymbols => stack'[k].value # Absent
      BY <3>2 DEF Packaged
    <3>4. QED
      BY <3>1, <3>3 DEF Stands
  <2>8. Noted'
    BY NotedNext
  <2>9. Spelled(stack)' = Spelled(stack)
    BY <1>4, <1>8, <2>3, <2>4, <2>7, <2>8, ReduceText
  <2>10. Text(WrittenUpto(Gone))' = Text(WrittenUpto(Gone))
    <3>1. PICK n : n = Gone
      OBVIOUS
    <3>2. Gone' = n
      BY <1>4, <3>1 DEF Gone
    <3>3. Text(WrittenUpto(n))' = Text(WrittenUpto(n))
      BY <1>5
    <3>4. Text(WrittenUpto(Gone))' = Text(WrittenUpto(n))'
      BY <3>2
    <3>5. QED
      BY <3>1, <3>3, <3>4
  <2>11. QED
    BY <2>3, <2>5, <2>6, <2>9, <2>10 DEF Clear
<1>12. QED
  BY <1>4, <1>7, <1>9, <1>10, <1>11

-----------------------------------------------------------------------------
(* The other steps.                                                        *)

\* At first nothing has been taken, and nothing is on the stack.
LEMMA Undisturbing == Init => Undisturbed
<1> SUFFICES ASSUME Init PROVE Undisturbed
  OBVIOUS
<1>1. /\ started \in LexStates /\ read = 0 /\ lookahead = <<>> /\ status = 0
      /\ stack = <<[state |-> Start, value |-> 0]>> /\ phase = "parsing"
      /\ package = 0 /\ gImports = <<>> /\ called = 0
  BY DEF Init
<1>2. IInv
  BY Beginning
<1>3. Noted /\ Explained(stack)
  BY <1>2, NotedThere
<1>4. Len(stack) = 1 /\ DOMAIN stack = {1} /\ 2..1 = {}
  BY <1>1
<1>5. SymbolOf(stack[1]) = "none"
  BY <1>3, RuleForms DEF Explained, SymbolOf, TablesTyped
<1>6. Headed
  BY <1>1, <1>4 DEF Headed
<1>7. Carried
  BY <1>1, <1>4 DEF Carried
<1>8. Text(WrittenUpto(Gone)) = Spelled(stack)
  <2>1. Gone = 0
    BY <1>1 DEF Gone
  <2>2. WrittenUpto(0) = <<>>
    <3>1. 0 \in Nat
      OBVIOUS
    <3>2. QED
      BY <3>1, WrittenGrows
  <2>3. Stands(stack)
    BY <1>3, <1>7, CarriedStands DEF Carried
  <2>4. Spelled(stack) = <<>>
    <3>1. PICK s : s = stack
      OBVIOUS
    <3>2. Stands(s) /\ Len(s) = 1
      BY <1>4, <2>3, <3>1
    <3>3. Spelled(s) = <<>>
      BY <1>3, <3>2, SpelledBottom
    <3>4. QED
      BY <3>1, <3>3
  <2>5. QED
    BY <2>1, <2>2, <2>4, TextFew, Zenon
<1>9. \A k \in DOMAIN stack : SymbolOf(stack[k]) \notin {"error", "interface_keywords"}
  BY <1>4, <1>5
<1>10. Clear
  BY <1>6, <1>7, <1>8 DEF Clear
<1>11. QED
  BY <1>1, <1>9, <1>10 DEF Undisturbed

\* What the scanner takes is what is written.
LEMMA TakesWritten ==
  ASSUME file \in Files, started \in LexStates, ~Slip, NEW h, Scanning(h)
  PROVE  \A q \in 1..Len(file) : Takes(h, q) <=> IsWritten(q)
<1>1. Uncopied
  BY DEF Slip, Uncopied
<1>2. \A k \in 0..Len(file) : WithinUpto[k] = h[k]
  BY <1>1, WithinIs
<1>3. ASSUME NEW q \in 1..Len(file) PROVE Takes(h, q) <=> IsWritten(q)
  <2>1. q \in 0..Len(file) /\ q - 1 \in 0..Len(file)
    BY FileTyped
  <2>2. WithinUpto[q] = h[q] /\ WithinUpto[q - 1] = h[q - 1]
    BY <1>2, <2>1
  <2>3. QED
    BY <2>2 DEF Takes, IsWritten, LineComment
<1>4. QED
  BY <1>3

\* The text of the stack stays when a token is read that does not come too late.
LEMMA ReadTokenText ==
  ASSUME IInv, Clear, NEW here, ReadToken(here), Len(stack) = 1 \/ package' = package
  PROVE  Spelled(stack)' = Spelled(stack) /\ Carried'
<1>1. /\ lookahead = <<>> /\ UNCHANGED <<file, started, stack, gImports, called, document>>
  BY DEF ReadToken
<1>2. Explained(stack) /\ Noted
  BY NotedThere
<1>3. called # 1
  BY <1>1 DEF IInv, GivenLast
<1>4. PICK s : s = stack
  OBVIOUS
<1>5. s = stack' /\ Spelled(stack)' = Spelled(s)'
  BY <1>1, <1>4
<1>6. CASE Len(stack) = 1
  <2>1. DOMAIN s = 1..1 /\ SymbolOf(s[1]) = "none" /\ 2..1 = {}
    <3>1. SymbolOf(s[1]) = "none"
      BY <1>2, <1>4, RuleForms DEF Explained, SymbolOf, TablesTyped
    <3>2. QED
      BY <1>2, <1>4, <1>6, <3>1, StatesOf
  <2>2. "none" \notin WithHeaders
    BY Zenon DEF WithHeaders
  <2>3. \A k \in DOMAIN s : SymbolOf(s[k]) \notin WithHeaders
    BY <2>1, <2>2
  <2>4. Spelled(s)' = Spelled(s)
    BY <1>1, <2>3, SpelledKept, Zenon
  <2>5. Carried'
    BY <1>1, <1>3, <1>6, <2>1 DEF Carried
  <2>6. QED
    BY <1>4, <1>5, <2>4, <2>5
<1>7. CASE package' = package
  <2>1. UNCHANGED <<package, gImports, document>>
    BY <1>1, <1>7
  <2>2. Spelled(s)' = Spelled(s)
    BY <1>1, <2>1, SpelledKept, Zenon
  <2>3. \A x, w : Packaged(x, w) => Packaged(x, w)'
    BY <1>7, Zenon DEF Packaged
  <2>4. \A k \in 2..Len(stack) : Packaged(SymbolOf(stack[k]), stack[k].value)
    BY DEF Clear, Carried
  <2>5. \A k \in 2..Len(s) : Packaged(SymbolOf(s[k]), s[k].value)'
    BY <1>4, <2>3, <2>4, Zenon
  <2>6. \A k \in 2..Len(stack') : Packaged(SymbolOf(stack[k]), stack[k].value)'
    BY <1>5, <2>5
  <2>7. called' # 1
    BY <1>1, <1>3
  <2>8. Carried'
    BY <2>6, <2>7 DEF Carried
  <2>9. QED
    BY <1>4, <1>5, <2>2, <2>8
<1>8. QED
  BY <1>6, <1>7

\* Reading a token takes one word, unless it is the package that comes too late.
LEMMA ReadTokenUndisturbed ==
  ASSUME IInv, IInv', Undisturbed, NEW here, ReadToken(here)
  PROVE  Undisturbed'
<1>1. /\ phase = "parsing" /\ lookahead = <<>> /\ read' = NextToken.at
      /\ lookahead' = <<[token |-> TokenAt(read'), at |-> read']>>
      /\ package' = IF TokenAt(read') = "PACKAGE" THEN read' ELSE package
      /\ UNCHANGED <<file, started, stack, status, phase, gError, gImports, called, document>>
  BY DEF ReadToken
<1>2. /\ \A k : IsWritten(k)' <=> IsWritten(k)
      /\ \A n : Text(WrittenUpto(n))' = Text(WrittenUpto(n))
      /\ Slip' <=> Slip
  BY <1>1, WrittenKept
<1>3. SUFFICES ASSUME ~gError, ~Slip
      PROVE  /\ phase' \in {"parsing", "accepted"} /\ status' = 0
             /\ \A k \in DOMAIN stack' : SymbolOf(stack'[k]) \notin {"error", "interface_keywords"}
             /\ lookahead' # <<>> /\ read' <= Len(file)' => IsWritten(read)'
             /\ ~Belated' => Clear'
  BY <1>1, <1>2 DEF Undisturbed
<1>4. /\ status = 0 /\ Clear
      /\ \A k \in DOMAIN stack : SymbolOf(stack[k]) \notin {"error", "interface_keywords"}
  BY <1>1, <1>3 DEF Undisturbed, Belated
<1>5. /\ file \in Files /\ started \in LexStates /\ Len(file) \in Nat /\ read \in 0..Len(file)
      /\ Explained(stack)
  <2>1. FileRead
    BY DEF IInv
  <2>2. QED
    BY <1>1, <2>1, NotedThere DEF FileRead
<1>6. PICK h : Scanning(h) /\ lex = h[read]
  BY <1>1, <1>5 DEF IInv, FileRead
<1>7. PICK p : p = read'
  OBVIOUS
<1>8. /\ p \in (read + 1)..(Len(file) + 1)
      /\ p <= Len(file) => Takes(h, p)
      /\ \A q \in (read + 1)..Len(file) : q < p => ~Takes(h, q)
  BY <1>1, <1>5, <1>6, <1>7, NextTokenIs
<1>9. \A q \in 1..Len(file) : Takes(h, q) <=> IsWritten(q)
  BY <1>3, <1>5, <1>6, TakesWritten
<1>10. p <= Len(file) => IsWritten(p)
  BY <1>5, <1>8, <1>9
<1>11. read' <= Len(file)' => IsWritten(read)'
  <2>1. IsWritten(p)' <=> IsWritten(p)
    BY <1>2
  <2>2. IsWritten(read)' <=> IsWritten(p)'
    BY <1>7
  <2>3. QED
    BY <1>1, <1>7, <1>10, <2>1, <2>2
<1>12. ASSUME ~Belated' PROVE Clear'
  <2>1. lookahead' # <<>> /\ Token' = TokenAt(p)
    BY <1>1, <1>7 DEF Token
  <2>2. Len(stack') = Len(stack) /\ Len(stack) \in Nat /\ 1 <= Len(stack)
    BY <1>1, <1>5, StatesOf
  <2>3. Len(stack) = 1 \/ package' = package
    <3>1. CASE TokenAt(p) = "PACKAGE"
      <4>1. ~(Len(stack') > 1)
        BY <1>12, <2>1, <3>1 DEF Belated
      <4>2. QED
        BY <2>2, <4>1
    <3>2. CASE TokenAt(p) # "PACKAGE"
      BY <1>1, <1>7, <3>2
    <3>3. QED
      BY <3>1, <3>2
  <2>4. Spelled(stack)' = Spelled(stack) /\ Carried'
    BY <1>4, <2>3, ReadTokenText
  <2>5. Headed'
    <3>1. /\ Len(stack) = 1 => package = 0
          /\ Len(stack) > 1 =>
               /\ package # 0 => SymbolOf(stack[2]) \in FrontSymbols
               /\ SymbolOf(stack[2]) \in {"PACKAGE", "package"} => package # 0
          /\ gImports # <<>> =>
               \E k \in 2..Len(stack) : SymbolOf(stack[k]) \in {"imports", "headers", "document"}
      BY <1>1, <1>4 DEF Clear, Headed
    <3>2. p # 0
      BY <1>5, <1>8
    <3>3. Len(stack') = 1 => (package' # 0 <=> lookahead' # <<>> /\ Token' = "PACKAGE")
      <4>1. CASE TokenAt(p) = "PACKAGE"
        BY <1>1, <1>7, <2>1, <3>2, <4>1
      <4>2. CASE TokenAt(p) # "PACKAGE"
        <5>1. package' = package
          BY <1>1, <1>7, <4>2
        <5>2. QED
          BY <2>1, <2>2, <3>1, <4>2, <5>1
      <4>3. QED
        BY <4>1, <4>2
    <3>4. Len(stack') > 1 =>
               /\ package' # 0 => SymbolOf(stack'[2]) \in FrontSymbols
               /\ SymbolOf(stack'[2]) \in {"PACKAGE", "package"} => package' # 0
      BY <1>1, <2>2, <2>3, <3>1
    <3>5. gImports' # <<>> =>
            \E k \in 2..Len(stack') : SymbolOf(stack'[k]) \in {"imports", "headers", "document"}
      BY <1>1, <3>1
    <3>6. QED
      BY <3>3, <3>4, <3>5 DEF Headed
  <2>6. Text(WrittenUpto(Gone))' = Text(WrittenUpto(Gone))
    <3>1. PICK n : n = read
      OBVIOUS
    <3>2. PICK d : d = p - 1
      OBVIOUS
    <3>3. Gone = n /\ Gone' = d
      BY <1>1, <1>7, <3>1, <3>2 DEF Gone
    <3>4. n \in Nat /\ d \in Nat /\ n <= d /\ \A k \in (n + 1)..d : k \in (read + 1)..Len(file) /\ k < p
      BY <1>5, <1>8, <3>1, <3>2
    <3>5. \A k \in (n + 1)..d : k \in 1..Len(file)
      BY <1>5, <3>4
    <3>6. \A k \in (n + 1)..d : ~IsWritten(k)
      BY <1>8, <1>9, <3>4, <3>5
    <3>7. WrittenUpto(d) = WrittenUpto(n)
      BY <3>4, <3>6, WrittenStays
    <3>8. Text(WrittenUpto(Gone))' = Text(WrittenUpto(d))'
      BY <3>3
    <3>9. Text(WrittenUpto(d))' = Text(WrittenUpto(d))
      BY <1>2
    <3>10. QED
      BY <3>3, <3>7, <3>8, <3>9
  <2>7. QED
    BY <1>4, <2>4, <2>5, <2>6 DEF Clear
<1>13. QED
  BY <1>1, <1>4, <1>11, <1>12

\* A token has the word that is written.
LEMMA TokenSpelled ==
  ASSUME NEW p, p \in 1..Len(file), TokenAt(p) \in Tokens, Len(file) \in Nat
  PROVE  Spelling(TokenAt(p), p) = <<file[p]>>
<1>1. TokenAt(p) = IF file[p] = "UNKNOWN" THEN "IDENTIFIER" ELSE file[p]
  <2>1. ~(p > Len(file))
    OBVIOUS
  <2>2. QED
    BY <2>1, Zenon DEF TokenAt
<1>2. "IDENTIFIER" \in Naming
  BY Zenon DEF Naming
<1>3. CASE TokenAt(p) \in Naming
  BY <1>3, SpellingToken, Zenon
<1>4. CASE TokenAt(p) \notin Naming
  <2>1. TokenAt(p) = file[p]
    BY <1>1, <1>2, <1>4, Zenon
  <2>2. Spelling(TokenAt(p), p) = <<TokenAt(p)>>
    BY <1>4, SpellingToken, Zenon
  <2>3. QED
    BY <2>1, <2>2
<1>5. QED
  BY <1>3, <1>4

\* What a shift leaves on the stack.
LEMMA ShiftLeaves ==
  ASSUME IInv, IInv', NEW here, here = Tables[stack[Len(stack)].state], Shift(here)
  PROVE  \E e : /\ stack' = Append(stack, e) /\ Explained(stack') /\ SymbolOf(e) = Token
                /\ e.value = read /\ Token \in Tokens /\ Token # "EOF" /\ read \in 1..Len(file)
                /\ Token = TokenAt(read) /\ Token \in DOMAIN Tables[stack[Len(stack)].state].goto
                /\ lookahead # <<>> /\ phase = "parsing" /\ lookahead' = <<>>
                /\ status' = IF status > 0 THEN status - 1 ELSE 0
                /\ UNCHANGED <<file, started, read, phase, gError, package, gImports, called,
                               document>>
<1>1. FileRead /\ Explained(stack) /\ InOrder(stack) /\ Explained(stack')
  BY DEF IInv
<1>2. /\ phase = "parsing" /\ lookahead # <<>> /\ Token \in DOMAIN here.goto \ {"EOF"}
      /\ stack' = Append(stack, [state |-> here.goto[Token], value |-> lookahead[1].at])
      /\ lookahead' = <<>> /\ status' = IF status > 0 THEN status - 1 ELSE 0
      /\ UNCHANGED <<file, started, read, phase, gError, package, gImports, called, document>>
  BY DEF Shift
<1>3. /\ lookahead[1].at = read /\ Token \in Tokens /\ read \in 1..Len(file) /\ Token = TokenAt(read)
  BY <1>1, <1>2, AtHand
<1>4. PICK e : e = [state |-> here.goto[Token], value |-> lookahead[1].at]
  OBVIOUS
<1>5. stack' = Append(stack, e) /\ e.value = read
  BY <1>2, <1>3, <1>4
<1>6. SymbolOf(e) = Token
  <2>1. PICK n : n = stack[Len(stack)].state
    OBVIOUS
  <2>2. n \in DOMAIN Tables /\ here = Tables[n] /\ Token \in DOMAIN Tables[n].goto
    BY <1>1, <1>2, <2>1, StatesOf
  <2>3. Tables[Tables[n].goto[Token]].symbol = Token
    BY <2>2, Goto
  <2>4. e.state = Tables[n].goto[Token]
    BY <1>4, <2>2
  <2>5. QED
    BY <2>3, <2>4 DEF SymbolOf
<1>7. QED
  BY <1>1, <1>2, <1>3, <1>5, <1>6

\* A shift puts the token on the stack, and loses nothing.
LEMMA ShiftUndisturbed ==
  ASSUME IInv, IInv', Undisturbed, NEW here, here = Tables[stack[Len(stack)].state], Shift(here)
  PROVE  Undisturbed'
<1>1. PICK e : /\ stack' = Append(stack, e) /\ Explained(stack') /\ SymbolOf(e) = Token
               /\ e.value = read /\ Token \in Tokens /\ Token # "EOF" /\ read \in 1..Len(file)
               /\ Token = TokenAt(read) /\ Token \in DOMAIN Tables[stack[Len(stack)].state].goto
               /\ lookahead # <<>> /\ phase = "parsing" /\ lookahead' = <<>>
               /\ status' = IF status > 0 THEN status - 1 ELSE 0
               /\ UNCHANGED <<file, started, read, phase, gError, package, gImports, called, document>>
  BY ShiftLeaves
<1>2. /\ \A k : IsWritten(k)' <=> IsWritten(k)
      /\ \A n : Text(WrittenUpto(n))' = Text(WrittenUpto(n))
      /\ Slip' <=> Slip
  BY <1>1, WrittenKept
<1>3. SUFFICES ASSUME ~gError, ~Slip
      PROVE  /\ phase' \in {"parsing", "accepted"} /\ status' = 0
             /\ \A k \in DOMAIN stack' : SymbolOf(stack'[k]) \notin {"error", "interface_keywords"}
             /\ Clear'
  BY <1>1, <1>2 DEF Undisturbed
<1>4. /\ status = 0 /\ (read <= Len(file) => IsWritten(read)) /\ (~Belated => Clear)
      /\ \A k \in DOMAIN stack : SymbolOf(stack[k]) \notin {"error", "interface_keywords"}
  BY <1>1, <1>3 DEF Undisturbed
<1>5. Explained(stack) /\ Noted /\ Noted' /\ Len(file) \in Nat /\ file \in Files
  BY NotedThere, NotedNext
<1>6. PICK x, s, more, n :
        x = Token /\ s = stack /\ more = stack' /\ n = Len(s)
  OBVIOUS
<1>7. /\ n \in Nat /\ 1 <= n /\ DOMAIN s = 1..n /\ Len(more) = n + 1 /\ more[n + 1] = e
      /\ \A k \in 1..n : more[k] = s[k]
      /\ DOMAIN more = 1..(n + 1)
  <2>1. Explained(s) /\ Explained(more) /\ more = Append(s, e)
    BY <1>1, <1>5, <1>6
  <2>2. n \in Nat /\ 1 <= n /\ DOMAIN s = 1..n /\ DOMAIN more = 1..Len(more)
    BY <1>6, <2>1, StatesOf
  <2>3. PICK E : s \in Seq(E)
    BY <2>1 DEF Explained
  <2>4. PICK F : F = E \cup {e}
    OBVIOUS
  <2>5. s \in Seq(F) /\ e \in F
    BY <2>3, <2>4
  <2>6. /\ Len(more) = n + 1 /\ more[n + 1] = e /\ \A k \in 1..n : more[k] = s[k]
    BY <1>6, <2>1, <2>5, OneMoreAtEnd
  <2>7. QED
    BY <2>2, <2>6
<1>8. /\ x # "error" /\ x # "interface_keywords" /\ x # "package" /\ x \notin DeclarationSymbols
      /\ x # "document_items"
  BY <1>1, <1>6, Zenon DEF Tokens, DeclarationSymbols
<1>9. x = "PACKAGE" => n = 1
  <2>1. SUFFICES ASSUME x = "PACKAGE" PROVE n = 1
    OBVIOUS
  <2>2. x \in FrontSymbols
    BY <2>1, Zenon DEF FrontSymbols
  <2>3. n \in 1..Len(s) /\ Explained(s) /\ x \in DOMAIN Tables[s[n].state].goto
    BY <1>1, <1>5, <1>6, <1>7
  <2>4. QED
    BY <2>2, <2>3, FrontLast
<1>10. Clear
  BY <1>4, <1>6, <1>9 DEF Belated
<1>11. Headed /\ Carried /\ Text(WrittenUpto(Gone)) = Spelled(s)
  BY <1>6, <1>10 DEF Clear
<1>12. \A k \in DOMAIN stack' : SymbolOf(stack'[k]) \notin {"error", "interface_keywords"}
  <2>1. ASSUME NEW k \in DOMAIN more PROVE SymbolOf(more[k]) \notin {"error", "interface_keywords"}
    <3>1. k \in 1..n \/ k = n + 1
      BY <1>7
    <3>2. QED
      BY <1>1, <1>4, <1>6, <1>7, <1>8, <3>1
  <2>2. QED
    BY <1>6, <2>1
<1>13. Headed'
  <2>1. /\ Len(s) = 1 => (package # 0 <=> lookahead # <<>> /\ Token = "PACKAGE")
        /\ Len(s) > 1 =>
             /\ package # 0 => SymbolOf(s[2]) \in FrontSymbols
             /\ SymbolOf(s[2]) \in {"PACKAGE", "package"} => package # 0
        /\ gImports # <<>> =>
             \E k \in 2..Len(s) : SymbolOf(s[k]) \in {"imports", "headers", "document"}
    BY <1>6, <1>11 DEF Headed
  <2>2. Len(more) > 1 /\ Len(more) # 1
    BY <1>7
  <2>3. /\ package # 0 => SymbolOf(more[2]) \in FrontSymbols
        /\ SymbolOf(more[2]) \in {"PACKAGE", "package"} => package # 0
    <3>1. CASE n = 1
      <4>1. SymbolOf(more[2]) = x
        BY <1>1, <1>6, <1>7, <3>1
      <4>2. "PACKAGE" \in FrontSymbols
        BY Zenon DEF FrontSymbols
      <4>3. package # 0 <=> x = "PACKAGE"
        BY <1>1, <1>6, <2>1, <3>1
      <4>4. QED
        BY <1>8, <4>1, <4>2, <4>3
    <3>2. CASE n # 1
      <4>1. more[2] = s[2] /\ Len(s) > 1
        BY <1>6, <1>7, <3>2
      <4>2. QED
        BY <2>1, <4>1
    <3>3. QED
      BY <3>1, <3>2
  <2>4. gImports # <<>> =>
          \E k \in 2..Len(more) : SymbolOf(more[k]) \in {"imports", "headers", "document"}
    <3>1. \A k \in 2..Len(s) : k \in 2..Len(more) /\ more[k] = s[k]
      BY <1>6, <1>7
    <3>2. QED
      BY <2>1, <3>1
  <2>5. package' = package /\ gImports' = gImports
    BY <1>1
  <2>6. /\ Len(stack') > 1 /\ Len(stack') # 1
        /\ package' # 0 => SymbolOf(stack'[2]) \in FrontSymbols
        /\ SymbolOf(stack'[2]) \in {"PACKAGE", "package"} => package' # 0
        /\ gImports' # <<>> =>
             \E k \in 2..Len(stack') : SymbolOf(stack'[k]) \in {"imports", "headers", "document"}
    BY <1>6, <2>2, <2>3, <2>4, <2>5
  <2>7. QED
    BY <2>6, Zenon DEF Headed
<1>14. /\ Carried'
       /\ \A k \in 2..Len(more) : Packaged(SymbolOf(more[k]), more[k].value)
  <2>1. package' = package /\ called' # 1
    <3>1. called # 1
      BY <1>1 DEF IInv, GivenLast
    <3>2. QED
      BY <1>1, <3>1
  <2>2. \A y, w : Packaged(y, w) => Packaged(y, w)'
    BY <2>1, Zenon DEF Packaged
  <2>3. ASSUME NEW k \in 2..Len(more) PROVE Packaged(SymbolOf(more[k]), more[k].value)
    <3>1. CASE k \in 2..Len(s)
      <4>1. more[k] = s[k]
        BY <1>6, <1>7, <3>1
      <4>2. QED
        BY <1>6, <1>11, <3>1, <4>1 DEF Carried
    <3>2. CASE k \notin 2..Len(s)
      <4>1. more[k] = e
        BY <1>6, <1>7, <3>2
      <4>2. Packaged(x, e.value)
        BY <1>8, Zenon DEF Packaged
      <4>3. QED
        BY <1>1, <1>6, <4>1, <4>2
    <3>3. QED
      BY <3>1, <3>2
  <2>4. \A k \in 2..Len(more) : Packaged(SymbolOf(more[k]), more[k].value)'
    BY <2>2, <2>3, Zenon
  <2>5. \A k \in 2..Len(stack') : Packaged(SymbolOf(stack[k]), stack[k].value)'
    BY <1>6, <2>4
  <2>6. Carried'
    BY <2>1, <2>5 DEF Carried
  <2>7. QED
    BY <2>3, <2>6
<1>15. Text(WrittenUpto(Gone))' = Spelled(stack)'
  <2>1. Explained(s) /\ Explained(more) /\ more = Append(s, e)
    BY <1>1, <1>5, <1>6
  <2>2. Stands(s) /\ Stands(more)
    <3>1. \A k \in 2..Len(s) : Packaged(SymbolOf(s[k]), s[k].value)
      BY <1>6, <1>11 DEF Carried
    <3>2. QED
      BY <1>14, <2>1, <3>1, CarriedStands
  <2>3. /\ Spelled(more) = Spelled(s) \o SpellingOf(e)
    BY <1>5, <2>1, <2>2, SpelledPushed
  <2>4. SpellingOf(e) = <<file[read]>>
    <3>1. Spelling(TokenAt(read), read) = <<file[read]>>
      BY <1>1, <1>5, TokenSpelled
    <3>2. QED
      BY <1>1, <3>1, Zenon DEF SpellingOf
  <2>5. PICK d \in Nat : d + 1 = read
    <3>1. read - 1 \in Nat /\ (read - 1) + 1 = read
      BY <1>1
    <3>2. QED
      BY <3>1
  <2>6. Gone = d /\ Gone' = d + 1
    BY <1>1, <2>5 DEF Gone
  <2>7. IsWritten(d + 1)
    BY <1>1, <1>4, <1>5, <2>5
  <2>8. WrittenUpto(d + 1) = WrittenUpto(d) \o <<d + 1>> /\ WrittenUpto(d) \in Seq(Nat)
    BY <2>5, <2>7, WrittenGrows
  <2>9. PICK w, one : w = WrittenUpto(d) /\ one = <<d + 1>>
    OBVIOUS
  <2>10. Text(w \o one) = Text(w) \o Text(one)
    <3>1. w \in Seq(Nat) /\ one \in Seq(Nat)
      BY <2>5, <2>8, <2>9
    <3>2. QED
      BY <3>1, TextJoined
  <2>11. Text(one) = <<file[read]>>
    BY <2>5, <2>9, TextFew, Zenon
  <2>12. Text(WrittenUpto(d + 1)) = Spelled(more)
    BY <1>11, <2>3, <2>4, <2>6, <2>8, <2>9, <2>10, <2>11
  <2>13. Text(WrittenUpto(Gone))' = Text(WrittenUpto(d + 1))
    <3>1. PICK q : q = d + 1
      OBVIOUS
    <3>2. Text(WrittenUpto(Gone))' = Text(WrittenUpto(q))'
      BY <2>6, <3>1
    <3>3. Text(WrittenUpto(q))' = Text(WrittenUpto(q))
      BY <1>2
    <3>4. QED
      BY <3>1, <3>2, <3>3
  <2>14. Spelled(stack)' = Spelled(more)
    <3>1. Spelled(stack)' = Spelled(more)'
      BY <1>6
    <3>2. UNCHANGED <<package, gImports, document>>
      BY <1>1
    <3>3. Spelled(more)' = Spelled(more)
      BY <1>1, <3>2, SpelledKept
    <3>4. QED
      BY <3>1, <3>3
  <2>15. QED
    BY <2>12, <2>13, <2>14
<1>16. Clear'
  BY <1>13, <1>14, <1>15 DEF Clear
<1>17. QED
  BY <1>1, <1>4, <1>12, <1>16

\* What changes nothing on the stack or before it.
LEMMA UndisturbedKept ==
  ASSUME Undisturbed, IInv,
         UNCHANGED <<file, started, read, lookahead, stack, status, gError, package, gImports,
                     called, document>>,
         phase' \in {phase, "accepted"}
  PROVE  Undisturbed'
<1>1. /\ \A k : IsWritten(k)' <=> IsWritten(k)
      /\ \A n : Text(WrittenUpto(n))' = Text(WrittenUpto(n))
      /\ Slip' <=> Slip
  BY WrittenKept
<1>2. Token' = Token /\ Gone' = Gone
  BY DEF Token, Gone
<1>3. Belated' <=> Belated
  BY <1>2 DEF Belated
<1>4. IsWritten(read)' <=> IsWritten(read)
  <2>1. PICK k : k = read
    OBVIOUS
  <2>2. IsWritten(read)' <=> IsWritten(k)'
    BY <2>1
  <2>3. QED
    BY <1>1, <2>1, <2>2
<1>5. Clear => Clear'
  <2>1. Headed => Headed'
    BY <1>2 DEF Headed
  <2>2. Carried => Carried'
    BY DEF Carried, Packaged
  <2>3. Text(WrittenUpto(Gone))' = Text(WrittenUpto(Gone))
    <3>1. PICK n : n = Gone
      OBVIOUS
    <3>2. Text(WrittenUpto(Gone))' = Text(WrittenUpto(n))'
      BY <1>2, <3>1
    <3>3. QED
      BY <1>1, <3>1, <3>2
  <2>4. Spelled(stack)' = Spelled(stack)
    <3>1. PICK s : s = stack
      OBVIOUS
    <3>2. Spelled(stack)' = Spelled(s)'
      BY <3>1
    <3>3. Spelled(s)' = Spelled(s)
      BY SpelledKept
    <3>4. QED
      BY <3>1, <3>2, <3>3
  <2>5. QED
    BY <2>1, <2>2, <2>3, <2>4 DEF Clear
<1>6. ASSUME ~gError, ~Slip
      PROVE  /\ phase \in {"parsing", "accepted"} /\ status = 0
             /\ \A k \in DOMAIN stack : SymbolOf(stack[k]) \notin {"error", "interface_keywords"}
             /\ lookahead # <<>> /\ read <= Len(file) => IsWritten(read)
             /\ ~Belated => Clear
  BY <1>6 DEF Undisturbed
<1>7. ASSUME ~gError', ~Slip'
      PROVE  /\ phase' \in {"parsing", "accepted"} /\ status' = 0
             /\ \A k \in DOMAIN stack' : SymbolOf(stack'[k]) \notin {"error", "interface_keywords"}
             /\ lookahead' # <<>> /\ read' <= Len(file)' => IsWritten(read)'
             /\ ~Belated' => Clear'
  BY <1>1, <1>3, <1>4, <1>5, <1>6, <1>7
<1>8. QED
  BY <1>7 DEF Undisturbed

\* What an error does is after an error.
LEMMA ErrorUndisturbed ==
  ASSUME Undisturbed, NEW here, Error(here) \/ Discard(here) \/ Recover(here)
  PROVE  Undisturbed'
<1>1. file' = file /\ started' = started
  BY DEF Error, Discard, Recover
<1>2. Slip' <=> Slip
  BY <1>1, WrittenKept
<1>3. ~gError /\ ~Slip => phase \in {"parsing", "accepted"} /\ status = 0
  BY DEF Undisturbed
<1>4. gError' \/ Slip'
  <2>1. CASE Error(here)
    BY <1>2, <1>3, <2>1 DEF Error
  <2>2. CASE Discard(here)
    BY <1>2, <1>3, <2>2 DEF Discard
  <2>3. CASE Recover(here)
    BY <1>2, <1>3, <2>3 DEF Recover
  <2>4. QED
    BY <2>1, <2>2, <2>3
<1>5. QED
  BY <1>4 DEF Undisturbed

-----------------------------------------------------------------------------
(* The theorems.                                                           *)

LEMMA Invariance == Spec => []IInv
<1>1. Init => IInv
  BY Beginning
<1>2. IInv /\ [Next]_vars => IInv'
  <2> SUFFICES ASSUME IInv, [Next]_vars
               PROVE  IInv'
    OBVIOUS
  <2>1. CASE Next
    <3>1. PICK here : /\ here = Tables[Top.state]
                      /\ \/ ReadToken(here) \/ Shift(here) \/ Accept(here) \/ Reduce(here)
                         \/ Error(here) \/ Discard(here) \/ Recover(here)
      BY <2>1, Zenon DEF Next
    <3>2. here = Tables[stack[Len(stack)].state]
      BY <3>1, Zenon DEF Top, Last
    <3>3. CASE ReadToken(here)
      BY <3>3, ReadTokenKeeps
    <3>4. CASE Shift(here)
      BY <3>2, <3>4, ShiftKeeps
    <3>5. CASE Accept(here)
      BY <3>2, <3>5, AcceptKeeps
    <3>6. CASE Reduce(here)
      BY <3>2, <3>6, ReduceKeeps
    <3>7. CASE Error(here)
      BY <3>2, <3>7, ErrorKeeps
    <3>8. CASE Discard(here)
      BY <3>2, <3>8, DiscardKeeps
    <3>9. CASE Recover(here)
      BY <3>2, <3>9, RecoverKeeps
    <3>10. QED
      BY <3>1, <3>3, <3>4, <3>5, <3>6, <3>7, <3>8, <3>9
  <2>2. CASE UNCHANGED vars
    <3>1. UNCHANGED <<file, started, lex, read, lookahead, stack, status, phase, gError, package,
                      gImports, called, document>>
      BY <2>2 DEF vars
    <3>2. FileRead' /\ Passed' = Passed
      BY <3>1, Kept DEF IInv
    <3>3. ImportPlaces' = ImportPlaces /\ Token' = Token
      BY <3>1 DEF ImportPlaces, Token
    <3>4. Typed' /\ Placed' /\ HeadersFirst' /\ GivenLast' /\ Explained(stack)' /\ InOrder(stack)'
      BY <3>1, <3>2, <3>3 DEF IInv, Typed, Placed, HeadersFirst, GivenLast
    <3>5. QED
      BY <3>2, <3>4 DEF IInv
  <2>3. QED
    BY <2>1, <2>2
<1>3. QED
  BY <1>1, <1>2, PTL DEF Spec

\* Whatever is in the file, the variables of the parser are of their types: no import is
\* recorded that the file has no token for, and the document callback runs at most once.
THEOREM TypeCorrect == Spec => []TypeOK
<1>1. IInv => TypeOK
  <2> SUFFICES ASSUME IInv
               PROVE  TypeOK
    OBVIOUS
  <2>1. /\ FileRead /\ Typed /\ Explained(stack) /\ Placed
    BY DEF IInv
  <2>2. /\ file \in Files /\ started \in LexStates /\ lex \in LexStates
        /\ read \in 0..(Len(file) + 1)
    BY <2>1 DEF FileRead
  <2>3. \A k \in DOMAIN gImports : gImports[k] \in DOMAIN file
    <3>1. DOMAIN file = 1..Len(file)
      BY <2>2, FileTyped
    <3>2. QED
      BY <2>1, <3>1 DEF Placed, ImportPlaces, Passed
  <2>4. stack # <<>> /\ \A k \in DOMAIN stack : stack[k].state \in DOMAIN Tables
    BY <2>1, StatesOf DEF Explained
  <2>5. QED
    BY <2>1, <2>2, <2>3, <2>4 DEF TypeOK, Typed
<1>2. QED
  BY <1>1, Invariance, PTL

\* Imports, declarations, methods and arguments are handed over in the order they have in
\* the file, after any errors and however deep they are nested.
THEOREM SourceOrder == Spec => []InSourceOrder
<1>1. IInv => InSourceOrder
  BY MarksOfDocument DEF Marking, InSourceOrder
<1>2. QED
  BY <1>1, Invariance, PTL

\* When parse_aidl returns without an error the document callback has run, once.
THEOREM GivenOnce == Spec => []DocumentGiven
<1>1. IInv => DocumentGiven
  <2> SUFFICES ASSUME IInv, Ended
               PROVE  IF Failed THEN called <= 1 ELSE called = 1
    BY DEF DocumentGiven
  <2>1. called \in 0..1 /\ (called = 0 => phase # "accepted")
    BY DEF IInv, Typed, GivenLast
  <2>2. ~Failed => phase = "accepted"
    BY DEF Ended, Failed
  <2>3. QED
    BY <2>1, <2>2
<1>2. QED
  BY <1>1, Invariance, PTL

\* While no error has been found everything written is on the stack.
LEMMA UndisturbedAlways == Spec => []Undisturbed
<1>1. Init => Undisturbed
  BY Undisturbing
<1>2. IInv /\ IInv' /\ Undisturbed /\ [Next]_vars => Undisturbed'
  <2> SUFFICES ASSUME IInv, IInv', Undisturbed, [Next]_vars
               PROVE  Undisturbed'
    OBVIOUS
  <2>1. CASE Next
    <3>1. PICK here : /\ here = Tables[Top.state]
                      /\ \/ ReadToken(here) \/ Shift(here) \/ Accept(here) \/ Reduce(here)
                         \/ Error(here) \/ Discard(here) \/ Recover(here)
      BY <2>1, Zenon DEF Next
    <3>2. here = Tables[stack[Len(stack)].state]
      BY <3>1, Zenon DEF Top, Last
    <3>3. CASE ReadToken(here)
      BY <3>3, ReadTokenUndisturbed
    <3>4. CASE Shift(here)
      BY <3>2, <3>4, ShiftUndisturbed
    <3>5. CASE Accept(here)
      BY <3>5, UndisturbedKept DEF Accept
    <3>6. CASE Reduce(here)
      BY <3>2, <3>6, ReduceUndisturbed
    <3>7. CASE Error(here) \/ Discard(here) \/ Recover(here)
      BY <3>7, ErrorUndisturbed
    <3>8. QED
      BY <3>1, <3>3, <3>4, <3>5, <3>6, <3>7
  <2>2. CASE UNCHANGED vars
    BY <2>2, UndisturbedKept DEF vars
  <2>3. QED
    BY <2>1, <2>2
<1>3. QED
  BY <1>1, <1>2, Invariance, PTL DEF Spec

\* Accepted, the stack is the document.
LEMMA DocumentLeft ==
  ASSUME IInv, called = 1
  PROVE  /\ Len(stack) = 2 /\ SymbolOf(stack[2]) = "document" /\ lookahead # <<>>
         /\ Token = "EOF" /\ Gone = Len(file)
<1>1. /\ lookahead # <<>> /\ Token = "EOF" /\ SymbolOf(stack[Len(stack)]) = "document"
      /\ FileRead /\ Explained(stack)
  BY DEF IInv, GivenLast
<1>2. Len(stack) \in Nat /\ 1 <= Len(stack)
  BY <1>1, StatesOf
<1>3. Len(stack) # 1
  <2>1. SymbolOf(stack[1]) = "none"
    BY <1>1, RuleForms DEF Explained, SymbolOf, TablesTyped
  <2>2. QED
    BY <1>1, <2>1
<1>4. PICK s, m : s = stack /\ m = Len(s) - 1
  OBVIOUS
<1>5. m \in 1..Len(s) /\ Len(s) \in 2..Len(s)
  BY <1>2, <1>3, <1>4
<1>6. "document" \in DOMAIN Tables[s[m].state].goto
  BY <1>1, <1>4, <1>5 DEF Explained, Entered
<1>7. "document" \in FrontSymbols
  BY Zenon DEF FrontSymbols
<1>8. m = 1
  BY <1>1, <1>4, <1>5, <1>6, <1>7, FrontLast
<1>9. Len(stack) = 2
  BY <1>2, <1>4, <1>8
<1>10. Gone = Len(file)
  <2>1. Token = TokenAt(read) /\ (Token # "EOF" => Token \in Tokens)
    BY <1>1, AtHand
  <2>2. ~(read <= Len(file))
    BY <1>1, <2>1, TokensApart DEF FileRead
  <2>3. read \in 0..(Len(file) + 1) /\ Len(file) \in Nat
    BY <1>1, FileTyped DEF FileRead
  <2>4. QED
    BY <1>1, <2>2, <2>3 DEF Gone
<1>11. QED
  BY <1>1, <1>9, <1>10

\* Without an error the callbacks have got the whole file, each declaration in its package
\* and nothing in another order, but for the slips the grammar and the scanner make.
THEOREM NothingIsLost == Spec => []NothingLost
<1>1. IInv /\ Undisturbed => NothingLost
  <2> SUFFICES ASSUME IInv, Undisturbed, Ended, ~Failed, ~Slip
               PROVE  Whole
    BY DEF NothingLost
  <2>1. ~gError /\ phase = "accepted"
    BY DEF Ended, Failed
  <2>2. called = 1
    BY <2>1 DEF IInv, Typed, GivenLast
  <2>3. /\ Len(stack) = 2 /\ SymbolOf(stack[2]) = "document" /\ Token = "EOF" /\ Gone = Len(file)
    BY <2>2, DocumentLeft
  <2>4. Headed /\ Carried /\ Text(WrittenUpto(Gone)) = Spelled(stack)
    BY <2>1, <2>3 DEF Undisturbed, Belated, Clear
  <2>5. Explained(stack) /\ InOrder(stack) /\ Noted
    BY NotedThere
  <2>6. Spelled(stack) = DocumentText
    <3>1. PICK s, less, e : s = stack /\ less = SubSeq(s, 1, 1) /\ e = s[2]
      OBVIOUS
    <3>2. Explained(s) /\ InOrder(s) /\ Len(s) = 2 /\ 1 \in 1..Len(s)
      BY <2>3, <2>5, <3>1
    <3>3. Explained(less) /\ Len(less) = 1 /\ less[1] = s[1]
      BY <3>1, <3>2, Popped
    <3>4. s = Append(less, e)
      <4>1. PICK E : s \in Seq(E)
        BY <3>2 DEF Explained
      <4>2. s = Append(<<s[1]>>, s[2])
        BY <3>2, <4>1, TwoEntries
      <4>3. less = <<s[1]>>
        BY <3>2, <4>1, TwoEntries, <3>1
      <4>4. QED
        BY <3>1, <4>2, <4>3
    <3>5. Stands(s) /\ Stands(less)
      <4>1. Stands(s)
        BY <2>4, <3>1, <3>2, CarriedStands DEF Carried
      <4>2. Stands(less)
        BY <3>3 DEF Stands
      <4>3. QED
        BY <4>1, <4>2
    <3>6. Spelled(s) = Spelled(less) \o SpellingOf(e)
      BY <2>5, <3>4, <3>5, SpelledPushed
    <3>7. Spelled(less) = <<>>
      BY <2>5, <3>3, <3>5, SpelledBottom
    <3>8. SpellingOf(e) = DocumentText
      BY <2>3, <3>1, SpellingHeaders, Zenon DEF SpellingOf
    <3>9. <<>> \o DocumentText = DocumentText
      BY <2>5, HeadersTyped, TextsJoined, Zenon
    <3>10. QED
      BY <3>1, <3>6, <3>7, <3>8, <3>9
  <2>7. DocumentText = Text(Written)
    BY <2>3, <2>4, <2>6, Zenon DEF Written
  <2>8. \A k \in DOMAIN document : document[k].package = package
    BY <2>2, <2>4, Zenon DEF Carried, Packaged
  <2>9. QED
    BY <2>7, <2>8 DEF Whole
<1>2. QED
  BY <1>1, Invariance, UndisturbedAlways, PTL

=============================================================================
