------------------------------- MODULE Grammar -------------------------------
(***************************************************************************)
(* The grammar of aidl_language_y.y as data, and what bison makes of it:   *)
(* the states of the parser are sets of items, and a state's action on a   *)
(* token is a shift, a reduction or an error.  In the state that follows a *)
(* choice of reductions bison makes one of them the default, taken on any  *)
(* token that has no other action; a state that can shift the error token  *)
(* has no default.                                                         *)
(***************************************************************************)
EXTENDS Naturals, SequencesExt, FiniteSetsExt

Rule(lhs, rhs, does) == [lhs |-> lhs, rhs |-> rhs, does |-> does]

\* The rules in the order of the file; "does" names the action.
Rules == <<
  Rule("accept", <<"document", "EOF">>, "accept"),
  Rule("document", <<"document_items">>, "document"),
  Rule("document", <<"headers", "document_items">>, "document"),
  Rule("headers", <<"package">>, "nothing"),
  Rule("headers", <<"imports">>, "nothing"),
  Rule("headers", <<"package", "imports">>, "nothing"),
  Rule("package", <<"PACKAGE">>, "nothing"),
  Rule("imports", <<"IMPORT">>, "import"),
  Rule("imports", <<"IMPORT", "imports">>, "import"),
  Rule("document_items", <<>>, "no_items"),
  Rule("document_items", <<"document_items", "declaration">>, "append_item"),
  Rule("document_items", <<"document_items", "error">>, "first"),
  Rule("declaration", <<"parcelable_decl">>, "first"),
  Rule("declaration", <<"interface_decl">>, "first"),
  Rule("parcelable_decl", <<"PARCELABLE", "IDENTIFIER", ";">>, "parcelable"),
  Rule("parcelable_decl", <<"PARCELABLE", ";">>, "null"),
  Rule("parcelable_decl", <<"PARCELABLE", "error", ";">>, "null"),
  Rule("parcelable_decl", <<"FLATTENABLE", "IDENTIFIER", ";">>, "flattenable"),
  Rule("parcelable_decl", <<"FLATTENABLE", ";">>, "null"),
  Rule("parcelable_decl", <<"FLATTENABLE", "error", ";">>, "null"),
  Rule("interface_header", <<"INTERFACE">>, "binder"),
  Rule("interface_header", <<"ONEWAY", "INTERFACE">>, "oneway_binder"),
  Rule("interface_header", <<"RPC">>, "rpc"),
  Rule("interface_keywords", <<"INTERFACE">>, "nothing"),
  Rule("interface_keywords", <<"RPC">>, "nothing"),
  Rule("interface_decl",
       <<"interface_header", "IDENTIFIER", "{", "interface_items", "}">>, "interface"),
  Rule("interface_decl",
       <<"interface_keywords", "error", "{", "interface_items", "}">>, "null"),
  Rule("interface_decl", <<"interface_keywords", "error", "}">>, "null"),
  Rule("interface_items", <<>>, "no_items"),
  Rule("interface_items", <<"interface_items", "method_decl">>, "append_item"),
  Rule("interface_items", <<"interface_items", "error", ";">>, "first"),
  Rule("method_decl", <<"type", "IDENTIFIER", "(", "arg_list", ")", ";">>, "method"),
  Rule("method_decl",
       <<"ONEWAY", "type", "IDENTIFIER", "(", "arg_list", ")", ";">>, "oneway_method"),
  Rule("arg_list", <<>>, "no_items"),
  Rule("arg_list", <<"arg">>, "one_arg"),
  Rule("arg_list", <<"arg_list", ",", "arg">>, "append_arg"),
  Rule("arg_list", <<"error">>, "no_items"),
  Rule("arg", <<"direction", "type", "IDENTIFIER">>, "arg"),
  Rule("type", <<"IDENTIFIER">>, "plain"),
  Rule("type", <<"IDENTIFIER", "ARRAY">>, "array"),
  Rule("type", <<"IDENTIFIER", "*">>, "array"),
  Rule("type", <<"GENERIC">>, "plain"),
  Rule("direction", <<>>, "no_direction"),
  Rule("direction", <<"IN">>, "first"),
  Rule("direction", <<"OUT">>, "first"),
  Rule("direction", <<"INOUT">>, "first") >>

Tokens ==
  { "IMPORT", "PACKAGE", "IDENTIFIER", "GENERIC", "ARRAY", "PARCELABLE", "INTERFACE",
    "FLATTENABLE", "RPC", "IN", "OUT", "INOUT", "ONEWAY", ";", "{", "}", "(", ")", ",", "*" }

Terminals == Tokens \cup {"error", "EOF"}

Symbols == Terminals \cup {Rules[r].lhs : r \in DOMAIN Rules}

-----------------------------------------------------------------------------
\* An item is a rule and how much of its right side has been seen.
Items == UNION {{[rule |-> r, dot |-> d] : d \in 0..Len(Rules[r].rhs)} : r \in DOMAIN Rules}

NextSymbols(item) ==
  IF item.dot < Len(Rules[item.rule].rhs) THEN {Rules[item.rule].rhs[item.dot + 1]} ELSE {}

Closure[items \in SUBSET Items] ==
  LET wanted == UNION {NextSymbols(i) : i \in items}
      begun == {[rule |-> r, dot |-> 0] : r \in {r \in DOMAIN Rules : Rules[r].lhs \in wanted}}
  IN  IF begun \subseteq items THEN items ELSE Closure[items \cup begun]

Shifts(state) == UNION {NextSymbols(i) : i \in state}

\* The state after a symbol.
Advanced(state, symbol) ==
  Closure[{[i EXCEPT !.dot = @ + 1] : i \in {i \in state : symbol \in NextSymbols(i)}}]

FirstState == Closure[{[rule |-> 1, dot |-> 0]}]

Reachable[states \in SUBSET SUBSET Items] ==
  LET more == states \cup UNION {{Advanced(s, x) : x \in Shifts(s)} : s \in states}
  IN  IF more = states THEN states ELSE Reachable[more]

Reductions(state) ==
  {i.rule : i \in {i \in state : i.dot = Len(Rules[i.rule].rhs)}}

\* What may begin and follow a symbol.  The symbols that can be empty have a
\* rule of their own for it.
Empty == {Rules[r].lhs : r \in {r \in DOMAIN Rules : Rules[r].rhs = <<>>}}

FirstOf[symbols \in SUBSET Symbols] ==
  LET leading(r) == {k \in DOMAIN Rules[r].rhs :
                       \A j \in 1..(k - 1) : Rules[r].rhs[j] \in Empty}
      more == symbols \cup UNION {{Rules[r].rhs[k] : k \in leading(r)} :
                                    r \in {r \in DOMAIN Rules : Rules[r].lhs \in symbols}}
  IN  IF more = symbols THEN symbols \cap Terminals ELSE FirstOf[more]

FollowOf[symbols \in SUBSET Symbols] ==
  LET places == {p \in (DOMAIN Rules) \X (1..7) :
                   p[2] \in DOMAIN Rules[p[1]].rhs /\ Rules[p[1]].rhs[p[2]] \in symbols}
      rest(p) == SubSeq(Rules[p[1]].rhs, p[2] + 1, Len(Rules[p[1]].rhs))
      vanishes(p) == \A k \in DOMAIN rest(p) : rest(p)[k] \in Empty
      more == symbols \cup {Rules[p[1]].lhs : p \in {p \in places : vanishes(p)}}
      next(p) == {rest(p)[k] : k \in {k \in DOMAIN rest(p) :
                                        \A j \in 1..(k - 1) : rest(p)[j] \in Empty}}
  IN  IF more = symbols THEN FirstOf[UNION {next(p) : p \in places}] ELSE FollowOf[more]

\* The reductions that fit, with the tokens they fit.
Fitting(state) == UNION {{r} \X FollowOf[{Rules[r].lhs}] : r \in Reductions(state)}

\* The default reduction: the one on the most tokens, the first of several.
Default(state, fitting) ==
  LET share(r) == Cardinality({p \in fitting : p[1] = r})
      most == {r \in Reductions(state) : \A q \in Reductions(state) : share(q) <= share(r)}
  IN  IF "error" \in Shifts(state) \/ most = {} THEN 0 ELSE Min(most)

\* The reduction on each token that is not shifted; 0 for an error.
ReductionsOf(state, fitting) ==
  [t \in Terminals |->
     LET on == {r \in Reductions(state) : <<r, t>> \in fitting}
     IN  IF on = {} THEN Default(state, fitting) ELSE Min(on)]

\* A state whose action does not depend on the token: none is read.
IsConsistent(state) ==
  Shifts(state) \cap Terminals = {} /\ Cardinality(Reductions(state)) = 1

States == Reachable[{FirstState}]

\* A state by a number: the first of the items it was entered for.
Number(state) == Min({10 * i.rule + i.dot : i \in {i \in state : i.dot > 0 \/ i.rule = 1}})

ASSUME NumberAssumption == \A s, t \in States : Number(s) = Number(t) => s = t

\* The symbol a state is entered by.
Entering(state) ==
  LET kernel == {i \in state : i.dot > 0}
  IN  IF kernel = {} THEN "none" ELSE CHOOSE x \in {Rules[i.rule].rhs[i.dot] : i \in kernel} : TRUE

\* The tables: for each state its items, the symbol it is entered by, where each
\* symbol leads to, the rule to reduce by on each token, and whether it can act
\* without one.
Row(state) ==
  [items |-> state,
   symbol |-> Entering(state),
   goto |-> [x \in Shifts(state) |-> Number(Advanced(state, x))],
   reduces |-> ReductionsOf(state, Fitting(state)),
   consistent |-> IsConsistent(state)]

Tables ==
  [n \in {Number(s) : s \in States} |-> Row(CHOOSE s \in States : Number(s) = n)]

Start == Number(FirstState)

-----------------------------------------------------------------------------
(* What TLC finds to hold of these tables, and the proofs rest on.         *)

TablesTyped ==
  /\ Start \in DOMAIN Tables /\ Tables[Start].symbol = "none"
  /\ [rule |-> 1, dot |-> 0] \in Tables[Start].items /\ Rules[1].lhs = "accept"
  /\ \A n \in DOMAIN Tables :
       /\ Tables[n].items \subseteq Items /\ Tables[n].consistent \in BOOLEAN
       /\ DOMAIN Tables[n].goto \subseteq Symbols \ {"none"}
       /\ \A x \in DOMAIN Tables[n].goto : Tables[n].goto[x] \in DOMAIN Tables
       /\ Tables[n].reduces \in [Terminals -> {0} \cup DOMAIN Rules]

\* The items of a state say what the stack has below it: a symbol that has been
\* seen was the way into the state, from one where it had not been seen yet.  A
\* state that waits for a symbol's rule to begin can go on with that symbol, and
\* a rule is reduced only where all of it has been seen.
ItemsExplain ==
  \A n \in DOMAIN Tables :
    /\ \A x \in DOMAIN Tables[n].goto :
         LET next == Tables[Tables[n].goto[x]]
         IN  /\ next.symbol = x
             /\ \A i \in next.items :
                  i.dot > 0 => /\ Rules[i.rule].rhs[i.dot] = x
                               /\ [rule |-> i.rule, dot |-> i.dot - 1] \in Tables[n].items
    /\ \A i \in Tables[n].items :
         i.dot = 0 => IF i.rule = 1 THEN n = Start ELSE Rules[i.rule].lhs \in DOMAIN Tables[n].goto
    /\ n = Start => \A i \in Tables[n].items : i.dot = 0
    /\ \A t \in Terminals :
         LET r == Tables[n].reduces[t]
         IN  r # 0 => [rule |-> r, dot |-> Len(Rules[r].rhs)] \in Tables[n].items

\* The headers come first and a document is complete only at the end of the
\* file.
HeaderSymbols == {"PACKAGE", "IMPORT", "package"}

DocumentWhole ==
  \A n \in DOMAIN Tables :
    /\ HeaderSymbols \cap DOMAIN Tables[n].goto # {} =>
         n = Start \/ Tables[n].symbol \in HeaderSymbols
    /\ "EOF" \in DOMAIN Tables[n].goto <=> Tables[n].symbol = "document"
    /\ Tables[n].symbol = "document" => ~Tables[n].consistent
    /\ \A t \in Terminals :
         LET r == Tables[n].reduces[t]
         IN  r # 0 /\ Rules[r].lhs = "document" => t = "EOF" /\ ~Tables[n].consistent

\* What the rules of each action give and take.
RuleTyped(lhs, rhs, does) ==
  LET has(n, x) == n <= Len(rhs) /\ rhs[n] = x
      token(n) == n <= Len(rhs) /\ rhs[n] \in Tokens
      is(actions, symbols) == does \in actions => lhs \in symbols
  IN  /\ lhs \notin Terminals /\ Len(rhs) \in Nat
      /\ lhs = "accept" => Len(rhs) = 2 /\ rhs[2] = "EOF"
      /\ (lhs = "document" <=> does = "document") /\ (lhs = "imports" <=> does = "import")
      /\ lhs = "package" => Len(rhs) > 0 /\ rhs[Len(rhs)] \in HeaderSymbols
      /\ \A k \in 1..Len(rhs) : rhs[k] \in HeaderSymbols => lhs \in {"headers", "imports", "package"}
      /\ is({"accept", "nothing"}, {"accept", "headers", "package", "interface_keywords"})
      /\ does = "document" => Len(rhs) > 0 /\ rhs[Len(rhs)] = "document_items"
      /\ does = "import" => has(1, "IMPORT")
      /\ is({"no_items"}, {"document_items", "interface_items", "arg_list"})
      /\ is({"append_item"}, {"document_items", "interface_items"})
      /\ does = "append_item" /\ lhs = "document_items" => has(1, lhs) /\ has(2, "declaration")
      /\ does = "append_item" /\ lhs = "interface_items" => has(1, lhs) /\ has(2, "method_decl")
      /\ does = "first" => \/ has(1, lhs)
                           \/ lhs = "direction" /\ token(1)
                           \/ lhs = "declaration" /\ has(1, "parcelable_decl")
                           \/ lhs = "declaration" /\ has(1, "interface_decl")
      /\ is({"null"}, {"parcelable_decl", "interface_decl"})
      /\ does \in {"parcelable", "flattenable"} => lhs = "parcelable_decl" /\ token(2)
      /\ is({"binder", "oneway_binder", "rpc"}, {"interface_header"})
      /\ does = "interface" =>
           lhs = "interface_decl" /\ has(1, "interface_header") /\ token(2) /\ has(4, "interface_items")
      /\ does = "method" => lhs = "method_decl" /\ has(1, "type") /\ token(2) /\ has(4, "arg_list")
      /\ does = "oneway_method" =>
           lhs = "method_decl" /\ has(2, "type") /\ token(3) /\ has(5, "arg_list")
      /\ does = "one_arg" => lhs = "arg_list" /\ has(1, "arg")
      /\ does = "append_arg" => lhs = "arg_list" /\ has(1, lhs) /\ has(3, "arg")
      /\ does = "arg" => lhs = "arg" /\ has(1, "direction") /\ has(2, "type") /\ token(3)
      /\ is({"no_direction"}, {"direction"})
      /\ does \in {"plain", "array"} => lhs = "type" /\ token(1)
      /\ does = "array" => token(2)
      /\ does \in
           {"accept", "nothing", "document", "import", "no_items", "append_item", "first", "null",
            "parcelable", "flattenable", "binder", "oneway_binder", "rpc", "interface", "method",
            "oneway_method", "one_arg", "append_arg", "arg", "no_direction", "plain", "array"}

RulesTyped == \A r \in DOMAIN Rules : RuleTyped(Rules[r].lhs, Rules[r].rhs, Rules[r].does)

\* What stands at the beginning of a file only.
FrontSymbols == {"PACKAGE", "package", "headers", "document"}

\* The right sides of each action that have no error in them.
RuleSpelled(lhs, rhs, does) ==
  /\ does = "accept" => lhs = "accept"
  /\ lhs = "package" => rhs = <<"PACKAGE">>
  /\ \A k \in 1..Len(rhs) :
       /\ rhs[k] \in FrontSymbols => lhs \in FrontSymbols \cup {"accept"}
       /\ rhs[k] \in {"imports", "headers", "document"} =>
            lhs \in {"imports", "headers", "document", "accept"}
  /\ does = "nothing" =>
       \/ lhs = "headers" /\ rhs \in {<<"package">>, <<"imports">>, <<"package", "imports">>}
       \/ lhs = "package" /\ rhs = <<"PACKAGE">>
       \/ lhs \in {"accept", "interface_keywords"}
  /\ does = "document" => rhs \in {<<"document_items">>, <<"headers", "document_items">>}
  /\ does = "import" => rhs \in {<<"IMPORT">>, <<"IMPORT", "imports">>}
  /\ does \in {"no_items", "no_direction"} => rhs = <<>>
  /\ does = "append_item" => Len(rhs) = 2
  /\ does = "first" => Len(rhs) = 1 /\ lhs \in {"declaration", "direction"}
  /\ does = "first" /\ lhs = "direction" => rhs[1] \in {"IN", "OUT", "INOUT"}
  /\ does = "parcelable" => rhs = <<"PARCELABLE", "IDENTIFIER", ";">>
  /\ does = "flattenable" => rhs = <<"FLATTENABLE", "IDENTIFIER", ";">>
  /\ does = "null" => rhs \in {<<"PARCELABLE", ";">>, <<"FLATTENABLE", ";">>}
  /\ does = "binder" => rhs = <<"INTERFACE">>
  /\ does = "oneway_binder" => rhs = <<"ONEWAY", "INTERFACE">>
  /\ does = "rpc" => rhs = <<"RPC">>
  /\ does = "interface" =>
       rhs = <<"interface_header", "IDENTIFIER", "{", "interface_items", "}">>
  /\ does = "method" => rhs = <<"type", "IDENTIFIER", "(", "arg_list", ")", ";">>
  /\ does = "oneway_method" =>
       rhs = <<"ONEWAY", "type", "IDENTIFIER", "(", "arg_list", ")", ";">>
  /\ does = "one_arg" => rhs = <<"arg">>
  /\ does = "append_arg" => rhs = <<"arg_list", ",", "arg">>
  /\ does = "arg" => rhs = <<"direction", "type", "IDENTIFIER">>
  /\ does = "plain" => rhs \in {<<"IDENTIFIER">>, <<"GENERIC">>}
  /\ does = "array" => rhs \in {<<"IDENTIFIER", "ARRAY">>, <<"IDENTIFIER", "*">>}

RulesSpelled ==
  \A r \in DOMAIN Rules :
    (\A k \in 1..Len(Rules[r].rhs) : Rules[r].rhs[k] # "error") =>
      RuleSpelled(Rules[r].lhs, Rules[r].rhs, Rules[r].does)

\* These stand there only, a list of arguments right after its parenthesis, and
\* interface_keywords is reduced to only before an error.
PlacesApart ==
  \A n \in DOMAIN Tables :
    /\ FrontSymbols \cap DOMAIN Tables[n].goto # {} => n = Start
    /\ "arg_list" \in DOMAIN Tables[n].goto => Tables[n].symbol = "("
    /\ \A t \in Terminals \ {"error"} :
         LET r == Tables[n].reduces[t]
         IN  r # 0 => Rules[r].lhs # "interface_keywords"

ASSUME TablesAssumption ==
  RulesTyped /\ TablesTyped /\ ItemsExplain /\ DocumentWhole /\ RulesSpelled /\ PlacesApart

=============================================================================
