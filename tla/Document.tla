------------------------------- MODULE Document -------------------------------
(***************************************************************************)
(* What parse_aidl reports of a file (the structures of aidl_language.h)   *)
(* and what the checks of aidl.cpp say of one declaration: the type it     *)
(* declares (gather_types), whether a name fits its file (check_filename)  *)
(* and whether a method's types may cross an interface (check_method).     *)
(***************************************************************************)
EXTENDS Namespace

\* The start condition the scanner is left in.  flex keeps it from one file
\* to the next: nothing resets it when parse_aidl opens a file.
LexStates == {"INITIAL", "LONG_COMMENT"}

\* type_type: dimension counts the "[]"; star is array_token = "*".
ArgType == [ref : TypeRef, dimension : Nat, star : BOOLEAN]

\* arg_type: direction is the keyword, "" when there is none; keyword says
\* that the argument's name is one of matches_keyword's.
Arg == [direction : {"", "in", "out", "inout"}, type : ArgType, keyword : BOOLEAN]

Method == [name : Ident, type : ArgType, args : Seq(Arg)]

\* document_item_type: user_data_type, or interface_type of either sort.  A
\* NULL package is <<>>; the declared name may itself be dotted.
Item == [kind : {"USER_DATA", "BINDER", "RPC"}, package : DottedName,
         name : SimpleName, parcelable : BOOLEAN, flattenable : BOOLEAN,
         methods : Seq(Method)]

\* The outcome of parsing one text: the import statements, whether the
\* document callback ran and with which items (<<>> is the NULL it gets from
\* an empty file), whether g_error or yyparse's result was nonzero, and the
\* start condition at end of file.
Outcome == [imports : Seq(DottedName), called : BOOLEAN, items : Seq(Item),
            err : BOOLEAN, lex : LexStates]

IsInterface(item) == item.kind \in {"BINDER", "RPC"}

\* parse_preprocessed_file: the words a line may begin with.
DeclarationWords == {"parcelable", "flattenable", "interface"}

\* parse_preprocessed_file: the declaration of one line, its fullname split at
\* the last dot.  Interfaces are always binder interfaces, a flattenable is not
\* parcelable.
LineItem(type, fullname) ==
  [kind |-> IF type = "interface" THEN "BINDER" ELSE "USER_DATA",
   package |-> Front(fullname), name |-> <<Last(fullname)>>,
   parcelable |-> type = "parcelable", flattenable |-> type = "flattenable",
   methods |-> <<>>]

-----------------------------------------------------------------------------
\* gather_types: the UserDataType or InterfaceType built for a declaration.
DeclaredType(item) ==
  [package |-> item.package, name |-> item.name, args |-> <<>>,
   kind |-> IF IsInterface(item) THEN "INTERFACE" ELSE "USERDATA",
   canWriteToParcel  |-> IsInterface(item) \/ item.parcelable,
   canWriteToRpcData |-> ~IsInterface(item) /\ item.flattenable,
   canBeOut |-> ~IsInterface(item), canBeArray |-> ~IsInterface(item)]

\* A GENERATED type that comes with an interface.
GeneratedType(item, suffix) ==
  [package |-> item.package, name |-> item.name \o suffix, args |-> <<>>,
   kind |-> "GENERATED", canWriteToParcel |-> FALSE,
   canWriteToRpcData |-> FALSE, canBeOut |-> FALSE, canBeArray |-> FALSE]

\* Plausible bug, for the mutation runs: the proxy is never registered.
GatheredNoProxy(ns, item) ==
  IF Declares(ns, QualifiedName(DeclaredType(item))) THEN ns
  ELSE IF item.kind = "BINDER"
         THEN Add(Add(ns, DeclaredType(item)), GeneratedType(item, <<"Stub">>))
         ELSE Add(ns, DeclaredType(item))

\* gather_types: the registry after one declaration.  The first declaration
\* of a name also brings the generated classes of an interface.
Gathered(ns, item) ==
  LET declared == Add(ns, DeclaredType(item))
  IN  CASE Declares(ns, QualifiedName(DeclaredType(item))) -> ns
        [] OTHER ->
             CASE item.kind = "BINDER" ->
                    Add(Add(declared, GeneratedType(item, <<"Stub">>)),
                        GeneratedType(item, <<"Stub", "Proxy">>))
               [] item.kind = "RPC" ->
                    Add(declared, GeneratedType(item, <<"ServiceBase">>))
               [] item.kind = "USER_DATA" -> declared

\* gather_types: the name is taken by a built-in or by a type of another kind.
Redefines(ns, item) ==
  LET q == QualifiedName(DeclaredType(item))
  IN  /\ Declares(ns, q)
      /\ ns[Find(ns, q)].kind \in {"BUILT_IN"} \cup (Kinds \ {DeclaredType(item).kind})

-----------------------------------------------------------------------------
\* convert_direction(direction) != IN_PARAMETER.
IsOutgoing(arg) == arg.direction \in {"out", "inout"}

\* The Type* is EVENT_FAKE_TYPE.
IsEvent(t) == QualifiedName(t) = Plain(<<"event">>)

CanMarshal(kind, t) ==
  IF kind = "BINDER" THEN t.canWriteToParcel ELSE t.canWriteToRpcData

\* Shared by return types and arguments: arrays of one dimension, of a type
\* that can be an array.
BadArray(t, type) == (type.dimension > 0 /\ ~t.canBeArray) \/ type.dimension > 1

\* check_method: the found return type t is not allowed.
ReturnRefused(kind, t, type) ==
  \/ IF IsEvent(t) THEN kind # "RPC" ELSE ~CanMarshal(kind, t)
  \/ BadArray(t, type)

\* Plausible bug, for the mutation runs: a type that cannot be an out
\* parameter passes as one.
ArgRefusedNoOutRule(kind, event, t, arg) ==
  \/ IsEvent(t) \/ ~CanMarshal(kind, t) \/ BadArray(t, arg.type) \/ arg.keyword
  \/ event /\ IsOutgoing(arg)

\* check_method: the argument, of the found type t, is not allowed; event
\* says that the method's return type is EVENT_FAKE_TYPE.
ArgRefused(kind, event, t, arg) ==
  LET byReference == arg.type.dimension # 0 \/ t.canBeOut \/ arg.type.star
  IN  \/ IsEvent(t)
      \/ ~CanMarshal(kind, t)
      \/ event /\ IsOutgoing(arg)
      \/ arg.direction = "" /\ byReference
      \/ IsOutgoing(arg) /\ ~byReference
      \/ BadArray(t, arg.type)
      \/ arg.keyword

=============================================================================
