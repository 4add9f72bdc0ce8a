------------------------------ MODULE Namespace ------------------------------
(***************************************************************************)
(* The type registry of the compiler: class Namespace of Type.h / Type.cpp *)
(* (the global NAMES).  The registry is the vector m_types, modelled as    *)
(* the sequence ns of the types in the order they were added; a Type* is a *)
(* position in that sequence and NULL is 0.                                *)
(*                                                                         *)
(* A dotted name "a.b.C" is the sequence <<"a", "b", "C">>, so the text    *)
(* equality the code uses is equality of sequences.  A reference to a type *)
(* is [path, args]: args is empty for a plain name and lists the arguments *)
(* of "List<a.B>".  The grammar allows no generic inside a generic, which  *)
(* is why the recursive call in Namespace::Search is one level deep.       *)
(***************************************************************************)
EXTENDS Integers, Sequences, SequencesExt

CONSTANT Ident          \* the components of the names that occur

\* Among them are those the compiler itself spells.
ASSUME IdentAssumption ==
  {"java", "util", "List", "Stub", "Proxy", "ServiceBase"} \subseteq Ident

Kinds == {"BUILT_IN", "USERDATA", "INTERFACE", "GENERATED"}

DottedName == Seq(Ident)

SimpleName == DottedName \ {<<>>}      \* the name of a declaration

TypeRef == [path : DottedName, args : Seq(DottedName)]

\* class Type: the fields the compiler's decisions depend on.  canBeArray is
\* the virtual CanBeArray(), which each subclass answers with a constant.
Type == [package : DottedName, name : SimpleName, args : Seq(DottedName),
         kind : Kinds, canWriteToParcel : BOOLEAN, canWriteToRpcData : BOOLEAN,
         canBeOut : BOOLEAN, canBeArray : BOOLEAN]

\* A reference without generic arguments.
Plain(path) == [path |-> path, args |-> <<>>]

\* Type::QualifiedName(), of a generic type too: package.name<args>.
QualifiedName(t) == [path |-> t.package \o t.name, args |-> t.args]

\* Namespace::Find(name) != NULL.
Declares(ns, ref) == \E i \in DOMAIN ns : QualifiedName(ns[i]) = ref

\* Namespace::Find(name): the first type with that qualified name.
Find(ns, ref) == SelectInSeq(ns, LAMBDA t : QualifiedName(t) = ref)

\* Plausible bugs in Add, for the mutation runs: the Find is lost; the newest
\* type goes to the front.
AddUnchecked(ns, t) == Append(ns, t)
AddFront(ns, t) == IF Declares(ns, QualifiedName(t)) THEN ns ELSE <<t>> \o ns

\* Namespace::Add(type): a type whose name is taken is dropped.
Add(ns, t) == IF Declares(ns, QualifiedName(t)) THEN ns ELSE Append(ns, t)

\* Namespace::Search of a plain name: "an exact match wins", then the first
\* type whose Name() is the whole reference.
SearchPlain(ns, path) ==
  IF Declares(ns, Plain(path))
    THEN Find(ns, Plain(path))
    ELSE SelectInSeq(ns, LAMBDA t : t.name = path)

\* search_generic followed by make_generic_type.  The generics are
\* java.util.List and java.util.Map, by qualified name or by name, and only
\* List has a type class: a Map<...> is found and then refused.
IsGenericList(path) == path \in {<<"java", "util", "List">>, <<"List">>}

\* GenericListType(args): the arguments are spelled by their qualified names.
GenericList(ns, args) ==
  [package |-> <<"java", "util">>, name |-> <<"List">>,
   args |-> [i \in DOMAIN args |->
               QualifiedName(ns[SearchPlain(ns, args[i])]).path],
   kind |-> "BUILT_IN", canWriteToParcel |-> TRUE, canWriteToRpcData |-> TRUE,
   canBeOut |-> TRUE, canBeArray |-> FALSE]

\* Search gets as far as constructing a type for the reference.
Constructs(ns, ref) ==
  /\ ref.args # <<>>
  /\ ~Declares(ns, ref)
  /\ IsGenericList(ref.path)
  /\ \A i \in DOMAIN ref.args : SearchPlain(ns, ref.args[i]) # 0

\* The registry after Namespace::Search(ref): a generic type the reference
\* spells for the first time is added "so they always get the same object".
Searched(ns, ref) ==
  IF Constructs(ns, ref) THEN Add(ns, GenericList(ns, ref.args)) ELSE ns

\* The type Namespace::Search(ref) returns, a position in Searched(ns, ref).
Search(ns, ref) ==
  IF ref.args = <<>> THEN SearchPlain(ns, ref.path)
  ELSE IF Constructs(ns, ref)
    THEN Find(Searched(ns, ref), QualifiedName(GenericList(ns, ref.args)))
    ELSE Find(ns, ref)

=============================================================================
