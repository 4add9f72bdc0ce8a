-------------------------- MODULE CompileAidl_proofs --------------------------
(***************************************************************************)
(* Proofs about module CompileAidl, for any base types, command lines and  *)
(* disks: its type invariant, and that the registry never holds two types  *)
(* of one name.                                                            *)
(***************************************************************************)
EXTENDS CompileAidl, SequenceLemmas

-----------------------------------------------------------------------------
(* What the operations of the type registry return and preserve.           *)

\* No two types of the registry have the same qualified name.
Unique(ns) ==
  \A i, j \in DOMAIN ns : QualifiedName(ns[i]) = QualifiedName(ns[j]) => i = j

\* The registry has grown: every type is where it was.
Extends(ns, more) ==
  /\ DOMAIN ns \subseteq DOMAIN more
  /\ \A i \in DOMAIN ns : more[i] = ns[i]

\* A function on 1..n is a sequence.
LEMMA FunctionIsSeq ==
  ASSUME NEW S, NEW n \in Nat, NEW f \in [1..n -> S]
  PROVE  f \in Seq(S) /\ Len(f) = n
  OBVIOUS

\* Two sequences over a set, one after the other.
LEMMA Concatenated ==
  ASSUME NEW S, NEW a \in Seq(S), NEW b \in Seq(S)
  PROVE  a \o b \in Seq(S) /\ Len(a \o b) = Len(a) + Len(b)
  OBVIOUS

\* Find returns the position of a type with the name asked for.
LEMMA FindIsDeclared ==
  ASSUME NEW S, NEW ns \in Seq(S), NEW ref, Declares(ns, ref)
  PROVE  /\ Find(ns, ref) \in DOMAIN ns
         /\ QualifiedName(ns[Find(ns, ref)]) = ref
<1> DEFINE I == {i \in 1..Len(ns) : QualifiedName(ns[i]) = ref}
<1>1. I # {} /\ I \subseteq Nat
  BY LenProperties DEF Declares
<1>2. Min(I) \in I
  BY <1>1, MinOfNaturals
<1>3. Find(ns, ref) = Min(I)
  BY <1>1 DEF Find, SelectInSeq
<1>4. QED
  BY <1>2, <1>3

\* SearchPlain returns the position of a type, or 0.
LEMMA SearchPlainIsPosition ==
  ASSUME NEW S, NEW ns \in Seq(S), NEW path
  PROVE  SearchPlain(ns, path) \in DOMAIN ns \cup {0}
<1> DEFINE I == {i \in 1..Len(ns) : ns[i].name = path}
<1>1. CASE Declares(ns, Plain(path))
  BY <1>1, FindIsDeclared DEF SearchPlain
<1>2. CASE ~Declares(ns, Plain(path))
  <2>1. I # {} => Min(I) \in I
    <3>1. I \subseteq Nat
      OBVIOUS
    <3>2. QED
      BY <3>1, MinOfNaturals
  <2>2. SearchPlain(ns, path) = IF I # {} THEN Min(I) ELSE 0
    BY <1>2 DEF SearchPlain, SelectInSeq
  <2>3. QED
    BY <2>1, <2>2
<1>3. QED
  BY <1>1, <1>2

\* Add keeps the registry a sequence of types, keeps every position, and
\* brings in the new type's name.
LEMMA AddPreserves ==
  ASSUME NEW S, NEW ns \in Seq(S), NEW t \in S
  PROVE  /\ Add(ns, t) \in Seq(S)
         /\ Unique(ns) => Unique(Add(ns, t))
         /\ \A ref : Declares(ns, ref) => Declares(Add(ns, t), ref)
         /\ Declares(Add(ns, t), QualifiedName(t))
<1>1. CASE Declares(ns, QualifiedName(t))
  BY <1>1 DEF Add
<1>2. CASE ~Declares(ns, QualifiedName(t))
  <2>1. Add(ns, t) = Append(ns, t)
    BY <1>2 DEF Add
  <2>2. /\ Append(ns, t) \in Seq(S)
        /\ DOMAIN ns = 1..Len(ns) /\ Len(ns) \in Nat
        /\ DOMAIN Append(ns, t) = 1..(Len(ns) + 1)
        /\ \A i \in 1..Len(ns) : Append(ns, t)[i] = ns[i]
        /\ Append(ns, t)[Len(ns) + 1] = t
    BY AppendProperties, LenProperties
  <2>3. Unique(ns) => Unique(Append(ns, t))
    <3> SUFFICES ASSUME Unique(ns),
                        NEW i \in DOMAIN Append(ns, t), NEW j \in DOMAIN Append(ns, t),
                        QualifiedName(Append(ns, t)[i]) = QualifiedName(Append(ns, t)[j])
                 PROVE  i = j
      BY DEF Unique
    <3>1. CASE i \in DOMAIN ns /\ j \in DOMAIN ns
      BY <3>1, <2>2 DEF Unique
    <3>2. CASE i \notin DOMAIN ns /\ j \notin DOMAIN ns
      BY <3>2, <2>2
    <3>3. CASE i \in DOMAIN ns /\ j \notin DOMAIN ns
      BY <3>3, <2>2, <1>2 DEF Declares
    <3>4. CASE i \notin DOMAIN ns /\ j \in DOMAIN ns
      BY <3>4, <2>2, <1>2 DEF Declares
    <3>5. QED
      BY <3>1, <3>2, <3>3, <3>4
  <2>4. \A ref : Declares(ns, ref) => Declares(Append(ns, t), ref)
    BY <2>2 DEF Declares
  <2>5. Declares(Append(ns, t), QualifiedName(t))
    BY <2>2 DEF Declares
  <2>6. QED
    BY <2>1, <2>2, <2>3, <2>4, <2>5
<1>3. QED
  BY <1>1, <1>2

\* Add lets the registry grow by the new type at most.
LEMMA AddExtends ==
  ASSUME NEW S, NEW ns \in Seq(S), NEW t \in S
  PROVE  /\ Extends(ns, Add(ns, t))
         /\ \A i \in DOMAIN Add(ns, t) : i \in DOMAIN ns \/ Add(ns, t)[i] = t
<1>1. CASE Declares(ns, QualifiedName(t))
  BY <1>1 DEF Add, Extends
<1>2. CASE ~Declares(ns, QualifiedName(t))
  <2>1. Add(ns, t) = Append(ns, t)
    BY <1>2 DEF Add
  <2>2. /\ DOMAIN ns = 1..Len(ns) /\ Len(ns) \in Nat
        /\ DOMAIN Append(ns, t) = 1..(Len(ns) + 1)
        /\ \A i \in 1..Len(ns) : Append(ns, t)[i] = ns[i]
        /\ Append(ns, t)[Len(ns) + 1] = t
    BY AppendProperties, LenProperties
  <2>3. QED
    BY <2>1, <2>2 DEF Extends
<1>3. QED
  BY <1>1, <1>2

\* What a name stands for is not changed by what the registry grows by.
LEMMA FindStays ==
  ASSUME NEW S, NEW ns \in Seq(S), NEW more \in Seq(S), Extends(ns, more), Unique(more),
         NEW ref, Declares(ns, ref)
  PROVE  /\ Declares(more, ref) /\ Find(more, ref) = Find(ns, ref)
         /\ more[Find(more, ref)] = ns[Find(ns, ref)]
<1>1. Find(ns, ref) \in DOMAIN ns /\ QualifiedName(ns[Find(ns, ref)]) = ref
  BY FindIsDeclared
<1>2. Find(ns, ref) \in DOMAIN more /\ more[Find(ns, ref)] = ns[Find(ns, ref)]
  BY <1>1 DEF Extends
<1>3. Declares(more, ref)
  BY <1>1, <1>2 DEF Declares
<1>4. Find(more, ref) \in DOMAIN more /\ QualifiedName(more[Find(more, ref)]) = ref
  BY <1>3, FindIsDeclared
<1>5. Find(more, ref) = Find(ns, ref)
  BY <1>1, <1>2, <1>4 DEF Unique
<1>6. QED
  BY <1>2, <1>3, <1>5

\* The type made for List<...> is a type.
LEMMA GenericListIsType ==
  ASSUME NEW ns \in Seq(Type), NEW as \in Seq(DottedName),
         \A i \in DOMAIN as : SearchPlain(ns, as[i]) # 0,
         {"java", "util", "List"} \subseteq Ident
  PROVE  GenericList(ns, as) \in Type
<1> DEFINE spelled == [i \in DOMAIN as |-> QualifiedName(ns[SearchPlain(ns, as[i])]).path]
<1>1. ASSUME NEW i \in DOMAIN as
      PROVE  QualifiedName(ns[SearchPlain(ns, as[i])]).path \in DottedName
  <2>1. ns[SearchPlain(ns, as[i])] \in Type
    BY <1>1, SearchPlainIsPosition, LenProperties
  <2>2. QED
    BY <2>1, ConcatProperties DEF QualifiedName, Type, SimpleName, DottedName
<1>2. DOMAIN as = 1..Len(as) /\ Len(as) \in Nat
  BY LenProperties
<1>3. spelled \in Seq(DottedName)
  <2>1. spelled \in [1..Len(as) -> DottedName]
    BY <1>1, <1>2
  <2>2. QED
    BY <2>1, <1>2, FunctionIsSeq
<1>4. <<"java", "util">> \in DottedName /\ <<"List">> \in SimpleName
  BY DEF DottedName, SimpleName
<1>5. QED
  BY <1>3, <1>4 DEF GenericList, Type, Kinds

\* Search leaves a registry of types, with unique names, that has grown.
LEMMA SearchedPreserves ==
  ASSUME NEW ns \in Seq(Type), NEW ref \in TypeRef,
         {"java", "util", "List"} \subseteq Ident
  PROVE  /\ Searched(ns, ref) \in Seq(Type)
         /\ Unique(ns) => Unique(Searched(ns, ref))
         /\ \A r : Declares(ns, r) => Declares(Searched(ns, ref), r)
         /\ Extends(ns, Searched(ns, ref))
<1>1. CASE Constructs(ns, ref)
  <2>1. GenericList(ns, ref.args) \in Type
    BY <1>1, GenericListIsType DEF Constructs, TypeRef
  <2>2. QED
    BY <1>1, <2>1, AddPreserves, AddExtends DEF Searched
<1>2. CASE ~Constructs(ns, ref)
  BY <1>2 DEF Searched, Extends
<1>3. QED
  BY <1>1, <1>2

-----------------------------------------------------------------------------
(* What a reference means when other references are searched for.          *)

\* The type of a list with these arguments.
ListType(as) ==
  [package |-> <<"java", "util">>, name |-> <<"List">>, args |-> as,
   kind |-> "BUILT_IN", canWriteToParcel |-> TRUE, canWriteToRpcData |-> TRUE,
   canBeOut |-> TRUE, canBeArray |-> FALSE]

\* A type called List stands in front of the generic types, and they are all lists.
ListsLast(ns) ==
  /\ \A j \in DOMAIN ns : ns[j].args # <<>> => ns[j] = ListType(ns[j].args)
  /\ \E i \in DOMAIN ns : /\ ns[i].name = <<"List">> /\ ns[i].args = <<>>
                          /\ \A j \in DOMAIN ns : ns[j].args # <<>> => i < j

\* The least element stays when larger ones join.
LEMMA MinStays ==
  ASSUME NEW I, NEW J, I \subseteq J, J \subseteq Nat, I # {},
         \A i \in I : \A j \in J \ I : i <= j
  PROVE  Min(J) = Min(I)
<1>1. Min(I) \in I /\ (\A k \in I : Min(I) <= k)
  BY MinOfNaturals
<1>2. Min(J) \in J /\ (\A k \in J : Min(J) <= k)
  BY MinOfNaturals
<1>3. Min(I) <= Min(J)
  BY <1>1, <1>2
<1>4. Min(J) <= Min(I)
  BY <1>1, <1>2
<1>5. Min(I) \in Nat /\ Min(J) \in Nat
  BY <1>1, <1>2
<1>6. QED
  BY <1>3, <1>4, <1>5

LEMMA FindMissing ==
  ASSUME NEW S, NEW ns \in Seq(S), NEW ref, ~Declares(ns, ref)
  PROVE  Find(ns, ref) = 0
<1>1. {i \in 1..Len(ns) : QualifiedName(ns[i]) = ref} = {}
  BY LenProperties DEF Declares
<1>2. QED
  BY <1>1 DEF Find, SelectInSeq

\* A plain reference never means a generic type, and it means a type of its name.
LEMMA PlainMeansPlain ==
  ASSUME NEW S, NEW ns \in Seq(S), ListsLast(ns), NEW path, SearchPlain(ns, path) # 0
  PROVE  LET t == ns[SearchPlain(ns, path)]
         IN  /\ t.args = <<>>
             /\ Declares(ns, Plain(QualifiedName(t).path))
<1> DEFINE I == {i \in 1..Len(ns) : ns[i].name = path}
           t == ns[SearchPlain(ns, path)]
<1>1. DOMAIN ns = 1..Len(ns) /\ Len(ns) \in Nat
  BY LenProperties
<1>2. CASE Declares(ns, Plain(path))
  <2>1. SearchPlain(ns, path) \in DOMAIN ns /\ QualifiedName(t) = Plain(path)
    BY <1>2, FindIsDeclared DEF SearchPlain
  <2>2. QED
    BY <1>2, <2>1 DEF QualifiedName, Plain
<1>3. CASE ~Declares(ns, Plain(path))
  <2>1. SearchPlain(ns, path) = IF I # {} THEN Min(I) ELSE 0
    BY <1>3 DEF SearchPlain, SelectInSeq
  <2>2. I # {} /\ I \subseteq Nat
    BY <2>1
  <2>3. SearchPlain(ns, path) \in I /\ (\A k \in I : SearchPlain(ns, path) <= k)
    BY <2>1, <2>2, MinOfNaturals
  <2>4. t.args = <<>>
    <3>1. SUFFICES ASSUME t.args # <<>> PROVE FALSE
      OBVIOUS
    <3>2. t = ListType(t.args)
      BY <1>1, <2>3, <3>1 DEF ListsLast
    <3>3. path = <<"List">>
      BY <2>3, <3>2 DEF ListType
    <3>4. PICK i \in DOMAIN ns : ns[i].name = path /\ (\A j \in DOMAIN ns : ns[j].args # <<>> => i < j)
      BY <3>3 DEF ListsLast
    <3>5. i \in I /\ i < SearchPlain(ns, path)
      BY <1>1, <2>3, <3>1, <3>4
    <3>6. QED
      BY <1>1, <2>3, <3>5
  <2>5. QualifiedName(t) = Plain(QualifiedName(t).path)
    BY <2>4 DEF QualifiedName, Plain
  <2>6. QED
    BY <1>1, <2>3, <2>4, <2>5 DEF Declares
<1>4. QED
  BY <1>2, <1>3

\* What the registry comes to be when a type with a new name is added.
LEMMA Appended ==
  ASSUME NEW S, NEW ns \in Seq(S), NEW t \in S, ~Declares(ns, QualifiedName(t))
  PROVE  /\ Add(ns, t) \in Seq(S) /\ DOMAIN ns = 1..Len(ns) /\ Len(ns) \in Nat
         /\ DOMAIN Add(ns, t) = 1..(Len(ns) + 1) /\ Len(Add(ns, t)) = Len(ns) + 1
         /\ \A i \in DOMAIN ns : Add(ns, t)[i] = ns[i]
         /\ Add(ns, t)[Len(ns) + 1] = t
  BY AppendProperties, LenProperties DEF Add

\* Plain references mean what they meant when a generic list is added.
LEMMA PlainStays ==
  ASSUME NEW ns \in Seq(Type), Unique(ns), ListsLast(ns), NEW as, as # <<>>,
         ListType(as) \in Type, ~Declares(ns, QualifiedName(ListType(as))), NEW path
  PROVE  LET more == Add(ns, ListType(as))
         IN  /\ SearchPlain(more, path) = SearchPlain(ns, path)
             /\ SearchPlain(ns, path) # 0
                  => more[SearchPlain(ns, path)] = ns[SearchPlain(ns, path)]
<1> DEFINE t == ListType(as)
           more == Add(ns, t)
           I == {i \in 1..Len(ns) : ns[i].name = path}
           J == {i \in 1..Len(more) : more[i].name = path}
<1>1. /\ more \in Seq(Type) /\ DOMAIN ns = 1..Len(ns) /\ Len(ns) \in Nat
      /\ DOMAIN more = 1..(Len(ns) + 1) /\ Len(more) = Len(ns) + 1
      /\ \A i \in DOMAIN ns : more[i] = ns[i]
      /\ more[Len(ns) + 1] = t
  BY Appended
<1>2. t.name = <<"List">> /\ QualifiedName(t) # Plain(path)
  BY DEF ListType, QualifiedName, Plain
<1> HIDE DEF t, more
<1>3. SearchPlain(ns, path) # 0 => more[SearchPlain(ns, path)] = ns[SearchPlain(ns, path)]
  BY <1>1, SearchPlainIsPosition
<1>4. CASE Declares(ns, Plain(path))
  <2>1. Extends(ns, more) /\ Unique(more)
    BY <1>1, AddPreserves, AddExtends DEF more, t
  <2>2. Declares(more, Plain(path)) /\ Find(more, Plain(path)) = Find(ns, Plain(path))
    BY <1>1, <1>4, <2>1, FindStays
  <2>3. QED
    BY <1>3, <1>4, <2>2 DEF SearchPlain, more, t
<1>5. CASE ~Declares(ns, Plain(path))
  <2>1. ~Declares(more, Plain(path))
    BY <1>1, <1>2, <1>5 DEF Declares
  <2>2. /\ SearchPlain(ns, path) = IF I # {} THEN Min(I) ELSE 0
        /\ SearchPlain(more, path) = IF J # {} THEN Min(J) ELSE 0
    BY <1>5, <2>1 DEF SearchPlain, SelectInSeq
  <2>3. I \subseteq J /\ J \subseteq Nat /\ (\A i \in I : \A j \in J \ I : i <= j)
    BY <1>1
  <2>4. I = {} => J = {}
    <3>1. SUFFICES ASSUME I = {}, NEW j \in J PROVE FALSE
      OBVIOUS
    <3>2. j \in 1..(Len(ns) + 1) /\ more[j].name = path /\ (j \in 1..Len(ns) => ns[j].name # path)
      BY <1>1, <3>1
    <3>6. j = Len(ns) + 1
      BY <1>1, <3>2
    <3>5. path = <<"List">>
      BY <1>1, <1>2, <3>2, <3>6, Zenon
    <3>3. \E i \in DOMAIN ns : ns[i].name = path
      BY <3>5 DEF ListsLast
    <3>4. QED
      BY <1>1, <3>1, <3>3
  <2>5. I # {} => J # {} /\ Min(J) = Min(I)
    BY <2>3, MinStays
  <2>7. SearchPlain(more, path) = SearchPlain(ns, path)
    <3>1. CASE I = {}
      BY <2>2, <2>4, <3>1
    <3>2. CASE I # {}
      BY <2>2, <2>5, <3>2
    <3>3. QED
      BY <3>1, <3>2
  <2>6. QED
    BY <1>3, <2>7 DEF more, t
<1>6. QED
  BY <1>4, <1>5

\* A list of what plain references stand for stays the same list.
LEMMA GenericStays ==
  ASSUME NEW ns \in Seq(Type), NEW more, NEW refs,
         \A i \in DOMAIN refs : /\ SearchPlain(ns, refs[i]) # 0
                               /\ SearchPlain(more, refs[i]) = SearchPlain(ns, refs[i])
                               /\ more[SearchPlain(ns, refs[i])] = ns[SearchPlain(ns, refs[i])]
  PROVE  GenericList(more, refs) = GenericList(ns, refs)
  BY DEF GenericList

\* The list made for a reference, and how its arguments are spelled.
LEMMA GenericIsList ==
  ASSUME NEW ns \in Seq(Type), ListsLast(ns), NEW refs \in Seq(DottedName), refs # <<>>,
         \A i \in DOMAIN refs : SearchPlain(ns, refs[i]) # 0,
         {"java", "util", "List"} \subseteq Ident
  PROVE  LET t == GenericList(ns, refs)
         IN  /\ t \in Type /\ t = ListType(t.args) /\ t.args # <<>>
             /\ QualifiedName(t).path = <<"java", "util", "List">>
             /\ QualifiedName(t).args = t.args
             /\ \A i \in DOMAIN t.args : Declares(ns, Plain(t.args[i]))
<1> DEFINE t == GenericList(ns, refs)
<1>1. t \in Type
  BY GenericListIsType
<1>2. t = ListType(t.args) /\ DOMAIN t.args = DOMAIN refs
      /\ \A i \in DOMAIN refs : t.args[i] = QualifiedName(ns[SearchPlain(ns, refs[i])]).path
  BY DEF GenericList, ListType
<1>3. DOMAIN refs = 1..Len(refs) /\ Len(refs) \in Nat /\ 1 \in DOMAIN refs
  BY LenProperties, EmptySeq
<1>4. t.args # <<>>
  <2>1. DOMAIN <<>> = {}
    OBVIOUS
  <2>2. QED
    BY <1>2, <1>3, <2>1
<1>5. ASSUME NEW i \in DOMAIN t.args PROVE Declares(ns, Plain(t.args[i]))
  BY <1>2, PlainMeansPlain
<1>6. t.package = <<"java", "util">> /\ t.name = <<"List">>
  BY DEF GenericList
<1>7. t.package \o t.name = <<"java", "util", "List">>
  <2>1. ASSUME NEW a, NEW b, NEW c
        PROVE  <<a, b>> \o <<c>> = <<a, b, c>>
    <3>1. <<a, b>> \in Seq({a, b, c}) /\ <<c>> \in Seq({a, b, c})
      OBVIOUS
    <3>2. /\ Len(<<a, b>> \o <<c>>) = 3 /\ <<a, b>> \o <<c>> \in Seq({a, b, c})
          /\ (<<a, b>> \o <<c>>)[1] = a /\ (<<a, b>> \o <<c>>)[2] = b
          /\ (<<a, b>> \o <<c>>)[3] = c
      BY <3>1, ConcatProperties
    <3>3. <<a, b, c>> \in Seq({a, b, c})
      OBVIOUS
    <3>4. \A i \in 1..3 : (<<a, b>> \o <<c>>)[i] = <<a, b, c>>[i]
      BY <3>2
    <3>5. Len(<<a, b, c>>) = 3
      OBVIOUS
    <3>6. QED
      BY <3>2, <3>3, <3>4, <3>5, SeqEqual, Zenon
  <2>2. QED
    BY <1>6, <2>1, Zenon
<1>8. QED
  BY <1>1, <1>2, <1>4, <1>5, <1>7 DEF QualifiedName

\* Arguments spelled by qualified names mean the types that have them.
LEMMA DeclaredArgs ==
  ASSUME NEW ns \in Seq(Type), NEW as \in Seq(DottedName), as # <<>>,
         \A i \in DOMAIN as : Declares(ns, Plain(as[i]))
  PROVE  /\ \A i \in DOMAIN as : SearchPlain(ns, as[i]) # 0
         /\ GenericList(ns, as) = ListType(as)
<1>1. ASSUME NEW i \in DOMAIN as
      PROVE  SearchPlain(ns, as[i]) # 0 /\ QualifiedName(ns[SearchPlain(ns, as[i])]).path = as[i]
  <2>1. SearchPlain(ns, as[i]) = Find(ns, Plain(as[i]))
    BY DEF SearchPlain
  <2>2. Find(ns, Plain(as[i])) \in DOMAIN ns
        /\ QualifiedName(ns[Find(ns, Plain(as[i]))]) = Plain(as[i])
    BY FindIsDeclared
  <2>3. DOMAIN ns = 1..Len(ns) /\ Len(ns) \in Nat
    BY LenProperties
  <2>4. QED
    BY <2>1, <2>2, <2>3 DEF Plain
<1>2. [i \in DOMAIN as |-> QualifiedName(ns[SearchPlain(ns, as[i])]).path] = as
  <2>1. as = [i \in DOMAIN as |-> as[i]]
    <3>1. as \in [1..Len(as) -> DottedName]
      BY LenProperties
    <3>2. QED
      BY <3>1
  <2>2. QED
    BY <1>1, <2>1, Zenon
<1>3. QED
  BY <1>1, <1>2 DEF GenericList, ListType

\* Searching for one reference changes neither whether another means
\* something nor what it means: the list that is made on the way captures no
\* name, and is what the references that spell it stood for all along.
LEMMA SearchedStable ==
  ASSUME NEW ns \in Seq(Type), Unique(ns), ListsLast(ns),
         NEW made \in TypeRef, NEW ref \in TypeRef,
         {"java", "util", "List"} \subseteq Ident
  PROVE  LET more == Searched(ns, made)
         IN  /\ Search(more, ref) # 0 <=> Search(ns, ref) # 0
             /\ Search(ns, ref) # 0 =>
                  Searched(more, ref)[Search(more, ref)] = Searched(ns, ref)[Search(ns, ref)]
<1> DEFINE t == GenericList(ns, made.args)
           more == Searched(ns, made)
           g == GenericList(ns, ref.args)
<1>1. CASE ~Constructs(ns, made) \/ Declares(ns, QualifiedName(t))
  BY <1>1 DEF Searched, Add
<1>2. CASE Constructs(ns, made) /\ ~Declares(ns, QualifiedName(t))
  <2>1. /\ t \in Type /\ t = ListType(t.args) /\ t.args # <<>>
        /\ QualifiedName(t).path = <<"java", "util", "List">>
        /\ QualifiedName(t).args = t.args
        /\ \A i \in DOMAIN t.args : Declares(ns, Plain(t.args[i]))
    BY <1>2, GenericIsList DEF Constructs, TypeRef
  <2>2. more = Add(ns, t)
    BY <1>2 DEF Searched
  <2>3. \A path : /\ SearchPlain(more, path) = SearchPlain(ns, path)
                  /\ SearchPlain(ns, path) # 0
                       => more[SearchPlain(ns, path)] = ns[SearchPlain(ns, path)]
    BY <1>2, <2>1, <2>2, PlainStays
  <2>4. /\ more \in Seq(Type) /\ Extends(ns, more) /\ Unique(more)
        /\ \A q : Declares(ns, q) => Declares(more, q)
        /\ Declares(more, QualifiedName(t))
    BY <2>1, <2>2, AddPreserves, AddExtends
  <2>5. \A q : Declares(more, q) => Declares(ns, q) \/ q = QualifiedName(t)
    BY <2>1, <2>2, <2>4, AddExtends DEF Declares, Extends
  <2>6. /\ DOMAIN ns = 1..Len(ns) /\ Len(ns) \in Nat
        /\ DOMAIN more = 1..Len(more) /\ Len(more) \in Nat
    BY <2>4, LenProperties
  <2>7. \A j \in DOMAIN more : more[j].args # <<>> => more[j] = ListType(more[j].args)
    BY <2>1, <2>2, <2>4, AddExtends DEF ListsLast, Extends
  <2> HIDE DEF t, more
  <2>8. CASE ref.args = <<>>
    <3>1. /\ Searched(ns, ref) = ns /\ Searched(more, ref) = more
          /\ Search(ns, ref) = SearchPlain(ns, ref.path)
          /\ Search(more, ref) = SearchPlain(more, ref.path)
      BY <2>8 DEF Search, Searched, Constructs
    <3>2. QED
      BY <2>3, <3>1 DEF more
  <2>9. CASE ref.args # <<>> /\ Constructs(ns, ref) /\ ~Declares(more, ref)
    <3>1. Constructs(more, ref)
      BY <2>3, <2>9 DEF Constructs
    <3>2. GenericList(more, ref.args) = g
      BY <2>3, <2>9, GenericStays DEF Constructs
    <3>3. g \in Type /\ g = ListType(g.args) /\ g.args # <<>> /\ QualifiedName(g).args = g.args
      BY <2>9, GenericIsList DEF Constructs, TypeRef
    <3>4. /\ Searched(ns, ref) = Add(ns, g) /\ Searched(more, ref) = Add(more, g)
          /\ Search(ns, ref) = Find(Add(ns, g), QualifiedName(g))
          /\ Search(more, ref) = Find(Add(more, g), QualifiedName(g))
      BY <2>9, <3>1, <3>2 DEF Search, Searched
    <3>5. ASSUME NEW base \in Seq(Type),
                 \A j \in DOMAIN base : base[j].args # <<>> => base[j] = ListType(base[j].args)
          PROVE  /\ Find(Add(base, g), QualifiedName(g)) # 0
                 /\ Add(base, g)[Find(Add(base, g), QualifiedName(g))] = g
      <4> DEFINE i == Find(Add(base, g), QualifiedName(g))
      <4>1. Add(base, g) \in Seq(Type) /\ Declares(Add(base, g), QualifiedName(g))
        BY <3>3, AddPreserves
      <4>2. i \in DOMAIN Add(base, g) /\ QualifiedName(Add(base, g)[i]) = QualifiedName(g)
        BY <4>1, FindIsDeclared
      <4>3. DOMAIN Add(base, g) = 1..Len(Add(base, g)) /\ Len(Add(base, g)) \in Nat
        BY <4>1, LenProperties
      <4>4. Add(base, g)[i].args = g.args
        BY <3>3, <4>2 DEF QualifiedName
      <4>5. Add(base, g)[i] = ListType(g.args)
        BY <3>3, <3>5, <4>2, <4>4, AddExtends DEF Extends
      <4>6. QED
        BY <3>3, <4>2, <4>3, <4>5
    <3>6. QED
      BY <2>4, <2>7, <3>4, <3>5 DEF ListsLast, more
  <2>10. CASE ref.args # <<>> /\ Constructs(ns, ref) /\ Declares(more, ref)
    <3>1. ref = QualifiedName(t) /\ ref.args = t.args
      BY <2>1, <2>5, <2>10 DEF Constructs
    <3>2. g = t
      BY <2>1, <2>10, <3>1, DeclaredArgs DEF TypeRef
    <3>3. /\ Searched(ns, ref) = more /\ Searched(more, ref) = more
          /\ Search(ns, ref) = Find(more, ref) /\ Search(more, ref) = Find(more, ref)
      BY <2>2, <2>10, <3>1, <3>2 DEF Search, Searched, Constructs
    <3>4. Find(more, ref) # 0
      BY <2>4, <2>6, <2>10, FindIsDeclared
    <3>5. QED
      BY <3>3, <3>4 DEF more
  <2>11. CASE ref.args # <<>> /\ ~Constructs(ns, ref) /\ Declares(ns, ref)
    <3>1. /\ Searched(ns, ref) = ns /\ Searched(more, ref) = more
          /\ Search(ns, ref) = Find(ns, ref) /\ Search(more, ref) = Find(more, ref)
      BY <2>4, <2>11 DEF Search, Searched, Constructs
    <3>2. Find(more, ref) = Find(ns, ref) /\ more[Find(more, ref)] = ns[Find(ns, ref)]
      BY <2>4, <2>11, FindStays
    <3>3. QED
      BY <3>1, <3>2 DEF more
  <2>12. CASE ref.args # <<>> /\ ~Constructs(ns, ref) /\ ~Declares(ns, ref)
    <3>1. Search(ns, ref) = 0
      BY <2>12, FindMissing DEF Search
    <3>2. ~Constructs(more, ref)
      BY <2>3, <2>12 DEF Constructs
    <3>3. ref # QualifiedName(t)
      <4>1. SUFFICES ASSUME ref = QualifiedName(t) PROVE FALSE
        OBVIOUS
      <4>2. ref.args = t.args /\ IsGenericList(ref.path)
        BY <2>1, <4>1 DEF IsGenericList
      <4>3. \A i \in DOMAIN ref.args : SearchPlain(ns, ref.args[i]) # 0
        BY <2>1, <2>12, <4>2, DeclaredArgs DEF TypeRef
      <4>4. QED
        BY <2>12, <4>2, <4>3 DEF Constructs
    <3>4. ~Declares(more, ref)
      BY <2>5, <2>12, <3>3
    <3>5. Search(more, ref) = 0
      BY <2>4, <2>12, <3>2, <3>4, FindMissing DEF Search
    <3>6. QED
      BY <3>1, <3>5 DEF more
  <2>13. QED
    BY <2>8, <2>9, <2>10, <2>11, <2>12 DEF more
<1>3. QED
  BY <1>1, <1>2

\* The generic types stay behind when types are added.
LEMMA AddKeepsLists ==
  ASSUME NEW ns \in Seq(Type), ListsLast(ns), NEW t \in Type,
         t.args # <<>> => t = ListType(t.args)
  PROVE  ListsLast(Add(ns, t))
<1>1. CASE Declares(ns, QualifiedName(t))
  BY <1>1 DEF Add
<1>2. CASE ~Declares(ns, QualifiedName(t))
  <2>1. /\ DOMAIN ns = 1..Len(ns) /\ Len(ns) \in Nat
        /\ DOMAIN Add(ns, t) = 1..(Len(ns) + 1)
        /\ \A i \in DOMAIN ns : Add(ns, t)[i] = ns[i]
        /\ Add(ns, t)[Len(ns) + 1] = t
    BY <1>2, Appended
  <2> DEFINE more == Add(ns, t)
  <2> HIDE DEF more
  <2>2. PICK i \in DOMAIN ns : /\ ns[i].name = <<"List">> /\ ns[i].args = <<>>
                               /\ \A j \in DOMAIN ns : ns[j].args # <<>> => i < j
    BY DEF ListsLast
  <2>3. \A j \in DOMAIN more : more[j].args # <<>> => more[j] = ListType(more[j].args)
    BY <2>1 DEF ListsLast, more
  <2>4. i \in DOMAIN more /\ more[i] = ns[i]
    BY <2>1, <2>2 DEF more
  <2>5. \A j \in DOMAIN more : more[j].args # <<>> => i < j
    BY <2>1, <2>2 DEF more
  <2>6. QED
    BY <2>2, <2>3, <2>4, <2>5 DEF ListsLast, more
<1>3. QED
  BY <1>1, <1>2

LEMMA SearchedKeepsLists ==
  ASSUME NEW ns \in Seq(Type), ListsLast(ns), NEW ref \in TypeRef,
         {"java", "util", "List"} \subseteq Ident
  PROVE  ListsLast(Searched(ns, ref))
<1>1. CASE Constructs(ns, ref)
  <2>1. /\ GenericList(ns, ref.args) \in Type
        /\ GenericList(ns, ref.args) = ListType(GenericList(ns, ref.args).args)
    BY <1>1, GenericIsList DEF Constructs, TypeRef
  <2>2. QED
    BY <1>1, <2>1, AddKeepsLists DEF Searched
<1>2. CASE ~Constructs(ns, ref)
  BY <1>2 DEF Searched
<1>3. QED
  BY <1>1, <1>2

-----------------------------------------------------------------------------
(* The declarations and what they add to the registry.                     *)

\* A line of a preprocessed file makes a declaration as soon as it has a name.
LEMMA LineItemIsItem ==
  ASSUME NEW type, NEW fullname \in DottedName, fullname # <<>>
  PROVE  LineItem(type, fullname) \in Item
<1>1. Front(fullname) \in DottedName
  BY LenProperties, SubSeqProperties DEF Front, DottedName
<1>2. Last(fullname) \in Ident
  BY LenProperties, EmptySeq DEF Last, DottedName
<1>3. <<Last(fullname)>> \in SimpleName
  BY <1>2 DEF SimpleName, DottedName
<1>4. QED
  BY <1>1, <1>3, EmptySeq DEF LineItem, Item

\* The types a declaration gives rise to are types.
LEMMA DeclaredIsType ==
  ASSUME NEW item \in Item
  PROVE  /\ DeclaredType(item) \in Type
         /\ \A suffix \in {<<"Stub">>, <<"Stub", "Proxy">>, <<"ServiceBase">>} :
              GeneratedType(item, suffix) \in Type
<1>1. /\ item.package \in DottedName /\ item.name \in SimpleName
      /\ item.parcelable \in BOOLEAN /\ item.flattenable \in BOOLEAN
  BY DEF Item
<1>2. <<>> \in Seq(DottedName)
  BY EmptySeq
<1>3. DeclaredType(item) \in Type
  BY <1>1, <1>2 DEF DeclaredType, IsInterface, Type, Kinds
<1>4. ASSUME NEW suffix \in {<<"Stub">>, <<"Stub", "Proxy">>, <<"ServiceBase">>}
      PROVE  GeneratedType(item, suffix) \in Type
  <2>1. suffix \in DottedName
    <3>1. /\ <<"Stub">> \in DottedName /\ <<"Stub", "Proxy">> \in DottedName
          /\ <<"ServiceBase">> \in DottedName
      BY IdentAssumption DEF DottedName
    <3>2. QED
      BY <1>4, <3>1, Zenon
  <2>2. item.name \o suffix \in SimpleName
    BY <1>1, <2>1, ConcatProperties, LenProperties, EmptySeq DEF SimpleName, DottedName
  <2>3. QED
    BY <1>1, <1>2, <2>2 DEF GeneratedType, Type, Kinds
<1>5. QED
  BY <1>3, <1>4

\* gather_types leaves a registry of types, with unique names, that has grown.
LEMMA GatheredPreserves ==
  ASSUME NEW ns \in Seq(Type), NEW item \in Item
  PROVE  /\ Gathered(ns, item) \in Seq(Type)
         /\ Unique(ns) => Unique(Gathered(ns, item))
         /\ \A ref : Declares(ns, ref) => Declares(Gathered(ns, item), ref)
         /\ Extends(ns, Gathered(ns, item))
<1> DEFINE declared == Add(ns, DeclaredType(item))
           stub == GeneratedType(item, <<"Stub">>)
           proxy == GeneratedType(item, <<"Stub", "Proxy">>)
           base == GeneratedType(item, <<"ServiceBase">>)
<1>1. /\ DeclaredType(item) \in Type /\ stub \in Type /\ proxy \in Type
      /\ base \in Type
  BY DeclaredIsType
<1>2. /\ declared \in Seq(Type)
      /\ Unique(ns) => Unique(declared)
      /\ \A ref : Declares(ns, ref) => Declares(declared, ref)
      /\ Extends(ns, declared)
  BY <1>1, AddPreserves, AddExtends
<1>3. CASE Declares(ns, QualifiedName(DeclaredType(item)))
  BY <1>3 DEF Gathered, Extends
<1>4. CASE ~Declares(ns, QualifiedName(DeclaredType(item))) /\ item.kind = "BINDER"
  <2>1. Gathered(ns, item) = Add(Add(declared, stub), proxy)
    BY <1>4 DEF Gathered
  <2>2. /\ Add(declared, stub) \in Seq(Type)
        /\ Unique(ns) => Unique(Add(declared, stub))
        /\ \A ref : Declares(ns, ref) => Declares(Add(declared, stub), ref)
        /\ Extends(declared, Add(declared, stub))
    BY <1>1, <1>2, AddPreserves, AddExtends
  <2>3. Extends(Add(declared, stub), Add(Add(declared, stub), proxy))
    BY <1>1, <2>2, AddExtends
  <2>4. Extends(ns, Gathered(ns, item))
    BY <1>2, <2>1, <2>2, <2>3 DEF Extends
  <2>5. QED
    BY <1>1, <2>1, <2>2, <2>4, AddPreserves
<1>5. CASE ~Declares(ns, QualifiedName(DeclaredType(item))) /\ item.kind = "RPC"
  <2>1. Gathered(ns, item) = Add(declared, base)
    BY <1>5 DEF Gathered
  <2>2. Extends(declared, Add(declared, base))
    BY <1>1, <1>2, AddExtends
  <2>3. Extends(ns, Gathered(ns, item))
    BY <1>2, <2>1, <2>2 DEF Extends
  <2>4. QED
    BY <1>1, <1>2, <2>1, <2>3, AddPreserves
<1>6. CASE ~Declares(ns, QualifiedName(DeclaredType(item))) /\ item.kind = "USER_DATA"
  <2>1. Gathered(ns, item) = declared
    BY <1>6 DEF Gathered
  <2>2. QED
    BY <1>2, <2>1
<1>7. item.kind \in {"USER_DATA", "BINDER", "RPC"}
  BY DEF Item
<1>8. QED
  BY <1>3, <1>4, <1>5, <1>6, <1>7

-----------------------------------------------------------------------------
(* What is read from the disk.                                             *)

LEMMA OutcomeFromDisk ==
  ASSUME disk \in Disks, NEW file \in DOMAIN disk.aidl, lex \in LexStates
  PROVE  disk.aidl[file][lex] \in Outcome
  BY InputsAssumption DEF IsDisk

LEMMA LinesFromDisk ==
  ASSUME disk \in Disks, NEW file \in DOMAIN disk.preprocessed
  PROVE  /\ disk.preprocessed[file] \in Seq(Line)
         /\ \A i \in DOMAIN disk.preprocessed[file] :
              disk.preprocessed[file][i].type # "none"
                => disk.preprocessed[file][i].fullname # <<>>
  BY InputsAssumption DEF IsDisk

LEMMA NewImportsAreImports ==
  ASSUME NEW file \in DottedName, NEW classes \in Seq(DottedName)
  PROVE  NewImports(file, classes) \in Seq(ImportInfo)
<1>1. DOMAIN classes = 1..Len(classes) /\ Len(classes) \in Nat
  BY LenProperties
<1>2. <<>> \in DottedName /\ <<>> \in Seq(Item)
  BY EmptySeq DEF DottedName
<1>3. NewImports(file, classes) \in [1..Len(classes) -> ImportInfo]
  BY <1>1, <1>2, ElementOfSeq DEF NewImports, ImportInfo
<1>4. QED
  BY <1>1, <1>3, FunctionIsSeq

\* find_import_file names a file that is there.
LEMMA FindImportFileIsFile ==
  ASSUME opt \in Invocations, NEW class \in DottedName
  PROVE  /\ FindImportFile(class) \in DottedName
         /\ FindImportFile(class) # <<>> => FindImportFile(class) \in DOMAIN disk.aidl
<1> DEFINE I == {i \in 1..Len(opt.importPaths) :
                   opt.importPaths[i] \o class \in DOMAIN disk.aidl}
           hit == IF I # {} THEN Min(I) ELSE 0
<1>1. opt.importPaths \in Seq(DottedName)
  BY InputsAssumption DEF Invocation
<1>2. I \subseteq Nat
  OBVIOUS
<1>3. FindImportFile(class) = IF hit = 0 THEN <<>> ELSE opt.importPaths[hit] \o class
  BY DEF FindImportFile, SelectInSeq
<1>4. CASE I = {}
  BY <1>3, <1>4, EmptySeq DEF DottedName
<1>5. CASE I # {}
  <2>1. Min(I) \in I
    BY <1>2, <1>5, MinOfNaturals
  <2>2. hit \in I /\ hit # 0
    BY <1>5, <2>1
  <2>3. opt.importPaths[hit] \in DottedName
    BY <1>1, <2>2, ElementOfSeq
  <2>4. opt.importPaths[hit] \o class \in DottedName
    BY <2>3, ConcatProperties DEF DottedName
  <2>5. QED
    BY <1>3, <2>2, <2>4
<1>6. QED
  BY <1>4, <1>5

-----------------------------------------------------------------------------
(* The type invariant.                                                     *)

\* What the types rest on besides themselves: a buffer with a declaration word
\* has a name beside it, the cursor is inside the import list, and a step that
\* looks at the current method, import or interface finds one.
Consistent ==
  /\ \A i \in DOMAIN lines : lines[i].type # "none" => lines[i].fullname # <<>>
  /\ scan.type # "none" => scan.fullname # <<>>
  /\ pc \in {"imports", "open"} => left <= Len(imports)
  /\ pc = "open" => left > 0 /\ imports[Current].filename \in DOMAIN disk.aidl
  /\ pc \in {"args", "name"} => methods # <<>>
  /\ pc \in {"output", "dep", "header", "implementation"} => Len(mainDoc) = 1

\* The package of a dotted name of several components is not empty.
LEMMA FrontKeepsAName ==
  ASSUME NEW name \in DottedName, Len(name) > 1
  PROVE  Front(name) \in DottedName /\ Front(name) # <<>>
<1>1. Len(name) \in Nat /\ \A i \in 1..(Len(name) - 1) : name[i] \in Ident
  BY LenProperties, ElementOfSeq DEF DottedName
<1>2. /\ Front(name) \in Seq(Ident)
      /\ Len(Front(name)) = Len(name) - 1
  BY <1>1, SubSeqProperties DEF Front
<1>3. QED
  BY <1>1, <1>2, EmptySeq DEF DottedName

LEMMA TypesInitially == Init => TypeOK /\ Consistent
<1> SUFFICES ASSUME Init PROVE TypeOK /\ Consistent
  OBVIOUS
<1>1. /\ opt \in Invocations /\ opt \in Invocation /\ disk \in Disks
      /\ BaseTypes \in Seq(Type)
  BY InputsAssumption, BaseTypesAssumption DEF Init, Invocations, Disks
<1>2. Len(opt.preprocessed) \in Nat
  BY <1>1, LenProperties DEF Invocation
<1>3. <<>> \in DottedName
  BY EmptySeq DEF DottedName
<1>4. /\ NAMES \in Seq(Type) /\ lines \in Seq(Line) /\ imports \in Seq(ImportInfo)
      /\ document \in Seq(Item) /\ mainDoc \in Seq(Item) /\ todo \in Seq(Doc)
      /\ pending \in Seq(Item) /\ methods \in Seq(Method) /\ args \in Seq(Arg)
  BY <1>1, EmptySeq, Zenon DEF Init
<1>5. /\ pc \in Locations /\ lex \in LexStates /\ result \in Results
      /\ scan \in [type : Words, fullname : DottedName]
      /\ outputFileName \in DottedName /\ left \in Nat
      /\ itemType \in {"USER_DATA", "BINDER", "RPC"}
  BY <1>1, <1>2, <1>3 DEF Init, Locations, LexStates, Results, Invocation, Words
<1>6. TypeOK
  BY <1>1, <1>4, <1>5, Zenon DEF Init, TypeOK
<1>7. Consistent
  <2>1. pc = "preprocessed" /\ lines = <<>> /\ scan.type = "none"
    BY DEF Init
  <2>2. QED
    BY <2>1 DEF Consistent
<1>8. QED
  BY <1>6, <1>7

\* The line that is read is well formed, and if the buffers then hold a
\* declaration word they hold a name.
LEMMA LineAtHand ==
  ASSUME TypeOK, Consistent, lines # <<>>
  PROVE  /\ Head(lines) \in Line /\ Tail(lines) \in Seq(Line)
         /\ \A i \in DOMAIN Tail(lines) :
              Tail(lines)[i].type # "none" => Tail(lines)[i].fullname # <<>>
         /\ Scanned(Head(lines)) \in [type : Words, fullname : DottedName]
         /\ Scanned(Head(lines)).type # "none" => Scanned(Head(lines)).fullname # <<>>
<1> DEFINE line == Head(lines)
<1>1. lines \in Seq(Line) /\ Len(lines) \in Nat /\ DOMAIN lines = 1..Len(lines)
  BY LenProperties DEF TypeOK
<1>2. /\ line \in Line /\ line = lines[1] /\ Tail(lines) \in Seq(Line)
      /\ 1 \in DOMAIN lines
      /\ \A i \in DOMAIN Tail(lines) : i + 1 \in DOMAIN lines /\ Tail(lines)[i] = lines[i + 1]
  BY <1>1
<1>3. /\ line.type # "none" => line.fullname # <<>>
      /\ \A i \in DOMAIN Tail(lines) :
           Tail(lines)[i].type # "none" => Tail(lines)[i].fullname # <<>>
  BY <1>2 DEF Consistent
<1>4. /\ Scanned(line) \in [type : Words, fullname : DottedName]
      /\ Scanned(line).type # "none" => Scanned(line).fullname # <<>>
  BY <1>2, <1>3 DEF Scanned, Line, TypeOK, Consistent
<1>5. QED
  BY <1>2, <1>3, <1>4

\* The registry changes by gather_types and by Namespace::Search alone.
LEMMA RegistryStep ==
  ASSUME TypeOK, Consistent, [Next]_vars
  PROVE  \/ \E item \in Item : NAMES' = Gathered(NAMES, item)
         \/ \E ref \in TypeRef : NAMES' = Searched(NAMES, ref)
         \/ UNCHANGED NAMES
<1>1. CASE ScanLine
  <2> DEFINE buf == Scanned(Head(lines))
             item == LineItem(buf.type, buf.fullname)
  <2>1. CASE /\ buf.type \in DeclarationWords
             /\ NAMES' = Gathered(NAMES, item)
    <3>1. buf.fullname \in DottedName /\ buf.fullname # <<>>
      BY <1>1, <2>1, LineAtHand DEF ScanLine, DeclarationWords
    <3>2. item \in Item
      BY <3>1, LineItemIsItem
    <3>3. QED
      BY <2>1, <3>2
  <2>2. QED
    BY <1>1, <2>1 DEF ScanLine
<1>2. CASE GatherType
  <2>1. Head(todo) \in Doc
    BY <1>2, HeadTailProperties DEF GatherType, TypeOK
  <2>2. Head(Head(todo).items) \in Item
    BY <1>2, <2>1, HeadTailProperties DEF GatherType, Doc
  <2>3. QED
    BY <1>2, <2>2 DEF GatherType
<1>3. CASE CheckReturn
  <2>1. Head(methods) \in Method
    BY <1>3, HeadTailProperties DEF CheckReturn, TypeOK
  <2>2. Head(methods).type.ref \in TypeRef
    BY <2>1 DEF Method, ArgType
  <2>3. QED
    BY <1>3, <2>2 DEF CheckReturn
<1>4. CASE CheckArg
  <2>1. Head(args) \in Arg
    BY <1>4, HeadTailProperties DEF CheckArg, TypeOK
  <2>2. Head(args).type.ref \in TypeRef
    BY <2>1 DEF Arg, ArgType
  <2>3. QED
    BY <1>4, <2>2 DEF CheckArg
<1>5. CASE \/ OpenPreprocessed \/ ClosePreprocessed \/ EndPreprocessed \/ ParseMain
           \/ SkipKnownImport \/ MissImport \/ FindImport \/ ParseImport
           \/ LoseImport \/ EndImports \/ CheckFilenames \/ NextDocument
           \/ EndGather \/ CheckInterface \/ EndArgs \/ CheckMethodName
           \/ EndInterface \/ EndChecks \/ NameOutput \/ WriteDep
           \/ GenerateHeader \/ GenerateImplementation \/ UNCHANGED vars
  BY <1>5, Zenon
     DEF OpenPreprocessed, ClosePreprocessed, EndPreprocessed, ParseMain,
         SkipKnownImport, MissImport, FindImport, ParseImport, LoseImport,
         EndImports, CheckFilenames, NextDocument, EndGather, CheckInterface,
         EndArgs, CheckMethodName, EndInterface, EndChecks, NameOutput, WriteDep,
         GenerateHeader, GenerateImplementation, vars
<1>6. QED
  BY <1>1, <1>2, <1>3, <1>4, <1>5 DEF Next

LEMMA TypesPreserved == TypeOK /\ Consistent /\ [Next]_vars => TypeOK' /\ Consistent'
<1> SUFFICES ASSUME TypeOK, Consistent, [Next]_vars
             PROVE  TypeOK' /\ Consistent'
  OBVIOUS
<1> USE DEF Locations, Results
<1>a. /\ opt \in Invocations /\ opt \in Invocation /\ disk \in Disks
      /\ lex \in LexStates /\ left \in Nat
  BY InputsAssumption DEF TypeOK
<1>b. /\ NAMES \in Seq(Type) /\ lines \in Seq(Line) /\ imports \in Seq(ImportInfo)
      /\ document \in Seq(Item) /\ mainDoc \in Seq(Item)
      /\ scan \in [type : Words, fullname : DottedName]
      /\ outputFileName \in DottedName
  BY DEF TypeOK
<1>c. /\ Len(imports) \in Nat /\ DOMAIN imports = 1..Len(imports)
      /\ \A k \in DOMAIN imports : imports[k] \in ImportInfo
  BY <1>b, LenProperties, ElementOfSeq
<1>d. left > 0 /\ left <= Len(imports) => Current \in 1..Len(imports)
  BY <1>a, <1>c DEF Current
<1>e. Len(mainDoc) = 1 => mainDoc[1] \in Item
  <2>1. mainDoc \in Seq(Item)
    BY <1>b
  <2>2. QED
    BY <2>1
<1>f. NAMES' \in Seq(Type)
  BY <1>b, RegistryStep, IdentAssumption, GatheredPreserves, SearchedPreserves
<1>1. CASE OpenPreprocessed
  <2> DEFINE file == opt.preprocessed[Len(opt.preprocessed) - left + 1]
  <2>1. left' \in Nat
    BY <1>1, <1>a DEF OpenPreprocessed
  <2>2. CASE file \in DOMAIN disk.preprocessed
    <3>1. /\ pc' = "lines" /\ lines' = disk.preprocessed[file] /\ UNCHANGED err
          /\ scan' \in {scan, [type |-> "none", fullname |-> <<>>]}
      BY <1>1, <2>2 DEF OpenPreprocessed
    <3>2. /\ lines' \in Seq(Line)
          /\ \A i \in DOMAIN lines' : lines'[i].type # "none" => lines'[i].fullname # <<>>
      BY <1>a, <2>2, <3>1, LinesFromDisk
    <3>3. <<>> \in DottedName
      BY EmptySeq DEF DottedName
    <3>4. scan' \in [type : Words, fullname : DottedName]
      BY <1>b, <3>1, <3>3 DEF Words
    <3>5. scan'.type # "none" => scan'.fullname # <<>>
      BY <3>1 DEF Consistent
    <3>6. TypeOK'
      BY <1>1, <2>1, <3>1, <3>2, <3>4, Zenon
         DEF OpenPreprocessed, TypeOK, inputs, parsing, checking, output
    <3>7. Consistent'
      BY <1>1, <3>1, <3>2, <3>5 DEF OpenPreprocessed, Consistent
    <3>8. QED
      BY <3>6, <3>7
  <2>3. CASE file \notin DOMAIN disk.preprocessed
    <3>1. err' = TRUE /\ UNCHANGED <<pc, lines, scan>> /\ pc = "preprocessed"
      BY <1>1, <2>3 DEF OpenPreprocessed, preprocessing
    <3>2. TypeOK'
      BY <1>1, <2>1, <3>1, Zenon
         DEF OpenPreprocessed, TypeOK, inputs, parsing, checking, output
    <3>3. Consistent'
      BY <3>1 DEF Consistent
    <3>4. QED
      BY <3>2, <3>3
  <2>4. QED
    BY <2>2, <2>3
<1>2. CASE ScanLine
  <2> DEFINE line == Head(lines)
             buf == Scanned(line)
  <2>1. /\ Tail(lines) \in Seq(Line)
        /\ \A i \in DOMAIN Tail(lines) :
             Tail(lines)[i].type # "none" => Tail(lines)[i].fullname # <<>>
    BY <1>2, LineAtHand DEF ScanLine
  <2>2. /\ buf \in [type : Words, fullname : DottedName]
        /\ buf.type # "none" => buf.fullname # <<>>
    BY <1>2, LineAtHand DEF ScanLine
  <2>3. CASE line.comment /\ lines' = Tail(lines) /\ UNCHANGED <<pc, NAMES, scan, err>>
    <3>1. TypeOK'
      BY <1>2, <2>1, <2>3, Zenon DEF ScanLine, TypeOK, inputs, parsing, checking, output
    <3>2. Consistent'
      BY <1>2, <2>1, <2>3 DEF ScanLine, Consistent, inputs, parsing, checking, output, Current
    <3>3. QED
      BY <3>1, <3>2
  <2>4. CASE /\ err' = TRUE /\ pc' = "preprocessed" /\ lines' = <<>>
             /\ scan' = buf /\ UNCHANGED NAMES
    <3>1. TypeOK'
      BY <1>2, <2>2, <2>4, EmptySeq, Zenon DEF ScanLine, TypeOK, inputs, parsing, checking, output
    <3>2. Consistent'
      <4>1. pc' = "preprocessed" /\ DOMAIN lines' = {} /\ scan' = buf
        BY <2>4
      <4>2. QED
        BY <2>2, <4>1 DEF Consistent
    <3>3. QED
      BY <3>1, <3>2
  <2>5. CASE /\ buf.type \in DeclarationWords
             /\ NAMES' = Gathered(NAMES, LineItem(buf.type, buf.fullname))
             /\ scan' = [buf EXCEPT !.fullname = IF Len(@) > 1 THEN Front(@) ELSE @]
             /\ lines' = Tail(lines)
             /\ UNCHANGED <<pc, err>>
    <3>1. buf.fullname \in DottedName /\ buf.fullname # <<>>
      BY <2>2, <2>5 DEF DeclarationWords
    <3>3. Len(buf.fullname) > 1 => Front(buf.fullname) \in DottedName /\ Front(buf.fullname) # <<>>
      BY <3>1, FrontKeepsAName
    <3>4. scan' \in [type : Words, fullname : DottedName] /\ scan'.fullname # <<>>
      BY <2>2, <2>5, <3>1, <3>3
    <3>5. TypeOK'
      BY <1>2, <1>f, <2>1, <2>5, <3>4, Zenon DEF ScanLine, TypeOK, inputs, parsing, checking, output
    <3>6. Consistent'
      BY <1>2, <2>1, <2>5, <3>4 DEF ScanLine, Consistent, inputs, parsing, checking, output, Current
    <3>7. QED
      BY <3>5, <3>6
  <2>6. QED
    BY <1>2, <2>3, <2>4, <2>5 DEF ScanLine
<1>3. CASE ClosePreprocessed
  <2>1. /\ pc = "lines" /\ pc' = "preprocessed"
        /\ UNCHANGED <<inputs, NAMES, left, scan, parsing, mainDoc, todo, checking, output, result>>
    BY <1>3 DEF ClosePreprocessed
  <2>2. lines' = <<>> /\ err' \in {err, TRUE} /\ fault' \in {fault, TRUE}
    BY <1>3 DEF ClosePreprocessed
  <2>3. lines' \in Seq(Line) /\ err' \in BOOLEAN /\ fault' \in BOOLEAN
    BY <2>2, EmptySeq, Zenon DEF TypeOK
  <2>4. pc' \in Locations
    BY <2>1 DEF Locations
  <2>5. TypeOK'
    BY <2>1, <2>3, <2>4, Zenon DEF TypeOK, inputs, parsing, checking, output
  <2>6. Consistent'
    BY <2>1, <2>2 DEF Consistent, inputs, parsing, checking, output, Current
  <2>7. QED
    BY <2>5, <2>6
<1>4. CASE EndPreprocessed
  BY <1>4 DEF EndPreprocessed, Exit, TypeOK, Consistent, inputs, preprocessing, parsing, checking, output, Current
<1>5. CASE ParseMain
  <2>1. /\ opt.input \in DottedName
        /\ opt.input \in DOMAIN disk.aidl => disk.aidl[opt.input][lex] \in Outcome
    BY InputsAssumption, OutcomeFromDisk DEF TypeOK, Invocation, SimpleName
  <2>2. CASE opt.input \in DOMAIN disk.aidl
    <3> DEFINE outcome == disk.aidl[opt.input][lex]
    <3>1. /\ outcome.imports \in Seq(DottedName) /\ outcome.items \in Seq(Item)
          /\ outcome.err \in BOOLEAN /\ outcome.lex \in LexStates
      BY <2>1, <2>2 DEF Outcome
    <3>2. /\ imports' = NewImports(opt.input, outcome.imports) /\ err' = outcome.err
          /\ mainDoc' \in {outcome.items, <<>>} /\ lex' = outcome.lex
          /\ opened' = {[file |-> opt.input, lex |-> lex]}
      BY <1>5, <2>2 DEF ParseMain
    <3>3. imports' \in Seq(ImportInfo)
      BY <2>1, <3>1, <3>2, NewImportsAreImports
    <3>4. mainDoc' \in Seq(Item) /\ document' \in Seq(Item)
      BY <1>5, <3>1, <3>2, EmptySeq DEF ParseMain
    <3>5. \A o \in opened' : o \in [file : DottedName, lex : LexStates]
      BY <2>1, <3>2 DEF TypeOK
    <3>6. left' \in Nat /\ left' <= Len(imports')
      BY <1>5, <3>3, LenProperties DEF ParseMain
    <3>7. TypeOK'
      BY <1>5, <3>1, <3>2, <3>3, <3>4, <3>5, <3>6, Zenon
         DEF ParseMain, TypeOK, inputs, preprocessing, checking, output
    <3>8. Consistent'
      BY <1>5, <3>6 DEF ParseMain, Consistent, inputs, preprocessing, checking, output
    <3>9. QED
      BY <3>7, <3>8
  <2>3. CASE opt.input \notin DOMAIN disk.aidl
    <3>1. err' = TRUE /\ UNCHANGED <<imports, mainDoc, lex, opened>> /\ document' = <<>>
      BY <1>5, <2>3 DEF ParseMain
    <3>2. left' \in Nat /\ left' <= Len(imports')
      BY <1>5, <3>1, LenProperties DEF ParseMain, TypeOK
    <3>3. TypeOK'
      BY <1>5, <3>1, <3>2, EmptySeq, Zenon
         DEF ParseMain, TypeOK, inputs, preprocessing, checking, output
    <3>4. Consistent'
      BY <1>5, <3>2 DEF ParseMain, Consistent, inputs, preprocessing, checking, output
    <3>5. QED
      BY <3>3, <3>4
  <2>4. QED
    BY <2>2, <2>3
<1>6. CASE SkipKnownImport
  <2>1. left' \in Nat /\ left' = left - 1 /\ pc' = "imports"
    BY <1>6, <1>a DEF SkipKnownImport
  <2>2. TypeOK'
    BY <1>6, <2>1, Zenon
       DEF SkipKnownImport, TypeOK, inputs, preprocessing, parsing, checking, output
  <2>3. Consistent'
    BY <1>6, <1>a, <1>c, <2>1
       DEF SkipKnownImport, Consistent, inputs, preprocessing, parsing, checking, output
  <2>4. QED
    BY <2>2, <2>3
<1>7. CASE MissImport
  <2>1. err' \in BOOLEAN
    BY <1>7, Zenon DEF MissImport
  <2>2. left' \in Nat /\ left' <= left
    BY <1>7, <1>a DEF MissImport
  <2>3. TypeOK'
    BY <1>7, <2>1, <2>2, Zenon DEF MissImport, TypeOK, inputs, preprocessing, parsing, checking, output
  <2>4. Consistent'
    BY <1>7, <1>a, <1>c, <2>2
       DEF MissImport, Consistent, inputs, preprocessing, parsing, checking, output
  <2>5. QED
    BY <2>3, <2>4
<1>8. CASE FindImport
  <2> DEFINE file == FindImportFile(imports[Current].neededClass)
             found == [imports[Current] EXCEPT !.filename = file]
  <2>1. /\ Current \in 1..Len(imports) /\ imports[Current] \in ImportInfo
        /\ left > 0 /\ left <= Len(imports) /\ left \in Nat
    BY <1>8, <1>a, <1>c, <1>d DEF FindImport, Consistent
  <2>2. file \in DottedName /\ file \in DOMAIN disk.aidl
    BY <1>8, <2>1, FindImportFileIsFile DEF FindImport, TypeOK, ImportInfo
  <2>3. found \in ImportInfo /\ found.filename = file
    BY <2>1, <2>2 DEF ImportInfo
  <2>4. imports' = [imports EXCEPT ![Current] = found]
    BY <1>8 DEF FindImport
  <2>5. /\ imports' \in Seq(ImportInfo) /\ Len(imports') = Len(imports)
        /\ imports'[Current] = found
    BY <1>b, <2>1, <2>3, <2>4, ExceptSeq
  <2>6. TypeOK'
    BY <1>8, <2>5, Zenon DEF FindImport, TypeOK, inputs, preprocessing, checking, output
  <2>7. Consistent'
    BY <1>8, <2>1, <2>2, <2>3, <2>5
       DEF FindImport, Consistent, inputs, preprocessing, checking, output, Current
  <2>8. QED
    BY <2>6, <2>7
<1>9. CASE ParseImport
  <2> DEFINE file == imports[Current].filename
             outcome == disk.aidl[file][lex]
             read == [imports[Current] EXCEPT !.doc = document']
  <2>1. /\ Current \in 1..Len(imports) /\ imports[Current] \in ImportInfo
        /\ left > 0 /\ left <= Len(imports) /\ left \in Nat
    BY <1>9, <1>a, <1>c, <1>d DEF ParseImport, Consistent
  <2>2. file \in DottedName /\ outcome \in Outcome
    BY <1>9, <2>1, OutcomeFromDisk DEF ParseImport, TypeOK, Consistent, ImportInfo
  <2>3. /\ outcome.imports \in Seq(DottedName) /\ outcome.items \in Seq(Item)
        /\ outcome.err \in BOOLEAN /\ outcome.lex \in LexStates
    BY <2>2 DEF Outcome
  <2>4. document' \in Seq(Item) /\ lex' \in LexStates
    BY <1>9, <2>3 DEF ParseImport, Parse, TypeOK
  <2>5. \A o \in opened' : o \in [file : DottedName, lex : LexStates]
    <3>1. [file |-> file, lex |-> lex] \in [file : DottedName, lex : LexStates]
      BY <1>a, <2>2
    <3>2. opened' = opened \cup {[file |-> file, lex |-> lex]}
      BY <1>9 DEF ParseImport, Parse
    <3>3. QED
      BY <3>1, <3>2 DEF TypeOK
  <2>6. read \in ImportInfo
    BY <2>1, <2>4 DEF ImportInfo
  <2>7. /\ [imports EXCEPT ![Current] = read] \in Seq(ImportInfo)
        /\ Len([imports EXCEPT ![Current] = read]) = Len(imports)
    BY <2>1, <2>6, ExceptSeq DEF TypeOK
  <2>8. /\ NewImports(file, outcome.imports) \in Seq(ImportInfo)
        /\ Len(NewImports(file, outcome.imports)) \in Nat
    BY <2>2, <2>3, NewImportsAreImports, LenProperties
  <2>9. imports' = NewImports(file, outcome.imports) \o [imports EXCEPT ![Current] = read]
    BY <1>9 DEF ParseImport
  <2>10. /\ imports' \in Seq(ImportInfo)
         /\ Len(imports') = Len(NewImports(file, outcome.imports)) + Len(imports)
    <3>1. /\ imports' \in Seq(ImportInfo)
          /\ Len(imports') = Len(NewImports(file, outcome.imports))
                               + Len([imports EXCEPT ![Current] = read])
      BY <2>7, <2>8, <2>9, Concatenated, Zenon
    <3>2. QED
      BY <3>1, <2>7, Zenon
  <2>11. err' \in BOOLEAN
    BY <1>9, Zenon DEF ParseImport, ErrAfterImport
  <2>12. left' \in Nat /\ left' <= Len(imports')
    <3>1. left' = left - 1
      BY <1>9 DEF ParseImport
    <3>2. QED
      BY <1>a, <1>c, <2>1, <2>8, <2>10, <3>1
  <2>13. TypeOK'
    BY <1>9, <2>4, <2>5, <2>10, <2>11, <2>12, Zenon
       DEF ParseImport, TypeOK, inputs, preprocessing, checking, output
  <2>14. Consistent'
    BY <1>9, <2>12 DEF ParseImport, Consistent, inputs, preprocessing, checking, output
  <2>15. QED
    BY <2>13, <2>14
<1>10. CASE LoseImport
  <2> DEFINE lost == [imports[Current] EXCEPT !.doc = document]
  <2>1. /\ Current \in 1..Len(imports) /\ imports[Current] \in ImportInfo
        /\ left > 0 /\ left <= Len(imports) /\ left \in Nat
    BY <1>10, <1>a, <1>c, <1>d DEF LoseImport, Consistent
  <2>2. lost \in ImportInfo
    BY <2>1 DEF ImportInfo, TypeOK
  <2>3. imports' = [imports EXCEPT ![Current] = lost]
    BY <1>10 DEF LoseImport
  <2>4. imports' \in Seq(ImportInfo) /\ Len(imports') = Len(imports)
    BY <2>1, <2>2, <2>3, ExceptSeq DEF TypeOK
  <2>5. err' \in BOOLEAN
    BY <1>10, Zenon DEF LoseImport, ErrAfterImport
  <2>6. left' \in Nat /\ left' <= Len(imports')
    BY <1>10, <2>1, <2>4 DEF LoseImport
  <2>7. TypeOK'
    BY <1>10, <2>4, <2>5, <2>6, Zenon
       DEF LoseImport, TypeOK, inputs, preprocessing, checking, output
  <2>8. Consistent'
    BY <1>10, <2>6 DEF LoseImport, Consistent, inputs, preprocessing, checking, output
  <2>9. QED
    BY <2>7, <2>8
<1>11. CASE EndImports
  BY <1>11 DEF EndImports, Exit, TypeOK, Consistent, inputs, preprocessing, parsing, checking, output, Current
<1>12. CASE CheckFilenames
  <2> DEFINE import(k) == [file |-> imports[k].filename, items |-> imports[k].doc]
             imported == [k \in DOMAIN imports |-> import(k)]
  <2>1. DOMAIN imports = 1..Len(imports) /\ Len(imports) \in Nat
    BY LenProperties DEF TypeOK
  <2>2. ASSUME NEW k \in DOMAIN imports
        PROVE  import(k) \in Doc
    BY <1>c, <2>2 DEF ImportInfo, Doc
  <2>3. imported \in Seq(Doc)
    <3>1. imported \in [1..Len(imports) -> Doc]
      BY <2>1, <2>2
    <3>2. QED
      BY <2>1, <3>1, FunctionIsSeq
  <2>4. <<[file |-> opt.input, items |-> mainDoc]>> \in Seq(Doc)
    BY InputsAssumption DEF TypeOK, Invocation, SimpleName, Doc
  <2>5. todo' \in Seq(Doc)
    BY <1>12, <2>3, <2>4, ConcatProperties DEF CheckFilenames, Documents
  <2>6. err' \in BOOLEAN
    BY <1>12, Zenon DEF CheckFilenames
  <2>7. TypeOK'
    BY <1>12, <2>5, <2>6, Zenon
       DEF CheckFilenames, TypeOK, inputs, preprocessing, parsing, checking, output
  <2>8. Consistent'
    BY <1>12
       DEF CheckFilenames, Consistent, inputs, preprocessing, parsing, checking, output
  <2>9. QED
    BY <2>7, <2>8
<1>13. CASE GatherType
  <2> DEFINE doc == Head(todo)
             rest == [doc EXCEPT !.items = Tail(doc.items)]
  <2>1. todo \in Seq(Doc) /\ todo # <<>> /\ doc \in Doc /\ doc = todo[1] /\ 1 \in 1..Len(todo)
    BY <1>13, HeadTailProperties, EmptySeq DEF GatherType, TypeOK
  <2>2. rest \in Doc
    BY <1>13, <2>1, HeadTailProperties DEF GatherType, Doc
  <2>4. todo' = [todo EXCEPT ![1] = rest]
    BY <1>13, <2>1 DEF GatherType
  <2>5. todo' \in Seq(Doc)
    BY <2>1, <2>2, <2>4, ExceptSeq
  <2>6. err' \in BOOLEAN
    BY <1>13, Zenon DEF GatherType
  <2>7. TypeOK'
    BY <1>13, <1>f, <2>5, <2>6, Zenon
       DEF GatherType, TypeOK, inputs, preprocessing, parsing, checking, output
  <2>8. Consistent'
    BY <1>13 DEF GatherType, Consistent, inputs, preprocessing, parsing, checking, output
  <2>9. QED
    BY <2>7, <2>8
<1>14. CASE NextDocument
  BY <1>14, HeadTailProperties DEF NextDocument, TypeOK, Consistent, inputs, preprocessing, parsing, checking, output, Current
<1>15. CASE EndGather
  BY <1>15 DEF EndGather, TypeOK, Consistent, inputs, preprocessing, parsing, output, Current
<1>16. CASE CheckInterface
  <2>1. Head(pending) \in Item /\ Tail(pending) \in Seq(Item)
    BY <1>16, HeadTailProperties DEF CheckInterface, TypeOK
  <2>2. /\ Head(pending).kind \in {"USER_DATA", "BINDER", "RPC"}
        /\ Head(pending).methods \in Seq(Method)
    BY <2>1 DEF Item
  <2>3. methodNames' \subseteq Ident
    BY <1>16 DEF CheckInterface
  <2>4. TypeOK'
    BY <1>16, <2>1, <2>2, <2>3, Zenon
       DEF CheckInterface, TypeOK, inputs, preprocessing, parsing, output
  <2>5. Consistent'
    BY <1>16 DEF CheckInterface, Consistent, inputs, preprocessing, parsing, output
  <2>6. QED
    BY <2>4, <2>5
<1>17. CASE CheckReturn
  <2> DEFINE m == Head(methods)
  <2>1. m \in Method /\ methods # <<>>
    BY <1>17, HeadTailProperties DEF CheckReturn, TypeOK
  <2>2. m.args \in Seq(Arg)
    BY <2>1 DEF Method
  <2>4. err' \in BOOLEAN
    BY <1>17, Zenon DEF CheckReturn
  <2>5. event' \in BOOLEAN
    BY <1>17, Zenon DEF CheckReturn, IsEvent, TypeOK
  <2>6. pc' \in {"name", "args"} /\ args' \in {args, m.args}
    BY <1>17 DEF CheckReturn
  <2>7. args' \in Seq(Arg) /\ pc' \in Locations
    BY <2>2, <2>6 DEF TypeOK
  <2>8. TypeOK'
    BY <1>17, <1>f, <2>4, <2>5, <2>7, Zenon
       DEF CheckReturn, TypeOK, inputs, preprocessing, parsing, output
  <2>9. Consistent'
    BY <1>17, <2>1, <2>6 DEF CheckReturn, Consistent, inputs, preprocessing, parsing, output
  <2>10. QED
    BY <2>8, <2>9
<1>18. CASE CheckArg
  <2>1. Tail(args) \in Seq(Arg)
    BY <1>18, HeadTailProperties DEF CheckArg, TypeOK
  <2>4. err' \in BOOLEAN
    BY <1>18, Zenon DEF CheckArg
  <2>5. TypeOK'
    BY <1>18, <1>f, <2>1, <2>4, Zenon
       DEF CheckArg, TypeOK, inputs, preprocessing, parsing, output
  <2>6. Consistent'
    BY <1>18 DEF CheckArg, Consistent, inputs, preprocessing, parsing, output
  <2>7. QED
    BY <2>5, <2>6
<1>19. CASE EndArgs
  BY <1>19 DEF EndArgs, TypeOK, Consistent, inputs, preprocessing, parsing, checking, output, Current
<1>20. CASE CheckMethodName
  <2>1. /\ Head(methods) \in Method /\ Tail(methods) \in Seq(Method)
    BY <1>20, HeadTailProperties DEF CheckMethodName, TypeOK, Consistent
  <2>2. methodNames' \subseteq Ident
    BY <1>20, <2>1 DEF CheckMethodName, TypeOK, Method
  <2>3. err' \in BOOLEAN
    BY <1>20, Zenon DEF CheckMethodName
  <2>4. TypeOK'
    BY <1>20, <2>1, <2>2, <2>3, Zenon
       DEF CheckMethodName, TypeOK, inputs, preprocessing, parsing, output
  <2>5. Consistent'
    BY <1>20 DEF CheckMethodName, Consistent, inputs, preprocessing, parsing, output
  <2>6. QED
    BY <2>4, <2>5
<1>21. CASE EndInterface
  BY <1>21 DEF EndInterface, TypeOK, Consistent, inputs, preprocessing, parsing, checking, output, Current
<1>22. CASE EndChecks
  BY <1>22 DEF EndChecks, Exit, ExactlyOne, TypeOK, Consistent, inputs, preprocessing, parsing, checking, output, Current
<1>23. CASE NameOutput
  <2>1. mainDoc[1] \in Item
    BY <1>23, <1>e DEF NameOutput, Consistent
  <2>2. /\ mainDoc[1].package \in DottedName
        /\ mainDoc[1].name[1] \in Ident
    BY <2>1, EmptySeq, LenProperties DEF Item, SimpleName, DottedName
  <2>3. opt.outputBaseFolder \in DottedName
    BY InputsAssumption DEF TypeOK, Invocation
  <2>4. opt.outputBaseFolder \o mainDoc[1].package \o <<mainDoc[1].name[1]>> \in DottedName
    BY <2>2, <2>3, ConcatProperties DEF DottedName
  <2>5. outputFileName' \in DottedName
    BY <1>23, <2>4 DEF NameOutput, TypeOK
  <2>6. pc' \in {"dep", "exit"} /\ result' \in {"crashed", result}
    BY <1>23 DEF NameOutput, Exit
  <2>7. pc' \in Locations /\ result' \in Results
    BY <2>6 DEF TypeOK
  <2>8. TypeOK'
    BY <1>23, <2>5, <2>7, Zenon
       DEF NameOutput, TypeOK, inputs, preprocessing, parsing, checking
  <2>9. Consistent'
    BY <1>23, <2>6 DEF NameOutput, Consistent, inputs, preprocessing, parsing, checking
  <2>10. QED
    BY <2>8, <2>9
<1>24. CASE WriteDep
  <2>1. Prerequisites \subseteq DottedName
    <3>1. \A k \in DOMAIN imports : imports[k].filename \in DottedName
      BY <1>c DEF ImportInfo
    <3>2. opt.input \in DottedName
      BY InputsAssumption DEF TypeOK, Invocation, SimpleName
    <3>3. QED
      BY <3>1, <3>2 DEF Prerequisites
  <2>2. <<>> \in DottedName /\ outputFileName \in DottedName
    BY EmptySeq DEF DottedName, TypeOK
  <2>3. \A d \in dep' : d \in [target : DottedName, prerequisites : SUBSET DottedName]
    BY <1>24, <2>1, <2>2 DEF WriteDep, TypeOK
  <2>4. fault' \in BOOLEAN
    BY <1>24, Zenon DEF WriteDep, TypeOK
  <2>5. pc' \in {"header", "exit"} /\ result' \in {"ok", result}
    BY <1>24 DEF WriteDep, Exit
  <2>6. pc' \in Locations /\ result' \in Results
    BY <2>5 DEF TypeOK
  <2>7. TypeOK'
    BY <1>24, <2>3, <2>4, <2>6, Zenon
       DEF WriteDep, TypeOK, inputs, preprocessing, parsing, checking
  <2>8. Consistent'
    BY <1>24, <2>5 DEF WriteDep, Consistent, inputs, preprocessing, parsing, checking
  <2>9. QED
    BY <2>7, <2>8
<1>25. CASE GenerateHeader
  <2>1. mainDoc[1].name \in SimpleName
    BY <1>25, <1>e DEF GenerateHeader, Consistent, Item
  <2>2. Front(outputFileName) \in DottedName
    BY LenProperties, SubSeqProperties DEF Front, TypeOK, DottedName
  <2>3. \A g \in generated' :
          g \in [dir : DottedName, name : SimpleName, suffix : {".h", ".cpp"}]
    BY <1>25, <2>1, <2>2 DEF GenerateHeader, GeneratedFile, TypeOK
  <2>4. fault' \in BOOLEAN
    BY <1>25, Zenon DEF GenerateHeader, TypeOK
  <2>5. pc' \in {"implementation", "exit"} /\ result' \in {"ok", "failed", result}
    BY <1>25 DEF GenerateHeader, Exit
  <2>6. pc' \in Locations /\ result' \in Results
    BY <2>5 DEF TypeOK
  <2>7. TypeOK'
    BY <1>25, <2>3, <2>4, <2>6, Zenon
       DEF GenerateHeader, TypeOK, inputs, preprocessing, parsing, checking
  <2>8. Consistent'
    BY <1>25, <2>5 DEF GenerateHeader, Consistent, inputs, preprocessing, parsing, checking
  <2>9. QED
    BY <2>7, <2>8
<1>26. CASE GenerateImplementation
  <2>1. mainDoc[1].name \in SimpleName
    BY <1>26, <1>e DEF GenerateImplementation, Consistent, Item
  <2>2. Front(outputFileName) \in DottedName
    BY LenProperties, SubSeqProperties DEF Front, TypeOK, DottedName
  <2>3. \A g \in generated' :
          g \in [dir : DottedName, name : SimpleName, suffix : {".h", ".cpp"}]
    BY <1>26, <2>1, <2>2 DEF GenerateImplementation, GeneratedFile, TypeOK
  <2>4. fault' \in BOOLEAN
    BY <1>26, Zenon DEF GenerateImplementation, TypeOK
  <2>5. pc' \in {"implementation", "exit"} /\ result' \in {"ok", "failed", result}
    BY <1>26 DEF GenerateImplementation, Exit
  <2>6. pc' \in Locations /\ result' \in Results
    BY <2>5 DEF TypeOK
  <2>7. TypeOK'
    BY <1>26, <2>3, <2>4, <2>6, Zenon
       DEF GenerateImplementation, TypeOK, inputs, preprocessing, parsing, checking
  <2>8. Consistent'
    BY <1>26, <2>5 DEF GenerateImplementation, Consistent, inputs, preprocessing, parsing, checking
  <2>9. QED
    BY <2>7, <2>8
<1>27. CASE UNCHANGED vars
  <2>1. TypeOK'
    BY <1>27, ZenonT(60) DEF vars, TypeOK, inputs, preprocessing, parsing, checking, output
  <2>2. /\ inputs' = inputs /\ pc' = pc /\ left' = left /\ mainDoc' = mainDoc
        /\ preprocessing' = preprocessing /\ parsing' = parsing /\ checking' = checking
    BY <1>27 DEF vars
  <2>3. /\ lines' = lines /\ scan' = scan
    BY <2>2 DEF preprocessing
  <2>4. /\ imports' = imports /\ disk' = disk /\ methods' = methods
    BY <2>2 DEF inputs, parsing, checking
  <2>5. Consistent'
    BY <2>2, <2>3, <2>4 DEF Consistent, Current
  <2>6. QED
    BY <2>1, <2>5
<1>28. QED
  BY <1>1, <1>2, <1>3, <1>4, <1>5, <1>6, <1>7, <1>8, <1>9, <1>10, <1>11, <1>12,
     <1>13, <1>14, <1>15, <1>16, <1>17, <1>18, <1>19, <1>20, <1>21, <1>22, <1>23,
     <1>24, <1>25, <1>26, <1>27, ZenonT(60) DEF Next

\* Type correctness, for any base types, command lines and disks.
THEOREM TypeCorrect == Spec => []TypeOK
<1>1. Spec => [](TypeOK /\ Consistent)
  BY TypesInitially, TypesPreserved, PTL DEF Spec
<1>2. QED
  BY <1>1, PTL

-----------------------------------------------------------------------------
(* The registry.                                                           *)

\* No two types ever have the same qualified name, whatever the preprocessed
\* files, the documents and the generic references add to the registry: what
\* Find answers is the only candidate.
THEOREM NamesStayUnique == Spec => []NamesUnique
<1>1. Init => NamesUnique
  BY BaseTypesAssumption DEF Init, NamesUnique
<1>2. TypeOK /\ Consistent /\ NamesUnique /\ [Next]_vars => NamesUnique'
  <2> SUFFICES ASSUME TypeOK, Consistent, NamesUnique, [Next]_vars
               PROVE  NamesUnique'
    OBVIOUS
  <2>1. NAMES \in Seq(Type) /\ Unique(NAMES)
    BY DEF TypeOK, NamesUnique, Unique
  <2>2. Unique(NAMES')
    BY <2>1, RegistryStep, IdentAssumption, GatheredPreserves, SearchedPreserves
  <2>3. QED
    BY <2>2 DEF NamesUnique, Unique
<1>3. QED
  BY <1>1, <1>2, TypesInitially, TypesPreserved, PTL DEF Spec

\* A name the registry has is never forgotten.
THEOREM RegistryKeepsNames ==
  Spec => [][\A ref : Declares(NAMES, ref) => Declares(NAMES', ref)]_vars
<1>1. TypeOK /\ Consistent /\ [Next]_vars
        => \A ref : Declares(NAMES, ref) => Declares(NAMES', ref)
  <2> SUFFICES ASSUME TypeOK, Consistent, [Next]_vars
               PROVE  \A ref : Declares(NAMES, ref) => Declares(NAMES', ref)
    OBVIOUS
  <2>1. NAMES \in Seq(Type)
    BY DEF TypeOK
  <2>2. QED
    BY <2>1, RegistryStep, IdentAssumption, GatheredPreserves, SearchedPreserves
<1>2. QED
  BY <1>1, TypesInitially, TypesPreserved, PTL DEF Spec

-----------------------------------------------------------------------------
(* What the references mean.                                               *)

\* gather_types makes no generic type.
LEMMA GatheredKeepsLists ==
  ASSUME NEW ns \in Seq(Type), ListsLast(ns), NEW item \in Item
  PROVE  ListsLast(Gathered(ns, item))
<1> DEFINE declared == Add(ns, DeclaredType(item))
           stub == GeneratedType(item, <<"Stub">>)
           proxy == GeneratedType(item, <<"Stub", "Proxy">>)
           base == GeneratedType(item, <<"ServiceBase">>)
<1>1. /\ DeclaredType(item) \in Type /\ stub \in Type /\ proxy \in Type /\ base \in Type
      /\ DeclaredType(item).args = <<>> /\ stub.args = <<>> /\ proxy.args = <<>> /\ base.args = <<>>
  BY DeclaredIsType DEF DeclaredType, GeneratedType
<1> HIDE DEF stub, proxy, base
<1>2. declared \in Seq(Type) /\ ListsLast(declared)
  BY <1>1, AddPreserves, AddKeepsLists
<1>3. Add(declared, stub) \in Seq(Type) /\ ListsLast(Add(declared, stub))
  BY <1>1, <1>2, AddPreserves, AddKeepsLists
<1>4. ListsLast(Add(Add(declared, stub), proxy)) /\ ListsLast(Add(declared, base))
  BY <1>1, <1>2, <1>3, AddKeepsLists
<1>5. Gathered(ns, item) \in {ns, declared, Add(Add(declared, stub), proxy), Add(declared, base)}
  BY DEF Gathered, Item, stub, proxy, base
<1>6. QED
  BY <1>2, <1>4, <1>5

\* Every generic type of the registry is behind the type called List.
GenericsLast == ListsLast(NAMES)

LEMMA ListsLastHolds == Spec => []GenericsLast
<1>1. Init => GenericsLast
  BY BaseTypesAssumption DEF Init, GenericsLast, ListsLast, ToSet
<1>2. TypeOK /\ Consistent /\ GenericsLast /\ [Next]_vars => GenericsLast'
  <2> SUFFICES ASSUME TypeOK, Consistent, ListsLast(NAMES), [Next]_vars
               PROVE  ListsLast(NAMES')
    BY DEF GenericsLast
  <2>1. NAMES \in Seq(Type)
    BY DEF TypeOK
  <2>2. QED
    BY <2>1, RegistryStep, IdentAssumption, GatheredKeepsLists, SearchedKeepsLists
<1>3. QED
  BY <1>1, <1>2, TypesInitially, TypesPreserved, PTL DEF Spec

\* Where compile_aidl is while it checks the declarations.
Checking == {"check", "methods", "args", "name"}

\* While declarations are checked, no reference of any program gains a meaning,
\* loses it or changes it.
LEMMA MeaningsStay ==
  ASSUME TypeOK, Consistent, NamesUnique, GenericsLast, [Next]_vars, pc \in Checking,
         NEW ref \in TypeRef
  PROVE  /\ Search(NAMES', ref) # 0 <=> Search(NAMES, ref) # 0
         /\ Search(NAMES, ref) # 0 => Meaning(NAMES', ref) = Meaning(NAMES, ref)
<1>1. NAMES \in Seq(Type) /\ Unique(NAMES)
  BY DEF TypeOK, NamesUnique, Unique
<1>2. (\E made \in TypeRef : NAMES' = Searched(NAMES, made)) \/ UNCHANGED NAMES
  <2>1. CASE CheckReturn
    <3>1. Head(methods) \in Method
      BY <2>1, HeadTailProperties DEF CheckReturn, TypeOK
    <3>2. Head(methods).type.ref \in TypeRef
      BY <3>1 DEF Method, ArgType
    <3>3. QED
      BY <2>1, <3>2 DEF CheckReturn
  <2>2. CASE CheckArg
    <3>1. Head(args) \in Arg
      BY <2>2, HeadTailProperties DEF CheckArg, TypeOK
    <3>2. Head(args).type.ref \in TypeRef
      BY <3>1 DEF Arg, ArgType
    <3>3. QED
      BY <2>2, <3>2 DEF CheckArg
  <2>3. CASE CheckInterface \/ EndArgs \/ CheckMethodName \/ EndInterface \/ EndChecks \/ UNCHANGED vars
    BY <2>3, Zenon
       DEF CheckInterface, EndArgs, CheckMethodName, EndInterface, EndChecks, vars
  <2>4. QED
    BY <2>1, <2>2, <2>3
       DEF Next, Checking, OpenPreprocessed, ScanLine, ClosePreprocessed, EndPreprocessed, ParseMain,
           SkipKnownImport, MissImport, FindImport, ParseImport, LoseImport, EndImports,
           CheckFilenames, GatherType, NextDocument, EndGather, NameOutput, WriteDep,
           GenerateHeader, GenerateImplementation
<1>3. QED
  BY <1>1, <1>2, SearchedStable, IdentAssumption DEF Meaning, GenericsLast

\* What a reference of the main document means never changes while methods are
\* checked: the answer a check was made with is the answer the generators get.
THEOREM ReferencesKeepMeaning == Spec => ResolutionStable
<1>1. /\ TypeOK /\ Consistent /\ NamesUnique /\ GenericsLast /\ [Next]_vars
      => [(pc \in {"check", "methods", "args", "name"}) => KeepsMeanings]_vars
  <2> SUFFICES ASSUME TypeOK, Consistent, NamesUnique, GenericsLast, [Next]_vars,
                      pc \in Checking, NEW ref \in References, Search(NAMES, ref) # 0
               PROVE  /\ Search(NAMES', ref) # 0
                      /\ Meaning(NAMES', ref) = Meaning(NAMES, ref)
    BY DEF KeepsMeanings, Checking
  <2>1. mainDoc \in Seq(Item)
    BY DEF TypeOK
  <2>2. \A item \in ToSet(mainDoc) : item \in Item
    BY <2>1, ElementOfSeq, LenProperties DEF ToSet
  <2>3. \A item \in ToSet(mainDoc) : \A m \in ToSet(item.methods) : m \in Method
    BY <2>2, ElementOfSeq, LenProperties DEF ToSet, Item
  <2>4. \A item \in ToSet(mainDoc) : \A m \in ToSet(item.methods) : \A a \in ToSet(m.args) : a \in Arg
    BY <2>3, ElementOfSeq, LenProperties DEF ToSet, Method
  <2>5. ref \in TypeRef
    <3>1. CASE \E item \in ToSet(mainDoc) : \E m \in ToSet(item.methods) : ref = m.type.ref
      BY <2>3, <3>1 DEF Method, ArgType
    <3>2. CASE \E item \in ToSet(mainDoc) : \E m \in ToSet(item.methods) :
                 \E a \in ToSet(m.args) : ref = a.type.ref
      BY <2>4, <3>2 DEF Arg, ArgType
    <3>3. QED
      BY <3>1, <3>2 DEF References
  <2>6. QED
    BY <2>5, MeaningsStay
<1>2. Spec => [](TypeOK /\ Consistent)
  BY TypesInitially, TypesPreserved, PTL DEF Spec
<1>3. QED
  BY <1>1, <1>2, NamesStayUnique, ListsLastHolds, PTL DEF Spec, ResolutionStable

-----------------------------------------------------------------------------
(* The import loop: what the list of imports says was read is what was     *)
(* read.                                                                   *)

\* The .aidl files the run has read.
FilesRead == {o.file : o \in opened}

\* An import the loop is at or has still ahead comes from the main file, and
\* has a file only between access() and fopen().
ImportsAhead ==
  /\ pc \in {"preprocessed", "lines", "main"} => imports = <<>>
  /\ pc \in {"imports", "open"} =>
       \A k \in DOMAIN imports : k >= Current =>
         /\ imports[k].from = opt.input
         /\ imports[k].filename # <<>> => pc = "open" /\ k = Current

\* The document of import k is what the parser delivered for its file.
HasOwnDoc(k) ==
  \E o \in opened : /\ o.file = imports[k].filename
                    /\ disk.aidl[o.file][o.lex].called
                    /\ disk.aidl[o.file][o.lex].items = imports[k].doc

\* Where compile_aidl is once it has read every file.
HasRead ==
  {"filenames", "gather", "check", "methods", "args", "name", "output", "dep",
   "header", "implementation"}

\* compile_aidl reads, with no reason so far to give up, or has read.
ReadingWell == (pc \in {"imports", "open"} /\ ~err) \/ pc \in HasRead

\* The file between access() and fopen().
Awaited == IF pc = "open" THEN {imports[Current].filename} ELSE {}

\* As long as reading has gone well, the list names the files that were read and the
\* one that is about to be, each with its own document; and what was written
\* to the dependency file is what was read.
ImportsTold ==
  /\ ReadingWell =>
       /\ FilesRead \cup Awaited = Prerequisites
       /\ \A k \in DOMAIN imports :
            imports[k].filename # <<>> /\ ~(pc = "open" /\ k = Current) => HasOwnDoc(k)
  /\ dep # {} => pc \in {"header", "implementation", "exit"}
  /\ \A d \in dep : d.prerequisites = FilesRead

ImportsInv == ImportsAhead /\ ImportsTold

-----------------------------------------------------------------------------
(* What the steps do to the import list.                                   *)

\* Where the run is says which steps it can take, and which of the things told
\* about its imports they leave alone.
LEMMA PhaseStep ==
  ASSUME [Next]_vars
  PROVE  /\ UNCHANGED <<opt, disk>>
         /\ pc \in {"preprocessed", "lines"} =>
              /\ \/ OpenPreprocessed \/ ScanLine \/ ClosePreprocessed
                 \/ EndPreprocessed \/ UNCHANGED vars
              /\ pc' \in {"preprocessed", "lines", "main", "exit"}
              /\ UNCHANGED <<imports, opened, mainDoc, dep>>
         /\ pc \notin {"preprocessed", "lines"} =>
              /\ pc' \notin {"preprocessed", "lines"}
              /\ pc' = "main" => UNCHANGED vars
         /\ pc = "main" => ParseMain \/ UNCHANGED vars
         /\ pc = "imports" => \/ SkipKnownImport \/ MissImport \/ FindImport
                             \/ EndImports \/ UNCHANGED vars
         /\ pc = "open" => ParseImport \/ LoseImport \/ UNCHANGED vars
         /\ pc \in HasRead =>
              /\ pc' \in HasRead \cup {"exit"} /\ UNCHANGED <<imports, opened, mainDoc>>
              /\ WriteDep \/ UNCHANGED dep
         /\ pc \in {"header", "implementation"} =>
              pc' \in {"header", "implementation", "exit"}
         /\ pc = "exit" => UNCHANGED vars
<1>1. CASE OpenPreprocessed \/ ScanLine \/ ClosePreprocessed \/ EndPreprocessed
  BY <1>1
     DEF OpenPreprocessed, ScanLine, ClosePreprocessed, EndPreprocessed, Exit,
         HasRead, inputs, parsing, output
<1>2. CASE ParseMain \/ SkipKnownImport \/ MissImport \/ FindImport \/ EndImports
  BY <1>2
     DEF ParseMain, SkipKnownImport, MissImport, FindImport, EndImports, Exit, HasRead, inputs
<1>3. CASE ParseImport \/ LoseImport
  BY <1>3 DEF ParseImport, LoseImport, HasRead, inputs
<1>4. CASE \/ CheckFilenames \/ GatherType \/ NextDocument \/ EndGather
           \/ CheckInterface \/ CheckReturn \/ CheckArg \/ EndArgs
           \/ CheckMethodName \/ EndInterface \/ EndChecks
  BY <1>4
     DEF CheckFilenames, GatherType, NextDocument, EndGather, CheckInterface,
         CheckReturn, CheckArg, EndArgs, CheckMethodName, EndInterface, EndChecks,
         Exit, HasRead, inputs, parsing, output
<1>5. CASE NameOutput \/ WriteDep \/ GenerateHeader \/ GenerateImplementation
  BY <1>5
     DEF NameOutput, WriteDep, GenerateHeader, GenerateImplementation, Exit,
         HasRead, inputs, parsing
<1>6. CASE UNCHANGED vars
  BY <1>6, Zenon DEF vars, inputs, parsing, output
<1>7. QED
  BY <1>1, <1>2, <1>3, <1>4, <1>5, <1>6 DEF Next

\* The imports of the main file, none of them read.
LEMMA MainImportsNew ==
  ASSUME TypeOK, NEW file \in DottedName, NEW classes \in Seq(DottedName)
  PROVE  \A k \in DOMAIN NewImports(file, classes) :
           /\ NewImports(file, classes)[k].from = file
           /\ NewImports(file, classes)[k].filename = <<>>
           /\ NewImports(file, classes)[k].doc = <<>>
  BY DEF NewImports

\* The import at hand is in the list.
LEMMA CurrentInside ==
  ASSUME TypeOK, Consistent, pc \in {"imports", "open"}, left > 0
  PROVE  /\ Current \in DOMAIN imports /\ Current \in Nat
         /\ DOMAIN imports = 1..Len(imports) /\ Len(imports) \in Nat
         /\ left \in Nat /\ Current = Len(imports) - left + 1
         /\ imports[Current] \in ImportInfo
  BY LenProperties, ElementOfSeq DEF TypeOK, Consistent, Current

\* access() sets the file name of the import at hand.
LEMMA FindImportSets ==
  ASSUME TypeOK, Consistent, FindImport
  PROVE  LET file == FindImportFile(imports[Current].neededClass)
         IN  /\ file # <<>>
             /\ DOMAIN imports' = DOMAIN imports /\ Current' = Current
             /\ imports'[Current] = [imports[Current] EXCEPT !.filename = file]
             /\ \A k \in DOMAIN imports \ {Current} : imports'[k] = imports[k]
<1> DEFINE file == FindImportFile(imports[Current].neededClass)
           found == [imports[Current] EXCEPT !.filename = file]
<1>1. /\ file # <<>> /\ imports' = [imports EXCEPT ![Current] = found]
      /\ pc = "imports" /\ left > 0 /\ left' = left
  BY DEF FindImport
<1>2. Current \in DOMAIN imports
  BY <1>1, CurrentInside
<1>3. imports \in Seq(ImportInfo) /\ Len(imports') = Len(imports)
  BY <1>1, <1>2 DEF TypeOK
<1>4. Current' = Current
  BY <1>1, <1>3 DEF Current
<1>5. QED
  BY <1>1, <1>2, <1>3, <1>4

\* Of a concatenation, the part in front stays in place, and the one behind moves
\* on by the length of the other.
LEMMA InFront ==
  ASSUME NEW T, NEW s \in Seq(T), NEW t \in Seq(T)
  PROVE  /\ Len(s \o t) = Len(s) + Len(t) /\ DOMAIN (s \o t) = 1..(Len(s) + Len(t))
         /\ \A k \in 1..Len(s) : (s \o t)[k] = s[k]
         /\ \A k \in 1..Len(t) : (s \o t)[Len(s) + k] = t[k]
<1>1. /\ s \o t \in Seq(T) /\ Len(s \o t) = Len(s) + Len(t)
      /\ \A k \in 1..(Len(s) + Len(t)) :
           (s \o t)[k] = IF k <= Len(s) THEN s[k] ELSE t[k - Len(s)]
  BY ConcatProperties
<1>2. Len(s) \in Nat /\ Len(t) \in Nat /\ DOMAIN (s \o t) = 1..Len(s \o t)
  BY <1>1, LenProperties
<1>3. ASSUME NEW k \in 1..Len(t)
      PROVE  (s \o t)[Len(s) + k] = t[k]
  <2>1. /\ Len(s) + k \in 1..(Len(s) + Len(t)) /\ ~(Len(s) + k <= Len(s))
        /\ (Len(s) + k) - Len(s) = k
    BY <1>2
  <2>2. QED
    BY <1>1, <2>1
<1>4. \A k \in 1..Len(s) : (s \o t)[k] = s[k]
  BY <1>1, <1>2
<1>5. QED
  BY <1>1, <1>2, <1>3, <1>4

\* parse_aidl sets the document of the import at hand and pushes the imports
\* of that file in front: every import moves on by as many places.
LEMMA ParseImportSets ==
  ASSUME TypeOK, Consistent, ParseImport
  PROVE  \E n \in Nat :
           /\ DOMAIN imports' = 1..(n + Len(imports))
           /\ \A k \in 1..n : imports'[k].filename = <<>> /\ imports'[k].doc = <<>>
           /\ imports'[n + Current] = [imports[Current] EXCEPT !.doc = document']
           /\ \A k \in DOMAIN imports \ {Current} : imports'[n + k] = imports[k]
           /\ Current' = n + Current + 1
<1> DEFINE file == imports[Current].filename
           outcome == disk.aidl[file][lex]
           new == NewImports(file, outcome.imports)
           read == [imports[Current] EXCEPT !.doc = document']
           rest == [imports EXCEPT ![Current] = read]
           n == Len(new)
<1>1. /\ pc = "open" /\ left' = left - 1 /\ imports' = new \o rest
      /\ left > 0 /\ file \in DOMAIN disk.aidl
  BY DEF ParseImport, Consistent
<1>2. /\ Current \in 1..Len(imports) /\ DOMAIN imports = 1..Len(imports)
      /\ Len(imports) \in Nat /\ left \in Nat /\ Current = Len(imports) - left + 1
      /\ imports[Current] \in ImportInfo
  BY <1>1, CurrentInside, Zenon
<1>3. file \in DottedName
  BY <1>2 DEF ImportInfo
<1>4. outcome.imports \in Seq(DottedName) /\ outcome \in Outcome
  BY <1>1, OutcomeFromDisk DEF TypeOK, Outcome
<1>5. new \in Seq(ImportInfo) /\ n \in Nat /\ DOMAIN new = 1..n
  BY <1>3, <1>4, NewImportsAreImports, LenProperties
<1>6. \A k \in 1..n : new[k].filename = <<>> /\ new[k].doc = <<>>
  BY <1>3, <1>4, <1>5, MainImportsNew
<1>7. document' \in Seq(Item)
  BY <1>4 DEF ParseImport, Parse, TypeOK, Outcome
<1>8. read \in ImportInfo
  BY <1>2, <1>7 DEF ImportInfo
<1>9. /\ rest \in Seq(ImportInfo) /\ Len(rest) = Len(imports)
      /\ DOMAIN rest = 1..Len(imports)
      /\ rest[Current] = read
      /\ \A k \in DOMAIN imports \ {Current} : rest[k] = imports[k]
  BY <1>2, <1>8, ExceptSeq DEF TypeOK
<1> HIDE DEF new, read, rest
<1>10. /\ Len(imports') = n + Len(imports) /\ DOMAIN imports' = 1..(n + Len(imports))
       /\ \A k \in 1..n : imports'[k] = new[k]
       /\ \A k \in 1..Len(imports) : imports'[n + k] = rest[k]
  <2>1. new \in Seq(ImportInfo) /\ rest \in Seq(ImportInfo)
    BY <1>5, <1>9
  <2>2. /\ Len(new \o rest) = n + Len(rest) /\ DOMAIN (new \o rest) = 1..(n + Len(rest))
        /\ \A k \in 1..n : (new \o rest)[k] = new[k]
        /\ \A k \in 1..Len(rest) : (new \o rest)[n + k] = rest[k]
    BY <2>1, InFront, SMT
  <2>3. imports' = new \o rest /\ Len(rest) = Len(imports)
    BY <1>1, <1>9
  <2>4. QED
    BY <2>2, <2>3, Zenon
<1>11. Current' = n + Current + 1
  BY <1>1, <1>2, <1>5, <1>10 DEF Current
<1>12. /\ \A k \in 1..n : imports'[k].filename = <<>> /\ imports'[k].doc = <<>>
       /\ imports'[n + Current] = read
       /\ \A k \in DOMAIN imports \ {Current} : imports'[n + k] = imports[k]
  BY <1>2, <1>6, <1>9, <1>10
<1> HIDE DEF n
<1>13. QED
  BY <1>5, <1>10, <1>11, <1>12 DEF read

\* A file that cannot be opened any more leaves its import with whatever
\* g_document was, and the error.
LEMMA LoseImportSets ==
  ASSUME TypeOK, Consistent, LoseImport
  PROVE  /\ DOMAIN imports' = DOMAIN imports /\ Current' = Current + 1
         /\ \A k \in DOMAIN imports \ {Current} : imports'[k] = imports[k]
         /\ err' = TRUE
<1> DEFINE lost == [imports[Current] EXCEPT !.doc = document]
<1>1. /\ pc = "open" /\ left' = left - 1 /\ left > 0
      /\ imports' = [imports EXCEPT ![Current] = lost]
  BY DEF LoseImport, Consistent
<1>2. imports \in Seq(ImportInfo) /\ Len(imports') = Len(imports)
  BY <1>1, CurrentInside DEF TypeOK
<1>3. Current' = Current + 1
  BY <1>1, <1>2, CurrentInside DEF Current
<1>4. err' = TRUE
  BY DEF LoseImport, ErrAfterImport
<1>5. QED
  BY <1>1, <1>3, <1>4

-----------------------------------------------------------------------------
(* The invariant.                                                          *)

LEMMA AheadPreserved ==
  TypeOK /\ Consistent /\ ImportsAhead /\ [Next]_vars => ImportsAhead'
<1> SUFFICES ASSUME TypeOK, Consistent, ImportsAhead, [Next]_vars
             PROVE  ImportsAhead'
  OBVIOUS
<1>a. pc \in Locations /\ UNCHANGED <<opt, disk>>
  BY PhaseStep DEF TypeOK
<1>1. CASE UNCHANGED vars
  <2>1. UNCHANGED <<pc, imports, opt, left>>
    BY <1>1 DEF vars, parsing, inputs
  <2>2. QED
    BY <2>1 DEF ImportsAhead, Current
<1>2. CASE pc \in {"preprocessed", "lines"}
  BY <1>2, PhaseStep DEF ImportsAhead
<1>3. CASE ParseMain
  <2> DEFINE classes == disk.aidl[opt.input][lex].imports
  <2>1. pc = "main" /\ pc' = "imports" /\ imports = <<>>
    BY <1>3 DEF ParseMain, ImportsAhead
  <2>2. CASE UNCHANGED imports
    BY <2>1, <2>2 DEF ImportsAhead
  <2>3. CASE opt.input \in DOMAIN disk.aidl /\ imports' = NewImports(opt.input, classes)
    <3>1. opt.input \in DottedName
      BY InputsAssumption DEF TypeOK, Invocation, SimpleName
    <3>2. classes \in Seq(DottedName)
      BY <2>3, OutcomeFromDisk DEF TypeOK, Outcome
    <3>3. \A k \in DOMAIN imports' : imports'[k].from = opt.input /\ imports'[k].filename = <<>>
      BY <2>3, <3>1, <3>2, MainImportsNew
    <3>4. QED
      BY <1>a, <2>1, <3>3 DEF ImportsAhead
  <2>4. QED
    BY <1>3, <2>2, <2>3 DEF ParseMain
<1>4. CASE SkipKnownImport \/ MissImport
  <2>1. /\ pc = "imports" /\ pc' = pc /\ imports' = imports /\ left' = left - 1
        /\ left > 0
    BY <1>4 DEF SkipKnownImport, MissImport, parsing
  <2>2. \A k \in DOMAIN imports : k >= Current' => k >= Current
    BY <2>1, CurrentInside DEF Current
  <2>3. QED
    BY <1>a, <2>1, <2>2 DEF ImportsAhead
<1>5. CASE FindImport
  <2>1. pc = "imports" /\ pc' = "open" /\ left > 0
    BY <1>5 DEF FindImport
  <2>2. imports[Current] \in ImportInfo /\ Current \in DOMAIN imports /\ Current \in Nat
    BY <2>1, CurrentInside
  <2>3. imports'[Current].from = imports[Current].from
    BY <1>5, <2>2, FindImportSets DEF ImportInfo
  <2>4. QED
    BY <1>5, <1>a, <2>1, <2>2, <2>3, FindImportSets DEF ImportsAhead
<1>6. CASE ParseImport
  <2>1. pc = "open" /\ pc' = "imports" /\ left > 0
    BY <1>6 DEF ParseImport, Consistent
  <2>2. PICK n \in Nat :
          /\ DOMAIN imports' = 1..(n + Len(imports))
          /\ \A k \in DOMAIN imports \ {Current} : imports'[n + k] = imports[k]
          /\ Current' = n + Current + 1
    BY <1>6, ParseImportSets
  <2>3. ASSUME NEW k \in DOMAIN imports', k >= Current'
        PROVE  imports'[k].from = opt'.input /\ imports'[k].filename = <<>>
    <3>1. k - n \in DOMAIN imports \ {Current} /\ k - n >= Current /\ n + (k - n) = k
      BY <2>1, <2>2, <2>3, CurrentInside
    <3>2. imports'[k] = imports[k - n]
      BY <2>2, <3>1
    <3>3. QED
      BY <1>a, <2>1, <3>1, <3>2 DEF ImportsAhead
  <2>4. QED
    BY <2>1, <2>3 DEF ImportsAhead
<1>7. CASE LoseImport
  <2>1. pc = "open" /\ pc' = "imports" /\ left > 0
    BY <1>7 DEF LoseImport, Consistent
  <2>2. \A k \in DOMAIN imports : k >= Current' => k >= Current /\ k # Current
    BY <1>7, <2>1, CurrentInside, LoseImportSets
  <2>3. QED
    BY <1>7, <1>a, <2>1, <2>2, LoseImportSets DEF ImportsAhead
<1>8. CASE EndImports
  BY <1>8 DEF EndImports, Exit, ImportsAhead
<1>9. CASE pc \in HasRead
  BY <1>9, PhaseStep DEF ImportsAhead, HasRead
<1>10. QED
  BY <1>a, <1>1, <1>2, <1>3, <1>4, <1>5, <1>6, <1>7, <1>8, <1>9, PhaseStep
     DEF Locations, HasRead

\* Files that were read, their outcomes and the documents taken from them stay.
LEMMA OwnDocStays ==
  ASSUME NEW k, NEW j, HasOwnDoc(k), opened \subseteq opened', UNCHANGED disk,
         imports'[j].filename = imports[k].filename, imports'[j].doc = imports[k].doc
  PROVE  HasOwnDoc(j)'
  BY DEF HasOwnDoc

LEMMA ToldPreserved ==
  TypeOK /\ Consistent /\ ImportsInv /\ [Next]_vars => ImportsTold'
<1> SUFFICES ASSUME TypeOK, Consistent, ImportsAhead, ImportsTold, [Next]_vars
             PROVE  ImportsTold'
  BY DEF ImportsInv
<1>a. pc \in Locations /\ UNCHANGED <<opt, disk>>
  BY PhaseStep DEF TypeOK
<1>b. pc \in {"preprocessed", "lines", "main", "imports", "open"} => dep = {}
  BY DEF ImportsTold
<1>1. CASE UNCHANGED vars
  <2>1. UNCHANGED <<pc, imports, opt, left, err, opened, dep, disk>>
    BY <1>1, Zenon DEF vars, parsing, inputs, output
  <2>2. QED
    BY <2>1
       DEF ImportsTold, ReadingWell, FilesRead, Awaited, Prerequisites, HasOwnDoc, Current
<1>2. CASE pc \in {"preprocessed", "lines"}
  BY <1>2, <1>b, PhaseStep DEF ImportsTold, ReadingWell, HasRead
<1>3. CASE ParseMain
  <2> DEFINE classes == disk.aidl[opt.input][lex].imports
  <2>1. pc = "main" /\ pc' = "imports" /\ dep' = {}
    BY <1>3, <1>b DEF ParseMain, output
  <2>2. CASE err'
    BY <2>1, <2>2 DEF ImportsTold, ReadingWell, HasRead
  <2>3. CASE /\ opt.input \in DOMAIN disk.aidl /\ imports' = NewImports(opt.input, classes)
             /\ opened' = {[file |-> opt.input, lex |-> lex]}
    <3>1. opt.input \in DottedName
      BY InputsAssumption DEF TypeOK, Invocation, SimpleName
    <3>2. classes \in Seq(DottedName)
      BY <2>3, OutcomeFromDisk DEF TypeOK, Outcome
    <3>3. \A k \in DOMAIN imports' : imports'[k].filename = <<>>
      BY <2>3, <3>1, <3>2, MainImportsNew
    <3>4. Prerequisites' = {opt.input} /\ FilesRead' = {opt.input} /\ Awaited' = {}
      BY <1>a, <2>1, <2>3, <3>3 DEF Prerequisites, FilesRead, Awaited
    <3>5. QED
      BY <2>1, <3>3, <3>4 DEF ImportsTold
  <2>4. QED
    BY <1>3, <2>2, <2>3 DEF ParseMain
<1>4. CASE SkipKnownImport \/ MissImport
  <2>1. /\ pc = "imports" /\ pc' = pc /\ UNCHANGED <<imports, opened, dep>>
        /\ ~err' => ~err
    BY <1>4 DEF SkipKnownImport, MissImport, parsing, output
  <2>2. QED
    BY <1>a, <1>b, <2>1
       DEF ImportsTold, ReadingWell, HasRead, FilesRead, Awaited, Prerequisites, HasOwnDoc
<1>5. CASE FindImport
  <2> DEFINE file == FindImportFile(imports[Current].neededClass)
  <2>1. /\ pc = "imports" /\ pc' = "open" /\ left > 0
        /\ UNCHANGED <<opened, err, dep>>
    BY <1>5 DEF FindImport, output
  <2>2. imports[Current] \in ImportInfo /\ Current \in DOMAIN imports /\ Current \in Nat
    BY <2>1, CurrentInside
  <2>3. imports[Current].filename = <<>> /\ imports'[Current].filename = file
    BY <1>5, <2>1, <2>2, FindImportSets DEF ImportsAhead, ImportInfo
  <2>4. /\ file # <<>> /\ DOMAIN imports' = DOMAIN imports /\ Current' = Current
        /\ \A k \in DOMAIN imports \ {Current} : imports'[k] = imports[k]
    BY <1>5, FindImportSets
  <2>5. Prerequisites' = Prerequisites \cup {file} /\ Awaited' = {file} /\ Awaited = {}
    BY <1>a, <2>1, <2>2, <2>3, <2>4 DEF Prerequisites, Awaited
  <2>6. FilesRead' = FilesRead
    BY <2>1 DEF FilesRead
  <2>7. ReadingWell' => ReadingWell
    BY <2>1 DEF ReadingWell, HasRead
  <2>8. ASSUME NEW k \in DOMAIN imports', ReadingWell', imports'[k].filename # <<>>, k # Current'
        PROVE  HasOwnDoc(k)'
    <3>1. k \in DOMAIN imports /\ imports'[k] = imports[k]
      BY <2>4, <2>8
    <3>2. HasOwnDoc(k)
      BY <2>1, <2>7, <2>8, <3>1 DEF ImportsTold
    <3>3. QED
      BY <1>a, <2>1, <3>1, <3>2 DEF HasOwnDoc
  <2>9. QED
    BY <1>b, <2>1, <2>5, <2>6, <2>7, <2>8 DEF ImportsTold
<1>6. CASE ParseImport
  <2> DEFINE file == imports[Current].filename
             outcome == disk.aidl[file][lex]
             now == [file |-> file, lex |-> lex]
  <2>1. /\ pc = "open" /\ pc' = "imports" /\ left > 0 /\ dep' = {}
        /\ opened' = opened \cup {now}
        /\ file \in DOMAIN disk.aidl
    BY <1>6, <1>b DEF ParseImport, Parse, Consistent, output
  <2>2. /\ imports[Current] \in ImportInfo /\ Current \in 1..Len(imports)
        /\ DOMAIN imports = 1..Len(imports) /\ Len(imports) \in Nat
    BY <2>1, CurrentInside, Zenon
  <2>3. PICK n \in Nat :
          /\ DOMAIN imports' = 1..(n + Len(imports))
          /\ \A k \in 1..n : imports'[k].filename = <<>>
          /\ imports'[n + Current] = [imports[Current] EXCEPT !.doc = document']
          /\ \A k \in DOMAIN imports \ {Current} : imports'[n + k] = imports[k]
    BY <1>6, ParseImportSets
  <2>4. /\ imports'[n + Current].filename = file /\ imports'[n + Current].doc = document'
    BY <2>2, <2>3 DEF ImportInfo
  <2>5. \A k \in DOMAIN imports : imports'[n + k].filename = imports[k].filename
    BY <2>3, <2>4
  <2>6. \A k \in DOMAIN imports' :
          \/ k \in 1..n
          \/ k - n \in DOMAIN imports /\ n + (k - n) = k
    BY <2>2, <2>3
  <2>7. {imports'[k].filename : k \in DOMAIN imports'} \ {<<>>}
          = {imports[k].filename : k \in DOMAIN imports} \ {<<>>}
    <3>1. ASSUME NEW k \in DOMAIN imports', imports'[k].filename # <<>>
          PROVE  \E j \in DOMAIN imports : imports'[k].filename = imports[j].filename
      BY <2>3, <2>5, <2>6, <3>1
    <3>2. ASSUME NEW k \in DOMAIN imports
          PROVE  n + k \in DOMAIN imports' /\ imports[k].filename = imports'[n + k].filename
      BY <2>2, <2>3, <2>5
    <3>3. QED
      BY <3>1, <3>2
  <2>8. Prerequisites' = Prerequisites
    BY <1>a, <2>7 DEF Prerequisites
  <2>9. FilesRead' = FilesRead \cup {file} /\ Awaited = {file} /\ Awaited' = {}
    <3>1. now.file = file
      OBVIOUS
    <3> HIDE DEF now
    <3>2. FilesRead' = FilesRead \cup {file}
      BY <2>1, <3>1 DEF FilesRead
    <3>3. QED
      BY <2>1, <3>2 DEF Awaited
  <2>10. ReadingWell' => ReadingWell /\ ~outcome.err
    BY <1>6, <2>1 DEF ReadingWell, HasRead, ParseImport, ErrAfterImport
  <2>11. ASSUME ReadingWell', NEW k \in DOMAIN imports', imports'[k].filename # <<>>
         PROVE  HasOwnDoc(k)'
    <3>1. k - n \in DOMAIN imports /\ n + (k - n) = k
      BY <2>3, <2>6, <2>11
    <3>2. CASE k - n = Current
      <4>1. outcome.called
        BY <2>1, <2>10, <2>11, InputsAssumption DEF TypeOK, IsDisk
      <4>2. document' = outcome.items
        BY <1>6, <4>1 DEF ParseImport, Parse
      <4>3. imports'[k].filename = file /\ imports'[k].doc = outcome.items
        BY <2>4, <3>1, <3>2, <4>2
      <4>4. now \in opened' /\ now.file = file /\ now.lex = lex
        BY <2>1
      <4>5. QED
        BY <1>a, <4>1, <4>3, <4>4 DEF HasOwnDoc
    <3>3. CASE k - n # Current
      <4>1. imports'[k] = imports[k - n]
        BY <2>3, <3>1, <3>3
      <4>2. HasOwnDoc(k - n)
        BY <2>10, <2>11, <3>1, <3>3, <4>1 DEF ImportsTold
      <4>3. opened \subseteq opened'
        BY <2>1
      <4>4. QED
        BY <1>a, <4>1, <4>2, <4>3 DEF HasOwnDoc
    <3>4. QED
      BY <3>2, <3>3
  <2>12. QED
    BY <2>1, <2>8, <2>9, <2>10, <2>11 DEF ImportsTold
<1>7. CASE LoseImport
  <2>1. pc' = "imports" /\ err' = TRUE /\ dep' = {}
    BY <1>7, <1>b, LoseImportSets DEF LoseImport, output
  <2>2. QED
    BY <2>1 DEF ImportsTold, ReadingWell, HasRead
<1>8. CASE EndImports
  <2>1. /\ pc = "imports" /\ UNCHANGED <<imports, opened>> /\ dep' = {}
        /\ (pc' = "filenames" /\ ~err) \/ pc' = "exit"
    BY <1>8, <1>b DEF EndImports, Exit, parsing, output
  <2>2. QED
    BY <1>a, <2>1
       DEF ImportsTold, ReadingWell, HasRead, FilesRead, Awaited, Prerequisites, HasOwnDoc
<1>9. CASE pc \in HasRead
  <2>1. /\ pc' \in HasRead \cup {"exit"} /\ UNCHANGED <<imports, opened>>
        /\ WriteDep \/ UNCHANGED dep
        /\ pc \in {"header", "implementation"} => pc' \in {"header", "implementation", "exit"}
    BY <1>9, PhaseStep
  <2>2. UNCHANGED <<Prerequisites, FilesRead>> /\ Awaited = {} /\ Awaited' = {}
    BY <1>a, <1>9, <2>1 DEF Prerequisites, FilesRead, Awaited, HasRead
  <2>3. ReadingWell /\ FilesRead = Prerequisites
    BY <1>9, <2>2 DEF ReadingWell, ImportsTold
  <2>4. \A k \in DOMAIN imports' : ReadingWell' /\ imports'[k].filename # <<>> => HasOwnDoc(k)'
    BY <1>a, <1>9, <2>1, <2>3 DEF ImportsTold, HasOwnDoc, HasRead
  <2>5. CASE UNCHANGED dep
    BY <1>9, <2>1, <2>2, <2>3, <2>4, <2>5 DEF ImportsTold, HasRead
  <2>6. CASE WriteDep
    <3>1. /\ dep' # {} => pc' \in {"header", "exit"}
          /\ \A d \in dep' : d.prerequisites = Prerequisites \/ d \in dep
      BY <2>6 DEF WriteDep, Exit
    <3>2. QED
      BY <2>2, <2>3, <2>4, <3>1 DEF ImportsTold
  <2>7. QED
    BY <2>1, <2>5, <2>6
<1>10. QED
  BY <1>a, <1>1, <1>2, <1>3, <1>4, <1>5, <1>6, <1>7, <1>8, <1>9, PhaseStep
     DEF Locations, HasRead

LEMMA ImportsInvHolds == Spec => [](TypeOK /\ Consistent /\ ImportsInv)
<1>1. Init => ImportsInv
  BY DEF Init, ImportsInv, ImportsAhead, ImportsTold, ReadingWell, HasRead
<1>2. TypeOK /\ Consistent /\ ImportsInv /\ [Next]_vars => ImportsInv'
  BY AheadPreserved, ToldPreserved DEF ImportsInv
<1>3. QED
  BY <1>1, <1>2, TypesInitially, TypesPreserved, PTL DEF Spec

-----------------------------------------------------------------------------
\* When reading has gone well, every import that was parsed holds the document
\* of its own file: g_document is not cleared between imports, and what the
\* loop takes over from an import before is always thrown away with an error.
THEOREM DocumentsAreOwn == Spec => []DocsAreOwn
<1>1. TypeOK /\ ImportsInv => DocsAreOwn
  BY DEF TypeOK, Locations, ImportsInv, ImportsTold, ReadingWell, HasRead, HasOwnDoc, DocsAreOwn
<1>2. QED
  BY <1>1, ImportsInvHolds, PTL

\* generate_dep_file lists exactly the .aidl files that parse_aidl opened,
\* whatever the search path finds and however often a file is imported.
THEOREM DependenciesAreRead == Spec => []DepListsOpened
<1>1. ImportsInv => DepListsOpened
  BY DEF ImportsInv, ImportsTold, FilesRead, DepListsOpened
<1>2. QED
  BY <1>1, ImportsInvHolds, PTL

=============================================================================
