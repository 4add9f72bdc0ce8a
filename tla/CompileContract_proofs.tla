------------------------ MODULE CompileContract_proofs ------------------------
(***************************************************************************)
(* Proofs about what compile_aidl makes of the declarations it has met,    *)
(* for any command lines and disks: which imports it reads, and what the   *)
(* registry has of the interface it compiles.                              *)
(***************************************************************************)
EXTENDS CompileContract, CompileAidl_proofs

\* The registry has the classes generated with an interface of the name.
HasStubs(ns, name) ==
  \A suffix \in {<<"Stub">>, <<"Stub", "Proxy">>} : Declares(ns, Plain(name \o suffix))

\* Every interface of the registry has them.
Whole(ns) ==
  \A i \in DOMAIN ns :
    ns[i].kind = "INTERFACE" => HasStubs(ns, ns[i].package \o ns[i].name)

\* The registry has the name of every base type and of every preprocessed declaration.
AllDeclared ==
  /\ \A t \in ToSet(BaseTypes) : Declares(NAMES, Plain(t.package \o t.name))
  /\ \A l \in DeclaredLines : Declares(NAMES, Plain(l.fullname))

\* The declarations of the -p file number f.
DeclarationsOf(f) ==
  {l \in ToSet(disk.preprocessed[opt.preprocessed[f]]) : ~l.comment /\ l.type \in DeclarationWords}

\* Every declaration of the -p files behind is in the registry, unless it is
\* still among the lines ahead or reading has failed.
LinesDeclared ==
  pc \in {"preprocessed", "lines"} =>
    /\ left <= Len(opt.preprocessed)
    /\ \A f \in 1..(Len(opt.preprocessed) - left) :
         \/ err
         \/ /\ opt.preprocessed[f] \in DOMAIN disk.preprocessed
            /\ \A l \in DeclarationsOf(f) :
                 \/ Declares(NAMES, Plain(l.fullname))
                 \/ pc = "lines" /\ l \in ToSet(lines)

\* The main file is parsed with every preprocessed declaration in the registry.
DeclaredFirst ==
  /\ \A t \in ToSet(BaseTypes) : Declares(NAMES, Plain(t.package \o t.name))
  /\ LinesDeclared
  /\ pc = "main" \/ imports # <<>> => AllDeclared

\* The only interface of the main document has its generated classes.
MainComesWhole ==
  \/ err
  \/ Len(mainDoc) # 1
  \/ mainDoc[1].kind = "BINDER" => HasStubs(NAMES, mainDoc[1].package \o mainDoc[1].name)

\* Preprocessed files declare binder interfaces alone, so up to the first
\* declaration of the main document every interface is whole.
ComesWhole ==
  /\ pc \in {"preprocessed", "lines", "main", "imports", "open", "filenames"} => Whole(NAMES)
  /\ pc = "filenames" => mainDoc # <<>>
  /\ pc = "gather" =>
       (todo = Documents /\ mainDoc # <<>> /\ Whole(NAMES)) \/ MainComesWhole
  /\ pc \in {"check", "methods", "args", "name", "output", "dep", "header", "implementation"} =>
       MainComesWhole
  /\ pc \in {"output", "dep", "header", "implementation"} => ~err

ContractInv == DeclaredFirst /\ ComesWhole /\ ParsesOnlyNeeded

-----------------------------------------------------------------------------
(* What one declaration brings.                                            *)

\* The registry only grows.
LEMMA RegistryGrows ==
  ASSUME TypeOK, Consistent, NamesUnique, [Next]_vars
  PROVE  /\ NAMES \in Seq(Type) /\ NAMES' \in Seq(Type)
         /\ Unique(NAMES) /\ Unique(NAMES') /\ Extends(NAMES, NAMES')
         /\ \A ref : Declares(NAMES, ref) => Declares(NAMES', ref)
<1>1. NAMES \in Seq(Type) /\ Unique(NAMES)
  BY DEF TypeOK, NamesUnique, Unique
<1>2. UNCHANGED NAMES => Extends(NAMES, NAMES')
  BY DEF Extends
<1>3. QED
  BY <1>1, <1>2, RegistryStep, IdentAssumption, GatheredPreserves, SearchedPreserves

\* A generated class is found under the name of its interface and its suffix.
LEMMA GeneratedName ==
  ASSUME NEW item \in Item, NEW suffix \in {<<"Stub">>, <<"Stub", "Proxy">>, <<"ServiceBase">>}
  PROVE  QualifiedName(GeneratedType(item, suffix)) = Plain(item.package \o item.name \o suffix)
<1>1. item.package \in Seq(Ident) /\ item.name \in Seq(Ident)
  BY DEF Item, SimpleName, DottedName
<1>2. /\ <<"Stub">> \in Seq(Ident) /\ <<"Stub", "Proxy">> \in Seq(Ident)
      /\ <<"ServiceBase">> \in Seq(Ident)
  BY IdentAssumption
<1>3. suffix \in Seq(Ident)
  BY <1>2, Zenon
<1>4. (item.package \o item.name) \o suffix = item.package \o (item.name \o suffix)
  <2>1. \A s, t, u \in Seq(Ident) : (s \o t) \o u = s \o (t \o u)
    BY ConcatAssociative
  <2>2. QED
    BY <1>1, <1>3, <2>1
<1>5. QED
  BY <1>4 DEF QualifiedName, GeneratedType, Plain

LEMMA DeclaredName ==
  ASSUME NEW item
  PROVE  QualifiedName(DeclaredType(item)) = Plain(item.package \o item.name)
  BY DEF QualifiedName, DeclaredType, Plain

\* After gather_types the registry has the name of the declaration.  If a binder
\* interface was not refused, it has the classes generated with it, provided
\* the interfaces declared before brought theirs; and they all have then,
\* unless the declaration is an rpc interface.
LEMMA GatheredBrings ==
  ASSUME NEW ns \in Seq(Type), Unique(ns), Whole(ns), NEW item \in Item
  PROVE  /\ Declares(Gathered(ns, item), Plain(item.package \o item.name))
         /\ item.kind = "BINDER" /\ ~Redefines(ns, item) =>
              HasStubs(Gathered(ns, item), item.package \o item.name)
         /\ item.kind # "RPC" => Whole(Gathered(ns, item))
<1> DEFINE q == Plain(item.package \o item.name)
           declared == Add(ns, DeclaredType(item))
           stub == GeneratedType(item, <<"Stub">>)
           proxy == GeneratedType(item, <<"Stub", "Proxy">>)
           base == GeneratedType(item, <<"ServiceBase">>)
<1>1. /\ DeclaredType(item) \in Type /\ stub \in Type /\ proxy \in Type /\ base \in Type
      /\ QualifiedName(DeclaredType(item)) = q
      /\ stub.kind = "GENERATED" /\ proxy.kind = "GENERATED"
  BY DeclaredIsType, DeclaredName DEF GeneratedType
<1>2. /\ QualifiedName(stub) = Plain(item.package \o item.name \o <<"Stub">>)
      /\ QualifiedName(proxy) = Plain(item.package \o item.name \o <<"Stub", "Proxy">>)
  BY GeneratedName
<1>3. \A ref : Declares(ns, ref) => Declares(Gathered(ns, item), ref)
  BY GatheredPreserves
<1>4. CASE Declares(ns, q)
  <2>1. Gathered(ns, item) = ns
    BY <1>1, <1>4 DEF Gathered
  <2>2. ASSUME item.kind = "BINDER", ~Redefines(ns, item)
        PROVE  HasStubs(ns, item.package \o item.name)
    <3>1. Find(ns, q) \in DOMAIN ns /\ QualifiedName(ns[Find(ns, q)]) = q
      BY <1>4, FindIsDeclared
    <3>2. ns[Find(ns, q)].kind = "INTERFACE"
      <4>1. ns[Find(ns, q)] \in Type
        BY <3>1
      <4>2. ns[Find(ns, q)].kind \notin {"BUILT_IN"} \cup (Kinds \ {"INTERFACE"})
        BY <1>1, <1>4, <2>2 DEF Redefines, DeclaredType, IsInterface
      <4>3. QED
        BY <4>1, <4>2 DEF Type
    <3>3. ns[Find(ns, q)].package \o ns[Find(ns, q)].name = item.package \o item.name
      BY <3>1 DEF QualifiedName, Plain
    <3>4. QED
      BY <3>1, <3>2, <3>3 DEF Whole
  <2>3. QED
    BY <1>4, <2>1, <2>2
<1>5. CASE ~Declares(ns, q) /\ item.kind = "BINDER"
  <2> DEFINE whole == Add(Add(declared, stub), proxy)
  <2>1. Gathered(ns, item) = whole
    BY <1>1, <1>5 DEF Gathered
  <2>2. declared \in Seq(Type) /\ Add(declared, stub) \in Seq(Type) /\ whole \in Seq(Type)
    BY <1>1, AddPreserves
  <2>3. Declares(declared, q) /\ Declares(whole, q)
    BY <1>1, <2>2, AddPreserves
  <2>4. Declares(whole, QualifiedName(stub)) /\ Declares(whole, QualifiedName(proxy))
    BY <1>1, <2>2, AddPreserves
  <2>5. HasStubs(whole, item.package \o item.name)
    BY <1>2, <2>4 DEF HasStubs
  <2>6. ASSUME NEW i \in DOMAIN whole, whole[i].kind = "INTERFACE"
        PROVE  HasStubs(whole, whole[i].package \o whole[i].name)
    <3>1. i \in DOMAIN Add(declared, stub) /\ whole[i] = Add(declared, stub)[i]
      BY <1>1, <2>2, <2>6, AddExtends DEF Extends
    <3>2. i \in DOMAIN declared /\ whole[i] = declared[i]
      BY <1>1, <2>2, <2>6, <3>1, AddExtends DEF Extends
    <3>3. CASE i \in DOMAIN ns
      <4>1. whole[i] = ns[i]
        BY <1>1, <3>2, <3>3, AddExtends DEF Extends
      <4>2. HasStubs(ns, whole[i].package \o whole[i].name)
        BY <2>6, <3>3, <4>1 DEF Whole
      <4>3. QED
        BY <1>3, <2>1, <4>2 DEF HasStubs
    <3>4. CASE i \notin DOMAIN ns
      <4>1. whole[i] = DeclaredType(item)
        BY <1>1, <3>2, <3>4, AddExtends
      <4>2. whole[i].package = item.package /\ whole[i].name = item.name
        BY <4>1 DEF DeclaredType
      <4>3. QED
        BY <2>5, <4>2, Zenon
    <3>5. QED
      BY <3>3, <3>4
  <2>7. QED
    BY <2>1, <2>3, <2>5, <2>6 DEF Whole
<1>6. CASE ~Declares(ns, q) /\ item.kind = "RPC"
  <2>1. Gathered(ns, item) = Add(declared, base)
    BY <1>1, <1>6 DEF Gathered
  <2>2. declared \in Seq(Type) /\ Declares(declared, q)
    BY <1>1, AddPreserves
  <2>3. QED
    BY <1>1, <1>6, <2>1, <2>2, AddPreserves
<1>7. CASE ~Declares(ns, q) /\ item.kind = "USER_DATA"
  <2>1. Gathered(ns, item) = declared
    BY <1>1, <1>7 DEF Gathered
  <2>2. Declares(declared, q)
    BY <1>1, AddPreserves
  <2>3. ASSUME NEW i \in DOMAIN declared, declared[i].kind = "INTERFACE"
        PROVE  HasStubs(declared, declared[i].package \o declared[i].name)
    <3>1. DeclaredType(item).kind # "INTERFACE"
      BY <1>7 DEF DeclaredType, IsInterface
    <3>2. i \in DOMAIN ns /\ declared[i] = ns[i]
      BY <1>1, <2>3, <3>1, AddExtends DEF Extends
    <3>3. HasStubs(ns, declared[i].package \o declared[i].name)
      BY <2>3, <3>2 DEF Whole
    <3>4. QED
      BY <1>3, <2>1, <3>3 DEF HasStubs
  <2>4. QED
    BY <1>7, <2>1, <2>2, <2>3 DEF Whole
<1>8. item.kind \in {"USER_DATA", "BINDER", "RPC"}
  BY DEF Item
<1>9. QED
  BY <1>4, <1>5, <1>6, <1>7, <1>8

\* A line declares the name it spells.
LEMMA LineItemName ==
  ASSUME NEW type, NEW fullname \in DottedName, fullname # <<>>
  PROVE  /\ LineItem(type, fullname).package \o LineItem(type, fullname).name = fullname
         /\ LineItem(type, fullname).kind # "RPC"
<1>1. fullname \in Seq(Ident) /\ Len(fullname) \in Nat /\ Len(fullname) >= 1
  BY EmptySeq, LenProperties DEF DottedName
<1>2. SubSeq(fullname, 1, Len(fullname))
        = SubSeq(fullname, 1, Len(fullname) - 1) \o <<fullname[Len(fullname)]>>
  BY <1>1, SubSeqRecursiveSecond
<1>3. SubSeq(fullname, 1, Len(fullname)) = fullname
  BY <1>1, SubSeqFull
<1>4. QED
  BY <1>2, <1>3 DEF LineItem, Front, Last

-----------------------------------------------------------------------------
(* The preprocessed files are in the registry when the main file is read.  *)

LEMMA BaseTypesDeclared ==
  ASSUME NEW t \in ToSet(BaseTypes)
  PROVE  Declares(BaseTypes, Plain(t.package \o t.name))
<1>1. PICK i \in DOMAIN BaseTypes : t = BaseTypes[i]
  BY DEF ToSet
<1>2. QualifiedName(BaseTypes[i]) = Plain(t.package \o t.name)
  BY <1>1, BaseTypesAssumption DEF QualifiedName, Plain
<1>3. QED
  BY <1>2 DEF Declares

\* The lines that declare something have a name.
LEMMA ScannedDeclaration ==
  ASSUME TypeOK, Consistent, lines # <<>>, Head(lines).type \in DeclarationWords
  PROVE  /\ Scanned(Head(lines)).type = Head(lines).type
         /\ Scanned(Head(lines)).fullname = Head(lines).fullname
<1>1. Head(lines) = lines[1] /\ 1 \in DOMAIN lines
  BY HeadTailProperties, LenProperties, EmptySeq DEF TypeOK
<1>2. Head(lines).type # "none"
  BY DEF DeclarationWords
<1>3. Head(lines).fullname # <<>>
  BY <1>1, <1>2 DEF Consistent
<1>4. QED
  BY <1>2, <1>3 DEF Scanned

\* The line that was read is behind, and its name is in the registry.
LEMMA LineRead ==
  ASSUME TypeOK, Consistent, NamesUnique, Whole(NAMES), ScanLine,
         NEW l \in ToSet(lines), ~l.comment, l.type \in DeclarationWords
  PROVE  \/ Declares(NAMES', Plain(l.fullname))
         \/ pc' = "lines" /\ l \in ToSet(lines')
         \/ err'
<1> DEFINE line == Head(lines)
           item == LineItem(line.type, line.fullname)
<1>1. lines # <<>> /\ pc = "lines"
  BY DEF ScanLine
<1>2. lines \in Seq(Line) /\ Len(lines) \in Nat /\ DOMAIN lines = 1..Len(lines)
  BY LenProperties DEF TypeOK
<1>3. l = line \/ l \in ToSet(Tail(lines))
  <2>1. PICK i \in 1..Len(lines) : l = lines[i]
    BY <1>2 DEF ToSet
  <2>2. CASE i = 1
    BY <1>1, <1>2, <2>1, <2>2
  <2>3. CASE i # 1
    <3>1. i - 1 \in DOMAIN Tail(lines) /\ Tail(lines)[i - 1] = lines[i]
      BY <1>1, <1>2, <2>3
    <3>2. QED
      BY <2>1, <3>1 DEF ToSet
  <2>4. QED
    BY <2>2, <2>3
<1>4. CASE l \in ToSet(Tail(lines))
  BY <1>1, <1>4 DEF ScanLine
<1>5. CASE l = line
  <2>1. Scanned(line).type = line.type /\ Scanned(line).fullname = line.fullname
    BY <1>1, <1>5, ScannedDeclaration
  <2>2. NAMES' = Gathered(NAMES, item)
    BY <1>5, <2>1 DEF ScanLine
  <2>3. line.fullname \in DottedName /\ line.fullname # <<>>
    BY <1>1, <1>5, <2>1, LineAtHand DEF DeclarationWords
  <2>4. item \in Item /\ item.package \o item.name = line.fullname
    BY <2>3, LineItemIsItem, LineItemName
  <2>5. Declares(Gathered(NAMES, item), Plain(line.fullname))
    BY <2>4, GatheredBrings DEF TypeOK, NamesUnique, Unique
  <2>6. QED
    BY <1>5, <2>2, <2>5
<1>6. QED
  BY <1>3, <1>4, <1>5

LEMMA LinesDeclaredPreserved ==
  ASSUME TypeOK, Consistent, NamesUnique, ComesWhole, LinesDeclared, [Next]_vars
  PROVE  LinesDeclared'
<1> DEFINE n == Len(opt.preprocessed)
<1>a. left \in Nat /\ n \in Nat /\ UNCHANGED <<opt, disk>>
  BY InputsAssumption, LenProperties, PhaseStep DEF TypeOK, Invocation
<1>b. \A ref : Declares(NAMES, ref) => Declares(NAMES', ref)
  BY RegistryGrows
<1>1. CASE OpenPreprocessed
  <2>1. /\ pc = "preprocessed" /\ left > 0 /\ left' = left - 1 /\ left <= n
        /\ n - left' = (n - left) + 1 /\ err => err'
    BY <1>1, <1>a DEF OpenPreprocessed, LinesDeclared
  <2>2. /\ pc' \in {"preprocessed", "lines"}
        /\ err' \/ ( /\ opt.preprocessed[n - left'] \in DOMAIN disk.preprocessed
                     /\ pc' = "lines" /\ lines' = disk.preprocessed[opt.preprocessed[n - left']])
    BY <1>1, <1>a, <2>1 DEF OpenPreprocessed
  <2>3. ASSUME NEW f \in 1..(n - left'), f # n - left'
        PROVE  \/ err
               \/ /\ opt.preprocessed[f] \in DOMAIN disk.preprocessed
                  /\ \A l \in DeclarationsOf(f) : Declares(NAMES, Plain(l.fullname))
    <3>1. f \in 1..(n - left)
      BY <1>a, <2>1, <2>3
    <3>2. QED
      BY <2>1, <3>1 DEF LinesDeclared
  <2>4. \A f : DeclarationsOf(f)' = DeclarationsOf(f)
    BY <1>a DEF DeclarationsOf
  <2>5. QED
    BY <1>a, <1>b, <2>1, <2>2, <2>3, <2>4 DEF LinesDeclared, DeclarationsOf
<1>2. CASE ScanLine
  <2>1. pc = "lines" /\ left' = left /\ (err => err')
    BY <1>2 DEF ScanLine
  <2>2. Whole(NAMES)
    BY <2>1 DEF ComesWhole
  <2>3. ASSUME NEW f \in 1..(n - left), ~err'
        PROVE  /\ opt.preprocessed[f] \in DOMAIN disk.preprocessed
               /\ \A l \in DeclarationsOf(f) :
                    \/ Declares(NAMES', Plain(l.fullname))
                    \/ pc' = "lines" /\ l \in ToSet(lines')
    <3>1. /\ opt.preprocessed[f] \in DOMAIN disk.preprocessed
          /\ \A l \in DeclarationsOf(f) :
               Declares(NAMES, Plain(l.fullname)) \/ l \in ToSet(lines)
      BY <2>1, <2>3 DEF LinesDeclared
    <3>2. ASSUME NEW l \in DeclarationsOf(f)
          PROVE  \/ Declares(NAMES', Plain(l.fullname))
                 \/ pc' = "lines" /\ l \in ToSet(lines')
      <4>1. ~l.comment /\ l.type \in DeclarationWords
        BY DEF DeclarationsOf
      <4>2. CASE l \in ToSet(lines)
        BY <1>2, <2>2, <2>3, <4>1, <4>2, LineRead
      <4>3. QED
        BY <1>b, <3>1, <4>2
    <3>3. QED
      BY <3>1, <3>2
  <2>4. \A f : DeclarationsOf(f)' = DeclarationsOf(f)
    BY <1>a DEF DeclarationsOf
  <2>5. QED
    BY <1>a, <2>1, <2>3, <2>4 DEF LinesDeclared
<1>3. CASE ClosePreprocessed
  <2>1. pc = "lines" /\ pc' = "preprocessed" /\ UNCHANGED <<left, NAMES>>
    BY <1>3 DEF ClosePreprocessed
  <2>2. CASE lines = <<>> /\ UNCHANGED <<lines, err>>
    <3>1. ToSet(lines) = {}
      BY <2>2 DEF ToSet
    <3>2. QED
      BY <1>a, <2>1, <2>2, <3>1 DEF LinesDeclared, DeclarationsOf
  <2>3. CASE lines' = <<>> /\ err' = TRUE
    BY <1>a, <2>1, <2>3 DEF LinesDeclared, DeclarationsOf
  <2>4. QED
    BY <1>3, <2>2, <2>3 DEF ClosePreprocessed
<1>4. CASE EndPreprocessed
  BY <1>4 DEF EndPreprocessed, Exit, LinesDeclared
<1>5. CASE UNCHANGED vars
  <2>1. UNCHANGED <<pc, left, lines, err, NAMES>>
    BY <1>5 DEF vars, preprocessing
  <2>2. QED
    BY <1>a, <2>1 DEF LinesDeclared, DeclarationsOf
<1>6. CASE pc \notin {"preprocessed", "lines"}
  BY <1>6, PhaseStep DEF LinesDeclared
<1>7. QED
  BY <1>1, <1>2, <1>3, <1>4, <1>5, <1>6, PhaseStep

LEMMA DeclaredFirstPreserved ==
  ASSUME TypeOK, Consistent, NamesUnique, ComesWhole, DeclaredFirst, [Next]_vars
  PROVE  DeclaredFirst'
<1>a. UNCHANGED <<opt, disk>> /\ UNCHANGED DeclaredLines
  BY PhaseStep DEF DeclaredLines
<1>b. \A ref : Declares(NAMES, ref) => Declares(NAMES', ref)
  BY RegistryGrows
<1>1. \A t \in ToSet(BaseTypes) : Declares(NAMES', Plain(t.package \o t.name))
  BY <1>b DEF DeclaredFirst
<1>2. LinesDeclared'
  BY LinesDeclaredPreserved DEF DeclaredFirst
<1>3. AllDeclared => AllDeclared'
  BY <1>a, <1>b DEF AllDeclared
<1>4. CASE EndPreprocessed
  <2>1. pc = "preprocessed" /\ left = 0 /\ (pc' = "main" => ~err) /\ UNCHANGED imports
    BY <1>4 DEF EndPreprocessed, Exit, parsing
  <2>2. ASSUME ~err, NEW l \in DeclaredLines
        PROVE  Declares(NAMES, Plain(l.fullname))
    <3>1. opt.preprocessed \in Seq(Ident) /\ Len(opt.preprocessed) \in Nat
          /\ DOMAIN opt.preprocessed = 1..Len(opt.preprocessed)
      BY InputsAssumption, LenProperties DEF TypeOK, Invocation
    <3>2. PICK f \in 1..Len(opt.preprocessed) : l \in DeclarationsOf(f)
      BY <3>1 DEF DeclaredLines, DeclarationsOf, ToSet
    <3>3. Len(opt.preprocessed) - left = Len(opt.preprocessed)
      BY <2>1, <3>1
    <3>4. QED
      BY <2>1, <2>2, <3>2, <3>3 DEF DeclaredFirst, LinesDeclared
  <2>3. pc' = "main" => AllDeclared
    BY <2>1, <2>2 DEF AllDeclared, DeclaredFirst
  <2>4. QED
    BY <1>1, <1>2, <1>3, <2>1, <2>3 DEF DeclaredFirst
<1>5. CASE OpenPreprocessed \/ ScanLine \/ ClosePreprocessed
  <2>1. pc' \in {"preprocessed", "lines"} /\ UNCHANGED imports
    BY <1>5 DEF OpenPreprocessed, ScanLine, ClosePreprocessed, parsing
  <2>2. QED
    BY <1>1, <1>2, <1>3, <2>1 DEF DeclaredFirst
<1>6. CASE UNCHANGED vars
  <2>1. UNCHANGED <<pc, imports>>
    BY <1>6 DEF vars, parsing
  <2>2. QED
    BY <1>1, <1>2, <1>3, <2>1 DEF DeclaredFirst
<1>7. CASE pc \notin {"preprocessed", "lines"} /\ ~UNCHANGED vars
  <2>1. pc' # "main" /\ (pc \in HasRead \cup {"exit"} => UNCHANGED imports)
    BY <1>7, PhaseStep
  <2>2. pc \in {"imports", "open"} => imports # <<>> \/ UNCHANGED imports
    <3>1. CASE left > 0 /\ pc \in {"imports", "open"}
      BY <3>1, CurrentInside
    <3>2. CASE ~(left > 0) /\ pc = "imports"
      <4>1. EndImports \/ UNCHANGED vars
        BY <3>2, PhaseStep DEF SkipKnownImport, MissImport, FindImport
      <4>2. QED
        BY <1>7, <4>1 DEF EndImports, parsing
    <3>3. QED
      BY <3>1, <3>2 DEF Consistent
  <2>3. pc \in HasRead \cup {"exit", "main", "imports", "open"}
    BY <1>7 DEF TypeOK, Locations, HasRead
  <2>4. imports' # <<>> => AllDeclared
    BY <2>1, <2>2, <2>3 DEF DeclaredFirst
  <2>5. QED
    BY <1>1, <1>2, <1>3, <2>1, <2>4 DEF DeclaredFirst
<1>8. QED
  BY <1>4, <1>5, <1>6, <1>7, PhaseStep

-----------------------------------------------------------------------------
(* Interfaces come with their generated classes.                           *)

LEMMA StubsStay ==
  ASSUME TypeOK, Consistent, NamesUnique, [Next]_vars, NEW name, HasStubs(NAMES, name)
  PROVE  HasStubs(NAMES', name)
  BY RegistryGrows DEF HasStubs

\* The first declaration gather_types sees is the first of the main document.
LEMMA MainGathered ==
  ASSUME TypeOK, Consistent, NamesUnique, GatherType, todo = Documents, mainDoc # <<>>,
         Whole(NAMES)
  PROVE  MainComesWhole'
<1> DEFINE item == mainDoc[1]
<1>1. Head(todo).items = mainDoc
  BY DEF Documents
<1>2. mainDoc \in Seq(Item) /\ Head(mainDoc) = item /\ item \in Item
  BY HeadTailProperties, EmptySeq DEF TypeOK
<1>3. /\ NAMES' = Gathered(NAMES, item) /\ UNCHANGED mainDoc
      /\ Redefines(NAMES, item) => err'
  BY <1>1, <1>2 DEF GatherType
<1>4. item.kind = "BINDER" /\ ~Redefines(NAMES, item)
        => HasStubs(NAMES', item.package \o item.name)
  BY <1>2, <1>3, GatheredBrings DEF TypeOK, NamesUnique, Unique
<1>5. QED
  BY <1>3, <1>4 DEF MainComesWhole

\* Once the main document is gathered, its interface has its classes.
LEMMA MainStaysWhole ==
  ASSUME TypeOK, Consistent, NamesUnique, [Next]_vars, MainComesWhole,
         UNCHANGED mainDoc, err => err'
  PROVE  MainComesWhole'
<1>1. mainDoc[1].kind = "BINDER" /\ HasStubs(NAMES, mainDoc[1].package \o mainDoc[1].name)
        => HasStubs(NAMES', mainDoc[1].package \o mainDoc[1].name)
  BY StubsStay
<1>2. QED
  BY <1>1 DEF MainComesWhole

LEMMA ComesWholePreserved ==
  ASSUME TypeOK, Consistent, NamesUnique, ComesWhole, [Next]_vars
  PROVE  ComesWhole'
<1>1. CASE ScanLine
  <2> DEFINE buf == Scanned(Head(lines))
             item == LineItem(buf.type, buf.fullname)
  <2>1. pc = "lines" /\ pc' \in {"lines", "preprocessed"}
    BY <1>1 DEF ScanLine
  <2>2. CASE buf.type \in DeclarationWords /\ NAMES' = Gathered(NAMES, item)
    <3>1. buf.fullname \in DottedName /\ buf.fullname # <<>>
      BY <1>1, <2>2, LineAtHand DEF ScanLine, DeclarationWords
    <3>2. item \in Item /\ item.kind # "RPC"
      BY <3>1, LineItemIsItem, LineItemName
    <3>3. Whole(NAMES)
      BY <2>1 DEF ComesWhole
    <3>4. Whole(NAMES')
      BY <2>2, <3>2, <3>3, GatheredBrings DEF TypeOK, NamesUnique, Unique
    <3>5. QED
      BY <2>1, <3>4 DEF ComesWhole
  <2>3. CASE UNCHANGED NAMES
    BY <2>1, <2>3 DEF ComesWhole
  <2>4. QED
    BY <1>1, <2>2, <2>3 DEF ScanLine
<1>2. CASE OpenPreprocessed \/ ClosePreprocessed \/ EndPreprocessed
  <2>1. /\ pc \in {"preprocessed", "lines"} /\ UNCHANGED NAMES
        /\ pc' \in {"preprocessed", "lines", "main", "exit"}
    BY <1>2 DEF OpenPreprocessed, ClosePreprocessed, EndPreprocessed, Exit
  <2>2. QED
    BY <2>1 DEF ComesWhole
<1>3. CASE \/ ParseMain \/ SkipKnownImport \/ MissImport \/ FindImport \/ ParseImport
           \/ LoseImport
  <2>1. /\ pc \in {"main", "imports", "open"} /\ UNCHANGED NAMES
        /\ pc' \in {"imports", "open"}
    BY <1>3
       DEF ParseMain, SkipKnownImport, MissImport, FindImport, ParseImport, LoseImport
  <2>2. QED
    BY <2>1 DEF ComesWhole
<1>4. CASE EndImports
  <2>1. /\ pc = "imports" /\ UNCHANGED <<NAMES, mainDoc>>
        /\ pc' = "exit" \/ (pc' = "filenames" /\ mainDoc # <<>>)
    BY <1>4 DEF EndImports, Exit
  <2>2. QED
    BY <2>1 DEF ComesWhole
<1>5. CASE CheckFilenames
  <2>1. /\ pc = "filenames" /\ pc' = "gather" /\ todo' = Documents
        /\ UNCHANGED <<NAMES, mainDoc, imports, opt>>
    BY <1>5 DEF CheckFilenames, inputs, parsing
  <2>2. Documents' = Documents
    BY <2>1 DEF Documents
  <2>3. QED
    BY <2>1, <2>2 DEF ComesWhole
<1>6. CASE GatherType
  <2>1. pc = "gather" /\ pc' = "gather" /\ UNCHANGED mainDoc /\ (err => err')
    BY <1>6 DEF GatherType
  <2>2. MainComesWhole'
    BY <1>6, <2>1, MainGathered, MainStaysWhole DEF ComesWhole
  <2>3. QED
    BY <2>1, <2>2 DEF ComesWhole
<1>7. CASE NextDocument \/ EndGather
  <2>1. /\ pc = "gather" /\ pc' \in {"gather", "check"} /\ UNCHANGED <<mainDoc, err>>
        /\ todo = <<>> \/ Head(todo).items = <<>>
    BY <1>7 DEF NextDocument, EndGather
  <2>2. mainDoc # <<>> => todo # Documents
    <3>1. Documents # <<>> /\ Head(Documents).items = mainDoc
      BY DEF Documents
    <3>2. QED
      BY <2>1, <3>1
  <2>3. MainComesWhole'
    BY <2>1, <2>2, MainStaysWhole DEF ComesWhole
  <2>4. QED
    BY <2>1, <2>3 DEF ComesWhole
<1>8. CASE \/ CheckInterface \/ CheckReturn \/ CheckArg \/ EndArgs \/ CheckMethodName
           \/ EndInterface
  <2>1. /\ pc \in {"check", "methods", "args", "name"} /\ UNCHANGED mainDoc
        /\ pc' \in {"check", "methods", "args", "name"}
    BY <1>8
       DEF CheckInterface, CheckReturn, CheckArg, EndArgs, CheckMethodName, EndInterface
  <2>2. err => err'
    BY <1>8, Zenon
       DEF CheckInterface, CheckReturn, CheckArg, EndArgs, CheckMethodName, EndInterface
  <2>3. MainComesWhole'
    BY <2>1, <2>2, MainStaysWhole DEF ComesWhole
  <2>4. QED
    BY <2>1, <2>3 DEF ComesWhole
<1>9. CASE EndChecks
  <2>1. /\ pc = "check" /\ UNCHANGED mainDoc /\ (err => err')
        /\ pc' = "exit" \/ (pc' = "output" /\ ~err')
    BY <1>9 DEF EndChecks, Exit
  <2>2. MainComesWhole'
    BY <2>1, MainStaysWhole DEF ComesWhole
  <2>3. QED
    BY <2>1, <2>2 DEF ComesWhole
<1>10. CASE NameOutput \/ WriteDep \/ GenerateHeader \/ GenerateImplementation
  <2>1. /\ pc \in {"output", "dep", "header", "implementation"} /\ UNCHANGED <<mainDoc, err>>
        /\ pc' \in {"dep", "header", "implementation", "exit"}
    BY <1>10 DEF NameOutput, WriteDep, GenerateHeader, GenerateImplementation, Exit
  <2>2. MainComesWhole'
    BY <2>1, MainStaysWhole DEF ComesWhole
  <2>3. QED
    BY <2>1, <2>2 DEF ComesWhole
<1>11. CASE UNCHANGED vars
  <2>1. UNCHANGED <<pc, NAMES, mainDoc, todo, err, imports, opt>>
    BY <1>11 DEF vars, parsing, inputs
  <2>2. QED
    BY <2>1 DEF ComesWhole, MainComesWhole, Documents
<1>12. QED
  BY <1>1, <1>2, <1>3, <1>4, <1>5, <1>6, <1>7, <1>8, <1>9, <1>10, <1>11, Zenon DEF Next

-----------------------------------------------------------------------------
(* The imports that are read.                                              *)

\* What needs no file is in the registry when the imports are walked.
LEMMA KnownDeclared ==
  ASSUME TypeOK, Whole(NAMES), AllDeclared, NEW class \in KnownWithoutImport
  PROVE  Declares(NAMES, Plain(class))
<1>1. CASE class \in {t.package \o t.name : t \in ToSet(BaseTypes)} \cup {l.fullname : l \in DeclaredLines}
  BY <1>1 DEF AllDeclared
<1>2. ASSUME NEW name \in DeclaredInterfaces,
             NEW suffix \in {<<"Stub">>, <<"Stub", "Proxy">>}
      PROVE  Declares(NAMES, Plain(name \o suffix))
  <2> DEFINE i == Find(NAMES, Plain(name))
  <2>1. Declares(NAMES, Plain(name)) /\ NAMES[i].kind = "INTERFACE"
    BY DEF DeclaredInterfaces, IsInterfaceName
  <2>2. i \in DOMAIN NAMES /\ QualifiedName(NAMES[i]) = Plain(name)
    BY <2>1, FindIsDeclared DEF TypeOK
  <2>3. NAMES[i].package \o NAMES[i].name = name
    BY <2>2 DEF QualifiedName, Plain
  <2>4. HasStubs(NAMES, name)
    BY <2>1, <2>2, <2>3 DEF Whole
  <2>5. QED
    BY <2>4 DEF HasStubs
<1>3. QED
  BY <1>1, <1>2 DEF KnownWithoutImport

\* What needs a file when the imports are walked is not known later either.
LEMMA KnownStays ==
  ASSUME TypeOK, Consistent, NamesUnique, AllDeclared, [Next]_vars
  PROVE  KnownWithoutImport' \subseteq KnownWithoutImport
<1>1. UNCHANGED DeclaredLines
  BY PhaseStep DEF DeclaredLines
<1>2. ASSUME NEW l \in DeclaredLines, IsInterfaceName(l.fullname)'
      PROVE  IsInterfaceName(l.fullname)
  <2> DEFINE q == Plain(l.fullname)
  <2>1. Declares(NAMES, q)
    BY DEF AllDeclared
  <2>2. NAMES'[Find(NAMES', q)] = NAMES[Find(NAMES, q)]
    BY <2>1, RegistryGrows, FindStays
  <2>3. QED
    BY <1>2, <2>1, <2>2 DEF IsInterfaceName
<1>3. DeclaredInterfaces' \subseteq DeclaredInterfaces
  BY <1>1, <1>2 DEF DeclaredInterfaces
<1>4. QED
  BY <1>1, <1>3 DEF KnownWithoutImport

LEMMA OnlyNeededPreserved ==
  ASSUME TypeOK, Consistent, NamesUnique, ImportsAhead, DeclaredFirst, ComesWhole,
         ParsesOnlyNeeded, [Next]_vars
  PROVE  ParsesOnlyNeeded'
<1>a. UNCHANGED <<opt, disk>>
  BY PhaseStep
<1>b. imports # <<>> => KnownWithoutImport' \subseteq KnownWithoutImport
  BY KnownStays DEF DeclaredFirst
<1>c. \A k \in DOMAIN imports : imports # <<>>
  BY DEF TypeOK
<1>1. CASE UNCHANGED imports
  BY <1>a, <1>b, <1>c, <1>1 DEF ParsesOnlyNeeded
<1>2. CASE ParseMain
  <2> DEFINE classes == disk.aidl[opt.input][lex].imports
  <2>1. CASE opt.input \in DOMAIN disk.aidl /\ imports' = NewImports(opt.input, classes)
    <3>1. opt.input \in DottedName
      BY InputsAssumption DEF TypeOK, Invocation, SimpleName
    <3>2. classes \in Seq(DottedName)
      BY <2>1, OutcomeFromDisk DEF TypeOK, Outcome
    <3>3. \A k \in DOMAIN imports' : imports'[k].filename = <<>>
      BY <2>1, <3>1, <3>2, MainImportsNew
    <3>4. QED
      BY <3>3 DEF ParsesOnlyNeeded
  <2>2. QED
    BY <1>1, <1>2, <2>1 DEF ParseMain
<1>3. CASE FindImport
  <2> DEFINE class == imports[Current].neededClass
  <2>1. pc = "imports" /\ left > 0 /\ ~Declares(NAMES, Plain(class))
    BY <1>3 DEF FindImport, NeedsParsing
  <2>2. imports[Current] \in ImportInfo /\ Current \in DOMAIN imports /\ Current \in Nat
    BY <2>1, CurrentInside
  <2>3. AllDeclared /\ Whole(NAMES)
    BY <1>c, <2>1, <2>2 DEF DeclaredFirst, ComesWhole
  <2>4. class \notin KnownWithoutImport
    BY <2>1, <2>3, KnownDeclared
  <2>5. imports[Current].from = opt.input
    BY <2>1, <2>2 DEF ImportsAhead
  <2>6. /\ DOMAIN imports' = DOMAIN imports
        /\ imports'[Current].from = opt.input /\ imports'[Current].neededClass = class
        /\ \A k \in DOMAIN imports \ {Current} : imports'[k] = imports[k]
    BY <1>3, <2>2, <2>5, FindImportSets DEF ImportInfo
  <2>7. KnownWithoutImport' \subseteq KnownWithoutImport
    BY <1>b, <1>c, <2>2
  <2>8. ASSUME NEW k \in DOMAIN imports', imports'[k].filename # <<>>
        PROVE  imports'[k].from = opt.input /\ imports'[k].neededClass \notin KnownWithoutImport
    BY <2>4, <2>6, <2>8 DEF ParsesOnlyNeeded
  <2>9. QED
    BY <1>a, <2>7, <2>8 DEF ParsesOnlyNeeded
<1>4. CASE ParseImport
  <2>1. pc = "open" /\ left > 0
    BY <1>4 DEF ParseImport, Consistent
  <2>2. /\ imports[Current] \in ImportInfo /\ Current \in 1..Len(imports)
        /\ DOMAIN imports = 1..Len(imports) /\ Len(imports) \in Nat
    BY <2>1, CurrentInside, Zenon
  <2>3. PICK n \in Nat :
          /\ DOMAIN imports' = 1..(n + Len(imports))
          /\ \A k \in 1..n : imports'[k].filename = <<>>
          /\ imports'[n + Current] = [imports[Current] EXCEPT !.doc = document']
          /\ \A k \in DOMAIN imports \ {Current} : imports'[n + k] = imports[k]
    BY <1>4, ParseImportSets
  <2>4. ASSUME NEW k \in DOMAIN imports', imports'[k].filename # <<>>
        PROVE  \E j \in DOMAIN imports :
                 /\ imports'[k].filename = imports[j].filename
                 /\ imports'[k].from = imports[j].from
                 /\ imports'[k].neededClass = imports[j].neededClass
    <3>1. k - n \in DOMAIN imports /\ n + (k - n) = k
      BY <2>2, <2>3, <2>4
    <3>2. CASE k - n = Current
      BY <2>2, <2>3, <3>1, <3>2 DEF ImportInfo
    <3>3. CASE k - n # Current
      BY <2>3, <3>1, <3>3
    <3>4. QED
      BY <3>2, <3>3
  <2>5. KnownWithoutImport' \subseteq KnownWithoutImport
    BY <1>b, <1>c, <2>2
  <2>6. QED
    BY <1>a, <2>4, <2>5 DEF ParsesOnlyNeeded
<1>5. CASE LoseImport
  <2>1. /\ pc = "open" /\ left > 0
        /\ imports' = [imports EXCEPT ![Current] = [imports[Current] EXCEPT !.doc = document]]
    BY <1>5 DEF LoseImport, Consistent
  <2>2. imports[Current] \in ImportInfo /\ Current \in DOMAIN imports
    BY <2>1, CurrentInside
  <2>3. /\ DOMAIN imports' = DOMAIN imports
        /\ \A k \in DOMAIN imports :
             /\ imports'[k].filename = imports[k].filename
             /\ imports'[k].from = imports[k].from
             /\ imports'[k].neededClass = imports[k].neededClass
    BY <2>1, <2>2 DEF ImportInfo
  <2>4. KnownWithoutImport' \subseteq KnownWithoutImport
    BY <1>b, <1>c, <2>2
  <2>5. QED
    BY <1>a, <2>3, <2>4 DEF ParsesOnlyNeeded
<1>6. ParseMain \/ FindImport \/ ParseImport \/ LoseImport \/ UNCHANGED imports
  BY Zenon
     DEF Next, OpenPreprocessed, ScanLine, ClosePreprocessed, EndPreprocessed,
         SkipKnownImport, MissImport, EndImports, CheckFilenames, GatherType,
         NextDocument, EndGather, CheckInterface, CheckReturn, CheckArg, EndArgs,
         CheckMethodName, EndInterface, EndChecks, NameOutput, WriteDep,
         GenerateHeader, GenerateImplementation, vars, parsing
<1>7. QED
  BY <1>1, <1>2, <1>3, <1>4, <1>5, <1>6

-----------------------------------------------------------------------------
\* The declarations known at the start.
LEMMA ContractInvInitially == Init => ContractInv
<1> SUFFICES ASSUME Init PROVE ContractInv
  OBVIOUS
<1>1. /\ NAMES = BaseTypes /\ pc = "preprocessed" /\ imports = <<>>
      /\ left = Len(opt.preprocessed) /\ opt \in Invocation
  BY InputsAssumption DEF Init, Invocations
<1>2. Len(opt.preprocessed) \in Nat
  BY <1>1, LenProperties DEF Invocation
<1>3. LinesDeclared
  BY <1>1, <1>2 DEF LinesDeclared
<1>4. DeclaredFirst
  BY <1>1, <1>3, BaseTypesDeclared DEF DeclaredFirst
<1>5. ComesWhole
  BY <1>1, BaseTypesAssumption DEF ComesWhole, Whole
<1>6. QED
  BY <1>1, <1>4, <1>5 DEF ContractInv, ParsesOnlyNeeded

LEMMA ContractInvHolds == Spec => [](TypeOK /\ Consistent /\ ContractInv)
<1>1. /\ TypeOK /\ Consistent /\ ImportsInv /\ NamesUnique /\ ContractInv /\ [Next]_vars
      => ContractInv'
  BY DeclaredFirstPreserved, ComesWholePreserved, OnlyNeededPreserved
     DEF ContractInv, ImportsInv
<1>2. QED
  BY <1>1, ContractInvInitially, ImportsInvHolds, NamesStayUnique, PTL DEF Spec

-----------------------------------------------------------------------------
\* Only files of classes that the main file imports and that no base type, no
\* preprocessed declaration and no class generated with one has are opened:
\* what the imports import is recorded in the same list and never followed.
THEOREM OnlyNeededParsed == Spec => []ParsesOnlyNeeded
<1>1. ContractInv => ParsesOnlyNeeded
  BY DEF ContractInv
<1>2. QED
  BY <1>1, ContractInvHolds, PTL

\* When the outputs are written, the registry has the Stub and the Proxy of the
\* interface that is compiled, whichever declaration was the first to have its name.
THEOREM StubsAreRegistered == Spec => []StubsRegistered
<1>1. TypeOK /\ Consistent /\ ContractInv => StubsRegistered
  <2> SUFFICES ASSUME TypeOK, Consistent, ContractInv,
                      pc \in {"output", "dep", "header", "implementation"},
                      NEW i \in DOMAIN mainDoc, mainDoc[i].kind = "BINDER"
               PROVE  HasStubs(NAMES, mainDoc[i].package \o mainDoc[i].name)
    BY DEF StubsRegistered, HasStubs
  <2>1. i = 1 /\ Len(mainDoc) = 1
    BY DEF Consistent, TypeOK
  <2>2. QED
    BY <2>1 DEF ContractInv, ComesWhole, MainComesWhole
<1>2. QED
  BY <1>1, ContractInvHolds, PTL

-----------------------------------------------------------------------------
(* How err keeps up with what the contract says of the files.              *)

\* No line of a preprocessed file is empty: EmptyLinesSkipped says what becomes
\* of those.
NoEmptyLines ==
  \A d \in Disks : \A f \in DOMAIN d.preprocessed : \A i \in DOMAIN d.preprocessed[f] :
    d.preprocessed[f][i].comment \/ d.preprocessed[f][i].type # "none"

LineValid(l) == l.comment \/ l.type \in DeclarationWords

\* While the -p files are read, err says that one of them is missing, that a
\* line behind is none or that one could not be read to its end; when it is not
\* set, the bad lines are all ahead.
LinesJudged ==
  /\ pc = "lines" =>
       \E f \in ToSet(opt.preprocessed) \cap DOMAIN disk.preprocessed :
         ToSet(lines) \subseteq ToSet(disk.preprocessed[f])
  /\ pc \in {"preprocessed", "lines"} =>
       /\ err => ~PreprocessedValid \/ fault
       /\ \A f \in 1..(Len(opt.preprocessed) - left) :
            \/ err
            \/ /\ opt.preprocessed[f] \in DOMAIN disk.preprocessed
               /\ \A l \in ToSet(disk.preprocessed[opt.preprocessed[f]]) :
                    LineValid(l) \/ (pc = "lines" /\ l \in ToSet(lines))
  /\ pc \notin {"preprocessed", "lines", "exit"} => PreprocessedValid

\* While files are read, the registry has no name that is not known.
NothingElseKnown ==
  pc \in {"preprocessed", "lines", "main", "imports", "open"} =>
    \A t \in ToSet(NAMES) : t.args = <<>> /\ t.package \o t.name \in KnownWithoutImport

\* The main file is the first to be parsed.
MainRead == [file |-> opt.input, lex |-> "INITIAL"]
MainOutcome == disk.aidl[opt.input]["INITIAL"]

MainTaken ==
  /\ pc \in {"preprocessed", "lines", "main"} =>
       lex = "INITIAL" /\ opened = {} /\ mainDoc = <<>>
  /\ pc \in {"imports", "open"} \cup HasRead =>
       IF opt.input \in DOMAIN disk.aidl
         THEN /\ MainRead \in opened
              /\ mainDoc = IF MainOutcome.called THEN MainOutcome.items ELSE <<>>
         ELSE pc \in {"imports", "open"} /\ err /\ mainDoc = <<>>
  /\ \A o \in opened : o.file # <<>> /\ o.file \in DOMAIN disk.aidl
  /\ pc = "open" => imports[Current].filename # <<>>

ReadCleanly(o) == ~Seen(o).err /\ Seen(o).called /\ Seen(o).items # <<>>

\* The classes that the main file imports and that need a file.
Needed == ToSet(MainOutcome.imports) \ KnownWithoutImport

\* What err says while the imports are walked.
ImportsWrong ==
  \/ fault
  \/ opt.input \notin DOMAIN disk.aidl
  \/ \E o \in opened : ~ReadCleanly(o)
  \/ \E class \in Needed : FindImportFile(class) = <<>>

\* What is so as long as it is not set.
ImportsRight ==
  /\ \A o \in opened : ~Seen(o).err /\ (o # MainRead => Seen(o).items # <<>>)
  /\ \A class \in Needed :
       \/ FindImportFile(class) \in FilesRead
       \/ \E k \in DOMAIN imports : k >= Current /\ imports[k].neededClass = class

ImportsJudged ==
  pc \in {"imports", "open"} =>
    /\ IF err THEN ImportsWrong ELSE ImportsRight
    /\ opt.input \in DOMAIN disk.aidl =>
         \A k \in DOMAIN imports :
           k >= Current => imports[k].neededClass \in ToSet(MainOutcome.imports)
    /\ pc = "open" =>
         imports[Current].filename = FindImportFile(imports[Current].neededClass)

\* Every file that was read has left its document, and only those have.
DocumentsComplete ==
  ReadingWell =>
    /\ \A k \in DOMAIN imports : imports[k].filename = <<>> => imports[k].doc = <<>>
    /\ \A o \in opened \ {MainRead} :
         \E k \in DOMAIN imports :
           /\ pc \in {"imports", "open"} => k < Current
           /\ imports[k].filename = o.file /\ imports[k].doc = Seen(o).items

\* When every file is read, the part of the contract about reading is decided.
ReadWell == pc \in HasRead => PreprocessedValid /\ ParsesCleanly /\ ImportsResolved

\* The registry has the name of the declaration, as that of a type of its kind
\* or of another.
Fits(item) ==
  LET q == QualifiedName(DeclaredType(item))
  IN  Declares(NAMES, q) /\ NAMES[Find(NAMES, q)].kind = DeclaredType(item).kind
Clashes(item) ==
  LET q == QualifiedName(DeclaredType(item))
  IN  Declares(NAMES, q) /\ NAMES[Find(NAMES, q)].kind # DeclaredType(item).kind

Ahead(item) == \E n \in DOMAIN todo : item \in ToSet(todo[n].items)

\* A declaration has the wrong file or a name that is taken.
DeclarationsWrong == ~FilesNamedRight \/ \E d \in DeclaredItems : Clashes(d.item)

\* While the documents are visited, err says that a declaration is wrong; when
\* it is not set, every declaration is in the registry or still ahead.
GatherJudged ==
  /\ pc = "filenames" => ~err
  /\ pc = "gather" =>
       /\ \A n \in DOMAIN todo : \A item \in ToSet(todo[n].items) :
            \E d \in DeclaredItems : d.item = item
       /\ IF err THEN DeclarationsWrong
                 ELSE /\ FilesNamedRight
                      /\ \A d \in DeclaredItems : Fits(d.item) \/ Ahead(d.item)

\* The declaration check_types is at, or the last it was at, and its method.
ItemAt == Len(mainDoc) - Len(pending)
MethodAt == Len(mainDoc[ItemAt].methods) - Len(methods) + 1

\* check_types goes through the declarations, their methods and the arguments
\* in order.
InOrder ==
  /\ pc \in Checking =>
       /\ Len(pending) <= Len(mainDoc)
       /\ \A p \in DOMAIN pending : pending[p] = mainDoc[ItemAt + p]
  /\ pc \in {"methods", "args", "name"} =>
       /\ ItemAt \in DOMAIN mainDoc /\ itemType = mainDoc[ItemAt].kind
       /\ Len(methods) <= Len(mainDoc[ItemAt].methods)
       /\ \A p \in DOMAIN methods : methods[p] = mainDoc[ItemAt].methods[MethodAt - 1 + p]
       /\ methodNames = {mainDoc[ItemAt].methods[j].name : j \in 1..(MethodAt - 1)}
  /\ pc = "args" =>
       /\ ToSet(args) \subseteq ToSet(Head(methods).args)
       /\ Search(NAMES, Head(methods).type.ref) # 0
       /\ event = IsEvent(Meaning(NAMES, Head(methods).type.ref))

\* The methods 1..n of an item are valid, and have different names.
ValidUpTo(item, n) ==
  /\ \A j, k \in 1..n : item.methods[j].name = item.methods[k].name => j = k
  /\ \A j \in 1..n : TypesValid(item.kind, item.methods[j])

\* The declarations are right, and the methods behind are valid.
BehindValid ==
  /\ FilesNamedRight /\ \A d \in DeclaredItems : Fits(d.item)
  /\ \A i \in 1..(IF pc = "check" THEN ItemAt ELSE ItemAt - 1) :
       ValidUpTo(mainDoc[i], Len(mainDoc[i].methods))
  /\ pc # "check" => ValidUpTo(mainDoc[ItemAt], MethodAt - 1)
  /\ pc \in {"args", "name"} =>
       /\ ReturnValid(itemType, Head(methods).type)
       /\ \A a \in ToSet(Head(methods).args) :
            ArgValid(itemType, Head(methods), a) \/ (pc = "args" /\ a \in ToSet(args))

\* While methods are checked, err says that a declaration or a method is wrong.
ChecksJudged ==
  pc \in Checking => IF err THEN DeclarationsWrong \/ ~MethodsValid ELSE BehindValid

DepAsked == opt.autoDepFile \/ opt.depFileName # <<>>

\* What has been written, and under which name.
OutputInv ==
  /\ result = "running" <=> pc # "exit"
  /\ pc \notin {"header", "implementation", "exit"} => dep = {}
  /\ pc \notin {"implementation", "exit"} => generated = {}
  /\ pc \notin {"dep", "header", "implementation", "exit"} => outputFileName = opt.output
  /\ pc \in {"dep", "header", "implementation"} =>
       IF opt.output # <<>> THEN outputFileName = opt.output
       ELSE mainDoc[1].package # <<>> /\ Len(outputFileName) > 2
  /\ pc \in {"header", "implementation"} =>
       /\ ~OnlyParcelable
       /\ DepAsked => dep # {} \/ fault
       /\ dep # {} => DepAsked
  /\ pc = "implementation" => ~Unsupported /\ generated = {GeneratedFile(".h")}

PromiseInv ==
  /\ LinesJudged /\ NothingElseKnown /\ MainTaken /\ ImportsJudged /\ DocumentsComplete
  /\ ReadWell /\ GatherJudged /\ InOrder /\ ChecksJudged /\ OutputInv

-----------------------------------------------------------------------------
(* Reading the -p files.                                                   *)

\* The line at hand is one of an open file and says something, and the others
\* are still ahead.
LEMMA LineTold ==
  ASSUME NoEmptyLines, TypeOK, Consistent, LinesJudged, pc = "lines", lines # <<>>
  PROVE  LET line == Head(lines)
         IN  /\ line \in ToSet(lines) /\ ToSet(Tail(lines)) \subseteq ToSet(lines)
             /\ \A l \in ToSet(lines) : l = line \/ l \in ToSet(Tail(lines))
             /\ \E f \in ToSet(opt.preprocessed) \cap DOMAIN disk.preprocessed :
                  line \in ToSet(disk.preprocessed[f])
             /\ ~line.comment => Scanned(line) = [type |-> line.type, fullname |-> line.fullname]
<1> DEFINE line == Head(lines)
<1>1. lines \in Seq(Line) /\ Len(lines) \in Nat /\ DOMAIN lines = 1..Len(lines)
  BY LenProperties DEF TypeOK
<1>2. /\ line = lines[1] /\ 1 \in DOMAIN lines /\ DOMAIN Tail(lines) = 1..(Len(lines) - 1)
      /\ \A i \in DOMAIN Tail(lines) : i + 1 \in DOMAIN lines /\ Tail(lines)[i] = lines[i + 1]
  BY <1>1
<1>3. line \in ToSet(lines) /\ ToSet(Tail(lines)) \subseteq ToSet(lines)
  BY <1>1, <1>2 DEF ToSet
<1>4. ASSUME NEW l \in ToSet(lines), l # line
      PROVE  l \in ToSet(Tail(lines))
  <2>1. PICK i \in 1..Len(lines) : l = lines[i]
    BY <1>1 DEF ToSet
  <2>2. i - 1 \in DOMAIN Tail(lines) /\ Tail(lines)[i - 1] = lines[i]
    BY <1>1, <1>2, <1>4, <2>1
  <2>3. QED
    BY <2>1, <2>2 DEF ToSet
<1>5. PICK f \in ToSet(opt.preprocessed) \cap DOMAIN disk.preprocessed :
        ToSet(lines) \subseteq ToSet(disk.preprocessed[f])
  BY DEF LinesJudged
<1>6. line.comment \/ line.type # "none"
  <2>1. PICK i \in DOMAIN disk.preprocessed[f] : line = disk.preprocessed[f][i]
    BY <1>3, <1>5 DEF ToSet
  <2>2. QED
    BY <2>1 DEF NoEmptyLines, TypeOK
<1>7. ~line.comment => line.fullname # <<>>
  BY <1>2, <1>6 DEF Consistent
<1>8. ~line.comment => Scanned(line) = [type |-> line.type, fullname |-> line.fullname]
  BY <1>6, <1>7 DEF Scanned
<1>9. QED
  BY <1>3, <1>4, <1>5, <1>8

LEMMA LinesJudgedPreserved ==
  ASSUME NoEmptyLines, TypeOK, Consistent, LinesDeclared, LinesJudged, [Next]_vars
  PROVE  LinesJudged'
<1> DEFINE n == Len(opt.preprocessed)
           file == opt.preprocessed[n - left + 1]
<1>a. /\ left \in Nat /\ n \in Nat /\ UNCHANGED <<opt, disk>>
      /\ opt.preprocessed \in Seq(Ident) /\ DOMAIN opt.preprocessed = 1..n
  BY InputsAssumption, LenProperties, PhaseStep DEF TypeOK, Invocation
<1>b. PreprocessedValid' = PreprocessedValid
  BY <1>a DEF PreprocessedValid
<1>c. pc \in {"preprocessed", "lines"} => left <= n
  BY DEF LinesDeclared
<1>1. CASE OpenPreprocessed
  <2>1. /\ pc = "preprocessed" /\ left > 0 /\ left' = left - 1 /\ n - left + 1 \in 1..n
        /\ n - left' = n - left + 1 /\ (err => err') /\ file \in ToSet(opt.preprocessed)
    BY <1>1, <1>a, <1>c DEF OpenPreprocessed, ToSet
  <2>2. ASSUME NEW f \in 1..(n - left'), f # n - left'
        PROVE  \/ err
               \/ /\ opt.preprocessed[f] \in DOMAIN disk.preprocessed
                  /\ \A l \in ToSet(disk.preprocessed[opt.preprocessed[f]]) : LineValid(l)
    <3>1. f \in 1..(n - left)
      BY <1>a, <2>1, <2>2
    <3>2. QED
      BY <2>1, <3>1 DEF LinesJudged
  <2>3. CASE file \in DOMAIN disk.preprocessed
    <3>1. pc' = "lines" /\ lines' = disk.preprocessed[file] /\ UNCHANGED <<err, fault>>
      BY <1>1, <2>3 DEF OpenPreprocessed
    <3>2. err' => ~PreprocessedValid' \/ fault'
      BY <1>b, <2>1, <3>1 DEF LinesJudged
    <3>3. \E f \in ToSet(opt.preprocessed) \cap DOMAIN disk.preprocessed :
            ToSet(lines') \subseteq ToSet(disk.preprocessed[f])
      BY <2>1, <2>3, <3>1
    <3>4. QED
      BY <1>a, <2>1, <2>2, <2>3, <3>1, <3>2, <3>3 DEF LinesJudged
  <2>4. CASE file \notin DOMAIN disk.preprocessed
    <3>1. pc' = "preprocessed" /\ err' = TRUE
      BY <1>1, <2>1, <2>4 DEF OpenPreprocessed
    <3>2. ~PreprocessedValid
      BY <2>1, <2>4 DEF PreprocessedValid
    <3>3. QED
      BY <1>b, <3>1, <3>2 DEF LinesJudged
  <2>5. QED
    BY <2>3, <2>4
<1>2. CASE ScanLine
  <2> DEFINE line == Head(lines)
  <2>1. pc = "lines" /\ lines # <<>> /\ UNCHANGED <<left, fault>>
    BY <1>2 DEF ScanLine
  <2>2. /\ line \in ToSet(lines) /\ ToSet(Tail(lines)) \subseteq ToSet(lines)
        /\ \A l \in ToSet(lines) : l = line \/ l \in ToSet(Tail(lines))
        /\ \E f \in ToSet(opt.preprocessed) \cap DOMAIN disk.preprocessed :
             line \in ToSet(disk.preprocessed[f])
        /\ ~line.comment => Scanned(line).type = line.type
    BY <2>1, LineTold
  <2>3. CASE lines' = Tail(lines) /\ pc' = pc /\ err' = err /\ LineValid(line)
    <3>1. ASSUME NEW f \in 1..(n - left), ~err
          PROVE  /\ opt.preprocessed[f] \in DOMAIN disk.preprocessed
                 /\ \A l \in ToSet(disk.preprocessed[opt.preprocessed[f]]) :
                      LineValid(l) \/ l \in ToSet(lines')
      BY <2>1, <2>2, <2>3, <3>1 DEF LinesJudged
    <3>2. \E f \in ToSet(opt.preprocessed) \cap DOMAIN disk.preprocessed :
            ToSet(lines') \subseteq ToSet(disk.preprocessed[f])
      BY <2>1, <2>2, <2>3 DEF LinesJudged
    <3>3. err' => ~PreprocessedValid' \/ fault'
      BY <1>b, <2>1, <2>3 DEF LinesJudged
    <3>4. QED
      BY <1>a, <2>1, <2>3, <3>1, <3>2, <3>3 DEF LinesJudged
  <2>4. CASE ~line.comment /\ line.type \notin DeclarationWords /\ err' = TRUE /\ pc' = "preprocessed"
    <3>1. ~PreprocessedValid
      BY <2>2, <2>4 DEF PreprocessedValid
    <3>2. QED
      BY <1>b, <2>4, <3>1 DEF LinesJudged
  <2>5. QED
    BY <1>2, <2>2, <2>3, <2>4 DEF ScanLine, LineValid
<1>3. CASE ClosePreprocessed
  <2>1. pc = "lines" /\ pc' = "preprocessed" /\ left' = left
    BY <1>3 DEF ClosePreprocessed
  <2>2. CASE lines = <<>> /\ UNCHANGED <<lines, err, fault>>
    <3>1. ToSet(lines) = {}
      BY <2>2 DEF ToSet
    <3>2. QED
      BY <1>a, <1>b, <2>1, <2>2, <3>1 DEF LinesJudged
  <2>3. CASE err' = TRUE /\ fault' = TRUE
    BY <1>a, <2>1, <2>3 DEF LinesJudged
  <2>4. QED
    BY <1>3, <2>2, <2>3 DEF ClosePreprocessed
<1>4. CASE EndPreprocessed
  <2>1. pc = "preprocessed" /\ left = 0 /\ (pc' = "exit" \/ (pc' = "main" /\ ~err))
    BY <1>4 DEF EndPreprocessed, Exit
  <2>2. ~err => PreprocessedValid
    <3>1. SUFFICES ASSUME ~err, NEW f \in 1..n
                   PROVE  /\ opt.preprocessed[f] \in DOMAIN disk.preprocessed
                          /\ \A l \in ToSet(disk.preprocessed[opt.preprocessed[f]]) : LineValid(l)
      BY <1>a DEF PreprocessedValid, ToSet, LineValid
    <3>2. f \in 1..(n - left)
      BY <1>a, <2>1
    <3>3. QED
      BY <2>1, <3>1, <3>2 DEF LinesJudged
  <2>3. QED
    BY <1>b, <2>1, <2>2 DEF LinesJudged
<1>5. CASE UNCHANGED vars
  <2>1. UNCHANGED <<pc, left, lines, err, fault>>
    BY <1>5 DEF vars, preprocessing
  <2>2. QED
    BY <1>a, <1>b, <2>1 DEF LinesJudged
<1>6. CASE pc \notin {"preprocessed", "lines"}
  <2>1. pc' \notin {"preprocessed", "lines"} /\ (pc = "exit" => pc' = "exit")
    BY <1>6, PhaseStep DEF vars
  <2>2. QED
    BY <1>b, <1>6, <2>1 DEF LinesJudged
<1>7. QED
  BY <1>1, <1>2, <1>3, <1>4, <1>5, <1>6, PhaseStep

\* The kind that a declaration's name has in the registry says whether it was
\* refused.
LEMMA GatheredKind ==
  ASSUME NEW ns \in Seq(Type), Unique(ns), NEW item \in Item
  PROVE  LET q == QualifiedName(DeclaredType(item))
             more == Gathered(ns, item)
         IN  /\ Declares(more, q)
             /\ more[Find(more, q)].kind = DeclaredType(item).kind <=> ~Redefines(ns, item)
<1> DEFINE q == QualifiedName(DeclaredType(item))
           k == DeclaredType(item).kind
           more == Gathered(ns, item)
           declared == Add(ns, DeclaredType(item))
           stub == GeneratedType(item, <<"Stub">>)
           proxy == GeneratedType(item, <<"Stub", "Proxy">>)
           base == GeneratedType(item, <<"ServiceBase">>)
<1>1. /\ DeclaredType(item) \in Type /\ stub \in Type /\ proxy \in Type /\ base \in Type
      /\ k \in Kinds \ {"BUILT_IN"}
  BY DeclaredIsType DEF DeclaredType, Kinds
<1>2. more \in Seq(Type) /\ Unique(more) /\ Extends(ns, more)
  BY GatheredPreserves
<1>3. CASE Declares(ns, q)
  <2>1. /\ Declares(more, q) /\ more[Find(more, q)] = ns[Find(ns, q)]
        /\ Find(ns, q) \in DOMAIN ns
    BY <1>2, <1>3, FindStays, FindIsDeclared
  <2>2. ns[Find(ns, q)].kind \in Kinds
    <3>1. ns[Find(ns, q)] \in Type
      BY <2>1
    <3>2. QED
      BY <3>1 DEF Type
  <2>3. QED
    BY <1>1, <1>3, <2>1, <2>2 DEF Redefines, Kinds
<1>4. CASE ~Declares(ns, q)
  <2>1. declared \in Seq(Type) /\ Declares(declared, q) /\ Unique(declared)
    BY <1>1, AddPreserves
  <2>2. Extends(declared, more)
    <3>1. Add(declared, stub) \in Seq(Type)
      BY <1>1, <2>1, AddPreserves
    <3>2. /\ Extends(declared, declared)
          /\ Extends(declared, Add(declared, stub))
          /\ Extends(declared, Add(declared, base))
          /\ Extends(Add(declared, stub), Add(Add(declared, stub), proxy))
      BY <1>1, <2>1, <3>1, AddExtends DEF Extends
    <3>3. Extends(declared, Add(Add(declared, stub), proxy))
      BY <3>2 DEF Extends
    <3>4. more \in {declared, Add(declared, base), Add(Add(declared, stub), proxy)}
      BY <1>4 DEF Gathered, Item
    <3>5. QED
      BY <3>2, <3>3, <3>4
  <2>3. Declares(more, q) /\ more[Find(more, q)] = declared[Find(declared, q)]
    BY <1>2, <2>1, <2>2, FindStays
  <2>4. declared[Find(declared, q)] = DeclaredType(item)
    <3>1. Find(declared, q) \in DOMAIN declared /\ QualifiedName(declared[Find(declared, q)]) = q
      BY <2>1, FindIsDeclared
    <3>2. Find(declared, q) \notin DOMAIN ns
      BY <1>1, <1>4, <3>1, AddExtends DEF Extends, Declares
    <3>3. QED
      BY <1>1, <3>1, <3>2, AddExtends
  <2>5. QED
    BY <1>4, <2>3, <2>4 DEF Redefines
<1>5. QED
  BY <1>3, <1>4

\* A declaration brings its own type and, if it is the first of its name, the
\* generated ones.
LEMMA GatheredTypes ==
  ASSUME NEW ns \in Seq(Type), NEW item \in Item, item.kind # "RPC",
         NEW t \in ToSet(Gathered(ns, item))
  PROVE  \/ t \in ToSet(ns)
         \/ t = DeclaredType(item)
         \/ /\ item.kind = "BINDER" /\ ~Declares(ns, QualifiedName(DeclaredType(item)))
            /\ t \in {GeneratedType(item, <<"Stub">>), GeneratedType(item, <<"Stub", "Proxy">>)}
<1> DEFINE q == QualifiedName(DeclaredType(item))
           declared == Add(ns, DeclaredType(item))
           stub == GeneratedType(item, <<"Stub">>)
           proxy == GeneratedType(item, <<"Stub", "Proxy">>)
<1>1. DeclaredType(item) \in Type /\ stub \in Type /\ proxy \in Type
  BY DeclaredIsType
<1>2. declared \in Seq(Type) /\ Add(declared, stub) \in Seq(Type)
  BY <1>1, AddPreserves
<1>3. ASSUME NEW some \in Seq(Type), NEW new \in Type, NEW u \in ToSet(Add(some, new))
      PROVE  u \in ToSet(some) \/ u = new
  <2>1. PICK i \in DOMAIN Add(some, new) : u = Add(some, new)[i]
    BY <1>3 DEF ToSet
  <2>2. i \in DOMAIN some => Add(some, new)[i] = some[i]
    BY <1>3, AddExtends DEF Extends
  <2>3. i \in DOMAIN some \/ Add(some, new)[i] = new
    BY <1>3, <2>1, AddExtends
  <2>4. QED
    BY <2>1, <2>2, <2>3 DEF ToSet
<1>4. CASE Declares(ns, q)
  BY <1>4 DEF Gathered
<1>5. CASE ~Declares(ns, q) /\ item.kind = "BINDER"
  <2>1. Gathered(ns, item) = Add(Add(declared, stub), proxy)
    BY <1>5 DEF Gathered
  <2>2. t \in ToSet(Add(declared, stub)) \/ t = proxy
    BY <1>1, <1>2, <1>3, <2>1
  <2>3. t \in ToSet(declared) \/ t = stub \/ t = proxy
    BY <1>1, <1>2, <1>3, <2>2
  <2>4. t \in ToSet(ns) \/ t = DeclaredType(item) \/ t = stub \/ t = proxy
    BY <1>1, <1>3, <2>3
  <2>5. QED
    BY <1>5, <2>4
<1>6. CASE ~Declares(ns, q) /\ item.kind = "USER_DATA"
  <2>1. Gathered(ns, item) = declared
    BY <1>6 DEF Gathered
  <2>2. QED
    BY <1>1, <1>3, <2>1
<1>7. QED
  BY <1>4, <1>5, <1>6 DEF Item

\* What needs no file never comes to need one.
LEMMA KnownGrows ==
  ASSUME TypeOK, Consistent, NamesUnique, [Next]_vars
  PROVE  KnownWithoutImport \subseteq KnownWithoutImport'
<1>1. UNCHANGED DeclaredLines
  BY PhaseStep DEF DeclaredLines
<1>2. ASSUME NEW l \in DeclaredLines, IsInterfaceName(l.fullname)
      PROVE  IsInterfaceName(l.fullname)'
  <2> DEFINE q == Plain(l.fullname)
  <2>1. Declares(NAMES, q)
    BY <1>2 DEF IsInterfaceName
  <2>2. Declares(NAMES', q) /\ NAMES'[Find(NAMES', q)] = NAMES[Find(NAMES, q)]
    BY <2>1, RegistryGrows, FindStays
  <2>3. QED
    BY <1>2, <2>2 DEF IsInterfaceName
<1>3. DeclaredInterfaces \subseteq DeclaredInterfaces'
  BY <1>1, <1>2 DEF DeclaredInterfaces
<1>4. QED
  BY <1>1, <1>3 DEF KnownWithoutImport

\* Where files are read, only ScanLine changes the registry.
LEMMA RegistryRests ==
  ASSUME [Next]_vars, pc' \in {"preprocessed", "lines", "main", "imports", "open", "filenames"}
  PROVE  /\ pc \in {"preprocessed", "lines", "main", "imports", "open", "filenames"}
         /\ ScanLine \/ UNCHANGED NAMES
<1>1. CASE OpenPreprocessed \/ ClosePreprocessed \/ EndPreprocessed \/ ParseMain
           \/ SkipKnownImport \/ MissImport \/ FindImport \/ ParseImport \/ LoseImport
           \/ EndImports \/ UNCHANGED vars
  BY <1>1
     DEF OpenPreprocessed, ClosePreprocessed, EndPreprocessed, ParseMain, SkipKnownImport,
         MissImport, FindImport, ParseImport, LoseImport, EndImports, Exit, vars
<1>2. CASE ScanLine
  BY <1>2 DEF ScanLine
<1>3. CASE \/ CheckFilenames \/ GatherType \/ NextDocument \/ EndGather
           \/ CheckInterface \/ CheckReturn \/ CheckArg \/ EndArgs
           \/ CheckMethodName \/ EndInterface \/ EndChecks
           \/ NameOutput \/ WriteDep \/ GenerateHeader \/ GenerateImplementation
  BY <1>3
     DEF CheckFilenames, GatherType, NextDocument, EndGather, CheckInterface,
         CheckReturn, CheckArg, EndArgs, CheckMethodName, EndInterface, EndChecks,
         NameOutput, WriteDep, GenerateHeader, GenerateImplementation, Exit
<1>4. QED
  BY <1>1, <1>2, <1>3 DEF Next

LEMMA NothingElsePreserved ==
  ASSUME NoEmptyLines, TypeOK, Consistent, NamesUnique, LinesJudged, NothingElseKnown, [Next]_vars
  PROVE  NothingElseKnown'
<1> SUFFICES ASSUME pc' \in {"preprocessed", "lines", "main", "imports", "open"},
                    NEW t \in ToSet(NAMES')
             PROVE  t.args = <<>> /\ t.package \o t.name \in KnownWithoutImport'
  BY DEF NothingElseKnown
<1>1. KnownWithoutImport \subseteq KnownWithoutImport'
  BY KnownGrows
<1>2. pc \in {"preprocessed", "lines", "main", "imports", "open"}
  <2>1. pc # "filenames"
    BY PhaseStep DEF HasRead
  <2>2. QED
    BY <2>1, RegistryRests
<1>3. CASE t \in ToSet(NAMES)
  BY <1>1, <1>2, <1>3 DEF NothingElseKnown
<1>4. CASE t \notin ToSet(NAMES)
  <2> DEFINE line == Head(lines)
             item == LineItem(line.type, line.fullname)
             q == QualifiedName(DeclaredType(item))
  <2>1. ScanLine
    BY <1>4, RegistryRests
  <2>2. lines # <<>> /\ pc = "lines"
    BY <2>1 DEF ScanLine
  <2>3. /\ \E f \in ToSet(opt.preprocessed) \cap DOMAIN disk.preprocessed :
             line \in ToSet(disk.preprocessed[f])
        /\ ~line.comment => Scanned(line) = [type |-> line.type, fullname |-> line.fullname]
    BY <2>2, LineTold
  <2>4. ~line.comment /\ line.type \in DeclarationWords /\ NAMES' = Gathered(NAMES, item)
    BY <1>4, <2>1, <2>3 DEF ScanLine
  <2>5. PICK l \in DeclaredLines : l = line
    BY <2>3, <2>4 DEF DeclaredLines
  <2>6. line.fullname \in DottedName /\ line.fullname # <<>>
    BY <2>2, <2>3, <2>4, LineAtHand DEF DeclarationWords
  <2>7. /\ item \in Item /\ item.kind # "RPC"
        /\ item.package \o item.name = line.fullname
    BY <2>6, LineItemIsItem, LineItemName
  <2>8. /\ q = Plain(line.fullname)
        /\ QualifiedName(GeneratedType(item, <<"Stub">>)) = Plain(line.fullname \o <<"Stub">>)
        /\ QualifiedName(GeneratedType(item, <<"Stub", "Proxy">>)) = Plain(line.fullname \o <<"Stub", "Proxy">>)
    <3>1. /\ item.package \in Seq(Ident) /\ item.name \in Seq(Ident)
          /\ <<"Stub">> \in Seq(Ident) /\ <<"Stub", "Proxy">> \in Seq(Ident)
      BY <2>7, IdentAssumption DEF Item, SimpleName, DottedName
    <3>2. \A s, u, v \in Seq(Ident) : (s \o u) \o v = s \o (u \o v)
      BY ConcatAssociative
    <3>3. /\ (item.package \o item.name) \o <<"Stub">> = item.package \o (item.name \o <<"Stub">>)
          /\ (item.package \o item.name) \o <<"Stub", "Proxy">>
               = item.package \o (item.name \o <<"Stub", "Proxy">>)
      BY <3>1, <3>2
    <3>4. QED
      BY <2>7, <3>3, DeclaredName DEF QualifiedName, GeneratedType, Plain
  <2>9. NAMES \in Seq(Type) /\ Unique(NAMES)
    BY RegistryGrows
  <2>10. CASE t = DeclaredType(item)
    <3>1. t.args = <<>> /\ t.package \o t.name = line.fullname
      BY <2>7, <2>10 DEF DeclaredType
    <3>2. line.fullname \in KnownWithoutImport
      BY <2>5 DEF KnownWithoutImport
    <3>3. QED
      BY <1>1, <3>1, <3>2
  <2>11. CASE /\ item.kind = "BINDER" /\ ~Declares(NAMES, q)
              /\ t \in {GeneratedType(item, <<"Stub">>), GeneratedType(item, <<"Stub", "Proxy">>)}
    <3>1. Declares(NAMES', q) /\ NAMES'[Find(NAMES', q)].kind = "INTERFACE"
      <4>1. ~Redefines(NAMES, item)
        BY <2>11 DEF Redefines
      <4>2. DeclaredType(item).kind = "INTERFACE"
        BY <2>11 DEF DeclaredType, IsInterface
      <4>3. QED
        BY <2>4, <2>7, <2>9, <4>1, <4>2, GatheredKind
    <3>2. l.fullname \in DeclaredInterfaces'
      <4>1. l \in DeclaredLines'
        BY <2>5, PhaseStep DEF DeclaredLines
      <4>2. IsInterfaceName(l.fullname)'
        BY <2>5, <2>8, <3>1 DEF IsInterfaceName
      <4>3. QED
        BY <4>1, <4>2 DEF DeclaredInterfaces
    <3>3. /\ l.fullname \o <<"Stub">> \in KnownWithoutImport'
          /\ l.fullname \o <<"Stub", "Proxy">> \in KnownWithoutImport'
      <4> DEFINE Both(name) == {name \o <<"Stub">>, name \o <<"Stub", "Proxy">>}
                 some == {Both(name) : name \in DeclaredInterfaces'}
      <4>1. Both(l.fullname) \in some
        BY <3>2, Zenon
      <4>2. UNION some \subseteq KnownWithoutImport'
        BY Zenon DEF KnownWithoutImport
      <4>3. Both(l.fullname) \subseteq KnownWithoutImport'
        <5> HIDE DEF Both, some
        <5>1. QED
          BY <4>1, <4>2
      <4>4. QED
        BY <4>3, Zenon
    <3>4. t.args = <<>>
      <4>1. \A suffix : GeneratedType(item, suffix).args = <<>>
        BY DEF GeneratedType
      <4>2. QED
        BY <2>11, <4>1, Zenon
    <3>5. t.package \o t.name \in {l.fullname \o <<"Stub">>, l.fullname \o <<"Stub", "Proxy">>}
      BY <2>5, <2>8, <2>11 DEF QualifiedName, Plain
    <3>6. QED
      BY <3>3, <3>4, <3>5
  <2>12. QED
    BY <1>4, <2>4, <2>7, <2>9, <2>10, <2>11, GatheredTypes
<1>5. QED
  BY <1>3, <1>4

-----------------------------------------------------------------------------
(* Reading the main file and its imports.                                  *)

LEMMA MainTakenPreserved ==
  ASSUME TypeOK, Consistent, MainTaken, [Next]_vars
  PROVE  MainTaken'
<1>a. UNCHANGED <<opt, disk>>
  BY PhaseStep
<1>1. CASE UNCHANGED vars
  <2>1. UNCHANGED <<pc, imports, left, opt, disk, lex, opened, mainDoc, err>>
    BY <1>1, Zenon DEF vars, parsing, inputs
  <2>2. QED
    BY <2>1 DEF MainTaken, MainRead, MainOutcome, Current
<1>2. CASE OpenPreprocessed \/ ScanLine \/ ClosePreprocessed \/ EndPreprocessed
  <2>1. /\ pc \in {"preprocessed", "lines"} /\ UNCHANGED <<lex, opened, mainDoc>>
        /\ pc' \in {"preprocessed", "lines", "main", "exit"}
    BY <1>2 DEF OpenPreprocessed, ScanLine, ClosePreprocessed, EndPreprocessed, Exit, parsing
  <2>2. QED
    BY <1>a, <2>1 DEF MainTaken, HasRead
<1>3. CASE ParseMain
  <2>1. pc = "main" /\ pc' = "imports" /\ lex = "INITIAL" /\ opened = {} /\ mainDoc = <<>>
    BY <1>3 DEF ParseMain, MainTaken
  <2>2. opt.input # <<>>
    BY InputsAssumption DEF TypeOK, Invocation, SimpleName
  <2>3. CASE /\ opt.input \in DOMAIN disk.aidl /\ opened' = {[file |-> opt.input, lex |-> lex]}
             /\ mainDoc' = IF disk.aidl[opt.input][lex].called
                             THEN disk.aidl[opt.input][lex].items ELSE <<>>
    BY <1>a, <2>1, <2>2, <2>3 DEF MainTaken, MainRead, MainOutcome, HasRead
  <2>4. CASE opt.input \notin DOMAIN disk.aidl /\ err' = TRUE /\ UNCHANGED <<mainDoc, opened>>
    <3>1. mainDoc = <<>>
      BY <2>1 DEF MainTaken
    <3>2. QED
      BY <1>a, <2>1, <2>4, <3>1 DEF MainTaken, HasRead
  <2>5. QED
    BY <1>3, <2>3, <2>4 DEF ParseMain
<1>4. CASE SkipKnownImport \/ MissImport
  <2>1. /\ pc = "imports" /\ pc' = "imports" /\ UNCHANGED <<opened, mainDoc>> /\ (err => err')
    BY <1>4 DEF SkipKnownImport, MissImport, parsing
  <2>2. QED
    BY <1>a, <2>1 DEF MainTaken, MainRead, MainOutcome, HasRead
<1>5. CASE FindImport
  <2>1. /\ pc = "imports" /\ pc' = "open" /\ left > 0 /\ UNCHANGED <<opened, mainDoc, err>>
    BY <1>5 DEF FindImport
  <2>2. imports'[Current'].filename # <<>>
    BY <1>5, <2>1, FindImportSets, CurrentInside DEF ImportInfo
  <2>3. QED
    BY <1>a, <2>1, <2>2 DEF MainTaken, MainRead, MainOutcome, HasRead
<1>6. CASE ParseImport
  <2> DEFINE file == imports[Current].filename
  <2>1. /\ pc = "open" /\ pc' = "imports" /\ opened' = opened \cup {[file |-> file, lex |-> lex]}
        /\ mainDoc' = mainDoc /\ file \in DOMAIN disk.aidl
        /\ err' = ErrAfterImport(err, disk.aidl[file][lex].err, document')
    BY <1>6 DEF ParseImport, Parse, Consistent
  <2>2. err => err'
    BY <2>1, Zenon DEF ErrAfterImport
  <2>3. QED
    BY <1>a, <2>1, <2>2 DEF MainTaken, MainRead, MainOutcome, HasRead
<1>7. CASE LoseImport
  <2>1. /\ pc = "open" /\ pc' = "imports" /\ UNCHANGED <<opened, mainDoc>> /\ err' = TRUE
    BY <1>7, LoseImportSets DEF LoseImport
  <2>2. QED
    BY <1>a, <2>1 DEF MainTaken, MainRead, MainOutcome, HasRead
<1>8. CASE EndImports
  <2>1. /\ pc = "imports" /\ UNCHANGED <<opened, mainDoc>>
        /\ pc' = "exit" \/ (pc' = "filenames" /\ mainDoc # <<>>)
    BY <1>8 DEF EndImports, Exit, parsing
  <2>2. QED
    BY <1>a, <2>1 DEF MainTaken, MainRead, MainOutcome, HasRead
<1>9. CASE pc \in HasRead
  <2>1. pc' \in HasRead \cup {"exit"} /\ UNCHANGED <<opened, mainDoc>>
    BY <1>9, PhaseStep
  <2>2. QED
    BY <1>a, <1>9, <2>1 DEF MainTaken, MainRead, MainOutcome, HasRead
<1>10. pc \in Locations
  BY DEF TypeOK
<1>11. QED
  BY <1>1, <1>2, <1>3, <1>4, <1>5, <1>6, <1>7, <1>8, <1>9, <1>10, PhaseStep
     DEF Locations, HasRead

\* find_import_file answers with the file the contract asks to have been read.
LEMMA FoundFirst ==
  ASSUME opt \in Invocations, NEW class, FilesRead \subseteq DOMAIN disk.aidl \ {<<>>}
  PROVE  FindImportFile(class) \in FilesRead
         <=> \E k \in DOMAIN opt.importPaths :
               /\ opt.importPaths[k] \o class \in FilesRead
               /\ \A j \in 1..(k - 1) : opt.importPaths[j] \o class \notin DOMAIN disk.aidl
<1> DEFINE I == {i \in 1..Len(opt.importPaths) :
                   opt.importPaths[i] \o class \in DOMAIN disk.aidl}
           hit == IF I # {} THEN Min(I) ELSE 0
<1>1. /\ opt.importPaths \in Seq(DottedName) /\ Len(opt.importPaths) \in Nat
      /\ DOMAIN opt.importPaths = 1..Len(opt.importPaths)
  BY InputsAssumption, LenProperties DEF Invocation
<1>2. FindImportFile(class) = IF hit = 0 THEN <<>> ELSE opt.importPaths[hit] \o class
  BY DEF FindImportFile, SelectInSeq
<1>3. I # {} => Min(I) \in I /\ \A k \in I : Min(I) <= k
  <2>1. I \subseteq Nat
    OBVIOUS
  <2>2. QED
    BY <2>1, MinOfNaturals
<1>4. ASSUME FindImportFile(class) \in FilesRead
      PROVE  /\ hit \in DOMAIN opt.importPaths /\ opt.importPaths[hit] \o class \in FilesRead
             /\ \A j \in 1..(hit - 1) : opt.importPaths[j] \o class \notin DOMAIN disk.aidl
  <2>1. hit # 0 /\ I # {} /\ hit = Min(I)
    BY <1>2, <1>4
  <2>2. hit \in I /\ \A k \in I : hit <= k
    BY <1>3, <2>1
  <2>3. ASSUME NEW j \in 1..(hit - 1)
        PROVE  j \notin I /\ j \in 1..Len(opt.importPaths)
    BY <1>1, <2>2
  <2>4. QED
    BY <1>1, <1>2, <1>4, <2>1, <2>2, <2>3
<1>5. ASSUME NEW k \in DOMAIN opt.importPaths, opt.importPaths[k] \o class \in FilesRead,
             \A j \in 1..(k - 1) : opt.importPaths[j] \o class \notin DOMAIN disk.aidl
      PROVE  FindImportFile(class) \in FilesRead
  <2>1. k \in I
    BY <1>1, <1>5
  <2>2. hit \in I /\ hit <= k /\ hit # 0
    BY <1>3, <2>1
  <2>3. hit \notin 1..(k - 1)
    BY <1>5, <2>2
  <2>4. hit = k
    BY <1>1, <2>1, <2>2, <2>3
  <2>5. QED
    BY <1>2, <1>5, <2>2, <2>4
<1>6. QED
  BY <1>4, <1>5

\* A class that the loop over the imports skips is one that needs no file.
LEMMA KnownIsDeclared ==
  ASSUME TypeOK, Whole(NAMES), AllDeclared, NothingElseKnown, pc \in {"imports", "open"},
         NEW class
  PROVE  Declares(NAMES, Plain(class)) <=> class \in KnownWithoutImport
<1>1. ASSUME Declares(NAMES, Plain(class)) PROVE class \in KnownWithoutImport
  <2>1. PICK i \in DOMAIN NAMES : QualifiedName(NAMES[i]) = Plain(class)
    BY <1>1 DEF Declares
  <2>2. NAMES[i] \in ToSet(NAMES) /\ NAMES[i].package \o NAMES[i].name = class
    BY <2>1 DEF ToSet, QualifiedName, Plain
  <2>3. QED
    BY <2>2 DEF NothingElseKnown
<1>2. QED
  BY <1>1, KnownDeclared

\* What the contract says of the imports hangs on the registry and the disk.
LEMMA NeededStays ==
  ASSUME UNCHANGED <<NAMES, opt, disk>>
  PROVE  UNCHANGED Needed /\ UNCHANGED KnownWithoutImport
<1>1. UNCHANGED DeclaredLines
  BY DEF DeclaredLines
<1>2. DeclaredInterfaces' = DeclaredInterfaces
  BY <1>1 DEF DeclaredInterfaces, IsInterfaceName
<1>3. KnownWithoutImport' = KnownWithoutImport
  BY <1>1, <1>2, Zenon DEF KnownWithoutImport
<1>4. QED
  BY <1>3 DEF Needed, MainOutcome

LEMMA ImportsJudgedPreserved ==
  ASSUME TypeOK, Consistent, NamesUnique, ContractInv, NothingElseKnown, MainTaken,
         ImportsJudged, [Next]_vars
  PROVE  ImportsJudged'
<1>a. UNCHANGED <<opt, disk>> /\ \A class : UNCHANGED FindImportFile(class)
  <2>1. UNCHANGED <<opt, disk>>
    BY PhaseStep
  <2>2. QED
    BY <2>1 DEF FindImportFile, SelectInSeq
<1>b. pc \in {"imports", "open"} /\ imports # <<>> =>
        \A class : ~NeedsParsing(class) <=> class \in KnownWithoutImport
  BY KnownIsDeclared DEF ContractInv, DeclaredFirst, ComesWhole, NeedsParsing
<1>c. pc \in {"imports", "open"} /\ left > 0 => imports # <<>>
  BY CurrentInside
<1>1. CASE UNCHANGED vars
  <2>1. UNCHANGED <<pc, imports, left, opt, disk, opened, err, fault, NAMES>>
    BY <1>1, Zenon DEF vars, parsing, inputs
  <2>2. UNCHANGED Needed
    BY <2>1, NeededStays
  <2>3. QED
    BY <1>a, <2>1, <2>2
       DEF ImportsJudged, ImportsWrong, ImportsRight, ReadCleanly, Seen, FilesRead, Current,
           MainRead, MainOutcome
<1>2. CASE ParseMain
  <2> DEFINE outcome == disk.aidl[opt.input]["INITIAL"]
  <2>1. pc = "main" /\ pc' = "imports" /\ lex = "INITIAL" /\ opened = {} /\ left' = Len(imports')
    BY <1>2 DEF ParseMain, MainTaken
  <2>2. CASE opt.input \notin DOMAIN disk.aidl
    <3>1. err' = TRUE /\ UNCHANGED imports
      BY <1>2, <2>2 DEF ParseMain
    <3>2. QED
      BY <1>a, <2>1, <2>2, <3>1 DEF ImportsJudged, ImportsWrong
  <2>3. CASE opt.input \in DOMAIN disk.aidl
    <3>1. /\ imports' = NewImports(opt.input, outcome.imports) /\ err' = outcome.err
          /\ opened' = {MainRead}
      BY <1>2, <2>1, <2>3 DEF ParseMain, MainRead
    <3>2. outcome \in Outcome
      BY <2>1, <2>3, OutcomeFromDisk DEF TypeOK
    <3>3. /\ DOMAIN imports' = 1..Len(imports') /\ Len(imports') \in Nat
          /\ DOMAIN imports' = DOMAIN outcome.imports
          /\ \A k \in DOMAIN imports' : imports'[k].neededClass = outcome.imports[k]
      <4>1. opt.input \in DottedName /\ outcome.imports \in Seq(DottedName)
        BY <3>2, InputsAssumption DEF TypeOK, Invocation, SimpleName, Outcome
      <4>2. imports' \in Seq(ImportInfo)
        BY <3>1, <4>1, NewImportsAreImports
      <4>3. QED
        BY <3>1, <4>2, LenProperties DEF NewImports
    <3>4. Current' = 1
      BY <2>1, <3>3 DEF Current
    <3>5. Seen(MainRead)' = outcome
      BY <1>a DEF Seen, MainRead
    <3>6. CASE err'
      <4>1. ~ReadCleanly(MainRead)'
        BY <3>1, <3>5, <3>6 DEF ReadCleanly
      <4>2. ImportsWrong'
        <5>1. \E o \in opened' : ~ReadCleanly(o)'
          BY <1>a, <3>1, <4>1 DEF MainRead, ReadCleanly, Seen
        <5>2. QED
          BY <5>1 DEF ImportsWrong
      <4>3. QED
        BY <1>a, <2>1, <3>3, <3>6, <4>2 DEF ImportsJudged, MainOutcome, ToSet
    <3>7. CASE ~err'
      <4>1. ~Seen(MainRead)'.err
        BY <3>1, <3>5, <3>7
      <4>2. ASSUME NEW class \in Needed'
            PROVE  \E k \in DOMAIN imports' : k >= Current' /\ imports'[k].neededClass = class
        <5>1. PICK k \in DOMAIN outcome.imports : class = outcome.imports[k]
          BY <1>a, <4>2 DEF Needed, MainOutcome, ToSet
        <5>2. QED
          BY <3>3, <3>4, <5>1
      <4>3. ImportsRight'
        BY <1>a, <3>1, <4>1, <4>2 DEF ImportsRight, MainRead, Seen
      <4>4. QED
        BY <1>a, <2>1, <3>3, <3>7, <4>3 DEF ImportsJudged, MainOutcome, ToSet
    <3>8. QED
      BY <3>6, <3>7
  <2>4. QED
    BY <2>2, <2>3
<1>3. CASE SkipKnownImport
  <2>1. /\ pc = "imports" /\ pc' = "imports" /\ left > 0 /\ left' = left - 1
        /\ ~NeedsParsing(imports[Current].neededClass)
        /\ UNCHANGED <<NAMES, imports, opened, err, fault>>
    BY <1>3 DEF SkipKnownImport, parsing
  <2>2. imports[Current].neededClass \in KnownWithoutImport
    BY <1>b, <1>c, <2>1
  <2>3. Current' = Current + 1 /\ Current \in Nat /\ DOMAIN imports \subseteq Nat
    BY <2>1, CurrentInside DEF Current
  <2>4. UNCHANGED Needed
    BY <1>a, <2>1, NeededStays
  <2>5. ImportsWrong => ImportsWrong'
    BY <1>a, <2>1, <2>4 DEF ImportsWrong, ReadCleanly, Seen
  <2>6. ASSUME ImportsRight PROVE ImportsRight'
    <3>1. ASSUME NEW class \in Needed, FindImportFile(class) \notin FilesRead
          PROVE  \E k \in DOMAIN imports : k >= Current + 1 /\ imports[k].neededClass = class
      <4>1. PICK k \in DOMAIN imports : k >= Current /\ imports[k].neededClass = class
        BY <2>6, <3>1 DEF ImportsRight
      <4>2. k # Current
        BY <2>2, <3>1, <4>1 DEF Needed
      <4>3. QED
        BY <2>3, <4>1, <4>2
    <3>2. QED
      BY <1>a, <2>1, <2>3, <2>4, <2>6, <3>1 DEF ImportsRight, Seen, FilesRead, MainRead
  <2>7. QED
    BY <1>a, <2>1, <2>3, <2>5, <2>6 DEF ImportsJudged, MainOutcome
<1>4. CASE MissImport
  <2> DEFINE class == imports[Current].neededClass
  <2>1. /\ pc = "imports" /\ pc' = "imports" /\ left > 0 /\ left' = left - 1
        /\ NeedsParsing(class) /\ FindImportFile(class) = <<>>
        /\ UNCHANGED <<NAMES, imports, opened, fault>> /\ err' = TRUE
    BY <1>4 DEF MissImport, parsing
  <2>2. class \notin KnownWithoutImport
    BY <1>b, <1>c, <2>1
  <2>3. Current' = Current + 1 /\ Current \in DOMAIN imports /\ DOMAIN imports \subseteq Nat
    BY <2>1, CurrentInside DEF Current
  <2>4. opt.input \in DOMAIN disk.aidl => class \in Needed
    BY <2>1, <2>2, <2>3 DEF ImportsJudged, Needed
  <2>5. UNCHANGED Needed
    BY <1>a, <2>1, NeededStays
  <2>6. ImportsWrong'
    <3>1. PICK c : c = class
      OBVIOUS
    <3>2. FindImportFile(c)' = <<>>
      BY <1>a, <2>1, <3>1
    <3>3. QED
      BY <1>a, <2>4, <2>5, <3>1, <3>2 DEF ImportsWrong
  <2>7. QED
    BY <1>a, <2>1, <2>3, <2>6 DEF ImportsJudged, MainOutcome
<1>5. CASE FindImport
  <2> DEFINE class == imports[Current].neededClass
  <2>1. /\ pc = "imports" /\ pc' = "open" /\ left > 0
        /\ UNCHANGED <<NAMES, opened, err, fault>>
    BY <1>5 DEF FindImport
  <2>2. UNCHANGED Needed
    BY <1>a, <2>1, NeededStays
  <2>3. imports[Current] \in ImportInfo /\ Current \in DOMAIN imports
    BY <2>1, CurrentInside
  <2>4. /\ DOMAIN imports' = DOMAIN imports /\ Current' = Current
        /\ \A k \in DOMAIN imports : imports'[k].neededClass = imports[k].neededClass
        /\ imports'[Current].filename = FindImportFile(class)
        /\ imports'[Current].neededClass = class
    BY <1>5, <2>3, FindImportSets DEF ImportInfo
  <2>5. imports'[Current'].filename = FindImportFile(imports[Current].neededClass)'
    <3>1. PICK c : c = class
      OBVIOUS
    <3>2. FindImportFile(c)' = FindImportFile(c) /\ imports'[Current'].neededClass = c
      BY <1>a, <2>4, <3>1
    <3>3. QED
      BY <1>a, <2>4, <3>1, <3>2 DEF FindImportFile
  <2>6. ImportsWrong => ImportsWrong'
    BY <1>a, <2>1, <2>2 DEF ImportsWrong, ReadCleanly, Seen
  <2>7. ImportsRight => ImportsRight'
    BY <1>a, <2>1, <2>2, <2>4 DEF ImportsRight, Seen, FilesRead, MainRead
  <2>8. QED
    BY <1>a, <2>1, <2>4, <2>5, <2>6, <2>7 DEF ImportsJudged, MainOutcome
<1>6. CASE ParseImport
  <2> DEFINE file == imports[Current].filename
             outcome == disk.aidl[file][lex]
             read == [file |-> file, lex |-> lex]
  <2>1. /\ pc = "open" /\ pc' = "imports" /\ left > 0 /\ file \in DOMAIN disk.aidl
        /\ opened' = opened \cup {read}
        /\ err' = ErrAfterImport(err, outcome.err, document')
        /\ document' = IF outcome.called THEN outcome.items ELSE document
        /\ UNCHANGED <<NAMES, fault>>
    BY <1>6 DEF ParseImport, Parse, Consistent
  <2>2. UNCHANGED Needed
    BY <1>a, <2>1, NeededStays
  <2>3. PICK n \in Nat :
          /\ DOMAIN imports' = 1..(n + Len(imports))
          /\ \A k \in DOMAIN imports \ {Current} : imports'[n + k] = imports[k]
          /\ Current' = n + Current + 1
    BY <1>6, ParseImportSets
  <2>4. /\ Current \in DOMAIN imports /\ DOMAIN imports = 1..Len(imports)
        /\ Len(imports) \in Nat /\ Current \in Nat
    BY <2>1, CurrentInside
  <2>5. outcome \in Outcome /\ (~outcome.called => outcome.err)
    BY <2>1, OutcomeFromDisk, InputsAssumption DEF TypeOK, IsDisk
  <2>6. Seen(read) = outcome /\ \A o : UNCHANGED Seen(o)
    BY <1>a DEF Seen
  <2>7. err' <=> err \/ ~(~outcome.err /\ outcome.called /\ outcome.items # <<>>)
    <3>1. outcome.err \in BOOLEAN /\ outcome.called \in BOOLEAN /\ err \in BOOLEAN
      BY <2>5 DEF Outcome, TypeOK
    <3>2. err' = (err \/ outcome.err \/ document' = <<>>)
      BY <2>1, Zenon DEF ErrAfterImport
    <3>3. outcome.called => document' = outcome.items
      BY <2>1
    <3>4. QED
      BY <2>5, <3>1, <3>2, <3>3
  <2>8. ASSUME err' PROVE ImportsWrong'
    <3>1. CASE err
      BY <1>a, <2>1, <2>2, <2>6, <3>1 DEF ImportsJudged, ImportsWrong, ReadCleanly
    <3>2. CASE ~err
      <4>1. PICK o : o = read
        OBVIOUS
      <4>2. o \in opened' /\ ~ReadCleanly(o)'
        BY <2>1, <2>6, <2>7, <2>8, <3>2, <4>1 DEF ReadCleanly
      <4>3. QED
        BY <4>2 DEF ImportsWrong
    <3>3. QED
      BY <3>1, <3>2
  <2>9. ASSUME ~err' PROVE ImportsRight'
    <3>1. ~err /\ ImportsRight /\ ~outcome.err /\ outcome.items # <<>>
      BY <2>1, <2>7, <2>9 DEF ImportsJudged
    <3>2. ASSUME NEW o \in opened'
          PROVE  ~Seen(o)'.err /\ (o # MainRead => Seen(o)'.items # <<>>)
      BY <2>1, <2>6, <3>1, <3>2 DEF ImportsRight
    <3>3. ASSUME NEW class \in Needed
          PROVE  \/ FindImportFile(class) \in FilesRead'
                 \/ \E k \in DOMAIN imports' : k >= Current' /\ imports'[k].neededClass = class
      <4>1. CASE FindImportFile(class) \in FilesRead
        BY <2>1, <4>1 DEF FilesRead
      <4>2. CASE FindImportFile(class) \notin FilesRead
        <5>1. PICK k \in DOMAIN imports : k >= Current /\ imports[k].neededClass = class
          BY <3>1, <3>3, <4>2 DEF ImportsRight
        <5>2. CASE k = Current
          <6>1. file = FindImportFile(class)
            BY <2>1, <5>1, <5>2 DEF ImportsJudged
          <6>2. file \in FilesRead'
            <7>1. read \in opened' /\ read.file = file
              BY <2>1
            <7> HIDE DEF read, file
            <7>2. QED
              BY <7>1 DEF FilesRead
          <6>3. QED
            BY <6>1, <6>2
        <5>3. CASE k # Current
          <6>1. n + k \in DOMAIN imports' /\ n + k >= Current' /\ imports'[n + k] = imports[k]
            BY <2>3, <2>4, <5>1, <5>3
          <6>2. QED
            BY <5>1, <6>1
        <5>4. QED
          BY <5>2, <5>3
      <4>3. QED
        BY <4>1, <4>2
    <3>4. UNCHANGED MainRead
      BY <1>a DEF MainRead
    <3>5. QED
      BY <1>a, <2>2, <3>2, <3>3, <3>4 DEF ImportsRight
  <2>10. ASSUME opt.input \in DOMAIN disk.aidl, NEW k \in DOMAIN imports', k >= Current'
         PROVE  imports'[k].neededClass \in ToSet(MainOutcome.imports)
    <3>1. k - n \in DOMAIN imports \ {Current} /\ k - n >= Current /\ n + (k - n) = k
      BY <2>3, <2>4, <2>10
    <3>2. imports'[k] = imports[k - n]
      BY <2>3, <3>1
    <3>3. QED
      BY <2>1, <2>10, <3>1, <3>2 DEF ImportsJudged
  <2>11. QED
    BY <1>a, <2>1, <2>8, <2>9, <2>10 DEF ImportsJudged, MainOutcome
<1>7. CASE LoseImport
  <2>1. /\ pc = "open" /\ pc' = "imports" /\ left > 0 /\ err' = TRUE /\ fault' = TRUE
    BY <1>7, LoseImportSets DEF LoseImport, Consistent
  <2>2. ImportsWrong'
    BY <2>1 DEF ImportsWrong
  <2>3. \A k \in DOMAIN imports' : k >= Current' => k \in DOMAIN imports /\ k >= Current /\ imports'[k] = imports[k]
    BY <1>7, <2>1, CurrentInside, LoseImportSets
  <2>4. QED
    BY <1>a, <2>1, <2>2, <2>3 DEF ImportsJudged, MainOutcome
<1>8. CASE pc' \notin {"imports", "open"}
  BY <1>8 DEF ImportsJudged
<1>9. CASE EndImports \/ pc \notin {"main", "imports", "open"}
  <2>1. pc' \notin {"imports", "open"} \/ UNCHANGED vars
    BY <1>9, PhaseStep DEF EndImports, Exit, HasRead, TypeOK, Locations
  <2>2. QED
    BY <1>1, <1>8, <2>1
<1>10. QED
  BY <1>1, <1>2, <1>3, <1>4, <1>5, <1>6, <1>7, <1>9, PhaseStep

LEMMA DocumentsCompletePreserved ==
  ASSUME TypeOK, Consistent, ImportsAhead, MainTaken, DocumentsComplete, [Next]_vars
  PROVE  DocumentsComplete'
<1>a. UNCHANGED <<opt, disk, MainRead>> /\ \A o : UNCHANGED Seen(o)
  <2>1. UNCHANGED <<opt, disk>>
    BY PhaseStep
  <2>2. QED
    BY <2>1 DEF Seen, MainRead
<1>1. CASE UNCHANGED vars
  <2>1. UNCHANGED <<pc, imports, left, opened, err>>
    BY <1>1, Zenon DEF vars, parsing
  <2>2. QED
    BY <1>a, <2>1 DEF DocumentsComplete, ReadingWell, Current
<1>2. CASE ~ReadingWell'
  BY <1>2 DEF DocumentsComplete
<1>3. CASE ParseMain /\ ReadingWell'
  <2>1. pc = "main" /\ pc' = "imports" /\ lex = "INITIAL" /\ ~err'
    BY <1>3 DEF ParseMain, MainTaken, ReadingWell, HasRead
  <2>2. /\ opt.input \in DOMAIN disk.aidl /\ opened' = {MainRead}
        /\ imports' = NewImports(opt.input, disk.aidl[opt.input]["INITIAL"].imports)
    BY <1>3, <2>1 DEF ParseMain, MainRead
  <2>3. \A k \in DOMAIN imports' : imports'[k].doc = <<>>
    <3>1. opt.input \in DottedName /\ disk.aidl[opt.input]["INITIAL"].imports \in Seq(DottedName)
      BY <2>1, <2>2, InputsAssumption, OutcomeFromDisk
         DEF TypeOK, Invocation, SimpleName, Outcome
    <3>2. QED
      BY <2>2, <3>1, MainImportsNew
  <2>4. QED
    BY <1>a, <2>2, <2>3 DEF DocumentsComplete
<1>4. CASE SkipKnownImport
  <2>1. /\ pc = "imports" /\ pc' = "imports" /\ left > 0 /\ left' = left - 1
        /\ UNCHANGED <<imports, opened, err>>
    BY <1>4 DEF SkipKnownImport, parsing
  <2>2. Current' = Current + 1 /\ Current \in Nat /\ DOMAIN imports \subseteq Nat
    BY <2>1, CurrentInside DEF Current
  <2>3. QED
    BY <1>a, <2>1, <2>2 DEF DocumentsComplete, ReadingWell
<1>5. CASE FindImport
  <2>1. /\ pc = "imports" /\ pc' = "open" /\ left > 0 /\ UNCHANGED <<opened, err>>
    BY <1>5 DEF FindImport
  <2>2. /\ imports[Current] \in ImportInfo /\ Current \in DOMAIN imports
        /\ DOMAIN imports \subseteq Nat /\ Current \in Nat
    BY <2>1, CurrentInside
  <2>3. /\ DOMAIN imports' = DOMAIN imports /\ Current' = Current
        /\ imports'[Current].filename # <<>>
        /\ \A k \in DOMAIN imports : k # Current => imports'[k] = imports[k]
    BY <1>5, <2>2, FindImportSets DEF ImportInfo
  <2>4. ASSUME ReadingWell
        PROVE  /\ \A k \in DOMAIN imports' : imports'[k].filename = <<>> => imports'[k].doc = <<>>
               /\ \A o \in opened \ {MainRead} :
                    \E k \in DOMAIN imports' :
                      /\ k < Current' /\ imports'[k].filename = o.file
                      /\ imports'[k].doc = Seen(o).items
    <3>1. \A k \in DOMAIN imports' : imports'[k].filename = <<>> => imports'[k].doc = <<>>
      BY <2>3, <2>4 DEF DocumentsComplete
    <3>2. ASSUME NEW o \in opened, o # MainRead
          PROVE  \E k \in DOMAIN imports' :
                   /\ k < Current' /\ imports'[k].filename = o.file
                   /\ imports'[k].doc = Seen(o).items
      <4>1. PICK k \in DOMAIN imports :
              k < Current /\ imports[k].filename = o.file /\ imports[k].doc = Seen(o).items
        BY <2>1, <2>4, <3>2 DEF DocumentsComplete
      <4>2. k \in DOMAIN imports' /\ k < Current' /\ imports'[k] = imports[k]
        BY <2>2, <2>3, <4>1
      <4>3. QED
        BY <4>1, <4>2
    <3>3. QED
      BY <3>1, <3>2
  <2>5. ReadingWell' => ReadingWell
    BY <2>1 DEF ReadingWell, HasRead
  <2>6. QED
    BY <1>a, <2>1, <2>4, <2>5 DEF DocumentsComplete
<1>6. CASE ParseImport /\ ReadingWell'
  <2> DEFINE file == imports[Current].filename
             outcome == disk.aidl[file][lex]
             read == [file |-> file, lex |-> lex]
  <2>1. /\ pc = "open" /\ pc' = "imports" /\ left > 0 /\ file \in DOMAIN disk.aidl
        /\ opened' = opened \cup {read}
        /\ err' = ErrAfterImport(err, outcome.err, document')
        /\ document' = IF outcome.called THEN outcome.items ELSE document
    BY <1>6 DEF ParseImport, Parse, Consistent
  <2>2. ~err /\ document' = outcome.items
    <3>1. ~outcome.called => outcome.err
      BY <2>1, InputsAssumption DEF TypeOK, IsDisk
    <3>2. ~err'
      BY <1>6, <2>1 DEF ReadingWell, HasRead
    <3>3. ~err /\ ~outcome.err
      BY <2>1, <3>2, Zenon DEF ErrAfterImport
    <3>4. QED
      BY <2>1, <3>1, <3>3
  <2>3. PICK n \in Nat :
          /\ DOMAIN imports' = 1..(n + Len(imports))
          /\ \A k \in 1..n : imports'[k].filename = <<>> /\ imports'[k].doc = <<>>
          /\ imports'[n + Current] = [imports[Current] EXCEPT !.doc = document']
          /\ \A k \in DOMAIN imports \ {Current} : imports'[n + k] = imports[k]
          /\ Current' = n + Current + 1
    BY <1>6, ParseImportSets
  <2>4. /\ Current \in DOMAIN imports /\ DOMAIN imports = 1..Len(imports)
        /\ Len(imports) \in Nat /\ Current \in Nat /\ imports[Current] \in ImportInfo
    BY <2>1, CurrentInside
  <2>5. imports'[n + Current].filename = file /\ imports'[n + Current].doc = outcome.items
    BY <2>2, <2>3, <2>4 DEF ImportInfo
  <2>6. file # <<>>
    BY <2>1 DEF MainTaken
  <2>7. ASSUME NEW k \in DOMAIN imports', imports'[k].filename = <<>>
        PROVE  imports'[k].doc = <<>>
    <3>1. CASE k \in 1..n
      BY <2>3, <2>7, <3>1
    <3>2. CASE k \notin 1..n
      <4>1. k - n \in DOMAIN imports /\ n + (k - n) = k
        BY <2>3, <2>4, <3>2
      <4>2. k - n # Current
        BY <2>5, <2>6, <2>7, <4>1
      <4>3. imports'[k] = imports[k - n]
        BY <2>3, <4>1, <4>2
      <4>4. QED
        BY <2>1, <2>2, <2>7, <4>1, <4>3 DEF DocumentsComplete, ReadingWell
    <3>3. QED
      BY <3>1, <3>2
  <2>8. ASSUME NEW o \in opened', o # MainRead
        PROVE  \E k \in DOMAIN imports' :
                 k < Current' /\ imports'[k].filename = o.file /\ imports'[k].doc = Seen(o).items
    <3>1. CASE o = read
      <4>1. n + Current \in DOMAIN imports' /\ n + Current < Current'
        BY <2>3, <2>4
      <4>2. o.file = file /\ Seen(o).items = outcome.items
        BY <3>1 DEF Seen
      <4>3. QED
        BY <2>5, <4>1, <4>2
    <3>2. CASE o # read
      <4>1. PICK k \in DOMAIN imports :
              k < Current /\ imports[k].filename = o.file /\ imports[k].doc = Seen(o).items
        BY <2>1, <2>2, <2>8, <3>2 DEF DocumentsComplete, ReadingWell
      <4>2. n + k \in DOMAIN imports' /\ n + k < Current' /\ imports'[n + k] = imports[k]
        BY <2>3, <2>4, <4>1
      <4>3. QED
        BY <4>1, <4>2
    <3>3. QED
      BY <3>1, <3>2
  <2>9. QED
    BY <1>a, <2>1, <2>7, <2>8 DEF DocumentsComplete
<1>7. CASE EndImports
  <2>1. /\ pc = "imports" /\ pc' \in {"filenames", "exit"} /\ UNCHANGED <<imports, opened>>
        /\ pc' = "filenames" => ~err
    BY <1>7 DEF EndImports, Exit, parsing
  <2>2. QED
    BY <1>a, <2>1 DEF DocumentsComplete, ReadingWell, HasRead
<1>8. CASE pc \in HasRead
  <2>1. pc' \in HasRead \cup {"exit"} /\ UNCHANGED <<imports, opened>>
    BY <1>8, PhaseStep
  <2>2. QED
    BY <1>a, <1>8, <2>1 DEF DocumentsComplete, ReadingWell, HasRead
<1>9. CASE MissImport \/ LoseImport
  <2>1. pc' = "imports" /\ err'
    BY <1>9, LoseImportSets DEF MissImport, LoseImport
  <2>2. QED
    BY <1>2, <2>1 DEF ReadingWell, HasRead
<1>10. CASE pc \in {"preprocessed", "lines"}
  <2>1. pc' \in {"preprocessed", "lines", "main", "exit"}
    BY <1>10, PhaseStep
  <2>2. QED
    BY <1>2, <2>1 DEF ReadingWell, HasRead
<1>11. pc \in Locations
  BY DEF TypeOK
<1>12. QED
  BY <1>1, <1>2, <1>3, <1>4, <1>5, <1>6, <1>7, <1>8, <1>9, <1>10, <1>11, PhaseStep
     DEF Locations, HasRead

LEMMA ReadWellPreserved ==
  ASSUME TypeOK, Consistent, NamesUnique, LinesJudged, MainTaken, ImportsJudged,
         ReadWell, [Next]_vars
  PROVE  ReadWell'
<1>a. UNCHANGED <<opt, disk>>
  BY PhaseStep
<1>1. CASE EndImports /\ pc' \in HasRead
  <2>1. /\ pc = "imports" /\ left = 0 /\ ~err /\ mainDoc # <<>>
        /\ UNCHANGED <<NAMES, opened>>
    BY <1>1 DEF EndImports, Exit, HasRead, parsing
  <2>2. PreprocessedValid
    BY <2>1 DEF LinesJudged
  <2>3. /\ ImportsRight /\ opt.input \in DOMAIN disk.aidl /\ MainRead \in opened
        /\ mainDoc = IF MainOutcome.called THEN MainOutcome.items ELSE <<>>
    BY <2>1 DEF ImportsJudged, MainTaken
  <2>4. ASSUME NEW o \in opened
        PROVE  ~Seen(o).err /\ Seen(o).called /\ Seen(o).items # <<>>
    <3>1. ~Seen(o).err /\ (o # MainRead => Seen(o).items # <<>>)
      BY <2>3 DEF ImportsRight
    <3>2. Seen(o).called
      <4>1. o.file \in DOMAIN disk.aidl /\ o.lex \in LexStates
        BY DEF MainTaken, TypeOK
      <4>2. QED
        BY <3>1, <4>1, InputsAssumption DEF TypeOK, IsDisk, Seen
    <3>3. Seen(MainRead).items # <<>>
      BY <2>1, <2>3 DEF Seen, MainRead, MainOutcome
    <3>4. QED
      BY <3>1, <3>2, <3>3
  <2>5. opt.input \in {o.file : o \in opened}
    <3>1. MainRead.file = opt.input
      BY DEF MainRead
    <3>2. QED
      BY <2>3, <3>1
  <2>6. ParsesCleanly
    BY <2>4, <2>5 DEF ParsesCleanly
  <2>7. ImportsResolved
    <3>1. FilesRead \subseteq DOMAIN disk.aidl \ {<<>>}
      BY DEF MainTaken, FilesRead
    <3>2. DOMAIN imports = 1..Len(imports) /\ Len(imports) \in Nat /\ Current = Len(imports) + 1
      BY <2>1, LenProperties DEF TypeOK, Current
    <3>3. ASSUME NEW class \in Needed PROVE FindImportFile(class) \in FilesRead
      BY <2>3, <3>2 DEF ImportsRight
    <3>4. QED
      BY <3>1, <3>3, FoundFirst DEF ImportsResolved, Needed, MainOutcome, FilesRead, TypeOK
  <2>8. UNCHANGED KnownWithoutImport
    BY <1>a, <2>1, NeededStays
  <2>9. QED
    BY <1>a, <2>1, <2>2, <2>6, <2>7, <2>8
       DEF ReadWell, PreprocessedValid, ParsesCleanly, ImportsResolved, Seen
<1>2. CASE pc \in HasRead
  <2>1. UNCHANGED opened
    BY <1>2, PhaseStep
  <2>2. KnownWithoutImport \subseteq KnownWithoutImport'
    BY KnownGrows
  <2>3. PreprocessedValid /\ ParsesCleanly /\ ImportsResolved
    BY <1>2 DEF ReadWell
  <2>4. PreprocessedValid' /\ ParsesCleanly'
    BY <1>a, <2>1, <2>3 DEF PreprocessedValid, ParsesCleanly, Seen
  <2>5. ImportsResolved'
    BY <1>a, <2>1, <2>2, <2>3 DEF ImportsResolved
  <2>6. QED
    BY <2>4, <2>5 DEF ReadWell
<1>3. CASE pc' \notin HasRead
  BY <1>3 DEF ReadWell
<1>4. pc \in Locations
  BY DEF TypeOK
<1>5. CASE pc \in {"main", "open", "exit"} \/ (pc = "imports" /\ ~EndImports)
  <2>1. pc' \in {"main", "imports", "open", "exit"}
    BY <1>5, PhaseStep DEF ParseMain, SkipKnownImport, MissImport, FindImport, ParseImport, LoseImport, vars
  <2>2. QED
    BY <1>3, <2>1 DEF HasRead
<1>6. CASE pc \in {"preprocessed", "lines"}
  <2>1. pc' \in {"preprocessed", "lines", "main", "exit"}
    BY <1>6, PhaseStep
  <2>2. QED
    BY <1>3, <2>1 DEF HasRead
<1>7. QED
  BY <1>1, <1>2, <1>3, <1>4, <1>5, <1>6 DEF Locations, HasRead

\* The documents gather_types visits are the declarations of the files that
\* were read.
LEMMA DocumentsDeclare ==
  ASSUME TypeOK, ImportsTold, MainTaken, DocumentsComplete, ReadWell, pc \in HasRead,
         NEW file, NEW item
  PROVE  [file |-> file, item |-> item] \in DeclaredItems
         <=> \E n \in DOMAIN Documents :
               Documents[n].file = file /\ item \in ToSet(Documents[n].items)
<1>1. [file |-> file, item |-> item] \in DeclaredItems
      <=> \E o \in opened : o.file = file /\ item \in ToSet(Seen(o).items)
  BY DEF DeclaredItems
<1>2. /\ DOMAIN Documents = 1..(Len(imports) + 1) /\ Len(imports) \in Nat
      /\ DOMAIN imports = 1..Len(imports)
      /\ Documents[1] = [file |-> opt.input, items |-> mainDoc]
      /\ \A k \in DOMAIN imports :
           Documents[k + 1] = [file |-> imports[k].filename, items |-> imports[k].doc]
  <2> DEFINE S == {[file |-> opt.input, items |-> mainDoc]}
                    \cup {[file |-> imports[k].filename, items |-> imports[k].doc] : k \in DOMAIN imports}
             first == <<[file |-> opt.input, items |-> mainDoc]>>
             rest == [k \in DOMAIN imports |-> [file |-> imports[k].filename, items |-> imports[k].doc]]
  <2>1. DOMAIN imports = 1..Len(imports) /\ Len(imports) \in Nat
    BY LenProperties DEF TypeOK
  <2>2. first \in Seq(S) /\ Len(first) = 1 /\ first[1] = [file |-> opt.input, items |-> mainDoc]
    OBVIOUS
  <2>3. rest \in Seq(S) /\ Len(rest) = Len(imports)
    <3>1. rest \in [1..Len(imports) -> S]
      BY <2>1
    <3>2. QED
      BY <2>1, <3>1, FunctionIsSeq
  <2>4. Documents = first \o rest
    BY DEF Documents
  <2>5. \A k \in DOMAIN imports : rest[k] = [file |-> imports[k].filename, items |-> imports[k].doc]
    OBVIOUS
  <2> HIDE DEF first, rest, S
  <2>6. /\ DOMAIN Documents = 1..(Len(imports) + 1)
        /\ Documents[1] = first[1] /\ \A k \in DOMAIN imports : Documents[k + 1] = rest[k]
    <3>1. \A a, b \in Seq(S) :
            /\ DOMAIN (a \o b) = 1..(Len(a) + Len(b))
            /\ \A i \in 1..Len(a) : (a \o b)[i] = a[i]
            /\ \A i \in 1..Len(b) : (a \o b)[Len(a) + i] = b[i]
      BY ConcatProperties
    <3>2. /\ DOMAIN Documents = 1..(1 + Len(imports))
          /\ \A i \in 1..1 : Documents[i] = first[i]
          /\ \A i \in 1..Len(imports) : Documents[1 + i] = rest[i]
      BY <2>2, <2>3, <2>4, <3>1
    <3>3. QED
      BY <2>1, <3>2
  <2>7. QED
    BY <2>1, <2>2, <2>5, <2>6
<1>3. /\ MainRead \in opened /\ MainRead.file = opt.input /\ mainDoc = Seen(MainRead).items
  BY DEF MainTaken, MainRead, MainOutcome, Seen, ReadWell, ParsesCleanly, HasRead
<1>4. ASSUME NEW o \in opened, o.file = file, item \in ToSet(Seen(o).items)
      PROVE  \E n \in DOMAIN Documents :
               Documents[n].file = file /\ item \in ToSet(Documents[n].items)
  <2>1. CASE o = MainRead
    BY <1>2, <1>3, <1>4, <2>1
  <2>2. CASE o # MainRead
    <3>1. PICK k \in DOMAIN imports : imports[k].filename = o.file /\ imports[k].doc = Seen(o).items
      BY <2>2 DEF DocumentsComplete, ReadingWell
    <3>2. k + 1 \in DOMAIN Documents
      BY <1>2
    <3>3. Documents[k + 1].file = file /\ Documents[k + 1].items = Seen(o).items
      <4>1. Documents[k + 1] = [file |-> imports[k].filename, items |-> imports[k].doc]
        BY <1>2
      <4>2. QED
        BY <1>4, <3>1, <4>1
    <3>4. QED
      BY <1>4, <3>2, <3>3
  <2>3. QED
    BY <2>1, <2>2
<1>5. ASSUME NEW n \in DOMAIN Documents, Documents[n].file = file,
             item \in ToSet(Documents[n].items)
      PROVE  \E o \in opened : o.file = file /\ item \in ToSet(Seen(o).items)
  <2>1. CASE n = 1
    BY <1>2, <1>3, <1>5, <2>1
  <2>2. CASE n # 1
    <3> DEFINE k == n - 1
    <3>1. /\ k \in DOMAIN imports /\ imports[k].filename = file
          /\ item \in ToSet(imports[k].doc)
      <4>1. k \in DOMAIN imports /\ n = k + 1
        BY <1>2, <2>2
      <4>2. Documents[n] = [file |-> imports[k].filename, items |-> imports[k].doc]
        BY <1>2, <4>1
      <4>3. QED
        BY <1>5, <4>1, <4>2
    <3>2. imports[k].doc # <<>>
      BY <3>1 DEF ToSet
    <3>3. imports[k].filename # <<>>
      BY <3>1, <3>2 DEF DocumentsComplete, ReadingWell
    <3>4. HasOwnDoc(k)
      BY <3>1, <3>3 DEF ImportsTold, ReadingWell, HasRead
    <3>5. QED
      BY <3>1, <3>4 DEF HasOwnDoc, Seen
  <2>3. QED
    BY <2>1, <2>2
<1>6. QED
  BY <1>1, <1>4, <1>5

-----------------------------------------------------------------------------
(* The declarations.                                                       *)

\* The declarations of the files are documents' items.
LEMMA DeclaredAreItems ==
  ASSUME TypeOK, MainTaken, NEW d \in DeclaredItems
  PROVE  d.item \in Item /\ d = [file |-> d.file, item |-> d.item]
<1>1. PICK o \in opened : d \in [file : {o.file}, item : ToSet(Seen(o).items)]
  BY DEF DeclaredItems
<1>2. o.file \in DOMAIN disk.aidl /\ o.lex \in LexStates
  BY DEF MainTaken, TypeOK
<1>3. Seen(o) \in Outcome
  BY <1>2, InputsAssumption DEF TypeOK, IsDisk, Seen
<1>4. Seen(o).items \in Seq(Item)
  BY <1>3 DEF Outcome
<1>5. ToSet(Seen(o).items) \subseteq Item
  BY <1>4, ElementOfSeq, LenProperties DEF ToSet
<1>6. QED
  BY <1>1, <1>5

\* What is said of a declaration stays true, whatever the registry grows by.
LEMMA DeclarationsStay ==
  ASSUME TypeOK, Consistent, NamesUnique, MainTaken, [Next]_vars, pc \in HasRead
  PROVE  /\ UNCHANGED DeclaredItems /\ (FilesNamedRight' <=> FilesNamedRight)
         /\ \A d \in DeclaredItems : /\ Fits(d.item) => Fits(d.item)'
                                     /\ Clashes(d.item) => Clashes(d.item)'
         /\ DeclarationsWrong => DeclarationsWrong'
<1>1. UNCHANGED <<opt, disk, opened>>
  BY PhaseStep
<1>2. UNCHANGED DeclaredItems
  BY <1>1 DEF DeclaredItems, Seen
<1>3. FilesNamedRight' <=> FilesNamedRight
  BY <1>2 DEF FilesNamedRight
<1>4. ASSUME NEW item, Declares(NAMES, QualifiedName(DeclaredType(item)))
      PROVE  Fits(item)' = Fits(item) /\ Clashes(item)' = Clashes(item)
  <2> DEFINE q == QualifiedName(DeclaredType(item))
  <2>1. Declares(NAMES', q) /\ NAMES'[Find(NAMES', q)] = NAMES[Find(NAMES, q)]
    BY <1>4, RegistryGrows, FindStays
  <2>2. QED
    BY <1>4, <2>1 DEF Fits, Clashes
<1>5. ASSUME NEW item
      PROVE  (Fits(item) => Fits(item)') /\ (Clashes(item) => Clashes(item)')
  BY <1>4 DEF Fits, Clashes
<1>6. DeclarationsWrong => DeclarationsWrong'
  BY <1>2, <1>3, <1>5 DEF DeclarationsWrong
<1>7. QED
  BY <1>2, <1>3, <1>5, <1>6

\* The declaration gather_types is at leaves the list, and is judged.
LEMMA TypeGathered ==
  ASSUME TypeOK, NamesUnique, GatherType
  PROVE  LET item == Head(Head(todo).items)
         IN  /\ item \in ToSet(todo[1].items) /\ 1 \in DOMAIN todo
             /\ \A n \in DOMAIN todo' : n \in DOMAIN todo
                                        /\ ToSet(todo'[n].items) \subseteq ToSet(todo[n].items)
             /\ \A other : Ahead(other) => other = item \/ Ahead(other)'
             /\ Redefines(NAMES, item) =>
                  err' /\ \A other : other = item => Clashes(other)'
             /\ ~Redefines(NAMES, item) =>
                  (err' <=> err) /\ \A other : other = item => Fits(other)'
<1> DEFINE doc == Head(todo)
           item == Head(doc.items)
<1>1. /\ todo # <<>> /\ doc.items # <<>> /\ NAMES' = Gathered(NAMES, item)
      /\ err' = (err \/ Redefines(NAMES, item))
      /\ todo' = [todo EXCEPT ![1].items = Tail(@)]
  BY DEF GatherType
<1>2. /\ doc = todo[1] /\ 1 \in DOMAIN todo /\ doc \in Doc
      /\ DOMAIN todo' = DOMAIN todo /\ \A n \in DOMAIN todo : n # 1 => todo'[n] = todo[n]
  BY <1>1, HeadTailProperties, EmptySeq, LenProperties, ElementOfSeq DEF TypeOK
<1>3. doc.items \in Seq(Item)
  BY <1>2 DEF Doc
<1>4. item \in Item /\ item \in ToSet(doc.items)
      /\ ToSet(Tail(doc.items)) \subseteq ToSet(doc.items)
      /\ \A other \in ToSet(doc.items) : other = item \/ other \in ToSet(Tail(doc.items))
  <2> DEFINE s == doc.items
  <2>1. s \in Seq(Item) /\ s # <<>> /\ Len(s) \in Nat /\ DOMAIN s = 1..Len(s)
    BY <1>1, <1>3, LenProperties
  <2> HIDE DEF s
  <2>2. /\ Head(s) = s[1] /\ 1 \in DOMAIN s /\ s[1] \in Item /\ DOMAIN Tail(s) = 1..(Len(s) - 1)
        /\ \A i \in DOMAIN Tail(s) : i + 1 \in DOMAIN s /\ Tail(s)[i] = s[i + 1]
    BY <2>1
  <2>3. Head(s) \in ToSet(s) /\ ToSet(Tail(s)) \subseteq ToSet(s)
    BY <2>1, <2>2 DEF ToSet
  <2>4. ASSUME NEW other \in ToSet(s), other # Head(s)
        PROVE  other \in ToSet(Tail(s))
    <3>1. PICK i \in 1..Len(s) : other = s[i]
      BY <2>1 DEF ToSet
    <3>2. i - 1 \in DOMAIN Tail(s) /\ Tail(s)[i - 1] = s[i]
      BY <2>1, <2>2, <2>4, <3>1
    <3>3. QED
      BY <3>1, <3>2 DEF ToSet
  <2>5. QED
    BY <2>2, <2>3, <2>4 DEF s
<1>5. todo'[1].items = Tail(doc.items)
  <2>1. todo'[1] = [doc EXCEPT !.items = Tail(doc.items)]
    BY <1>1, <1>2
  <2>2. QED
    BY <1>2, <2>1 DEF Doc
<1>6. ASSUME NEW other, Ahead(other), other # item
      PROVE  Ahead(other)'
  <2>1. PICK n \in DOMAIN todo : other \in ToSet(todo[n].items)
    BY <1>6 DEF Ahead
  <2>2. other \in ToSet(todo'[n].items) /\ n \in DOMAIN todo'
    BY <1>2, <1>4, <1>5, <1>6, <2>1
  <2>3. QED
    BY <2>2 DEF Ahead
<1>7. \A n \in DOMAIN todo' : n \in DOMAIN todo /\ ToSet(todo'[n].items) \subseteq ToSet(todo[n].items)
  BY <1>2, <1>4, <1>5
<1>8. LET q == QualifiedName(DeclaredType(item))
      IN  /\ Declares(NAMES', q)
          /\ NAMES'[Find(NAMES', q)].kind = DeclaredType(item).kind <=> ~Redefines(NAMES, item)
  BY <1>1, <1>4, GatheredKind DEF TypeOK, NamesUnique, Unique
<1>9. ASSUME NEW other, other = item
      PROVE  /\ Redefines(NAMES, item) => Clashes(other)'
             /\ ~Redefines(NAMES, item) => Fits(other)'
  BY <1>8, <1>9 DEF Clashes, Fits
<1>10. err \in BOOLEAN
  BY DEF TypeOK
<1>11. QED
  BY <1>1, <1>2, <1>4, <1>6, <1>7, <1>9, <1>10

LEMMA GatherJudgedPreserved ==
  ASSUME TypeOK, Consistent, NamesUnique, ImportsTold, MainTaken, DocumentsComplete, ReadWell,
         GatherJudged, [Next]_vars
  PROVE  GatherJudged'
<1>1. CASE EndImports
  <2>1. pc' \in {"filenames", "exit"} /\ (pc' = "filenames" => ~err')
    BY <1>1 DEF EndImports, Exit
  <2>2. QED
    BY <2>1 DEF GatherJudged
<1>2. CASE CheckFilenames
  <2>1. /\ pc = "filenames" /\ pc' = "gather" /\ todo' = Documents /\ ~err
        /\ err' = (err \/ \E d \in DOMAIN Documents : \E i \in DOMAIN Documents[d].items :
                            ~FilenameFits(Documents[d].file, Documents[d].items[i]))
    BY <1>2 DEF CheckFilenames, GatherJudged
  <2>2. UNCHANGED DeclaredItems /\ (FilesNamedRight' <=> FilesNamedRight)
    BY <2>1, DeclarationsStay DEF HasRead
  <2>3. \A file, item : [file |-> file, item |-> item] \in DeclaredItems
          <=> \E n \in DOMAIN Documents : Documents[n].file = file /\ item \in ToSet(Documents[n].items)
    BY <2>1, DocumentsDeclare DEF HasRead
  <2>4. ASSUME NEW n \in DOMAIN todo', NEW item \in ToSet(todo'[n].items)
        PROVE  \E d \in DeclaredItems : d.item = item
    <3>1. [file |-> Documents[n].file, item |-> item] \in DeclaredItems
      BY <2>1, <2>3, <2>4
    <3>2. QED
      BY <3>1
  <2>5. ASSUME NEW d \in DeclaredItems
        PROVE  Ahead(d.item)'
    <3>1. d = [file |-> d.file, item |-> d.item]
      BY DeclaredAreItems
    <3>2. PICK n \in DOMAIN Documents : d.item \in ToSet(Documents[n].items)
      BY <2>3, <3>1
    <3>3. QED
      BY <2>1, <3>2 DEF Ahead
  <2>6. ASSUME NEW n \in DOMAIN Documents, NEW i \in DOMAIN Documents[n].items,
               ~FilenameFits(Documents[n].file, Documents[n].items[i])
        PROVE  ~FilesNamedRight
    <3> DEFINE d == [file |-> Documents[n].file, item |-> Documents[n].items[i]]
    <3>1. Documents[n].items[i] \in ToSet(Documents[n].items)
      BY DEF ToSet
    <3>2. d \in DeclaredItems
      BY <2>3, <3>1
    <3>3. ~FilenameFits(d.file, d.item)
      BY <2>6
    <3> HIDE DEF d
    <3>4. QED
      BY <3>2, <3>3 DEF FilesNamedRight
  <2>7. ASSUME NEW d \in DeclaredItems, ~FilenameFits(d.file, d.item)
        PROVE  err'
    <3>1. d = [file |-> d.file, item |-> d.item]
      BY DeclaredAreItems
    <3>2. PICK n \in DOMAIN Documents : Documents[n].file = d.file /\ d.item \in ToSet(Documents[n].items)
      BY <2>3, <3>1
    <3>3. PICK i \in DOMAIN Documents[n].items : d.item = Documents[n].items[i]
      BY <3>2 DEF ToSet
    <3>4. QED
      BY <2>1, <2>7, <3>2, <3>3
  <2>8. err' <=> ~FilesNamedRight
    BY <2>1, <2>6, <2>7 DEF FilesNamedRight
  <2>9. QED
    BY <2>1, <2>2, <2>4, <2>5, <2>8 DEF GatherJudged, DeclarationsWrong
<1>3. CASE GatherType
  <2> DEFINE item == Head(Head(todo).items)
  <2>1. pc = "gather" /\ pc' = "gather"
    BY <1>3 DEF GatherType
  <2>2. /\ UNCHANGED DeclaredItems /\ (FilesNamedRight' <=> FilesNamedRight)
        /\ \A d \in DeclaredItems : Fits(d.item) => Fits(d.item)'
        /\ DeclarationsWrong => DeclarationsWrong'
    BY <2>1, DeclarationsStay DEF HasRead
  <2>3. /\ item \in ToSet(todo[1].items) /\ 1 \in DOMAIN todo
        /\ \A n \in DOMAIN todo' : n \in DOMAIN todo
                                   /\ ToSet(todo'[n].items) \subseteq ToSet(todo[n].items)
        /\ \A other : Ahead(other) => other = item \/ Ahead(other)'
        /\ Redefines(NAMES, item) =>
             err' /\ \A other : other = item => Clashes(other)'
        /\ ~Redefines(NAMES, item) =>
             (err' <=> err) /\ \A other : other = item => Fits(other)'
    BY <1>3, TypeGathered
  <2>4. PICK d \in DeclaredItems : d.item = item
    BY <2>1, <2>3 DEF GatherJudged
  <2>5. \A n \in DOMAIN todo' : \A other \in ToSet(todo'[n].items) :
          \E e \in DeclaredItems : e.item = other
    BY <2>1, <2>3 DEF GatherJudged
  <2>6. ASSUME err' PROVE DeclarationsWrong'
    <3>1. CASE err
      BY <2>1, <2>2, <3>1 DEF GatherJudged
    <3>2. CASE ~err
      <4>1. Clashes(d.item)'
        BY <2>3, <2>4, <2>6, <3>2
      <4>2. QED
        BY <2>2, <4>1 DEF DeclarationsWrong
    <3>3. QED
      BY <3>1, <3>2
  <2>7. ASSUME ~err', NEW e \in DeclaredItems
        PROVE  Fits(e.item)' \/ Ahead(e.item)'
    <3>1. ~Redefines(NAMES, item) /\ ~err /\ \A other : other = item => Fits(other)'
      BY <2>3, <2>7
    <3>2. Fits(e.item) \/ Ahead(e.item)
      BY <2>1, <3>1 DEF GatherJudged
    <3>3. QED
      BY <2>2, <2>3, <3>1, <3>2
  <2>8. ~err' => FilesNamedRight'
    BY <2>1, <2>2, <2>3 DEF GatherJudged
  <2>9. QED
    BY <2>1, <2>2, <2>5, <2>6, <2>7, <2>8 DEF GatherJudged
<1>4. CASE NextDocument
  <2>1. /\ pc = "gather" /\ pc' = "gather" /\ todo # <<>> /\ Head(todo).items = <<>>
        /\ todo' = Tail(todo) /\ UNCHANGED <<NAMES, err>>
    BY <1>4 DEF NextDocument
  <2>2. /\ UNCHANGED DeclaredItems /\ (FilesNamedRight' <=> FilesNamedRight)
        /\ \A d \in DeclaredItems : Fits(d.item) => Fits(d.item)'
        /\ DeclarationsWrong => DeclarationsWrong'
    BY <2>1, DeclarationsStay DEF HasRead
  <2>3. /\ todo \in Seq(Doc) /\ Len(todo) \in Nat /\ DOMAIN todo = 1..Len(todo)
        /\ DOMAIN todo' = 1..(Len(todo) - 1) /\ Head(todo) = todo[1]
        /\ \A n \in DOMAIN todo' : n + 1 \in DOMAIN todo /\ todo'[n] = todo[n + 1]
    BY <2>1, LenProperties DEF TypeOK
  <2>4. ASSUME NEW other, Ahead(other) PROVE Ahead(other)'
    <3>1. PICK n \in DOMAIN todo : other \in ToSet(todo[n].items)
      BY <2>4 DEF Ahead
    <3>2. n # 1
      BY <2>1, <2>3, <3>1 DEF ToSet
    <3>3. n - 1 \in DOMAIN todo' /\ todo'[n - 1] = todo[n]
      BY <2>3, <3>1, <3>2
    <3>4. QED
      BY <3>1, <3>3 DEF Ahead
  <2>5. ASSUME NEW n \in DOMAIN todo', NEW item \in ToSet(todo'[n].items)
        PROVE  \E d \in DeclaredItems : d.item = item
    <3>1. n + 1 \in DOMAIN todo /\ item \in ToSet(todo[n + 1].items)
      BY <2>3, <2>5, Zenon
    <3>2. \A m \in DOMAIN todo : \A i \in ToSet(todo[m].items) : \E d \in DeclaredItems : d.item = i
      BY <2>1, Zenon DEF GatherJudged
    <3>3. QED
      BY <3>1, <3>2, Zenon
  <2>6. ~err => \A d \in DeclaredItems : Fits(d.item)' \/ Ahead(d.item)'
    BY <2>1, <2>2, <2>4 DEF GatherJudged
  <2>7. QED
    BY <2>1, <2>2, <2>5, <2>6 DEF GatherJudged
<1>5. CASE UNCHANGED vars
  <2>1. UNCHANGED <<pc, err, todo, NAMES, opened, disk>>
    BY <1>5, Zenon DEF vars, parsing, inputs
  <2>2. UNCHANGED DeclaredItems
    BY <2>1 DEF DeclaredItems, Seen
  <2>3. QED
    BY <2>1, <2>2 DEF GatherJudged, DeclarationsWrong, FilesNamedRight, Fits, Clashes, Ahead
<1>6. CASE pc' \notin {"filenames", "gather"}
  BY <1>6 DEF GatherJudged
<1>7. CASE ~(EndImports \/ CheckFilenames \/ GatherType \/ NextDocument)
  <2>1. pc' \notin {"filenames", "gather"} \/ UNCHANGED vars
    <3>1. CASE OpenPreprocessed \/ ScanLine \/ ClosePreprocessed \/ EndPreprocessed \/ ParseMain
               \/ SkipKnownImport \/ MissImport \/ FindImport \/ ParseImport \/ LoseImport
      BY <3>1
         DEF OpenPreprocessed, ScanLine, ClosePreprocessed, EndPreprocessed, ParseMain,
             SkipKnownImport, MissImport, FindImport, ParseImport, LoseImport, Exit
    <3>2. CASE EndGather \/ CheckInterface \/ CheckReturn \/ CheckArg \/ EndArgs
               \/ CheckMethodName \/ EndInterface \/ EndChecks
               \/ NameOutput \/ WriteDep \/ GenerateHeader \/ GenerateImplementation
      BY <3>2
         DEF EndGather, CheckInterface, CheckReturn, CheckArg, EndArgs, CheckMethodName,
             EndInterface, EndChecks, NameOutput, WriteDep, GenerateHeader,
             GenerateImplementation, Exit
    <3>3. QED
      BY <1>7, <3>1, <3>2 DEF Next
  <2>2. QED
    BY <1>5, <1>6, <2>1
<1>8. QED
  BY <1>1, <1>2, <1>3, <1>4, <1>7

-----------------------------------------------------------------------------
(* The walk of check_types.                                                *)

\* The declaration and the method at hand are the document's.
LEMMA MethodAtHand ==
  ASSUME TypeOK, Consistent, InOrder, pc \in {"methods", "args", "name"}
  PROVE  LET item == mainDoc[ItemAt]
         IN  /\ ItemAt \in DOMAIN mainDoc /\ item \in Item /\ itemType = item.kind
             /\ item.methods \in Seq(Method) /\ DOMAIN item.methods = 1..Len(item.methods)
             /\ Len(item.methods) \in Nat /\ Len(methods) \in Nat /\ MethodAt \in Nat
             /\ MethodAt = Len(item.methods) - Len(methods) + 1
             /\ methods = <<>> => MethodAt = Len(item.methods) + 1
             /\ methods # <<>> =>
                  /\ MethodAt \in DOMAIN item.methods
                  /\ Head(methods) = item.methods[MethodAt] /\ Head(methods) \in Method
                  /\ Head(methods).type.ref \in TypeRef
                  /\ Head(methods).args \in Seq(Arg)
<1> DEFINE item == mainDoc[ItemAt]
<1>1. ItemAt \in DOMAIN mainDoc /\ item \in Item /\ itemType = item.kind
  BY ElementOfSeq, LenProperties DEF TypeOK, InOrder
<1>2. item.methods \in Seq(Method)
  BY <1>1 DEF Item
<1>3. methods \in Seq(Method) /\ Len(methods) \in Nat /\ DOMAIN methods = 1..Len(methods)
      /\ Len(item.methods) \in Nat /\ DOMAIN item.methods = 1..Len(item.methods)
      /\ Len(methods) <= Len(item.methods)
  BY <1>2, LenProperties DEF TypeOK, InOrder
<1>4. MethodAt = Len(item.methods) - Len(methods) + 1 /\ MethodAt \in Nat
  BY <1>3 DEF MethodAt
<1>5. methods = <<>> => MethodAt = Len(item.methods) + 1
  BY <1>3, <1>4
<1>6. ASSUME methods # <<>>
      PROVE  /\ MethodAt \in DOMAIN item.methods
             /\ Head(methods) = item.methods[MethodAt] /\ Head(methods) \in Method
  <2>1. 1 \in DOMAIN methods /\ Head(methods) = methods[1]
    BY <1>3, <1>6
  <2>2. methods[1] = item.methods[MethodAt - 1 + 1]
    BY <2>1 DEF InOrder
  <2>3. MethodAt - 1 + 1 = MethodAt /\ MethodAt \in DOMAIN item.methods
    BY <1>3, <1>4, <2>1
  <2>4. methods[1] \in Method
    BY <1>3, <2>1
  <2>5. QED
    BY <2>1, <2>2, <2>3, <2>4
<1>7. ASSUME Head(methods) \in Method
      PROVE  Head(methods).type.ref \in TypeRef /\ Head(methods).args \in Seq(Arg)
  BY <1>7 DEF Method, ArgType
<1>8. QED
  BY <1>1, <1>2, <1>3, <1>4, <1>5, <1>6, <1>7

\* The steps of the checks.
LEMMA ChecksStep ==
  ASSUME [Next]_vars, pc' \in Checking
  PROVE  \/ EndGather \/ CheckInterface \/ CheckReturn \/ CheckArg \/ EndArgs
         \/ CheckMethodName \/ EndInterface
         \/ UNCHANGED <<pc, mainDoc, NAMES, err, disk, opened, pending, itemType, methods, args,
                        event, methodNames>>
<1>1. CASE UNCHANGED vars
  BY <1>1, Zenon DEF vars, checking, parsing, inputs
<1>2. CASE OpenPreprocessed \/ ScanLine \/ ClosePreprocessed \/ EndPreprocessed \/ ParseMain
           \/ SkipKnownImport \/ MissImport \/ FindImport \/ ParseImport \/ LoseImport
           \/ EndImports \/ CheckFilenames \/ GatherType \/ NextDocument
  BY <1>2
     DEF OpenPreprocessed, ScanLine, ClosePreprocessed, EndPreprocessed, ParseMain,
         SkipKnownImport, MissImport, FindImport, ParseImport, LoseImport, EndImports,
         CheckFilenames, GatherType, NextDocument, Exit, Checking
<1>3. CASE EndChecks \/ NameOutput \/ WriteDep \/ GenerateHeader \/ GenerateImplementation
  BY <1>3
     DEF EndChecks, NameOutput, WriteDep, GenerateHeader, GenerateImplementation, Exit, Checking
<1>4. QED
  BY <1>1, <1>2, <1>3 DEF Next

LEMMA InOrderPreserved ==
  ASSUME TypeOK, Consistent, NamesUnique, GenericsLast, InOrder, [Next]_vars
  PROVE  InOrder'
<1>a. /\ mainDoc \in Seq(Item) /\ Len(mainDoc) \in Nat /\ DOMAIN mainDoc = 1..Len(mainDoc)
      /\ pending \in Seq(Item) /\ Len(pending) \in Nat /\ DOMAIN pending = 1..Len(pending)
      /\ methods \in Seq(Method) /\ Len(methods) \in Nat /\ DOMAIN methods = 1..Len(methods)
      /\ args \in Seq(Arg)
  BY LenProperties DEF TypeOK
<1>1. CASE EndGather
  <2>1. pc' = "check" /\ pending' = mainDoc /\ mainDoc' = mainDoc
    BY <1>1 DEF EndGather
  <2>2. ItemAt' = 0
    BY <1>a, <2>1 DEF ItemAt
  <2>3. QED
    BY <1>a, <2>1, <2>2 DEF InOrder
<1>2. CASE CheckInterface
  <2>1. /\ pc = "check" /\ pc' = "methods" /\ pending # <<>> /\ pending' = Tail(pending)
        /\ itemType' = Head(pending).kind /\ methods' = Head(pending).methods
        /\ methodNames' = {} /\ mainDoc' = mainDoc
    BY <1>2 DEF CheckInterface
  <2>2. /\ Len(pending) <= Len(mainDoc)
        /\ \A p \in DOMAIN pending : pending[p] = mainDoc[ItemAt + p]
    BY <2>1 DEF InOrder, Checking
  <2>3. /\ Len(pending') = Len(pending) - 1 /\ DOMAIN pending' = 1..(Len(pending) - 1)
        /\ Head(pending) = pending[1] /\ 1 \in DOMAIN pending
        /\ \A p \in DOMAIN pending' : p + 1 \in DOMAIN pending /\ pending'[p] = pending[p + 1]
    BY <1>a, <2>1
  <2>4. ItemAt \in Nat /\ ItemAt' = ItemAt + 1 /\ ItemAt' \in DOMAIN mainDoc
    BY <1>a, <2>1, <2>2, <2>3 DEF ItemAt
  <2>5. \A p \in DOMAIN pending' : pending'[p] = mainDoc[ItemAt' + p]
    <3>1. TAKE p \in DOMAIN pending'
    <3>2. pending'[p] = mainDoc[ItemAt + (p + 1)]
      BY <2>2, <2>3
    <3>3. ItemAt + (p + 1) = ItemAt' + p
      BY <2>3, <2>4, <1>a
    <3>4. QED
      BY <3>2, <3>3
  <2>6. Head(pending) = mainDoc[ItemAt']
    BY <2>2, <2>3, <2>4
  <2>7. mainDoc[ItemAt'].methods \in Seq(Method)
    <3>1. mainDoc[ItemAt'] \in Item
      BY <1>a, <2>4
    <3>2. QED
      BY <3>1 DEF Item
  <2>8. MethodAt' = 1 /\ methods' = mainDoc'[ItemAt'].methods /\ Len(methods') \in Nat
    <3>1. methods' = mainDoc'[ItemAt'].methods /\ Len(methods') \in Nat
      BY <2>1, <2>6, <2>7, LenProperties
    <3>2. QED
      BY <3>1 DEF MethodAt
  <2>9. methodNames' = {mainDoc'[ItemAt'].methods[j].name : j \in 1..(MethodAt' - 1)}
    BY <2>1, <2>8
  <2>10. \A p \in DOMAIN methods' : methods'[p] = mainDoc'[ItemAt'].methods[MethodAt' - 1 + p]
    <3>1. DOMAIN methods' = 1..Len(methods')
      BY <2>7, <2>8, <2>1, LenProperties
    <3>2. QED
      BY <2>8, <3>1
  <2>11. QED
    BY <1>a, <2>1, <2>2, <2>3, <2>4, <2>5, <2>6, <2>8, <2>9, <2>10 DEF InOrder
<1>3. CASE CheckReturn
  <2> DEFINE ref == Head(methods).type.ref
  <2>1. /\ pc = "methods" /\ pc' \in {"args", "name"} /\ methods # <<>>
        /\ UNCHANGED <<mainDoc, pending, itemType, methods, methodNames>>
        /\ pc' = "args" =>
             /\ Search(NAMES, ref) # 0 /\ args' = Head(methods).args
             /\ NAMES' = Searched(NAMES, ref)
             /\ event' = IsEvent(Searched(NAMES, ref)[Search(NAMES, ref)])
    BY <1>3 DEF CheckReturn
  <2>2. ItemAt' = ItemAt /\ MethodAt' = MethodAt
    BY <2>1 DEF ItemAt, MethodAt
  <2>3. PICK some \in TypeRef : some = ref
    BY <2>1, MethodAtHand
  <2>4. /\ Search(NAMES', some) # 0 <=> Search(NAMES, some) # 0
        /\ Search(NAMES, some) # 0 => Meaning(NAMES', some) = Meaning(NAMES, some)
    BY <2>1, MeaningsStay DEF Checking
  <2>5. Head(methods').type.ref = some
    BY <2>1, <2>3
  <2>6. pc' = "args" => Search(NAMES', some) # 0 /\ event' = IsEvent(Meaning(NAMES', some))
    BY <2>1, <2>3, <2>4 DEF Meaning
  <2>7. QED
    BY <2>1, <2>2, <2>5, <2>6 DEF InOrder, Checking
<1>4. CASE CheckArg
  <2>1. /\ pc = "args" /\ pc' = "args" /\ args # <<>> /\ args' = Tail(args)
        /\ UNCHANGED <<mainDoc, pending, itemType, methods, methodNames, event>>
    BY <1>4 DEF CheckArg
  <2>2. ItemAt' = ItemAt /\ MethodAt' = MethodAt
    BY <2>1 DEF ItemAt, MethodAt
  <2>3. methods # <<>>
    BY <2>1 DEF Consistent
  <2>4. PICK some \in TypeRef : some = Head(methods).type.ref
    BY <2>1, <2>3, MethodAtHand
  <2>5. /\ Search(NAMES', some) # 0 <=> Search(NAMES, some) # 0
        /\ Search(NAMES, some) # 0 => Meaning(NAMES', some) = Meaning(NAMES, some)
    BY <2>1, MeaningsStay DEF Checking
  <2>6. Head(methods').type.ref = some
    BY <2>1, <2>4
  <2>7. Search(NAMES, some) # 0 /\ event = IsEvent(Meaning(NAMES, some))
    BY <2>1, <2>4 DEF InOrder
  <2>8. ToSet(Tail(args)) \subseteq ToSet(args)
    BY <1>a, <2>1 DEF ToSet
  <2>9. QED
    BY <2>1, <2>2, <2>5, <2>6, <2>7, <2>8 DEF InOrder, Checking
<1>5. CASE EndArgs
  <2>1. pc = "args" /\ pc' = "name" /\ UNCHANGED <<mainDoc, pending, itemType, methods, methodNames>>
    BY <1>5 DEF EndArgs, checking
  <2>2. ItemAt' = ItemAt /\ MethodAt' = MethodAt
    BY <2>1 DEF ItemAt, MethodAt
  <2>3. QED
    BY <2>1, <2>2 DEF InOrder, Checking
<1>6. CASE CheckMethodName
  <2>1. /\ pc = "name" /\ pc' = "methods" /\ methods' = Tail(methods)
        /\ methodNames' = methodNames \cup {Head(methods).name}
        /\ UNCHANGED <<mainDoc, pending, itemType>>
    BY <1>6 DEF CheckMethodName
  <2>2. methods # <<>>
    BY <2>1 DEF Consistent
  <2> DEFINE item == mainDoc[ItemAt]
  <2>3. /\ Len(item.methods) \in Nat /\ MethodAt \in Nat
        /\ MethodAt = Len(item.methods) - Len(methods) + 1
        /\ MethodAt \in DOMAIN item.methods /\ DOMAIN item.methods = 1..Len(item.methods)
        /\ Head(methods) = item.methods[MethodAt]
    BY <2>1, <2>2, MethodAtHand
  <2>4. /\ Len(methods') = Len(methods) - 1 /\ DOMAIN methods' = 1..(Len(methods) - 1)
        /\ \A p \in DOMAIN methods' : p + 1 \in DOMAIN methods /\ methods'[p] = methods[p + 1]
    BY <1>a, <2>1, <2>2
  <2>5. ItemAt' = ItemAt /\ mainDoc'[ItemAt'] = item
    BY <2>1 DEF ItemAt
  <2>6. MethodAt' = MethodAt + 1
    BY <1>a, <2>3, <2>4, <2>5 DEF MethodAt
  <2>7. \A p \in DOMAIN methods' : methods'[p] = item.methods[MethodAt' - 1 + p]
    <3>1. TAKE p \in DOMAIN methods'
    <3>2. methods'[p] = item.methods[MethodAt - 1 + (p + 1)]
      BY <2>1, <2>4 DEF InOrder
    <3>3. p \in Int /\ MethodAt \in Int
      BY <1>a, <2>3, <2>4
    <3>4. MethodAt - 1 + (p + 1) = MethodAt' - 1 + p
      BY ONLY <3>3, <2>6
    <3>5. QED
      BY <3>2, <3>4
  <2>8. methodNames' = {item.methods[j].name : j \in 1..(MethodAt' - 1)}
    <3>1. methodNames = {item.methods[j].name : j \in 1..(MethodAt - 1)}
      BY <2>1 DEF InOrder
    <3>2. \A j : j \in 1..(MethodAt' - 1) <=> j \in 1..(MethodAt - 1) \/ j = MethodAt
      BY <2>3, <2>6
    <3>3. QED
      BY <2>1, <2>3, <3>1, <3>2
  <2>9. QED
    BY <1>a, <2>1, <2>3, <2>4, <2>5, <2>6, <2>7, <2>8 DEF InOrder, Checking
<1>7. CASE EndInterface
  <2>1. pc = "methods" /\ pc' = "check" /\ UNCHANGED <<mainDoc, pending>>
    BY <1>7 DEF EndInterface, checking
  <2>2. QED
    BY <2>1 DEF InOrder, ItemAt, Checking
<1>8. CASE pc' \notin Checking
  BY <1>8 DEF InOrder, Checking
<1>9. CASE UNCHANGED <<pc, mainDoc, NAMES, err, disk, opened, pending, itemType, methods, args,
                       event, methodNames>>
  <2>1. UNCHANGED <<pc, mainDoc, NAMES, pending, itemType, methods, args, event, methodNames>>
    BY <1>9
  <2>2. ItemAt' = ItemAt /\ MethodAt' = MethodAt
    BY <2>1 DEF ItemAt, MethodAt
  <2>3. QED
    BY <2>1, <2>2 DEF InOrder, Checking
<1>10. QED
  BY <1>1, <1>2, <1>3, <1>4, <1>5, <1>6, <1>7, <1>8, <1>9, ChecksStep

-----------------------------------------------------------------------------
(* The checks and the contract say the same of a method's types.           *)

\* A declaration that has methods is of an interface.
LEMMA MethodsOfInterface ==
  ASSUME TypeOK, MainTaken, pc \in HasRead, NEW i \in DOMAIN mainDoc, mainDoc[i].methods # <<>>
  PROVE  mainDoc[i].kind \in {"BINDER", "RPC"}
<1>1. opt.input \in DOMAIN disk.aidl /\ mainDoc = IF MainOutcome.called THEN MainOutcome.items ELSE <<>>
  BY DEF MainTaken, HasRead
<1>2. mainDoc = MainOutcome.items
  <2>1. CASE MainOutcome.called
    BY <1>1, <2>1
  <2>2. CASE ~MainOutcome.called
    <3>1. mainDoc = <<>>
      BY <1>1, <2>2
    <3>2. QED
      BY <3>1
  <2>3. QED
    BY <2>1, <2>2
<1>3. \A f \in DOMAIN disk.aidl : \A s \in LexStates : \A k \in DOMAIN disk.aidl[f][s].items :
        disk.aidl[f][s].items[k].kind = "USER_DATA" => disk.aidl[f][s].items[k].methods = <<>>
  BY InputsAssumption DEF TypeOK, IsDisk
<1>4. MainOutcome.items[i].kind # "USER_DATA"
  BY <1>1, <1>2, <1>3 DEF MainOutcome, LexStates
<1>5. mainDoc[i] \in Item
  BY ElementOfSeq, LenProperties DEF TypeOK
<1>6. QED
  BY <1>2, <1>4, <1>5 DEF Item

LEMMA ArrayJudged ==
  ASSUME NEW t, NEW type \in ArgType
  PROVE  WellFormedArray(t, type) <=> ~BadArray(t, type)
<1>1. type.dimension \in Nat
  BY DEF ArgType
<1>2. /\ type.dimension > 0 <=> type.dimension # 0
      /\ type.dimension > 1 <=> type.dimension # 0 /\ type.dimension # 1
  BY <1>1
<1>3. 0 # 1
  OBVIOUS
<1>4. QED
  BY <1>2, <1>3, Zenon DEF WellFormedArray, BadArray

LEMMA CarriedJudged ==
  ASSUME NEW t, NEW kind \in {"BINDER", "RPC"}
  PROVE  Carried(kind, t) <=> CanMarshal(kind, t)
<1>1. CASE kind = "BINDER"
  <2>1. kind # "RPC"
    BY <1>1
  <2>2. QED
    BY <1>1, <2>1, Zenon DEF Carried, CanMarshal
<1>2. CASE kind = "RPC"
  <2>1. kind # "BINDER"
    BY <1>2
  <2>2. QED
    BY <1>2, <2>1, Zenon DEF Carried, CanMarshal
<1>3. QED
  BY <1>1, <1>2

\* check_method refuses a return type exactly when it is not valid.
LEMMA ReturnJudged ==
  ASSUME NEW kind \in {"BINDER", "RPC"}, NEW type \in ArgType, Search(NAMES, type.ref) # 0
  PROVE  ReturnValid(kind, type) <=> ~ReturnRefused(kind, Meaning(NAMES, type.ref), type)
<1>1. PICK t : t = Meaning(NAMES, type.ref)
  OBVIOUS
<1>2. (WellFormedArray(t, type) <=> ~BadArray(t, type)) /\ (Carried(kind, t) <=> CanMarshal(kind, t))
  BY ArrayJudged, CarriedJudged
<1>3. QED
  BY <1>1, <1>2, Zenon DEF ReturnValid, ReturnRefused

LEMMA ArgJudged ==
  ASSUME NEW kind \in {"BINDER", "RPC"}, NEW m, NEW arg \in Arg, Search(NAMES, arg.type.ref) # 0
  PROVE  ArgValid(kind, m, arg)
           <=> ~ArgRefused(kind, IsEvent(Meaning(NAMES, m.type.ref)),
                           Meaning(NAMES, arg.type.ref), arg)
<1>1. PICK t : t = Meaning(NAMES, arg.type.ref)
  OBVIOUS
<1>2. PICK r : r = Meaning(NAMES, m.type.ref)
  OBVIOUS
<1>3. arg.type \in ArgType /\ arg.type.dimension \in Nat
  BY DEF Arg, ArgType
<1>4. (WellFormedArray(t, arg.type) <=> ~BadArray(t, arg.type))
      /\ (Carried(kind, t) <=> CanMarshal(kind, t))
  BY <1>3, ArrayJudged, CarriedJudged
<1>5. arg.type.dimension > 0 <=> arg.type.dimension # 0
  BY <1>3
<1>6. arg.direction \in {"", "in"} <=> ~IsOutgoing(arg)
  <2>1. arg.direction \in {"", "in", "out", "inout"}
    BY DEF Arg
  <2>2. "" # "out" /\ "" # "inout" /\ "in" # "out" /\ "in" # "inout"
    OBVIOUS
  <2>3. QED
    BY <2>1, <2>2, Zenon DEF IsOutgoing
<1>7. (arg.direction = "") => (arg.direction \in {"", "in"})
  BY Zenon
<1> DEFINE byReference == arg.type.dimension # 0 \/ t.canBeOut \/ arg.type.star
<1>8. (t.canBeOut \/ arg.type.dimension > 0 \/ arg.type.star) <=> byReference
  BY <1>5, Zenon
<1>9. /\ ArgRefused(kind, IsEvent(r), t, arg)
           <=> \/ IsEvent(t) \/ ~CanMarshal(kind, t)
               \/ IsEvent(r) /\ IsOutgoing(arg)
               \/ arg.direction = "" /\ byReference
               \/ IsOutgoing(arg) /\ ~byReference
               \/ BadArray(t, arg.type) \/ arg.keyword
  BY Zenon DEF ArgRefused
<1>10. ArgValid(kind, m, arg)
         <=> /\ ~arg.keyword /\ Carried(kind, t) /\ ~IsEvent(t)
             /\ WellFormedArray(t, arg.type)
             /\ IF byReference THEN arg.direction # "" ELSE arg.direction \in {"", "in"}
             /\ IsEvent(r) => arg.direction \in {"", "in"}
  BY <1>1, <1>2, <1>8, Zenon DEF ArgValid
<1> HIDE DEF byReference
<1>11. QED
  BY <1>1, <1>2, <1>4, <1>6, <1>9, <1>10, Zenon

-----------------------------------------------------------------------------
(* What is valid stays valid while methods are checked.                    *)

LEMMA TypesStay ==
  ASSUME TypeOK, Consistent, NamesUnique, GenericsLast, [Next]_vars, pc \in Checking
  PROVE  /\ \A kind : \A type \in ArgType : ReturnValid(kind, type)' <=> ReturnValid(kind, type)
         /\ \A kind : \A m \in Method : \A arg \in Arg :
              Search(NAMES, m.type.ref) # 0 =>
                (ArgValid(kind, m, arg)' <=> ArgValid(kind, m, arg))
         /\ \A kind : \A m \in Method : TypesValid(kind, m)' <=> TypesValid(kind, m)
<1>1. ASSUME NEW ref \in TypeRef
      PROVE  /\ Search(NAMES', ref) # 0 <=> Search(NAMES, ref) # 0
             /\ Search(NAMES, ref) # 0 => Meaning(NAMES', ref) = Meaning(NAMES, ref)
  BY MeaningsStay
<1>2. ASSUME NEW kind, NEW type \in ArgType
      PROVE  ReturnValid(kind, type)' <=> ReturnValid(kind, type)
  <2>1. type.ref \in TypeRef
    BY DEF ArgType
  <2>2. QED
    BY <1>1, <2>1 DEF ReturnValid
<1>3. ASSUME NEW kind, NEW m \in Method, NEW arg \in Arg, Search(NAMES, m.type.ref) # 0
      PROVE  ArgValid(kind, m, arg)' <=> ArgValid(kind, m, arg)
  <2>1. m.type.ref \in TypeRef /\ arg.type.ref \in TypeRef
    BY DEF Method, Arg, ArgType
  <2>2. Meaning(NAMES', m.type.ref) = Meaning(NAMES, m.type.ref)
    BY <1>1, <1>3, <2>1
  <2>3. Search(NAMES', arg.type.ref) # 0 <=> Search(NAMES, arg.type.ref) # 0
    BY <1>1, <2>1
  <2>4. CASE Search(NAMES, arg.type.ref) # 0
    <3>1. Meaning(NAMES', arg.type.ref) = Meaning(NAMES, arg.type.ref)
      BY <1>1, <2>1, <2>4
    <3>2. QED
      BY <2>2, <2>3, <2>4, <3>1, Zenon DEF ArgValid
  <2>5. CASE Search(NAMES, arg.type.ref) = 0
    BY <2>3, <2>5, Zenon DEF ArgValid
  <2>6. QED
    BY <2>4, <2>5
<1>4. ASSUME NEW kind, NEW m \in Method
      PROVE  TypesValid(kind, m)' <=> TypesValid(kind, m)
  <2>1. m.type \in ArgType /\ m.args \in Seq(Arg)
    BY DEF Method
  <2>2. ToSet(m.args) \subseteq Arg
    BY <2>1, ElementOfSeq, LenProperties DEF ToSet
  <2>3. ReturnValid(kind, m.type)' <=> ReturnValid(kind, m.type)
    BY <1>2, <2>1
  <2>4. CASE ReturnValid(kind, m.type)
    <3>1. Search(NAMES, m.type.ref) # 0
      BY <2>4 DEF ReturnValid
    <3>2. \A a \in ToSet(m.args) : ArgValid(kind, m, a)' <=> ArgValid(kind, m, a)
      BY <1>3, <2>2, <3>1
    <3>3. QED
      BY <2>3, <3>2 DEF TypesValid
  <2>5. CASE ~ReturnValid(kind, m.type)
    BY <2>3, <2>5 DEF TypesValid
  <2>6. QED
    BY <2>4, <2>5
<1>5. QED
  BY <1>2, <1>3, <1>4

\* The verdict on the declarations and the methods stays.
LEMMA VerdictStays ==
  ASSUME TypeOK, Consistent, NamesUnique, GenericsLast, MainTaken, [Next]_vars, pc \in Checking
  PROVE  /\ mainDoc' = mainDoc
         /\ DeclarationsWrong => DeclarationsWrong'
         /\ MethodsValid' <=> MethodsValid
         /\ FilesNamedRight /\ (\A d \in DeclaredItems : Fits(d.item))
              => FilesNamedRight' /\ (\A d \in DeclaredItems : Fits(d.item))'
         /\ \A i \in DOMAIN mainDoc : \A n \in 0..Len(mainDoc[i].methods) :
              ValidUpTo(mainDoc[i], n)' <=> ValidUpTo(mainDoc[i], n)
<1>1. mainDoc' = mainDoc /\ pc \in HasRead
  BY PhaseStep DEF Checking, HasRead
<1>2. /\ UNCHANGED DeclaredItems /\ (FilesNamedRight' <=> FilesNamedRight)
      /\ \A d \in DeclaredItems : Fits(d.item) => Fits(d.item)'
      /\ DeclarationsWrong => DeclarationsWrong'
  BY <1>1, DeclarationsStay
<1>3. \A kind : \A m \in Method : TypesValid(kind, m)' <=> TypesValid(kind, m)
  BY TypesStay
<1>4. \A i \in DOMAIN mainDoc : /\ mainDoc[i].methods \in Seq(Method)
                                /\ DOMAIN mainDoc[i].methods = 1..Len(mainDoc[i].methods)
                                /\ Len(mainDoc[i].methods) \in Nat
                                /\ \A j \in 1..Len(mainDoc[i].methods) : mainDoc[i].methods[j] \in Method
  <2>1. ASSUME NEW i \in DOMAIN mainDoc
        PROVE  mainDoc[i].methods \in Seq(Method)
    <3>1. mainDoc[i] \in Item
      BY ElementOfSeq, LenProperties DEF TypeOK
    <3>2. QED
      BY <3>1 DEF Item
  <2>2. QED
    BY <2>1, ElementOfSeq, LenProperties
<1>5. MethodsValid' <=> MethodsValid
  <2>1. ASSUME NEW i \in DOMAIN mainDoc, NEW m \in ToSet(mainDoc[i].methods)
        PROVE  m \in Method
    BY <1>4, <2>1 DEF ToSet
  <2>2. \A item \in ToSet(mainDoc) : \A m \in ToSet(item.methods) :
          TypesValid(item.kind, m)' <=> TypesValid(item.kind, m)
    BY <1>3, <2>1 DEF ToSet
  <2>3. QED
    BY <1>1, <2>2 DEF MethodsValid
<1>6. ASSUME NEW i \in DOMAIN mainDoc, NEW n \in 0..Len(mainDoc[i].methods)
      PROVE  ValidUpTo(mainDoc[i], n)' <=> ValidUpTo(mainDoc[i], n)
  <2>1. \A j \in 1..n : mainDoc[i].methods[j] \in Method
    BY <1>4
  <2>2. PICK item : item = mainDoc[i]
    OBVIOUS
  <2>3. \A j \in 1..n : TypesValid(item.kind, item.methods[j])' <=> TypesValid(item.kind, item.methods[j])
    BY <1>3, <2>1, <2>2
  <2>4. ValidUpTo(item, n)' <=> ValidUpTo(item, n)
    BY <2>3 DEF ValidUpTo
  <2>5. QED
    BY <1>1, <2>2, <2>4 DEF ValidUpTo
<1>7. QED
  BY <1>1, <1>2, <1>5, <1>6

\* A method that is not valid spoils the whole.
LEMMA BadMethod ==
  ASSUME NEW i \in DOMAIN mainDoc, NEW j \in DOMAIN mainDoc[i].methods,
         \/ ~TypesValid(mainDoc[i].kind, mainDoc[i].methods[j])
         \/ \E k \in DOMAIN mainDoc[i].methods :
              k # j /\ mainDoc[i].methods[k].name = mainDoc[i].methods[j].name
  PROVE  ~MethodsValid
<1>1. mainDoc[i] \in ToSet(mainDoc) /\ mainDoc[i].methods[j] \in ToSet(mainDoc[i].methods)
  BY DEF ToSet
<1>2. QED
  BY <1>1 DEF MethodsValid

-----------------------------------------------------------------------------
(* The verdict of the checks.                                              *)

\* The number of the declaration at hand.
LEMMA ItemAtHand ==
  ASSUME TypeOK, InOrder, pc \in Checking
  PROVE  /\ ItemAt \in Nat /\ ItemAt <= Len(mainDoc) /\ Len(mainDoc) \in Nat
         /\ DOMAIN mainDoc = 1..Len(mainDoc)
         /\ \A i \in DOMAIN mainDoc : mainDoc[i] \in Item /\ Len(mainDoc[i].methods) \in Nat
<1>1. /\ Len(mainDoc) \in Nat /\ Len(pending) \in Nat /\ Len(pending) <= Len(mainDoc)
      /\ DOMAIN mainDoc = 1..Len(mainDoc)
  BY LenProperties DEF TypeOK, InOrder
<1>2. \A i \in DOMAIN mainDoc : mainDoc[i] \in Item
  BY ElementOfSeq, LenProperties DEF TypeOK
<1>3. \A i \in DOMAIN mainDoc : Len(mainDoc[i].methods) \in Nat
  BY <1>2, LenProperties DEF Item
<1>4. QED
  BY <1>1, <1>2, <1>3 DEF ItemAt

\* The checks begin with every declaration judged.
LEMMA ChecksBegin ==
  ASSUME TypeOK, Consistent, NamesUnique, MainTaken, GatherJudged, [Next]_vars, EndGather
  PROVE  ChecksJudged'
<1>1. /\ pc = "gather" /\ todo = <<>> /\ pc' = "check" /\ pending' = mainDoc
      /\ UNCHANGED <<mainDoc, NAMES, err>>
  BY DEF EndGather
<1>2. /\ UNCHANGED DeclaredItems /\ (FilesNamedRight' <=> FilesNamedRight)
      /\ \A d \in DeclaredItems : Fits(d.item) => Fits(d.item)'
      /\ DeclarationsWrong => DeclarationsWrong'
  BY <1>1, DeclarationsStay DEF HasRead
<1>3. ItemAt' = 0
  BY <1>1, LenProperties DEF ItemAt, TypeOK
<1>4. \A d \in DeclaredItems : ~Ahead(d.item)
  BY <1>1 DEF Ahead
<1>5. err => DeclarationsWrong
  BY <1>1 DEF GatherJudged
<1>6. ~err => FilesNamedRight /\ \A d \in DeclaredItems : Fits(d.item)
  BY <1>1, <1>4 DEF GatherJudged
<1>7. QED
  BY <1>1, <1>2, <1>3, <1>5, <1>6 DEF ChecksJudged, BehindValid, Checking

\* The method at hand, its return type and the argument at hand.
LEMMA ReturnChecked ==
  ASSUME TypeOK, Consistent, MainTaken, InOrder, CheckReturn
  PROVE  LET m == Head(methods)
         IN  /\ pc' = "name" => err' /\ ~ReturnValid(itemType, m.type)
             /\ err' => err \/ ~ReturnValid(itemType, m.type)
             /\ ~err' => pc' = "args" /\ ~err /\ ReturnValid(itemType, m.type)
<1> DEFINE m == Head(methods)
           found == Search(NAMES, m.type.ref)
<1>1. pc = "methods" /\ methods # <<>>
  BY DEF CheckReturn
<1>2. /\ ItemAt \in DOMAIN mainDoc /\ itemType = mainDoc[ItemAt].kind
      /\ MethodAt \in DOMAIN mainDoc[ItemAt].methods /\ m \in Method
  BY <1>1, MethodAtHand
<1>3. mainDoc[ItemAt].methods # <<>>
  BY <1>2
<1>4. itemType \in {"BINDER", "RPC"}
  BY <1>1, <1>2, <1>3, MethodsOfInterface DEF HasRead
<1>5. m.type \in ArgType
  BY <1>2 DEF Method
<1>6. CASE found = 0
  <2>1. err' /\ pc' = "name"
    BY <1>6 DEF CheckReturn
  <2>2. QED
    BY <1>6, <2>1 DEF ReturnValid
<1>7. CASE found # 0
  <2>1. /\ NAMES' = Searched(NAMES, m.type.ref) /\ pc' = "args"
        /\ err' = (err \/ ReturnRefused(itemType, NAMES'[found], m.type))
    BY <1>7 DEF CheckReturn
  <2>2. NAMES'[found] = Meaning(NAMES, m.type.ref)
    BY <2>1 DEF Meaning
  <2>3. ReturnValid(itemType, m.type) <=> ~ReturnRefused(itemType, Meaning(NAMES, m.type.ref), m.type)
    BY <1>4, <1>5, <1>7, ReturnJudged
  <2>4. QED
    BY <2>1, <2>2, <2>3
<1>8. QED
  BY <1>6, <1>7

LEMMA ArgChecked ==
  ASSUME TypeOK, Consistent, MainTaken, InOrder, CheckArg
  PROVE  LET m == Head(methods)
         IN  /\ Head(args) \in ToSet(m.args)
             /\ \A a \in ToSet(args) : a = Head(args) \/ a \in ToSet(args')
             /\ err' => err \/ ~ArgValid(itemType, m, Head(args))
             /\ ~err' => ~err /\ ArgValid(itemType, m, Head(args))
<1> DEFINE m == Head(methods)
           arg == Head(args)
           found == Search(NAMES, arg.type.ref)
<1>1. pc = "args" /\ args # <<>> /\ methods # <<>> /\ args' = Tail(args)
  BY DEF CheckArg, Consistent
<1>2. /\ ItemAt \in DOMAIN mainDoc /\ itemType = mainDoc[ItemAt].kind
      /\ MethodAt \in DOMAIN mainDoc[ItemAt].methods /\ m \in Method
  BY <1>1, MethodAtHand
<1>3. mainDoc[ItemAt].methods # <<>>
  BY <1>2
<1>4. itemType \in {"BINDER", "RPC"}
  BY <1>1, <1>2, <1>3, MethodsOfInterface DEF HasRead
<1>5. /\ args \in Seq(Arg) /\ Len(args) \in Nat /\ DOMAIN args = 1..Len(args)
      /\ DOMAIN Tail(args) = 1..(Len(args) - 1) /\ 1 \in DOMAIN args /\ arg = args[1]
      /\ \A i \in DOMAIN Tail(args) : i + 1 \in DOMAIN args /\ Tail(args)[i] = args[i + 1]
  BY <1>1, LenProperties DEF TypeOK
<1>6. arg \in Arg /\ arg \in ToSet(args)
  BY <1>5 DEF ToSet
<1>7. arg \in ToSet(m.args) /\ event = IsEvent(Meaning(NAMES, m.type.ref))
  BY <1>1, <1>6 DEF InOrder
<1>8. ASSUME NEW a \in ToSet(args), a # arg
      PROVE  a \in ToSet(args')
  <2>1. PICK i \in 1..Len(args) : a = args[i]
    BY <1>5 DEF ToSet
  <2>2. i - 1 \in DOMAIN Tail(args) /\ Tail(args)[i - 1] = args[i]
    BY <1>5, <1>8, <2>1
  <2>3. QED
    BY <1>1, <2>1, <2>2 DEF ToSet
<1>9. err' = (err \/ found = 0 \/ ArgRefused(itemType, event, NAMES'[found], arg))
      /\ NAMES' = Searched(NAMES, arg.type.ref)
  BY DEF CheckArg
<1>10. CASE found = 0
  BY <1>6, <1>7, <1>8, <1>9, <1>10 DEF ArgValid
<1>11. CASE found # 0
  <2>1. NAMES'[found] = Meaning(NAMES, arg.type.ref)
    BY <1>9 DEF Meaning
  <2>2. ArgValid(itemType, m, arg)
          <=> ~ArgRefused(itemType, event, Meaning(NAMES, arg.type.ref), arg)
    BY <1>4, <1>6, <1>7, <1>11, ArgJudged
  <2>3. QED
    BY <1>7, <1>8, <1>9, <1>11, <2>1, <2>2
<1>12. QED
  BY <1>10, <1>11

LEMMA ChecksJudgedPreserved ==
  ASSUME TypeOK, Consistent, NamesUnique, GenericsLast, MainTaken, GatherJudged, InOrder,
         ChecksJudged, [Next]_vars
  PROVE  ChecksJudged'
<1> DEFINE item == mainDoc[ItemAt]
           m == Head(methods)
<1>a. ASSUME pc \in Checking
      PROVE  /\ mainDoc' = mainDoc
             /\ DeclarationsWrong \/ ~MethodsValid => DeclarationsWrong' \/ ~MethodsValid'
             /\ FilesNamedRight /\ (\A d \in DeclaredItems : Fits(d.item))
                  => FilesNamedRight' /\ (\A d \in DeclaredItems : Fits(d.item))'
             /\ \A i \in DOMAIN mainDoc : \A n \in 0..Len(mainDoc[i].methods) :
                  ValidUpTo(mainDoc[i], n)' <=> ValidUpTo(mainDoc[i], n)
             /\ err => DeclarationsWrong \/ ~MethodsValid
             /\ ~err => BehindValid
  BY <1>a, VerdictStays DEF ChecksJudged
<1>b. ASSUME pc \in Checking, ~err
      PROVE  /\ FilesNamedRight' /\ (\A d \in DeclaredItems : Fits(d.item))'
             /\ \A i \in 1..(IF pc = "check" THEN ItemAt ELSE ItemAt - 1) :
                  ValidUpTo(mainDoc[i], Len(mainDoc[i].methods))'
  <2>1. BehindValid
    BY <1>a, <1>b
  <2>2. FilesNamedRight' /\ (\A d \in DeclaredItems : Fits(d.item))'
    BY <1>a, <1>b, <2>1 DEF BehindValid
  <2>3. ASSUME NEW i \in 1..(IF pc = "check" THEN ItemAt ELSE ItemAt - 1)
        PROVE  ValidUpTo(mainDoc[i], Len(mainDoc[i].methods))'
    <3>1. ValidUpTo(mainDoc[i], Len(mainDoc[i].methods))
      BY <2>1 DEF BehindValid
    <3>2. i \in DOMAIN mainDoc /\ Len(mainDoc[i].methods) \in 0..Len(mainDoc[i].methods)
      BY <1>b, ItemAtHand
    <3>3. PICK n \in 0..Len(mainDoc[i].methods) : n = Len(mainDoc[i].methods)
      BY <3>2
    <3>4. ValidUpTo(mainDoc[i], n)' /\ n = Len(mainDoc'[i].methods)
      BY <1>a, <1>b, <3>1, <3>2, <3>3
    <3>5. QED
      BY <3>4 DEF ValidUpTo
  <2>4. QED
    BY <2>2, <2>3
<1>c. ASSUME pc \in Checking, err' => err \/ ~MethodsValid, err'
      PROVE  DeclarationsWrong' \/ ~MethodsValid'
  BY <1>a, <1>c
<1>d. ASSUME pc \in Checking, pc \in {"methods", "args", "name"}
      PROVE  /\ ItemAt \in DOMAIN mainDoc /\ itemType = item.kind
             /\ methods # <<>> => MethodAt \in DOMAIN item.methods /\ m = item.methods[MethodAt]
             /\ methods # <<>> /\ ~TypesValid(itemType, m) => ~MethodsValid
  <2>1. /\ ItemAt \in DOMAIN mainDoc /\ itemType = item.kind
        /\ methods # <<>> => MethodAt \in DOMAIN item.methods /\ m = item.methods[MethodAt]
    BY <1>d, MethodAtHand
  <2>2. QED
    BY <2>1, BadMethod
<1>e. ASSUME pc \in {"methods", "args", "name"}, ~err, ItemAt' = ItemAt, MethodAt' = MethodAt
      PROVE  ValidUpTo(mainDoc[ItemAt], MethodAt - 1)'
  <2>1. pc \in Checking /\ pc # "check"
    BY <1>e DEF Checking
  <2>2. ValidUpTo(mainDoc[ItemAt], MethodAt - 1)
    BY <1>a, <1>e, <2>1 DEF BehindValid
  <2>3. ItemAt \in DOMAIN mainDoc /\ MethodAt - 1 \in 0..Len(item.methods)
    <3>1. /\ ItemAt \in DOMAIN mainDoc /\ Len(item.methods) \in Nat /\ Len(methods) \in Nat
          /\ MethodAt = Len(item.methods) - Len(methods) + 1
          /\ methods # <<>> => MethodAt \in DOMAIN item.methods
          /\ DOMAIN item.methods = 1..Len(item.methods)
          /\ methods = <<>> => MethodAt = Len(item.methods) + 1
      BY <1>e, MethodAtHand
    <3>2. QED
      BY <3>1
  <2>4. PICK i \in DOMAIN mainDoc, n \in 0..Len(item.methods) : i = ItemAt /\ n = MethodAt - 1
    BY <2>3
  <2>5. ValidUpTo(mainDoc[i], n)'
    BY <1>a, <2>1, <2>2, <2>4
  <2>6. QED
    BY <1>e, <2>4, <2>5
<1>f. ASSUME pc \in {"methods", "args", "name"}, methods # <<>>, UNCHANGED <<itemType, methods>>,
             ReturnValid(itemType, m.type)
      PROVE  /\ ReturnValid(itemType, Head(methods).type)'
             /\ \A a \in ToSet(m.args) :
                  ArgValid(itemType, m, a) => ArgValid(itemType, Head(methods), a)'
  <2>1. m \in Method /\ m.type \in ArgType /\ m.args \in Seq(Arg)
    BY <1>f, MethodAtHand DEF Method
  <2>2. PICK some \in Method : some = m
    BY <2>1
  <2>3. PICK kind : kind = itemType
    OBVIOUS
  <2>4. ToSet(m.args) \subseteq Arg
    BY <2>1, ElementOfSeq, LenProperties DEF ToSet
  <2>5. pc \in Checking /\ Search(NAMES, some.type.ref) # 0 /\ some.type \in ArgType
    BY <1>f, <2>1, <2>2 DEF Checking, ReturnValid
  <2>6. ReturnValid(kind, some.type)'
    BY <1>f, <2>2, <2>3, <2>5, TypesStay
  <2>7. \A a \in ToSet(m.args) : ArgValid(kind, some, a) => ArgValid(kind, some, a)'
    BY <2>4, <2>5, TypesStay
  <2>8. ReturnValid(itemType, Head(methods).type)'
    BY <1>f, <2>2, <2>3, <2>6 DEF ReturnValid
  <2>9. ASSUME NEW a \in ToSet(m.args), ArgValid(itemType, m, a)
        PROVE  ArgValid(itemType, Head(methods), a)'
    <3>1. ArgValid(kind, some, a)'
      BY <2>2, <2>3, <2>7, <2>9
    <3>2. QED
      BY <1>f, <2>2, <2>3, <3>1 DEF ArgValid
  <2>10. QED
    BY <2>8, <2>9
<1>1. CASE EndGather
  BY <1>1, ChecksBegin
<1>2. CASE CheckInterface
  <2>1. pc = "check" /\ pc' = "methods" /\ pc \in Checking /\ err' = err
        /\ pending # <<>> /\ pending' = Tail(pending) /\ methods' = Head(pending).methods
    BY <1>2 DEF CheckInterface, Checking
  <2>2. InOrder'
    BY InOrderPreserved
  <2>3. ItemAt' = ItemAt + 1 /\ ItemAt \in Nat /\ ItemAt' \in DOMAIN mainDoc
    <3>1. /\ Len(pending) \in Nat /\ Len(pending') = Len(pending) - 1
          /\ Len(pending) <= Len(mainDoc) /\ Len(mainDoc) \in Nat /\ mainDoc' = mainDoc
      BY <1>a, <2>1, LenProperties DEF TypeOK, InOrder
    <3>2. DOMAIN mainDoc = 1..Len(mainDoc)
      BY LenProperties DEF TypeOK
    <3>3. QED
      BY <3>1, <3>2, <2>1, <2>2 DEF ItemAt, InOrder
  <2>4. MethodAt' = 1
    <3>1. Head(pending) = pending[1] /\ 1 \in DOMAIN pending
      BY <2>1, LenProperties DEF TypeOK
    <3>2. pending[1] = mainDoc[ItemAt + 1]
      BY <2>1, <3>1 DEF InOrder
    <3>3. methods' = mainDoc'[ItemAt'].methods /\ Len(methods') \in Nat
      BY <1>a, <2>1, <2>3, <3>1, <3>2, ItemAtHand
    <3>4. QED
      BY <3>3 DEF MethodAt
  <2>5. ValidUpTo(mainDoc[ItemAt], MethodAt - 1)'
    BY <2>4 DEF ValidUpTo
  <2>6. ~err => BehindValid'
    <3>1. SUFFICES ASSUME ~err PROVE BehindValid'
      OBVIOUS
    <3>2. 1..(ItemAt' - 1) = 1..ItemAt
      BY <2>3
    <3>3. QED
      BY <1>b, <2>1, <2>5, <3>1, <3>2 DEF BehindValid
  <2>7. QED
    BY <1>c, <2>1, <2>6 DEF ChecksJudged
<1>3. CASE CheckReturn
  <2>1. /\ pc = "methods" /\ pc \in Checking /\ pc' \in {"name", "args"} /\ methods # <<>>
        /\ pc' = "args" => args' = m.args
        /\ UNCHANGED <<mainDoc, pending, itemType, methods>>
    BY <1>3 DEF CheckReturn, Checking
  <2>2. /\ pc' = "name" => err' /\ ~ReturnValid(itemType, m.type)
        /\ err' => err \/ ~ReturnValid(itemType, m.type)
        /\ ~err' => pc' = "args" /\ ~err /\ ReturnValid(itemType, m.type)
    BY <1>3, ReturnChecked
  <2>3. err' => err \/ ~MethodsValid
    BY <1>d, <2>1, <2>2 DEF TypesValid
  <2>4. ItemAt' = ItemAt /\ MethodAt' = MethodAt
    BY <2>1 DEF ItemAt, MethodAt
  <2>5. ASSUME ~err' PROVE BehindValid'
    <3>1. pc' = "args" /\ ~err /\ ReturnValid(itemType, m.type)
      BY <2>2, <2>5
    <3>2. ReturnValid(itemType, Head(methods).type)'
      BY <1>f, <2>1, <3>1
    <3>3. ValidUpTo(mainDoc[ItemAt], MethodAt - 1)'
      BY <1>e, <2>1, <2>4, <3>1
    <3>4. QED
      BY <1>b, <2>1, <2>4, <3>1, <3>2, <3>3 DEF BehindValid
  <2>6. QED
    BY <1>c, <2>1, <2>3, <2>5 DEF ChecksJudged
<1>4. CASE CheckArg
  <2>1. /\ pc = "args" /\ pc' = "args" /\ pc \in Checking /\ methods # <<>>
        /\ UNCHANGED <<mainDoc, pending, itemType, methods>>
    BY <1>4 DEF CheckArg, Checking, Consistent
  <2>2. /\ Head(args) \in ToSet(m.args)
        /\ \A a \in ToSet(args) : a = Head(args) \/ a \in ToSet(args')
        /\ err' => err \/ ~ArgValid(itemType, m, Head(args))
        /\ ~err' => ~err /\ ArgValid(itemType, m, Head(args))
    BY <1>4, ArgChecked
  <2>3. err' => err \/ ~MethodsValid
    BY <1>d, <2>1, <2>2 DEF TypesValid
  <2>4. ItemAt' = ItemAt /\ MethodAt' = MethodAt
    BY <2>1 DEF ItemAt, MethodAt
  <2>5. ASSUME ~err' PROVE BehindValid'
    <3>1. ~err /\ ArgValid(itemType, m, Head(args))
      BY <2>2, <2>5
    <3>2. /\ ReturnValid(itemType, m.type)
          /\ \A a \in ToSet(m.args) : ArgValid(itemType, m, a) \/ a \in ToSet(args')
      BY <1>a, <2>1, <2>2, <3>1 DEF BehindValid
    <3>3. /\ ReturnValid(itemType, Head(methods).type)'
          /\ \A a \in ToSet(m.args) :
               ArgValid(itemType, Head(methods), a)' \/ a \in ToSet(args')
      BY <1>f, <2>1, <3>2
    <3>4. ValidUpTo(mainDoc[ItemAt], MethodAt - 1)'
      BY <1>e, <2>1, <2>4, <3>1
    <3>5. QED
      BY <1>b, <2>1, <2>4, <3>1, <3>3, <3>4 DEF BehindValid
  <2>6. QED
    BY <1>c, <2>1, <2>3, <2>5 DEF ChecksJudged
<1>5. CASE EndArgs
  <2>1. /\ pc = "args" /\ pc' = "name" /\ pc \in Checking /\ methods # <<>> /\ args = <<>>
        /\ UNCHANGED <<mainDoc, pending, itemType, methods, err>>
    BY <1>5 DEF EndArgs, Checking, Consistent, checking
  <2>2. ItemAt' = ItemAt /\ MethodAt' = MethodAt
    BY <2>1 DEF ItemAt, MethodAt
  <2>3. ASSUME ~err PROVE BehindValid'
    <3>1. ToSet(args) = {}
      BY <2>1 DEF ToSet
    <3>2. ReturnValid(itemType, m.type) /\ \A a \in ToSet(m.args) : ArgValid(itemType, m, a)
      BY <1>a, <2>1, <2>3, <3>1 DEF BehindValid
    <3>3. /\ ReturnValid(itemType, Head(methods).type)'
          /\ \A a \in ToSet(m.args) : ArgValid(itemType, Head(methods), a)'
      BY <1>f, <2>1, <3>2
    <3>4. ValidUpTo(mainDoc[ItemAt], MethodAt - 1)'
      BY <1>e, <2>1, <2>2, <2>3
    <3>5. QED
      BY <1>b, <2>1, <2>2, <2>3, <3>3, <3>4 DEF BehindValid
  <2>4. QED
    BY <1>c, <2>1, <2>3 DEF ChecksJudged
<1>6. CASE CheckMethodName
  <2>1. /\ pc = "name" /\ pc' = "methods" /\ pc \in Checking /\ methods # <<>>
        /\ err' = (err \/ m.name \in methodNames) /\ methods' = Tail(methods)
        /\ UNCHANGED <<mainDoc, pending, itemType, NAMES>>
    BY <1>6 DEF CheckMethodName, Checking, Consistent
  <2>2. /\ ItemAt \in DOMAIN mainDoc /\ itemType = item.kind
        /\ DOMAIN item.methods = 1..Len(item.methods)
        /\ MethodAt \in DOMAIN item.methods /\ MethodAt \in Nat
        /\ MethodAt = Len(item.methods) - Len(methods) + 1 /\ Len(item.methods) \in Nat
        /\ m = item.methods[MethodAt]
        /\ methodNames = {item.methods[j].name : j \in 1..(MethodAt - 1)}
    BY <2>1, MethodAtHand DEF InOrder
  <2>3. m.name \in methodNames => ~MethodsValid
    <3>1. SUFFICES ASSUME m.name \in methodNames PROVE ~MethodsValid
      OBVIOUS
    <3>2. PICK j \in 1..(MethodAt - 1) : item.methods[j].name = m.name
      BY <2>2, <3>1
    <3>3. j \in DOMAIN item.methods /\ j # MethodAt
      BY <2>2
    <3>4. QED
      BY <2>2, <3>2, <3>3, BadMethod
  <2>4. ItemAt' = ItemAt /\ MethodAt' = MethodAt + 1 /\ 1..(MethodAt' - 1) = 1..MethodAt
    <3>1. Len(methods') = Len(methods) - 1 /\ Len(methods) \in Nat
      BY <2>1, LenProperties DEF TypeOK
    <3>2. QED
      BY <2>1, <2>2, <3>1 DEF ItemAt, MethodAt
  <2>5. ASSUME ~err' PROVE BehindValid'
    <3>1. ~err /\ m.name \notin methodNames
      BY <2>1, <2>5
    <3>2. /\ ReturnValid(itemType, m.type) /\ \A a \in ToSet(m.args) : ArgValid(itemType, m, a)
          /\ ValidUpTo(item, MethodAt - 1)
      BY <1>a, <2>1, <3>1 DEF BehindValid
    <3>3. TypesValid(item.kind, item.methods[MethodAt])
      BY <2>2, <3>2 DEF TypesValid
    <3>4. ValidUpTo(item, MethodAt)
      <4>1. \A j \in 1..MethodAt : j \in 1..(MethodAt - 1) \/ j = MethodAt
        BY <2>2
      <4>2. \A j \in 1..(MethodAt - 1) : item.methods[j].name # item.methods[MethodAt].name
        BY <2>2, <3>1
      <4>3. QED
        BY <3>2, <3>3, <4>1, <4>2 DEF ValidUpTo
    <3>5. ValidUpTo(mainDoc[ItemAt], MethodAt - 1)'
      <4>1. PICK i \in DOMAIN mainDoc : i = ItemAt
        BY <2>2
      <4>2. PICK n \in 0..Len(mainDoc[i].methods) : n = MethodAt
        BY <2>2, <4>1
      <4>3. ValidUpTo(mainDoc[i], n)'
        BY <1>a, <2>1, <3>4, <4>1, <4>2
      <4>4. MethodAt' - 1 = n
        BY <2>2, <2>4, <4>2
      <4>5. QED
        BY <2>4, <4>1, <4>3, <4>4 DEF ValidUpTo
    <3>6. QED
      BY <1>b, <2>1, <2>4, <3>1, <3>5 DEF BehindValid
  <2>6. QED
    BY <1>c, <2>1, <2>3, <2>5 DEF ChecksJudged
<1>7. CASE EndInterface
  <2>1. /\ pc = "methods" /\ pc' = "check" /\ pc \in Checking /\ methods = <<>>
        /\ UNCHANGED <<mainDoc, pending, err, methods>>
    BY <1>7 DEF EndInterface, Checking, checking
  <2>2. /\ ItemAt \in DOMAIN mainDoc /\ Len(item.methods) \in Nat /\ MethodAt \in Nat
        /\ MethodAt = Len(item.methods) + 1
    BY <2>1, MethodAtHand
  <2>3. ItemAt' = ItemAt /\ MethodAt' = MethodAt
    BY <2>1 DEF ItemAt, MethodAt
  <2>4. ASSUME ~err PROVE BehindValid'
    <3>1. ValidUpTo(mainDoc[ItemAt], MethodAt - 1)'
      BY <1>e, <2>1, <2>3, <2>4
    <3>2. ASSUME NEW i \in 1..ItemAt
          PROVE  ValidUpTo(mainDoc[i], Len(mainDoc[i].methods))'
      <4>1. CASE i = ItemAt
        <5>1. MethodAt' - 1 = Len(mainDoc'[i].methods)
          BY <1>a, <2>1, <2>2, <2>3, <4>1
        <5>2. QED
          BY <2>3, <3>1, <4>1, <5>1 DEF ValidUpTo
      <4>2. CASE i # ItemAt
        <5>1. i \in 1..(ItemAt - 1)
          BY <2>1, <4>2, ItemAtHand
        <5>2. QED
          BY <1>b, <2>1, <2>4, <5>1
      <4>3. QED
        BY <4>1, <4>2
    <3>3. QED
      BY <1>b, <2>1, <2>3, <2>4, <3>2 DEF BehindValid
  <2>5. QED
    BY <1>c, <2>1, <2>4 DEF ChecksJudged
<1>8. CASE pc' \notin Checking
  BY <1>8 DEF ChecksJudged
<1>9. CASE /\ pc' \in Checking
           /\ UNCHANGED <<pc, mainDoc, NAMES, err, disk, opened, pending, itemType, methods, args,
                          event, methodNames>>
  <2>1. ItemAt' = ItemAt /\ MethodAt' = MethodAt
    BY <1>9 DEF ItemAt, MethodAt
  <2>2. ASSUME ~err PROVE BehindValid'
    <3>1. BehindValid
      BY <1>a, <1>9, <2>2
    <3>2. pc # "check" => ValidUpTo(mainDoc[ItemAt], MethodAt - 1)'
      BY <1>e, <1>9, <2>1, <2>2 DEF Checking
    <3>3. pc \in {"args", "name"} =>
            /\ ReturnValid(itemType, Head(methods).type)'
            /\ \A a \in ToSet(m.args) :
                 ArgValid(itemType, Head(methods), a)' \/ (pc = "args" /\ a \in ToSet(args))
      BY <1>f, <1>9, <3>1 DEF BehindValid, Consistent
    <3>4. QED
      BY <1>b, <1>9, <2>1, <2>2, <3>2, <3>3 DEF BehindValid
  <2>3. QED
    BY <1>c, <1>9, <2>2 DEF ChecksJudged
<1>10. QED
  BY <1>1, <1>2, <1>3, <1>4, <1>5, <1>6, <1>7, <1>8, <1>9, ChecksStep

-----------------------------------------------------------------------------
(* What is written, and when.                                              *)

LEMMA OutputPreserved ==
  ASSUME TypeOK, Consistent, OutputInv, [Next]_vars
  PROVE  OutputInv'
<1> USE DEF OutputInv
<1>a. UNCHANGED <<opt, disk>>
  BY PhaseStep
<1>1. CASE \/ OpenPreprocessed \/ ScanLine \/ ClosePreprocessed \/ ParseMain
           \/ SkipKnownImport \/ MissImport \/ FindImport \/ ParseImport \/ LoseImport
           \/ CheckFilenames \/ GatherType \/ NextDocument \/ EndGather \/ CheckInterface
           \/ CheckReturn \/ CheckArg \/ EndArgs \/ CheckMethodName \/ EndInterface
  <2>1. /\ pc \notin {"dep", "header", "implementation", "exit"}
        /\ pc' \notin {"dep", "header", "implementation", "exit"}
        /\ UNCHANGED <<output, result>>
    BY <1>1
       DEF OpenPreprocessed, ScanLine, ClosePreprocessed, ParseMain, SkipKnownImport,
           MissImport, FindImport, ParseImport, LoseImport, CheckFilenames, GatherType,
           NextDocument, EndGather, CheckInterface, CheckReturn, CheckArg, EndArgs,
           CheckMethodName, EndInterface
  <2>2. QED
    BY <1>a, <2>1 DEF output
<1>2. CASE EndPreprocessed \/ EndImports \/ EndChecks
  <2>1. /\ pc \notin {"dep", "header", "implementation", "exit"}
        /\ pc' \notin {"dep", "header", "implementation"}
        /\ UNCHANGED output
        /\ (pc' = "exit" /\ result' = "failed") \/ (pc' # "exit" /\ result' = result)
    BY <1>2 DEF EndPreprocessed, EndImports, EndChecks, Exit
  <2>2. QED
    BY <1>a, <2>1 DEF output
<1>3. CASE NameOutput
  <2>1. pc = "output" /\ UNCHANGED <<mainDoc, dep, generated>> /\ Len(mainDoc) = 1
    BY <1>3 DEF NameOutput, Consistent
  <2>2. /\ outputFileName = opt.output /\ result = "running" /\ dep = {} /\ generated = {}
    BY <2>1
  <2>3. opt \in Invocation /\ (opt.output # <<>> \/ opt.outputBaseFolder # <<>>)
    BY InputsAssumption DEF TypeOK
  <2>4. CASE Exit("crashed")
    BY <1>a, <2>1, <2>2, <2>4 DEF Exit
  <2>5. CASE /\ outputFileName = <<>> /\ mainDoc[1].package # <<>> /\ opt.outputBaseFolder # <<>>
             /\ outputFileName' = opt.outputBaseFolder \o mainDoc[1].package \o <<mainDoc[1].name[1]>>
             /\ pc' = "dep" /\ UNCHANGED result
    <3>1. mainDoc[1] \in Item
      <4>1. mainDoc \in Seq(Item)
        BY DEF TypeOK
      <4>2. QED
        BY <2>1, <4>1, ElementOfSeq
    <3>2. /\ mainDoc[1].package \in Seq(Ident) /\ mainDoc[1].name \in Seq(Ident)
          /\ mainDoc[1].name # <<>>
      BY <3>1 DEF Item, SimpleName, DottedName
    <3>3. opt.outputBaseFolder \in Seq(Ident)
      BY <2>3 DEF Invocation, DottedName
    <3>4. mainDoc[1].name[1] \in Ident /\ <<mainDoc[1].name[1]>> \in Seq(Ident)
          /\ Len(<<mainDoc[1].name[1]>>) = 1
      BY <3>2
    <3>5. /\ Len(mainDoc[1].package) \in Nat /\ Len(mainDoc[1].package) >= 1
          /\ Len(opt.outputBaseFolder) \in Nat /\ Len(opt.outputBaseFolder) >= 1
      BY <2>5, <3>2, <3>3, LenProperties, EmptySeq
    <3>6. /\ opt.outputBaseFolder \o mainDoc[1].package \in Seq(Ident)
          /\ Len(opt.outputBaseFolder \o mainDoc[1].package)
               = Len(opt.outputBaseFolder) + Len(mainDoc[1].package)
      BY <3>2, <3>3, Concatenated
    <3>7. Len(outputFileName')
            = Len(opt.outputBaseFolder) + Len(mainDoc[1].package) + 1
      BY <2>5, <3>4, <3>6, Concatenated
    <3>8. Len(outputFileName') > 2
      <4>1. \A a, b \in Nat : a >= 1 /\ b >= 1 => a + b + 1 > 2
        OBVIOUS
      <4>2. QED
        BY <3>5, <3>7, <4>1
    <3>9. QED
      BY <1>a, <2>1, <2>2, <2>5, <3>8
  <2>6. CASE /\ ~(outputFileName = <<>> /\ opt.outputBaseFolder # <<>>)
             /\ pc' = "dep" /\ UNCHANGED <<outputFileName, result>>
    BY <1>a, <2>1, <2>2, <2>3, <2>6
  <2>7. QED
    BY <1>3, <2>4, <2>5, <2>6 DEF NameOutput
<1>4. CASE WriteDep
  <2>1. /\ pc = "dep" /\ UNCHANGED <<mainDoc, outputFileName, generated>>
        /\ \/ dep' # {} /\ DepAsked
           \/ dep' = dep /\ fault' /\ DepAsked
           \/ dep' = dep /\ fault' = fault /\ ~DepAsked
        /\ \/ OnlyParcelable /\ pc' = "exit" /\ result' = "ok"
           \/ ~OnlyParcelable /\ pc' = "header" /\ result' = result
    BY <1>4 DEF WriteDep, Exit, DepAsked
  <2>2. QED
    BY <1>a, <2>1 DEF OnlyParcelable, DepAsked
<1>5. CASE GenerateHeader
  <2>1. /\ pc = "header" /\ UNCHANGED <<mainDoc, outputFileName, dep>>
        /\ \/ pc' = "exit" /\ result' = "failed"
           \/ /\ ~Unsupported /\ generated' = generated \cup {GeneratedFile(".h")}
              /\ pc' = "implementation" /\ UNCHANGED <<result, fault>>
    BY <1>5 DEF GenerateHeader, Exit
  <2>2. QED
    BY <1>a, <2>1 DEF OnlyParcelable, DepAsked, Unsupported, GeneratedFile
<1>6. CASE GenerateImplementation
  <2>1. pc' = "exit" /\ result' \in {"ok", "failed"}
    BY <1>6 DEF GenerateImplementation, Exit
  <2>2. QED
    BY <2>1
<1>7. CASE UNCHANGED vars
  <2>1. UNCHANGED <<opt, pc, mainDoc, dep, generated, outputFileName, result, fault>>
    BY <1>7, Zenon DEF vars, output, inputs
  <2>2. QED
    BY <2>1 DEF OnlyParcelable, DepAsked, Unsupported, GeneratedFile
<1>8. QED
  BY <1>1, <1>2, <1>3, <1>4, <1>5, <1>6, <1>7 DEF Next

-----------------------------------------------------------------------------
(* The invariant as a whole.                                               *)

LEMMA PromiseInvInitially == Init => PromiseInv
<1> SUFFICES ASSUME Init PROVE PromiseInv
  OBVIOUS
<1>a. /\ opt \in Invocations /\ disk \in Disks
      /\ pc = "preprocessed" /\ left = Len(opt.preprocessed) /\ NAMES = BaseTypes
      /\ imports = <<>> /\ mainDoc = <<>> /\ lex = "INITIAL" /\ opened = {}
      /\ err = FALSE /\ result = "running" /\ dep = {} /\ generated = {}
      /\ outputFileName = opt.output
  BY DEF Init, Invocations, Disks
<1>b. Len(opt.preprocessed) \in Nat
  BY <1>a, InputsAssumption, LenProperties DEF Invocation
<1>1. LinesJudged
  <2>1. 1..(Len(opt.preprocessed) - left) = {}
    BY <1>a, <1>b
  <2>2. QED
    BY <1>a, <2>1 DEF LinesJudged
<1>2. NothingElseKnown
  <2>1. ASSUME NEW t \in ToSet(NAMES)
        PROVE  t.args = <<>> /\ t.package \o t.name \in KnownWithoutImport
    BY <1>a, BaseTypesAssumption DEF ToSet, KnownWithoutImport
  <2>2. QED
    BY <2>1 DEF NothingElseKnown
<1>3. MainTaken
  BY <1>a DEF MainTaken, HasRead
<1>4. ImportsJudged
  BY <1>a DEF ImportsJudged
<1>5. DocumentsComplete /\ ReadWell
  BY <1>a DEF DocumentsComplete, ReadWell, ReadingWell, HasRead
<1>6. GatherJudged /\ ChecksJudged
  BY <1>a DEF GatherJudged, ChecksJudged, Checking
<1>7. InOrder
  BY <1>a DEF InOrder, Checking
<1>8. OutputInv
  BY <1>a DEF OutputInv
<1>9. QED
  BY <1>1, <1>2, <1>3, <1>4, <1>5, <1>6, <1>7, <1>8 DEF PromiseInv

AllInv ==
  /\ TypeOK /\ Consistent /\ NamesUnique /\ GenericsLast /\ ImportsInv /\ ContractInv
  /\ PromiseInv

LEMMA PromiseInvPreserved == NoEmptyLines /\ AllInv /\ [Next]_vars => PromiseInv'
<1> SUFFICES ASSUME NoEmptyLines, AllInv, [Next]_vars PROVE PromiseInv'
  OBVIOUS
<1>1. /\ TypeOK /\ Consistent /\ NamesUnique /\ GenericsLast /\ ContractInv
      /\ ImportsAhead /\ ImportsTold /\ LinesDeclared
      /\ LinesJudged /\ NothingElseKnown /\ MainTaken /\ ImportsJudged /\ DocumentsComplete
      /\ ReadWell /\ GatherJudged /\ InOrder /\ ChecksJudged /\ OutputInv
  BY DEF AllInv, ImportsInv, ContractInv, DeclaredFirst, PromiseInv
<1>2. LinesJudged' /\ NothingElseKnown' /\ MainTaken'
  BY <1>1, LinesJudgedPreserved, NothingElsePreserved, MainTakenPreserved
<1>3. ImportsJudged' /\ DocumentsComplete' /\ ReadWell'
  BY <1>1, ImportsJudgedPreserved, DocumentsCompletePreserved, ReadWellPreserved
<1>4. GatherJudged' /\ InOrder' /\ ChecksJudged' /\ OutputInv'
  BY <1>1, GatherJudgedPreserved, InOrderPreserved, ChecksJudgedPreserved, OutputPreserved
<1>5. QED
  BY <1>2, <1>3, <1>4 DEF PromiseInv

LEMMA AllInvHolds == NoEmptyLines => (Spec => []AllInv)
<1>1. SUFFICES ASSUME NoEmptyLines PROVE Spec => []AllInv
  OBVIOUS
<1>2. /\ TypeOK /\ Consistent /\ NamesUnique /\ GenericsLast /\ ImportsInv /\ ContractInv
      /\ PromiseInv /\ [Next]_vars
      => PromiseInv'
  BY <1>1, PromiseInvPreserved DEF AllInv
<1>3. TypeOK /\ Consistent /\ NamesUnique /\ GenericsLast /\ ImportsInv /\ ContractInv /\ PromiseInv
      => AllInv
  BY DEF AllInv
<1>4. QED
  BY <1>2, <1>3, PromiseInvInitially, ImportsInvHolds, ContractInvHolds, NamesStayUnique,
     ListsLastHolds, PTL DEF Spec

-----------------------------------------------------------------------------
(* Where the verdict is given, the contract says the same.                 *)

\* Declarations that fit the registry redefine nothing, and one that clashes
\* with it does.
LEMMA FitsJudged ==
  ASSUME TypeOK, NamesUnique, GenericsLast
  PROVE  /\ (\A d \in DeclaredItems : Fits(d.item)) => NothingRedefined
         /\ DeclarationsWrong => ~(FilesNamedRight /\ NothingRedefined)
<1>1. NAMES \in Seq(Type) /\ DOMAIN NAMES = 1..Len(NAMES)
  BY LenProperties DEF TypeOK
<1>2. ASSUME NEW item
      PROVE  /\ QualifiedName(DeclaredType(item)) = Plain(item.package \o item.name)
             /\ DeclaredType(item).kind = IF IsInterface(item) THEN "INTERFACE" ELSE "USERDATA"
  BY DeclaredName DEF DeclaredType
<1>3. ASSUME NEW item, Fits(item)
      PROVE  \E t \in ToSet(NAMES) :
               /\ t.package \o t.name = item.package \o item.name
               /\ t.kind = IF IsInterface(item) THEN "INTERFACE" ELSE "USERDATA"
  <2> DEFINE q == Plain(item.package \o item.name)
             i == Find(NAMES, q)
  <2>1. Declares(NAMES, q) /\ NAMES[i].kind = IF IsInterface(item) THEN "INTERFACE" ELSE "USERDATA"
    BY <1>2, <1>3 DEF Fits
  <2>2. i \in DOMAIN NAMES /\ QualifiedName(NAMES[i]) = q
    BY <1>1, <2>1, FindIsDeclared
  <2>3. NAMES[i].package \o NAMES[i].name = item.package \o item.name
    BY <2>2 DEF QualifiedName, Plain
  <2>4. NAMES[i] \in ToSet(NAMES)
    BY <2>2 DEF ToSet
  <2>5. QED
    BY <2>1, <2>3, <2>4
<1>4. ASSUME NEW item, Clashes(item), NEW t \in ToSet(NAMES),
             t.package \o t.name = item.package \o item.name
      PROVE  t.kind # IF IsInterface(item) THEN "INTERFACE" ELSE "USERDATA"
  <2> DEFINE q == Plain(item.package \o item.name)
             i == Find(NAMES, q)
  <2>1. Declares(NAMES, q) /\ NAMES[i].kind # IF IsInterface(item) THEN "INTERFACE" ELSE "USERDATA"
    BY <1>2, <1>4 DEF Clashes
  <2>2. i \in DOMAIN NAMES /\ QualifiedName(NAMES[i]) = q
    BY <1>1, <2>1, FindIsDeclared
  <2>3. PICK j \in DOMAIN NAMES : t = NAMES[j]
    BY DEF ToSet
  <2>4. CASE t.args = <<>>
    <3>1. QualifiedName(NAMES[j]) = q
      BY <1>4, <2>3, <2>4 DEF QualifiedName, Plain
    <3>2. i = j
      BY <2>2, <3>1 DEF NamesUnique
    <3>3. QED
      BY <2>1, <2>3, <3>2
  <2>5. CASE t.args # <<>>
    <3>1. t = ListType(t.args)
      BY <2>3, <2>5 DEF GenericsLast, ListsLast
    <3>2. t.kind = "BUILT_IN"
      BY <3>1 DEF ListType
    <3>3. QED
      BY <3>2
  <2>6. QED
    BY <2>4, <2>5
<1>5. QED
  BY <1>3, <1>4 DEF NothingRedefined, DeclarationsWrong

\* The reading failed for a reason the contract knows.
LEMMA ReadingJudged ==
  ASSUME TypeOK, Consistent, MainTaken, ImportsJudged, EndImports, pc' = "exit"
  PROVE  ~Valid \/ fault
<1>1. pc = "imports" /\ left = 0 /\ (err \/ mainDoc = <<>>)
  BY DEF EndImports, Exit
<1>2. CASE opt.input \notin DOMAIN disk.aidl
  BY <1>2 DEF Valid, ParsesCleanly, MainTaken
<1>3. CASE \E o \in opened : ~ReadCleanly(o)
  BY <1>3 DEF Valid, ParsesCleanly, ReadCleanly
<1>4. CASE \E class \in Needed : FindImportFile(class) = <<>>
  <2>1. PICK class \in Needed : FindImportFile(class) = <<>>
    BY <1>4
  <2>2. FilesRead \subseteq DOMAIN disk.aidl \ {<<>>}
    BY DEF MainTaken, FilesRead
  <2>3. FindImportFile(class) \notin FilesRead
    BY <2>1, <2>2
  <2>4. ~ImportsResolved
    BY <2>2, <2>3, FoundFirst DEF ImportsResolved, Needed, MainOutcome, FilesRead, TypeOK
  <2>5. QED
    BY <2>4 DEF Valid
<1>5. CASE ~err /\ opt.input \in DOMAIN disk.aidl
  <2>1. mainDoc = <<>> /\ MainRead \in opened
        /\ mainDoc = IF MainOutcome.called THEN MainOutcome.items ELSE <<>>
    BY <1>1, <1>5 DEF MainTaken
  <2>2. Seen(MainRead) = MainOutcome
    BY DEF Seen, MainRead, MainOutcome
  <2>3. ~ReadCleanly(MainRead)
    BY <2>1, <2>2 DEF ReadCleanly
  <2>4. QED
    BY <1>3, <2>1, <2>3
<1>6. CASE err
  BY <1>1, <1>2, <1>3, <1>4, <1>6 DEF ImportsJudged, ImportsWrong
<1>7. QED
  BY <1>2, <1>5, <1>6

\* The checks have found every error, and nothing else.
LEMMA ChecksDecide ==
  ASSUME TypeOK, Consistent, NamesUnique, GenericsLast, ReadWell, InOrder, ChecksJudged, EndChecks
  PROVE  Valid <=> ~err'
<1>1. /\ pc = "check" /\ pending = <<>> /\ err' = (err \/ ~ExactlyOne)
      /\ PreprocessedValid /\ ParsesCleanly /\ ImportsResolved
  BY DEF EndChecks, ReadWell, HasRead
<1>2. ExactlyOne <=> OneInterface
  BY DEF ExactlyOne, OneInterface
<1>3. ASSUME err PROVE ~(FilesNamedRight /\ NothingRedefined /\ MethodsValid)
  BY <1>1, <1>3, FitsJudged DEF ChecksJudged, Checking
<1>4. ASSUME ~err PROVE FilesNamedRight /\ NothingRedefined /\ MethodsValid
  <2>1. BehindValid
    BY <1>1, <1>4 DEF ChecksJudged, Checking
  <2>2. FilesNamedRight /\ NothingRedefined
    BY <2>1, FitsJudged DEF BehindValid
  <2>3. /\ mainDoc \in Seq(Item) /\ Len(mainDoc) \in Nat /\ DOMAIN mainDoc = 1..Len(mainDoc)
        /\ ItemAt = Len(mainDoc)
    BY <1>1, LenProperties DEF TypeOK, ItemAt
  <2>4. ASSUME NEW i \in DOMAIN mainDoc
        PROVE  /\ \A j, k \in DOMAIN mainDoc[i].methods :
                    mainDoc[i].methods[j].name = mainDoc[i].methods[k].name => j = k
               /\ \A j \in DOMAIN mainDoc[i].methods : TypesValid(mainDoc[i].kind, mainDoc[i].methods[j])
    <3>1. ValidUpTo(mainDoc[i], Len(mainDoc[i].methods))
      BY <1>1, <2>1, <2>3 DEF BehindValid
    <3>2. mainDoc[i] \in Item
      BY <2>3
    <3>3. mainDoc[i].methods \in Seq(Method)
      BY <3>2 DEF Item
    <3>4. DOMAIN mainDoc[i].methods = 1..Len(mainDoc[i].methods)
      BY <3>3, LenProperties
    <3>5. QED
      BY <3>1, <3>4 DEF ValidUpTo
  <2>5. MethodsValid
    BY <2>4 DEF MethodsValid, ToSet
  <2>6. QED
    BY <2>2, <2>5
<1>5. QED
  BY <1>1, <1>2, <1>3, <1>4 DEF Valid

-----------------------------------------------------------------------------
(* Every step keeps the promise.                                           *)

\* The files that the promise sees.
FilesWritten == {[suffix |-> ".d"] : d \in dep} \cup generated

\* Until the outputs are named, nothing is written.
LEMMA StillReading ==
  ASSUME OutputInv, OutputInv', UNCHANGED <<dep, generated>>, UNCHANGED result, pc' # "exit",
         pc \notin {"output", "dep", "header", "implementation"},
         pc' \notin {"output", "dep", "header", "implementation"}
  PROVE  UNCHANGED <<Phase, FilesWritten>>
<1>1. Phase = "reading" /\ Phase' = "reading"
  BY DEF Phase, OutputInv
<1>2. UNCHANGED FilesWritten
  BY DEF FilesWritten
<1>3. QED
  BY <1>1, <1>2

LEMMA StepsRead ==
  ASSUME AllInv, OutputInv',
         \/ OpenPreprocessed \/ ScanLine \/ ClosePreprocessed \/ ParseMain
         \/ SkipKnownImport \/ MissImport \/ FindImport \/ ParseImport \/ LoseImport
         \/ CheckFilenames \/ GatherType \/ NextDocument \/ EndGather \/ CheckInterface
         \/ CheckReturn \/ CheckArg \/ EndArgs \/ CheckMethodName \/ EndInterface
  PROVE  UNCHANGED <<Phase, FilesWritten>>
<1>1. /\ pc \notin {"output", "dep", "header", "implementation"}
      /\ pc' \notin {"output", "dep", "header", "implementation", "exit"}
      /\ UNCHANGED <<output, result>>
  BY DEF OpenPreprocessed, ScanLine, ClosePreprocessed, ParseMain, SkipKnownImport,
         MissImport, FindImport, ParseImport, LoseImport, CheckFilenames, GatherType,
         NextDocument, EndGather, CheckInterface, CheckReturn, CheckArg, EndArgs,
         CheckMethodName, EndInterface
<1>2. UNCHANGED <<dep, generated>>
  BY <1>1 DEF output
<1>3. OutputInv
  BY DEF AllInv, PromiseInv
<1>4. QED
  BY <1>1, <1>2, <1>3, StillReading

\* The ends of the phases of reading decide between Accept and Reject.
LEMMA StepsDecide ==
  ASSUME AllInv, OutputInv', EndPreprocessed \/ EndImports \/ EndChecks
  PROVE  \/ UNCHANGED <<Phase, FilesWritten>>
         \/ Phase = "reading" /\ Valid /\ Phase' = "writing" /\ UNCHANGED FilesWritten
         \/ Phase = "reading" /\ (~Valid \/ fault) /\ Phase' = "failed" /\ UNCHANGED FilesWritten
<1>1. /\ TypeOK /\ Consistent /\ NamesUnique /\ GenericsLast /\ LinesJudged /\ MainTaken
      /\ ImportsJudged /\ ReadWell /\ InOrder /\ ChecksJudged /\ OutputInv
  BY DEF AllInv, PromiseInv
<1>2. pc \in {"preprocessed", "imports", "check"} /\ UNCHANGED <<output, fault>>
  BY DEF EndPreprocessed, EndImports, EndChecks
<1>3. UNCHANGED <<dep, generated>> /\ UNCHANGED FilesWritten /\ Phase = "reading"
  BY <1>1, <1>2 DEF output, FilesWritten, Phase, OutputInv
<1>4. CASE pc' = "exit"
  <2>1. result' = "failed" /\ Phase' = "failed"
    BY <1>4 DEF EndPreprocessed, EndImports, EndChecks, Exit, Phase
  <2>2. ~Valid \/ fault
    <3>1. CASE EndPreprocessed
      BY <1>1, <1>4, <3>1 DEF EndPreprocessed, LinesJudged, Valid
    <3>2. CASE EndImports
      BY <1>1, <1>4, <3>2, ReadingJudged
    <3>3. CASE EndChecks
      <4>1. err'
        BY <1>4, <3>3 DEF EndChecks
      <4>2. QED
        BY <1>1, <3>3, <4>1, ChecksDecide
    <3>4. QED
      BY <3>1, <3>2, <3>3
  <2>3. QED
    BY <1>3, <2>1, <2>2
<1>5. CASE pc' # "exit" /\ ~EndChecks
  <2>1. pc' \in {"main", "filenames"} /\ UNCHANGED result
    BY <1>5 DEF EndPreprocessed, EndImports, Exit
  <2>2. QED
    BY <1>1, <1>2, <1>3, <2>1, StillReading
<1>6. CASE pc' # "exit" /\ EndChecks
  <2>1. pc' = "output" /\ ~err' /\ UNCHANGED result
    BY <1>6 DEF EndChecks, Exit
  <2>2. Phase' = "writing"
    BY <1>1, <1>2, <2>1 DEF OutputInv, Phase
  <2>3. QED
    BY <1>1, <1>3, <1>6, <2>1, <2>2, ChecksDecide
<1>7. QED
  BY <1>4, <1>5, <1>6

LEMMA StepNames ==
  ASSUME AllInv, OutputInv', NameOutput
  PROVE  \/ UNCHANGED <<Phase, FilesWritten>>
         \/ Phase = "writing" /\ ~Supported /\ Phase' = "failed" /\ UNCHANGED FilesWritten
<1>1. pc = "output" /\ OutputInv /\ UNCHANGED FilesWritten
  BY DEF NameOutput, AllInv, PromiseInv, FilesWritten
<1>2. result = "running" /\ Phase = "writing" /\ outputFileName = opt.output
  BY <1>1 DEF OutputInv, Phase
<1>3. CASE Exit("crashed") /\ outputFileName = <<>> /\ mainDoc[1].package = <<>>
  <2>1. ~Supported /\ Phase' = "failed"
    BY <1>2, <1>3 DEF Supported, Phase, Exit
  <2>2. QED
    BY <1>1, <1>2, <2>1
<1>4. CASE pc' = "dep" /\ UNCHANGED result
  <2>1. Phase' = "writing"
    BY <1>2, <1>4 DEF Phase
  <2>2. QED
    BY <1>1, <1>2, <2>1
<1>5. QED
  BY <1>3, <1>4 DEF NameOutput

LEMMA StepWritesDep ==
  ASSUME AllInv, WriteDep
  PROVE  /\ Phase = "writing" /\ FilesWritten \subseteq FilesWritten'
         /\ FilesWritten' \subseteq Wanted
         /\ \/ Phase' = Phase
            \/ Phase' = "ok" /\ (FilesWritten' = Wanted \/ fault')
<1>1. pc = "dep" /\ OutputInv /\ generated' = generated
  BY DEF WriteDep, AllInv, PromiseInv
<1>2. result = "running" /\ Phase = "writing" /\ dep = {} /\ generated = {}
  BY <1>1 DEF OutputInv, Phase
<1>3. /\ \/ dep' # {} /\ DepAsked
         \/ dep' = {} /\ fault'
         \/ dep' = {} /\ ~DepAsked
      /\ \/ OnlyParcelable /\ pc' = "exit" /\ result' = "ok"
         \/ ~OnlyParcelable /\ pc' = "header" /\ result' = result
  BY <1>2 DEF WriteDep, Exit, DepAsked
<1>4. FilesWritten = {} /\ FilesWritten' = IF dep' = {} THEN {} ELSE {[suffix |-> ".d"]}
  BY <1>1, <1>2 DEF FilesWritten
<1>5. (IF DepAsked THEN {[suffix |-> ".d"]} ELSE {}) \subseteq Wanted
  BY DEF Wanted, DepAsked
<1>6. OnlyParcelable => Wanted = IF DepAsked THEN {[suffix |-> ".d"]} ELSE {}
  BY DEF Wanted, DepAsked, OnlyParcelable
<1>7. FilesWritten' \subseteq Wanted
  BY <1>3, <1>4, <1>5
<1>8. OnlyParcelable => FilesWritten' = Wanted \/ fault'
  BY <1>3, <1>4, <1>6
<1>9. Phase' = IF OnlyParcelable THEN "ok" ELSE "writing"
  BY <1>2, <1>3 DEF Phase
<1>10. QED
  BY <1>2, <1>4, <1>7, <1>8, <1>9

\* The two files of an interface.
LEMMA WantedFiles ==
  ASSUME ~OnlyParcelable
  PROVE  Wanted = (IF DepAsked THEN {[suffix |-> ".d"]} ELSE {})
                    \cup {GeneratedFile(".h"), GeneratedFile(".cpp")}
<1>1. ASSUME NEW d, NEW n
      PROVE  [dir : {d}, name : {n}, suffix : {".h", ".cpp"}]
               = {[dir |-> d, name |-> n, suffix |-> ".h"], [dir |-> d, name |-> n, suffix |-> ".cpp"]}
  <2> DEFINE S == [dir : {d}, name : {n}, suffix : {".h", ".cpp"}]
             header == [dir |-> d, name |-> n, suffix |-> ".h"]
             implementation == [dir |-> d, name |-> n, suffix |-> ".cpp"]
  <2>1. header \in S /\ implementation \in S
    OBVIOUS
  <2>2. ASSUME NEW r \in S
        PROVE  r = header \/ r = implementation
    <3>1. r = [dir |-> r.dir, name |-> r.name, suffix |-> r.suffix]
      OBVIOUS
    <3>2. r.dir = d /\ r.name = n /\ (r.suffix = ".h" \/ r.suffix = ".cpp")
      OBVIOUS
    <3>3. QED
      BY <3>1, <3>2
  <2> HIDE DEF S, header, implementation
  <2>3. S = {header, implementation}
    BY <2>1, <2>2
  <2>4. QED
    BY <2>3 DEF S, header, implementation
<1>2. [dir : {Front(outputFileName)}, name : {mainDoc[1].name}, suffix : {".h", ".cpp"}]
        = {GeneratedFile(".h"), GeneratedFile(".cpp")}
  BY <1>1 DEF GeneratedFile
<1>3. QED
  BY <1>2 DEF Wanted, DepAsked, OnlyParcelable

LEMMA StepWritesHeader ==
  ASSUME AllInv, GenerateHeader
  PROVE  /\ Phase = "writing"
         /\ \/ /\ FilesWritten \subseteq FilesWritten' /\ FilesWritten' \subseteq Wanted
               /\ Phase' = Phase
            \/ (~Supported \/ fault') /\ Phase' = "failed" /\ UNCHANGED FilesWritten
<1>1. /\ pc = "header" /\ OutputInv /\ UNCHANGED dep
  BY DEF GenerateHeader, AllInv, PromiseInv
<1>2. /\ result = "running" /\ Phase = "writing" /\ generated = {} /\ ~OnlyParcelable
      /\ dep # {} => DepAsked
      /\ IF opt.output # <<>> THEN outputFileName = opt.output
         ELSE mainDoc[1].package # <<>> /\ Len(outputFileName) > 2
  BY <1>1 DEF OutputInv, Phase
<1>3. CASE Exit("failed") /\ UNCHANGED generated
  <2>1. Phase' = "failed" /\ UNCHANGED FilesWritten
    BY <1>1, <1>3 DEF Exit, Phase, FilesWritten
  <2>2. ~Supported \/ fault'
    <3>1. CASE Unsupported
      <4>1. CASE mainDoc[1].kind # "BINDER"
        BY <1>2, <4>1 DEF Supported, OnlyParcelable
      <4>2. CASE Len(outputFileName) = 1
        <5>1. outputFileName = opt.output
          BY <1>2, <4>2
        <5>2. QED
          BY <1>2, <4>2, <5>1 DEF Supported, OnlyParcelable
      <4>3. outputFileName = <<"-">> => Len(outputFileName) = 1
        OBVIOUS
      <4>4. QED
        BY <3>1, <4>1, <4>2, <4>3 DEF Unsupported
    <3>2. CASE ~Unsupported
      BY <1>3, <3>2 DEF GenerateHeader, Exit
    <3>3. QED
      BY <3>1, <3>2
  <2>3. QED
    BY <1>2, <2>1, <2>2
<1>4. CASE /\ generated' = generated \cup {GeneratedFile(".h")}
           /\ pc' = "implementation" /\ UNCHANGED result
  <2>1. Phase' = "writing"
    BY <1>2, <1>4 DEF Phase
  <2>2. FilesWritten' = FilesWritten \cup {GeneratedFile(".h")}
    BY <1>1, <1>4 DEF FilesWritten
  <2>3. FilesWritten \subseteq (IF DepAsked THEN {[suffix |-> ".d"]} ELSE {})
    BY <1>2 DEF FilesWritten
  <2>4. FilesWritten' \subseteq Wanted
    BY <1>2, <2>2, <2>3, WantedFiles
  <2>5. QED
    BY <1>2, <2>1, <2>2, <2>4
<1>5. QED
  BY <1>3, <1>4 DEF GenerateHeader

LEMMA StepWritesImplementation ==
  ASSUME AllInv, GenerateImplementation
  PROVE  /\ Phase = "writing"
         /\ \/ /\ FilesWritten \subseteq FilesWritten' /\ FilesWritten' \subseteq Wanted
               /\ FilesWritten' = Wanted \/ fault'
               /\ Phase' = "ok"
            \/ fault' /\ Phase' = "failed" /\ UNCHANGED FilesWritten
<1>1. /\ pc = "implementation" /\ OutputInv /\ UNCHANGED dep
  BY DEF GenerateImplementation, AllInv, PromiseInv
<1>2. /\ result = "running" /\ Phase = "writing" /\ generated = {GeneratedFile(".h")}
      /\ ~OnlyParcelable /\ (DepAsked => dep # {} \/ fault) /\ (dep # {} => DepAsked)
  BY <1>1 DEF OutputInv, Phase
<1>3. CASE /\ generated' = generated \cup {GeneratedFile(".cpp")}
           /\ Exit("ok") /\ UNCHANGED fault
  <2>1. Phase' = "ok"
    BY <1>3 DEF Phase, Exit
  <2>2. /\ FilesWritten' = {[suffix |-> ".d"] : d \in dep}
                             \cup {GeneratedFile(".h"), GeneratedFile(".cpp")}
        /\ FilesWritten \subseteq FilesWritten'
    BY <1>1, <1>2, <1>3 DEF FilesWritten
  <2>3. {[suffix |-> ".d"] : d \in dep} = IF dep = {} THEN {} ELSE {[suffix |-> ".d"]}
    OBVIOUS
  <2>4. FilesWritten' \subseteq Wanted /\ (FilesWritten' = Wanted \/ fault')
    <3>1. CASE dep = {}
      BY <1>2, <1>3, <2>2, <2>3, <3>1, WantedFiles
    <3>2. CASE dep # {}
      BY <1>2, <2>2, <2>3, <3>2, WantedFiles
    <3>3. QED
      BY <3>1, <3>2
  <2>5. QED
    BY <1>2, <2>1, <2>2, <2>4
<1>4. CASE fault' = TRUE /\ Exit("failed") /\ UNCHANGED generated
  BY <1>1, <1>2, <1>4 DEF Phase, Exit, FilesWritten
<1>5. QED
  BY <1>3, <1>4 DEF GenerateImplementation

LEMMA StepKeepsPromise ==
  ASSUME AllInv, OutputInv', [Next]_vars
  PROVE  [Promise!Next]_<<Phase, FilesWritten>>
<1>1. CASE UNCHANGED vars
  <2>1. UNCHANGED <<pc, result, dep, generated>>
    BY <1>1, Zenon DEF vars, output
  <2>2. QED
    BY <2>1 DEF Phase, FilesWritten
<1>2. CASE \/ OpenPreprocessed \/ ScanLine \/ ClosePreprocessed \/ ParseMain
           \/ SkipKnownImport \/ MissImport \/ FindImport \/ ParseImport \/ LoseImport
           \/ CheckFilenames \/ GatherType \/ NextDocument \/ EndGather \/ CheckInterface
           \/ CheckReturn \/ CheckArg \/ EndArgs \/ CheckMethodName \/ EndInterface
  BY <1>2, StepsRead
<1>3. CASE EndPreprocessed \/ EndImports \/ EndChecks
  BY <1>3, StepsDecide DEF FilesWritten, Promise!Next, Promise!Accept, Promise!Reject
<1>4. CASE NameOutput
  BY <1>4, StepNames DEF FilesWritten, Promise!Next, Promise!Abandon
<1>5. CASE WriteDep
  BY <1>5, StepWritesDep DEF FilesWritten, Promise!Next, Promise!Write, Promise!Finish
<1>6. CASE GenerateHeader
  BY <1>6, StepWritesHeader DEF FilesWritten, Promise!Next, Promise!Write, Promise!Abandon
<1>7. CASE GenerateImplementation
  BY <1>7, StepWritesImplementation DEF FilesWritten, Promise!Next, Promise!Finish, Promise!Abandon
<1>8. QED
  BY <1>1, <1>2, <1>3, <1>4, <1>5, <1>6, <1>7 DEF Next

\* compile_aidl accepts exactly the valid inputs, although it collects its
\* errors over a dozen loops; it writes nothing before it has accepted, and
\* ends well only with every file in place.  Empty lines in preprocessed files
\* are left out: what becomes of them depends on what a buffer holds
\* (EmptyLinesSkipped).
THEOREM CompilerKeepsPromise == NoEmptyLines => (Spec => KeepsPromise)
<1>1. Init => Promise!Init
  BY DEF Init, Promise!Init, Phase
<1>2. AllInv /\ AllInv' /\ [Next]_vars => [Promise!Next]_<<Phase, FilesWritten>>
  BY StepKeepsPromise DEF AllInv, PromiseInv
<1>3. QED
  BY <1>1, <1>2, AllInvHolds, PTL DEF Spec, KeepsPromise, Promise!Spec, FilesWritten
=============================================================================
