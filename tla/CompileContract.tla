--------------------------- MODULE CompileContract ---------------------------
(***************************************************************************)
(* compile_aidl keeps the promise of module Compiler.  Whether an input is *)
(* valid is said here of the files and the final registry at once, with    *)
(* none of compile_aidl's loops and without its err.                       *)
(***************************************************************************)
EXTENDS CompileAidl

\* Every preprocessed file exists and every line of it is a comment or a
\* declaration.
PreprocessedValid ==
  \A f \in ToSet(opt.preprocessed) :
    /\ f \in DOMAIN disk.preprocessed
    /\ \A line \in ToSet(disk.preprocessed[f]) :
         line.comment \/ line.type \in DeclarationWords

\* The text of an opened file as the parser saw it.
Seen(o) == disk.aidl[o.file][o.lex]

\* The main file exists, and each file that was read is free of syntax errors
\* and declares something.
ParsesCleanly ==
  /\ opt.input \in {o.file : o \in opened}
  /\ \A o \in opened : ~Seen(o).err /\ Seen(o).called /\ Seen(o).items # <<>>

\* The declarations of the preprocessed files that can be read.
DeclaredLines ==
  {l \in UNION {ToSet(disk.preprocessed[f]) :
                  f \in ToSet(opt.preprocessed) \cap DOMAIN disk.preprocessed} :
     ~l.comment /\ l.type \in DeclarationWords}

\* The registry has the name as that of an interface: a line that declares it
\* so was the first to declare it.
IsInterfaceName(name) ==
  /\ Declares(NAMES, Plain(name))
  /\ NAMES[Find(NAMES, Plain(name))].kind = "INTERFACE"

\* The interfaces among the declarations that brought their generated classes.
DeclaredInterfaces ==
  {name \in {l.fullname : l \in DeclaredLines} : IsInterfaceName(name)}

\* The classes that need no import file.
KnownWithoutImport ==
  {t.package \o t.name : t \in ToSet(BaseTypes)}
    \cup {l.fullname : l \in DeclaredLines}
    \cup UNION {{name \o <<"Stub">>, name \o <<"Stub", "Proxy">>} : name \in DeclaredInterfaces}

\* Every class the main file imports is known, or is declared by the file in
\* the earliest search directory that has one, and that file was read.
ImportsResolved ==
  \A class \in ToSet(disk.aidl[opt.input]["INITIAL"].imports) \ KnownWithoutImport :
    \E k \in DOMAIN opt.importPaths :
      /\ opt.importPaths[k] \o class \in {o.file : o \in opened}
      /\ \A j \in 1..(k - 1) : opt.importPaths[j] \o class \notin DOMAIN disk.aidl

\* The declarations of the files that were read.
DeclaredItems == UNION {[file : {o.file}, item : ToSet(Seen(o).items)] : o \in opened}

FilesNamedRight == \A d \in DeclaredItems : FilenameFits(d.file, d.item)

\* A declared name means a type of the declared kind: no built-in, no
\* generated class, no declaration of another kind has it.
NothingRedefined ==
  \A d \in DeclaredItems :
    \E t \in ToSet(NAMES) :
      /\ t.package \o t.name = d.item.package \o d.item.name
      /\ t.kind = IF IsInterface(d.item) THEN "INTERFACE" ELSE "USERDATA"

\* A value of the type can be carried by an interface of the kind.
Carried(kind, t) ==
  /\ kind = "BINDER" => t.canWriteToParcel
  /\ kind = "RPC" => t.canWriteToRpcData

WellFormedArray(t, type) == type.dimension = 0 \/ (type.dimension = 1 /\ t.canBeArray)

ReturnValid(kind, type) ==
  /\ Search(NAMES, type.ref) # 0
  /\ LET t == Meaning(NAMES, type.ref)
     IN  /\ WellFormedArray(t, type)
         /\ IF IsEvent(t) THEN kind = "RPC" ELSE Carried(kind, t)

\* An argument passed by reference says which way it goes; a value goes in.
\* The arguments of an event all go in.
ArgValid(kind, m, arg) ==
  /\ Search(NAMES, arg.type.ref) # 0
  /\ ~arg.keyword
  /\ LET t == Meaning(NAMES, arg.type.ref)
     IN  /\ Carried(kind, t) /\ ~IsEvent(t)
         /\ WellFormedArray(t, arg.type)
         /\ IF t.canBeOut \/ arg.type.dimension > 0 \/ arg.type.star
              THEN arg.direction # "" ELSE arg.direction \in {"", "in"}
         /\ IsEvent(Meaning(NAMES, m.type.ref)) => arg.direction \in {"", "in"}

TypesValid(kind, m) ==
  /\ ReturnValid(kind, m.type)
  /\ \A a \in ToSet(m.args) : ArgValid(kind, m, a)

MethodsValid ==
  \A item \in ToSet(mainDoc) :
    /\ \A j, k \in DOMAIN item.methods : item.methods[j].name = item.methods[k].name => j = k
    /\ \A m \in ToSet(item.methods) : TypesValid(item.kind, m)

OneInterface ==
  /\ Len(mainDoc) = 1
  /\ ~(mainDoc[1].kind = "USER_DATA" /\ opt.failOnParcelable)

Valid ==
  /\ PreprocessedValid /\ ParsesCleanly /\ ImportsResolved
  /\ FilesNamedRight /\ NothingRedefined /\ MethodsValid /\ OneInterface

\* What the C++ back end can translate, and where it can put it.
Supported ==
  /\ opt.output = <<>> => mainDoc[1].package # <<>>
  /\ mainDoc[1].kind # "USER_DATA" =>
       mainDoc[1].kind = "BINDER" /\ Len(opt.output) # 1

\* The files asked for: the dependency file, and the two generated ones.
Wanted ==
  (IF opt.autoDepFile \/ opt.depFileName # <<>> THEN {[suffix |-> ".d"]} ELSE {})
    \cup (IF mainDoc[1].kind = "USER_DATA" THEN {}
          ELSE [dir : {Front(outputFileName)}, name : {mainDoc[1].name},
                suffix : {".h", ".cpp"}])

Phase ==
  IF result = "ok" THEN "ok"
  ELSE IF result \in {"failed", "crashed"} THEN "failed"
  ELSE IF pc \in {"output", "dep", "header", "implementation"} THEN "writing"
  ELSE "reading"

Promise == INSTANCE Compiler WITH
  phase <- Phase, files <- {[suffix |-> ".d"] : d \in dep} \cup generated,
  valid <- Valid, supported <- Supported, wanted <- Wanted

\* compile_aidl implements module Compiler: it accepts exactly the valid
\* inputs although its errors are collected over a dozen loops, writes nothing
\* before it has accepted, and ends well only with every file in place.
KeepsPromise == Promise!Spec


-----------------------------------------------------------------------------
\* Only a class that the main file itself imports, and that nothing declared
\* before needs no file for, has its file opened: the imports of imports are
\* recorded in the same list but never followed, so a cycle of imports is
\* harmless.
ParsesOnlyNeeded ==
  \A k \in DOMAIN imports : imports[k].filename # <<>> =>
    /\ imports[k].from = opt.input
    /\ imports[k].neededClass \notin KnownWithoutImport

-----------------------------------------------------------------------------
(* A statement of the program's comments that the code does not keep.      *)

\* "skip comments and empty lines" (aidl.cpp:770): the preprocessed files
\* declare the names they spell and no other.
EmptyLinesSkipped ==
  pc = "main" =>
    \A t \in ToSet(NAMES) : t.kind \in {"USERDATA", "INTERFACE"} =>
      \E f \in ToSet(opt.preprocessed) : \E line \in ToSet(disk.preprocessed[f]) :
        line.fullname = t.package \o t.name

=============================================================================
