----------------------------- MODULE CompileAidl -----------------------------
(***************************************************************************)
(* compile_aidl() of aidl.cpp: one run of the compiler, from the options   *)
(* parse_options filled in to the exit status, with the global state the   *)
(* run goes through (NAMES, g_imports, g_document, the scanner's start     *)
(* condition) and the files it leaves behind.                              *)
(*                                                                         *)
(* A file is a path, a sequence of components without the extension; input *)
(* paths and import directories are absolute.  The disk gives for each     *)
(* readable .aidl file what parse_aidl reports of it, for each start       *)
(* condition the scanner may be in when the file is opened, and for each   *)
(* preprocessed file its lines.                                            *)
(***************************************************************************)
EXTENDS Document, FiniteSets

CONSTANTS
  BaseTypes,      \* what register_base_types leaves in NAMES
  Situations,     \* what to compile: [opt, disk], a command line and a file system
  TextSuffixes    \* pairs <<c, d>> of components: the text d is a suffix of c

\* struct Options after parse_options; <<>> is the empty string.
Invocation == [preprocessed : Seq(Ident), input : SimpleName,
               importPaths : Seq(DottedName), output : DottedName,
               outputBaseFolder : DottedName, autoDepFile : BOOLEAN,
               depFileName : DottedName, failOnParcelable : BOOLEAN]

\* The first field of a line, as far as strcmp tells them apart.
Words == DeclarationWords \cup {"other", "none"}

\* A line of a preprocessed file: what sscanf finds in it, "none" and <<>> for
\* the two fields of an empty line.
Line == [comment : BOOLEAN, type : Words, fullname : DottedName]

\* What the file system may hold.  A line has a name when it has a type.  A
\* parse that does not get to the document rule, which runs the callback, is
\* a failed one (module ParseContract checks it: DocumentGiven).  Only an
\* interface has methods.
IsDisk(d) ==
  /\ DOMAIN d = {"aidl", "preprocessed"}
  /\ \A f \in DOMAIN d.aidl :
       /\ d.aidl[f] \in [LexStates -> Outcome]
       /\ \A s \in LexStates :
            /\ ~d.aidl[f][s].called => d.aidl[f][s].err
            /\ \A i \in DOMAIN d.aidl[f][s].items :
                 d.aidl[f][s].items[i].kind = "USER_DATA" => d.aidl[f][s].items[i].methods = <<>>
  /\ \A f \in DOMAIN d.preprocessed :
       /\ d.preprocessed[f] \in Seq(Line)
       /\ \A i \in DOMAIN d.preprocessed[f] :
            d.preprocessed[f][i].type # "none" => d.preprocessed[f][i].fullname # <<>>

Invocations == {s.opt : s \in Situations}
Disks == {s.disk : s \in Situations}

\* parse_options leaves an output name unless -o is given.
ASSUME InputsAssumption ==
  /\ Invocations \subseteq Invocation
  /\ \A o \in Invocations : o.output # <<>> \/ o.outputBaseFolder # <<>>
  /\ \A d \in Disks : IsDisk(d)

\* The base types have different names (read off Type.cpp), and none of them
\* is an interface or a generic type.  The list type is among them.
ASSUME BaseTypesAssumption ==
  /\ BaseTypes \in Seq(Type)
  /\ \A i \in DOMAIN BaseTypes :
       BaseTypes[i].kind = "BUILT_IN" /\ BaseTypes[i].args = <<>>
  /\ \A i, j \in DOMAIN BaseTypes :
       QualifiedName(BaseTypes[i]) = QualifiedName(BaseTypes[j]) => i = j
  /\ \E t \in ToSet(BaseTypes) : t.package = <<"java", "util">> /\ t.name = <<"List">>

VARIABLES
  opt,            \* struct Options
  disk,           \* the files that can be opened
  pc,             \* the loop or call compile_aidl is at
  NAMES,          \* the global type registry
  left,           \* entries of the list being walked that are still ahead
  lines,          \* unread lines of the open preprocessed file
  scan,           \* the buffers type and fullname of parse_preprocessed_file
  imports,        \* g_imports, head first
  document,       \* g_document, <<>> for NULL
  mainDoc,        \* the local mainDoc
  lex,            \* the scanner's start condition
  todo,           \* documents gather_types has still to visit, the current first
  pending,        \* declarations check_types has still to visit
  itemType,       \* item_type of the interface being checked
  methods,        \* methods of that interface still to be checked
  args,           \* arguments of the current method still to be checked
  event,          \* returnType == EVENT_FAKE_TYPE for the current method
  methodNames,    \* the names of that interface's methods seen so far
  err,            \* the local err, as a Boolean
  outputFileName, \* options.outputFileName, without its extension
  dep,            \* the dependency file, as a set of at most one
  generated,      \* the generated files that exist
  result,         \* how the process ended
  opened,         \* history: the .aidl files parsed, with the start condition
  fault           \* history: a file could not be opened, read or removed,
                  \* through no fault of the input

inputs == <<opt, disk>>
preprocessing == <<lines, scan>>
parsing == <<imports, document, lex, opened>>
checking == <<pending, itemType, methods, args, event, methodNames>>
output == <<outputFileName, dep, generated>>
vars == <<inputs, pc, NAMES, left, preprocessing, parsing, mainDoc, todo,
          checking, err, output, result, fault>>

-----------------------------------------------------------------------------
Results == {"running", "ok", "failed", "crashed"}

\* g_imports holds one import_info per import statement.  An unset filename
\* is <<>>, an unset doc <<>>.
ImportInfo == [from : DottedName, neededClass : DottedName,
               filename : DottedName, doc : Seq(Item)]

\* main_import_parsed for the import statements of one file.  The grammar
\* reduces the last statement first and each is pushed in front, so that the
\* file's own statements end up in source order.
NewImports(file, classes) ==
  [i \in DOMAIN classes |-> [from |-> file, neededClass |-> classes[i],
                             filename |-> <<>>, doc |-> <<>>]]

\* find_import_file: the file of a class in the first search directory that
\* has one, <<>> (NULL) when none has.
FindImportFile(class) ==
  LET hit == SelectInSeq(opt.importPaths,
                         LAMBDA dir : dir \o class \in DOMAIN disk.aidl)
  IN  IF hit = 0 THEN <<>> ELSE opt.importPaths[hit] \o class

\* The text of one path component ends in the text of another.
EndsIn(c, d) == c = d \/ <<c, d>> \in TextSuffixes

\* check_filename = 0.  The expected name is package/Name.aidl, Name being
\* what precedes the first dot, and is compared with the end of the file's
\* absolute name character by character: the first expected component may
\* match the tail of a longer one.
FilenameFits(file, item) ==
  LET expected == item.package \o <<item.name[1]>>
      from == Len(file) - Len(expected)
  IN  /\ from >= 0
      /\ EndsIn(file[from + 1], expected[1])
      /\ \A i \in 2..Len(expected) : file[from + i] = expected[i]

\* The process ends; every variable the caller does not name keeps its value.
Exit(how) == pc' = "exit" /\ result' = how

Init ==
  /\ \E s \in Situations : opt = s.opt /\ disk = s.disk
  /\ pc = "preprocessed" /\ left = Len(opt.preprocessed)
  /\ NAMES = BaseTypes
  /\ lines = <<>> /\ scan = [type |-> "none", fullname |-> <<>>]
  /\ imports = <<>> /\ document = <<>> /\ mainDoc = <<>> /\ lex = "INITIAL"
  /\ todo = <<>> /\ pending = <<>> /\ itemType = "BINDER" /\ methods = <<>>
  /\ args = <<>> /\ event = FALSE
  /\ methodNames = {}
  /\ err = FALSE /\ result = "running"
  /\ outputFileName = opt.output /\ dep = {} /\ generated = {}
  /\ opened = {} /\ fault = FALSE

-----------------------------------------------------------------------------
(* parse_preprocessed_file, for each -p option.                            *)

\* The next -p file is opened.  The two line buffers are locals that nothing
\* initialises: they may hold what an earlier call left there.
OpenPreprocessed ==
  /\ pc = "preprocessed" /\ left > 0
  /\ left' = left - 1
  /\ LET file == opt.preprocessed[Len(opt.preprocessed) - left + 1]
     IN  IF file \in DOMAIN disk.preprocessed
           THEN /\ pc' = "lines" /\ lines' = disk.preprocessed[file]
                /\ scan' \in {scan, [type |-> "none", fullname |-> <<>>]}
                /\ UNCHANGED err
           ELSE /\ err' = TRUE
                /\ UNCHANGED <<pc, preprocessing>>
  /\ UNCHANGED <<inputs, NAMES, parsing, mainDoc, todo, checking, output,
                 result, fault>>

\* sscanf("%s %[^; ...]"): a field the line does not have keeps the buffer.
Scanned(line) ==
  [type     |-> IF line.type = "none" THEN scan.type ELSE line.type,
   fullname |-> IF line.fullname = <<>> THEN scan.fullname ELSE line.fullname]

\* One turn of the fgets loop.  Only a "//" line is skipped; what
\* gather_types answers is dropped.  The split writes a NUL over the last
\* dot, so fullname keeps the package alone.
ScanLine ==
  /\ pc = "lines" /\ lines # <<>>
  /\ LET line == Head(lines)
         buf == Scanned(line)
     IN  \/ /\ line.comment
            /\ lines' = Tail(lines)
            /\ UNCHANGED <<pc, NAMES, scan, err>>
         \/ /\ ~line.comment
            /\ buf.type \notin DeclarationWords
            /\ err' = TRUE /\ pc' = "preprocessed" /\ lines' = <<>>
            /\ scan' = buf
            /\ UNCHANGED NAMES
         \/ /\ ~line.comment
            /\ buf.type \in DeclarationWords
            /\ NAMES' = Gathered(NAMES, LineItem(buf.type, buf.fullname))
            /\ scan' = [buf EXCEPT !.fullname =
                          IF Len(@) > 1 THEN Front(@) ELSE @]
            /\ lines' = Tail(lines)
            /\ UNCHANGED <<pc, err>>
  /\ UNCHANGED <<inputs, left, parsing, mainDoc, todo, checking, output,
                 result, fault>>

\* Plausible bug, for the mutation runs: the list of -p files is advanced here too.
ClosePreprocessedTwice ==
  /\ pc = "lines" /\ lines = <<>>
  /\ pc' = "preprocessed" /\ left' = left - 1
  /\ UNCHANGED <<inputs, NAMES, preprocessing, parsing, mainDoc, todo,
                 checking, err, output, result, fault>>

\* fgets finds no more lines and the file is closed, or it cannot read on and
\* what is left of the file is not seen.
ClosePreprocessed ==
  /\ pc = "lines"
  /\ \/ lines = <<>> /\ UNCHANGED <<lines, err, fault>>
     \/ lines' = <<>> /\ err' = TRUE /\ fault' = TRUE
  /\ pc' = "preprocessed"
  /\ UNCHANGED <<inputs, NAMES, left, scan, parsing, mainDoc, todo,
                 checking, output, result>>

\* "if (err != 0) return err" after the last -p file.
EndPreprocessed ==
  /\ pc = "preprocessed" /\ left = 0
  /\ IF err THEN Exit("failed") ELSE pc' = "main" /\ UNCHANGED result
  /\ UNCHANGED <<inputs, NAMES, left, preprocessing, parsing, mainDoc, todo,
                 checking, err, output, fault>>
-----------------------------------------------------------------------------
(* The main file and its imports.                                          *)

\* parse_aidl(file) returned: its callbacks have run.  A parse that gives up
\* before the document rule leaves g_document as it was.
Parse(file) ==
  LET outcome == disk.aidl[file][lex]
  IN  /\ document' = IF outcome.called THEN outcome.items ELSE document
      /\ lex' = outcome.lex
      /\ opened' = opened \cup {[file |-> file, lex |-> lex]}

ParseMain ==
  /\ pc = "main" /\ pc' = "imports"
  /\ \/ /\ opt.input \in DOMAIN disk.aidl
        /\ LET outcome == disk.aidl[opt.input][lex]
           IN  /\ imports' = NewImports(opt.input, outcome.imports)
               /\ err' = outcome.err
               /\ mainDoc' = IF outcome.called THEN outcome.items ELSE <<>>
               /\ lex' = outcome.lex
        /\ opened' = {[file |-> opt.input, lex |-> lex]}
     \/ /\ opt.input \notin DOMAIN disk.aidl
        /\ err' = TRUE
        /\ UNCHANGED <<imports, mainDoc, lex, opened>>
  /\ document' = <<>>
  /\ left' = Len(imports')
  /\ UNCHANGED <<inputs, NAMES, preprocessing, todo, checking, output, result,
                 fault>>

\* The import the loop is at.  The loop took the head of g_imports when it
\* began and the imports found since are in front of that, so it is counted
\* from the tail.
Current == Len(imports) - left + 1

\* Plausible bug, for the mutation runs: every import is parsed.
NeedsParsingAlways(class) == TRUE

\* NAMES.Find(import->neededClass) == NULL.
NeedsParsing(class) == ~Declares(NAMES, Plain(class))

\* Plausible bug, for the mutation runs: the loop does not go on to the next
\* import.
SkipKnownImportAgain ==
  /\ pc = "imports" /\ left > 0
  /\ ~NeedsParsing(imports[Current].neededClass)
  /\ UNCHANGED vars

\* A class the preprocessed files (or the base types) declare is not parsed.
SkipKnownImport ==
  /\ pc = "imports" /\ left > 0
  /\ ~NeedsParsing(imports[Current].neededClass)
  /\ left' = left - 1
  /\ UNCHANGED <<inputs, pc, NAMES, preprocessing, parsing, mainDoc, todo,
                 checking, err, output, result, fault>>

MissImport ==
  /\ pc = "imports" /\ left > 0
  /\ NeedsParsing(imports[Current].neededClass)
  /\ FindImportFile(imports[Current].neededClass) = <<>>
  /\ err' = TRUE
  /\ left' = left - 1
  /\ UNCHANGED <<inputs, pc, NAMES, preprocessing, parsing, mainDoc, todo,
                 checking, output, result, fault>>

\* access() found the file; fopen() is still to come.
FindImport ==
  /\ pc = "imports" /\ left > 0
  /\ NeedsParsing(imports[Current].neededClass)
  /\ FindImportFile(imports[Current].neededClass) # <<>>
  /\ imports' = [imports EXCEPT ![Current].filename =
                   FindImportFile(imports[Current].neededClass)]
  /\ pc' = "open"
  /\ UNCHANGED <<inputs, NAMES, left, preprocessing, document, lex, opened,
                 mainDoc, todo, checking, err, output, result, fault>>

\* Plausible bugs, for the mutation runs: the second parse_aidl's status
\* replaces the first; it is not looked at.
ErrAfterImportLast(e, parseErr, doc) == parseErr \/ doc = <<>>
ErrAfterImportDocOnly(e, parseErr, doc) == e \/ doc = <<>>

\* err |= parse_aidl(...), and "if (import->doc == NULL) err |= 1".
ErrAfterImport(e, parseErr, doc) == e \/ parseErr \/ doc = <<>>

\* parse_aidl reads the import.  Its own imports are pushed in front of the
\* list by the same callbacks, where the loop will not come.
ParseImport ==
  /\ pc = "open" /\ pc' = "imports"
  /\ LET file == imports[Current].filename
         outcome == disk.aidl[file][lex]
     IN  /\ Parse(file)
         /\ imports' = NewImports(file, outcome.imports)
                         \o [imports EXCEPT ![Current].doc = document']
         /\ err' = ErrAfterImport(err, outcome.err, document')
  /\ left' = left - 1
  /\ UNCHANGED <<inputs, NAMES, preprocessing, mainDoc, todo, checking,
                 output, result, fault>>

\* The file that access() found cannot be opened any more: parse_aidl
\* returns 1 and g_document is that of the import before.
LoseImport ==
  /\ pc = "open" /\ pc' = "imports"
  /\ imports' = [imports EXCEPT ![Current].doc = document]
  /\ err' = ErrAfterImport(err, TRUE, document)
  /\ fault' = TRUE
  /\ left' = left - 1
  /\ UNCHANGED <<inputs, NAMES, preprocessing, document, lex, opened, mainDoc,
                 todo, checking, output, result>>

\* "bail out now if parsing wasn't successful"
EndImports ==
  /\ pc = "imports" /\ left = 0
  /\ IF err \/ mainDoc = <<>> THEN Exit("failed")
                              ELSE pc' = "filenames" /\ UNCHANGED result
  /\ UNCHANGED <<inputs, NAMES, left, preprocessing, parsing, mainDoc, todo,
                 checking, err, output, fault>>

-----------------------------------------------------------------------------
(* The checks.                                                             *)

\* The documents of the run, each with the name of its file: the main file,
\* then g_imports in order, with no document for the imports that were not read.
Documents ==
  <<[file |-> opt.input, items |-> mainDoc]>>
    \o [k \in DOMAIN imports |-> [file |-> imports[k].filename, items |-> imports[k].doc]]

\* check_filenames of the main file and of every import; then the documents
\* are queued for gather_types.
CheckFilenames ==
  /\ pc = "filenames" /\ pc' = "gather"
  /\ err' = (err \/ \E d \in DOMAIN Documents : \E i \in DOMAIN Documents[d].items :
                      ~FilenameFits(Documents[d].file, Documents[d].items[i]))
  /\ todo' = Documents
  /\ UNCHANGED <<inputs, NAMES, left, preprocessing, parsing, mainDoc,
                 checking, output, result, fault>>

\* One turn of the loop in gather_types.
GatherType ==
  /\ pc = "gather" /\ todo # <<>> /\ Head(todo).items # <<>>
  /\ LET item == Head(Head(todo).items)
     IN  /\ NAMES' = Gathered(NAMES, item)
         /\ err' = (err \/ Redefines(NAMES, item))
  /\ todo' = [todo EXCEPT ![1].items = Tail(@)]
  /\ UNCHANGED <<inputs, pc, left, preprocessing, parsing, mainDoc, checking,
                 output, result, fault>>

\* gather_types returns, and the loop goes on to the next import.
NextDocument ==
  /\ pc = "gather" /\ todo # <<>> /\ Head(todo).items = <<>>
  /\ todo' = Tail(todo)
  /\ UNCHANGED <<inputs, pc, NAMES, left, preprocessing, parsing, mainDoc,
                 checking, err, output, result, fault>>

EndGather ==
  /\ pc = "gather" /\ todo = <<>>
  /\ pc' = "check"
  /\ pending' = mainDoc
  /\ UNCHANGED <<inputs, NAMES, left, preprocessing, parsing, mainDoc, todo,
                 itemType, methods, args, event, methodNames, err, output, result,
                 fault>>

\* check_types: the next declaration, with a fresh map of method names.  A
\* parcelable has no methods.
CheckInterface ==
  /\ pc = "check" /\ pending # <<>>
  /\ pc' = "methods"
  /\ pending' = Tail(pending)
  /\ itemType' = Head(pending).kind /\ methods' = Head(pending).methods
  /\ methodNames' = {}
  /\ UNCHANGED <<inputs, NAMES, left, preprocessing, parsing, mainDoc, todo,
                 args, event, err, output, result, fault>>

\* check_method: the return type.  An unknown one ends check_method, and the
\* arguments of that method are never looked at.
CheckReturn ==
  /\ pc = "methods" /\ methods # <<>>
  /\ LET type == Head(methods).type
         found == Search(NAMES, type.ref)
     IN  /\ NAMES' = Searched(NAMES, type.ref)
         /\ \/ /\ found = 0
               /\ err' = TRUE /\ pc' = "name"
               /\ UNCHANGED <<args, event>>
            \/ /\ found # 0
               /\ err' = (err \/ ReturnRefused(itemType, NAMES'[found], type))
               /\ event' = IsEvent(NAMES'[found])
               /\ args' = Head(methods).args
               /\ pc' = "args"
  /\ UNCHANGED <<inputs, left, preprocessing, parsing, mainDoc, todo, pending,
                 itemType, methods, methodNames, output, result, fault>>

\* check_method: one argument.
CheckArg ==
  /\ pc = "args" /\ args # <<>>
  /\ LET ref == Head(args).type.ref
         found == Search(NAMES, ref)
     IN  /\ NAMES' = Searched(NAMES, ref)
         /\ err' = (err \/ found = 0
                        \/ ArgRefused(itemType, event, NAMES'[found], Head(args)))
  /\ args' = Tail(args)
  /\ UNCHANGED <<inputs, pc, left, preprocessing, parsing, mainDoc, todo,
                 pending, itemType, methods, event, methodNames, output, result, fault>>

EndArgs ==
  /\ pc = "args" /\ args = <<>>
  /\ pc' = "name"
  /\ UNCHANGED <<inputs, NAMES, left, preprocessing, parsing, mainDoc, todo,
                 checking, err, output, result, fault>>

\* "prevent duplicate methods", of each interface on its own.
CheckMethodName ==
  /\ pc = "name" /\ pc' = "methods"
  /\ err' = (err \/ Head(methods).name \in methodNames)
  /\ methodNames' = methodNames \cup {Head(methods).name}
  /\ methods' = Tail(methods)
  /\ UNCHANGED <<inputs, NAMES, left, preprocessing, parsing, mainDoc, todo,
                 pending, itemType, args, event, output, result, fault>>

EndInterface ==
  /\ pc = "methods" /\ methods = <<>>
  /\ pc' = "check"
  /\ UNCHANGED <<inputs, NAMES, left, preprocessing, parsing, mainDoc, todo,
                 checking, err, output, result, fault>>

\* exactly_one_interface = 0.
ExactlyOne ==
  /\ Len(mainDoc) = 1
  /\ mainDoc[1].kind = "USER_DATA" => ~opt.failOnParcelable

EndChecks ==
  /\ pc = "check" /\ pending = <<>>
  /\ err' = (err \/ ~ExactlyOne)
  /\ IF err' THEN Exit("failed") ELSE pc' = "output" /\ UNCHANGED result
  /\ UNCHANGED <<inputs, NAMES, left, preprocessing, parsing, mainDoc, todo,
                 checking, output, fault>>

-----------------------------------------------------------------------------
(* The outputs.                                                            *)

OnlyParcelable == mainDoc[1].kind = "USER_DATA"

\* options.outputFileName gets its value from -o when there is no OUTPUT.
\* generate_outputFileName2 builds a std::string from the package, which is
\* NULL for a file without a package statement: the process dies.
NameOutput ==
  /\ pc = "output"
  /\ LET item == mainDoc[1]
     IN  \/ /\ outputFileName = <<>> /\ opt.outputBaseFolder # <<>>
            /\ item.package = <<>>
            /\ Exit("crashed")
            /\ UNCHANGED outputFileName
         \/ /\ outputFileName = <<>> /\ opt.outputBaseFolder # <<>>
            /\ item.package # <<>>
            /\ outputFileName' = opt.outputBaseFolder \o item.package
                                   \o <<item.name[1]>>
            /\ pc' = "dep"
            /\ UNCHANGED result
         \/ /\ ~(outputFileName = <<>> /\ opt.outputBaseFolder # <<>>)
            /\ pc' = "dep"
            /\ UNCHANGED <<outputFileName, result>>
  /\ UNCHANGED <<inputs, NAMES, left, preprocessing, parsing, mainDoc, todo,
                 checking, err, dep, generated, fault>>

\* Plausible bug, for the mutation runs: the loop over g_imports ends at the
\* first import that was not parsed.
PrerequisitesToFirstUnset ==
  {opt.input} \cup {imports[k].filename :
                      k \in {k \in DOMAIN imports :
                              \A j \in 1..k : imports[j].filename # <<>>}}

\* What generate_dep_file lists after the colon, whose order says nothing to make.
Prerequisites ==
  {opt.input} \cup ({imports[k].filename : k \in DOMAIN imports} \ {<<>>})

\* generate_dep_file.  "parcelable: there's no output file", so no target.
\* A dependency file that cannot be opened is passed over in silence.
WriteDep ==
  /\ pc = "dep"
  /\ \/ /\ opt.autoDepFile \/ opt.depFileName # <<>>
        /\ dep' = {[target |-> IF OnlyParcelable THEN <<>> ELSE outputFileName,
                    prerequisites |-> Prerequisites]}
        /\ UNCHANGED fault
     \/ /\ opt.autoDepFile \/ opt.depFileName # <<>>
        /\ fault' = TRUE
        /\ UNCHANGED dep
     \/ /\ ~opt.autoDepFile /\ opt.depFileName = <<>>
        /\ UNCHANGED <<dep, fault>>
  /\ IF OnlyParcelable THEN Exit("ok") ELSE pc' = "header" /\ UNCHANGED result
  /\ UNCHANGED <<inputs, NAMES, left, preprocessing, parsing, mainDoc, todo,
                 checking, err, outputFileName, generated>>

\* What generate_cpp turns away: standard output, interfaces that are not
\* binder interfaces, and a file name without a directory.  dirname() of the
\* last leaves the buffer alone, so that newfile opens a file in a directory
\* named like the output file, which nobody made.
Unsupported ==
  \/ outputFileName = <<"-">>
  \/ mainDoc[1].kind # "BINDER"
  \/ Len(outputFileName) = 1

\* newfile: dirname(outputFileName)/Name.suffix.
GeneratedFile(suffix) ==
  [dir |-> Front(outputFileName), name |-> mainDoc[1].name, suffix |-> suffix]

\* generate_cpp up to the first fclose.
GenerateHeader ==
  /\ pc = "header"
  /\ \/ /\ Unsupported
        /\ Exit("failed")
        /\ UNCHANGED <<generated, fault>>
     \/ /\ ~Unsupported
        /\ generated' = generated \cup {GeneratedFile(".h")}
        /\ pc' = "implementation"
        /\ UNCHANGED <<result, fault>>
     \/ /\ ~Unsupported
        /\ fault' = TRUE
        /\ Exit("failed")
        /\ UNCHANGED generated
  /\ UNCHANGED <<inputs, NAMES, left, preprocessing, parsing, mainDoc, todo,
                 checking, err, outputFileName, dep>>

\* generate_cpp from the second newfile on.
GenerateImplementation ==
  /\ pc = "implementation"
  /\ \/ /\ generated' = generated \cup {GeneratedFile(".cpp")}
        /\ Exit("ok")
        /\ UNCHANGED fault
     \/ /\ fault' = TRUE
        /\ Exit("failed")
        /\ UNCHANGED generated
  /\ UNCHANGED <<inputs, NAMES, left, preprocessing, parsing, mainDoc, todo,
                 checking, err, outputFileName, dep>>

-----------------------------------------------------------------------------
Next ==
  \/ OpenPreprocessed \/ ClosePreprocessed \/ ScanLine \/ EndPreprocessed
  \/ ParseMain \/ SkipKnownImport \/ MissImport \/ FindImport
  \/ ParseImport \/ LoseImport \/ EndImports
  \/ CheckFilenames \/ GatherType \/ NextDocument \/ EndGather
  \/ CheckInterface \/ CheckReturn \/ CheckArg \/ EndArgs \/ CheckMethodName
  \/ EndInterface \/ EndChecks
  \/ NameOutput \/ WriteDep \/ GenerateHeader \/ GenerateImplementation

\* The compiler is one thread that never waits: it keeps taking steps.
Spec == Init /\ [][Next]_vars /\ WF_vars(Next)

-----------------------------------------------------------------------------
Locations ==
  {"preprocessed", "lines", "main", "imports", "open", "filenames", "gather",
   "check", "methods", "args", "name", "output", "dep", "header", "implementation", "exit"}

Doc == [file : DottedName, items : Seq(Item)]

\* Every variable holds what its C++ counterpart can hold: the registry only
\* types with a name, the import list only entries whose cursor is inside it,
\* the outputs only files of the one directory.
TypeOK ==
  /\ opt \in Invocations /\ disk \in Disks
  /\ pc \in Locations
  /\ NAMES \in Seq(Type)
  /\ left \in Nat
  /\ lines \in Seq(Line)
  /\ scan \in [type : Words, fullname : DottedName]
  /\ imports \in Seq(ImportInfo)
  /\ document \in Seq(Item) /\ mainDoc \in Seq(Item)
  /\ lex \in LexStates
  /\ todo \in Seq(Doc)
  /\ pending \in Seq(Item) /\ itemType \in {"USER_DATA", "BINDER", "RPC"}
  /\ methods \in Seq(Method)
  /\ args \in Seq(Arg) /\ event \in BOOLEAN
  /\ methodNames \subseteq Ident
  /\ err \in BOOLEAN /\ result \in Results /\ fault \in BOOLEAN
  /\ outputFileName \in DottedName
  /\ \A d \in dep : d \in [target : DottedName, prerequisites : SUBSET DottedName]
  /\ \A g \in generated :
       g \in [dir : DottedName, name : SimpleName, suffix : {".h", ".cpp"}]
  /\ \A o \in opened : o \in [file : DottedName, lex : LexStates]

\* No two types of the registry have the same qualified name, whatever the
\* preprocessed files, the documents and the generic references add: Find's
\* answer is the only candidate, and "they always get the same object".
NamesUnique ==
  \A i, j \in DOMAIN NAMES :
    QualifiedName(NAMES[i]) = QualifiedName(NAMES[j]) => i = j

\* Once parsing has gone well, the document of every import that was parsed
\* is one the parser delivered for that very file.  g_document is not cleared
\* between imports, so an import whose parse delivers nothing holds the
\* document of the one before it, and only err keeps it from being used.
DocsAreOwn ==
  pc \notin {"preprocessed", "lines", "main", "imports", "open", "exit"} =>
    \A k \in DOMAIN imports : imports[k].filename # <<>> =>
      \E o \in opened : /\ o.file = imports[k].filename
                        /\ disk.aidl[o.file][o.lex].called
                        /\ disk.aidl[o.file][o.lex].items = imports[k].doc

\* The dependency file names exactly the .aidl files the run has read: make
\* will compile again when, and only when, one of them changes.
DepListsOpened ==
  \A d \in dep : d.prerequisites = {o.file : o \in opened}

\* When a binder interface is compiled, its Stub and its Proxy are in the
\* registry, which the back ends look up by name: they were brought by the
\* declaration that was first to have the name, in a preprocessed file or here.
StubsRegistered ==
  pc \in {"output", "dep", "header", "implementation"} =>
    \A i \in DOMAIN mainDoc : mainDoc[i].kind = "BINDER" =>
      \A suffix \in {<<"Stub">>, <<"Stub", "Proxy">>} :
        Declares(NAMES, Plain(mainDoc[i].package \o mainDoc[i].name \o suffix))

\* The type references of the main document.
References ==
  LET methodsOf == UNION {ToSet(item.methods) : item \in ToSet(mainDoc)}
  IN  {m.type.ref : m \in methodsOf}
        \cup UNION {{a.type.ref : a \in ToSet(m.args)} : m \in methodsOf}

\* The type a reference stands for.
Meaning(ns, ref) == Searched(ns, ref)[Search(ns, ref)]

\* The step keeps the meaning of every reference of the main document that
\* has one.
KeepsMeanings ==
  \A ref \in References : Search(NAMES, ref) # 0 =>
    Search(NAMES', ref) # 0 /\ Meaning(NAMES', ref) = Meaning(NAMES, ref)

\* What a reference means never changes while methods are checked: the
\* generic types that Search adds on the way capture no name that resolved
\* before (their Name() is "List" too), so the answer a check was made with is
\* the answer the generators would get.
ResolutionStable ==
  [][(pc \in {"check", "methods", "args", "name"}) => KeepsMeanings]_vars

\* The compiler comes to an end, whatever imports whatever.
Termination == <>(pc = "exit")

=============================================================================
