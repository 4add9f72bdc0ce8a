# A verification development of aidlcpp

aidlcpp compiles `.aidl` interface definitions to C++ proxies and stubs. It is a
fork of Android's `aidl`, whose Java back ends are still in the source but cannot
be reached: `generate_cpp_files` is 1 (`aidl.cpp:28`). This directory holds TLA+
modules translated from that source, TLC configurations that check them on small
instances, and TLAPS proofs of what matters most.

## 1. Inventory

One run of the program is one thread walking through global state: the type
registry `NAMES`, the list `g_imports`, the last parsed document `g_document`, the
scanner's start condition. Nothing runs beside it except the file system, which may
change between a test and the use of its answer. What is hard here is therefore not
concurrency but *order and persistence*: which of several declarations comes first,
what a global still holds when the next file does not overwrite it, and whether an
error found in one of a dozen loops survives the others. The generated classes, by
contrast, do run in two processes, and have to agree on a wire format no one wrote
down.

| component | state | operations | what makes it correct |
|---|---|---|---|
| command line (`options.cpp`) | `struct Options` | `parse_options` | the options mean what the usage text says |
| search path (`search_path.cpp`) | `g_importPaths` | `set_import_paths`, `find_import_file` | the first directory that has the file wins |
| scanner, parser (`aidl_language_l.l`, `_y.y`) | start condition, `g_error`, `g_currentPackage`, extra text | `parse_aidl`, the callbacks `document` and `import` | every declaration reaches the document or sets an error |
| type registry (`Type.cpp`) | `NAMES` | `Add`, `Find`, `Search`, `register_base_types` | one type for a name; what a reference means does not change |
| driver (`aidl.cpp`) | `g_imports`, `g_document`, `err` | `compile_aidl` and the checks; `preprocess_aidl` | accepts exactly the valid inputs, writes nothing before, reports every failure |
| C++ back end (`generate_cpp.cpp`) | the two output files | `generate_cpp` | proxy and stub agree on the parcel; a call means what the declaration says |
| Java binder back end (`generate_java_binder.cpp`, `Type.cpp`) | the class being built | `generate_method` | the same, with out parameters, exceptions and oneway calls |
| Java rpc back end (`generate_java_rpc.cpp`, `Type.cpp`) | generated proxies, dispatchers, presenters | `generate_rpc_interface_class` | a call's own results reach its own callback; one listener at a time hears each event at most once |
| Java tree and printer (`AST.cpp`) | the calls of `Write` under way | `Write` of each node | Java reads the text as the tree that was built |
| build files, `external/bison/data`, `test/` | - | - | not the program's own code; the skeleton of `yyparse` is among bison's data |

The components meet in `compile_aidl`: it registers the base types, feeds the
registry with the declarations of the preprocessed files, has the parser fill
`g_document` and `g_imports` through callbacks while it walks that very list, asks
the search path for files, gathers and checks, and hands one interface to the back end.

`PROJECT.json` lists the hazards, each at its line, with the properties that would catch
it going wrong, or a note why there is none: most of those without are things the code does
as the model has them (a dropped status, an ignored `oneway`, a dependency file passed over,
a `std::string` from `NULL`), and no text of the repository says what it should do instead.

## 2. Modules

| module | models | notes |
|---|---|---|
| `Namespace` | `class Namespace` | the registry is a sequence of types; a dotted name is a sequence of identifiers, so text equality is sequence equality. `Find`, `Add`, `Search` are operators; `Search` returns a position in the registry it leaves behind (`Searched`), because resolving a generic adds a type. |
| `BaseTypes` | `register_base_types` | the 27 types in order, with what each class answers. |
| `Document` | `aidl_language.h`, `gather_types`, `check_method` | what a parse reports (`Outcome`) and what the checks say of one declaration. |
| `CompileAidl` | `compile_aidl` and all it calls | one action per loop turn, early return or call that can fail; `pc` names the loop. |
| `Compiler` | - | the abstract promise: decide, then write; an invalid input leaves nothing. |
| `CompileContract` | - | `Valid`, `Supported`, `Wanted` said of whole files with none of the loops; the refinement mapping; statements of the program's comments. |
| `MCCompile` | - | the instances. |
| `Grammar` | the rules of `aidl_language_y.y` | the states and tables bison makes of the grammar, computed: closure, goto, lookaheads, default reductions. A state is named by the first item it was entered for. `NumberAssumption` and `TablesAssumption` say that the names are distinct and what the tables have of the grammar; TLC evaluates both, and the proofs rest on them. |
| `ParseFile` | `aidl_language_l.l`, the generated parser, the semantic actions, `parse_aidl` | scanner and parser over a text of tokens: start conditions, shift, reduce, the three phases of error recovery, the lists the actions build, the callbacks. |
| `ParseContract` | - | what was written in a file, said without a parser; when parts of it are gone. |
| `MCParseFile` | - | well-formed files, and files one edit away from them. |
| `CommandLine` | `main`, `parse_options`, `preprocess_aidl` | one action per argument, file and line; `compile_aidl` is one step here, and module `CompileAidl` there. |
| `UsageContract` | - | the usage text, said of all arguments at once; what a preprocessed file is good for. |
| `MCCommandLine` | - | the command lines and disks. |
| `Products` | - | the tuples with a component from each of several sets, for `Signature`. |
| `Signature` | `convert_direction` | what a call depends on of a method declaration. |
| `RemoteCall` | - | the abstract promise of a call: the method called runs at most once, on what was passed; the caller gets what it returned and left in the out arguments, or an exception that has a cause. Where the cause is an out argument the caller passed as null, those before it are overwritten and no other. |
| `JavaMarshalling` | the parcel half of the classes of `Type.cpp` | a type is the record of the answers its class gives; a parcel is the sequence of its unread words. |
| `JavaBinder` | `generate_method` | one call through the generated Java classes, one action per emitted statement or marshalled value. |
| `CppBinder` | `generate_implementation`, `lookup_type`, `makeup` | one call through the generated C++ classes. |
| `RpcMarshalling` | the RpcData half of the classes of `Type.cpp` | a message is a function from keys to words. |
| `RpcBackend` | `generate_rpc_interface_class` | two calls at once through the proxy, `EndpointBase.process` and `_ResultDispatcher`; events through `Presenter.process`; `startListening` statement by statement. |
| `Subscription` | - | the abstract promise of the events: one listener at a time, each event at most once, as pushed. |
| `MCJavaBinder`, `MCCppBinder`, `MCRpcBackend` | - | the instances. |
| `JavaPrinter` | `AST.h`, `AST.cpp` | every `Write`, as a machine whose stack is the calls under way. |
| `JavaReader` | - | how Java reads what is written, with its precedences. |
| `MCJavaPrinter` | - | the trees. |
| `CompileAidl_proofs`, `CompileContract_proofs`, `ParseFile_proofs`, `CommandLine_proofs`, `JavaBinder_proofs`, `CppBinder_proofs`, `RpcBackend_proofs` | - | the theorems and the lemmas they rest on. |
| `SequenceLemmas` | - | what the proofs have in common: lists and lists of lists put together, recursion without induction. |

Correspondence for `CompileAidl`. `NAMES`, `imports`, `document` and `mainDoc` are
the variables of those names (`g_imports`, `g_document`). The loop over `g_imports`
began at the head it found after the main parse, and later parses push in front of
that, so the cursor `left` counts from the tail. `scan` is the pair of line buffers
`type` and `fullname`, which nothing initialises: each call starts with what the
previous one left there or with something else. `lex` is the start condition, and a
file on the disk has an outcome for each. `todo` are the documents `gather_types` has
still to visit, `pending`, `methods` and `args` what `check_types` and `check_method`
have still to visit. `fault` and `opened` are history: the environment refused a
file or broke off reading one, the files the parser read.

Abstractions. Paths are sequences of components without the extension. Diagnostics are
left out, `err` is a Boolean. The file names are compared as on a case-sensitive
system (`OS_CASE_SENSITIVE`). Lines longer than the buffers are left out. The start condition
`COPYING` behaves like `LONG_COMMENT`. `dirname` is glibc's. `check_outputFilePath`
makes directories and ignores every error; what follows from a missing directory is
the fault of the `fopen` after it.

Correspondence for `ParseFile`. A file is a sequence of tokens, comments and blocks;
`started` is the start condition the file before left the scanner in; the end of a comment
or of a block that nothing began would be other lexemes, so there is none (`EndsBegun`).
The package is set when the statement is scanned, as the lookahead, before the declaration
in front of it is reduced. The
states are those of an LALR table with bison's default reductions, so an error is seen
when a reduction without a lookahead has already been made: that is why the productions
for an interface keyword without a name (`y.y:160-184`) are never reached. `Discard`
drops states or tokens as `yyerrlab` does, with the count of three tokens before errors
are printed again. The loop is that of the skeleton `external/bison/data/yacc.c`, without
the limit of its stack (`YYMAXDEPTH`); the program that makes the tables is not in the
repository, so `Grammar` is external but for the rules. The nodes of the document are records; `NULL` is `<<>>`. The regular
expressions of the tokens are left out, and so is the text of a `%%{` block, of which
only whether it is kept counts.

Correspondence for `CommandLine`. An argument is a sequence of parts, because
`parse_options` looks at its first two characters, at the rest, at its length and at its
last five characters. `size() - 5` is computed modulo `SizeValues`. A file has, for each
start condition, what `parse_aidl` reports of it (`Outcome`, as in `CompileAidl`). The
preprocessed file holds lines, or a mark in their place: older, absent, cut off.

Correspondence for the generated classes. The back ends are generators, so the model is
of what they emit: the conditions of the generator (the direction, the dimension, void,
oneway) are the guards, the emitted statements the effects. `data`, `reply` and
`callResult` are `_data`, `_reply` and `_result` of the proxy method; `request`, `locals`
and `out` are `data`, `_arg0` and following, and `reply` of the stub. `cpc` and `spc`
are the statements the caller and the binder thread are at, `ck` and `sk` the argument.
The caller's arguments are objects, so a Java parameter an out argument is read into is
a part of the caller's state (`params`). `runs` is history: what the implementation was
given, returned and left. A word of a parcel remembers the Parcel method that wrote it,
and reading it with another gives `Garbage`.

In `CppBinder` a character of a name is a model value; `UpperOf` says which ones are small
letters and what `toupper` makes of them. `Half` is half the number of values of an int,
so that an int is a number from `-Half` to `Half - 1`, and a long has the square of as many.

`Parcel`, `transact` and the binder threads are not in the repository. Assumed of them:
words come out in the order they went in; a call arrives once or, when the process
has died, never; a waiting caller is told of a death; an exception of the
implementation becomes a word of the reply; past its end a C++ Parcel reads as zero.
A boolean is one of two model values, not an int. A raw list or map that is read into
an object replaces its contents. Recycling of parcels, the descriptor methods and
`asInterface` are left out. An array of a C++ method is left out: the statements treat
it as one element.

In `RpcBackend`, `request` is what `sendRpc` was given, `locals`, `result` and `reply` are
`_argN`, `_result` and the serialized `resultData`; `presenter` is `_presenter`, and
`presenters` the objects made for it. `call`, `told`, `pushes` and `heard` are what the
application sees. The broker is not in the repository. Assumed of it: a request is carried
out once or reported to the error listener, in any order with others; an event goes to
the presenters registered when it is pushed, to each at most once, in any order, perhaps
after the presenter was taken off. One thread of the application calls `startListening`
and `stopListening`, which have no lock. A proxy method without a results interface is
answered when it returns, as a oneway call is, so `KeepsCallPromise` maps it to one.
Arrays are left out (`generate_new_array` stops the compiler, and nothing is emitted for a
dimension), and so are `CharSequence` (`Type.cpp:580`: it claims methods it does not have)
and a list of `RpcData` (`Type.cpp:1221`: the get method is built with an argument that
is not passed). `Compiles` also leaves out an argument called `_result`.

In `JavaPrinter`, a node has the fields of its struct, a pointer that may be `NULL` is a
sequence of at most one element, and the modifiers are sets of bits. White space,
comments and `escape_backslashes` are left out; words are taken to be separated, as the
formats see to. Nothing calls the `GatherTypes` methods.

## 3. Runs

| run | inputs | checks |
|---|---|---|
| `imports` | 6 main files x 9 states of the import B x 4 of the import IC or a second B x 4 lists of preprocessed files | `TypeOK`, `DocsAreOwn`, `DepListsOpened`, `KeepsPromise`, `Termination` |
| `meaning` | methods over 16 types (arrays of one and two dimensions, lists, unknown and unmarshallable types), 4 directions, binder and rpc, pairs of methods, redefinitions; output name given, derived, `-` or without a directory, dependency file off, on, named, `-b`, every kind of declaration, with and without a package; the preprocessed files of the next run without empty lines | `NamesUnique`, `ParsesOnlyNeeded`, `StubsRegistered`, `KeepsPromise`, `ResolutionStable` |
| `java_call` | every accepted argument alone, oneway and not; every type as a result, alone or an array; pairs of arguments that take no word, one, two, or a length on the way; a Map as an argument with each type as a result, and with out arguments and a result that need the class loader too; two methods | `NoMisread`, `AllRead`, `ClassLoaderDeclared`, `KeepsCallPromise`, `CallEnds`, `SentRuns`, `OnewayEnds` |
| `cpp_call` | every pair of argument types of the type map, oneway and not; every result that fits an int; every pair of names like getFooBar of up to three letters | `NoMisread`, `AllRead`, `KeepsCallPromise`, `CallEnds` |
| `rpc` | every type as an argument of each direction and as a result; every pair of calls of methods of all kinds of answer, with an event between them or not; up to three calls of `startListening` and `stopListening`, two pushes, one or three events | `TypeOK`, `NoMisread`, `ListensAsTold`, `KeepsCallPromise`, `KeepsEventPromise`, `ResultsArrive`, `EventsHeard` |
| `parse` | files with every header and up to two declarations; files a token, a comment or a block away from some of them, also a comment in a block, a block in a comment and the end of one the file before began; each start condition | `TypeOK`, `WellFormedAccepted`, `NothingLost`, `InSourceOrder`, `DocumentGiven`, `Termination` |
| `command` | up to two arguments of every sort, up to four of those that build on each other; `--preprocess` over two or three files, one of which loses its package to a comment left open before it, every state of the output file | `TypeOK`, `OptionsMeant`, `WholeOrNothing`, `PlainReadsBack`, `Termination` |
| `printer` | every expression of depth two in each place the back ends put one; every form of statement, method and class; an interface with stub and proxy | `ReadsBack` |
| `empty_lines`, `cpp_long`, `silent_loss`, `read_back` | - | each shows that a statement of the repository does not hold |

Bounds. Two imports are enough for each to come before, after and inside the other, for
one to leave its document or its start condition to the other, and for a class found in
one directory to hide that of the next. Three lines are enough for a buffer to be reused
after a line that changed it and for the line after that to see the result. No method
of `meaning` has two arguments: the arguments are checked independently of each other,
apart from the types `Search` adds, which the pairs of methods cover. Two arguments are
enough for a word too many or too few to shift what follows, and one call is enough
because the classes keep nothing between calls. Arrays have up to one element, objects
one or two contents, an int two bits (`Half` = 2) and a long twice as many: enough for null, empty,
full and truncated to differ. Methods whose classes do not compile (`Compiles`) are left
out of `java_call` and `cpp_call`: in Java an out Map and a oneway method with a result
(a class loader variable that is not declared is kept in, see `ClassLoaderDeclared`); in C++ an out argument, an argument that is only declared
as a reference, a result that is not a number. So are C++ results that do not fit an
int, which `cpp_long` is about.

Of `rpc`: two calls are what it takes to confuse one with another, and three methods what it
takes for a chain of `if` statements to lose one; two pushes and three operations let an
event be pushed before, and heard after, the listener has changed twice. Of `parse`: two
declarations, and two methods and arguments in them, show an order and a list continued
after an error; one edit is what one error of the writer makes, and a second error
meets the parser in a state that recovery from the first reaches. Of `command`: four
options show order, repetition and a value overwritten; three files show a start
condition passed on and used twice. Of `printer`: parentheses depend on a node and the one
around it, which depth two covers. No tree has an assignment as an operand, two
interfaces on a class or a field with a dimension, because no back end builds one
(`AST.cpp` would print each wrongly).

`KeepsPromise` is the refinement `CompileAidl => Compiler`. Its strength is in `Valid`,
which is stated of the files and the final registry, not of `err`: a run that loses an
error, keeps a spurious one, writes before it has decided, or ends well without a file
breaks it. A dependency file that cannot be opened is the one failure the abstract
specification allows in silence, because the code does.

`KeepsCallPromise` is the refinement of `RemoteCall`; in `rpc` each of the calls under way
has an instance of its own, `Remote(c)`. The answer appears when the proxy method ends, so that what it has read by then
does not count as told. A null out argument stops the proxy in the middle: the promise then says
which of the caller's objects have been overwritten. In `CppBinder` a failed call is mapped to an exception although a
caller of an int method cannot see it: the zero it gets is the zero of an answer
(`generate_cpp.cpp:224`). `KeepsEventPromise` is the refinement of `Subscription`.

`ClassLoaderDeclared` says when the class loader variable is declared, and so also where the
proxy uses it without: when an argument of the stub needs it, the pointer
`generate_method` shares between both is set, and a result or an out argument that needs it
finds it declared (`generate_java_binder.cpp:302, 470, 480`). Both halves are in `java_call`.

`NothingLost` and `OptionsMeant` compare with contracts that have no parser and no loop:
what stands in the file, what stands between the arguments. `NothingLost` allows three
losses, each by its own clause of `Slip`, and nothing else: a declaration without a name
(`y.y:93`, `:114`), which is the one the parser itself calls a syntax error and `silent_loss`
is about; what comes after `(,`, because the empty list is taken for an error (`y.y:246`); and what
comes after a `%%{` block, whose end the scanner takes for text (`l.l:44-47`).
`PlainReadsBack` excludes by `Plainly` the classes of `read_back`, and a file of which a
comment left open by the file before takes a part and not all.

Fairness. `WF_vars(Next)` in `CompileAidl`, `ParseFile` and `CommandLine`: the compiler is
one thread that never waits, so it takes another step whenever it has one. In the
generated binder classes only the thread of the caller is fair; `CallEnds` and `SentRuns`
say that they need a stub process that is scheduled too (`StubIsScheduled`), and
`OnewayEnds` that it does not. Dying is never fair. In `RpcBackend` the broker's threads
are scheduled, one condition for each call and one for the events; losing a message,
making a call, pushing and listening are never fair. `CHECK_DEADLOCK FALSE` because a run
ends at `exit`, a call at `done`, a tree when it is printed.

`PROJECT.json` quotes the statement each of `empty_lines`, `cpp_long`, `silent_loss` and
`read_back` refutes. In `empty_lines`, the line before has left its package in `fullname`,
cut at the last dot, and the empty line declares a class of that name: after
`parcelable a.B;` a class `a`. Seen on the way and not made a run:

- driver: an rpc interface is refused after "shouldn't be any more errors"
  (`aidl.cpp:947`), and one without a package reaches a `std::string` from `NULL`
  (`aidl.cpp:691`); `MyIA.aidl` is taken for `IA` (`aidl.cpp:213`); the target of the
  dependency rule is a `.java` file the C++ back end never makes (`aidl.cpp:658`); a
  preprocessed line that declares `IC.Stub` before `IC` keeps the generated Stub out of
  the registry, against `aidl.cpp:324`;
- command line: an input name shorter than five characters makes `compare` throw
  (`options.cpp:133`) where `options.h` promises the usage statement; `-a` may be followed
  by anything; an empty `OUTPUT` leaves no output name; `close` is not looked at
  (`aidl.cpp:1055`), nor is any `fprintf` of `generate_java`;
- scanner: a character that starts no token is answered as an identifier under the comment
  "syntax error!" (`aidl_language_l.l:98`); a `//` comment on a last line without a newline
  is none;
- Java: the class loader variable is shared by stub and proxy, and where both need it the
  proxy uses it undeclared (`generate_java_binder.cpp:302`, `ClassLoaderDeclared`); an out `Map` is made with `new` of an interface;
- C++: `oneway` is ignored (`generate_cpp.cpp:222`); a failed call returns zero where the
  hand-written class in `test/existing` looks for an exception first; the branch for out arguments prints a
  format string into the class (`generate_cpp.cpp:292`).

## 4. Proofs

Every theorem holds for all values of the constants that satisfy the named assumptions
of the modules; what else one assumes stands in its statement. `PROJECT.json` lists the
theorems, each with the property of a run it states.

### The registry and the driver

The first part of `CompileAidl_proofs` has what the operators of the registry guarantee: `Find` returns a
position exactly when the name is declared, `Add` keeps names unique and moves nothing,
`Search` changes the registry only through `Add`. `SearchedStable` is the hardest: what
`Search` answers for one reference is not changed by the generic type it adds for another.
It rests on `ListsLast`, that a generic type of the registry is a list whose arguments
stand before it, and on the fact that names of plain types have no arguments.

`CompileAidl_proofs`, for any inputs, disk and base types:

- `TypeCorrect`, `NamesStayUnique`, and `RegistryKeepsNames` (no step makes the registry
  forget a name). `TypeOK` is not inductive: `ScanLine` needs a name in the buffer
  whenever there is a declaration word, and the cursor needs a bound. `Consistent`
  collects these facts. Every step changes the registry only through `Gathered` or
  `Searched` (`RegistryStep`).
- `DocumentsAreOwn` and `DependenciesAreRead`. `ImportsInv` says which imports have been
  visited: those the cursor has passed have a document the parser delivered for their own
  file, those ahead have none and no file; what is open is counted as read already. An
  import list grows at its front while the loop walks it, so every statement about the
  list has a lemma that shifts it (`ParseImportSets`).
- `ReferencesKeepMeaning`, `Spec => ResolutionStable`: from the checks on, what a reference
  of the main document means does not change. The invariant is `ListsLast` (`GenericsLast`).

`CompileContract_proofs`:

- `OnlyNeededParsed`: an import that something declared before is never opened, and neither
  is an import of an import;
- `StubsAreRegistered`: an interface that is compiled has its `Stub` and `Proxy`;
- `CompilerKeepsPromise`, `NoEmptyLines => (Spec => KeepsPromise)`: `CompileAidl` implements
  `Compiler`. The hypothesis is a statement about the constant `Disks`, and the situations
  of `imports` and `meaning` satisfy it. It cannot be dropped: an empty line is judged by
  what an uninitialised buffer holds, and `empty_lines` shows the run going wrong by it.

The first two rest on `ContractInv`: each preprocessed line that has been read is declared,
the first declaration of a name decides what it is, and from `gather` on each interface of
the document comes whole, with the classes generated for it.

The third needs to know at every step what `err` has to do with the verdict of the
contract, which is stated of the inputs alone. That is `PromiseInv`, a conjunct or two for
each loop: while a list is walked, `err` is set only if the contract is already false, and
as long as it is not set all that lies behind the cursor is right, so that only what lies
ahead can still decide (`LinesJudged`, `ImportsJudged`, `GatherJudged`, `ChecksJudged`).
A file that could not be opened or read to its end is the other way to an error (`fault`).
Around them stand `NothingElseKnown` (a name in the registry is one the contract knows),
`MainTaken`, `DocumentsComplete` and `ReadWell` (what was read is what is on the disk),
`InOrder` (the checks take the methods in the order of the document) and `OutputInv` (once
writing has begun the inputs were valid, and what is written is what was asked). Three
lemmas carry most of it. The registry grows during the checks, yet what it has already said
of a name stays (`DeclarationsStay`, `VerdictStays`). And `check_method` decides a return
type and an argument as the contract does (`ReturnJudged`, `ArgJudged`), although it looks
at the registry as it is by then. The steps that read and check are then stutters of
`Compiler`, a loop that is left because of an error is its `Reject`, the end of the checks
its `Accept`, and the steps that name, open and write files are stutters or its `Write`,
`Finish` and `Abandon`. TLC checked `PromiseInv` and `NoEmptyLines` on the situations of
`imports` and `meaning` before the proof.

### The parser

`ParseFile_proofs`, for every set of files and whatever start condition the file before
left, with the tables of the real grammar:

- `TypeCorrect`: the stack never runs empty, not in error recovery either, where states are
  dropped until one takes the error;
- `SourceOrder`: what is handed over is in the order of the file;
- `GivenOnce`: the document callback has run once when no error is returned;
- `NothingIsLost`: a file parsed without an error, and without one of the slips, has been
  handed over whole.

The first three rest on `IInv`. `Explained` says of the stack that each state on it was
entered from the one below, by the symbol it was entered for (`Entered`), and that each
value is what its symbol means (`Means`): this is what makes a reduction find, under the
top, the right side of its rule with a node of the right kind in each place, for the items
of the state say what lies below it (`ItemsExplain`). `InOrder` says that all places in one
value come before those in the next and that within a node they rise; a reduction keeps it
because each action puts its parts together in the order of its right side, which is shown
action by action (`MeantValue`). `Placed` says that all places are behind the parser, and
`HeadersFirst` that the imports, which are not on the stack but in `g_imports`, come after
the package that is on it and before everything else. `GivenLast` ties the callback to the
end of the file.

`NothingIsLost` needs an invariant that compares what has been taken with the text, at every
step: `Undisturbed`. As long as no error is found and nothing has slipped, the text written
up to the place the parser has got past is the text of what is on the stack (`Clear`), where
each symbol with its value is written back (`Spelling`). A shift adds a word on both sides. A
reduction leaves the left side alone, so the value an action makes must say what its right
side said: `SpelledValue`, a lemma for each kind of node. The actions that drop something
are `Traceless`: they answer a declaration without a name, and an argument after a list that
is empty. `TracelessSlips` shows that the words which make them do so stand side by side in
the file, which is a `Slip`. `Headed` and `Carried` tie the package and the imports, which
are noted beside the stack, to the symbols that stand for them, and the package of each
declaration to that of the file. `Belated` is the one moment they differ: the package has
been set by a lookahead that the parser is about to refuse.

What the tables contribute is stated of them alone (`TablesAssumption`), and evaluated by
TLC: the forms of the rules (`RulesTyped`, `RulesSpelled`), of the tables (`TablesTyped`),
what the items say of the states below (`ItemsExplain`), that the document is complete when
it is accepted (`DocumentWhole`), and that the package and the headers stand at the bottom,
a list of arguments after its parenthesis (`PlacesApart`). TLC checked `IInv` and
`Undisturbed` on the files of `parse` before they were proved.

### The command line

`CommandLine_proofs`, for every command line, disk and size of `size_type`:

- `CommandLineTypeOK` and `PreprocessWholeOrNothing`. Neither is inductive. The missing
  part is `OutputFollows`: before the output is opened it is the old file or none, afterwards
  it holds exactly the lines before the next one; and nothing but `--preprocess` sets the
  task, so that the options in between cannot matter. A step that bounds `i` while writing
  needs that there are no more files than arguments;
- `OptionsAreMeant`: `compile_aidl` starts with what the usage text says of all arguments at
  once. `OptionsFollow` says it of the arguments before the place reached: each option is
  what those before it ask for. `ExtensionFits` is the arithmetic: an output file
  name derived from an input that ends in `.aidl` is at least as long as what is cut off
  (`Size` adds up the characters of the parts), so `size() - 5` does not wrap;
- `PlainlyReadBack`: the registry read back from a preprocessed file is the one the
  declarations lead to. Each line is that of its file (`LinesFollow`), a line read back
  declares what the file declared (`ReadAsDeclared`), and one declaration after the other
  makes the same registry (`SameRegistry`).

### The generated classes

What a loop of the generator emits for a list of arguments is written with a fold, and
no prover can do an induction over it with the library's theorems, whose induction takes
the statement as an operator. `SequenceLemmas` gets round that twice. `Joined(words,
parts, i, e, S)` says that `words` are the parts `i` to `e - 1` one after the other, by a
function of the rests instead of a recursion: one more part at either end is a lemma
without induction (`JoinOneMore`, `JoinedFirst`), and the induction is then over the steps
of the machine. Where a statement is about all numbers, the induction is over the set of
the numbers it fails for (`AllNumbers`, from the well-foundedness of `<`). `Recursion` gets
a recursive function from it in the same way, and with that what `FlattenSeq` makes of a
list with one more (`FlattenOneMore`), which the parser's proof uses at every node.

`JavaBinder_proofs`, for every interface whose types are coherent (`TypesAssumption`: a
class writes, creates and reads with the same Parcel method) and whose classes compile, but
for the class loader variable, every call, every length of its argument list, oneway or not, whether the implementation
throws or the process dies:

- `TypesAreCoherent`: the classes of `Type.cpp`, and a list of any element, are coherent;
- `WrittenIsCreated`, `WrittenIsRead`: what `generate_write_to_parcel` wrote comes back
  through `generate_create_from_parcel` and `generate_read_from_parcel`, null included, and
  what follows it is left in the parcel;
- `BinderNothingMisread`, `BinderReadsAll`: the words of both parcels;
- `LoaderDeclarations`: where the class loader variable is declared, and where it is used
  without. `Declared` says it of a method by whether the shared pointer was set before,
  which for the proxy is a statement about the arguments of the stub (`ProxyLoaderOK`);
- `BinderKeepsPromise`: the pair implements `RemoteCall`. `StoppedAt` is the state a null out
  argument leaves the caller's objects in.

The invariant is `BinderInv`: at each statement the request is the arguments sent so far,
or those not read yet; the reply is the answer and what the out arguments held when the
method left; what has been read equals what was written.

`CppBinder_proofs`, for every width of int and every interface whose methods have codes of
their own (`CodesAssumption`): `CppNothingMisread` and `CppReadsAll`, and `CppKeepsPromise`
where all results fit an int (`ResultsFit`; `cpp_long` shows that a long does not). The
invariant is `CppInv`. `CamelCaseCodes` discharges the first hypothesis for names like
getFooBar, over any alphabet and of any length: `makeup` is injective on them, because a
capital of the name leaves an underscore. It is not injective on all names, `getFoo` and
`GET_FOO` have one code.

`RpcBackend_proofs`, for every interface, set of listeners and number of calls and events:

- `ListenerReplaced`: `ListensAsTold` speaks of the moments between two calls of
  `startListening`; `Standing` says what holds at each statement in between, which is that
  a presenter is only made when the broker has none;
- `RpcTypesAreCoherent`, and under that hypothesis `RpcTypeCorrect`, `RpcNothingMisread`;
- `CallsKeepPromise`: each call is a behaviour of `RemoteCall` whatever the other does.
  `CallInv` says of each call by itself what its messages hold at each stage, and that a
  step of one call leaves the others' stages alone (`OneCallMoves`);
- `EventsKeepPromise`: the events are a behaviour of `Subscription`. `EventInv` says that
  an event on its way has the arguments it was pushed with, goes to a presenter registered
  then, and has not been heard.

### What is assumed

Of the inputs (`InputsAssumption`, `CommandLineAssumption`, `FilesAssumption`): the disk
holds what files can hold, a file is a sequence of lexemes, parse_options leaves an output
name unless `-o` is given, and `.aidl` has five characters. Of the grammar
(`NumberAssumption`, `TablesAssumption`): no input enters them, TLC evaluates them of the
one grammar there is, and they are in this sense lemmas that TLC proves. Of the base types
(`BaseTypesAssumption`): they have different names and java.util.List is one of them, as
`register_base_types` sees to; TLC evaluates it of the real table. Of the interfaces
(`InterfacesAssumption`, `ClientsAssumption`): methods and arguments are lists, with the
directions the grammar knows, `check_method` has let them through, and the generated
classes compile (the Java classes but for the class loader variable); two items of an rpc interface have different names, and nobody calls an
event. Of the values (`ValuesAssumption`, `GarbageAssumption`): the two booleans differ,
and what a misread word gives is no value. `HalfAssumption` and `LettersAssumption` say
that an int has values, and that different small letters have different capitals, none of
them small.

### What the proofs changed

Some things in the model were wrong and no run had shown it. `KnownWithoutImport` took
every interface line of a preprocessed file to bring a `Stub` and a `Proxy`, although only
the first declaration of a name is gathered, and a line with an unknown word for a
declaration. The contract of a method knew an event by its bare name, where the code
compares the type (`ReturnValid`, `ArgValid`). `PlainReadsBack` lacked the hypothesis that a
comment left open does not take a part of a file: the package may be gone and the class
left. What is written in a file was found by looking for comments and for blocks one
apart from the other, so that the beginning of a block inside a comment hid what came after
it; now the contract knows what each lexeme is in (`Within`). Files with an end of a comment
that nothing began had been allowed, which the scanner would have split into other lexemes.
`command` and `parse` have such files now. Some `CASE` expressions had arms that
overlap, of which TLC takes the first and the provers any. Folds that a closed form
describes as well (`Entry`, `Put`, the dispatch chains) were rewritten to it, and the
recursive operators of `Grammar`, `ParseFile` and `CommandLine` became recursive functions.

### Only model-checked

- `WellFormedAccepted` of `parse`. It says that the tables are complete for the grammar: each
  file that follows it has a run without an error. `WellFormed` is a set of files given by
  hand; a definition of it by derivations would be an induction over them.
- `ReadsBack` of `printer`: `JavaReader` is recursive on the nodes of a tree, and the statement
  is an induction over them.
- `Termination` of `imports`, `parse` and `command`, `CallEnds`, `SentRuns`, `OnewayEnds`,
  `ResultsArrive` and `EventsHeard`: liveness, which is out of the prover's reach.

Every other property of the passing runs is stated by a theorem.

## 5. Not modelled

- The build files, `external/bison/data` and the inputs in `test/`: not the program's own
  code. What bison does with the grammar is in `Grammar`, its parser skeleton in `ParseFile`.
- The regular expressions of the tokens, line numbers, the text of diagnostics, extra text
  beside whether it is kept.
- Of the Java binder classes: the constructors, `asInterface`, `asBinder` and the
  descriptor methods. They decide nothing that depends on the interface.
- `CompileAidl` knows the start conditions `INITIAL` and `LONG_COMMENT`; `COPYING`, which
  behaves like the latter there, is in `ParseFile`.
- Arrays in C++ and rpc classes, and the methods whose classes do not compile (above).

## 6. What could come next

1. `CompileAidl` over files instead of outcomes: `ParseFile` in place of the sets of
   outcomes, which are now chosen by hand from what `parse` shows.
2. The trees of `generate_method` built from a method, so that `printer` and `java_call`
   are about the same classes.
