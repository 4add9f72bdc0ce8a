---------------------------- MODULE UsageContract ----------------------------
(***************************************************************************)
(* What the usage text of options.cpp promises of a command line, and what *)
(* the file --preprocess makes is good for.                                *)
(***************************************************************************)
EXTENDS CommandLine, BaseTypes, FiniteSetsExt

(* "aidl OPTIONS INPUT [OUTPUT]", said of the arguments at once.           *)

\* The arguments before INPUT are options; the first that is none is INPUT.
Inputs == {k \in DOMAIN argv : /\ ~IsOption(argv[k])
                               /\ \A j \in 1..(k - 1) : IsOption(argv[j]) /\ Known(argv[j])}
Input == Min(Inputs)

Given(letter) == {k \in 1..(Input - 1) : argv[k][2] = letter}
Values(letter) ==
  FlattenSeq([k \in 1..(Input - 1) |-> IF argv[k][2] = letter THEN <<Rest(argv[k])>> ELSE <<>>])
LastValue(letter) ==
  IF Given(letter) = {} THEN <<>> ELSE Rest(argv[Max(Given(letter))])

\* The INPUT whose extension is changed, when neither OUTPUT nor -o says where
\* the result goes, is an .aidl file.
FollowsUsage ==
  /\ Inputs # {} /\ Len(argv) <= Input + 1
  /\ Len(argv) = Input /\ Given("o") = {} => Replaceable(argv[Input])

\* Options that may be repeated add up in their order, of the others the last
\* one counts.
Asked ==
  [task |-> "COMPILE_AIDL", failOnParcelable |-> Given("b") # {},
   importPaths |-> Values("I"), preprocessedFiles |-> Values("p"),
   inputFileName |-> argv[Input],
   outputFileName |-> IF Len(argv) > Input THEN argv[Input + 1]
                      ELSE IF Given("o") # {} THEN <<>>
                      ELSE Append(Front(argv[Input]), ".java"),
   outputBaseFolder |-> LastValue("o"), depFileName |-> LastValue("d"),
   autoDepFile |-> Given("a") # {}, filesToPreprocess |-> <<>>]

\* The line a file is preprocessed to, read with -p: the declaration that
\* parse_preprocessed_file makes of it.
ReadBack(line) == LineItem(line.type, line.fullname)

\* What each file declares, read on its own.
Declared(file) == disk.aidl[file]["INITIAL"].items

\* The registry after some declarations.
RegistryOf(items) ==
  LET after[k \in 0..Len(items)] ==
        IF k = 0 THEN RegisteredBaseTypes ELSE Gathered(after[k - 1], items[k])
  IN  after[Len(items)]

\* Reading the preprocessed file comes to the same as reading the files.
ReadsBack ==
  LET files == options.filesToPreprocess
  IN  RegistryOf([k \in DOMAIN output |-> ReadBack(output[k])])
        = RegistryOf(FlattenSeq([k \in DOMAIN files |-> Declared(files[k])]))

\* One line can hold what a file declares: a parcelable that is not
\* flattenable or a binder interface, alone and with a plain name.
OneLineHolds(items) ==
  /\ Len(items) = 1 /\ Len(items[1].name) = 1
  /\ items[1].kind = "USER_DATA" => items[1].parcelable /\ ~items[1].flattenable
  /\ items[1].kind # "RPC"

\* And a comment that the file before leaves open does not take a part of it
\* only, as the package without the class.
Plainly(file) ==
  /\ OneLineHolds(Declared(file))
  /\ \A s \in LexStates : disk.aidl[file][s].items \in {<<>>, Declared(file)}

Preprocessed == pc = "ended" /\ result = "ok" /\ options.task = "PREPROCESS_AIDL"

(* Properties.                                                             *)

TypeOK ==
  /\ \E s \in Situations : argv = s.argv /\ disk = s.disk
  /\ pc \in {"start", "options", "output", "rest", "compile", "preprocess", "write", "ended"}
  /\ i \in 1..(Len(argv) + 1) /\ lex \in LexStates
  /\ options \in OptionsType /\ lines \in Seq(Line)
  /\ Len(lines) <= Len(options.filesToPreprocess)
  /\ result \in {"none", "ok", "failed", "crashed"}

\* compile_aidl starts with what the arguments ask for by the usage text,
\* whatever their order; a command line that does not follow the usage never
\* gets there.
OptionsMeant ==
  options.task = "COMPILE_AIDL" /\ pc \in {"compile", "ended"} =>
    IF FollowsUsage THEN options = Asked ELSE pc = "ended" /\ result # "ok"

\* The preprocessed file has a line for each input, in order, or it is the one
\* from before, or it is gone; only a directory that does not give it up again
\* leaves it cut off, and then the exit status says so.
WholeOrNothing ==
  options.task = "PREPROCESS_AIDL" /\ pc = "ended" =>
    \/ result = "ok" /\ output = lines /\ Len(lines) = Len(options.filesToPreprocess)
    \/ result # "ok" /\ \/ output \in {<<Mark("older")>>, <<Mark("absent")>>}
                        \/ ~disk.removable

\* A class that went through --preprocess and -p is the class its file
\* declares, so that the import file need not be read, as far as one line can
\* say it: also when a file before it ends inside a comment.
PlainReadsBack ==
  Preprocessed /\ (\A file \in ToSet(options.filesToPreprocess) : Plainly(file))
    => ReadsBack

\* "-p<FILE> file created by --preprocess to import." (options.cpp:19): of any
\* declaration.
AllReadBack == Preprocessed => ReadsBack

\* Whatever the arguments and the files, the program comes to an end.
Termination == <>(pc = "ended")

=============================================================================
