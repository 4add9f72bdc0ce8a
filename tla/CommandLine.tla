----------------------------- MODULE CommandLine -----------------------------
(***************************************************************************)
(* main(): parse_options on the arguments, then compile_aidl (module       *)
(* CompileAidl) or preprocess_aidl, which is modelled here.                *)
(*                                                                         *)
(* An argument is a sequence of parts: <<>> is the empty one, and          *)
(* <<"-", "I", "inc">> is -Iinc.  Where only its length or its extension   *)
(* counts, a name is its parts, of Chars characters each.                  *)
(***************************************************************************)
EXTENDS Document, FiniteSets

CONSTANTS
  Situations,     \* [argv, disk]: arguments, without the program's name, and files
  Chars,          \* how many characters a part has
  SizeValues      \* how many values string::size_type has

Parts == DOMAIN Chars
Argument == Seq(Parts)

\* aidl: what parse_aidl reports of each readable file.  The output file may be
\* there already, may be beyond opening, and its directory may refuse to have
\* it removed again.
IsDisk(d) ==
  /\ \A f \in DOMAIN d.aidl : f \in Argument /\ d.aidl[f] \in [LexStates -> Outcome]
  /\ d.exists \in BOOLEAN /\ d.opens \in BOOLEAN /\ d.removable \in BOOLEAN

ASSUME CommandLineAssumption ==
  /\ \A s \in Situations : s.argv \in Seq(Argument) /\ IsDisk(s.disk)
  /\ Chars \in [Parts -> Nat] /\ {".aidl", ".java"} \subseteq Parts /\ Chars[".aidl"] = 5
  /\ SizeValues \in Nat \ {0}

VARIABLES
  argv, disk,
  pc,
  i,          \* the next argument to look at, the next file to read or line to write
  options,    \* struct Options
  lex,        \* the scanner's start condition
  lines,      \* preprocess_aidl's lines
  output,     \* what is in the preprocessed file: lines, or a mark in their place
  result      \* main's result; "crashed" when there is none

inputs == <<argv, disk>>
vars == <<argv, disk, pc, i, options, lex, lines, output, result>>

OptionsType ==
  [task : {"none", "COMPILE_AIDL", "PREPROCESS_AIDL"}, failOnParcelable : BOOLEAN,
   importPaths : Seq(Argument), preprocessedFiles : Seq(Argument), inputFileName : Argument,
   outputFileName : Argument, outputBaseFolder : Argument, depFileName : Argument,
   autoDepFile : BOOLEAN, filesToPreprocess : Seq(Argument)]

NoOptions ==
  [task |-> "none", failOnParcelable |-> FALSE, importPaths |-> <<>>,
   preprocessedFiles |-> <<>>, inputFileName |-> <<>>, outputFileName |-> <<>>,
   outputBaseFolder |-> <<>>, depFileName |-> <<>>, autoDepFile |-> FALSE,
   filesToPreprocess |-> <<>>]

\* A line of a preprocessed file.
Line == [type : DeclarationWords, fullname : DottedName]

\* In the place of a line: a file that is older, is absent, or was cut off.
Mark(what) == [mark |-> what]

Init ==
  /\ \E s \in Situations : argv = s.argv /\ disk = s.disk
  /\ pc = "start" /\ i = 1 /\ options = NoOptions /\ lex = "INITIAL"
  /\ lines = <<>> /\ result = "none"
  /\ output = <<Mark(IF disk.exists THEN "older" ELSE "absent")>>

Exit(how) == pc' = "ended" /\ result' = how

-----------------------------------------------------------------------------
(* parse_options.                                                          *)

Preprocess == argv # <<>> /\ argv[1] = <<"-", "-", "preprocess">>

\* "aidl --preprocess OUTPUT INPUT...", with at least two names.
ParsePreprocess ==
  /\ pc = "start" /\ Preprocess
  /\ IF Len(argv) < 3 THEN Exit("failed") /\ UNCHANGED options
     ELSE /\ options' = [options EXCEPT !.task = "PREPROCESS_AIDL",
                           !.outputFileName = argv[2],
                           !.filesToPreprocess = SubSeq(argv, 3, Len(argv))]
          /\ pc' = "preprocess" /\ UNCHANGED result
  /\ UNCHANGED <<inputs, i, lex, lines, output>>

BeginOptions ==
  /\ pc = "start" /\ ~Preprocess
  /\ options' = [options EXCEPT !.task = "COMPILE_AIDL"]
  /\ pc' = "options"
  /\ UNCHANGED <<inputs, i, lex, lines, output, result>>

IsOption(arg) == arg # <<>> /\ arg[1] = "-"

\* The rest of an option, s+2.
Rest(arg) == SubSeq(arg, 3, Len(arg))

\* An option parse_options takes: -b must be alone, -a may be followed by anything.
Known(arg) ==
  Len(arg) > 1 /\ \/ arg[2] \in {"I", "d", "p", "o"} /\ Len(arg) > 2
                  \/ arg[2] = "a"
                  \/ arg[2] = "b" /\ Len(arg) = 2

\* Plausible bug, for the mutation runs: the last import path is searched first.
WithOptionFront(o, arg) ==
  CASE arg[2] = "I" -> [o EXCEPT !.importPaths = <<Rest(arg)>> \o @]
    [] arg[2] = "d" -> [o EXCEPT !.depFileName = Rest(arg)]
    [] arg[2] = "a" -> [o EXCEPT !.autoDepFile = TRUE]
    [] arg[2] = "p" -> [o EXCEPT !.preprocessedFiles = Append(@, Rest(arg))]
    [] arg[2] = "o" -> [o EXCEPT !.outputBaseFolder = Rest(arg)]
    [] arg[2] = "b" -> [o EXCEPT !.failOnParcelable = TRUE]

WithOption(o, arg) ==
  CASE arg[2] = "I" -> [o EXCEPT !.importPaths = Append(@, Rest(arg))]
    [] arg[2] = "d" -> [o EXCEPT !.depFileName = Rest(arg)]
    [] arg[2] = "a" -> [o EXCEPT !.autoDepFile = TRUE]
    [] arg[2] = "p" -> [o EXCEPT !.preprocessedFiles = Append(@, Rest(arg))]
    [] arg[2] = "o" -> [o EXCEPT !.outputBaseFolder = Rest(arg)]
    [] arg[2] = "b" -> [o EXCEPT !.failOnParcelable = TRUE]

\* Plausible bug, for the mutation runs: the loop does not move on.
TakeOptionAgain ==
  /\ pc = "options" /\ i <= Len(argv) /\ IsOption(argv[i])
  /\ IF Known(argv[i]) THEN options' = WithOption(options, argv[i]) /\ UNCHANGED <<pc, result>>
     ELSE Exit("failed") /\ UNCHANGED options
  /\ UNCHANGED <<inputs, i, lex, lines, output>>

\* Plausible bug, for the mutation runs: the value is always an argument of its own.
TakeOptionPair ==
  /\ pc = "options" /\ i <= Len(argv) /\ IsOption(argv[i])
  /\ IF Known(argv[i])
       THEN options' = WithOption(options, argv[i]) /\ i' = i + 2 /\ UNCHANGED <<pc, result>>
       ELSE Exit("failed") /\ UNCHANGED <<options, i>>
  /\ UNCHANGED <<inputs, lex, lines, output>>

TakeOption ==
  /\ pc = "options" /\ i <= Len(argv) /\ IsOption(argv[i])
  /\ IF Known(argv[i])
       THEN options' = WithOption(options, argv[i]) /\ i' = i + 1 /\ UNCHANGED <<pc, result>>
       ELSE Exit("failed") /\ UNCHANGED <<options, i>>
  /\ UNCHANGED <<inputs, lex, lines, output>>

TakeInput ==
  /\ pc = "options" /\ (i <= Len(argv) => ~IsOption(argv[i]))
  /\ IF i <= Len(argv)
       THEN /\ options' = [options EXCEPT !.inputFileName = argv[i]] /\ i' = i + 1
            /\ pc' = "output" /\ UNCHANGED result
       ELSE Exit("failed") /\ UNCHANGED <<options, i>>
  /\ UNCHANGED <<inputs, lex, lines, output>>

Size(name) ==
  LET upto[k \in 0..Len(name)] == IF k = 0 THEN 0 ELSE upto[k - 1] + Chars[name[k]]
  IN  upto[Len(name)]

\* size() - 5, in the arithmetic of size_type.
Position(name) == (Size(name) - 5) % SizeValues

Replaceable(name) == name # <<>> /\ Last(name) = ".aidl"

\* The OUTPUT argument, or without -o the INPUT with another extension, which
\* compare throws at when the position is past its end.
TakeOutput ==
  /\ pc = "output"
  /\ LET name == options.inputFileName
     IN  IF i <= Len(argv)
           THEN /\ options' = [options EXCEPT !.outputFileName = argv[i]]
                /\ i' = i + 1 /\ pc' = "rest" /\ UNCHANGED result
         ELSE IF options.outputBaseFolder # <<>>
           THEN pc' = "rest" /\ UNCHANGED <<options, i, result>>
         ELSE IF Position(name) > Size(name)
           THEN Exit("crashed") /\ UNCHANGED <<options, i>>
         ELSE IF Replaceable(name)
           THEN /\ options' = [options EXCEPT !.outputFileName = Append(Front(name), ".java")]
                /\ pc' = "rest" /\ UNCHANGED <<i, result>>
           ELSE Exit("failed") /\ UNCHANGED <<options, i>>
  /\ UNCHANGED <<inputs, lex, lines, output>>

\* Anything remaining?
CheckRest ==
  /\ pc = "rest"
  /\ IF i = Len(argv) + 1 THEN pc' = "compile" /\ UNCHANGED result ELSE Exit("failed")
  /\ UNCHANGED <<inputs, i, options, lex, lines, output>>

\* compile_aidl(options), which is module CompileAidl.
Compile ==
  /\ pc = "compile" /\ \E how \in {"ok", "failed"} : Exit(how)
  /\ UNCHANGED <<inputs, i, options, lex, lines, output>>

-----------------------------------------------------------------------------
(* preprocess_aidl.                                                        *)

\* Plausible bug, for the mutation runs: a class is written without its package.
LineOfName(item) ==
  [type |-> IF IsInterface(item) THEN "interface"
            ELSE IF item.flattenable THEN "flattenable" ELSE "parcelable",
   fullname |-> item.name]

\* The line for the first declaration of a file.  "flattenable" takes the place
\* of "parcelable", and an interface of either kind is an "interface".
LineOf(item) ==
  [type |-> IF IsInterface(item) THEN "interface"
            ELSE IF item.flattenable THEN "flattenable" ELSE "parcelable",
   fullname |-> item.package \o item.name]

\* One turn of the loop that reads the files: g_document is what the callback
\* was given, NULL for a file that declares nothing.
ReadFile ==
  /\ pc = "preprocess" /\ Len(lines) < Len(options.filesToPreprocess)
  /\ LET file == options.filesToPreprocess[Len(lines) + 1]
         outcome == disk.aidl[file][lex]
     IN  IF file \notin DOMAIN disk.aidl THEN Exit("failed") /\ UNCHANGED <<lines, lex>>
         ELSE /\ lex' = outcome.lex
              /\ IF outcome.err THEN Exit("failed") /\ UNCHANGED lines
                 ELSE IF outcome.items = <<>> THEN Exit("crashed") /\ UNCHANGED lines
                 ELSE lines' = Append(lines, LineOf(outcome.items[1])) /\ UNCHANGED <<pc, result>>
  /\ UNCHANGED <<inputs, i, options, output>>

\* open(O_CREAT | O_TRUNC), when all files are read.
OpenOutput ==
  /\ pc = "preprocess" /\ Len(lines) = Len(options.filesToPreprocess)
  /\ IF disk.opens THEN pc' = "write" /\ output' = <<>> /\ i' = 1 /\ UNCHANGED result
     ELSE Exit("failed") /\ UNCHANGED <<output, i>>
  /\ UNCHANGED <<inputs, options, lex, lines>>

\* Plausible bug, for the mutation runs: a failed write leaves the file.
WriteLineKept ==
  /\ pc = "write" /\ i <= Len(lines)
  /\ \/ output' = Append(output, lines[i]) /\ i' = i + 1 /\ UNCHANGED <<pc, result>>
     \/ Exit("failed") /\ UNCHANGED <<output, i>>
  /\ UNCHANGED <<inputs, options, lex, lines>>

\* One write, which may fail or fall short: the file is removed then, as far as
\* its directory allows it, and nothing asks whether it did.
WriteLine ==
  /\ pc = "write" /\ i <= Len(lines)
  /\ \/ output' = Append(output, lines[i]) /\ i' = i + 1 /\ UNCHANGED <<pc, result>>
     \/ /\ output' = IF disk.removable THEN <<Mark("absent")>>
                    ELSE Append(output, Mark("cut off"))
        /\ Exit("failed") /\ UNCHANGED i
  /\ UNCHANGED <<inputs, options, lex, lines>>

CloseOutput ==
  /\ pc = "write" /\ i > Len(lines) /\ Exit("ok")
  /\ UNCHANGED <<inputs, i, options, lex, lines, output>>

Next ==
  \/ ParsePreprocess \/ BeginOptions \/ TakeOption \/ TakeInput \/ TakeOutput \/ CheckRest
  \/ Compile \/ ReadFile \/ OpenOutput \/ WriteLine \/ CloseOutput

\* main runs on its own and never waits.
Spec == Init /\ [][Next]_vars /\ WF_vars(Next)

=============================================================================
