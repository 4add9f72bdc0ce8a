-------------------------- MODULE CommandLine_proofs --------------------------
(***************************************************************************)
(* Proofs about module CommandLine, for any command lines, names and       *)
(* disks: its type invariant, that --preprocess leaves the whole file, the *)
(* old one or none, that compile_aidl starts with what the arguments ask   *)
(* for, and that a preprocessed file is read back as what its classes are. *)
(***************************************************************************)
EXTENDS UsageContract, SequenceLemmas

\* Nothing touches the output before every file has been read, and then it
\* holds the lines up to the next one to write.
OutputFollows ==
  /\ pc \in {"start", "options", "output", "rest", "compile"} =>
       options.task # "PREPROCESS_AIDL" /\ lines = <<>>
  /\ pc \in {"start", "options", "output", "rest", "compile", "preprocess"} =>
       output \in {<<Mark("older")>>, <<Mark("absent")>>}
  /\ pc = "write" => /\ i <= Len(lines) + 1 /\ output = SubSeq(lines, 1, i - 1)
                     /\ Len(lines) = Len(options.filesToPreprocess)

\* TypeOK and WholeOrNothing, with what connects the output to the lines.
Inv == /\ TypeOK /\ OutputFollows /\ WholeOrNothing
       /\ Len(options.filesToPreprocess) <= Len(argv)

\* What the assumption says of the run at hand.
LEMMA InputsTyped ==
  ASSUME TypeOK
  PROVE  /\ argv \in Seq(Argument) /\ Len(argv) \in Nat
         /\ \A k \in DOMAIN argv : argv[k] \in Argument
         /\ IsDisk(disk)
<1>1. PICK s \in Situations : argv = s.argv /\ disk = s.disk
  BY DEF TypeOK
<1>2. argv \in Seq(Argument) /\ IsDisk(disk)
  BY <1>1, CommandLineAssumption
<1>3. QED
  BY <1>2, LenProperties, ElementOfSeq

\* The line of a declaration.
LEMMA LineTyped ==
  ASSUME NEW item \in Item
  PROVE  LineOf(item) \in Line
<1>1. item.package \in DottedName /\ item.name \in DottedName
  BY DEF Item, SimpleName
<1>2. item.package \o item.name \in DottedName
  BY <1>1, ConcatProperties DEF DottedName
<1>3. QED
  BY <1>2 DEF LineOf, Line, DeclarationWords

\* What an option leaves in the struct is of the type of its field.
LEMMA WithOptionTyped ==
  ASSUME NEW o \in OptionsType, NEW arg \in Argument, Known(arg)
  PROVE  /\ WithOption(o, arg) \in OptionsType
         /\ WithOption(o, arg).task = o.task
         /\ WithOption(o, arg).filesToPreprocess = o.filesToPreprocess
<1>1. Rest(arg) \in Argument
  BY SubSeqProperties, LenProperties DEF Rest, Argument
<1>2. /\ Append(o.importPaths, Rest(arg)) \in Seq(Argument)
      /\ Append(o.preprocessedFiles, Rest(arg)) \in Seq(Argument)
  BY <1>1, AppendProperties DEF OptionsType
<1>3. arg[2] \in {"I", "d", "a", "p", "o", "b"}
  BY DEF Known
<1>4. QED
  BY <1>1, <1>2, <1>3 DEF WithOption, OptionsType

\* Of the states a run starts in.
LEMMA InitInv == Init => Inv
<1> SUFFICES ASSUME Init
             PROVE  Inv
  OBVIOUS
<1>1. PICK s \in Situations : argv = s.argv /\ disk = s.disk
  BY DEF Init
<1>2. argv \in Seq(Argument) /\ IsDisk(disk)
  BY <1>1, CommandLineAssumption
<1>3. NoOptions \in OptionsType /\ Len(NoOptions.filesToPreprocess) = 0
  BY EmptySeq DEF NoOptions, OptionsType, Argument
<1>4. \E t \in Situations : argv = t.argv /\ disk = t.disk
  BY <1>1
<1>5. TypeOK
  BY <1>2, <1>3, <1>4, EmptySeq, LenProperties DEF Init, TypeOK, LexStates
<1>6. OutputFollows /\ WholeOrNothing
  BY <1>3 DEF Init, OutputFollows, WholeOrNothing, NoOptions
<1>7. QED
  BY <1>2, <1>3, <1>5, <1>6, LenProperties DEF Init, Inv

\* What the arguments of parse_options are, one by one.
LEMMA ArgumentsTyped ==
  ASSUME TypeOK
  PROVE  /\ DOMAIN argv = 1..Len(argv)
         /\ \A k \in 1..Len(argv) : argv[k] \in Argument
         /\ Len(argv) >= 2 => /\ SubSeq(argv, 3, Len(argv)) \in Seq(Argument)
                              /\ Len(SubSeq(argv, 3, Len(argv))) = Len(argv) - 2
<1>1. argv \in Seq(Argument) /\ Len(argv) \in Nat
  BY InputsTyped
<1>2. ASSUME Len(argv) >= 2
      PROVE  /\ SubSeq(argv, 3, Len(argv)) \in Seq(Argument)
             /\ Len(SubSeq(argv, 3, Len(argv))) = Len(argv) - 2
  <2>1. 3 \in Int /\ Len(argv) \in Int /\ \A k \in 3..Len(argv) : argv[k] \in Argument
    BY <1>1, ElementOfSeq
  <2>2. /\ SubSeq(argv, 3, Len(argv)) \in Seq(Argument)
        /\ Len(SubSeq(argv, 3, Len(argv)))
             = IF 3 <= Len(argv) THEN Len(argv) - 3 + 1 ELSE 0
    BY <2>1, SubSeqProperties
  <2>3. 3 <= Len(argv) \/ Len(argv) = 2
    <3>1. Len(argv) \in Nat /\ Len(argv) >= 2
      BY <1>1, <1>2, Zenon
    <3>2. \A n \in Nat : n >= 2 => 3 <= n \/ n = 2
      OBVIOUS
    <3>3. QED
      BY <3>1, <3>2, Zenon
  <2>4. QED
    BY <1>1, <2>2, <2>3
<1>3. QED
  BY <1>1, <1>2, LenProperties, ElementOfSeq

\* What parse_options does to the struct beside its options.
LEMMA NamesTyped ==
  ASSUME NEW o \in OptionsType, NEW name \in Argument
  PROVE  /\ [o EXCEPT !.inputFileName = name] \in OptionsType
         /\ [o EXCEPT !.outputFileName = name] \in OptionsType
         /\ \A names \in Seq(Argument) :
              [o EXCEPT !.task = "PREPROCESS_AIDL", !.outputFileName = name,
                        !.filesToPreprocess = names] \in OptionsType
  BY DEF OptionsType

\* An update of one name leaves the rest of the struct.
LEMMA NamesKept ==
  ASSUME NEW o \in OptionsType, NEW name
  PROVE  /\ [o EXCEPT !.inputFileName = name].task = o.task
         /\ [o EXCEPT !.inputFileName = name].filesToPreprocess = o.filesToPreprocess
         /\ [o EXCEPT !.outputFileName = name].task = o.task
         /\ [o EXCEPT !.outputFileName = name].filesToPreprocess = o.filesToPreprocess
  BY DEF OptionsType

\* The output name made of an input name.
LEMMA ReplacedTyped ==
  ASSUME NEW name \in Argument, Replaceable(name)
  PROVE  Append(Front(name), ".java") \in Argument
<1>1. Front(name) \in Seq(Parts)
  BY SubSeqProperties, LenProperties DEF Front, Argument, Replaceable
<1>2. ".java" \in Parts
  BY CommandLineAssumption DEF Parts
<1>3. QED
  BY <1>1, <1>2, AppendProperties DEF Argument

\* parse_options keeps off the output.
LEMMA OptionsSteps ==
  ASSUME Inv,
         \/ ParsePreprocess \/ BeginOptions \/ TakeOption \/ TakeInput \/ TakeOutput
         \/ CheckRest \/ Compile
  PROVE  Inv'
<1> USE DEF Inv, inputs, Exit
<1>1. /\ argv \in Seq(Argument) /\ Len(argv) \in Nat
      /\ DOMAIN argv = 1..Len(argv)
      /\ \A k \in 1..Len(argv) : argv[k] \in Argument
  BY InputsTyped, ArgumentsTyped
<1>2. CASE ParsePreprocess
  <2>1. CASE Len(argv) < 3
    BY <1>2, <2>1 DEF ParsePreprocess, TypeOK, OutputFollows, WholeOrNothing
  <2>2. CASE ~(Len(argv) < 3)
    <3> DEFINE files == SubSeq(argv, 3, Len(argv))
    <3>1. options' = [options EXCEPT !.task = "PREPROCESS_AIDL", !.outputFileName = argv[2],
                                     !.filesToPreprocess = files]
      BY <1>2, <2>2 DEF ParsePreprocess
    <3>2. files \in Seq(Argument) /\ argv[2] \in Argument /\ options \in OptionsType
      BY <1>1, <2>2, ArgumentsTyped DEF TypeOK
    <3>3. options' \in OptionsType
      BY <3>1, <3>2, NamesTyped, Zenon
    <3>4. /\ options'.filesToPreprocess = SubSeq(argv, 3, Len(argv))
          /\ options' \in OptionsType /\ options'.task = "PREPROCESS_AIDL"
      BY <3>1, <3>2, <3>3 DEF OptionsType
    <3>5. Len(options'.filesToPreprocess) = Len(argv) - 2
      BY <1>1, <2>2, <3>4, ArgumentsTyped
    <3>6. lines = <<>>
      BY <1>2 DEF ParsePreprocess, OutputFollows
    <3>7. QED
      BY <1>1, <1>2, <2>2, <3>4, <3>5, <3>6
      DEF ParsePreprocess, TypeOK, OutputFollows, WholeOrNothing
  <2>3. QED
    BY <2>1, <2>2
<1>3. CASE BeginOptions
  BY <1>3 DEF BeginOptions, TypeOK, OptionsType, OutputFollows, WholeOrNothing
<1>4. CASE TakeOption
  <2>1. CASE Known(argv[i])
    <3>1. argv[i] \in Argument
      BY <1>1, <1>4 DEF TakeOption, TypeOK
    <3>2. /\ options' \in OptionsType
          /\ options'.task = options.task
          /\ options'.filesToPreprocess = options.filesToPreprocess
      BY <1>4, <2>1, <3>1, WithOptionTyped DEF TakeOption, TypeOK
    <3>3. QED
      BY <1>1, <1>4, <2>1, <3>2 DEF TakeOption, TypeOK, OutputFollows, WholeOrNothing
  <2>2. CASE ~Known(argv[i])
    BY <1>4, <2>2 DEF TakeOption, TypeOK, OutputFollows, WholeOrNothing
  <2>3. QED
    BY <2>1, <2>2
<1>5. CASE TakeInput
  <2>1. CASE i <= Len(argv)
    <3>1. argv[i] \in Argument /\ options \in OptionsType
      BY <1>1, <2>1 DEF TypeOK
    <3>2. options' = [options EXCEPT !.inputFileName = argv[i]]
      BY <1>5, <2>1 DEF TakeInput
    <3>3. /\ options' \in OptionsType
          /\ options'.task = options.task
          /\ options'.filesToPreprocess = options.filesToPreprocess
      BY <3>1, <3>2, NamesTyped, NamesKept, Zenon
    <3>4. QED
      BY <1>1, <1>5, <2>1, <3>3 DEF TakeInput, TypeOK, OutputFollows, WholeOrNothing
  <2>2. CASE ~(i <= Len(argv))
    BY <1>5, <2>2 DEF TakeInput, TypeOK, OutputFollows, WholeOrNothing
  <2>3. QED
    BY <2>1, <2>2
<1>6. CASE TakeOutput
  <2>1. options.inputFileName \in Argument
    BY DEF TypeOK, OptionsType
  <2>2. Replaceable(options.inputFileName) =>
          Append(Front(options.inputFileName), ".java") \in Argument
    BY <2>1, ReplacedTyped
  <2>3. /\ options' \in OptionsType
        /\ options'.task = options.task
        /\ options'.filesToPreprocess = options.filesToPreprocess
    <3>1. \/ UNCHANGED options
          \/ i <= Len(argv) /\ options' = [options EXCEPT !.outputFileName = argv[i]]
          \/ /\ Replaceable(options.inputFileName)
             /\ options' = [options EXCEPT !.outputFileName =
                              Append(Front(options.inputFileName), ".java")]
      BY <1>6, Zenon DEF TakeOutput
    <3>3. i <= Len(argv) => argv[i] \in Argument
      BY <1>1 DEF TypeOK
    <3>4. \/ UNCHANGED options
          \/ \E name \in Argument : options' = [options EXCEPT !.outputFileName = name]
      BY <2>2, <3>1, <3>3, Zenon
    <3>5. options \in OptionsType
      BY DEF TypeOK
    <3>6. CASE UNCHANGED options
      BY <3>5, <3>6
    <3>7. ASSUME NEW name \in Argument, options' = [options EXCEPT !.outputFileName = name]
          PROVE  /\ options' \in OptionsType
                 /\ options'.task = options.task
                 /\ options'.filesToPreprocess = options.filesToPreprocess
      BY <3>5, <3>7, NamesTyped, NamesKept, Zenon
    <3>8. QED
      BY <3>4, <3>6, <3>7, Zenon
  <2>4. /\ i' \in 1..(Len(argv) + 1)
        /\ pc' \in {"rest", "ended"}
        /\ result' \in {"none", "ok", "failed", "crashed"}
    BY <1>1, <1>6 DEF TakeOutput, TypeOK
  <2>5. QED
    BY <1>6, <2>3, <2>4 DEF TakeOutput, TypeOK, OutputFollows, WholeOrNothing
<1>7. CASE CheckRest
  BY <1>7 DEF CheckRest, TypeOK, OutputFollows, WholeOrNothing
<1>8. CASE Compile
  BY <1>8 DEF Compile, TypeOK, OutputFollows, WholeOrNothing
<1>9. QED
  BY <1>2, <1>3, <1>4, <1>5, <1>6, <1>7, <1>8

\* A file is read before the output is touched.
LEMMA ReadSteps == ASSUME Inv, ReadFile PROVE Inv'
<1> DEFINE file == options.filesToPreprocess[Len(lines) + 1]
           outcome == disk.aidl[file][lex]
<1> USE DEF Inv, inputs, Exit
<1>1. /\ options.filesToPreprocess \in Seq(Argument) /\ lines \in Seq(Line)
      /\ Len(lines) \in Nat /\ Len(options.filesToPreprocess) \in Nat
  BY LenProperties DEF TypeOK, OptionsType
<1>2. CASE file \notin DOMAIN disk.aidl
  BY <1>2 DEF ReadFile, TypeOK, OutputFollows, WholeOrNothing
<1>3. CASE file \in DOMAIN disk.aidl
  <2>1. outcome \in Outcome
    BY <1>3, InputsTyped DEF IsDisk, TypeOK
  <2>2. outcome.lex \in LexStates /\ outcome.items \in Seq(Item)
    BY <2>1 DEF Outcome
  <2>3. CASE outcome.err \/ outcome.items = <<>>
    BY <1>3, <2>2, <2>3 DEF ReadFile, TypeOK, OutputFollows, WholeOrNothing
  <2>4. CASE ~(outcome.err \/ outcome.items = <<>>)
    <3>1. outcome.items[1] \in Item
      <4> HIDE DEF outcome
      <4>1. Len(outcome.items) \in Nat /\ Len(outcome.items) # 0
        BY <2>2, <2>4, LenProperties, EmptySeq
      <4>2. QED
        BY <2>2, <4>1, ElementOfSeq
    <3>2. LineOf(outcome.items[1]) \in Line
      BY <3>1, LineTyped
    <3>3. lines' = Append(lines, LineOf(outcome.items[1])) /\ lex' = outcome.lex
          /\ UNCHANGED <<argv, disk, i, options, output, pc, result>> /\ pc = "preprocess"
          /\ Len(lines) < Len(options.filesToPreprocess)
      BY <1>3, <2>4 DEF ReadFile
    <3>4. lines' \in Seq(Line) /\ Len(lines') = Len(lines) + 1
      BY <1>1, <3>2, <3>3, AppendProperties
    <3>5. TypeOK'
      BY <1>1, <2>2, <3>3, <3>4 DEF TypeOK
    <3>6. QED
      BY <3>3, <3>5 DEF OutputFollows, WholeOrNothing
  <2>5. QED
    BY <2>3, <2>4
<1>4. QED
  BY <1>2, <1>3

\* The lines are written one after the other.
LEMMA WriteSteps ==
  ASSUME Inv, OpenOutput \/ WriteLine \/ CloseOutput
  PROVE  Inv'
<1> USE DEF Inv, inputs, Exit
<1>1. /\ lines \in Seq(Line) /\ Len(lines) \in Nat
      /\ argv \in Seq(Argument) /\ Len(argv) \in Nat
      /\ Len(lines) <= Len(options.filesToPreprocess) /\ i \in Nat
      /\ Len(options.filesToPreprocess) \in Nat /\ options.filesToPreprocess \in Seq(Argument)
  BY InputsTyped, LenProperties DEF TypeOK, OptionsType
<1>2. CASE OpenOutput
  <2>1. SubSeq(lines, 1, 0) = <<>>
    BY <1>1, SubSeqEmpty
  <2>2. CASE disk.opens
    <3>1. i' = 1 /\ output' = SubSeq(lines', 1, i' - 1)
      BY <1>2, <2>1, <2>2 DEF OpenOutput
    <3>2. QED
      BY <1>1, <1>2, <2>2, <3>1 DEF OpenOutput, TypeOK, OutputFollows, WholeOrNothing
  <2>3. CASE ~disk.opens
    BY <1>2, <2>3 DEF OpenOutput, TypeOK, OutputFollows, WholeOrNothing
  <2>4. QED
    BY <2>2, <2>3
<1>3. CASE WriteLine
  <2>1. /\ i \in 1..Len(lines) /\ output = SubSeq(lines, 1, i - 1)
        /\ Len(lines) = Len(options.filesToPreprocess) /\ i + 1 \in 1..(Len(argv) + 1)
    <3>1. i <= Len(lines) /\ pc = "write"
      BY <1>3 DEF WriteLine
    <3>2. output = SubSeq(lines, 1, i - 1) /\ Len(lines) = Len(options.filesToPreprocess)
      BY <3>1 DEF OutputFollows
    <3>3. i >= 1
      BY DEF TypeOK
    <3>4. QED
      BY <1>1, <3>1, <3>2, <3>3
  <2>2. Append(output, lines[i]) = SubSeq(lines, 1, i)
    <3>1. SubSeq(lines, 1, i) = SubSeq(lines, 1, i - 1) \o <<lines[i]>>
      BY <1>1, <2>1, SubSeqRecursiveSecond
    <3>2. output \in Seq(Line)
      BY <1>1, <2>1, SubSeqProperties, ElementOfSeq
    <3>3. lines[i] \in Line
      BY <1>1, <2>1, ElementOfSeq
    <3>4. QED
      BY <2>1, <3>1, <3>2, <3>3, AppendIsConcat
  <2>3. CASE output' = Append(output, lines[i]) /\ i' = i + 1 /\ UNCHANGED <<pc, result>>
    <3>1. TypeOK'
      BY <1>3, <2>1, <2>3 DEF WriteLine, TypeOK
    <3>2. output' = SubSeq(lines, 1, i' - 1) /\ i' <= Len(lines) + 1
      BY <1>1, <2>1, <2>2, <2>3
    <3>3. QED
      BY <1>3, <2>1, <2>3, <3>1, <3>2 DEF WriteLine, OutputFollows, WholeOrNothing
  <2>4. CASE /\ output' = IF disk.removable THEN <<Mark("absent")>>
                          ELSE Append(output, Mark("cut off"))
             /\ Exit("failed") /\ UNCHANGED i
    <3>1. TypeOK'
      BY <1>3, <2>4 DEF WriteLine, TypeOK
    <3>2. WholeOrNothing'
      BY <1>3, <2>4 DEF WriteLine, WholeOrNothing
    <3>3. QED
      BY <1>3, <2>4, <3>1, <3>2 DEF WriteLine, OutputFollows
  <2>5. QED
    BY <1>3, <2>3, <2>4 DEF WriteLine
<1>4. CASE CloseOutput
  <2>1. output = SubSeq(lines, 1, Len(lines)) /\ Len(lines) = Len(options.filesToPreprocess)
    BY <1>1, <1>4 DEF CloseOutput, OutputFollows
  <2>2. output = lines
    BY <1>1, <2>1, SubSeqFull
  <2>3. QED
    BY <1>4, <2>1, <2>2 DEF CloseOutput, TypeOK, OutputFollows, WholeOrNothing
<1>5. QED
  BY <1>2, <1>3, <1>4

\* No step leaves the invariant.
LEMMA NextInv == Inv /\ [Next]_vars => Inv'
<1>1. ASSUME Inv, Next PROVE Inv'
  BY <1>1, OptionsSteps, ReadSteps, WriteSteps DEF Next
<1>2. ASSUME Inv, UNCHANGED vars PROVE Inv'
  BY <1>2 DEF Inv, TypeOK, OutputFollows, WholeOrNothing, vars, inputs
<1>3. QED
  BY <1>1, <1>2

\* Whatever the command line and the disk, main's state is of its type: no more
\* lines than files, no argument past the end.
THEOREM CommandLineTypeOK == Spec => []TypeOK
<1>1. Inv => TypeOK
  BY DEF Inv
<1>2. QED
  BY <1>1, InitInv, NextInv, PTL DEF Spec

\* Whatever the files, --preprocess that ends leaves a line for each of them,
\* the file from before or none; cut off only where it cannot be removed.
THEOREM PreprocessWholeOrNothing == Spec => []WholeOrNothing
<1>1. Inv => WholeOrNothing
  BY DEF Inv
<1>2. QED
  BY <1>1, InitInv, NextInv, PTL DEF Spec

-----------------------------------------------------------------------------
(* The options.  What the arguments ask for is said of a prefix of them, so *)
(* that the loop of parse_options can be followed argument by argument.     *)

GivenUpto(args, letter, n) == {k \in 1..n : args[k][2] = letter}

ValuesUpto(args, letter, n) ==
  FlattenSeq([k \in 1..n |-> IF args[k][2] = letter THEN <<Rest(args[k])>> ELSE <<>>])

LastUpto(args, letter, n) ==
  IF GivenUpto(args, letter, n) = {} THEN <<>> ELSE Rest(args[Max(GivenUpto(args, letter, n))])

AskedUpto(args, n, input, out) ==
  [task |-> "COMPILE_AIDL", failOnParcelable |-> GivenUpto(args, "b", n) # {},
   importPaths |-> ValuesUpto(args, "I", n), preprocessedFiles |-> ValuesUpto(args, "p", n),
   inputFileName |-> input, outputFileName |-> out,
   outputBaseFolder |-> LastUpto(args, "o", n), depFileName |-> LastUpto(args, "d", n),
   autoDepFile |-> GivenUpto(args, "a", n) # {}, filesToPreprocess |-> <<>>]

AllOptions(args, n) == \A k \in 1..n : IsOption(args[k]) /\ Known(args[k])

\* The n-th argument is INPUT.
InputAt(args, n) == n \in 1..Len(args) /\ AllOptions(args, n - 1) /\ ~IsOption(args[n])

OutputFor(args, n) ==
  IF Len(args) > n THEN args[n + 1]
  ELSE IF GivenUpto(args, "o", n - 1) # {} THEN <<>> ELSE Append(Front(args[n]), ".java")

\* The result's name can be had from INPUT, if it has to be.
Namable(args, n) ==
  Len(args) = n /\ GivenUpto(args, "o", n - 1) = {} => Replaceable(args[n])

\* What the options are while the arguments are read.
OptionsFollow ==
  /\ pc = "start" => options = NoOptions /\ i = 1
  /\ pc = "options" => AllOptions(argv, i - 1) /\ options = AskedUpto(argv, i - 1, <<>>, <<>>)
  /\ pc = "output" => /\ InputAt(argv, i - 1)
                      /\ options = AskedUpto(argv, i - 2, argv[i - 1], <<>>)
  /\ pc = "rest" => \E n \in 1..Len(argv) :
       /\ InputAt(argv, n) /\ i = (IF Len(argv) > n THEN n + 2 ELSE n + 1)
       /\ options = AskedUpto(argv, n - 1, argv[n], OutputFor(argv, n)) /\ Namable(argv, n)
  /\ pc = "compile" => FollowsUsage /\ options = Asked
  /\ pc \in {"preprocess", "write"} => options.task = "PREPROCESS_AIDL"

\* A value that goes into the struct is a part of the argument.
LEMMA RestTyped == ASSUME NEW arg \in Argument PROVE Rest(arg) \in Argument
BY SubSeqProperties, LenProperties DEF Rest, Argument

\* A sequence is its front and its last element.
LEMMA OneMore ==
  ASSUME NEW E, NEW n \in Nat, NEW f \in [1..(n + 1) -> E]
  PROVE  /\ [k \in 1..n |-> f[k]] \in Seq(E) /\ f \in Seq(E)
         /\ f = Append([k \in 1..n |-> f[k]], f[n + 1])
OBVIOUS

\* The values of an option, with one more argument.
LEMMA ValuesMore ==
  ASSUME NEW args \in Seq(Argument), NEW n \in Nat, n + 1 \in 1..Len(args), NEW letter
  PROVE  ValuesUpto(args, letter, n + 1) =
           IF args[n + 1][2] = letter THEN Append(ValuesUpto(args, letter, n), Rest(args[n + 1]))
           ELSE ValuesUpto(args, letter, n)
<1> DEFINE part == [k \in 1..(n + 1) |->
                      IF args[k][2] = letter THEN <<Rest(args[k])>> ELSE <<>>]
           before == [k \in 1..n |-> part[k]]
<1>1. \A k \in 1..(n + 1) : args[k] \in Argument /\ Rest(args[k]) \in Argument
  BY RestTyped
<1>2. part \in [1..(n + 1) -> Seq(Argument)]
  BY <1>1
<1>3. part[n + 1] = IF args[n + 1][2] = letter THEN <<Rest(args[n + 1])>> ELSE <<>>
  OBVIOUS
<1>4. ValuesUpto(args, letter, n + 1) = FlattenSeq(part)
  BY Zenon DEF ValuesUpto
<1>5. ValuesUpto(args, letter, n) = FlattenSeq(before)
  <2>1. before = [k \in 1..n |-> IF args[k][2] = letter THEN <<Rest(args[k])>> ELSE <<>>]
    OBVIOUS
  <2>2. QED
    BY <2>1, Zenon DEF ValuesUpto
<1> HIDE DEF part
<1>6. before \in Seq(Seq(Argument)) /\ part = Append(before, part[n + 1])
  BY <1>2, OneMore
<1>7. part[n + 1] \in Seq(Argument)
  BY <1>2
<1> HIDE DEF before
<1>8. FlattenSeq(part) = FlattenSeq(before) \o part[n + 1]
  BY <1>6, <1>7, FlattenOneMore
<1>9. FlattenSeq(before) \in Seq(Argument)
  BY <1>6, FlattenTyped
<1>10. CASE args[n + 1][2] = letter
  <2>1. FlattenSeq(before) \o <<Rest(args[n + 1])>> = Append(FlattenSeq(before), Rest(args[n + 1]))
    BY <1>1, <1>9, AppendIsConcat
  <2>2. QED
    BY <1>3, <1>4, <1>5, <1>8, <1>10, <2>1
<1>11. CASE args[n + 1][2] # letter
  <2>1. FlattenSeq(before) \o <<>> = FlattenSeq(before)
    BY <1>9
  <2>2. QED
    BY <1>3, <1>4, <1>5, <1>8, <1>11, <2>1
<1>12. QED
  BY <1>10, <1>11

\* Whether an option is there, and its last value, with one more argument.
LEMMA GivenMore ==
  ASSUME NEW args, NEW n \in Nat, NEW letter
  PROVE  /\ GivenUpto(args, letter, n + 1) # {} <=>
              args[n + 1][2] = letter \/ GivenUpto(args, letter, n) # {}
         /\ LastUpto(args, letter, n + 1) =
              IF args[n + 1][2] = letter THEN Rest(args[n + 1]) ELSE LastUpto(args, letter, n)
<1>1. CASE args[n + 1][2] = letter
  <2> DEFINE G == GivenUpto(args, letter, n + 1)
  <2>1. G \subseteq 1..(n + 1) /\ n + 1 \in G
    BY <1>1 DEF GivenUpto
  <2>2. Max(G) = n + 1
    <3> HIDE DEF G
    <3>1. \A k \in G : n + 1 >= k
      BY <2>1
    <3>2. \A m \in G : (\A k \in G : m >= k) => m = n + 1
      BY <2>1
    <3>3. QED
      BY <2>1, <3>1, <3>2, Zenon DEF Max
  <2>3. QED
    BY <1>1, <2>1, <2>2, Zenon DEF LastUpto
<1>2. CASE args[n + 1][2] # letter
  <2>1. GivenUpto(args, letter, n + 1) = GivenUpto(args, letter, n)
    BY <1>2 DEF GivenUpto
  <2>2. QED
    BY <1>2, <2>1, Zenon DEF LastUpto
<1>3. QED
  BY <1>1, <1>2

\* An option that parse_options takes asks for what it leaves in the struct.
LEMMA OptionAsked ==
  ASSUME NEW args \in Seq(Argument), NEW n \in Nat, n + 1 \in 1..Len(args), Known(args[n + 1])
  PROVE  WithOption(AskedUpto(args, n, <<>>, <<>>), args[n + 1])
           = AskedUpto(args, n + 1, <<>>, <<>>)
<1>1. PICK arg : arg = args[n + 1]
  OBVIOUS
<1>2. arg[2] \in {"I", "d", "a", "p", "o", "b"}
  BY <1>1 DEF Known
<1>3. \A letter : ValuesUpto(args, letter, n + 1) =
                    IF arg[2] = letter THEN Append(ValuesUpto(args, letter, n), Rest(arg))
                    ELSE ValuesUpto(args, letter, n)
  BY <1>1, ValuesMore
<1>4. \A letter :
        /\ GivenUpto(args, letter, n + 1) # {} <=>
             arg[2] = letter \/ GivenUpto(args, letter, n) # {}
        /\ LastUpto(args, letter, n + 1) =
             IF arg[2] = letter THEN Rest(arg) ELSE LastUpto(args, letter, n)
  BY <1>1, GivenMore
<1>5. CASE arg[2] = "I"
  BY <1>1, <1>3, <1>4, <1>5 DEF WithOption, AskedUpto
<1>6. CASE arg[2] = "d"
  BY <1>1, <1>3, <1>4, <1>6 DEF WithOption, AskedUpto
<1>7. CASE arg[2] = "a"
  BY <1>1, <1>3, <1>4, <1>7 DEF WithOption, AskedUpto
<1>8. CASE arg[2] = "p"
  BY <1>1, <1>3, <1>4, <1>8 DEF WithOption, AskedUpto
<1>9. CASE arg[2] = "o"
  BY <1>1, <1>3, <1>4, <1>9 DEF WithOption, AskedUpto
<1>10. CASE arg[2] = "b"
  BY <1>1, <1>3, <1>4, <1>10 DEF WithOption, AskedUpto
<1>11. QED
  BY <1>2, <1>5, <1>6, <1>7, <1>8, <1>9, <1>10

\* -o without a folder is not known.
LEMMA FolderNamed ==
  ASSUME NEW args \in Seq(Argument), NEW n \in Nat, n <= Len(args), AllOptions(args, n)
  PROVE  LastUpto(args, "o", n) = <<>> <=> GivenUpto(args, "o", n) = {}
<1> DEFINE G == GivenUpto(args, "o", n)
<1>1. SUFFICES ASSUME G # {} PROVE Rest(args[Max(G)]) # <<>>
  BY Zenon DEF LastUpto
<1>2. PICK m \in G : m = Max(G)
  <2>1. G \subseteq 1..n
    BY DEF GivenUpto
  <2> HIDE DEF G
  <2>2. Max(G) \in G
    BY <1>1, <2>1, MaxOfInterval
  <2>3. QED
    BY <2>2
<1>3. m \in 1..Len(args) /\ args[m][2] = "o" /\ Known(args[m]) /\ args[m] \in Argument
  BY <1>2 DEF GivenUpto, AllOptions
<1>4. Len(args[m]) > 2
  BY <1>3 DEF Known
<1>5. Len(Rest(args[m])) = Len(args[m]) - 2
  BY <1>3, <1>4, SubSeqProperties, LenProperties DEF Rest, Argument
<1>6. Rest(args[m]) # <<>>
  BY <1>3, <1>4, <1>5, EmptySeq DEF Argument
<1>7. QED
  BY <1>2, <1>6

\* What the arguments ask for, when INPUT is the n-th.
LEMMA InputIs ==
  ASSUME argv \in Seq(Argument), NEW n, InputAt(argv, n)
  PROVE  /\ FollowsUsage <=> Len(argv) <= n + 1 /\ Namable(argv, n)
         /\ Len(argv) <= n + 1 => Asked = AskedUpto(argv, n - 1, argv[n], OutputFor(argv, n))
<1>1. /\ Len(argv) \in Nat /\ n \in 1..Len(argv) /\ DOMAIN argv = 1..Len(argv)
      /\ \A k \in 1..(n - 1) : IsOption(argv[k]) /\ Known(argv[k])
      /\ ~IsOption(argv[n])
  BY LenProperties, Zenon DEF InputAt, AllOptions
<1>2. n \in Inputs
  BY <1>1, Zenon DEF Inputs
<1>3. ASSUME NEW k \in Inputs PROVE k = n
  <2>1. k \in 1..Len(argv) /\ ~IsOption(argv[k]) /\ \A j \in 1..(k - 1) : IsOption(argv[j])
    BY <1>1, <1>3, Zenon DEF Inputs
  <2>2. CASE k < n
    <3>1. k \in 1..(n - 1)
      BY <1>1, <2>1, <2>2
    <3>2. QED
      BY <1>1, <2>1, <3>1, Zenon
  <2>3. CASE n < k
    <3>1. n \in 1..(k - 1)
      BY <1>1, <2>1, <2>3
    <3>2. QED
      BY <1>1, <2>1, <3>1, Zenon
  <2>4. QED
    BY <1>1, <2>1, <2>2, <2>3
<1>4. Inputs = {n}
  BY <1>2, <1>3
<1>5. Input = n
  <2>1. Min({n}) \in {n}
    <3>1. {n} \subseteq Nat /\ {n} # {}
      BY <1>1
    <3>2. QED
      BY <3>1, MinOfNaturals
  <2>2. QED
    BY <1>4, <2>1 DEF Input
<1>6. \A letter : /\ Given(letter) = GivenUpto(argv, letter, n - 1)
                  /\ Values(letter) = ValuesUpto(argv, letter, n - 1)
                  /\ LastValue(letter) = LastUpto(argv, letter, n - 1)
  BY <1>5, Zenon DEF Given, GivenUpto, Values, ValuesUpto, LastValue, LastUpto
<1>7. FollowsUsage <=> Len(argv) <= n + 1 /\ Namable(argv, n)
  BY <1>4, <1>5, <1>6, Zenon DEF FollowsUsage, Namable
<1>8. Asked = AskedUpto(argv, n - 1, argv[n], OutputFor(argv, n))
  BY <1>5, <1>6, Zenon DEF Asked, AskedUpto, OutputFor
<1>9. QED
  BY <1>7, <1>8

\* Without an INPUT the usage is not followed: only options, or one that is none
\* of those parse_options knows.
LEMMA NoInput ==
  ASSUME argv \in Seq(Argument), NEW n \in 0..Len(argv), AllOptions(argv, n),
         n < Len(argv) => IsOption(argv[n + 1]) /\ ~Known(argv[n + 1])
  PROVE  ~FollowsUsage
<1>1. Len(argv) \in Nat /\ DOMAIN argv = 1..Len(argv)
  BY LenProperties
<1>2. ASSUME NEW k \in Inputs PROVE FALSE
  <2>1. /\ k \in 1..Len(argv) /\ ~IsOption(argv[k])
        /\ \A j \in 1..(k - 1) : IsOption(argv[j]) /\ Known(argv[j])
    BY <1>1, <1>2, Zenon DEF Inputs
  <2>2. ~(k \in 1..n)
    BY <2>1, Zenon DEF AllOptions
  <2>3. k = n + 1 \/ n + 1 \in 1..(k - 1)
    BY <1>1, <2>1, <2>2
  <2>4. n < Len(argv)
    BY <1>1, <2>1, <2>2
  <2>5. QED
    BY <2>1, <2>3, <2>4, Zenon
<1>3. QED
  BY <1>2, Zenon DEF FollowsUsage

\* The size of a name that ends in .aidl is at least that of the extension, so
\* that compare has a position to start at.
LEMMA ExtensionFits ==
  ASSUME NEW name \in Argument, Replaceable(name)
  PROVE  ~(Position(name) > Size(name))
<1> DEFINE Sums(f) == f = [k \in 0..Len(name) |-> IF k = 0 THEN 0 ELSE f[k - 1] + Chars[name[k]]]
           step == [k \in 1..Len(name) |-> [x \in Nat |-> x + Chars[name[k]]]]
           sum == CHOOSE f : Sums(f)
           N == {n \in Nat : n <= Len(name) => sum[n] \in Nat}
<1>1. /\ Len(name) \in Nat /\ Len(name) # 0 /\ name[Len(name)] = ".aidl"
      /\ \A k \in 1..Len(name) : Chars[name[k]] \in Nat
  <2>1. name \in Seq(Parts) /\ name # <<>> /\ Last(name) = ".aidl"
    BY DEF Argument, Replaceable
  <2>2. Len(name) \in Nat /\ Len(name) # 0 /\ \A k \in 1..Len(name) : name[k] \in Parts
    BY <2>1, LenProperties, EmptySeq, ElementOfSeq
  <2>3. QED
    BY <2>1, <2>2, CommandLineAssumption DEF Last, Parts
<1>2. PICK f : Sums(f)
  <2>1. step \in [1..Len(name) -> [Nat -> Nat]]
    BY <1>1
  <2>2. \A k \in 1..Len(name), x \in Nat : step[k][x] = x + Chars[name[k]]
    OBVIOUS
  <2> HIDE DEF step
  <2>3. PICK f : Steps(f, Len(name), Nat, 0, step)
    BY <1>1, <2>1, Recursion
  <2>4. /\ f \in [0..Len(name) -> Nat] /\ f[0] = 0
        /\ \A k \in 1..Len(name) : f[k] = step[k][f[k - 1]]
    BY <2>3 DEF Steps
  <2>5. \A k \in 1..Len(name) : f[k] = f[k - 1] + Chars[name[k]]
    <3>1. ASSUME NEW k \in 1..Len(name) PROVE f[k] = f[k - 1] + Chars[name[k]]
      <4>1. k - 1 \in 0..Len(name)
        BY <1>1
      <4>2. f[k - 1] \in Nat /\ f[k] = step[k][f[k - 1]]
        BY <2>4, <4>1
      <4>3. QED
        BY <2>2, <4>2
    <3>2. QED
      BY <3>1
  <2>6. \A k \in 0..Len(name) : f[k] = IF k = 0 THEN 0 ELSE f[k - 1] + Chars[name[k]]
    BY <1>1, <2>4, <2>5
  <2>7. QED
    BY <2>4, <2>6
<1>3. Sums(sum)
  BY <1>2, Zenon
<1>4. Size(name) = sum[Len(name)]
  BY Zenon DEF Size
<1> HIDE DEF sum, step
<1>5. sum[0] = 0 /\ \A k \in 1..Len(name) : sum[k] = sum[k - 1] + Chars[name[k]]
  BY <1>1, <1>3
<1> HIDE DEF Sums
<1>6. N = Nat
  <2>1. 0 \in N
    BY <1>5
  <2>2. ASSUME NEW n \in N PROVE n + 1 \in N
    <3>1. SUFFICES ASSUME n + 1 <= Len(name) PROVE sum[n + 1] \in Nat
      OBVIOUS
    <3>2. n + 1 \in 1..Len(name) /\ (n + 1) - 1 = n /\ sum[n] \in Nat
      BY <1>1, <3>1
    <3>3. QED
      BY <1>1, <1>5, <3>2
  <2>3. N \in SUBSET Nat
    OBVIOUS
  <2> HIDE DEF N
  <2>4. QED
    BY <2>1, <2>2, <2>3, AllNumbers
<1>7. /\ Len(name) - 1 \in Nat /\ Len(name) - 1 <= Len(name)
      /\ Len(name) \in 1..Len(name)
  BY <1>1
<1>8. PICK rest \in Nat : rest = sum[Len(name) - 1]
  BY <1>6, <1>7
<1>9. Size(name) = rest + 5
  BY <1>1, <1>4, <1>5, <1>7, <1>8, CommandLineAssumption
<1>10. SizeValues \in Nat \ {0}
  BY CommandLineAssumption
<1>11. rest % SizeValues <= rest
  BY <1>10
<1>12. QED
  BY <1>9, <1>10, <1>11 DEF Position

\* A step that leaves the arguments leaves what they ask for.
LEMMA AskedStays ==
  ASSUME UNCHANGED argv
  PROVE  (FollowsUsage' <=> FollowsUsage) /\ Asked' = Asked
<1>1. Inputs' = Inputs /\ Input' = Input
  BY DEF Inputs, Input
<1>2. \A letter : /\ Given(letter)' = Given(letter)
                  /\ Values(letter)' = Values(letter)
                  /\ LastValue(letter)' = LastValue(letter)
  BY <1>1 DEF Given, Values, LastValue
<1>3. QED
  BY <1>1, <1>2, Zenon DEF FollowsUsage, Asked

\* What is asked for before any argument.
LEMMA NothingAsked ==
  ASSUME NEW args
  PROVE  AskedUpto(args, 0, <<>>, <<>>) = [NoOptions EXCEPT !.task = "COMPILE_AIDL"]
<1>1. 1..0 = {}
  OBVIOUS
<1>2. \A letter : GivenUpto(args, letter, 0) = {} /\ LastUpto(args, letter, 0) = <<>>
  BY <1>1 DEF GivenUpto, LastUpto
<1>3. \A letter : ValuesUpto(args, letter, 0) = <<>>
  <2>1. SUFFICES ASSUME NEW letter PROVE ValuesUpto(args, letter, 0) = <<>>
    OBVIOUS
  <2> DEFINE parts == [k \in 1..0 |-> IF args[k][2] = letter THEN <<Rest(args[k])>> ELSE <<>>]
  <2>2. parts = <<>> /\ Len(parts) = 0
    BY <1>1
  <2>3. FlattenSeq(parts) = parts
    BY <2>2, Zenon DEF FlattenSeq
  <2>4. QED
    BY <2>2, <2>3 DEF ValuesUpto
<1>4. /\ (GivenUpto(args, "b", 0) # {}) = FALSE /\ (GivenUpto(args, "a", 0) # {}) = FALSE
      /\ ValuesUpto(args, "I", 0) = <<>> /\ ValuesUpto(args, "p", 0) = <<>>
      /\ LastUpto(args, "o", 0) = <<>> /\ LastUpto(args, "d", 0) = <<>>
  BY <1>2, <1>3, Zenon
<1> DEFINE none(task, e, f) ==
             [task |-> task, failOnParcelable |-> f, importPaths |-> e,
              preprocessedFiles |-> e, inputFileName |-> e, outputFileName |-> e,
              outputBaseFolder |-> e, depFileName |-> e, autoDepFile |-> f,
              filesToPreprocess |-> e]
<1>5. AskedUpto(args, 0, <<>>, <<>>) = none("COMPILE_AIDL", <<>>, FALSE)
  BY <1>4 DEF AskedUpto
<1>6. ASSUME NEW e, NEW f
      PROVE  [none("none", e, f) EXCEPT !.task = "COMPILE_AIDL"] = none("COMPILE_AIDL", e, f)
  <2> DEFINE begun == [none("none", e, f) EXCEPT !.task = "COMPILE_AIDL"]
             asked == none("COMPILE_AIDL", e, f)
  <2>1. DOMAIN begun = DOMAIN asked
    OBVIOUS
  <2>2. \A field \in DOMAIN begun : begun[field] = asked[field]
    OBVIOUS
  <2>3. /\ begun = [field \in DOMAIN begun |-> begun[field]]
        /\ asked = [field \in DOMAIN begun |-> asked[field]]
    BY <2>1
  <2>4. QED
    BY <2>1, <2>2, <2>3
<1>7. NoOptions = none("none", <<>>, FALSE)
  BY DEF NoOptions
<1> HIDE DEF none
<1>8. QED
  BY <1>5, <1>6, <1>7, Zenon

\* parse_options takes the arguments for what they ask.
LEMMA OptionsFollowed ==
  ASSUME Inv, OptionsFollow, OptionsMeant,
         \/ ParsePreprocess \/ BeginOptions \/ TakeOption \/ TakeInput \/ TakeOutput
         \/ CheckRest \/ Compile
  PROVE  OptionsFollow' /\ OptionsMeant'
<1> USE DEF inputs, Exit
<1>1. /\ argv \in Seq(Argument) /\ Len(argv) \in Nat
      /\ \A k \in 1..Len(argv) : argv[k] \in Argument
      /\ i \in 1..(Len(argv) + 1) /\ options \in OptionsType
  BY InputsTyped, ArgumentsTyped DEF Inv, TypeOK
<1>2. UNCHANGED argv /\ (FollowsUsage' <=> FollowsUsage) /\ Asked' = Asked
  <2>1. UNCHANGED argv
    BY Zenon DEF ParsePreprocess, BeginOptions, TakeOption, TakeInput, TakeOutput, CheckRest, Compile
  <2>2. QED
    BY <2>1, AskedStays
<1>3. CASE ParsePreprocess
  <2>1. options = NoOptions
    BY <1>3 DEF ParsePreprocess, OptionsFollow
  <2>2. \/ pc' = "ended" /\ options' = NoOptions
        \/ pc' = "preprocess" /\ options'.task = "PREPROCESS_AIDL"
    BY <1>3, <2>1 DEF ParsePreprocess, NoOptions
  <2>3. QED
    BY <2>2 DEF OptionsFollow, OptionsMeant, NoOptions
<1>4. CASE BeginOptions
  <2>1. pc' = "options" /\ i' = i /\ options' = [NoOptions EXCEPT !.task = "COMPILE_AIDL"]
    BY <1>4 DEF BeginOptions, OptionsFollow
  <2>2. i = 1
    BY <1>4 DEF BeginOptions, OptionsFollow
  <2>3. AllOptions(argv', i' - 1) /\ options' = AskedUpto(argv', i' - 1, <<>>, <<>>)
    <3>1. i' - 1 = 0 /\ 1..0 = {}
      BY <2>1, <2>2
    <3>2. QED
      BY <2>1, <3>1, NothingAsked DEF AllOptions
  <2>4. QED
    BY <2>1, <2>3 DEF OptionsFollow, OptionsMeant
<1>5. CASE TakeOption
  <2>1. /\ pc = "options" /\ i \in 1..Len(argv) /\ IsOption(argv[i])
        /\ AllOptions(argv, i - 1) /\ options = AskedUpto(argv, i - 1, <<>>, <<>>)
    BY <1>1, <1>5 DEF TakeOption, OptionsFollow
  <2>2. PICK n \in Nat : n = i - 1 /\ n + 1 = i /\ n \in 0..Len(argv)
    BY <1>1
  <2>3. CASE Known(argv[i])
    <3>1. /\ pc' = "options" /\ i' = n + 2 /\ i' - 1 = n + 1
          /\ options' = WithOption(AskedUpto(argv, n, <<>>, <<>>), argv[n + 1])
      BY <1>5, <2>1, <2>2, <2>3 DEF TakeOption
    <3>2. options' = AskedUpto(argv, n + 1, <<>>, <<>>)
      BY <1>1, <2>1, <2>2, <2>3, <3>1, OptionAsked
    <3>3. AllOptions(argv, n + 1)
      <4>1. \A k \in 1..(n + 1) : k \in 1..(i - 1) \/ k = i
        BY <1>1, <2>2
      <4>2. QED
        BY <2>1, <2>2, <2>3, <4>1, Zenon DEF AllOptions
    <3>4. AllOptions(argv', i' - 1) /\ options' = AskedUpto(argv', i' - 1, <<>>, <<>>)
      BY <1>2, <3>1, <3>2, <3>3
    <3>5. QED
      BY <3>1, <3>4 DEF OptionsFollow, OptionsMeant
  <2>4. CASE ~Known(argv[i])
    <3>1. ~FollowsUsage
      BY <1>1, <2>1, <2>2, <2>4, NoInput
    <3>2. pc' = "ended" /\ result' = "failed"
      BY <1>5, <2>4 DEF TakeOption
    <3>3. QED
      BY <1>2, <3>1, <3>2 DEF OptionsFollow, OptionsMeant
  <2>5. QED
    BY <2>3, <2>4
<1>6. CASE TakeInput
  <2>1. /\ pc = "options" /\ (i <= Len(argv) => ~IsOption(argv[i]))
        /\ AllOptions(argv, i - 1) /\ options = AskedUpto(argv, i - 1, <<>>, <<>>)
    BY <1>6 DEF TakeInput, OptionsFollow
  <2>2. CASE i <= Len(argv)
    <3>1. pc' = "output" /\ i' = i + 1 /\ options' = [options EXCEPT !.inputFileName = argv[i]]
      BY <1>6, <2>2 DEF TakeInput
    <3>2. options' = AskedUpto(argv, i - 1, argv[i], <<>>)
      BY <2>1, <3>1 DEF AskedUpto
    <3>3. InputAt(argv, i)
      BY <1>1, <2>1, <2>2 DEF InputAt
    <3>4. i' - 1 = i /\ i' - 2 = i - 1
      BY <1>1, <3>1
    <3>5. InputAt(argv', i' - 1) /\ options' = AskedUpto(argv', i' - 2, argv'[i' - 1], <<>>)
      BY <1>2, <3>2, <3>3, <3>4
    <3>6. QED
      BY <3>1, <3>5 DEF OptionsFollow, OptionsMeant
  <2>3. CASE ~(i <= Len(argv))
    <3>1. PICK n \in 0..Len(argv) : n = i - 1 /\ n = Len(argv)
      BY <1>1, <2>3
    <3>2. ~FollowsUsage
      BY <1>1, <2>1, <3>1, NoInput
    <3>3. pc' = "ended" /\ result' = "failed"
      BY <1>6, <2>3 DEF TakeInput
    <3>4. QED
      BY <1>2, <3>2, <3>3 DEF OptionsFollow, OptionsMeant
  <2>4. QED
    BY <2>2, <2>3
<1>7. CASE TakeOutput
  <2>1. pc = "output"
    BY <1>7 DEF TakeOutput
  <2>2. PICK n \in 1..Len(argv) :
          /\ n = i - 1 /\ InputAt(argv, n) /\ options = AskedUpto(argv, n - 1, argv[n], <<>>)
    <3>1. InputAt(argv, i - 1) /\ options = AskedUpto(argv, i - 2, argv[i - 1], <<>>)
      BY <2>1 DEF OptionsFollow
    <3>2. i - 1 \in 1..Len(argv) /\ (i - 1) - 1 = i - 2
      BY <1>1, <3>1 DEF InputAt
    <3>3. QED
      BY <3>1, <3>2
  <2>3. options.inputFileName = argv[n] /\ options.outputBaseFolder = LastUpto(argv, "o", n - 1)
    BY <2>2 DEF AskedUpto
  <2>4. options.outputBaseFolder = <<>> <=> GivenUpto(argv, "o", n - 1) = {}
    <3>1. n - 1 \in Nat /\ n - 1 <= Len(argv) /\ AllOptions(argv, n - 1)
      BY <1>1, <2>2 DEF InputAt
    <3>2. QED
      BY <1>1, <2>3, <3>1, FolderNamed
  <2>5. /\ FollowsUsage <=> Len(argv) <= n + 1 /\ Namable(argv, n)
        /\ i = n + 1
    BY <1>1, <2>2, InputIs
  <2>6. ASSUME NEW out, options' = [options EXCEPT !.outputFileName = out],
               out = OutputFor(argv, n), Namable(argv, n),
               pc' = "rest", i' = IF Len(argv) > n THEN n + 2 ELSE n + 1
        PROVE  OptionsFollow' /\ OptionsMeant'
    <3>1. options' = AskedUpto(argv, n - 1, argv[n], OutputFor(argv, n))
      BY <2>2, <2>6 DEF AskedUpto
    <3>2. \E m \in 1..Len(argv') :
            /\ InputAt(argv', m) /\ i' = (IF Len(argv') > m THEN m + 2 ELSE m + 1)
            /\ options' = AskedUpto(argv', m - 1, argv'[m], OutputFor(argv', m))
            /\ Namable(argv', m)
      BY <1>2, <2>2, <2>6, <3>1
    <3>3. QED
      BY <2>6, <3>2 DEF OptionsFollow, OptionsMeant
  <2>7. CASE i <= Len(argv)
    <3>1. /\ options' = [options EXCEPT !.outputFileName = argv[n + 1]]
          /\ i' = n + 2 /\ pc' = "rest"
      BY <1>1, <1>7, <2>5, <2>7 DEF TakeOutput
    <3>2. Len(argv) > n
      BY <1>1, <2>5, <2>7
    <3>3. argv[n + 1] = OutputFor(argv, n) /\ Namable(argv, n)
      BY <3>2 DEF OutputFor, Namable
    <3>4. QED
      BY <2>6, <3>1, <3>2, <3>3
  <2>8. CASE ~(i <= Len(argv)) /\ options.outputBaseFolder # <<>>
    <3>1. pc' = "rest" /\ i' = i /\ options' = options /\ ~(Len(argv) > n)
      BY <1>1, <1>7, <2>5, <2>8 DEF TakeOutput
    <3>2. options = [options EXCEPT !.outputFileName = <<>>]
      BY <2>2 DEF AskedUpto
    <3>3. OutputFor(argv, n) = <<>> /\ Namable(argv, n)
      BY <2>4, <2>8, <3>1 DEF OutputFor, Namable
    <3>4. QED
      BY <2>5, <2>6, <3>1, <3>2, <3>3
  <2>9. CASE ~(i <= Len(argv)) /\ options.outputBaseFolder = <<>>
    <3>1. Len(argv) = n
      BY <1>1, <2>2, <2>5, <2>9
    <3>2. FollowsUsage <=> Replaceable(argv[n])
      BY <1>1, <2>4, <2>5, <2>9, <3>1 DEF Namable
    <3>3. CASE Replaceable(argv[n])
      <4>1. ~(Position(argv[n]) > Size(argv[n]))
        BY <1>1, <3>3, ExtensionFits
      <4>2. /\ options' = [options EXCEPT !.outputFileName = Append(Front(argv[n]), ".java")]
            /\ pc' = "rest" /\ i' = i
        BY <1>7, <2>3, <2>9, <3>3, <4>1, Zenon DEF TakeOutput
      <4>3. /\ Append(Front(argv[n]), ".java") = OutputFor(argv, n)
            /\ Namable(argv, n) /\ ~(Len(argv) > n)
        BY <1>1, <2>4, <2>9, <3>1, <3>3 DEF OutputFor, Namable
      <4>4. QED
        BY <2>5, <2>6, <4>2, <4>3
    <3>4. CASE ~Replaceable(argv[n])
      <4>1. pc' = "ended" /\ result' \in {"crashed", "failed"}
        BY <1>7, <2>3, <2>9, <3>4, Zenon DEF TakeOutput
      <4>2. QED
        BY <1>2, <3>2, <3>4, <4>1 DEF OptionsFollow, OptionsMeant
    <3>5. QED
      BY <3>3, <3>4
  <2>10. QED
    BY <2>7, <2>8, <2>9
<1>8. CASE CheckRest
  <2>1. PICK n \in 1..Len(argv) :
          /\ InputAt(argv, n) /\ i = (IF Len(argv) > n THEN n + 2 ELSE n + 1)
          /\ options = AskedUpto(argv, n - 1, argv[n], OutputFor(argv, n)) /\ Namable(argv, n)
    BY <1>8 DEF CheckRest, OptionsFollow
  <2>2. /\ FollowsUsage <=> Len(argv) <= n + 1
        /\ Len(argv) <= n + 1 => options = Asked
    BY <1>1, <2>1, InputIs
  <2>3. i = Len(argv) + 1 <=> Len(argv) <= n + 1
    BY <1>1, <2>1
  <2>4. UNCHANGED options
    BY <1>8 DEF CheckRest
  <2>5. CASE i = Len(argv) + 1
    <3>1. pc' = "compile"
      BY <1>8, <2>5 DEF CheckRest
    <3>2. QED
      BY <1>2, <2>2, <2>3, <2>4, <2>5, <3>1 DEF OptionsFollow, OptionsMeant
  <2>6. CASE i # Len(argv) + 1
    <3>1. pc' = "ended" /\ result' = "failed"
      BY <1>8, <2>6 DEF CheckRest
    <3>2. QED
      BY <1>2, <2>2, <2>3, <2>6, <3>1 DEF OptionsFollow, OptionsMeant
  <2>7. QED
    BY <2>5, <2>6
<1>9. CASE Compile
  BY <1>2, <1>9 DEF Compile, OptionsFollow, OptionsMeant
<1>10. QED
  BY <1>3, <1>4, <1>5, <1>6, <1>7, <1>8, <1>9

\* --preprocess has no options.
LEMMA PreprocessHasNone ==
  ASSUME OptionsFollow, ReadFile \/ OpenOutput \/ WriteLine \/ CloseOutput
  PROVE  OptionsFollow' /\ OptionsMeant'
<1>1. /\ options' = options /\ options.task = "PREPROCESS_AIDL"
      /\ pc' \in {"preprocess", "write", "ended"}
  BY DEF OptionsFollow, ReadFile, OpenOutput, WriteLine, CloseOutput, Exit
<1>2. QED
  BY <1>1 DEF OptionsFollow, OptionsMeant

\* No step leaves what the options follow.
LEMMA NextFollows ==
  Inv /\ OptionsFollow /\ OptionsMeant /\ [Next]_vars => (OptionsFollow /\ OptionsMeant)'
<1>1. ASSUME Inv, OptionsFollow, OptionsMeant, Next PROVE OptionsFollow' /\ OptionsMeant'
  BY <1>1, OptionsFollowed, PreprocessHasNone, Zenon DEF Next
<1>2. ASSUME OptionsFollow, OptionsMeant, UNCHANGED vars PROVE OptionsFollow' /\ OptionsMeant'
  <2>1. UNCHANGED <<argv, pc, i, options, result>>
    BY <1>2 DEF vars, inputs
  <2>2. (FollowsUsage' <=> FollowsUsage) /\ Asked' = Asked
    BY <2>1, AskedStays
  <2>3. QED
    BY <1>2, <2>1, <2>2, Zenon DEF OptionsFollow, OptionsMeant
<1>3. QED
  BY <1>1, <1>2, Zenon

\* Whatever the command line, what compile_aidl starts with is what the arguments ask for by
\* the usage text, in any order and however often; a command line that does not follow the
\* usage text never gets there.
THEOREM OptionsAreMeant == Spec => []OptionsMeant
<1>1. Init => OptionsFollow /\ OptionsMeant
  BY DEF Init, OptionsFollow, OptionsMeant, NoOptions
<1>2. QED
  BY <1>1, InitInv, NextInv, NextFollows, PTL DEF Spec

-----------------------------------------------------------------------------
(* Preprocessed files read back.                                            *)

\* The line for a declaration that one line can hold is read back as that
\* declaration, as far as the registry goes.
LEMMA ReadAsDeclared ==
  ASSUME NEW item \in Item, OneLineHolds(<<item>>), NEW ns
  PROVE  Gathered(ns, ReadBack(LineOf(item))) = Gathered(ns, item)
<1> DEFINE line == LineOf(item)
           back == ReadBack(line)
<1>1. /\ item.package \in Seq(Ident) /\ item.name \in Seq(Ident) /\ Len(item.name) = 1
      /\ item.kind \in {"USER_DATA", "BINDER"}
      /\ item.kind = "USER_DATA" => item.parcelable = TRUE /\ item.flattenable = FALSE
  BY DEF OneLineHolds, Item, SimpleName, DottedName
<1>2. /\ line.type = IF item.kind = "BINDER" THEN "interface" ELSE "parcelable"
      /\ line.fullname = item.package \o item.name
  BY <1>1 DEF LineOf, IsInterface
<1>3. /\ Front(line.fullname) = item.package
      /\ <<Last(line.fullname)>> = item.name
  <2>1. PICK p \in Seq(Ident), x \in Ident : p = item.package /\ item.name = <<x>>
    <3>1. item.name = <<item.name[1]>> /\ item.name[1] \in Ident
      BY <1>1
    <3>2. QED
      BY <1>1, <3>1
  <2>2. PICK whole \in Seq(Ident) : whole = Append(p, x)
    BY <2>1, AppendProperties
  <2>3. line.fullname = whole
    BY <1>2, <2>1, <2>2, AppendIsConcat
  <2>4. Len(whole) = Len(p) + 1 /\ whole[Len(p) + 1] = x /\ \A k \in 1..Len(p) : whole[k] = p[k]
    BY <2>2
  <2>5. Last(whole) = x
    BY <2>4 DEF Last
  <2>6. Front(whole) = p
    <3>1. Front(whole) = [k \in 1..Len(p) |-> p[k]]
      BY <2>4 DEF Front
    <3>2. QED
      BY <3>1
  <2>7. QED
    BY <2>1, <2>3, <2>5, <2>6
<1>4. /\ back.package = item.package /\ back.name = item.name /\ back.kind = item.kind
      /\ item.kind = "USER_DATA" => back.parcelable = TRUE /\ back.flattenable = FALSE
  BY <1>1, <1>2, <1>3 DEF ReadBack, LineItem
<1> HIDE DEF back, line
<1>5. DeclaredType(back) = DeclaredType(item)
  BY <1>1, <1>4, Zenon DEF DeclaredType, IsInterface
<1>6. ASSUME NEW suffix PROVE GeneratedType(back, suffix) = GeneratedType(item, suffix)
  BY <1>4 DEF GeneratedType
<1>7. Gathered(ns, back) = Gathered(ns, item)
  <2>1. /\ GeneratedType(back, <<"Stub">>) = GeneratedType(item, <<"Stub">>)
        /\ GeneratedType(back, <<"Stub", "Proxy">>) = GeneratedType(item, <<"Stub", "Proxy">>)
    BY <1>6
  <2>2. CASE Declares(ns, QualifiedName(DeclaredType(item)))
    BY <1>5, <2>2 DEF Gathered
  <2>3. CASE ~Declares(ns, QualifiedName(DeclaredType(item))) /\ item.kind = "BINDER"
    BY <1>4, <1>5, <2>1, <2>3 DEF Gathered
  <2>4. CASE ~Declares(ns, QualifiedName(DeclaredType(item))) /\ item.kind = "USER_DATA"
    BY <1>4, <1>5, <2>4 DEF Gathered
  <2>5. QED
    BY <1>1, <2>2, <2>3, <2>4
<1>8. QED
  BY <1>7 DEF back, line

\* The function RegistryOf builds for some declarations.
Gathers(f, items) ==
  f = [k \in 0..Len(items) |->
         IF k = 0 THEN RegisteredBaseTypes ELSE Gathered(f[k - 1], items[k])]

\* There is one.
LEMMA GathersExists == ASSUME NEW items, Len(items) \in Nat PROVE \E f : Gathers(f, items)
<1> DEFINE Upto(f, n) == f = [k \in 0..n |-> IF k = 0 THEN RegisteredBaseTypes
                                             ELSE Gathered(f[k - 1], items[k])]
           N == {n \in Nat : \E f : Upto(f, n)}
<1>1. 0 \in N
  <2> DEFINE g == [k \in 0..0 |-> RegisteredBaseTypes]
  <2>1. \A k \in 0..0 : RegisteredBaseTypes =
          IF k = 0 THEN RegisteredBaseTypes ELSE Gathered(g[k - 1], items[k])
    OBVIOUS
  <2>2. Upto(g, 0)
    BY <2>1
  <2>3. QED
    BY <2>2
<1>2. ASSUME NEW n \in N PROVE n + 1 \in N
  <2>1. PICK f : Upto(f, n)
    OBVIOUS
  <2> DEFINE g == [k \in 0..(n + 1) |-> IF k <= n THEN f[k] ELSE Gathered(f[n], items[k])]
  <2>2. \A k \in 0..n : g[k] = f[k]
    OBVIOUS
  <2>3. ASSUME NEW k \in 0..(n + 1)
        PROVE  g[k] = IF k = 0 THEN RegisteredBaseTypes ELSE Gathered(g[k - 1], items[k])
    <3>1. CASE k <= n
      <4>1. g[k] = f[k]
        BY <2>2, <3>1
      <4>2. f[k] = IF k = 0 THEN RegisteredBaseTypes ELSE Gathered(f[k - 1], items[k])
        <5>1. k \in 0..n
          BY <3>1
        <5>2. QED
          BY <2>1, <5>1
      <4>3. k # 0 => g[k - 1] = f[k - 1]
        BY <2>2, <3>1
      <4>4. QED
        BY <4>1, <4>2, <4>3
    <3>2. CASE k = n + 1
      <4>1. g[k] = Gathered(f[n], items[k]) /\ g[k - 1] = f[n] /\ k # 0
        BY <2>2, <3>2
      <4>2. QED
        BY <4>1
    <3>3. QED
      BY <3>1, <3>2
  <2>4. Upto(g, n + 1)
    <3>1. g = [k \in 0..(n + 1) |-> g[k]]
      OBVIOUS
    <3> HIDE DEF g
    <3>2. QED
      BY <2>3, <3>1
  <2> HIDE DEF Upto, g
  <2>5. n \in Nat
    OBVIOUS
  <2>6. QED
    BY <2>4, <2>5
<1>3. N = Nat
  <2>1. N \in SUBSET Nat
    OBVIOUS
  <2> HIDE DEF N
  <2>2. QED
    BY <1>1, <1>2, <2>1, AllNumbers
<1>4. PICK f : Upto(f, Len(items))
  <2>1. Len(items) \in N
    <3> HIDE DEF N
    <3>1. QED
      BY <1>3
  <2>2. QED
    BY <2>1
<1>5. QED
  BY <1>4 DEF Gathers

\* Declarations that each leave the same registry leave the same registry one
\* after the other.
LEMMA SameRegistry ==
  ASSUME NEW a, NEW b, Len(a) \in Nat, Len(b) = Len(a),
         \A k \in 1..Len(a) : \A ns : Gathered(ns, a[k]) = Gathered(ns, b[k])
  PROVE  RegistryOf(a) = RegistryOf(b)
<1> DEFINE f == CHOOSE f : Gathers(f, a)
           g == CHOOSE g : Gathers(g, b)
<1>1. Gathers(f, a) /\ Gathers(g, b)
  BY GathersExists
<1>2. RegistryOf(a) = f[Len(a)] /\ RegistryOf(b) = g[Len(b)]
  BY Zenon DEF RegistryOf, Gathers
<1> HIDE DEF f, g
<1>3. \A k \in 0..Len(a) :
        /\ f[k] = IF k = 0 THEN RegisteredBaseTypes ELSE Gathered(f[k - 1], a[k])
        /\ g[k] = IF k = 0 THEN RegisteredBaseTypes ELSE Gathered(g[k - 1], b[k])
  BY <1>1, Zenon DEF Gathers
<1> DEFINE Same(n) == n \in 0..Len(a) => f[n] = g[n]
           N == {n \in Nat : Same(n)}
<1>4. Same(0)
  BY <1>3
<1>5. ASSUME NEW n \in Nat, Same(n) PROVE Same(n + 1)
  <2>1. SUFFICES ASSUME n + 1 \in 0..Len(a) PROVE f[n + 1] = g[n + 1]
    OBVIOUS
  <2>2. /\ n + 1 \in 1..Len(a) /\ n + 1 # 0 /\ (n + 1) - 1 = n /\ n \in 0..Len(a)
    BY <2>1
  <2>3. /\ f[n + 1] = Gathered(f[n], a[n + 1])
        /\ g[n + 1] = Gathered(g[n], b[n + 1])
    BY <1>3, <2>1, <2>2
  <2>4. f[n] = g[n]
    BY <1>5, <2>2
  <2>5. Gathered(f[n], a[n + 1]) = Gathered(f[n], b[n + 1])
    BY <2>2
  <2>6. QED
    BY <2>3, <2>4, <2>5
<1>6. \A n \in Nat : Same(n)
  <2> HIDE DEF Same
  <2>1. N \in SUBSET Nat /\ 0 \in N /\ \A n \in N : n + 1 \in N
    BY <1>4, <1>5
  <2>2. N = Nat
    <3> HIDE DEF N
    <3>1. QED
      BY <2>1, AllNumbers
  <2>3. QED
    BY <2>2
<1>7. QED
  BY <1>2, <1>6

\* Sequences of one element each, one after the other.
LEMMA FlattenSingles ==
  ASSUME NEW S, NEW n \in Nat, NEW item \in [1..n -> S]
  PROVE  FlattenSeq([k \in 1..n |-> <<item[k]>>]) = item
<1> DEFINE parts == [k \in 1..n |-> <<item[k]>>]
           f == [k \in 1..n |-> [j \in 1..k |-> item[j]]]
<1>1. parts \in Seq(Seq(S)) /\ Len(parts) = n /\ \A k \in 1..n : parts[k] = <<item[k]>>
  <2>1. PICK E : E = Seq(S)
    OBVIOUS
  <2>2. \A k \in 1..n : <<item[k]>> \in E
    BY <2>1
  <2>3. parts \in Seq(E) /\ Len(parts) = n
    BY <2>2
  <2>4. QED
    BY <2>1, <2>3
<1> HIDE DEF parts
<1>2. CASE n = 0
  <2>1. FlattenSeq(parts) = parts
    BY <1>1, <1>2, Zenon DEF FlattenSeq
  <2>2. parts = <<>> /\ item = <<>>
    BY <1>1, <1>2
  <2>3. QED
    BY <2>1, <2>2 DEF parts
<1>3. CASE n # 0
  <2>1. PICK g : Flattens(g, parts) /\ FlattenSeq(parts) = g[Len(parts)]
    BY <1>1, <1>3, FlattenSteps
  <2>2. \A k \in 1..n : f[k] = IF k = 1 THEN parts[k] ELSE f[k - 1] \o parts[k]
    <3>1. ASSUME NEW k \in 1..n PROVE f[k] = IF k = 1 THEN parts[k] ELSE f[k - 1] \o parts[k]
      <4>1. f[k] \in Seq(S) /\ Len(f[k]) = k /\ \A j \in 1..k : f[k][j] = item[j]
        OBVIOUS
      <4>2. CASE k = 1
        <5>1. f[k] = <<item[k]>>
          BY <4>1, <4>2
        <5>2. QED
          BY <1>1, <4>2, <5>1
      <4>3. CASE k # 1
        <5>1. /\ k - 1 \in 1..n
              /\ f[k - 1] \in Seq(S) /\ Len(f[k - 1]) = k - 1
              /\ \A j \in 1..(k - 1) : f[k - 1][j] = item[j]
          BY <4>3
        <5>2. item[k] \in S
          OBVIOUS
        <5> HIDE DEF f
        <5>3. Append(f[k - 1], item[k]) = f[k]
          BY <4>1, <5>1, <5>2
        <5>4. f[k - 1] \o <<item[k]>> = Append(f[k - 1], item[k])
          BY <5>1, <5>2, AppendIsConcat
        <5>5. QED
          BY <1>1, <4>3, <5>3, <5>4
      <4>4. QED
        BY <4>2, <4>3
    <3>2. QED
      BY <3>1
  <2>3. f[n] = item
    BY <1>3
  <2>4. f = [k \in 1..n |-> f[k]]
    OBVIOUS
  <2> HIDE DEF f
  <2>5. Flattens(f, parts)
    <3>1. f = [k \in 1..n |-> IF k = 1 THEN parts[k] ELSE f[k - 1] \o parts[k]]
      BY <2>2, <2>4
    <3>2. QED
      BY <1>1, <3>1, Zenon DEF Flattens
  <2>6. f = g
    BY <1>1, <2>1, <2>5, FlattensUnique
  <2>7. QED
    BY <1>1, <2>1, <2>3, <2>6 DEF parts
<1>4. QED
  BY <1>2, <1>3

\* Each line is that of the first declaration of its file, as the scanner found
\* it in the start condition it was in then.
LinesFollow ==
  options.task = "PREPROCESS_AIDL" =>
    \A k \in 1..Len(lines) :
      LET file == options.filesToPreprocess[k]
      IN  /\ file \in DOMAIN disk.aidl
          /\ \E s \in LexStates : /\ disk.aidl[file][s].items # <<>>
                                  /\ lines[k] = LineOf(disk.aidl[file][s].items[1])

\* No step leaves what the lines follow.
LEMMA NextLines == Inv /\ LinesFollow /\ [Next]_vars => LinesFollow'
<1> SUFFICES ASSUME Inv, LinesFollow, [Next]_vars PROVE LinesFollow'
  OBVIOUS
<1>1. lines \in Seq(Line) /\ Len(lines) \in Nat /\ lex \in LexStates
  BY LenProperties DEF Inv, TypeOK
<1>2. CASE ReadFile
  <2> DEFINE file == options.filesToPreprocess[Len(lines) + 1]
             outcome == disk.aidl[file][lex]
  <2>1. UNCHANGED <<disk, options>>
    BY <1>2 DEF ReadFile, inputs
  <2>2. CASE UNCHANGED lines
    BY <2>1, <2>2 DEF LinesFollow
  <2>3. CASE ~UNCHANGED lines
    <3>1. /\ file \in DOMAIN disk.aidl /\ outcome.items # <<>>
          /\ lines' = Append(lines, LineOf(outcome.items[1]))
      <4>1. lines' # lines
        BY <2>3
      <4>2. QED
        BY <1>2, <4>1, Zenon DEF ReadFile
    <3>2. PICK line : line = LineOf(outcome.items[1])
      OBVIOUS
    <3>3. /\ Len(lines') = Len(lines) + 1 /\ lines'[Len(lines) + 1] = line
          /\ \A k \in 1..Len(lines) : lines'[k] = lines[k]
      <4> HIDE DEF file, outcome
      <4>1. PICK E : E = Line \cup {line}
        OBVIOUS
      <4>2. PICK l \in Seq(E) : l = lines
        BY <1>1, <4>1
      <4>3. line \in E /\ lines' = Append(l, line)
        BY <3>1, <3>2, <4>1, <4>2, Zenon
      <4>4. QED
        BY <4>2, <4>3, OneMoreAtEnd
    <3>4. ASSUME options.task = "PREPROCESS_AIDL", NEW k \in 1..(Len(lines) + 1)
          PROVE  /\ options.filesToPreprocess[k] \in DOMAIN disk.aidl
                 /\ \E s \in LexStates :
                      /\ disk.aidl[options.filesToPreprocess[k]][s].items # <<>>
                      /\ lines'[k] = LineOf(disk.aidl[options.filesToPreprocess[k]][s].items[1])
      <4>1. CASE k \in 1..Len(lines)
        <5>1. lines'[k] = lines[k]
          <6> HIDE DEF file, outcome
          <6>1. QED
            BY <3>3, <4>1, Zenon
        <5>2. QED
          BY <3>4, <4>1, <5>1 DEF LinesFollow
      <4>2. CASE k = Len(lines) + 1
        BY <1>1, <3>1, <3>2, <3>3, <4>2
      <4>3. QED
        BY <1>1, <4>1, <4>2
    <3>5. QED
      BY <2>1, <3>3, <3>4 DEF LinesFollow
  <2>4. QED
    BY <2>2, <2>3
<1>3. CASE ParsePreprocess
  BY <1>3 DEF ParsePreprocess, LinesFollow, Inv, OutputFollows
<1>4. CASE \/ BeginOptions \/ TakeOption \/ TakeInput \/ TakeOutput \/ CheckRest \/ Compile
  <2>1. lines = <<>> /\ UNCHANGED lines
    BY <1>4
    DEF BeginOptions, TakeOption, TakeInput, TakeOutput, CheckRest, Compile, Inv, OutputFollows
  <2>2. QED
    BY <2>1 DEF LinesFollow
<1>5. CASE OpenOutput \/ WriteLine \/ CloseOutput \/ UNCHANGED vars
  <2>1. UNCHANGED <<disk, options, lines>>
    BY <1>5 DEF OpenOutput, WriteLine, CloseOutput, vars, inputs
  <2>2. QED
    BY <2>1 DEF LinesFollow
<1>6. QED
  BY <1>2, <1>3, <1>4, <1>5 DEF Next

\* Lines that follow the files are read back as what those declare.
LEMMA LinesReadBack == ASSUME Inv, LinesFollow PROVE PlainReadsBack
<1> DEFINE files == options.filesToPreprocess
           item == [k \in 1..Len(files) |-> Declared(files[k])[1]]
<1> SUFFICES ASSUME Preprocessed, \A file \in ToSet(files) : Plainly(file)
             PROVE  ReadsBack
  BY DEF PlainReadsBack
<1>1. /\ files \in Seq(Argument) /\ Len(files) \in Nat /\ DOMAIN files = 1..Len(files)
      /\ options.task = "PREPROCESS_AIDL"
  BY LenProperties DEF Inv, TypeOK, OptionsType, Preprocessed
<1>2. output = lines /\ Len(lines) = Len(files) /\ lines \in Seq(Line)
  BY DEF Inv, WholeOrNothing, Preprocessed, TypeOK
<1>3. ASSUME NEW k \in 1..Len(files)
      PROVE  /\ Declared(files[k]) = <<item[k]>> /\ item[k] \in Item
             /\ OneLineHolds(<<item[k]>>) /\ lines[k] = LineOf(item[k])
  <2>1. Plainly(files[k])
    BY <1>1 DEF ToSet
  <2>2. PICK s \in LexStates : /\ disk.aidl[files[k]][s].items # <<>>
                               /\ lines[k] = LineOf(disk.aidl[files[k]][s].items[1])
    BY <1>1, <1>2 DEF LinesFollow
  <2>3. disk.aidl[files[k]][s].items = Declared(files[k])
    BY <2>1, <2>2 DEF Plainly
  <2>4. Declared(files[k]) \in Seq(Item)
    <3>1. files[k] \in DOMAIN disk.aidl
      BY <1>1, <1>2 DEF LinesFollow
    <3>2. disk.aidl[files[k]] \in [LexStates -> Outcome]
      BY <3>1, InputsTyped DEF Inv, IsDisk
    <3>3. QED
      BY <3>2 DEF Declared, Outcome, LexStates
  <2>5. Len(Declared(files[k])) = 1
    BY <2>1 DEF Plainly, OneLineHolds
  <2>6. item[k] = Declared(files[k])[1]
    OBVIOUS
  <2> HIDE DEF item
  <2>7. Declared(files[k]) = <<item[k]>> /\ item[k] \in Item
    BY <2>4, <2>5, <2>6
  <2>8. QED
    BY <2>1, <2>2, <2>3, <2>6, <2>7 DEF Plainly
<1>4. FlattenSeq([k \in DOMAIN files |-> Declared(files[k])]) = item
  <2>1. item \in [1..Len(files) -> Item]
    BY <1>3
  <2>2. [k \in DOMAIN files |-> Declared(files[k])] = [k \in 1..Len(files) |-> <<item[k]>>]
    BY <1>1, <1>3
  <2> HIDE DEF item
  <2>3. QED
    BY <1>1, <2>1, <2>2, FlattenSingles
<1> DEFINE back == [k \in DOMAIN output |-> ReadBack(output[k])]
<1>5. Len(back) = Len(files) /\ \A k \in 1..Len(files) : back[k] = ReadBack(lines[k])
  BY <1>1, <1>2
<1>6. Len(item) = Len(files)
  BY <1>1
<1> HIDE DEF item, back
<1>7. ASSUME NEW k \in 1..Len(files), NEW ns
      PROVE  Gathered(ns, back[k]) = Gathered(ns, item[k])
  <2>1. back[k] = ReadBack(LineOf(item[k]))
    BY <1>3, <1>5
  <2>2. QED
    BY <1>3, <2>1, ReadAsDeclared
<1>8. RegistryOf(back) = RegistryOf(item)
  BY <1>1, <1>5, <1>6, <1>7, SameRegistry
<1>9. QED
  BY <1>4, <1>8 DEF ReadsBack, back

\* Whatever the files, what --preprocess leaves is read back, with -p, as the classes they
\* declare, as far as one line can say it and no comment of the file before takes a part.
THEOREM PlainlyReadBack == Spec => []PlainReadsBack
<1>1. Init => LinesFollow
  BY DEF Init, NoOptions, LinesFollow
<1>2. Inv /\ LinesFollow => PlainReadsBack
  BY LinesReadBack
<1>3. QED
  BY <1>1, <1>2, InitInv, NextInv, NextLines, PTL DEF Spec

=============================================================================
