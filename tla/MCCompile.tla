------------------------------ MODULE MCCompile ------------------------------
(***************************************************************************)
(* Instances of compile_aidl for TLC.  The main file is src/p/IA.aidl, its *)
(* imports are q.B and q.IC, searched for under inc and lib.  Each family  *)
(* of inputs varies one part of the program and keeps the others small:    *)
(* what the files parse to, what the methods declare, where the output     *)
(* goes, what the preprocessed files say.                                  *)
(***************************************************************************)
EXTENDS CompileContract, BaseTypes

MCIdent ==
  {"p", "q", "src", "inc", "lib", "work", "-", "fw", "more", "IA", "MyIA", "B",
   "IC", "Stub", "Proxy", "ServiceBase", "f", "g", "nowhere"}
    \cup UNION {ToSet(t.package \o t.name) : t \in ToSet(RegisteredBaseTypes)}

\* The base types the run with a liveness property keeps: ENABLED is evaluated without
\* caching, and its cost grows with the cube of their number.
FewBaseTypes ==
  <<Primitive("void"), Primitive("int"), BuiltIn(JavaUtil, "List", {"parcel", "rpc", "out"})>>

MCTextSuffixes == {<<"MyIA", "IA">>}

\* Every command line with every file system.
With(invocations, disks) == {[opt |-> o, disk |-> d] : o \in invocations, d \in disks}

-----------------------------------------------------------------------------
(* Building blocks.                                                        *)

Ref(path) == [ref |-> Plain(path), dimension |-> 0, star |-> FALSE]
ListOf(path) == [Ref(<<"List">>) EXCEPT !.ref.args = <<path>>]
ArrayOf(path, n) == [Ref(path) EXCEPT !.dimension = n]
AnInt == Ref(<<"int">>)
Void == Ref(<<"void">>)
B == <<"q", "B">>
IC == <<"q", "IC">>

AnArg(direction, type) == [direction |-> direction, type |-> type, keyword |-> FALSE]
AMethod(name, type, as) == [name |-> name, type |-> type, args |-> as]

AnItem(kind, package, name, ms) ==
  [kind |-> kind, package |-> package, name |-> name, parcelable |-> kind = "USER_DATA",
   flattenable |-> FALSE, methods |-> ms]
Parcelable(package, name) == AnItem("USER_DATA", package, <<name>>, <<>>)
Interface(package, name, ms) == AnItem("BINDER", package, <<name>>, ms)
Flattenable(package, name) == [Parcelable(package, name) EXCEPT !.flattenable = TRUE]

\* A text that parses well: imports, then declarations.
Text(classes, items) ==
  [imports |-> classes, called |-> TRUE, items |-> items, err |-> FALSE, lex |-> "INITIAL"]

\* The same text for either start condition: it begins with a closed comment.
File(outcome) == [s \in LexStates |-> outcome]

\* A text without comments: a scanner left inside a comment swallows it all,
\* and the parser sees an empty file.
Swallowed(outcome) ==
  [INITIAL |-> outcome,
   LONG_COMMENT |-> [Text(<<>>, <<>>) EXCEPT !.lex = "LONG_COMMENT"]]

UsesB == AMethod("f", Void, <<AnArg("in", Ref(B))>>)
UsesIC == AMethod("g", AnInt, <<AnArg("", Ref(<<"IC">>))>>)

Options(preprocessed, out) ==
  [preprocessed |-> preprocessed, input |-> <<"src", "p", "IA">>,
   importPaths |-> <<<<"inc">>, <<"lib">>>>, output |-> out,
   outputBaseFolder |-> <<>>, autoDepFile |-> TRUE, depFileName |-> <<>>,
   failOnParcelable |-> FALSE]

Disk(main, aidl, preprocessed) ==
  [aidl |-> [f \in {<<"src", "p", "IA">>} |-> main] @@ aidl, preprocessed |-> preprocessed]

\* The files of a function that maps absent ones to {}.
Present(files) == [f \in {f \in DOMAIN files : files[f] # {}} |-> CHOOSE c \in files[f] : TRUE]

AComment == [comment |-> TRUE, type |-> "none", fullname |-> <<>>]
ABlank == [comment |-> FALSE, type |-> "none", fullname |-> <<>>]
ALine(type, name) == [comment |-> FALSE, type |-> type, fullname |-> name]

NoFiles == [f \in {} |-> <<>>]
NoPreprocessed == NoFiles

-----------------------------------------------------------------------------
(* imports: what the main file and its imports parse to, and from where.   *)

MainItem == Interface(<<"p">>, "IA", <<UsesB, UsesIC>>)

ImportMains ==
  { File(Text(<<B, IC>>, <<MainItem>>)),
    File(Text(<<B, B>>, <<Interface(<<"p">>, "IA", <<UsesB>>)>>)),
    File([Text(<<B, IC>>, <<MainItem>>) EXCEPT !.lex = "LONG_COMMENT"]),
    File([Text(<<B>>, <<MainItem>>) EXCEPT !.err = TRUE]),
    File([Text(<<B>>, <<>>) EXCEPT !.err = TRUE, !.called = FALSE]),
    File(Text(<<>>, <<>>)) }

GoodB == Text(<<>>, <<Parcelable(<<"q">>, "B")>>)

\* Under inc: B imports IC and the main file, or is only a syntax error, or
\* ends inside a comment; {} is a missing file.
ImportBs ==
  { {}, {Swallowed(GoodB)}, {File(GoodB)},
    {Swallowed(Text(<<IC, <<"p", "IA">>>>, <<Parcelable(<<"q">>, "B")>>))},
    {File([GoodB EXCEPT !.err = TRUE])},
    {File([GoodB EXCEPT !.err = TRUE, !.called = FALSE])},
    {File(Text(<<>>, <<>>))},
    {File([GoodB EXCEPT !.lex = "LONG_COMMENT"])},
    {File(Text(<<>>, <<Interface(<<"q">>, "B", <<>>)>>))} }

ImportICs ==
  { {}, {File(Text(<<B>>, <<Interface(<<"q">>, "IC", <<UsesB>>)>>))},
    {Swallowed(Text(<<>>, <<Interface(<<"q">>, "IC", <<>>)>>))},
    {File([GoodB EXCEPT !.err = TRUE, !.called = FALSE])} }

ImportPre ==
  [fw |-> <<AComment, ALine("parcelable", B)>>,
   more |-> <<ALine("interface", B), ALine("interface", IC)>>]

ImportDisks ==
  { Disk(m, Present(<<"inc", "q", "B">> :> b @@ <<"lib", "q", "IC">> :> ic), ImportPre) :
      m \in ImportMains, b \in ImportBs, ic \in ImportICs }
    \cup
  { Disk(m, Present(<<"inc", "q", "B">> :> b @@ <<"lib", "q", "B">> :> {File(GoodB)}),
         ImportPre) : m \in ImportMains, b \in ImportBs }
    \cup {[aidl |-> NoFiles, preprocessed |-> ImportPre]}

ImportInvocations ==
  {Options(pre, <<"work", "IA">>) : pre \in {<<>>, <<"fw">>, <<"more", "fw">>, <<"nowhere">>}}

ImportSituations == With(ImportInvocations, ImportDisks)

-----------------------------------------------------------------------------
(* checks: what the methods of the main file declare.                      *)

Types ==
  { Void, AnInt, Ref(B), Ref(<<"B">>), Ref(<<"IC">>), Ref(<<"List">>),
    Ref(<<"Map">>), Ref(<<"Object">>), Ref(<<"event">>), Ref(<<"nowhere">>),
    ListOf(B), ListOf(<<"nowhere">>), ArrayOf(<<"int">>, 1),
    ArrayOf(<<"int">>, 2), ArrayOf(IC, 1), [Void EXCEPT !.star = TRUE] }

Directions == {"", "in", "out", "inout"}

\* Any return type; any argument of a method and of an event.
OneMethod ==
  {<<AMethod("f", t, <<AnArg("in", AnInt)>>)>> : t \in Types}
    \cup {<<AMethod("f", t, <<AnArg(d, a)>>)>> :
            t \in {Void, Ref(<<"event">>)}, d \in Directions, a \in Types}

\* References to lists, spelled in different ways and in different orders,
\* methods with the same name, and an argument named by a keyword.
TwoMethods ==
  { <<AMethod("f", Void, <<AnArg("in", a)>>), AMethod(n, b, <<AnArg("in", a)>>)>> :
      n \in {"f", "g"},
      a, b \in {ListOf(B), ListOf(<<"B">>), Ref(<<"List">>), ListOf(IC)} }
    \cup {<<AMethod("f", Void, <<[AnArg("in", AnInt) EXCEPT !.keyword = TRUE]>>)>>}

CheckDocuments ==
  { <<AnItem(kind, <<"p">>, <<"IA">>, ms)>> : kind \in {"BINDER", "RPC"},
      ms \in OneMethod \cup TwoMethods }
    \cup { <<Interface(<<"p">>, "IA", <<UsesB>>), item>> :
             item \in { Interface(<<"p">>, "IA", <<UsesB>>), Parcelable(<<"p">>, "IA"),
                        Parcelable(<<>>, "IA"),
                        AnItem("USER_DATA", <<"p">>, <<"IA", "Stub">>, <<>>) } }
    \cup {<<Interface(<<"java", "lang">>, "Object", <<>>)>>}

ImportedB == File(Text(<<>>, <<Flattenable(<<"q">>, "B")>>))
ImportedIC == File(Text(<<>>, <<Interface(<<"q">>, "IC", <<>>)>>))

CheckDisks ==
  { Disk(File(Text(<<B, IC>>, doc)),
         <<"inc", "q", "B">> :> ImportedB @@ <<"inc", "q", "IC">> :> ImportedIC,
         NoPreprocessed) : doc \in CheckDocuments }

CheckInvocations ==
  { [Options(<<>>, <<"work", "IA">>) EXCEPT !.autoDepFile = FALSE] }

-----------------------------------------------------------------------------
(* outputs: what is compiled and where the result goes.                    *)

OutputDisks ==
  { Disk(File(Text(<<>>, <<item>>)), NoFiles, NoPreprocessed) :
      item \in { AnItem(kind, package, <<"IA">>, <<>>) :
                   kind \in {"BINDER", "RPC", "USER_DATA"}, package \in {<<"p">>, <<>>} } }

OutputInvocations ==
  { [Options(<<>>, out) EXCEPT !.outputBaseFolder = IF out = <<>> THEN <<"work">> ELSE <<>>,
       !.autoDepFile = auto, !.depFileName = d, !.failOnParcelable = fail] :
      out \in {<<>>, <<"IA">>, <<"-">>, <<"work", "IA">>},
      auto, fail \in BOOLEAN, d \in {<<>>, <<"work", "more">>} }

\* The same, of a file whose name merely ends like that of the interface.
MisplacedDisks ==
  { [aidl |-> [f \in {<<"src", "p", "MyIA">>} |-> File(Text(<<>>, <<item>>))],
     preprocessed |-> NoPreprocessed] :
      item \in {Interface(package, "IA", <<>>) : package \in {<<"p">>, <<>>}} }

MisplacedInvocations ==
  {[o EXCEPT !.input = <<"src", "p", "MyIA">>] : o \in OutputInvocations}

MisplacedSituations == With(MisplacedInvocations, MisplacedDisks)
OutputSituations == With(OutputInvocations, OutputDisks)

-----------------------------------------------------------------------------
(* preprocessed: what the files of the -p options say.                     *)

PreprocessedLines ==
  { AComment, ABlank, ALine("parcelable", B), ALine("flattenable", B),
    ALine("interface", IC), ALine("interface", <<"p", "IA">>),
    ALine("parcelable", <<"p", "IA">>),
    ALine("parcelable", IC \o <<"Stub">>), ALine("other", B) }

\* A class that an interface of the -p files may bring, or may not.
IAStub == <<"p", "IA", "Stub">>

PreprocessedMains ==
  { File(Text(<<B, IC>>, <<MainItem>>)),
    File(Text(<<B, IAStub>>, <<Interface(<<"p">>, "IA", <<UsesB>>)>>)) }

PreprocessedDisks ==
  { Disk(m, <<"inc", "q", "B">> :> ImportedB @@ <<"inc", "q", "IC">> :> ImportedIC
              @@ <<"inc">> \o IAStub :> File(Text(<<>>, <<Parcelable(<<"p", "IA">>, "Stub")>>)),
         [fw |-> fw, more |-> <<ALine("interface", IC)>>]) :
      m \in PreprocessedMains, fw \in SeqOf(PreprocessedLines, 3) }

PreprocessedInvocations ==
  { [Options(pre, <<"work", "IA">>) EXCEPT !.autoDepFile = FALSE] :
      pre \in {<<"fw">>, <<"more", "fw">>} }

\* Without empty lines, whose meaning is left to the buffers of the call.
PlainDisks ==
  { d \in PreprocessedDisks : ABlank \notin ToSet(d.preprocessed.fw) }

PreprocessedSituations == With(PreprocessedInvocations, PreprocessedDisks)
PlainSituations == With(PreprocessedInvocations, PlainDisks)

-----------------------------------------------------------------------------
\* Everything that does not depend on an empty line or on a missing file.
MeaningSituations ==
  With(CheckInvocations, CheckDisks) \cup OutputSituations \cup MisplacedSituations
    \cup PlainSituations

=============================================================================
