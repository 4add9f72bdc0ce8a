---------------------------- MODULE MCCommandLine ----------------------------
(***************************************************************************)
(* Command lines for CommandLine: all of up to two arguments of each sort  *)
(* that parse_options tells apart and of up to four of those that build on *)
(* each other; --preprocess runs over every pair of files from a small     *)
(* disk, and with every state of the output file.                          *)
(***************************************************************************)
EXTENDS UsageContract

MCIdent == {"p", "q", "A", "B", "In"} \cup
  UNION {ToSet(t.package \o t.name) : t \in ToSet(RegisteredBaseTypes)} \cup
  {"Stub", "Proxy", "ServiceBase"}

\* "x" stands for the names that are shorter than an extension.
MCChars ==
  [part \in {"-", "I", "d", "a", "p", "o", "b", "z", "x", "preprocess"} |-> 1]
    @@ [part \in {".aidl", ".java"} |-> 5] @@ [part \in {"file", "other"} |-> 6]

AnyArg ==
  {<<>>, <<"-">>, <<"-", "-", "preprocess">>, <<"x">>, <<"file">>, <<".aidl">>,
   <<"file", ".aidl">>, <<"x", ".aidl">>, <<"-", "a">>, <<"-", "a", "x">>,
   <<"-", "b">>, <<"-", "b", "x">>, <<"-", "z">>}
    \cup {<<"-", c>> \o v : c \in {"I", "d", "p", "o"}, v \in {<<>>, <<"x">>, <<"file">>}}

\* The arguments of longer lines.
FewArgs ==
  {<<"-", "I", "x">>, <<"-", "I", "file">>, <<"-", "d", "x">>, <<"-", "o", "x">>,
   <<"-", "p", "x">>, <<"x">>, <<"file", ".aidl">>}

AnItem(kind, name, flattenable) ==
  [kind |-> kind, package |-> <<"p">>, name |-> name, parcelable |-> kind = "USER_DATA",
   flattenable |-> flattenable, methods |-> <<>>]

Text(items) ==
  [imports |-> <<>>, called |-> TRUE, items |-> items, err |-> FALSE, lex |-> "INITIAL"]

\* A text that ends inside a comment, or is read as the rest of one: without
\* the end of a comment in it nothing is left, with one what follows it.
LeftOpen(outcome) == [outcome EXCEPT !.lex = "LONG_COMMENT"]
Swallowed(outcome) == [INITIAL |-> outcome, LONG_COMMENT |-> LeftOpen(Text(<<>>))]
Resumed(outcome) == [s \in LexStates |-> outcome]

\* With the end of a comment between the package and what follows it.
Beheaded(outcome) ==
  [INITIAL |-> outcome,
   LONG_COMMENT |-> [outcome EXCEPT !.items = [k \in DOMAIN @ |-> [@[k] EXCEPT !.package = <<>>]]]]

Texts ==
  { Text(<<AnItem(kind, <<"A">>, FALSE)>>) : kind \in {"USER_DATA", "BINDER", "RPC"} }
    \cup { Text(<<AnItem("USER_DATA", <<"A">>, TRUE)>>),
           Text(<<AnItem("BINDER", <<"A", "In">>, FALSE)>>),
           Text(<<AnItem("USER_DATA", <<"B">>, FALSE), AnItem("BINDER", <<"A">>, FALSE)>>),
           Text(<<>>), [Text(<<AnItem("BINDER", <<"A">>, FALSE)>>) EXCEPT !.err = TRUE],
           [Text(<<>>) EXCEPT !.err = TRUE, !.called = FALSE] }

AClass == Text(<<AnItem("USER_DATA", <<"A">>, FALSE)>>)

FirstFiles == {Resumed(t) : t \in Texts} \cup {Resumed(LeftOpen(AClass))}
SecondFiles ==
  {Swallowed(t) : t \in Texts}
    \cup {Resumed(Text(<<AnItem("USER_DATA", <<"B">>, FALSE)>>)),
           Beheaded(Text(<<AnItem("BINDER", <<"B">>, FALSE)>>))}

Disk(files) == [aidl |-> files, exists |-> TRUE, opens |-> TRUE, removable |-> TRUE]

PreprocessDisks ==
  {Disk(<<"file">> :> f @@ <<"other">> :> g) : f \in FirstFiles, g \in SecondFiles}

OutputDisks ==
  [aidl : {<<"file">> :> Resumed(t) @@ <<"other">> :> Resumed(AClass) : t \in {AClass, Text(<<>>)}},
   exists : BOOLEAN, opens : BOOLEAN, removable : BOOLEAN]

\* <<"x">> is not there.
PreprocessLines ==
  {<<<<"-", "-", "preprocess">>, <<"x", ".java">>>> \o names :
     names \in {<<<<"file">>, <<"other">>>>, <<<<"other">>, <<"file">>, <<"other">>>>,
                  <<<<"file">>, <<"x">>>>, <<>>}}

MCSituations ==
  [argv : SeqOf(AnyArg, 2) \cup SeqOf(FewArgs, 4),
   disk : {Disk(<<"file">> :> Resumed(Text(<<>>)))}]
    \cup [argv : PreprocessLines, disk : PreprocessDisks \cup OutputDisks]

=============================================================================
