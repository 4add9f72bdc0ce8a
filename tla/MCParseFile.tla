----------------------------- MODULE MCParseFile -----------------------------
(***************************************************************************)
(* Files for ParseFile: those that follow the grammar, with every header   *)
(* and up to two declarations, and those one edit away from some of them:  *)
(* a token is lost, joined or replaced by another one, or a comment or a    *)
(* character without meaning comes in between.                             *)
(***************************************************************************)
EXTENDS ParseContract

Headers ==
  { <<>>, <<"PACKAGE">>, <<"IMPORT">>, <<"IMPORT", "IMPORT">>,
    <<"PACKAGE", "IMPORT">>, <<"PACKAGE", "IMPORT", "IMPORT">> }

NoArgs == <<"IDENTIFIER", "IDENTIFIER", "(", ")", ";">>
TwoArgs ==
  <<"IDENTIFIER", "ARRAY", "IDENTIFIER", "(", "IN", "GENERIC", "IDENTIFIER", ",",
    "IDENTIFIER", "IDENTIFIER", ")", ";">>
OnewayMethod ==
  <<"ONEWAY", "GENERIC", "IDENTIFIER", "(", "OUT", "IDENTIFIER", "*", "IDENTIFIER", ",",
    "INOUT", "IDENTIFIER", "ARRAY", "IDENTIFIER", ",", "GENERIC", "IDENTIFIER", ")", ";">>

Interface(words, methods) ==
  words \o <<"IDENTIFIER", "{">> \o FlattenSeq(methods) \o <<"}">>

Parcelable == <<"PARCELABLE", "IDENTIFIER", ";">>
Flattenable == <<"FLATTENABLE", "IDENTIFIER", ";">>

Declarations ==
  { Parcelable, Flattenable, Interface(<<"INTERFACE">>, <<NoArgs, TwoArgs>>),
    Interface(<<"ONEWAY", "INTERFACE">>, <<>>), Interface(<<"RPC">>, <<OnewayMethod>>) }

MCWellFormed ==
  {h \o d : h \in Headers,
            d \in {<<>>} \cup Declarations \cup {d \o e : d, e \in Declarations}}

Commented(f) ==
  UNION {{InsertAt(f, k, "//"), InsertAt(f, k, "/*")} : k \in 1..(Len(f) + 1)}
    \cup UNION {{InsertAt(InsertAt(f, k, "*/"), j, "/*") : j \in 1..k} : k \in 1..(Len(f) + 1)}
    \cup {InsertAt(f, k, "*/") : k \in 1..(Len(f) + 1)}

\* A block to copy, in the middle of a file and at its end.
Copied(f) ==
  {InsertAt(InsertAt(f, k, "}%%"), k, "%%{") : k \in {1, 3, Len(f) + 1}}
    \cup {InsertAt(f, k, "%%{") : k \in {1, 3}}

\* A block that begins in a comment, and a comment that begins in a block, do not.
Nested(f) ==
  {InsertAt(InsertAt(InsertAt(f, k, "*/"), k, "%%{"), k, "/*") : k \in {1, 3, Len(f) + 1}}
    \cup {f \o <<"%%{", "/*", "}%%">>}

\* The files that are edited.
Drafts ==
  { <<"PACKAGE", "IMPORT">> \o Parcelable,
    Flattenable \o Interface(<<"RPC">>, <<>>) \o Parcelable,
    Interface(<<"INTERFACE">>, <<TwoArgs, NoArgs>>) \o Parcelable }

Deleted(f) == {RemoveAt(f, k) : k \in DOMAIN f}
Inserted(f) == {InsertAt(f, k, t) : k \in 1..(Len(f) + 1), t \in Tokens \cup {"UNKNOWN"}}
Replaced(f) == {ReplaceAt(f, k, t) : k \in DOMAIN f, t \in Tokens}

Edited ==
  UNION {Deleted(f) \cup Inserted(f) \cup Replaced(f) \cup Commented(f) \cup Copied(f)
           \cup Nested(f) : f \in Drafts}

MCFiles == MCWellFormed \cup Edited

=============================================================================
