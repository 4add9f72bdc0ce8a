----------------------------- MODULE ParseContract -----------------------------
(***************************************************************************)
(* What parsing a file promises, said of the file and of what the          *)
(* callbacks were given: the document is written back as text.             *)
(***************************************************************************)
EXTENDS ParseFile

CONSTANT WellFormed   \* the files among Files that follow the grammar

ASSUME WellFormedAssumption == WellFormed \subseteq Files

-----------------------------------------------------------------------------
(* The text of a document, and the positions it took its words from.       *)

TypeMarks(t) == IF t.array = 0 THEN <<t.type>> ELSE <<t.type, t.array>>

ArgMarks(a) ==
  (IF a.direction = 0 THEN <<>> ELSE <<a.direction>>) \o TypeMarks(a.type) \o <<a.name>>

Text(marks) == [k \in DOMAIN marks |-> file[marks[k]]]

\* The argument with what is before it.
ArgText(args, k) == (IF k > 1 THEN <<",">> ELSE <<>>) \o Text(ArgMarks(args[k]))

ArgsText(args) == FlattenSeq([k \in DOMAIN args |-> ArgText(args, k)])

MethodText(m) ==
  (IF m.oneway THEN <<"ONEWAY">> ELSE <<>>) \o Text(TypeMarks(m.type))
    \o <<file[m.name], "(">> \o ArgsText(m.args) \o <<")", ";">>

KindText(kind) ==
  IF kind = "binder" THEN <<"INTERFACE">>
  ELSE IF kind = "rpc" THEN <<"RPC">> ELSE <<"ONEWAY", "INTERFACE">>

MethodsText(methods) == FlattenSeq([k \in DOMAIN methods |-> MethodText(methods[k])])

ItemText(item) ==
  IF item.kind = "parcelable" THEN <<"PARCELABLE", file[item.name], ";">>
  ELSE IF item.kind = "flattenable" THEN <<"FLATTENABLE", file[item.name], ";">>
  ELSE KindText(item.kind) \o <<file[item.name], "{">> \o MethodsText(item.items) \o <<"}">>

ItemsText(items) == FlattenSeq([k \in DOMAIN items |-> ItemText(items[k])])

PackageText == IF package = 0 THEN <<>> ELSE <<"PACKAGE">>

DocumentText == PackageText \o Text(gImports) \o ItemsText(document)

MethodMarks(m) ==
  TypeMarks(m.type) \o <<m.name>>
    \o FlattenSeq([k \in DOMAIN m.args |-> ArgMarks(m.args[k])])

ItemMarks(item) ==
  <<item.name>> \o IF "items" \in DOMAIN item
                     THEN FlattenSeq([k \in DOMAIN item.items |-> MethodMarks(item.items[k])])
                     ELSE <<>>

DocumentMarks ==
  gImports \o FlattenSeq([k \in DOMAIN document |-> ItemMarks(document[k])])

\* What a lexeme is in: a comment or a block, which ends at its own end whatever
\* else is in it, or neither.  What the file before did not end goes on in this one.
Within(k, state) ==
  CASE state = "INITIAL" -> IF file[k] = "/*" THEN "LONG_COMMENT"
                            ELSE IF file[k] = "%%{" THEN "COPYING" ELSE "INITIAL"
    [] state = "LONG_COMMENT" -> IF file[k] = "*/" THEN "INITIAL" ELSE state
    [] state = "COPYING" -> IF file[k] = "}%%" THEN "INITIAL" ELSE state

WithinStep(k) == [state \in LexStates |-> Within(k, state)]

WithinUpto ==
  LET after[k \in 0..Len(file)] == IF k = 0 THEN started ELSE WithinStep(k)[after[k - 1]]
  IN  after

\* What is written in the file besides comments and blocks to copy.
IsWritten(k) ==
  WithinUpto[k - 1] = "INITIAL" /\ WithinUpto[k] = "INITIAL" /\ file[k] # "//"

WrittenUpto(n) == FlattenSeq([k \in 1..n |-> IF IsWritten(k) THEN <<k>> ELSE <<>>])

Written == WrittenUpto(Len(file))

\* All that is written, each declaration in the package of the file.
Whole ==
  /\ DocumentText = Text(Written)
  /\ \A k \in DOMAIN document : document[k].package = package

Adjacent(a, b) ==
  \E k \in 2..Len(Written) : file[Written[k - 1]] \in a /\ file[Written[k]] = b

\* What gets lost without an error: a declaration without a name, what comes
\* after a comma before the first argument, and what follows a block to copy.
Slip ==
  \/ Adjacent({"PARCELABLE", "FLATTENABLE"}, ";") \/ Adjacent({"("}, ",")
  \/ \E k \in 1..(Len(file) - 1) : file[k] = "}%%" /\ WithinUpto[k - 1] = "COPYING"

\* All is right but that the name of a declaration is missing.
Nameless ==
  \E k \in DOMAIN file :
    /\ file[k] \in {"PARCELABLE", "FLATTENABLE"}
    /\ InsertAt(file, k + 1, "IDENTIFIER") \in WellFormed

(* Properties.                                                             *)

TypeOK ==
  /\ file \in Files /\ started \in LexStates /\ lex \in LexStates /\ read \in 0..(Len(file) + 1)
  /\ status \in 0..3
  /\ phase \in {"parsing", "recovering", "accepted", "aborted"}
  /\ gError \in BOOLEAN /\ package \in 0..Len(file)
  /\ \A k \in DOMAIN gImports : gImports[k] \in DOMAIN file
  /\ called \in 0..1
  /\ stack # <<>> /\ \A k \in DOMAIN stack : stack[k].state \in DOMAIN Tables

\* No file that follows the grammar is refused, by a conflict bison resolved
\* the other way for instance.
WellFormedAccepted == Ended /\ file \in WellFormed => ~Failed

\* What the parser does not report it has not lost: without an error the
\* callbacks got the whole file, but for the slips.
NothingLost == Ended /\ ~Failed /\ ~Slip => Whole

\* "true if there was an error parsing, false otherwise" (aidl_language.h:152, of
\* g_error): also after a declaration without a name, which y.y itself calls a
\* syntax error where it drops it.
NamelessReported == Ended /\ started = "INITIAL" /\ Nameless => Failed

\* Imports, declarations, methods and arguments stay in the order of the file,
\* whatever was dropped in between; the list of imports is built back to front,
\* from the last statement on.
InSourceOrder ==
  \A j, k \in DOMAIN DocumentMarks : j < k => DocumentMarks[j] < DocumentMarks[k]

\* The document callback runs once, or parse_aidl returns an error: g_document
\* then is that of another file, and only the error says so.
DocumentGiven == Ended => IF Failed THEN called <= 1 ELSE called = 1

\* Whatever the file, the parser comes to its end: error recovery moves on.
Termination == <>Ended

=============================================================================
