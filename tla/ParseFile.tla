------------------------------ MODULE ParseFile ------------------------------
(***************************************************************************)
(* parse_aidl on one file: the loop of the parser bison makes of the       *)
(* grammar, with its error recovery, the actions of the grammar, and the   *)
(* callbacks of compile_aidl.                                              *)
(*                                                                         *)
(* A file is a sequence of lexemes: tokens, the two ends of a comment and  *)
(* of a block to copy, a comment to the end of the line, and characters    *)
(* that belong nowhere, which the scanner passes off as identifiers.  What *)
(* an action takes from a token is the token, so a value is its position.  *)
(***************************************************************************)
EXTENDS Grammar

CONSTANT Files     \* the files considered

Lexemes == Tokens \cup {"/*", "*/", "//", "%%{", "}%%", "UNKNOWN"}

ASSUME FilesAssumption == \A f \in Files : f \in Seq(Lexemes)

VARIABLES
  file,
  started,     \* the start condition the file before left the scanner in
  lex,         \* the start condition
  read,        \* the position of the last token yylex returned
  lookahead,   \* yychar: <<>> for YYEMPTY, else a token and its position
  stack,       \* the states and semantic values, the first one at the bottom
  status,      \* yyerrstatus
  phase,       \* "parsing", "recovering" (yyerrlab1), "accepted", "aborted"
  gError,      \* g_error
  package,     \* g_currentPackage: the PACKAGE token, 0 for NULL
  gImports,    \* g_imports: the IMPORT tokens, the head first
  called,      \* how often the document callback ran
  document     \* g_document

vars == <<file, started, lex, read, lookahead, stack, status, phase, gError, package,
          gImports, called, document>>

Absent == [kind |-> "null"]   \* the NULL of the error productions

Top == Last(stack)
Token == lookahead[1].token

\* The start conditions; flex keeps the one a file is left in for the next file.
LexStates == {"INITIAL", "LONG_COMMENT", "COPYING"}

TokenAt(p) ==
  IF p > Len(file) THEN "EOF"
  ELSE IF file[p] = "UNKNOWN" THEN "IDENTIFIER" ELSE file[p]

\* Plausible bug, for the mutation runs: the pattern for stars in a comment
\* takes the end of the comment as well.
ScannedStars(p, state) ==
  CASE state = "INITIAL" -> IF file[p] = "/*" THEN "LONG_COMMENT"
                            ELSE IF file[p] = "%%{" THEN "COPYING" ELSE state
    [] state = "LONG_COMMENT" -> state
    [] state = "COPYING" -> IF file[p] = "}%%" /\ p = Len(file) THEN "INITIAL" ELSE state

\* The start condition after a lexeme: in a comment only its end counts.  A block
\* to copy ends with the file only: the pattern for a whole line is longer than
\* that for its end.
Scanned(p, state) ==
  CASE state = "INITIAL" -> IF file[p] = "/*" THEN "LONG_COMMENT"
                            ELSE IF file[p] = "%%{" THEN "COPYING" ELSE state
    [] state = "LONG_COMMENT" -> IF file[p] = "*/" THEN "INITIAL" ELSE state
    [] state = "COPYING" -> IF file[p] = "}%%" /\ p = Len(file) THEN "INITIAL" ELSE state

\* The same, as a function of the start condition before.
ScanStep(p) == [state \in LexStates |-> Scanned(p, state)]

\* The start conditions after each lexeme from p on.
ScannedFrom(p, state) ==
  LET after[q \in (p - 1)..Len(file)] ==
        IF q < p THEN state ELSE ScanStep(q)[after[q - 1]]
  IN  after

\* Where the next token is, and the start condition after it.
NextToken ==
  LET after == ScannedFrom(read + 1, lex)
      tokens == {q \in (read + 1)..Len(file) :
                   /\ after[q - 1] = "INITIAL" /\ after[q] = "INITIAL"
                   /\ file[q] # "//"}
  IN  IF tokens = {} THEN [at |-> Len(file) + 1, lex |-> after[Len(file)]]
      ELSE [at |-> Min(tokens), lex |-> "INITIAL"]

\* Where no comment or block has begun, the characters of its end would be other
\* lexemes.
EndsBegun ==
  LET after == ScannedFrom(1, started)
  IN  \A q \in DOMAIN file : file[q] \in {"*/", "}%%"} => after[q - 1] # "INITIAL"

Init ==
  /\ file \in Files /\ started \in LexStates /\ EndsBegun /\ lex = started
  /\ read = 0 /\ lookahead = <<>>
  /\ stack = <<[state |-> Start, value |-> 0]>>
  /\ status = 0 /\ phase = "parsing" /\ gError = FALSE
  /\ package = 0 /\ gImports = <<>> /\ called = 0 /\ document = <<>>

-----------------------------------------------------------------------------
(* The actions.  v is the sequence of the values of the right side.        *)

\* Plausible bug, for the mutation runs: an argument goes to the front.
AppendArgFirst(args, arg) == <<arg>> \o args

\* arg_list ',' arg: nothing is appended to a list that is NULL, which is what
\* an error leaves, and also what the empty list is.
AppendArg(args, arg) == IF args = <<>> THEN args ELSE Append(args, arg)

Method(oneway, type, name, args) ==
  [kind |-> "method", oneway |-> oneway, type |-> type, name |-> name, args |-> args]

Value(does, v) ==
  CASE does = "no_items" -> <<>>
    [] does = "append_item" -> IF v[2] = Absent THEN v[1] ELSE Append(v[1], v[2])
    [] does = "first" -> v[1]
    [] does \in {"null", "nothing", "document", "import"} -> Absent
    [] does \in {"parcelable", "flattenable"} ->
         [kind |-> does, name |-> v[2], package |-> package]
    [] does \in {"binder", "oneway_binder", "rpc"} -> does
    [] does = "interface" ->
         [kind |-> v[1], name |-> v[2], package |-> package, items |-> v[4]]
    [] does = "method" -> Method(FALSE, v[1], v[2], v[4])
    [] does = "oneway_method" -> Method(TRUE, v[2], v[3], v[5])
    [] does = "one_arg" -> <<v[1]>>
    [] does = "append_arg" -> AppendArg(v[1], v[3])
    [] does = "arg" -> [direction |-> v[1], type |-> v[2], name |-> v[3]]
    [] does = "no_direction" -> 0
    [] does = "plain" -> [type |-> v[1], array |-> 0]
    [] does = "array" -> [type |-> v[1], array |-> v[2]]

\* Plausible bug, for the mutation runs: a file with headers is not handed over.
CallbacksHeaderless(rule, v) ==
  /\ gImports' = IF rule.does = "import" THEN <<v[1]>> \o gImports ELSE gImports
  /\ IF rule.does = "document" /\ Len(v) = 1
       THEN called' = called + 1 /\ document' = Last(v)
       ELSE UNCHANGED <<called, document>>

\* The callbacks the action of a rule makes: main_import_parsed puts the import
\* in front of g_imports, main_document_parsed keeps the items.
Callbacks(rule, v) ==
  /\ gImports' = IF rule.does = "import" THEN <<v[1]>> \o gImports ELSE gImports
  /\ IF rule.does = "document"
       THEN called' = called + 1 /\ document' = Last(v)
       ELSE UNCHANGED <<called, document>>

(* The loop of yyparse.  here is what the tables say for the state on top. *)

\* yylex, when the state needs a token; a package statement sets the package
\* as soon as it is scanned.
ReadToken(here) ==
  /\ phase = "parsing" /\ lookahead = <<>> /\ ~here.consistent
  /\ read' = NextToken.at /\ lex' = NextToken.lex
  /\ lookahead' = <<[token |-> TokenAt(read'), at |-> read']>>
  /\ package' = IF TokenAt(read') = "PACKAGE" THEN read' ELSE package
  /\ UNCHANGED <<file, started, stack, status, phase, gError, gImports, called, document>>

\* Plausible bug, for the mutation runs: the count goes on below zero.
ShiftBelow(here) ==
  /\ phase = "parsing" /\ lookahead # <<>> /\ Token \in DOMAIN here.goto \ {"EOF"}
  /\ stack' = Append(stack, [state |-> here.goto[Token], value |-> lookahead[1].at])
  /\ lookahead' = <<>> /\ status' = status - 1
  /\ UNCHANGED <<file, started, lex, read, phase, gError, package, gImports, called, document>>

Shift(here) ==
  /\ phase = "parsing" /\ lookahead # <<>> /\ Token \in DOMAIN here.goto \ {"EOF"}
  /\ stack' = Append(stack, [state |-> here.goto[Token], value |-> lookahead[1].at])
  /\ lookahead' = <<>>
  /\ status' = IF status > 0 THEN status - 1 ELSE 0
  /\ UNCHANGED <<file, started, lex, read, phase, gError, package, gImports, called, document>>

Accept(here) ==
  /\ phase = "parsing" /\ lookahead # <<>> /\ Token = "EOF" /\ "EOF" \in DOMAIN here.goto
  /\ phase' = "accepted"
  /\ UNCHANGED <<file, started, lex, read, lookahead, stack, status, gError, package, gImports,
                 called, document>>

\* Plausible bug, for the mutation runs: between shifting a token and reducing
\* by an empty rule, the rule is taken.
ChosenReduction(here) ==
  IF here.consistent THEN here.reduces["EOF"]
  ELSE IF lookahead = <<>> THEN 0
  ELSE here.reduces[Token]

\* The rule to reduce by, 0 for none.
Chosen(here) ==
  IF here.consistent THEN here.reduces["EOF"]
  ELSE IF lookahead = <<>> \/ Token \in DOMAIN here.goto THEN 0
  ELSE here.reduces[Token]

Reduce(here) ==
  /\ phase = "parsing"
  /\ \E r \in {Chosen(here)} \ {0} :
       LET rule == Rules[r]
           length == Len(rule.rhs)
           v == [k \in 1..length |-> stack[Len(stack) - length + k].value]
           below == SubSeq(stack, 1, Len(stack) - length)
       IN  /\ stack' = Append(below, [state |-> Tables[Last(below).state].goto[rule.lhs],
                                      value |-> Value(rule.does, v)])
           /\ Callbacks(rule, v)
  /\ UNCHANGED <<file, started, lex, read, lookahead, status, phase, gError, package>>

\* An error: the state has no action on the token.
Stuck(here) ==
  /\ phase = "parsing" /\ lookahead # <<>> /\ ~here.consistent
  /\ Token \notin DOMAIN here.goto /\ here.reduces[Token] = 0

\* yyerrlab: yyerror, unless the parser is recovering from an error.
Error(here) ==
  /\ Stuck(here) /\ status < 3
  /\ gError' = (gError \/ status = 0)
  /\ phase' = "recovering"
  /\ UNCHANGED <<file, started, lex, read, lookahead, stack, status, package, gImports, called,
                 document>>

\* Plausible bug, for the mutation runs: the token is tried again.
DiscardNothing(here) ==
  /\ Stuck(here) /\ status = 3
  /\ IF Token = "EOF" THEN phase' = "aborted" ELSE phase' = "recovering"
  /\ UNCHANGED <<file, started, lex, read, lookahead, stack, status, gError, package, gImports, called,
                 document>>

\* yyerrlab, no token has been shifted since the last error: this one is thrown
\* away, and at the end of the file yyparse gives up.
Discard(here) ==
  /\ Stuck(here) /\ status = 3
  /\ IF Token = "EOF" THEN phase' = "aborted" /\ UNCHANGED lookahead
     ELSE phase' = "recovering" /\ lookahead' = <<>>
  /\ UNCHANGED <<file, started, lex, read, stack, status, gError, package, gImports, called, document>>

\* yyerrlab1: states are popped until one can shift the error token.
Recover(here) ==
  /\ phase = "recovering"
  /\ IF "error" \in DOMAIN here.goto
       THEN /\ stack' = Append(stack, [state |-> here.goto["error"], value |-> 0])
            /\ status' = 3 /\ phase' = "parsing"
       ELSE IF Len(stack) = 1
       THEN phase' = "aborted" /\ status' = 3 /\ UNCHANGED stack
       ELSE stack' = Front(stack) /\ status' = 3 /\ UNCHANGED phase
  /\ UNCHANGED <<file, started, lex, read, lookahead, gError, package, gImports, called, document>>

Next ==
  \E here \in {Tables[Top.state]} :
    \/ ReadToken(here) \/ Shift(here) \/ Accept(here) \/ Reduce(here)
    \/ Error(here) \/ Discard(here) \/ Recover(here)

\* The parser is one thread that never waits.
Spec == Init /\ [][Next]_vars /\ WF_vars(Next)

Ended == phase \in {"accepted", "aborted"}

\* What parse_aidl returns, as a Boolean.
Failed == gError \/ phase = "aborted"

=============================================================================
