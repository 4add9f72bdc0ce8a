------------------------------- MODULE Compiler -------------------------------
(***************************************************************************)
(* What one run of the compiler promises, without saying how: it decides   *)
(* whether the input is valid before it writes anything, rejects an        *)
(* invalid input leaving no file behind, and for a valid one writes the    *)
(* files that were asked for.                                              *)
(***************************************************************************)
VARIABLES
  phase,       \* "reading", "writing", and then "ok" or "failed"
  files,       \* the files written
  valid,       \* the input obeys the rules of the language
  supported,   \* the back end has a translation for it
  wanted,      \* the files the options ask for
  fault        \* the environment has kept a file from being opened or read

Init == phase = "reading" /\ files = {}

\* The only way to the outputs.
Accept ==
  /\ phase = "reading" /\ phase' = "writing"
  /\ valid
  /\ files' = files

\* A rejected input leaves nothing behind.
Reject ==
  /\ phase = "reading" /\ phase' = "failed"
  /\ ~valid \/ fault
  /\ files' = files

Write ==
  /\ phase = "writing"
  /\ files \subseteq files' /\ files' \subseteq wanted
  /\ phase' = phase

\* Success means that everything asked for is there, unless the environment
\* kept a file from being written.
Finish ==
  /\ phase = "writing"
  /\ files \subseteq files' /\ files' \subseteq wanted
  /\ files' = wanted \/ fault'
  /\ phase' = "ok"

\* A run that has accepted its input stops early only when the back end has
\* no translation or the environment refuses a file.
Abandon ==
  /\ phase = "writing" /\ phase' = "failed"
  /\ ~supported \/ fault'
  /\ files' = files

Next == Accept \/ Reject \/ Write \/ Finish \/ Abandon

Spec == Init /\ [][Next]_<<phase, files>>

=============================================================================
