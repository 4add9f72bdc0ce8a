------------------------------ MODULE Products ------------------------------
(***************************************************************************)
(* The arguments a method can be called with.                              *)
(***************************************************************************)
EXTENDS Sequences

\* The tuples with a component from each of a sequence of sets.  A component
\* carries its position, so that TLC compares only values of one type.
Tuples(sets) ==
  LET placed == UNION {{k} \X sets[k] : k \in DOMAIN sets}
      inPlace == {t \in [DOMAIN sets -> placed] : \A k \in DOMAIN sets : t[k][1] = k}
  IN  {[k \in DOMAIN sets |-> t[k][2]] : t \in inPlace}

=============================================================================
