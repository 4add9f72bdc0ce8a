---------------------------- MODULE SequenceLemmas ----------------------------
(***************************************************************************)
(* What several of the proof modules need about numbers and sequences:     *)
(* induction over a set of numbers, what a recursive function over an      *)
(* interval is, parts one after the other, and tuples.                     *)
(***************************************************************************)
EXTENDS Products, Integers, SequencesExt, SequenceTheorems, NaturalsInduction,
        WellFoundedInduction, TLAPS

(* Induction.  The induction theorems of the library take a predicate, which *)
(* no prover here can instantiate; a set of numbers stands for it.           *)

\* A set of numbers that has zero, and every successor, has all.
LEMMA AllNumbers ==
  ASSUME NEW N \in SUBSET Nat, 0 \in N, \A n \in N : n + 1 \in N
  PROVE  N = Nat
<1> DEFINE Others == Nat \ N
<1>1. SUFFICES ASSUME Others # {} PROVE FALSE
  OBVIOUS
<1>2. \E n \in Others : \A k \in Others : ~(k < n)
  <2> DEFINE R == OpToRel(<, Nat)
  <2>1. IsWellFoundedOn(R, Nat)
    BY NatLessThanWellFounded
  <2>2. Others \subseteq Nat
    OBVIOUS
  <2>3. PICK n \in Others : \A k \in Others : ~(<<k, n>> \in R)
    <3> HIDE DEF R, Others
    <3>1. QED
      BY <1>1, <2>1, <2>2, WFMin
  <2>4. \A k \in Others : ~(k < n)
    BY <2>2, <2>3 DEF OpToRel
  <2>5. QED
    BY <2>4
<1>3. PICK n \in Others : \A k \in Others : ~(k < n)
  BY <1>2
<1>4. n \in Nat /\ n # 0 /\ n - 1 \in Nat /\ n - 1 < n
  OBVIOUS
<1>5. n - 1 \in N
  BY <1>3, <1>4
<1>6. (n - 1) + 1 = n
  BY <1>4
<1>7. QED
  BY <1>5, <1>6

\* A recursive function over an interval: each value is a step from the one before.
Steps(f, n, X, base, step) ==
  f \in [0..n -> X] /\ f[0] = base /\ \A k \in 1..n : f[k] = step[k][f[k - 1]]

\* There is one.
LEMMA Recursion ==
  ASSUME NEW n \in Nat, NEW X, NEW base \in X, NEW step \in [1..n -> [X -> X]]
  PROVE  \E f : Steps(f, n, X, base, step)
<1> DEFINE Upto(f, m) == /\ f \in [0..m -> X] /\ f[0] = base
                         /\ \A k \in 1..m : f[k] = step[k][f[k - 1]]
           Reached(m) == \E f : Upto(f, m)
           N == {m \in Nat : m <= n => Reached(m)}
<1>1. Reached(0)
  <2> DEFINE g == [k \in 0..0 |-> base]
  <2>1. g \in [0..0 -> X] /\ g[0] = base /\ 1..0 = {}
    OBVIOUS
  <2> HIDE DEF g
  <2>2. Upto(g, 0)
    BY <2>1
  <2>3. QED
    BY <2>2, Zenon
<1>2. ASSUME NEW m \in Nat, m + 1 <= n, Reached(m) PROVE Reached(m + 1)
  <2>1. PICK f : Upto(f, m)
    BY <1>2, Zenon
  <2> DEFINE g == [k \in 0..(m + 1) |-> IF k <= m THEN f[k] ELSE step[k][f[m]]]
  <2>2. m \in 0..m /\ m + 1 \in 1..n
    BY <1>2
  <2>3. f[m] \in X /\ step[m + 1][f[m]] \in X
    BY <2>1, <2>2
  <2>4. g \in [0..(m + 1) -> X] /\ g[m + 1] = step[m + 1][f[m]] /\ \A k \in 0..m : g[k] = f[k]
    BY <2>1, <2>2, <2>3
  <2> HIDE DEF g
  <2>5. ASSUME NEW k \in 1..m PROVE g[k] = step[k][g[k - 1]]
    <3>1. k \in 0..m /\ k - 1 \in 0..m
      OBVIOUS
    <3>2. QED
      BY <2>1, <2>4, <3>1
  <2>6. g[m + 1] = step[m + 1][g[(m + 1) - 1]]
    BY <2>2, <2>4
  <2>7. \A k \in 1..(m + 1) : g[k] = step[k][g[k - 1]]
    BY <2>5, <2>6
  <2>8. g[0] = base
    BY <2>1, <2>4
  <2>9. Upto(g, m + 1)
    BY <2>4, <2>7, <2>8
  <2>10. QED
    BY <2>9, Zenon
<1> HIDE DEF Reached
<1>3. N = Nat
  <2>1. N \in SUBSET Nat
    OBVIOUS
  <2>2. 0 \in N
    BY <1>1
  <2>3. ASSUME NEW m \in N PROVE m + 1 \in N
    BY <1>2
  <2> HIDE DEF N
  <2>4. QED
    BY <2>1, <2>2, <2>3, AllNumbers
<1>4. Reached(n)
  BY <1>3
<1>5. QED
  BY <1>4 DEF Reached, Steps

\* A nonempty set of natural numbers has a least element, which Min names.
LEMMA MinOfNaturals ==
  ASSUME NEW I, I \subseteq Nat, I # {}
  PROVE  /\ Min(I) \in I
         /\ \A k \in I : Min(I) <= k
<1>1. IsWellFoundedOn(OpToRel(<, Nat), Nat)
  BY NatLessThanWellFounded
<1>2. PICK m \in I : \A k \in I : <<k, m>> \notin OpToRel(<, Nat)
  BY <1>1, WFMin, Zenon
<1>3. \A k \in I : ~(k < m)
  BY <1>2, Zenon DEF OpToRel
<1>4. \A k \in I : m <= k
  BY <1>3
<1>5. QED
  BY <1>4 DEF Min

\* The greatest number of a set.
LEMMA MaxOfInterval ==
  ASSUME NEW n \in Nat, NEW I, I \subseteq 1..n, I # {}
  PROVE  Max(I) \in I
<1> DEFINE D == {n - k : k \in I}
<1>1. D \subseteq Nat /\ D # {}
  <2>1. \A k \in I : n - k \in Nat
    OBVIOUS
  <2>2. PICK k \in I : TRUE
    OBVIOUS
  <2>3. n - k \in D
    OBVIOUS
  <2>4. QED
    BY <2>1, <2>3
<1>2. Min(D) \in D /\ \A d \in D : Min(D) <= d
  <2> HIDE DEF D
  <2>1. QED
    BY <1>1, MinOfNaturals
<1>3. PICK m \in I : Min(D) = n - m
  BY <1>2
<1>4. \A k \in I : m >= k
  <2>1. ASSUME NEW k \in I PROVE m >= k
    <3>1. n - k \in D
      OBVIOUS
    <3>2. n - m <= n - k
      BY <1>2, <1>3, <3>1, Zenon
    <3>3. m \in Nat /\ k \in Nat
      OBVIOUS
    <3>4. QED
      BY <3>2, <3>3
  <2>2. QED
    BY <2>1
<1>5. QED
  BY <1>4, Zenon DEF Max

-----------------------------------------------------------------------------
\* Words are parts in a row: they are the parts from i on, up to the one before e, one
\* after the other: the rest from a part on is the part and the rest from the
\* next one on.  The rests stand here instead of a recursive definition, so that most
\* facts about them need no induction.
Rests(rests, parts, i, e, S) ==
  /\ rests \in [i..e -> Seq(S)] /\ rests[e] = <<>>
  /\ \A k \in i..(e - 1) : rests[k] = parts[k] \o rests[k + 1]

Joined(words, parts, i, e, S) ==
  \E rests : Rests(rests, parts, i, e, S) /\ words = rests[i]

\* Joined words are words.
LEMMA JoinedWords ==
  ASSUME NEW S, NEW parts, NEW i \in Int, NEW e \in Int, i <= e,
         NEW words, Joined(words, parts, i, e, S)
  PROVE  words \in Seq(S)
BY DEF Joined, Rests

\* No parts, no words.
LEMMA JoinNone ==
  ASSUME NEW S, NEW parts, NEW i \in Int
  PROVE  Joined(<<>>, parts, i, i, S)
<1> DEFINE rests == [k \in i..i |-> <<>>]
<1>1. rests \in [i..i -> Seq(S)] /\ rests[i] = <<>>
  OBVIOUS
<1>2. i..(i - 1) = {}
  OBVIOUS
<1> HIDE DEF rests
<1>3. Rests(rests, parts, i, i, S)
  BY <1>1, <1>2 DEF Rests
<1>4. QED
  BY <1>1, <1>3 DEF Joined

\* A part more at the end.
LEMMA JoinOneMore ==
  ASSUME NEW S, NEW parts, NEW i \in Int, NEW e \in Int, i <= e,
         \A k \in i..e : parts[k] \in Seq(S),
         NEW words, Joined(words, parts, i, e, S)
  PROVE  Joined(words \o parts[e], parts, i, e + 1, S)
<1>1. PICK rests : Rests(rests, parts, i, e, S) /\ words = rests[i]
  BY DEF Joined
<1>2. PICK last \in Seq(S) : last = parts[e]
  OBVIOUS
<1>3. PICK none \in Seq(S) : none = <<>>
  <2>1. <<>> \in Seq(S)
    BY EmptySeq
  <2>2. QED
    BY <2>1, Zenon
<1>4. /\ \A k \in i..e : rests[k] \in Seq(S) /\ rests[k] \o last \in Seq(S)
      /\ rests[e] = none
      /\ \A k \in i..(e - 1) : rests[k] = parts[k] \o rests[k + 1]
  BY <1>1, <1>2, <1>3, ConcatProperties DEF Rests
<1> DEFINE longer == [k \in i..(e + 1) |-> IF k = e + 1 THEN none ELSE rests[k] \o last]
<1>5. longer \in [i..(e + 1) -> Seq(S)]
  BY <1>4
<1>6. longer[e + 1] = none /\ \A k \in i..e : longer[k] = rests[k] \o last
  OBVIOUS
<1> HIDE DEF longer
<1>7. ASSUME NEW k \in i..e PROVE longer[k] = parts[k] \o longer[k + 1]
  <2>1. CASE k = e
    <3>1. longer[k] = none \o last /\ longer[k + 1] = none
      BY <1>4, <1>6, <2>1
    <3>2. none \o last = last /\ last \o none = last
      BY <1>3, ConcatEmptySeq
    <3>3. QED
      BY <1>2, <2>1, <3>1, <3>2
  <2>2. CASE k \in i..(e - 1)
    <3>1. longer[k] = (parts[k] \o rests[k + 1]) \o last
      BY <1>4, <1>6, <2>2
    <3>2. longer[k + 1] = rests[k + 1] \o last /\ k + 1 \in i..e
      BY <1>6, <2>2
    <3>3. parts[k] \in Seq(S) /\ rests[k + 1] \in Seq(S)
      BY <1>4, <3>2
    <3>4. (parts[k] \o rests[k + 1]) \o last = parts[k] \o (rests[k + 1] \o last)
      <4>1. PICK p \in Seq(S), r \in Seq(S) : p = parts[k] /\ r = rests[k + 1]
        BY <3>3
      <4>2. (p \o r) \o last = p \o (r \o last)
        BY ConcatAssociative
      <4>3. QED
        BY <4>1, <4>2
    <3>5. QED
      BY <3>1, <3>2, <3>4
  <2>3. k = e \/ k \in i..(e - 1)
    OBVIOUS
  <2>4. QED
    BY <2>1, <2>2, <2>3
<1>8. (e + 1) - 1 = e
  OBVIOUS
<1>9. Rests(longer, parts, i, e + 1, S)
  BY <1>3, <1>5, <1>6, <1>7, <1>8 DEF Rests
<1>10. words \o last = longer[i]
  BY <1>1, <1>6
<1>11. QED
  BY <1>2, <1>9, <1>10 DEF Joined

\* The first part and what follows it.
LEMMA JoinedFirst ==
  ASSUME NEW S, NEW parts, NEW i \in Int, NEW e \in Int, i < e,
         NEW words, Joined(words, parts, i, e, S)
  PROVE  \E rest \in Seq(S) : words = parts[i] \o rest /\ Joined(rest, parts, i + 1, e, S)
<1>1. PICK rests : Rests(rests, parts, i, e, S) /\ words = rests[i]
  BY DEF Joined
<1> DEFINE shorter == [k \in (i + 1)..e |-> rests[k]]
<1>2. shorter \in [(i + 1)..e -> Seq(S)] /\ \A k \in (i + 1)..e : shorter[k] = rests[k]
  BY <1>1 DEF Rests
<1> HIDE DEF shorter
<1>3. Rests(shorter, parts, i + 1, e, S)
  <2>1. shorter[e] = <<>>
    BY <1>1, <1>2 DEF Rests
  <2>2. \A k \in (i + 1)..(e - 1) : k \in (i + 1)..e /\ k + 1 \in (i + 1)..e /\ k \in i..(e - 1)
    OBVIOUS
  <2>3. \A k \in (i + 1)..(e - 1) : shorter[k] = parts[k] \o shorter[k + 1]
    BY <1>1, <1>2, <2>2 DEF Rests
  <2>4. QED
    BY <1>2, <2>1, <2>3 DEF Rests
<1>4. /\ i \in i..(e - 1) /\ i + 1 \in i..e /\ i + 1 \in (i + 1)..e
  OBVIOUS
<1>5. words = parts[i] \o rests[i + 1] /\ rests[i + 1] \in Seq(S) /\ rests[i + 1] = shorter[i + 1]
  BY <1>1, <1>2, <1>4 DEF Rests
<1>6. Joined(rests[i + 1], parts, i + 1, e, S)
  BY <1>3, <1>5 DEF Joined
<1>7. QED
  BY <1>5, <1>6

\* When every part is read, nothing is left.
LEMMA JoinedAll ==
  ASSUME NEW S, NEW parts, NEW i \in Int, NEW words, Joined(words, parts, i, i, S)
  PROVE  words = <<>>
BY DEF Joined, Rests

\* The function FlattenSeq builds for parts.
Flattens(f, parts) ==
  f = [i \in 1..Len(parts) |-> IF i = 1 THEN parts[i] ELSE f[i - 1] \o parts[i]]

\* There is one.
LEMMA FlattenExists == ASSUME NEW S, NEW parts \in Seq(Seq(S)) PROVE \E f : Flattens(f, parts)
<1> DEFINE Upto(f, n) == f = [i \in 1..n |-> IF i = 1 THEN parts[i] ELSE f[i - 1] \o parts[i]]
           N == {n \in Nat : \E f : Upto(f, n)}
<1>1. 0 \in N
  <2>1. Upto([i \in 1..0 |-> <<>>], 0)
    OBVIOUS
  <2>2. QED
    BY <2>1
<1>2. ASSUME NEW n \in N PROVE n + 1 \in N
  <2>1. PICK f : Upto(f, n)
    OBVIOUS
  <2> DEFINE g == [i \in 1..(n + 1) |->
                     IF i <= n THEN f[i] ELSE IF i = 1 THEN parts[i] ELSE f[n] \o parts[i]]
  <2>2. \A i \in 1..n : g[i] = f[i]
    OBVIOUS
  <2>3. ASSUME NEW i \in 1..(n + 1)
        PROVE  g[i] = IF i = 1 THEN parts[i] ELSE g[i - 1] \o parts[i]
    <3>1. CASE i <= n
      <4>1. g[i] = f[i]
        BY <2>2, <3>1
      <4>2. f[i] = IF i = 1 THEN parts[i] ELSE f[i - 1] \o parts[i]
        <5>1. i \in 1..n
          BY <3>1
        <5>2. QED
          BY <2>1, <5>1
      <4>3. i # 1 => g[i - 1] = f[i - 1]
        BY <2>2, <3>1
      <4>4. QED
        BY <4>1, <4>2, <4>3
    <3>2. CASE i = n + 1
      <4>1. g[i] = IF i = 1 THEN parts[i] ELSE f[n] \o parts[i]
        BY <3>2
      <4>2. i # 1 => g[i - 1] = f[n]
        BY <2>2, <3>2
      <4>3. QED
        BY <4>1, <4>2
    <3>3. QED
      BY <3>1, <3>2
  <2>4. Upto(g, n + 1)
    <3>1. g = [i \in 1..(n + 1) |-> g[i]]
      OBVIOUS
    <3> HIDE DEF g
    <3>2. QED
      BY <2>3, <3>1
  <2> HIDE DEF Upto, g
  <2>5. n \in Nat
    OBVIOUS
  <2>6. QED
    BY <2>4, <2>5
<1>3. N = Nat
  <2>1. N \in SUBSET Nat
    OBVIOUS
  <2> HIDE DEF N
  <2>2. QED
    BY <1>1, <1>2, <2>1, AllNumbers
<1>4. Len(parts) \in N
  <2>1. Len(parts) \in Nat
    BY LenProperties
  <2> HIDE DEF N
  <2>2. QED
    BY <1>3, <2>1
<1>5. PICK f : Upto(f, Len(parts))
  BY <1>4
<1>6. QED
  BY <1>5 DEF Flattens

\* Its last value is what FlattenSeq gives.
LEMMA FlattenSteps ==
  ASSUME NEW S, NEW parts \in Seq(Seq(S)), Len(parts) # 0
  PROVE  \E f : Flattens(f, parts) /\ FlattenSeq(parts) = f[Len(parts)]
<1> DEFINE flatten == CHOOSE f : Flattens(f, parts)
<1>1. Flattens(flatten, parts)
  BY FlattenExists
<1>2. FlattenSeq(parts) = flatten[Len(parts)]
  BY Zenon DEF FlattenSeq, Flattens
<1> HIDE DEF flatten
<1>3. QED
  BY <1>1, <1>2

\* There is one such function.
LEMMA FlattensUnique ==
  ASSUME NEW parts, Len(parts) \in Nat, NEW f, Flattens(f, parts), NEW g, Flattens(g, parts)
  PROVE  f = g
<1> DEFINE Same(n) == n \in 1..Len(parts) => f[n] = g[n]
           N == {n \in Nat : Same(n)}
<1>1. /\ f = [n \in 1..Len(parts) |-> f[n]] /\ g = [n \in 1..Len(parts) |-> g[n]]
      /\ \A n \in 1..Len(parts) :
           /\ f[n] = IF n = 1 THEN parts[n] ELSE f[n - 1] \o parts[n]
           /\ g[n] = IF n = 1 THEN parts[n] ELSE g[n - 1] \o parts[n]
  BY Zenon DEF Flattens
<1>2. Same(0)
  OBVIOUS
<1>3. ASSUME NEW n \in Nat, Same(n) PROVE Same(n + 1)
  <2>1. SUFFICES ASSUME n + 1 \in 1..Len(parts) PROVE f[n + 1] = g[n + 1]
    OBVIOUS
  <2>2. PICK m \in 1..Len(parts) : m = n + 1 /\ m - 1 = n
    BY <2>1
  <2>3. m = 1 \/ n \in 1..Len(parts)
    BY <2>2
  <2>4. CASE m = 1
    <3>1. f[m] = parts[m] /\ g[m] = parts[m]
      BY <1>1, <2>4, Zenon
    <3>2. QED
      BY <2>2, <3>1
  <2>5. CASE m # 1
    <3>1. f[m] = f[m - 1] \o parts[m] /\ g[m] = g[m - 1] \o parts[m]
      BY <1>1, <2>5, Zenon
    <3>2. f[n] = g[n]
      BY <1>3, <2>3, <2>5
    <3>3. QED
      BY <2>2, <3>1, <3>2
  <2>6. QED
    BY <2>4, <2>5
<1>4. \A n \in Nat : Same(n)
  <2> HIDE DEF Same
  <2>1. N \in SUBSET Nat /\ 0 \in N /\ \A n \in N : n + 1 \in N
    BY <1>2, <1>3
  <2>2. N = Nat
    <3> HIDE DEF N
    <3>1. QED
      BY <2>1, AllNumbers
  <2>3. QED
    BY <2>2
<1>5. QED
  BY <1>1, <1>4

\* One more element at the end.
LEMMA OneMoreAtEnd ==
  ASSUME NEW E, NEW s \in Seq(E), NEW x \in E
  PROVE  /\ Append(s, x) \in Seq(E) /\ Len(Append(s, x)) = Len(s) + 1
         /\ Append(s, x)[Len(s) + 1] = x
         /\ \A k \in 1..Len(s) : Append(s, x)[k] = s[k]
OBVIOUS

\* One more part at the end.
LEMMA FlattenOneMore ==
  ASSUME NEW S, NEW parts \in Seq(Seq(S)), NEW x \in Seq(S)
  PROVE  FlattenSeq(Append(parts, x)) = FlattenSeq(parts) \o x
<1> DEFINE more == Append(parts, x)
<1>1. /\ more \in Seq(Seq(S)) /\ Len(more) = Len(parts) + 1 /\ more[Len(parts) + 1] = x
      /\ \A k \in 1..Len(parts) : more[k] = parts[k]
  <2>1. PICK E : E = Seq(S)
    OBVIOUS
  <2>2. parts \in Seq(E) /\ x \in E
    BY <2>1
  <2>3. /\ Append(parts, x) \in Seq(E) /\ Len(Append(parts, x)) = Len(parts) + 1
        /\ Append(parts, x)[Len(parts) + 1] = x
        /\ \A k \in 1..Len(parts) : Append(parts, x)[k] = parts[k]
    BY <2>2, OneMoreAtEnd
  <2>4. QED
    BY <2>1, <2>3
<1> HIDE DEF more
<1>2. Len(parts) \in Nat
  OBVIOUS
<1>3. PICK f : Flattens(f, more) /\ FlattenSeq(more) = f[Len(more)]
  <2>1. Len(more) # 0
    BY <1>1, <1>2
  <2>2. QED
    BY <1>1, <2>1, FlattenSteps
<1>4. \A k \in 1..(Len(parts) + 1) : f[k] = IF k = 1 THEN more[k] ELSE f[k - 1] \o more[k]
  BY <1>1, <1>3, Zenon DEF Flattens
<1>5. CASE Len(parts) = 0
  <2>1. FlattenSeq(more) = x
    BY <1>1, <1>3, <1>4, <1>5
  <2>2. FlattenSeq(parts) = parts
    BY <1>5, Zenon DEF FlattenSeq
  <2>3. parts = <<>> /\ <<>> \o x = x
    BY <1>5
  <2>4. QED
    BY <1>1, <2>1, <2>2, <2>3 DEF more
<1>6. CASE Len(parts) # 0
  <2>1. PICK g : Flattens(g, parts) /\ FlattenSeq(parts) = g[Len(parts)]
    BY <1>6, FlattenSteps
  <2> DEFINE h == [k \in 1..Len(parts) |-> f[k]]
  <2>2. h = [k \in 1..Len(parts) |-> IF k = 1 THEN parts[k] ELSE h[k - 1] \o parts[k]]
    <3>1. ASSUME NEW k \in 1..Len(parts)
          PROVE  f[k] = IF k = 1 THEN parts[k] ELSE h[k - 1] \o parts[k]
      <4>1. k \in 1..(Len(parts) + 1) /\ more[k] = parts[k]
        BY <1>1, <1>2
      <4>2. k # 1 => h[k - 1] = f[k - 1]
        BY <1>2
      <4>3. QED
        BY <1>4, <4>1, <4>2
    <3>2. QED
      BY <3>1
  <2>3. h[Len(parts)] = f[Len(parts)]
    BY <1>2, <1>6
  <2> HIDE DEF h
  <2>4. h = g
    <3>1. Flattens(h, parts)
      BY <2>2, Zenon DEF Flattens
    <3>2. QED
      BY <1>2, <2>1, <3>1, FlattensUnique
  <2>5. FlattenSeq(more) = f[Len(parts)] \o x
    <3>1. /\ Len(parts) + 1 \in 1..(Len(parts) + 1) /\ Len(parts) + 1 # 1
          /\ (Len(parts) + 1) - 1 = Len(parts)
      BY <1>2, <1>6
    <3>2. f[Len(parts) + 1] = f[(Len(parts) + 1) - 1] \o more[Len(parts) + 1]
      BY <1>4, <3>1, Zenon
    <3>3. QED
      BY <1>1, <1>3, <3>1, <3>2
  <2>6. QED
    BY <1>1, <2>1, <2>3, <2>4, <2>5 DEF more
<1>7. QED
  BY <1>5, <1>6

\* FlattenSeq puts the parts one after the other.
LEMMA FlattenJoins ==
  ASSUME NEW S, NEW parts \in Seq(Seq(S)), Len(parts) # 0
  PROVE  Joined(FlattenSeq(parts), parts, 1, Len(parts) + 1, S)
<1>1. PICK flatten : Flattens(flatten, parts) /\ FlattenSeq(parts) = flatten[Len(parts)]
  BY FlattenSteps
<1>2. FlattenSeq(parts) = flatten[Len(parts)]
  BY <1>1
<1> DEFINE n == Len(parts)
           Done(i) == Joined(flatten[i], parts, 1, i + 1, S)
           N == {k \in Nat : k + 1 \in 1..n => Done(k + 1)}
<1>3. n \in Nat \ {0} /\ \A k \in 1..n : parts[k] \in Seq(S)
  OBVIOUS
<1>4. \A i \in 1..n : flatten[i] = IF i = 1 THEN parts[i] ELSE flatten[i - 1] \o parts[i]
  BY <1>1 DEF Flattens
<1>5. 0 \in N
  <2>1. Joined(<<>>, parts, 1, 1, S)
    BY JoinNone
  <2>2. Joined(<<>> \o parts[1], parts, 1, 1 + 1, S)
    <3>1. PICK words : words = <<>>
      OBVIOUS
    <3>2. PICK i \in Int : i = 1
      OBVIOUS
    <3>3. i <= i /\ \A k \in i..i : parts[k] \in Seq(S)
      BY <1>3, <3>2
    <3>4. Joined(words, parts, i, i, S)
      BY <2>1, <3>1, <3>2
    <3>5. Joined(words \o parts[i], parts, i, i + 1, S)
      BY <3>3, <3>4, JoinOneMore
    <3>6. QED
      BY <3>1, <3>2, <3>5
  <2>3. <<>> \o parts[1] = parts[1] /\ flatten[1] = parts[1]
    BY <1>3, <1>4, ConcatEmptySeq
  <2>4. QED
    BY <2>2, <2>3
<1>6. ASSUME NEW k \in N PROVE k + 1 \in N
  <2> SUFFICES ASSUME k + 2 \in 1..n PROVE Done(k + 2)
    OBVIOUS
  <2>1. PICK i \in 1..n : i = k + 1 /\ i + 1 = k + 2 /\ i + 1 \in 1..n
    BY <1>3
  <2>2. Joined(flatten[i], parts, 1, i + 1, S)
    BY <2>1
  <2>3. Joined(flatten[i] \o parts[i + 1], parts, 1, (i + 1) + 1, S)
    <3>1. PICK words : words = flatten[i]
      OBVIOUS
    <3>a. PICK j \in Int : j = 1
      OBVIOUS
    <3>b. PICK e \in Int : e = i + 1
      OBVIOUS
    <3>2. j <= e /\ \A l \in j..e : parts[l] \in Seq(S)
      BY <1>3, <2>1, <3>a, <3>b
    <3>3. Joined(words, parts, j, e, S)
      BY <2>2, <3>1, <3>a, <3>b
    <3>4. Joined(words \o parts[e], parts, j, e + 1, S)
      BY <3>2, <3>3, JoinOneMore
    <3>5. QED
      BY <3>1, <3>a, <3>b, <3>4
  <2>4. flatten[i + 1] = flatten[i] \o parts[i + 1]
    <3>1. i + 1 # 1 /\ (i + 1) - 1 = i
      BY <2>1
    <3>2. QED
      BY <1>4, <2>1, <3>1
  <2>5. QED
    BY <2>1, <2>3, <2>4
<1>7. N = Nat
  <2>1. N \in SUBSET Nat
    OBVIOUS
  <2> HIDE DEF N
  <2>2. QED
    BY <1>5, <1>6, <2>1, AllNumbers
<1>8. Done(n)
  <2>1. n - 1 \in Nat /\ (n - 1) + 1 = n
    BY <1>3
  <2>2. PICK k \in N : k + 1 = n
    BY <1>7, <2>1
  <2>3. QED
    BY <1>3, <2>2
<1>9. QED
  BY <1>2, <1>8

\* What it gives is a sequence.
LEMMA FlattenTyped ==
  ASSUME NEW S, NEW parts \in Seq(Seq(S))
  PROVE  FlattenSeq(parts) \in Seq(S)
<1>1. CASE Len(parts) = 0
  <2>1. FlattenSeq(parts) = parts
    BY <1>1, Zenon DEF FlattenSeq
  <2>2. parts = <<>> /\ <<>> \in Seq(S)
    BY <1>1
  <2>3. QED
    BY <2>1, <2>2
<1>2. CASE Len(parts) # 0
  <2>1. Len(parts) + 1 \in Int /\ 1 <= Len(parts) + 1
    OBVIOUS
  <2>2. Joined(FlattenSeq(parts), parts, 1, Len(parts) + 1, S)
    BY <1>2, FlattenJoins
  <2>3. QED
    BY <2>1, <2>2, JoinedWords
<1>3. QED
  BY <1>1, <1>2

-----------------------------------------------------------------------------
(* Texts put together.                                                     *)

\* The first n of the parts, and the n after the first m.
Leading(parts, n) == [k \in 1..n |-> parts[k]]
Following(parts, m, n) == [k \in 1..n |-> parts[m + k]]

\* One part more.
LEMMA FlattenGrows ==
  ASSUME NEW S, NEW n \in Nat, NEW parts, \A k \in 1..(n + 1) : parts[k] \in Seq(S)
  PROVE  /\ FlattenSeq(Leading(parts, n)) \in Seq(S)
         /\ FlattenSeq(Leading(parts, n + 1)) = FlattenSeq(Leading(parts, n)) \o parts[n + 1]
<1> DEFINE few == [k \in 1..n |-> parts[k]]
           more == [k \in 1..(n + 1) |-> parts[k]]
<1>1. PICK E : E = Seq(S)
  OBVIOUS
<1>2. PICK x \in E : x = parts[n + 1]
  BY <1>1
<1>3. few \in Seq(E) /\ Len(few) = n /\ more \in Seq(E)
  BY <1>1
<1>4. more = Append(few, x)
  <2>1. Append(few, x) = [k \in 1..(n + 1) |-> IF k <= n THEN few[k] ELSE x]
    BY <1>2, <1>3
  <2>2. \A k \in 1..(n + 1) : more[k] = IF k <= n THEN few[k] ELSE x
    BY <1>2
  <2>3. QED
    BY <2>1, <2>2
<1> HIDE DEF few, more, Leading
<1>5. few \in Seq(Seq(S)) /\ x \in Seq(S)
  BY <1>1, <1>2, <1>3
<1>6. FlattenSeq(Append(few, x)) = FlattenSeq(few) \o x /\ FlattenSeq(few) \in Seq(S)
  BY <1>5, FlattenOneMore, FlattenTyped
<1>7. QED
  BY <1>2, <1>4, <1>6 DEF few, more, Leading

LEMMA FlattenNothing == FlattenSeq(<<>>) = <<>>
BY Zenon, LenProperties, EmptySeq DEF FlattenSeq

\* The parts put together one by one.
Unrolls(g, n, parts, S) ==
  /\ g[0] = <<>> /\ \A k \in 0..n : g[k] \in Seq(S)
  /\ \A k \in 1..n : g[k] = g[k - 1] \o parts[k]

LEMMA Unrolled ==
  ASSUME NEW S, NEW n \in Nat, NEW parts, \A k \in 1..n : parts[k] \in Seq(S)
  PROVE  \E g : Unrolls(g, n, parts, S) /\ g[n] = FlattenSeq(Leading(parts, n))
<1>1. PICK g : g = [j \in 0..n |-> FlattenSeq(Leading(parts, j))]
  OBVIOUS
<1>2. g[0] = <<>>
  <2>1. Leading(parts, 0) = <<>> /\ 0 \in 0..n
    BY DEF Leading
  <2>2. g[0] = FlattenSeq(Leading(parts, 0))
    BY <1>1, <2>1, Zenon
  <2>3. QED
    BY <2>1, <2>2, FlattenNothing
<1>3. ASSUME NEW k \in 1..n PROVE g[k] = g[k - 1] \o parts[k] /\ g[k - 1] \in Seq(S)
  <2>1. PICK j \in Nat : j + 1 = k /\ k - 1 = j /\ j \in 0..n /\ k \in 0..n
    OBVIOUS
  <2>2. \A i \in 1..(j + 1) : parts[i] \in Seq(S)
    BY <2>1
  <2>3. /\ FlattenSeq(Leading(parts, j)) \in Seq(S)
        /\ FlattenSeq(Leading(parts, j + 1)) = FlattenSeq(Leading(parts, j)) \o parts[j + 1]
    BY <2>2, FlattenGrows
  <2>4. g[j] = FlattenSeq(Leading(parts, j)) /\ g[k] = FlattenSeq(Leading(parts, k))
    BY <1>1, <2>1, Zenon
  <2>5. QED
    BY <2>1, <2>3, <2>4, Zenon
<1>4. ASSUME NEW k \in 0..n PROVE g[k] \in Seq(S)
  <2>1. CASE k = 0
    <3>1. <<>> \in Seq(S)
      OBVIOUS
    <3>2. QED
      BY <1>2, <2>1, <3>1, Zenon
  <2>2. CASE k # 0
    <3>1. k \in 1..n
      BY <2>2
    <3>2. QED
      BY <1>3, <3>1, ConcatProperties
  <2>3. QED
    BY <2>1, <2>2
<1>5. g[n] = FlattenSeq(Leading(parts, n))
  <2>1. n \in 0..n
    OBVIOUS
  <2>2. QED
    BY <1>1, <2>1, Zenon
<1>6. QED
  BY <1>2, <1>3, <1>4, <1>5 DEF Unrolls

\* The first m parts, and the rest.
LEMMA FlattenSplit ==
  ASSUME NEW S, NEW m \in Nat, NEW n \in Nat, NEW parts,
         \A k \in 1..(m + n) : parts[k] \in Seq(S)
  PROVE  /\ FlattenSeq(Leading(parts, m)) \in Seq(S)
         /\ FlattenSeq(Following(parts, m, n)) \in Seq(S)
         /\ FlattenSeq(Leading(parts, m + n))
              = FlattenSeq(Leading(parts, m)) \o FlattenSeq(Following(parts, m, n))
<1>1. PICK all : Unrolls(all, m + n, parts, S) /\ all[m + n] = FlattenSeq(Leading(parts, m + n))
  <2>1. PICK p \in Nat : p = m + n
    OBVIOUS
  <2>2. \A k \in 1..p : parts[k] \in Seq(S)
    BY <2>1
  <2>3. \E g : Unrolls(g, p, parts, S) /\ g[p] = FlattenSeq(Leading(parts, p))
    BY <2>2, Unrolled, Zenon
  <2>4. QED
    BY <2>1, <2>3
<1>2. PICK rests : rests = Following(parts, m, n)
  OBVIOUS
<1>3. \A k \in 1..n : rests[k] = parts[m + k] /\ rests[k] \in Seq(S)
  <2>1. \A k \in 1..n : m + k \in 1..(m + n)
    OBVIOUS
  <2>2. QED
    BY <1>2, <2>1 DEF Following
<1>4. PICK rest : Unrolls(rest, n, rests, S) /\ rest[n] = FlattenSeq(Leading(rests, n))
  <2>1. \A k \in 1..n : rests[k] \in Seq(S)
    BY <1>3, Zenon
  <2>2. QED
    BY <2>1, Unrolled, Zenon
<1>5. PICK first : Unrolls(first, m, parts, S) /\ first[m] = FlattenSeq(Leading(parts, m))
  <2>1. \A k \in 1..m : parts[k] \in Seq(S)
    OBVIOUS
  <2>2. QED
    BY <2>1, Unrolled, Zenon
<1> DEFINE Same(j) == j <= m => all[j] = first[j]
           I == {j \in Nat : Same(j)}
           Splits(j) == j <= n => all[m + j] = first[m] \o rest[j]
           J == {j \in Nat : Splits(j)}
<1>6. Same(0)
  BY <1>1, <1>5, Zenon DEF Unrolls
<1>7. ASSUME NEW j \in Nat, Same(j) PROVE Same(j + 1)
  <2>1. SUFFICES ASSUME j + 1 <= m PROVE all[j + 1] = first[j + 1]
    OBVIOUS
  <2>2. PICK k \in 1..(m + n) : k = j + 1 /\ k - 1 = j /\ k \in 1..m
    BY <2>1
  <2>3. all[k] = all[k - 1] \o parts[k] /\ first[k] = first[k - 1] \o parts[k]
    BY <1>1, <1>5, <2>2, Zenon DEF Unrolls
  <2>4. all[j] = first[j]
    BY <1>7, <2>1
  <2>5. QED
    BY <2>2, <2>3, <2>4, Zenon
<1>8. all[m] = first[m]
  <2> HIDE DEF Same
  <2>1. I \in SUBSET Nat /\ 0 \in I /\ \A j \in I : j + 1 \in I
    BY <1>6, <1>7
  <2>2. I = Nat
    <3> HIDE DEF I
    <3>1. QED
      BY <2>1, AllNumbers
  <2>3. QED
    BY <2>2 DEF Same
<1>9. first[m] \in Seq(S)
  BY <1>5 DEF Unrolls
<1>10. Splits(0)
  <2>1. rest[0] = <<>> /\ m + 0 = m
    BY <1>4 DEF Unrolls
  <2>2. first[m] \o <<>> = first[m]
    BY <1>9, ConcatEmptySeq
  <2>3. QED
    BY <1>8, <2>1, <2>2
<1>11. ASSUME NEW j \in Nat, Splits(j) PROVE Splits(j + 1)
  <2>1. SUFFICES ASSUME j + 1 <= n PROVE all[m + (j + 1)] = first[m] \o rest[j + 1]
    OBVIOUS
  <2>2. PICK k \in 1..(m + n) : k = m + (j + 1) /\ k - 1 = m + j
    BY <2>1
  <2>3. PICK i \in 1..n : i = j + 1 /\ i - 1 = j /\ m + i = k /\ i - 1 \in 0..n
    BY <2>1, <2>2
  <2>4. all[k] = all[k - 1] \o parts[k] /\ rest[i] = rest[i - 1] \o rests[i]
    BY <1>1, <1>4, Zenon DEF Unrolls
  <2>5. all[m + j] = first[m] \o rest[j]
    <3>1. j <= n
      BY <2>1
    <3>2. QED
      BY <1>11, <3>1, Zenon
  <2>6. all[k - 1] = first[m] \o rest[i - 1]
    BY <2>2, <2>3, <2>5, Zenon
  <2>7. rests[i] = parts[k] /\ rests[i] \in Seq(S) /\ rest[i - 1] \in Seq(S)
    <3>1. rest[i - 1] \in Seq(S)
      BY <1>4, <2>3, Zenon DEF Unrolls
    <3>2. QED
      BY <1>3, <2>3, <3>1, Zenon
  <2>8. PICK a \in Seq(S), b \in Seq(S), c \in Seq(S) :
          a = first[m] /\ b = rest[i - 1] /\ c = rests[i]
    BY <1>9, <2>7, Zenon
  <2>9. (a \o b) \o c = a \o (b \o c)
    BY ConcatAssociative
  <2>10. QED
    BY <2>2, <2>3, <2>4, <2>6, <2>7, <2>8, <2>9, Zenon
<1>12. all[m + n] = first[m] \o rest[n]
  <2> HIDE DEF Splits
  <2>1. J \in SUBSET Nat /\ 0 \in J /\ \A j \in J : j + 1 \in J
    BY <1>10, <1>11
  <2>2. J = Nat
    <3> HIDE DEF J
    <3>1. QED
      BY <2>1, AllNumbers
  <2>3. Splits(n) /\ n <= n
    BY <2>2
  <2>4. QED
    BY <2>3, Zenon DEF Splits
<1>13. Leading(rests, n) = Following(parts, m, n)
  BY <1>2 DEF Leading, Following
<1>14. rest[n] \in Seq(S)
  <2>1. n \in 0..n
    OBVIOUS
  <2>2. QED
    BY <1>4, <2>1, Zenon DEF Unrolls
<1>15. QED
  BY <1>1, <1>4, <1>5, <1>9, <1>12, <1>13, <1>14, Zenon

\* Words one by one.
\* What holds of words one by one, and of texts.
Wordy(S) ==
  /\ <<>> \in Seq(S) /\ \A x \in S : <<x>> \in Seq(S)
  /\ \A x, y \in S : <<x, y>> \in Seq(S) /\ <<x>> \o <<y>> = <<x, y>>
  /\ \A x, y, z \in S : <<x, y, z>> \in Seq(S) /\ <<x, y>> \o <<z>> = <<x, y, z>>
  /\ \A a \in Seq(S), x, y \in S : (a \o <<x>>) \o <<y>> = a \o <<x, y>>

Joining(S) ==
  /\ \A a, b \in Seq(S) : a \o b \in Seq(S)
  /\ \A a \in Seq(S) : a \o <<>> = a /\ <<>> \o a = a
  /\ \A a, b, c \in Seq(S) : (a \o b) \o c = a \o (b \o c)

LEMMA WordsJoined ==
  ASSUME NEW S
  PROVE  Wordy(S)
<1>1. <<>> \in Seq(S)
  OBVIOUS
<1>2. \A x \in S : <<x>> \in Seq(S) /\ Len(<<x>>) = 1 /\ <<x>>[1] = x
  OBVIOUS
<1>3. ASSUME NEW x \in S, NEW y \in S PROVE <<x, y>> \in Seq(S) /\ <<x>> \o <<y>> = <<x, y>>
  <2>1. PICK c : c = <<x>> \o <<y>>
    OBVIOUS
  <2>2. /\ c \in Seq(S) /\ Len(c) = 2
        /\ \A i \in 1..2 : c[i] = IF i <= 1 THEN <<x>>[i] ELSE <<y>>[i - 1]
    BY <1>2, <2>1, ConcatProperties
  <2>3. c[1] = x /\ c[2] = y
    BY <1>2, <2>2
  <2>4. <<x, y>> \in Seq(S) /\ Len(<<x, y>>) = 2 /\ <<x, y>>[1] = x /\ <<x, y>>[2] = y
    OBVIOUS
  <2>5. PICK d \in Seq(S) : d = <<x, y>> /\ Len(d) = 2 /\ d[1] = x /\ d[2] = y
    BY <2>4
  <2>6. c = d
    BY <2>2, <2>3, <2>5
  <2>7. QED
    BY <2>1, <2>4, <2>5, <2>6
<1>4. ASSUME NEW x \in S, NEW y \in S, NEW z \in S
      PROVE  <<x, y, z>> \in Seq(S) /\ <<x, y>> \o <<z>> = <<x, y, z>>
  <2>1. PICK c : c = <<x, y>> \o <<z>>
    OBVIOUS
  <2>2. <<x, y>> \in Seq(S) /\ Len(<<x, y>>) = 2 /\ <<x, y>>[1] = x /\ <<x, y>>[2] = y
    OBVIOUS
  <2>3. /\ c \in Seq(S) /\ Len(c) = 3
        /\ \A i \in 1..3 : c[i] = IF i <= 2 THEN <<x, y>>[i] ELSE <<z>>[i - 2]
    BY <1>2, <2>1, <2>2, ConcatProperties
  <2>4. c[1] = x /\ c[2] = y /\ c[3] = z
    BY <1>2, <2>2, <2>3
  <2>5. PICK d \in Seq(S) : d = <<x, y, z>> /\ Len(d) = 3 /\ d[1] = x /\ d[2] = y /\ d[3] = z
    <3>1. /\ <<x, y, z>> \in Seq(S) /\ Len(<<x, y, z>>) = 3
          /\ <<x, y, z>>[1] = x /\ <<x, y, z>>[2] = y /\ <<x, y, z>>[3] = z
      OBVIOUS
    <3>2. QED
      BY <3>1, Zenon
  <2>6. c = d
    BY <2>3, <2>4, <2>5
  <2>7. QED
    BY <2>1, <2>5, <2>6
<1>5. ASSUME NEW a \in Seq(S), NEW x \in S, NEW y \in S
      PROVE  (a \o <<x>>) \o <<y>> = a \o <<x, y>>
  <2>1. PICK u \in Seq(S), w \in Seq(S) : u = <<x>> /\ w = <<y>> /\ u \o w = <<x, y>>
    BY <1>2, <1>3
  <2>2. (a \o u) \o w = a \o (u \o w)
    BY ConcatAssociative
  <2>3. QED
    BY <2>1, <2>2
<1>6. QED
  BY <1>1, <1>2, <1>3, <1>4, <1>5, Zenon DEF Wordy

LEMMA JoiningAll ==
  ASSUME NEW S
  PROVE  Joining(S)
<1>1. \A a, b \in Seq(S) : a \o b \in Seq(S)
  OBVIOUS
<1>2. \A a \in Seq(S) : a \o <<>> = a /\ <<>> \o a = a
  BY ConcatEmptySeq
<1>3. \A a, b, c \in Seq(S) : (a \o b) \o c = a \o (b \o c)
  BY ConcatAssociative
<1>4. QED
  BY <1>1, <1>2, <1>3, Zenon DEF Joining

\* Parts in a row, and one more.
InParts(parts, n, S) == parts = Leading(parts, n) /\ \A k \in 1..n : parts[k] \in Seq(S)
OneMorePart(more, parts, n) == \A k \in 1..n : more[k] = parts[k]

LEMMA FlattenParts ==
  ASSUME NEW S, NEW n \in Nat, NEW parts, InParts(parts, n, S)
  PROVE  FlattenSeq(parts) \in Seq(S)
<1>1. \A k \in 1..n : parts[k] \in Seq(S)
  BY DEF InParts
<1>2. PICK g : Unrolls(g, n, parts, S) /\ g[n] = FlattenSeq(Leading(parts, n))
  BY <1>1, Unrolled
<1>3. n \in 0..n
  OBVIOUS
<1>4. FlattenSeq(parts) = g[n]
  BY <1>2 DEF InParts
<1>5. QED
  BY <1>2, <1>3, <1>4, Zenon DEF Unrolls

LEMMA FlattenMore ==
  ASSUME NEW S, NEW n \in Nat, NEW parts, NEW more, InParts(parts, n, S), InParts(more, n + 1, S),
         OneMorePart(more, parts, n)
  PROVE  FlattenSeq(more) = FlattenSeq(parts) \o more[n + 1]
<1>1. Leading(more, n) = Leading(parts, n)
  BY DEF Leading, OneMorePart
<1>2. \A k \in 1..(n + 1) : more[k] \in Seq(S)
  BY DEF InParts
<1>3. FlattenSeq(Leading(more, n + 1)) = FlattenSeq(Leading(more, n)) \o more[n + 1]
  BY <1>2, FlattenGrows
<1>4. QED
  BY <1>1, <1>3 DEF InParts

\* A list and one more.
LEMMA Longer ==
  ASSUME NEW E, NEW s \in Seq(E), NEW x \in E, NEW n, n = Len(s), NEW more, more = Append(s, x)
  PROVE  /\ n \in Nat /\ DOMAIN s = 1..n /\ more \in Seq(E) /\ DOMAIN more = 1..(n + 1)
         /\ more[n + 1] = x /\ \A k \in 1..n : more[k] = s[k]
<1>1. /\ more \in Seq(E) /\ Len(more) = Len(s) + 1 /\ more[Len(s) + 1] = x
      /\ \A k \in 1..Len(s) : more[k] = s[k]
  BY OneMoreAtEnd
<1>2. DOMAIN more = 1..(Len(s) + 1) /\ Len(s) \in Nat /\ DOMAIN s = 1..Len(s)
  BY <1>1
<1>3. QED
  BY <1>1, <1>2

\* A list of two is its first with its second at the end.
LEMMA SecondAdded ==
  ASSUME NEW E, NEW one \in Seq(E), Len(one) = 1, NEW b \in E
  PROVE  /\ Append(one, b) \in Seq(E) /\ Len(Append(one, b)) = 2
         /\ Append(one, b)[1] = one[1] /\ Append(one, b)[2] = b
<1>1. PICK two : two = Append(one, b)
  OBVIOUS
<1>2. /\ two \in Seq(E) /\ Len(two) = Len(one) + 1 /\ two[Len(one) + 1] = b
      /\ \A k \in 1..Len(one) : two[k] = one[k]
  BY <1>1, OneMoreAtEnd
<1>3. 1 \in 1..Len(one) /\ Len(one) + 1 = 2
  OBVIOUS
<1>4. two \in Seq(E) /\ Len(two) = 2 /\ two[1] = one[1] /\ two[2] = b
  BY <1>2, <1>3
<1>5. QED
  BY <1>1, <1>4

LEMMA TwoEntries ==
  ASSUME NEW E, NEW s \in Seq(E), Len(s) = 2
  PROVE  s = Append(<<s[1]>>, s[2]) /\ SubSeq(s, 1, 1) = <<s[1]>>
<1>1. s \in [1..2 -> E]
  OBVIOUS
<1>2. PICK a \in E, b \in E : a = s[1] /\ b = s[2]
  BY <1>1
<1>3. PICK one : one = <<a>>
  OBVIOUS
<1>4. one \in Seq(E) /\ Len(one) = 1 /\ one[1] = a
  BY <1>2, <1>3
<1>5. PICK two : two = Append(one, b)
  OBVIOUS
<1>6. two \in Seq(E) /\ Len(two) = 2 /\ two[1] = a /\ two[2] = b
  BY <1>2, <1>4, <1>5, SecondAdded
<1>7. two \in [1..2 -> E]
  BY <1>6
<1>8. \A k \in 1..2 : two[k] = s[k]
  <2>1. \A k \in 1..2 : k = 1 \/ k = 2
    OBVIOUS
  <2>2. QED
    BY <1>2, <1>6, <2>1
<1>9. two = s
  BY <1>1, <1>7, <1>8
<1>10. SubSeq(s, 1, 1) = <<a>>
  <2>1. SubSeq(s, 1, 1) = [k \in 1..1 |-> s[k]]
    OBVIOUS
  <2>2. [k \in 1..1 |-> s[k]] = <<s[1]>>
    OBVIOUS
  <2>3. QED
    BY <1>2, <2>1, <2>2
<1>11. QED
  BY <1>2, <1>3, <1>5, <1>9, <1>10

-----------------------------------------------------------------------------
\* A tuple has a component from each of the sets.
LEMMA InTuples ==
  ASSUME NEW sets, NEW t \in Tuples(sets)
  PROVE  /\ DOMAIN t = DOMAIN sets /\ \A k \in DOMAIN sets : t[k] \in sets[k]
         /\ t = [k \in DOMAIN sets |-> t[k]]
<1> DEFINE placed == UNION {{k} \X sets[k] : k \in DOMAIN sets}
<1>1. PICK u \in [DOMAIN sets -> placed] :
        /\ \A k \in DOMAIN sets : u[k][1] = k
        /\ t = [k \in DOMAIN sets |-> u[k][2]]
  BY DEF Tuples
<1>2. ASSUME NEW k \in DOMAIN sets PROVE t[k] \in sets[k]
  <2>1. u[k] \in placed
    BY <1>1
  <2>2. PICK j \in DOMAIN sets : u[k] \in {j} \X sets[j]
    BY <2>1
  <2>3. u[k][1] = j /\ u[k][2] \in sets[j]
    BY <2>2
  <2>4. QED
    BY <1>1, <2>3
<1>3. QED
  BY <1>1, <1>2

=============================================================================
