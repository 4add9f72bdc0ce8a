-------------------------- MODULE JavaBinder_proofs --------------------------
(***************************************************************************)
(* A call through the Java classes, for every interface: what the stub     *)
(* reads is what the proxy wrote, and the other way round, so that the     *)
(* pair implements a remote call.                                          *)
(*                                                                         *)
(* Names of predicates say what stands in the state of a stage of the      *)
(* call; each is about a call c and a run of the implementation, which no  *)
(* step changes, and the variables of one side.                            *)
(***************************************************************************)
EXTENDS JavaBinder, SequenceLemmas

-----------------------------------------------------------------------------
(* One value.  What a generated class writes to a parcel, a generated      *)
(* class reads back, whatever comes after it in the parcel.  The statements *)
(* of the two sides are emitted by different methods of the Type classes.  *)

\* What the classes of Type.cpp have in common.
Coherent(t) ==
  /\ t.presence \in BOOLEAN /\ t.flag \in BOOLEAN
  /\ t.creates = t.writes /\ t.reads = t.writes
  /\ t.flag => t.writes = "Int" /\ ~t.presence /\ ~t.canBeOut /\ t.zero = False
  /\ t.zero \in {0, False, Null}

\* The values of a variable of a type.
Holds(t, dimension, v) == dimension = 0 /\ t.flag => v \in {True, False}

\* What the classes of the types a method can carry say is coherent.
THEOREM TypesAreCoherent ==
  /\ \A kind : Coherent(BasicType(kind))
  /\ Coherent(BooleanType) /\ Coherent(CharType) /\ Coherent(StringType)
  /\ Coherent(CharSequenceType) /\ Coherent(IBinderType) /\ Coherent(MapType)
  /\ Coherent(ListType) /\ Coherent(UserDataType) /\ Coherent(InterfaceType)
  /\ \A element : Coherent(GenericListType(element))
<1> USE DEF Coherent, Marshalled
<1>1. \A kind : Coherent(BasicType(kind))
  BY DEF BasicType
<1>2. Coherent(BooleanType) /\ Coherent(CharType) /\ Coherent(StringType)
  BY DEF BooleanType, CharType, StringType
<1>3. Coherent(CharSequenceType) /\ Coherent(IBinderType) /\ Coherent(InterfaceType)
  BY DEF CharSequenceType, IBinderType, InterfaceType
<1>4. Coherent(MapType) /\ Coherent(ListType) /\ Coherent(UserDataType)
  BY DEF MapType, ListType, UserDataType
<1>5. \A element : Coherent(GenericListType(element))
  BY DEF GenericListType
<1>6. QED
  BY <1>1, <1>2, <1>3, <1>4, <1>5

\* One word in front of others.
LEMMA OneWord ==
  ASSUME NEW S, NEW w \in S, NEW rest \in Seq(S)
  PROVE  LET p == <<w>> \o rest
         IN  p # <<>> /\ Head(p) = w /\ Dropped(p, 1) = rest /\ p \in Seq(S)
<1> DEFINE p == <<w>> \o rest
<1>1. <<w>> \in Seq(S) /\ Len(<<w>>) = 1 /\ <<w>>[1] = w
  OBVIOUS
<1>2. /\ p \in Seq(S) /\ Len(p) = 1 + Len(rest)
      /\ \A i \in 1..Len(p) : p[i] = IF i <= 1 THEN <<w>>[i] ELSE rest[i - 1]
  BY <1>1, ConcatProperties
<1>3. Len(rest) \in Nat
  BY LenProperties
<1>4. p # <<>> /\ Head(p) = w
  BY <1>1, <1>2, <1>3, EmptySeq, HeadTailProperties
<1>5. SubSeq(p, 2, Len(p)) = rest
  BY <1>1, <1>2, <1>3
<1>6. QED
  BY <1>2, <1>4, <1>5 DEF Dropped

\* Two reads of one word are a read of two.
LEMMA TwoDrops ==
  ASSUME NEW S, NEW w \in S, NEW rest \in Seq(S), rest # <<>>
  PROVE  Dropped(<<w>> \o rest, 2) = Dropped(Dropped(<<w>> \o rest, 1), 1)
<1> DEFINE p == <<w>> \o rest
<1>1. <<w>> \in Seq(S) /\ Len(<<w>>) = 1
  OBVIOUS
<1>2. p \in Seq(S) /\ Len(p) = 1 + Len(rest) /\ Len(rest) \in Nat
  BY <1>1, ConcatProperties, LenProperties
<1>3. Dropped(p, 1) = rest
  BY OneWord
<1>4. QED
  BY <1>1, <1>2, <1>3 DEF Dropped

\* The int in front of a null says so.
LEMMA NullIsAbsent ==
  ASSUME NEW t, t.presence, NEW S, Written(t, 0, Null) \in Seq(S), NEW rest \in Seq(S)
  PROVE  ~Present(Written(t, 0, Null) \o rest)
<1> DEFINE w == Word("Int", 0)
<1>1. Written(t, 0, Null) = <<w>>
  BY DEF Written
<1>2. <<w>> \in Seq(S) /\ w \in S
  <2>1. <<w>> \in Seq(S)
    BY <1>1
  <2>2. <<w>>[1] \in S
    BY <2>1
  <2>3. QED
    BY <2>1, <2>2
<1>3. <<w>> \o rest # <<>> /\ Head(<<w>> \o rest) = w
  BY <1>2, OneWord
<1>4. QED
  BY <1>1, <1>3 DEF Present, Take, Word

-----------------------------------------------------------------------------
\* generate_create_from_parcel reads what generate_write_to_parcel wrote: the
\* value comes back, null included, and what follows it is left.
THEOREM WrittenIsCreated ==
  ASSUME True # False,
         NEW t, Coherent(t), NEW dimension \in {0, 1}, NEW v, Holds(t, dimension, v),
         NEW S, Written(t, dimension, v) \in Seq(S), NEW rest \in Seq(S)
  PROVE  LET p == Written(t, dimension, v) \o rest
         IN  /\ Created(t, dimension, p) = v
             /\ Dropped(p, Width(t, dimension, p)) = rest
<1> DEFINE p == Written(t, dimension, v) \o rest
<1>1. CASE dimension = 1
  <2>1. Written(t, dimension, v) = <<ArrayWord(t.array, v)>>
    BY <1>1 DEF Written
  <2> DEFINE w == ArrayWord(t.array, v)
  <2>2. w \in S
    BY <2>1
  <2>3. p # <<>> /\ Head(p) = w /\ Dropped(p, 1) = rest
    BY <2>1, <2>2, OneWord
  <2>4. Created(t, dimension, p) = v
    BY <1>1, <2>3 DEF Created, Take, ArrayWord
  <2>5. Width(t, dimension, p) = 1
    BY <1>1 DEF Width
  <2>6. QED
    BY <2>3, <2>4, <2>5
<1>2. CASE dimension = 0 /\ t.presence /\ v = Null
  <2> DEFINE w == Word("Int", 0)
  <2>1. Written(t, dimension, v) = <<w>>
    BY <1>2 DEF Written
  <2>2. w \in S
    BY <2>1
  <2>3. p # <<>> /\ Head(p) = w /\ Dropped(p, 1) = rest
    BY <2>1, <2>2, OneWord
  <2>4. ~Present(p)
    BY <2>3 DEF Present, Take, Word
  <2>5. Created(t, dimension, p) = v /\ Width(t, dimension, p) = 1
    BY <1>2, <2>4 DEF Created, Width
  <2>6. QED
    BY <2>3, <2>5
<1>3. CASE dimension = 0 /\ t.presence /\ v # Null
  <2> DEFINE w1 == Word("Int", 1)
             w2 == Word(t.writes, v)
             more == <<w2>> \o rest
  <2>1. Written(t, dimension, v) = <<w1, w2>>
    BY <1>3 DEF Written
  <2>2. w1 \in S /\ w2 \in S
    BY <2>1
  <2>3. more # <<>> /\ Head(more) = w2 /\ Dropped(more, 1) = rest /\ more \in Seq(S)
    BY <2>2, OneWord
  <2>4. p = <<w1>> \o more
    BY <2>1, <2>2
  <2> DEFINE q == <<w1>> \o more
  <2> HIDE DEF w1, w2, more
  <2>5. q # <<>> /\ Head(q) = w1 /\ Dropped(q, 1) = more
    <3>1. w1 \in S /\ more \in Seq(S)
      BY <2>2, <2>3
    <3>2. QED
      BY <3>1, OneWord
  <2>6. Dropped(q, 2) = Dropped(Dropped(q, 1), 1)
    <3>1. w1 \in S /\ more \in Seq(S) /\ more # <<>>
      BY <2>2, <2>3
    <3>2. QED
      BY <3>1, TwoDrops
  <2>7. p # <<>> /\ Head(p) = w1 /\ Dropped(p, 1) = more
    BY <2>4, <2>5
  <2>8. Present(p)
    BY <2>7 DEF Present, Take, Word, w1
  <2>9. w2.kind = t.creates /\ w2.array = FALSE /\ w2.value = v
    BY DEF Word, Coherent, w2
  <2>10. Take(more, t.creates, FALSE) = v
    BY <2>3, <2>9 DEF Take
  <2>11. Created(t, dimension, p) = Take(Dropped(p, 1), t.creates, FALSE)
    <3>1. dimension # 1
      BY <1>3
    <3>2. QED
      BY <1>3, <2>8, <3>1, Zenon DEF Created
  <2>12. Width(t, dimension, p) = 2
    BY <1>3, <2>8 DEF Width
  <2>13. Dropped(p, 2) = Dropped(Dropped(p, 1), 1)
    BY <2>4, <2>6
  <2>14. QED
    BY <2>3, <2>7, <2>10, <2>11, <2>12, <2>13
<1>4. CASE dimension = 0 /\ ~t.presence /\ t.flag
  <2> DEFINE w == Word("Int", IF v = True THEN 1 ELSE 0)
  <2>1. Written(t, dimension, v) = <<w>>
    BY <1>4 DEF Written
  <2>2. w \in S
    BY <2>1
  <2>3. p # <<>> /\ Head(p) = w /\ Dropped(p, 1) = rest
    BY <2>1, <2>2, OneWord
  <2>4. Present(p) <=> v = True
    BY <2>3 DEF Present, Take, Word
  <2>5. Created(t, dimension, p) = v /\ Width(t, dimension, p) = 1
    BY <1>4, <2>4 DEF Created, Width, Holds
  <2>6. QED
    BY <2>3, <2>5
<1>5. CASE dimension = 0 /\ ~t.presence /\ ~t.flag
  <2> DEFINE w == Word(t.writes, v)
  <2>1. Written(t, dimension, v) = <<w>>
    BY <1>5 DEF Written
  <2>2. w \in S
    BY <2>1
  <2>3. p # <<>> /\ Head(p) = w /\ Dropped(p, 1) = rest
    BY <2>1, <2>2, OneWord
  <2>4. Created(t, dimension, p) = v /\ Width(t, dimension, p) = 1
    BY <1>5, <2>3 DEF Created, Width, Take, Word, Coherent
  <2>5. QED
    BY <2>3, <2>4
<1>6. QED
  BY <1>1, <1>2, <1>3, <1>4, <1>5 DEF Coherent

\* generate_read_from_parcel, which only arrays and the types that can be out
\* get to, puts what was written into the caller's object, or leaves it alone
\* when null was written in its place; and what follows is left.
THEOREM WrittenIsRead ==
  ASSUME True # False,
         NEW t, Coherent(t), NEW dimension \in {0, 1}, dimension = 1 \/ t.canBeOut,
         NEW v, NEW object,
         NEW S, Written(t, dimension, v) \in Seq(S), NEW rest \in Seq(S)
  PROVE  LET p == Written(t, dimension, v) \o rest
         IN  /\ ReadInto(t, dimension, object, p)
                  = IF dimension = 0 /\ t.presence /\ v = Null THEN object ELSE v
             /\ Dropped(p, Width(t, dimension, p)) = rest
<1> DEFINE p == Written(t, dimension, v) \o rest
<1>1. ~(dimension = 0 /\ t.flag)
  BY DEF Coherent
<1>2. Created(t, dimension, p) = v /\ Dropped(p, Width(t, dimension, p)) = rest
  BY <1>1, WrittenIsCreated DEF Holds
<1>3. CASE dimension = 1
  <2>1. ReadInto(t, dimension, object, p) = Created(t, dimension, p)
    BY <1>3 DEF ReadInto, Created, Take
  <2>2. QED
    BY <1>2, <1>3, <2>1
<1>6. CASE dimension = 0 /\ ~t.presence
  <2>1. ReadInto(t, dimension, object, p) = Take(p, t.writes, FALSE)
    BY <1>6 DEF ReadInto, Coherent, Take
  <2>2. Created(t, dimension, p) = Take(p, t.writes, FALSE)
    BY <1>1, <1>6 DEF Created, Coherent, Take
  <2>3. QED
    BY <1>2, <1>6, <2>1, <2>2
<1>4. CASE dimension = 0 /\ t.presence /\ Present(p)
  <2>1. ReadInto(t, dimension, object, p) = v
    BY <1>2, <1>4 DEF ReadInto, Created, Coherent
  <2>2. v # Null
    BY <1>4, NullIsAbsent
  <2>3. QED
    BY <1>2, <2>1, <2>2
<1>5. CASE dimension = 0 /\ t.presence /\ ~Present(p)
  <2>1. ReadInto(t, dimension, object, p) = object
    BY <1>5 DEF ReadInto
  <2>2. Created(t, dimension, p) = Null
    BY <1>5 DEF Created
  <2>3. QED
    BY <1>2, <1>5, <2>1, <2>2
<1>7. QED
  BY <1>3, <1>4, <1>5, <1>6 DEF Coherent

-----------------------------------------------------------------------------
(* The values and the words of the interfaces considered.                  *)

IsMethod(m) == \E f \in Interfaces : \E i \in DOMAIN f : m = f[i]

TypesOf(m) ==
  {m.args[k].type : k \in DOMAIN m.args}
    \cup (IF Void(m) THEN {} ELSE {m.returns[1].type})

Types == UNION {UNION {TypesOf(f[i]) : i \in DOMAIN f} : f \in Interfaces}

\* The types of the interfaces are the ones of TypesAreCoherent.
TypesAssumption == \A t \in Types : Coherent(t)

\* What the variables of the generated methods hold.
Held ==
  {Null, New} \cup Contents
    \cup (UNION {Values(t, 0) : t \in Types}) \cup (UNION {Values(t, 1) : t \in Types})

Kinds ==
  {"Token", "Exception", "Int"} \cup {t.writes : t \in Types} \cup {t.array : t \in Types}

Wire == [kind : Kinds, array : BOOLEAN, value : {"DESCRIPTOR"} \cup Int \cup Held]

\* What InterfacesAssumption says of a method.
LEMMA MethodFacts ==
  ASSUME NEW m, IsMethod(m)
  PROVE  /\ Len(m.args) \in Nat /\ DOMAIN m.args = 1..Len(m.args)
         /\ \A k \in DOMAIN m.args : AcceptedArg(m.args[k]) /\ m.args[k].type \in Types
         /\ ~Void(m) => m.returns[1].dimension \in {0, 1} /\ m.returns[1].type \in Types
         /\ Compiles(m)
<1>1. PICK f \in Interfaces : \E i \in DOMAIN f : m = f[i]
  BY DEF IsMethod
<1>2. \A t \in TypesOf(m) : t \in Types
  BY <1>1 DEF Types
<1>3. QED
  BY <1>1, <1>2, InterfacesAssumption DEF TypesOf

\* A scalar is one of a few values.
LEMMA ScalarsAre ==
  ASSUME NEW t, Coherent(t)
  PROVE  /\ Scalars(t) \subseteq {0, 1, True, False, Null} \cup Contents
         /\ t.zero \in Scalars(t)
         /\ t.flag => Scalars(t) = {True, False}
BY ValuesAssumption DEF Scalars, Coherent

\* What a variable holds is no garbage.
LEMMA HeldIsNoGarbage == TypesAssumption => Garbage \notin Held
<1> SUFFICES ASSUME TypesAssumption, Garbage \in Held PROVE FALSE
  OBVIOUS
<1>1. PICK t \in Types : Garbage \in Values(t, 0) \/ Garbage \in Values(t, 1)
  BY ValuesAssumption DEF Held
<1>2. Garbage \notin Values(t, 0)
  BY ScalarsAre, ValuesAssumption DEF Values, TypesAssumption
<1>3. Garbage \notin Values(t, 1)
  <2>1. PICK f \in Interfaces : \E i \in DOMAIN f : t \in TypesOf(f[i])
    BY DEF Types
  <2>2. QED
    BY <2>1, ValuesAssumption DEF TypesOf
<1>4. QED
  BY <1>1, <1>2, <1>3

\* The words written for a value.
LEMMA WrittenWords ==
  ASSUME NEW t \in Types, NEW dimension \in {0, 1}, NEW v \in Held
  PROVE  Written(t, dimension, v) \in Seq(Wire)
<1>1. \A kind \in Kinds : \A w : w \in Int \/ w \in Held
        => Word(kind, w) \in Wire /\ ArrayWord(kind, w) \in Wire
  BY DEF Word, ArrayWord, Wire
<1>2. t.writes \in Kinds /\ t.array \in Kinds /\ "Int" \in Kinds
  BY DEF Kinds
<1>3. /\ ArrayWord(t.array, v) \in Wire /\ Word(t.writes, v) \in Wire
      /\ Word("Int", 0) \in Wire /\ Word("Int", 1) \in Wire
  BY <1>1, <1>2
<1> HIDE DEF Wire
<1>4. QED
  BY <1>3 DEF Written

-----------------------------------------------------------------------------
(* A call and a run of the implementation.                                 *)

Count(c) == Len(c.method.args)

Proper(c) ==
  /\ IsMethod(c.method)
  /\ c.args \in [1..Count(c) -> Held]
  /\ \A k \in 1..Count(c) :
       c.args[k] \in Values(c.method.args[k].type, c.method.args[k].dimension)

\* What the implementation finds in an argument.
Receives(c, k) ==
  IF Incoming(c.method.args[k]) THEN c.args[k]
  ELSE Remote!Fresh(c.method.args[k], c.args[k])

\* What a run of the implementation may do with it.
ProperRun(c, run) ==
  /\ run.index = c.index /\ run.threw \in BOOLEAN
  /\ \A k \in 1..Count(c) : run.received[k] = Receives(c, k)
  /\ ~run.threw => /\ run.result \in Results(c.method)
                   /\ DOMAIN run.left = 1..Count(c)
                   /\ \A k \in 1..Count(c) :
                        run.left[k] \in Left(c.method.args[k], Receives(c, k))

\* The parts of the request, and of the reply behind the result.
SentOf(c) == [k \in 1..Count(c) |-> Sent(c.method.args[k], c.args[k])]

Answered(c, run) ==
  IF Void(c.method) THEN <<>>
  ELSE Written(c.method.returns[1].type, c.method.returns[1].dimension, run.result)

Backs(c, run) ==
  [k \in 1..Count(c) |->
     IF Outgoing(c.method.args[k])
       THEN Written(c.method.args[k].type, c.method.args[k].dimension, run.left[k])
       ELSE <<>>]

\* The caller's parameters when those before n have been read back.
Filled(c, run, n) ==
  [k \in 1..Count(c) |->
     IF k < n /\ Outgoing(c.method.args[k]) THEN run.left[k] ELSE c.args[k]]

\* An argument of a method, and its type.
LEMMA ArgumentFacts ==
  ASSUME TypesAssumption, NEW c, Proper(c), NEW k \in 1..Count(c)
  PROVE  /\ c.method.args[k].type \in Types /\ Coherent(c.method.args[k].type)
         /\ c.method.args[k].dimension \in {0, 1} /\ AcceptedArg(c.method.args[k])
         /\ c.args[k] \in Held
         /\ c.args[k] \in Values(c.method.args[k].type, c.method.args[k].dimension)
         /\ Count(c) \in Nat
<1>1. /\ DOMAIN c.method.args = 1..Count(c) /\ Count(c) \in Nat
      /\ \A j \in DOMAIN c.method.args :
           AcceptedArg(c.method.args[j]) /\ c.method.args[j].type \in Types
  BY MethodFacts DEF Proper, Count
<1>2. QED
  BY <1>1 DEF Proper, TypesAssumption, AcceptedArg

\* The values of the type of an argument, and of one that is an array.
LEMMA ArrayFacts ==
  ASSUME NEW t, NEW v \in Values(t, 1), v # Null
  PROVE  /\ v \in Seq(Scalars(t)) /\ Len(v) \in 0..1 /\ DOMAIN v = 1..Len(v)
         /\ [DOMAIN v -> Scalars(t)] \subseteq Values(t, 1)
<1>1. PICK n \in 0..1 : v \in [1..n -> Scalars(t)]
  BY DEF Values
<1>2. v \in Seq(Scalars(t)) /\ Len(v) = n
  BY <1>1
<1>3. [1..n -> Scalars(t)] \subseteq Values(t, 1)
  <2>1. [1..n -> Scalars(t)] \in {[1..j -> Scalars(t)] : j \in 0..1}
    OBVIOUS
  <2>2. QED
    BY <2>1 DEF Values
<1>4. QED
  BY <1>1, <1>2, <1>3

\* Whatever the implementation finds in an argument is held by a variable.
LEMMA ReceivesHeld ==
  ASSUME TypesAssumption, NEW c, Proper(c), NEW k \in 1..Count(c)
  PROVE  /\ Receives(c, k) \in Held
         /\ c.method.args[k].dimension = 1
              => Receives(c, k) \in Values(c.method.args[k].type, 1)
<1> DEFINE a == c.method.args[k]
           v == c.args[k]
<1>1. /\ a.type \in Types /\ Coherent(a.type) /\ a.dimension \in {0, 1}
      /\ v \in Held /\ v \in Values(a.type, a.dimension)
  BY ArgumentFacts
<1>2. New \in Held /\ Null \in Held /\ Values(a.type, 1) \subseteq Held
  BY <1>1 DEF Held
<1>3. CASE Incoming(a)
  BY <1>1, <1>3 DEF Receives
<1>4. CASE ~Incoming(a) /\ (a.dimension = 0 \/ v = Null)
  BY <1>1, <1>2, <1>4 DEF Receives, Remote!Fresh
<1>5. CASE ~Incoming(a) /\ a.dimension = 1 /\ v # Null
  <2>1. Receives(c, k) = [i \in DOMAIN v |-> a.type.zero]
    BY <1>5 DEF Receives, Remote!Fresh
  <2>2. [DOMAIN v -> Scalars(a.type)] \subseteq Values(a.type, 1)
    BY <1>1, <1>5, ArrayFacts
  <2>3. a.type.zero \in Scalars(a.type)
    BY <1>1, ScalarsAre
  <2>4. QED
    BY <1>2, <2>1, <2>2, <2>3
<1>6. QED
  BY <1>1, <1>3, <1>4, <1>5

\* And so is whatever it leaves there.
LEMMA LeftHeld ==
  ASSUME TypesAssumption, NEW c, Proper(c), NEW k \in 1..Count(c),
         NEW left \in Left(c.method.args[k], Receives(c, k))
  PROVE  left \in Held
<1> DEFINE a == c.method.args[k]
           v == Receives(c, k)
<1>1. /\ a.type \in Types /\ a.dimension \in {0, 1} /\ v \in Held
      /\ a.dimension = 1 => v \in Values(a.type, 1)
  BY ArgumentFacts, ReceivesHeld
<1>2. Values(a.type, 1) \subseteq Held /\ Contents \subseteq Held
  BY <1>1 DEF Held
<1> HIDE DEF v
<1>3. CASE v = Null \/ (a.dimension = 0 /\ ~a.type.canBeOut)
  BY <1>1, <1>3 DEF Left, v
<1>4. CASE v # Null /\ a.dimension = 1
  <2>1. [DOMAIN v -> Scalars(a.type)] \subseteq Values(a.type, 1)
    BY <1>1, <1>4, ArrayFacts
  <2>2. QED
    BY <1>2, <1>4, <2>1 DEF Left, v
<1>5. CASE v # Null /\ a.dimension = 0 /\ a.type.canBeOut
  BY <1>1, <1>2, <1>5 DEF Left, v
<1>6. QED
  BY <1>1, <1>3, <1>4, <1>5

\* So is a result.
LEMMA ResultsHeld ==
  ASSUME NEW c, Proper(c), NEW result \in Results(c.method)
  PROVE  result \in Held
<1> DEFINE r == c.method.returns[1]
<1>1. CASE Void(c.method)
  BY <1>1 DEF Results, Held
<1>2. CASE ~Void(c.method)
  <2>1. r.dimension \in {0, 1} /\ r.type \in Types
    BY <1>2, MethodFacts DEF Proper
  <2>2. result \in Values(r.type, r.dimension)
    BY <1>2 DEF Results
  <2>3. QED
    BY <2>1, <2>2 DEF Held
<1>3. QED
  BY <1>1, <1>2

\* What is sent for an argument is words.
LEMMA SentWords ==
  ASSUME TypesAssumption, NEW c, Proper(c), NEW k \in 1..Count(c)
  PROVE  SentOf(c)[k] \in Seq(Wire)
<1> DEFINE a == c.method.args[k]
           v == c.args[k]
<1>1. /\ a.type \in Types /\ a.dimension \in {0, 1} /\ v \in Held
      /\ v \in Values(a.type, a.dimension)
  BY ArgumentFacts
<1>2. Written(a.type, a.dimension, v) \in Seq(Wire)
  BY <1>1, WrittenWords
<1>3. SentOf(c)[k] = Sent(a, v)
  BY DEF SentOf
<1>4. CASE a.direction = "out" /\ a.dimension # 0
  <2>1. (IF v = Null THEN -1 ELSE Len(v)) \in Int
    BY <1>1, <1>4, ArrayFacts
  <2>2. PICK n \in Int : n = IF v = Null THEN -1 ELSE Len(v)
    BY <2>1
  <2>3. Word("Int", n) \in Wire
    BY DEF Word, Wire, Kinds
  <2> HIDE DEF a, v
  <2>4. Sent(a, v) = <<Word("Int", n)>>
    <3>1. Sent(a, v) = <<Word("Int", IF v = Null THEN -1 ELSE Len(v))>>
      BY <1>4 DEF Sent
    <3>2. QED
      BY <2>2, <3>1
  <2>5. QED
    BY <1>3, <2>3, <2>4
<1>5. CASE ~(a.direction = "out" /\ a.dimension # 0)
  BY <1>2, <1>3, <1>5 DEF Sent
<1>6. QED
  BY <1>4, <1>5

\* What is sent back is words.
LEMMA BackWords ==
  ASSUME TypesAssumption, NEW c, Proper(c), NEW run, ProperRun(c, run), ~run.threw
  PROVE  /\ Answered(c, run) \in Seq(Wire)
         /\ \A k \in 1..Count(c) : Backs(c, run)[k] \in Seq(Wire)
<1>1. Answered(c, run) \in Seq(Wire)
  <2>1. CASE Void(c.method)
    BY <2>1 DEF Answered
  <2>2. CASE ~Void(c.method)
    <3> DEFINE r == c.method.returns[1]
    <3>1. r.dimension \in {0, 1} /\ r.type \in Types
      BY <2>2, MethodFacts DEF Proper
    <3>2. run.result \in Held
      BY ResultsHeld DEF ProperRun
    <3>3. QED
      BY <2>2, <3>1, <3>2, WrittenWords DEF Answered
  <2>3. QED
    BY <2>1, <2>2
<1>2. ASSUME NEW k \in 1..Count(c) PROVE Backs(c, run)[k] \in Seq(Wire)
  <2> DEFINE a == c.method.args[k]
  <2>1. a.type \in Types /\ a.dimension \in {0, 1}
    BY ArgumentFacts
  <2>2. run.left[k] \in Held
    BY LeftHeld DEF ProperRun
  <2>3. Written(a.type, a.dimension, run.left[k]) \in Seq(Wire)
    BY <2>1, <2>2, WrittenWords
  <2>4. QED
    BY <2>3 DEF Backs
<1>3. QED
  BY <1>1, <1>2

-----------------------------------------------------------------------------
(* What one side reads is what the other wrote.                            *)

\* Reading the argument k off p gives what it should, and leaves the rest.
ReadsArgument(c, k, p, rest) ==
  LET a == c.method.args[k]
  IN  /\ Incoming(a) => /\ Created(a.type, a.dimension, p) = Receives(c, k)
                        /\ Dropped(p, Width(a.type, a.dimension, p)) = rest
      /\ ~Incoming(a) /\ a.dimension = 0 => New = Receives(c, k) /\ p = rest
      /\ ~Incoming(a) /\ a.dimension = 1
           => NewArray(a.type, p) = Receives(c, k) /\ Dropped(p, 1) = rest

\* The same of the result.
ReadsResult(c, run, p, rest) ==
  LET r == c.method.returns[1]
  IN  /\ Void(c.method) => run.result = Null /\ p = rest
      /\ ~Void(c.method) => /\ Created(r.type, r.dimension, p) = run.result
                            /\ Dropped(p, Width(r.type, r.dimension, p)) = rest

\* And of an out argument, which is read into the caller's object.
ReadsOut(c, run, k, p, rest) ==
  LET a == c.method.args[k]
  IN  /\ ~Outgoing(a) => p = rest
      /\ Outgoing(a) /\ ReadThrows(a.type, a.dimension, c.args[k], p)
           => c.args[k] = Null
      /\ Outgoing(a) /\ ~ReadThrows(a.type, a.dimension, c.args[k], p)
           => /\ ReadInto(a.type, a.dimension, c.args[k], p) = run.left[k]
              /\ Dropped(p, Width(a.type, a.dimension, p)) = rest

\* The stub reads an argument, or makes the object or array the caller has.
LEMMA ArgumentRead ==
  ASSUME TypesAssumption, NEW c, Proper(c), NEW k \in 1..Count(c),
         NEW rest \in Seq(Wire), NEW p, p = SentOf(c)[k] \o rest
  PROVE  ReadsArgument(c, k, p, rest)
<1> DEFINE a == c.method.args[k]
           v == c.args[k]
<1>1. /\ a.type \in Types /\ Coherent(a.type) /\ a.dimension \in {0, 1}
      /\ AcceptedArg(a) /\ v \in Held /\ v \in Values(a.type, a.dimension)
  BY ArgumentFacts
<1>2. SentOf(c)[k] = Sent(a, v) /\ SentOf(c)[k] \in Seq(Wire)
  BY SentWords DEF SentOf
<1>3. CASE Incoming(a)
  <2>1. Sent(a, v) = Written(a.type, a.dimension, v)
    BY <1>3 DEF Sent, Incoming
  <2>2. Holds(a.type, a.dimension, v)
    BY <1>1, ScalarsAre DEF Holds, Values
  <2>3. Written(a.type, a.dimension, v) \in Seq(Wire)
    BY <1>2, <2>1
  <2>4. /\ Created(a.type, a.dimension, p) = v
        /\ Dropped(p, Width(a.type, a.dimension, p)) = rest
    <3> HIDE DEF a, v
    <3>1. p = Written(a.type, a.dimension, v) \o rest
      BY <1>2, <2>1
    <3>2. QED
      BY <1>1, <2>2, <2>3, <3>1, ValuesAssumption, WrittenIsCreated
  <2>5. QED
    BY <1>3, <2>4 DEF Receives, ReadsArgument
<1>4. CASE ~Incoming(a) /\ a.dimension = 0
  <2>1. Sent(a, v) = <<>>
    BY <1>4 DEF Sent
  <2>2. QED
    BY <1>2, <1>4, <2>1, ConcatEmptySeq DEF Receives, Remote!Fresh, ReadsArgument
<1>5. CASE ~Incoming(a) /\ a.dimension = 1
  <2>1. a.direction = "out"
    BY <1>1, <1>5 DEF AcceptedArg, Incoming
  <2>2. (IF v = Null THEN -1 ELSE Len(v)) \in Int /\ (v # Null => Len(v) >= 0)
    BY <1>1, <1>5, ArrayFacts
  <2>3. PICK n \in Int : n = IF v = Null THEN -1 ELSE Len(v)
    BY <2>2
  <2>4. Sent(a, v) = <<Word("Int", n)>>
    <3> HIDE DEF a, v
    <3>1. Sent(a, v) = <<Word("Int", IF v = Null THEN -1 ELSE Len(v))>>
      BY <1>5, <2>1 DEF Sent
    <3>2. QED
      BY <2>3, <3>1
  <2>5. Word("Int", n) \in Wire
    BY DEF Word, Wire, Kinds
  <2>6. p # <<>> /\ Head(p) = Word("Int", n) /\ Dropped(p, 1) = rest
    BY <1>2, <2>4, <2>5, OneWord
  <2>7. Take(p, "Int", FALSE) = n
    BY <2>6 DEF Take, Word
  <2>8. NewArray(a.type, p) = IF n < 0 THEN Null ELSE [i \in 1..n |-> a.type.zero]
    BY <2>7 DEF NewArray
  <2>9. v = Null => n < 0
    BY <2>3
  <2>10. v # Null => ~(n < 0) /\ DOMAIN v = 1..n
    BY <1>1, <1>5, <2>2, <2>3, ArrayFacts
  <2>11. Receives(c, k) = IF v = Null THEN Null ELSE [i \in DOMAIN v |-> a.type.zero]
    BY <1>5 DEF Receives, Remote!Fresh
  <2>12. NewArray(a.type, p) = Receives(c, k)
    <3> HIDE DEF a, v
    <3>1. CASE v = Null
      BY <2>8, <2>9, <2>11, <3>1
    <3>2. CASE v # Null
      BY <2>8, <2>10, <2>11, <3>2
    <3>3. QED
      BY <3>1, <3>2
  <2>13. QED
    BY <1>5, <2>6, <2>12 DEF ReadsArgument
<1>6. QED
  BY <1>1, <1>3, <1>4, <1>5

\* The proxy reads the result.
LEMMA ResultRead ==
  ASSUME TypesAssumption, NEW c, Proper(c), NEW run, ProperRun(c, run), ~run.threw,
         NEW rest \in Seq(Wire), NEW p, p = Answered(c, run) \o rest
  PROVE  ReadsResult(c, run, p, rest)
<1>1. CASE Void(c.method)
  BY <1>1, ConcatEmptySeq DEF Answered, ProperRun, Results, ReadsResult
<1>2. CASE ~Void(c.method)
  <2> DEFINE r == c.method.returns[1]
             v == run.result
  <2>1. r.dimension \in {0, 1} /\ r.type \in Types
    BY <1>2, MethodFacts DEF Proper
  <2>2. Coherent(r.type) /\ v \in Values(r.type, r.dimension)
    BY <1>2, <2>1 DEF ProperRun, Results, TypesAssumption
  <2>3. Holds(r.type, r.dimension, v)
    BY <2>2, ScalarsAre DEF Holds, Values
  <2>4. Answered(c, run) = Written(r.type, r.dimension, v)
    BY <1>2 DEF Answered
  <2>5. Written(r.type, r.dimension, v) \in Seq(Wire)
    BY <2>4, BackWords
  <2>6. /\ Created(r.type, r.dimension, p) = v
        /\ Dropped(p, Width(r.type, r.dimension, p)) = rest
    <3> HIDE DEF r, v
    <3>1. p = Written(r.type, r.dimension, v) \o rest
      BY <2>4
    <3>2. QED
      BY <2>1, <2>2, <2>3, <2>5, <3>1, ValuesAssumption, WrittenIsCreated
  <2>7. QED
    BY <1>2, <2>6 DEF ReadsResult
<1>3. QED
  BY <1>1, <1>2

\* The proxy reads an out argument into the object the caller gave, which makes
\* it what the implementation left; a caller that gave none gets an exception,
\* unless the implementation was given none either.
LEMMA OutRead ==
  ASSUME TypesAssumption, NEW c, Proper(c), NEW run, ProperRun(c, run), ~run.threw,
         NEW k \in 1..Count(c), NEW rest \in Seq(Wire), NEW p,
         p = Backs(c, run)[k] \o rest
  PROVE  ReadsOut(c, run, k, p, rest)
<1> DEFINE a == c.method.args[k]
           v == c.args[k]
           left == run.left[k]
<1>1. /\ a.type \in Types /\ Coherent(a.type) /\ a.dimension \in {0, 1}
      /\ AcceptedArg(a) /\ left \in Left(a, Receives(c, k))
  BY ArgumentFacts DEF ProperRun
<1>2. CASE ~Outgoing(a)
  BY <1>2, ConcatEmptySeq DEF Backs, ReadsOut
<1>3. CASE Outgoing(a)
  <2>1. a.dimension = 1 \/ a.type.canBeOut
    BY <1>1, <1>3 DEF AcceptedArg
  <2>2. /\ Backs(c, run)[k] = Written(a.type, a.dimension, left)
        /\ Written(a.type, a.dimension, left) \in Seq(Wire)
    BY <1>3, BackWords DEF Backs
  <2>3. a.dimension = 0 /\ left = Null => v = Null
    <3>1. CASE a.dimension = 0 /\ Receives(c, k) # Null
      <4>1. left \in Contents \/ left = Receives(c, k)
        BY <1>1, <2>1, <3>1 DEF Left
      <4>2. QED
        BY <3>1, <4>1, ValuesAssumption
    <3>2. CASE a.dimension = 0 /\ Receives(c, k) = Null
      BY <3>2, ValuesAssumption DEF Receives, Remote!Fresh
    <3>3. QED
      BY <3>1, <3>2
  <2> HIDE DEF a, v, left
  <2>4. p = Written(a.type, a.dimension, left) \o rest
    BY <2>2 DEF a
  <2>5. /\ ReadInto(a.type, a.dimension, v, p)
             = IF a.dimension = 0 /\ a.type.presence /\ left = Null THEN v ELSE left
        /\ Dropped(p, Width(a.type, a.dimension, p)) = rest
    BY <1>1, <2>1, <2>2, <2>4, ValuesAssumption, WrittenIsRead
  <2>6. ReadInto(a.type, a.dimension, v, p) = left
    BY <2>3, <2>5
  <2>7. ReadThrows(a.type, a.dimension, v, p) => v = Null
    BY DEF ReadThrows
  <2>8. QED
    BY <1>3, <2>5, <2>6, <2>7 DEF a, v, left, ReadsOut
<1>4. QED
  BY <1>2, <1>3

-----------------------------------------------------------------------------
(* The stages of a call.                                                   *)

Token == Word("Token", "DESCRIPTOR")

AllSent(c) == Count(c) + 1

\* The words are the reply to a run, from its result on.
IsAnswer(c, run, words) ==
  \E rest \in Seq(Wire) : /\ words = Answered(c, run) \o rest
                          /\ Joined(rest, Backs(c, run), 1, AllSent(c), Wire)

\* They are a whole reply.
IsReply(c, run, words) ==
  IF run.threw THEN words = <<Word("Exception", 1)>>
  ELSE \E rest \in Seq(Wire) : /\ words = <<Word("Exception", 0)>> \o rest
                               /\ IsAnswer(c, run, rest)

\* They are a request, of the arguments before k.
IsRequest(c, k, words) ==
  \E rest \in Seq(Wire) : /\ words = <<Token>> \o rest
                          /\ Joined(rest, SentOf(c), 1, k, Wire)

\* A class loader variable that is used is declared, once, unless the pointer had
\* been set in another method.
Declared(scope, setBefore) ==
  scope \in {[declared |-> 0, used |-> FALSE],
             [declared |-> IF setBefore THEN 0 ELSE 1, used |-> TRUE]}

\* The variable of the proxy: the arguments of the stub come before it.
ProxyLoaderOK == Declared(proxyCl, ClSetAtResult(method))

\* The call is one of a method of the interface.
CallOK ==
  /\ face \in Interfaces /\ call.index \in DOMAIN face
  /\ call.method = face[call.index] /\ Proper(call)

\* The implementation has run once at most, as it should.
RunsOK ==
  /\ runs # <<>> => Len(runs) = 1 /\ ProperRun(call, runs[1])
  /\ cpc \in {"token", "params"} => runs = <<>> /\ spc = (IF dead THEN "dead" ELSE "idle")
  /\ spc \in {"idle", "dispatch", "enforce", "args"} => runs = <<>>
  /\ spc \in {"noException", "outs", "return"} => runs # <<>>

\* Nothing has come back to the caller.
NothingBack ==
  callResult = Null /\ params = call.args /\ thrown = FALSE /\ proxyCl = NoLoader

\* The run has answered.
Returned == runs # <<>> /\ ~runs[1].threw /\ ~method.oneway

\* The caller gave no object for the out argument k, and those before it have
\* been filled.
StoppedAt(k) ==
  /\ Outgoing(call.method.args[k]) /\ call.args[k] = Null
  /\ params = Filled(call, runs[1], k)

Stopped == \E k \in 1..Count(call) : StoppedAt(k)

\* How a call ends.
Ending ==
  \/ /\ ~thrown /\ method.oneway
     /\ callResult = Null /\ params = call.args /\ reply = <<>>
  \/ /\ ~thrown /\ Returned
     /\ callResult = runs[1].result /\ reply = <<>>
     /\ params = Filled(call, runs[1], AllSent(call))
  \/ thrown /\ params = call.args /\ (dead \/ (runs # <<>> /\ runs[1].threw))
  \/ thrown /\ runs # <<>> /\ ~runs[1].threw /\ Stopped

CallerOK ==
  /\ params \in [1..Count(call) -> Held] /\ callResult \in Held
  /\ thrown \in BOOLEAN /\ ProxyLoaderOK
  /\ cpc \in {"token", "params", "wait", "exception", "result", "outs", "finally", "done"}
  /\ cpc \in {"token", "params", "wait", "exception", "result"} => NothingBack
  /\ cpc \in {"token", "params", "wait"} => reply = <<>>
  /\ cpc \in {"wait", "exception"} => ~method.oneway
  /\ cpc = "token" => ck = 1
  /\ cpc = "params" => ck \in 1..AllSent(call) /\ IsRequest(call, ck, data)
  /\ cpc = "exception" => runs # <<>> /\ IsReply(call, runs[1], reply)
  /\ cpc = "result" => Returned /\ ck = 1 /\ IsAnswer(call, runs[1], reply)
  /\ cpc = "outs" =>
       /\ Returned /\ ~thrown
       /\ ck \in 1..AllSent(call) /\ callResult = runs[1].result
       /\ params = Filled(call, runs[1], ck)
       /\ Joined(reply, Backs(call, runs[1]), ck, AllSent(call), Wire)
       /\ proxyCl.used <=> ResultNeeds(method) \/ \E j \in OutNeeds(method) : j < ck
  /\ cpc \in {"finally", "done"} => Ending

StubOK ==
  /\ \A k \in DOMAIN locals : locals[k] \in Held
  /\ Declared(stubCl, FALSE)
  /\ spc \in {"idle", "dispatch", "enforce", "args", "noException", "outs", "return",
              "sent", "dead"}
  /\ spc \in {"idle", "dispatch", "enforce"}
       => sk = 1 /\ locals = <<>> /\ stubCl = NoLoader
  /\ spc = "dispatch" => code = TransactionCode(call.index)
  /\ spc \in {"dispatch", "enforce"} => IsRequest(call, AllSent(call), request)
  /\ spc \in {"enforce", "args", "noException", "outs"} => served = call.index
  /\ spc = "args" =>
       /\ sk \in 1..AllSent(call)
       /\ Joined(request, SentOf(call), sk, AllSent(call), Wire)
       /\ locals \in Seq(Held) /\ Len(locals) = sk - 1
       /\ \A k \in 1..(sk - 1) : locals[k] = Receives(call, k)
       /\ stubCl.used <=> \E j \in StubNeeds(method) : j < sk
  /\ spc \in {"noException", "outs"} => ~runs[1].threw /\ locals = runs[1].left
  /\ spc = "noException" => stubResult = runs[1].result
  /\ spc = "outs" =>
       /\ sk \in 1..AllSent(call)
       /\ ~method.oneway =>
            \E rest \in Seq(Wire) :
              /\ out = (<<Word("Exception", 0)>> \o Answered(call, runs[1])) \o rest
              /\ Joined(rest, Backs(call, runs[1]), 1, sk, Wire)
  /\ spc = "return" /\ ~method.oneway => IsReply(call, runs[1], out)

BinderInv == CallOK /\ RunsOK /\ CallerOK /\ StubOK

-----------------------------------------------------------------------------
(* Every step keeps the invariant.                                         *)

LEMMA CallFacts ==
  ASSUME CallOK
  PROVE  /\ Proper(call) /\ Count(call) \in Nat /\ AllSent(call) \in Nat \ {0}
         /\ DOMAIN method.args = 1..Count(call) /\ Compiles(method)
         /\ call.index \in Nat \ {0}
<1>1. IsMethod(call.method) /\ Proper(call)
  BY DEF CallOK, Proper
<1>2. call.index \in Nat \ {0}
  BY InterfacesAssumption DEF CallOK
<1>3. QED
  BY <1>1, <1>2, MethodFacts DEF Count, AllSent, method

\* What is said of the class loader variable of the proxy, and of the argument its
\* end came at, stays when these do.
LEMMA ProxyLoaderStays == ProxyLoaderOK /\ UNCHANGED <<call, proxyCl>> => ProxyLoaderOK'
BY DEF ProxyLoaderOK, method

LEMMA StoppedStays == UNCHANGED <<call, runs, params>> => (Stopped' <=> Stopped)
BY DEF Stopped, StoppedAt

\* The first word of a request.
LEMMA RequestStarts == ASSUME NEW c PROVE IsRequest(c, 1, <<Token>>)
<1>1. Joined(<<>>, SentOf(c), 1, 1, Wire)
  BY JoinNone
<1>2. <<>> \in Seq(Wire)
  BY EmptySeq
<1>3. <<Token>> \o <<>> = <<Token>>
  OBVIOUS
<1>4. QED
  BY <1>1, <1>2, <1>3 DEF IsRequest

\* The words of an argument behind those of the ones before.
LEMMA RequestGrows ==
  ASSUME TypesAssumption, NEW c, Proper(c), NEW k \in 1..Count(c), NEW words,
         IsRequest(c, k, words)
  PROVE  IsRequest(c, k + 1, words \o SentOf(c)[k])
<1>1. PICK rest \in Seq(Wire) : /\ words = <<Token>> \o rest
                                /\ Joined(rest, SentOf(c), 1, k, Wire)
  BY DEF IsRequest
<1>2. PICK parts : parts = SentOf(c)
  OBVIOUS
<1>3. Count(c) \in Nat /\ \A i \in 1..k : parts[i] \in Seq(Wire)
  BY <1>2, ArgumentFacts, SentWords
<1>4. Joined(rest \o parts[k], parts, 1, k + 1, Wire)
  <2>1. Joined(rest, parts, 1, k, Wire) /\ k \in Int /\ 1 <= k
    BY <1>1, <1>2, <1>3
  <2>2. QED
    BY <1>3, <2>1, JoinOneMore
<1>5. PICK part \in Seq(Wire) : part = parts[k]
  BY <1>3
<1>6. Token \in Wire
  BY DEF Token, Word, Wire, Kinds
<1>7. <<Token>> \in Seq(Wire)
  BY <1>6
<1>8. PICK first \in Seq(Wire) : first = <<Token>>
  BY <1>7, Zenon
<1>9. (first \o rest) \o part = first \o (rest \o part) /\ rest \o part \in Seq(Wire)
  BY ConcatAssociative, ConcatProperties
<1>10. QED
  BY <1>1, <1>2, <1>4, <1>5, <1>8, <1>9 DEF IsRequest

\* The words a result and the out arguments before k make, and one more.
LEMMA ReplyGrows ==
  ASSUME TypesAssumption, NEW c, Proper(c), NEW run, ProperRun(c, run), ~run.threw,
         NEW k \in 1..Count(c), NEW head \in Seq(Wire), NEW words, NEW rest \in Seq(Wire),
         words = head \o rest, Joined(rest, Backs(c, run), 1, k, Wire)
  PROVE  \E more \in Seq(Wire) : /\ words \o Backs(c, run)[k] = head \o more
                                 /\ Joined(more, Backs(c, run), 1, k + 1, Wire)
<1>1. PICK parts : parts = Backs(c, run)
  OBVIOUS
<1>2. Count(c) \in Nat /\ \A i \in 1..k : parts[i] \in Seq(Wire)
  BY <1>1, ArgumentFacts, BackWords
<1>3. Joined(rest \o parts[k], parts, 1, k + 1, Wire)
  BY <1>1, <1>2, JoinOneMore
<1>4. PICK part \in Seq(Wire) : part = parts[k]
  BY <1>2
<1>5. (head \o rest) \o part = head \o (rest \o part) /\ rest \o part \in Seq(Wire)
  BY ConcatAssociative, ConcatProperties
<1>6. QED
  BY <1>1, <1>3, <1>4, <1>5

\* The token in front of a request is the one the stub asks for.
LEMMA RequestOpens ==
  ASSUME NEW c, NEW words, IsRequest(c, AllSent(c), words)
  PROVE  /\ Take(words, "Token", FALSE) = "DESCRIPTOR"
         /\ Joined(Dropped(words, 1), SentOf(c), 1, AllSent(c), Wire)
<1>1. PICK rest \in Seq(Wire) : /\ words = <<Token>> \o rest
                                /\ Joined(rest, SentOf(c), 1, AllSent(c), Wire)
  BY DEF IsRequest
<1>2. Token \in Wire
  BY DEF Token, Word, Wire, Kinds
<1>3. words # <<>> /\ Head(words) = Token /\ Dropped(words, 1) = rest
  BY <1>1, <1>2, OneWord
<1>4. QED
  BY <1>1, <1>3 DEF Take, Token, Word

\* The exception word in front of a reply: the run has thrown.
LEMMA ReplyThrows ==
  ASSUME NEW c, NEW run, run.threw, NEW words, IsReply(c, run, words)
  PROVE  Take(words, "Exception", FALSE) # 0
<1>1. words = <<Word("Exception", 1)>>
  BY DEF IsReply
<1>2. words # <<>> /\ Head(words) = Word("Exception", 1)
  BY <1>1
<1>3. QED
  BY <1>2 DEF Take, Word

\* It has not, and its answer follows.
LEMMA ReplyReturns ==
  ASSUME NEW c, NEW run, ~run.threw, NEW words, IsReply(c, run, words)
  PROVE  /\ Take(words, "Exception", FALSE) = 0
         /\ IsAnswer(c, run, Dropped(words, 1))
<1>1. PICK rest \in Seq(Wire) : /\ words = <<Word("Exception", 0)>> \o rest
                                /\ IsAnswer(c, run, rest)
  BY DEF IsReply
<1>2. Word("Exception", 0) \in Wire
  BY DEF Word, Wire, Kinds
<1>3. /\ words # <<>> /\ Head(words) = Word("Exception", 0)
      /\ Dropped(words, 1) = rest
  BY <1>1, <1>2, OneWord
<1>4. QED
  BY <1>1, <1>3 DEF Take, Word

\* The call and the interface stay.
LEMMA CallStays == CallOK /\ Fixed => CallOK'
BY DEF CallOK, Fixed

\* A step of the caller leaves the stub.
LEMMA StubStays == StubOK /\ Fixed /\ UNCHANGED <<runs, stub>> => StubOK'
<1> SUFFICES ASSUME StubOK, Fixed, UNCHANGED <<runs, stub>> PROVE StubOK'
  OBVIOUS
<1>1. /\ call' = call /\ runs' = runs /\ spc' = spc /\ sk' = sk /\ code' = code
      /\ served' = served /\ request' = request /\ locals' = locals
      /\ stubResult' = stubResult /\ out' = out /\ stubCl' = stubCl
  BY DEF Fixed, stub
<1>2. QED
  BY <1>1 DEF StubOK, method

\* A step of the stub leaves the caller.
LEMMA CallerStays == CallerOK /\ Fixed /\ UNCHANGED <<runs, dead, caller>> => CallerOK'
<1> SUFFICES ASSUME CallerOK, Fixed, UNCHANGED <<runs, dead, caller>> PROVE CallerOK'
  OBVIOUS
<1>1. /\ call' = call /\ runs' = runs /\ dead' = dead /\ cpc' = cpc /\ ck' = ck
      /\ params' = params /\ data' = data /\ reply' = reply
      /\ callResult' = callResult /\ thrown' = thrown /\ proxyCl' = proxyCl
  BY DEF Fixed, caller
<1>2. NothingBack' <=> NothingBack
  BY <1>1 DEF NothingBack
<1>3. Returned' <=> Returned
  BY <1>1 DEF Returned, method
<1>4. Ending' <=> Ending
  BY <1>1, <1>3, StoppedStays DEF Ending, method
<1>5. ProxyLoaderOK => ProxyLoaderOK'
  BY <1>1, ProxyLoaderStays
<1>6. QED
  BY <1>1, <1>2, <1>3, <1>4, <1>5 DEF CallerOK, method

\* At the start nothing has been sent.
LEMMA BinderInit == Init => BinderInv
<1> SUFFICES ASSUME Init PROVE BinderInv
  OBVIOUS
<1>1. PICK i \in DOMAIN face :
        \E args \in Tuples([k \in DOMAIN face[i].args |->
                              Values(face[i].args[k].type, face[i].args[k].dimension)]) :
          call = [method |-> face[i], index |-> i, args |-> args]
  BY DEF Init
<1> DEFINE m == face[i]
           sets == [k \in DOMAIN m.args |-> Values(m.args[k].type, m.args[k].dimension)]
<1>2. PICK args \in Tuples(sets) : call = [method |-> m, index |-> i, args |-> args]
  BY <1>1
<1>3. face \in Interfaces /\ IsMethod(m)
  BY DEF Init, IsMethod
<1>4. /\ Len(m.args) \in Nat /\ DOMAIN m.args = 1..Len(m.args)
      /\ \A k \in DOMAIN m.args : m.args[k].dimension \in {0, 1} /\ m.args[k].type \in Types
  BY <1>3, MethodFacts DEF AcceptedArg
<1>5. /\ DOMAIN args = DOMAIN m.args /\ args = [k \in DOMAIN m.args |-> args[k]]
      /\ \A k \in DOMAIN m.args : args[k] \in Values(m.args[k].type, m.args[k].dimension)
  BY InTuples
<1>6. \A k \in DOMAIN m.args : args[k] \in Held
  BY <1>4, <1>5 DEF Held
<1>7. args \in [1..Len(m.args) -> Held]
  <2> HIDE DEF m
  <2>1. QED
    BY <1>4, <1>5, <1>6
<1>8. CallOK
  BY <1>2, <1>3, <1>4, <1>5, <1>7 DEF CallOK, Proper, Count
<1>9. RunsOK
  BY DEF Init, RunsOK
<1>10. CallerOK
  <2>1. params \in [1..Count(call) -> Held] /\ callResult \in Held
    BY <1>2, <1>7 DEF Init, Count, Held
  <2>2. ProxyLoaderOK
    BY DEF Init, ProxyLoaderOK, Declared, NoLoader
  <2>3. QED
    BY <2>1, <2>2 DEF Init, CallerOK, NothingBack
<1>11. StubOK
  BY DEF Init, StubOK, Declared, NoLoader
<1>12. QED
  BY <1>8, <1>9, <1>10, <1>11 DEF BinderInv

LEMMA WriteTokenOK == BinderInv /\ WriteToken => BinderInv'
<1> SUFFICES ASSUME BinderInv, WriteToken PROVE BinderInv'
  OBVIOUS
<1> USE DEF BinderInv, WriteToken
<1>1. CallOK' /\ StubOK'
  BY CallStays, StubStays
<1>2. RunsOK'
  BY DEF RunsOK, Fixed, stub
<1>3. IsRequest(call, 1, data')
  BY RequestStarts DEF Token
<1>4. ProxyLoaderOK'
  BY ProxyLoaderStays DEF CallerOK, Fixed
<1>5. CallerOK'
  BY <1>3, <1>4, CallFacts DEF CallerOK, NothingBack, Fixed, AllSent, method
<1>6. QED
  BY <1>1, <1>2, <1>5

LEMMA WriteParamOK == TypesAssumption /\ BinderInv /\ WriteParam => BinderInv'
<1> SUFFICES ASSUME TypesAssumption, BinderInv, WriteParam PROVE BinderInv'
  OBVIOUS
<1> USE DEF BinderInv, WriteParam
<1>1. CallOK' /\ StubOK'
  BY CallStays, StubStays
<1>2. RunsOK'
  BY DEF RunsOK, Fixed, stub
<1>3. /\ ck \in 1..Count(call) /\ ck + 1 \in 1..AllSent(call) /\ params[ck] = call.args[ck]
  BY CallFacts DEF CallerOK, NothingBack, AllSent
<1>4. IsRequest(call, ck + 1, data')
  <2>1. SentOf(call)[ck] = Sent(method.args[ck], params[ck])
    BY <1>3 DEF SentOf, method
  <2>2. IsRequest(call, ck, data)
    BY DEF CallerOK
  <2>3. QED
    BY <1>3, <2>1, <2>2, CallFacts, RequestGrows
<1>5. CallerOK'
  <2>1. /\ call' = call /\ cpc' = "params" /\ ck' = ck + 1 /\ params' = params
        /\ reply' = reply /\ callResult' = callResult /\ thrown' = thrown
        /\ proxyCl' = proxyCl
    BY DEF Fixed
  <2>2. NothingBack'
    BY <2>1 DEF CallerOK, NothingBack
  <2>3. ProxyLoaderOK'
    BY <2>1, ProxyLoaderStays DEF CallerOK
  <2>4. QED
    BY <1>3, <1>4, <2>1, <2>2, <2>3 DEF CallerOK
<1>6. QED
  BY <1>1, <1>2, <1>5

LEMMA TransactOK == BinderInv /\ Transact => BinderInv'
<1> SUFFICES ASSUME BinderInv, Transact PROVE BinderInv'
  OBVIOUS
<1> USE DEF BinderInv, Transact
<1>1. CallOK'
  BY CallStays
<1>2. ck = AllSent(call) /\ spc = "idle"
  BY CallFacts DEF CallerOK, RunsOK, AllSent
<1>3. RunsOK'
  BY DEF RunsOK, Fixed
<1>4. /\ call' = call /\ runs' = runs /\ dead' = dead /\ params' = params
      /\ callResult' = callResult /\ thrown' = thrown /\ proxyCl' = proxyCl
      /\ reply' = reply
  BY DEF Fixed
<1>5. CallerOK'
  <2>1. NothingBack /\ reply = <<>>
    BY DEF CallerOK
  <2>2. NothingBack'
    BY <1>4, <2>1 DEF NothingBack
  <2>3. method.oneway => Ending'
    BY <1>4, <2>1 DEF NothingBack, Ending, method
  <2>4. /\ params' \in [1..Count(call') -> Held] /\ callResult' \in Held
        /\ thrown' \in BOOLEAN /\ ProxyLoaderOK'
    BY <1>4, ProxyLoaderStays DEF CallerOK
  <2>5. (cpc' = "finally" /\ method.oneway) \/ (cpc' = "wait" /\ ~method'.oneway)
    BY <1>4 DEF method
  <2>6. QED
    BY <1>4, <2>1, <2>2, <2>3, <2>4, <2>5 DEF CallerOK
<1>6. StubOK'
  <2>1. IsRequest(call, AllSent(call), data)
    BY <1>2 DEF CallerOK
  <2>2. /\ sk' = sk /\ locals' = locals /\ stubCl' = stubCl /\ request' = data
        /\ spc' = "dispatch" /\ code' = TransactionCode(call.index)
    OBVIOUS
  <2>3. QED
    BY <1>2, <1>4, <2>1, <2>2 DEF StubOK
<1>7. QED
  BY <1>1, <1>3, <1>5, <1>6

LEMMA TransactFailsOK == BinderInv /\ TransactFails => BinderInv'
<1> SUFFICES ASSUME BinderInv, TransactFails PROVE BinderInv'
  OBVIOUS
<1> USE DEF BinderInv, TransactFails
<1>1. CallOK' /\ StubOK'
  BY CallStays, StubStays
<1>2. RunsOK'
  BY DEF RunsOK, Fixed, stub
<1>3. Ending'
  BY DEF CallerOK, NothingBack, Ending, Fixed
<1>4. ProxyLoaderOK'
  BY ProxyLoaderStays DEF CallerOK, Fixed
<1>5. CallerOK'
  BY <1>3, <1>4 DEF CallerOK, Fixed
<1>6. QED
  BY <1>1, <1>2, <1>5

LEMMA ReadExceptionOK == BinderInv /\ ReadException => BinderInv'
<1> SUFFICES ASSUME BinderInv, ReadException PROVE BinderInv'
  OBVIOUS
<1> USE DEF BinderInv, ReadException
<1>1. CallOK' /\ StubOK'
  BY CallStays, StubStays
<1>2. RunsOK'
  BY DEF RunsOK, Fixed, stub
<1>3. /\ call' = call /\ runs' = runs /\ dead' = dead /\ params' = params
      /\ callResult' = callResult /\ proxyCl' = proxyCl
  BY DEF Fixed
<1>4. /\ runs # <<>> /\ IsReply(call, runs[1], reply) /\ ~method.oneway /\ NothingBack
  BY DEF CallerOK
<1>5. /\ params' \in [1..Count(call') -> Held] /\ callResult' \in Held
      /\ ProxyLoaderOK'
  BY <1>3, ProxyLoaderStays DEF CallerOK
<1>6. CASE runs[1].threw
  <2>2. Take(reply, "Exception", FALSE) # 0
    BY <1>4, <1>6, ReplyThrows
  <2>5. thrown' = TRUE
    BY <2>2, Zenon
  <2>6. cpc' = "finally"
    BY <2>5
  <2>3. Ending'
    BY <1>3, <1>4, <1>6, <2>5 DEF Ending, NothingBack
  <2>7. CallerOK'
    BY <1>5, <2>3, <2>5, <2>6 DEF CallerOK
  <2>8. QED
    BY <1>1, <1>2, <2>7
<1>7. CASE ~runs[1].threw
  <2>1. thrown' = FALSE /\ cpc' = "result" /\ IsAnswer(call, runs[1], reply')
    BY <1>4, <1>7, ReplyReturns
  <2>2. NothingBack'
    BY <1>3, <1>4, <2>1 DEF NothingBack
  <2>3. Returned'
    BY <1>3, <1>4, <1>7 DEF Returned, method
  <2>4. CallerOK'
    BY <1>3, <1>5, <2>1, <2>2, <2>3 DEF CallerOK
  <2>5. QED
    BY <1>1, <1>2, <2>4
<1>8. QED
  BY <1>6, <1>7

\* The declaration of the class loader variable is emitted with its first use.
LEMMA LoadedOnce ==
  ASSUME NEW setBefore \in BOOLEAN, NEW scope, Declared(scope, setBefore),
         NEW cl, NEW needed \in BOOLEAN, needed => (cl <=> scope.used \/ setBefore)
  PROVE  /\ Declared(Loaded(scope, cl, needed), setBefore)
         /\ Loaded(scope, cl, needed).used <=> (scope.used \/ needed)
<1>1. CASE needed \/ scope.used
  <2>1. scope.declared + (IF EnsureClassLoader(cl, needed) THEN 1 ELSE 0)
          = IF setBefore THEN 0 ELSE 1
    BY <1>1 DEF EnsureClassLoader, Declared
  <2>2. (scope.used \/ needed) = TRUE
    BY <1>1, Zenon
  <2>3. Loaded(scope, cl, needed) = [declared |-> IF setBefore THEN 0 ELSE 1, used |-> TRUE]
    BY <2>1, <2>2, Zenon DEF Loaded
  <2>4. Declared(Loaded(scope, cl, needed), setBefore) /\ Loaded(scope, cl, needed).used
    BY <2>3 DEF Declared
  <2>5. QED
    BY <1>1, <2>4
<1>2. CASE ~needed /\ ~scope.used
  <2>1. scope = [declared |-> 0, used |-> FALSE]
    BY <1>2 DEF Declared
  <2>2. scope.declared + (IF EnsureClassLoader(cl, needed) THEN 1 ELSE 0) = 0
    BY <1>2, <2>1 DEF EnsureClassLoader
  <2>3. (scope.used \/ needed) = FALSE
    BY <1>2, <2>1
  <2>4. Loaded(scope, cl, needed) = [declared |-> 0, used |-> FALSE]
    BY <2>2, <2>3, Zenon DEF Loaded
  <2>5. QED
    BY <1>2, <2>4 DEF Declared
<1>3. QED
  BY <1>1, <1>2

LEMMA ReadResultOK == TypesAssumption /\ BinderInv /\ ReadResult => BinderInv'
<1> SUFFICES ASSUME TypesAssumption, BinderInv, ReadResult PROVE BinderInv'
  OBVIOUS
<1> USE DEF BinderInv, ReadResult
<1>1. CallOK' /\ StubOK'
  BY CallStays, StubStays
<1>2. RunsOK'
  BY DEF RunsOK, Fixed, stub
<1>3. /\ call' = call /\ runs' = runs /\ dead' = dead /\ params' = params
      /\ thrown' = thrown /\ ck' = ck /\ cpc' = "outs"
  BY DEF Fixed
<1>4. /\ Returned /\ NothingBack /\ ck = 1 /\ IsAnswer(call, runs[1], reply)
      /\ Declared(proxyCl, ClSetAtResult(method)) /\ params \in [1..Count(call) -> Held]
  BY DEF CallerOK, ProxyLoaderOK
<1>5. ProperRun(call, runs[1]) /\ ~runs[1].threw
  BY <1>4 DEF RunsOK, Returned
<1>6. PICK rest \in Seq(Wire) :
        /\ reply = Answered(call, runs[1]) \o rest
        /\ Joined(rest, Backs(call, runs[1]), 1, AllSent(call), Wire)
  BY <1>4 DEF IsAnswer
<1>7. callResult' = runs[1].result /\ reply' = rest
  <2>1. ReadsResult(call, runs[1], reply, rest)
    BY <1>5, <1>6, CallFacts, ResultRead
  <2>2. QED
    BY <1>4, <2>1 DEF ReadsResult, NothingBack, method
<1>8. /\ Declared(proxyCl', ClSetAtResult(method))
      /\ proxyCl'.used <=> ResultNeeds(method)
  <2>1. proxyCl.used = FALSE
    BY <1>4 DEF NothingBack, NoLoader
  <2>2. CASE Void(method)
    BY <1>4, <2>1, <2>2 DEF ResultNeeds
  <2>3. CASE ~Void(method)
    <3>1. ResultNeeds(method) \in BOOLEAN
      BY DEF ResultNeeds
    <3>2. ClSetAtResult(method) \in BOOLEAN
      BY DEF ClSetAtResult
    <3>3. proxyCl' = Loaded(proxyCl, ClSetAtResult(method), ResultNeeds(method))
      BY <2>3
    <3>4. QED
      BY <1>4, <2>1, <3>1, <3>2, <3>3, LoadedOnce
  <2>4. QED
    BY <2>2, <2>3
<1>9. callResult' \in Held
  <2>1. runs[1].result \in Results(method)
    BY <1>5 DEF ProperRun, method
  <2>2. QED
    BY <1>7, <2>1, ResultsHeld, CallFacts DEF method
<1>10. params = Filled(call, runs[1], 1)
  BY <1>4, CallFacts DEF NothingBack, Filled, Proper
<1>11. ~\E j \in OutNeeds(method) : j < 1
  BY CallFacts DEF OutNeeds
<1>12. Returned'
  BY <1>3, <1>4 DEF Returned, method
<1>13. method' = method
  BY <1>3 DEF method
<1>14. 1 \in 1..AllSent(call)
  BY CallFacts
<1>15. thrown' = FALSE
  BY <1>3, <1>4 DEF NothingBack
<1>16. CallerOK'
  BY <1>3, <1>4, <1>6, <1>7, <1>8, <1>9, <1>10, <1>11, <1>12, <1>13, <1>14, <1>15
     DEF CallerOK, ProxyLoaderOK
<1>17. QED
  BY <1>1, <1>2, <1>16

LEMMA ReadOutOK == TypesAssumption /\ BinderInv /\ ReadOut => BinderInv'
<1> SUFFICES ASSUME TypesAssumption, BinderInv, ReadOut PROVE BinderInv'
  OBVIOUS
<1> USE DEF BinderInv
<1>1. /\ Fixed /\ UNCHANGED <<runs, dead, data, callResult, stub>>
      /\ cpc = "outs" /\ ck \in DOMAIN method.args /\ ck' = ck + 1
  BY DEF ReadOut
<1>2. CallOK' /\ StubOK'
  BY <1>1, CallStays, StubStays
<1>3. cpc' = "outs" \/ cpc' = "finally"
  BY <1>1 DEF ReadOut
<1>4. RunsOK'
  BY <1>1, <1>3 DEF RunsOK, Fixed, stub
<1>5. /\ call' = call /\ runs' = runs /\ dead' = dead /\ callResult' = callResult
  BY <1>1 DEF Fixed
<1>6. /\ Returned /\ thrown = FALSE /\ Declared(proxyCl, ClSetAtResult(method))
      /\ callResult = runs[1].result /\ callResult \in Held
      /\ params = Filled(call, runs[1], ck) /\ params \in [1..Count(call) -> Held]
      /\ Joined(reply, Backs(call, runs[1]), ck, AllSent(call), Wire)
      /\ proxyCl.used <=> ResultNeeds(method) \/ \E j \in OutNeeds(method) : j < ck
  BY <1>1 DEF CallerOK, ProxyLoaderOK
<1>7. ProperRun(call, runs[1]) /\ ~runs[1].threw
  BY <1>6 DEF RunsOK, Returned
<1>8. PICK c, run, k, words : c = call /\ run = runs[1] /\ k = ck /\ words = reply
  OBVIOUS
<1>9. /\ Proper(c) /\ ProperRun(c, run) /\ ~run.threw /\ method = c.method
      /\ k \in 1..Count(c) /\ Count(c) \in Nat /\ AllSent(c) = Count(c) + 1
  BY <1>1, <1>7, <1>8, CallFacts DEF method, AllSent
<1>10. PICK rest \in Seq(Wire) :
         /\ words = Backs(c, run)[k] \o rest
         /\ Joined(rest, Backs(c, run), k + 1, AllSent(c), Wire)
  <2>1. /\ Joined(words, Backs(c, run), k, AllSent(c), Wire)
        /\ k \in Int /\ AllSent(c) \in Int /\ k < AllSent(c)
    BY <1>6, <1>8, <1>9
  <2>2. PICK parts : parts = Backs(c, run)
    OBVIOUS
  <2>3. \E rest \in Seq(Wire) : /\ words = parts[k] \o rest
                                /\ Joined(rest, parts, k + 1, AllSent(c), Wire)
    BY <2>1, <2>2, JoinedFirst
  <2>4. QED
    BY <2>2, <2>3
<1>11. ReadsOut(c, run, k, words, rest)
  BY <1>9, <1>10, OutRead
<1> DEFINE a == c.method.args[k]
<1>12. params[k] = c.args[k] /\ Returned'
  BY <1>5, <1>6, <1>8, <1>9 DEF Filled, Returned, method
<1>13. CASE ~Outgoing(a)
  <2>1. UNCHANGED <<cpc, params, reply, thrown, proxyCl>>
    BY <1>8, <1>9, <1>13 DEF ReadOut
  <2>2. words = rest
    BY <1>11, <1>13 DEF ReadsOut
  <2>3. Filled(c, run, k + 1) = Filled(c, run, k)
    BY <1>9, <1>13 DEF Filled
  <2>4. k \notin OutNeeds(c.method)
    BY <1>13 DEF OutNeeds
  <2>5. (\E j \in OutNeeds(c.method) : j < k) <=> (\E j \in OutNeeds(c.method) : j < k + 1)
    <3>1. \A j \in OutNeeds(c.method) : j \in Int
      BY <1>9, CallFacts DEF OutNeeds
    <3>2. QED
      BY <1>9, <2>4, <3>1
  <2>6. k + 1 \in 1..AllSent(c)
    BY <1>9
  <2>7. CallerOK'
    BY <1>1, <1>5, <1>6, <1>8, <1>9, <1>10, <1>12, <2>1, <2>2, <2>3, <2>5, <2>6
       DEF CallerOK, ProxyLoaderOK, method
  <2>8. QED
    BY <1>2, <1>4, <2>7
<1>14. CASE Outgoing(a) /\ ReadThrows(a.type, a.dimension, params[ck], reply)
  <2>1. /\ thrown' = TRUE /\ cpc' = "finally" /\ UNCHANGED <<params, reply, proxyCl>>
    BY <1>8, <1>9, <1>14 DEF ReadOut
  <2>2. c.args[k] = Null
    BY <1>8, <1>11, <1>12, <1>14 DEF ReadsOut
  <2>3. k \in 1..Count(call) /\ StoppedAt(k)'
    BY <1>5, <1>6, <1>8, <1>9, <1>14, <2>1, <2>2 DEF StoppedAt
  <2>4. Stopped'
    BY <1>5, <2>3 DEF Stopped
  <2>5. Ending'
    BY <1>5, <1>6, <1>7, <2>1, <2>4 DEF Ending, Returned
  <2>6. ProxyLoaderOK'
    BY <1>5, <1>6, <2>1, ProxyLoaderStays DEF ProxyLoaderOK
  <2>7. CallerOK'
    BY <1>5, <1>6, <2>1, <2>5, <2>6 DEF CallerOK
  <2>8. QED
    BY <1>2, <1>4, <2>7
<1>15. CASE Outgoing(a) /\ ~ReadThrows(a.type, a.dimension, params[ck], reply)
  <2>1. /\ params' = [params EXCEPT
             ![ck] = ReadInto(a.type, a.dimension, params[ck], reply)]
        /\ reply' = Dropped(reply, Width(a.type, a.dimension, reply))
        /\ proxyCl' = Loaded(proxyCl, ClSetAtOut(method, ck), ck \in OutNeeds(method))
        /\ UNCHANGED <<cpc, thrown>>
    BY <1>8, <1>9, <1>15 DEF ReadOut
  <2>2. ReadInto(a.type, a.dimension, params[ck], reply) = run.left[k] /\ reply' = rest
    BY <1>8, <1>11, <1>12, <1>15, <2>1 DEF ReadsOut
  <2>3. params' = Filled(c, run, k + 1)
    <3>1. params' = [params EXCEPT ![k] = run.left[k]]
      BY <1>8, <2>1, <2>2
    <3>2. params = Filled(c, run, k)
      BY <1>6, <1>8
    <3>3. \A j \in 1..Count(c) :
            Filled(c, run, k + 1)[j] = IF j = k THEN run.left[k] ELSE Filled(c, run, k)[j]
      BY <1>9, <1>15 DEF Filled
    <3>4. Filled(c, run, k + 1) = [Filled(c, run, k) EXCEPT ![k] = run.left[k]]
      BY <3>3 DEF Filled
    <3>5. QED
      BY <3>1, <3>2, <3>4
  <2>4. params' \in [1..Count(call) -> Held]
    <3>1. run.left[k] \in Held
      BY <1>9, LeftHeld DEF ProperRun
    <3>2. params' = [params EXCEPT ![k] = run.left[k]]
      BY <1>8, <2>1, <2>2
    <3>3. QED
      BY <1>6, <3>1, <3>2
  <2>5. /\ Declared(proxyCl', ClSetAtResult(method))
        /\ proxyCl'.used <=> (proxyCl.used \/ k \in OutNeeds(c.method))
    <3>1. ClSetAtOut(method, ck) <=> proxyCl.used \/ ClSetAtResult(method)
      BY <1>6, <1>8, <1>9 DEF ClSetAtOut
    <3>2. (k \in OutNeeds(c.method)) \in BOOLEAN /\ ClSetAtResult(method) \in BOOLEAN
      BY DEF ClSetAtResult
    <3>3. proxyCl' = Loaded(proxyCl, ClSetAtOut(method, ck), k \in OutNeeds(c.method))
      BY <1>8, <1>9, <2>1
    <3>4. QED
      BY <1>6, <3>1, <3>2, <3>3, LoadedOnce
  <2>6. (\E j \in OutNeeds(c.method) : j < k + 1)
          <=> ((\E j \in OutNeeds(c.method) : j < k) \/ k \in OutNeeds(c.method))
    <3>1. \A j \in OutNeeds(c.method) : j \in Int
      BY <1>9, CallFacts DEF OutNeeds
    <3>2. QED
      BY <1>9, <3>1
  <2>7. proxyCl'.used <=> ResultNeeds(method) \/ \E j \in OutNeeds(method) : j < ck + 1
    BY <1>6, <1>8, <1>9, <2>5, <2>6
  <2>8. k + 1 \in 1..AllSent(c) /\ method' = method
    BY <1>5, <1>9 DEF method
  <2>9. CallerOK'
    BY <1>1, <1>5, <1>6, <1>8, <1>10, <1>12, <2>1, <2>2, <2>3, <2>4, <2>5, <2>7, <2>8
       DEF CallerOK, ProxyLoaderOK
  <2>10. QED
    BY <1>2, <1>4, <2>9
<1>16. QED
  BY <1>8, <1>9, <1>13, <1>14, <1>15

LEMMA EndOutsOK == BinderInv /\ EndOuts => BinderInv'
<1> SUFFICES ASSUME BinderInv, EndOuts PROVE BinderInv'
  OBVIOUS
<1> USE DEF BinderInv, EndOuts
<1>1. CallOK' /\ StubOK'
  BY CallStays, StubStays
<1>2. RunsOK'
  BY DEF RunsOK, Fixed, stub
<1>3. /\ call' = call /\ runs' = runs /\ dead' = dead /\ callResult' = callResult
      /\ params' = params /\ reply' = reply /\ thrown' = thrown /\ proxyCl' = proxyCl
      /\ cpc' = "finally"
  BY DEF Fixed
<1>4. ck = AllSent(call)
  BY CallFacts DEF CallerOK, AllSent
<1>5. /\ Returned /\ ~thrown /\ callResult = runs[1].result
      /\ params = Filled(call, runs[1], AllSent(call))
      /\ Joined(reply, Backs(call, runs[1]), AllSent(call), AllSent(call), Wire)
  BY <1>4 DEF CallerOK
<1>6. reply = <<>>
  BY <1>5, CallFacts, JoinedAll
<1>7. Ending'
  BY <1>3, <1>5, <1>6 DEF Ending, Returned, method
<1>8. ProxyLoaderOK'
  BY <1>3, ProxyLoaderStays DEF CallerOK
<1>9. CallerOK'
  BY <1>3, <1>7, <1>8 DEF CallerOK
<1>10. QED
  BY <1>1, <1>2, <1>9

LEMMA FinallyOK == BinderInv /\ Finally => BinderInv'
<1> SUFFICES ASSUME BinderInv, Finally PROVE BinderInv'
  OBVIOUS
<1> USE DEF BinderInv, Finally
<1>1. CallOK' /\ StubOK'
  BY CallStays, StubStays
<1>2. RunsOK'
  BY DEF RunsOK, Fixed, stub
<1>3. Ending'
  BY StoppedStays DEF CallerOK, Ending, Returned, Fixed, method
<1>4. ProxyLoaderOK'
  BY ProxyLoaderStays DEF CallerOK, Fixed
<1>5. CallerOK'
  BY <1>3, <1>4 DEF CallerOK, Fixed
<1>6. QED
  BY <1>1, <1>2, <1>5

\* Two methods have different codes.
LEMMA CodesDiffer ==
  ASSUME NEW i \in Nat, NEW j \in Nat, TransactionCode(i) = TransactionCode(j)
  PROVE  i = j
BY DEF TransactionCode, FIRST_CALL_TRANSACTION

LEMMA DispatchOK == BinderInv /\ Dispatch => BinderInv'
<1> SUFFICES ASSUME BinderInv, Dispatch PROVE BinderInv'
  OBVIOUS
<1> USE DEF BinderInv
<1>1. /\ spc = "dispatch" /\ spc' = "enforce" /\ Fixed
      /\ UNCHANGED <<runs, dead, caller, sk, code, request, locals, stubResult, out,
                     stubCl>>
  BY DEF Dispatch
<1>2. CallOK' /\ CallerOK'
  BY <1>1, CallStays, CallerStays
<1>3. RunsOK'
  BY <1>1 DEF RunsOK, Fixed, caller
<1>4. served' = call.index
  <2> DEFINE Fits(i) == /\ TransactionCode(i) = code
                        /\ \A j \in DOMAIN face : TransactionCode(j) = code => i <= j
  <2>1. code = TransactionCode(call.index) /\ call.index \in DOMAIN face
    BY <1>1 DEF StubOK, CallOK
  <2>2. DOMAIN face \subseteq Nat
    BY InterfacesAssumption DEF CallOK
  <2>3. \A i \in DOMAIN face : TransactionCode(i) = code => i = call.index
    BY <2>1, <2>2, CodesDiffer
  <2>4. Fits(call.index)
    BY <2>1, <2>2, <2>3
  <2>5. served' = CHOOSE i \in DOMAIN face : Fits(i)
    BY DEF Dispatch
  <2>6. served' \in DOMAIN face /\ Fits(served')
    BY <2>1, <2>4, <2>5
  <2>7. QED
    BY <2>3, <2>6
<1>5. StubOK'
  BY <1>1, <1>4 DEF StubOK, Fixed
<1>6. QED
  BY <1>2, <1>3, <1>5

LEMMA EnforceInterfaceOK == BinderInv /\ EnforceInterface => BinderInv'
<1> SUFFICES ASSUME BinderInv, EnforceInterface PROVE BinderInv'
  OBVIOUS
<1> USE DEF BinderInv, EnforceInterface
<1>1. CallOK' /\ CallerOK'
  BY CallStays, CallerStays
<1>2. RunsOK'
  BY DEF RunsOK, Fixed, caller
<1>3. IsRequest(call, AllSent(call), request) /\ sk = 1 /\ locals = <<>> /\ stubCl = NoLoader
  BY DEF StubOK
<1>4. Joined(request', SentOf(call), 1, AllSent(call), Wire)
  BY <1>3, RequestOpens
<1>5. /\ call' = call /\ runs' = runs /\ sk' = 1 /\ locals' = <<>> /\ stubCl' = NoLoader
      /\ served' = served /\ spc' = "args"
  BY <1>3 DEF Fixed
<1>6. ~\E j \in StubNeeds(method) : j < 1
  BY CallFacts DEF StubNeeds
<1>7. <<>> \in Seq(Held) /\ Len(<<>>) = 0 /\ 1 \in 1..AllSent(call)
  BY CallFacts
<1>8. Declared(NoLoader, FALSE) /\ ~NoLoader.used
  BY DEF Declared, NoLoader
<1>9. served' = call.index
  BY <1>5 DEF StubOK
<1>10. Declared(stubCl', FALSE) /\ ~stubCl'.used
  BY <1>5, <1>8
<1>11. stubCl'.used <=> \E j \in StubNeeds(method') : j < sk'
  BY <1>5, <1>6, <1>10 DEF method
<1>12. \A k \in DOMAIN locals' : locals'[k] \in Held
  BY <1>5
<1>13. /\ locals' \in Seq(Held) /\ Len(locals') = sk' - 1
       /\ \A k \in 1..(sk' - 1) : locals'[k] = Receives(call', k)
  BY <1>5, <1>7
<1>14. StubOK'
  BY <1>4, <1>5, <1>7, <1>9, <1>10, <1>11, <1>12, <1>13 DEF StubOK
<1>15. QED
  BY <1>1, <1>2, <1>14

LEMMA ReadArgOK == TypesAssumption /\ BinderInv /\ ReadArg => BinderInv'
<1> SUFFICES ASSUME TypesAssumption, BinderInv, ReadArg PROVE BinderInv'
  OBVIOUS
<1> USE DEF BinderInv
<1>1. /\ spc = "args" /\ sk \in DOMAIN Served.args /\ sk' = sk + 1 /\ Fixed
      /\ UNCHANGED <<runs, dead, caller, spc, code, served, stubResult, out>>
  BY DEF ReadArg
<1>2. CallOK' /\ CallerOK'
  BY <1>1, CallStays, CallerStays
<1>3. RunsOK'
  BY <1>1 DEF RunsOK, Fixed, caller
<1>4. /\ served = call.index
      /\ Joined(request, SentOf(call), sk, AllSent(call), Wire)
      /\ locals \in Seq(Held) /\ Len(locals) = sk - 1
      /\ \A k \in 1..(sk - 1) : locals[k] = Receives(call, k)
      /\ stubCl.used <=> \E j \in StubNeeds(method) : j < sk
      /\ Declared(stubCl, FALSE)
  BY <1>1 DEF StubOK
<1>5. PICK c, k, words : c = call /\ k = sk /\ words = request
  OBVIOUS
<1>6. Served = c.method /\ method = c.method
  BY <1>4, <1>5 DEF Served, CallOK, method
<1>7. /\ Proper(c) /\ k \in 1..Count(c) /\ Count(c) \in Nat /\ AllSent(c) = Count(c) + 1
  BY <1>1, <1>5, <1>6, CallFacts DEF AllSent
<1>8. PICK rest \in Seq(Wire) : /\ words = SentOf(c)[k] \o rest
                                /\ Joined(rest, SentOf(c), k + 1, AllSent(c), Wire)
  <2>1. /\ Joined(words, SentOf(c), k, AllSent(c), Wire)
        /\ k \in Int /\ AllSent(c) \in Int /\ k < AllSent(c)
    BY <1>4, <1>5, <1>7
  <2>2. PICK parts : parts = SentOf(c)
    OBVIOUS
  <2>3. \E rest \in Seq(Wire) : /\ words = parts[k] \o rest
                                /\ Joined(rest, parts, k + 1, AllSent(c), Wire)
    BY <2>1, <2>2, JoinedFirst
  <2>4. QED
    BY <2>2, <2>3
<1>9. ReadsArgument(c, k, words, rest)
  BY <1>7, <1>8, ArgumentRead
<1> DEFINE a == c.method.args[k]
<1>10. a.dimension \in {0, 1} /\ Receives(c, k) \in Held
  BY <1>7, ArgumentFacts, ReceivesHeld
<1>11. /\ locals' = Append(locals, Receives(c, k)) /\ request' = rest
       /\ Declared(stubCl', FALSE)
       /\ stubCl'.used <=> (stubCl.used \/ k \in StubNeeds(c.method))
  <2>1. CASE Incoming(a)
    <3>1. /\ locals' = Append(locals, Created(a.type, a.dimension, words))
          /\ request' = Dropped(words, Width(a.type, a.dimension, words))
          /\ stubCl' = Loaded(stubCl, ClSetInStub(c.method, k), k \in StubNeeds(c.method))
      BY <1>5, <1>6, <2>1 DEF ReadArg
    <3>2. /\ Created(a.type, a.dimension, words) = Receives(c, k)
          /\ Dropped(words, Width(a.type, a.dimension, words)) = rest
      BY <1>9, <2>1 DEF ReadsArgument
    <3>3. ClSetInStub(c.method, k) <=> stubCl.used
      BY <1>4, <1>5, <1>6 DEF ClSetInStub
    <3>4. (k \in StubNeeds(c.method)) \in BOOLEAN
      OBVIOUS
    <3>5. /\ Declared(stubCl', FALSE)
          /\ stubCl'.used <=> (stubCl.used \/ k \in StubNeeds(c.method))
      BY <1>4, <3>1, <3>3, <3>4, LoadedOnce
    <3>6. QED
      BY <3>1, <3>2, <3>5
  <2>2. CASE ~Incoming(a) /\ a.dimension = 0
    <3>1. locals' = Append(locals, New) /\ UNCHANGED <<request, stubCl>>
      BY <1>5, <1>6, <2>2 DEF ReadArg
    <3>2. k \notin StubNeeds(c.method)
      BY <2>2 DEF StubNeeds
    <3>3. New = Receives(c, k) /\ words = rest
      BY <1>9, <2>2 DEF ReadsArgument
    <3>4. QED
      BY <1>4, <1>5, <3>1, <3>2, <3>3
  <2>3. CASE ~Incoming(a) /\ a.dimension = 1
    <3>1. /\ locals' = Append(locals, NewArray(a.type, words))
          /\ request' = Dropped(words, 1) /\ UNCHANGED stubCl
      BY <1>5, <1>6, <2>3 DEF ReadArg
    <3>2. k \notin StubNeeds(c.method)
      BY <2>3 DEF StubNeeds
    <3>3. NewArray(a.type, words) = Receives(c, k) /\ Dropped(words, 1) = rest
      BY <1>9, <2>3 DEF ReadsArgument
    <3>4. QED
      BY <1>4, <3>1, <3>2, <3>3
  <2>4. QED
    BY <1>10, <2>1, <2>2, <2>3
<1>12. /\ locals' \in Seq(Held) /\ Len(locals') = k
       /\ \A j \in 1..k : locals'[j] = Receives(c, j)
  <2>1. /\ locals' \in Seq(Held) /\ Len(locals') = Len(locals) + 1
        /\ \A j \in 1..Len(locals) : locals'[j] = locals[j]
        /\ locals'[Len(locals) + 1] = Receives(c, k)
    BY <1>4, <1>10, <1>11, AppendProperties
  <2>2. QED
    BY <1>4, <1>5, <1>7, <2>1
<1>13. \A j \in DOMAIN locals' : locals'[j] \in Held
  BY <1>12
<1>14. (\E j \in StubNeeds(c.method) : j < k + 1)
         <=> ((\E j \in StubNeeds(c.method) : j < k) \/ k \in StubNeeds(c.method))
  <2>1. \A j \in StubNeeds(c.method) : j \in Int
    BY <1>5, <1>6, CallFacts DEF StubNeeds
  <2>2. QED
    BY <1>7, <2>1
<1>15. /\ call' = c /\ runs' = runs /\ sk' = k + 1 /\ served' = call.index
       /\ spc' = "args" /\ method' = c.method
       /\ k + 1 \in 1..AllSent(c) /\ (k + 1) - 1 = k
  BY <1>1, <1>4, <1>5, <1>6, <1>7 DEF Fixed, method
<1>16. stubCl'.used <=> \E j \in StubNeeds(c.method) : j < k + 1
  BY <1>4, <1>5, <1>6, <1>11, <1>14
<1>17. StubOK'
  BY <1>5, <1>8, <1>11, <1>12, <1>13, <1>15, <1>16 DEF StubOK
<1>18. QED
  BY <1>2, <1>3, <1>17


\* When the implementation runs nothing has come back yet, so that what the
\* caller has does not depend on the run.
LEMMA CallerOfRun ==
  BinderInv /\ spc = "args" /\ Fixed /\ UNCHANGED <<dead, caller>> => CallOK' /\ CallerOK'
<1> SUFFICES ASSUME BinderInv, spc = "args", Fixed, UNCHANGED <<dead, caller>>
             PROVE  CallOK' /\ CallerOK'
  OBVIOUS
<1> USE DEF BinderInv
<1>1. CallOK'
  BY CallStays
<1>2. /\ call' = call /\ dead' = dead /\ cpc' = cpc /\ ck' = ck
      /\ params' = params /\ data' = data /\ reply' = reply
      /\ callResult' = callResult /\ thrown' = thrown /\ proxyCl' = proxyCl
  BY DEF Fixed, caller
<1>3. runs = <<>>
  BY DEF RunsOK
<1>4. cpc \notin {"exception", "result", "outs"}
  BY <1>3 DEF CallerOK, Returned
<1>5. NothingBack' <=> NothingBack
  BY <1>2 DEF NothingBack
<1>6. Ending => Ending'
  BY <1>2, <1>3 DEF Ending, Returned, method
<1>7. ProxyLoaderOK'
  BY <1>2, ProxyLoaderStays DEF CallerOK
<1>8. CallerOK'
  BY <1>2, <1>4, <1>5, <1>6, <1>7 DEF CallerOK, method
<1>9. QED
  BY <1>1, <1>8

\* Where the implementation is called: what it is given is what it should be.
LEMMA AllReceived ==
  ASSUME BinderInv, spc = "args", sk \notin DOMAIN Served.args
  PROVE  /\ served = call.index /\ Served = method /\ request = <<>> /\ runs = <<>>
         /\ locals \in Seq(Held) /\ DOMAIN locals = 1..Count(call)
         /\ \A k \in 1..Count(call) : locals[k] = Receives(call, k)
<1> USE DEF BinderInv
<1>1. served = call.index /\ Served = method /\ runs = <<>>
  BY DEF StubOK, RunsOK, Served, CallOK, method
<1>2. sk = AllSent(call) /\ sk - 1 = Count(call)
  BY <1>1, CallFacts DEF StubOK, AllSent
<1>3. Joined(request, SentOf(call), AllSent(call), AllSent(call), Wire)
  BY <1>2 DEF StubOK
<1>4. request = <<>>
  BY <1>3, CallFacts, JoinedAll
<1>5. /\ locals \in Seq(Held) /\ Len(locals) = Count(call)
      /\ \A k \in 1..Count(call) : locals[k] = Receives(call, k)
  BY <1>2 DEF StubOK
<1>6. QED
  BY <1>1, <1>4, <1>5

LEMMA RealCallOK == TypesAssumption /\ BinderInv /\ RealCall => BinderInv'
<1> SUFFICES ASSUME TypesAssumption, BinderInv, RealCall PROVE BinderInv'
  OBVIOUS
<1>1. /\ spc = "args" /\ sk \notin DOMAIN Served.args /\ spc' = "noException" /\ Fixed
      /\ UNCHANGED <<dead, caller, sk, code, served, request, out, stubCl>>
  BY DEF RealCall
<1>2. CallOK' /\ CallerOK'
  BY <1>1, CallerOfRun
<1>3. /\ served = call.index /\ Served = method /\ runs = <<>>
      /\ DOMAIN locals = 1..Count(call)
      /\ \A k \in 1..Count(call) : locals[k] = Receives(call, k)
  BY <1>1, AllReceived
<1>4. PICK result \in Results(Served) :
        \E left \in Tuples([k \in DOMAIN locals |-> Left(Served.args[k], locals[k])]) :
          /\ stubResult' = result /\ locals' = left
          /\ runs' = Append(runs, Run(FALSE, result, left))
  BY DEF RealCall
<1> DEFINE sets == [k \in DOMAIN locals |-> Left(Served.args[k], locals[k])]
<1>5. PICK left \in Tuples(sets) : /\ stubResult' = result /\ locals' = left
                                   /\ runs' = Append(runs, Run(FALSE, result, left))
  BY <1>4
<1>6. /\ DOMAIN left = 1..Count(call)
      /\ \A k \in 1..Count(call) : left[k] \in Left(method.args[k], Receives(call, k))
  <2>1. DOMAIN left = DOMAIN locals /\ \A k \in DOMAIN locals : left[k] \in sets[k]
    BY InTuples
  <2>2. QED
    BY <1>3, <2>1
<1>7. \A k \in 1..Count(call) : left[k] \in Held
  BY <1>6, CallFacts, LeftHeld DEF BinderInv, method
<1>8. PICK run : run = Run(FALSE, result, left)
  OBVIOUS
<1>9. runs' = <<run>>
  BY <1>3, <1>5, <1>8
<1>10. /\ runs' # <<>> /\ Len(runs') = 1 /\ runs'[1] = run
  BY <1>9
<1>11. /\ run.index = call.index /\ run.threw = FALSE /\ run.received = locals
       /\ run.result = result /\ run.left = left
  BY <1>3, <1>8 DEF Run
<1>12. ProperRun(call, run)
  BY <1>3, <1>4, <1>6, <1>11 DEF ProperRun, method
<1>13. /\ call' = call /\ spc' = "noException" /\ cpc' = cpc /\ dead' = dead
       /\ served' = served /\ stubCl' = stubCl
  BY <1>1 DEF Fixed, caller
<1>14. cpc \notin {"token", "params"}
  BY <1>1 DEF BinderInv, RunsOK
<1>15. RunsOK'
  BY <1>10, <1>12, <1>13, <1>14 DEF RunsOK
<1>16. StubOK'
  <2>1. Declared(stubCl, FALSE)
    BY DEF BinderInv, StubOK
  <2>2. \A k \in DOMAIN locals' : locals'[k] \in Held
    BY <1>5, <1>6, <1>7
  <2>3. QED
    BY <1>3, <1>5, <1>10, <1>11, <1>13, <2>1, <2>2 DEF StubOK
<1>17. QED
  BY <1>2, <1>15, <1>16 DEF BinderInv


LEMMA RealCallThrowsOK == TypesAssumption /\ BinderInv /\ RealCallThrows => BinderInv'
<1> SUFFICES ASSUME TypesAssumption, BinderInv, RealCallThrows PROVE BinderInv'
  OBVIOUS
<1>1. /\ spc = "args" /\ sk \notin DOMAIN Served.args /\ spc' = "return" /\ Fixed
      /\ out' = <<Word("Exception", 1)>> /\ runs' = Append(runs, Run(TRUE, Null, locals))
      /\ UNCHANGED <<dead, caller, sk, code, served, request, locals, stubResult, stubCl>>
  BY DEF RealCallThrows
<1>2. CallOK' /\ CallerOK'
  BY <1>1, CallerOfRun
<1>3. /\ served = call.index /\ runs = <<>>
      /\ \A k \in 1..Count(call) : locals[k] = Receives(call, k)
  BY <1>1, AllReceived
<1>4. PICK run : run = Run(TRUE, Null, locals)
  OBVIOUS
<1>5. runs' = <<run>>
  BY <1>1, <1>3, <1>4
<1>6. runs' # <<>> /\ Len(runs') = 1 /\ runs'[1] = run
  BY <1>5
<1>7. run.index = call.index /\ run.threw = TRUE /\ run.received = locals
  BY <1>3, <1>4 DEF Run
<1>8. ProperRun(call, run)
  BY <1>3, <1>7 DEF ProperRun
<1>9. /\ call' = call /\ cpc' = cpc /\ locals' = locals /\ stubCl' = stubCl
  BY <1>1 DEF Fixed, caller
<1>10. cpc \notin {"token", "params"}
  BY <1>1 DEF BinderInv, RunsOK
<1>11. RunsOK'
  BY <1>1, <1>6, <1>8, <1>9, <1>10 DEF RunsOK
<1>12. StubOK'
  <2>1. IsReply(call, runs'[1], out')
    BY <1>1, <1>6, <1>7 DEF IsReply
  <2>2. Declared(stubCl, FALSE) /\ \A k \in DOMAIN locals : locals[k] \in Held
    BY DEF BinderInv, StubOK
  <2>3. QED
    BY <1>1, <1>9, <2>1, <2>2 DEF StubOK
<1>13. QED
  BY <1>2, <1>11, <1>12 DEF BinderInv

\* The part of a reply in front of the out arguments.
Opening(c, run) == <<Word("Exception", 0)>> \o Answered(c, run)

LEMMA OpeningWords ==
  ASSUME TypesAssumption, NEW c, Proper(c), NEW run, ProperRun(c, run), ~run.threw
  PROVE  Opening(c, run) \in Seq(Wire)
<1>1. Word("Exception", 0) \in Wire
  BY DEF Word, Wire, Kinds
<1>2. <<Word("Exception", 0)>> \in Seq(Wire)
  BY <1>1
<1>3. Answered(c, run) \in Seq(Wire)
  BY BackWords
<1>4. QED
  BY <1>2, <1>3, ConcatProperties DEF Opening

LEMMA WriteResultOK == TypesAssumption /\ BinderInv /\ WriteResult => BinderInv'
<1> SUFFICES ASSUME TypesAssumption, BinderInv, WriteResult PROVE BinderInv'
  OBVIOUS
<1>1. /\ spc = "noException" /\ spc' = "outs" /\ sk' = 1 /\ Fixed
      /\ UNCHANGED <<runs, dead, caller, code, served, request, locals, stubResult, stubCl>>
  BY DEF WriteResult
<1>2. CallOK' /\ CallerOK'
  BY <1>1, CallStays, CallerStays DEF BinderInv
<1>3. RunsOK'
  BY <1>1 DEF BinderInv, RunsOK, Fixed, caller
<1>4. /\ served = call.index /\ Served = method /\ runs # <<>>
      /\ ~runs[1].threw /\ locals = runs[1].left /\ stubResult = runs[1].result
      /\ Declared(stubCl, FALSE) /\ \A k \in DOMAIN locals : locals[k] \in Held
  BY <1>1 DEF BinderInv, StubOK, RunsOK, Served, CallOK, method
<1>5. PICK c, run : c = call /\ run = runs[1]
  OBVIOUS
<1>6. Proper(c) /\ ProperRun(c, run) /\ ~run.threw /\ 1 \in 1..AllSent(c)
  BY <1>4, <1>5, CallFacts DEF BinderInv, RunsOK
<1>7. ASSUME ~method.oneway
      PROVE  \E rest \in Seq(Wire) : /\ out' = Opening(c, run) \o rest
                                     /\ Joined(rest, Backs(c, run), 1, 1, Wire)
  <2>1. out' = <<Word("Exception", 0)>> \o Answered(c, run)
    BY <1>4, <1>5, <1>7 DEF WriteResult, Answered, method
  <2>2. Opening(c, run) \in Seq(Wire) /\ <<>> \in Seq(Wire)
    BY <1>6, OpeningWords
  <2>3. out' = Opening(c, run) \o <<>>
    BY <2>1, <2>2, ConcatEmptySeq DEF Opening
  <2>4. Joined(<<>>, Backs(c, run), 1, 1, Wire)
    BY JoinNone
  <2>5. QED
    BY <2>2, <2>3, <2>4
<1>8. /\ call' = call /\ runs' = runs /\ served' = served /\ locals' = locals
      /\ stubCl' = stubCl
  BY <1>1 DEF Fixed
<1>9. StubOK'
  BY <1>1, <1>4, <1>5, <1>6, <1>7, <1>8 DEF StubOK, Opening, method
<1>10. QED
  BY <1>2, <1>3, <1>9 DEF BinderInv

LEMMA WriteOutOK == TypesAssumption /\ BinderInv /\ WriteOut => BinderInv'
<1> SUFFICES ASSUME TypesAssumption, BinderInv, WriteOut PROVE BinderInv'
  OBVIOUS
<1>1. /\ spc = "outs" /\ sk \in DOMAIN Served.args /\ sk' = sk + 1 /\ Fixed
      /\ UNCHANGED <<runs, dead, caller, spc, code, served, request, locals, stubResult,
                     stubCl>>
  BY DEF WriteOut
<1>2. CallOK' /\ CallerOK'
  BY <1>1, CallStays, CallerStays DEF BinderInv
<1>3. RunsOK'
  BY <1>1 DEF BinderInv, RunsOK, Fixed, caller
<1>4. /\ served = call.index /\ Served = method /\ runs # <<>>
      /\ ~runs[1].threw /\ locals = runs[1].left
      /\ Declared(stubCl, FALSE) /\ \A k \in DOMAIN locals : locals[k] \in Held
  BY <1>1 DEF BinderInv, StubOK, RunsOK, Served, CallOK, method
<1>5. PICK c, run, k : c = call /\ run = runs[1] /\ k = sk
  OBVIOUS
<1>6. /\ Proper(c) /\ ProperRun(c, run) /\ ~run.threw /\ method = c.method
      /\ k \in 1..Count(c) /\ k + 1 \in 1..AllSent(c)
  BY <1>1, <1>4, <1>5, CallFacts DEF BinderInv, RunsOK, AllSent, method
<1>7. ASSUME ~method.oneway
      PROVE  \E rest \in Seq(Wire) : /\ out' = Opening(c, run) \o rest
                                     /\ Joined(rest, Backs(c, run), 1, k + 1, Wire)
  <2>1. PICK rest \in Seq(Wire) : /\ out = Opening(c, run) \o rest
                                  /\ Joined(rest, Backs(c, run), 1, k, Wire)
    BY <1>1, <1>5, <1>7 DEF BinderInv, StubOK, Opening
  <2>2. out' = out \o Backs(c, run)[k]
    BY <1>4, <1>5, <1>6 DEF WriteOut, Backs
  <2>3. PICK head \in Seq(Wire) : head = Opening(c, run)
    BY <1>6, OpeningWords
  <2>4. \E more \in Seq(Wire) : /\ out \o Backs(c, run)[k] = head \o more
                                /\ Joined(more, Backs(c, run), 1, k + 1, Wire)
    BY <1>6, <2>1, <2>3, ReplyGrows
  <2>5. QED
    BY <2>2, <2>3, <2>4
<1>8. /\ call' = call /\ runs' = runs /\ spc' = "outs" /\ served' = served
      /\ locals' = locals /\ stubCl' = stubCl /\ sk' = k + 1
  BY <1>1, <1>5 DEF Fixed
<1>9. StubOK'
  BY <1>4, <1>5, <1>6, <1>7, <1>8 DEF StubOK, Opening, method
<1>10. QED
  BY <1>2, <1>3, <1>9 DEF BinderInv

LEMMA ReturnTrueOK == TypesAssumption /\ BinderInv /\ ReturnTrue => BinderInv'
<1> SUFFICES ASSUME TypesAssumption, BinderInv, ReturnTrue PROVE BinderInv'
  OBVIOUS
<1>1. /\ spc = "outs" /\ sk \notin DOMAIN Served.args /\ spc' = "return" /\ Fixed
      /\ UNCHANGED <<runs, dead, caller, sk, code, served, request, locals, stubResult,
                     out, stubCl>>
  BY DEF ReturnTrue
<1>2. CallOK' /\ CallerOK'
  BY <1>1, CallStays, CallerStays DEF BinderInv
<1>3. RunsOK'
  BY <1>1 DEF BinderInv, RunsOK, Fixed, caller
<1>4. /\ Served = method /\ runs # <<>> /\ ~runs[1].threw
      /\ Declared(stubCl, FALSE) /\ \A k \in DOMAIN locals : locals[k] \in Held
  BY <1>1 DEF BinderInv, StubOK, RunsOK, Served, CallOK, method
<1>5. PICK c, run : c = call /\ run = runs[1]
  OBVIOUS
<1>6. Proper(c) /\ ProperRun(c, run) /\ ~run.threw /\ sk = AllSent(c)
  BY <1>1, <1>4, <1>5, CallFacts DEF BinderInv, RunsOK, StubOK, AllSent
<1>7. ASSUME ~method.oneway PROVE IsReply(c, run, out)
  <2>1. PICK rest \in Seq(Wire) : /\ out = Opening(c, run) \o rest
                                  /\ Joined(rest, Backs(c, run), 1, AllSent(c), Wire)
    BY <1>1, <1>5, <1>6, <1>7 DEF BinderInv, StubOK, Opening
  <2>2. PICK answered \in Seq(Wire) : answered = Answered(c, run)
    BY <1>6, BackWords
  <2>3. Word("Exception", 0) \in Wire
    BY DEF Word, Wire, Kinds
  <2>4. <<Word("Exception", 0)>> \in Seq(Wire)
    BY <2>3
  <2>5. PICK first \in Seq(Wire) : first = <<Word("Exception", 0)>>
    BY <2>4, Zenon
  <2>6. (first \o answered) \o rest = first \o (answered \o rest)
    BY ConcatAssociative
  <2>7. answered \o rest \in Seq(Wire) /\ IsAnswer(c, run, answered \o rest)
    BY <2>1, <2>2, ConcatProperties DEF IsAnswer
  <2>8. out = first \o (answered \o rest)
    BY <2>1, <2>2, <2>5, <2>6 DEF Opening
  <2>9. QED
    BY <1>6, <2>5, <2>7, <2>8 DEF IsReply
<1>8. /\ call' = call /\ runs' = runs /\ locals' = locals /\ stubCl' = stubCl /\ out' = out
  BY <1>1 DEF Fixed
<1>9. StubOK'
  BY <1>1, <1>4, <1>5, <1>7, <1>8 DEF StubOK, method
<1>10. QED
  BY <1>2, <1>3, <1>9 DEF BinderInv

LEMMA DeliverOK == BinderInv /\ Deliver => BinderInv'
<1> SUFFICES ASSUME BinderInv, Deliver PROVE BinderInv'
  OBVIOUS
<1>1. /\ spc = "return" /\ spc' = "sent" /\ Fixed
      /\ UNCHANGED <<runs, dead, ck, params, data, callResult, thrown, proxyCl, sk, code,
                     served, request, locals, stubResult, out, stubCl>>
  BY DEF Deliver
<1>2. CallOK'
  BY <1>1, CallStays DEF BinderInv
<1>3. /\ call' = call /\ runs' = runs /\ dead' = dead /\ ck' = ck /\ params' = params
      /\ data' = data /\ callResult' = callResult /\ thrown' = thrown /\ proxyCl' = proxyCl
      /\ locals' = locals /\ stubCl' = stubCl
  BY <1>1 DEF Fixed
<1>4. runs # <<>> /\ cpc \notin {"token", "params"}
  BY <1>1 DEF BinderInv, RunsOK
<1>5. StubOK'
  BY <1>1, <1>3 DEF BinderInv, StubOK
<1>6. CASE cpc # "wait"
  <2>1. UNCHANGED <<runs, dead, caller>>
    BY <1>1, <1>6 DEF Deliver, caller
  <2>2. CallerOK'
    BY <1>1, <2>1, CallerStays DEF BinderInv
  <2>3. RunsOK'
    BY <1>1, <1>3, <1>4, <2>1 DEF BinderInv, RunsOK, caller
  <2>4. QED
    BY <1>2, <1>5, <2>2, <2>3 DEF BinderInv
<1>7. CASE cpc = "wait"
  <2>1. cpc' = "exception" /\ reply' = out
    BY <1>7 DEF Deliver
  <2>2. ~method.oneway /\ NothingBack
    BY <1>7 DEF BinderInv, CallerOK
  <2>3. IsReply(call, runs[1], out)
    BY <1>1, <2>2 DEF BinderInv, StubOK
  <2>4. NothingBack'
    BY <1>3, <2>2 DEF NothingBack
  <2>5. ProxyLoaderOK'
    BY <1>3, ProxyLoaderStays DEF BinderInv, CallerOK
  <2>6. CallerOK'
    BY <1>3, <1>4, <2>1, <2>2, <2>3, <2>4, <2>5 DEF BinderInv, CallerOK, method
  <2>7. RunsOK'
    BY <1>1, <1>3, <1>4, <2>1 DEF BinderInv, RunsOK
  <2>8. QED
    BY <1>2, <1>5, <2>6, <2>7 DEF BinderInv
<1>8. QED
  BY <1>6, <1>7

LEMMA DieOK == BinderInv /\ Die => BinderInv'
<1> SUFFICES ASSUME BinderInv, Die PROVE BinderInv'
  OBVIOUS
<1>1. /\ dead = FALSE /\ dead' = TRUE /\ spc' = (IF spc = "sent" THEN "sent" ELSE "dead")
      /\ Fixed
      /\ UNCHANGED <<runs, ck, params, data, reply, callResult, proxyCl, sk, code, served,
                     request, locals, stubResult, out, stubCl>>
  BY DEF Die
<1>2. CallOK'
  BY <1>1, CallStays DEF BinderInv
<1>3. /\ call' = call /\ runs' = runs /\ ck' = ck /\ params' = params /\ data' = data
      /\ reply' = reply /\ callResult' = callResult /\ proxyCl' = proxyCl
      /\ locals' = locals /\ stubCl' = stubCl
  BY <1>1 DEF Fixed
<1>4. StubOK'
  BY <1>1, <1>3 DEF BinderInv, StubOK
<1>5. CASE cpc # "wait"
  <2>1. cpc' = cpc /\ thrown' = thrown
    BY <1>5 DEF Die
  <2>2. RunsOK'
    BY <1>1, <1>3, <2>1 DEF BinderInv, RunsOK
  <2>3. (NothingBack' <=> NothingBack) /\ (Returned' <=> Returned) /\ method' = method
    BY <1>3, <2>1 DEF NothingBack, Returned, method
  <2>4. Ending => Ending'
    BY <1>1, <1>3, <2>1, <2>3, StoppedStays DEF Ending
  <2>5. ProxyLoaderOK'
    BY <1>3, ProxyLoaderStays DEF BinderInv, CallerOK
  <2>6. CallerOK'
    BY <1>3, <2>1, <2>3, <2>4, <2>5 DEF BinderInv, CallerOK
  <2>7. QED
    BY <1>2, <1>4, <2>2, <2>6 DEF BinderInv
<1>6. CASE cpc = "wait"
  <2>1. cpc' = "finally" /\ thrown' = TRUE
    BY <1>6 DEF Die
  <2>2. RunsOK'
    BY <1>1, <1>3, <2>1 DEF BinderInv, RunsOK
  <2>3. NothingBack
    BY <1>6 DEF BinderInv, CallerOK
  <2>4. Ending'
    BY <1>1, <1>3, <2>1, <2>3 DEF Ending, NothingBack
  <2>5. ProxyLoaderOK'
    BY <1>3, ProxyLoaderStays DEF BinderInv, CallerOK
  <2>6. CallerOK'
    BY <1>3, <2>1, <2>4, <2>5 DEF BinderInv, CallerOK
  <2>7. QED
    BY <1>2, <1>4, <2>2, <2>6 DEF BinderInv
<1>7. QED
  BY <1>5, <1>6


LEMMA BinderNext == TypesAssumption /\ BinderInv /\ [Next]_vars => BinderInv'
<1> SUFFICES ASSUME TypesAssumption, BinderInv, [Next]_vars PROVE BinderInv'
  OBVIOUS
<1>1. CASE Caller
  BY <1>1, WriteTokenOK, WriteParamOK, TransactOK, TransactFailsOK, ReadExceptionOK,
     ReadResultOK, ReadOutOK, EndOutsOK, FinallyOK DEF Caller
<1>2. CASE Stub
  BY <1>2, DispatchOK, EnforceInterfaceOK, ReadArgOK, RealCallOK, RealCallThrowsOK,
     WriteResultOK, WriteOutOK, ReturnTrueOK, DeliverOK DEF Stub
<1>3. CASE UNCHANGED vars
  <2>1. Fixed /\ UNCHANGED <<runs, dead, caller, stub>>
    BY <1>3 DEF vars, Fixed
  <2>2. CallOK' /\ CallerOK' /\ StubOK'
    BY <2>1, CallStays, CallerStays, StubStays DEF BinderInv
  <2>3. RunsOK'
    BY <2>1 DEF BinderInv, RunsOK, Fixed, caller, stub
  <2>4. QED
    BY <2>2, <2>3 DEF BinderInv
<1>4. QED
  BY <1>1, <1>2, <1>3, DieOK DEF Next

-----------------------------------------------------------------------------
(* What follows.                                                           *)

\* For every interface of coherent types: no value of a call is read with a
\* method other than the one that wrote it, in either direction.
THEOREM BinderNothingMisread == ASSUME TypesAssumption PROVE Spec => []NoMisread
<1>1. BinderInv => NoMisread
  BY HeldIsNoGarbage DEF BinderInv, CallerOK, StubOK, NoMisread
<1>2. QED
  BY <1>1, BinderInit, BinderNext, PTL DEF Spec

\* The stub has read all of the request when it calls the implementation, and the
\* proxy all of the reply when it returns.
THEOREM BinderReadsAll == ASSUME TypesAssumption PROVE Spec => []AllRead
<1>1. BinderInv => AllRead
  <2> SUFFICES ASSUME BinderInv PROVE AllRead
    OBVIOUS
  <2>1. spc = "args" /\ sk \notin DOMAIN Served.args => request = <<>>
    BY AllReceived
  <2>2. cpc = "done" /\ ~thrown => reply = <<>>
    BY DEF BinderInv, CallerOK, Ending
  <2>3. QED
    BY <2>1, <2>2 DEF AllRead
<1>2. QED
  BY <1>1, BinderInit, BinderNext, PTL DEF Spec

\* The stub case declares the class loader variable exactly once if it uses it,
\* for every interface.  The proxy method does so too, unless the stub case had
\* needed it before; then it declares none, and it is the only such proxy.
THEOREM LoaderDeclarations == ASSUME TypesAssumption PROVE Spec => []ClassLoaderDeclared
<1>1. BinderInv => ClassLoaderDeclared
  BY DEF BinderInv, CallerOK, StubOK, ProxyLoaderOK, Declared, ClSetAtResult,
         ClassLoaderDeclared
<1>2. QED
  BY <1>1, BinderInit, BinderNext, PTL DEF Spec

\* RemoteCall has the directions of an argument from Signature, too.
LEMMA SameDirections ==
  \A a : (Remote!Incoming(a) <=> Incoming(a)) /\ (Remote!Outgoing(a) <=> Outgoing(a))
BY DEF Incoming, Outgoing, Remote!Incoming, Remote!Outgoing

\* What RemoteCall sees of a step that ends nothing.
LEMMA RemoteSeesNothing ==
  ASSUME Fixed, UNCHANGED <<runs, dead>>,
         UNCHANGED caller \/ (cpc # "done" /\ cpc' # "done")
  PROVE  UNCHANGED Remote!vars
<1>1. call' = call
  BY DEF Fixed
<1>2. CASE UNCHANGED caller
  BY <1>1, <1>2 DEF caller, Remote!vars
<1>3. CASE cpc # "done" /\ cpc' # "done"
  BY <1>1, <1>3 DEF Remote!vars
<1>4. QED
  BY <1>2, <1>3

\* A run of the implementation is one of RemoteCall.
LEMMA RunIsInvoke ==
  BinderInv /\ BinderInv' /\ (RealCall \/ RealCallThrows) => Remote!Invoke
<1> SUFFICES ASSUME BinderInv, BinderInv', RealCall \/ RealCallThrows
             PROVE  Remote!Invoke
  OBVIOUS
<1>1. /\ spc = "args" /\ spc' \in {"noException", "return"} /\ Fixed
      /\ UNCHANGED <<dead, caller>>
  BY DEF RealCall, RealCallThrows
<1>2. runs = <<>> /\ runs' # <<>>
  BY <1>1 DEF BinderInv, RunsOK
<1>3. Len(runs') = 1 /\ ProperRun(call, runs'[1])
  BY <1>1, <1>2 DEF BinderInv, RunsOK, Fixed
<1>4. DOMAIN call.method.args = 1..Count(call)
  BY CallFacts DEF BinderInv, method
<1>5. /\ call' = call /\ dead' = dead /\ cpc' = cpc /\ thrown' = thrown
      /\ callResult' = callResult /\ params' = params
  BY <1>1 DEF Fixed, caller
<1>6. PICK run : run = runs'[1]
  OBVIOUS
<1>7. /\ run.index = call.index
      /\ \A k \in Remote!Parameters :
           run.received[k] = IF Remote!Incoming(Remote!Parameter(k)) THEN call.args[k]
                             ELSE Remote!Fresh(Remote!Parameter(k), call.args[k])
  BY <1>3, <1>4, <1>6, SameDirections DEF ProperRun, Receives, Remote!Parameters, Remote!Parameter
<1>8. /\ runs'[1].index = call.index
      /\ \A k \in Remote!Parameters :
           runs'[1].received[k] = IF Remote!Incoming(Remote!Parameter(k)) THEN call.args[k]
                                  ELSE Remote!Fresh(Remote!Parameter(k), call.args[k])
  BY <1>6, <1>7, Zenon
<1>9. QED
  BY <1>2, <1>3, <1>5, <1>8, Zenon DEF Remote!Invoke

\* The end of the proxy method is one of the ways a call ends.
LEMMA EndIsAnswer ==
  BinderInv /\ Finally => Remote!Return \/ Remote!ReturnOneway \/ Remote!Throw
<1> SUFFICES ASSUME BinderInv, Finally
             PROVE  Remote!Return \/ Remote!ReturnOneway \/ Remote!Throw
  OBVIOUS
<1>1. /\ cpc = "finally" /\ cpc' = "done" /\ call' = call /\ runs' = runs /\ dead' = dead
      /\ thrown' = thrown /\ callResult' = callResult /\ params' = params
  BY DEF Finally, Fixed
<1>2. Ending /\ thrown \in BOOLEAN
  BY <1>1 DEF BinderInv, CallerOK
<1>3. DOMAIN call.method.args = 1..Count(call) /\ Count(call) \in Nat
  BY CallFacts DEF BinderInv, method
<1>4. Remote!Pending
  BY <1>1 DEF Remote!Pending
<1>5. CASE ~thrown /\ method.oneway /\ callResult = Null /\ params = call.args
  BY <1>1, <1>4, <1>5 DEF Remote!ReturnOneway, method
<1>6. CASE /\ ~thrown /\ Returned /\ callResult = runs[1].result
           /\ params = Filled(call, runs[1], AllSent(call))
  <2>1. params = [k \in Remote!Parameters |->
                    IF Remote!Outgoing(Remote!Parameter(k)) THEN runs[1].left[k]
                    ELSE call.args[k]]
    <3>1. \A k \in 1..Count(call) : k < AllSent(call)
      BY <1>3 DEF AllSent
    <3>2. QED
      BY <1>3, <1>6, <3>1, SameDirections DEF Filled, Remote!Parameters, Remote!Parameter
  <2>2. /\ thrown' = FALSE /\ callResult' = runs[1].result
        /\ params' = [k \in Remote!Parameters |->
                        IF Remote!Outgoing(Remote!Parameter(k)) THEN runs[1].left[k]
                        ELSE call.args[k]]
    BY <1>1, <1>6, <2>1
  <2>3. ~call.method.oneway /\ runs # <<>> /\ ~runs[1].threw
    BY <1>6 DEF Returned, method
  <2>4. QED
    BY <1>1, <1>4, <2>2, <2>3, Zenon DEF Remote!Return
<1>7. CASE thrown /\ params = call.args /\ (dead \/ (runs # <<>> /\ runs[1].threw))
  BY <1>1, <1>4, <1>7 DEF Remote!Throw
<1>8. CASE thrown /\ runs # <<>> /\ ~runs[1].threw /\ Stopped
  <2>1. PICK k \in Remote!Parameters : StoppedAt(k)
    BY <1>3, <1>8 DEF Stopped, Remote!Parameters
  <2>2. params = Remote!FilledBefore(k)
    BY <1>3, <2>1, SameDirections
       DEF StoppedAt, Filled, Remote!FilledBefore, Remote!Parameters, Remote!Parameter
  <2>3. Remote!Outgoing(Remote!Parameter(k)) /\ call.args[k] = Null
    BY <2>1, SameDirections, Zenon DEF StoppedAt, Remote!Parameter
  <2>4. Remote!StopsAt(k)
    BY <1>1, <2>2, <2>3 DEF Remote!StopsAt
  <2>5. QED
    BY <1>1, <1>4, <1>8, <2>4 DEF Remote!Throw
<1>9. QED
  BY <1>2, <1>5, <1>6, <1>7, <1>8 DEF Ending

\* Every step of the two processes is one of RemoteCall, or none.
LEMMA BinderStep ==
  BinderInv /\ BinderInv' /\ [Next]_vars => [Remote!Next]_(Remote!vars)
<1> SUFFICES ASSUME BinderInv, BinderInv', [Next]_vars
             PROVE  [Remote!Next]_(Remote!vars)
  OBVIOUS
<1>1. CASE Caller /\ ~Finally
  <2>1. Fixed /\ UNCHANGED <<runs, dead>> /\ cpc # "done" /\ cpc' # "done"
    BY <1>1 DEF Caller, WriteToken, WriteParam, Transact, TransactFails, ReadException,
                ReadResult, ReadOut, EndOuts
  <2>2. QED
    BY <2>1, RemoteSeesNothing
<1>2. CASE Finally
  BY <1>2, EndIsAnswer DEF Remote!Next
<1>3. CASE Stub /\ ~RealCall /\ ~RealCallThrows
  <2>1. Fixed /\ UNCHANGED <<runs, dead>>
    BY <1>3 DEF Stub, Dispatch, EnforceInterface, ReadArg, WriteResult, WriteOut,
                ReturnTrue, Deliver
  <2>2. UNCHANGED caller \/ (cpc # "done" /\ cpc' # "done")
    BY <1>3 DEF Stub, Dispatch, EnforceInterface, ReadArg, WriteResult, WriteOut,
                ReturnTrue, Deliver, caller
  <2>3. QED
    BY <2>1, <2>2, RemoteSeesNothing
<1>4. CASE RealCall \/ RealCallThrows
  BY <1>4, RunIsInvoke DEF Remote!Next
<1>5. CASE Die
  <2>1. /\ dead' /\ call' = call /\ runs' = runs /\ params' = params
        /\ callResult' = callResult
    BY <1>5 DEF Die, Fixed
  <2>2. (cpc' = cpc /\ thrown' = thrown) \/ (cpc # "done" /\ cpc' # "done")
    BY <1>5 DEF Die
  <2>3. Remote!Lose
    BY <2>1, <2>2 DEF Remote!Lose
  <2>4. QED
    BY <2>3 DEF Remote!Next
<1>6. CASE UNCHANGED vars
  <2>1. Fixed /\ UNCHANGED <<runs, dead>> /\ UNCHANGED caller
    BY <1>6 DEF vars, Fixed
  <2>2. QED
    BY <2>1, RemoteSeesNothing
<1>7. QED
  BY <1>1, <1>2, <1>3, <1>4, <1>5, <1>6 DEF Next

\* The generated pair implements a remote call, for every interface of coherent
\* types, whatever is passed and returned and whenever the other process dies.
THEOREM BinderKeepsPromise == ASSUME TypesAssumption PROVE Spec => KeepsCallPromise
<1>1. Init => Remote!Init
  BY DEF Init, Remote!Init, Remote!Pending
<1>2. QED
  BY <1>1, BinderInit, BinderNext, BinderStep, PTL
  DEF Spec, KeepsCallPromise, Remote!Spec
=============================================================================
