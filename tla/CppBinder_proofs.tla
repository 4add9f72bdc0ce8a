--------------------------- MODULE CppBinder_proofs ---------------------------
(***************************************************************************)
(* A call through the C++ classes, for every interface whose classes       *)
(* compile: what the stub reads is what the proxy wrote, and what comes    *)
(* back is what the implementation returned if it fits an int.             *)
(***************************************************************************)
EXTENDS CppBinder, SequenceLemmas

\* The codes of an interface are enumerators of one enum, where C++ takes no name
\* twice.
CodesAssumption ==
  \A f \in Interfaces : \A i, j \in DOMAIN f :
    Makeup(f[i].name) = Makeup(f[j].name) => i = j

-----------------------------------------------------------------------------
(* Names and codes.                                                        *)

\* The characters of the names and of their codes.
Characters == {"_"} \cup DOMAIN UpperOf \cup {UpperOf[l] : l \in DOMAIN UpperOf}

\* What makeup makes of a letter of a name like getFooBar.
Piece(c) == IF IsUpper(c) THEN <<"_", c>> ELSE <<UpperOf[c]>>

\* The head of a sequence can be told, and what follows it.
LEMMA HeadTold ==
  ASSUME NEW S, NEW x \in S, NEW y \in S, NEW r \in Seq(S), NEW s \in Seq(S),
         <<x>> \o r = <<y>> \o s
  PROVE  x = y /\ r = s
<1>1. ASSUME NEW z \in S, NEW t \in Seq(S)
      PROVE  /\ (<<z>> \o t)[1] = z /\ Len(<<z>> \o t) = Len(t) + 1
             /\ \A i \in 1..Len(t) : (<<z>> \o t)[i + 1] = t[i]
  OBVIOUS
<1>2. x = y
  BY <1>1
<1>3. Len(r) = Len(s) /\ \A i \in 1..Len(r) : r[i] = s[i]
  BY <1>1, LenProperties
<1>4. QED
  BY <1>2, <1>3, SeqEqual

\* The first letter can be told from the code, and where the next one starts.
LEMMA PieceTold ==
  ASSUME NEW c, NEW d, IsLower(c) \/ IsUpper(c), IsLower(d) \/ IsUpper(d),
         NEW s \in Seq(Characters), NEW t \in Seq(Characters),
         Piece(c) \o s = Piece(d) \o t
  PROVE  c = d /\ s = t
<1>1. \A e : IsLower(e) => e \in DOMAIN UpperOf /\ UpperOf[e] # "_" /\ UpperOf[e] \in Characters
  BY LettersAssumption DEF IsLower, Characters
<1>2. \A e : IsUpper(e) => e \in Characters /\ e # "_"
  BY LettersAssumption DEF IsUpper, Characters
<1>3. PICK dash \in Characters : dash = "_"
  BY DEF Characters
<1>4. ASSUME NEW e, IsUpper(e), NEW r \in Seq(Characters)
      PROVE  /\ Piece(e) \o r = <<dash>> \o (<<e>> \o r)
             /\ <<e>> \o r \in Seq(Characters)
  <2>1. Piece(e) = <<dash, e>> /\ e \in Characters
    BY <1>2, <1>3, <1>4 DEF Piece
  <2>2. QED
    BY <2>1
<1>5. ASSUME NEW e, ~IsUpper(e), NEW r PROVE Piece(e) \o r = <<UpperOf[e]>> \o r
  BY <1>5 DEF Piece
<1>6. CASE IsUpper(c) /\ IsUpper(d)
  <2>1. PICK u \in Seq(Characters) : u = <<c>> \o s
    BY <1>4, <1>6
  <2>2. PICK v \in Seq(Characters) : v = <<d>> \o t
    BY <1>4, <1>6
  <2>3. <<dash>> \o u = <<dash>> \o v
    BY <1>4, <1>6, <2>1, <2>2
  <2>4. u = v
    BY <2>3, HeadTold
  <2>5. PICK x \in Characters : x = c
    BY <1>2, <1>6
  <2>6. PICK y \in Characters : y = d
    BY <1>2, <1>6
  <2>7. <<x>> \o s = <<y>> \o t
    BY <2>1, <2>2, <2>4, <2>5, <2>6
  <2>8. x = y /\ s = t
    BY SMTT(60), <2>7, HeadTold
  <2>9. QED
    BY <2>5, <2>6, <2>8
<1>7. CASE ~IsUpper(c) /\ ~IsUpper(d)
  <2>1. PICK x \in Characters : x = UpperOf[c]
    BY <1>1, <1>7
  <2>2. PICK y \in Characters : y = UpperOf[d]
    BY <1>1, <1>7
  <2>3. <<x>> \o s = <<y>> \o t
    BY <1>5, <1>7, <2>1, <2>2
  <2>4. x = y /\ s = t
    BY <2>3, HeadTold
  <2>5. QED
    BY <1>1, <1>7, <2>1, <2>2, <2>4, LettersAssumption
<1>8. CASE IsUpper(c) /\ ~IsUpper(d)
  <2>1. PICK u \in Seq(Characters) : u = <<c>> \o s
    BY <1>4, <1>8
  <2>2. PICK y \in Characters : y = UpperOf[d]
    BY <1>1, <1>8
  <2>3. <<dash>> \o u = <<y>> \o t
    BY <1>4, <1>5, <1>8, <2>1, <2>2, ZenonT(60)
  <2>4. dash = y
    BY <2>3, HeadTold
  <2>5. QED
    BY <1>1, <1>3, <1>8, <2>2, <2>4
<1>9. CASE ~IsUpper(c) /\ IsUpper(d)
  <2>1. PICK x \in Characters : x = UpperOf[c]
    BY <1>1, <1>9
  <2>2. PICK v \in Seq(Characters) : v = <<d>> \o t
    BY <1>4, <1>9
  <2>3. <<x>> \o s = <<dash>> \o v
    BY <1>4, <1>5, <1>9, <2>1, <2>2, ZenonT(60)
  <2>4. x = dash
    BY <2>3, HeadTold
  <2>5. QED
    BY <1>1, <1>3, <1>9, <2>1, <2>4
<1>10. QED
  BY <1>6, <1>7, <1>8, <1>9

\* What makeup emits of a letter is one character or two.
LEMMA PieceIsCharacters ==
  ASSUME NEW c, IsLower(c) \/ IsUpper(c)
  PROVE  Piece(c) \in Seq(Characters) /\ Len(Piece(c)) # 0
<1>1. CASE IsUpper(c)
  <2>1. PICK dash \in Characters : dash = "_"
    BY DEF Characters
  <2>2. Piece(c) = <<dash, c>>
    BY <1>1, <2>1 DEF Piece
  <2>a. PICK x \in Characters : x = c
    BY <1>1 DEF IsUpper, Characters
  <2>3. <<dash, x>> \in Seq(Characters) /\ Len(<<dash, x>>) = 2
    OBVIOUS
  <2>4. QED
    BY <2>2, <2>a, <2>3
<1>2. CASE ~IsUpper(c)
  <2>1. UpperOf[c] \in Characters
    BY <1>2 DEF IsLower, Characters
  <2>2. Piece(c) = <<UpperOf[c]>>
    BY <1>2 DEF Piece
  <2>3. QED
    BY <2>1, <2>2
<1>3. QED
  BY <1>1, <1>2

Pieces(name) == [i \in DOMAIN name |-> Piece(name[i])]

\* The code of a name like getFooBar is its pieces joined.
LEMMA CodeJoined ==
  ASSUME NEW name \in Seq(Characters), CamelCase(name)
  PROVE  Joined(Makeup(name), Pieces(name), 1, Len(name) + 1, Characters)
<1>1. Len(name) \in Nat \ {0} /\ DOMAIN name = 1..Len(name)
  BY DEF CamelCase
<1>2. \A i \in DOMAIN name : IsLower(name[i]) \/ IsUpper(name[i])
  BY DEF CamelCase
<1>3. \A c : ~(IsLower(c) /\ IsUpper(c))
  BY LettersAssumption DEF IsLower, IsUpper
<1>4. ASSUME NEW i \in DOMAIN name
      PROVE  (IF i > 1 /\ IsUpper(name[i]) /\ IsLower(name[i - 1])
                THEN <<"_", ToUpper(name[i])>> ELSE <<ToUpper(name[i])>>) = Piece(name[i])
  <2>1. CASE IsUpper(name[i])
    <3>1. i # 1
      BY <1>3, <2>1 DEF CamelCase
    <3>2. i \in 2..Len(name)
      BY <1>1, <3>1
    <3>3. IsLower(name[i - 1])
      BY <2>1, <3>2 DEF CamelCase
    <3>4. ToUpper(name[i]) = name[i]
      BY <1>3, <2>1 DEF ToUpper
    <3>5. i > 1
      BY <1>1, <3>1
    <3>6. QED
      BY Zenon, <2>1, <3>3, <3>4, <3>5 DEF Piece
  <2>2. CASE ~IsUpper(name[i])
    <3>1. IsLower(name[i])
      BY <1>2, <2>2
    <3>2. QED
      BY <2>2, <3>1 DEF Piece, ToUpper
  <2>3. QED
    BY <2>1, <2>2
<1>5. Makeup(name) = FlattenSeq(Pieces(name))
  BY <1>4 DEF Makeup, Pieces
<1>6. \A c : IsLower(c) \/ IsUpper(c) => Piece(c) \in Seq(Characters)
  BY PieceIsCharacters
<1>7. Pieces(name) \in Seq(Seq(Characters)) /\ Len(Pieces(name)) = Len(name)
  BY <1>1, <1>2, <1>6 DEF Pieces
<1>8. QED
  <2>1. PICK parts \in Seq(Seq(Characters)) : parts = Pieces(name)
    BY <1>7
  <2>2. Joined(FlattenSeq(parts), parts, 1, Len(parts) + 1, Characters)
    BY <1>1, <1>7, <2>1, FlattenJoins
  <2>3. QED
    BY <1>5, <1>7, <2>1, <2>2

\* What is left of a code after the first k letters.
Codes(rest, name, k) == Joined(rest, Pieces(name), k + 1, Len(name) + 1, Characters)

\* One code, one name: the letters come out one by one.
LEMMA CodeTold ==
  ASSUME NEW name \in Seq(Characters), CamelCase(name),
         NEW other \in Seq(Characters), CamelCase(other), Makeup(name) = Makeup(other)
  PROVE  Len(name) <= Len(other) /\ \A j \in 1..Len(name) : name[j] = other[j]
<1> DEFINE Told(k) == /\ k <= Len(other) /\ \A j \in 1..k : name[j] = other[j]
                      /\ \E rest : Codes(rest, name, k) /\ Codes(rest, other, k)
           N == {k \in Nat : k <= Len(name) => Told(k)}
<1>1. 0 \in N
  <2>1. Codes(Makeup(name), name, 0) /\ Codes(Makeup(name), other, 0)
    BY CodeJoined DEF Codes
  <2>2. 0 <= Len(other) /\ \A j \in 1..0 : name[j] = other[j]
    OBVIOUS
  <2>3. QED
    BY <2>1, <2>2
<1>2. ASSUME NEW k \in N PROVE k + 1 \in N
  <2> SUFFICES ASSUME k + 1 <= Len(name) PROVE Told(k + 1)
    OBVIOUS
  <2>1. Told(k) /\ k \in Nat
    BY <1>2
  <2>2. PICK rest : Codes(rest, name, k) /\ Codes(rest, other, k)
    BY <2>1
  <2> HIDE DEF N
  <2>3. PICK i \in Int : i = k + 1
    BY <2>1
  <2>4. PICK e \in Int : e = Len(name) + 1
    OBVIOUS
  <2>5. PICK f \in Int : f = Len(other) + 1
    OBVIOUS
  <2>6. Joined(rest, Pieces(name), i, e, Characters) /\ Joined(rest, Pieces(other), i, f, Characters)
    BY <2>2, <2>3, <2>4, <2>5 DEF Codes
  <2>7. i < e /\ i <= f
    BY <2>1, <2>3, <2>4, <2>5
  <2>8. PICK s \in Seq(Characters) :
          rest = Pieces(name)[i] \o s /\ Joined(s, Pieces(name), i + 1, e, Characters)
    BY <2>6, <2>7, JoinedFirst
  <2>9. i \in DOMAIN name /\ Pieces(name)[i] = Piece(name[i])
    BY <2>1, <2>3 DEF Pieces
  <2>10. IsLower(name[i]) \/ IsUpper(name[i])
    BY <2>9 DEF CamelCase
  <2>11. rest # <<>>
    <3>1. PICK first \in Seq(Characters) : first = Piece(name[i]) /\ Len(first) # 0
      BY <2>10, PieceIsCharacters
    <3>2. rest = first \o s
      BY <2>8, <2>9, <3>1
    <3>3. QED
      BY <3>1, <3>2
  <2>12. i < f
    <3>1. i = f => rest = <<>>
      BY <2>6, JoinedAll
    <3>2. QED
      BY <2>7, <2>11, <3>1
  <2>13. PICK t \in Seq(Characters) :
           rest = Pieces(other)[i] \o t /\ Joined(t, Pieces(other), i + 1, f, Characters)
    BY <2>6, <2>12, JoinedFirst
  <2>14. i \in DOMAIN other /\ Pieces(other)[i] = Piece(other[i])
    BY <2>1, <2>3, <2>5, <2>12 DEF Pieces
  <2>15. IsLower(other[i]) \/ IsUpper(other[i])
    BY <2>14 DEF CamelCase
  <2>16. name[i] = other[i] /\ s = t
    <3>1. PICK c : c = name[i]
      OBVIOUS
    <3>2. PICK d : d = other[i]
      OBVIOUS
    <3>3. Piece(c) \o s = Piece(d) \o t
      BY Zenon, <2>8, <2>9, <2>13, <2>14, <3>1, <3>2
    <3>4. (IsLower(c) \/ IsUpper(c)) /\ (IsLower(d) \/ IsUpper(d))
      BY <2>10, <2>15, <3>1, <3>2
    <3>5. \A p \in Seq(Characters), q \in Seq(Characters) : Piece(c) \o p = Piece(d) \o q => c = d /\ p = q
      BY <3>4, PieceTold
    <3>6. s \in Seq(Characters) /\ t \in Seq(Characters)
      OBVIOUS
    <3>7. Piece(c) \o s = Piece(d) \o t => c = d /\ s = t
      BY Zenon, <3>5, <3>6
    <3>8. c = d /\ s = t
      BY <3>3, <3>7
    <3>9. QED
      BY <3>1, <3>2, <3>8
  <2>17. Codes(s, name, k + 1) /\ Codes(s, other, k + 1)
    BY <2>3, <2>4, <2>5, <2>8, <2>13, <2>16 DEF Codes
  <2>18. k + 1 <= Len(other) /\ \A j \in 1..(k + 1) : name[j] = other[j]
    BY <2>1, <2>3, <2>5, <2>12, <2>16
  <2>19. QED
    BY <2>17, <2>18
<1>3. N = Nat
  <2>1. N \in SUBSET Nat
    OBVIOUS
  <2> HIDE DEF N
  <2>2. QED
    BY <1>1, <1>2, <2>1, AllNumbers
<1>4. QED
  <2>1. Len(name) \in N
    BY <1>3, LenProperties
  <2>2. QED
    BY <2>1

\* The names of an interface are like getFooBar, and differ: check_types takes no
\* name twice.
NamesAssumption ==
  \A f \in Interfaces :
    /\ \A i \in DOMAIN f : f[i].name \in Seq(Characters) /\ CamelCase(f[i].name)
    /\ \A i, j \in DOMAIN f : f[i].name = f[j].name => i = j

\* Methods with names like getFooBar have codes of their own: nothing is lost in
\* the capitals, because each one in the name has left an underscore.
THEOREM CamelCaseCodes == ASSUME NamesAssumption PROVE CodesAssumption
<1>1. ASSUME NEW name \in Seq(Characters), CamelCase(name),
             NEW other \in Seq(Characters), CamelCase(other), Makeup(name) = Makeup(other)
      PROVE  name = other
  <2>1. Len(name) <= Len(other) /\ \A j \in 1..Len(name) : name[j] = other[j]
    BY <1>1, CodeTold
  <2>2. Len(other) <= Len(name)
    BY <1>1, CodeTold
  <2>3. QED
    BY <2>1, <2>2, SeqEqual
<1>2. QED
  BY <1>1 DEF NamesAssumption, CodesAssumption

-----------------------------------------------------------------------------
(* The invariant.                                                          *)

IsMethod(m) == \E f \in Interfaces : \E i \in DOMAIN f : m = f[i]

Count(c) == Len(c.method.args)

\* A call of a method of an interface.
Proper(c) ==
  /\ IsMethod(c.method)
  /\ c.args = [k \in 1..Count(c) |-> c.args[k]]
  /\ \A k \in 1..Count(c) : c.args[k] \in Values(c.method.args[k].type)

\* What InterfacesAssumption says of a call.
LEMMA CallFacts ==
  ASSUME NEW c, Proper(c)
  PROVE  /\ Count(c) \in Nat /\ DOMAIN c.method.args = 1..Count(c) /\ Compiles(c.method)
         /\ \A k \in 1..Count(c) : /\ LookupType(c.method.args[k].type).decl = "value"
                                   /\ Incoming(c.method.args[k])
                                   /\ ~Outgoing(c.method.args[k])
<1>1. PICK f \in Interfaces : \E i \in DOMAIN f : c.method = f[i]
  BY DEF Proper, IsMethod
<1>2. /\ Count(c) \in Nat /\ DOMAIN c.method.args = 1..Count(c) /\ Compiles(c.method)
      /\ \A k \in DOMAIN c.method.args :
           c.method.args[k].direction \in {"", "in", "out", "inout"}
  BY <1>1, InterfacesAssumption DEF Count
<1>3. ASSUME NEW k \in 1..Count(c)
      PROVE  /\ LookupType(c.method.args[k].type).decl = "value"
             /\ ~Outgoing(c.method.args[k]) /\ Incoming(c.method.args[k])
  BY <1>2 DEF Compiles, Incoming, Outgoing
<1>4. QED
  BY <1>2, <1>3

-----------------------------------------------------------------------------
(* The words.                                                              *)

\* A variable that can be assigned is read by the method it is written by.
LEMMA TableAgrees ==
  ASSUME NEW type, LookupType(type).decl = "value"
  PROVE  LookupType(type).from = LookupType(type).to /\ type # "WorkSource"
<1>1. type \in DOMAIN TypeMap
  BY DEF LookupType
<1>2. type \in {"int", "long", "byte", "boolean", "String", "String8", "CString", "IBinder",
                "CharSequence", "IBinderThreadPriorityService", "WorkSource", "float"}
  BY <1>1 DEF TypeMap
<1>3. LookupType(type) = TypeMap[type]
  BY <1>1 DEF LookupType
<1>4. QED
  BY <1>2, <1>3 DEF TypeMap, Mapped

\* What an argument is in a request.
Carried(c, k) ==
  Word(LookupType(c.method.args[k].type).to, Encoded(c.method.args[k].type, c.args[k]))

\* The stub finds in it what the caller passed.
LEMMA ArgumentRead ==
  ASSUME NEW c, Proper(c), NEW k \in 1..Count(c),
         NEW words, words # <<>>, Head(words) = Carried(c, k)
  PROVE  Decoded(c.method.args[k].type,
                 Take(words, LookupType(c.method.args[k].type).from)) = c.args[k]
<1> DEFINE type == c.method.args[k].type
           v == c.args[k]
<1>1. LookupType(type).from = LookupType(type).to /\ type # "WorkSource"
  BY CallFacts, TableAgrees
<1>2. Take(words, LookupType(type).from) = Encoded(type, v)
  BY <1>1 DEF Take, Carried, Word
<1>3. CASE type = "boolean"
  <2>1. v \in {True, False}
    BY <1>3 DEF Proper, Values
  <2>2. Encoded(type, v) = IF v = True THEN 1 ELSE 0
    BY <1>3 DEF Encoded, AsRes
  <2>3. Decoded(type, Encoded(type, v)) = IF Encoded(type, v) # 0 THEN True ELSE False
    BY <1>3 DEF Decoded, FromInt32
  <2>4. QED
    BY <1>2, <2>1, <2>2, <2>3, ValuesAssumption
<1>4. CASE type # "boolean"
  <2>1. Encoded(type, v) = v
    BY <1>1, <1>4 DEF Encoded
  <2>2. QED
    BY <1>2, <1>4, <2>1 DEF Decoded
<1>5. QED
  BY <1>3, <1>4

\* It is not garbage.
LEMMA ArgumentIsNoGarbage ==
  ASSUME NEW c, Proper(c), NEW k \in 1..Count(c)
  PROVE  c.args[k] # Garbage
<1>1. c.args[k] \in Int \cup {True, False} \cup Objects
  BY HalfAssumption DEF Proper, Values, Int32s, Int64s
<1>2. QED
  BY <1>1, ValuesAssumption

\* The results of a method, and what a caller makes of the int they pass through.
ResultsOf(m) == IF Void(m) THEN {Null} ELSE Values(m.returns[1].type)

BroughtBack(m, result) ==
  FromInt32(m.returns[1].type, AsRes(m.returns[1].type, result))

LEMMA ResultFacts ==
  ASSUME NEW c, Proper(c), ~Void(c.method), NEW result \in ResultsOf(c.method)
  PROVE  /\ AsRes(c.method.returns[1].type, result) \in Int
         /\ BroughtBack(c.method, result) # Garbage
         /\ FromInt32(c.method.returns[1].type, 0) # Garbage
<1> DEFINE type == c.method.returns[1].type
<1>1. type \in {"int", "long", "byte", "boolean", "float"} /\ result \in Values(type)
  BY CallFacts DEF Compiles, ResultsOf
<1>2. result \in Int \cup {True, False} /\ (type # "boolean" => result \in Int)
  BY <1>1, HalfAssumption DEF Values, Int32s, Int64s
<1>3. AsRes(type, result) \in Int
  <2>1. CASE type = "boolean"
    BY <2>1 DEF AsRes
  <2>2. CASE type = "float"
    BY <1>2, <2>2 DEF AsRes
  <2>3. CASE type \notin {"boolean", "float"}
    <3>1. result \in Int /\ 2 * Half \in Nat \ {0}
      BY <1>2, <2>3, HalfAssumption
    <3>2. Low(result) \in Int
      BY <3>1, HalfAssumption DEF Low
    <3>3. QED
      BY <2>3, <3>2 DEF AsRes
  <2>4. QED
    BY <2>1, <2>2, <2>3
<1>4. \A n \in Int : FromInt32(type, n) # Garbage
  BY <1>1, ValuesAssumption DEF FromInt32
<1>5. QED
  BY <1>3, <1>4 DEF BroughtBack

\* A result that fits an int comes back as it was.
LEMMA FittingComesBack ==
  ASSUME NEW m, ~Void(m), m.returns[1].type \in {"int", "byte", "boolean"},
         NEW result \in ResultsOf(m)
  PROVE  BroughtBack(m, result) = result
<1> DEFINE type == m.returns[1].type
<1>1. result \in Values(type)
  BY DEF ResultsOf
<1>2. CASE type = "boolean"
  <2>1. result \in {True, False}
    BY <1>1, <1>2 DEF Values
  <2>2. AsRes(type, result) = IF result = True THEN 1 ELSE 0
    BY <1>2 DEF AsRes
  <2>3. BroughtBack(m, result) = IF AsRes(type, result) # 0 THEN True ELSE False
    BY <1>2 DEF BroughtBack, FromInt32
  <2>4. QED
    BY <2>1, <2>2, <2>3, ValuesAssumption
<1>3. CASE type \in {"int", "byte"}
  <2>1. result \in Int /\ -Half <= result /\ result <= Half - 1
    BY <1>1, <1>3, HalfAssumption DEF Values, Int32s
  <2>2. BroughtBack(m, result) = Low(result)
    BY <1>3 DEF BroughtBack, FromInt32, AsRes
  <2>3. (result + Half) % (2 * Half) = result + Half
    <3>1. PICK n, w \in Int : n = result + Half /\ w = 2 * Half
      BY <2>1, HalfAssumption
    <3>2. 0 <= n /\ n < w
      BY <2>1, <3>1, HalfAssumption
    <3>3. n % w = n
      BY <3>1, <3>2
    <3>4. QED
      BY <3>1, <3>3
  <2>4. QED
    BY <2>1, <2>2, <2>3, HalfAssumption DEF Low
<1>4. QED
  BY <1>2, <1>3


-----------------------------------------------------------------------------
(* The stages of a call.                                                   *)

Token == Word("Token", "descriptor")

Wire(c) == {Token} \cup {Carried(c, k) : k \in 1..Count(c)}

\* The words are a request, of the first n arguments.
IsRequest(c, n, words) ==
  /\ words \in Seq(Wire(c)) /\ Len(words) = n + 1
  /\ words[1] = Token /\ \A k \in 1..n : words[k + 1] = Carried(c, k)

\* They are what is left of one before argument k is read.
IsRest(c, k, words) ==
  /\ words \in Seq(Wire(c)) /\ Len(words) = Count(c) + 1 - k
  /\ \A i \in k..Count(c) : words[i + 1 - k] = Carried(c, i)

ProperRun(c, run) ==
  /\ run.index = c.index /\ ~run.threw
  /\ \A k \in 1..Count(c) : run.received[k] = c.args[k]
  /\ run.result \in ResultsOf(c.method)

ReplyTo(c, run) ==
  IF Void(c.method) THEN <<>>
  ELSE <<Word("Exception", 0),
         Word("Int32", AsRes(c.method.returns[1].type, run.result))>>

\* The call is one of a method of the interface.
CallOK ==
  /\ face \in Interfaces /\ call.index \in DOMAIN face
  /\ call.method = face[call.index] /\ Proper(call)

\* The implementation has run once at most, as it should.
RunsOK ==
  /\ runs # <<>> => Len(runs) = 1 /\ ProperRun(call, runs[1])
  /\ spc \in {"idle", "dispatch", "check", "args"} => runs = <<>>
  /\ spc \in {"reply", "return", "sent"} => runs # <<>>

\* What the method returns, when transact has returned.
ReturnsWhat ==
  IF Void(method) THEN Null
  ELSE IF status = "NO_ERROR" THEN BroughtBack(method, runs[1].result)
  ELSE FromInt32(method.returns[1].type, 0)

CallerOK ==
  /\ cpc \in {"token", "params", "wait", "return", "done"}
  /\ cpc \in {"token", "params"} => runs = <<>> /\ spc = IF dead THEN "dead" ELSE "idle"
  /\ spc \in {"dispatch", "check", "args", "reply", "return"} => cpc = "wait" /\ ~dead
  /\ cpc \in {"token", "params", "wait"} => reply = <<>> /\ status = "none"
  /\ cpc # "done" => callResult = Null
  /\ cpc = "token" => ck = 1
  /\ cpc = "params" => ck \in 1..(Count(call) + 1) /\ IsRequest(call, ck - 1, data)
  /\ cpc \in {"return", "done"} =>
       \/ status = "NO_ERROR" /\ runs # <<>>
       \/ status = "DEAD_OBJECT" /\ dead
  /\ cpc = "return" =>
       reply = IF status = "NO_ERROR" THEN ReplyTo(call, runs[1]) ELSE <<>>
  /\ cpc = "done" => reply = <<>> /\ callResult = ReturnsWhat

StubOK ==
  /\ \A k \in DOMAIN locals : k \in 1..Count(call) /\ locals[k] = call.args[k]
  /\ spc \in {"idle", "dispatch", "check", "args", "reply", "return", "sent", "dead"}
  /\ spc \in {"idle", "dispatch", "check"} => sk = 1 /\ locals = <<>>
  /\ spc = "dispatch" => code = Makeup(method.name)
  /\ spc \in {"dispatch", "check"} => IsRequest(call, Count(call), request)
  /\ spc \in {"check", "args", "reply"} => served = call.index
  /\ spc = "args" =>
       /\ sk \in 1..(Count(call) + 1) /\ IsRest(call, sk, request)
       /\ locals \in Seq({call.args[k] : k \in 1..Count(call)}) /\ Len(locals) = sk - 1
  /\ spc = "reply" /\ ~Void(method) => res = AsRes(method.returns[1].type, runs[1].result)
  /\ spc = "return" => out = ReplyTo(call, runs[1])

CppInv == CallOK /\ RunsOK /\ CallerOK /\ StubOK

-----------------------------------------------------------------------------
(* Every step keeps the invariant.                                         *)

\* The method that is called.
LEMMA MethodFacts ==
  ASSUME CallOK
  PROVE  /\ Proper(call) /\ method = call.method /\ face[call.index] = method
         /\ Count(call) \in Nat /\ DOMAIN method.args = 1..Count(call)
BY CallFacts DEF CallOK, method

LEMMA CallStays == CallOK /\ Fixed => CallOK'
BY DEF CallOK, Fixed

\* A step of the caller leaves the stub.
LEMMA StubStays == StubOK /\ Fixed /\ UNCHANGED <<runs, stub>> => StubOK'
<1> SUFFICES ASSUME StubOK, Fixed, UNCHANGED <<runs, stub>> PROVE StubOK'
  OBVIOUS
<1>1. /\ call' = call /\ runs' = runs /\ spc' = spc /\ sk' = sk /\ code' = code
      /\ served' = served /\ request' = request /\ locals' = locals
      /\ res' = res /\ out' = out
  BY DEF Fixed, stub
<1>2. QED
  BY <1>1 DEF StubOK, method

\* A request has a first word before there is any argument.
LEMMA RequestStarts == ASSUME NEW c PROVE IsRequest(c, 0, <<Token>>)
BY DEF IsRequest, Wire

\* It gets the word of the next argument.
LEMMA RequestGrows ==
  ASSUME NEW c, Count(c) \in Nat, NEW k \in 1..Count(c), NEW words,
         IsRequest(c, k - 1, words)
  PROVE  IsRequest(c, k, Append(words, Carried(c, k)))
<1>1. PICK S : S = Wire(c)
  OBVIOUS
<1>2. PICK w \in S : w = Carried(c, k)
  BY <1>1 DEF Wire
<1>3. /\ words \in Seq(S) /\ Len(words) = k /\ words[1] = Token
      /\ \A i \in 1..(k - 1) : words[i + 1] = Carried(c, i)
  BY <1>1 DEF IsRequest
<1>4. /\ Append(words, w) \in Seq(S) /\ Len(Append(words, w)) = k + 1
      /\ \A i \in 1..k : Append(words, w)[i] = words[i]
      /\ Append(words, w)[k + 1] = w
  BY <1>3, AppendProperties
<1>5. ASSUME NEW i \in 1..k PROVE Append(words, w)[i + 1] = Carried(c, i)
  <2>1. CASE i = k
    BY <1>2, <1>4, <2>1
  <2>2. CASE i # k
    BY <1>3, <1>4, <2>2
  <2>3. QED
    BY <2>1, <2>2
<1>6. QED
  BY <1>1, <1>2, <1>3, <1>4, <1>5 DEF IsRequest

\* Without the first word it is what the stub reads the arguments from.
LEMMA RequestOpens ==
  ASSUME NEW c, Count(c) \in Nat, NEW words, IsRequest(c, Count(c), words)
  PROVE  /\ Take(words, "Token") = "descriptor"
         /\ IsRest(c, 1, Dropped(words))
<1>1. PICK S : S = Wire(c)
  OBVIOUS
<1>2. words \in Seq(S) /\ Len(words) = Count(c) + 1 /\ words[1] = Token
  BY <1>1 DEF IsRequest
<1>3. words # <<>> /\ Head(words) = Token
  BY <1>2
<1>4. /\ Dropped(words) \in Seq(S) /\ Len(Dropped(words)) = Count(c)
      /\ \A i \in 1..Count(c) : Dropped(words)[i] = words[i + 1]
  BY <1>2, SubSeqProperties DEF Dropped
<1>5. Take(words, "Token") = "descriptor"
  BY <1>3 DEF Take, Token, Word
<1>6. IsRest(c, 1, Dropped(words))
  BY <1>1, <1>4 DEF IsRequest, IsRest
<1>7. QED
  BY <1>5, <1>6

\* The first word of the rest is the next argument, and the others are its rest.
LEMMA RestShrinks ==
  ASSUME NEW c, Count(c) \in Nat, NEW k \in 1..Count(c), NEW words, IsRest(c, k, words)
  PROVE  /\ words # <<>> /\ Head(words) = Carried(c, k)
         /\ IsRest(c, k + 1, Dropped(words))
<1>1. PICK S : S = Wire(c)
  OBVIOUS
<1>2. PICK n \in Nat : n = Count(c) - k
  OBVIOUS
<1>3. words \in Seq(S) /\ Len(words) = n + 1 /\ words[1] = Carried(c, k)
  BY <1>1, <1>2 DEF IsRest
<1>4. words # <<>> /\ Head(words) = Carried(c, k)
  BY <1>3
<1>5. /\ Dropped(words) \in Seq(S) /\ Len(Dropped(words)) = n
      /\ \A i \in 1..n : Dropped(words)[i] = words[i + 1]
  BY <1>3, SubSeqProperties DEF Dropped
<1>6. ASSUME NEW i \in (k + 1)..Count(c)
      PROVE  Dropped(words)[i + 1 - (k + 1)] = Carried(c, i)
  <2>1. i - k \in 1..n /\ i + 1 - (k + 1) = i - k /\ (i - k) + 1 = i + 1 - k /\ i \in k..Count(c)
    BY <1>2
  <2>2. words[i + 1 - k] = Carried(c, i)
    BY <2>1 DEF IsRest
  <2>3. QED
    BY <1>5, <2>1, <2>2
<1>7. QED
  BY <1>1, <1>2, <1>4, <1>5, <1>6 DEF IsRest

LEMMA CppInit == Init => CppInv
<1> SUFFICES ASSUME Init PROVE CppInv
  OBVIOUS
<1>1. PICK i \in DOMAIN face :
        \E args \in Tuples([k \in DOMAIN face[i].args |-> Values(face[i].args[k].type)]) :
          call = [method |-> face[i], index |-> i, args |-> args]
  BY DEF Init
<1> DEFINE m == face[i]
           sets == [k \in DOMAIN m.args |-> Values(m.args[k].type)]
<1>2. PICK args \in Tuples(sets) : call = [method |-> m, index |-> i, args |-> args]
  BY <1>1
<1>3. face \in Interfaces /\ IsMethod(m) /\ DOMAIN m.args = 1..Len(m.args)
  BY InterfacesAssumption DEF Init, IsMethod
<1>4. /\ args = [k \in DOMAIN m.args |-> args[k]]
      /\ \A k \in DOMAIN m.args : args[k] \in Values(m.args[k].type)
  BY InTuples
<1>5. CallOK
  BY <1>2, <1>3, <1>4 DEF CallOK, Proper, Count
<1>6. QED
  BY <1>5 DEF Init, CppInv, RunsOK, CallerOK, StubOK


LEMMA WriteTokenOK == CppInv /\ WriteToken => CppInv'
<1> SUFFICES ASSUME CppInv, WriteToken PROVE CppInv'
  OBVIOUS
<1> USE DEF CppInv, WriteToken
<1>1. CallOK' /\ StubOK'
  BY CallStays, StubStays
<1>2. RunsOK'
  BY DEF RunsOK, Fixed, stub
<1>3. IsRequest(call, 0, data')
  BY RequestStarts DEF Token
<1>4. CallerOK'
  BY <1>3, MethodFacts DEF CallerOK, Fixed, stub
<1>5. QED
  BY <1>1, <1>2, <1>4

LEMMA WriteParamOK == CppInv /\ WriteParam => CppInv'
<1> SUFFICES ASSUME CppInv, WriteParam PROVE CppInv'
  OBVIOUS
<1>1. /\ cpc = "params" /\ ck \in DOMAIN method.args /\ ck' = ck + 1 /\ Fixed
      /\ UNCHANGED <<runs, dead, cpc, reply, status, callResult, stub>>
  BY DEF WriteParam
<1>2. CallOK' /\ StubOK'
  BY <1>1, CallStays, StubStays DEF CppInv
<1>3. RunsOK'
  BY <1>1 DEF CppInv, RunsOK, Fixed, stub
<1>4. ck \in 1..Count(call) /\ Count(call) \in Nat /\ IsRequest(call, ck - 1, data)
  BY <1>1, MethodFacts DEF CppInv, CallerOK
<1>5. data' = Append(data, Carried(call, ck))
  <2>1. Incoming(method.args[ck])
    BY <1>4, CallFacts DEF CppInv, CallOK, method
  <2>2. QED
    BY <2>1 DEF WriteParam, Carried, method
<1>6. IsRequest(call, ck, data')
  BY <1>4, <1>5, RequestGrows
<1>7. /\ ck' \in 1..(Count(call) + 1) /\ ck' - 1 = ck
  BY <1>1, <1>4
<1>8. CallerOK'
  BY <1>1, <1>6, <1>7 DEF CppInv, CallerOK, Fixed, stub
<1>9. QED
  BY <1>2, <1>3, <1>8 DEF CppInv

LEMMA TransactOK == CppInv /\ Transact => CppInv'
<1> SUFFICES ASSUME CppInv, Transact PROVE CppInv'
  OBVIOUS
<1> USE DEF CppInv, Transact
<1>1. CallOK'
  BY CallStays
<1>2. ck - 1 = Count(call) /\ spc = "idle" /\ ~dead /\ runs = <<>>
  BY MethodFacts DEF CallerOK
<1>3. RunsOK'
  BY <1>2 DEF RunsOK, Fixed
<1>4. CallerOK'
  BY <1>2 DEF CallerOK, Fixed
<1>5. StubOK'
  BY <1>2, MethodFacts DEF StubOK, CallerOK, Fixed, method
<1>6. QED
  BY <1>1, <1>3, <1>4, <1>5

LEMMA TransactFailsOK == CppInv /\ TransactFails => CppInv'
<1> SUFFICES ASSUME CppInv, TransactFails PROVE CppInv'
  OBVIOUS
<1> USE DEF CppInv, TransactFails
<1>1. CallOK' /\ StubOK'
  BY CallStays, StubStays
<1>2. RunsOK'
  BY DEF RunsOK, Fixed, stub
<1>3. CallerOK'
  BY DEF CallerOK, Fixed, stub
<1>4. QED
  BY <1>1, <1>2, <1>3

LEMMA ReturnStatusOK == CppInv /\ ReturnStatus => CppInv'
<1> SUFFICES ASSUME CppInv, ReturnStatus PROVE CppInv'
  OBVIOUS
<1> USE DEF CppInv, ReturnStatus
<1>1. CallOK' /\ StubOK'
  BY CallStays, StubStays
<1>2. RunsOK'
  BY DEF RunsOK, Fixed, stub
<1>3. reply = <<>> /\ callResult = Null
  BY DEF CallerOK, ReplyTo, method
<1>4. CallerOK'
  BY <1>3 DEF CallerOK, ReturnsWhat, Fixed, stub, method
<1>5. QED
  BY <1>1, <1>2, <1>4

\* Reading a reply of two words.
LEMMA TwoWords ==
  ASSUME NEW a, NEW b
  PROVE  Dropped(<<a, b>>) = <<b>> /\ Dropped(<<b>>) = <<>> /\ Dropped(<<>>) = <<>>
<1>1. /\ <<a, b>> \in Seq({a, b}) /\ Len(<<a, b>>) = 2 /\ <<a, b>>[2] = b
      /\ <<b>> \in Seq({a, b}) /\ Len(<<b>>) = 1 /\ <<b>>[1] = b
  OBVIOUS
<1>2. /\ Dropped(<<a, b>>) \in Seq({a, b}) /\ Len(Dropped(<<a, b>>)) = 1
      /\ Dropped(<<a, b>>)[1] = b
  BY <1>1, SubSeqProperties DEF Dropped
<1>3. Dropped(<<a, b>>) = <<b>>
  BY <1>1, <1>2
<1>4. Dropped(<<b>>) = <<>>
  BY <1>1, SubSeqProperties DEF Dropped
<1>5. Dropped(<<>>) = <<>>
  BY DEF Dropped
<1>6. QED
  BY <1>3, <1>4, <1>5

LEMMA ReturnResultOK == CppInv /\ ReturnResult => CppInv'
<1> SUFFICES ASSUME CppInv, ReturnResult PROVE CppInv'
  OBVIOUS
<1>1. /\ cpc = "return" /\ ~Void(method) /\ cpc' = "done" /\ Fixed
      /\ UNCHANGED <<runs, dead, ck, data, status, stub>>
  BY DEF ReturnResult
<1>2. CallOK' /\ StubOK'
  BY <1>1, CallStays, StubStays DEF CppInv
<1>3. RunsOK'
  BY <1>1 DEF CppInv, RunsOK, Fixed, stub
<1>4. reply' = <<>> /\ callResult' = ReturnsWhat
  <2> DEFINE type == method.returns[1].type
  <2>1. CASE status = "NO_ERROR"
    <3>1. PICK n : n = AsRes(type, runs[1].result)
      OBVIOUS
    <3>2. reply = <<Word("Exception", 0), Word("Int32", n)>>
      BY <1>1, <2>1, <3>1 DEF CppInv, CallerOK, ReplyTo, method
    <3>3. PICK a, b : a = Word("Exception", 0) /\ b = Word("Int32", n)
      OBVIOUS
    <3>4. /\ reply = <<a, b>> /\ Dropped(reply) = <<b>> /\ Dropped(Dropped(reply)) = <<>>
      BY <3>2, <3>3, TwoWords
    <3>5. /\ reply # <<>> /\ Head(reply) = a /\ <<b>> # <<>> /\ Head(<<b>>) = b
      BY <3>4
    <3>6. Take(reply, "Exception") = 0 /\ Take(Dropped(reply), "Int32") = n
      BY <3>3, <3>4, <3>5 DEF Take, Word
    <3>7. callResult' = FromInt32(type, n) /\ reply' = <<>>
      BY <3>4, <3>6 DEF ReturnResult
    <3>8. QED
      BY <1>1, <2>1, <3>1, <3>7 DEF ReturnsWhat, BroughtBack
  <2>2. CASE status # "NO_ERROR"
    <3>1. reply = <<>>
      BY <1>1, <2>2 DEF CppInv, CallerOK
    <3>2. Dropped(<<>>) = <<>>
      BY TwoWords
    <3>3. Take(reply, "Exception") = 0 /\ Take(Dropped(reply), "Int32") = 0
      BY <3>1, <3>2 DEF Take
    <3>4. callResult' = FromInt32(type, 0) /\ reply' = <<>>
      BY <3>1, <3>2, <3>3 DEF ReturnResult
    <3>5. QED
      BY <1>1, <2>2, <3>4 DEF ReturnsWhat
  <2>3. QED
    BY <2>1, <2>2
<1>5. CallerOK'
  BY <1>1, <1>4 DEF CppInv, CallerOK, ReturnsWhat, Fixed, stub, method
<1>6. QED
  BY <1>2, <1>3, <1>5 DEF CppInv

\* The case that runs is the one of the method that was called.
LEMMA DispatchOK == CodesAssumption /\ CppInv /\ Dispatch => CppInv'
<1> SUFFICES ASSUME CodesAssumption, CppInv, Dispatch PROVE CppInv'
  OBVIOUS
<1>1. /\ spc = "dispatch" /\ spc' = "check" /\ Fixed
      /\ UNCHANGED <<runs, dead, caller, sk, code, request, locals, res, out>>
  BY DEF Dispatch
<1>2. CallOK'
  BY <1>1, CallStays DEF CppInv
<1>3. RunsOK'
  BY <1>1 DEF CppInv, RunsOK, Fixed
<1>4. CallerOK'
  BY <1>1 DEF CppInv, CallerOK, ReturnsWhat, Fixed, caller, method
<1>5. served' = call.index
  <2> DEFINE I == {i \in 1..Len(face) : Makeup(face[i].name) = code}
  <2>1. served' = IF I # {} THEN Min(I) ELSE 0
    BY DEF Dispatch, SelectInSeq
  <2>2. /\ call.index \in 1..Len(face) /\ Len(face) \in Nat /\ DOMAIN face = 1..Len(face)
        /\ face \in Interfaces
    BY InterfacesAssumption DEF CppInv, CallOK
  <2>3. code = Makeup(face[call.index].name)
    BY <1>1, MethodFacts DEF CppInv, StubOK
  <2>4. \A i \in 1..Len(face) : Makeup(face[i].name) = code <=> i = call.index
    BY <2>2, <2>3 DEF CodesAssumption
  <2>5. I = {call.index}
    BY <2>2, <2>4
  <2>6. Min({call.index}) = call.index
    BY <2>2 DEF Min
  <2>7. QED
    BY <2>1, <2>5, <2>6
<1>6. StubOK'
  BY <1>1, <1>5 DEF CppInv, StubOK, Fixed
<1>7. QED
  BY <1>2, <1>3, <1>4, <1>6 DEF CppInv

LEMMA CheckInterfaceOK == CppInv /\ CheckInterface => CppInv'
<1> SUFFICES ASSUME CppInv, CheckInterface PROVE CppInv'
  OBVIOUS
<1> USE DEF CppInv, CheckInterface
<1>1. CallOK'
  BY CallStays
<1>2. RunsOK'
  BY DEF RunsOK, Fixed
<1>3. CallerOK'
  BY DEF CallerOK, ReturnsWhat, Fixed, caller, method
<1>4. IsRest(call, 1, request') /\ Count(call) \in Nat
  BY MethodFacts, RequestOpens DEF StubOK
<1>5. sk = 1 /\ locals = <<>> /\ served = call.index
  BY DEF StubOK
<1>6. /\ <<>> \in Seq({call.args[k] : k \in 1..Count(call)}) /\ Len(<<>>) = 0
      /\ 1 \in 1..(Count(call) + 1)
  BY <1>4
<1>7. StubOK'
  BY <1>4, <1>5, <1>6 DEF StubOK, Fixed
<1>8. QED
  BY <1>1, <1>2, <1>3, <1>7

LEMMA ReadArgOK == CppInv /\ ReadArg => CppInv'
<1> SUFFICES ASSUME CppInv, ReadArg PROVE CppInv'
  OBVIOUS
<1>1. /\ spc = "args" /\ sk \in DOMAIN Served.args /\ sk' = sk + 1 /\ Fixed
      /\ UNCHANGED <<runs, dead, caller, spc, code, served, res, out>>
  BY DEF ReadArg
<1>2. CallOK'
  BY <1>1, CallStays DEF CppInv
<1>3. RunsOK'
  BY <1>1 DEF CppInv, RunsOK, Fixed
<1>4. CallerOK'
  BY <1>1 DEF CppInv, CallerOK, ReturnsWhat, Fixed, caller, method
<1>5. /\ served = call.index /\ IsRest(call, sk, request)
      /\ locals \in Seq({call.args[k] : k \in 1..Count(call)}) /\ Len(locals) = sk - 1
      /\ \A k \in DOMAIN locals : k \in 1..Count(call) /\ locals[k] = call.args[k]
  BY <1>1 DEF CppInv, StubOK
<1>6. Served = call.method /\ Proper(call) /\ sk \in 1..Count(call) /\ Count(call) \in Nat
  BY <1>1, <1>5, MethodFacts DEF CppInv, Served
<1>7. /\ request # <<>> /\ Head(request) = Carried(call, sk)
      /\ IsRest(call, sk + 1, Dropped(request))
  BY <1>5, <1>6, RestShrinks
<1>8. /\ locals' = Append(locals, call.args[sk]) /\ request' = Dropped(request)
  <2>1. Incoming(call.method.args[sk])
    BY <1>6, CallFacts
  <2>2. Decoded(call.method.args[sk].type,
                Take(request, LookupType(call.method.args[sk].type).from)) = call.args[sk]
    BY <1>6, <1>7, ArgumentRead
  <2>3. QED
    BY <1>6, <2>1, <2>2 DEF ReadArg
<1>9. PICK S : S = {call.args[k] : k \in 1..Count(call)}
  OBVIOUS
<1>10. /\ locals' \in Seq(S) /\ Len(locals') = sk
       /\ \A k \in 1..sk : locals'[k] = call.args[k]
  <2>1. PICK v \in S : v = call.args[sk]
    BY <1>6, <1>9
  <2>2. /\ locals' \in Seq(S) /\ Len(locals') = Len(locals) + 1
        /\ \A k \in 1..Len(locals) : locals'[k] = locals[k]
        /\ locals'[Len(locals) + 1] = v
    BY <1>5, <1>8, <1>9, <2>1, AppendProperties
  <2>3. QED
    BY <1>5, <1>6, <2>1, <2>2
<1>11. /\ sk' \in 1..(Count(call) + 1) /\ sk' - 1 = sk
  BY <1>1, <1>6
<1>12. \A k \in DOMAIN locals' : k \in 1..Count(call) /\ locals'[k] = call.args[k]
  BY <1>6, <1>10
<1>13. /\ call' = call /\ runs' = runs /\ spc' = "args" /\ served' = call.index
  BY <1>1, <1>5 DEF Fixed
<1>14. StubOK'
  BY <1>1, <1>7, <1>8, <1>9, <1>10, <1>11, <1>12, <1>13 DEF StubOK
<1>15. QED
  BY <1>2, <1>3, <1>4, <1>14 DEF CppInv

\* Where the implementation is called it gets what was passed.
LEMMA AllReceived ==
  ASSUME CppInv, spc = "args", sk \notin DOMAIN Served.args
  PROVE  /\ served = call.index /\ Served = method /\ request = <<>>
         /\ \A k \in 1..Count(call) : locals[k] = call.args[k]
<1>1. served = call.index /\ Served = method /\ Count(call) \in Nat
  BY MethodFacts DEF CppInv, StubOK, Served
<1>2. sk = Count(call) + 1
  BY <1>1, MethodFacts DEF CppInv, StubOK
<1>3. PICK S : request \in Seq(S) /\ Len(request) = 0
  BY <1>1, <1>2 DEF CppInv, StubOK, IsRest
<1>4. request = <<>>
  BY <1>3, EmptySeq
<1>5. DOMAIN locals = 1..Count(call)
  BY <1>1, <1>2 DEF CppInv, StubOK
<1>6. QED
  BY <1>1, <1>4, <1>5 DEF CppInv, StubOK

LEMMA RealCallOK == CppInv /\ RealCall => CppInv'
<1> SUFFICES ASSUME CppInv, RealCall PROVE CppInv'
  OBVIOUS
<1>1. /\ spc = "args" /\ sk \notin DOMAIN Served.args /\ spc' = "reply" /\ Fixed
      /\ UNCHANGED <<dead, caller, sk, code, served, request, locals, out>>
  BY DEF RealCall
<1>2. CallOK'
  BY <1>1, CallStays DEF CppInv
<1>3. /\ served = call.index /\ Served = method /\ runs = <<>>
      /\ \A k \in 1..Count(call) : locals[k] = call.args[k]
  BY <1>1, AllReceived DEF CppInv, RunsOK
<1>4. PICK result \in ResultsOf(method) :
        /\ runs' = Append(runs, [index |-> served, received |-> locals, threw |-> FALSE,
                                 result |-> result, left |-> locals])
        /\ ~Void(method) => res' = AsRes(method.returns[1].type, result)
  BY <1>3 DEF RealCall, ResultsOf
<1>5. PICK run : run = [index |-> served, received |-> locals, threw |-> FALSE,
                        result |-> result, left |-> locals]
  OBVIOUS
<1>6. runs' = <<run>>
  BY <1>3, <1>4, <1>5
<1>7. runs' # <<>> /\ Len(runs') = 1 /\ runs'[1] = run
  BY <1>6
<1>8. ProperRun(call, run) /\ run.result = result
  BY <1>3, <1>4, <1>5 DEF ProperRun, method
<1>9. /\ call' = call /\ cpc' = cpc /\ dead' = dead /\ served' = served /\ locals' = locals
      /\ method' = method
  BY <1>1 DEF Fixed, caller, method
<1>10. RunsOK'
  BY <1>1, <1>7, <1>8, <1>9 DEF RunsOK
<1>11. cpc = "wait" /\ ~dead
  BY <1>1 DEF CppInv, CallerOK
<1>12. CallerOK'
  BY <1>1, <1>9, <1>11 DEF CppInv, CallerOK, caller
<1>13. StubOK'
  BY <1>1, <1>3, <1>4, <1>7, <1>8, <1>9 DEF CppInv, StubOK
<1>14. QED
  BY <1>2, <1>10, <1>12, <1>13 DEF CppInv

LEMMA WriteReplyOK == CppInv /\ WriteReply => CppInv'
<1> SUFFICES ASSUME CppInv, WriteReply PROVE CppInv'
  OBVIOUS
<1> USE DEF CppInv, WriteReply
<1>1. CallOK'
  BY CallStays
<1>2. RunsOK'
  BY DEF RunsOK, Fixed
<1>3. CallerOK'
  BY DEF CallerOK, ReturnsWhat, Fixed, caller, method
<1>4. served = call.index /\ Served = method
  BY MethodFacts DEF StubOK, Served
<1>5. out' = ReplyTo(call, runs[1])
  BY <1>4 DEF StubOK, ReplyTo, method
<1>6. StubOK'
  BY <1>5 DEF StubOK, Fixed
<1>7. QED
  BY <1>1, <1>2, <1>3, <1>6

LEMMA DeliverOK == CppInv /\ Deliver => CppInv'
<1> SUFFICES ASSUME CppInv, Deliver PROVE CppInv'
  OBVIOUS
<1> USE DEF CppInv, Deliver
<1>1. CallOK'
  BY CallStays
<1>2. RunsOK'
  BY DEF RunsOK, Fixed
<1>3. CallerOK'
  BY DEF CallerOK, RunsOK, StubOK, Fixed
<1>4. StubOK'
  BY DEF StubOK, Fixed
<1>5. QED
  BY <1>1, <1>2, <1>3, <1>4

LEMMA DieOK == CppInv /\ Die => CppInv'
<1> SUFFICES ASSUME CppInv, Die PROVE CppInv'
  OBVIOUS
<1> USE DEF CppInv, Die
<1>1. CallOK'
  BY CallStays
<1>2. RunsOK'
  BY DEF RunsOK, Fixed
<1>3. CallerOK'
  <2>1. CASE cpc = "wait"
    BY <2>1 DEF CallerOK, Fixed
  <2>2. CASE cpc # "wait"
    BY <2>2 DEF CallerOK, ReturnsWhat, Fixed, method
  <2>3. QED
    BY <2>1, <2>2
<1>4. StubOK'
  BY DEF StubOK, Fixed
<1>5. QED
  BY <1>1, <1>2, <1>3, <1>4

LEMMA CppNext == CodesAssumption /\ CppInv /\ [Next]_vars => CppInv'
<1> SUFFICES ASSUME CodesAssumption, CppInv, [Next]_vars PROVE CppInv'
  OBVIOUS
<1>1. CASE Caller
  BY <1>1, WriteTokenOK, WriteParamOK, TransactOK, TransactFailsOK, ReturnStatusOK,
     ReturnResultOK DEF Caller
<1>2. CASE Stub
  BY <1>2, DispatchOK, CheckInterfaceOK, ReadArgOK, RealCallOK, WriteReplyOK, DeliverOK
     DEF Stub
<1>3. CASE UNCHANGED vars
  <2>1. Fixed /\ UNCHANGED <<runs, dead, caller, stub>>
    BY <1>3 DEF vars, Fixed
  <2>2. CallOK' /\ StubOK'
    BY <2>1, CallStays, StubStays DEF CppInv
  <2>3. RunsOK'
    BY <2>1 DEF CppInv, RunsOK, Fixed, stub
  <2>4. CallerOK'
    BY <2>1 DEF CppInv, CallerOK, ReturnsWhat, Fixed, caller, stub, method
  <2>5. QED
    BY <2>2, <2>3, <2>4 DEF CppInv
<1>4. QED
  BY <1>1, <1>2, <1>3, DieOK DEF Next


-----------------------------------------------------------------------------
(* What follows.                                                           *)

\* For every interface: no argument, and no result, is read with a method other
\* than the one that wrote it.
THEOREM CppNothingMisread == ASSUME CodesAssumption PROVE Spec => []NoMisread
<1>1. CppInv => NoMisread
  <2> SUFFICES ASSUME CppInv PROVE NoMisread
    OBVIOUS
  <2>1. Proper(call)
    BY DEF CppInv, CallOK
  <2>2. ASSUME NEW k \in DOMAIN locals PROVE locals[k] # Garbage
    BY <2>1, ArgumentIsNoGarbage DEF CppInv, StubOK
  <2>3. callResult # Garbage
    <3>1. CASE callResult = Null
      BY <3>1, ValuesAssumption
    <3>2. CASE callResult # Null
      <4>1. cpc = "done" /\ callResult = ReturnsWhat
        BY <3>2 DEF CppInv, CallerOK
      <4>2. ~Void(method) /\ method = call.method
        BY <3>2, <4>1 DEF ReturnsWhat, method
      <4>3. CASE status = "NO_ERROR"
        <5>1. runs[1].result \in ResultsOf(call.method)
          BY <4>1, <4>3 DEF CppInv, CallerOK, RunsOK, ProperRun
        <5>2. BroughtBack(call.method, runs[1].result) # Garbage
          BY <2>1, <4>2, <5>1, ResultFacts
        <5>3. QED
          BY <4>1, <4>2, <4>3, <5>2 DEF ReturnsWhat
      <4>4. CASE status # "NO_ERROR"
        <5>1. \E v : v \in ResultsOf(call.method)
          <6>1. call.method.returns[1].type \in {"int", "long", "byte", "boolean", "float"}
            BY <2>1, <4>2, CallFacts DEF Compiles
          <6>2. 0 \in Int32s
            BY HalfAssumption DEF Int32s
          <6>3. QED
            BY <4>2, <6>1, <6>2 DEF ResultsOf, Values, Int64s
        <5>2. FromInt32(call.method.returns[1].type, 0) # Garbage
          BY <2>1, <4>2, <5>1, ResultFacts
        <5>3. QED
          BY <4>1, <4>2, <4>4, <5>2 DEF ReturnsWhat
      <4>5. QED
        BY <4>3, <4>4
    <3>3. QED
      BY <3>1, <3>2
  <2>4. QED
    BY <2>2, <2>3 DEF NoMisread
<1>2. QED
  BY <1>1, CppInit, CppNext, PTL DEF Spec

\* The stub has read all of the request when it calls the implementation, and the
\* proxy all of the reply when it returns.
THEOREM CppReadsAll == ASSUME CodesAssumption PROVE Spec => []AllRead
<1>1. CppInv => AllRead
  BY AllReceived DEF CppInv, CallerOK, AllRead
<1>2. QED
  BY <1>1, CppInit, CppNext, PTL DEF Spec

\* Every result fits the int it passes through, and a method with a result waits.
ResultsFit ==
  \A f \in Interfaces : \A i \in DOMAIN f :
    ~Void(f[i]) =>
      ~f[i].oneway /\ f[i].returns[1].type \in {"int", "byte", "boolean"}

\* RemoteCall has the directions of an argument from Signature, too.
LEMMA SameDirections ==
  \A a : (Remote!Incoming(a) <=> Incoming(a)) /\ (Remote!Outgoing(a) <=> Outgoing(a))
BY DEF Incoming, Outgoing, Remote!Incoming, Remote!Outgoing

\* What RemoteCall sees of a step that ends nothing.
LEMMA RemoteSeesNothing ==
  ASSUME Fixed, UNCHANGED <<runs, dead>>,
         UNCHANGED caller \/ (cpc # "done" /\ cpc' # "done")
  PROVE  UNCHANGED Remote!vars
<1>1. call' = call
  BY DEF Fixed
<1>2. CASE UNCHANGED caller
  BY <1>1, <1>2 DEF caller, Failed, Remote!vars
<1>3. CASE cpc # "done" /\ cpc' # "done"
  BY <1>1, <1>3 DEF Remote!vars
<1>4. QED
  BY <1>2, <1>3

\* A run of the implementation is one of RemoteCall.
LEMMA RunIsInvoke == CppInv /\ CppInv' /\ RealCall => Remote!Invoke
<1> SUFFICES ASSUME CppInv, CppInv', RealCall PROVE Remote!Invoke
  OBVIOUS
<1>1. spc = "args" /\ spc' = "reply" /\ Fixed /\ UNCHANGED <<dead, caller>>
  BY DEF RealCall
<1>2. runs = <<>> /\ runs' # <<>>
  BY <1>1 DEF CppInv, RunsOK
<1>3. Len(runs') = 1 /\ ProperRun(call, runs'[1])
  BY <1>1, <1>2 DEF CppInv, RunsOK, Fixed
<1>4. /\ call' = call /\ dead' = dead /\ cpc' = cpc /\ status' = status
      /\ callResult' = callResult
  BY <1>1 DEF Fixed, caller
<1>5. PICK run : run = runs'[1]
  OBVIOUS
<1>6. /\ run.index = call.index
      /\ \A k \in Remote!Parameters :
           run.received[k] = IF Remote!Incoming(Remote!Parameter(k)) THEN call.args[k]
                             ELSE Remote!Fresh(Remote!Parameter(k), call.args[k])
  <2>1. DOMAIN call.method.args = 1..Count(call) /\ Proper(call)
    BY MethodFacts DEF CppInv, method
  <2>2. \A k \in 1..Count(call) : Remote!Incoming(call.method.args[k])
    BY <2>1, CallFacts, SameDirections
  <2>3. QED
    BY <1>3, <1>5, <2>1, <2>2 DEF ProperRun, Remote!Parameters, Remote!Parameter
<1>7. /\ runs'[1].index = call.index
      /\ \A k \in Remote!Parameters :
           runs'[1].received[k] = IF Remote!Incoming(Remote!Parameter(k)) THEN call.args[k]
                                  ELSE Remote!Fresh(Remote!Parameter(k), call.args[k])
  BY <1>5, <1>6, Zenon
<1>8. QED
  BY <1>2, <1>3, <1>4, <1>7, Zenon DEF Failed, Remote!Invoke

\* The end of the proxy method is one of the ways a call ends.
LEMMA EndIsAnswer ==
  ResultsFit /\ CppInv /\ CppInv' /\ (ReturnStatus \/ ReturnResult)
    => Remote!Return \/ Remote!ReturnOneway \/ Remote!Throw
<1> SUFFICES ASSUME ResultsFit, CppInv, CppInv', ReturnStatus \/ ReturnResult
             PROVE  Remote!Return \/ Remote!ReturnOneway \/ Remote!Throw
  OBVIOUS
<1>1. /\ cpc = "return" /\ cpc' = "done" /\ call' = call /\ runs' = runs /\ dead' = dead
      /\ status' = status /\ method' = method
  BY DEF ReturnStatus, ReturnResult, Fixed, method
<1>2. callResult' = ReturnsWhat
  BY <1>1 DEF CppInv, CallerOK, ReturnsWhat
<1>3. Remote!Pending
  BY <1>1 DEF Remote!Pending
<1>4. \/ status = "NO_ERROR" /\ runs # <<>>
      \/ status = "DEAD_OBJECT" /\ dead
  BY <1>1 DEF CppInv, CallerOK
<1>5. CASE status = "DEAD_OBJECT" /\ dead
  BY <1>1, <1>3, <1>5 DEF Failed, Remote!Throw
<1>6. CASE status = "NO_ERROR" /\ runs # <<>>
  <2>1. ~runs[1].threw /\ runs[1].result \in ResultsOf(call.method)
    BY <1>6 DEF CppInv, RunsOK, ProperRun
  <2>2. callResult' = runs[1].result
    <3>1. CASE Void(call.method)
      BY <1>2, <2>1, <3>1 DEF ReturnsWhat, ResultsOf, method
    <3>2. CASE ~Void(call.method)
      <4>1. call.method.returns[1].type \in {"int", "byte", "boolean"}
        BY <3>2 DEF ResultsFit, CppInv, CallOK
      <4>2. QED
        BY <1>2, <1>6, <2>1, <3>2, <4>1, FittingComesBack DEF ReturnsWhat, method
    <3>3. QED
      BY <3>1, <3>2
  <2>3. call.args = [k \in Remote!Parameters |->
                       IF Remote!Outgoing(Remote!Parameter(k)) THEN runs[1].left[k]
                       ELSE call.args[k]]
    <3>1. Proper(call) /\ DOMAIN call.method.args = 1..Count(call)
      BY MethodFacts DEF CppInv, method
    <3>2. \A k \in 1..Count(call) : ~Remote!Outgoing(call.method.args[k])
      BY <3>1, CallFacts, SameDirections
    <3>3. QED
      BY <3>1, <3>2 DEF Proper, Remote!Parameters, Remote!Parameter
  <2>4. ~Failed'
    BY <1>1, <1>6 DEF Failed
  <2>5. CASE call.method.oneway
    <3>1. Void(call.method)
      BY <2>5 DEF ResultsFit, CppInv, CallOK
    <3>2. callResult' = Null
      BY <2>1, <2>2, <3>1 DEF ResultsOf
    <3>3. QED
      BY <1>1, <1>3, <2>4, <2>5, <3>2 DEF Remote!ReturnOneway
  <2>6. CASE ~call.method.oneway
    <3>1. call'.args = [k \in Remote!Parameters |->
                          IF Remote!Outgoing(Remote!Parameter(k)) THEN runs[1].left[k]
                          ELSE call.args[k]]
      BY <1>1, <2>3
    <3>2. QED
      BY <1>1, <1>3, <1>6, <2>1, <2>2, <2>4, <2>6, <3>1, Zenon DEF Remote!Return
  <2>7. QED
    BY <2>5, <2>6
<1>7. QED
  BY <1>4, <1>5, <1>6

\* Every step of the two processes is one of RemoteCall, or none.
LEMMA CppStep ==
  ResultsFit /\ CppInv /\ CppInv' /\ [Next]_vars => [Remote!Next]_(Remote!vars)
<1> SUFFICES ASSUME ResultsFit, CppInv, CppInv', [Next]_vars
             PROVE  [Remote!Next]_(Remote!vars)
  OBVIOUS
<1>1. CASE Caller /\ ~ReturnStatus /\ ~ReturnResult
  <2>1. Fixed /\ UNCHANGED <<runs, dead>> /\ cpc # "done" /\ cpc' # "done"
    BY <1>1 DEF Caller, WriteToken, WriteParam, Transact, TransactFails
  <2>2. QED
    BY <2>1, RemoteSeesNothing
<1>2. CASE ReturnStatus \/ ReturnResult
  BY <1>2, EndIsAnswer DEF Remote!Next
<1>3. CASE Stub /\ ~RealCall
  <2>1. Fixed /\ UNCHANGED <<runs, dead>>
    BY <1>3 DEF Stub, Dispatch, CheckInterface, ReadArg, WriteReply, Deliver
  <2>2. UNCHANGED caller \/ (cpc # "done" /\ cpc' # "done")
    <3>1. CASE Deliver
      BY <3>1 DEF Deliver, CppInv, CallerOK
    <3>2. CASE ~Deliver
      BY <1>3, <3>2 DEF Stub, Dispatch, CheckInterface, ReadArg, WriteReply
    <3>3. QED
      BY <3>1, <3>2
  <2>3. QED
    BY <2>1, <2>2, RemoteSeesNothing
<1>4. CASE RealCall
  BY <1>4, RunIsInvoke DEF Remote!Next
<1>5. CASE Die
  <2>1. /\ dead' /\ call' = call /\ runs' = runs /\ callResult' = callResult
    BY <1>5 DEF Die, Fixed
  <2>2. (cpc' = cpc /\ status' = status) \/ (cpc # "done" /\ cpc' # "done")
    BY <1>5 DEF Die
  <2>3. Remote!Lose
    BY <2>1, <2>2 DEF Failed, Remote!Lose
  <2>4. QED
    BY <2>3 DEF Remote!Next
<1>6. CASE UNCHANGED vars
  <2>1. Fixed /\ UNCHANGED <<runs, dead>> /\ UNCHANGED caller
    BY <1>6 DEF vars, Fixed
  <2>2. QED
    BY <2>1, RemoteSeesNothing
<1>7. QED
  BY <1>1, <1>2, <1>3, <1>4, <1>5, <1>6 DEF Next

\* The generated pair implements a remote call, for every interface whose results
\* fit an int; a long or a float does not, which is what the finding is about.
THEOREM CppKeepsPromise ==
  ASSUME CodesAssumption, ResultsFit
  PROVE  Spec => KeepsCallPromise
<1>1. Init => Remote!Init
  BY DEF Init, Remote!Init, Remote!Pending
<1>2. QED
  BY <1>1, CppInit, CppNext, CppStep, PTL DEF Spec, KeepsCallPromise, Remote!Spec
=============================================================================
