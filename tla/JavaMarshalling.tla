--------------------------- MODULE JavaMarshalling ---------------------------
(***************************************************************************)
(* The marshalling half of the Type classes (Type.cpp): what the Java      *)
(* statements each class emits write to a Parcel and read back.  A parcel  *)
(* is the sequence of the words written and not yet read; a word remembers *)
(* the Parcel method that wrote it, so that reading it with another shows. *)
(*                                                                         *)
(* A type is the record of the answers its class gives.  writes, creates   *)
(* and reads name the Parcel methods of WriteToParcel, CreateFromParcel    *)
(* and ReadFromParcel; array those of the three Array methods; presence is *)
(* the int the class puts before a value that can be null.                 *)
(***************************************************************************)
EXTENDS Signature

CONSTANT Garbage    \* what a Parcel gives for a word of another kind

Word(kind, v) == [kind |-> kind, array |-> FALSE, value |-> v]
ArrayWord(kind, v) == [kind |-> kind, array |-> TRUE, value |-> v]

\* A class whose three methods use the Parcel methods of one kind.
Marshalled(kind) ==
  [writes |-> kind, creates |-> kind, reads |-> kind, array |-> "none",
   presence |-> FALSE, flag |-> FALSE, loader |-> FALSE,
   canBeOut |-> FALSE, instantiable |-> TRUE, creator |-> "", zero |-> Null]

\* BasicType: byte, int, long, float, double.
BasicType(kind) == [Marshalled(kind) EXCEPT !.array = kind, !.zero = 0]

\* BooleanType: an int on the wire.
BooleanType ==
  [Marshalled("Int") EXCEPT !.array = "Boolean", !.flag = TRUE, !.zero = False]

\* CharType: cast to an int and back.
CharType == [Marshalled("Int") EXCEPT !.array = "Char", !.zero = 0]

StringCreator == "Parcel.STRING_CREATOR"

StringType ==
  [Marshalled("String") EXCEPT !.array = "String", !.creator = StringCreator]

\* CharSequenceType: TextUtils, and the creator of String.
CharSequenceType ==
  [Marshalled("CharSequence") EXCEPT !.presence = TRUE, !.creator = StringCreator]

IBinderType == [Marshalled("StrongBinder") EXCEPT !.array = "Binder"]

\* MapType: java.util.Map is an interface, and "new" cannot be said of it.
MapType ==
  [Marshalled("Map") EXCEPT !.loader = TRUE, !.canBeOut = TRUE, !.instantiable = FALSE]

\* ListType: InstantiableName is java.util.ArrayList.
ListType == [Marshalled("List") EXCEPT !.loader = TRUE, !.canBeOut = TRUE]

\* UserDataType: the creator is the CREATOR field of the class.
UserDataType ==
  [Marshalled("Parcelable") EXCEPT !.array = "Typed", !.presence = TRUE,
                                   !.canBeOut = TRUE, !.creator = "CREATOR"]

\* InterfaceType: asBinder() out, Stub.asInterface() in.
InterfaceType == Marshalled("StrongBinder")

\* GenericListType: the Parcel method depends on the creator of the elements.
\* IBINDER_TYPE->CreatorName() is the empty string of the base class.
ListKind(creator) ==
  CASE creator = StringCreator -> "StringList"
    [] creator = "" -> "BinderList"
    [] OTHER -> "TypedList"

GenericListType(element) ==
  [Marshalled(ListKind(element.creator)) EXCEPT !.canBeOut = TRUE]

-----------------------------------------------------------------------------
(* The statements.  Each operator covers the two branches of the dispatch  *)
(* on the dimension in generate_java_binder.cpp; check_method has refused  *)
(* a dimension above one.                                                  *)

\* Plausible bug, for the mutation runs: null is not told from a value.
WrittenWithoutPresence(type, dimension, v) ==
  IF dimension = 1 THEN <<ArrayWord(type.array, v)>> ELSE <<Word(type.writes, v)>>

\* generate_write_to_parcel: the words the statements append.
Written(type, dimension, v) ==
  IF dimension = 1 THEN <<ArrayWord(type.array, v)>>
  ELSE IF type.presence /\ v = Null THEN <<Word("Int", 0)>>
  ELSE IF type.presence THEN <<Word("Int", 1), Word(type.writes, v)>>
  ELSE IF type.flag THEN <<Word("Int", IF v = True THEN 1 ELSE 0)>>
  ELSE <<Word(type.writes, v)>>

\* One read of a Parcel: what it gives, and what it leaves.
Take(parcel, kind, array) ==
  IF parcel # <<>> /\ Head(parcel).kind = kind /\ Head(parcel).array = array
    THEN Head(parcel).value ELSE Garbage

Dropped(parcel, n) == SubSeq(parcel, n + 1, Len(parcel))

\* 0 != parcel.readInt()
Present(parcel) == Take(parcel, "Int", FALSE) # 0

\* How many words a read of a value takes.
Width(type, dimension, parcel) ==
  IF dimension = 0 /\ type.presence /\ Present(parcel) THEN 2 ELSE 1

\* generate_create_from_parcel: the value the statements assign.
Created(type, dimension, parcel) ==
  IF dimension = 1 THEN Take(parcel, type.array, TRUE)
  ELSE IF type.presence /\ Present(parcel)
    THEN Take(Dropped(parcel, 1), type.creates, FALSE)
  ELSE IF type.presence THEN Null
  ELSE IF type.flag THEN (IF Present(parcel) THEN True ELSE False)
  ELSE Take(parcel, type.creates, FALSE)

\* generate_read_from_parcel: what the statements leave in the object v.
ReadInto(type, dimension, v, parcel) ==
  IF dimension = 1 THEN Take(parcel, type.array, TRUE)
  ELSE IF type.presence /\ Present(parcel)
    THEN Take(Dropped(parcel, 1), type.reads, FALSE)
  ELSE IF type.presence THEN v
  ELSE Take(parcel, type.reads, FALSE)

\* The same statements dereference v, except when nothing was sent.
ReadThrows(type, dimension, v, parcel) ==
  v = Null /\ (dimension = 0 /\ type.presence => Present(parcel))

\* generate_new_array: a negative length stands for null.
NewArray(type, parcel) ==
  LET length == Take(parcel, "Int", FALSE)
  IN  IF length < 0 THEN Null ELSE [i \in 1..length |-> type.zero]

=============================================================================
