------------------------------ MODULE BaseTypes ------------------------------
(***************************************************************************)
(* register_base_types() (Type.cpp): the registry the compiler starts      *)
(* from, in registration order, with the answers each class gives to       *)
(* CanWriteToParcel, CanWriteToRpcData, CanBeOutParameter and CanBeArray.  *)
(***************************************************************************)
EXTENDS Sequences

\* A built-in type; flags is the set of the questions it answers with true.
BuiltIn(package, name, flags) ==
  [package |-> package, name |-> <<name>>, args |-> <<>>, kind |-> "BUILT_IN",
   canWriteToParcel  |-> "parcel" \in flags,
   canWriteToRpcData |-> "rpc" \in flags,
   canBeOut   |-> "out" \in flags,
   canBeArray |-> "array" \in flags]

\* BasicType, BooleanType and CharType.
Primitive(name) == BuiltIn(<<>>, name, {"parcel", "rpc", "array"})

\* A class the generated code mentions and no value of which is marshalled.
Opaque(package, name) == BuiltIn(package, name, {})

JavaLang == <<"java", "lang">>
JavaUtil == <<"java", "util">>
AndroidOs == <<"android", "os">>
PlaceRpc == <<"android", "support", "place", "rpc">>

\* EVENT_FAKE_TYPE, the return type of the event methods of rpc interfaces.
EventFakeType == Opaque(<<>>, "event")

RegisteredBaseTypes ==
  << Primitive("void"), Primitive("boolean"), Primitive("byte"),
     Primitive("char"), Primitive("int"), Primitive("long"),
     Primitive("float"), Primitive("double"),
     BuiltIn(JavaLang, "String", {"parcel", "rpc", "array"}),
     Opaque(JavaLang, "Object"),
     BuiltIn(JavaLang, "CharSequence", {"parcel", "rpc"}),
     BuiltIn(JavaUtil, "Map", {"parcel", "out"}),
     BuiltIn(JavaUtil, "List", {"parcel", "rpc", "out"}),
     Opaque(<<"android", "text">>, "TextUtils"),
     Opaque(AndroidOs, "RemoteException"),
     Opaque(JavaLang, "RuntimeException"),
     BuiltIn(AndroidOs, "IBinder", {"parcel"}),
     Opaque(AndroidOs, "IInterface"), Opaque(AndroidOs, "Binder"),
     Opaque(AndroidOs, "BinderProxy"), Opaque(AndroidOs, "Parcel"),
     Opaque(AndroidOs, "Parcelable"),
     Opaque(<<"android", "content">>, "Context"),
     BuiltIn(PlaceRpc, "RpcData", {"parcel", "rpc", "out", "array"}),
     BuiltIn(PlaceRpc, "RpcError", {"parcel", "rpc", "out", "array"}),
     EventFakeType,
     Opaque(JavaLang, "ClassLoader") >>

=============================================================================
