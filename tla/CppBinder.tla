------------------------------ MODULE CppBinder ------------------------------
(***************************************************************************)
(* One call through the C++ classes generate_cpp emits (generate_cpp.cpp): *)
(* the method of Bp<name> runs in the process of the caller,               *)
(* Bn<name>::onTransact in another.  The parcels are sequences of words,   *)
(* each with the kind of the Parcel method that wrote it; Parcel, transact *)
(* and the binder threads are not in this repository.                      *)
(*                                                                         *)
(* A method is [name, oneway, returns, args] (Signature); a type is its    *)
(* name in the interface file, and a method name a sequence of characters, *)
(* because makeup() depends on their case.                                 *)
(***************************************************************************)
EXTENDS Signature, SequencesExt

CONSTANTS
  Interfaces,     \* the interfaces considered: sequences of methods
  Objects,        \* the values of the types that are not numbers
  Half,           \* 2^31: an int goes from -Half to Half - 1
  UpperOf,        \* toupper: the letters in lower case |-> in upper case
  Garbage         \* what a Parcel gives for a word of another kind

ASSUME HalfAssumption == Half \in Nat \ {0}

-----------------------------------------------------------------------------
(* The type map.                                                           *)

\* A line of typemap[]: the Parcel methods in "to" and "from", and whether
\* "decl" declares a variable that "from" can assign to, a reference, or an
\* object that is assigned an int.
Mapped(to, from) == [to |-> to, from |-> from, decl |-> "value"]

TypeMap ==
  [ int |-> Mapped("Int32", "Int32"), long |-> Mapped("Int64", "Int64"),
    byte |-> Mapped("Byte", "Byte"), boolean |-> Mapped("Int32", "Int32"),
    String |-> Mapped("String16", "String16"), String8 |-> Mapped("String8", "String8"),
    CString |-> Mapped("CString", "CString"),
    IBinder |-> Mapped("StrongBinder", "StrongBinder"),
    CharSequence |-> Mapped("string", "string"),
    IBinderThreadPriorityService |->
      [Mapped("ThreadPriority", "ThreadPriority") EXCEPT !.decl = "reference"],
    WorkSource |-> [Mapped("Int32", "Int32") EXCEPT !.decl = "object"],
    float |-> Mapped("Float", "Float") ]

\* Plausible bug, for the mutation runs: a long is read as an int.
LookupLong(type) ==
  IF type = "long" THEN Mapped("Int64", "Int32")
  ELSE IF type \in DOMAIN TypeMap THEN TypeMap[type]
  ELSE [to |-> "writeToParcel", from |-> "Strong", decl |-> "reference"]

\* lookup_type: a type without a line is taken for an interface.
LookupType(type) ==
  IF type \in DOMAIN TypeMap THEN TypeMap[type]
  ELSE [to |-> "writeToParcel", from |-> "Strong", decl |-> "reference"]

\* The values of a C++ variable; a float is counted in halves.
Int32s == (-Half)..(Half - 1)
Int64s == Int32s \cup {2 * Half, 2 * Half + 1}

Values(type) ==
  CASE type \in {"int", "byte"} -> Int32s
    [] type = "long" -> Int64s
    [] type = "boolean" -> {True, False}
    [] type = "float" -> {0, 1, 2}
    [] OTHER -> Objects

\* The low word of a long, as a signed int.
Low(v) == ((v + Half) % (2 * Half)) - Half

\* "int res = <call>", with "? 1 : 0" for a boolean.
AsRes(type, v) ==
  CASE type = "boolean" -> IF v = True THEN 1 ELSE 0
    [] type = "float" -> v \div 2
    [] OTHER -> Low(v)

\* "return reply.readInt32()" from a method of that type.
FromInt32(type, n) ==
  CASE type = "boolean" -> IF n # 0 THEN True ELSE False
    [] type = "float" -> 2 * n
    [] OTHER -> n

-----------------------------------------------------------------------------
(* Transaction codes.                                                      *)

\* Different letters differ in upper case too, where none is in lower case.
ASSUME LettersAssumption ==
  /\ \A k, l \in DOMAIN UpperOf : UpperOf[k] = UpperOf[l] => k = l
  /\ \A l \in DOMAIN UpperOf : UpperOf[l] \notin DOMAIN UpperOf \cup {"_"}

IsLower(c) == c \in DOMAIN UpperOf
IsUpper(c) == \E l \in DOMAIN UpperOf : UpperOf[l] = c
ToUpper(c) == IF IsLower(c) THEN UpperOf[c] ELSE c

\* Plausible bug, for the mutation runs: no underscore between the words.
Capitals(name) == [i \in DOMAIN name |-> ToUpper(name[i])]

\* makeup: the enumerator of a method, GET_FOO for getFoo.
Makeup(name) ==
  FlattenSeq([i \in DOMAIN name |->
    IF i > 1 /\ IsUpper(name[i]) /\ IsLower(name[i - 1])
      THEN <<"_", ToUpper(name[i])>> ELSE <<ToUpper(name[i])>>])

\* A name like getFooBar: from such a name's code the name can be told.
CamelCase(name) ==
  /\ name # <<>> /\ IsLower(name[1])
  /\ \A i \in DOMAIN name : IsLower(name[i]) \/ IsUpper(name[i])
  /\ \A i \in 2..Len(name) : IsUpper(name[i]) => IsLower(name[i - 1])

-----------------------------------------------------------------------------
\* The C++ compiler takes what is emitted for a method: the locals of the stub
\* are values, the result passes through an int, and there is no statement for
\* an out argument, which prints the format string of writing it.
Compiles(m) ==
  /\ \A k \in DOMAIN m.args : /\ LookupType(m.args[k].type).decl = "value"
                              /\ ~Outgoing(m.args[k])
  /\ ~Void(m) => /\ m.returns[1].type \in {"int", "long", "byte", "boolean", "float"}
                 /\ m.returns[1].dimension = 0

\* Of an interface: its methods are counted from one, as the arguments of each
\* are; the directions are the ones of the grammar; and C++ takes the methods.
ASSUME InterfacesAssumption ==
  \A f \in Interfaces :
    /\ Len(f) \in Nat /\ DOMAIN f = 1..Len(f)
    /\ \A i \in DOMAIN f :
         /\ Len(f[i].args) \in Nat /\ DOMAIN f[i].args = 1..Len(f[i].args)
         /\ \A k \in DOMAIN f[i].args :
              f[i].args[k].direction \in {"", "in", "out", "inout"}
         /\ Compiles(f[i])

\* What a Parcel gives for a word of another kind is told from every value.
ASSUME ValuesAssumption ==
  /\ True # False
  /\ Garbage \notin Int \cup Objects /\ Garbage \notin {True, False, Null, New}

VARIABLES
  face,        \* the interface
  call,        \* the call made: [method, index, args]
  runs,        \* the runs of the implementation
  dead,        \* the process of the stub has died
  \* the method of Bp<name>
  cpc, ck,     \* the statement, the argument
  data,        \* _data
  reply,       \* what is unread of reply
  status,      \* what transact returned
  callResult,  \* what the method returned
  \* Bn<name>::onTransact
  spc, sk,
  code,        \* the enumerator of the code that was sent
  served,      \* the method whose case runs
  request,     \* what is unread of data
  locals,      \* _arg0, _arg1, ...
  res,         \* res
  out          \* *reply

caller == <<cpc, ck, data, reply, status, callResult>>
stub == <<spc, sk, code, served, request, locals, res, out>>
vars == <<face, call, runs, dead, caller, stub>>

Fixed == UNCHANGED <<face, call>>

method == call.method
Served == face[served]

Init ==
  /\ face \in Interfaces
  /\ \E i \in DOMAIN face :
       \E args \in Tuples([k \in DOMAIN face[i].args |-> Values(face[i].args[k].type)]) :
         call = [method |-> face[i], index |-> i, args |-> args]
  /\ runs = <<>> /\ dead = FALSE
  /\ cpc = "token" /\ ck = 1 /\ data = <<>> /\ reply = <<>>
  /\ status = "none" /\ callResult = Null
  /\ spc = "idle" /\ sk = 1 /\ code = <<>> /\ served = 0 /\ request = <<>>
  /\ locals = <<>> /\ res = 0 /\ out = <<>>

Word(kind, v) == [kind |-> kind, value |-> v]

\* One read of a Parcel; past the end a Parcel gives zero.
Take(parcel, kind) ==
  CASE parcel = <<>> -> 0
    [] parcel # <<>> /\ Head(parcel).kind = kind -> Head(parcel).value
    [] OTHER -> Garbage

Dropped(parcel) == SubSeq(parcel, 2, Len(parcel))

-----------------------------------------------------------------------------
(* The proxy.                                                              *)

\* _data.writeInterfaceToken(...)
WriteToken ==
  /\ cpc = "token" /\ cpc' = "params"
  /\ data' = <<Word("Token", "descriptor")>>
  /\ Fixed
  /\ UNCHANGED <<runs, dead, ck, reply, status, callResult, stub>>

\* "to" casts a boolean to an int, and writes a zero for a WorkSource.
Encoded(type, v) ==
  CASE type = "boolean" -> AsRes(type, v)
    [] type = "WorkSource" -> 0
    [] OTHER -> v
Decoded(type, v) == IF type = "boolean" THEN FromInt32(type, v) ELSE v

WriteParam ==
  /\ cpc = "params" /\ ck \in DOMAIN method.args
  /\ LET a == method.args[ck]
     IN  data' = IF Incoming(a)
                   THEN Append(data, Word(LookupType(a.type).to,
                                          Encoded(a.type, call.args[ck])))
                   ELSE data
  /\ ck' = ck + 1
  /\ Fixed
  /\ UNCHANGED <<runs, dead, cpc, reply, status, callResult, stub>>

\* remote()->transact(code, _data, &reply), without flags: every call waits.
Transact ==
  /\ cpc = "params" /\ ck \notin DOMAIN method.args
  /\ ~dead
  /\ code' = Makeup(method.name) /\ request' = data
  /\ spc' = "dispatch" /\ cpc' = "wait"
  /\ Fixed
  /\ UNCHANGED <<runs, dead, ck, data, reply, status, callResult,
                 sk, served, locals, res, out>>

\* The other process is gone: an error status, and the reply stays empty.
TransactFails ==
  /\ cpc = "params" /\ ck \notin DOMAIN method.args
  /\ dead
  /\ status' = "DEAD_OBJECT" /\ cpc' = "return"
  /\ Fixed
  /\ UNCHANGED <<runs, dead, ck, data, reply, callResult, stub>>

\* The method of a void declaration returns what transact returned.
ReturnStatus ==
  /\ cpc = "return" /\ Void(method)
  /\ cpc' = "done"
  /\ Fixed
  /\ UNCHANGED <<runs, dead, ck, data, reply, status, callResult, stub>>

\* "if (reply.readExceptionCode() != 0) return 0; return reply.readInt32();"
\* Nothing looks at the status.
ReturnResult ==
  /\ cpc = "return" /\ ~Void(method)
  /\ LET type == method.returns[1].type
     IN  IF Take(reply, "Exception") # 0
           THEN callResult' = FromInt32(type, 0) /\ reply' = Dropped(reply)
           ELSE /\ callResult' = FromInt32(type, Take(Dropped(reply), "Int32"))
                /\ reply' = Dropped(Dropped(reply))
  /\ cpc' = "done"
  /\ Fixed
  /\ UNCHANGED <<runs, dead, ck, data, status, stub>>

-----------------------------------------------------------------------------
(* The stub.                                                               *)

\* switch (code): the first case with that enumerator.
Dispatch ==
  /\ spc = "dispatch" /\ spc' = "check"
  /\ served' = SelectInSeq(face, LAMBDA m : Makeup(m.name) = code)
  /\ Fixed
  /\ UNCHANGED <<runs, dead, caller, sk, code, request, locals, res, out>>

\* CHECK_INTERFACE; the caller's proxy has the same descriptor.
CheckInterface ==
  /\ spc = "check" /\ spc' = "args"
  /\ Take(request, "Token") = "descriptor"
  /\ request' = Dropped(request)
  /\ Fixed
  /\ UNCHANGED <<runs, dead, caller, sk, code, served, locals, res, out>>

\* Plausible bug, for the mutation runs: the next argument is not reached.
ReadArgStays ==
  /\ spc = "args" /\ sk \in DOMAIN Served.args
  /\ locals' = <<Decoded(Served.args[sk].type,
                         Take(request, LookupType(Served.args[sk].type).from))>>
  /\ Fixed
  /\ UNCHANGED <<runs, dead, caller, spc, sk, code, served, request, res, out>>

\* _argN = data.read...(); an argument that is not IN is only declared.
ReadArg ==
  /\ spc = "args" /\ sk \in DOMAIN Served.args
  /\ LET a == Served.args[sk]
         v == Decoded(a.type, Take(request, LookupType(a.type).from))
     IN  /\ locals' = Append(locals, IF Incoming(a) THEN v ELSE New)
         /\ request' = IF Incoming(a) THEN Dropped(request) ELSE request
  /\ sk' = sk + 1
  /\ Fixed
  /\ UNCHANGED <<runs, dead, caller, spc, code, served, res, out>>

\* [int res =] method(_arg0, ...); the status a void method returns is dropped.
RealCall ==
  /\ spc = "args" /\ sk \notin DOMAIN Served.args
  /\ \E result \in IF Void(Served) THEN {Null} ELSE Values(Served.returns[1].type) :
       /\ runs' = Append(runs, [index |-> served, received |-> locals, threw |-> FALSE,
                                result |-> result, left |-> locals])
       /\ res' = IF Void(Served) THEN 0 ELSE AsRes(Served.returns[1].type, result)
  /\ spc' = "reply"
  /\ Fixed
  /\ UNCHANGED <<dead, caller, sk, code, served, request, locals, out>>

\* Plausible bug, for the mutation runs: a result is written after nothing too.
WriteAnyReply ==
  /\ spc = "reply" /\ spc' = "return"
  /\ out' = <<Word("Exception", 0), Word("Int32", res)>>
  /\ Fixed
  /\ UNCHANGED <<runs, dead, caller, sk, code, served, request, locals, res>>

\* reply->writeNoException(); reply->writeInt32(res); nothing for void.
WriteReply ==
  /\ spc = "reply" /\ spc' = "return"
  /\ out' = IF Void(Served) THEN <<>> ELSE <<Word("Exception", 0), Word("Int32", res)>>
  /\ Fixed
  /\ UNCHANGED <<runs, dead, caller, sk, code, served, request, locals, res>>

\* return NO_ERROR: the binder thread sends the reply.
Deliver ==
  /\ spc = "return" /\ spc' = "sent"
  /\ cpc' = "return" /\ status' = "NO_ERROR" /\ reply' = out
  /\ Fixed
  /\ UNCHANGED <<runs, dead, ck, data, callResult, sk, code, served, request, locals,
                 res, out>>

\* The process of the stub can die at any time; a caller that waits gets an
\* error status.
Die ==
  /\ ~dead /\ dead' = TRUE
  /\ spc' = IF spc = "sent" THEN "sent" ELSE "dead"
  /\ IF cpc = "wait" THEN cpc' = "return" /\ status' = "DEAD_OBJECT"
     ELSE UNCHANGED <<cpc, status>>
  /\ Fixed
  /\ UNCHANGED <<runs, ck, data, reply, callResult, sk, code, served, request, locals,
                 res, out>>

Caller ==
  \/ WriteToken \/ WriteParam \/ Transact \/ TransactFails
  \/ ReturnStatus \/ ReturnResult

Stub ==
  Dispatch \/ CheckInterface \/ ReadArg \/ RealCall \/ WriteReply \/ Deliver

Next == Caller \/ Stub \/ Die

\* The thread of the caller is scheduled.  The process of the stub need not
\* die, and need not run either, unless a property says so.
Spec == Init /\ [][Next]_vars /\ WF_vars(Caller)

StubIsScheduled == WF_vars(Stub)

-----------------------------------------------------------------------------
(* Properties.                                                             *)

\* The proxy's "to" and the stub's "from" are columns of a table that nothing
\* compares, and the two walks over the arguments are apart: no value is read
\* with a method other than the one that wrote it.
NoMisread ==
  /\ callResult # Garbage
  /\ \A k \in DOMAIN locals : locals[k] # Garbage

\* Nothing is left over when the implementation is entered, nor in the reply.
AllRead ==
  /\ spc = "args" /\ sk \notin DOMAIN Served.args => request = <<>>
  /\ cpc = "done" => reply = <<>>

\* A call without a run has failed; a caller of a value method sees a zero.
Failed == status = "DEAD_OBJECT"

\* The call as RemoteCall sees it.  The zero a failed call returns is read as
\* the exception here, which a caller cannot tell from a result of zero.
Remote == INSTANCE RemoteCall WITH
  answer <- IF cpc # "done"
              THEN [kind |-> "none", result |-> Null, args |-> call.args]
              ELSE [kind |-> IF Failed THEN "exception" ELSE "result",
                    result |-> callResult, args |-> call.args],
  lost <- dead

\* The generated pair implements a remote call: the method that was called
\* runs at most once, on what the caller passed, and what it returns is what
\* the caller gets.
KeepsCallPromise == Remote!Spec

\* Every call ends, if the process of the stub is scheduled: it answers or dies.
CallEnds == StubIsScheduled => <>(cpc = "done")

=============================================================================
