------------------------------ MODULE JavaBinder ------------------------------
(***************************************************************************)
(* One call through the Java classes generate_method emits                 *)
(* (generate_java_binder.cpp): the proxy method runs in the process of the *)
(* caller, the onTransact case of the stub in another.  One action per     *)
(* emitted statement, or per group of statements that marshals one value;  *)
(* the conditions of the generator are the guards.                         *)
(*                                                                         *)
(* Parcel, IBinder.transact and the framework that calls onTransact and    *)
(* turns its exceptions into a reply are not in this repository; they are  *)
(* what Transact, Deliver, Refuse and the words of JavaMarshalling say.    *)
(***************************************************************************)
EXTENDS JavaMarshalling, SequencesExt

CONSTANTS
  Interfaces,     \* the interfaces considered: sequences of methods
  Contents        \* the contents of a string, an object, a container, a binder

\* What check_method lets through of an argument (Document!ArgRefused).
AcceptedArg(a) ==
  /\ a.dimension \in {0, 1}
  /\ a.dimension = 1 => a.type.array # "none"
  /\ a.direction \in {"", "in", "out", "inout"}
  /\ a.direction = "" => a.dimension = 0 /\ ~a.type.canBeOut
  /\ Outgoing(a) => a.dimension = 1 \/ a.type.canBeOut

\* The values of a variable.
Scalars(type) ==
  CASE type.zero = 0 -> {0, 1}
    [] type.zero = False -> {True, False}
    [] OTHER -> Contents \cup {Null}

Values(type, dimension) ==
  IF dimension = 0 THEN Scalars(type)
  ELSE {Null} \cup UNION {[1..n -> Scalars(type)] : n \in 0..1}

VARIABLES
  face,        \* the interface
  call,        \* the call made: [method, index, args]
  runs,        \* the runs of the implementation, for RemoteCall
  dead,        \* the process of the stub has died
  \* the proxy method
  cpc,         \* the statement the caller is at
  ck,          \* its argument
  params,      \* the parameters of the method, which are the caller's objects
  data,        \* _data
  reply,       \* what is unread of _reply
  callResult,  \* _result
  thrown,      \* an exception is leaving the method
  proxyCl,     \* the class loader variable: [declared, used]
  \* the onTransact case
  spc, sk,
  code,        \* the transaction code that was sent
  served,      \* the method whose case runs
  request,     \* what is unread of data
  locals,      \* _arg0, _arg1, ...
  stubResult,  \* _result
  out,         \* reply
  stubCl

caller == <<cpc, ck, params, data, reply, callResult, thrown, proxyCl>>
stub == <<spc, sk, code, served, request, locals, stubResult, out, stubCl>>
vars == <<face, call, runs, dead, caller, stub>>

Fixed == UNCHANGED <<face, call>>

method == call.method
Served == face[served]

FIRST_CALL_TRANSACTION == 1

\* Plausible bug, for the mutation runs: index is not counted up.
SameCode(i) == FIRST_CALL_TRANSACTION

\* The TRANSACTION_ constant of the method at position i: index starts at 0.
TransactionCode(i) == FIRST_CALL_TRANSACTION + (i - 1)

-----------------------------------------------------------------------------
(* The class loader variable.  The generator has one pointer cl for the    *)
(* stub case and the proxy method, and emits a declaration with the first  *)
(* read that needs it, in the order it generates: the in arguments in the  *)
(* stub, then the result and the out arguments in the proxy.  A proxy that *)
(* uses the variable and does not declare it is one javac turns away; its  *)
(* statements are walked here all the same.                                *)

NeedsLoader(a) == a.dimension = 0 /\ a.type.loader

StubNeeds(m) == {k \in DOMAIN m.args : Incoming(m.args[k]) /\ NeedsLoader(m.args[k])}
ResultNeeds(m) == ~m.oneway /\ ~Void(m) /\ NeedsLoader(m.returns[1])
OutNeeds(m) ==
  {k \in DOMAIN m.args : ~m.oneway /\ Outgoing(m.args[k]) /\ NeedsLoader(m.args[k])}

\* Plausible bug, for the mutation runs: no test of *cl.
DeclareAlways(cl, needed) == needed

\* EnsureClassLoader: a declaration is emitted; cl says that *cl is set.
EnsureClassLoader(cl, needed) == needed /\ ~cl

ClSetInStub(m, k) == \E j \in StubNeeds(m) : j < k
ClSetAtResult(m) == StubNeeds(m) # {}
ClSetAtOut(m, k) ==
  ClSetAtResult(m) \/ ResultNeeds(m) \/ \E j \in OutNeeds(m) : j < k

\* The variable after the statements of one read.
Loaded(scope, cl, needed) ==
  [declared |-> scope.declared + (IF EnsureClassLoader(cl, needed) THEN 1 ELSE 0),
   used |-> scope.used \/ needed]

NoLoader == [declared |-> 0, used |-> FALSE]

\* What javac asks of the generated method besides the class loader variable:
\* the result variable is assigned, and no interface is instantiated.
Compiles(m) ==
  /\ m.oneway => Void(m)
  /\ \A k \in DOMAIN m.args :
       m.args[k].direction = "out" /\ m.args[k].dimension = 0
         => m.args[k].type.instantiable

\* Of an interface: its methods are counted from one, as the arguments of each
\* are, and every method has been let through by check_method, and by javac as
\* far as Compiles goes.
ASSUME InterfacesAssumption ==
  \A f \in Interfaces :
    /\ DOMAIN f \subseteq Nat \ {0}
    /\ \A i \in DOMAIN f :
         /\ Len(f[i].args) \in Nat /\ DOMAIN f[i].args = 1..Len(f[i].args)
         /\ \A k \in DOMAIN f[i].args : AcceptedArg(f[i].args[k])
         /\ ~Void(f[i]) => f[i].returns[1].dimension \in {0, 1}
         /\ Compiles(f[i])

\* The values are told from each other, and what a Parcel gives for a word of
\* another kind from all of them.
ASSUME ValuesAssumption ==
  /\ True # False /\ False # 0 /\ Null \notin Contents /\ Null # New
  /\ Garbage \notin Contents /\ Garbage \notin {0, 1}
  /\ Garbage \notin {True, False, Null, New}
  /\ \A f \in Interfaces : \A i \in DOMAIN f :
       /\ \A k \in DOMAIN f[i].args : Garbage \notin Values(f[i].args[k].type, 1)
       /\ ~Void(f[i]) => Garbage \notin Values(f[i].returns[1].type, 1)

-----------------------------------------------------------------------------
Init ==
  /\ face \in Interfaces
  /\ \E i \in DOMAIN face :
       \E args \in Tuples([k \in DOMAIN face[i].args |->
                             Values(face[i].args[k].type, face[i].args[k].dimension)]) :
         call = [method |-> face[i], index |-> i, args |-> args]
  /\ params = call.args
  /\ runs = <<>> /\ dead = FALSE
  /\ cpc = "token" /\ ck = 1 /\ data = <<>> /\ reply = <<>>
  /\ callResult = Null /\ thrown = FALSE /\ proxyCl = NoLoader
  /\ spc = "idle" /\ sk = 1 /\ code = 0 /\ served = 0 /\ request = <<>>
  /\ locals = <<>> /\ stubResult = Null /\ out = <<>> /\ stubCl = NoLoader

(* The proxy method.                                                       *)

\* _data.writeInterfaceToken(DESCRIPTOR)
WriteToken ==
  /\ cpc = "token" /\ cpc' = "params"
  /\ data' = <<Word("Token", "DESCRIPTOR")>>
  /\ Fixed
  /\ UNCHANGED <<runs, dead, ck, params, reply, callResult, thrown, proxyCl, stub>>

\* What the proxy sends for a parameter: of an out array, its length.
Sent(a, v) ==
  IF a.direction = "out" /\ a.dimension # 0
    THEN <<Word("Int", IF v = Null THEN -1 ELSE Len(v))>>
  ELSE IF Incoming(a) THEN Written(a.type, a.dimension, v)
  ELSE <<>>

WriteParam ==
  /\ cpc = "params" /\ ck \in DOMAIN method.args
  /\ data' = data \o Sent(method.args[ck], params[ck])
  /\ ck' = ck + 1
  /\ Fixed
  /\ UNCHANGED <<runs, dead, cpc, params, reply, callResult, thrown, proxyCl, stub>>

\* Plausible bug, for the mutation runs: FLAG_ONEWAY is not set.
TransactAndWait ==
  /\ cpc = "params" /\ ck \notin DOMAIN method.args
  /\ ~dead
  /\ code' = TransactionCode(call.index) /\ request' = data
  /\ spc' = "dispatch" /\ cpc' = "wait"
  /\ Fixed
  /\ UNCHANGED <<runs, dead, ck, params, data, reply, callResult, thrown,
                 proxyCl, sk, served, locals, stubResult, out, stubCl>>

\* mRemote.transact(...): the words are copied to the other process.  A oneway
\* call goes on at once, another waits for the reply.
Transact ==
  /\ cpc = "params" /\ ck \notin DOMAIN method.args
  /\ ~dead
  /\ code' = TransactionCode(call.index) /\ request' = data
  /\ spc' = "dispatch"
  /\ cpc' = IF method.oneway THEN "finally" ELSE "wait"
  /\ Fixed
  /\ UNCHANGED <<runs, dead, ck, params, data, reply, callResult, thrown,
                 proxyCl, sk, served, locals, stubResult, out, stubCl>>

\* The other process is gone: RemoteException.
TransactFails ==
  /\ cpc = "params" /\ ck \notin DOMAIN method.args
  /\ dead
  /\ thrown' = TRUE /\ cpc' = "finally"
  /\ Fixed
  /\ UNCHANGED <<runs, dead, ck, params, data, reply, callResult, proxyCl, stub>>

\* _reply.readException()
ReadException ==
  /\ cpc = "exception"
  /\ reply' = Dropped(reply, 1)
  /\ thrown' = (Take(reply, "Exception", FALSE) # 0)
  /\ cpc' = IF thrown' THEN "finally" ELSE "result"
  /\ ck' = 1
  /\ Fixed
  /\ UNCHANGED <<runs, dead, params, data, callResult, proxyCl, stub>>

ReadResult ==
  /\ cpc = "result" /\ cpc' = "outs"
  /\ \/ Void(method) /\ UNCHANGED <<callResult, reply, proxyCl>>
     \/ /\ ~Void(method)
        /\ LET r == method.returns[1]
           IN  /\ callResult' = Created(r.type, r.dimension, reply)
               /\ reply' = Dropped(reply, Width(r.type, r.dimension, reply))
        /\ proxyCl' = Loaded(proxyCl, ClSetAtResult(method), ResultNeeds(method))
  /\ Fixed
  /\ UNCHANGED <<runs, dead, ck, params, data, thrown, stub>>

\* Plausible bug, for the mutation runs: arg = arg->next only after an out argument.
ReadOutStays ==
  /\ cpc = "outs" /\ ck \in DOMAIN method.args
  /\ LET a == method.args[ck]
     IN  \/ ~Outgoing(a) /\ UNCHANGED <<ck, params, reply>>
        \/ /\ Outgoing(a)
           /\ params' = [params EXCEPT
                ![ck] = ReadInto(a.type, a.dimension, params[ck], reply)]
           /\ reply' = Dropped(reply, Width(a.type, a.dimension, reply))
           /\ ck' = ck + 1
  /\ Fixed
  /\ UNCHANGED <<runs, dead, cpc, data, callResult, thrown, proxyCl, stub>>

\* An out parameter is read into the caller's object.
ReadOut ==
  /\ cpc = "outs" /\ ck \in DOMAIN method.args
  /\ LET a == method.args[ck]
     IN  \/ /\ ~Outgoing(a)
            /\ UNCHANGED <<cpc, params, reply, thrown, proxyCl>>
         \/ /\ Outgoing(a) /\ ReadThrows(a.type, a.dimension, params[ck], reply)
            /\ thrown' = TRUE /\ cpc' = "finally"
            /\ UNCHANGED <<params, reply, proxyCl>>
         \/ /\ Outgoing(a) /\ ~ReadThrows(a.type, a.dimension, params[ck], reply)
            /\ params' = [params EXCEPT
                 ![ck] = ReadInto(a.type, a.dimension, params[ck], reply)]
            /\ reply' = Dropped(reply, Width(a.type, a.dimension, reply))
            /\ proxyCl' = Loaded(proxyCl, ClSetAtOut(method, ck), ck \in OutNeeds(method))
            /\ UNCHANGED <<cpc, thrown>>
  /\ ck' = ck + 1
  /\ Fixed
  /\ UNCHANGED <<runs, dead, data, callResult, stub>>

EndOuts ==
  /\ cpc = "outs" /\ ck \notin DOMAIN method.args
  /\ cpc' = "finally"
  /\ Fixed
  /\ UNCHANGED <<runs, dead, ck, params, data, reply, callResult, thrown, proxyCl, stub>>

\* The finally block recycles the parcels; then the method returns or throws.
Finally ==
  /\ cpc = "finally" /\ cpc' = "done"
  /\ Fixed
  /\ UNCHANGED <<runs, dead, ck, params, data, reply, callResult, thrown, proxyCl, stub>>

-----------------------------------------------------------------------------
(* The stub.                                                               *)

\* switch (code): the case of the first method with that constant.
Dispatch ==
  /\ spc = "dispatch" /\ spc' = "enforce"
  /\ served' = CHOOSE i \in DOMAIN face :
                 /\ TransactionCode(i) = code
                 /\ \A j \in DOMAIN face : TransactionCode(j) = code => i <= j
  /\ Fixed
  /\ UNCHANGED <<runs, dead, caller, sk, code, request, locals, stubResult, out, stubCl>>

\* Plausible bug, for the mutation runs: the stub's DESCRIPTOR is its own name.
EnforceOwnName ==
  /\ spc = "enforce" /\ spc' = "args"
  /\ Take(request, "Token", FALSE) = "DESCRIPTOR.Stub"
  /\ request' = Dropped(request, 1)
  /\ Fixed
  /\ UNCHANGED <<runs, dead, caller, sk, code, served, locals, stubResult, out, stubCl>>

\* data.enforceInterface(DESCRIPTOR); the caller's proxy has the same one.
EnforceInterface ==
  /\ spc = "enforce" /\ spc' = "args"
  /\ Take(request, "Token", FALSE) = "DESCRIPTOR"
  /\ request' = Dropped(request, 1)
  /\ Fixed
  /\ UNCHANGED <<runs, dead, caller, sk, code, served, locals, stubResult, out, stubCl>>

\* Declares _argN, and reads it or makes an object for the implementation to fill.
ReadArg ==
  /\ spc = "args" /\ sk \in DOMAIN Served.args
  /\ LET a == Served.args[sk]
     IN  \/ /\ Incoming(a)
            /\ locals' = Append(locals, Created(a.type, a.dimension, request))
            /\ request' = Dropped(request, Width(a.type, a.dimension, request))
            /\ stubCl' = Loaded(stubCl, ClSetInStub(Served, sk), sk \in StubNeeds(Served))
         \/ /\ ~Incoming(a) /\ a.dimension = 0
            /\ locals' = Append(locals, New)
            /\ UNCHANGED <<request, stubCl>>
         \/ /\ ~Incoming(a) /\ a.dimension = 1
            /\ locals' = Append(locals, NewArray(a.type, request))
            /\ request' = Dropped(request, 1)
            /\ UNCHANGED stubCl
  /\ sk' = sk + 1
  /\ Fixed
  /\ UNCHANGED <<runs, dead, caller, spc, code, served, stubResult, out>>

\* What the implementation can leave in the variable v passed to it: it can
\* fill an object or an array, and neither replace nor resize it.
Left(a, v) ==
  IF v = Null \/ (a.dimension = 0 /\ ~a.type.canBeOut) THEN {v}
  ELSE IF a.dimension = 1 THEN [DOMAIN v -> Scalars(a.type)]
  ELSE Contents \cup {v}

Results(m) ==
  IF Void(m) THEN {Null} ELSE Values(m.returns[1].type, m.returns[1].dimension)

Run(threw, result, left) ==
  [index |-> served, received |-> locals, threw |-> threw, result |-> result,
   left |-> left]

\* this.method(_arg0, ...) returns.
RealCall ==
  /\ spc = "args" /\ sk \notin DOMAIN Served.args
  /\ \E result \in Results(Served) :
       \E left \in Tuples([k \in DOMAIN locals |-> Left(Served.args[k], locals[k])]) :
         /\ stubResult' = result /\ locals' = left
         /\ runs' = Append(runs, Run(FALSE, result, left))
  /\ spc' = "noException"
  /\ Fixed
  /\ UNCHANGED <<dead, caller, sk, code, served, request, out, stubCl>>

\* It throws, and the framework makes the reply.
RealCallThrows ==
  /\ spc = "args" /\ sk \notin DOMAIN Served.args
  /\ runs' = Append(runs, Run(TRUE, Null, locals))
  /\ out' = <<Word("Exception", 1)>>
  /\ spc' = "return"
  /\ Fixed
  /\ UNCHANGED <<dead, caller, sk, code, served, request, locals, stubResult, stubCl>>

\* reply.writeNoException(), but for a oneway method; then the result.
WriteResult ==
  /\ spc = "noException" /\ spc' = "outs" /\ sk' = 1
  /\ out' = (IF Served.oneway THEN <<>> ELSE <<Word("Exception", 0)>>)
            \o (IF Void(Served) THEN <<>>
                ELSE Written(Served.returns[1].type, Served.returns[1].dimension,
                             stubResult))
  /\ Fixed
  /\ UNCHANGED <<runs, dead, caller, code, served, request, locals, stubResult, stubCl>>

\* Plausible bug, for the mutation runs: every argument goes back.
WriteEveryArg ==
  /\ spc = "outs" /\ sk \in DOMAIN Served.args
  /\ out' = out \o Written(Served.args[sk].type, Served.args[sk].dimension, locals[sk])
  /\ sk' = sk + 1
  /\ Fixed
  /\ UNCHANGED <<runs, dead, caller, spc, code, served, request, locals, stubResult, stubCl>>

\* generate_write_to_parcel(t, c->statements, v, transact_reply, ...)
WriteOut ==
  /\ spc = "outs" /\ sk \in DOMAIN Served.args
  /\ LET a == Served.args[sk]
     IN  out' = out \o IF Outgoing(a) THEN Written(a.type, a.dimension, locals[sk])
                       ELSE <<>>
  /\ sk' = sk + 1
  /\ Fixed
  /\ UNCHANGED <<runs, dead, caller, spc, code, served, request, locals, stubResult, stubCl>>

\* return true
ReturnTrue ==
  /\ spc = "outs" /\ sk \notin DOMAIN Served.args
  /\ spc' = "return"
  /\ Fixed
  /\ UNCHANGED <<runs, dead, caller, sk, code, served, request, locals, stubResult,
                 out, stubCl>>

\* The framework sends the reply, if someone waits for it.
Deliver ==
  /\ spc = "return" /\ spc' = "sent"
  /\ IF cpc = "wait" THEN cpc' = "exception" /\ reply' = out
     ELSE UNCHANGED <<cpc, reply>>
  /\ Fixed
  /\ UNCHANGED <<runs, dead, ck, params, data, callResult, thrown, proxyCl, sk, code,
                 served, request, locals, stubResult, out, stubCl>>

\* The process of the stub can die at any time, and then nothing more happens
\* in it; a caller that waits gets a RemoteException.
Die ==
  /\ ~dead /\ dead' = TRUE
  /\ spc' = IF spc = "sent" THEN "sent" ELSE "dead"
  /\ IF cpc = "wait" THEN thrown' = TRUE /\ cpc' = "finally"
     ELSE UNCHANGED <<thrown, cpc>>
  /\ Fixed
  /\ UNCHANGED <<runs, ck, params, data, reply, callResult, proxyCl, sk, code, served,
                 request, locals, stubResult, out, stubCl>>

Caller ==
  \/ WriteToken \/ WriteParam \/ Transact \/ TransactFails \/ ReadException
  \/ ReadResult \/ ReadOut \/ EndOuts \/ Finally

Stub ==
  \/ Dispatch \/ EnforceInterface \/ ReadArg \/ RealCall \/ RealCallThrows
  \/ WriteResult \/ WriteOut \/ ReturnTrue \/ Deliver

Next == Caller \/ Stub \/ Die

-----------------------------------------------------------------------------
\* The thread of the caller is scheduled.  The process of the stub need not
\* die, and need not run either, unless a property says so.
Spec == Init /\ [][Next]_vars /\ WF_vars(Caller)

StubIsScheduled == WF_vars(Stub)

(* Properties.                                                             *)

\* Proxy and stub are emitted by two walks over the arguments that decide on
\* their own what goes into the parcels: no value is read with a method other
\* than the one that wrote it, in either direction.
NoMisread ==
  /\ callResult # Garbage
  /\ \A k \in DOMAIN params : params[k] # Garbage
  /\ \A k \in DOMAIN locals : locals[k] # Garbage

\* Nothing is left over: the implementation is entered when all that was sent
\* has been read, and a call that returns has read the whole reply.
AllRead ==
  /\ spc = "args" /\ sk \notin DOMAIN Served.args => request = <<>>
  /\ cpc = "done" /\ ~thrown => reply = <<>>

\* EnsureClassLoader: "ensure we do it at most once per method" (Type.cpp:831).
\* The stub declares the class loader variable exactly once if it uses it.  So
\* does the proxy, unless an argument of the stub has needed it before: then the
\* pointer they share is set, and the proxy uses what it has not declared.
ClassLoaderDeclared ==
  /\ stubCl.declared = IF stubCl.used THEN 1 ELSE 0
  /\ proxyCl.declared = IF proxyCl.used /\ StubNeeds(method) = {} THEN 1 ELSE 0

\* The call as RemoteCall sees it: the caller has an answer when the proxy
\* method has ended.
Remote == INSTANCE RemoteCall WITH
  answer <- IF cpc # "done"
              THEN [kind |-> "none", result |-> Null, args |-> call.args]
              ELSE [kind |-> IF thrown THEN "exception" ELSE "result",
                    result |-> callResult, args |-> params],
  lost <- dead

\* The generated pair implements a remote call: the method that was called
\* runs at most once, on what the caller passed; what it returns and leaves in
\* the out arguments comes back; an exception has a cause.
KeepsCallPromise == Remote!Spec

\* Every call ends, if the process of the stub is scheduled: it answers or dies.
CallEnds == StubIsScheduled => <>(cpc = "done")

\* A oneway call ends without any help from the other process.
OnewayEnds == method.oneway ~> cpc = "done"

\* What was sent is carried out, oneway or not, unless the process dies.
SentRuns == StubIsScheduled => (spc = "dispatch" ~> (runs # <<>> \/ dead))

=============================================================================
