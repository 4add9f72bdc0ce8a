------------------------------ MODULE RpcBackend ------------------------------
(***************************************************************************)
(* The classes generate_rpc_interface_class emits (generate_java_rpc.cpp): *)
(* calls through the proxy, EndpointBase.process and _ResultDispatcher,    *)
(* several at a time, and events from the push methods of EndpointBase     *)
(* through Presenter.process to a Listener.                                *)
(*                                                                         *)
(* A call never waits: the proxy method hands the request to the broker    *)
(* and returns, and a thread of the broker runs the callback later.  The   *)
(* broker is not in this repository.  Assumed of it: a request arrives     *)
(* once or is reported to the error listener, in any order with others,    *)
(* and so does its reply; an event goes to the presenters registered when  *)
(* it is pushed, to each at most once, in any order, if need be after the  *)
(* presenter has been taken off.                                           *)
(***************************************************************************)
EXTENDS RpcMarshalling, FiniteSetsExt

CONSTANTS
  Clients,        \* the clients considered: [face, calls, operations], an interface
                  \* as a sequence of items, which of them are called, and how often
                  \* startListening or stopListening may be
  Contents,       \* the contents of a string, an object, a list
  Listeners,      \* what an application may pass to startListening
  MaxPushes       \* how many events are pushed

\* A value of a type; arrays are not supported by this back end.
Values(type) ==
  CASE type.zero = 0 -> {0, 1}
    [] type.zero = False -> {True, False}
    [] OTHER -> Contents \cup {Null}

Ids == {1, 2}   \* up to two calls are made

VARIABLES
  face,        \* the interface
  \* calls, by their number
  call,        \* the call: [method, index, args]
  cpc,         \* "ready", "made" or "told": what the application knows of it
  request,     \* what the broker has of it: [action, data, handler]
  spc,         \* "none", "sent", "run", "reply", "replied", "lost"
  served,      \* the item process has dispatched it to; 0: super.process
  locals,      \* _arg0, ...
  result,      \* _result
  reply,       \* the serialized resultData
  runs,        \* the runs of the implementation, for RemoteCall
  told,        \* what the callback got: [kind, result, args]
  \* events
  lpc,         \* the statement of startListening or stopListening
  wanted,      \* the argument of startListening; None for stopListening
  presenter,   \* _presenter: its position in presenters, 0 for null
  presenters,  \* the presenters made: the listener of each
  registered,  \* those the broker sends events to
  operations,  \* how many calls of startListening and stopListening are left
  inFlight,    \* the events on their way: [push, presenter, action, data]
  pushes,      \* the events pushed, for Subscription
  heard        \* what the listeners heard, for Subscription

caller == <<call, cpc, told>>
server == <<request, spc, served, locals, result, reply, runs>>
calls == <<caller, server>>
listening == <<lpc, wanted, presenter, presenters, registered, operations>>
events == <<inFlight, pushes, heard>>
vars == <<face, calls, listening, events>>

None == Null

Method(c) == call[c].method
Served(c) == face[served[c]]

Regular(item) == ~item.event
RegularItems == {i \in DOMAIN face : Regular(face[i])}
EventItems == {i \in DOMAIN face : face[i].event}

\* generate_results_method: a results interface OnFoo is made for a method that
\* is not oneway and has something to give back.
HasResults(m) ==
  ~m.oneway /\ (~Void(m) \/ \E k \in DOMAIN m.args : Outgoing(m.args[k]))

\* The key of the result.
ResultKey == "_result"

\* javac takes the classes.  A result is called "_result" in the messages, and
\* so is the parameter of the results interface.
Compiles(m) ==
  /\ \A k \in DOMAIN m.args : m.args[k].dimension = 0
  /\ \A j, k \in DOMAIN m.args : m.args[j].name = m.args[k].name => j = k
  /\ HasResults(m) => \A k \in DOMAIN m.args : m.args[k].name # ResultKey

\* What check_method lets through: events only take arguments.
AcceptedItem(m) ==
  /\ m.event => Void(m) /\ \A k \in DOMAIN m.args : ~Outgoing(m.args[k])
  /\ \A k \in DOMAIN m.args :
       /\ Incoming(m.args[k]) \/ Outgoing(m.args[k])
       /\ Outgoing(m.args[k]) => m.args[k].type.canBeOut
       /\ m.args[k].direction = "" => ~m.args[k].type.canBeOut

\* Items and arguments are sequences, events are not called, and no two items
\* have one name.
ASSUME ClientsAssumption ==
  \A client \in Clients :
    LET f == client.face
    IN  /\ DOMAIN f \subseteq Nat \ {0}
        /\ \A i \in DOMAIN f : /\ DOMAIN f[i].args \subseteq Nat \ {0}
                               /\ AcceptedItem(f[i]) /\ Compiles(f[i])
        /\ \A i, j \in DOMAIN f : f[i].name = f[j].name => i = j
        /\ DOMAIN client.calls \subseteq Ids
        /\ \A c \in DOMAIN client.calls :
             client.calls[c] \in DOMAIN f /\ Regular(f[client.calls[c]])

\* What a message has for a missing key is none of the values.
ASSUME GarbageAssumption ==
  Garbage \notin Contents /\ Garbage \notin {0, 1} /\ Garbage \notin {True, False, Null, New}

-----------------------------------------------------------------------------
(* What is put into the messages, and found there.                         *)

\* The arguments in a set of positions, each under its name; put one after the
\* other, so that the last of a name stays.
PutArgs(data, m, positions, values) ==
  LET named(key) == {k \in positions : m.args[k].name = key}
      last(key) == Max(named(key))
  IN  [key \in DOMAIN data \cup {m.args[k].name : k \in positions} |->
         IF named(key) = {} THEN data[key]
         ELSE Entry(m.args[last(key)].type, values[last(key)])]

In(m) == {k \in DOMAIN m.args : Incoming(m.args[k])}
Out(m) == {k \in DOMAIN m.args : Outgoing(m.args[k])}

\* AddMethod: what is passed to the implementation; for an out argument a new object.
Received(m, data) ==
  [k \in DOMAIN m.args |->
     IF Incoming(m.args[k]) THEN Get(data, m.args[k].name, m.args[k].type) ELSE New]

\* Plausible bug, for the mutation runs: the chain is not carried on, and an
\* if added overwrites the one added before it.
ChainOverwritten(positions) ==
  IF positions = {} THEN {} ELSE {Min(positions), Max(positions)}

\* The items with an if statement in process.
Chain(positions) == positions

\* The item whose if is the first to match the action; 0 when it is left to
\* super.process.
Dispatched(positions, action) ==
  LET matching == {i \in Chain(positions) : face[i].name = action}
  IN  IF matching = {} THEN 0 ELSE Min(matching)

\* Plausible bug, for the mutation runs: index is not counted.
SameIndex(i) == 0

\* The index of an item, events included: the methodId of its results.
Index(i) == i - 1

-----------------------------------------------------------------------------
\* The arguments of a call; an out argument is not a parameter of the proxy method.
Arguments(m) ==
  Tuples([k \in DOMAIN m.args |->
            IF Incoming(m.args[k]) THEN Values(m.args[k].type) ELSE {New}])

CallsOf(client) ==
  LET method(c) == client.face[client.calls[c]]
  IN  {[c \in DOMAIN client.calls |->
          [method |-> method(c), index |-> client.calls[c], args |-> args[c]]] :
         args \in Tuples([c \in DOMAIN client.calls |-> Arguments(method(c))])}

NotTold(c) == [kind |-> "none", result |-> Null, args |-> call[c].args]

Init ==
  /\ \E client \in Clients :
       /\ face = client.face /\ call \in CallsOf(client)
       /\ operations = client.operations
  /\ cpc = [c \in DOMAIN call |-> "ready"]
  /\ request = [c \in DOMAIN call |-> <<>>]
  /\ spc = [c \in DOMAIN call |-> "none"]
  /\ served = [c \in DOMAIN call |-> 0]
  /\ locals = [c \in DOMAIN call |-> <<>>]
  /\ result = [c \in DOMAIN call |-> Null]
  /\ reply = [c \in DOMAIN call |-> NoData]
  /\ runs = [c \in DOMAIN call |-> <<>>]
  /\ told = [c \in DOMAIN call |-> NotTold(c)]
  /\ lpc = "idle" /\ wanted = None
  /\ presenter = 0 /\ presenters = <<>> /\ registered = {}
  /\ inFlight = {} /\ pushes = <<>> /\ heard = {}

(* Calls.                                                                  *)

\* The proxy method: the arguments into _data, and _broker.sendRpc with a new
\* _ResultDispatcher, if there is something to dispatch.
Send(c) ==
  /\ cpc[c] = "ready"
  /\ request' = [request EXCEPT ![c] =
       [action |-> Method(c).name,
        data |-> PutArgs(NoData, Method(c), In(Method(c)), call[c].args),
        handler |-> IF HasResults(Method(c))
                      THEN <<[methodId |-> Index(call[c].index),
                              callback |-> call[c].index]>>
                      ELSE <<>>]]
  /\ cpc' = [cpc EXCEPT ![c] = "made"] /\ spc' = [spc EXCEPT ![c] = "sent"]
  /\ UNCHANGED <<face, call, told, served, locals, result, reply, runs, listening, events>>

\* EndpointBase.process, up to the call of the implementation.
Process(c) ==
  /\ spc[c] = "sent"
  /\ served' = [served EXCEPT ![c] = Dispatched(RegularItems, request[c].action)]
  /\ locals' = [locals EXCEPT ![c] =
       IF served'[c] = 0 THEN <<>> ELSE Received(face[served'[c]], request[c].data)]
  /\ spc' = [spc EXCEPT ![c] = IF served'[c] = 0 THEN "reply" ELSE "run"]
  /\ UNCHANGED <<face, caller, request, result, reply, runs, listening, events>>

\* What the implementation can leave in an argument: it can fill an object.
Left(a, v) == IF v = Null \/ ~a.type.canBeOut THEN {v} ELSE Contents \cup {v}

Run(c, threw, r, left) ==
  [index |-> served[c], received |-> locals[c], threw |-> threw, result |-> r,
   left |-> left]

\* this.method(_arg0, ..., context) returns.
RealCall(c) ==
  /\ spc[c] = "run"
  /\ \E r \in (IF Void(Served(c)) THEN {Null} ELSE Values(Served(c).returns[1].type)),
        left \in Tuples([k \in DOMAIN locals[c] |->
                           Left(Served(c).args[k], locals[c][k])]) :
       /\ result' = [result EXCEPT ![c] = r] /\ locals' = [locals EXCEPT ![c] = left]
       /\ runs' = [runs EXCEPT ![c] = Append(@, Run(c, FALSE, r, left))]
  /\ spc' = [spc EXCEPT ![c] = "reply"]
  /\ UNCHANGED <<face, caller, request, served, reply, listening, events>>

\* It throws: the broker reports an error.
RealCallThrows(c) ==
  /\ spc[c] = "run"
  /\ runs' = [runs EXCEPT ![c] = Append(@, Run(c, TRUE, Null, locals[c]))]
  /\ spc' = [spc EXCEPT ![c] = "lost"]
  /\ UNCHANGED <<face, caller, request, served, locals, result, reply, listening, events>>

\* The result and the out arguments into resultData, which process returns;
\* it returns null when nothing was put.
Reply(c) ==
  /\ spc[c] = "reply"
  /\ reply' = [reply EXCEPT ![c] =
       IF served[c] = 0 THEN NoData
       ELSE LET m == Served(c)
            IN  PutArgs(IF Void(m) THEN NoData
                        ELSE Put(NoData, ResultKey, m.returns[1].type, result[c]),
                        m, Out(m), locals[c])]
  /\ spc' = [spc EXCEPT ![c] = "replied"]
  /\ UNCHANGED <<face, caller, request, served, locals, result, runs, listening, events>>

\* The broker loses the request or the reply.
Lose(c) ==
  /\ spc[c] \in {"sent", "replied"} /\ cpc[c] # "told"
  /\ spc' = [spc EXCEPT ![c] = "lost"]
  /\ UNCHANGED <<face, caller, request, served, locals, result, reply, runs,
                 listening, events>>

\* Plausible bug, for the mutation runs: only methods with a result have a case.
CasesOfResults == {i \in RegularItems : HasResults(face[i]) /\ ~Void(face[i])}

\* generate_result_dispatcher_method: the cases of the switch in onResult.
Cases == {i \in RegularItems : HasResults(face[i])}

\* _ResultDispatcher.onResult: the case of methodId reads the result and the out
\* arguments, casts the callback to its results interface and calls it.
OnResult(c) ==
  /\ spc[c] = "replied" /\ cpc[c] = "made" /\ request[c].handler # <<>>
  /\ LET handler == request[c].handler[1]
         matching == {i \in Cases : Index(i) = handler.methodId}
     IN  /\ matching # {}
         /\ LET i == Min(matching)
                m == face[i]
            IN  told' = [told EXCEPT ![c] =
                  IF i # handler.callback
                    THEN [NotTold(c) EXCEPT !.kind = "ClassCastException"]
                  ELSE [kind |-> "result",
                        result |-> IF Void(m) THEN Null
                                   ELSE Get(reply[c], ResultKey, m.returns[1].type),
                        args |-> [k \in DOMAIN m.args |->
                                    IF Outgoing(m.args[k])
                                      THEN Get(reply[c], m.args[k].name, m.args[k].type)
                                      ELSE call[c].args[k]]]]
  /\ cpc' = [cpc EXCEPT ![c] = "told"]
  /\ UNCHANGED <<face, call, server, listening, events>>

\* The broker calls the error listener every proxy method takes.
OnError(c) ==
  /\ spc[c] = "lost" /\ cpc[c] = "made"
  /\ told' = [told EXCEPT ![c].kind = "exception"]
  /\ cpc' = [cpc EXCEPT ![c] = "told"]
  /\ UNCHANGED <<face, call, server, listening, events>>

-----------------------------------------------------------------------------
(* Events.  The application calls startListening and stopListening from    *)
(* one thread; the steps are the statements, and events come in between.   *)

\* Plausible bug, for the mutation runs: startListening does not begin with
\* stopListening.
BeginListeningNoStop ==
  /\ lpc = "idle" /\ EventItems # {} /\ operations > 0
  /\ wanted' \in Listeners \cup {None}
  /\ operations' = operations - 1
  /\ lpc' = IF wanted' # None THEN "make"
            ELSE IF presenter # 0 THEN "take off" ELSE "idle"
  /\ UNCHANGED <<face, calls, presenter, presenters, registered, events>>

\* startListening(listener) or stopListening() is called; both begin with the
\* test of _presenter.
BeginListening ==
  /\ lpc = "idle" /\ EventItems # {} /\ operations > 0
  /\ wanted' \in Listeners \cup {None}
  /\ operations' = operations - 1
  /\ lpc' = IF presenter # 0 THEN "take off"
            ELSE IF wanted' # None THEN "make" ELSE "idle"
  /\ UNCHANGED <<face, calls, presenter, presenters, registered, events>>

\* Plausible bug, for the mutation runs: the presenter is forgotten, not stopped.
TakeOffNothing ==
  /\ lpc = "take off" /\ lpc' = "clear"
  /\ UNCHANGED <<face, calls, wanted, presenter, presenters, registered, operations,
                 events>>

\* _presenter.stopListening()
TakeOff ==
  /\ lpc = "take off" /\ lpc' = "clear"
  /\ registered' = registered \ {presenter}
  /\ UNCHANGED <<face, calls, wanted, presenter, presenters, operations, events>>

\* Plausible bug, for the mutation runs: stopListening starts to listen for null.
ClearAndMake ==
  /\ lpc = "clear" /\ lpc' = "make"
  /\ presenter' = 0
  /\ UNCHANGED <<face, calls, wanted, presenters, registered, operations, events>>

\* _presenter = null
ClearPresenter ==
  /\ lpc = "clear"
  /\ presenter' = 0
  /\ lpc' = IF wanted # None THEN "make" ELSE "idle"
  /\ UNCHANGED <<face, calls, wanted, presenters, registered, operations, events>>

\* _presenter = new Presenter(_broker, listener)
MakePresenter ==
  /\ lpc = "make" /\ lpc' = "register"
  /\ presenters' = Append(presenters, wanted)
  /\ presenter' = Len(presenters')
  /\ UNCHANGED <<face, calls, wanted, registered, operations, events>>

\* _presenter.startListening(_endpoint)
RegisterPresenter ==
  /\ lpc = "register" /\ lpc' = "idle"
  /\ registered' = registered \cup {presenter}
  /\ UNCHANGED <<face, calls, wanted, presenter, presenters, operations, events>>

\* pushFoo: the arguments into _data, and pushEvent.
Push ==
  /\ Len(pushes) < MaxPushes
  /\ \E i \in EventItems :
       \E args \in Tuples([k \in DOMAIN face[i].args |-> Values(face[i].args[k].type)]) :
         /\ pushes' = Append(pushes, [event |-> i, args |-> args,
                                      to |-> {presenters[p] : p \in registered}])
         /\ inFlight' = inFlight \cup
              {[push |-> Len(pushes'), presenter |-> p, action |-> face[i].name,
                data |-> PutArgs(NoData, face[i], DOMAIN face[i].args, args)] :
                 p \in registered}
  /\ UNCHANGED <<face, calls, listening, heard>>

\* Presenter.process: the case of the action calls _listener.foo(_arg0, ..., context).
Hear ==
  \E e \in inFlight :
    /\ inFlight' = inFlight \ {e}
    /\ LET i == Dispatched(EventItems, e.action)
       IN  heard' = heard \cup
             IF i = 0 THEN {}
             ELSE {[push |-> e.push, listener |-> presenters[e.presenter], event |-> i,
                    args |-> Received(face[i], e.data)]}
    /\ UNCHANGED <<face, calls, listening, pushes>>

OnCall(c) ==
  \/ Send(c) \/ Process(c) \/ RealCall(c) \/ RealCallThrows(c) \/ Reply(c)
  \/ Lose(c) \/ OnResult(c) \/ OnError(c)

Listening ==
  \/ BeginListening \/ TakeOff \/ ClearPresenter \/ MakePresenter \/ RegisterPresenter

Next == (\E c \in DOMAIN call : OnCall(c)) \/ Listening \/ Push \/ Hear

-----------------------------------------------------------------------------
\* A request made is carried out or reported; the broker schedules its threads.
\* Nothing makes it lose a message, push an event or stop listening.
Fairness ==
  /\ \A c \in Ids :
       WF_vars(c \in DOMAIN call
               /\ (Process(c) \/ RealCall(c) \/ RealCallThrows(c) \/ Reply(c)
                   \/ OnResult(c) \/ OnError(c)))
  /\ WF_vars(Hear)

Spec == Init /\ [][Next]_vars /\ Fairness

(* Properties.                                                             *)

TypeOK ==
  /\ face \in {client.face : client \in Clients}
  /\ \A c \in DOMAIN call :
       /\ call[c].index \in RegularItems /\ Method(c) = face[call[c].index]
       /\ cpc[c] \in {"ready", "made", "told"}
       /\ spc[c] \in {"none", "sent", "run", "reply", "replied", "lost"}
       /\ served[c] \in RegularItems \cup {0}
       /\ Len(runs[c]) <= 1
       /\ told[c].kind \in {"none", "result", "exception", "ClassCastException"}
       /\ DOMAIN told[c].args = DOMAIN Method(c).args
  /\ lpc \in {"idle", "take off", "clear", "make", "register"}
  /\ wanted \in Listeners \cup {None}
  /\ presenters \in Seq(Listeners)
  /\ presenter \in 0..Len(presenters) /\ registered \subseteq DOMAIN presenters

\* Four generated methods decide on their own under which key, and with which
\* method, a value goes into a message or is taken out of it: what is read is
\* always there, and of the kind that was put.
NoMisread ==
  /\ \A c \in DOMAIN call :
       /\ \A k \in DOMAIN locals[c] : locals[c][k] # Garbage
       /\ told[c].result # Garbage
       /\ \A k \in DOMAIN told[c].args : told[c].args[k] # Garbage
  /\ \A h \in heard : \A k \in DOMAIN h.args : h.args[k] # Garbage

\* Between calls of startListening and stopListening the broker knows the one
\* presenter of the listener given last, or none, and _presenter is that one: a
\* presenter replaced without being taken off would go on calling its listener.
ListensAsTold ==
  lpc = "idle" =>
    IF wanted = None THEN presenter = 0 /\ registered = {}
    ELSE /\ presenter # 0 /\ presenters[presenter] = wanted
         /\ registered = {presenter}

\* A call as RemoteCall sees it.  Who gives no results interface has the answer
\* of a oneway call when the proxy method returns.
Promised(c) ==
  [method |-> [oneway |-> ~HasResults(Method(c)), args |-> Method(c).args],
   index |-> call[c].index, args |-> call[c].args]

Answer(c) ==
  IF HasResults(Method(c)) \/ cpc[c] = "ready" THEN told[c]
  ELSE [NotTold(c) EXCEPT !.kind = "result"]

LostCall(c) == spc[c] = "lost" /\ (runs[c] = <<>> \/ ~runs[c][1].threw)

Remote(c) == INSTANCE RemoteCall WITH
  call <- Promised(c), runs <- runs[c], answer <- Answer(c), lost <- LostCall(c)

\* Two calls under way at once, of the same method or of two: each runs at most
\* once on what was passed to it, and its own results, and no other's, reach the
\* callback it was made with; an error has a cause.
KeepsCallPromise ==
  /\ \A c \in DOMAIN call : Remote(c)!Init
  /\ [][\A c \in DOMAIN call : [Remote(c)!Next]_(Remote(c)!vars)]_vars

Subscribed == INSTANCE Subscription WITH
  subscribers <- {presenters[p] : p \in registered}

\* One listener at a time, called at most once for an event pushed while it was
\* subscribed, with what was pushed, by the method of that event.
KeepsEventPromise == Subscribed!Spec

\* Who asked for results gets them or an error: onResult has a case for every
\* method a dispatcher is made for, and process does not lose a request.
ResultsArrive ==
  \A c \in Ids :
    (c \in DOMAIN call /\ cpc[c] = "made" /\ HasResults(Method(c)))
      ~> (c \in DOMAIN call /\ cpc[c] = "told")

\* An event on its way to a presenter is heard by its listener: every event has
\* an if in Presenter.process.
EventsHeard ==
  \A p \in 1..MaxPushes :
    (p \in DOMAIN pushes /\ pushes[p].to # {}) ~> (\E h \in heard : h.push = p)

=============================================================================
