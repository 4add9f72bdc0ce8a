-------------------------- MODULE RpcBackend_proofs --------------------------
(***************************************************************************)
(* Proofs about module RpcBackend, for any interfaces, calls, listeners    *)
(* and events: startListening and stopListening leave the broker with the  *)
(* presenter of the listener given last and no other; what one generated   *)
(* method puts into a message another finds there; the pairs of classes    *)
(* implement RemoteCall and Subscription.                                  *)
(***************************************************************************)
EXTENDS RpcBackend, SequenceLemmas

\* What holds of _presenter and the broker at each statement.
Standing ==
  /\ presenters \in Seq(Listeners) /\ presenter \in 0..Len(presenters)
  /\ lpc \in {"idle", "take off", "clear", "make", "register"}
  /\ lpc = "take off" => presenter # 0 /\ registered = {presenter}
  /\ lpc = "clear" => registered = {}
  /\ lpc = "make" => wanted \in Listeners /\ wanted # None /\ presenter = 0 /\ registered = {}
  /\ lpc = "register" => /\ wanted # None /\ registered = {}
                         /\ presenter # 0 /\ presenters[presenter] = wanted
  /\ wanted \in Listeners \cup {None}

\* Standing is what makes ListensAsTold inductive.
ListenInv == Standing /\ ListensAsTold

\* Nothing listens at first.
LEMMA ListenInit == Init => ListenInv
<1>1. <<>> \in Seq(Listeners) /\ Len(<<>>) = 0
  BY EmptySeq
<1>2. QED
  BY <1>1 DEF Init, ListenInv, Standing, ListensAsTold

\* A statement of startListening or stopListening.
LEMMA ListenSteps == ASSUME ListenInv, Listening PROVE ListenInv'
<1> USE DEF ListenInv
<1>1. presenters \in Seq(Listeners) /\ Len(presenters) \in Nat
  BY LenProperties DEF Standing
<1>2. CASE BeginListening
  BY <1>1, <1>2 DEF BeginListening, Standing, ListensAsTold
<1>3. CASE TakeOff
  BY <1>1, <1>3 DEF TakeOff, Standing, ListensAsTold
<1>4. CASE ClearPresenter
  BY <1>1, <1>4 DEF ClearPresenter, Standing, ListensAsTold
<1>5. CASE MakePresenter
  <2>1. /\ wanted \in Listeners /\ wanted # None /\ registered = {}
        /\ presenters' = Append(presenters, wanted) /\ presenter' = Len(presenters')
        /\ lpc' = "register" /\ UNCHANGED <<wanted, registered>>
    BY <1>5 DEF MakePresenter, Standing
  <2>2. /\ presenters' \in Seq(Listeners) /\ Len(presenters') = Len(presenters) + 1
        /\ presenters'[Len(presenters) + 1] = wanted
    BY <1>1, <2>1, AppendProperties
  <2>3. presenter' = Len(presenters) + 1
    BY <2>1, <2>2
  <2>4. presenter' \in 0..Len(presenters') /\ presenter' # 0 /\ presenters'[presenter'] = wanted
    BY <1>1, <2>2, <2>3
  <2>5. QED
    BY <2>1, <2>2, <2>4 DEF Standing, ListensAsTold
<1>6. CASE RegisterPresenter
  BY <1>1, <1>6 DEF RegisterPresenter, Standing, ListensAsTold
<1>7. QED
  BY <1>2, <1>3, <1>4, <1>5, <1>6 DEF Listening

\* Calls and events leave the subscription alone.
LEMMA OtherSteps ==
  ASSUME ListenInv, UNCHANGED listening
  PROVE  ListenInv'
BY DEF ListenInv, Standing, ListensAsTold, listening

\* A step of a call is none of startListening or stopListening.
LEMMA CallSteps == ASSUME NEW c, OnCall(c) PROVE UNCHANGED listening
BY DEF OnCall, Send, Process, RealCall, RealCallThrows, Reply, Lose, OnResult, OnError

\* No step leaves the invariant.
LEMMA ListenNext == ListenInv /\ [Next]_vars => ListenInv'
<1> SUFFICES ASSUME ListenInv, [Next]_vars
             PROVE  ListenInv'
  OBVIOUS
<1>1. CASE \E c \in DOMAIN call : OnCall(c)
  BY <1>1, CallSteps, OtherSteps
<1>2. CASE Listening
  BY <1>2, ListenSteps
<1>3. CASE Push
  BY <1>3, OtherSteps DEF Push
<1>4. CASE Hear
  BY <1>4, OtherSteps DEF Hear
<1>5. CASE UNCHANGED vars
  BY <1>5, OtherSteps DEF vars
<1>6. QED
  BY <1>1, <1>2, <1>3, <1>4, <1>5 DEF Next

\* Whatever is called and pushed meanwhile, between calls of startListening and
\* stopListening the broker has exactly the presenter of the listener given last.
THEOREM ListenerReplaced == Spec => []ListensAsTold
<1>1. ListenInv => ListensAsTold
  BY DEF ListenInv
<1>2. QED
  BY <1>1, ListenInit, ListenNext, PTL DEF Spec

-----------------------------------------------------------------------------
(* What the messages carry.                                                *)

\* A class reads with the method of the kind it writes with.
Coherent(t) == t.puts = t.gets

\* What the classes of the types an rpc method can carry say is coherent.
THEOREM RpcTypesAreCoherent ==
  /\ \A kind : Coherent(Flattened(kind)) /\ Coherent(RpcBasicType(kind))
  /\ Coherent(RpcBooleanType) /\ Coherent(RpcStringType) /\ Coherent(RpcListType)
  /\ Coherent(FlattenableType) /\ Coherent(RpcDataType)
  /\ \A element : Coherent(RpcGenericListType(element))
<1> USE DEF Coherent, Flattened
<1>1. \A kind : Coherent(Flattened(kind)) /\ Coherent(RpcBasicType(kind))
  BY DEF RpcBasicType
<1>2. Coherent(RpcBooleanType) /\ Coherent(RpcStringType) /\ Coherent(RpcListType)
  BY DEF RpcBooleanType, RpcStringType, RpcListType
<1>3. Coherent(FlattenableType) /\ Coherent(RpcDataType)
  BY DEF FlattenableType, RpcDataType
<1>4. \A element : Coherent(RpcGenericListType(element))
  BY DEF RpcGenericListType
<1>5. QED
  BY <1>1, <1>2, <1>3, <1>4

\* The greatest and the least of one number.
LEMMA OfOne == ASSUME NEW k \in Nat PROVE Max({k}) = k /\ Min({k}) = k
<1>1. k >= k /\ k <= k
  OBVIOUS
<1>2. QED
  BY <1>1 DEF Max, Min

\* A value put is what a get of its key and kind finds.
LEMMA PutFound ==
  ASSUME NEW data, NEW key, NEW t, NEW v, Coherent(t)
  PROVE  Get(Put(data, key, t, v), key, t) = v
BY DEF Put, Get, Entry, Coherent

\* An item the application can be generated from, of types that are coherent.
Sound(m) ==
  /\ DOMAIN m.args \subseteq Nat \ {0} /\ AcceptedItem(m) /\ Compiles(m)
  /\ \A k \in DOMAIN m.args : Coherent(m.args[k].type)
  /\ ~Void(m) => Coherent(m.returns[1].type)

\* Positions of arguments of an item.
Within(positions, m) == positions \subseteq DOMAIN m.args

\* Each argument put is found under its name, whatever the message held.
LEMMA ArgFound ==
  ASSUME NEW data, NEW m, NEW positions, NEW values, Sound(m), Within(positions, m),
         NEW k \in positions
  PROVE  Get(PutArgs(data, m, positions, values), m.args[k].name, m.args[k].type)
           = values[k]
<1> DEFINE key == m.args[k].name
           named(n) == {j \in positions : m.args[j].name = n}
<1>1. k \in DOMAIN m.args /\ k \in Nat /\ Coherent(m.args[k].type)
  BY DEF Sound, Within
<1>2. named(key) = {k}
  BY <1>1 DEF Within, Sound, Compiles
<1>3. Max(named(key)) = k /\ named(key) # {}
  BY <1>1, <1>2, OfOne
<1> DEFINE message == PutArgs(data, m, positions, values)
<1>4. key \in DOMAIN message
  BY DEF PutArgs
<1>5. message[key] = Entry(m.args[k].type, values[k])
  BY <1>4, <1>3 DEF PutArgs
<1>6. QED
  BY <1>1, <1>4, <1>5 DEF Get, Entry, Coherent

\* Another key is left as it was.
LEMMA OtherKeyFound ==
  ASSUME NEW data, NEW m, NEW positions, NEW values, Within(positions, m),
         NEW key, \A k \in positions : m.args[k].name # key, NEW t
  PROVE  Get(PutArgs(data, m, positions, values), key, t) = Get(data, key, t)
<1>1. {k \in positions : m.args[k].name = key} = {}
  OBVIOUS
<1> DEFINE message == PutArgs(data, m, positions, values)
<1>2. /\ key \in DOMAIN message <=> key \in DOMAIN data
      /\ key \in DOMAIN data => message[key] = data[key]
  BY <1>1 DEF PutArgs
<1>3. QED
  BY <1>2 DEF Get

-----------------------------------------------------------------------------
(* The calls.                                                              *)

\* The types in an interface are the ones of RpcTypesAreCoherent.
TypesAssumption ==
  \A client \in Clients : \A i \in DOMAIN client.face : Sound(client.face[i])

SoundFace ==
  /\ face \in {client.face : client \in Clients}
  /\ DOMAIN face \subseteq Nat \ {0}
  /\ \A i \in DOMAIN face : Sound(face[i])
  /\ \A i, j \in DOMAIN face : face[i].name = face[j].name => i = j

\* There is one of everything for each call.
PerCall ==
  /\ DOMAIN cpc = DOMAIN call /\ DOMAIN request = DOMAIN call
  /\ DOMAIN spc = DOMAIN call /\ DOMAIN served = DOMAIN call
  /\ DOMAIN locals = DOMAIN call /\ DOMAIN result = DOMAIN call
  /\ DOMAIN reply = DOMAIN call /\ DOMAIN runs = DOMAIN call
  /\ DOMAIN told = DOMAIN call

\* Arguments are values, and where none goes in, an object to come.
Proper(m, args) ==
  /\ DOMAIN args = DOMAIN m.args
  /\ \A k \in DOMAIN args : /\ args[k] # Garbage
                            /\ ~Incoming(m.args[k]) => args[k] = New

\* What is passed to an item of the interface.
Passed(c) ==
  /\ call[c].index \in RegularItems /\ Method(c) = face[call[c].index]
  /\ Proper(Method(c), call[c].args)

\* The broker has the request of this call.
Asked(c) ==
  LET m == Method(c)
  IN  /\ request[c].action = m.name
      /\ \A k \in In(m) :
           Get(request[c].data, m.args[k].name, m.args[k].type) = call[c].args[k]
      /\ request[c].handler =
           IF HasResults(m)
             THEN <<[methodId |-> Index(call[c].index), callback |-> call[c].index]>>
             ELSE <<>>

\* The implementation is about to be called as the application wanted it.
Entered(c) ==
  /\ served[c] = call[c].index
  /\ DOMAIN locals[c] = DOMAIN call[c].args
  /\ \A k \in DOMAIN locals[c] : locals[c][k] = call[c].args[k]

\* It has returned, and result and locals are as it left them.
Finished(c) ==
  /\ served[c] = call[c].index
  /\ Len(runs[c]) = 1 /\ runs[c] # <<>> /\ ~runs[c][1].threw
  /\ runs[c][1].result = result[c] /\ runs[c][1].left = locals[c]
  /\ DOMAIN locals[c] = DOMAIN call[c].args
  /\ result[c] # Garbage /\ (Void(Method(c)) => result[c] = Null)

\* The message on its way back has what it left.
Replied(c) ==
  LET m == Method(c)
  IN  /\ ~Void(m) /\ HasResults(m) =>
           Get(reply[c], ResultKey, m.returns[1].type) = result[c]
      /\ \A k \in Out(m) :
           Get(reply[c], m.args[k].name, m.args[k].type) = locals[c][k]

\* What holds of a call at each point of its way.
CallOK(c) ==
  /\ Passed(c)
  /\ cpc[c] \in {"ready", "made", "told"}
  /\ spc[c] \in {"none", "sent", "run", "reply", "replied", "lost"}
  /\ spc[c] = "none" <=> cpc[c] = "ready"
  /\ served[c] \in {0, call[c].index}
  /\ cpc[c] # "ready" => Asked(c)
  /\ cpc[c] # "told" => told[c] = NotTold(c)
  /\ told[c].kind \in {"none", "result", "exception"}
  /\ DOMAIN told[c].args = DOMAIN call[c].args
  /\ told[c].result # Garbage
  /\ \A k \in DOMAIN told[c].args : told[c].args[k] # Garbage
  /\ \A k \in DOMAIN locals[c] : locals[c][k] # Garbage
  /\ Len(runs[c]) <= 1
  /\ spc[c] \in {"none", "sent", "run"} => runs[c] = <<>>
  /\ spc[c] = "run" => Entered(c)
  /\ spc[c] \in {"reply", "replied"} => Finished(c)
  /\ spc[c] = "replied" => Replied(c)

CallInv == SoundFace /\ PerCall /\ \A c \in DOMAIN call : CallOK(c)

\* The if of an item is the only one that matches its name.
LEMMA DispatchedToIt ==
  ASSUME SoundFace, NEW positions, positions \subseteq DOMAIN face, NEW i \in positions
  PROVE  Dispatched(positions, face[i].name) = i
<1>1. {j \in Chain(positions) : face[j].name = face[i].name} = {i}
  BY DEF SoundFace, Chain
<1>2. Min({i}) = i
  BY OfOne DEF SoundFace
<1>3. QED
  BY <1>1, <1>2 DEF Dispatched

\* A value is none of what an RpcData gives for a missing one.
LEMMA ValuesAreValues == ASSUME NEW t, NEW v \in Values(t) PROVE v # Garbage
BY GarbageAssumption DEF Values

\* The arguments a call can be made with are proper.
LEMMA ArgumentsAreValues ==
  ASSUME NEW m, NEW args \in Arguments(m)
  PROVE  Proper(m, args)
<1> DEFINE sets == [k \in DOMAIN m.args |->
                      IF Incoming(m.args[k]) THEN Values(m.args[k].type) ELSE {New}]
<1>1. args \in Tuples(sets)
  BY DEF Arguments
<1>2. DOMAIN args = DOMAIN sets /\ \A k \in DOMAIN sets : args[k] \in sets[k]
  <2> HIDE DEF sets
  <2>1. QED
    BY <1>1, InTuples
<1>3. ASSUME NEW k \in DOMAIN args
      PROVE  args[k] # Garbage /\ (~Incoming(m.args[k]) => args[k] = New)
  <2>1. k \in DOMAIN m.args /\ args[k] \in sets[k]
    BY <1>2
  <2>2. CASE Incoming(m.args[k])
    BY <2>1, <2>2, ValuesAreValues
  <2>3. CASE ~Incoming(m.args[k])
    BY <2>1, <2>3, GarbageAssumption
  <2>4. QED
    BY <2>2, <2>3
<1>4. QED
  BY <1>2, <1>3 DEF Proper

\* At first nothing has been sent.
LEMMA CallInit == ASSUME TypesAssumption, Init PROVE CallInv
<1>1. PICK client \in Clients : face = client.face /\ call \in CallsOf(client)
  BY DEF Init
<1> DEFINE calls0 == client.calls
           sets == [c \in DOMAIN calls0 |-> Arguments(face[calls0[c]])]
<1>2. SoundFace
  BY <1>1, ClientsAssumption DEF TypesAssumption, SoundFace
<1>3. PICK args \in Tuples(sets) :
        call = [c \in DOMAIN calls0 |->
                  [method |-> face[calls0[c]], index |-> calls0[c], args |-> args[c]]]
  BY <1>1 DEF CallsOf
<1>4. DOMAIN args = DOMAIN sets /\ \A c \in DOMAIN sets : args[c] \in sets[c]
  <2> HIDE DEF sets
  <2>1. QED
    BY <1>3, InTuples
<1>5. ASSUME NEW c \in DOMAIN call PROVE Passed(c)
  <2>1. c \in DOMAIN calls0 /\ calls0[c] \in RegularItems
    BY <1>1, <1>3, ClientsAssumption DEF RegularItems
  <2>2. call[c] = [method |-> face[calls0[c]], index |-> calls0[c], args |-> args[c]]
    BY <1>3, <2>1
  <2>3. args[c] \in Arguments(face[calls0[c]])
    BY <1>4, <2>1
  <2>4. /\ call[c].args \in Arguments(Method(c)) /\ call[c].index = calls0[c]
        /\ Method(c) = face[calls0[c]]
    BY <2>2, <2>3 DEF Method
  <2>5. Proper(Method(c), call[c].args)
    BY <2>4, ArgumentsAreValues
  <2>6. QED
    BY <2>1, <2>4, <2>5 DEF Passed
<1>6. PerCall
  BY DEF Init, PerCall
<1>7. ASSUME NEW c \in DOMAIN call PROVE CallOK(c)
  <2>1. Passed(c)
    BY <1>5
  <2>2. /\ cpc[c] = "ready" /\ spc[c] = "none" /\ served[c] = 0 /\ locals[c] = <<>>
        /\ runs[c] = <<>> /\ told[c] = NotTold(c)
    BY DEF Init
  <2>3. Null # Garbage
    BY GarbageAssumption
  <2>4. Len(<<>>) = 0 /\ DOMAIN <<>> = {}
    OBVIOUS
  <2>5. QED
    <3>1. told[c].kind = "none" /\ told[c].result = Null /\ told[c].args = call[c].args
      BY <2>2 DEF NotTold
    <3>2. \A k \in DOMAIN call[c].args : call[c].args[k] # Garbage
      BY <2>1 DEF Passed, Proper
    <3>3. QED
      BY <2>1, <2>2, <2>3, <2>4, <3>1, <3>2 DEF CallOK
<1>8. QED
  BY <1>2, <1>6, <1>7 DEF CallInv

\* A call stays as it is while nothing of it changes.
LEMMA Untouched ==
  ASSUME NEW c, CallOK(c), face' = face, call' = call, cpc'[c] = cpc[c],
         request'[c] = request[c], spc'[c] = spc[c], served'[c] = served[c],
         locals'[c] = locals[c], result'[c] = result[c], reply'[c] = reply[c],
         runs'[c] = runs[c], told'[c] = told[c]
  PROVE  CallOK(c)'
BY DEF CallOK, Passed, Asked, Entered, Finished, Replied, NotTold, RegularItems, Method

\* The proxy method.
LEMMA SendOK ==
  ASSUME CallInv, NEW c \in DOMAIN call, Send(c)
  PROVE  CallOK(c)'
<1> DEFINE m == Method(c)
           data == PutArgs(NoData, m, In(m), call[c].args)
           handler == IF HasResults(m)
                        THEN <<[methodId |-> Index(call[c].index),
                                callback |-> call[c].index]>>
                        ELSE <<>>
<1>1. CallOK(c) /\ PerCall /\ Passed(c)
  BY DEF CallInv, CallOK
<1>2. Sound(m)
  BY <1>1 DEF CallInv, SoundFace, Passed, RegularItems
<1>3. /\ request'[c] = [action |-> m.name, data |-> data, handler |-> handler]
      /\ cpc'[c] = "made" /\ spc'[c] = "sent"
      /\ UNCHANGED <<face, call, told, served, locals, result, reply, runs>>
      /\ cpc[c] = "ready"
  BY <1>1 DEF Send, PerCall
<1>4. \A k \in In(m) : Get(data, m.args[k].name, m.args[k].type) = call[c].args[k]
  <2>1. Within(In(m), m)
    BY DEF In, Within
  <2>2. QED
    BY <1>2, <2>1, ArgFound
<1> HIDE DEF data, handler
<1>5. Asked(c)'
  <2>1. /\ request'[c].action = m.name /\ request'[c].handler = handler
        /\ request'[c].data = data
    BY <1>3
  <2>2. QED
    BY <1>3, <1>4, <2>1 DEF Asked, Method, In, HasResults, Void, Index, handler
<1>6. QED
  BY <1>1, <1>3, <1>5 DEF CallOK, Passed, NotTold, RegularItems, Method

\* EndpointBase.process finds the item that was called, and its arguments.
LEMMA ProcessOK ==
  ASSUME CallInv, NEW c \in DOMAIN call, Process(c)
  PROVE  CallOK(c)'
<1> DEFINE m == Method(c)
<1>1. CallOK(c) /\ PerCall /\ Passed(c) /\ SoundFace
  BY DEF CallInv, CallOK
<1>2. Sound(m) /\ call[c].index \in RegularItems /\ m = face[call[c].index]
  BY <1>1 DEF CallInv, SoundFace, Passed, RegularItems
<1>3. Asked(c) /\ runs[c] = <<>> /\ spc[c] = "sent" /\ cpc[c] # "ready"
  BY <1>1 DEF CallOK, Process
<1>4. served'[c] = call[c].index
  <2>1. served'[c] = Dispatched(RegularItems, m.name)
    BY <1>1, <1>3 DEF Process, PerCall, Asked
  <2>2. QED
    BY <1>1, <1>2, <2>1, DispatchedToIt DEF RegularItems
<1>5. call[c].index # 0
  BY <1>1, <1>2 DEF SoundFace, RegularItems
<1>6. locals'[c] = Received(m, request[c].data) /\ spc'[c] = "run"
  BY <1>1, <1>2, <1>4, <1>5 DEF Process, PerCall
<1>7. DOMAIN locals'[c] = DOMAIN call[c].args
  BY <1>1, <1>6 DEF Received, Passed, Proper
<1>8. ASSUME NEW k \in DOMAIN call[c].args PROVE locals'[c][k] = call[c].args[k]
  <2>1. k \in DOMAIN m.args
    BY <1>1 DEF Passed, Proper
  <2>2. CASE Incoming(m.args[k])
    BY <1>3, <1>6, <2>1, <2>2 DEF Received, Asked, In
  <2>3. CASE ~Incoming(m.args[k])
    <3>1. call[c].args[k] = New
      BY <1>1, <2>3 DEF Passed, Proper
    <3>2. QED
      BY <1>6, <2>1, <2>3, <3>1 DEF Received
  <2>4. QED
    BY <2>2, <2>3
<1>9. /\ UNCHANGED <<face, call, cpc, told, request, result, reply, runs>>
  BY DEF Process, caller
<1>10. Passed(c)' /\ Asked(c)' /\ Entered(c)' /\ NotTold(c)' = NotTold(c)
  BY <1>1, <1>3, <1>4, <1>7, <1>8, <1>9
  DEF Passed, Asked, Entered, RegularItems, Method, NotTold
<1>11. \A k \in DOMAIN locals'[c] : locals'[c][k] # Garbage
  <2>1. \A k \in DOMAIN call[c].args : call[c].args[k] # Garbage
    BY <1>1 DEF Passed, Proper
  <2>2. QED
    BY <1>7, <1>8, <2>1
<1>12. QED
  BY <1>1, <1>3, <1>4, <1>6, <1>9, <1>10, <1>11 DEF CallOK

\* The implementation returns; it leaves values in its arguments.
LEMMA RealCallOK ==
  ASSUME CallInv, NEW c \in DOMAIN call, RealCall(c)
  PROVE  CallOK(c)'
<1> DEFINE m == Method(c)
           results == IF Void(m) THEN {Null} ELSE Values(m.returns[1].type)
           sets == [k \in DOMAIN locals[c] |-> Left(m.args[k], locals[c][k])]
<1>1. /\ CallOK(c) /\ PerCall /\ Passed(c) /\ Asked(c) /\ Entered(c)
      /\ spc[c] = "run" /\ runs[c] = <<>> /\ cpc[c] # "ready"
  BY DEF CallInv, CallOK, RealCall
<1>2. Served(c) = m
  BY <1>1 DEF Served, Entered, Passed
<1>3. PICK r \in results, left \in Tuples(sets) :
        /\ result' = [result EXCEPT ![c] = r] /\ locals' = [locals EXCEPT ![c] = left]
        /\ runs' = [runs EXCEPT ![c] = Append(@, Run(c, FALSE, r, left))]
  BY <1>2 DEF RealCall
<1>4. /\ spc'[c] = "reply" /\ result'[c] = r /\ locals'[c] = left
      /\ runs'[c] = Append(<<>>, Run(c, FALSE, r, left))
      /\ UNCHANGED <<face, call, cpc, told, request, served, reply>>
  BY <1>1, <1>3 DEF RealCall, PerCall, caller
<1>5. r # Garbage /\ (Void(m) => r = Null)
  BY <1>3, ValuesAreValues, GarbageAssumption
<1>6. DOMAIN left = DOMAIN sets /\ \A k \in DOMAIN sets : left[k] \in sets[k]
  <2> HIDE DEF sets
  <2>1. QED
    BY <1>3, InTuples
<1>7. DOMAIN left = DOMAIN call[c].args /\ \A k \in DOMAIN left : left[k] # Garbage
  <2>1. DOMAIN left = DOMAIN locals[c] /\ DOMAIN locals[c] = DOMAIN call[c].args
    BY <1>1, <1>6 DEF Entered
  <2>2. \A k \in DOMAIN locals[c] : locals[c][k] # Garbage
    BY <1>1 DEF CallOK
  <2>3. ASSUME NEW k \in DOMAIN locals[c] PROVE left[k] # Garbage
    <3>1. left[k] \in Left(m.args[k], locals[c][k])
      BY <1>6
    <3>2. QED
      BY <2>2, <3>1, GarbageAssumption DEF Left
  <2>4. QED
    BY <2>1, <2>3
<1>8. /\ Len(runs'[c]) = 1 /\ runs'[c] # <<>> /\ ~runs'[c][1].threw
      /\ runs'[c][1].result = r /\ runs'[c][1].left = left
  BY <1>4 DEF Run
<1>9. Passed(c)' /\ Asked(c)' /\ NotTold(c)' = NotTold(c)
  BY <1>1, <1>4 DEF Passed, Asked, RegularItems, Method, NotTold
<1>10. Finished(c)'
  BY <1>1, <1>4, <1>5, <1>7, <1>8 DEF Finished, Entered, Method
<1>11. QED
  BY <1>1, <1>4, <1>7, <1>8, <1>9, <1>10 DEF CallOK

\* It throws.
LEMMA RealCallThrowsOK ==
  ASSUME CallInv, NEW c \in DOMAIN call, RealCallThrows(c)
  PROVE  CallOK(c)'
<1>1. /\ CallOK(c) /\ PerCall /\ Passed(c) /\ Asked(c)
      /\ spc[c] = "run" /\ runs[c] = <<>> /\ cpc[c] # "ready"
  BY DEF CallInv, CallOK, RealCallThrows
<1>2. /\ spc'[c] = "lost" /\ runs'[c] = Append(<<>>, Run(c, TRUE, Null, locals[c]))
      /\ UNCHANGED <<face, call, cpc, told, request, served, locals, result, reply>>
  BY <1>1 DEF RealCallThrows, PerCall, caller
<1>3. Len(runs'[c]) = 1
  BY <1>2
<1>4. Passed(c)' /\ Asked(c)' /\ NotTold(c)' = NotTold(c)
  BY <1>1, <1>2 DEF Passed, Asked, RegularItems, Method, NotTold
<1>5. QED
  BY <1>1, <1>2, <1>3, <1>4 DEF CallOK

\* The result is under a key of its own, and each out argument under its name.
LEMMA ReplyOK ==
  ASSUME CallInv, NEW c \in DOMAIN call, Reply(c)
  PROVE  CallOK(c)'
<1> DEFINE m == Method(c)
           base == IF Void(m) THEN NoData
                   ELSE Put(NoData, ResultKey, m.returns[1].type, result[c])
<1>1. /\ CallOK(c) /\ PerCall /\ Passed(c) /\ Asked(c) /\ Finished(c)
      /\ spc[c] = "reply" /\ cpc[c] # "ready" /\ SoundFace
  BY DEF CallInv, CallOK, Reply
<1>2. Served(c) = m /\ Sound(m) /\ served[c] # 0
  BY <1>1 DEF Served, Finished, Passed, SoundFace, RegularItems
<1>3. /\ reply'[c] = PutArgs(base, m, Out(m), locals[c]) /\ spc'[c] = "replied"
      /\ UNCHANGED <<face, call, cpc, told, request, served, locals, result, runs>>
  BY <1>1, <1>2 DEF Reply, PerCall, caller
<1>4. Within(Out(m), m)
  BY DEF Out, Within
<1>5. \A k \in Out(m) :
        Get(PutArgs(base, m, Out(m), locals[c]), m.args[k].name, m.args[k].type) = locals[c][k]
  <2>1. Sound(m)
    BY <1>2
  <2>2. \A data : \A k \in Out(m) :
          Get(PutArgs(data, m, Out(m), locals[c]), m.args[k].name, m.args[k].type)
            = locals[c][k]
    BY <1>4, <2>1, ArgFound
  <2>3. QED
    BY <2>2
<1>6. ~Void(m) /\ HasResults(m) =>
        Get(PutArgs(base, m, Out(m), locals[c]), ResultKey, m.returns[1].type) = result[c]
  <2> SUFFICES ASSUME ~Void(m), HasResults(m)
               PROVE  Get(PutArgs(base, m, Out(m), locals[c]), ResultKey,
                          m.returns[1].type) = result[c]
    OBVIOUS
  <2>1. Get(base, ResultKey, m.returns[1].type) = result[c]
    BY <1>2, PutFound DEF Sound
  <2>2. \A k \in Out(m) : m.args[k].name # ResultKey
    BY <1>2, <1>4 DEF Sound, Compiles, Within
  <2>3. QED
    BY <1>4, <2>1, <2>2, OtherKeyFound
<1>7. Passed(c)' /\ Asked(c)' /\ NotTold(c)' = NotTold(c) /\ Finished(c)'
  BY <1>1, <1>3 DEF Passed, Asked, RegularItems, Method, NotTold, Finished
<1>8. Replied(c)'
  BY <1>3, <1>5, <1>6 DEF Replied, Out, Method, HasResults, Void
<1>9. QED
  BY <1>1, <1>3, <1>7, <1>8 DEF CallOK

\* The broker loses a message.
LEMMA LoseOK ==
  ASSUME CallInv, NEW c \in DOMAIN call, Lose(c)
  PROVE  CallOK(c)'
<1>1. /\ CallOK(c) /\ PerCall /\ Passed(c) /\ spc[c] # "none" /\ cpc[c] # "ready" /\ Asked(c)
  BY DEF CallInv, CallOK, Lose
<1>2. /\ spc'[c] = "lost"
      /\ UNCHANGED <<face, call, cpc, told, request, served, locals, result, reply, runs>>
  BY <1>1 DEF Lose, PerCall, caller
<1>3. Passed(c)' /\ Asked(c)' /\ NotTold(c)' = NotTold(c)
  BY <1>1, <1>2 DEF Passed, Asked, RegularItems, Method, NotTold
<1>4. QED
  BY <1>1, <1>2, <1>3 DEF CallOK

\* What the callback is called with: the result, and each argument as it is left.
LEMMA ResultTold ==
  ASSUME CallInv, NEW c \in DOMAIN call, OnResult(c)
  PROVE  /\ HasResults(Method(c)) /\ Finished(c)
         /\ told'[c] = [kind |-> "result", result |-> result[c],
                        args |-> [k \in DOMAIN Method(c).args |->
                                    IF Outgoing(Method(c).args[k]) THEN locals[c][k]
                                    ELSE call[c].args[k]]]
<1> DEFINE m == Method(c)
           index == call[c].index
           handler == request[c].handler[1]
           matching == {i \in Cases : Index(i) = handler.methodId}
<1>1. /\ CallOK(c) /\ PerCall /\ Passed(c) /\ Asked(c) /\ Finished(c) /\ Replied(c)
      /\ SoundFace /\ request[c].handler # <<>>
  BY DEF CallInv, CallOK, OnResult
<1>2. HasResults(m) /\ handler = [methodId |-> Index(index), callback |-> index]
  BY <1>1 DEF Asked
<1>3. index \in RegularItems /\ face[index] = m /\ index \in Nat
  BY <1>1 DEF Passed, SoundFace, RegularItems
<1>4. matching = {index}
  <2>1. index \in Cases
    BY <1>2, <1>3 DEF Cases
  <2>2. \A i \in Cases : i \in Nat
    BY <1>1 DEF Cases, RegularItems, SoundFace
  <2>3. handler.methodId = index - 1
    BY <1>2 DEF Index
  <2>4. QED
    BY <1>3, <2>1, <2>2, <2>3 DEF Index
<1>5. Min(matching) = index
  BY <1>3, <1>4, OfOne
<1>6. handler.callback = index
  BY <1>2
<1> DEFINE answer ==
      [kind |-> "result",
       result |-> IF Void(m) THEN Null ELSE Get(reply[c], ResultKey, m.returns[1].type),
       args |-> [k \in DOMAIN m.args |->
                   IF Outgoing(m.args[k])
                     THEN Get(reply[c], m.args[k].name, m.args[k].type)
                     ELSE call[c].args[k]]]
<1>7. told'[c] = answer
  <2>1. c \in DOMAIN told
    BY <1>1 DEF PerCall
  <2> HIDE DEF handler
  <2>2. LET i == Min(matching)
            n == face[i]
        IN  told' = [told EXCEPT ![c] =
              IF i # handler.callback
                THEN [NotTold(c) EXCEPT !.kind = "ClassCastException"]
              ELSE [kind |-> "result",
                    result |-> IF Void(n) THEN Null
                               ELSE Get(reply[c], ResultKey, n.returns[1].type),
                    args |-> [k \in DOMAIN n.args |->
                                IF Outgoing(n.args[k])
                                  THEN Get(reply[c], n.args[k].name, n.args[k].type)
                                  ELSE call[c].args[k]]]]
    BY DEF OnResult, handler
  <2> HIDE DEF matching
  <2>3. told' = [told EXCEPT ![c] = answer]
    BY <1>3, <1>5, <1>6, <2>2
  <2>4. QED
    BY <2>1, <2>3
<1>8. (IF Void(m) THEN Null ELSE Get(reply[c], ResultKey, m.returns[1].type)) = result[c]
  BY <1>1, <1>2 DEF Replied, Finished
<1>9. \A k \in DOMAIN m.args : Outgoing(m.args[k]) =>
        Get(reply[c], m.args[k].name, m.args[k].type) = locals[c][k]
  BY <1>1 DEF Replied, Out
<1>10. QED
  BY <1>1, <1>2, <1>7, <1>8, <1>9

\* The callback is called.
LEMMA OnResultOK ==
  ASSUME CallInv, NEW c \in DOMAIN call, OnResult(c)
  PROVE  CallOK(c)'
<1> DEFINE m == Method(c)
<1>1. /\ CallOK(c) /\ PerCall /\ Passed(c) /\ Asked(c) /\ Finished(c) /\ Replied(c)
      /\ spc[c] = "replied"
  BY DEF CallInv, CallOK, OnResult
<1>2. /\ cpc'[c] = "told"
      /\ UNCHANGED <<face, call, spc, request, served, locals, result, reply, runs>>
  BY <1>1 DEF OnResult, PerCall, server
<1>3. /\ told'[c].kind = "result" /\ told'[c].result = result[c]
      /\ DOMAIN told'[c].args = DOMAIN m.args
      /\ \A k \in DOMAIN m.args :
           told'[c].args[k] = IF Outgoing(m.args[k]) THEN locals[c][k] ELSE call[c].args[k]
  <2> DEFINE args0 == [k \in DOMAIN m.args |->
                        IF Outgoing(m.args[k]) THEN locals[c][k] ELSE call[c].args[k]]
  <2>1. told'[c] = [kind |-> "result", result |-> result[c], args |-> args0]
    BY ResultTold
  <2>2. QED
    BY <2>1
<1>4. DOMAIN m.args = DOMAIN call[c].args /\ DOMAIN m.args = DOMAIN locals[c]
  BY <1>1 DEF Passed, Proper, Finished
<1>5. /\ \A k \in DOMAIN call[c].args : call[c].args[k] # Garbage
      /\ \A k \in DOMAIN locals[c] : locals[c][k] # Garbage
      /\ result[c] # Garbage
  BY <1>1 DEF Passed, Proper, CallOK, Finished
<1>6. \A k \in DOMAIN told'[c].args : told'[c].args[k] # Garbage
  BY <1>3, <1>4, <1>5
<1>7. Passed(c)' /\ Asked(c)' /\ Finished(c)' /\ Replied(c)'
  BY <1>1, <1>2 DEF Passed, Asked, RegularItems, Method, Finished, Replied
<1>8. QED
  BY <1>1, <1>2, <1>3, <1>4, <1>5, <1>6, <1>7 DEF CallOK

\* The error listener is called.
LEMMA OnErrorOK ==
  ASSUME CallInv, NEW c \in DOMAIN call, OnError(c)
  PROVE  CallOK(c)' /\ told'[c] = [NotTold(c) EXCEPT !.kind = "exception"]
<1>1. /\ CallOK(c) /\ PerCall /\ Passed(c) /\ Asked(c) /\ told[c] = NotTold(c)
      /\ spc[c] = "lost"
  BY DEF CallInv, CallOK, OnError
<1>2. /\ cpc'[c] = "told" /\ told'[c] = [NotTold(c) EXCEPT !.kind = "exception"]
      /\ UNCHANGED <<face, call, spc, request, served, locals, result, reply, runs>>
  BY <1>1 DEF OnError, PerCall, server
<1>3. /\ told'[c].kind = "exception" /\ told'[c].result = Null
      /\ told'[c].args = call[c].args
  BY <1>2 DEF NotTold
<1>4. \A k \in DOMAIN call[c].args : call[c].args[k] # Garbage
  BY <1>1 DEF Passed, Proper
<1>5. Passed(c)' /\ Asked(c)'
  BY <1>1, <1>2 DEF Passed, Asked, RegularItems, Method
<1>6. QED
  BY <1>1, <1>2, <1>3, <1>4, <1>5, GarbageAssumption DEF CallOK

\* Of two calls, a step moves one.
LEMMA OneCallMoves ==
  ASSUME PerCall, NEW c \in DOMAIN call, OnCall(c)
  PROVE  /\ face' = face /\ call' = call /\ PerCall'
         /\ \A d \in DOMAIN call \ {c} :
              /\ cpc'[d] = cpc[d] /\ request'[d] = request[d] /\ spc'[d] = spc[d]
              /\ served'[d] = served[d] /\ locals'[d] = locals[d]
              /\ result'[d] = result[d] /\ reply'[d] = reply[d] /\ runs'[d] = runs[d]
              /\ told'[d] = told[d]
<1> USE DEF PerCall, caller, server
<1>1. CASE Send(c)
  BY <1>1 DEF Send
<1>2. CASE Process(c)
  BY <1>2 DEF Process
<1>3. CASE RealCall(c)
  BY <1>3 DEF RealCall
<1>4. CASE RealCallThrows(c)
  BY <1>4 DEF RealCallThrows
<1>5. CASE Reply(c)
  BY <1>5 DEF Reply
<1>6. CASE Lose(c)
  BY <1>6 DEF Lose
<1>7. CASE OnResult(c)
  BY <1>7 DEF OnResult
<1>8. CASE OnError(c)
  BY <1>8 DEF OnError
<1>9. QED
  BY <1>1, <1>2, <1>3, <1>4, <1>5, <1>6, <1>7, <1>8 DEF OnCall

\* A step of a call leaves every call in order.
LEMMA CallsKept ==
  ASSUME CallInv, NEW c \in DOMAIN call, OnCall(c)
  PROVE  CallInv'
<1>1. face' = face /\ call' = call /\ PerCall' /\ PerCall
  BY OneCallMoves DEF CallInv
<1>2. SoundFace'
  BY <1>1 DEF CallInv, SoundFace
<1>3. CallOK(c)'
  BY SendOK, ProcessOK, RealCallOK, RealCallThrowsOK, ReplyOK, LoseOK, OnResultOK,
     OnErrorOK DEF OnCall
<1>4. ASSUME NEW d \in DOMAIN call \ {c} PROVE CallOK(d)'
  <2>1. CallOK(d)
    BY DEF CallInv
  <2>2. /\ cpc'[d] = cpc[d] /\ request'[d] = request[d] /\ spc'[d] = spc[d]
        /\ served'[d] = served[d] /\ locals'[d] = locals[d]
        /\ result'[d] = result[d] /\ reply'[d] = reply[d] /\ runs'[d] = runs[d]
        /\ told'[d] = told[d]
    BY <1>1, OneCallMoves
  <2>3. QED
    BY <1>1, <2>1, <2>2, Untouched
<1>5. QED
  BY <1>1, <1>2, <1>3, <1>4 DEF CallInv

\* Steps of others leave the calls alone.
LEMMA CallsStay ==
  ASSUME CallInv, UNCHANGED <<face, calls>>
  PROVE  CallInv'
<1> USE DEF calls, caller, server
<1>1. SoundFace' /\ PerCall'
  BY DEF CallInv, SoundFace, PerCall
<1>2. ASSUME NEW c \in DOMAIN call PROVE CallOK(c)'
  <2>1. CallOK(c)
    BY DEF CallInv
  <2>2. QED
    BY <2>1, Untouched
<1>3. QED
  BY <1>1, <1>2 DEF CallInv

\* No step leaves the invariant of the calls.
LEMMA CallNext == CallInv /\ [Next]_vars => CallInv'
<1> SUFFICES ASSUME CallInv, [Next]_vars
             PROVE  CallInv'
  OBVIOUS
<1>1. CASE \E c \in DOMAIN call : OnCall(c)
  BY <1>1, CallsKept
<1>2. CASE Listening
  BY <1>2, CallsStay DEF Listening, BeginListening, TakeOff, ClearPresenter,
                         MakePresenter, RegisterPresenter
<1>3. CASE Push
  BY <1>3, CallsStay DEF Push
<1>4. CASE Hear
  BY <1>4, CallsStay DEF Hear
<1>5. CASE UNCHANGED vars
  BY <1>5, CallsStay DEF vars
<1>6. QED
  BY <1>1, <1>2, <1>3, <1>4, <1>5 DEF Next

-----------------------------------------------------------------------------
(* Each call implements RemoteCall.                                        *)

\* A call nothing is done to stutters.
LEMMA RemoteStutters ==
  ASSUME NEW c, call' = call, cpc'[c] = cpc[c], spc'[c] = spc[c], runs'[c] = runs[c],
         told'[c] = told[c]
  PROVE  UNCHANGED Remote(c)!vars
BY DEF Remote!vars, Promised, Answer, LostCall, NotTold, Method, HasResults

\* Who wants no results has an answer when the proxy method returns.
LEMMA SendRefines ==
  ASSUME CallInv, NEW c \in DOMAIN call, Send(c)
  PROVE  [Remote(c)!Next]_(Remote(c)!vars)
<1> DEFINE m == Method(c)
<1>1. /\ CallOK(c) /\ PerCall /\ cpc[c] = "ready" /\ told[c] = NotTold(c) /\ spc[c] = "none"
  BY DEF CallInv, CallOK, Send
<1>2. cpc'[c] = "made" /\ spc'[c] = "sent" /\ UNCHANGED <<face, call, told, runs>>
  BY <1>1 DEF Send, PerCall
<1>3. /\ Promised(c)' = Promised(c) /\ NotTold(c)' = NotTold(c) /\ LostCall(c)' = LostCall(c)
      /\ HasResults(m)' = HasResults(m)
  BY <1>1, <1>2 DEF Promised, LostCall, NotTold, Method, HasResults
<1>4. Answer(c) = NotTold(c)
  BY <1>1 DEF Answer
<1>5. CASE HasResults(m)
  <2>1. Answer(c)' = Answer(c)
    BY <1>1, <1>2, <1>3, <1>5 DEF Answer
  <2>2. QED
    BY <1>2, <1>3, <2>1 DEF Remote!vars
<1>6. CASE ~HasResults(m)
  <2>1. Answer(c)' = [NotTold(c) EXCEPT !.kind = "result"]
    BY <1>2, <1>3, <1>6 DEF Answer
  <2>2. /\ Answer(c)' = [kind |-> "result", result |-> Null, args |-> call[c].args]
        /\ Answer(c).kind = "none"
    BY <1>4, <2>1 DEF NotTold
  <2>3. Promised(c).method.oneway /\ Promised(c).args = call[c].args
    BY <1>6 DEF Promised
  <2>4. Remote(c)!ReturnOneway
    BY <1>2, <1>3, <2>2, <2>3 DEF Remote!ReturnOneway, Remote!Pending
  <2>5. QED
    BY <2>4 DEF Remote!Next
<1>7. QED
  BY <1>5, <1>6

\* A run, returning or not, is of the method called, on what was passed to it.
LEMMA RunRefines ==
  ASSUME CallInv, NEW c \in DOMAIN call, RealCall(c) \/ RealCallThrows(c)
  PROVE  [Remote(c)!Next]_(Remote(c)!vars)
<1> DEFINE m == Method(c)
<1>1. /\ CallOK(c) /\ PerCall /\ Passed(c) /\ Entered(c) /\ spc[c] = "run"
      /\ runs[c] = <<>> /\ Sound(m) /\ Proper(m, call[c].args)
  <2>1. CallOK(c) /\ PerCall /\ SoundFace /\ spc[c] = "run"
    BY DEF CallInv, RealCall, RealCallThrows
  <2>2. Passed(c) /\ Entered(c) /\ runs[c] = <<>>
    BY <2>1 DEF CallOK
  <2>3. QED
    BY <2>1, <2>2 DEF Passed, SoundFace, RegularItems
<1>2. PICK threw, r, left :
        /\ runs'[c] = Append(<<>>, Run(c, threw, r, left))
        /\ (threw = TRUE /\ spc'[c] = "lost") \/ spc'[c] = "reply"
  <2>1. CASE RealCall(c)
    <3>1. PICK r, left : runs' = [runs EXCEPT ![c] = Append(@, Run(c, FALSE, r, left))]
      BY <2>1 DEF RealCall
    <3>2. runs'[c] = Append(<<>>, Run(c, FALSE, r, left)) /\ spc'[c] = "reply"
      BY <1>1, <2>1, <3>1 DEF RealCall, PerCall
    <3>3. QED
      BY <3>2
  <2>2. CASE RealCallThrows(c)
    <3>1. runs'[c] = Append(<<>>, Run(c, TRUE, Null, locals[c])) /\ spc'[c] = "lost"
      BY <1>1, <2>2 DEF RealCallThrows, PerCall
    <3>2. QED
      BY <3>1
  <2>3. QED
    BY <2>1, <2>2
<1>3. UNCHANGED <<face, call, cpc, told>>
  BY DEF RealCall, RealCallThrows, caller
<1>4. /\ runs'[c] # <<>> /\ Len(runs'[c]) = 1 /\ runs'[c][1].threw = threw
      /\ runs'[c][1].index = served[c] /\ runs'[c][1].received = locals[c]
  BY <1>2 DEF Run
<1>5. /\ Promised(c)' = Promised(c) /\ Answer(c)' = Answer(c)
  BY <1>3 DEF Promised, Answer, NotTold, Method, HasResults
<1>6. LostCall(c)' = LostCall(c)
  BY <1>1, <1>2, <1>4 DEF LostCall
<1>7. Promised(c).index = call[c].index /\ Promised(c).args = call[c].args
      /\ Promised(c).method.args = m.args
  BY DEF Promised
<1>8. ASSUME NEW k \in DOMAIN m.args
      PROVE  locals[c][k] = IF Incoming(m.args[k]) THEN call[c].args[k]
                            ELSE Remote(c)!Fresh(m.args[k], call[c].args[k])
  <2>1. locals[c][k] = call[c].args[k] /\ k \in DOMAIN call[c].args
    BY <1>1 DEF Entered, Proper
  <2>2. CASE ~Incoming(m.args[k])
    <3>1. m.args[k].dimension = 0
      BY <1>1 DEF Sound, Compiles
    <3>2. call[c].args[k] = New
      BY <1>1, <2>1, <2>2 DEF Proper
    <3>3. QED
      BY <2>1, <2>2, <3>1, <3>2 DEF Remote!Fresh
  <2>3. QED
    BY <2>1, <2>2
<1>9. /\ runs'[c][1].index = Promised(c).index
      /\ \A k \in DOMAIN m.args :
           runs'[c][1].received[k] = IF Incoming(m.args[k]) THEN call[c].args[k]
                                     ELSE Remote(c)!Fresh(m.args[k], call[c].args[k])
  BY <1>1, <1>4, <1>7, <1>8 DEF Entered
<1>10. Remote(c)!Parameters = DOMAIN m.args /\ \A k : Remote(c)!Parameter(k) = m.args[k]
  BY <1>7 DEF Remote!Parameters, Remote!Parameter
<1>11. Remote(c)!Invoke
  <2>1. UNCHANGED <<Promised(c), Answer(c), LostCall(c)>>
    BY <1>5, <1>6
  <2>2. runs[c] = <<>> /\ Len(runs'[c]) = 1
    BY <1>1, <1>4
  <2>3. \A k \in Remote(c)!Parameters :
          runs'[c][1].received[k] = IF Incoming(Remote(c)!Parameter(k)) THEN Promised(c).args[k]
                                    ELSE Remote(c)!Fresh(Remote(c)!Parameter(k),
                                                         Promised(c).args[k])
    BY <1>7, <1>9, <1>10
  <2>4. QED
    BY <1>9, <2>1, <2>2, <2>3 DEF Remote!Invoke, Remote!Incoming, Incoming
<1>12. QED
  BY <1>11 DEF Remote!Next

\* The callback gets the results of its own call.
LEMMA OnResultRefines ==
  ASSUME CallInv, NEW c \in DOMAIN call, OnResult(c)
  PROVE  [Remote(c)!Next]_(Remote(c)!vars)
<1> DEFINE m == Method(c)
<1>1. /\ CallOK(c) /\ PerCall /\ cpc[c] = "made" /\ told[c] = NotTold(c) /\ spc[c] = "replied"
      /\ Finished(c) /\ HasResults(m)
  BY ResultTold DEF CallInv, CallOK, OnResult
<1>2. cpc'[c] = "told" /\ UNCHANGED <<face, call, spc, runs>>
  BY <1>1 DEF OnResult, PerCall, server
<1>3. /\ Promised(c)' = Promised(c) /\ LostCall(c)' = LostCall(c)
      /\ HasResults(m)'
  BY <1>1, <1>2 DEF Promised, LostCall, NotTold, Method, HasResults
<1>4. Answer(c)' = told'[c] /\ Answer(c).kind = "none"
  BY <1>1, <1>2, <1>3 DEF Answer, NotTold
<1>5. /\ ~Promised(c).method.oneway /\ Promised(c).args = call[c].args
      /\ Promised(c).method.args = m.args
  BY <1>1 DEF Promised
<1>6. /\ runs[c] # <<>> /\ ~runs[c][1].threw /\ runs[c][1].result = result[c]
      /\ runs[c][1].left = locals[c]
  BY <1>1 DEF Finished
<1>7. told'[c] = [kind |-> "result", result |-> runs[c][1].result,
                  args |-> [k \in DOMAIN m.args |->
                              IF Outgoing(m.args[k]) THEN runs[c][1].left[k]
                              ELSE call[c].args[k]]]
  BY <1>6, ResultTold
<1>8. Remote(c)!Parameters = DOMAIN m.args /\ \A k : Remote(c)!Parameter(k) = m.args[k]
  BY <1>5 DEF Remote!Parameters, Remote!Parameter
<1>9. Remote(c)!Return
  <2>1. UNCHANGED <<Promised(c), runs[c], LostCall(c)>>
    BY <1>2, <1>3
  <2>2. Remote(c)!Pending /\ ~Promised(c).method.oneway /\ runs[c] # <<>> /\ ~runs[c][1].threw
    BY <1>4, <1>5, <1>6 DEF Remote!Pending
  <2>3. Answer(c)' = [kind |-> "result", result |-> runs[c][1].result,
                      args |-> [k \in Remote(c)!Parameters |->
                                  IF Outgoing(Remote(c)!Parameter(k)) THEN runs[c][1].left[k]
                                  ELSE Promised(c).args[k]]]
    BY <1>4, <1>5, <1>7, <1>8
  <2>4. QED
    BY <2>1, <2>2, <2>3 DEF Remote!Return, Remote!Outgoing, Outgoing
<1>10. QED
  BY <1>9 DEF Remote!Next

\* An error is told with a cause.
LEMMA OnErrorRefines ==
  ASSUME CallInv, NEW c \in DOMAIN call, OnError(c)
  PROVE  [Remote(c)!Next]_(Remote(c)!vars)
<1> DEFINE m == Method(c)
<1>1. /\ CallOK(c) /\ PerCall /\ cpc[c] = "made" /\ told[c] = NotTold(c) /\ spc[c] = "lost"
  BY DEF CallInv, CallOK, OnError
<1>2. /\ cpc'[c] = "told" /\ UNCHANGED <<face, call, spc, runs>>
      /\ told'[c] = [NotTold(c) EXCEPT !.kind = "exception"]
  BY <1>1, OnErrorOK DEF OnError, PerCall, server
<1>3. /\ Promised(c)' = Promised(c) /\ LostCall(c)' = LostCall(c)
      /\ NotTold(c)' = NotTold(c) /\ HasResults(m)' = HasResults(m)
  BY <1>1, <1>2 DEF Promised, LostCall, NotTold, Method, HasResults
<1>4. CASE HasResults(m)
  <2>1. Answer(c)' = told'[c] /\ Answer(c).kind = "none"
    BY <1>1, <1>2, <1>3, <1>4 DEF Answer, NotTold
  <2>2. /\ told'[c].kind = "exception" /\ told'[c].args = call[c].args
        /\ Promised(c).args = call[c].args
    BY <1>2 DEF NotTold, Promised
  <2>3. LostCall(c) \/ (runs[c] # <<>> /\ runs[c][1].threw)
    BY <1>1 DEF LostCall
  <2>4. Remote(c)!Throw
    BY <1>2, <1>3, <2>1, <2>2, <2>3 DEF Remote!Throw, Remote!Pending
  <2>5. QED
    BY <2>4 DEF Remote!Next
<1>5. CASE ~HasResults(m)
  <2>1. Answer(c)' = Answer(c)
    BY <1>1, <1>2, <1>3, <1>5 DEF Answer
  <2>2. QED
    BY <1>2, <1>3, <2>1 DEF Remote!vars
<1>6. QED
  BY <1>4, <1>5

\* The other steps of a call show nothing, but that it is lost.
LEMMA InsideRefines ==
  ASSUME CallInv, NEW c \in DOMAIN call, Process(c) \/ Reply(c) \/ Lose(c)
  PROVE  [Remote(c)!Next]_(Remote(c)!vars)
<1>1. PerCall
  BY DEF CallInv
<1>2. UNCHANGED <<face, call, cpc, told, runs>>
  BY DEF Process, Reply, Lose, caller
<1>3. Promised(c)' = Promised(c) /\ Answer(c)' = Answer(c)
  BY <1>2 DEF Promised, Answer, NotTold, Method, HasResults
<1>4. CASE LostCall(c)' = LostCall(c)
  BY <1>2, <1>3, <1>4 DEF Remote!vars
<1>5. CASE LostCall(c)' # LostCall(c)
  <2>1. spc[c] # "lost" /\ ~LostCall(c)
    BY DEF Process, Reply, Lose, LostCall
  <2>2. LostCall(c)'
    BY <1>5, <2>1 DEF LostCall
  <2>3. Remote(c)!Lose
    BY <1>2, <1>3, <2>2 DEF Remote!Lose
  <2>4. QED
    BY <2>3 DEF Remote!Next
<1>6. QED
  BY <1>4, <1>5

\* A step of the system is a step or a stutter of every call.
LEMMA RemoteStep ==
  ASSUME CallInv, [Next]_vars
  PROVE  \A c \in DOMAIN call : [Remote(c)!Next]_(Remote(c)!vars)
<1>1. ASSUME NEW d \in DOMAIN call, OnCall(d)
      PROVE  \A c \in DOMAIN call : [Remote(c)!Next]_(Remote(c)!vars)
  <2>1. [Remote(d)!Next]_(Remote(d)!vars)
    BY <1>1, SendRefines, RunRefines, OnResultRefines, OnErrorRefines, InsideRefines DEF OnCall
  <2>2. ASSUME NEW c \in DOMAIN call \ {d} PROVE UNCHANGED Remote(c)!vars
    <3>1. /\ call' = call /\ cpc'[c] = cpc[c] /\ spc'[c] = spc[c]
          /\ runs'[c] = runs[c] /\ told'[c] = told[c]
      BY <1>1, OneCallMoves DEF CallInv
    <3>2. QED
      BY <3>1, RemoteStutters
  <2>3. QED
    BY <2>1, <2>2
<1>2. ASSUME UNCHANGED <<face, calls>>
      PROVE  \A c \in DOMAIN call : [Remote(c)!Next]_(Remote(c)!vars)
  BY <1>2, RemoteStutters DEF calls, caller, server
<1>3. CASE Listening
  BY <1>2, <1>3 DEF Listening, BeginListening, TakeOff, ClearPresenter, MakePresenter,
                    RegisterPresenter
<1>4. CASE Push \/ Hear
  BY <1>2, <1>4 DEF Push, Hear
<1>5. CASE UNCHANGED vars
  BY <1>2, <1>5 DEF vars
<1>6. QED
  BY <1>1, <1>3, <1>4, <1>5 DEF Next

\* Whatever the interface, and whatever other call is under way: a call runs at
\* most once, on what was passed to it, and its own results reach the callback it
\* was made with, or an error that has a cause.
THEOREM CallsKeepPromise == ASSUME TypesAssumption PROVE Spec => KeepsCallPromise
<1>1. Init => \A c \in DOMAIN call : Remote(c)!Init
  <2> SUFFICES ASSUME Init, NEW c \in DOMAIN call
               PROVE  Remote(c)!Init
    OBVIOUS
  <2>1. runs[c] = <<>> /\ cpc[c] = "ready" /\ told[c] = NotTold(c)
    BY DEF Init
  <2>2. Answer(c).kind = "none"
    BY <2>1 DEF Answer, NotTold
  <2>3. QED
    BY <2>1, <2>2 DEF Remote!Init, Remote!Pending
<1>2. Init => CallInv
  BY CallInit
<1>3. CallInv /\ [Next]_vars => \A c \in DOMAIN call : [Remote(c)!Next]_(Remote(c)!vars)
  BY RemoteStep
<1>4. QED
  BY <1>1, <1>2, <1>3, CallNext, PTL DEF Spec, KeepsCallPromise

-----------------------------------------------------------------------------
(* The events.                                                             *)

EventArgs(i) == Tuples([k \in DOMAIN face[i].args |-> Values(face[i].args[k].type)])

PushedEvents ==
  [event : EventItems, args : UNION {EventArgs(i) : i \in EventItems},
   to : SUBSET Listeners]

\* An event on its way was pushed to the listener it goes to, and its message is
\* read as it was pushed.
OnItsWay(e) ==
  LET p == pushes[e.push]
      m == face[p.event]
  IN  /\ e.push \in DOMAIN pushes /\ e.presenter \in DOMAIN presenters
      /\ presenters[e.presenter] \in p.to
      /\ e.action = m.name /\ Received(m, e.data) = p.args

EventInv ==
  /\ pushes \in Seq(PushedEvents)
  /\ \A n \in DOMAIN pushes : pushes[n].args \in EventArgs(pushes[n].event)
  /\ \A e \in inFlight : OnItsWay(e) /\ \A h \in heard : h.push # e.push
  /\ \A e, f \in inFlight : e.push = f.push => e = f
  /\ \A h \in heard : /\ h.push \in DOMAIN pushes
                      /\ \A k \in DOMAIN h.args : h.args[k] # Garbage

\* The broker knows one presenter at most, and it has been made.
LEMMA OneRegistered ==
  ASSUME ListenInv
  PROVE  \/ registered = {}
         \/ /\ registered = {presenter} /\ presenter \in DOMAIN presenters
            /\ presenters[presenter] \in Listeners
<1>1. presenters \in Seq(Listeners) /\ presenter \in 0..Len(presenters)
  BY DEF ListenInv, Standing
<1>2. registered = {} \/ (registered = {presenter} /\ presenter # 0)
  BY DEF ListenInv, Standing, ListensAsTold
<1>3. presenter # 0 => presenter \in DOMAIN presenters /\ presenters[presenter] \in Listeners
  BY <1>1, LenProperties, ElementOfSeq
<1>4. QED
  BY <1>2, <1>3

\* The values pushed are read from the message as they were put.
LEMMA EventIsRead ==
  ASSUME SoundFace, NEW i \in EventItems, NEW args \in EventArgs(i)
  PROVE  /\ Received(face[i], PutArgs(NoData, face[i], DOMAIN face[i].args, args)) = args
         /\ \A k \in DOMAIN args : args[k] # Garbage
<1> DEFINE m == face[i]
           sets == [k \in DOMAIN m.args |-> Values(m.args[k].type)]
           data == PutArgs(NoData, m, DOMAIN m.args, args)
<1>1. Sound(m) /\ m.event /\ Within(DOMAIN m.args, m)
  BY DEF SoundFace, EventItems, Within
<1>2. /\ DOMAIN args = DOMAIN sets /\ \A k \in DOMAIN sets : args[k] \in sets[k]
      /\ args = [k \in DOMAIN sets |-> args[k]]
  <2>1. args \in Tuples(sets)
    BY DEF EventArgs
  <2> HIDE DEF sets
  <2>2. QED
    BY <2>1, InTuples
<1>3. \A k \in DOMAIN m.args : Get(data, m.args[k].name, m.args[k].type) = args[k]
  BY <1>1, ArgFound
<1>4. \A k \in DOMAIN m.args : Incoming(m.args[k])
  BY <1>1 DEF Sound, AcceptedItem
<1>5. Received(m, data) = [k \in DOMAIN m.args |-> args[k]]
  BY <1>3, <1>4 DEF Received
<1>6. \A k \in DOMAIN args : args[k] # Garbage
  BY <1>2, ValuesAreValues
<1>7. QED
  BY <1>2, <1>5, <1>6

\* Nothing has been pushed at first.
LEMMA EventInit == Init => EventInv
<1>1. <<>> \in Seq(PushedEvents) /\ DOMAIN <<>> = {}
  BY EmptySeq
<1>2. QED
  BY <1>1 DEF Init, EventInv

\* What was pushed stays where it is.
LEMMA PushAppends ==
  ASSUME EventInv, NEW p \in PushedEvents, pushes' = Append(pushes, p)
  PROVE  /\ pushes' \in Seq(PushedEvents) /\ Len(pushes') = Len(pushes) + 1
         /\ Len(pushes) \in Nat /\ DOMAIN pushes = 1..Len(pushes)
         /\ DOMAIN pushes' = 1..(Len(pushes) + 1)
         /\ pushes'[Len(pushes) + 1] = p
         /\ \A n \in DOMAIN pushes : pushes'[n] = pushes[n]
BY AppendProperties, LenProperties DEF EventInv

\* A push method of the event i.
PushOf(i, args) ==
  LET p == [event |-> i, args |-> args, to |-> {presenters[n] : n \in registered}]
  IN  /\ p \in PushedEvents /\ pushes' = Append(pushes, p)
      /\ inFlight' = inFlight \cup
           {[push |-> Len(pushes) + 1, presenter |-> n, action |-> face[i].name,
             data |-> PutArgs(NoData, face[i], DOMAIN face[i].args, args)] :
              n \in registered}
      /\ UNCHANGED <<face, calls, listening, heard>>

\* What Push does.
LEMMA PushIsPushOf ==
  ASSUME SoundFace, ListenInv, EventInv, Push
  PROVE  \E i \in EventItems : \E args \in EventArgs(i) : PushOf(i, args)
<1> DEFINE p(i, args) == [event |-> i, args |-> args,
                          to |-> {presenters[n] : n \in registered}]
<1>1. ASSUME NEW i \in EventItems, NEW args \in EventArgs(i),
             pushes' = Append(pushes, p(i, args))
      PROVE  p(i, args) \in PushedEvents /\ Len(pushes') = Len(pushes) + 1
  <2>1. {presenters[n] : n \in registered} \in SUBSET Listeners
    BY OneRegistered
  <2>2. p(i, args) \in PushedEvents
    BY <2>1 DEF PushedEvents
  <2> HIDE DEF p
  <2>3. QED
    BY <1>1, <2>2, PushAppends
<1>2. PICK i \in EventItems :
        \E args \in EventArgs(i) :
          /\ pushes' = Append(pushes, p(i, args))
          /\ inFlight' = inFlight \cup
               {[push |-> Len(pushes'), presenter |-> n, action |-> face[i].name,
                 data |-> PutArgs(NoData, face[i], DOMAIN face[i].args, args)] :
                  n \in registered}
          /\ UNCHANGED <<face, calls, listening, heard>>
  BY DEF Push, EventArgs
<1>3. QED
  BY <1>1, <1>2 DEF PushOf

\* A push sends one message at most, and it is of that push.
LEMMA PushKeepsEvents ==
  ASSUME SoundFace, ListenInv, EventInv, Push
  PROVE  EventInv'
<1>1. PICK i \in EventItems : \E args \in EventArgs(i) : PushOf(i, args)
  BY PushIsPushOf
<1>2. PICK args \in EventArgs(i) : PushOf(i, args)
  BY <1>1
<1>3. PICK p, last, data, name :
        /\ p = [event |-> i, args |-> args, to |-> {presenters[n] : n \in registered}]
        /\ last = Len(pushes) + 1 /\ name = face[i].name
        /\ data = PutArgs(NoData, face[i], DOMAIN face[i].args, args)
  OBVIOUS
<1> DEFINE message(n) == [push |-> last, presenter |-> n, action |-> name, data |-> data]
<1>4. /\ p \in PushedEvents /\ pushes' = Append(pushes, p)
      /\ inFlight' = inFlight \cup {message(n) : n \in registered}
      /\ face' = face /\ heard' = heard /\ presenters' = presenters
  BY <1>2, <1>3 DEF PushOf, listening
<1>5. /\ pushes' \in Seq(PushedEvents) /\ Len(pushes) \in Nat
      /\ DOMAIN pushes = 1..Len(pushes) /\ DOMAIN pushes' = 1..last
      /\ pushes'[last] = p /\ \A n \in DOMAIN pushes : pushes'[n] = pushes[n]
  BY <1>3, <1>4, PushAppends
<1>6. PushedEvents' = PushedEvents /\ (\A j : EventArgs(j)' = EventArgs(j))
      /\ (\A m, d : Received(m, d)' = Received(m, d))
  BY <1>4 DEF PushedEvents, EventItems, EventArgs, Received
<1>7. ASSUME NEW n \in DOMAIN pushes' PROVE pushes'[n].args \in EventArgs(pushes'[n].event)
  <2>1. p.args \in EventArgs(p.event)
    BY <1>3
  <2>2. n = last \/ n \in DOMAIN pushes
    BY <1>3, <1>5
  <2>3. QED
    BY <1>5, <2>1, <2>2 DEF EventInv
<1>8. ASSUME NEW e \in inFlight
      PROVE  OnItsWay(e)' /\ (\A h \in heard' : h.push # e.push) /\ e.push # last
  <2>1. OnItsWay(e) /\ \A h \in heard : h.push # e.push
    BY DEF EventInv
  <2>2. /\ e.push \in DOMAIN pushes /\ pushes'[e.push] = pushes[e.push]
        /\ e.push \in DOMAIN pushes' /\ e.push # last
    BY <1>3, <1>5, <2>1 DEF OnItsWay
  <2>3. OnItsWay(e)'
    BY <1>4, <2>1, <2>2 DEF OnItsWay, Received
  <2>4. QED
    BY <1>4, <2>1, <2>2, <2>3
<1>9. ASSUME NEW n \in registered, NEW e, e = message(n)
      PROVE  OnItsWay(e)' /\ \A h \in heard' : h.push # e.push
  <2>1. n \in DOMAIN presenters /\ presenters[n] \in p.to
    BY <1>3, OneRegistered
  <2>2. Received(face[i], data) = args
    BY <1>3, EventIsRead
  <2>3. e.push = last /\ e.presenter = n /\ e.action = face[i].name /\ e.data = data
    BY <1>3, <1>9
  <2>4. p.event = i /\ p.args = args
    BY <1>3
  <2>5. last \in DOMAIN pushes' /\ last \notin DOMAIN pushes
    BY <1>3, <1>5
  <2>6. OnItsWay(e)'
    BY <1>4, <1>5, <2>1, <2>2, <2>3, <2>4, <2>5 DEF OnItsWay, Received
  <2>7. QED
    BY <1>4, <2>3, <2>5, <2>6 DEF EventInv
<1>10. \A e, f \in inFlight' : e.push = f.push => e = f
  <2>1. \A e, f \in inFlight : e.push = f.push => e = f
    BY DEF EventInv
  <2>2. \A n \in registered : message(n).push = last
    OBVIOUS
  <2>3. \A m, n \in registered : m = n
    BY OneRegistered
  <2>4. QED
    BY <1>4, <1>8, <2>1, <2>2, <2>3
<1>11. \A h \in heard' : /\ h.push \in DOMAIN pushes'
                        /\ \A k \in DOMAIN h.args : h.args[k] # Garbage
  BY <1>3, <1>4, <1>5 DEF EventInv
<1>12. \A e \in inFlight' : OnItsWay(e)' /\ \A h \in heard' : h.push # e.push
  BY <1>4, <1>8, <1>9
<1>13. QED
  BY <1>5, <1>6, <1>7, <1>10, <1>11, <1>12 DEF EventInv

\* What was pushed is an event with its arguments.
LEMMA PushedIsEvent ==
  ASSUME EventInv, NEW n \in DOMAIN pushes
  PROVE  pushes[n].event \in EventItems /\ pushes[n].args \in EventArgs(pushes[n].event)
<1>1. n \in 1..Len(pushes) /\ pushes \in Seq(PushedEvents)
  BY LenProperties DEF EventInv
<1>2. pushes[n] \in PushedEvents
  <2> HIDE DEF PushedEvents
  <2>1. QED
    BY <1>1, ElementOfSeq
<1>3. QED
  BY <1>2 DEF EventInv, PushedEvents

\* What Hear does: the listener is called by the method of the event, with what
\* was pushed.
LEMMA HearsWhatWasPushed ==
  ASSUME SoundFace, EventInv, Hear
  PROVE  \E e \in inFlight :
           LET p == pushes[e.push]
           IN  /\ OnItsWay(e) /\ inFlight' = inFlight \ {e}
               /\ heard' = heard \cup
                    {[push |-> e.push, listener |-> presenters[e.presenter],
                      event |-> p.event, args |-> p.args]}
               /\ UNCHANGED <<face, calls, listening, pushes>>
<1>1. PICK e \in inFlight :
        /\ inFlight' = inFlight \ {e}
        /\ LET i == Dispatched(EventItems, e.action)
           IN  heard' = heard \cup
                 IF i = 0 THEN {}
                 ELSE {[push |-> e.push, listener |-> presenters[e.presenter], event |-> i,
                        args |-> Received(face[i], e.data)]}
        /\ UNCHANGED <<face, calls, listening, pushes>>
  BY DEF Hear
<1> DEFINE p == pushes[e.push]
<1>2. OnItsWay(e) /\ e.push \in DOMAIN pushes
  BY DEF EventInv, OnItsWay
<1>3. p.event \in EventItems
  BY <1>2, PushedIsEvent
<1>4. Dispatched(EventItems, e.action) = p.event
  BY <1>2, <1>3, DispatchedToIt DEF OnItsWay, EventItems
<1>5. p.event # 0 /\ Received(face[p.event], e.data) = p.args
  BY <1>2, <1>3 DEF OnItsWay, EventItems, SoundFace
<1>6. QED
  BY <1>1, <1>2, <1>4, <1>5

\* An event is heard once: its message is gone then.
LEMMA HearKeepsEvents ==
  ASSUME SoundFace, EventInv, Hear
  PROVE  EventInv'
<1>1. PICK e \in inFlight :
        /\ OnItsWay(e) /\ inFlight' = inFlight \ {e}
        /\ heard' = heard \cup
             {[push |-> e.push, listener |-> presenters[e.presenter],
               event |-> pushes[e.push].event, args |-> pushes[e.push].args]}
        /\ UNCHANGED <<face, calls, listening, pushes>>
  BY HearsWhatWasPushed
<1> DEFINE p == pushes[e.push]
<1>2. UNCHANGED <<face, presenters, pushes>>
  BY <1>1 DEF listening
<1>3. PushedEvents' = PushedEvents /\ (\A j : EventArgs(j)' = EventArgs(j))
  BY <1>2 DEF PushedEvents, EventItems, EventArgs
<1>4. e.push \in DOMAIN pushes
  BY <1>1 DEF OnItsWay
<1>5. \A k \in DOMAIN p.args : p.args[k] # Garbage
  <2>1. p.event \in EventItems /\ p.args \in EventArgs(p.event)
    BY <1>4, PushedIsEvent
  <2>2. QED
    BY <2>1, EventIsRead
<1>6. ASSUME NEW f \in inFlight'
      PROVE  OnItsWay(f)' /\ \A h \in heard' : h.push # f.push
  <2>1. f \in inFlight /\ OnItsWay(f) /\ (\A h \in heard : h.push # f.push) /\ f # e
    BY <1>1 DEF EventInv
  <2>2. f.push # e.push
    BY <2>1 DEF EventInv
  <2>3. OnItsWay(f)'
    BY <1>2, <2>1 DEF OnItsWay, Received
  <2>4. QED
    BY <1>1, <2>1, <2>2, <2>3
<1>7. \A f, g \in inFlight' : f.push = g.push => f = g
  BY <1>1 DEF EventInv
<1>8. \A h \in heard' : /\ h.push \in DOMAIN pushes
                       /\ \A k \in DOMAIN h.args : h.args[k] # Garbage
  BY <1>1, <1>4, <1>5 DEF EventInv
<1>9. QED
  BY <1>2, <1>3, <1>6, <1>7, <1>8 DEF EventInv

\* Messages on their way know their presenter whatever is listened to next.
LEMMA ListeningKeepsEvents ==
  ASSUME ListenInv, EventInv, Listening
  PROVE  EventInv'
<1>1. UNCHANGED <<face, inFlight, pushes, heard>>
  BY DEF Listening, BeginListening, TakeOff, ClearPresenter, MakePresenter,
         RegisterPresenter, events
<1>2. \A n \in DOMAIN presenters : n \in DOMAIN presenters' /\ presenters'[n] = presenters[n]
  <2>1. CASE MakePresenter
    <3>1. /\ presenters \in Seq(Listeners) /\ wanted \in Listeners
          /\ presenters' = Append(presenters, wanted)
      BY <2>1 DEF MakePresenter, ListenInv, Standing
    <3>2. /\ Len(presenters') = Len(presenters) + 1 /\ presenters' \in Seq(Listeners)
          /\ \A n \in 1..Len(presenters) : presenters'[n] = presenters[n]
      BY <3>1, AppendProperties
    <3>3. /\ DOMAIN presenters = 1..Len(presenters) /\ Len(presenters) \in Nat
          /\ DOMAIN presenters' = 1..Len(presenters')
      BY <3>1, <3>2, LenProperties
    <3>4. QED
      BY <3>2, <3>3
  <2>2. CASE presenters' = presenters
    BY <2>2
  <2>3. QED
    BY <2>1, <2>2 DEF Listening, BeginListening, TakeOff, ClearPresenter, RegisterPresenter
<1>3. PushedEvents' = PushedEvents /\ (\A j : EventArgs(j)' = EventArgs(j))
  BY <1>1 DEF PushedEvents, EventItems, EventArgs
<1>4. ASSUME NEW e \in inFlight PROVE OnItsWay(e)'
  <2>1. OnItsWay(e)
    BY DEF EventInv
  <2>2. QED
    BY <1>1, <1>2, <2>1 DEF OnItsWay, Received
<1>5. QED
  BY <1>1, <1>3, <1>4 DEF EventInv

\* Calls leave the events alone.
LEMMA EventsStay ==
  ASSUME EventInv, UNCHANGED <<face, listening, events>>
  PROVE  EventInv'
<1>1. UNCHANGED <<face, presenters, inFlight, pushes, heard>>
  BY DEF listening, events
<1>2. QED
  BY <1>1 DEF EventInv, OnItsWay, Received, PushedEvents, EventItems, EventArgs

\* A step of a call is none of an event.
LEMMA CallLeavesEvents == ASSUME NEW c, OnCall(c) PROVE UNCHANGED <<face, listening, events>>
BY DEF OnCall, Send, Process, RealCall, RealCallThrows, Reply, Lose, OnResult, OnError

\* No step leaves the invariant of the events.
LEMMA EventNext == SoundFace /\ ListenInv /\ EventInv /\ [Next]_vars => EventInv'
<1> SUFFICES ASSUME SoundFace, ListenInv, EventInv, [Next]_vars
             PROVE  EventInv'
  OBVIOUS
<1>1. CASE \E c \in DOMAIN call : OnCall(c)
  BY <1>1, CallLeavesEvents, EventsStay
<1>2. CASE Listening
  BY <1>2, ListeningKeepsEvents
<1>3. CASE Push
  BY <1>3, PushKeepsEvents
<1>4. CASE Hear
  BY <1>4, HearKeepsEvents
<1>5. CASE UNCHANGED vars
  BY <1>5, EventsStay DEF vars
<1>6. QED
  BY <1>1, <1>2, <1>3, <1>4, <1>5 DEF Next

-----------------------------------------------------------------------------
(* The listeners' side implements Subscription.                            *)

\* A step of the system is a step of the subscription, or a stutter.
LEMMA SubscriptionStep ==
  ASSUME SoundFace, ListenInv, ListenInv', EventInv, [Next]_vars
  PROVE  [Subscribed!Next]_(Subscribed!vars)
<1> DEFINE subscribers == {presenters[p] : p \in registered}
<1>1. CASE UNCHANGED <<listening, events>>
  BY <1>1 DEF Subscribed!vars, listening, events
<1>2. CASE Listening
  <2>1. UNCHANGED <<pushes, heard>>
    BY <1>2 DEF Listening, BeginListening, TakeOff, ClearPresenter, MakePresenter,
                RegisterPresenter, events
  <2>2. \A l1, l2 \in {presenters'[p] : p \in registered'} : l1 = l2
    <3>1. registered' = {} \/ registered' = {presenter'}
      BY DEF ListenInv, Standing, ListensAsTold
    <3>2. QED
      BY <3>1
  <2>3. Subscribed!Subscribe
    BY <2>1, <2>2 DEF Subscribed!Subscribe
  <2>4. QED
    BY <2>3 DEF Subscribed!Next
<1>3. CASE Push
  <2>1. PICK i \in EventItems : \E args \in EventArgs(i) : PushOf(i, args)
    BY <1>3, PushIsPushOf
  <2>2. PICK args \in EventArgs(i) : PushOf(i, args)
    BY <2>1
  <2>3. PICK p \in PushedEvents : pushes' = Append(pushes, p) /\ p.to = subscribers
    BY <2>2 DEF PushOf
  <2>4. /\ pushes \in Seq(PushedEvents) /\ pushes' \in Seq(PushedEvents)
        /\ Len(pushes') = Len(pushes) + 1 /\ Len(pushes) \in Nat
        /\ DOMAIN pushes = 1..Len(pushes) /\ pushes'[Len(pushes) + 1] = p
        /\ \A n \in DOMAIN pushes : pushes'[n] = pushes[n]
    BY <2>3, PushAppends DEF EventInv
  <2>5. SubSeq(pushes', 1, Len(pushes)) = pushes
    BY <2>4
  <2>6. pushes'[Len(pushes')].to = subscribers
    BY <2>3, <2>4
  <2>7. UNCHANGED <<subscribers, heard>>
    BY <2>2 DEF PushOf, listening
  <2>8. Subscribed!Push
    BY <2>4, <2>5, <2>6, <2>7 DEF Subscribed!Push
  <2>9. QED
    BY <2>8 DEF Subscribed!Next
<1>4. CASE Hear
  <2>1. PICK e \in inFlight :
          /\ OnItsWay(e)
          /\ heard' = heard \cup
               {[push |-> e.push, listener |-> presenters[e.presenter],
                 event |-> pushes[e.push].event, args |-> pushes[e.push].args]}
          /\ UNCHANGED <<face, calls, listening, pushes>>
    BY <1>4, HearsWhatWasPushed
  <2>2. e.push \in DOMAIN pushes /\ presenters[e.presenter] \in pushes[e.push].to
    BY <2>1 DEF OnItsWay
  <2>3. \A h \in heard : h.push # e.push
    BY DEF EventInv
  <2>4. UNCHANGED <<subscribers, pushes>>
    BY <2>1 DEF listening
  <2>5. Subscribed!Hear
    BY <2>1, <2>2, <2>3, <2>4 DEF Subscribed!Hear
  <2>6. QED
    BY <2>5 DEF Subscribed!Next
<1>5. CASE \E c \in DOMAIN call : OnCall(c)
  BY <1>1, <1>5, CallLeavesEvents
<1>6. CASE UNCHANGED vars
  BY <1>1, <1>6 DEF vars
<1>7. QED
  BY <1>2, <1>3, <1>4, <1>5, <1>6 DEF Next

\* For any events and listeners: one listener is subscribed at a time, and it is
\* called at most once for an event pushed while it was, as it was pushed.
THEOREM EventsKeepPromise == ASSUME TypesAssumption PROVE Spec => KeepsEventPromise
<1>1. Init => Subscribed!Init
  BY DEF Init, Subscribed!Init
<1>2. Init => ListenInv /\ CallInv /\ EventInv
  BY ListenInit, CallInit, EventInit
<1>3. CallInv => SoundFace
  BY DEF CallInv
<1>4. SoundFace /\ ListenInv /\ ListenInv' /\ EventInv /\ [Next]_vars
        => [Subscribed!Next]_(Subscribed!vars)
  BY SubscriptionStep
<1>5. QED
  BY <1>1, <1>2, <1>3, <1>4, ListenNext, CallNext, EventNext, PTL
  DEF Spec, KeepsEventPromise, Subscribed!Spec

\* For any types that are coherent: whatever the application finds in an argument,
\* a result or an event was put there by the generated code under that key.
THEOREM RpcNothingMisread == ASSUME TypesAssumption PROVE Spec => []NoMisread
<1>1. Init => ListenInv /\ CallInv /\ EventInv
  BY ListenInit, CallInit, EventInit
<1>2. CallInv => SoundFace
  BY DEF CallInv
<1>3. CallInv /\ EventInv => NoMisread
  BY DEF CallInv, CallOK, EventInv, NoMisread
<1>4. QED
  BY <1>1, <1>2, <1>3, ListenNext, CallNext, EventNext, PTL DEF Spec

\* Every reachable state has the types TypeOK gives: no call runs twice, no
\* callback is cast to the results interface of another method.
THEOREM RpcTypeCorrect == ASSUME TypesAssumption PROVE Spec => []TypeOK
<1>1. Init => ListenInv /\ CallInv
  BY ListenInit, CallInit
<1>2. ListenInv /\ CallInv => TypeOK
  <2> SUFFICES ASSUME ListenInv, CallInv
               PROVE  TypeOK
    OBVIOUS
  <2>1. presenter \in 0..Len(presenters) /\ registered \subseteq DOMAIN presenters
    BY OneRegistered DEF ListenInv, Standing
  <2>2. ASSUME NEW c \in DOMAIN call
        PROVE  /\ call[c].index \in RegularItems /\ Method(c) = face[call[c].index]
               /\ cpc[c] \in {"ready", "made", "told"}
               /\ spc[c] \in {"none", "sent", "run", "reply", "replied", "lost"}
               /\ served[c] \in RegularItems \cup {0}
               /\ Len(runs[c]) <= 1
               /\ told[c].kind \in {"none", "result", "exception", "ClassCastException"}
               /\ DOMAIN told[c].args = DOMAIN Method(c).args
    BY DEF CallInv, CallOK, Passed, Proper
  <2>3. QED
    BY <2>1, <2>2 DEF TypeOK, ListenInv, Standing, CallInv, SoundFace
<1>3. QED
  BY <1>1, <1>2, ListenNext, CallNext, PTL DEF Spec

=============================================================================
