------------------------------ MODULE RemoteCall ------------------------------
(***************************************************************************)
(* What a call through a pair of generated classes, a proxy and a stub,    *)
(* promises its caller, without parcels: the method that was called runs   *)
(* at most once, on the values the caller passed, and the caller gets what *)
(* it returned and what it left in the out arguments, or an exception.     *)
(* A oneway call returns without waiting for any of this.                  *)
(***************************************************************************)
EXTENDS Signature

\* What the implementation finds in an argument that carries nothing in: a new
\* object, or an array as long as the caller's.
Fresh(arg, v) ==
  IF arg.dimension = 0 THEN New
  ELSE IF v = Null THEN Null
  ELSE [i \in DOMAIN v |-> arg.type.zero]

VARIABLES
  call,     \* the call: [method, index, args]
  runs,     \* the completed runs of the implementation
  answer,   \* what the caller has got
  lost      \* the other process has died

vars == <<call, runs, answer, lost>>

Parameters == DOMAIN call.method.args
Parameter(k) == call.method.args[k]

Pending == answer.kind = "none"

Init == runs = <<>> /\ Pending

\* The implementation runs once, on what the caller passed.
Invoke ==
  /\ runs = <<>> /\ Len(runs') = 1
  /\ LET run == runs'[1]
     IN  /\ run.index = call.index
         /\ \A k \in Parameters :
              run.received[k] = IF Incoming(Parameter(k)) THEN call.args[k]
                                ELSE Fresh(Parameter(k), call.args[k])
  /\ UNCHANGED <<call, answer, lost>>

\* The caller gets the result, and the out arguments as the run left them.
Return ==
  /\ Pending /\ ~call.method.oneway
  /\ runs # <<>> /\ ~runs[1].threw
  /\ answer' = [kind |-> "result", result |-> runs[1].result,
                args |-> [k \in Parameters |->
                            IF Outgoing(Parameter(k)) THEN runs[1].left[k]
                            ELSE call.args[k]]]
  /\ UNCHANGED <<call, runs, lost>>

ReturnOneway ==
  /\ Pending /\ call.method.oneway
  /\ answer' = [kind |-> "result", result |-> Null, args |-> call.args]
  /\ UNCHANGED <<call, runs, lost>>

\* The caller's arguments when those before k have been filled.
FilledBefore(k) ==
  [j \in Parameters |-> IF Outgoing(Parameter(j)) /\ j < k THEN runs[1].left[j]
                        ELSE call.args[j]]

\* The caller gave no object for the out argument k: it gets to know of that
\* after the run, and the arguments before k have been filled by then.
StopsAt(k) ==
  /\ Outgoing(Parameter(k)) /\ call.args[k] = Null
  /\ answer'.args = FilledBefore(k)

\* An exception has a cause, and leaves the caller's arguments alone unless the
\* cause is one of them.
Throw ==
  /\ Pending
  /\ answer'.kind = "exception"
  /\ \/ answer'.args = call.args /\ (lost \/ (runs # <<>> /\ runs[1].threw))
     \/ runs # <<>> /\ ~runs[1].threw /\ \E k \in Parameters : StopsAt(k)
  /\ UNCHANGED <<call, runs, lost>>

Lose == lost' /\ UNCHANGED <<call, runs, answer>>

Next == Invoke \/ Return \/ ReturnOneway \/ Throw \/ Lose

Spec == Init /\ [][Next]_vars

=============================================================================
