----------------------------- MODULE Subscription -----------------------------
(***************************************************************************)
(* What startListening, stopListening and the push methods of an rpc       *)
(* interface promise together: one listener at a time, which hears every   *)
(* event pushed while it is subscribed at most once, as it was pushed, and *)
(* no other.                                                               *)
(***************************************************************************)
EXTENDS Naturals, Sequences

VARIABLES
  subscribers,   \* the listeners subscribed
  pushes,        \* the events pushed: [event, args, to]
  heard          \* what the listeners were called with: [push, listener, event, args]

vars == <<subscribers, pushes, heard>>

Init == subscribers = {} /\ pushes = <<>> /\ heard = {}

\* One listener takes the place of another, or leaves.
Subscribe ==
  /\ \A l1, l2 \in subscribers' : l1 = l2
  /\ UNCHANGED <<pushes, heard>>

\* An event goes to whoever is subscribed when it is pushed.
Push ==
  /\ Len(pushes') = Len(pushes) + 1
  /\ SubSeq(pushes', 1, Len(pushes)) = pushes
  /\ pushes'[Len(pushes')].to = subscribers
  /\ UNCHANGED <<subscribers, heard>>

Hear ==
  \E p \in DOMAIN pushes : \E listener \in pushes[p].to :
    /\ \A h \in heard : h.push # p
    /\ heard' = heard \cup {[push |-> p, listener |-> listener,
                             event |-> pushes[p].event, args |-> pushes[p].args]}
    /\ UNCHANGED <<subscribers, pushes>>

Next == Subscribe \/ Push \/ Hear

Spec == Init /\ [][Next]_vars

=============================================================================
