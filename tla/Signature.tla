------------------------------ MODULE Signature ------------------------------
(***************************************************************************)
(* The parts of a method declaration a remote call depends on.  A method   *)
(* is [oneway, returns, args]: returns is <<>> for void and one            *)
(* [type, dimension] otherwise, an argument is [type, dimension,           *)
(* direction].                                                             *)
(***************************************************************************)
EXTENDS Integers, Sequences, Products

CONSTANTS
  True, False,   \* the values of a Java boolean
  Null,    \* the null reference
  New      \* the object a stub makes for an out argument

Void(m) == m.returns = <<>>

\* convert_direction: the bits IN_PARAMETER and OUT_PARAMETER; no direction is "in".
Incoming(arg) == arg.direction \in {"", "in", "inout"}
Outgoing(arg) == arg.direction \in {"out", "inout"}

=============================================================================
