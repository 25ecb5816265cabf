------------------------------- MODULE MCChat -------------------------------
(***************************************************************************)
(* Model checking of Chat.                                                 *)
(***************************************************************************)
EXTENDS Chat

CONSTANTS p, g, ann, bob

TheirPair == [r \in {p} |-> {ann, bob}]
=============================================================================
