----------------------------- MODULE MCRouting -----------------------------
(***************************************************************************)
(* Model checking of Routing.                                              *)
(***************************************************************************)
EXTENDS Routing

TwoStates == {"Live", "Standby/Off"}
TwoMatrices == {"splitter", "combiner"}
Straight == [i \in Idx |-> i]
=============================================================================
