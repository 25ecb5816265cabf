----------------------------- MODULE MCRangeOps -----------------------------
(***************************************************************************)
(* RangeOps on small instances.                                            *)
(***************************************************************************)
EXTENDS RangeOps

CONSTANTS a, b

BothSignals == {a, b}
OneSignal == {a}
=============================================================================
