----------------------------- MODULE MCSessions -----------------------------
(***************************************************************************)
(* Model checking of Sessions.                                             *)
(***************************************************************************)
EXTENDS Sessions, TLC

\* Two administrators: either may act on the other.
TwoAdministrators == <<"administrator", "administrator">>

TerminalSymmetry == Permutations(Terminals)
=============================================================================
