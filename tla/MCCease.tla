------------------------------- MODULE MCCease -------------------------------
(***************************************************************************)
(* Model checking of Cease.                                                *)
(***************************************************************************)
EXTENDS Cease

\* An administrator and an observer.
OneOfEach == <<"administrator", "observer">>

\* An administrator alone, logged in at several terminals one after the other.
OneAdministrator == <<"administrator">>
=============================================================================
