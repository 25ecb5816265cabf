------------------------------ MODULE MCDocWiki ------------------------------
(* One administrator, one contributor and two bodies that link to each     *)
(* other's titles.                                                         *)
EXTENDS DocWiki

CONSTANTS admin, member, x, y

TheAdmins == {admin}
TheMembers == {member}
TwoTexts == {x, y}
CrossLinks == [t \in TwoTexts |-> IF t = x THEN {2} ELSE {1}]
=============================================================================
