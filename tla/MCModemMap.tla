---------------------------- MODULE MCModemMap ----------------------------
(* ModemMap with a mapped signal, one without a modem, and spare modems.   *)
EXTENDS ModemMap

CONSTANTS a, b, c, m1, m2, m3

AllNames == {a, b, c}
AllModems == {m1, m2, m3}
FirstModem == {m1}
OneGroup == {a, b}
OneMapped == <<[name |-> a, modem |-> m1], [name |-> b, modem |-> None]>>
============================================================================
