--------------------------- MODULE MCEffectLedger ---------------------------
(* TLC instances of EffectLedger: four calls of one key.                   *)
EXTENDS EffectLedger

CONSTANTS c1, c2, c3, c4
TwoCallers == {c1, c2}
FourCallers == {c1, c2, c3, c4}
OneFresh == {c3}
None == {}
=============================================================================
