---------------------------- MODULE MCEffectTrail ----------------------------
(* EffectTrail on two processes and two idempotency keys.                   *)
EXTENDS EffectTrail

CONSTANTS p1, p2, k1, k2

MCProcs == {p1, p2}
MCKeys == {k1, k2}
=============================================================================
