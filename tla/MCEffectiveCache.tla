-------------------------- MODULE MCEffectiveCache --------------------------
(* A small instance of the two-task cache.                                 *)
EXTENDS EffectiveCache
=============================================================================
