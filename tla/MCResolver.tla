----------------------------- MODULE MCResolver -----------------------------
(* The resolver for TLC.                                                   *)
EXTENDS Resolver
=============================================================================
