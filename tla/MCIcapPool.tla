----------------------------- MODULE MCIcapPool -----------------------------
(***************************************************************************)
(* The ICAP connection pool with one caller that runs two adapters in      *)
(* turn: the poll request of the first outlives its timeout and takes the  *)
(* connection the second waits for.                                        *)
(***************************************************************************)
EXTENDS IcapPool
=============================================================================
