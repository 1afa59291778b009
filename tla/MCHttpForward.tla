--------------------------- MODULE MCHttpForward ---------------------------
(***************************************************************************)
(* HttpForward for TLC.                                                    *)
(***************************************************************************)
EXTENDS HttpForward
=============================================================================
