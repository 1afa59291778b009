---------------------------- MODULE MCFtpControl ----------------------------
(***************************************************************************)
(* FtpControl for TLC: sessions with a transfer in each direction, so that *)
(* a second data channel is set up after the first was used or given up.   *)
(***************************************************************************)
EXTENDS FtpControl
=============================================================================
