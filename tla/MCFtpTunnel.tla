---------------------------- MODULE MCFtpTunnel ----------------------------
(***************************************************************************)
(* FtpTunnel for TLC: two sessions, three names and a limit of two marks,  *)
(* so that marks are merged, dropped, outlived and taken by other channels.*)
(***************************************************************************)
EXTENDS FtpTunnel, TLC

\* The sessions are alike, and so are the names.
Alike == Permutations(Sessions) \cup Permutations(Names)
=============================================================================
