---------------------------- MODULE MCFtpUpload ----------------------------
(***************************************************************************)
(* FtpUpload for TLC: a file of more chunks than the channel, a batch and  *)
(* the sockets hold together, so that the upload meets each of them full.  *)
(***************************************************************************)
EXTENDS FtpUpload
=============================================================================
