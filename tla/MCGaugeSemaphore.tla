-------------------------- MODULE MCGaugeSemaphore --------------------------
(* Small instances of the semaphore.                                       *)
EXTENDS GaugeSemaphore
=============================================================================
