----------------------------- MODULE MCStateLock -----------------------------
(* One process that ended with the lock, one that reclaims it, and one that   *)
(* comes in between.                                                          *)
EXTENDS StateLock
==============================================================================
