--------------------------- MODULE MCFuseSession ---------------------------
(* Small instances of FuseSession for TLC.                                 *)
EXTENDS FuseSession, TLC
=============================================================================
