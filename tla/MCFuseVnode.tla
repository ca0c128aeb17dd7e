---------------------------- MODULE MCFuseVnode ----------------------------
(* Small instances of FuseVnode for TLC.                                   *)
EXTENDS FuseVnode, TLC

Read      == {"RDONLY"}
Write     == {"WRONLY"}
ReadWrite == {"RDONLY", "RDWR"}
AllTypes  == Types
PageOut   == {"write"}
=============================================================================
