--------------------------- MODULE MCUnixfsInodes ---------------------------
(* A directory that names itself and one file.                             *)
EXTENDS UnixfsInodes

CONSTANTS dir, file

MCEntries == [i \in {dir} |-> {dir, file}]
=============================================================================
