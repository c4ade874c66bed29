----------------------------- MODULE MCLspServer -----------------------------
(***************************************************************************)
(* Two files, one with a name that the client may spell in another way,    *)
(* and sessions that are made or fail to be.                               *)
(***************************************************************************)
EXTENDS LspServer

CONSTANTS f1, f2
MCFiles == {f1, f2}
MCMultibyte == {f2}
=============================================================================
