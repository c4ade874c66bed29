---------------------------- MODULE MCLspDocSync ----------------------------
(* Instances of LspDocSync for TLC. *)
EXTENDS LspDocSync

CONSTANTS f1, f2

TwoFiles == {f1, f2}
=============================================================================
