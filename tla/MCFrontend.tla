---------------------------- MODULE MCFrontend ----------------------------
(* Small instances of Frontend for TLC: see the .cfg files. *)
EXTENDS Frontend
=============================================================================
