----------------------------- MODULE MCEngine -----------------------------
(* Small instances of Engine for TLC: see the .cfg files. *)
EXTENDS Engine
=============================================================================
