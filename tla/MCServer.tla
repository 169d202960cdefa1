------------------------------ MODULE MCServer ------------------------------
(* Small instances of Server for TLC: see the .cfg files. *)
EXTENDS Server
=============================================================================
