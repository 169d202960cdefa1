---------------------------- MODULE MCTcpServer ----------------------------
(* Small instances of TcpServer for TLC: see the .cfg files. *)
EXTENDS TcpServer
=============================================================================
