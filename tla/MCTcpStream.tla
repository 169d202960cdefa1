---------------------------- MODULE MCTcpStream ----------------------------
(* Small instances of TcpStream for TLC: see the .cfg files. *)
EXTENDS TcpStream
=============================================================================
