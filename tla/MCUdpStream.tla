---------------------------- MODULE MCUdpStream ----------------------------
(* Small instances of UdpStream for TLC: see the .cfg files. *)
EXTENDS UdpStream
=============================================================================
