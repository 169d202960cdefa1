---------------------------- MODULE MCQuicStream ----------------------------
(* Small instances of QuicStream for TLC: see the .cfg files. *)
EXTENDS QuicStream
=============================================================================
