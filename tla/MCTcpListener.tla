--------------------------- MODULE MCTcpListener ---------------------------
(* An instance of TcpListener for TLC. *)
EXTENDS TcpListener
=============================================================================
