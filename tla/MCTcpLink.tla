----------------------------- MODULE MCTcpLink -----------------------------
(* An instance of TcpLink for TLC. *)
EXTENDS TcpLink

CONSTANTS host, port, name, d1, d2
=============================================================================
