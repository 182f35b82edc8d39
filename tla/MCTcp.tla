------------------------------- MODULE MCTcp -------------------------------
(* Instances of Tcp for TLC. *)
EXTENDS Tcp, TLC

CONSTANTS any, far, typo, port, name, d1, d2, d3

\* A name of its own, and one that reads like the address of a peer.
TwoNames == {name, <<far, port>>}

\* One descriptor is as good as another.
Descriptors == Permutations(Fds)
=============================================================================
