----------------------------- MODULE MCListener -----------------------------
(* Two sockets, one or two io threads.                                     *)
EXTENDS Listener, TLC

CONSTANTS k1, k2

MCConns == {k1, k2}

MCSymmetry == Permutations(MCConns)

=============================================================================
