------------------------------ MODULE MCWsHub ------------------------------
(* Model-checking instance of WsHub: three connections, so that two        *)
(* senders can multicast to a third at once, and two groups, so that       *)
(* members of different groups interleave.                                 *)
EXTENDS WsHub, TLC

CONSTANTS c1, c2, c3, g1, g2

MCConns == {c1, c2, c3}
MCGroups == {g1, g2}
MCGroups1 == {g1}
\* Two connections for the liveness run (no symmetry reduction there).
MCConns2 == {c1, c2}

\* Connections are interchangeable: every property quantifies over all of them.
MCSymmetry == Permutations(MCConns)
=============================================================================
