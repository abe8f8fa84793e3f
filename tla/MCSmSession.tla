---------------------------- MODULE MCSmSession ----------------------------
(* Small instances of SmSession. *)
EXTENDS SmSession, TLC

CONSTANTS u1, u2, u3, p1, p2

MCTunnels == {u1, u2, u3}
MCPeers == {p1, p2}

Symmetry == Permutations(MCTunnels) \cup Permutations(MCPeers)
=============================================================================
