--------------------------- MODULE MCBroadcastGrants ---------------------------
(* Three handlers in flight: a stop or start, and two requests of one peer. *)
EXTENDS BroadcastGrants, TLC

CONSTANTS j1, j2, j3, g1, g2, p1, p2

MCJob == {j1, j2, j3}
MCTwoJobs == {j1, j2}
MCGrantId == {g1, g2}
MCPeer == {p1}
MCTwoPeers == {p1, p2}
MCSymmetry == Permutations(MCJob) \cup Permutations(MCGrantId)
=============================================================================
