------------------------ MODULE MCSessionNamespace ------------------------
(* Three session managers share three process ids, so an id may be      *)
(* handed out again after its manager exits; two clients join them.  The *)
(* ids are the shortest, a nine-digit and the longest name TLC's         *)
(* integers reach.                                                    *)
EXTENDS SessionNamespace, TLC

CONSTANTS m1, m2, m3, c1, c2

MCManagers == {m1, m2, m3}
MCClients == {c1, c2}
MCPids == {0, 999999999, 2147483647}

MCSymmetry == Permutations(MCManagers) \cup Permutations(MCClients)
=============================================================================
