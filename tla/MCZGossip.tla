----------------------------- MODULE MCZGossip -----------------------------
(***************************************************************************)
(* Instances of ZGossip: networks of two or three nodes and what their     *)
(* applications publish.                                                   *)
(***************************************************************************)
EXTENDS ZGossip

CONSTANTS nodeA, nodeB, nodeC

Published(n, k, v) == [node |-> n, tuple |-> [key |-> k, value |-> v]]

None == {}
Two == {nodeA, nodeB}
Three == {nodeA, nodeB, nodeC}
OneLink == {<<nodeA, nodeB>>}
Triangle == {<<nodeA, nodeB>>, <<nodeB, nodeC>>, <<nodeC, nodeA>>}

TwoAtA == {Published(nodeA, 1, 1), Published(nodeA, 2, 1)}
AtTwoEnds == {Published(nodeA, 1, 1), Published(nodeC, 2, 1)}
Update == {Published(nodeA, 1, 1), Published(nodeA, 1, 2)}
=============================================================================
