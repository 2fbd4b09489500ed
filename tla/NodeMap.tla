--------------------------------- MODULE NodeMap ---------------------------------
(***************************************************************************)
(* What the rest of the server may assume of its node map: a node is       *)
(* unknown, known, or selectable for new chunks, and it moves between      *)
(* these one level at a time.  In particular a selectable node never       *)
(* disappears: Scheduler.SelectNodes hands out its id and ChunkInfo keeps  *)
(* it.  NodeRegistry implements this map, ChunkStore relies on it.         *)
(***************************************************************************)
CONSTANT Nodes

VARIABLE nodes

Levels == {"absent", "offline", "online"}

Init == nodes = [n \in Nodes |-> "absent"]

\* registerNode of a node that is not in the map.
Appear(n) ==
    /\ nodes[n] = "absent"
    /\ nodes' = [nodes EXCEPT ![n] = "offline"]

\* A heartbeat of a configured node.
Enable(n) ==
    /\ nodes[n] = "offline"
    /\ nodes' = [nodes EXCEPT ![n] = "online"]

\* deleteNode.
Vanish(n) ==
    /\ nodes[n] = "offline"
    /\ nodes' = [nodes EXCEPT ![n] = "absent"]

\* checkNodeStatus, configureNode and a restart take any set of nodes out of use.
Disable(S) ==
    /\ S # {}
    /\ \A n \in S : nodes[n] = "online"
    /\ nodes' = [n \in Nodes |-> IF n \in S THEN "offline" ELSE nodes[n]]

Next ==
    \/ \E n \in Nodes : Appear(n) \/ Enable(n) \/ Vanish(n)
    \/ \E S \in SUBSET Nodes : Disable(S)

Spec == Init /\ [][Next]_nodes
=============================================================================
