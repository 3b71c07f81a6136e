----------------------------- MODULE MCTopology -----------------------------
(* Small topologies without TopoGeometry objects: at most three nodes, three    *)
(* edges and two faces, or two nodes, four edges and three faces, are ever made. *)
EXTENDS Topology

NoFeatures == [t \in {} |-> 1]

\* Next with this bound, which is asked before a fourth edge is drawn too, for all
\* drawings of it would be made first.
Bound == last.node <= 2 \/ (last.edge <= 3 /\ last.face <= 2)
Draws == AddIsoEdge \/ ModEdgeSplit \/ NewEdgesSplit \/ NewEdgeHeal \/ AddEdgeModFace \/ AddEdgeNewFaces
DrawsNone == AddIsoNode \/ RemoveIsoNode \/ RemIsoEdge \/ ModEdgeHeal \/ RemEdgeModFace \/ RemEdgeNewFace

BoundedNext == \/ DrawsNone /\ Bound'
               \/ (last.node <= 2 \/ last.edge < 3) /\ Draws /\ Bound'
BoundedSpec == Init /\ [][BoundedNext]_vars
=============================================================================
