----------------------------- MODULE MCTopoGeoms -----------------------------
(* Small topologies with TopoGeometry objects on them, all of one layer, so of *)
(* one feature type.                                                           *)
EXTENDS Topology, TLC

CONSTANTS tg1, tg2, MaxRows

AllOfType(type) == [tg \in TopoGeom |-> type]
Areal == AllOfType(3)
Lineal == AllOfType(2)
Collection == AllOfType(4)

\* Objects of one layer can be exchanged.
Interchangeable == Permutations(TopoGeom)

\* Bounds of the runs: an object is given no row above MaxRows; an edit may add more,
\* and the history ends there, as it does with a face, a third node and a third edge.
Small == Cardinality(relation) <= MaxRows /\ (last.face = 0 \/ last.node + last.edge <= 5)
Draws == AddIsoNode \/ AddIsoEdge \/ ModEdgeSplit \/ NewEdgesSplit \/ NewEdgeHeal \/ AddEdgeModFace \/ AddEdgeNewFaces
DrawsNone == RemoveIsoNode \/ RemIsoEdge \/ ModEdgeHeal \/ RemEdgeModFace \/ RemEdgeNewFace
EditWithin == \/ DrawsNone
              \/ (last.face = 0 \/ last.node + last.edge < 5) /\ Draws
RedefineWithin == (Cardinality(relation) < MaxRows /\ AddElement) \/ RemElement \/ ClearTopoGeom
BoundedSpec == Init /\ [][EditWithin \/ RedefineWithin]_vars

\* The same without the step that BackwardRowsGuarded leaves out.
BoundedGuardedSpec == Init /\ [][(EditWithin /\ BackwardRowsGuarded) \/ RedefineWithin]_vars
=============================================================================
