------------------------------ MODULE MCCleanup ------------------------------
(* RemoveUnusedPrimitives on the small topologies that a few edits draw, with  *)
(* objects of three layers.                                                    *)
EXTENDS TopologyCleanup

CONSTANTS point, line, area, any

Layered == [tg \in TopoGeom |-> CASE tg = point -> 1
                                  [] tg = line -> 2
                                  [] tg = area -> 3
                                  [] tg = any -> 4]

\* A drawing is made, objects are defined on it, then one cleanup runs: of everything,
\* or within a box when there is no object. A third node splits an edge, in a drawing of
\* one face, and ends it: the ring of three edges around a face of an object is healed at
\* two nodes, at the second by the new name of an edge.
MaxRows == IF last.node <= 2 THEN 2 ELSE 1
Draw == /\ relation = {} /\ last.node <= 2
        /\ \/ (AddIsoNode \/ AddIsoEdge \/ AddEdgeModFace) /\ last'.node <= 2
           \/ ModEdgeSplit /\ (last.node <= 2 \/ last.face <= 1)'
Define == Cardinality(relation) < MaxRows /\ AddElement
DrawAndDefine == job = Idle /\ (Draw \/ Define) /\ UNCHANGED job

Start == job = Idle /\ \E box \in IF relation = {} THEN Boxes ELSE {Everything} :
                          RemoveUnusedPrimitives(box)

DrawAndCleanup == /\ CleanupInit
                  /\ [][DrawAndDefine \/ Start \/ CleanupStep]_cleanupVars
                  /\ WF_cleanupVars(CleanupStep)
=============================================================================
