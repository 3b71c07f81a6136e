--------------------------- MODULE TopologyCleanup ---------------------------
(***************************************************************************)
(* topology.RemoveUnusedPrimitives, beside the edits of module Topology:   *)
(* it deletes the edges no TopoGeometry needs in one statement, mends the  *)
(* tables around them with statements of its own (and not with the         *)
(* callbacks of ST_RemEdgeModFace), then calls ST_RemIsoNode and           *)
(* ST_ModEdgeHeal in two loops over lists made before they start.          *)
(*                                                                         *)
(* It all happens in one transaction, so no edit comes between its steps;  *)
(* job holds its local variables and temporary tables:                     *)
(*   phase    the part it is at                                            *)
(*   box      the primitives that intersect the bbox argument              *)
(*   old      deleted_edges: next, side and org of the deleted edges       *)
(*   merged   merged_faces: a face to keep and those merged into it        *)
(*   todo     what is left of the loop it is in                            *)
(*   edgeMap  the new names of healed edges                                *)
(***************************************************************************)
EXTENDS Topology

VARIABLE job

cleanupVars == <<vars, job>>

Idle == [phase |-> "idle"]
Returned == [phase |-> "returned"]
Resting == job \in {Idle, Returned}

\* bbox NULL; or a box on one edge away from its ends, or around one node.
Everything == [whole |-> TRUE, edges |-> Edge, nodes |-> Node]
Boxes == {Everything}
         \cup {[whole |-> FALSE, edges |-> {e}, nodes |-> {}] : e \in Edge}
         \cup {[whole |-> FALSE, edges |-> {Abs(d) : d \in Leaving(n)}, nodes |-> {n}] : n \in Node}

InLayers(types) == {r \in relation : FeatureType[r.tg] \in types}

-----------------------------------------------------------------------------
(* Deciding what to delete.                                                *)

\* Faulty variant of Unreferenced: rows of areal layers are looked through too.
UnreferencedAnywhere(E) ==
  {e \in E : \A r \in InLayers({2, 3, 4}) : r.id \notin {e, -e}}

\* The edges whose id is not in a lineal or mixed layer's rows, of whatever type.
Unreferenced(E) == {e \in E : \A r \in InLayers({2, 4}) : r.id \notin {e, -e}}

\* Faulty variant of BreakingMerges: an object that has only the left face.
BreakingMergesLeft(E) ==
  {e \in E : /\ side[e] # side[-e]
             /\ \E tg \in OfType(3) : side[e] \in Elements(tg, 3) /\ side[-e] \notin Elements(tg, 3)}

\* The edges between a face of some object and a face that is not.
BreakingMerges(E) ==
  {e \in E : /\ side[e] # side[-e]
             /\ \E tg \in OfType(3) : Cardinality(Elements(tg, 3) \cap {side[e], side[-e]}) = 1}

UnusedEdges(box) == LET E == Unreferenced(box.edges) IN E \ BreakingMerges(E)

Lowest(S) == CHOOSE x \in S : \A y \in S : x <= y

\* The faces that the deletion of E joins to f, f included.
FloodFaces(E, f) ==
  LET pairs == {{side[e], side[-e]} : e \in E}
      grown[i \in 0..Cardinality(pairs)] ==
        IF i = 0 THEN {f}
        ELSE grown[i - 1] \cup UNION {p \in pairs : p \cap grown[i - 1] # {}}
  IN  grown[Cardinality(pairs)]

MergedFaces(E) ==
  LET sets == {FloodFaces(E, side[d]) : d \in Darts(E)}
  IN  {[keep |-> Lowest(s), merge |-> s \ {Lowest(s)}] : s \in {x \in sets : Cardinality(x) > 1}}

\* The name face f has after the merges.
Kept(merged, f) ==
  IF \E m \in merged : f \in m.merge THEN (CHOOSE m \in merged : f \in m.merge).keep ELSE f

RemoveUnusedPrimitives(box) ==
  LET E == UnusedEdges(box) IN
  /\ Resting
  /\ job' = [phase |-> IF E = {} THEN "right" ELSE "delete",
             box |-> box,
             old |-> [next |-> [d \in Darts(E) |-> next[d]],
                      side |-> [d \in Darts(E) |-> side[d]],
                      org |-> [d \in Darts(E) |-> org[d]]],
             merged |-> MergedFaces(E),
             todo |-> E]
  /\ UNCHANGED vars

\* One row of DELETE FROM edge_data, lowest first; nothing reads the table before
\* the last. What two regions become has the name of the lower face, so that the last
\* row leaves each region the name mergedFaces[1].
DeleteEdge ==
  /\ job.phase = "delete"
  /\ LET e == Lowest(job.todo)
         D == DOMAIN next \ {e, -e}
     IN  /\ next' = [d \in D |-> next[d]]
         /\ side' = [d \in D |-> side[d]]
         /\ org' = [d \in D |-> org[d]]
         /\ EraseLine(e, Lowest({region[e], region[-e]}), Stranded(e))
         /\ Inherit(Node, [i \in Edge \ {e} |-> i], [d \in D |-> d])
         /\ job' = [job EXCEPT !.phase = IF job.todo = {e} THEN "right" ELSE "delete",
                               !.todo = @ \ {e}]
  /\ UNCHANGED <<relation, containing, face, last>>

-----------------------------------------------------------------------------
(* Mending the tables.                                                     *)

\* Faulty variant of Past: the deleted edge walked the other way.
PastTurned(x) == -x

\* The dart after deleted dart x clockwise around the node it leaves.
Past(x) == job.old.next[-x]

Broken(columns) ==
  {d \in columns : next[d] \in DOMAIN job.old.next /\ next[d] # Past(next[d])}

\* One turn of a LOOP over the column of columns: update the broken links, or go
\* on to phase after when there is none.
MendLinks(columns, after) ==
  /\ next' = [d \in DOMAIN next |-> IF d \in Broken(columns) THEN Past(next[d]) ELSE next[d]]
  /\ job' = IF Broken(columns) = {} THEN [job EXCEPT !.phase = after] ELSE job
  /\ UNCHANGED <<geomVars, tgVars, side, org, containing, face, last>>

MendNextRight == job.phase = "right" /\ MendLinks({d \in DOMAIN next : d < 0}, "left")
MendNextLeft == job.phase = "left" /\ MendLinks({d \in DOMAIN next : d > 0}, "faces")

\* Faulty variant of Uncovered: the face the node was beside, merged or not.
UncoveredUnmerged(n) == Lowest({job.old.side[d] : d \in {x \in DOMAIN job.old.org : job.old.org[x] = n}})

\* The face a newly isolated node lies in.
Uncovered(n) ==
  LET at == {d \in DOMAIN job.old.org : job.old.org[d] = n}
      incident == {job.old.side[d] : d \in at} \cup {job.old.side[-d] : d \in at}
      touched == {m \in job.merged : m.merge \cap incident # {}}
  IN  IF touched # {} THEN (CHOOSE m \in touched : TRUE).keep ELSE Lowest(incident)

\* Left and right faces, containing faces, the face table, the rows of areal and
\* mixed layers whose id is that of a merged face, newly isolated nodes; then the
\* isolated nodes that no puntal layer names are listed.
RelabelFaces ==
  LET gone == UNION {m.merge : m \in job.merged}
      isolated == {n \in Node : Leaving(n) = {} /\ \E d \in DOMAIN job.old.org : job.old.org[d] = n}
      cont == [n \in Node |-> IF n \in isolated THEN Uncovered(n) ELSE Kept(job.merged, containing[n])]
  IN
  /\ job.phase = "faces"
  /\ side' = [d \in DOMAIN side |-> Kept(job.merged, side[d])]
  /\ containing' = cont
  /\ face' = face \ gone
  /\ relation' = relation \ {r \in InLayers({3, 4}) : r.id \in gone}
  /\ job' = [phase |-> "nodes", box |-> job.box,
             todo |-> {n \in Node \cap job.box.nodes :
                         cont[n] # None /\ \A r \in InLayers({1}) : r.id # n}]
  /\ UNCHANGED <<geomVars, extent, next, org, last>>

-----------------------------------------------------------------------------
(* Removing nodes.                                                         *)

\* The pairs of edges that a node no object has joins, with all such nodes.
ValidHeals(box) ==
  LET edges(n) == {Abs(d) : d \in Leaving(n)}
      free == {n \in Node \cap box.nodes :
                 containing[n] = None /\ \A tg \in OfType(1) : n \notin Elements(tg, 1)}
      joining == {n \in free : /\ Cardinality(edges(n)) = 2
                               /\ \A e \in edges(n) : org[e] # org[-e]
                               /\ \A tg \in OfType(2) :
                                    Cardinality(Elements(tg, 2) \cap edges(n)) # 1}
  IN  {[edges |-> E, nodes |-> {n \in joining : edges(n) = E}] : E \in {edges(n) : n \in joining}}

\* One turn of the first loop: a node that ST_RemIsoNode refuses is left with a
\* warning.
CleanIsoNode ==
  /\ job.phase = "nodes"
  /\ \E n \in job.todo :
       /\ IF checkTopoGeomRemIsoNode(n)
          THEN RemoveIsoNode /\ Node' = Node \ {n}
          ELSE UNCHANGED vars
       /\ job' = [job EXCEPT !.todo = @ \ {n}]

ListHeals ==
  /\ job.phase = "nodes"
  /\ job.todo = {}
  /\ job' = [phase |-> "heal", box |-> job.box, todo |-> ValidHeals(job.box), edgeMap |-> [e \in {} |-> e]]
  /\ UNCHANGED vars

\* The name an edge has now, for all that edgeMap knows.
Renamed(e) == IF e \in DOMAIN job.edgeMap THEN job.edgeMap[e] ELSE e

\* The ways ST_ModEdgeHeal may join a and b and remove one of nodes; it raises an
\* error, or one is raised when it is back, if there is none.
Heals(a, b, nodes) ==
  IF {a, b} \subseteq Edge /\ org[a] # org[-a] /\ org[b] # org[-b]
  THEN {c \in HealChoice(a, b) : c.at \in nodes /\ checkTopoGeomRemNode(c.at, a, b)}
  ELSE {}

\* One turn of the second loop, whose order GROUP BY leaves open: an error leaves
\* the two edges as they are with a warning.
CleanNode ==
  /\ job.phase = "heal"
  /\ \E h \in job.todo :
       LET a == Renamed(Lowest(h.edges))
           b == Renamed(Lowest(h.edges \ {Lowest(h.edges)}))
           left == job.todo \ {h}
       IN  \/ /\ a # b
              /\ \E c \in Heals(a, b, h.nodes) : HealMeeting(a, b, c, TRUE)
              /\ job' = [job EXCEPT !.todo = left,
                                    !.edgeMap = [e \in DOMAIN @ \cup {b} |-> IF e = b THEN a ELSE @[e]]]
           \/ /\ a = b \/ Heals(a, b, h.nodes) = {}
              /\ job' = [job EXCEPT !.todo = left]
              /\ UNCHANGED vars

EndCleanup ==
  /\ job.phase = "heal"
  /\ job.todo = {}
  /\ job' = Returned
  /\ UNCHANGED vars

CleanupStep == \/ DeleteEdge
               \/ MendNextRight
               \/ MendNextLeft
               \/ RelabelFaces
               \/ CleanIsoNode
               \/ ListHeals
               \/ CleanNode
               \/ EndCleanup

CleanupInit == Init /\ job = Idle

CleanupNext == \/ \E box \in Boxes : RemoveUnusedPrimitives(box)
               \/ CleanupStep
               \/ Resting /\ Next /\ UNCHANGED job

\* A statement of a function that runs is followed by the next one; nobody has to
\* edit the topology or to call RemoveUnusedPrimitives.
CleanupSpec == CleanupInit /\ [][CleanupNext]_cleanupVars /\ WF_cleanupVars(CleanupStep)

-----------------------------------------------------------------------------
(* Properties.                                                             *)

Mended == job.phase \in {"idle", "nodes", "heal", "returned"}

\* Whatever set of edges is deleted at once, the two UPDATE loops and the relabelling
\* leave links, nodes and faces as the drawing without those edges has them, before
\* ST_RemIsoNode and ST_ModEdgeHeal rely on them and after.
MendedTablesFollowDrawing ==
  Mended => /\ LinksFollowDrawing
            /\ NodesFollowDrawing
            /\ FacesFollowDrawing
            /\ IsolatedNodesBare
            /\ ForeignKeysHold

\* RemoveUnusedPrimitives maintains "TopoGeometry space occupation"
\* (doc/extras_topology.xml): the rows it leaves denote what was drawn.
CleanupKeepsExtents == Mended => ExtentsPreserved

Done == job.phase = "heal" /\ job.todo = {}

\* Without a bbox it finds all the edges and isolated nodes that are not needed: an
\* edge left over is part of a line or ends an area.
NothingUnusedLeft ==
  Done /\ job.box.whole =>
    /\ \A e \in Edge : \E tg \in TopoGeom :
         \/ e \in Elements(tg, 2)
         \/ Cardinality({side[e], side[-e]} \cap Elements(tg, 3)) = 1
            /\ side[e] # side[-e]
    /\ \A n \in Node : containing[n] # None => \E tg \in TopoGeom : n \in Elements(tg, 1)

\* The update loops and the loops over nodes come to an end: the function returns.
CleanupReturns == ~Resting ~> job = Returned
=============================================================================
