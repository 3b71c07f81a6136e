------------------------------ MODULE TopoGeoms ------------------------------
(***************************************************************************)
(* The relation table of a topology: which nodes, edges and faces make up  *)
(* each TopoGeometry of the level-0 layers.  The callbacks that liblwgeom  *)
(* runs before and after an edit (cb_checkTopoGeom*, cb_updateTopoGeom* of *)
(* src/topology/postgis_topology.c) and the SQL functions that redefine a  *)
(* TopoGeometry are modelled by what they do to the rows.                  *)
(*                                                                         *)
(* A row is <<topogeo_id, element_type, element_id>>; the type is 1 for a  *)
(* node, 2 for an edge (a negative id walks it backward) and 3 for a face. *)
(* extent is not stored by PostGIS: it is what each TopoGeometry was drawn *)
(* as, in primitives of the drawing, and it follows the drawing's edits.   *)
(***************************************************************************)
EXTENDS PlanarMap

CONSTANTS TopoGeom,       \* identifiers of TopoGeometry objects
          FeatureType     \* the feature_type of the layer of each: 1 puntal,
                          \* 2 lineal, 3 areal, 4 collection

ASSUME FeatureTypeAssumption == FeatureType \in [TopoGeom -> 1..4]

VARIABLES relation, extent

tgVars == <<relation, extent>>

Row == [tg : TopoGeom, type : 1..3, id : Int]

Abs(i) == IF i < 0 THEN -i ELSE i

\* The objects whose layer may hold elements of this type.
OfType(type) == {tg \in TopoGeom : FeatureType[tg] \in {type, 4}}

\* The elements of a type that define tg; edges whatever their direction.
Elements(tg, type) == {Abs(r.id) : r \in {r \in relation : r.tg = tg /\ r.type = type}}

-----------------------------------------------------------------------------
(* What an object is drawn as: points, curves, and the darts whose left is *)
(* part of it.                                                             *)

DrawnAs(rows, tg) ==
  LET ids(type) == {Abs(r.id) : r \in {x \in rows : x.tg = tg /\ x.type = type}}
  IN  [points |-> ids(1), lines |-> ids(2),
       area |-> {d \in DOMAIN region : region[d] \in ids(3)}]

\* The extents after the drawing is edited: a primitive of the new drawing is
\* part of an object exactly when what it was made from (0 for nothing) was.
Inherit(nodes, lineWas, dartWas) ==
  extent' = [tg \in TopoGeom |->
    [points |-> extent[tg].points \cap nodes,
     lines |-> {e \in DOMAIN lineWas : lineWas[e] \in extent[tg].lines},
     area |-> {d \in DOMAIN dartWas : dartWas[d] \in extent[tg].area}]]

-----------------------------------------------------------------------------
(* cb_checkTopoGeom*: TRUE lets the edit go on.                            *)

\* Faulty variant of checkTopoGeomRemEdge: the rows of faces are not looked for.
checkTopoGeomRemEdgeLine(e, left, right) ==
  \A r \in relation : r.tg \in OfType(2) /\ r.type = 2 => r.id \notin {e, -e}

checkTopoGeomRemEdge(e, left, right) ==
  /\ \A r \in relation : r.tg \in OfType(2) /\ r.type = 2 => r.id \notin {e, -e}
  /\ left # right =>
       \A tg \in OfType(3) :
         Elements(tg, 3) \cap {left, right} # {} => {left, right} \subseteq Elements(tg, 3)

\* The query looks for the edge id twice and for its opposite never.
checkTopoGeomRemIsoEdge(e) ==
  \A r \in relation : r.tg \in OfType(2) /\ r.type = 2 => r.id \notin {e, e}

checkTopoGeomRemIsoNode(n) ==
  \A r \in relation : r.tg \in OfType(1) /\ r.type = 1 => r.id # n

\* Faulty variant of checkTopoGeomRemNode: the rows of the node are not looked for.
checkTopoGeomRemNodeLines(n, e1, e2) ==
  \A tg \in OfType(2) :
    Elements(tg, 2) \cap {e1, e2} # {} => {e1, e2} \subseteq Elements(tg, 2)

\* Faulty variant of checkTopoGeomRemNode: the rows of the edges are not looked for.
checkTopoGeomRemNodeOnly(n, e1, e2) == checkTopoGeomRemIsoNode(n)

checkTopoGeomRemNode(n, e1, e2) ==
  /\ \A tg \in OfType(2) :
       Elements(tg, 2) \cap {e1, e2} # {} => {e1, e2} \subseteq Elements(tg, 2)
  /\ checkTopoGeomRemIsoNode(n)

-----------------------------------------------------------------------------
(* cb_updateTopoGeom*: the rows after the edit.                            *)

Sign(i) == IF i < 0 THEN -1 ELSE 1

RowsOfEdge(e) == {r \in relation : r.type = 2 /\ Abs(r.id) = e}
RowsOfFace(f) == {r \in relation : r.type = 3 /\ r.id = f}

Put(rows, i) == {[r EXCEPT !.id = Sign(r.id) * i] : r \in rows}

\* With a second new edge the statement built loses its INSERT and its closing
\* parenthesis for the first row, so it only executes when there is no row.
updateTopoGeomEdgeSplitExecutes(e, i, j) == j # -1 => RowsOfEdge(e) = {}

\* Faulty variant of updateTopoGeomEdgeSplit: backward rows get no second part.
updateTopoGeomEdgeSplitForward(e, i, j) ==
  LET split == {r \in RowsOfEdge(e) : r.id > 0} IN
  IF j = -1 THEN relation \cup Put(split, i)
  ELSE (relation \ RowsOfEdge(e)) \cup Put(split, i) \cup Put(split, j)

updateTopoGeomEdgeSplit(e, i, j) ==
  IF j = -1 THEN relation \cup Put(RowsOfEdge(e), i)
  ELSE (relation \ RowsOfEdge(e)) \cup Put(RowsOfEdge(e), i) \cup Put(RowsOfEdge(e), j)

updateTopoGeomFaceSplit(f, i, j) ==
  IF j = -1 THEN relation \cup Put(RowsOfFace(f), i)
  ELSE (relation \ RowsOfFace(f)) \cup Put(RowsOfFace(f), i) \cup Put(RowsOfFace(f), j)

\* Faulty variant of updateTopoGeomFaceHeal: the rows of a face that goes away stay.
updateTopoGeomFaceHealKeep(f1, f2, new) ==
  IF new \in {f1, f2} THEN relation
  ELSE (relation \ (RowsOfFace(f1) \cup RowsOfFace(f2))) \cup Put(RowsOfFace(f2), new)

updateTopoGeomFaceHeal(f1, f2, new) ==
  IF new \in {f1, f2}
  THEN relation \ UNION {RowsOfFace(f) : f \in {f1, f2} \ {new}}
  ELSE (relation \ (RowsOfFace(f1) \cup RowsOfFace(f2))) \cup Put(RowsOfFace(f2), new)

updateTopoGeomEdgeHeal(e1, e2, new) ==
  IF new \in {e1, e2}
  THEN relation \ UNION {RowsOfEdge(e) : e \in {e1, e2} \ {new}}
  ELSE (relation \ (RowsOfEdge(e1) \cup RowsOfEdge(e2))) \cup Put(RowsOfEdge(e1), new)

-----------------------------------------------------------------------------
(* The SQL functions that redefine a TopoGeometry.  exists is what         *)
(* RelationTrigger finds in the primitive tables.                          *)

RelationTriggerAccepts(r, nodes, edges, faces) ==
  /\ r.tg \in OfType(r.type)
  /\ CASE r.type = 1 -> r.id \in nodes
       [] r.type = 2 -> Abs(r.id) \in edges
       [] r.type = 3 -> r.id # 0 /\ r.id \in faces

Redefine(rows, tg) ==
  /\ relation' = rows
  /\ extent' = [extent EXCEPT ![tg] = DrawnAs(rows, tg)]

\* A row already there is a unique_violation, which is let go.
TopoGeom_addElement(r, nodes, edges, faces) ==
  /\ RelationTriggerAccepts(r, nodes, edges, faces)
  /\ r \notin relation
  /\ Redefine(relation \cup {r}, r.tg)

TopoGeom_remElement(r) ==
  /\ r \in relation
  /\ Redefine(relation \ {r}, r.tg)

clearTopoGeom(tg) == Redefine({r \in relation : r.tg # tg}, tg)

TopoGeomInit ==
  /\ relation = {}
  /\ extent = [tg \in TopoGeom |-> [points |-> {}, lines |-> {}, area |-> {}]]
=============================================================================
