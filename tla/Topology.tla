------------------------------- MODULE Topology -------------------------------
(***************************************************************************)
(* The node, edge_data and face tables of a PostGIS topology and the       *)
(* ISO SQL/MM editing functions of liblwgeom/topo/lwgeom_topo.c, each run  *)
(* in a transaction of its own: an edit that raises an error leaves no     *)
(* trace, so an action is enabled exactly when the function returns.       *)
(*                                                                         *)
(* The columns of edge_data are kept per dart (see PlanarMap):             *)
(*   next[e], next[-e]   next_left_edge and next_right_edge                *)
(*   side[e], side[-e]   left_face and right_face                          *)
(*   org[e], org[-e]     start_node and end_node                           *)
(* containing is node.containing_face, None (NULL) when not isolated; face *)
(* holds the ids of the face table but 0, the universe face.  last holds   *)
(* the sequences ids come from.                                            *)
(***************************************************************************)
EXTENDS TopoGeoms

CONSTANTS MaxNode, MaxEdge, MaxFace   \* bounds of the sequences, for TLC

ASSUME BoundsAssumption == /\ MaxNode \in Nat
                           /\ MaxEdge \in Nat
                           /\ MaxFace \in Nat

VARIABLES next, side, org, containing, face, last

tableVars == <<next, side, org, containing, face, last>>
vars == <<geomVars, tgVars, tableVars>>

None == -1
Edge == {Abs(d) : d \in DOMAIN next}
Node == DOMAIN containing
Leaving(n) == {d \in DOMAIN org : org[d] = n}   \* getEdgeByNode

\* Faulty variant of Fresh: the ids are used and not consumed.
FreshPeek(kind, n, bound) == last[kind] + n <= bound /\ last' = last

\* nextval of a sequence, within its bound.
Fresh(kind, n, bound) == /\ last[kind] + n <= bound
                         /\ last' = [last EXCEPT ![kind] = @ + n]

Init ==
  /\ GeomInit
  /\ TopoGeomInit
  /\ next = [d \in {} |-> 0]
  /\ side = [d \in {} |-> 0]
  /\ org = [d \in {} |-> 0]
  /\ containing = [n \in {} |-> 0]
  /\ face = {}
  /\ last = [node |-> 0, edge |-> 0, face |-> 0]

Same == [e \in Edge |-> e]           \* for Inherit: nothing but the primitives
SameDarts == [d \in DOMAIN next |-> d]   \* that go away changes

-----------------------------------------------------------------------------
(* lwt_AddIsoNode, lwt_RemoveIsoNode                                       *)

\* lwt_GetFaceContainingPoint for a point of region f: what the closest edge
\* stores for the side it shows to the point.
FacesFound(f) == IF DOMAIN side = {} THEN {0} ELSE {side[d] : d \in {x \in DOMAIN side : region[x] = f}}

AddIsoNode ==
  \E f \in face \cup {0} : \E found \in FacesFound(f) :
    LET n == last.node + 1 IN
    /\ Fresh("node", 1, MaxNode)
    /\ containing' = [m \in Node \cup {n} |-> IF m = n THEN found ELSE containing[m]]
    /\ DrawPoint(n, f)
    /\ UNCHANGED <<tgVars, next, side, org, face>>

RemoveIsoNode ==
  \E n \in Node :
    /\ containing[n] # None
    /\ checkTopoGeomRemIsoNode(n)
    /\ containing' = [m \in Node \ {n} |-> containing[m]]
    /\ ErasePoint(n)
    /\ Inherit(Node \ {n}, Same, SameDarts)
    /\ UNCHANGED <<relation, next, side, org, face, last>>

-----------------------------------------------------------------------------
(* lwt_AddIsoEdge, lwt_RemIsoEdge                                          *)

\* Where the ends of a new edge e from node s to node t may go in region f: the
\* darts p and q that they follow clockwise.
Sectors(n, f) ==
  IF Leaving(n) = {} THEN {p \in {0} : isoRegion[n] = f}
  ELSE {p \in Leaving(n) : region[cw[p]] = f}

Places(e, s, t, f) ==
  Sectors(s, f) \X IF s # t THEN Sectors(t, f) ELSE {e} \cup (Sectors(s, f) \ {0})

DrawingsBetween(e, s, t, f) ==
  UNION {Drawings(e, pq[1], pq[2], f, {s, t}) : pq \in Places(e, s, t, f)}

\* A new edge between nodes s and t, and an end inserted into the extents: the
\* curve is part of the areas it is drawn in.
ExtendWith(e, f) ==
  LET from == IF \E d \in DOMAIN region : region[d] = f
              THEN CHOOSE d \in DOMAIN region : region[d] = f ELSE 0
  IN  Inherit(Node, [i \in Edge \cup {e} |-> IF i = e THEN 0 ELSE i],
              [d \in DOMAIN next \cup {e, -e} |-> IF d \in {e, -e} THEN from ELSE d])

AddIsoEdge ==
  \E s, t \in Node :
    LET e == last.edge + 1 IN
    /\ s # t
    /\ containing[s] # None
    /\ containing[s] = containing[t]
    /\ Fresh("edge", 1, MaxEdge)
    /\ next' = [d \in DOMAIN next \cup {e, -e} |-> IF d \in {e, -e} THEN -d ELSE next[d]]
    /\ side' = [d \in DOMAIN side \cup {e, -e} |->
                  IF d \in {e, -e} THEN containing[s] ELSE side[d]]
    /\ org' = [d \in DOMAIN org \cup {e, -e} |-> IF d = e THEN s ELSE IF d = -e THEN t ELSE org[d]]
    /\ containing' = [containing EXCEPT ![s] = None, ![t] = None]
    /\ \E g \in DrawingsBetween(e, s, t, isoRegion[s]) :
         DrawLine(e, g, isoRegion[s], 0, 0, {s, t})
    /\ ExtendWith(e, isoRegion[s])
    /\ UNCHANGED <<relation, face>>

RemIsoEdge ==
  \E e \in Edge :
    LET ends == {org[e], org[-e]} IN
    /\ side[e] = side[-e]
    /\ Leaving(org[e]) \cup Leaving(org[-e]) \subseteq {e, -e}
    /\ checkTopoGeomRemIsoEdge(e)
    /\ next' = [d \in DOMAIN next \ {e, -e} |-> next[d]]
    /\ side' = [d \in DOMAIN side \ {e, -e} |-> side[d]]
    /\ org' = [d \in DOMAIN org \ {e, -e} |-> org[d]]
    /\ containing' = [n \in Node |-> IF n \in ends THEN side[e] ELSE containing[n]]
    /\ EraseLine(e, region[e], ends)
    /\ Inherit(Node, [i \in Edge \ {e} |-> i], [d \in DOMAIN next \ {e, -e} |-> d])
    /\ UNCHANGED <<relation, face, last>>
-----------------------------------------------------------------------------
(* lwt_ModEdgeSplit, lwt_NewEdgesSplit                                     *)

\* Faulty variant of Before: only the next_right_edge column is looked at.
BeforeBackward(x, n) == {d \in DOMAIN next : d < 0 /\ next[d] = x /\ org[-d] = n}

\* The darts that arrive at node n with x as their next dart.
Before(x, n) == {d \in DOMAIN next : next[d] = x /\ org[-d] = n}

ModEdgeSplit ==
  \E e \in Edge :
    LET n == last.node + 1
        j == last.edge + 1
        D == DOMAIN next \cup {j, -j}
    IN
    /\ last.node < MaxNode /\ last.edge < MaxEdge
    /\ last' = [node |-> n, edge |-> j, face |-> last.face]
    /\ containing' = [m \in Node \cup {n} |-> IF m = n THEN None ELSE containing[m]]
    /\ next' = [d \in D |->
                  IF d = e THEN j
                  ELSE IF d = -j THEN -e
                  ELSE IF d = j THEN (IF next[e] = -e THEN -j ELSE next[e])
                  ELSE IF d \in Before(-e, org[-e]) THEN -j ELSE next[d]]
    /\ side' = [d \in D |-> IF d = j THEN side[e] ELSE IF d = -j THEN side[-e] ELSE side[d]]
    /\ org' = [d \in D |-> IF d \in {j, -e} THEN n ELSE IF d = -j THEN org[-e] ELSE org[d]]
    /\ updateTopoGeomEdgeSplitExecutes(e, j, -1)
    /\ relation' = updateTopoGeomEdgeSplit(e, j, -1)
    /\ CutLine(e, e, j)
    /\ Inherit(Node, [i \in Edge \cup {j} |-> IF i = j THEN e ELSE i],
               [d \in D |-> IF d = j THEN e ELSE IF d = -j THEN -e ELSE d])
    /\ UNCHANGED face

NewEdgesSplit ==
  \E e \in Edge :
    LET n == last.node + 1
        i == last.edge + 1
        j == last.edge + 2
        D == (DOMAIN next \ {e, -e}) \cup {i, -i, j, -j}
        ren(d) == IF d = e THEN i ELSE IF d = -e THEN -j ELSE d
        was(d) == IF d \in {i, j} THEN e ELSE IF d \in {-i, -j} THEN -e ELSE d
    IN
    /\ last.node < MaxNode /\ last.edge + 1 < MaxEdge
    /\ last' = [node |-> n, edge |-> j, face |-> last.face]
    /\ containing' = [m \in Node \cup {n} |-> IF m = n THEN None ELSE containing[m]]
    /\ next' = [d \in D |->
                  IF d = i THEN j
                  ELSE IF d = -j THEN -i
                  ELSE IF d = -i THEN ren(next[-e])
                  ELSE IF d = j THEN ren(next[e])
                  ELSE IF d \in Before(e, org[e]) THEN i
                  ELSE IF d \in Before(-e, org[-e]) THEN -j
                  ELSE next[d]]
    /\ side' = [d \in D |-> side[was(d)]]
    /\ org' = [d \in D |-> IF d \in {-i, j} THEN n ELSE org[was(d)]]
    /\ updateTopoGeomEdgeSplitExecutes(e, i, j)
    /\ relation' = updateTopoGeomEdgeSplit(e, i, j)
    /\ CutLine(e, i, j)
    /\ Inherit(Node, [k \in (Edge \ {e}) \cup {i, j} |-> IF k \in {i, j} THEN e ELSE k],
               [d \in D |-> was(d)])
    /\ UNCHANGED face

-----------------------------------------------------------------------------
(* lwt_ModEdgeHeal, lwt_NewEdgeHeal                                        *)

\* Faulty variant of HealCase: two edges that end at one node keep the sides of
\* the second.
HealCaseTurned(e1, e2) ==
  << [at |-> org[-e1], meets |-> org[e2], from |-> e1, to |-> -e2,
      left |-> e2, right |-> -e1, free1 |-> 1, free2 |-> -1, dir |-> 1],
     [at |-> org[-e1], meets |-> org[-e2], from |-> e1, to |-> -e2,
      left |-> e2, right |-> -e1, free1 |-> 1, free2 |-> 1, dir |-> -1],
     [at |-> org[e1], meets |-> org[e2], from |-> -e2, to |-> -e1,
      left |-> e1, right |-> e2, free1 |-> -1, free2 |-> -1, dir |-> -1],
     [at |-> org[e1], meets |-> org[-e2], from |-> e2, to |-> -e1,
      left |-> e1, right |-> -e2, free1 |-> -1, free2 |-> 1, dir |-> 1] >>

\* The ways in which edges e1 and e2 may meet, in the order of the C cases: at
\* node at, the new edge runs from the origin of dart from to the origin of dart
\* to, its next_left and next_right are those of left and right; free1 and free2
\* are the signs of the references to the edges' free ends, dir whether e2 keeps
\* its direction.
HealCase(e1, e2) ==
  << [at |-> org[-e1], meets |-> org[e2], from |-> e1, to |-> -e2,
      left |-> e2, right |-> -e1, free1 |-> 1, free2 |-> -1, dir |-> 1],
     [at |-> org[-e1], meets |-> org[-e2], from |-> e1, to |-> e2,
      left |-> -e2, right |-> -e1, free1 |-> 1, free2 |-> 1, dir |-> -1],
     [at |-> org[e1], meets |-> org[e2], from |-> -e2, to |-> -e1,
      left |-> e1, right |-> e2, free1 |-> -1, free2 |-> -1, dir |-> -1],
     [at |-> org[e1], meets |-> org[-e2], from |-> e2, to |-> -e1,
      left |-> e1, right |-> -e2, free1 |-> -1, free2 |-> 1, dir |-> 1] >>

\* Faulty variant of HealChoice: other edges may be connected to the node.
HealChoiceAnywhere(e1, e2) ==
  LET c == HealCase(e1, e2)
      ok == {i \in 1..4 : c[i].at = c[i].meets}
  IN  {c[i] : i \in {i \in ok : \A k \in ok : i <= k}}

\* The end of e1 is tried before its start, and of two cases at one node the
\* first that meets is taken.
HealChoice(e1, e2) ==
  LET c == HealCase(e1, e2)
      meets(i) == /\ c[i].at = c[i].meets
                  /\ Leaving(c[i].at) \subseteq {e1, -e1, e2, -e2}
      ok == {i \in 1..4 : meets(i)}
  IN  {c[i] : i \in {i \in ok : \A k \in ok : i <= k}}

\* One edge in place of e1 and e2, which meet as c says.
HealMeeting(e1, e2, c, modEdge) ==
  LET m == IF modEdge THEN e1 ELSE last.edge + 1
      gone == IF modEdge THEN {e2} ELSE {e1, e2}
      D == (DOMAIN next \ Darts(gone)) \cup {m, -m}
      relinked(x) == IF x = c.free2 * e2 THEN c.free2 * m * c.dir
                     ELSE IF ~modEdge /\ x = c.free1 * e1 THEN c.free1 * m
                     ELSE x
      a == c.free1 * e1
      b == c.free1 * c.dir * e2
  IN
  /\ e1 # e2
  /\ org[e1] # org[-e1]
  /\ org[e2] # org[-e2]
  /\ checkTopoGeomRemNode(c.at, e1, e2)
  /\ IF modEdge THEN UNCHANGED last ELSE Fresh("edge", 1, MaxEdge)
  /\ next' = [d \in D |-> relinked(IF d = m THEN next[c.left]
                                   ELSE IF d = -m THEN next[c.right]
                                   ELSE next[d])]
  /\ side' = [d \in D |-> IF d = m THEN side[e1] ELSE IF d = -m THEN side[-e1] ELSE side[d]]
  /\ org' = [d \in D |-> IF d = m THEN org[c.from] ELSE IF d = -m THEN org[c.to] ELSE org[d]]
  /\ containing' = [n \in Node \ {c.at} |-> containing[n]]
  /\ relation' = updateTopoGeomEdgeHeal(e1, e2, m)
  /\ JoinLines(a, b, c.free1 * m)
  /\ Inherit(Node \ {c.at},
             [k \in (Edge \ gone) \cup {m} |-> IF k = m THEN e1 ELSE k],
             [d \in D |-> IF d = m THEN e1 ELSE IF d = -m THEN -e1 ELSE d])
  /\ UNCHANGED face

HealEdges(modEdge) ==
  \E e1, e2 \in Edge : \E c \in HealChoice(e1, e2) : HealMeeting(e1, e2, c, modEdge)

ModEdgeHeal == HealEdges(TRUE)
NewEdgeHeal == HealEdges(FALSE)
-----------------------------------------------------------------------------
(* _lwt_AddEdge, for lwt_AddEdgeModFace (modFace) and lwt_AddEdgeNewFaces  *)

\* Faulty variant of Adjacent: the faces are those of the neighbours' far sides.
AdjacentFarSide(e, d, rot) ==
  LET other(x) == IF x \in {e, -e} THEN 0 ELSE x
      cwd == other(rot[d])
      ccwd == other(CHOOSE x \in DOMAIN rot : rot[x] = d)
  IN  [nextCW |-> cwd, nextCCW |-> ccwd,
       cwFace |-> IF cwd = 0 THEN None ELSE side[-cwd],
       ccwFace |-> IF ccwd = 0 THEN None ELSE side[ccwd]]

\* _lwt_FindAdjacentEdges for the end d of new edge e, drawn with rotation rot:
\* the neighbours at its node, 0 when that is the other end of e, and the faces
\* stored on the near sides of the neighbours.
Adjacent(e, d, rot) ==
  LET other(x) == IF x \in {e, -e} THEN 0 ELSE x
      cwd == other(rot[d])
      ccwd == other(CHOOSE x \in DOMAIN rot : rot[x] = d)
  IN  [nextCW |-> cwd, nextCCW |-> ccwd,
       cwFace |-> IF cwd = 0 THEN None ELSE side[cwd],
       ccwFace |-> IF ccwd = 0 THEN None ELSE side[-ccwd]]

\* The faces the new edge gets before any split, and whether the function goes
\* on or raises one of its errors about them.
EdgeFaces(e, s, t, rot) ==
  LET span == Adjacent(e, e, rot)
      epan == Adjacent(e, -e, rot)
      found(n) == Leaving(n) # {}
      fromNode == IF containing[s] # None THEN containing[s] ELSE containing[t]
      or(f, g) == IF f = None THEN g ELSE f
      right == IF found(s) THEN or(fromNode, span.cwFace) ELSE fromNode
      left == IF found(s) THEN or(fromNode, span.ccwFace) ELSE fromNode
  IN  [left |-> IF found(t) THEN or(left, span.cwFace) ELSE left,
       right |-> IF found(t) THEN or(right, span.ccwFace) ELSE right,
       sound |-> /\ None \in {containing[s], containing[t]} \/ containing[s] = containing[t]
                 /\ found(t) => right \in {None, epan.ccwFace} /\ left \in {None, epan.cwFace}
                 /\ \A end \in {span, epan} : \/ None \in {end.cwFace, end.ccwFace}
                                             \/ end.cwFace = end.ccwFace]

Accepted(f) == f.sound /\ f.left = f.right /\ f.left # None

\* The darts' next darts once the new edge is linked in.
Linked(e, s, t, rot) ==
  LET span == Adjacent(e, e, rot)
      epan == Adjacent(e, -e, rot)
      closed == s = t
      nextRight == IF Leaving(s) # {} THEN (IF span.nextCW # 0 THEN span.nextCW ELSE -e)
                   ELSE IF closed THEN -e ELSE e
      nextLeft == IF Leaving(t) # {} THEN (IF epan.nextCW # 0 THEN epan.nextCW ELSE e)
                  ELSE IF closed THEN e ELSE -e
      prevLeft == -span.nextCCW
      prevRight == -epan.nextCCW
  IN  [d \in DOMAIN next \cup {e, -e} |->
         IF d = e THEN nextLeft
         ELSE IF d = -e THEN nextRight
         ELSE IF d = prevRight THEN -e
         ELSE IF d = prevLeft THEN e
         ELSE next[d]]

\* What the split functions read and write: the face columns and sequence.
FaceState(sd, cont) == [side |-> sd, containing |-> cont, face |-> face,
                        last |-> last.face, ret |-> 0]

\* _lwt_AddFaceSplit on the side of dart sedge of face f, with ring links nx and
\* drawing g of the new edge.  The shell of the ring contains what the new edge
\* encloses; when both rings are counterclockwise each shell contains the part of
\* the face on its own side.
AddFaceSplit(st, nx, g, sedge, f, mbrOnly) ==
  LET ring == Orbit(nx, sedge)
      isccw == ring # g.out
      outward == f # 0 /\ ~isccw
      id == st.last + 1
      facing == g.out = {} /\ ring = g.right
      within == IF facing THEN g.rest \ g.inside ELSE g.inside
      withinPts == IF facing THEN g.points \ g.insidePts ELSE g.insidePts
      sweeps(x) == IF outward THEN x \in g.rest \ within ELSE x \in within
      sweepsPt(n) == IF outward THEN n \notin withinPts ELSE n \in withinPts
  IN  IF -sedge \in ring THEN [st EXCEPT !.ret = 0]
      ELSE IF (f = 0 /\ ~isccw) \/ (mbrOnly /\ f # 0) THEN [st EXCEPT !.ret = -1]
      ELSE [side |-> [x \in DOMAIN st.side |->
                        IF \/ x \in ring
                           \/ st.side[x] = f /\ -x \notin ring /\ sweeps(x)
                        THEN id ELSE st.side[x]],
            containing |-> [n \in DOMAIN st.containing |->
                              IF st.containing[n] = f /\ sweepsPt(n)
                              THEN id ELSE st.containing[n]],
            face |-> st.face \cup {id}, last |-> id, ret |-> id]

\* Faulty variants of SplitModFace: the right side is tried first; the left side only.
SplitModFaceRightFirst(st, nx, g, e, f) ==
  LET right == AddFaceSplit(st, nx, g, -e, f, FALSE)
  IN  IF right.ret = 0 THEN right
      ELSE IF right.ret < 0 THEN AddFaceSplit(right, nx, g, e, f, FALSE)
      ELSE [AddFaceSplit(right, nx, g, e, f, TRUE) EXCEPT !.ret = right.ret]

SplitModFaceLeftOnly(st, nx, g, e, f) == AddFaceSplit(st, nx, g, e, f, FALSE)

\* The splits _lwt_AddEdge asks for on the two sides of the new edge.
SplitModFace(st, nx, g, e, f) ==
  LET left == AddFaceSplit(st, nx, g, e, f, FALSE)
  IN  IF left.ret = 0 THEN left
      ELSE IF left.ret < 0 THEN AddFaceSplit(left, nx, g, -e, f, FALSE)
      ELSE [AddFaceSplit(left, nx, g, -e, f, TRUE) EXCEPT !.ret = left.ret]

SplitNewFaces(st, nx, g, e, f) ==
  LET right == AddFaceSplit(st, nx, g, -e, f, FALSE)
  IN  IF right.ret = 0 THEN right
      ELSE LET left == AddFaceSplit(right, nx, g, e, f, FALSE)
           IN  IF f = 0 THEN left ELSE [left EXCEPT !.face = @ \ {f}]

\* The names the manual gives to the regions on the left and on the right of a
\* new edge that splits region f: ST_AddEdgeModFace makes a new face, on the
\* left if it can, ST_AddEdgeNewFaces two; the universe face always remains.
RegionNames(g, f, modFace) ==
  LET new == last.face + 1
      bounded(ring) == f # 0 \/ ring # g.out
  IN  IF modFace \/ f = 0
      THEN IF bounded(g.left) THEN [left |-> new, right |-> f] ELSE [left |-> f, right |-> new]
      ELSE [left |-> new + 1, right |-> new]

\* Edge e from node s to node t, drawn in region f as g says.
AddEdgeAs(e, s, t, f, g, modFace) ==
  LET faces == EdgeFaces(e, s, t, g.rot)
      f0 == faces.left
      nx == Linked(e, s, t, g.rot)
      sd == [d \in DOMAIN side \cup {e, -e} |-> IF d \in {e, -e} THEN f0 ELSE side[d]]
      cont == [n \in Node |-> IF n \in {s, t} THEN None ELSE containing[n]]
      before == FaceState(sd, cont)
      dangling == s # t /\ (Leaving(s) = {} \/ Leaving(t) = {})
      after == IF dangling THEN before
               ELSE IF modFace THEN SplitModFace(before, nx, g, e, f0)
               ELSE SplitNewFaces(before, nx, g, e, f0)
      names == RegionNames(g, f, modFace)
  IN
  /\ Accepted(faces)
  /\ after.last <= MaxFace
  /\ next' = nx
  /\ org' = [d \in DOMAIN org \cup {e, -e} |->
               IF d = e THEN s ELSE IF d = -e THEN t ELSE org[d]]
  /\ side' = after.side
  /\ containing' = after.containing
  /\ face' = after.face
  /\ last' = [node |-> last.node, edge |-> e, face |-> after.last]
  /\ relation' = IF f0 = 0 \/ after.ret <= 0 THEN relation
                 ELSE IF modFace THEN updateTopoGeomFaceSplit(f0, after.ret, -1)
                 ELSE updateTopoGeomFaceSplit(f0, after.ret, after.ret - 1)
  /\ DrawLine(e, g, f, names.left, names.right, {s, t})
  /\ ExtendWith(e, f)

AddEdge(modFace) ==
  LET e == last.edge + 1 IN
  /\ e <= MaxEdge
  /\ \E s, t \in Node : \E f \in face \cup {0} : \E g \in DrawingsBetween(e, s, t, f) :
       AddEdgeAs(e, s, t, f, g, modFace)

AddEdgeModFace == AddEdge(TRUE)
AddEdgeNewFaces == AddEdge(FALSE)

-----------------------------------------------------------------------------
(* _lwt_RemEdge, for lwt_RemEdgeModFace (modFace) and lwt_RemEdgeNewFace   *)

\* Faulty variant of Stranded: the start node is forgotten.
StrandedEnd(e) == {n \in {org[-e]} : Leaving(n) \subseteq {e, -e}}

\* The ends of edge e that nothing else leaves.
Stranded(e) == {n \in {org[e], org[-e]} : Leaving(n) \subseteq {e, -e}}

RemEdge(modFace) ==
  \E e \in Edge :
    LET left == side[e]
        right == side[-e]
        joins == left # right
        fresh == joins /\ 0 \notin {left, right} /\ ~modFace
        flood == IF joins /\ 0 \in {left, right} THEN 0
                 ELSE IF fresh THEN last.face + 1 ELSE right
        vanished == IF joins THEN {left, right} \ {flood} ELSE {}
        relinked(x) == IF x = -e THEN (IF next[e] # e THEN next[e] ELSE next[-e])
                       ELSE IF x = e THEN (IF next[-e] # -e THEN next[-e] ELSE next[e])
                       ELSE x
        flooded(f) == IF f \in vanished THEN flood ELSE f
        D == DOMAIN next \ {e, -e}
        bare == Stranded(e)
    IN
    /\ checkTopoGeomRemEdge(e, left, right)
    /\ IF fresh THEN Fresh("face", 1, MaxFace) ELSE UNCHANGED last
    /\ next' = [d \in D |-> relinked(next[d])]
    /\ side' = [d \in D |-> flooded(side[d])]
    /\ org' = [d \in D |-> org[d]]
    /\ containing' = [n \in Node |-> IF n \in bare THEN flood ELSE flooded(containing[n])]
    /\ face' = (face \cup (IF fresh THEN {flood} ELSE {})) \ vanished
    /\ relation' = IF joins THEN updateTopoGeomFaceHeal(right, left, flood) ELSE relation
    /\ EraseLine(e, flood, bare)
    /\ Inherit(Node, [i \in Edge \ {e} |-> i], [d \in D |-> d])

RemEdgeModFace == RemEdge(TRUE)
RemEdgeNewFace == RemEdge(FALSE)

-----------------------------------------------------------------------------
(* TopoGeometry definitions, over the primitives there are.                *)

AddElement ==
  /\ \E r \in [tg : TopoGeom, type : {1}, id : Node]
            \cup [tg : TopoGeom, type : {2}, id : Darts(Edge)]
            \cup [tg : TopoGeom, type : {3}, id : face] :
       TopoGeom_addElement(r, Node, Edge, face)
  /\ UNCHANGED <<geomVars, tableVars>>

RemElement ==
  /\ \E r \in relation : TopoGeom_remElement(r)
  /\ UNCHANGED <<geomVars, tableVars>>

ClearTopoGeom ==
  /\ \E tg \in TopoGeom : clearTopoGeom(tg)
  /\ UNCHANGED <<geomVars, tableVars>>

-----------------------------------------------------------------------------
Redefinition == AddElement \/ RemElement \/ ClearTopoGeom

Edit == \/ AddIsoNode
        \/ RemoveIsoNode
        \/ AddIsoEdge
        \/ RemIsoEdge
        \/ ModEdgeSplit
        \/ NewEdgesSplit
        \/ ModEdgeHeal
        \/ NewEdgeHeal
        \/ AddEdgeModFace
        \/ AddEdgeNewFaces
        \/ RemEdgeModFace
        \/ RemEdgeNewFace

Next == Edit \/ Redefinition

Spec == Init /\ [][Next]_vars

-----------------------------------------------------------------------------
(* Properties.                                                             *)

TypeOK ==
  /\ last \in [node : Nat, edge : Nat, face : Nat]
  /\ next \in [Darts(Edge) -> Int]
  /\ side \in [DOMAIN next -> Nat]
  /\ org \in [DOMAIN next -> Node]
  /\ containing \in [Node -> Nat \cup {None}]
  /\ Edge \subseteq 1..last.edge
  /\ Node \subseteq 1..last.node
  /\ face \subseteq 1..last.face
  /\ relation \subseteq Row

\* The columns next_left_edge and next_right_edge link every edge to its first
\* clockwise neighbour at the node it arrives at, whatever edits led here.
LinksFollowDrawing ==
  /\ DOMAIN next = DOMAIN cw
  /\ \A d \in DOMAIN next : next[d] = cw[-d]

\* start_node and end_node agree with the drawing: the darts that leave a node are
\* one turn around it.
NodesFollowDrawing ==
  \A d \in DOMAIN cw : Orbit(cw, d) = Leaving(org[d])

\* Read from the tables alone: every edge walked in either direction goes on from
\* the node it arrives at, and comes after exactly one other, so that the walk of
\* cb_getRingEdges always returns to where it started.
RingsClose ==
  /\ \A d \in DOMAIN next : next[d] \in DOMAIN next
  /\ \A d \in DOMAIN next : org[next[d]] = org[-d]
  /\ \A d, x \in DOMAIN next : next[d] = next[x] => d = x

\* A node has a containing_face exactly when no edge starts or ends at it: every
\* edit that gives a node its first edge clears it, and one that takes the last
\* sets it.
IsolatedNodesBare == \A n \in Node : containing[n] # None <=> Leaving(n) = {}

\* left_face, right_face and containing_face name the region of the plane that is
\* really there.
FacesFollowDrawing ==
  /\ side = region
  /\ \A n \in Node : containing[n] = IF n \in DOMAIN isoRegion THEN isoRegion[n] ELSE None

\* The foreign keys of CreateTopology on face and edge_data: no edit refers to a
\* face or an edge it deleted.
ForeignKeysHold ==
  /\ \A d \in DOMAIN side : side[d] \in face \cup {0}
  /\ \A n \in Node : containing[n] \in face \cup {0, None}
  /\ \A d \in DOMAIN next : next[d] \in DOMAIN next

\* Read from the tables alone: every face has exactly one counterclockwise ring
\* for shell and the universe face has none, so no face is left without area, in
\* two parts or unbounded.
OneShellPerFace ==
  LET shells == {Orbit(next, d) : d \in DOMAIN next \ hole}
  IN  \A f \in face \cup {0} :
        Cardinality({r \in shells : \E d \in r : side[d] = f}) = IF f = 0 THEN 0 ELSE 1

\* Every ring lies in one face: following next edges never changes the face.
RingsInOneFace == \A d \in DOMAIN next : side[next[d]] = side[d]

\* Euler's formula over the tables: a lost or spurious node, edge or face anywhere
\* in the history of edits shows up here.
EulerFormula ==
  LET turn == [d \in DOMAIN next |-> next[-d]]
      pieces == Cardinality({Piece(turn, d) : d \in DOMAIN next})
                + Cardinality({n \in Node : Leaving(n) = {}})
  IN  Cardinality(Node) - Cardinality(Edge) + Cardinality(face) = pieces

\* The faces are sound in themselves: one shell each, rings that stay in one face, and
\* as many as the nodes, edges and pieces there are make.
FacesSound == OneShellPerFace /\ RingsInOneFace /\ EulerFormula

\* lwt_AddEdgeModFace and lwt_AddEdgeNewFaces never refuse a curve that crosses
\* nothing with "Side-location conflict", "faces mismatch" or "Corrupted topology".
LegalEdgesAccepted ==
  \A s, t \in Node : \A f \in face \cup {0} :
    LET e == last.edge + 1
    IN  \A pq \in Places(e, s, t, f) :
          Accepted(EdgeFaces(e, s, t, InsertEdge(cw, e, pq[1], pq[2])))

\* Leaves out one step: ST_RemIsoEdge of an edge with a backward row, which its
\* check lets through.
BackwardRowsGuarded == RemIsoEdge => \A r \in relation : r.type = 2 => Abs(r.id) \in Edge'
GuardedSpec == Init /\ [][Next /\ BackwardRowsGuarded]_vars

\* Every row of the relation table refers to a primitive that exists: an edit that
\* would remove a primitive a TopoGeometry needs is refused.
RelationRefersToPrimitives ==
  \A r \in relation : CASE r.type = 1 -> r.id \in Node
                         [] r.type = 2 -> Abs(r.id) \in Edge
                         [] r.type = 3 -> r.id \in face

\* ST_NewEdgesSplit goes through whatever TopoGeometry the edge is an element of.
EdgeSplitsAccepted ==
  \A e \in Edge : updateTopoGeomEdgeSplitExecutes(e, last.edge + 1, last.edge + 2)

\* Editing the topology never changes what a TopoGeometry covers: its rows always
\* denote the points, curves and area it was last defined as.
ExtentsPreserved == \A tg \in TopoGeom : DrawnAs(relation, tg) = extent[tg]

\* The topology implements TopoGeomSpec: with faces, rows and links out of sight,
\* an object covers what its rows denote in the drawing.
Promise == INSTANCE TopoGeomSpec
           WITH points <- Node, lines <- Edge,
                covers <- [tg \in TopoGeom |-> DrawnAs(relation, tg)]

\* Every edit, seen through the relation rows, carries each TopoGeometry over to the
\* new drawing or is refused, and only addElement, remElement and clearTopoGeom
\* change what one covers; stated without the history variable extent.
EditsCarryTopoGeoms == Promise!TopoGeomSpec
=============================================================================
