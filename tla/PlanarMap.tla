------------------------------ MODULE PlanarMap ------------------------------
(***************************************************************************)
(* What the geometry columns of a PostGIS topology say, with coordinates   *)
(* abstracted away: a plane drawing of curves between points.              *)
(*                                                                         *)
(* An edge e is walked in two directions, the darts e (forward) and -e     *)
(* (backward), as in the signed edge ids of liblwgeom/topo.  Of the        *)
(* coordinates only four facts are kept, the four that the C code asks     *)
(* the geometries for:                                                     *)
(*   cw        the next dart clockwise around the node a dart leaves       *)
(*             (the azimuths compared by _lwt_FindAdjacentEdges);          *)
(*   hole      the darts whose ring is clockwise, i.e. the outer boundary  *)
(*             of a connected piece seen from outside (isccw = 0 in        *)
(*             _lwt_MakeRingShell);                                        *)
(*   region    the region of the plane on the left of a dart;              *)
(*   isoRegion the region an isolated point lies in.                       *)
(* Nothing here is stored by PostGIS under these names: the tables are in  *)
(* module Topology and must agree with this drawing.                       *)
(***************************************************************************)
EXTENDS Integers, FiniteSets

VARIABLES cw, hole, region, isoRegion

geomVars == <<cw, hole, region, isoRegion>>

-----------------------------------------------------------------------------
(* Darts, rotations and rings.                                             *)

Darts(E) == E \cup {-e : e \in E}

\* The darts reached from d along f, in at most as many steps as f has darts.
Orbit(f, d) ==
  LET n == Cardinality(DOMAIN f)
      step[i \in 0..n] == IF i = 0 THEN d ELSE f[step[i - 1]]
  IN  {step[i] : i \in 0..n}

\* Walking with the region on the left, the dart after d leaves the node d
\* arrives at, and is the first one clockwise from where d comes in.
Walk(rot) == [d \in DOMAIN rot |-> rot[-d]]

Ring(d) == Orbit(Walk(cw), d)

\* The connected piece of the drawing that d belongs to.
Piece(rot, d) ==
  LET n == Cardinality(DOMAIN rot)
      reach[i \in 0..n] ==
        IF i = 0 THEN {d}
        ELSE LET r == reach[i - 1] IN r \cup {rot[x] : x \in r} \cup {-x : x \in r}
  IN  reach[n]

\* The rotation with dart d put right after p clockwise; p = 0 when nothing
\* leaves the node yet.
InsertDart(rot, d, p) ==
  [x \in DOMAIN rot \cup {d} |->
     IF x = d THEN (IF p = 0 THEN d ELSE rot[p])
     ELSE IF x = p THEN d ELSE rot[x]]

InsertEdge(rot, e, p, q) == InsertDart(InsertDart(rot, e, p), -e, q)

\* The rotation without the two darts of edge e.
DropEdge(rot, e) ==
  LET past(x) == IF x \in {e, -e} THEN rot[x] ELSE x
  IN  [x \in DOMAIN rot \ {e, -e} |-> past(past(rot[x]))]

-----------------------------------------------------------------------------
(* What the drawing of a new curve e may look like: g is the drawing with  *)
(* its end inserted after darts p and q, in region f.                      *)
(*   left, right  the rings on its two sides, equal when it closes nothing *)
(*   out          the ring that is clockwise afterwards, if one of the two *)
(*                is; closing a loop on the outside of a piece leaves the  *)
(*                choice of the side that encloses it                      *)
(*   inside       the other pieces (by their outer rings) and isolated     *)
(*                points of region f that the curve encloses: on its left  *)
(*                when both rings are counterclockwise                     *)

Drawings(e, p, q, f, ends) ==
  LET rot == InsertEdge(cw, e, p, q)
      left == Orbit(Walk(rot), e)
      right == Orbit(Walk(rot), -e)
      splits == -e \notin left
      wasHole == (left \cup right) \ {e, -e} \subseteq hole
      rest == {x \in DOMAIN cw : region[x] = f} \ (left \cup right)
      pieces == {Ring(x) : x \in rest \cap hole}
      points == {n \in DOMAIN isoRegion : isoRegion[n] = f} \ ends
  IN  {[rot |-> rot, left |-> left, right |-> right, splits |-> splits, out |-> out,
        rest |-> rest, points |-> points, inside |-> UNION ps, insidePts |-> ns] :
         out \in IF wasHole THEN {left, right} ELSE {{}},
         ps \in IF splits THEN SUBSET pieces ELSE {{}},
         ns \in IF splits THEN SUBSET points ELSE {{}}}

\* Everything of region f on the left of the new curve.
OnLeft(g) == g.left \cup (IF g.out = g.left THEN g.rest \ g.inside ELSE g.inside)
PointsOnLeft(g) == IF g.out = g.left THEN g.points \ g.insidePts ELSE g.insidePts

-----------------------------------------------------------------------------
(* The edits of a drawing.                                                 *)

GeomInit ==
  /\ cw = [d \in {} |-> 0]
  /\ hole = {}
  /\ region = [d \in {} |-> 0]
  /\ isoRegion = [n \in {} |-> 0]

DrawPoint(n, f) ==
  /\ isoRegion' = [m \in DOMAIN isoRegion \cup {n} |-> IF m = n THEN f ELSE isoRegion[m]]
  /\ UNCHANGED <<cw, hole, region>>

ErasePoint(n) ==
  /\ isoRegion' = [m \in DOMAIN isoRegion \ {n} |-> isoRegion[m]]
  /\ UNCHANGED <<cw, hole, region>>

\* Draw curve e in region f as g says; l and r name the regions on its two sides.
DrawLine(e, g, f, l, r, ends) ==
  LET onLeft == OnLeft(g)
      ptsOnLeft == PointsOnLeft(g)
  IN  /\ cw' = g.rot
      /\ hole' = (hole \ (g.left \cup g.right)) \cup g.out
      /\ region' = [x \in DOMAIN g.rot |->
                      IF x \notin {e, -e} /\ region[x] # f THEN region[x]
                      ELSE IF ~g.splits THEN f
                      ELSE IF x \in onLeft THEN l ELSE r]
      /\ isoRegion' = [n \in DOMAIN isoRegion \ ends |->
                         IF isoRegion[n] # f \/ ~g.splits THEN isoRegion[n]
                         ELSE IF n \in ptsOnLeft THEN l ELSE r]

\* Erase curve e; f names the region that covers what was on its two sides,
\* and bare are the points nothing else leaves.
EraseLine(e, f, bare) ==
  LET rings == Ring(e) \cup Ring(-e)
      kept == rings \ {e, -e}
      rot == DropEdge(cw, e)
      merged == {region[e], region[-e]}
  IN  /\ cw' = rot
      /\ hole' = IF -e \in Ring(e)
                 THEN IF e \in hole THEN hole \ {e, -e}
                      ELSE hole \cup {x \in kept : Piece(rot, x) \cap hole = {}}
                 ELSE IF {e, -e} \cap hole # {} THEN (hole \cup kept) \ {e, -e}
                      ELSE hole
      /\ region' = [x \in DOMAIN rot |-> IF region[x] \in merged THEN f ELSE region[x]]
      /\ isoRegion' = [n \in DOMAIN isoRegion \cup bare |->
                         IF n \in bare \/ isoRegion[n] \in merged THEN f ELSE isoRegion[n]]

\* Cut curve e at a new point into curve i, up to the point, and curve j, from it.
CutLine(e, i, j) ==
  LET ren(x) == IF x = e THEN i ELSE IF x = -e THEN -j ELSE x
      was(x) == IF x \in {i, j} THEN e ELSE IF x \in {-i, -j} THEN -e ELSE x
      D == (DOMAIN cw \ {e, -e}) \cup {i, -i, j, -j}
  IN  /\ cw' = [x \in D |-> IF x = -i THEN j ELSE IF x = j THEN -i ELSE ren(cw[was(x)])]
      /\ hole' = {x \in D : was(x) \in hole}
      /\ region' = [x \in D |-> region[was(x)]]
      /\ UNCHANGED isoRegion

\* Join the curves of darts a and b, of which b leaves the point a arrives at and
\* nothing else does, into the curve of dart m, from where a starts to where b ends.
JoinLines(a, b, m) ==
  LET ren(x) == IF x = a THEN m ELSE IF x = -b THEN -m ELSE x
      was(x) == IF x = m THEN a ELSE IF x = -m THEN -b ELSE x
      D == (DOMAIN cw \ {a, -a, b, -b}) \cup {m, -m}
  IN  /\ cw' = [x \in D |-> ren(cw[was(x)])]
      /\ hole' = {x \in D : was(x) \in hole}
      /\ region' = [x \in D |-> region[was(x)]]
      /\ UNCHANGED isoRegion
=============================================================================
