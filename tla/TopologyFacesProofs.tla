---------------------------- MODULE TopologyFacesProofs ----------------------------
(* The faces and the TopoGeometries of Topology, for every number of nodes, edges and *)
(* faces and every TopoGeometry, and that every edit carries what a TopoGeometry      *)
(* covers over, as TopoGeomSpec promises.                                             *)
(*                                                                                    *)
(* The argument, in the order of the module. Planar, which TopologyProofs shows of    *)
(* the changes of a rotation, holds of the drawing before and after every edit; it is *)
(* what makes a split of a face by its rings right (PlaneInv). Then Euler's formula   *)
(* (EulerInv); and last that each step changes nodes, edges and faces in one of seven *)
(* ways (Carries) and the rows with them, so that what the rows denote is carried     *)
(* over (ObjectsInv). Then TopologyCleanup, whose tables are compared with those the  *)
(* call found until the links are mended and the faces relabelled (Deleting).         *)
EXTENDS TopologyProofs, TopologyCleanup

\* A set of rings is entered from within only.
LEMMA WalkedBoth ==
  ASSUME NEW c, NEW D, Rotates(c, D), NEW S, S \subseteq D, Walked(c, S)
  PROVE  \A x \in D : c[-x] \in D /\ (c[-x] \in S <=> x \in S)
<1>1. PICK T \in SUBSET D : T = S /\ Walked(c, T)
  OBVIOUS
<1>2. \A x \in D : c[-x] \in T <=> x \in T
  BY <1>1, WalkedSets
<1>3. \A x \in D : c[-x] \in D
  BY WalkPermutes
<1> QED BY <1>1, <1>2, <1>3

-----------------------------------------------------------------------------
(* Drawing a curve between two nodes.                                        *)

\* The ends of a curve drawn in region f are put into corners of that region.
EndsFacing(e, s, t, p, q, f) ==
  /\ p # 0 => region[cw[p]] = f
  /\ q \notin {0, e} => region[cw[q]] = f
  /\ Leaving(s) = {} => isoRegion[s] = f
  /\ Leaving(t) = {} => isoRegion[t] = f

\* That is what Places looks for.
LEMMA PlacesFacing ==
  ASSUME TypeOK, NEW e, NEW s, NEW t, NEW p, NEW q, NEW f, <<p, q>> \in Places(e, s, t, f),
         EndsPlaced(e, s, t, p, q)
  PROVE  EndsFacing(e, s, t, p, q, f)
<1>1. p \in Sectors(s, f) /\ q \in IF s # t THEN Sectors(t, f) ELSE {e} \cup (Sectors(s, f) \ {0})
  BY DEF Places
<1>2. \A n, x : x \in Sectors(n, f) => IF Leaving(n) = {} THEN x = 0 /\ isoRegion[n] = f
                                       ELSE x \in Leaving(n) /\ region[cw[x]] = f
  BY DEF Sectors
<1>3. p = 0 <=> Leaving(s) = {}
  BY DEF EndsPlaced
<1>4. (p # 0 => region[cw[p]] = f) /\ (Leaving(s) = {} => isoRegion[s] = f)
  BY <1>1, <1>2, <1>3
<1>5. (q \notin {0, e} => region[cw[q]] = f) /\ (Leaving(t) = {} => isoRegion[t] = f)
  <2>1. CASE s # t
    BY <1>1, <1>2, <2>1 DEF EndsPlaced
  <2>2. CASE s = t
    BY <1>1, <1>2, <1>4, <2>2
  <2> QED BY <2>1, <2>2
<1> QED BY <1>4, <1>5 DEF EndsFacing

\* The new rotation has one curve more.
LEMMA DrawnGrows ==
  ASSUME NEW e, NEW p, NEW q, Placed(e, p, q), NEW B, B = DOMAIN cw \cup {e, -e},
         NEW b, b = Inserted(e, p, q), Rotates(cw, DOMAIN cw), Rotates(b, B)
  PROVE  Grows(cw, DOMAIN cw, b, B, e)
<1>1. /\ \A x \in DOMAIN cw : x \in Int /\ cw[x] \in DOMAIN cw
      /\ \A x, y \in DOMAIN cw : cw[x] = cw[y] => x = y
  BY DEF Rotates, Permutes
<1>2. \A x \in B : b[x] = After(e, p, q, x)
  BY DEF Inserted
<1>3. /\ e \in Int \ {0} /\ e \notin DOMAIN cw /\ -e \notin DOMAIN cw /\ e # -e /\ -(-e) = e
      /\ e \in B /\ -e \in B /\ 0 \notin DOMAIN cw /\ p \in Int /\ q \in Int
      /\ p \in DOMAIN cw \cup {0} /\ q \in DOMAIN cw \cup {0, e}
  BY DEF Placed
<1>4. ASSUME NEW x \in DOMAIN cw
      PROVE  cw[x] = IF b[x] \notin {e, -e} THEN b[x]
                     ELSE IF b[b[x]] \notin {e, -e} THEN b[b[x]] ELSE b[b[b[x]]]
  <2>1. x \in B /\ x # e /\ x # -e /\ x # 0 /\ cw[x] \notin {e, -e}
    BY <1>1, <1>3
  <2>2. b[x] = IF x = q THEN -e ELSE IF x = p THEN e ELSE cw[x]
    BY <1>2, <2>1 DEF After
  <2>3. b[e] = IF e = q THEN -e ELSE IF p = 0 THEN e ELSE cw[p]
    BY <1>2, <1>3 DEF After
  <2>4. b[-e] = IF q = 0 THEN -e ELSE IF q = e THEN (IF p = 0 THEN e ELSE cw[p])
                ELSE IF q = p THEN e ELSE cw[q]
    BY <1>2, <1>3 DEF After
  <2>5. CASE x = q
    BY <1>1, <1>3, <2>1, <2>2, <2>3, <2>4, <2>5
  <2>6. CASE x # q /\ x = p
    BY <1>1, <1>3, <2>1, <2>2, <2>3, <2>4, <2>6
  <2>7. CASE x # q /\ x # p
    BY <2>1, <2>2, <2>7
  <2> QED BY <2>5, <2>6, <2>7
<1> QED BY <1>3, <1>4 DEF Grows

\* The regions on the left of darts, with those of curve e in region f.
WithCurve(rg, D, e, f) == [x \in D \cup {e, -e} |-> IF x \in {e, -e} THEN f ELSE rg[x]]

\* The curve stays in its region.
LEMMA DrawnRegions ==
  ASSUME NEW e, NEW s, NEW t, NEW p, NEW q, Placed(e, p, q), NEW f, EndsFacing(e, s, t, p, q, f),
         NEW B, B = DOMAIN cw \cup {e, -e}, NEW b, b = Inserted(e, p, q),
         Rotates(cw, DOMAIN cw), Rotates(b, B), OneRegion(cw, DOMAIN cw, region)
  PROVE  OneRegion(b, B, WithCurve(region, DOMAIN cw, e, f))
<1> DEFINE ra == WithCurve(region, DOMAIN cw, e, f)
<1>1. /\ \A x \in DOMAIN cw : x \in Int /\ -x \in DOMAIN cw /\ -(-x) = x /\ cw[x] \in DOMAIN cw
      /\ \A x \in DOMAIN cw : region[cw[x]] = region[-x]
  <2>1. \A x \in DOMAIN cw : x \in Int /\ -x \in DOMAIN cw /\ -(-x) = x /\ cw[x] \in DOMAIN cw
    BY DEF Rotates, Permutes
  <2> QED BY <2>1 DEF OneRegion
<1>2. \A x \in B : b[x] = After(e, p, q, x) /\ b[x] \in B
  BY DEF Inserted, Rotates, Permutes
<1>3. /\ e \in Int \ {0} /\ e \notin DOMAIN cw /\ -e \notin DOMAIN cw /\ e # -e /\ -(-e) = e
      /\ e \in B /\ -e \in B /\ 0 \notin DOMAIN cw /\ p \in Int /\ q \in Int
      /\ p \in DOMAIN cw \cup {0} /\ q \in DOMAIN cw \cup {0, e}
  BY DEF Placed
<1>4. /\ \A x \in DOMAIN cw : ra[x] = region[x]
      /\ ra[e] = f /\ ra[-e] = f
  BY <1>3 DEF WithCurve
<1> HIDE DEF ra
<1>5. (p # 0 => ra[cw[p]] = f) /\ (q \notin {0, e} => ra[cw[q]] = f)
  BY <1>1, <1>3, <1>4 DEF EndsFacing
<1>6. ra[b[e]] = f /\ ra[b[-e]] = f
  BY <1>2, <1>3, <1>4, <1>5 DEF After
<1>7. ASSUME NEW y \in DOMAIN cw PROVE ra[b[y]] = ra[-y]
  <2>1. y # e /\ y # -e /\ ra[cw[y]] = ra[-y]
    BY <1>1, <1>3, <1>4
  <2>2. b[y] = IF y = q THEN -e ELSE IF y = p THEN e ELSE cw[y]
    BY <1>2, <2>1 DEF After
  <2>3. CASE y = q
    BY <1>3, <1>4, <1>5, <2>1, <2>2, <2>3
  <2>4. CASE y # q /\ y = p
    BY <1>3, <1>4, <1>5, <2>1, <2>2, <2>4
  <2>5. CASE y # q /\ y # p
    BY <2>1, <2>2, <2>5
  <2> QED BY <2>3, <2>4, <2>5
<1>8. ASSUME NEW x \in B PROVE ra[b[-x]] = ra[x]
  <2>1. CASE x \in DOMAIN cw
    <3>1. -x \in DOMAIN cw /\ -(-x) = x
      BY <1>1, <2>1
    <3> QED BY <1>7, <3>1
  <2>2. CASE x \in {e, -e}
    BY <1>3, <1>4, <1>6, <2>2
  <2> QED BY <2>1, <2>2
<1> QED BY <1>8 DEF OneRegion, ra

\* Drawing g of curve e in region f, with b the rotation afterwards.
DrawsAs(g, b, e, f, ends) ==
  /\ g.left = Orbit(Walk(b), e) /\ g.right = Orbit(Walk(b), -e)
  /\ g.splits <=> -e \notin g.left
  /\ g.rest = {x \in DOMAIN cw : region[x] = f} \ (g.left \cup g.right)
  /\ g.out \in IF (g.left \cup g.right) \ {e, -e} \subseteq hole THEN {g.left, g.right} ELSE {{}}
  /\ \E ps : ps \subseteq {Ring(x) : x \in g.rest \cap hole} /\ g.inside = UNION ps
  /\ g.points = {n \in DOMAIN isoRegion : isoRegion[n] = f} \ ends
  /\ g.insidePts \subseteq g.points

\* What Drawings lets be drawn.
LEMMA DrawingsAs ==
  ASSUME NEW e, NEW p, NEW q, NEW f, NEW ends, NEW g \in Drawings(e, p, q, f, ends)
  PROVE  DrawsAs(g, InsertEdge(cw, e, p, q), e, f, ends)
<1>1. /\ g.left = Orbit(Walk(InsertEdge(cw, e, p, q)), e)
      /\ g.right = Orbit(Walk(InsertEdge(cw, e, p, q)), -e)
  BY DEF Drawings
<1>2. g.splits <=> -e \notin g.left
  <2>1. g.splits = (-e \notin Orbit(Walk(InsertEdge(cw, e, p, q)), e))
    BY DEF Drawings
  <2> QED BY ONLY <1>1, <2>1, Zenon
<1>3. g.rest = {x \in DOMAIN cw : region[x] = f} \ (g.left \cup g.right)
  BY DEF Drawings
<1>4. g.out \in IF (g.left \cup g.right) \ {e, -e} \subseteq hole THEN {g.left, g.right} ELSE {{}}
  BY DEF Drawings
<1>5. \E ps : ps \subseteq {Ring(x) : x \in g.rest \cap hole} /\ g.inside = UNION ps
  BY DEF Drawings
<1>6. g.points = {n \in DOMAIN isoRegion : isoRegion[n] = f} \ ends /\ g.insidePts \subseteq g.points
  BY DEF Drawings
<1> QED BY <1>1, <1>2, <1>3, <1>4, <1>5, <1>6 DEF DrawsAs

\* A curve that parts a ring: what is on its left is a set of rings, and what is on its
\* right has the rest of the region.
PartedSides(A, b, B, f, g) ==
  /\ g.left \subseteq B /\ g.right \subseteq B /\ g.left \cap g.right = {}
  /\ Walked(b, OnLeft(g)) /\ OnLeft(g) \subseteq B
  /\ g.left \subseteq OnLeft(g) /\ g.right \cap OnLeft(g) = {}
  /\ g.inside \subseteq g.rest \cap hole /\ g.rest \subseteq A
  /\ OnLeft(g) \subseteq g.left \cup g.rest

\* What lies on the left of a curve that parts its region is a union of rings, those of its own
\* ring and of some of the others of the region.
LEMMA DrawnSides ==
  ASSUME NEW e, NEW b, NEW B, NEW f, NEW g, NEW ends, DrawsAs(g, b, e, f, ends),
         Grows(cw, DOMAIN cw, b, B, e), -e \notin g.left,
         OneRegion(cw, DOMAIN cw, region), HolesWhole(cw, DOMAIN cw, hole)
  PROVE  PartedSides(DOMAIN cw, b, B, f, g)
<1> DEFINE A == DOMAIN cw
           K == (g.left \cup g.right) \ {e, -e}
<1>0. Rotates(cw, A) /\ Rotates(b, B) /\ A \subseteq B
  BY DEF Grows
<1>1. Parts(b, e, g.left, g.right, K)
  BY DEF DrawsAs, Parts
<1> HIDE DEF A, K
<1> USE DEF A
<1>2. /\ g.left \cap g.right = {} /\ g.left \subseteq B /\ g.right \subseteq B
      /\ Walked(b, g.left) /\ Walked(b, g.right) /\ K \subseteq A /\ Walked(cw, K)
      /\ e \in g.left /\ -e \in g.right
  BY <1>1, PartedRings
<1>3. \A S \in SUBSET A : Walked(cw, S) /\ S \cap K # {} => K \subseteq S
  BY <1>1, PartedRings
<1>4. \A S \in SUBSET A : Walked(cw, S) => S \ K \in SUBSET B /\ Walked(b, S \ K)
  <2>1. PartedAlike(cw, A, b, B, e, g.left, g.right, K)
    BY <1>1, PartedSets
  <2> QED BY <2>1 DEF PartedAlike
<1>5. PICK F \in SUBSET A : F = {x \in A : region[x] = f} /\ Walked(cw, F)
  <2>1. Walked(cw, {x \in A : region[x] = f})
    BY <1>0, RegionWalked
  <2> QED BY <2>1
<1>6. g.rest = F \ (g.left \cup g.right) /\ g.rest = F \ K
  <2>1. g.rest = F \ (g.left \cup g.right)
    BY <1>5 DEF DrawsAs
  <2>2. e \notin A /\ -e \notin A
    BY DEF Grows
  <2> QED BY <2>1, <2>2 DEF K
<1>7. Walked(b, g.rest) /\ g.rest \subseteq A /\ Walked(cw, g.rest)
  <2>1. Walked(b, F \ K) /\ Walked(cw, F \ K)
    BY <1>0, <1>2, <1>4, <1>5, WalkedMinus
  <2> QED BY <1>6, <2>1
<1>8. PICK ps : ps \subseteq {Ring(x) : x \in g.rest \cap hole} /\ g.inside = UNION ps
  BY DEF DrawsAs
<1>9. \A x \in g.rest \cap hole : Ring(x) \subseteq g.rest \cap hole /\ Walked(cw, Ring(x))
  <2> TAKE x \in g.rest \cap hole
  <2>1. x \in A
    BY <1>7
  <2>2. /\ x \in Ring(x) /\ Ring(x) \subseteq A
        /\ \A y \in A : cw[-y] \in Ring(x) <=> y \in Ring(x)
        /\ \A S : x \in S /\ Walked(cw, S \cap A) => Ring(x) \subseteq S
    BY <1>0, <2>1, RingsPart DEF Ring
  <2>3. Walked(cw, g.rest \cap hole)
    <3>1. hole \in SUBSET A /\ Walked(cw, hole)
      BY DEF HolesWhole, Walked
    <3> QED BY <1>0, <1>7, <3>1, WalkedMinus
  <2>4. (g.rest \cap hole) \cap A = g.rest \cap hole
    BY <1>7
  <2>5. Ring(x) \subseteq g.rest \cap hole
    BY <2>2, <2>3, <2>4
  <2>6. Walked(cw, Ring(x))
    BY <2>2 DEF Walked
  <2> QED BY <2>5, <2>6
<1>10. g.inside \subseteq g.rest \cap hole
  BY <1>8, <1>9
<1>11. Walked(cw, g.inside)
  <2>1. \A y \in g.inside : \E x \in g.rest \cap hole : y \in Ring(x) /\ Ring(x) \subseteq g.inside
    BY <1>8
  <2>2. ASSUME NEW y \in g.inside PROVE cw[-y] \in g.inside
    <3>1. PICK x \in g.rest \cap hole : y \in Ring(x) /\ Ring(x) \subseteq g.inside
      BY <2>1
    <3>2. cw[-y] \in Ring(x)
      BY <1>9, <3>1 DEF Walked
    <3> QED BY <3>1, <3>2
  <2> QED BY <2>2 DEF Walked
<1>12. Walked(b, g.inside)
  <2>1. g.inside \subseteq A /\ g.inside \cap K = {}
    BY <1>6, <1>7, <1>10
  <2>2. g.inside \ K = g.inside /\ g.inside \in SUBSET A
    BY <2>1
  <2>3. Walked(b, g.inside \ K)
    BY <1>4, <1>11, <2>2
  <2> QED BY <2>2, <2>3
<1>13. Walked(b, g.rest \ g.inside)
  BY <1>0, <1>7, <1>10, <1>12, WalkedMinus
<1>14. PICK V : V \in {g.inside, g.rest \ g.inside} /\ OnLeft(g) = g.left \cup V
  BY DEF OnLeft
<1>15. V \subseteq g.rest /\ Walked(b, V) /\ V \in SUBSET B
  BY <1>0, <1>7, <1>10, <1>12, <1>13, <1>14
<1>16. Walked(b, OnLeft(g))
  <2>1. Walked(b, g.left \cup V)
    BY <1>0, <1>2, <1>15, WalkedMinus
  <2> QED BY <1>14, <2>1
<1>17. g.rest \cap g.left = {} /\ g.rest \cap g.right = {}
  BY <1>6
<1> QED BY <1>2, <1>7, <1>10, <1>14, <1>15, <1>16, <1>17 DEF PartedSides

\* The names l and r of the regions on the two sides of a curve are new or that of the
\* region it is drawn in, and the universe keeps its own.
NewNames(f, l, r, g) ==
  /\ l # r
  /\ \A x \in DOMAIN cw : region[x] \in {l, r} => region[x] = f
  /\ l = 0 <=> f = 0 /\ g.out = g.left
  /\ r = 0 <=> f = 0 /\ g.out = g.right

\* The outer boundaries and the regions with curve e, which splits f into l and r or
\* nothing.
HolesWith(g) == (hole \ (g.left \cup g.right)) \cup g.out
RegionsWith(B, e, g, f, l, r) ==
  [x \in B |-> IF x \notin {e, -e} /\ region[x] # f THEN region[x]
               ELSE IF ~g.splits THEN f ELSE IF x \in OnLeft(g) THEN l ELSE r]

\* A curve that splits nothing leaves a drawing.
LEMMA BridgeStepPlanar ==
  ASSUME Planar(cw, DOMAIN cw, hole, region), NEW e, NEW s, NEW t, NEW p, NEW q, Placed(e, p, q),
         NEW f, EndsFacing(e, s, t, p, q, f), NEW B, B = DOMAIN cw \cup {e, -e},
         NEW b, b = Inserted(e, p, q), Rotates(b, B), NEW g, NEW ends, DrawsAs(g, b, e, f, ends),
         ~g.splits, NEW l, NEW r
  PROVE  Planar(b, B, HolesWith(g), RegionsWith(B, e, g, f, l, r))
<1> DEFINE A == DOMAIN cw
           L == g.left
           rb == RegionsWith(B, e, g, f, l, r)
           hb == HolesWith(g)
<1>1. Rotates(cw, A) /\ OneRegion(cw, A, region)
  BY DEF Planar
<1>2. Grows(cw, A, b, B, e)
  BY <1>1, DrawnGrows
<1>3. OneRegion(b, B, WithCurve(region, A, e, f))
  BY <1>1, DrawnRegions
<1>4. rb = WithCurve(region, A, e, f)
  <2>1. \A x \in B : rb[x] = WithCurve(region, A, e, f)[x]
    BY DEF RegionsWith, WithCurve
  <2> QED BY <2>1 DEF RegionsWith, WithCurve
<1>5. L = Orbit(Walk(b), e) /\ -e \in L
  BY DEF DrawsAs
<1>6. g.right = L
  <2>1. e \in B
    OBVIOUS
  <2>2. \A y \in L : Orbit(Walk(b), y) = L
    BY <1>5, <2>1, RingsPart
  <2> QED BY <1>5, <2>2 DEF DrawsAs
<1>7. g.out \in IF L \ {e, -e} \subseteq hole THEN {L} ELSE {{}}
  <2>1. g.left \cup g.right = L /\ {g.left, g.right} = {L}
    BY <1>6
  <2> QED BY <2>1 DEF DrawsAs
<1>8. hb = (hole \ L) \cup (IF L \ {e, -e} \subseteq hole THEN L ELSE {})
  BY <1>6, <1>7 DEF HolesWith
<1>9. Extends(A, region, rb)
  <2>1. \A x \in A : WithCurve(region, A, e, f)[x] = region[x]
    BY <1>2 DEF WithCurve, Grows
  <2> QED BY <1>4, <2>1 DEF Extends
<1>10. OneRegion(b, B, rb)
  BY <1>3, <1>4
<1> HIDE DEF A, L, rb, hb
<1>11. Planar(cw, A, hole, region)
  BY DEF A
<1> QED BY <1>2, <1>5, <1>8, <1>9, <1>10, <1>11, BridgePlanar DEF rb, hb

\* Regions on the two sides of a curve that splits f: all darts of f on its left go to l,
\* the others to r.
LEMMA SplitRegions ==
  ASSUME NEW e, NEW A, NEW B, NEW b, Grows(cw, A, b, B, e), A = DOMAIN cw,
         NEW f, NEW g, NEW ends, DrawsAs(g, b, e, f, ends), g.splits,
         OneRegion(cw, A, region), OneRegion(b, B, WithCurve(region, A, e, f)),
         HolesWhole(cw, A, hole), NEW l, NEW r, NewNames(f, l, r, g),
         NEW rb, rb = RegionsWith(B, e, g, f, l, r)
  PROVE  /\ OneRegion(b, B, rb) /\ Merges(A, region, rb, f, l, r)
         /\ (\A x \in g.left : rb[x] = l) /\ (\A x \in g.right : rb[x] = r)
<1> DEFINE rf == WithCurve(region, A, e, f)
<1>1. -e \notin g.left
  BY DEF DrawsAs
<1>2. PartedSides(A, b, B, f, g)
  BY <1>1, DrawnSides
<1>3. Rotates(b, B) /\ B = A \cup {e, -e} /\ e \notin A /\ -e \notin A /\ e \in B /\ -e \in B
  BY DEF Grows
<1>4. \A x \in B : rb[x] = IF rf[x] # f THEN rf[x] ELSE IF x \in OnLeft(g) THEN l ELSE r
  BY <1>3 DEF RegionsWith, WithCurve
<1>5. /\ \A x \in A : rf[x] = region[x]
      /\ rf[e] = f /\ rf[-e] = f
  BY <1>3 DEF WithCurve
<1> HIDE DEF rf
<1>6. \A x \in B : b[-x] \in B /\ rf[b[-x]] = rf[x] /\ (b[-x] \in OnLeft(g) <=> x \in OnLeft(g))
  <2>1. \A x \in B : b[-x] \in B
    BY <1>3, WalkPermutes
  <2>2. \A x \in B : rf[b[-x]] = rf[x]
    BY DEF OneRegion, rf
  <2>3. OnLeft(g) \subseteq B /\ Walked(b, OnLeft(g))
    BY <1>2 DEF PartedSides
  <2>4. \A x \in B : b[-x] \in OnLeft(g) <=> x \in OnLeft(g)
    BY <1>3, <2>3, WalkedBoth
  <2> QED BY <2>1, <2>2, <2>4
<1>7. OneRegion(b, B, rb)
  <2>1. ASSUME NEW x \in B PROVE rb[b[-x]] = rb[x]
    BY <1>4, <1>6
  <2> QED BY <2>1 DEF OneRegion
<1>8. Merges(A, region, rb, f, l, r)
  <2>1. ASSUME NEW x \in A
        PROVE  IF rb[x] \in {l, r} THEN region[x] = f ELSE region[x] = rb[x] /\ region[x] # f
    <3>1. rb[x] = IF region[x] # f THEN region[x] ELSE IF x \in OnLeft(g) THEN l ELSE r
      BY <1>3, <1>4, <1>5
    <3>2. region[x] \in {l, r} => region[x] = f
      BY DEF NewNames
    <3> QED BY <3>1, <3>2
  <2> QED BY <2>1 DEF Merges, NewNames
<1>9. /\ \A x \in g.left : rf[x] = f
      /\ \A x \in g.right : rf[x] = f
  <2>1. PICK F \in SUBSET B : F = {x \in B : rf[x] = f} /\ Walked(b, F)
    <3>1. \A x \in {y \in B : rf[y] = f} : b[-x] \in {y \in B : rf[y] = f}
      BY <1>6
    <3> QED BY <3>1 DEF Walked
  <2>2. e \in F /\ -e \in F /\ F \cap B = F
    BY <1>3, <1>5, <2>1
  <2>3. g.left \subseteq F
    <3>1. g.left = Orbit(Walk(b), e)
      BY DEF DrawsAs
    <3> QED BY <1>3, <2>1, <2>2, <3>1, RingsPart
  <2>4. g.right \subseteq F
    <3>1. g.right = Orbit(Walk(b), -e)
      BY DEF DrawsAs
    <3> QED BY <1>3, <2>1, <2>2, <3>1, RingsPart
  <2> QED BY <2>1, <2>3, <2>4
<1>10. (\A x \in g.left : rb[x] = l) /\ (\A x \in g.right : rb[x] = r)
  <2>1. /\ g.left \subseteq B /\ g.right \subseteq B
        /\ g.left \subseteq OnLeft(g) /\ g.right \cap OnLeft(g) = {}
    BY <1>2 DEF PartedSides
  <2> QED BY <1>4, <1>9, <2>1
<1> QED BY <1>7, <1>8, <1>10

\* A curve that splits its region leaves a drawing.
LEMMA SplitStepPlanar ==
  ASSUME Planar(cw, DOMAIN cw, hole, region), NEW e, NEW s, NEW t, NEW p, NEW q, Placed(e, p, q),
         NEW f, EndsFacing(e, s, t, p, q, f), NEW B, B = DOMAIN cw \cup {e, -e},
         NEW b, b = Inserted(e, p, q), Rotates(b, B), NEW g, NEW ends, DrawsAs(g, b, e, f, ends),
         g.splits, NEW l, NEW r, NewNames(f, l, r, g)
  PROVE  Planar(b, B, HolesWith(g), RegionsWith(B, e, g, f, l, r))
<1> DEFINE A == DOMAIN cw
           L == g.left
           R == g.right
           K == (L \cup R) \ {e, -e}
           rb == RegionsWith(B, e, g, f, l, r)
           hb == HolesWith(g)
<1>1. /\ Rotates(cw, A) /\ OneRegion(cw, A, region) /\ HolesWhole(cw, A, hole)
      /\ Planar(cw, A, hole, region)
  BY DEF Planar
<1>2. Grows(cw, A, b, B, e)
  BY <1>1, DrawnGrows
<1>3. OneRegion(b, B, WithCurve(region, A, e, f))
  BY <1>1, DrawnRegions
<1>4. /\ OneRegion(b, B, rb) /\ Merges(A, region, rb, f, l, r)
      /\ (\A x \in L : rb[x] = l) /\ (\A x \in R : rb[x] = r)
  <2>1. A = DOMAIN cw
    OBVIOUS
  <2> HIDE DEF A, rb
  <2>2. rb = RegionsWith(B, e, g, f, l, r)
    BY DEF rb
  <2> QED BY <1>1, <1>2, <1>3, <2>1, <2>2, SplitRegions
<1>5. -e \notin L
  BY DEF DrawsAs
<1>6. Parts(b, e, L, R, K)
  BY <1>5 DEF DrawsAs, Parts
<1>7. PartedSides(A, b, B, f, g)
  BY <1>1, <1>2, <1>5, DrawnSides
<1> HIDE DEF K
<1>8. e \in L /\ -e \in R /\ L \cap R = {} /\ K \subseteq A
      /\ \A S \in SUBSET A : Walked(cw, S) /\ S \cap K # {} => K \subseteq S
  BY <1>2, <1>6, PartedRings
<1>9. g.out \in IF K \subseteq hole THEN {L, R} ELSE {{}}
  BY DEF DrawsAs, K
<1>10. g.out = {} => K # {} /\ K \cap hole = {}
  <2> SUFFICES ASSUME g.out = {} PROVE K # {} /\ K \cap hole = {}
    OBVIOUS
  <2>1. ~(K \subseteq hole)
    BY <1>8, <1>9
  <2>2. hole \in SUBSET A /\ Walked(cw, hole)
    BY <1>1 DEF HolesWhole, Walked
  <2> QED BY <1>8, <2>1, <2>2
<1>11. g.out \in {L, R, {}} /\ (g.out # {} => K \subseteq hole)
  BY <1>9
<1>12. \A x \in A \ (L \cup R) : x \notin hole /\ region[x] = f => x \in g.rest /\ x \notin g.inside
  <2>1. g.inside \subseteq hole
    BY <1>7 DEF PartedSides
  <2> QED BY <2>1 DEF DrawsAs
<1>13. \A x \in A : x \in B /\ x \notin {e, -e}
  BY <1>2 DEF Grows
<1>14. \A x \in A : region[x] = f => rb[x] = IF x \in OnLeft(g) THEN l ELSE r
  BY <1>13 DEF RegionsWith
<1>15. g.out = L => \A x \in A \ (L \cup R) : x \notin hole /\ region[x] = f => rb[x] = l
  <2> SUFFICES ASSUME g.out = L, NEW x \in A \ (L \cup R), x \notin hole, region[x] = f PROVE rb[x] = l
    OBVIOUS
  <2>1. x \in OnLeft(g)
    BY <1>12 DEF OnLeft
  <2> QED BY <1>14, <2>1
<1>16. g.out = R => \A x \in A \ (L \cup R) : x \notin hole /\ region[x] = f => rb[x] = r
  <2> SUFFICES ASSUME g.out = R, NEW x \in A \ (L \cup R), x \notin hole, region[x] = f PROVE rb[x] = r
    OBVIOUS
  <2>1. g.out # L
    BY <1>8
  <2>2. x \notin OnLeft(g)
    BY <1>12, <2>1 DEF OnLeft
  <2> QED BY <1>14, <2>2
<1>17. hb = (hole \ (L \cup R)) \cup g.out
  BY DEF HolesWith
<1>18. /\ (l = 0 => g.out = L) /\ (r = 0 => g.out = R)
       /\ (f # 0 => l # 0 /\ r # 0)
  BY DEF NewNames
<1> HIDE DEF A, L, R, rb, hb
<1>19. PartsDrawing(cw, A, hole, region, b, B, hb, rb, e, L, R, K, g.out, f, l, r)
  BY <1>2, <1>4, <1>6, <1>10, <1>11, <1>15, <1>16, <1>17, <1>18 DEF PartsDrawing
<1>20. Planar(b, B, hb, rb)
  BY <1>1, <1>19, PartsDrawn
<1> QED BY <1>20 DEF hb, rb

\* Whatever curve is drawn, the result is a drawing.
LEMMA DrawnPlanar ==
  ASSUME Planar(cw, DOMAIN cw, hole, region), NEW e, NEW s, NEW t, NEW p, NEW q, Placed(e, p, q),
         NEW f, EndsFacing(e, s, t, p, q, f), NEW B, B = DOMAIN cw \cup {e, -e},
         NEW b, b = Inserted(e, p, q), Rotates(b, B), NEW g, NEW ends, DrawsAs(g, b, e, f, ends),
         NEW l, NEW r, g.splits => NewNames(f, l, r, g)
  PROVE  Planar(b, B, HolesWith(g), RegionsWith(B, e, g, f, l, r))
<1>1. CASE g.splits
  BY <1>1, SplitStepPlanar
<1>2. CASE ~g.splits
  BY <1>2, BridgeStepPlanar
<1> QED BY <1>1, <1>2

-----------------------------------------------------------------------------
(* Erasing a curve.                                                          *)

\* The rotation afterwards has one curve less.
LEMMA ErasedGrows ==
  ASSUME Rotates(cw, DOMAIN cw), NEW e, e \in DOMAIN cw, NEW A, A = DOMAIN cw \ {e, -e},
         NEW a, a = Dropped(e), Rotates(a, A)
  PROVE  Grows(a, A, cw, DOMAIN cw, e)
<1>1. e \in Int \ {0} /\ -e \in DOMAIN cw /\ \A x \in DOMAIN cw : cw[x] \in DOMAIN cw
  BY DEF Rotates, Permutes
<1>2. DOMAIN cw = A \cup {e, -e} /\ e \notin A /\ -e \notin A
  BY <1>1
<1>3. ASSUME NEW x \in A
      PROVE  a[x] = IF cw[x] \notin {e, -e} THEN cw[x]
                    ELSE IF cw[cw[x]] \notin {e, -e} THEN cw[cw[x]] ELSE cw[cw[cw[x]]]
  <2>1. a[x] = PastEdge(e, PastEdge(e, cw[x]))
    BY DEF Dropped
  <2> QED BY <2>1 DEF PastEdge
<1> QED BY <1>1, <1>2, <1>3 DEF Grows

\* The outer boundaries and regions without curve e, f being what the regions on its two
\* sides become.
HolesLess(e) ==
  LET rings == Ring(e) \cup Ring(-e)
      kept == rings \ {e, -e}
  IN  IF -e \in Ring(e)
      THEN IF e \in hole THEN hole \ {e, -e}
           ELSE hole \cup {x \in kept : Piece(Dropped(e), x) \cap hole = {}}
      ELSE IF {e, -e} \cap hole # {} THEN (hole \cup kept) \ {e, -e} ELSE hole
RegionsLess(e, f) ==
  [x \in DOMAIN cw \ {e, -e} |-> IF region[x] \in {region[e], region[-e]} THEN f ELSE region[x]]

\* f may be the name of what curve e leaves.
LeftName(e, f) ==
  IF region[e] = region[-e] THEN f = region[e]
  ELSE /\ f = 0 <=> 0 \in {region[e], region[-e]}
       /\ \A x \in DOMAIN cw : region[x] = f => f \in {region[e], region[-e]}

\* Taking away a curve with one region on its sides.
LEMMA BridgeErasure ==
  ASSUME Planar(cw, DOMAIN cw, hole, region), NEW e, e \in DOMAIN cw,
         NEW A, A = DOMAIN cw \ {e, -e}, NEW a, a = Dropped(e), Rotates(a, A), NEW f,
         region[e] = region[-e], f = region[e]
  PROVE  /\ Grows(a, A, cw, DOMAIN cw, e) /\ -e \in Ring(e)
         /\ Extends(A, RegionsLess(e, f), region)
         /\ HolesLess(e) = HolesWithout(a, A, hole, e, Ring(e))
<1> DEFINE B == DOMAIN cw
           L == Ring(e)
           ra == RegionsLess(e, f)
           ha == HolesLess(e)
<1>1. /\ Rotates(cw, B) /\ OneRegion(cw, B, region) /\ Jordan(cw, B, region)
      /\ HolesWhole(cw, B, hole) /\ Planar(cw, B, hole, region)
  BY DEF Planar
<1>2. Grows(a, A, cw, B, e)
  BY <1>1, ErasedGrows
<1>3. L = Orbit(Walk(cw), e)
  BY DEF Ring
<1>4. -e \in L
  <2>1. \E T : Bridges(a, A, cw, B, e, T, L, L \ {e, -e})
    BY <1>1, <1>2, <1>3, ErasedBridge
  <2> QED BY <2>1 DEF Bridges
<1>5. \A x \in A : ra[x] = region[x]
  BY DEF RegionsLess
<1>6. Extends(A, ra, region)
  BY <1>5 DEF Extends
<1>7. Ring(-e) = L
  <2>1. \A y \in L : Orbit(Walk(cw), y) = L
    BY <1>1, <1>3, RingsPart
  <2> QED BY <1>4, <2>1 DEF Ring
<1>8. ha = HolesWithout(a, A, hole, e, L)
  <2>1. CASE e \in hole
    BY <1>4, <2>1 DEF HolesLess, HolesWithout
  <2>2. CASE e \notin hole
    <3>1. hole \subseteq A
      <4>1. hole \subseteq B /\ Walked(cw, hole) /\ Walked(cw, B \ hole)
        BY <1>1 DEF HolesWhole, Walked, Rotates, Permutes
      <4>2. e \in B \ hole /\ (B \ hole) \cap B = B \ hole
        BY <2>2
      <4>3. L \subseteq B \ hole
        BY <1>1, <1>3, <4>1, <4>2, RingsPart
      <4> QED BY <1>4, <2>2, <4>1, <4>3
    <3>2. L \subseteq B
      BY <1>1, <1>3, RingsPart
    <3>3. ASSUME NEW x \in L \ {e, -e}
          PROVE  Piece(a, x) \cap hole = {} <=> \A y \in hole : ~SamePiece(a, A, x, y)
      <4>1. x \in A
        BY <3>2
      <4>2. \A y \in hole : y \in Piece(a, x) <=> SamePiece(a, A, x, y)
        BY <3>1, <4>1, PieceIsSame
      <4> QED BY <4>2
    <3>4. ha = hole \cup {x \in L \ {e, -e} : Piece(a, x) \cap hole = {}}
      <4>1. (Ring(e) \cup Ring(-e)) \ {e, -e} = L \ {e, -e}
        BY <1>7
      <4> QED BY <1>4, <2>2, <4>1 DEF HolesLess
    <3>5. {x \in L \ {e, -e} : Piece(a, x) \cap hole = {}}
            = {x \in L \ {e, -e} : \A y \in hole : ~SamePiece(a, A, x, y)}
      BY <3>3
    <3> QED BY <2>2, <3>4, <3>5 DEF HolesWithout
  <2> QED BY <2>1, <2>2
<1> QED BY <1>2, <1>4, <1>6, <1>8

\* It leaves a drawing.
LEMMA BridgeErasedPlanar ==
  ASSUME Planar(cw, DOMAIN cw, hole, region), NEW e, e \in DOMAIN cw,
         NEW A, A = DOMAIN cw \ {e, -e}, NEW a, a = Dropped(e), Rotates(a, A), NEW f,
         region[e] = region[-e], f = region[e]
  PROVE  Planar(a, A, HolesLess(e), RegionsLess(e, f))
<1>1. /\ Grows(a, A, cw, DOMAIN cw, e) /\ Extends(A, RegionsLess(e, f), region)
      /\ HolesLess(e) = HolesWithout(a, A, hole, e, Ring(e))
  BY BridgeErasure
<1>2. Ring(e) = Orbit(Walk(cw), e)
  BY DEF Ring
<1> QED BY <1>1, <1>2, BridgeTaken

\* And so does taking away one between two regions.
LEMMA PartsErasedPlanar ==
  ASSUME Planar(cw, DOMAIN cw, hole, region), NEW e, e \in DOMAIN cw,
         NEW A, A = DOMAIN cw \ {e, -e}, NEW a, a = Dropped(e), Rotates(a, A), NEW f,
         region[e] # region[-e], LeftName(e, f)
  PROVE  Planar(a, A, HolesLess(e), RegionsLess(e, f))
<1> DEFINE B == DOMAIN cw
           L == Ring(e)
           R == Ring(-e)
           K == (L \cup R) \ {e, -e}
           l == region[e]
           r == region[-e]
           ra == RegionsLess(e, f)
           ha == HolesLess(e)
<1>1. /\ Rotates(cw, B) /\ OneRegion(cw, B, region) /\ Planar(cw, B, hole, region)
  BY DEF Planar
<1>2. Grows(a, A, cw, B, e)
  BY <1>1, ErasedGrows
<1>3. -e \notin L
  <2>1. PICK F \in SUBSET B : F = {x \in B : region[x] = l} /\ Walked(cw, F)
    <3>1. \A x \in {y \in B : region[y] = l} : cw[-x] \in {y \in B : region[y] = l}
      BY <1>1, WalkPermutes DEF OneRegion
    <3> QED BY <3>1 DEF Walked
  <2>2. e \in F /\ F \cap B = F
    BY <2>1
  <2>3. L \subseteq F
    BY <1>1, <2>1, <2>2, RingsPart DEF Ring
  <2> QED BY <2>1, <2>3
<1>4. Parts(cw, e, L, R, K)
  BY <1>3 DEF Parts, Ring
<1>5. Merges(A, ra, region, f, l, r)
  <2>1. ASSUME NEW x \in A
        PROVE  IF region[x] \in {l, r} THEN ra[x] = f ELSE ra[x] = region[x] /\ ra[x] # f
    <3>1. ra[x] = IF region[x] \in {l, r} THEN f ELSE region[x]
      BY DEF RegionsLess
    <3>2. region[x] = f => f \in {l, r}
      BY DEF LeftName
    <3> QED BY <3>1, <3>2
  <2> QED BY <2>1 DEF Merges
<1>6. ha = IF {e, -e} \cap hole # {} THEN (hole \cup K) \ {e, -e} ELSE hole
  BY <1>3 DEF HolesLess
<1>7. f = 0 <=> 0 \in {l, r}
  BY DEF LeftName
<1>8. region[e] = l /\ region[-e] = r
  OBVIOUS
<1> HIDE DEF B, L, R, K, l, r, ra, ha
<1>9. PartsErasing(a, A, ha, ra, cw, B, hole, region, e, L, R, K, f, l, r)
  BY <1>1, <1>2, <1>4, <1>5, <1>6, <1>7, <1>8 DEF PartsErasing
<1>10. Planar(a, A, ha, ra)
  BY <1>1, <1>9, PartsTaken
<1> QED BY <1>10 DEF ha, ra

\* Whatever curve is erased, the result is a drawing.
LEMMA ErasedPlanar ==
  ASSUME Planar(cw, DOMAIN cw, hole, region), NEW e, e \in DOMAIN cw,
         NEW A, A = DOMAIN cw \ {e, -e}, NEW a, a = Dropped(e), Rotates(a, A), NEW f,
         LeftName(e, f)
  PROVE  Planar(a, A, HolesLess(e), RegionsLess(e, f))
<1>1. CASE region[e] = region[-e]
  BY <1>1, BridgeErasedPlanar DEF LeftName
<1>2. CASE region[e] # region[-e]
  BY <1>2, PartsErasedPlanar
<1> QED BY <1>1, <1>2

-----------------------------------------------------------------------------
(* Cutting a curve and joining two.                                          *)

\* The outer boundaries and regions of the halves are those of the whole.
HolesCut(e, i, j) == {x \in CutDarts(e, i, j) : WasCut(e, i, j, x) \in hole}
RegionsCut(e, i, j) == [x \in CutDarts(e, i, j) |-> region[WasCut(e, i, j, x)]]
HolesJoined(a, b, M) == {x \in JoinDarts(a, b, M) : WasJoin(a, b, M, x) \in hole}
RegionsJoined(a, b, M) == [x \in JoinDarts(a, b, M) |-> region[WasJoin(a, b, M, x)]]

\* Cutting a curve leaves a drawing.
LEMMA CutPlanar ==
  ASSUME Planar(cw, DOMAIN cw, hole, region), NEW e, NEW i, NEW j, Cuts(e, i, j),
         NEW B, B = CutDarts(e, i, j), NEW b, b = CutRot(e, i, j), Rotates(b, B)
  PROVE  Planar(b, B, HolesCut(e, i, j), RegionsCut(e, i, j))
<1> DEFINE A == DOMAIN cw
<1>1. /\ Rotates(cw, A) /\ hole \subseteq A /\ \A x \in A : x \in Int \ {0} /\ -x \in A /\ cw[x] \in A
  BY DEF Planar, HolesWhole, Rotates, Permutes
<1>2. \A x \in B : b[x] = CutAfter(e, i, j, x)
  BY DEF CutRot
<1>3. e \in A /\ i \in B /\ j \in B /\ -i \in B /\ -j \in B /\ i \notin {j, -j}
  BY DEF Cuts, CutDarts
<1>4. A \ {e, -e} = B \ {i, -i, j, -j}
  BY DEF Cuts, CutDarts
<1>5. b[-i] = j /\ b[j] = -i
  BY <1>2, <1>3 DEF CutAfter, Cuts
<1>6. ASSUME NEW x \in A PROVE b[FirstOf(e, i, j, x)] = FirstOf(e, i, j, cw[x])
  <2>1. FirstOf(e, i, j, x) \in B \ {-i, j} /\ WasCut(e, i, j, FirstOf(e, i, j, x)) = x
    BY DEF FirstOf, WasCut, Cuts, CutDarts
  <2>2. b[FirstOf(e, i, j, x)] = RenCut(e, i, j, cw[x])
    BY <1>2, <2>1 DEF CutAfter
  <2> QED BY <2>2 DEF RenCut, FirstOf
<1>7. Divides(cw, A, b, B, e, i, j)
  BY <1>1, <1>3, <1>4, <1>5, <1>6 DEF Divides
<1>8. DividedMarks(A, hole, region, B, HolesCut(e, i, j), RegionsCut(e, i, j), e, i, j)
  <2>1. \A x \in B : WholeOf(e, i, j, x) = WasCut(e, i, j, x)
    BY DEF WholeOf, WasCut
  <2> QED BY <1>1, <2>1 DEF DividedMarks, HolesCut, RegionsCut
<1> QED BY <1>7, <1>8, DividedPlanar

\* At a node that only -a and b leave, b is next to -a.
LEMMA JoinTurn ==
  ASSUME Rotates(cw, DOMAIN cw), OneTurn(cw, org), NEW a, NEW b, NEW M, Joins(a, b, M),
         \A d \in DOMAIN cw : org[cw[d]] = org[d], org[-a] = org[b],
         \A d \in DOMAIN cw : org[d] \in {org[-a], org[b]} <=> d \in {-a, b}
  PROVE  cw[-a] = b /\ cw[b] = -a
<1>1. -a \in DOMAIN cw /\ b \in DOMAIN cw /\ -a # b
  BY DEF Joins
<1>2. /\ \A x \in DOMAIN cw : cw[x] \in DOMAIN cw
      /\ \A x, y \in DOMAIN cw : cw[x] = cw[y] => x = y
  BY DEF Rotates, Permutes
<1>3. cw[-a] \in {-a, b} /\ cw[b] \in {-a, b}
  BY <1>1, <1>2
<1>4. cw[-a] # -a
  <2> SUFFICES ASSUME cw[-a] = -a PROVE FALSE
    OBVIOUS
  <2>1. {-a} \in SUBSET DOMAIN cw /\ ClosedUnder(cw, {-a})
    BY <1>1 DEF ClosedUnder
  <2>2. b \in {-a}
    BY <1>1, <2>1 DEF OneTurn
  <2> QED BY <1>1, <2>2
<1> QED BY <1>1, <1>2, <1>3, <1>4

\* Joining two curves leaves a drawing.
LEMMA JoinPlanar ==
  ASSUME Planar(cw, DOMAIN cw, hole, region), NEW a, NEW b, NEW M, Joins(a, b, M),
         cw[-a] = b, cw[b] = -a, NEW A, A = JoinDarts(a, b, M), NEW c, c = JoinRot(a, b, M),
         Rotates(c, A)
  PROVE  /\ Planar(c, A, HolesJoined(a, b, M), RegionsJoined(a, b, M))
         /\ region[b] = region[a] /\ region[-a] = region[-b]
<1> DEFINE B == DOMAIN cw
<1>1. /\ Rotates(cw, B) /\ hole \subseteq B /\ OneRegion(cw, B, region) /\ HolesWhole(cw, B, hole)
      /\ \A x \in B : x \in Int \ {0} /\ -x \in B /\ -(-x) = x /\ cw[x] \in B
      /\ \A x, y \in B : cw[x] = cw[y] => x = y
  BY DEF Planar, HolesWhole, Rotates, Permutes
<1>2. a \in B /\ -a \in B /\ b \in B /\ -b \in B /\ a \notin {b, -b} /\ M \in Int \ {0}
  BY DEF Joins
<1>3. M \in A /\ -M \in A
  BY DEF JoinDarts
<1>4. A \ {M, -M} = B \ {a, -a, b, -b}
  BY <1>1, <1>2 DEF Joins, JoinDarts
<1>5. region[b] = region[a] /\ (b \in hole <=> a \in hole)
  BY <1>1, <1>2 DEF OneRegion, HolesWhole
<1>6. region[-a] = region[-b] /\ (-a \in hole <=> -b \in hole)
  BY <1>1, <1>2 DEF OneRegion, HolesWhole
<1>7. ASSUME NEW x \in A PROVE cw[FirstOf(M, a, b, x)] = FirstOf(M, a, b, c[x])
  <2>1. FirstOf(M, a, b, x) = WasJoin(a, b, M, x)
    BY DEF FirstOf, WasJoin
  <2>2. WasJoin(a, b, M, x) \in B \ {-a, b}
    BY JoinRenames
  <2>3. cw[WasJoin(a, b, M, x)] \in B \ {-a, b}
    BY <1>1, <1>2, <2>2
  <2>4. c[x] = RenJoin(a, b, M, cw[WasJoin(a, b, M, x)])
    BY DEF JoinRot
  <2>5. WasJoin(a, b, M, c[x]) = cw[WasJoin(a, b, M, x)]
    BY <2>3, <2>4, JoinRenames
  <2> QED BY <2>1, <2>5 DEF FirstOf, WasJoin
<1>8. Divides(c, A, cw, B, M, a, b)
  BY <1>1, <1>2, <1>3, <1>4, <1>7 DEF Divides
<1>9. DividedMarks(A, HolesJoined(a, b, M), RegionsJoined(a, b, M), B, hole, region, M, a, b)
  <2>1. ASSUME NEW x \in B
        PROVE  LET w == WholeOf(M, a, b, x)
               IN  w \in A /\ region[WasJoin(a, b, M, w)] = region[x]
                   /\ (WasJoin(a, b, M, w) \in hole <=> x \in hole)
    <3>1. CASE x \in {a, b}
      <4>1. WholeOf(M, a, b, x) = M /\ WasJoin(a, b, M, M) = a
        BY <3>1 DEF WholeOf, WasJoin
      <4> QED BY <1>3, <1>5, <3>1, <4>1
    <3>2. CASE x \in {-a, -b}
      <4>1. WholeOf(M, a, b, x) = -M
        <5>1. a \in Int \ {0} /\ b \in Int \ {0} /\ a # b /\ a # -b
          BY <1>1, <1>2
        <5>2. x \notin {a, b}
          BY <3>2, <5>1
        <5> QED BY <3>2, <5>2 DEF WholeOf
      <4>2. WasJoin(a, b, M, -M) = -b
        BY <1>2 DEF WasJoin
      <4> QED BY <1>3, <1>6, <3>2, <4>1, <4>2
    <3>3. CASE x \notin {a, -a, b, -b}
      <4>1. x \in A /\ x \notin {M, -M}
        BY <1>4, <3>3
      <4>2. WholeOf(M, a, b, x) = x /\ WasJoin(a, b, M, x) = x
        BY <3>3, <4>1 DEF WholeOf, WasJoin
      <4> QED BY <4>1, <4>2
    <3> QED BY <3>1, <3>2, <3>3
  <2>2. HolesJoined(a, b, M) \subseteq A /\ hole \subseteq B
    BY <1>1 DEF HolesJoined
  <2>3. /\ \A w \in A : RegionsJoined(a, b, M)[w] = region[WasJoin(a, b, M, w)]
        /\ \A w \in A : w \in HolesJoined(a, b, M) <=> WasJoin(a, b, M, w) \in hole
    BY DEF HolesJoined, RegionsJoined
  <2> QED BY <2>1, <2>2, <2>3 DEF DividedMarks
<1>10. Planar(cw, B, hole, region)
  OBVIOUS
<1>11. Planar(c, A, HolesJoined(a, b, M), RegionsJoined(a, b, M))
  BY <1>8, <1>9, <1>10, DividedPlanar
<1> QED BY <1>5, <1>6, <1>11

-----------------------------------------------------------------------------
(* Faces keep a shell.                                                       *)

HasShell(D, h, rg, f) == \E x \in D \ h : rg[x] = f

\* What is on a shell stays on one when a curve is drawn.
LEMMA ShellsStay ==
  ASSUME NEW e, NEW b, NEW B, NEW f, NEW g, NEW ends, DrawsAs(g, b, e, f, ends),
         Grows(cw, DOMAIN cw, b, B, e)
  PROVE  \A x \in DOMAIN cw \ hole : x \notin HolesWith(g)
<1>1. e \notin DOMAIN cw /\ -e \notin DOMAIN cw
  BY DEF Grows
<1>2. ASSUME NEW x \in DOMAIN cw \ hole, x \in g.left \cup g.right PROVE g.out = {}
  <2>1. ~((g.left \cup g.right) \ {e, -e} \subseteq hole)
    BY <1>1, <1>2
  <2> QED BY <2>1 DEF DrawsAs
<1>3. g.out \subseteq g.left \cup g.right
  BY DEF DrawsAs
<1> QED BY <1>2, <1>3 DEF HolesWith

\* A curve that splits nothing leaves every face its shell.
LEMMA BridgeKeepsShells ==
  ASSUME NEW e, NEW b, NEW B, NEW f, NEW g, NEW ends, DrawsAs(g, b, e, f, ends),
         Grows(cw, DOMAIN cw, b, B, e), ~g.splits, NEW l, NEW r,
         NEW z, HasShell(DOMAIN cw, hole, region, z)
  PROVE  HasShell(B, HolesWith(g), RegionsWith(B, e, g, f, l, r), z)
<1>1. PICK x \in DOMAIN cw \ hole : region[x] = z
  BY DEF HasShell
<1>2. x \in B /\ x \notin {e, -e}
  BY DEF Grows
<1>3. x \notin HolesWith(g)
  BY ShellsStay
<1>4. RegionsWith(B, e, g, f, l, r)[x] = z
  BY <1>1, <1>2 DEF RegionsWith
<1> QED BY <1>2, <1>3, <1>4 DEF HasShell

\* One that splits f leaves the others theirs, and gives l and r one each but to the
\* universe.
LEMMA SplitKeepsShells ==
  ASSUME NEW e, NEW A, A = DOMAIN cw, NEW b, NEW B, NEW f, NEW g, NEW ends, DrawsAs(g, b, e, f, ends),
         Grows(cw, A, b, B, e), g.splits, NEW l, NEW r, NewNames(f, l, r, g),
         OneRegion(cw, A, region), OneRegion(b, B, WithCurve(region, A, e, f)),
         HolesWhole(cw, A, hole), f # 0 => HasShell(A, hole, region, f),
         NEW hb, hb = HolesWith(g), NEW rb, rb = RegionsWith(B, e, g, f, l, r)
  PROVE  /\ \A z : z # f /\ HasShell(A, hole, region, z) => HasShell(B, hb, rb, z)
         /\ l # 0 => HasShell(B, hb, rb, l)
         /\ r # 0 => HasShell(B, hb, rb, r)
<1>1. /\ B = A \cup {e, -e} /\ e \notin A /\ -e \notin A /\ hole \subseteq A
  BY DEF Grows, HolesWhole
<1>2. (\A x \in g.left : rb[x] = l) /\ (\A x \in g.right : rb[x] = r)
  BY SplitRegions
<1>3. \A x \in A \ hole : x \notin hb
  BY ShellsStay
<1>4. -e \notin g.left
  BY DEF DrawsAs
<1>5. PartedSides(A, b, B, f, g)
  BY <1>4, DrawnSides
<1>6. e \in g.left /\ -e \in g.right
  <2>1. Rotates(b, B) /\ e \in B /\ -e \in B
    BY <1>1 DEF Grows
  <2> QED BY <2>1, RingsPart DEF DrawsAs
<1>7. g.left # g.right /\ g.left \cap g.right = {}
  BY <1>4, <1>5, <1>6 DEF PartedSides
<1>8. ASSUME NEW z, z # f, HasShell(A, hole, region, z) PROVE HasShell(B, hb, rb, z)
  <2>1. PICK x \in A \ hole : region[x] = z
    BY <1>8 DEF HasShell
  <2>2. rb[x] = z
    BY <1>1, <1>8, <2>1 DEF RegionsWith
  <2> QED BY <1>1, <1>3, <2>1, <2>2 DEF HasShell
<1>9. \A x \in A \ hole : region[x] = f /\ g.out # {} =>
         rb[x] = (IF x \in OnLeft(g) THEN l ELSE r) /\ x \in g.rest /\ x \notin g.inside
  <2> SUFFICES ASSUME NEW x \in A \ hole, region[x] = f, g.out # {}
               PROVE  rb[x] = (IF x \in OnLeft(g) THEN l ELSE r) /\ x \in g.rest /\ x \notin g.inside
    OBVIOUS
  <2>1. rb[x] = IF x \in OnLeft(g) THEN l ELSE r
    BY <1>1 DEF RegionsWith
  <2>2. (g.left \cup g.right) \ {e, -e} \subseteq hole
    BY DEF DrawsAs
  <2>3. x \notin g.left \cup g.right
    BY <1>1, <2>2
  <2>4. x \in g.rest
    BY <2>3 DEF DrawsAs
  <2>5. x \notin g.inside
    BY <1>5 DEF PartedSides
  <2> QED BY <2>1, <2>4, <2>5
<1>10. l # 0 => HasShell(B, hb, rb, l)
  <2> SUFFICES ASSUME l # 0 PROVE HasShell(B, hb, rb, l)
    OBVIOUS
  <2>1. CASE g.out # g.left
    <3>1. e \notin hb
      <4>1. g.out \in {g.right, {}}
        BY <2>1 DEF DrawsAs
      <4>2. e \notin g.out
        BY <1>6, <1>7, <4>1
      <4> QED BY <1>1, <4>2 DEF HolesWith
    <3>2. rb[e] = l /\ e \in B
      BY <1>1, <1>2, <1>6
    <3> QED BY <3>1, <3>2 DEF HasShell
  <2>2. CASE g.out = g.left
    <3>1. f # 0
      BY <2>2 DEF NewNames
    <3>2. PICK y \in A \ hole : region[y] = f
      BY <3>1 DEF HasShell
    <3>3. g.out # {}
      BY <1>6, <2>2
    <3>4. y \in OnLeft(g)
      BY <1>9, <2>2, <3>2, <3>3 DEF OnLeft
    <3>5. rb[y] = l
      BY <1>9, <3>2, <3>3, <3>4
    <3> QED BY <1>1, <1>3, <3>2, <3>5 DEF HasShell
  <2> QED BY <2>1, <2>2
<1>11. r # 0 => HasShell(B, hb, rb, r)
  <2> SUFFICES ASSUME r # 0 PROVE HasShell(B, hb, rb, r)
    OBVIOUS
  <2>1. CASE g.out # g.right
    <3>1. -e \notin hb
      <4>1. g.out \in {g.left, {}}
        BY <2>1 DEF DrawsAs
      <4>2. -e \notin g.out
        BY <1>6, <1>7, <4>1
      <4> QED BY <1>1, <4>2 DEF HolesWith
    <3>2. rb[-e] = r /\ -e \in B
      BY <1>1, <1>2, <1>6
    <3> QED BY <3>1, <3>2 DEF HasShell
  <2>2. CASE g.out = g.right
    <3>1. f # 0
      BY <2>2 DEF NewNames
    <3>2. PICK y \in A \ hole : region[y] = f
      BY <3>1 DEF HasShell
    <3>3. g.out # {} /\ g.out # g.left
      BY <1>6, <1>7, <2>2
    <3>4. y \notin g.left
      BY <1>9, <3>2, <3>3 DEF DrawsAs
    <3>5. y \notin OnLeft(g)
      BY <1>9, <3>2, <3>3, <3>4 DEF OnLeft
    <3>6. rb[y] = r
      BY <1>9, <3>2, <3>3, <3>5
    <3> QED BY <1>1, <1>3, <3>2, <3>6 DEF HasShell
  <2> QED BY <2>1, <2>2
<1> QED BY <1>8, <1>10, <1>11

\* Every face that has a shell keeps one when a curve with one region on its sides is
\* taken away: of what is left of a shell on both of its sides, one part is still one.
LEMMA BridgeErasedShells ==
  ASSUME Planar(cw, DOMAIN cw, hole, region), NEW e, e \in DOMAIN cw,
         NEW A, A = DOMAIN cw \ {e, -e}, NEW a, a = Dropped(e), Rotates(a, A), NEW f,
         region[e] = region[-e], f = region[e], NEW z, HasShell(DOMAIN cw, hole, region, z)
  PROVE  HasShell(A, HolesLess(e), RegionsLess(e, f), z)
<1> DEFINE B == DOMAIN cw
           L == Ring(e)
           K == L \ {e, -e}
           ha == HolesLess(e)
           ra == RegionsLess(e, f)
<1>1. /\ Rotates(cw, B) /\ OneRegion(cw, B, region) /\ Jordan(cw, B, region)
      /\ HolesWhole(cw, B, hole) /\ HasHole(cw, B, hole)
  BY DEF Planar
<1>2. /\ Grows(a, A, cw, B, e) /\ -e \in L /\ Extends(A, ra, region)
      /\ ha = HolesWithout(a, A, hole, e, L)
  BY BridgeErasure
<1>3. L = Orbit(Walk(cw), e) /\ e \in B
  BY DEF Ring
<1>4. PICK T : Bridges(a, A, cw, B, e, T, L, L \ {e, -e})
  BY <1>1, <1>2, <1>3, ErasedBridge
<1>5. PICK x \in B \ hole : region[x] = z
  BY DEF HasShell
<1> HIDE DEF L, ha, ra
<1>6. Bridged(a, A, cw, B, e, T, L, K)
  BY <1>4, BridgesBoth
<1>7. \A k \in A : ra[k] = region[k]
  BY <1>2 DEF Extends
<1>8. e \in L /\ L \subseteq B
  BY <1>1, <1>3, RingsPart
<1>9. CASE x \notin L
  <2>1. x \in A
    BY <1>2, <1>5, <1>8, <1>9
  <2>2. x \notin ha
    BY <1>2, <1>5, <1>9 DEF HolesWithout
  <2> QED BY <1>5, <1>7, <2>1, <2>2 DEF HasShell, ha, ra
<1>10. CASE x \in L
  <2>1. \A y \in L : y \notin hole /\ region[y] = z
    <3>1. PICK F \in SUBSET B : F = {y \in B \ hole : region[y] = z} /\ Walked(cw, F)
      <4>1. \A y \in {w \in B \ hole : region[w] = z} : cw[-y] \in {w \in B \ hole : region[w] = z}
        BY <1>1, WalkPermutes DEF OneRegion, HolesWhole
      <4> QED BY <4>1 DEF Walked
    <3>2. x \in F /\ F \cap B = F
      BY <1>5, <3>1
    <3>3. Orbit(Walk(cw), x) \subseteq F
      BY <1>1, <1>5, <3>1, <3>2, RingsPart
    <3>4. Orbit(Walk(cw), x) = L
      BY <1>1, <1>3, <1>10, RingsPart
    <3> QED BY <3>1, <3>3, <3>4
  <2>2. e \notin hole /\ -e \notin hole
    BY <1>2, <1>8, <2>1
  <2>3. PICK y \in hole : SamePiece(cw, B, e, y)
    BY <1>1, <1>3 DEF HasHole
  <2>4. y \in A
    BY <1>1, <2>2, <2>3 DEF HolesWhole
  <2>5. PICK k \in K : SamePiece(a, A, k, y)
    <3>1. CASE y \in T
      BY <1>6, <2>3, <3>1 DEF Bridged
    <3>2. CASE y \notin T
      BY <1>6, <2>3, <2>4, <3>2 DEF Bridged
    <3> QED BY <3>1, <3>2
  <2>6. k \in A /\ k \notin hole /\ region[k] = z
    BY <1>8, <2>1, <2>5
  <2>7. k \notin ha
    BY <1>2, <2>2, <2>3, <2>5, <2>6 DEF HolesWithout
  <2> QED BY <1>7, <2>6, <2>7 DEF HasShell, ha, ra
<1> QED BY <1>9, <1>10 DEF ha, ra

\* A curve between two regions leaves the others their shell, and gives f one.
LEMMA PartsErasedShells ==
  ASSUME Planar(cw, DOMAIN cw, hole, region), NEW e, e \in DOMAIN cw,
         NEW A, A = DOMAIN cw \ {e, -e}, NEW a, a = Dropped(e), Rotates(a, A), NEW f,
         region[e] # region[-e], LeftName(e, f),
         \A z \in {region[e], region[-e]} : z # 0 => HasShell(DOMAIN cw, hole, region, z)
  PROVE  /\ \A z : /\ z \notin {region[e], region[-e]} /\ HasShell(DOMAIN cw, hole, region, z)
                   => HasShell(A, HolesLess(e), RegionsLess(e, f), z)
         /\ f # 0 => HasShell(A, HolesLess(e), RegionsLess(e, f), f)
<1> DEFINE B == DOMAIN cw
           L == Ring(e)
           R == Ring(-e)
           K == (L \cup R) \ {e, -e}
           l == region[e]
           r == region[-e]
           ha == HolesLess(e)
           ra == RegionsLess(e, f)
<1>1. /\ Rotates(cw, B) /\ OneRegion(cw, B, region) /\ HolesWhole(cw, B, hole)
      /\ OneHole(cw, B, hole) /\ HasHole(cw, B, hole) /\ hole \subseteq B
      /\ e \in B /\ -e \in B /\ e # -e
  BY DEF Planar, HolesWhole, Rotates
<1>2. \A z, d : d \in B /\ region[d] = z => \A y \in Ring(d) : y \in B /\ region[y] = z /\ (y \in hole <=> d \in hole)
  <2> SUFFICES ASSUME NEW d \in B
               PROVE  \A y \in Ring(d) : y \in B /\ region[y] = region[d] /\ (y \in hole <=> d \in hole)
    OBVIOUS
  <2>1. PICK F \in SUBSET B : F = {y \in B : region[y] = region[d] /\ (y \in hole <=> d \in hole)} /\ Walked(cw, F)
    <3> DEFINE G == {y \in B : region[y] = region[d] /\ (y \in hole <=> d \in hole)}
    <3>1. \A y \in G : cw[-y] \in G
      <4> TAKE y \in G
      <4>1. cw[-y] \in B
        BY <1>1, WalkPermutes
      <4>2. region[cw[-y]] = region[y]
        BY <1>1 DEF OneRegion
      <4>3. cw[-y] \in hole <=> y \in hole
        BY <1>1 DEF HolesWhole
      <4> QED BY <4>1, <4>2, <4>3
    <3>2. Walked(cw, G)
      BY <3>1 DEF Walked
    <3> QED BY <3>2
  <2>2. d \in F /\ F \cap B = F
    BY <2>1
  <2>3. Ring(d) \subseteq F
    BY <1>1, <2>1, <2>2, RingsPart DEF Ring
  <2> QED BY <2>1, <2>3
<1>3. (\A y \in L : region[y] = l /\ (y \in hole <=> e \in hole))
      /\ \A y \in R : region[y] = r /\ (y \in hole <=> -e \in hole)
  BY <1>1, <1>2
<1>4. -e \notin L
  BY <1>3
<1>5. ha = IF {e, -e} \cap hole # {} THEN (hole \cup K) \ {e, -e} ELSE hole
  BY <1>4 DEF HolesLess
<1>6. \A x \in A : ra[x] = IF region[x] \in {l, r} THEN f ELSE region[x]
  BY DEF RegionsLess
<1>7. ha \subseteq hole \cup K
  BY <1>5
<1>8. /\ L \subseteq B /\ R \subseteq B /\ e \in L /\ -e \in R
  BY <1>1, RingsPart DEF Ring
<1> HIDE DEF B, ha, ra
<1>9. ASSUME NEW z, z \notin {l, r}, HasShell(B, hole, region, z) PROVE HasShell(A, ha, ra, z)
  <2>1. PICK x \in B \ hole : region[x] = z
    BY <1>9 DEF HasShell
  <2>2. x \notin L /\ x \notin R /\ x \in A
    BY <1>3, <1>8, <1>9, <2>1 DEF B
  <2>3. x \notin ha /\ ra[x] = z
    BY <1>6, <1>7, <1>9, <2>1, <2>2
  <2> QED BY <2>2, <2>3 DEF HasShell
<1>10. ASSUME f # 0 PROVE HasShell(A, ha, ra, f)
  <2>1. l # 0 /\ r # 0
    BY <1>10 DEF LeftName
  <2>2. HasShell(B, hole, region, l) /\ HasShell(B, hole, region, r)
    BY <2>1 DEF B
  <2>3. CASE e \in hole
    <3>1. -e \notin hole
      <4> SUFFICES ASSUME -e \in hole PROVE FALSE
        OBVIOUS
      <4>1. SamePiece(cw, B, e, -e)
        BY DEF SamePiece, Closed
      <4>2. SameRing(cw, B, e, -e)
        BY <1>1, <2>3, <4>1 DEF OneHole
      <4>3. -e \in L
        BY <1>1, <4>2, PieceIsSame DEF Ring
      <4> QED BY <1>4, <4>3
    <3>2. PICK y \in B \ hole : region[y] = l
      BY <2>2 DEF HasShell
    <3>3. y \notin L /\ y \notin R /\ y \in A
      BY <1>3, <1>8, <2>3, <3>2 DEF B
    <3>4. y \notin ha /\ ra[y] = f
      BY <1>6, <1>7, <3>2, <3>3
    <3> QED BY <3>3, <3>4 DEF HasShell
  <2>4. CASE -e \in hole
    <3>1. e \notin hole
      <4> SUFFICES ASSUME e \in hole PROVE FALSE
        OBVIOUS
      <4>1. SamePiece(cw, B, e, -e)
        BY DEF SamePiece, Closed
      <4>2. SameRing(cw, B, e, -e)
        BY <1>1, <2>4, <4>1 DEF OneHole
      <4>3. -e \in L
        BY <1>1, <4>2, PieceIsSame DEF Ring
      <4> QED BY <1>4, <4>3
    <3>2. PICK y \in B \ hole : region[y] = r
      BY <2>2 DEF HasShell
    <3>3. y \notin L /\ y \notin R /\ y \in A
      BY <1>3, <1>8, <2>4, <3>2 DEF B
    <3>4. y \notin ha /\ ra[y] = f
      BY <1>6, <1>7, <3>2, <3>3
    <3> QED BY <3>3, <3>4 DEF HasShell
  <2>5. CASE e \notin hole /\ -e \notin hole
    <3>1. K # {}
      <4> SUFFICES ASSUME K = {} PROVE FALSE
        OBVIOUS
      <4>1. L = {e} /\ R = {-e}
        <5>1. e \notin R
          BY <1>3
        <5> QED BY <1>4, <1>8, <5>1
      <4>2. cw[-e] \in L /\ cw[-(-e)] \in R
        BY <1>1, <1>8, RingsPart DEF Ring
      <4>3. {e, -e} \in SUBSET B /\ Closed(cw, {e, -e})
        <5>1. -(-e) = e
          BY <1>1 DEF Rotates
        <5> QED BY <1>1, <4>1, <4>2, <5>1 DEF Closed
      <4>4. PICK y \in hole : SamePiece(cw, B, e, y)
        BY <1>1 DEF HasHole
      <4>5. y \in {e, -e}
        BY <4>3, <4>4 DEF SamePiece
      <4> QED BY <2>5, <4>5
    <3>2. PICK k \in K : TRUE
      BY <3>1
    <3>3. k \in A /\ k \notin hole /\ region[k] \in {l, r}
      BY <1>3, <1>8, <2>5, <3>2 DEF B
    <3>4. k \notin ha /\ ra[k] = f
      BY <1>5, <1>6, <2>5, <3>3
    <3> QED BY <3>3, <3>4 DEF HasShell
  <2> QED BY <2>3, <2>4, <2>5
<1> QED BY <1>9, <1>10 DEF B, ha, ra

-----------------------------------------------------------------------------
(* The tables' faces are the regions of the plane. *)

\* Every region is the universe face or a face of the table, and every face of the
\* table is a region with a shell.
RegionsAreFaces ==
  /\ \A x \in DOMAIN cw : region[x] \in face \cup {0}
  /\ DOMAIN isoRegion \subseteq Node
  /\ \A n \in DOMAIN isoRegion : isoRegion[n] \in face \cup {0}
  /\ \A f \in face : HasShell(DOMAIN cw, hole, region, f)

\* The inductive invariant of the faces: which regions a new edge parts, and which an
\* edge that is removed joins, is only known of a drawing that is planar.
PlaneInv == Planar(cw, DOMAIN cw, hole, region) /\ FacesFollowDrawing /\ RegionsAreFaces

\* What is known before every step.
FacesInv == IInv /\ TurnsInv /\ PlaneInv

\* The sets of darts and the types that the steps need.
LEMMA PlaneTypes ==
  ASSUME FacesInv
  PROVE  /\ DOMAIN next = DOMAIN cw /\ DOMAIN side = DOMAIN cw /\ DOMAIN org = DOMAIN cw
         /\ DOMAIN region = DOMAIN cw /\ Rotates(cw, DOMAIN cw) /\ side = region
         /\ \A x \in DOMAIN cw : region[x] \in Nat /\ org[x] \in Node
         /\ face \subseteq 1..last.face /\ last.face \in Nat /\ 0 \notin face
         /\ Node \subseteq 1..last.node /\ last.node \in Nat
         /\ \A n \in DOMAIN isoRegion : isoRegion[n] \in Nat
         /\ \A n \in Node : n \in DOMAIN isoRegion <=> Leaving(n) = {}
         /\ \A n \in Node : containing[n] = IF n \in DOMAIN isoRegion THEN isoRegion[n] ELSE None
<1>1. /\ DOMAIN next = DOMAIN cw /\ DOMAIN side = DOMAIN cw /\ DOMAIN org = DOMAIN cw
      /\ Rotates(cw, DOMAIN cw)
  BY DrawingRotates DEF FacesInv, TurnsInv
<1>2. side = region /\ \A n \in Node : containing[n] = IF n \in DOMAIN isoRegion THEN isoRegion[n] ELSE None
  BY DEF FacesInv, PlaneInv, FacesFollowDrawing
<1>3. /\ face \subseteq 1..last.face /\ last.face \in Nat
      /\ Node \subseteq 1..last.node /\ last.node \in Nat
      /\ \A x \in DOMAIN cw : side[x] \in Nat /\ org[x] \in Node
  BY <1>1 DEF FacesInv, IInv, TypeOK
<1>4. 0 \notin face
  BY <1>3
<1>5. \A n \in DOMAIN isoRegion : isoRegion[n] \in Nat
  <2>1. \A n \in DOMAIN isoRegion : isoRegion[n] \in face \cup {0}
    BY DEF FacesInv, PlaneInv, RegionsAreFaces
  <2>2. face \cup {0} \subseteq Nat
    BY <1>3
  <2> QED BY <2>1, <2>2
<1>6. \A n \in Node : n \in DOMAIN isoRegion <=> Leaving(n) = {}
  BY <1>2, <1>5 DEF FacesInv, IInv, IsolatedNodesBare, None
<1> QED BY <1>1, <1>2, <1>3, <1>4, <1>5, <1>6

\* lwt_AddIsoNode stores the face of the closest edge, or the universe face when there
\* is no edge, and that is the region the point is drawn in.
LEMMA AddIsoNodePlane == ASSUME FacesInv, AddIsoNode PROVE PlaneInv'
<1> DEFINE n == last.node + 1
<1>0. PICK f \in face \cup {0} : \E found \in FacesFound(f) :
        /\ containing' = [m \in Node \cup {n} |-> IF m = n THEN found ELSE containing[m]]
        /\ DrawPoint(n, f)
        /\ UNCHANGED <<tgVars, next, side, org, face>>
  BY DEF AddIsoNode
<1>1. PICK found \in FacesFound(f) :
        /\ containing' = [m \in Node \cup {n} |-> IF m = n THEN found ELSE containing[m]]
        /\ DrawPoint(n, f)
        /\ UNCHANGED <<tgVars, next, side, org, face>>
  BY <1>0
<1>2. n \notin Node /\ n \notin DOMAIN isoRegion
  BY PlaneTypes DEF FacesInv, PlaneInv, RegionsAreFaces
<1>3. found = f
  <2>1. CASE DOMAIN side = {}
    <3>1. face = {}
      BY <2>1, PlaneTypes DEF FacesInv, PlaneInv, RegionsAreFaces, HasShell
    <3> QED BY <2>1, <3>1 DEF FacesFound
  <2>2. CASE DOMAIN side # {}
    BY <2>2, PlaneTypes DEF FacesFound
  <2> QED BY <2>1, <2>2
<1> HIDE DEF n
<1>4. /\ containing' = [m \in Node \cup {n} |-> IF m = n THEN f ELSE containing[m]]
      /\ isoRegion' = [m \in DOMAIN isoRegion \cup {n} |-> IF m = n THEN f ELSE isoRegion[m]]
      /\ cw' = cw /\ hole' = hole /\ region' = region /\ side' = side /\ face' = face
  BY <1>1, <1>3 DEF DrawPoint, n
<1>5. Node' = Node \cup {n} /\ Node' = DOMAIN containing'
  BY <1>4 DEF Node
<1>6. FacesFollowDrawing'
  <2>1. side' = region'
    BY <1>4, PlaneTypes
  <2>2. \A m \in Node' : containing'[m] = IF m \in DOMAIN isoRegion' THEN isoRegion'[m] ELSE None
    BY <1>2, <1>4, <1>5, PlaneTypes
  <2> QED BY <2>1, <2>2 DEF FacesFollowDrawing
<1>7. RegionsAreFaces'
  BY <1>1, <1>4, <1>5 DEF RegionsAreFaces, FacesInv, PlaneInv
<1>8. Planar(cw', DOMAIN cw', hole', region')
  BY <1>4 DEF FacesInv, PlaneInv
<1> QED BY <1>6, <1>7, <1>8 DEF PlaneInv

\* lwt_RemoveIsoNode takes its point out of the drawing.
LEMMA RemoveIsoNodePlane == ASSUME FacesInv, RemoveIsoNode PROVE PlaneInv'
<1>1. PICK n \in Node :
        /\ containing' = [m \in Node \ {n} |-> containing[m]]
        /\ ErasePoint(n)
        /\ UNCHANGED <<side, face>>
  BY DEF RemoveIsoNode
<1>2. /\ isoRegion' = [m \in DOMAIN isoRegion \ {n} |-> isoRegion[m]]
      /\ cw' = cw /\ hole' = hole /\ region' = region /\ side' = side /\ face' = face
  BY <1>1 DEF ErasePoint
<1>3. Node' = Node \ {n}
  BY <1>1 DEF Node
<1>4. FacesFollowDrawing'
  BY <1>1, <1>2, <1>3, PlaneTypes DEF FacesFollowDrawing
<1>5. RegionsAreFaces'
  BY <1>2, <1>3 DEF RegionsAreFaces, FacesInv, PlaneInv
<1>6. Planar(cw', DOMAIN cw', hole', region')
  BY <1>2 DEF FacesInv, PlaneInv
<1> QED BY <1>4, <1>5, <1>6 DEF PlaneInv

\* The definition of a TopoGeometry changes neither the drawing nor the tables.
LEMMA RestPlane == ASSUME FacesInv, Redefinition \/ UNCHANGED vars PROVE PlaneInv'
<1>1. /\ cw' = cw /\ hole' = hole /\ region' = region /\ side' = side /\ face' = face
      /\ isoRegion' = isoRegion /\ containing' = containing
  BY DEF Redefinition, AddElement, RemElement, ClearTopoGeom, vars, geomVars, tableVars
<1>2. Node' = Node
  BY <1>1 DEF Node
<1>3. FacesFollowDrawing'
  BY <1>1, <1>2 DEF FacesFollowDrawing, FacesInv, PlaneInv
<1>4. RegionsAreFaces'
  BY <1>1, <1>2 DEF RegionsAreFaces, FacesInv, PlaneInv
<1> QED BY <1>1, <1>3, <1>4 DEF PlaneInv, FacesInv

\* What drawing a curve does to the drawing, as one rotation that grows by an edge.
DrawnStep(e, s, t, p, q, f, g, l, r, B) ==
  /\ B = DOMAIN cw \cup {e, -e} /\ cw' = Inserted(e, p, q) /\ DOMAIN cw' = B /\ Rotates(cw', B)
  /\ Placed(e, p, q) /\ EndsFacing(e, s, t, p, q, f) /\ DrawsAs(g, cw', e, f, {s, t})
  /\ Grows(cw, DOMAIN cw, cw', B, e)
  /\ OneRegion(cw', B, WithCurve(region, DOMAIN cw, e, f))
  /\ hole' = HolesWith(g) /\ region' = RegionsWith(B, e, g, f, l, r)
  /\ isoRegion' = [n \in DOMAIN isoRegion \ {s, t} |->
                     IF isoRegion[n] # f \/ ~g.splits THEN isoRegion[n]
                     ELSE IF n \in PointsOnLeft(g) THEN l ELSE r]

\* lwt_AddIsoEdge and _lwt_AddEdge draw their edge that way.
LEMMA DrawnSteps ==
  ASSUME FacesInv, [Next]_vars, NEW e, NEW s, NEW t, NEW p, NEW q, NEW f, NEW g, NEW l, NEW r,
         DrawsEdge(e, s, t, p, q, f, g), DrawLine(e, g, f, l, r, {s, t})
  PROVE  DrawnStep(e, s, t, p, q, f, g, l, r, DOMAIN cw \cup {e, -e})
<1> DEFINE B == DOMAIN cw \cup {e, -e}
<1>1. /\ cw' = Inserted(e, p, q) /\ EndsPlaced(e, s, t, p, q) /\ g.rot = Inserted(e, p, q)
      /\ <<p, q>> \in Places(e, s, t, f) /\ g \in Drawings(e, p, q, f, {s, t})
  BY DEF DrawsEdge
<1>2. Placed(e, p, q)
  BY <1>1 DEF EndsPlaced
<1>3. DOMAIN cw' = B /\ DOMAIN g.rot = B
  BY <1>1 DEF Inserted
<1>4. Rotates(cw', B)
  BY <1>3, NewRotation DEF FacesInv, TurnsInv
<1>5. EndsFacing(e, s, t, p, q, f)
  BY <1>1, PlacesFacing DEF FacesInv, IInv
<1>6. DrawsAs(g, cw', e, f, {s, t})
  BY <1>1, <1>2, DrawingsAs, InsertEdgeValue
<1>7. Rotates(cw, DOMAIN cw) /\ OneRegion(cw, DOMAIN cw, region)
  BY PlaneTypes DEF FacesInv, PlaneInv, Planar
<1>8. Grows(cw, DOMAIN cw, cw', B, e)
  BY <1>1, <1>2, <1>4, <1>7, DrawnGrows
<1>9. OneRegion(cw', B, WithCurve(region, DOMAIN cw, e, f))
  BY <1>1, <1>2, <1>4, <1>5, <1>7, DrawnRegions
<1>10. /\ hole' = HolesWith(g) /\ region' = RegionsWith(B, e, g, f, l, r)
       /\ isoRegion' = [n \in DOMAIN isoRegion \ {s, t} |->
                          IF isoRegion[n] # f \/ ~g.splits THEN isoRegion[n]
                          ELSE IF n \in PointsOnLeft(g) THEN l ELSE r]
  BY <1>3 DEF DrawLine, HolesWith, RegionsWith
<1> QED BY <1>1, <1>2, <1>3, <1>4, <1>5, <1>6, <1>8, <1>9, <1>10 DEF DrawnStep

\* A curve that parts nothing gives both of its sides the region it is drawn in.
LEMMA BridgeKeepsPlane ==
  ASSUME FacesInv, NEW e, NEW s \in Node, NEW t \in Node, NEW p, NEW q, NEW f \in face \cup {0}, NEW g,
         NEW l, NEW r, NEW B, DrawnStep(e, s, t, p, q, f, g, l, r, B), ~g.splits,
         side' = WithCurve(side, DOMAIN cw, e, f), face' = face,
         containing' = [n \in Node |-> IF n \in {s, t} THEN None ELSE containing[n]]
  PROVE  PlaneInv'
<1> DEFINE A == DOMAIN cw
<1>1. /\ B = A \cup {e, -e} /\ cw' = Inserted(e, p, q) /\ DOMAIN cw' = B /\ Rotates(cw', B)
      /\ Placed(e, p, q) /\ EndsFacing(e, s, t, p, q, f) /\ DrawsAs(g, cw', e, f, {s, t})
      /\ Grows(cw, A, cw', B, e)
      /\ hole' = HolesWith(g) /\ region' = RegionsWith(B, e, g, f, l, r)
      /\ isoRegion' = [n \in DOMAIN isoRegion \ {s, t} |-> isoRegion[n]]
  BY DEF DrawnStep
<1>2. Planar(cw', DOMAIN cw', hole', region')
  BY <1>1, DrawnPlanar DEF FacesInv, PlaneInv
<1>3. region' = WithCurve(region, A, e, f)
  BY <1>1 DEF RegionsWith, WithCurve
<1>4. Node' = Node
  BY DEF Node
<1>5. FacesFollowDrawing'
  <2>1. side' = region'
    BY <1>3, PlaneTypes
  <2>2. \A n \in Node : containing'[n] = IF n \in DOMAIN isoRegion' THEN isoRegion'[n] ELSE None
    BY <1>1, PlaneTypes
  <2> QED BY <1>4, <2>1, <2>2 DEF FacesFollowDrawing
<1>6. RegionsAreFaces'
  <2>1. \A x \in DOMAIN cw' : region'[x] \in face' \cup {0}
    BY <1>1, <1>3 DEF WithCurve, FacesInv, PlaneInv, RegionsAreFaces
  <2>2. DOMAIN isoRegion' \subseteq Node' /\ \A n \in DOMAIN isoRegion' : isoRegion'[n] \in face' \cup {0}
    BY <1>1, <1>4 DEF FacesInv, PlaneInv, RegionsAreFaces
  <2>3. ASSUME NEW z \in face PROVE HasShell(DOMAIN cw', hole', region', z)
    <3>1. HasShell(A, hole, region, z)
      BY DEF FacesInv, PlaneInv, RegionsAreFaces
    <3> QED BY <1>1, <3>1, BridgeKeepsShells
  <2> QED BY <2>1, <2>2, <2>3 DEF RegionsAreFaces
<1> QED BY <1>2, <1>5, <1>6 DEF PlaneInv

\* A curve that parts region f gives its two parts the names of faces there are then.
LEMMA SplitKeepsPlane ==
  ASSUME FacesInv, NEW e, NEW s \in Node, NEW t \in Node, NEW p, NEW q, NEW f \in face \cup {0}, NEW g,
         NEW l, NEW r, NEW B, DrawnStep(e, s, t, p, q, f, g, l, r, B), g.splits, NewNames(f, l, r, g),
         side' = RegionsWith(B, e, g, f, l, r), {l, r} \subseteq face' \cup {0},
         face' \ {l, r} \subseteq face \ {f}, face \ {f} \subseteq face', 0 \notin face',
         containing' = [n \in Node |->
                          IF n \in {s, t} THEN None
                          ELSE IF containing[n] # f THEN containing[n]
                          ELSE IF n \in PointsOnLeft(g) THEN l ELSE r]
  PROVE  PlaneInv'
<1> DEFINE A == DOMAIN cw
<1>1. /\ B = A \cup {e, -e} /\ cw' = Inserted(e, p, q) /\ DOMAIN cw' = B /\ Rotates(cw', B)
      /\ Placed(e, p, q) /\ EndsFacing(e, s, t, p, q, f) /\ DrawsAs(g, cw', e, f, {s, t})
      /\ Grows(cw, A, cw', B, e) /\ OneRegion(cw', B, WithCurve(region, A, e, f))
      /\ hole' = HolesWith(g) /\ region' = RegionsWith(B, e, g, f, l, r)
      /\ isoRegion' = [n \in DOMAIN isoRegion \ {s, t} |->
                         IF isoRegion[n] # f THEN isoRegion[n]
                         ELSE IF n \in PointsOnLeft(g) THEN l ELSE r]
  BY DEF DrawnStep
<1>2. Planar(cw', DOMAIN cw', hole', region')
  BY <1>1, DrawnPlanar DEF FacesInv, PlaneInv
<1>3. /\ OneRegion(cw, A, region) /\ HolesWhole(cw, A, hole)
      /\ (\A x \in A : region[x] \in face \cup {0})
      /\ DOMAIN isoRegion \subseteq Node /\ (\A n \in DOMAIN isoRegion : isoRegion[n] \in face \cup {0})
      /\ (\A z \in face : HasShell(A, hole, region, z))
  BY DEF FacesInv, PlaneInv, RegionsAreFaces, Planar
<1>4. Node' = Node
  BY DEF Node
<1>5. FacesFollowDrawing'
  <2>1. f # None
    BY PlaneTypes DEF None
  <2>2. \A n \in Node : containing'[n] = IF n \in DOMAIN isoRegion' THEN isoRegion'[n] ELSE None
    BY <1>1, <2>1, PlaneTypes
  <2> QED BY <1>1, <1>4, <2>2 DEF FacesFollowDrawing
<1>6. RegionsAreFaces'
  <2>1. \A x \in DOMAIN cw' : region'[x] \in face' \cup {0}
    <3> TAKE x \in DOMAIN cw'
    <3>1. region'[x] \in {l, r} \/ (x \in A /\ region[x] # f /\ region'[x] = region[x])
      BY <1>1 DEF RegionsWith
    <3> QED BY <1>3, <3>1
  <2>2. DOMAIN isoRegion' \subseteq Node' /\ \A n \in DOMAIN isoRegion' : isoRegion'[n] \in face' \cup {0}
    BY <1>1, <1>3, <1>4
  <2>3. /\ \A z : z # f /\ HasShell(A, hole, region, z) => HasShell(B, hole', region', z)
        /\ l # 0 => HasShell(B, hole', region', l)
        /\ r # 0 => HasShell(B, hole', region', r)
    <3>1. f # 0 => HasShell(A, hole, region, f)
      BY <1>3
    <3> HIDE DEF A
    <3>2. A = DOMAIN cw
      BY DEF A
    <3> QED BY <1>1, <1>3, <3>1, <3>2, SplitKeepsShells
  <2>4. ASSUME NEW z \in face' PROVE HasShell(DOMAIN cw', hole', region', z)
    <3>1. CASE z \in {l, r}
      BY <1>1, <2>3, <3>1
    <3>2. CASE z \notin {l, r}
      <4>1. z \in face /\ z # f
        BY <3>2
      <4> QED BY <1>1, <1>3, <2>3, <4>1
    <3> QED BY <3>1, <3>2
  <2> QED BY <2>1, <2>2, <2>4 DEF RegionsAreFaces
<1> QED BY <1>2, <1>5, <1>6 DEF PlaneInv

\* lwt_AddIsoEdge stores the face of its two nodes on both sides, and parts nothing.
LEMMA AddIsoEdgePlane == ASSUME FacesInv, [Next]_vars, AddIsoEdge PROVE PlaneInv'
<1>1. PICK s \in Node, t \in Node : \E g :
         /\ DrawsEdge(last.edge + 1, s, t, 0, 0, isoRegion[s], g)
         /\ DrawLine(last.edge + 1, g, isoRegion[s], 0, 0, {s, t})
         /\ s # t /\ containing[s] = containing[t]
         /\ side' = [d \in DOMAIN cw \cup {last.edge + 1, -(last.edge + 1)} |->
                       IF d \in {last.edge + 1, -(last.edge + 1)} THEN containing[s] ELSE side[d]]
         /\ containing' = [containing EXCEPT ![s] = None, ![t] = None]
         /\ UNCHANGED <<relation, face>>
  BY AddIsoEdgeDraws DEF FacesInv
<1> DEFINE e == last.edge + 1
           f == isoRegion[s]
           B == DOMAIN cw \cup {e, -e}
<1>2. PICK g : /\ DrawsEdge(e, s, t, 0, 0, f, g) /\ DrawLine(e, g, f, 0, 0, {s, t})
               /\ s # t /\ containing[s] = containing[t]
               /\ side' = [d \in B |-> IF d \in {e, -e} THEN containing[s] ELSE side[d]]
               /\ containing' = [containing EXCEPT ![s] = None, ![t] = None]
               /\ UNCHANGED <<relation, face>>
  BY <1>1
<1> HIDE DEF e
<1>3. Leaving(s) = {}
  BY <1>2 DEF DrawsEdge, EndsPlaced
<1>4. s \in DOMAIN isoRegion /\ containing[s] = f /\ f \in face \cup {0}
  BY <1>3, PlaneTypes DEF FacesInv, PlaneInv, RegionsAreFaces
<1>5. side' = WithCurve(side, DOMAIN cw, e, f)
  BY <1>2, <1>4 DEF WithCurve
<1>6. containing' = [n \in Node |-> IF n \in {s, t} THEN None ELSE containing[n]]
  BY <1>2 DEF Node, FacesInv, IInv, TypeOK
<1>7. DrawnStep(e, s, t, 0, 0, f, g, 0, 0, B)
  BY <1>2, DrawnSteps
<1>8. ~g.splits
  <2>1. /\ cw' = Inserted(e, 0, 0) /\ Rotates(cw', B) /\ DrawsAs(g, cw', e, f, {s, t})
        /\ Placed(e, 0, 0)
    BY <1>7 DEF DrawnStep
  <2>2. cw'[-e] = -e
    BY <2>1 DEF Inserted, After, Placed
  <2>3. g.left = Orbit(Walk(cw'), e) /\ (g.splits <=> -e \notin g.left)
    BY <2>1 DEF DrawsAs
  <2>4. e \in B
    OBVIOUS
  <2>5. PICK R : R = Orbit(Walk(cw'), e)
    OBVIOUS
  <2>6. e \in R /\ (cw'[-e] \in R <=> e \in R)
    BY <2>1, <2>4, <2>5, RingsPart
  <2> QED BY <2>2, <2>3, <2>5, <2>6
<1>9. face' = face
  BY <1>2
<1> HIDE DEF B, f
<1> QED BY <1>4, <1>5, <1>6, <1>7, <1>8, <1>9, BridgeKeepsPlane

\* Erasing a curve leaves its two regions one name, if that is one of theirs or new.
LEMMA EraseKeepsPlane ==
  ASSUME FacesInv, [Next]_vars, NEW e, NEW f, NEW bare, ErasesEdge(e, f, bare), LeftName(e, f),
         bare \subseteq Node, side' = RegionsLess(e, f),
         containing' = [n \in Node |-> IF n \in bare \/ containing[n] \in {region[e], region[-e]}
                                       THEN f ELSE containing[n]],
         f \in face' \cup {0}, 0 \notin face',
         face' \ {f} \subseteq face \ {region[e], region[-e]},
         face \ {region[e], region[-e]} \subseteq face'
  PROVE  PlaneInv'
<1> DEFINE A == DOMAIN cw \ {e, -e}
           m == {region[e], region[-e]}
<1>1. /\ e \in DOMAIN cw /\ -e \in DOMAIN cw /\ cw' = Dropped(e) /\ EraseLine(e, f, bare)
  BY DEF ErasesEdge
<1>2. DOMAIN cw' = A
  BY <1>1 DEF Dropped
<1>3. Rotates(cw', A)
  BY <1>2, NewRotation DEF FacesInv, TurnsInv
<1>4. /\ hole' = HolesLess(e) /\ region' = RegionsLess(e, f)
      /\ isoRegion' = [n \in DOMAIN isoRegion \cup bare |->
                         IF n \in bare \/ isoRegion[n] \in m THEN f ELSE isoRegion[n]]
  <2>1. DropEdge(cw, e) = Dropped(e)
    BY DropEdgeValue
  <2>2. DOMAIN DropEdge(cw, e) = A
    BY <1>1, <1>2, <2>1
  <2> QED BY <1>1, <2>1, <2>2 DEF EraseLine, HolesLess, RegionsLess
<1>5. Planar(cw', DOMAIN cw', hole', region')
  <2>1. Planar(cw, DOMAIN cw, hole, region)
    BY DEF FacesInv, PlaneInv
  <2> QED BY <1>1, <1>2, <1>3, <1>4, <2>1, ErasedPlanar
<1>6. /\ (\A x \in DOMAIN cw : region[x] \in face \cup {0})
      /\ DOMAIN isoRegion \subseteq Node /\ (\A n \in DOMAIN isoRegion : isoRegion[n] \in face \cup {0})
      /\ (\A z \in face : HasShell(DOMAIN cw, hole, region, z))
      /\ Planar(cw, DOMAIN cw, hole, region)
  BY DEF FacesInv, PlaneInv, RegionsAreFaces
<1>7. Node' = Node
  BY DEF Node
<1>8. FacesFollowDrawing'
  <2>1. None \notin m
    BY <1>1, PlaneTypes DEF None
  <2>2. \A n \in Node : containing'[n] = IF n \in DOMAIN isoRegion' THEN isoRegion'[n] ELSE None
    BY <1>4, <2>1, PlaneTypes
  <2> QED BY <1>4, <1>7, <2>2 DEF FacesFollowDrawing
<1>9. RegionsAreFaces'
  <2>1. \A x \in DOMAIN cw' : region'[x] \in face' \cup {0}
    <3> TAKE x \in DOMAIN cw'
    <3>1. x \in A /\ region'[x] = IF region[x] \in m THEN f ELSE region[x]
      BY <1>2, <1>4 DEF RegionsLess
    <3> QED BY <1>6, <3>1
  <2>2. DOMAIN isoRegion' \subseteq Node' /\ \A n \in DOMAIN isoRegion' : isoRegion'[n] \in face' \cup {0}
    BY <1>4, <1>6, <1>7
  <2>3. ASSUME NEW z \in face' PROVE HasShell(DOMAIN cw', hole', region', z)
    <3>1. CASE region[e] = region[-e]
      <4>1. f = region[e]
        BY <3>1 DEF LeftName
      <4>2. z \in face
        BY <1>1, <1>6, <4>1
      <4>3. HasShell(DOMAIN cw, hole, region, z)
        BY <1>6, <4>2
      <4> QED BY <1>1, <1>2, <1>3, <1>4, <1>6, <3>1, <4>1, <4>3, BridgeErasedShells
    <3>2. CASE region[e] # region[-e]
      <4>1. \A y \in {region[e], region[-e]} : y # 0 => HasShell(DOMAIN cw, hole, region, y)
        BY <1>1, <1>6
      <4>2. /\ \A y : /\ y \notin {region[e], region[-e]} /\ HasShell(DOMAIN cw, hole, region, y)
                      => HasShell(A, HolesLess(e), RegionsLess(e, f), y)
            /\ f # 0 => HasShell(A, HolesLess(e), RegionsLess(e, f), f)
        BY <1>1, <1>3, <1>6, <3>2, <4>1, PartsErasedShells
      <4>3. CASE z = f
        BY <1>2, <1>4, <4>2, <4>3
      <4>4. CASE z # f
        <5>1. z \in face /\ z \notin {region[e], region[-e]}
          BY <4>4
        <5> QED BY <1>2, <1>4, <1>6, <4>2, <5>1
      <4> QED BY <4>3, <4>4
    <3> QED BY <3>1, <3>2
  <2> QED BY <2>1, <2>2, <2>3 DEF RegionsAreFaces
<1> QED BY <1>5, <1>8, <1>9 DEF PlaneInv

\* lwt_RemIsoEdge gives the ends of the edge the face on its sides.
LEMMA RemIsoEdgePlane == ASSUME FacesInv, [Next]_vars, RemIsoEdge PROVE PlaneInv'
<1>1. PICK e \in Edge : /\ ErasesEdge(e, region[e], {org[e], org[-e]})
                        /\ side[e] = side[-e]
                        /\ side' = [d \in DOMAIN cw \ {e, -e} |-> side[d]]
                        /\ containing' = [n \in Node |-> IF n \in {org[e], org[-e]} THEN side[e]
                                                         ELSE containing[n]]
                        /\ UNCHANGED <<relation, face>>
  BY RemIsoEdgeErases DEF FacesInv
<1> DEFINE f == region[e]
           bare == {org[e], org[-e]}
<1>2. e \in DOMAIN cw /\ -e \in DOMAIN cw
  BY <1>1 DEF ErasesEdge
<1>3. region[-e] = f /\ f \in Nat /\ bare \subseteq Node /\ f \in face \cup {0} /\ 0 \notin face
  BY <1>1, <1>2, PlaneTypes DEF FacesInv, PlaneInv, RegionsAreFaces
<1>4. LeftName(e, f)
  BY <1>3 DEF LeftName
<1>5. side' = RegionsLess(e, f)
  BY <1>1, <1>3, PlaneTypes DEF RegionsLess
<1>6. containing' = [n \in Node |-> IF n \in bare \/ containing[n] \in {region[e], region[-e]}
                                    THEN f ELSE containing[n]]
  BY <1>1, <1>2, <1>3, PlaneTypes
<1> HIDE DEF f, bare
<1>7. ErasesEdge(e, f, bare) /\ region[e] = f
  BY <1>1 DEF f, bare
<1> QED BY <1>1, <1>3, <1>4, <1>5, <1>6, <1>7, EraseKeepsPlane

\* _lwt_RemEdge floods the two faces with the one that remains, and gives it to the
\* end nodes that nothing else leaves.
LEMMA RemEdgePlane == ASSUME NEW modFace \in BOOLEAN, FacesInv, [Next]_vars, RemEdge(modFace) PROVE PlaneInv'
<1>1. PICK e \in Edge :
        /\ ErasesEdge(e, Flood(e, modFace), Stranded(e))
        /\ side' = [d \in DOMAIN cw \ {e, -e} |->
                      IF side[d] \in Vanished(e, modFace) THEN Flood(e, modFace) ELSE side[d]]
        /\ containing' = [n \in Node |-> IF n \in Stranded(e) THEN Flood(e, modFace)
                                         ELSE IF containing[n] \in Vanished(e, modFace) THEN Flood(e, modFace)
                                         ELSE containing[n]]
        /\ face' = (face \cup (IF side[e] # side[-e] /\ 0 \notin {side[e], side[-e]} /\ ~modFace
                               THEN {Flood(e, modFace)} ELSE {})) \ Vanished(e, modFace)
  BY RemEdgeErases DEF FacesInv
<1> DEFINE f == Flood(e, modFace)
           gone == Vanished(e, modFace)
           l == region[e]
           r == region[-e]
           new == last.face + 1
<1>2. /\ e \in DOMAIN cw /\ -e \in DOMAIN cw /\ side[e] = l /\ side[-e] = r
      /\ l \in face \cup {0} /\ r \in face \cup {0} /\ 0 \notin face /\ new \notin face \cup {0}
      /\ \A x \in DOMAIN cw : region[x] \in face \cup {0}
  BY <1>1, PlaneTypes DEF ErasesEdge, FacesInv, PlaneInv, RegionsAreFaces
<1>3. /\ f = IF l # r /\ 0 \in {l, r} THEN 0
             ELSE IF l # r /\ 0 \notin {l, r} /\ ~modFace THEN new ELSE r
      /\ gone = IF l # r THEN {l, r} \ {f} ELSE {}
  BY <1>2 DEF Flood, Vanished
<1> HIDE DEF f, gone
<1>4. LeftName(e, f)
  BY <1>2, <1>3 DEF LeftName
<1>5. Stranded(e) \subseteq Node
  BY <1>2, PlaneTypes DEF Stranded
<1>6. side' = RegionsLess(e, f)
  <2>1. side' = [d \in DOMAIN cw \ {e, -e} |-> IF side[d] \in gone THEN f ELSE side[d]]
    BY <1>1 DEF f, gone
  <2>2. \A y : (IF y \in gone THEN f ELSE y) = IF y \in {l, r} THEN f ELSE y
    BY <1>3
  <2> HIDE DEF l, r
  <2>3. side' = [d \in DOMAIN cw \ {e, -e} |-> IF side[d] \in {l, r} THEN f ELSE side[d]]
    BY <2>1, <2>2
  <2> QED BY <2>3, PlaneTypes DEF RegionsLess, l, r
<1>7. containing' = [n \in Node |-> IF n \in Stranded(e) \/ containing[n] \in {l, r}
                                    THEN f ELSE containing[n]]
  <2>1. containing' = [n \in Node |-> IF n \in Stranded(e) THEN f ELSE
                                       IF containing[n] \in gone THEN f ELSE containing[n]]
    BY <1>1 DEF f, gone
  <2>2. \A y : (IF y \in gone THEN f ELSE y) = IF y \in {l, r} THEN f ELSE y
    BY <1>3
  <2> HIDE DEF l, r
  <2> QED BY <2>1, <2>2
<1>8. face' = (face \cup (IF l # r /\ 0 \notin {l, r} /\ ~modFace THEN {f} ELSE {})) \ gone
  BY <1>1, <1>2 DEF f, gone
<1>9. /\ f \in face' \cup {0} /\ 0 \notin face'
      /\ face' \ {f} \subseteq face \ {l, r} /\ face \ {l, r} \subseteq face'
  <2> HIDE DEF l, r, new
  <2> QED BY <1>2, <1>3, <1>8
<1>10. ErasesEdge(e, f, Stranded(e))
  BY <1>1 DEF f
<1> QED BY <1>4, <1>5, <1>6, <1>7, <1>9, <1>10, EraseKeepsPlane

\* Both halves of a cut curve keep its regions.
LEMMA CutKeepsPlane ==
  ASSUME FacesInv, [Next]_vars, NEW e, NEW i, NEW j, NEW n, CutsEdge(e, i, j, n),
         side' = [d \in CutDarts(e, i, j) |-> side[WasCut(e, i, j, d)]],
         containing' = [m \in Node \cup {n} |-> IF m = n THEN None ELSE containing[m]],
         face' = face
  PROVE  PlaneInv'
<1> DEFINE B == CutDarts(e, i, j)
<1>1. /\ Cuts(e, i, j) /\ CutLine(e, i, j) /\ cw' = CutRot(e, i, j) /\ n \notin Node
  BY DEF CutsEdge
<1>2. DOMAIN cw' = B
  BY <1>1 DEF CutRot
<1>3. Rotates(cw', B)
  BY <1>2, NewRotation DEF FacesInv, TurnsInv
<1>4. /\ hole' = HolesCut(e, i, j) /\ region' = RegionsCut(e, i, j) /\ isoRegion' = isoRegion
  BY <1>1 DEF CutLine, HolesCut, RegionsCut, CutDarts, WasCut
<1>5. /\ (\A x \in DOMAIN cw : region[x] \in face \cup {0})
      /\ DOMAIN isoRegion \subseteq Node /\ (\A k \in DOMAIN isoRegion : isoRegion[k] \in face \cup {0})
      /\ (\A z \in face : HasShell(DOMAIN cw, hole, region, z))
      /\ Planar(cw, DOMAIN cw, hole, region)
  BY DEF FacesInv, PlaneInv, RegionsAreFaces
<1>6. Planar(cw', DOMAIN cw', hole', region')
  BY <1>1, <1>2, <1>3, <1>4, <1>5, CutPlanar
<1>7. Node' = Node \cup {n}
  BY DEF Node
<1>8. FacesFollowDrawing'
  <2>1. side' = region'
    BY <1>4, PlaneTypes DEF RegionsCut
  <2>2. \A k \in Node' : containing'[k] = IF k \in DOMAIN isoRegion' THEN isoRegion'[k] ELSE None
    BY <1>1, <1>4, <1>5, <1>7, PlaneTypes
  <2> QED BY <2>1, <2>2 DEF FacesFollowDrawing
<1>9. RegionsAreFaces'
  <2>1. \A x \in B : WasCut(e, i, j, x) \in DOMAIN cw
    BY <1>1 DEF WasCut, CutDarts, Cuts
  <2>2. \A x \in DOMAIN cw' : region'[x] \in face' \cup {0}
    BY <1>2, <1>4, <1>5, <2>1 DEF RegionsCut
  <2>3. DOMAIN isoRegion' \subseteq Node' /\ \A k \in DOMAIN isoRegion' : isoRegion'[k] \in face' \cup {0}
    BY <1>4, <1>5, <1>7
  <2>4. \A x \in DOMAIN cw : \E y \in B : WasCut(e, i, j, y) = x
    <3> TAKE x \in DOMAIN cw
    <3>1. CASE x = e
      BY <1>1, <3>1 DEF WasCut, CutDarts, Cuts
    <3>2. CASE x = -e
      <4>1. -i \in B
        BY DEF CutDarts
      <4>2. WasCut(e, i, j, -i) = -e
        BY <1>1 DEF WasCut, Cuts
      <4> QED BY <3>2, <4>1, <4>2
    <3>3. CASE x \notin {e, -e}
      BY <1>1, <3>3 DEF WasCut, CutDarts, Cuts
    <3> QED BY <3>1, <3>2, <3>3
  <2>5. ASSUME NEW z \in face' PROVE HasShell(DOMAIN cw', hole', region', z)
    <3>1. PICK x \in DOMAIN cw \ hole : region[x] = z
      BY <1>5 DEF HasShell
    <3>2. PICK y \in B : WasCut(e, i, j, y) = x
      BY <2>4
    <3>3. y \notin hole' /\ region'[y] = z
      BY <1>4, <3>1, <3>2 DEF HolesCut, RegionsCut
    <3> QED BY <1>2, <3>2, <3>3 DEF HasShell
  <2> QED BY <2>2, <2>3, <2>5 DEF RegionsAreFaces
<1> QED BY <1>6, <1>8, <1>9 DEF PlaneInv

\* lwt_ModEdgeSplit and lwt_NewEdgesSplit copy the faces of the edge.
LEMMA SplitsPlane == ASSUME FacesInv, [Next]_vars, ModEdgeSplit \/ NewEdgesSplit PROVE PlaneInv'
<1>1. CASE ModEdgeSplit
  <2>1. PICK e \in Edge :
          /\ CutsEdge(e, e, last.edge + 1, last.node + 1)
          /\ side' = [d \in CutDarts(e, e, last.edge + 1) |-> side[WasCut(e, e, last.edge + 1, d)]]
          /\ containing' = [m \in Node \cup {last.node + 1} |-> IF m = last.node + 1 THEN None
                                                                ELSE containing[m]]
          /\ face' = face
    BY <1>1, ModEdgeSplitCuts DEF FacesInv
  <2> QED BY <2>1, CutKeepsPlane
<1>2. CASE NewEdgesSplit
  <2>1. PICK e \in Edge :
          /\ CutsEdge(e, last.edge + 1, last.edge + 2, last.node + 1)
          /\ side' = [d \in CutDarts(e, last.edge + 1, last.edge + 2) |->
                        side[WasCut(e, last.edge + 1, last.edge + 2, d)]]
          /\ containing' = [m \in Node \cup {last.node + 1} |-> IF m = last.node + 1 THEN None
                                                                ELSE containing[m]]
          /\ face' = face
    BY <1>2, NewEdgesSplitCuts DEF FacesInv
  <2> QED BY <2>1, CutKeepsPlane
<1> QED BY <1>1, <1>2

\* _lwt_HealEdges keeps the faces of the first edge, which are those of the second.
LEMMA HealEdgesPlane ==
  ASSUME NEW modEdge \in BOOLEAN, FacesInv, [Next]_vars, HealEdges(modEdge) PROVE PlaneInv'
<1>1. PICK a, b, M, n : /\ JoinsEdges(a, b, M)
                        /\ side' = [d \in JoinDarts(a, b, M) |->
                                      IF d = M THEN side[a] ELSE IF d = -M THEN side[-a] ELSE side[d]]
                        /\ n = org[b] /\ containing' = [k \in Node \ {n} |-> containing[k]]
                        /\ UNCHANGED face
  <2>1. PICK e1 \in Edge, e2 \in Edge, n \in Node : \E a, b, M :
          HealsInto(e1, e2, IF modEdge THEN e1 ELSE last.edge + 1, a, b, M, n)
    BY HealEdgesJoins DEF FacesInv
  <2> QED BY <2>1 DEF HealsInto
<1> DEFINE A == JoinDarts(a, b, M)
<1>2. /\ Joins(a, b, M) /\ JoinLines(a, b, M) /\ cw' = JoinRot(a, b, M)
      /\ org[-a] = org[b] /\ \A d \in DOMAIN cw : org[d] \in {org[-a], org[b]} <=> d \in {-a, b}
  BY <1>1 DEF JoinsEdges
<1>3. DOMAIN cw' = A
  BY <1>2 DEF JoinRot
<1>4. Rotates(cw', A)
  BY <1>3, NewRotation DEF FacesInv, TurnsInv
<1>5. /\ (\A x \in DOMAIN cw : region[x] \in face \cup {0})
      /\ DOMAIN isoRegion \subseteq Node /\ (\A k \in DOMAIN isoRegion : isoRegion[k] \in face \cup {0})
      /\ (\A z \in face : HasShell(DOMAIN cw, hole, region, z))
      /\ Planar(cw, DOMAIN cw, hole, region)
  BY DEF FacesInv, PlaneInv, RegionsAreFaces
<1>6. /\ Rotates(cw, DOMAIN cw) /\ OneTurn(cw, org) /\ \A d \in DOMAIN cw : org[cw[d]] = org[d]
  BY DrawingRotates DEF FacesInv, TurnsInv
<1>7. cw[-a] = b /\ cw[b] = -a
  BY <1>2, <1>6, JoinTurn
<1>8. /\ Planar(cw', A, HolesJoined(a, b, M), RegionsJoined(a, b, M))
      /\ region[b] = region[a] /\ region[-a] = region[-b]
  BY <1>2, <1>4, <1>5, <1>7, JoinPlanar
<1>9. /\ hole' = HolesJoined(a, b, M) /\ region' = RegionsJoined(a, b, M) /\ isoRegion' = isoRegion
  BY <1>2 DEF JoinLines, HolesJoined, RegionsJoined, JoinDarts, WasJoin
<1>10. Planar(cw', DOMAIN cw', hole', region')
  BY <1>3, <1>8, <1>9
<1>11. Node' = Node \ {n}
  BY <1>1 DEF Node
<1>12. n \notin DOMAIN isoRegion
  <2>1. b \in Leaving(n) /\ n \in Node
    BY <1>1, <1>2, PlaneTypes DEF Leaving, Joins
  <2> QED BY <2>1, PlaneTypes
<1>13. FacesFollowDrawing'
  <2>1. M # -M
    BY <1>2 DEF Joins
  <2>2. \A d \in A : side'[d] = region[WasJoin(a, b, M, d)]
    BY <1>1, <1>8, <2>1, PlaneTypes DEF WasJoin
  <2>3. side' = region'
    BY <1>1, <1>9, <2>2 DEF RegionsJoined
  <2>4. \A k \in Node' : containing'[k] = IF k \in DOMAIN isoRegion' THEN isoRegion'[k] ELSE None
    BY <1>1, <1>9, <1>11, PlaneTypes
  <2> QED BY <2>3, <2>4 DEF FacesFollowDrawing
<1>14. RegionsAreFaces'
  <2>1. \A x \in A : WasJoin(a, b, M, x) \in DOMAIN cw
    BY <1>2, JoinRenames
  <2>2. \A x \in DOMAIN cw' : region'[x] \in face' \cup {0}
    BY <1>1, <1>3, <1>5, <1>9, <2>1 DEF RegionsJoined
  <2>3. DOMAIN isoRegion' \subseteq Node' /\ \A k \in DOMAIN isoRegion' : isoRegion'[k] \in face' \cup {0}
    BY <1>1, <1>5, <1>9, <1>11, <1>12
  <2>4. \A x \in DOMAIN cw \ {-a, b} : \E y \in A : WasJoin(a, b, M, y) = x
    BY <1>2, JoinRenames
  <2>5. /\ HolesWhole(cw, DOMAIN cw, hole) /\ -(-a) = a /\ -(-b) = b /\ {a, -a, b, -b} \subseteq DOMAIN cw
        /\ a \notin {-a, b} /\ -b \notin {-a, b}
    BY <1>2, <1>5 DEF Planar, Joins
  <2>6. (a \in hole <=> b \in hole) /\ (-a \in hole <=> -b \in hole)
    BY <1>7, <2>5 DEF HolesWhole
  <2>7. \A x \in DOMAIN cw \ hole : \E y \in DOMAIN cw \ {-a, b} : y \notin hole /\ region[y] = region[x]
    <3> TAKE x \in DOMAIN cw \ hole
    <3>1. CASE x = b
      BY <1>8, <2>5, <2>6, <3>1
    <3>2. CASE x = -a
      BY <1>8, <2>5, <2>6, <3>2
    <3>3. CASE x \notin {-a, b}
      BY <3>3
    <3> QED BY <3>1, <3>2, <3>3
  <2>8. ASSUME NEW z \in face' PROVE HasShell(DOMAIN cw', hole', region', z)
    <3>1. PICK w \in DOMAIN cw \ hole : region[w] = z
      BY <1>1, <1>5 DEF HasShell
    <3>2. PICK x \in DOMAIN cw \ {-a, b} : x \notin hole /\ region[x] = z
      BY <2>7, <3>1
    <3>3. PICK y \in A : WasJoin(a, b, M, y) = x
      BY <2>4, <3>2
    <3>4. y \notin hole' /\ region'[y] = z
      BY <1>9, <3>2, <3>3 DEF HolesJoined, RegionsJoined
    <3> QED BY <1>3, <3>3, <3>4 DEF HasShell
  <2> QED BY <2>2, <2>3, <2>8 DEF RegionsAreFaces
<1> QED BY <1>10, <1>13, <1>14 DEF PlaneInv

\* The faces _lwt_FindAdjacentEdges finds at the two ends of a new edge.
EndFaces(sc, sw, ec, ew, p, q, e, f) ==
  /\ sc = IF p = 0 \/ q = e THEN None ELSE f
  /\ sw = IF p = 0 \/ q = p THEN None ELSE f
  /\ ec = IF q = 0 \/ q = p \/ (q = e /\ p = 0) THEN None ELSE f
  /\ ew = IF q \in {0, e} THEN None ELSE f

\* Each of them that is found is the face of the region the edge is drawn in.
LEMMA FoundFaces ==
  ASSUME FacesInv, NEW e, NEW s, NEW t, NEW p, NEW q, NEW f,
         EndsPlaced(e, s, t, p, q), EndsFacing(e, s, t, p, q, f)
  PROVE  LET span == Adjacent(e, e, Inserted(e, p, q))
             epan == Adjacent(e, -e, Inserted(e, p, q))
         IN  EndFaces(span.cwFace, span.ccwFace, epan.cwFace, epan.ccwFace, p, q, e, f)
<1> DEFINE span == Adjacent(e, e, Inserted(e, p, q))
           epan == Adjacent(e, -e, Inserted(e, p, q))
           other(x) == IF x \in {e, -e} THEN 0 ELSE x
<1>1. /\ Placed(e, p, q) /\ e \in Int \ {0} /\ e # -e /\ -(-e) = e /\ 0 \notin DOMAIN cw
      /\ e \notin DOMAIN cw /\ -e \notin DOMAIN cw /\ p \in DOMAIN cw \cup {0}
      /\ q \in DOMAIN cw \cup {0, e} /\ (s = t => q # 0) /\ (p = 0 => q = 0 \/ q = e \/ q # p)
  BY DEF EndsPlaced, Placed
<1>2. \A x \in DOMAIN cw : /\ cw[x] \in DOMAIN cw /\ -x \in DOMAIN cw /\ -(-x) = x /\ x \in Int
                           /\ region[-x] = region[cw[x]] /\ side[x] = region[x]
  <2>1. Rotates(cw, DOMAIN cw) /\ OneRegion(cw, DOMAIN cw, region) /\ side = region
    BY PlaneTypes DEF FacesInv, PlaneInv, Planar
  <2>2. \A x \in DOMAIN cw : cw[x] \in DOMAIN cw /\ -x \in DOMAIN cw /\ -(-x) = x /\ x \in Int
    BY <2>1 DEF Rotates, Permutes
  <2> QED BY <2>1, <2>2 DEF OneRegion
<1>3. /\ span.nextCW = other(After(e, p, q, e)) /\ span.nextCCW = other(Pred(e, p, q, e))
      /\ span.cwFace = IF span.nextCW = 0 THEN None ELSE side[span.nextCW]
      /\ span.ccwFace = IF span.nextCCW = 0 THEN None ELSE side[-span.nextCCW]
  BY <1>1, <1>2, AdjacentFound
<1>4. /\ epan.nextCW = other(After(e, p, q, -e)) /\ epan.nextCCW = other(Pred(e, p, q, -e))
      /\ epan.cwFace = IF epan.nextCW = 0 THEN None ELSE side[epan.nextCW]
      /\ epan.ccwFace = IF epan.nextCCW = 0 THEN None ELSE side[-epan.nextCCW]
  BY <1>1, <1>2, AdjacentFound
<1>5. /\ p # 0 => p \in DOMAIN cw /\ region[cw[p]] = f /\ side[-p] = f /\ side[cw[p]] = f
      /\ q \notin {0, e} => q \in DOMAIN cw /\ region[cw[q]] = f /\ side[-q] = f /\ side[cw[q]] = f
  BY <1>1, <1>2 DEF EndsFacing
<1>6. other(After(e, p, q, e)) = IF p = 0 \/ q = e THEN 0 ELSE cw[p]
  BY <1>1, <1>2, <1>5 DEF After
<1>7. other(Pred(e, p, q, e)) = IF p = 0 \/ q = p THEN 0 ELSE p
  BY <1>1, <1>2, <1>5 DEF Pred
<1>8. other(After(e, p, q, -e)) = IF q = 0 \/ q = p \/ (q = e /\ p = 0) THEN 0
                                  ELSE IF q = e THEN cw[p] ELSE cw[q]
  BY <1>1, <1>2, <1>5 DEF After
<1>9. other(Pred(e, p, q, -e)) = IF q \in {0, e} THEN 0 ELSE q
  BY <1>1, <1>2, <1>5 DEF Pred
<1> HIDE DEF span, epan, other
<1>10. span.cwFace = IF p = 0 \/ q = e THEN None ELSE f
  BY <1>1, <1>2, <1>3, <1>5, <1>6
<1>11. span.ccwFace = IF p = 0 \/ q = p THEN None ELSE f
  BY <1>1, <1>2, <1>3, <1>5, <1>7
<1>12. epan.cwFace = IF q = 0 \/ q = p \/ (q = e /\ p = 0) THEN None ELSE f
  BY <1>1, <1>2, <1>4, <1>5, <1>8
<1>13. epan.ccwFace = IF q \in {0, e} THEN None ELSE f
  BY <1>1, <1>2, <1>4, <1>5, <1>9
<1> QED BY <1>10, <1>11, <1>12, <1>13 DEF EndFaces, span, epan

\* So a new edge gets the face it is drawn in, on both sides and without an error.
LEMMA LegalFaces ==
  ASSUME FacesInv, NEW e, NEW s \in Node, NEW t \in Node, NEW p, NEW q, NEW f \in face \cup {0},
         EndsPlaced(e, s, t, p, q), EndsFacing(e, s, t, p, q, f)
  PROVE  LET faces == EdgeFaces(e, s, t, Inserted(e, p, q))
         IN  faces.left = f /\ faces.right = f /\ faces.sound
<1> DEFINE span == Adjacent(e, e, Inserted(e, p, q))
           epan == Adjacent(e, -e, Inserted(e, p, q))
           faces == EdgeFaces(e, s, t, Inserted(e, p, q))
           or(x, y) == IF x = None THEN y ELSE x
           from == IF containing[s] # None THEN containing[s] ELSE containing[t]
<1>1. EndFaces(span.cwFace, span.ccwFace, epan.cwFace, epan.ccwFace, p, q, e, f)
  BY FoundFaces
<1>2. PICK sc, sw, ec, ew : /\ sc = span.cwFace /\ sw = span.ccwFace
                            /\ ec = epan.cwFace /\ ew = epan.ccwFace
  OBVIOUS
<1>3. f \in Nat /\ f # None
  BY PlaneTypes DEF None
<1>4. /\ containing[s] = IF Leaving(s) = {} THEN f ELSE None
      /\ containing[t] = IF Leaving(t) = {} THEN f ELSE None
  BY PlaneTypes DEF EndsFacing
<1>5. /\ p = 0 <=> Leaving(s) = {}
      /\ s # t => q # e /\ (q = 0 <=> Leaving(t) = {})
      /\ s = t => q # 0 /\ (p = 0 => q = e)
      /\ p # e /\ e # 0
      /\ q = p /\ p # 0 => s = t
  BY DEF EndsPlaced, Placed
<1>6. /\ faces.left = LET left == IF Leaving(s) # {} THEN or(from, sw) ELSE from
                      IN  IF Leaving(t) # {} THEN or(left, sc) ELSE left
      /\ faces.right = LET right == IF Leaving(s) # {} THEN or(from, sc) ELSE from
                       IN  IF Leaving(t) # {} THEN or(right, sw) ELSE right
      /\ faces.sound <=>
           LET left == IF Leaving(s) # {} THEN or(from, sw) ELSE from
               right == IF Leaving(s) # {} THEN or(from, sc) ELSE from
           IN  /\ None \in {containing[s], containing[t]} \/ containing[s] = containing[t]
               /\ Leaving(t) # {} => right \in {None, ew} /\ left \in {None, ec}
               /\ None \in {sc, sw} \/ sc = sw
               /\ None \in {ec, ew} \/ ec = ew
  <2> HIDE DEF span, epan
  <2> QED BY <1>2 DEF EdgeFaces, span, epan
<1> HIDE DEF span, epan, faces
<1> SUFFICES faces.left = f /\ faces.right = f /\ faces.sound
  BY DEF faces
<1>7. EndFaces(sc, sw, ec, ew, p, q, e, f)
  BY <1>1, <1>2
<1>8. CASE Leaving(s) = {}
  BY <1>3, <1>4, <1>5, <1>6, <1>7, <1>8 DEF EndFaces
<1>9. CASE Leaving(s) # {} /\ s # t
  BY <1>3, <1>4, <1>5, <1>6, <1>7, <1>9 DEF EndFaces
<1>10. CASE Leaving(s) # {} /\ s = t
  BY <1>3, <1>4, <1>5, <1>6, <1>7, <1>10 DEF EndFaces
<1> QED BY <1>8, <1>9, <1>10

\* No curve that crosses nothing is refused.
LEMMA PlaneAccepts == FacesInv => LegalEdgesAccepted
<1> SUFFICES ASSUME FacesInv, NEW s \in Node, NEW t \in Node, NEW f \in face \cup {0},
                    NEW pq \in Places(last.edge + 1, s, t, f)
             PROVE  Accepted(EdgeFaces(last.edge + 1, s, t, InsertEdge(cw, last.edge + 1, pq[1], pq[2])))
  BY DEF LegalEdgesAccepted
<1> DEFINE e == last.edge + 1
<1>1. pq = <<pq[1], pq[2]>>
  BY DEF Places
<1>2. PICK p, q : p = pq[1] /\ q = pq[2] /\ <<p, q>> \in Places(e, s, t, f)
  BY <1>1
<1>3. /\ e \in Int \ {0} /\ e \notin DOMAIN next /\ -e \notin DOMAIN next
  BY FreshDarts DEF TypeOK, FacesInv, IInv
<1>4. EndsPlaced(e, s, t, p, q)
  BY <1>2, <1>3, PlacesArePlaced DEF FacesInv, IInv
<1>5. EndsFacing(e, s, t, p, q, f)
  BY <1>2, <1>4, PlacesFacing DEF FacesInv, IInv
<1>6. InsertEdge(cw, e, p, q) = Inserted(e, p, q)
  BY <1>4, InsertEdgeValue DEF EndsPlaced
<1>7. f # None
  BY PlaneTypes DEF None
<1> HIDE DEF e
<1>8. LET faces == EdgeFaces(e, s, t, Inserted(e, p, q))
      IN  faces.left = f /\ faces.right = f /\ faces.sound
  BY <1>4, <1>5, LegalFaces
<1> QED BY <1>2, <1>6, <1>7, <1>8 DEF Accepted, e

\* What of region f lies on the side of dart d of a new edge e that parts it.
Swept(g, e, d) == IF d = e THEN OnLeft(g) ELSE g.right \cup (g.rest \ OnLeft(g))
SweptPoints(g, e, d) == IF d = e THEN PointsOnLeft(g) ELSE g.points \ PointsOnLeft(g)

\* The drawing of a new edge e that parts a region, with ring links nx.
PartsRegion(nx, g, e) ==
  /\ e # -e /\ -(-e) = e
  /\ Orbit(nx, e) = g.left /\ Orbit(nx, -e) = g.right
  /\ e \in g.left /\ -e \in g.right /\ e \notin g.right /\ -e \notin g.left
  /\ g.left \cap g.right = {} /\ g.out \in {g.left, g.right, {}}
  /\ g.inside \subseteq g.rest /\ g.insidePts \subseteq g.points
  /\ g.rest \cap (g.left \cup g.right) = {}
  /\ \A x \in g.rest : -x \notin g.left \cup g.right

\* The columns st still name f what of it is on the side of dart d.
StillNames(st, g, e, d, f) ==
  /\ \A x \in DOMAIN st.side : st.side[x] = f => x \in g.left \cup g.right \cup g.rest
  /\ \A x \in Swept(g, e, d) \cap g.rest : x \in DOMAIN st.side => st.side[x] = f
  /\ \A n \in DOMAIN st.containing : st.containing[n] = f => n \in g.points
  /\ \A n \in SweptPoints(g, e, d) : n \in DOMAIN st.containing => st.containing[n] = f

\* The columns with a new name for the darts of S and the points of P.
NewNamed(st, S, P) ==
  [side |-> [x \in DOMAIN st.side |-> IF x \in S THEN st.last + 1 ELSE st.side[x]],
   containing |-> [n \in DOMAIN st.containing |-> IF n \in P THEN st.last + 1 ELSE st.containing[n]],
   face |-> st.face \cup {st.last + 1}, last |-> st.last + 1, ret |-> st.last + 1]

\* _lwt_AddFaceSplit asked for the split, and for the box only.
SideSplit(st, nx, g, d, f) == AddFaceSplit(st, nx, g, d, f, FALSE)
BoxUpdated(st, nx, g, d, f) == AddFaceSplit(st, nx, g, d, f, TRUE)

\* What _lwt_AddFaceSplit returns for the side of dart d, asked for the split and for the box only.
SplitIs(st, nx, g, e, d, f) ==
  /\ SideSplit(st, nx, g, d, f) =
       IF f = 0 /\ g.out = Orbit(nx, d) THEN [st EXCEPT !.ret = -1]
       ELSE NewNamed(st, Swept(g, e, d), SweptPoints(g, e, d))
  /\ f # 0 \/ g.out = Orbit(nx, d) => BoxUpdated(st, nx, g, d, f) = [st EXCEPT !.ret = -1]

\* _lwt_AddFaceSplit gives a new face to everything on its side of the edge, edges and
\* isolated nodes, or does nothing for the unbounded side or when asked for the box only.
LEMMA SplitSweeps ==
  ASSUME NEW nx, NEW g, NEW e, NEW d, d \in {e, -e}, NEW f, NEW st,
         PartsRegion(nx, g, e), StillNames(st, g, e, d, f)
  PROVE  SplitIs(st, nx, g, e, d, f)
<1>1. ASSUME NEW mbrOnly \in BOOLEAN
      PROVE  AddFaceSplit(st, nx, g, d, f, mbrOnly) =
               IF (f = 0 /\ g.out = Orbit(nx, d)) \/ (mbrOnly /\ f # 0) THEN [st EXCEPT !.ret = -1]
               ELSE NewNamed(st, Swept(g, e, d), SweptPoints(g, e, d))
  <2> DEFINE ring == Orbit(nx, d)
             isccw == ring # g.out
             outward == f # 0 /\ ~isccw
             id == st.last + 1
             facing == g.out = {} /\ ring = g.right
             within == IF facing THEN g.rest \ g.inside ELSE g.inside
             withinPts == IF facing THEN g.points \ g.insidePts ELSE g.insidePts
             sweeps(x) == IF outward THEN x \in g.rest \ within ELSE x \in within
             sweepsPt(n) == IF outward THEN n \notin withinPts ELSE n \in withinPts
             S == Swept(g, e, d)
             P == SweptPoints(g, e, d)
             swept == [x \in DOMAIN st.side |->
                         IF x \in ring \/ (st.side[x] = f /\ -x \notin ring /\ sweeps(x))
                         THEN id ELSE st.side[x]]
             moved == [n \in DOMAIN st.containing |->
                         IF st.containing[n] = f /\ sweepsPt(n) THEN id ELSE st.containing[n]]
             none == (f = 0 /\ ~isccw) \/ (mbrOnly /\ f # 0)
  <2>1. /\ e # -e /\ -(-e) = e /\ Orbit(nx, e) = g.left /\ Orbit(nx, -e) = g.right
        /\ e \in g.left /\ -e \in g.right /\ e \notin g.right /\ -e \notin g.left
        /\ g.left \cap g.right = {} /\ g.out \in {g.left, g.right, {}}
        /\ g.inside \subseteq g.rest /\ g.insidePts \subseteq g.points
        /\ g.rest \cap (g.left \cup g.right) = {}
        /\ \A x \in g.rest : -x \notin g.left \cup g.right
    BY DEF PartsRegion
  <2>2. /\ ring = IF d = e THEN g.left ELSE g.right
        /\ -d \notin ring
    BY <2>1
  <2>3. AddFaceSplit(st, nx, g, d, f, mbrOnly) =
          IF none THEN [st EXCEPT !.ret = -1]
          ELSE [side |-> swept, containing |-> moved, face |-> st.face \cup {id}, last |-> id, ret |-> id]
    BY <2>2 DEF AddFaceSplit
  <2>4. none <=> (f = 0 /\ g.out = ring) \/ (mbrOnly /\ f # 0)
    OBVIOUS
  <2>5. ASSUME ~none PROVE swept = [x \in DOMAIN st.side |-> IF x \in S THEN id ELSE st.side[x]]
    <3>1. ASSUME NEW x PROVE x \in S <=> x \in ring \/ sweeps(x)
      <4>1. CASE d = e
        BY <2>1, <2>2, <2>5, <4>1 DEF Swept, OnLeft
      <4>2. CASE d # e
        BY <2>1, <2>2, <2>5, <4>2 DEF Swept, OnLeft
      <4> QED BY <4>1, <4>2
    <3>2. \A x : sweeps(x) => x \in g.rest /\ -x \notin ring
      BY <2>1, <2>2
    <3>3. \A x \in S \cap g.rest : x \in DOMAIN st.side => st.side[x] = f
      BY DEF StillNames
    <3> HIDE DEF sweeps, S, ring
    <3>4. \A x \in DOMAIN st.side : x \in S <=> x \in ring \/ (st.side[x] = f /\ -x \notin ring /\ sweeps(x))
      BY <3>1, <3>2, <3>3
    <3> QED BY <3>4
  <2>6. ASSUME ~none PROVE moved = [n \in DOMAIN st.containing |-> IF n \in P THEN id ELSE st.containing[n]]
    <3>1. ASSUME NEW n \in g.points PROVE n \in P <=> sweepsPt(n)
      <4>1. CASE d = e
        BY <2>1, <2>2, <2>6, <4>1 DEF SweptPoints, PointsOnLeft
      <4>2. CASE d # e
        BY <2>1, <2>2, <2>6, <4>2 DEF SweptPoints, PointsOnLeft
      <4> QED BY <4>1, <4>2
    <3>2. /\ \A n \in DOMAIN st.containing : st.containing[n] = f => n \in g.points
          /\ \A n \in P : n \in DOMAIN st.containing => st.containing[n] = f
      BY DEF StillNames
    <3> HIDE DEF sweepsPt, P
    <3>3. \A n \in DOMAIN st.containing : n \in P <=> st.containing[n] = f /\ sweepsPt(n)
      BY <3>1, <3>2
    <3> QED BY <3>3
  <2> HIDE DEF swept, moved, none, S, P
  <2>7. CASE none
    BY <2>3, <2>4, <2>7
  <2>8. CASE ~none
    <3>1. AddFaceSplit(st, nx, g, d, f, mbrOnly) = NewNamed(st, S, P)
      BY <2>3, <2>5, <2>6, <2>8 DEF NewNamed
    <3> QED BY <2>4, <2>8, <3>1 DEF S, P
  <2> QED BY <2>7, <2>8
<1>2. AddFaceSplit(st, nx, g, d, f, FALSE) =
        IF (f = 0 /\ g.out = Orbit(nx, d)) \/ (FALSE /\ f # 0) THEN [st EXCEPT !.ret = -1]
        ELSE NewNamed(st, Swept(g, e, d), SweptPoints(g, e, d))
  BY <1>1, Zenon
<1>3. AddFaceSplit(st, nx, g, d, f, TRUE) =
        IF (f = 0 /\ g.out = Orbit(nx, d)) \/ (TRUE /\ f # 0) THEN [st EXCEPT !.ret = -1]
        ELSE NewNamed(st, Swept(g, e, d), SweptPoints(g, e, d))
  BY <1>1, Zenon
<1> QED BY <1>2, <1>3 DEF SplitIs, SideSplit, BoxUpdated

\* What the split functions read and write, once more.
Columns(sd, cont, F, n, k) == [side |-> sd, containing |-> cont, face |-> F, last |-> n, ret |-> k]

\* The darts and the points of the region that a new edge parts.
NamesRegion(sd, cont, g, f) ==
  /\ g.left \cup g.right \cup g.rest \subseteq DOMAIN sd /\ g.points \subseteq DOMAIN cont
  /\ \A x \in DOMAIN sd : sd[x] = f <=> x \in g.left \cup g.right \cup g.rest
  /\ \A n \in DOMAIN cont : cont[n] = f <=> n \in g.points

\* The columns with names l and r for the two parts.
Parted(sd, g, f, l, r) ==
  [x \in DOMAIN sd |-> IF sd[x] # f THEN sd[x] ELSE IF x \in OnLeft(g) THEN l ELSE r]
PartedPoints(cont, g, f, l, r) ==
  [n \in DOMAIN cont |-> IF cont[n] # f THEN cont[n] ELSE IF n \in PointsOnLeft(g) THEN l ELSE r]

\* Each part of the region keeps its name when the other is renamed.
LEMMA SidesPart ==
  ASSUME NEW nx, NEW g, NEW e, PartsRegion(nx, g, e), NEW f, NEW sd, NEW cont, NamesRegion(sd, cont, g, f),
         NEW F, NEW n, NEW k
  PROVE  /\ \A d \in {e, -e} : StillNames(Columns(sd, cont, F, n, k), g, e, d, f)
         /\ f # n + 1 => \A d \in {e, -e} :
              StillNames(NewNamed(Columns(sd, cont, F, n, k), Swept(g, e, d), SweptPoints(g, e, d)),
                         g, e, -d, f)
<1> DEFINE st == Columns(sd, cont, F, n, k)
           all == g.left \cup g.right \cup g.rest
<1>1. st.side = sd /\ st.containing = cont /\ st.last = n
  BY DEF Columns
<1>2. /\ OnLeft(g) \subseteq g.left \cup g.rest /\ PointsOnLeft(g) \subseteq g.points
      /\ e # -e /\ -(-e) = e /\ g.left \cap g.right = {} /\ g.rest \cap (g.left \cup g.right) = {}
  BY DEF PartsRegion, OnLeft, PointsOnLeft
<1>3. /\ (\A x \in DOMAIN sd : sd[x] = f <=> x \in all) /\ all \subseteq DOMAIN sd
      /\ (\A m \in DOMAIN cont : cont[m] = f <=> m \in g.points) /\ g.points \subseteq DOMAIN cont
  BY DEF NamesRegion
<1>4. \A d \in {e, -e} : SweptPoints(g, e, d) \subseteq g.points
  BY <1>2 DEF SweptPoints
<1>5. \A d \in {e, -e} : Swept(g, e, d) \subseteq all
  BY <1>2 DEF Swept
<1>6. ASSUME NEW d \in {e, -e} PROVE StillNames(st, g, e, d, f)
  <2> HIDE DEF st
  <2> QED BY <1>1, <1>3, <1>4, <1>6 DEF StillNames
<1>7. ASSUME f # n + 1, NEW d \in {e, -e}
      PROVE  StillNames(NewNamed(st, Swept(g, e, d), SweptPoints(g, e, d)), g, e, -d, f)
  <2> DEFINE new == NewNamed(st, Swept(g, e, d), SweptPoints(g, e, d))
  <2>1. /\ new.side = [x \in DOMAIN sd |-> IF x \in Swept(g, e, d) THEN n + 1 ELSE sd[x]]
        /\ new.containing = [m \in DOMAIN cont |-> IF m \in SweptPoints(g, e, d) THEN n + 1 ELSE cont[m]]
    <3> HIDE DEF st
    <3> QED BY <1>1 DEF NewNamed
  <2>2. -d \in {e, -e} /\ -d # d
    BY <1>2
  <2>3. Swept(g, e, d) \cap Swept(g, e, -d) \cap g.rest = {}
    BY <1>2, <2>2 DEF Swept
  <2>4. SweptPoints(g, e, d) \cap SweptPoints(g, e, -d) = {}
    BY <1>2, <2>2 DEF SweptPoints
  <2> HIDE DEF new
  <2>5. \A x \in DOMAIN new.side : new.side[x] = f => x \in all
    BY <1>3, <1>7, <2>1
  <2>6. \A x \in Swept(g, e, -d) \cap g.rest : x \in DOMAIN new.side => new.side[x] = f
    BY <1>3, <2>1, <2>3
  <2>7. \A m \in DOMAIN new.containing : new.containing[m] = f => m \in g.points
    BY <1>3, <1>7, <2>1
  <2>8. \A m \in SweptPoints(g, e, -d) : m \in DOMAIN new.containing => new.containing[m] = f
    BY <1>3, <1>4, <2>1, <2>2, <2>4
  <2> QED BY <2>5, <2>6, <2>7, <2>8 DEF StillNames, new
<1> QED BY <1>6, <1>7

\* The names of the parts, as RegionNames gives them: n is the last face id there was.
PartNames(g, f, modFace, n, l, r) ==
  IF modFace \/ f = 0
  THEN IF f = 0 /\ g.out = g.left THEN l = f /\ r = n + 1 ELSE l = n + 1 /\ r = f
  ELSE l = n + 2 /\ r = n + 1

\* The face ids after an edge that parts face f.
PartedFaces(F, f, modFace, n) ==
  IF modFace \/ f = 0 THEN F \cup {n + 1} ELSE (F \cup {n + 1, n + 2}) \ {f}

\* One split, of the side that is not the universe face's.
LEMMA OneSweep ==
  ASSUME NEW nx, NEW g, NEW e, PartsRegion(nx, g, e), NEW f, NEW sd, NEW cont, NamesRegion(sd, cont, g, f),
         NEW F, NEW n, NEW k, NEW d \in {e, -e}, NEW l, NEW r,
         IF d = e THEN l = n + 1 /\ r = f ELSE l = f /\ r = n + 1
  PROVE  NewNamed(Columns(sd, cont, F, n, k), Swept(g, e, d), SweptPoints(g, e, d)) =
           Columns(Parted(sd, g, f, l, r), PartedPoints(cont, g, f, l, r), F \cup {n + 1}, n + 1, n + 1)
<1> DEFINE st == Columns(sd, cont, F, n, k)
           S == Swept(g, e, d)
           P == SweptPoints(g, e, d)
<1>1. st.side = sd /\ st.containing = cont /\ st.last = n /\ st.face = F
  BY DEF Columns
<1>2. /\ OnLeft(g) \subseteq g.left \cup g.rest /\ PointsOnLeft(g) \subseteq g.points
      /\ g.left \subseteq OnLeft(g)
      /\ e # -e /\ g.left \cap g.right = {} /\ g.rest \cap (g.left \cup g.right) = {}
  BY DEF PartsRegion, OnLeft, PointsOnLeft
<1>3. /\ (\A x \in DOMAIN sd : sd[x] = f <=> x \in g.left \cup g.right \cup g.rest)
      /\ (\A m \in DOMAIN cont : cont[m] = f <=> m \in g.points)
  BY DEF NamesRegion
<1>4. \A x \in DOMAIN sd : x \in S <=> sd[x] = f /\ (x \in OnLeft(g) <=> d = e)
  BY <1>2, <1>3 DEF Swept
<1>5. \A m \in DOMAIN cont : m \in P <=> cont[m] = f /\ (m \in PointsOnLeft(g) <=> d = e)
  BY <1>2, <1>3 DEF SweptPoints
<1> HIDE DEF st, S, P
<1>6. [x \in DOMAIN sd |-> IF x \in S THEN n + 1 ELSE sd[x]] = Parted(sd, g, f, l, r)
  <2>1. \A x \in DOMAIN sd : (IF x \in S THEN n + 1 ELSE sd[x]) =
                             IF sd[x] # f THEN sd[x] ELSE IF x \in OnLeft(g) THEN l ELSE r
    BY <1>4
  <2> QED BY <2>1 DEF Parted
<1>7. [m \in DOMAIN cont |-> IF m \in P THEN n + 1 ELSE cont[m]] = PartedPoints(cont, g, f, l, r)
  <2>1. \A m \in DOMAIN cont : (IF m \in P THEN n + 1 ELSE cont[m]) =
                               IF cont[m] # f THEN cont[m] ELSE IF m \in PointsOnLeft(g) THEN l ELSE r
    BY <1>5
  <2> QED BY <2>1 DEF PartedPoints
<1>8. NewNamed(st, S, P) = Columns(Parted(sd, g, f, l, r), PartedPoints(cont, g, f, l, r),
                                  F \cup {n + 1}, n + 1, n + 1)
  BY <1>1, <1>6, <1>7 DEF NewNamed, Columns
<1> QED BY <1>8 DEF st, S, P

\* Two splits, of both sides: the second gives its side the next name.
LEMMA TwoSweeps ==
  ASSUME NEW nx, NEW g, NEW e, PartsRegion(nx, g, e), NEW f, NEW sd, NEW cont, NamesRegion(sd, cont, g, f),
         NEW F, NEW n \in Nat, NEW k
  PROVE  NewNamed(Columns(Parted(sd, g, f, f, n + 1), PartedPoints(cont, g, f, f, n + 1), F, n + 1, k),
                 Swept(g, e, e), SweptPoints(g, e, e)) =
           Columns(Parted(sd, g, f, n + 2, n + 1), PartedPoints(cont, g, f, n + 2, n + 1),
                   F \cup {n + 2}, n + 2, n + 2)
<1> DEFINE one == Parted(sd, g, f, f, n + 1)
           onePts == PartedPoints(cont, g, f, f, n + 1)
           st == Columns(one, onePts, F, n + 1, k)
<1>1. st.side = one /\ st.containing = onePts /\ st.last + 1 = n + 2 /\ st.face = F
  BY DEF Columns
<1>2. OnLeft(g) \subseteq g.left \cup g.rest /\ PointsOnLeft(g) \subseteq g.points
  BY DEF PartsRegion, OnLeft, PointsOnLeft
<1>3. /\ (\A x \in DOMAIN sd : sd[x] = f <=> x \in g.left \cup g.right \cup g.rest)
      /\ (\A m \in DOMAIN cont : cont[m] = f <=> m \in g.points)
  BY DEF NamesRegion
<1>4. [x \in DOMAIN one |-> IF x \in OnLeft(g) THEN n + 2 ELSE one[x]] = Parted(sd, g, f, n + 2, n + 1)
  BY <1>2, <1>3 DEF Parted
<1>5. [m \in DOMAIN onePts |-> IF m \in PointsOnLeft(g) THEN n + 2 ELSE onePts[m]]
        = PartedPoints(cont, g, f, n + 2, n + 1)
  BY <1>2, <1>3 DEF PartedPoints
<1> HIDE DEF st, one, onePts
<1>6. NewNamed(st, OnLeft(g), PointsOnLeft(g)) =
        Columns(Parted(sd, g, f, n + 2, n + 1), PartedPoints(cont, g, f, n + 2, n + 1),
                F \cup {n + 2}, n + 2, n + 2)
  BY <1>1, <1>4, <1>5 DEF NewNamed, Columns
<1> QED BY <1>6 DEF Swept, SweptPoints, st, one, onePts

\* The columns when the parts of face f are named x and y.
NamedParts(sd, cont, g, f, x, y, F, n, k) ==
  Columns(Parted(sd, g, f, x, y), PartedPoints(cont, g, f, x, y), F, n, k)

\* A split for the side with ring leaves the state kept for the unbounded side of the universe face.
SplitTo(new, f, out, ring, kept, split) ==
  /\ f = 0 /\ out = ring => new = kept
  /\ f # 0 \/ out # ring => new = split

\* The first call of _lwt_AddFaceSplit, for the left side of the edge and for the right.
LEMMA SplitLeft ==
  ASSUME NEW nx, NEW g, NEW e, PartsRegion(nx, g, e), NEW f, NEW sd, NEW cont, NamesRegion(sd, cont, g, f),
         NEW F, NEW n \in Nat, NEW k
  PROVE  SplitTo(SideSplit(Columns(sd, cont, F, n, k), nx, g, e, f), f, g.out, g.left,
                 Columns(sd, cont, F, n, -1),
                 NamedParts(sd, cont, g, f, n + 1, f, F \cup {n + 1}, n + 1, n + 1))
<1> DEFINE st == Columns(sd, cont, F, n, k)
<1>1. StillNames(st, g, e, e, f)
  BY SidesPart
<1>2. NewNamed(st, Swept(g, e, e), SweptPoints(g, e, e)) =
        NamedParts(sd, cont, g, f, n + 1, f, F \cup {n + 1}, n + 1, n + 1)
  BY OneSweep, e \in {e, -e} DEF NamedParts
<1>3. [st EXCEPT !.ret = -1] = Columns(sd, cont, F, n, -1)
  BY DEF Columns
<1>4. Orbit(nx, e) = g.left
  BY DEF PartsRegion
<1> HIDE DEF st
<1>5. SplitIs(st, nx, g, e, e, f)
  BY <1>1, SplitSweeps
<1> QED BY <1>2, <1>3, <1>4, <1>5 DEF SplitIs, SplitTo, st

\* The same for the right side.
LEMMA SplitRight ==
  ASSUME NEW nx, NEW g, NEW e, PartsRegion(nx, g, e), NEW f, NEW sd, NEW cont, NamesRegion(sd, cont, g, f),
         NEW F, NEW n \in Nat, NEW k
  PROVE  SplitTo(SideSplit(Columns(sd, cont, F, n, k), nx, g, -e, f), f, g.out, g.right,
                 Columns(sd, cont, F, n, -1),
                 NamedParts(sd, cont, g, f, f, n + 1, F \cup {n + 1}, n + 1, n + 1))
<1> DEFINE st == Columns(sd, cont, F, n, k)
<1>1. StillNames(st, g, e, -e, f)
  BY SidesPart
<1>2. Orbit(nx, -e) = g.right /\ e # -e
  BY DEF PartsRegion
<1>3. NewNamed(st, Swept(g, e, -e), SweptPoints(g, e, -e)) =
        NamedParts(sd, cont, g, f, f, n + 1, F \cup {n + 1}, n + 1, n + 1)
  BY <1>2, OneSweep, -e \in {e, -e} DEF NamedParts
<1>4. [st EXCEPT !.ret = -1] = Columns(sd, cont, F, n, -1)
  BY DEF Columns
<1> HIDE DEF st
<1>5. SplitIs(st, nx, g, e, -e, f)
  BY <1>1, SplitSweeps
<1> QED BY <1>2, <1>3, <1>4, <1>5 DEF SplitIs, SplitTo, st

\* A second call only updates the box of the face, if it is asked to.
LEMMA SplitBox ==
  ASSUME NEW nx, NEW g, NEW e, PartsRegion(nx, g, e), NEW f, NEW sd, NEW cont, NamesRegion(sd, cont, g, f),
         NEW F, NEW n \in Nat, f # n + 1, NEW k, f # 0 \/ g.out = g.right
  PROVE  BoxUpdated(NamedParts(sd, cont, g, f, n + 1, f, F, n + 1, k), nx, g, -e, f)
           = NamedParts(sd, cont, g, f, n + 1, f, F, n + 1, -1)
<1> DEFINE st == NamedParts(sd, cont, g, f, n + 1, f, F, n + 1, k)
           new == NewNamed(Columns(sd, cont, F, n, k), Swept(g, e, e), SweptPoints(g, e, e))
<1>1. StillNames(new, g, e, -e, f)
  BY SidesPart
<1>2. new = Columns(Parted(sd, g, f, n + 1, f), PartedPoints(cont, g, f, n + 1, f), F \cup {n + 1}, n + 1, n + 1)
  BY OneSweep, e \in {e, -e}
<1>3. new.side = st.side /\ new.containing = st.containing
  BY <1>2 DEF Columns, NamedParts
<1>4. [st EXCEPT !.ret = -1] = NamedParts(sd, cont, g, f, n + 1, f, F, n + 1, -1)
  BY DEF Columns, NamedParts
<1>5. Orbit(nx, -e) = g.right
  BY DEF PartsRegion
<1> HIDE DEF st, new
<1>6. StillNames(st, g, e, -e, f)
  BY <1>1, <1>3 DEF StillNames
<1>7. SplitIs(st, nx, g, e, -e, f)
  BY <1>6, SplitSweeps
<1> QED BY <1>4, <1>5, <1>7 DEF SplitIs, st

\* A second call for the left side renames what the first left to it.
LEMMA SplitLeftToo ==
  ASSUME NEW nx, NEW g, NEW e, PartsRegion(nx, g, e), NEW f, NEW sd, NEW cont, NamesRegion(sd, cont, g, f),
         NEW F, NEW n \in Nat, f # n + 1, NEW k
  PROVE  SplitTo(SideSplit(NamedParts(sd, cont, g, f, f, n + 1, F, n + 1, k), nx, g, e, f), f, g.out, g.left,
                 NamedParts(sd, cont, g, f, f, n + 1, F, n + 1, -1),
                 NamedParts(sd, cont, g, f, n + 2, n + 1, F \cup {n + 2}, n + 2, n + 2))
<1> DEFINE st == NamedParts(sd, cont, g, f, f, n + 1, F, n + 1, k)
           new == NewNamed(Columns(sd, cont, F, n, k), Swept(g, e, -e), SweptPoints(g, e, -e))
<1>1. Orbit(nx, e) = g.left /\ e # -e /\ -(-e) = e
  BY DEF PartsRegion
<1>2. StillNames(new, g, e, -(-e), f)
  BY SidesPart, -e \in {e, -e}
<1>3. new = Columns(Parted(sd, g, f, f, n + 1), PartedPoints(cont, g, f, f, n + 1), F \cup {n + 1}, n + 1, n + 1)
  BY <1>1, OneSweep, -e \in {e, -e}
<1>4. new.side = st.side /\ new.containing = st.containing
  BY <1>3 DEF Columns, NamedParts
<1>5. [st EXCEPT !.ret = -1] = NamedParts(sd, cont, g, f, f, n + 1, F, n + 1, -1)
  BY DEF Columns, NamedParts
<1>6. NewNamed(st, Swept(g, e, e), SweptPoints(g, e, e)) =
        NamedParts(sd, cont, g, f, n + 2, n + 1, F \cup {n + 2}, n + 2, n + 2)
  BY TwoSweeps DEF NamedParts
<1> HIDE DEF st, new
<1>7. StillNames(st, g, e, e, f)
  BY <1>1, <1>2, <1>4 DEF StillNames
<1>8. SplitIs(st, nx, g, e, e, f)
  BY <1>7, SplitSweeps
<1> QED BY <1>1, <1>5, <1>6, <1>8 DEF SplitIs, SplitTo, st

\* The state st names the parts of face f as PartNames and PartedFaces say.
PartsFace(st, sd, cont, g, f, F, n, modFace) ==
  \A l, r : PartNames(g, f, modFace, n, l, r) =>
    /\ st.side = Parted(sd, g, f, l, r) /\ st.containing = PartedPoints(cont, g, f, l, r)
    /\ st.face = PartedFaces(F, f, modFace, n)
    /\ f # 0 => st.ret = IF modFace THEN n + 1 ELSE n + 2

\* With modFace the face keeps its name on one side, the right one if it can.
LEMMA SplitModFaceParts ==
  ASSUME NEW nx, NEW g, NEW e, PartsRegion(nx, g, e), NEW f, NEW sd, NEW cont, NamesRegion(sd, cont, g, f),
         NEW F, NEW n \in Nat, f # n + 1, f = 0 => g.out # {}
  PROVE  PartsFace(SplitModFace(Columns(sd, cont, F, n, 0), nx, g, e, f), sd, cont, g, f, F, n, TRUE)
<1>1. g.left # g.right /\ g.out \in {g.left, g.right, {}}
  BY DEF PartsRegion
<1> DEFINE st == Columns(sd, cont, F, n, 0)
           left == SideSplit(st, nx, g, e, f)
           new == SplitModFace(st, nx, g, e, f)
           onLeft == NamedParts(sd, cont, g, f, n + 1, f, F \cup {n + 1}, n + 1, n + 1)
           onRight == NamedParts(sd, cont, g, f, f, n + 1, F \cup {n + 1}, n + 1, n + 1)
           kept == Columns(sd, cont, F, n, -1)
<1>2. SplitTo(left, f, g.out, g.left, kept, onLeft)
  BY SplitLeft
<1>3. new = IF left.ret = 0 THEN left
            ELSE IF left.ret < 0 THEN SideSplit(left, nx, g, -e, f)
            ELSE [BoxUpdated(left, nx, g, -e, f) EXCEPT !.ret = left.ret]
  BY DEF SplitModFace, SideSplit, BoxUpdated
<1>4. kept.ret = -1
  BY DEF Columns
<1>5. onLeft.ret = n + 1
  BY DEF NamedParts, Columns
<1>6. SplitTo(SideSplit(kept, nx, g, -e, f), f, g.out, g.right, kept, onRight)
  BY SplitRight
<1>7. f # 0 \/ g.out = g.right =>
        BoxUpdated(onLeft, nx, g, -e, f) =
          NamedParts(sd, cont, g, f, n + 1, f, F \cup {n + 1}, n + 1, -1)
  <2> SUFFICES ASSUME f # 0 \/ g.out = g.right
               PROVE  BoxUpdated(onLeft, nx, g, -e, f) =
                        NamedParts(sd, cont, g, f, n + 1, f, F \cup {n + 1}, n + 1, -1)
    OBVIOUS
  <2> QED BY SplitBox
<1>8. [NamedParts(sd, cont, g, f, n + 1, f, F \cup {n + 1}, n + 1, -1) EXCEPT !.ret = n + 1] = onLeft
  BY DEF NamedParts, Columns
<1>9. /\ onLeft.side = Parted(sd, g, f, n + 1, f) /\ onRight.side = Parted(sd, g, f, f, n + 1)
      /\ onLeft.containing = PartedPoints(cont, g, f, n + 1, f)
      /\ onRight.containing = PartedPoints(cont, g, f, f, n + 1)
      /\ onLeft.face = F \cup {n + 1} /\ onRight.face = F \cup {n + 1}
  BY DEF NamedParts, Columns
<1> HIDE DEF left, new, onLeft, onRight, kept
<1>10. CASE f = 0 /\ g.out = g.left
  <2>1. left.ret < 0 /\ left.ret # 0 /\ left = kept
    BY <1>2, <1>4, <1>10 DEF SplitTo
  <2>2. new = onRight
    BY <1>1, <1>3, <1>6, <1>10, <2>1 DEF SplitTo
  <2> QED BY <1>9, <1>10, <2>2 DEF PartsFace, PartNames, PartedFaces, new
<1>11. CASE ~(f = 0 /\ g.out = g.left)
  <2>1. left.ret = n + 1 /\ left = onLeft
    BY <1>2, <1>5, <1>11 DEF SplitTo
  <2>2. ~(n + 1 = 0) /\ ~(n + 1 < 0)
    OBVIOUS
  <2>3. new = [BoxUpdated(onLeft, nx, g, -e, f) EXCEPT !.ret = n + 1]
    BY <1>3, <2>1, <2>2
  <2>4. new = onLeft
    BY <1>1, <1>7, <1>8, <1>11, <2>3
  <2> QED BY <1>5, <1>9, <1>11, <2>4 DEF PartsFace, PartNames, PartedFaces, new
<1> QED BY <1>10, <1>11

\* Without modFace both parts get new names and the old name goes, the universe face's excepted.
LEMMA SplitNewFacesParts ==
  ASSUME NEW nx, NEW g, NEW e, PartsRegion(nx, g, e), NEW f, NEW sd, NEW cont, NamesRegion(sd, cont, g, f),
         NEW F, NEW n \in Nat, f # n + 1, f = 0 => g.out # {}
  PROVE  PartsFace(SplitNewFaces(Columns(sd, cont, F, n, 0), nx, g, e, f), sd, cont, g, f, F, n, FALSE)
<1>1. g.left # g.right /\ g.out \in {g.left, g.right, {}}
  BY DEF PartsRegion
<1> DEFINE st == Columns(sd, cont, F, n, 0)
           right == SideSplit(st, nx, g, -e, f)
           left == SideSplit(right, nx, g, e, f)
           new == SplitNewFaces(st, nx, g, e, f)
           onLeft == NamedParts(sd, cont, g, f, n + 1, f, F \cup {n + 1}, n + 1, n + 1)
           onRight == NamedParts(sd, cont, g, f, f, n + 1, F \cup {n + 1}, n + 1, n + 1)
           onBoth == NamedParts(sd, cont, g, f, n + 2, n + 1, (F \cup {n + 1}) \cup {n + 2}, n + 2, n + 2)
           kept == Columns(sd, cont, F, n, -1)
           half == NamedParts(sd, cont, g, f, f, n + 1, F \cup {n + 1}, n + 1, -1)
           both == [onBoth EXCEPT !.face = @ \ {f}]
<1>2. SplitTo(right, f, g.out, g.right, kept, onRight)
  BY SplitRight
<1>3. new = IF right.ret = 0 THEN right ELSE IF f = 0 THEN left ELSE [left EXCEPT !.face = @ \ {f}]
  BY DEF SplitNewFaces, SideSplit
<1>4. kept.ret = -1
  BY DEF Columns
<1>5. onRight.ret = n + 1
  BY DEF NamedParts, Columns
<1>6. SplitTo(SideSplit(kept, nx, g, e, f), f, g.out, g.left, kept, onLeft)
  BY SplitLeft
<1>7. SplitTo(SideSplit(onRight, nx, g, e, f), f, g.out, g.left, half, onBoth)
  BY SplitLeftToo
<1>8. /\ onLeft.side = Parted(sd, g, f, n + 1, f) /\ half.side = Parted(sd, g, f, f, n + 1)
      /\ onLeft.containing = PartedPoints(cont, g, f, n + 1, f)
      /\ half.containing = PartedPoints(cont, g, f, f, n + 1)
      /\ onLeft.face = F \cup {n + 1} /\ half.face = F \cup {n + 1}
  BY DEF NamedParts, Columns
<1>9. /\ both.side = Parted(sd, g, f, n + 2, n + 1)
      /\ both.containing = PartedPoints(cont, g, f, n + 2, n + 1)
      /\ both.face = (F \cup {n + 1, n + 2}) \ {f} /\ both.ret = n + 2
  <2>1. (F \cup {n + 1}) \cup {n + 2} = F \cup {n + 1, n + 2}
    OBVIOUS
  <2> QED BY <2>1 DEF NamedParts, Columns
<1>10. right.ret # 0 /\ left = SideSplit(right, nx, g, e, f)
  <2> HIDE DEF right, onRight, kept
  <2>1. right.ret \in {-1, n + 1}
    BY <1>2, <1>4, <1>5 DEF SplitTo
  <2> QED BY <2>1 DEF left
<1>11. new = IF f = 0 THEN left ELSE [left EXCEPT !.face = @ \ {f}]
  BY <1>3, <1>10
<1>12. CASE f = 0 /\ g.out = g.right
  <2>1. new = onLeft
    <3> HIDE DEF right, left, new, onLeft, onRight, kept
    <3> QED BY <1>1, <1>2, <1>6, <1>10, <1>11, <1>12 DEF SplitTo
  <2> HIDE DEF new, onLeft
  <2> QED BY <1>1, <1>8, <1>12, <2>1 DEF PartsFace, PartNames, PartedFaces, new
<1>13. CASE f = 0 /\ g.out # g.right
  <2>1. new = half
    <3> HIDE DEF right, left, new, onBoth, onRight, half
    <3> QED BY <1>1, <1>2, <1>7, <1>10, <1>11, <1>13 DEF SplitTo
  <2>2. g.out = g.left
    BY <1>1, <1>13
  <2> HIDE DEF new, half
  <2> QED BY <1>8, <1>13, <2>1, <2>2 DEF PartsFace, PartNames, PartedFaces, new
<1>14. CASE f # 0
  <2>1. new = both
    <3> HIDE DEF right, left, new, onBoth, onRight
    <3> QED BY <1>2, <1>7, <1>10, <1>11, <1>14 DEF SplitTo
  <2> HIDE DEF new, both
  <2> QED BY <1>9, <1>14, <2>1 DEF PartsFace, PartNames, PartedFaces, new
<1> QED BY <1>12, <1>13, <1>14

\* What _lwt_AddEdge stores for the sides and the isolated nodes before it parts a face.
Cleared(s, t) == [n \in Node |-> IF n \in {s, t} THEN None ELSE containing[n]]
BeforeSplit(e, s, t, f) == Columns(WithCurve(side, DOMAIN cw, e, f), Cleared(s, t), face, last.face, 0)

\* The state that _lwt_AddEdge stores after it.
AddResult(after, e, s, t, f, g, modFace) ==
  /\ after = IF s # t /\ (Leaving(s) = {} \/ Leaving(t) = {}) THEN BeforeSplit(e, s, t, f)
             ELSE IF modFace THEN SplitModFace(BeforeSplit(e, s, t, f), Walk(cw'), g, e, f)
             ELSE SplitNewFaces(BeforeSplit(e, s, t, f), Walk(cw'), g, e, f)
  /\ side' = after.side /\ containing' = after.containing /\ face' = after.face

\* The rows of the relation table then.
RowsAfter(f, after, modFace) ==
  IF f = 0 \/ after.ret <= 0 THEN relation
  ELSE IF modFace THEN updateTopoGeomFaceSplit(f, after.ret, -1)
  ELSE updateTopoGeomFaceSplit(f, after.ret, after.ret - 1)

\* An edge that _lwt_AddEdge adds is drawn in the face whose id it finds, and its sides are split
\* along the new rings.
AddsEdge(e, s, t, p, q, f, g, l, r, after, modFace) ==
  /\ DrawnStep(e, s, t, p, q, f, g, l, r, DOMAIN cw \cup {e, -e})
  /\ DrawsEdge(e, s, t, p, q, f, g) /\ EndsPlaced(e, s, t, p, q)
  /\ AddResult(after, e, s, t, f, g, modFace)
  /\ relation' = RowsAfter(f, after, modFace) /\ ExtendWith(e, f)
  /\ l = RegionNames(g, f, modFace).left /\ r = RegionNames(g, f, modFace).right

\* So it does.
LEMMA AddEdgeAdds ==
  ASSUME NEW modFace \in BOOLEAN, FacesInv, [Next]_vars, AddEdge(modFace)
  PROVE  \E s, t \in Node, f \in face \cup {0} : \E p, q, g, l, r, after :
           AddsEdge(last.edge + 1, s, t, p, q, f, g, l, r, after, modFace)
<1> DEFINE e == last.edge + 1
<1>1. PICK s \in Node, t \in Node, f \in face \cup {0} : \E p, q, g :
        /\ DrawsEdge(e, s, t, p, q, f, g)
        /\ AddEdgeAs(e, s, t, f, g, modFace)
  BY AddEdgeDraws DEF FacesInv
<1>2. PICK p, q, g : /\ DrawsEdge(e, s, t, p, q, f, g)
                     /\ AddEdgeAs(e, s, t, f, g, modFace)
  BY <1>1
<1> DEFINE faces == EdgeFaces(e, s, t, g.rot)
           nx == Linked(e, s, t, g.rot)
           sd(x) == [d \in DOMAIN side \cup {e, -e} |-> IF d \in {e, -e} THEN x ELSE side[d]]
           after(x, n) == IF s # t /\ (Leaving(s) = {} \/ Leaving(t) = {})
                          THEN FaceState(sd(x), Cleared(s, t))
                          ELSE IF modFace THEN SplitModFace(FaceState(sd(x), Cleared(s, t)), n, g, e, x)
                          ELSE SplitNewFaces(FaceState(sd(x), Cleared(s, t)), n, g, e, x)
           names == RegionNames(g, f, modFace)
<1>3. /\ next' = nx
      /\ side' = after(faces.left, nx).side /\ containing' = after(faces.left, nx).containing
      /\ face' = after(faces.left, nx).face
      /\ relation' = RowsAfter(faces.left, after(faces.left, nx), modFace)
      /\ DrawLine(e, g, f, names.left, names.right, {s, t}) /\ ExtendWith(e, f)
  <2> HIDE DEF e
  <2> QED BY <1>2 DEF AddEdgeAs, Cleared, RowsAfter
<1> HIDE DEF e, names
<1>4. /\ EndsPlaced(e, s, t, p, q) /\ g.rot = Inserted(e, p, q)
  BY <1>2 DEF DrawsEdge
<1>5. DrawnStep(e, s, t, p, q, f, g, names.left, names.right, DOMAIN cw \cup {e, -e})
  BY <1>2, <1>3, DrawnSteps
<1>6. faces.left = f
  <2>1. EndsFacing(e, s, t, p, q, f)
    BY <1>5 DEF DrawnStep
  <2>2. LET fs == EdgeFaces(e, s, t, Inserted(e, p, q)) IN fs.left = f /\ fs.right = f /\ fs.sound
    BY <1>4, <2>1, LegalFaces
  <2> QED BY <1>4, <2>2
<1>7. next' = Walk(cw')
  <2>1. IInv'
    BY NextInv DEF FacesInv
  <2>2. /\ DOMAIN next' = DOMAIN cw' /\ \A d \in DOMAIN next' : next'[d] = cw'[-d]
    BY <2>1 DEF IInv, LinksFollowDrawing
  <2>3. next' = [d \in DOMAIN next' |-> next'[d]]
    BY <1>3 DEF Linked
  <2> QED BY <2>2, <2>3 DEF Walk
<1>8. FaceState(sd(f), Cleared(s, t)) = BeforeSplit(e, s, t, f)
  <2>1. DOMAIN side = DOMAIN cw
    BY PlaneTypes
  <2>2. sd(f) = WithCurve(side, DOMAIN cw, e, f)
    BY <2>1 DEF WithCurve
  <2> HIDE DEF sd
  <2> QED BY <2>2 DEF FaceState, BeforeSplit, Columns
<1>9. AddResult(after(f, nx), e, s, t, f, g, modFace)
  <2>1. nx = Walk(cw')
    BY <1>3, <1>7
  <2> HIDE DEF nx, faces, sd
  <2> QED BY <1>3, <1>6, <1>8, <2>1 DEF AddResult
<1>91. relation' = RowsAfter(f, after(f, nx), modFace)
  BY <1>3, <1>6
<1> HIDE DEF after, nx, sd, faces
<1>10. AddsEdge(e, s, t, p, q, f, g, names.left, names.right, after(f, nx), modFace)
  BY <1>2, <1>3, <1>4, <1>5, <1>9, <1>91 DEF AddsEdge, names
<1> QED BY <1>10 DEF e

\* A new edge with a free end parts nothing, nor does one with the same ring on both sides.
LEMMA FreeEndParts ==
  ASSUME NEW e, NEW s, NEW t, NEW p, NEW q, NEW f, NEW g, NEW l, NEW r, NEW B,
         DrawnStep(e, s, t, p, q, f, g, l, r, B), EndsPlaced(e, s, t, p, q)
  PROVE  /\ s # t /\ (Leaving(s) = {} \/ Leaving(t) = {}) => ~g.splits
         /\ ~g.splits => -e \in Orbit(Walk(cw'), e) /\ e \in Orbit(Walk(cw'), -e)
<1> DEFINE L == Orbit(Walk(cw'), e)
           R == Orbit(Walk(cw'), -e)
<1>1. /\ B = DOMAIN cw \cup {e, -e} /\ cw' = Inserted(e, p, q) /\ Rotates(cw', B) /\ Placed(e, p, q)
      /\ g.left = L /\ (g.splits <=> -e \notin g.left)
  BY DEF DrawnStep, DrawsAs
<1>2. e \in B /\ -e \in B /\ -(-e) = e /\ e # -e
  BY <1>1 DEF Placed
<1>3. /\ e \in L /\ (cw'[-e] \in L <=> e \in L) /\ (cw'[-(-e)] \in L <=> -e \in L)
      /\ \A y \in L : Orbit(Walk(cw'), y) = L
  <2> HIDE DEF L
  <2>1. L = Orbit(Walk(cw'), e)
    BY DEF L
  <2> QED BY <1>1, <1>2, <2>1, RingsPart
<1>4. /\ -e \in R /\ (cw'[-(-e)] \in R <=> -e \in R)
      /\ \A y \in R : Orbit(Walk(cw'), y) = R
  <2> HIDE DEF R
  <2>1. R = Orbit(Walk(cw'), -e)
    BY DEF R
  <2> QED BY <1>1, <1>2, <2>1, RingsPart
<1>5. ASSUME s # t, Leaving(s) = {} \/ Leaving(t) = {} PROVE -e \in L
  <2>1. (p = 0 \/ q = 0) /\ q # e
    BY <1>5 DEF EndsPlaced
  <2>2. CASE q = 0
    <3>1. cw'[-e] = -e
      BY <1>1, <1>2, <2>2 DEF Inserted, After
    <3> QED BY <1>3, <3>1
  <2>3. CASE p = 0 /\ q # 0
    <3>1. cw'[e] = e
      BY <1>1, <1>2, <2>1, <2>3 DEF Inserted, After, Placed
    <3> QED BY <1>2, <1>4, <3>1
  <2> QED BY <2>1, <2>2, <2>3
<1>6. -e \in L => e \in R
  BY <1>3, <1>4
<1> HIDE DEF L, R
<1> QED BY <1>1, <1>5, <1>6 DEF L, R

\* An edge with the same ring on both sides leaves its two sides the face it is drawn in, and the
\* faces what they were.
LEMMA AddBridge ==
  ASSUME NEW modFace \in BOOLEAN, FacesInv, NEW e, NEW s \in Node, NEW t \in Node, NEW p, NEW q,
         NEW f \in face \cup {0}, NEW g, NEW l, NEW r, NEW after,
         AddsEdge(e, s, t, p, q, f, g, l, r, after, modFace), ~g.splits
  PROVE  /\ PlaneInv' /\ face' = face /\ Node' = Node
         /\ side' = WithCurve(side, DOMAIN cw, e, f) /\ relation' = relation
<1> DEFINE B == DOMAIN cw \cup {e, -e}
           before == BeforeSplit(e, s, t, f)
           nx == Walk(cw')
<1>1. DrawnStep(e, s, t, p, q, f, g, l, r, B) /\ EndsPlaced(e, s, t, p, q)
      /\ AddResult(after, e, s, t, f, g, modFace)
  BY DEF AddsEdge
<1>2. -e \in Orbit(nx, e) /\ -(-e) \in Orbit(nx, -e)
  <2>1. -(-e) = e
    BY <1>1 DEF EndsPlaced, Placed
  <2> QED BY <1>1, <2>1, FreeEndParts
<1>3. before.ret = 0 /\ before.side = WithCurve(side, DOMAIN cw, e, f)
      /\ before.containing = Cleared(s, t) /\ before.face = face
  BY DEF BeforeSplit, Columns
<1> HIDE DEF before, nx
<1>4. /\ AddFaceSplit(before, nx, g, e, f, FALSE) = [before EXCEPT !.ret = 0]
      /\ AddFaceSplit(before, nx, g, -e, f, FALSE) = [before EXCEPT !.ret = 0]
  BY <1>2 DEF AddFaceSplit
<1> DEFINE same == [before EXCEPT !.ret = 0]
<1>5. /\ same.ret = 0 /\ same.side = before.side /\ same.containing = before.containing
      /\ same.face = before.face
  BY DEF before, BeforeSplit, Columns
<1> HIDE DEF same
<1>6. SplitModFace(before, nx, g, e, f) = same /\ SplitNewFaces(before, nx, g, e, f) = same
  BY <1>4, <1>5 DEF SplitModFace, SplitNewFaces, same
<1>7. after \in {before, same}
  BY <1>1, <1>6 DEF AddResult, before, nx
<1>8. /\ side' = WithCurve(side, DOMAIN cw, e, f) /\ containing' = Cleared(s, t) /\ face' = face
  BY <1>1, <1>3, <1>5, <1>7 DEF AddResult
<1>9. containing' = [n \in Node |-> IF n \in {s, t} THEN None ELSE containing[n]]
  BY <1>8 DEF Cleared
<1>10. Node' = Node
  BY <1>9 DEF Node
<1>11. relation' = relation
  BY <1>3, <1>5, <1>7 DEF AddsEdge, RowsAfter
<1> HIDE DEF B
<1> QED BY <1>1, <1>8, <1>9, <1>10, <1>11, BridgeKeepsPlane

\* The drawing of an edge that splits its face is one that AddFaceSplit can sweep.
LEMMA DrawnPartsRegion ==
  ASSUME FacesInv, NEW e, NEW s, NEW t, NEW p, NEW q, NEW f, NEW g, NEW l, NEW r, NEW B,
         DrawnStep(e, s, t, p, q, f, g, l, r, B), g.splits
  PROVE  PartsRegion(Walk(cw'), g, e)
<1> DEFINE A == DOMAIN cw
           L == g.left
           R == g.right
           K == (L \cup R) \ {e, -e}
           rg == WithCurve(region, A, e, f)
<1>1. /\ B = A \cup {e, -e} /\ Grows(cw, A, cw', B, e) /\ DrawsAs(g, cw', e, f, {s, t})
      /\ OneRegion(cw', B, rg) /\ Rotates(cw', B) /\ Placed(e, p, q)
  BY DEF DrawnStep
<1>2. /\ L = Orbit(Walk(cw'), e) /\ R = Orbit(Walk(cw'), -e) /\ -e \notin L
      /\ g.rest = {x \in A : region[x] = f} \ (L \cup R)
      /\ g.out \in {L, R, {}} /\ g.insidePts \subseteq g.points
  BY <1>1 DEF DrawsAs
<1>3. e \in Int \ {0} /\ e # -e /\ -(-e) = e /\ e \notin A /\ -e \notin A
  BY <1>1 DEF Placed
<1>4. /\ Rotates(cw, A) /\ OneRegion(cw, A, region) /\ HolesWhole(cw, A, hole) /\ Jordan(cw, A, region)
  BY DEF FacesInv, PlaneInv, Planar
<1>5. g.inside \subseteq g.rest
  <2>1. PartedSides(A, cw', B, f, g)
    BY <1>1, <1>2, <1>4, DrawnSides
  <2> QED BY <2>1 DEF PartedSides
<1> HIDE DEF A, L, R
<1>6. Parts(cw', e, L, R, K)
  BY <1>2 DEF Parts
<1> HIDE DEF K
<1>7. /\ e \in L /\ -e \in R /\ e \notin R /\ -e \notin L /\ L \cap R = {}
      /\ L \subseteq B /\ R \subseteq B
      /\ \A S \in SUBSET B : Walked(cw', S) => (e \in S => L \subseteq S)
      /\ \A S \in SUBSET B : Walked(cw', S) => (-e \in S => R \subseteq S)
      /\ K \subseteq A /\ Walked(cw, K)
  BY <1>1, <1>6, PartedRings
<1>8. \A x \in L \cup R : rg[x] = f
  <2> DEFINE S == {x \in B : rg[x] = f}
  <2>1. rg[e] = f /\ rg[-e] = f /\ e \in B /\ -e \in B
    BY <1>1 DEF WithCurve, A
  <2>2. \A x \in B : cw'[-x] \in B
    BY <1>1 DEF Rotates, Permutes
  <2>3. Walked(cw', S)
    BY <1>1, <2>2 DEF Walked, OneRegion
  <2> HIDE DEF rg
  <2> QED BY <1>7, <2>1, <2>3
<1>9. ASSUME NEW x \in g.rest PROVE -x \notin L \cup R
  <2>1. x \in A /\ region[x] = f /\ x \notin L \cup R /\ x \notin {e, -e}
    BY <1>2, <1>3
  <2>2. -x \in A /\ -(-x) = x
    BY <1>4, <2>1 DEF Rotates
  <2>3. SUFFICES ASSUME -x \in L \cup R PROVE FALSE
    OBVIOUS
  <2>4. -x \in K
    BY <1>3, <2>1, <2>2, <2>3 DEF K
  <2>5. region[-x] = f
    <3>1. rg[-x] = region[-x]
      BY <1>3, <2>2 DEF WithCurve, A
    <3> HIDE DEF rg
    <3> QED BY <1>8, <2>3, <3>1
  <2>6. SamePiece(cw, A, -x, x)
    BY <2>2 DEF SamePiece, Closed
  <2>7. SameRing(cw, A, -x, x)
    BY <1>4, <2>1, <2>2, <2>5, <2>6, SameRegionSameRing
  <2>8. x \in K
    BY <1>7, <2>4, <2>7 DEF SameRing
  <2> QED BY <2>1, <2>8 DEF K
<1>10. g.rest \cap (L \cup R) = {}
  BY <1>2
<1> QED BY <1>2, <1>3, <1>5, <1>7, <1>9, <1>10 DEF PartsRegion, L, R

\* The columns name the region it is drawn in, before it is split.
LEMMA DrawnNamesRegion ==
  ASSUME FacesInv, NEW e, NEW s, NEW t, NEW p, NEW q, NEW f, NEW g, NEW l, NEW r, NEW B, f \in Nat,
         DrawnStep(e, s, t, p, q, f, g, l, r, B), g.splits
  PROVE  /\ NamesRegion(WithCurve(side, DOMAIN cw, e, f), Cleared(s, t), g, f)
         /\ f = 0 => g.out # {}
<1> DEFINE A == DOMAIN cw
           L == g.left
           R == g.right
           K == (L \cup R) \ {e, -e}
           sd == WithCurve(side, A, e, f)
           cont == Cleared(s, t)
<1>1. /\ B = A \cup {e, -e} /\ Grows(cw, A, cw', B, e) /\ DrawsAs(g, cw', e, f, {s, t})
      /\ OneRegion(cw', B, WithCurve(region, A, e, f)) /\ Rotates(cw', B) /\ Placed(e, p, q)
  BY DEF DrawnStep
<1>2. /\ L = Orbit(Walk(cw'), e) /\ R = Orbit(Walk(cw'), -e) /\ -e \notin L
      /\ g.rest = {x \in A : region[x] = f} \ (L \cup R)
      /\ g.out \in IF K \subseteq hole THEN {L, R} ELSE {{}}
      /\ g.points = {n \in DOMAIN isoRegion : isoRegion[n] = f} \ {s, t}
  BY <1>1 DEF DrawsAs
<1>3. e \in Int \ {0} /\ e # -e /\ -(-e) = e /\ e \notin A /\ -e \notin A
  BY <1>1 DEF Placed
<1>4. /\ OneShell(cw, A, hole, region) /\ DOMAIN isoRegion \subseteq Node /\ side = region
      /\ \A n \in Node : containing[n] = IF n \in DOMAIN isoRegion THEN isoRegion[n] ELSE None
  BY PlaneTypes DEF FacesInv, PlaneInv, Planar, RegionsAreFaces
<1> HIDE DEF A, L, R
<1>5. Parts(cw', e, L, R, K)
  BY <1>2 DEF Parts
<1> HIDE DEF K
<1>6. /\ e \in L /\ -e \in R /\ L \subseteq B /\ R \subseteq B
      /\ \A S \in SUBSET B : Walked(cw', S) => (e \in S => L \subseteq S)
      /\ \A S \in SUBSET B : Walked(cw', S) => (-e \in S => R \subseteq S)
      /\ K \subseteq A
  BY <1>1, <1>5, PartedRings
<1>7. DOMAIN sd = B /\ sd[e] = f /\ sd[-e] = f /\ \A x \in A : sd[x] = region[x]
  BY <1>1, <1>3, <1>4 DEF WithCurve
<1>8. \A x \in L \cup R : sd[x] = f
  <2> DEFINE S == {x \in B : sd[x] = f}
  <2>1. e \in B /\ -e \in B
    BY <1>1
  <2>2. \A x \in B : cw'[-x] \in B
    BY <1>1 DEF Rotates, Permutes
  <2>3. OneRegion(cw', B, sd)
    BY <1>1, <1>4
  <2> HIDE DEF sd
  <2>4. Walked(cw', S)
    BY <2>2, <2>3 DEF Walked, OneRegion
  <2> QED BY <1>6, <1>7, <2>1, <2>4
<1> HIDE DEF sd
<1>9. \A x \in DOMAIN sd : sd[x] = f <=> x \in L \cup R \cup g.rest
  BY <1>1, <1>2, <1>6, <1>7, <1>8
<1>10. L \cup R \cup g.rest \subseteq DOMAIN sd
  BY <1>1, <1>2, <1>6, <1>7
<1>11. DOMAIN cont = Node /\ \A n \in Node : cont[n] = IF n \in {s, t} THEN None ELSE containing[n]
  BY DEF Cleared
<1>12. None # f
  BY DEF None
<1> HIDE DEF cont
<1>13. g.points \subseteq DOMAIN cont /\ \A n \in DOMAIN cont : cont[n] = f <=> n \in g.points
  BY <1>2, <1>4, <1>11, <1>12
<1>14. f = 0 => g.out # {}
  <2> SUFFICES ASSUME f = 0 PROVE g.out # {}
    OBVIOUS
  <2>1. K \subseteq hole
    <3> SUFFICES ASSUME NEW x \in K, x \notin hole PROVE FALSE
      OBVIOUS
    <3>1. x \in A /\ region[x] = 0
      BY <1>6, <1>7, <1>8 DEF K
    <3> QED BY <1>4, <3>1 DEF OneShell
  <2> QED BY <1>2, <1>6, <2>1
<1> QED BY <1>9, <1>10, <1>13, <1>14 DEF NamesRegion, sd, cont, A, L, R

\* The names of the two parts are new, or the old one where the manual says so.
LEMMA RegionNamesNew ==
  ASSUME NEW modFace \in BOOLEAN, FacesInv, NEW f \in face \cup {0}, NEW g, NEW l, NEW r,
         l = RegionNames(g, f, modFace).left, r = RegionNames(g, f, modFace).right,
         g.left # g.right, g.out \in {g.left, g.right, {}}, f = 0 => g.out # {}
  PROVE  LET n == last.face
             F == PartedFaces(face, f, modFace, n)
         IN  /\ PartNames(g, f, modFace, n, l, r) /\ NewNames(f, l, r, g)
             /\ f # n + 1 /\ {l, r} \subseteq F \cup {0} /\ F \ {l, r} \subseteq face \ {f}
             /\ face \ {f} \subseteq F /\ 0 \notin F
<1> DEFINE n == last.face
           F == PartedFaces(face, f, modFace, n)
<1>1. /\ n \in Nat /\ (\A x \in face : x \in Nat /\ x # 0 /\ x # n + 1 /\ x # n + 2)
      /\ f \in Nat /\ f # n + 1 /\ f # n + 2 /\ n + 1 # n + 2 /\ n + 1 # 0 /\ n + 2 # 0
  <2>1. face \subseteq 1..last.face /\ last.face \in Nat
    BY PlaneTypes
  <2> QED BY <2>1
<1>2. \A x \in DOMAIN cw : region[x] \in face \cup {0}
  BY DEF FacesInv, PlaneInv, RegionsAreFaces
<1>3. CASE modFace \/ f = 0
  <2>1. CASE f = 0 /\ g.out = g.left
    <3>1. l = f /\ r = n + 1
      BY <1>3, <2>1 DEF RegionNames
    <3> HIDE DEF n
    <3> QED BY <1>1, <1>2, <1>3, <2>1, <3>1 DEF PartNames, NewNames, PartedFaces, n
  <2>2. CASE ~(f = 0 /\ g.out = g.left)
    <3>1. l = n + 1 /\ r = f
      BY <1>3, <2>2 DEF RegionNames
    <3> HIDE DEF n
    <3> QED BY <1>1, <1>2, <1>3, <2>2, <3>1 DEF PartNames, NewNames, PartedFaces, n
  <2> QED BY <2>1, <2>2
<1>4. CASE ~modFace /\ f # 0
  <2>1. l = n + 2 /\ r = n + 1
    BY <1>1, <1>4 DEF RegionNames
  <2> HIDE DEF n
  <2> QED BY <1>1, <1>2, <1>4, <2>1 DEF PartNames, NewNames, PartedFaces, n
<1> QED BY <1>3, <1>4

\* An edge with two rings splits its face: every edge side and every isolated node of it gets the
\* name of the part it lies in.
LEMMA AddSplit ==
  ASSUME NEW modFace \in BOOLEAN, FacesInv, NEW e, NEW s \in Node, NEW t \in Node, NEW p, NEW q,
         NEW f \in face \cup {0}, NEW g, NEW l, NEW r, NEW after,
         AddsEdge(e, s, t, p, q, f, g, l, r, after, modFace), g.splits
  PROVE  /\ PlaneInv' /\ face' = PartedFaces(face, f, modFace, last.face) /\ Node' = Node
         /\ side' = RegionsWith(DOMAIN cw \cup {e, -e}, e, g, f, l, r)
         /\ PartNames(g, f, modFace, last.face, l, r)
         /\ relation' = IF f = 0 THEN relation
                        ELSE IF modFace THEN updateTopoGeomFaceSplit(f, last.face + 1, -1)
                        ELSE updateTopoGeomFaceSplit(f, last.face + 2, last.face + 1)
<1> DEFINE B == DOMAIN cw \cup {e, -e}
           sd == WithCurve(side, DOMAIN cw, e, f)
           cont == Cleared(s, t)
           before == BeforeSplit(e, s, t, f)
           n == last.face
<1>1. DrawnStep(e, s, t, p, q, f, g, l, r, B) /\ EndsPlaced(e, s, t, p, q)
      /\ AddResult(after, e, s, t, f, g, modFace)
      /\ l = RegionNames(g, f, modFace).left /\ r = RegionNames(g, f, modFace).right
  BY DEF AddsEdge
<1>2. n \in Nat /\ f \in Nat
  BY PlaneTypes
<1> HIDE DEF B
<1>3. PartsRegion(Walk(cw'), g, e)
  BY <1>1, DrawnPartsRegion
<1>4. NamesRegion(sd, cont, g, f) /\ (f = 0 => g.out # {})
  BY <1>1, <1>2, DrawnNamesRegion
<1>5. g.left # g.right /\ g.out \in {g.left, g.right, {}}
  BY <1>3 DEF PartsRegion
<1> DEFINE F == PartedFaces(face, f, modFace, n)
<1>6. /\ PartNames(g, f, modFace, n, l, r) /\ NewNames(f, l, r, g)
      /\ f # n + 1 /\ {l, r} \subseteq F \cup {0} /\ F \ {l, r} \subseteq face \ {f}
      /\ face \ {f} \subseteq F /\ 0 \notin F
  BY <1>1, <1>4, <1>5, RegionNamesNew
<1>7. after = IF modFace THEN SplitModFace(before, Walk(cw'), g, e, f)
              ELSE SplitNewFaces(before, Walk(cw'), g, e, f)
  <2>1. ~(s # t /\ (Leaving(s) = {} \/ Leaving(t) = {}))
    BY <1>1, FreeEndParts
  <2> HIDE DEF before
  <2> QED BY <1>1, <2>1 DEF AddResult, before
<1>8. before = Columns(sd, cont, face, n, 0)
  BY DEF BeforeSplit
<1> HIDE DEF sd, cont, before, n, F
<1>9. PartsFace(after, sd, cont, g, f, face, n, modFace)
  <2>1. CASE modFace
    <3>1. PartsFace(SplitModFace(Columns(sd, cont, face, n, 0), Walk(cw'), g, e, f),
                    sd, cont, g, f, face, n, TRUE)
      BY <1>2, <1>3, <1>4, <1>6, SplitModFaceParts
    <3>2. modFace = TRUE
      BY <2>1
    <3> QED BY <1>7, <1>8, <2>1, <3>1, <3>2
  <2>2. CASE ~modFace
    <3>1. PartsFace(SplitNewFaces(Columns(sd, cont, face, n, 0), Walk(cw'), g, e, f),
                    sd, cont, g, f, face, n, FALSE)
      BY <1>2, <1>3, <1>4, <1>6, SplitNewFacesParts
    <3>2. modFace = FALSE
      BY <2>2
    <3> QED BY <1>7, <1>8, <2>2, <3>1, <3>2
  <2> QED BY <2>1, <2>2
<1>10. /\ after.side = Parted(sd, g, f, l, r) /\ after.containing = PartedPoints(cont, g, f, l, r)
       /\ after.face = F
  BY <1>6, <1>9 DEF PartsFace, F
<1>11. side' = RegionsWith(B, e, g, f, l, r)
  <2>1. side' = Parted(sd, g, f, l, r)
    BY <1>1, <1>10 DEF AddResult
  <2>2. /\ DOMAIN sd = B /\ e \notin DOMAIN cw /\ -e \notin DOMAIN cw /\ B = DOMAIN cw \cup {e, -e}
        /\ \A x \in B : sd[x] = IF x \in {e, -e} THEN f ELSE region[x]
    <3>1. side = region
      BY PlaneTypes
    <3>2. Placed(e, p, q)
      BY <1>1 DEF EndsPlaced
    <3> QED BY <3>1, <3>2 DEF sd, B, WithCurve, Placed
  <2>3. \A x \in B : (IF sd[x] # f THEN sd[x] ELSE IF x \in OnLeft(g) THEN l ELSE r) =
                     (IF x \notin {e, -e} /\ region[x] # f THEN region[x]
                      ELSE IF x \in OnLeft(g) THEN l ELSE r)
    BY <2>2
  <2> QED BY <2>1, <2>2, <2>3 DEF Parted, RegionsWith
<1>12. containing' = [m \in Node |-> IF m \in {s, t} THEN None
                                     ELSE IF containing[m] # f THEN containing[m]
                                     ELSE IF m \in PointsOnLeft(g) THEN l ELSE r]
  <2>1. containing' = PartedPoints(cont, g, f, l, r)
    BY <1>1, <1>10 DEF AddResult
  <2>2. DOMAIN cont = Node /\ \A m \in Node : cont[m] = IF m \in {s, t} THEN None ELSE containing[m]
    BY DEF cont, Cleared
  <2>3. None # f
    BY <1>2 DEF None
  <2> QED BY <2>1, <2>2, <2>3 DEF PartedPoints
<1>13. face' = F
  BY <1>1, <1>10 DEF AddResult
<1>14. /\ {l, r} \subseteq face' \cup {0} /\ face' \ {l, r} \subseteq face \ {f}
       /\ face \ {f} \subseteq face' /\ 0 \notin face'
  BY <1>6, <1>13
<1>15. PlaneInv'
  BY <1>1, <1>6, <1>11, <1>12, <1>14, SplitKeepsPlane
<1>16. Node' = Node
  BY <1>12 DEF Node
<1>17. relation' = IF f = 0 THEN relation
                   ELSE IF modFace THEN updateTopoGeomFaceSplit(f, n + 1, -1)
                   ELSE updateTopoGeomFaceSplit(f, n + 2, n + 1)
  <2>1. f # 0 => after.ret = IF modFace THEN n + 1 ELSE n + 2
    BY <1>6, <1>9 DEF PartsFace
  <2>2. relation' = RowsAfter(f, after, modFace)
    BY DEF AddsEdge
  <2>3. ~(n + 1 <= 0)
    BY <1>2
  <2>4. CASE f = 0
    BY <2>2, <2>4 DEF RowsAfter
  <2>5. CASE f # 0 /\ modFace
    <3>1. after.ret = n + 1
      BY <2>1, <2>5
    <3> QED BY <2>2, <2>3, <2>5, <3>1 DEF RowsAfter
  <2>6. CASE f # 0 /\ ~modFace
    <3>1. after.ret = n + 2
      BY <2>1, <2>6
    <3>2. after.ret - 1 = n + 1 /\ ~(after.ret <= 0)
      BY <1>2, <3>1
    <3> QED BY <2>2, <2>6, <3>1, <3>2 DEF RowsAfter
  <2> QED BY <2>4, <2>5, <2>6
<1> QED BY <1>6, <1>11, <1>13, <1>15, <1>16, <1>17 DEF F, n, B

\* lwt_AddEdgeModFace and lwt_AddEdgeNewFaces keep the faces what the drawing says.
LEMMA AddEdgePlane ==
  ASSUME NEW modFace \in BOOLEAN, FacesInv, [Next]_vars, AddEdge(modFace)
  PROVE  PlaneInv'
<1> DEFINE e == last.edge + 1
<1>1. PICK s \in Node, t \in Node, f \in face \cup {0} : \E p, q, g, l, r, after :
        AddsEdge(e, s, t, p, q, f, g, l, r, after, modFace)
  BY AddEdgeAdds
<1>2. PICK p, q, g, l, r, after : AddsEdge(e, s, t, p, q, f, g, l, r, after, modFace)
  BY <1>1
<1> HIDE DEF e
<1>3. CASE g.splits
  BY <1>2, <1>3, AddSplit
<1>4. CASE ~g.splits
  BY <1>2, <1>4, AddBridge
<1> QED BY <1>3, <1>4

\* An empty drawing has only the plane.
LEMMA FacesInvInit == Init => FacesInv
<1> SUFFICES ASSUME Init PROVE FacesInv
  OBVIOUS
<1>1. IInv
  BY InitInv
<1>2. /\ cw = [d \in {} |-> 0] /\ hole = {} /\ DOMAIN cw = {} /\ DOMAIN isoRegion = {}
      /\ region = [d \in {} |-> 0] /\ side = [d \in {} |-> 0] /\ face = {}
      /\ containing = [n \in {} |-> 0]
  BY DEF Init, GeomInit
<1>3. Node = {}
  BY <1>2 DEF Node
<1>4. TurnsInv
  BY <1>2 DEF TurnsInv, OneTurn
<1>5. Planar(cw, DOMAIN cw, hole, region)
  <2>1. Rotates(cw, DOMAIN cw)
    BY <1>2, FS_EmptySet DEF Rotates, Permutes
  <2>2. Jordan(cw, DOMAIN cw, region)
    <3>1. Sides(cw, {}, {}) /\ Crossing({}, {}) = {}
      BY DEF Sides, Crossing
    <3> QED BY <1>2, <3>1 DEF Jordan
  <2> QED BY <1>2, <2>1, <2>2 DEF Planar, OneRegion, HolesWhole, OneShell, OneHole, HasHole
<1>6. FacesFollowDrawing /\ RegionsAreFaces
  BY <1>2, <1>3 DEF FacesFollowDrawing, RegionsAreFaces
<1> QED BY <1>1, <1>4, <1>5, <1>6 DEF FacesInv, PlaneInv

\* Every edit keeps the drawing planar and its regions the faces that are stored.
LEMMA PlaneInvNext == FacesInv /\ [Next]_vars => PlaneInv'
<1> SUFFICES ASSUME FacesInv, [Next]_vars PROVE PlaneInv'
  OBVIOUS
<1>1. CASE AddIsoNode
  BY <1>1, AddIsoNodePlane
<1>2. CASE RemoveIsoNode
  BY <1>2, RemoveIsoNodePlane
<1>3. CASE AddIsoEdge
  BY <1>3, AddIsoEdgePlane
<1>4. CASE RemIsoEdge
  BY <1>4, RemIsoEdgePlane
<1>5. CASE ModEdgeSplit \/ NewEdgesSplit
  BY <1>5, SplitsPlane
<1>6. CASE ModEdgeHeal
  BY <1>6, HealEdgesPlane DEF ModEdgeHeal
<1>7. CASE NewEdgeHeal
  BY <1>7, HealEdgesPlane DEF NewEdgeHeal
<1>8. CASE AddEdgeModFace
  BY <1>8, AddEdgePlane DEF AddEdgeModFace
<1>9. CASE AddEdgeNewFaces
  BY <1>9, AddEdgePlane DEF AddEdgeNewFaces
<1>10. CASE RemEdgeModFace
  BY <1>10, RemEdgePlane DEF RemEdgeModFace
<1>11. CASE RemEdgeNewFace
  BY <1>11, RemEdgePlane DEF RemEdgeNewFace
<1>12. CASE Redefinition \/ UNCHANGED vars
  BY <1>12, RestPlane
<1> QED BY <1>1, <1>2, <1>3, <1>4, <1>5, <1>6, <1>7, <1>8, <1>9, <1>10, <1>11, <1>12 DEF Next, Edit

\* So the drawing is planar in every reachable state.
LEMMA FacesInductive == Spec => []FacesInv
<1>1. FacesInv /\ [Next]_vars => FacesInv'
  BY NextInv, TurnsInvNext, PlaneInvNext DEF FacesInv
<1> QED BY <1>1, FacesInvInit, PTL DEF Spec

\* left_face, right_face and containing_face name the region of the plane that is there,
\* in every reachable state: no edit finds the wrong face or forgets an edge or a node of it.
THEOREM FacesCorrect == Spec => []FacesFollowDrawing
<1>1. FacesInv => FacesFollowDrawing
  BY DEF FacesInv, PlaneInv
<1> QED BY <1>1, FacesInductive, PTL

\* The faces that the columns name are regions, which are faces of the table.
LEMMA RegionsAreKeys == FacesInv => ForeignKeysHold
<1> SUFFICES ASSUME FacesInv PROVE ForeignKeysHold
  OBVIOUS
<1>1. /\ side = region /\ DOMAIN side = DOMAIN cw /\ DOMAIN next = DOMAIN cw
      /\ \A x \in DOMAIN cw : region[x] \in face \cup {0}
      /\ \A n \in DOMAIN isoRegion : isoRegion[n] \in face \cup {0}
      /\ \A n \in Node : containing[n] = IF n \in DOMAIN isoRegion THEN isoRegion[n] ELSE None
  BY PlaneTypes DEF FacesInv, PlaneInv, RegionsAreFaces
<1>2. \A d \in DOMAIN next : next[d] \in DOMAIN next
  <2>1. Permutes(cw, DOMAIN cw) /\ \A d \in DOMAIN cw : -d \in DOMAIN cw
    BY PlaneTypes DEF Rotates
  <2>2. \A d \in DOMAIN next : next[d] = cw[-d]
    BY DEF FacesInv, IInv, LinksFollowDrawing
  <2> QED BY <1>1, <2>1, <2>2 DEF Permutes
<1> QED BY <1>1, <1>2 DEF ForeignKeysHold

\* The foreign keys of the face and edge_data tables hold: every face that a row names is a row
\* of face, and every edge that a row names is one.
THEOREM ForeignKeysCorrect == Spec => []ForeignKeysHold
BY RegionsAreKeys, FacesInductive, PTL

\* All the edge sides of a ring of next edges have the same face.
THEOREM RingsInOneFaceCorrect == Spec => []RingsInOneFace
<1>1. FacesInv => RingsInOneFace
  <2> SUFFICES ASSUME FacesInv PROVE RingsInOneFace
    OBVIOUS
  <2>1. side = region /\ DOMAIN next = DOMAIN cw
    BY PlaneTypes
  <2>2. \A d \in DOMAIN cw : region[cw[-d]] = region[d]
    BY DEF FacesInv, PlaneInv, Planar, OneRegion
  <2>3. \A d \in DOMAIN cw : next[d] = cw[-d]
    BY <2>1 DEF FacesInv, IInv, LinksFollowDrawing
  <2> QED BY <2>1, <2>2, <2>3 DEF RingsInOneFace
<1> QED BY <1>1, FacesInductive, PTL

\* _lwt_AddEdge refuses no curve that crosses nothing: the faces it finds at the two ends
\* of the edge never disagree.
THEOREM LegalEdgesAlwaysAccepted == Spec => []LegalEdgesAccepted
BY PlaneAccepts, FacesInductive, PTL

\* Every bounded face has one shell, and the universe face none.
THEOREM ShellsCorrect == Spec => []OneShellPerFace
<1> DEFINE D == DOMAIN cw
           shells == {Orbit(next, d) : d \in DOMAIN next \ hole}
           of(f) == {r \in shells : \E d \in r : side[d] = f}
<1>1. ASSUME FacesInv PROVE OneShellPerFace
  <2>1. /\ side = region /\ DOMAIN next = D /\ OneShell(cw, D, hole, region) /\ Rotates(cw, D)
        /\ OneRegion(cw, D, region) /\ \A f \in face : f # 0 /\ HasShell(D, hole, region, f)
    BY <1>1, PlaneTypes DEF FacesInv, PlaneInv, Planar, RegionsAreFaces
  <2>2. next = Walk(cw)
    <3>1. \A d \in DOMAIN next : next[d] = cw[-d]
      BY <1>1 DEF FacesInv, IInv, LinksFollowDrawing
    <3>2. next = [d \in DOMAIN next |-> next[d]]
      BY <1>1 DEF FacesInv, IInv, TypeOK
    <3> QED BY <2>1, <3>1, <3>2 DEF Walk
  <2> HIDE DEF D
  <2>3. ASSUME NEW x \in D \ hole, NEW d \in Orbit(next, x)
        PROVE  /\ side[d] = region[x]
               /\ \A y \in D : SameRing(cw, D, x, y) => Orbit(next, y) = Orbit(next, x)
    <3>1. PICK R : R = Orbit(Walk(cw), x)
      OBVIOUS
    <3>2. /\ x \in R /\ R \subseteq D /\ \A y \in D : cw[-y] \in R <=> y \in R
          /\ \A S : x \in S /\ Walked(cw, S \cap D) => R \subseteq S
          /\ \A y \in R : Orbit(Walk(cw), y) = R
      BY <2>1, <3>1, RingsPart
    <3>3. Walked(cw, R)
      BY <3>2 DEF Walked
    <3>4. \A y \in D : SameRing(cw, D, x, y) => y \in R
      BY <3>2, <3>3 DEF SameRing
    <3>5. R \subseteq {y \in D : region[y] = region[x]}
      <4> DEFINE S == {y \in D : region[y] = region[x]}
      <4>1. \A y \in D : cw[-y] \in D
        BY <2>1 DEF Rotates, Permutes
      <4>2. Walked(cw, S \cap D)
        BY <2>1, <4>1 DEF Walked, OneRegion
      <4> HIDE DEF S
      <4>3. x \in S
        BY DEF S
      <4>4. R \subseteq S
        BY <3>2, <4>2, <4>3
      <4> QED BY <4>4 DEF S
    <3> QED BY <2>1, <2>2, <3>1, <3>2, <3>4, <3>5
  <2>4. \A f : of(f) = {Orbit(next, x) : x \in {y \in D \ hole : region[y] = f}}
    <3>1. \A x \in D \ hole : x \in Orbit(next, x)
      BY <2>1, <2>2, RingsPart
    <3> QED BY <2>1, <2>3, <3>1
  <2>5. of(0) = {}
    BY <2>1, <2>4 DEF OneShell
  <2>6. ASSUME NEW f \in face PROVE \E r : of(f) = {r}
    <3>1. PICK x \in D \ hole : region[x] = f
      BY <2>1 DEF HasShell
    <3>2. \A y \in D \ hole : region[y] = f => Orbit(next, y) = Orbit(next, x)
      BY <2>1, <2>3, <3>1, RingsPart, <2>2 DEF OneShell
    <3>3. of(f) = {Orbit(next, x)}
      BY <2>4, <3>1, <3>2
    <3> QED BY <3>3
  <2> HIDE DEF of
  <2>7. \A f \in face \cup {0} : Cardinality(of(f)) = IF f = 0 THEN 0 ELSE 1
    <3>1. \A f \in face : Cardinality(of(f)) = 1
      BY <2>6, FS_Singleton
    <3> QED BY <2>1, <2>5, <3>1, FS_EmptySet
  <2> QED BY <2>7 DEF OneShellPerFace, of
<1> QED BY <1>1, FacesInductive, PTL

-----------------------------------------------------------------------------
(* Euler's formula. What is counted are the components of the graph of nodes *)
(* and edges, which the pieces of the drawing and the isolated nodes are.    *)

\* Edges between the nodes N, each with both directions in o, the node a direction leaves from.
Graph(o, N) == \A d \in DOMAIN o : -d \in DOMAIN o /\ -(-d) = d /\ o[d] \in N

\* No edge leads out of a set of nodes; the least such set with a node; all of these.
Joined(o, M) == \A d \in DOMAIN o : o[d] \in M => o[-d] \in M
Comp(o, N, n) == {m \in N : \A M \in SUBSET N : n \in M /\ Joined(o, M) => m \in M}
Comps(o, N) == {Comp(o, N, n) : n \in N}

\* Components part the nodes.
LEMMA CompsPart ==
  ASSUME NEW o, NEW N, Graph(o, N), NEW n \in N
  PROVE  /\ n \in Comp(o, N, n) /\ Comp(o, N, n) \subseteq N /\ Joined(o, Comp(o, N, n))
         /\ \A M \in SUBSET N : Joined(o, M) => Joined(o, N \ M) /\ (n \in M => Comp(o, N, n) \subseteq M)
         /\ \A m \in Comp(o, N, n) : Comp(o, N, m) = Comp(o, N, n)
<1>1. n \in Comp(o, N, n) /\ Comp(o, N, n) \subseteq N
  BY DEF Comp
<1>2. Joined(o, Comp(o, N, n))
  BY DEF Comp, Joined, Graph
<1>3. ASSUME NEW M \in SUBSET N, Joined(o, M) PROVE Joined(o, N \ M) /\ (n \in M => Comp(o, N, n) \subseteq M)
  BY <1>3 DEF Comp, Joined, Graph
<1>4. ASSUME NEW m \in Comp(o, N, n) PROVE Comp(o, N, m) = Comp(o, N, n)
  <2>1. Comp(o, N, m) \subseteq Comp(o, N, n)
    BY <1>1, <1>2, <1>4 DEF Comp
  <2>2. n \in Comp(o, N, m)
    <3> SUFFICES ASSUME NEW M \in SUBSET N, m \in M, Joined(o, M), n \notin M PROVE FALSE
      BY DEF Comp
    <3>1. Joined(o, N \ M) /\ n \in N \ M
      BY <1>3
    <3> QED BY <1>4, <3>1 DEF Comp
  <2>3. Comp(o, N, n) \subseteq Comp(o, N, m)
    <3> SUFFICES ASSUME NEW M \in SUBSET N, m \in M, Joined(o, M) PROVE Comp(o, N, n) \subseteq M
      BY <1>1 DEF Comp
    <3>1. n \in M
      BY <2>2 DEF Comp
    <3> QED BY <1>3, <3>1
  <2> QED BY <2>1, <2>3
<1> QED BY <1>1, <1>2, <1>3, <1>4

\* Edge e from s to t and the others.
WithEdge(o, o2, e, s, t) ==
  /\ e # -e /\ -(-e) = e /\ e \notin DOMAIN o /\ -e \notin DOMAIN o
  /\ DOMAIN o2 = DOMAIN o \cup {e, -e} /\ o2[e] = s /\ o2[-e] = t /\ \A d \in DOMAIN o : o2[d] = o[d]

\* A set of nodes that no edge leads out of has both ends of e or none.
LEMMA JoinedWith ==
  ASSUME NEW o, NEW N, Graph(o, N), NEW o2, NEW e, NEW s \in N, NEW t \in N, WithEdge(o, o2, e, s, t)
  PROVE  /\ Graph(o2, N)
         /\ \A M \in SUBSET N : Joined(o2, M) <=> Joined(o, M) /\ (s \in M <=> t \in M)
<1>1. Graph(o2, N)
  BY DEF Graph, WithEdge
<1>2. ASSUME NEW M \in SUBSET N PROVE Joined(o2, M) <=> Joined(o, M) /\ (s \in M <=> t \in M)
  BY DEF Joined, Graph, WithEdge
<1> QED BY <1>1, <1>2

\* An edge within a component changes none.
LEMMA EdgeInside ==
  ASSUME NEW o, NEW N, Graph(o, N), NEW o2, NEW e, NEW s \in N, NEW t \in N, WithEdge(o, o2, e, s, t),
         Comp(o, N, s) = Comp(o, N, t)
  PROVE  Comps(o2, N) = Comps(o, N)
<1>1. \A M \in SUBSET N : Joined(o2, M) <=> Joined(o, M)
  <2> SUFFICES ASSUME NEW M \in SUBSET N, Joined(o, M) PROVE s \in M <=> t \in M
    BY JoinedWith
  <2> QED BY CompsPart
<1> QED BY <1>1 DEF Comps, Comp

\* An edge between two makes them one.
LEMMA EdgeBetween ==
  ASSUME NEW o, NEW N, Graph(o, N), NEW o2, NEW e, NEW s \in N, NEW t \in N, WithEdge(o, o2, e, s, t),
         Comp(o, N, s) # Comp(o, N, t), IsFiniteSet(N)
  PROVE  /\ IsFiniteSet(Comps(o, N)) /\ IsFiniteSet(Comps(o2, N))
         /\ Cardinality(Comps(o, N)) = Cardinality(Comps(o2, N)) + 1
<1> DEFINE S == Comp(o, N, s)
           T == Comp(o, N, t)
           rest == Comps(o, N) \ {S, T}
<1>1. Graph(o2, N) /\ \A M \in SUBSET N : Joined(o2, M) <=> Joined(o, M) /\ (s \in M <=> t \in M)
  BY JoinedWith
<1>2. /\ s \in S /\ t \in T /\ S \subseteq N /\ T \subseteq N /\ Joined(o, S) /\ Joined(o, T)
      /\ \A m \in S : Comp(o, N, m) = S
      /\ \A m \in T : Comp(o, N, m) = T
  BY CompsPart
<1>3. Joined(o2, S \cup T)
  <2>1. Joined(o, S \cup T)
    BY <1>2 DEF Joined
  <2> QED BY <1>1, <1>2, <2>1
<1>4. ASSUME NEW n \in S \cup T PROVE Comp(o2, N, n) = S \cup T
  <2>1. n \in N
    BY <1>2
  <2>2. Comp(o2, N, n) \subseteq S \cup T
    <3>1. S \cup T \in SUBSET N
      BY <1>2
    <3> HIDE DEF S, T
    <3> QED BY <1>1, <1>3, <1>4, <2>1, <3>1, CompsPart
  <2>3. ASSUME NEW M \in SUBSET N, n \in M, Joined(o2, M) PROVE S \cup T \subseteq M
    <3>1. Joined(o, M) /\ (s \in M <=> t \in M)
      BY <1>1, <2>3
    <3>2. s \in M \/ t \in M
      <4>1. Comp(o, N, n) \in {S, T}
        BY <1>2
      <4>2. Comp(o, N, n) \subseteq M
        BY <2>1, <2>3, <3>1, CompsPart
      <4> QED BY <1>2, <4>1, <4>2
    <3> QED BY <3>1, <3>2, CompsPart
  <2>4. S \cup T \subseteq Comp(o2, N, n)
    BY <1>2, <2>3 DEF Comp
  <2> QED BY <2>2, <2>4
<1>5. ASSUME NEW n \in N \ (S \cup T) PROVE Comp(o2, N, n) = Comp(o, N, n)
  <2>1. s \notin Comp(o, N, n) /\ t \notin Comp(o, N, n)
    BY <1>2, <1>5, CompsPart
  <2>2. Joined(o2, Comp(o, N, n)) /\ n \in Comp(o, N, n) /\ Comp(o, N, n) \subseteq N
    BY <1>1, <2>1, CompsPart
  <2>3. Comp(o2, N, n) \subseteq Comp(o, N, n)
    BY <1>1, <2>2, CompsPart
  <2>4. Comp(o, N, n) \subseteq Comp(o2, N, n)
    BY <1>1 DEF Comp
  <2> QED BY <2>3, <2>4
<1>6. Comps(o2, N) = rest \cup {S \cup T} /\ S \cup T \notin rest
  <2>1. \A n \in N : Comp(o, N, n) \in {S, T} <=> n \in S \cup T
    BY <1>2, CompsPart
  <2>2. rest = {Comp(o, N, n) : n \in N \ (S \cup T)}
    BY <2>1 DEF Comps
  <2>3. Comps(o2, N) = {Comp(o, N, n) : n \in N \ (S \cup T)} \cup {S \cup T}
    <3> HIDE DEF S, T
    <3>1. S \cup T \subseteq N /\ s \in S \cup T
      BY <1>2
    <3> QED BY <1>4, <1>5, <3>1 DEF Comps
  <2>4. ASSUME NEW n \in N \ (S \cup T) PROVE Comp(o, N, n) # S \cup T
    BY <2>4, CompsPart
  <2> QED BY <2>2, <2>3, <2>4
<1>7. Comps(o, N) = (rest \cup {S}) \cup {T} /\ S \notin rest /\ T \notin rest \cup {S}
  BY <1>2 DEF Comps
<1>8. IsFiniteSet(Comps(o, N)) /\ IsFiniteSet(rest)
  <2>1. Comps(o, N) \in SUBSET (SUBSET N)
    BY DEF Comps, Comp
  <2>2. IsFiniteSet(SUBSET N)
    BY FS_SUBSET
  <2> QED BY <2>1, <2>2, FS_Subset
<1> HIDE DEF rest, S, T
<1>9. /\ IsFiniteSet(rest \cup {S}) /\ Cardinality(rest \cup {S}) = Cardinality(rest) + 1
      /\ IsFiniteSet(rest \cup {S \cup T}) /\ Cardinality(rest \cup {S \cup T}) = Cardinality(rest) + 1
  BY <1>6, <1>7, <1>8, FS_AddElement
<1>10. Cardinality((rest \cup {S}) \cup {T}) = Cardinality(rest) + 1 + 1
  BY <1>7, <1>9, FS_AddElement
<1>11. Cardinality(rest) \in Nat
  BY <1>8, FS_CardinalityType
<1> QED BY <1>6, <1>7, <1>8, <1>9, <1>10, <1>11

\* A one-to-one map of a finite set onto another keeps their sizes equal.
LEMMA SameCount ==
  ASSUME NEW S, NEW T, IsFiniteSet(S), NEW f \in [S -> T],
         \A x, y \in S : f[x] = f[y] => x = y, \A y \in T : \E x \in S : f[x] = y
  PROVE  IsFiniteSet(T) /\ Cardinality(T) = Cardinality(S)
<1>1. f \in Bijection(S, T)
  BY Zenon DEF Bijection, Injection, Surjection, IsInjective
<1>2. ExistsBijection(S, T)
  BY <1>1, Zenon DEF ExistsBijection
<1> QED BY <1>2, FS_Bijection, Zenon

\* Finitely many nodes have finitely many components.
LEMMA CompsFinite ==
  ASSUME NEW o, NEW N, IsFiniteSet(N)
  PROVE  IsFiniteSet(Comps(o, N)) /\ Cardinality(Comps(o, N)) \in Nat
<1>1. Comps(o, N) \in SUBSET (SUBSET N)
  BY DEF Comps, Comp
<1>2. IsFiniteSet(SUBSET N)
  BY FS_SUBSET
<1>3. IsFiniteSet(Comps(o, N))
  BY <1>1, <1>2, FS_Subset
<1> QED BY <1>3, FS_CardinalityType

\* A node without edges is a component.
LEMMA PointAdded ==
  ASSUME NEW o, NEW N, Graph(o, N), IsFiniteSet(N), NEW n, n \notin N
  PROVE  Cardinality(Comps(o, N \cup {n})) = Cardinality(Comps(o, N)) + 1
<1> DEFINE N2 == N \cup {n}
<1>1. Graph(o, N2)
  BY DEF Graph
<1>2. \A M \in SUBSET N2 : Joined(o, M) <=> Joined(o, M \ {n})
  BY DEF Joined, Graph
<1>3. ASSUME NEW m \in N PROVE Comp(o, N2, m) = Comp(o, N, m)
  <2>1. Comp(o, N, m) \subseteq Comp(o, N2, m)
    <3> SUFFICES ASSUME NEW k \in Comp(o, N, m), NEW M \in SUBSET N2, m \in M, Joined(o, M) PROVE k \in M
      BY DEF Comp
    <3>1. M \ {n} \in SUBSET N /\ m \in M \ {n} /\ Joined(o, M \ {n})
      BY <1>2
    <3> QED BY <3>1 DEF Comp
  <2>2. Comp(o, N2, m) \subseteq Comp(o, N, m)
    <3>1. n \notin Comp(o, N2, m)
      <4>1. Joined(o, N) /\ N \in SUBSET N2 /\ m \in N
        BY DEF Joined, Graph
      <4> QED BY <4>1 DEF Comp
    <3> QED BY <3>1 DEF Comp
  <2> QED BY <2>1, <2>2
<1>4. Comp(o, N2, n) = {n}
  <2>1. Joined(o, {n})
    BY DEF Joined, Graph
  <2> QED BY <2>1 DEF Comp
<1>5. Comps(o, N2) = Comps(o, N) \cup {{n}}
  BY <1>3, <1>4 DEF Comps
<1>6. {n} \notin Comps(o, N)
  BY DEF Comps, Comp
<1> QED BY <1>5, <1>6, CompsFinite, FS_AddElement

\* Node n lies within an edge of node s, which it parts.
Within(o, N, o2, s, n) ==
  /\ Graph(o, N) /\ Graph(o2, N \cup {n}) /\ s \in N /\ n \notin N
  /\ \A M \in SUBSET (N \cup {n}) : Joined(o2, M) <=> Joined(o, M \ {n}) /\ (n \in M <=> s \in M)

\* A node within an edge is of the component of the edge.
LEMMA Subdivided ==
  ASSUME NEW o, NEW N, NEW o2, NEW s, NEW n, Within(o, N, o2, s, n), IsFiniteSet(N)
  PROVE  Cardinality(Comps(o2, N \cup {n})) = Cardinality(Comps(o, N))
<1> DEFINE N2 == N \cup {n}
           C2 == Comps(o2, N2)
           C == Comps(o, N)
           bare == [P \in C2 |-> P \ {n}]
<1>1. ASSUME NEW m \in N PROVE Comp(o2, N2, m) \ {n} = Comp(o, N, m)
  <2>1. ASSUME NEW k \in Comp(o, N, m) PROVE k \in Comp(o2, N2, m) \ {n}
    <3>0. k # n /\ k \in N2
      BY <2>1 DEF Comp, Within
    <3> SUFFICES ASSUME NEW M \in SUBSET N2, m \in M, Joined(o2, M) PROVE k \in M
      BY <3>0 DEF Comp
    <3>1. M \ {n} \in SUBSET N /\ m \in M \ {n} /\ Joined(o, M \ {n})
      BY DEF Within
    <3> QED BY <2>1, <3>1 DEF Comp
  <2>2. ASSUME NEW k \in Comp(o2, N2, m) \ {n} PROVE k \in Comp(o, N, m)
    <3>0. k \in N
      BY <2>2 DEF Comp
    <3> SUFFICES ASSUME NEW M \in SUBSET N, m \in M, Joined(o, M) PROVE k \in M
      BY <3>0 DEF Comp
    <3>1. PICK M2 \in SUBSET N2 : M2 \ {n} = M /\ (n \in M2 <=> s \in M2)
      <4>0. n \notin M /\ s # n
        BY DEF Within
      <4>1. CASE s \in M
        <5>1. M \cup {n} \in SUBSET N2 /\ (M \cup {n}) \ {n} = M
          BY <4>0
        <5> QED BY <4>1, <5>1
      <4>2. CASE s \notin M
        <5>1. M \in SUBSET N2 /\ M \ {n} = M
          BY <4>0
        <5> QED BY <4>0, <4>2, <5>1
      <4> QED BY <4>1, <4>2
    <3>2. Joined(o2, M2) /\ m \in M2
      BY <3>1 DEF Within
    <3> QED BY <2>2, <3>1, <3>2 DEF Comp
  <2> QED BY <2>1, <2>2
<1>2. Comp(o2, N2, n) = Comp(o2, N2, s)
  <2>1. Graph(o2, N2) /\ s \in N2 /\ n \in N2
    BY DEF Within
  <2>2. n \in Comp(o2, N2, s)
    BY <2>1 DEF Comp, Within
  <2> QED BY <2>1, <2>2, CompsPart
<1>3. C2 = {Comp(o2, N2, m) : m \in N}
  <2>1. s \in N
    BY DEF Within
  <2> QED BY <1>2, <2>1 DEF Comps
<1>4. C = {Comp(o, N, m) : m \in N}
  BY DEF Comps
<1>5. bare \in [C2 -> C] /\ \A y \in C : \E P \in C2 : bare[P] = y
  <2>1. \A P \in C2 : P \ {n} \in C
    BY <1>1, <1>3, <1>4
  <2>2. \A y \in C : \E P \in C2 : P \ {n} = y
    BY <1>1, <1>3, <1>4
  <2> HIDE DEF C2, C
  <2> QED BY <2>1, <2>2
<1>6. ASSUME NEW P \in C2, NEW R \in C2, P \ {n} = R \ {n} PROVE P = R
  <2>1. PICK m \in N : P = Comp(o2, N2, m)
    BY <1>3
  <2>2. PICK k \in N : R = Comp(o2, N2, k)
    BY <1>3
  <2>3. Graph(o2, N2) /\ m \in N2 /\ k \in N2 /\ m # n
    BY DEF Within
  <2>4. m \in P
    BY <2>1, <2>3, CompsPart
  <2>5. m \in R
    BY <1>6, <2>3, <2>4
  <2> QED BY <2>1, <2>2, <2>3, <2>5, CompsPart
<1>7. IsFiniteSet(C2)
  <2>1. IsFiniteSet(N2)
    BY FS_AddElement
  <2> QED BY <2>1, CompsFinite
<1>8. Cardinality(C) = Cardinality(C2)
  <2> HIDE DEF C2, C
  <2>1. \A P, R \in C2 : bare[P] = bare[R] => P = R
    BY <1>6
  <2> HIDE DEF bare
  <2> QED BY <1>5, <1>7, <2>1, SameCount
<1> QED BY <1>8

\* The nodes that edges of P leave.
Ends(o, P) == {o[d] : d \in P}

\* The nodes of a piece of the drawing are a component of the graph.
LEMMA PieceEnds ==
  ASSUME NEW c, NEW D, Rotates(c, D), NEW o, NEW N, DOMAIN c = D, DOMAIN o = D, Graph(o, N), OneTurn(c, o),
         \A d \in D : o[c[d]] = o[d], NEW x \in D, NEW P, P = Piece(c, x)
  PROVE  /\ Ends(o, P) = Comp(o, N, o[x])
         /\ \A y \in D : o[y] \in Ends(o, P) => y \in P
<1>1. /\ x \in P /\ P \subseteq D /\ Closed(c, P)
      /\ \A S : x \in S /\ Closed(c, S \cap D) => P \subseteq S
  BY PiecesPart
<1>2. \A d \in D : c[d] \in D /\ -d \in D /\ o[d] \in N
  BY DEF Rotates, Permutes, Graph
<1>3. \A y \in D : o[y] \in Ends(o, P) => y \in P
  <2>1. P \in SUBSET DOMAIN c /\ ClosedUnder(c, P)
    BY <1>1 DEF Closed, ClosedUnder
  <2> QED BY <2>1 DEF OneTurn, Ends
<1>4. Joined(o, Ends(o, P)) /\ o[x] \in Ends(o, P) /\ Ends(o, P) \subseteq N
  <2>1. o[x] \in Ends(o, P) /\ Ends(o, P) \subseteq N
    BY <1>1, <1>2 DEF Ends
  <2>2. \A d \in P : -d \in P
    BY <1>1 DEF Closed
  <2>3. Joined(o, Ends(o, P))
    BY <1>3, <2>2 DEF Joined, Ends
  <2> QED BY <2>1, <2>3
<1>5. ASSUME NEW M \in SUBSET N, o[x] \in M, Joined(o, M) PROVE Ends(o, P) \subseteq M
  <2> DEFINE S == {d \in D : o[d] \in M}
  <2>1. x \in S /\ S \cap D = S
    BY <1>5
  <2>2. Closed(c, S)
    BY <1>2, <1>5 DEF Closed, Joined
  <2>3. P \subseteq S
    <3> HIDE DEF S
    <3> QED BY <1>1, <2>1, <2>2
  <2> QED BY <2>3 DEF Ends
<1>6. Ends(o, P) = Comp(o, N, o[x])
  <2>1. Ends(o, P) \subseteq Comp(o, N, o[x])
    BY <1>4, <1>5 DEF Comp
  <2>2. Comp(o, N, o[x]) \subseteq Ends(o, P)
    BY <1>2, <1>4, CompsPart
  <2> QED BY <2>1, <2>2
<1> QED BY <1>3, <1>6

\* The pieces of the drawing and the nodes without edges are the components.
LEMMA PiecesAreComps ==
  ASSUME NEW c, NEW D, Rotates(c, D), NEW o, NEW N, DOMAIN c = D, DOMAIN o = D, Graph(o, N), OneTurn(c, o),
         \A d \in D : o[c[d]] = o[d], IsFiniteSet(N)
  PROVE  Cardinality({Piece(c, d) : d \in D}) + Cardinality({n \in N : \A d \in D : o[d] # n})
           = Cardinality(Comps(o, N))
<1> DEFINE bare == {n \in N : \A d \in D : o[d] # n}
           pieces == {Piece(c, d) : d \in D}
           drawn == {Comp(o, N, o[d]) : d \in D}
           alone == {Comp(o, N, n) : n \in bare}
<1>1. \A d \in D : o[d] \in N
  BY DEF Graph
<1>2. Cardinality(drawn) = Cardinality(pieces)
  <2> DEFINE ends == [P \in pieces |-> Ends(o, P)]
  <2>1. \A d \in D : Ends(o, Piece(c, d)) = Comp(o, N, o[d])
    BY PieceEnds
  <2>2. \A P \in pieces : Ends(o, P) \in drawn
    BY <2>1
  <2>3. \A C \in drawn : \E P \in pieces : Ends(o, P) = C
    BY <2>1
  <2>4. ASSUME NEW P \in pieces, NEW R \in pieces, Ends(o, P) = Ends(o, R) PROVE P = R
    <3>1. PICK x \in D : P = Piece(c, x)
      OBVIOUS
    <3>2. PICK y \in D : R = Piece(c, y)
      OBVIOUS
    <3>3. o[x] \in Ends(o, R)
      <4>1. x \in P
        BY <3>1, PiecesPart
      <4> QED BY <2>4, <4>1 DEF Ends
    <3>4. x \in R
      BY <3>2, <3>3, PieceEnds
    <3> QED BY <3>1, <3>2, <3>4, PiecesPart
  <2>5. IsFiniteSet(pieces)
    <3>1. pieces \in SUBSET (SUBSET D)
      BY PiecesPart
    <3>2. IsFiniteSet(SUBSET D)
      BY FS_SUBSET DEF Rotates, Permutes
    <3> QED BY <3>1, <3>2, FS_Subset
  <2> HIDE DEF pieces, drawn
  <2>6. /\ ends \in [pieces -> drawn] /\ \A C \in drawn : \E P \in pieces : ends[P] = C
        /\ \A P, R \in pieces : ends[P] = ends[R] => P = R
    BY <2>2, <2>3, <2>4
  <2> HIDE DEF ends
  <2> QED BY <2>5, <2>6, SameCount
<1>3. \A n \in bare : Comp(o, N, n) = {n}
  <2> SUFFICES ASSUME NEW n \in bare PROVE Comp(o, N, n) = {n}
    OBVIOUS
  <2>1. Joined(o, {n})
    BY DEF Joined
  <2>2. n \in N /\ {n} \in SUBSET N
    OBVIOUS
  <2>3. Comp(o, N, n) \subseteq {n} /\ n \in Comp(o, N, n)
    <3> HIDE DEF bare
    <3> QED BY <2>1, <2>2, CompsPart
  <2> QED BY <2>3
<1>4. Cardinality(alone) = Cardinality(bare)
  <2> DEFINE single == [n \in bare |-> {n}]
  <2>1. alone = {{n} : n \in bare}
    BY <1>3
  <2>2. IsFiniteSet(bare)
    BY FS_Subset
  <2> HIDE DEF bare, alone
  <2>3. /\ single \in [bare -> alone] /\ \A C \in alone : \E n \in bare : single[n] = C
        /\ \A n, m \in bare : single[n] = single[m] => n = m
    BY <2>1
  <2> HIDE DEF single
  <2> QED BY <2>2, <2>3, SameCount
<1>5. Comps(o, N) = drawn \cup alone
  BY <1>1 DEF Comps
<1>6. drawn \cap alone = {}
  <2>1. \A d \in D : o[d] \in Comp(o, N, o[d]) /\ o[d] \notin bare
    BY <1>1, CompsPart
  <2> QED BY <1>3, <2>1
<1>7. IsFiniteSet(drawn) /\ IsFiniteSet(alone)
  BY <1>5, CompsFinite, FS_Subset
<1>8. Cardinality(drawn \cup alone) = Cardinality(drawn) + Cardinality(alone)
  <2> HIDE DEF drawn, alone
  <2>1. Cardinality(drawn \cap alone) = 0
    BY <1>6, FS_EmptySet
  <2>2. Cardinality(drawn) \in Nat /\ Cardinality(alone) \in Nat
    BY <1>7, FS_CardinalityType
  <2>3. Cardinality(drawn \cup alone) = Cardinality(drawn) + Cardinality(alone) - Cardinality(drawn \cap alone)
    BY <1>7, FS_Union
  <2> QED BY <2>1, <2>2, <2>3
<1> QED BY <1>2, <1>4, <1>5, <1>8

\* The turns of drawing b at the nodes o, each of them one.
Turning(b, B, o) == DOMAIN b = B /\ DOMAIN o = B /\ OneTurn(b, o) /\ \A d \in B : o[b[d]] = o[d]

\* A curve with one ring on both of its sides joins two components.
LEMMA BridgeBetween ==
  ASSUME NEW a, NEW A, NEW b, NEW B, NEW e, NEW T, NEW L, NEW K, Bridges(a, A, b, B, e, T, L, K),
         NEW o, NEW o2, NEW N, NEW s \in N, NEW t \in N, Graph(o, N), WithEdge(o, o2, e, s, t),
         Turning(a, A, o), Turning(b, B, o2)
  PROVE  Comp(o, N, s) # Comp(o, N, t)
<1> DEFINE W == Ends(o, T) \cup {s}
<1>1. /\ T \in SUBSET A /\ (\A x \in T : a[x] \in T /\ -x \in T)
      /\ b[e] \in T \cup {e} /\ b[-e] \in (A \ T) \cup {-e}
      /\ B = A \cup {e, -e} /\ e # -e /\ e \notin A /\ -e \notin A
  BY DEF Bridges, Closed, Grows, WithEdge, Turning
<1>2. \A x \in T, y \in A : o[x] = o[y] => y \in T
  <2>1. ClosedUnder(a, T)
    BY <1>1 DEF ClosedUnder
  <2> QED BY <1>1, <2>1 DEF Turning, OneTurn
<1>3. /\ o2[e] = s /\ o2[-e] = t /\ (\A d \in A : o2[d] = o[d])
      /\ o2[b[e]] = s /\ o2[b[-e]] = t
  BY <1>1 DEF WithEdge, Turning
<1>4. \A d \in {e, -e} : b[d] = d => \A y \in B : o2[y] = o2[d] => y = d
  <2> SUFFICES ASSUME NEW d \in {e, -e}, b[d] = d, NEW y \in B, o2[y] = o2[d] PROVE y = d
    OBVIOUS
  <2>1. {d} \in SUBSET DOMAIN b /\ ClosedUnder(b, {d})
    BY <1>1 DEF ClosedUnder, Turning
  <2>2. y \in {d}
    BY <1>1, <2>1 DEF OneTurn, Turning
  <2> QED BY <2>2
<1>5. b[e] = e \/ s \in Ends(o, T)
  BY <1>1, <1>3 DEF Ends
<1>6. \A d \in A : o[d] \in W => d \in T
  <2> SUFFICES ASSUME NEW d \in A, o[d] \in W PROVE d \in T
    OBVIOUS
  <2>1. CASE o[d] \in Ends(o, T)
    BY <1>2, <2>1 DEF Ends
  <2>2. CASE o[d] = s /\ b[e] = e
    BY <1>1, <1>3, <1>4, <2>2
  <2> QED BY <1>5, <2>1, <2>2
<1>7. Joined(o, W) /\ W \subseteq N /\ s \in W
  <2>1. Joined(o, W)
    BY <1>1, <1>6 DEF Joined, Ends, Turning
  <2>2. W \subseteq N
    BY <1>1 DEF Ends, Graph, Turning
  <2> QED BY <2>1, <2>2
<1>8. t \notin W
  <2> SUFFICES ASSUME t \in W PROVE FALSE
    OBVIOUS
  <2>1. CASE b[-e] = -e
    <3>1. \A y \in B : o2[y] = t => y = -e
      BY <1>3, <1>4, <2>1
    <3>2. t # s
      BY <1>1, <1>3, <3>1
    <3>3. t \notin Ends(o, T)
      BY <1>1, <1>3, <3>1 DEF Ends
    <3> QED BY <3>2, <3>3
  <2>2. CASE b[-e] \in A \ T
    BY <1>3, <1>6, <2>2
  <2> QED BY <1>1, <2>1, <2>2
<1>9. Comp(o, N, s) \subseteq W /\ t \in Comp(o, N, t)
  <2> HIDE DEF W
  <2> QED BY <1>7, CompsPart
<1> QED BY <1>8, <1>9

\* A curve with a ring on each of its sides stays within a component.
LEMMA CurveInside ==
  ASSUME NEW a, NEW A, NEW b, NEW B, NEW e, Grows(a, A, b, B, e), -e \notin Orbit(Walk(b), e),
         NEW o, NEW o2, NEW N, NEW s \in N, NEW t \in N, Graph(o, N), WithEdge(o, o2, e, s, t),
         Turning(a, A, o), Turning(b, B, o2)
  PROVE  Comp(o, N, s) = Comp(o, N, t)
<1> DEFINE L == Orbit(Walk(b), e)
           R == Orbit(Walk(b), -e)
           K == (L \cup R) \ {e, -e}
           C == Comp(o, N, s)
           S == {d \in A : o[d] \in C}
<1>1. Parts(b, e, L, R, K)
  BY DEF Parts
<1> HIDE DEF L, R, K
<1>2. /\ e \notin R /\ -e \notin L /\ b[-e] \in L /\ b[e] \in R /\ K \subseteq A
      /\ \A X \in SUBSET A : Walked(a, X) /\ X \cap K # {} => K \subseteq X
  BY <1>1, PartedRings
<1>3. /\ e \in B /\ -e \in B /\ B = A \cup {e, -e} /\ \A x \in A : -x \in A /\ a[x] \in A
  BY GrowsLinks DEF Grows
<1>4. /\ o2[e] = s /\ o2[-e] = t /\ o2[b[e]] = s /\ o2[b[-e]] = t /\ \A d \in A : o2[d] = o[d]
  BY <1>3 DEF WithEdge, Turning
<1>5. s \in C /\ t \in Comp(o, N, t) /\ C \subseteq N /\ Joined(o, C)
      /\ \A m \in C : Comp(o, N, m) = C
  BY CompsPart
<1> HIDE DEF C
<1>6. CASE s = t
  BY <1>6
<1>7. CASE s # t
  <2>1. b[-e] \in K /\ b[e] \in K
    BY <1>2, <1>4, <1>7 DEF K
  <2>2. Walked(a, S)
    BY <1>3, <1>5 DEF Walked, Joined, Turning
  <2>3. b[e] \in S
    BY <1>2, <1>4, <1>5, <2>1
  <2>4. K \subseteq S
    <3> HIDE DEF S
    <3>1. S \in SUBSET A
      BY DEF S
    <3> QED BY <1>2, <2>1, <2>2, <2>3, <3>1
  <2>5. o[b[-e]] = t
    BY <1>2, <1>4, <2>1
  <2>6. t \in C
    BY <2>1, <2>4, <2>5
  <2> QED BY <1>5, <2>6 DEF C
<1> QED BY <1>6, <1>7

\* The edges that darts are of.
EdgeIds(D) == {Abs(d) : d \in D}

\* Both directions of an edge count once.
LEMMA EdgeAdded ==
  ASSUME NEW D, IsFiniteSet(D), \A d \in D : d \in Int /\ -d \in D, NEW e \in Int \ {0}, e \notin D
  PROVE  /\ IsFiniteSet(EdgeIds(D)) /\ Cardinality(EdgeIds(D)) \in Nat
         /\ Cardinality(EdgeIds(D \cup {e, -e})) = Cardinality(EdgeIds(D)) + 1
<1>1. EdgeIds(D) \subseteq D
  BY DEF EdgeIds, Abs
<1>2. IsFiniteSet(EdgeIds(D))
  BY <1>1, FS_Subset
<1>3. Abs(e) \notin EdgeIds(D)
  <2> SUFFICES ASSUME NEW d \in D, Abs(d) = Abs(e) PROVE FALSE
    BY DEF EdgeIds
  <2>1. e = d \/ e = -d
    BY DEF Abs
  <2> QED BY <2>1
<1>4. Abs(-e) = Abs(e)
  BY DEF Abs
<1>5. EdgeIds(D \cup {e, -e}) = EdgeIds(D) \cup {Abs(e)}
  BY <1>4 DEF EdgeIds
<1> QED BY <1>2, <1>3, <1>5, FS_AddElement, FS_CardinalityType

\* As many nodes and faces, less the edges, as components.
Euler(N, D, F, o) ==
  Cardinality(N) - Cardinality(EdgeIds(D)) + Cardinality(F) = Cardinality(Comps(o, N))

\* Sets that can be counted.
Countable(N, D, F) ==
  IsFiniteSet(N) /\ IsFiniteSet(D) /\ IsFiniteSet(F) /\ \A d \in D : d \in Int /\ -d \in D

\* An edge between two components makes them one; one within a component must make a face.
LEMMA EdgeEuler ==
  ASSUME NEW N, NEW D, NEW F, NEW F2, NEW o, NEW o2, NEW e \in Int \ {0}, NEW s \in N, NEW t \in N,
         Graph(o, N), DOMAIN o = D, WithEdge(o, o2, e, s, t), Countable(N, D, F), IsFiniteSet(F2),
         IF Comp(o, N, s) = Comp(o, N, t) THEN Cardinality(F2) = Cardinality(F) + 1
         ELSE Cardinality(F2) = Cardinality(F)
  PROVE  Euler(N, D, F, o) <=> Euler(N, D \cup {e, -e}, F2, o2)
<1>1. e \notin D
  BY DEF WithEdge
<1>2. /\ Cardinality(EdgeIds(D)) \in Nat
      /\ Cardinality(EdgeIds(D \cup {e, -e})) = Cardinality(EdgeIds(D)) + 1
  BY <1>1, EdgeAdded DEF Countable
<1>3. /\ Cardinality(N) \in Nat /\ Cardinality(F) \in Nat /\ Cardinality(F2) \in Nat
      /\ Cardinality(Comps(o, N)) \in Nat /\ Cardinality(Comps(o2, N)) \in Nat
  BY CompsFinite, FS_CardinalityType DEF Countable
<1>4. CASE Comp(o, N, s) = Comp(o, N, t)
  <2>1. Comps(o2, N) = Comps(o, N)
    BY <1>4, EdgeInside
  <2> QED BY <1>2, <1>3, <1>4, <2>1 DEF Euler
<1>5. CASE Comp(o, N, s) # Comp(o, N, t)
  <2>1. Cardinality(Comps(o, N)) = Cardinality(Comps(o2, N)) + 1
    BY <1>5, EdgeBetween DEF Countable
  <2> QED BY <1>2, <1>3, <1>5, <2>1 DEF Euler
<1> QED BY <1>4, <1>5

\* A node without edges adds itself and a component.
LEMMA PointEuler ==
  ASSUME NEW N, NEW D, NEW F, NEW o, NEW n, n \notin N, Graph(o, N), Countable(N, D, F),
         Cardinality(EdgeIds(D)) \in Nat
  PROVE  Euler(N, D, F, o) <=> Euler(N \cup {n}, D, F, o)
<1>1. Cardinality(N \cup {n}) = Cardinality(N) + 1
  BY FS_AddElement DEF Countable
<1>2. Cardinality(Comps(o, N \cup {n})) = Cardinality(Comps(o, N)) + 1
  BY PointAdded DEF Countable
<1>3. Cardinality(N) \in Nat /\ Cardinality(F) \in Nat /\ Cardinality(Comps(o, N)) \in Nat
  BY CompsFinite, FS_CardinalityType DEF Countable
<1> DEFINE nodes == Cardinality(N)
           edges == Cardinality(EdgeIds(D))
           faces == Cardinality(F)
           comps == Cardinality(Comps(o, N))
<1>4. nodes - edges + faces = comps <=> (nodes + 1) - edges + faces = comps + 1
  <2>1. nodes \in Nat /\ edges \in Nat /\ faces \in Nat /\ comps \in Nat
    BY <1>3
  <2> HIDE DEF nodes, edges, faces, comps
  <2> QED BY <2>1
<1> QED BY <1>1, <1>2, <1>4 DEF Euler

\* A node within an edge adds itself and an edge.
LEMMA WithinEuler ==
  ASSUME NEW N, NEW D, NEW D2, NEW F, NEW o, NEW o2, NEW s, NEW n, Within(o, N, o2, s, n),
         Countable(N, D, F), Cardinality(EdgeIds(D)) \in Nat,
         Cardinality(EdgeIds(D2)) = Cardinality(EdgeIds(D)) + 1
  PROVE  Euler(N, D, F, o) <=> Euler(N \cup {n}, D2, F, o2)
<1>1. Cardinality(N \cup {n}) = Cardinality(N) + 1
  BY FS_AddElement DEF Countable, Within
<1>2. Cardinality(Comps(o2, N \cup {n})) = Cardinality(Comps(o, N))
  BY Subdivided DEF Countable
<1>3. Cardinality(N) \in Nat /\ Cardinality(F) \in Nat /\ Cardinality(Comps(o, N)) \in Nat
  BY CompsFinite, FS_CardinalityType DEF Countable
<1> QED BY <1>1, <1>2, <1>3 DEF Euler

\* What is counted, and where the turns of the drawing are.
EulerFacts ==
  /\ Countable(Node, DOMAIN cw, face) /\ Graph(org, Node) /\ Turning(cw, DOMAIN cw, org)
  /\ Rotates(cw, DOMAIN cw) /\ DOMAIN org = DOMAIN cw /\ Edge = EdgeIds(DOMAIN cw) /\ Cardinality(Edge) \in Nat

\* Euler's formula over the tables, with the components of the graph.
EulerInv == Euler(Node, DOMAIN cw, face, org)

\* They hold in every reachable state.
LEMMA EulerFactsHold == FacesInv => EulerFacts
<1> SUFFICES ASSUME FacesInv PROVE EulerFacts
  OBVIOUS
<1>1. /\ DOMAIN next = DOMAIN cw /\ DOMAIN org = DOMAIN cw /\ Rotates(cw, DOMAIN cw)
      /\ (\A x \in DOMAIN cw : org[x] \in Node)
      /\ face \subseteq 1..last.face /\ last.face \in Nat /\ Node \subseteq 1..last.node /\ last.node \in Nat
  BY PlaneTypes
<1>2. IsFiniteSet(Node) /\ IsFiniteSet(face)
  <2>1. 1 \in Int /\ last.face \in Int /\ last.node \in Int
    BY <1>1
  <2>2. IsFiniteSet(1..last.node) /\ IsFiniteSet(1..last.face)
    BY <2>1, FS_Interval
  <2> QED BY <1>1, <2>2, FS_Subset
<1>3. IsFiniteSet(DOMAIN cw) /\ \A d \in DOMAIN cw : d \in Int /\ -d \in DOMAIN cw
  BY <1>1 DEF Rotates, Permutes
<1>4. Graph(org, Node)
  <2>1. \A d \in DOMAIN cw : -(-d) = d
    BY <1>3
  <2> QED BY <1>1, <1>3, <2>1 DEF Graph
<1>5. Turning(cw, DOMAIN cw, org)
  <2>1. \A d \in DOMAIN cw : org[cw[d]] = org[d]
    BY DrawingRotates DEF FacesInv, TurnsInv
  <2> QED BY <1>1, <2>1 DEF Turning, FacesInv, TurnsInv
<1>6. Edge = EdgeIds(DOMAIN cw)
  BY <1>1 DEF Edge, EdgeIds
<1>7. Cardinality(Edge) \in Nat
  <2>1. Edge \subseteq DOMAIN cw
    BY <1>3, <1>6 DEF EdgeIds, Abs
  <2> QED BY <1>3, <2>1, FS_Subset, FS_CardinalityType
<1> QED BY <1>1, <1>2, <1>3, <1>4, <1>5, <1>6, <1>7 DEF EulerFacts, Countable

\* An isolated node is a component of its own.
LEMMA PointsEuler ==
  ASSUME FacesInv, FacesInv', AddIsoNode \/ RemoveIsoNode
  PROVE  EulerInv <=> EulerInv'
<1>1. EulerFacts /\ EulerFacts'
  BY EulerFactsHold, PTL
<1>2. UNCHANGED <<cw, org, face>>
  BY DEF AddIsoNode, RemoveIsoNode, DrawPoint, ErasePoint
<1>3. CASE AddIsoNode
  <2>1. PICK n : n = last.node + 1 /\ Node' = Node \cup {n}
    BY <1>3 DEF AddIsoNode, Node
  <2>2. n \notin Node
    BY <2>1, PlaneTypes
  <2>3. Euler(Node, DOMAIN cw, face, org) <=> Euler(Node \cup {n}, DOMAIN cw, face, org)
    BY <1>1, <2>2, PointEuler DEF EulerFacts
  <2> QED BY <1>2, <2>1, <2>3 DEF EulerInv
<1>4. CASE RemoveIsoNode
  <2>1. PICK n \in Node : Node' = Node \ {n}
    BY <1>4 DEF RemoveIsoNode, Node
  <2>2. n \notin Node' /\ Node = Node' \cup {n}
    BY <2>1
  <2>3. /\ Graph(org, Node') /\ Countable(Node', DOMAIN cw, face)
        /\ Cardinality(EdgeIds(DOMAIN cw)) \in Nat
    BY <1>1, <1>2 DEF EulerFacts
  <2>4. Euler(Node', DOMAIN cw, face, org) <=> Euler(Node' \cup {n}, DOMAIN cw, face, org)
    BY <2>2, <2>3, PointEuler
  <2> QED BY <1>2, <2>2, <2>4 DEF EulerInv
<1> QED BY <1>3, <1>4

\* Drawing an edge: a bridge joins two components, any other makes a face.
LEMMA DrawnEuler ==
  ASSUME FacesInv, FacesInv', NEW e, NEW s \in Node, NEW t \in Node, NEW p, NEW q, NEW f, NEW g, NEW l, NEW r,
         NEW B, DrawnStep(e, s, t, p, q, f, g, l, r, B), DrawsEdge(e, s, t, p, q, f, g),
         Node' = Node,
         IF g.splits THEN Cardinality(face') = Cardinality(face) + 1 ELSE face' = face
  PROVE  EulerInv <=> EulerInv'
<1>1. EulerFacts /\ EulerFacts'
  BY EulerFactsHold, PTL
<1>2. /\ B = DOMAIN cw \cup {e, -e} /\ DOMAIN cw' = B /\ Placed(e, p, q)
      /\ DrawsAs(g, cw', e, f, {s, t}) /\ Grows(cw, DOMAIN cw, cw', B, e)
      /\ OneRegion(cw', B, WithCurve(region, DOMAIN cw, e, f))
  BY DEF DrawnStep
<1>3. e \in Int \ {0} /\ e # -e /\ -(-e) = e /\ e \notin DOMAIN cw /\ -e \notin DOMAIN cw
  BY <1>2 DEF Placed
<1>4. WithEdge(org, org', e, s, t)
  <2>1. DOMAIN org = DOMAIN cw
    BY <1>1 DEF EulerFacts
  <2>2. org' = [d \in DOMAIN cw \cup {e, -e} |-> IF d = e THEN s ELSE IF d = -e THEN t ELSE org[d]]
    BY DEF DrawsEdge
  <2> QED BY <1>3, <2>1, <2>2 DEF WithEdge
<1>5. Turning(cw, DOMAIN cw, org) /\ Turning(cw', B, org') /\ Graph(org, Node)
  BY <1>1, <1>2 DEF EulerFacts
<1>6. g.splits <=> -e \notin Orbit(Walk(cw'), e)
  BY <1>2 DEF DrawsAs
<1>7. IF Comp(org, Node, s) = Comp(org, Node, t) THEN Cardinality(face') = Cardinality(face) + 1
      ELSE Cardinality(face') = Cardinality(face)
  <2>1. CASE g.splits
    <3>1. Comp(org, Node, s) = Comp(org, Node, t)
      BY <1>2, <1>4, <1>5, <1>6, <2>1, CurveInside
    <3> QED BY <2>1, <3>1
  <2>2. CASE ~g.splits
    <3> DEFINE L == Orbit(Walk(cw'), e)
    <3>1. /\ OneRegion(cw, DOMAIN cw, region) /\ Jordan(cw, DOMAIN cw, region)
      BY DEF FacesInv, PlaneInv, Planar
    <3>2. Extends(DOMAIN cw, region, WithCurve(region, DOMAIN cw, e, f))
      BY <1>3 DEF Extends, WithCurve
    <3>3. BridgeFound(cw, DOMAIN cw, cw', B, e, L)
      BY <1>2, <1>6, <2>2, <3>1, <3>2, DrawnBridge
    <3>4. PICK T : Bridges(cw, DOMAIN cw, cw', B, e, T, L, L \ {e, -e})
      BY <3>3 DEF BridgeFound
    <3> HIDE DEF L
    <3>5. Comp(org, Node, s) # Comp(org, Node, t)
      BY <1>4, <1>5, <3>4, BridgeBetween
    <3> QED BY <2>2, <3>5
  <2> QED BY <2>1, <2>2
<1>8. IsFiniteSet(face') /\ Countable(Node, DOMAIN cw, face) /\ DOMAIN org = DOMAIN cw
  BY <1>1 DEF EulerFacts, Countable
<1>9. Euler(Node, DOMAIN cw, face, org) <=> Euler(Node, DOMAIN cw \cup {e, -e}, face', org')
  BY <1>3, <1>4, <1>5, <1>7, <1>8, EdgeEuler
<1> QED BY <1>2, <1>9 DEF EulerInv

\* A face that is parted makes one more.
LEMMA PartedFacesCount ==
  ASSUME NEW F, IsFiniteSet(F), NEW n \in Nat, F \subseteq 1..n, NEW f \in F \cup {0}, NEW modFace
  PROVE  Cardinality(PartedFaces(F, f, modFace, n)) = Cardinality(F) + 1
<1>1. n + 1 \notin F /\ n + 2 \notin F /\ n + 1 # n + 2 /\ n + 1 # f /\ n + 2 # f
  OBVIOUS
<1>2. IsFiniteSet(F \cup {n + 1}) /\ Cardinality(F \cup {n + 1}) = Cardinality(F) + 1
  BY <1>1, FS_AddElement
<1>3. CASE modFace \/ f = 0
  BY <1>2, <1>3 DEF PartedFaces
<1>4. CASE ~(modFace \/ f = 0)
  <2> DEFINE G == (F \cup {n + 1}) \cup {n + 2}
  <2>1. n + 2 \notin F \cup {n + 1}
    BY <1>1
  <2>2. IsFiniteSet(G) /\ Cardinality(G) = Cardinality(F) + 1 + 1
    BY <1>2, <2>1, FS_AddElement
  <2>3. f \in G /\ G = F \cup {n + 1, n + 2}
    BY <1>4
  <2>4. Cardinality(G \ {f}) = Cardinality(G) - 1
    BY <2>2, <2>3, FS_RemoveElement
  <2>5. Cardinality(F) \in Nat
    BY FS_CardinalityType
  <2>6. PartedFaces(F, f, modFace, n) = G \ {f}
    BY <1>4, <2>3 DEF PartedFaces
  <2> HIDE DEF G
  <2> QED BY <2>2, <2>4, <2>5, <2>6
<1> QED BY <1>3, <1>4

\* lwt_AddIsoEdge joins two components.
LEMMA AddIsoEdgeEuler ==
  ASSUME FacesInv, FacesInv', [Next]_vars, AddIsoEdge
  PROVE  EulerInv <=> EulerInv'
<1> DEFINE e == last.edge + 1
<1>1. PICK s \in Node, t \in Node : \E g :
         /\ DrawsEdge(e, s, t, 0, 0, isoRegion[s], g)
         /\ DrawLine(e, g, isoRegion[s], 0, 0, {s, t})
         /\ s # t /\ containing' = [containing EXCEPT ![s] = None, ![t] = None]
         /\ UNCHANGED <<relation, face>>
  BY AddIsoEdgeDraws DEF FacesInv
<1>2. PICK g : /\ DrawsEdge(e, s, t, 0, 0, isoRegion[s], g)
               /\ DrawLine(e, g, isoRegion[s], 0, 0, {s, t})
               /\ s # t /\ containing' = [containing EXCEPT ![s] = None, ![t] = None]
               /\ UNCHANGED <<relation, face>>
  BY <1>1
<1> HIDE DEF e
<1>3. DrawnStep(e, s, t, 0, 0, isoRegion[s], g, 0, 0, DOMAIN cw \cup {e, -e})
  BY <1>2, DrawnSteps
<1>4. ~g.splits
  <2>1. EndsPlaced(e, s, t, 0, 0)
    BY <1>2 DEF DrawsEdge
  <2>2. Leaving(s) = {}
    BY <2>1 DEF EndsPlaced
  <2> QED BY <1>2, <1>3, <2>1, <2>2, FreeEndParts
<1>5. Node' = Node /\ face' = face
  BY <1>2 DEF Node
<1> QED BY <1>2, <1>3, <1>4, <1>5, DrawnEuler

\* _lwt_AddEdge joins two components or parts a face.
LEMMA AddEdgeEuler ==
  ASSUME NEW modFace \in BOOLEAN, FacesInv, FacesInv', [Next]_vars, AddEdge(modFace)
  PROVE  EulerInv <=> EulerInv'
<1> DEFINE e == last.edge + 1
<1>1. PICK s \in Node, t \in Node, f \in face \cup {0} : \E p, q, g, l, r, after :
        AddsEdge(e, s, t, p, q, f, g, l, r, after, modFace)
  BY AddEdgeAdds
<1>2. PICK p, q, g, l, r, after : AddsEdge(e, s, t, p, q, f, g, l, r, after, modFace)
  BY <1>1
<1> HIDE DEF e
<1>3. /\ DrawnStep(e, s, t, p, q, f, g, l, r, DOMAIN cw \cup {e, -e})
      /\ DrawsEdge(e, s, t, p, q, f, g)
  BY <1>2 DEF AddsEdge
<1>4. CASE g.splits
  <2>1. Node' = Node /\ face' = PartedFaces(face, f, modFace, last.face)
    BY <1>2, <1>4, AddSplit
  <2>2. Cardinality(face') = Cardinality(face) + 1
    <3>1. EulerFacts
      BY EulerFactsHold
    <3>2. IsFiniteSet(face) /\ last.face \in Nat /\ face \subseteq 1..last.face
      BY <3>1, PlaneTypes DEF EulerFacts, Countable
    <3> QED BY <2>1, <3>2, PartedFacesCount
  <2> QED BY <1>3, <1>4, <2>1, <2>2, DrawnEuler
<1>5. CASE ~g.splits
  <2>1. Node' = Node /\ face' = face
    BY <1>2, <1>5, AddBridge
  <2> QED BY <1>3, <1>5, <2>1, DrawnEuler
<1> QED BY <1>4, <1>5

\* Erasing an edge: a bridge leaves two components, any other had two faces, of which one remains.
LEMMA ErasedEuler ==
  ASSUME FacesInv, FacesInv', NEW e, NEW f, NEW bare, ErasesEdge(e, f, bare), Node' = Node,
         IF side[e] = side[-e] THEN face' = face ELSE Cardinality(face) = Cardinality(face') + 1
  PROVE  EulerInv <=> EulerInv'
<1> DEFINE B == DOMAIN cw
           A == B \ {e, -e}
           s == org[e]
           t == org[-e]
           L == Orbit(Walk(cw), e)
<1>1. EulerFacts /\ EulerFacts'
  BY EulerFactsHold, PTL
<1>2. /\ e \in Int \ {0} /\ e \in B /\ -e \in B /\ cw' = Dropped(e)
      /\ org' = [d \in A |-> org[d]]
  BY DEF ErasesEdge
<1>3. DOMAIN cw' = A
  BY <1>2 DEF Dropped
<1>4. Rotates(cw, B) /\ Rotates(cw', A)
  BY <1>1, <1>3 DEF EulerFacts
<1>5. Grows(cw', A, cw, B, e)
  BY <1>2, <1>4, ErasedGrows
<1>6. WithEdge(org', org, e, s, t) /\ s \in Node /\ t \in Node /\ B = A \cup {e, -e}
  BY <1>1, <1>2 DEF WithEdge, EulerFacts, Graph
<1>7. Turning(cw', A, org') /\ Turning(cw, B, org) /\ Graph(org', Node)
  BY <1>1, <1>3 DEF EulerFacts
<1>8. OneRegion(cw, B, region) /\ Jordan(cw, B, region) /\ side = region
  BY PlaneTypes DEF FacesInv, PlaneInv, Planar
<1>9. IF Comp(org', Node, s) = Comp(org', Node, t) THEN Cardinality(face) = Cardinality(face') + 1
      ELSE Cardinality(face) = Cardinality(face')
  <2> HIDE DEF A, B, s, t
  <2>1. CASE side[e] = side[-e]
    <3>1. PICK T : Bridges(cw', A, cw, B, e, T, L, L \ {e, -e})
      BY <1>5, <1>8, <2>1, ErasedBridge
    <3> HIDE DEF L
    <3>2. Comp(org', Node, s) # Comp(org', Node, t)
      BY <1>6, <1>7, <3>1, BridgeBetween
    <3> QED BY <2>1, <3>2
  <2>2. CASE side[e] # side[-e]
    <3> DEFINE S == {x \in B : region[x] = region[e]}
    <3>1. \A x \in B : cw[-x] \in B
      BY <1>4 DEF Rotates, Permutes
    <3>2. e \in S /\ Walked(cw, S) /\ S \cap B = S
      BY <1>2, <1>8, <3>1 DEF Walked, OneRegion, B
    <3>3. L \subseteq S
      <4> HIDE DEF S
      <4> QED BY <1>2, <1>4, <3>2, RingsPart DEF B
    <3>4. -e \notin L
      BY <1>8, <2>2, <3>3
    <3>5. Comp(org', Node, s) = Comp(org', Node, t)
      BY <1>5, <1>6, <1>7, <3>4, CurveInside
    <3> QED BY <2>2, <3>5
  <2> QED BY <2>1, <2>2
<1>10. IsFiniteSet(face) /\ Countable(Node, A, face') /\ DOMAIN org' = A
  BY <1>1, <1>2, <1>3 DEF EulerFacts, Countable
<1> HIDE DEF A, B, s, t
<1>11. Euler(Node, A, face', org') <=> Euler(Node, A \cup {e, -e}, face, org)
  BY <1>2, <1>6, <1>7, <1>9, <1>10, EdgeEuler
<1> QED BY <1>3, <1>6, <1>11 DEF EulerInv, B

\* lwt_RemIsoEdge leaves its two nodes.
LEMMA RemIsoEdgeEuler ==
  ASSUME FacesInv, FacesInv', RemIsoEdge
  PROVE  EulerInv <=> EulerInv'
<1>1. PICK e \in Edge : /\ ErasesEdge(e, region[e], {org[e], org[-e]})
                        /\ side[e] = side[-e]
                        /\ containing' = [n \in Node |-> IF n \in {org[e], org[-e]} THEN side[e]
                                                         ELSE containing[n]]
                        /\ UNCHANGED <<relation, face>>
  BY RemIsoEdgeErases DEF FacesInv
<1>2. Node' = Node
  BY <1>1 DEF Node
<1> QED BY <1>1, <1>2, ErasedEuler

\* _lwt_RemEdge leaves one of two faces, or a new one for both.
LEMMA RemEdgeEuler ==
  ASSUME NEW modFace \in BOOLEAN, FacesInv, FacesInv', RemEdge(modFace)
  PROVE  EulerInv <=> EulerInv'
<1>1. PICK e \in Edge :
        /\ ErasesEdge(e, Flood(e, modFace), Stranded(e))
        /\ containing' = [n \in Node |-> IF n \in Stranded(e) THEN Flood(e, modFace)
                                         ELSE IF containing[n] \in Vanished(e, modFace) THEN Flood(e, modFace)
                                         ELSE containing[n]]
        /\ face' = (face \cup (IF side[e] # side[-e] /\ 0 \notin {side[e], side[-e]} /\ ~modFace
                               THEN {Flood(e, modFace)} ELSE {})) \ Vanished(e, modFace)
  BY RemEdgeErases DEF FacesInv
<1>2. Node' = Node
  BY <1>1 DEF Node
<1> DEFINE l == side[e]
           r == side[-e]
           new == last.face + 1
<1>3. /\ l \in face \cup {0} /\ r \in face \cup {0} /\ 0 \notin face /\ new \notin face \cup {0}
      /\ IsFiniteSet(face) /\ Cardinality(face) \in Nat
  <2>1. EulerFacts
    BY EulerFactsHold
  <2>2. IsFiniteSet(face)
    BY <2>1 DEF EulerFacts, Countable
  <2> QED BY <1>1, <2>2, PlaneTypes, FS_CardinalityType DEF ErasesEdge, FacesInv, PlaneInv, RegionsAreFaces
<1> HIDE DEF l, r, new
<1>4. CASE l = r
  <2>1. face' = face
    BY <1>1, <1>4 DEF Vanished, l, r
  <2> QED BY <1>1, <1>2, <1>4, <2>1, ErasedEuler DEF l, r
<1>5. CASE l # r
  <2>1. \E x \in face : Cardinality(face') = Cardinality(face \ {x})
    <3>1. CASE 0 \in {l, r}
      <4>1. PICK x \in face : {l, r} \ {0} = {x}
        BY <1>3, <1>5, <3>1
      <4>2. Vanished(e, modFace) = {x}
        BY <1>5, <3>1, <4>1 DEF Vanished, Flood, l, r
      <4>3. face' = face \ {x}
        BY <1>1, <3>1, <4>2 DEF l, r
      <4> QED BY <4>3
    <3>2. CASE 0 \notin {l, r} /\ modFace
      <4>1. Vanished(e, modFace) = {l} /\ l \in face
        BY <1>3, <1>5, <3>2 DEF Vanished, Flood, l, r
      <4>2. face' = face \ {l}
        BY <1>1, <3>2, <4>1
      <4> QED BY <4>1, <4>2
    <3>3. CASE 0 \notin {l, r} /\ ~modFace
      <4>1. Flood(e, modFace) = new /\ l \in face /\ r \in face
        BY <1>3, <1>5, <3>3 DEF Flood, l, r, new
      <4>2. Vanished(e, modFace) = {l, r}
        BY <1>3, <1>5, <4>1 DEF Vanished, l, r
      <4>3. face' = ((face \ {l}) \ {r}) \cup {new}
        BY <1>1, <1>3, <1>5, <3>3, <4>1, <4>2 DEF l, r
      <4>4. IsFiniteSet(face \ {l}) /\ Cardinality(face \ {l}) = Cardinality(face) - 1
        BY <1>3, <4>1, FS_RemoveElement
      <4>5. /\ IsFiniteSet((face \ {l}) \ {r})
            /\ Cardinality((face \ {l}) \ {r}) = Cardinality(face \ {l}) - 1
        BY <1>5, <4>1, <4>4, FS_RemoveElement
      <4>6. Cardinality(face') = Cardinality((face \ {l}) \ {r}) + 1
        BY <1>3, <4>3, <4>5, FS_AddElement
      <4>7. Cardinality(face \ {l}) \in Nat /\ Cardinality((face \ {l}) \ {r}) \in Nat
        BY <4>4, <4>5, FS_CardinalityType
      <4>8. Cardinality(face') = Cardinality(face \ {l})
        BY <4>5, <4>6, <4>7
      <4> QED BY <4>1, <4>8
    <3> QED BY <3>1, <3>2, <3>3
  <2>2. Cardinality(face) = Cardinality(face') + 1
    <3>1. PICK x \in face : Cardinality(face') = Cardinality(face \ {x})
      BY <2>1
    <3>2. Cardinality(face \ {x}) = Cardinality(face) - 1
      BY <1>3, FS_RemoveElement
    <3> QED BY <1>3, <3>1, <3>2
  <2> QED BY <1>1, <1>2, <1>5, <2>2, ErasedEuler DEF l, r
<1> QED BY <1>4, <1>5

\* Taking both directions of an edge away.
LEMMA EdgesLess ==
  ASSUME NEW D, IsFiniteSet(D), \A d \in D : d \in Int \ {0} /\ -d \in D, NEW e \in D,
         NEW D0, D0 = D \ {e, -e}
  PROVE  /\ IsFiniteSet(D0) /\ (\A d \in D0 : d \in Int \ {0} /\ -d \in D0) /\ e \notin D0 /\ -e \notin D0
         /\ Cardinality(EdgeIds(D0)) \in Nat
         /\ Cardinality(EdgeIds(D)) = Cardinality(EdgeIds(D0)) + 1
<1>1. IsFiniteSet(D0) /\ e \notin D0 /\ -e \notin D0 /\ D = D0 \cup {e, -e} /\ e \in Int \ {0}
  BY FS_Subset
<1>2. \A d \in D0 : d \in Int \ {0} /\ -d \in D0
  OBVIOUS
<1>3. /\ Cardinality(EdgeIds(D0)) \in Nat
      /\ Cardinality(EdgeIds(D0 \cup {e, -e})) = Cardinality(EdgeIds(D0)) + 1
  BY <1>1, <1>2, EdgeAdded
<1> QED BY <1>1, <1>2, <1>3

\* Darts D2 have edges i and j where D has e.
TwoForOne(D, e, i, j, D2) ==
  /\ IsFiniteSet(D) /\ (\A d \in D : d \in Int \ {0} /\ -d \in D)
  /\ e \in D /\ i \in Int \ {0} /\ j \in Int \ {0} /\ i # j /\ i # -j
  /\ D2 = (D \ {e, -e}) \cup {i, -i, j, -j}
  /\ i \notin D \ {e, -e} /\ j \notin D \ {e, -e}

\* That is one more.
LEMMA EdgesForOne ==
  ASSUME NEW D, NEW e, NEW i, NEW j, NEW D2, TwoForOne(D, e, i, j, D2)
  PROVE  /\ Cardinality(EdgeIds(D)) \in Nat
         /\ Cardinality(EdgeIds(D2)) = Cardinality(EdgeIds(D)) + 1
<1> DEFINE D0 == D \ {e, -e}
           D1 == D0 \cup {i, -i}
<1>1. /\ IsFiniteSet(D0) /\ (\A d \in D0 : d \in Int \ {0} /\ -d \in D0)
      /\ Cardinality(EdgeIds(D0)) \in Nat
      /\ Cardinality(EdgeIds(D)) = Cardinality(EdgeIds(D0)) + 1
  BY EdgesLess DEF TwoForOne
<1>2. /\ i \notin D0 /\ j \notin D0 /\ D2 = D1 \cup {j, -j}
      /\ i \in Int \ {0} /\ j \in Int \ {0} /\ i # j /\ i # -j
  BY DEF TwoForOne
<1> HIDE DEF D0
<1>3. Cardinality(EdgeIds(D1)) = Cardinality(EdgeIds(D0)) + 1
  BY <1>1, <1>2, EdgeAdded
<1>4. IsFiniteSet(D1) /\ (\A d \in D1 : d \in Int /\ -d \in D1) /\ j \notin D1
  <2>1. IsFiniteSet((D0 \cup {i}) \cup {-i})
    BY <1>1, FS_AddElement
  <2>2. D1 = (D0 \cup {i}) \cup {-i}
    OBVIOUS
  <2>3. j # -i
    BY <1>2
  <2> QED BY <1>1, <1>2, <2>1, <2>2, <2>3
<1> HIDE DEF D1
<1>5. Cardinality(EdgeIds(D1 \cup {j, -j})) = Cardinality(EdgeIds(D1)) + 1
  BY <1>2, <1>4, EdgeAdded
<1> QED BY <1>1, <1>2, <1>3, <1>5

\* The node at which an edge is cut lies within it.
LEMMA CutWithin ==
  ASSUME FacesInv, FacesInv', NEW e, NEW i, NEW j, NEW n, CutsEdge(e, i, j, n), Node' = Node \cup {n}
  PROVE  Within(org, Node, org', org[e], n)
<1> DEFINE D == DOMAIN cw
           D2 == CutDarts(e, i, j)
<1>1. EulerFacts /\ EulerFacts'
  BY EulerFactsHold, PTL
<1>2. /\ Cuts(e, i, j) /\ n \notin Node
      /\ org' = [d \in D2 |-> IF d \in {-i, j} THEN n ELSE org[WasCut(e, i, j, d)]]
  BY DEF CutsEdge
<1>3. /\ Graph(org, Node) /\ DOMAIN org = D /\ Graph(org', Node \cup {n})
      /\ (\A d \in D : d \in Int \ {0} /\ -d \in D)
  BY <1>1 DEF EulerFacts, Rotates
<1>4. /\ e \in Int \ {0} /\ i \in Int \ {0} /\ j \in Int \ {0} /\ i # j /\ i # -j /\ e \in D /\ -e \in D
      /\ i \notin D \ {e, -e} /\ -i \notin D \ {e, -e} /\ j \notin D /\ -j \notin D
  BY <1>2, <1>3 DEF Cuts
<1>5. /\ D2 = (D \ {e, -e}) \cup {i, -i, j, -j}
      /\ org'[i] = org[e] /\ org'[-i] = n /\ org'[j] = n /\ org'[-j] = org[-e]
      /\ \A d \in D \ {e, -e} : org'[d] = org[d]
  BY <1>2, <1>4 DEF CutDarts, WasCut
<1> HIDE DEF D, D2
<1>6. ASSUME NEW M \in SUBSET (Node \cup {n})
      PROVE  Joined(org', M) <=> Joined(org, M \ {n}) /\ (n \in M <=> org[e] \in M)
  <2>0. DOMAIN org' = D2 /\ \A d \in D : org[d] \in Node /\ org[d] # n
    BY <1>2, <1>3 DEF Graph
  <2>1. /\ -(-i) = i /\ -(-j) = j /\ -(-e) = e
        /\ \A d \in D \ {e, -e} : -d \in D \ {e, -e}
    BY <1>3, <1>4
  <2> DEFINE others == \A d \in D \ {e, -e} : org[d] \in M => org[-d] \in M
  <2>2. Joined(org', M) <=> others /\ (org[e] \in M <=> n \in M) /\ (n \in M <=> org[-e] \in M)
    BY <1>5, <2>0, <2>1 DEF Joined
  <2>3. Joined(org, M \ {n}) <=> others /\ (org[e] \in M <=> org[-e] \in M)
    BY <1>3, <1>4, <2>0, <2>1 DEF Joined
  <2> QED BY <2>2, <2>3
<1> QED BY <1>2, <1>3, <1>4, <1>6 DEF Within, Graph

\* Cutting an edge adds a node and an edge.
LEMMA CutEuler ==
  ASSUME FacesInv, FacesInv', NEW e, NEW i, NEW j, NEW n, CutsEdge(e, i, j, n), Node' = Node \cup {n},
         face' = face
  PROVE  EulerInv <=> EulerInv'
<1> DEFINE D == DOMAIN cw
           D2 == CutDarts(e, i, j)
<1>1. EulerFacts
  BY EulerFactsHold
<1>2. Within(org, Node, org', org[e], n)
  BY CutWithin
<1>3. DOMAIN cw' = D2
  BY DEF CutsEdge, CutRot
<1>4. Cardinality(EdgeIds(D)) \in Nat /\ Cardinality(EdgeIds(D2)) = Cardinality(EdgeIds(D)) + 1
  <2>1. IsFiniteSet(D) /\ \A d \in D : d \in Int \ {0} /\ -d \in D
    BY <1>1 DEF EulerFacts, Rotates, Permutes
  <2>2. /\ e \in D /\ i \in Int \ {0} /\ j \in Int \ {0} /\ i # j /\ i # -j
        /\ i \notin D \ {e, -e} /\ j \notin D \ {e, -e}
        /\ D2 = (D \ {e, -e}) \cup {i, -i, j, -j}
    BY DEF CutsEdge, Cuts, CutDarts
  <2>3. TwoForOne(D, e, i, j, D2)
    BY <2>1, <2>2 DEF TwoForOne
  <2> HIDE DEF D, D2
  <2> QED BY <2>3, EdgesForOne
<1>5. Countable(Node, D, face)
  BY <1>1 DEF EulerFacts
<1> HIDE DEF D2
<1>6. Euler(Node, D, face, org) <=> Euler(Node \cup {n}, D2, face, org')
  BY <1>2, <1>4, <1>5, WithinEuler
<1> QED BY <1>3, <1>6 DEF EulerInv

\* lwt_ModEdgeSplit and lwt_NewEdgesSplit cut one.
LEMMA SplitsEuler ==
  ASSUME FacesInv, FacesInv', ModEdgeSplit \/ NewEdgesSplit
  PROVE  EulerInv <=> EulerInv'
<1>1. ASSUME NEW e, NEW i, NEW j, NEW n, CutsEdge(e, i, j, n), face' = face,
             containing' = [m \in Node \cup {n} |-> IF m = n THEN None ELSE containing[m]]
      PROVE  EulerInv <=> EulerInv'
  <2>1. Node' = Node \cup {n}
    BY <1>1 DEF Node
  <2> QED BY <1>1, <2>1, CutEuler
<1>2. CASE ModEdgeSplit
  <2>1. PICK e \in Edge :
          /\ CutsEdge(e, e, last.edge + 1, last.node + 1) /\ face' = face
          /\ containing' = [m \in Node \cup {last.node + 1} |-> IF m = last.node + 1 THEN None
                                                                ELSE containing[m]]
    BY <1>2, ModEdgeSplitCuts DEF FacesInv
  <2> QED BY <1>1, <2>1
<1>3. CASE NewEdgesSplit
  <2>1. PICK e \in Edge :
          /\ CutsEdge(e, last.edge + 1, last.edge + 2, last.node + 1) /\ face' = face
          /\ containing' = [m \in Node \cup {last.node + 1} |-> IF m = last.node + 1 THEN None
                                                                ELSE containing[m]]
    BY <1>3, NewEdgesSplitCuts DEF FacesInv
  <2> QED BY <1>1, <2>1
<1> QED BY <1>2, <1>3

\* The node at which two edges meet lies within the one that they become.
LEMMA JoinWithin ==
  ASSUME FacesInv, FacesInv', NEW a, NEW b, NEW M, JoinsEdges(a, b, M), NEW n, n = org[b],
         Node' = Node \ {n}
  PROVE  Within(org', Node', org, org[a], n) /\ Node = Node' \cup {n}
<1> DEFINE D == DOMAIN cw
           D2 == JoinDarts(a, b, M)
           rest == D \ {a, -a, b, -b}
<1>1. EulerFacts /\ EulerFacts'
  BY EulerFactsHold, PTL
<1>2. /\ Joins(a, b, M) /\ org[-a] = n /\ (\A d \in D : org[d] = n <=> d \in {-a, b})
      /\ org' = [d \in D2 |-> org[WasJoin(a, b, M, d)]]
  BY DEF JoinsEdges
<1>3. /\ Graph(org, Node) /\ DOMAIN org = D /\ Graph(org', Node')
      /\ (\A d \in D : d \in Int \ {0} /\ -d \in D)
  BY <1>1 DEF EulerFacts, Rotates
<1>4. /\ a \in Int \ {0} /\ b \in Int \ {0} /\ M \in Int \ {0} /\ a # b /\ a # -b
      /\ a \in D /\ -a \in D /\ b \in D /\ -b \in D /\ M \notin rest /\ -M \notin rest
  BY <1>2 DEF Joins
<1>5. /\ D2 = rest \cup {M, -M} /\ D = rest \cup {a, -a, b, -b}
      /\ org'[M] = org[a] /\ org'[-M] = org[-b] /\ org[-a] = n /\ org[b] = n
      /\ \A d \in rest : org'[d] = org[d]
  BY <1>2, <1>4 DEF JoinDarts, WasJoin
<1>6. /\ org[a] # n /\ org[-b] # n /\ (\A d \in rest : org[d] # n /\ org[-d] # n)
      /\ -(-a) = a /\ -(-b) = b /\ -(-M) = M
      /\ \A d \in rest : -d \in rest /\ -(-d) = d
  BY <1>2, <1>3, <1>4
<1>7. n \in Node /\ n \notin Node' /\ org[a] \in Node' /\ Node = Node' \cup {n}
  BY <1>3, <1>4, <1>6 DEF Graph
<1>8. DOMAIN org' = D2
  BY <1>2
<1> HIDE DEF D, D2, rest
<1>9. ASSUME NEW S \in SUBSET (Node' \cup {n})
      PROVE  Joined(org, S) <=> Joined(org', S \ {n}) /\ (n \in S <=> org[a] \in S)
  <2> DEFINE others == \A d \in rest : org[d] \in S => org[-d] \in S
  <2>1. Joined(org, S) <=> others /\ (org[a] \in S <=> n \in S) /\ (n \in S <=> org[-b] \in S)
    BY <1>3, <1>5, <1>6 DEF Joined
  <2>2. Joined(org', S \ {n}) <=> others /\ (org[a] \in S <=> org[-b] \in S)
    BY <1>5, <1>6, <1>8 DEF Joined
  <2> QED BY <2>1, <2>2
<1> QED BY <1>3, <1>7, <1>9 DEF Within

\* Joining two edges takes a node and an edge away.
LEMMA JoinEuler ==
  ASSUME FacesInv, FacesInv', NEW a, NEW b, NEW M, JoinsEdges(a, b, M), NEW n, n = org[b],
         Node' = Node \ {n}, face' = face
  PROVE  EulerInv <=> EulerInv'
<1> DEFINE D == DOMAIN cw
           D2 == JoinDarts(a, b, M)
<1>1. EulerFacts /\ EulerFacts'
  BY EulerFactsHold, PTL
<1>2. Within(org', Node', org, org[a], n) /\ Node = Node' \cup {n}
  BY JoinWithin
<1>3. DOMAIN cw' = D2
  BY DEF JoinsEdges, JoinRot
<1>4. Cardinality(EdgeIds(D2)) \in Nat /\ Cardinality(EdgeIds(D)) = Cardinality(EdgeIds(D2)) + 1
  <2>1. IsFiniteSet(D2) /\ \A d \in D2 : d \in Int \ {0} /\ -d \in D2
    BY <1>1, <1>3 DEF EulerFacts, Rotates, Permutes
  <2>2. \A d \in D : d \in Int \ {0} /\ -d \in D
    BY <1>1 DEF EulerFacts, Rotates
  <2>3. /\ a \in Int \ {0} /\ b \in Int \ {0} /\ M \in Int \ {0} /\ a # b /\ a # -b
        /\ a \in D /\ -a \in D /\ b \in D /\ -b \in D
        /\ M = a \/ (M \notin D /\ -M \notin D)
        /\ D2 = (D \ {a, -a, b, -b}) \cup {M, -M}
    BY DEF JoinsEdges, Joins, JoinDarts
  <2> HIDE DEF D, D2
  <2>4. /\ M \in D2 /\ D = (D2 \ {M, -M}) \cup {a, -a, b, -b}
        /\ a \notin D2 \ {M, -M} /\ b \notin D2 \ {M, -M}
    BY <2>3
  <2>5. TwoForOne(D2, M, a, b, D)
    BY <2>1, <2>3, <2>4 DEF TwoForOne
  <2> QED BY <2>5, EdgesForOne
<1>5. Countable(Node', D2, face)
  BY <1>1, <1>3 DEF EulerFacts
<1> HIDE DEF D2
<1>6. Euler(Node', D2, face, org') <=> Euler(Node' \cup {n}, D, face, org)
  BY <1>2, <1>4, <1>5, WithinEuler
<1> QED BY <1>2, <1>3, <1>6 DEF EulerInv

\* _lwt_HealEdges joins two.
LEMMA HealEdgesEuler ==
  ASSUME NEW modEdge \in BOOLEAN, FacesInv, FacesInv', HealEdges(modEdge)
  PROVE  EulerInv <=> EulerInv'
<1>1. PICK a, b, M, n : /\ JoinsEdges(a, b, M) /\ n = org[b] /\ face' = face
                        /\ containing' = [k \in Node \ {n} |-> containing[k]]
  <2>1. PICK e1 \in Edge, e2 \in Edge, n \in Node : \E a, b, M :
          HealsInto(e1, e2, IF modEdge THEN e1 ELSE last.edge + 1, a, b, M, n)
    BY HealEdgesJoins DEF FacesInv
  <2> QED BY <2>1 DEF HealsInto
<1>2. Node' = Node \ {n}
  BY <1>1 DEF Node
<1> QED BY <1>1, <1>2, JoinEuler

\* Every edit keeps Euler's formula.
LEMMA EulerInvNext ==
  ASSUME FacesInv, FacesInv', [Next]_vars, EulerInv
  PROVE  EulerInv'
<1>1. CASE AddIsoNode \/ RemoveIsoNode
  BY <1>1, PointsEuler
<1>2. CASE AddIsoEdge
  BY <1>2, AddIsoEdgeEuler
<1>3. CASE RemIsoEdge
  BY <1>3, RemIsoEdgeEuler
<1>4. CASE ModEdgeSplit \/ NewEdgesSplit
  BY <1>4, SplitsEuler
<1>5. CASE ModEdgeHeal \/ NewEdgeHeal
  BY <1>5, HealEdgesEuler DEF ModEdgeHeal, NewEdgeHeal
<1>6. CASE AddEdgeModFace \/ AddEdgeNewFaces
  BY <1>6, AddEdgeEuler DEF AddEdgeModFace, AddEdgeNewFaces
<1>7. CASE RemEdgeModFace \/ RemEdgeNewFace
  BY <1>7, RemEdgeEuler DEF RemEdgeModFace, RemEdgeNewFace
<1>8. CASE Redefinition \/ UNCHANGED vars
  <2>1. UNCHANGED <<containing, cw, org, face>>
    BY <1>8 DEF Redefinition, AddElement, RemElement, ClearTopoGeom, geomVars, tableVars, vars
  <2>2. Node' = Node
    BY <2>1 DEF Node
  <2> QED BY <2>1, <2>2 DEF EulerInv
<1> QED BY <1>1, <1>2, <1>3, <1>4, <1>5, <1>6, <1>7, <1>8 DEF Next, Edit

\* An empty topology has nothing to count.
LEMMA EulerInvInit == Init => EulerInv
<1> SUFFICES ASSUME Init PROVE EulerInv
  OBVIOUS
<1>1. Node = {} /\ DOMAIN cw = {} /\ face = {}
  BY DEF Init, GeomInit, Node
<1>2. EdgeIds({}) = {} /\ Comps(org, {}) = {}
  BY DEF EdgeIds, Comps
<1>3. Cardinality({}) = 0
  BY FS_EmptySet
<1>4. /\ Cardinality(Node) = 0 /\ Cardinality(EdgeIds(DOMAIN cw)) = 0 /\ Cardinality(face) = 0
      /\ Cardinality(Comps(org, Node)) = 0
  BY <1>1, <1>2, <1>3
<1> QED BY <1>4 DEF EulerInv, Euler

\* The pieces that the formula counts are the components.
LEMMA EulerCounts == FacesInv /\ EulerInv => EulerFormula
<1> SUFFICES ASSUME FacesInv, EulerInv PROVE EulerFormula
  OBVIOUS
<1> DEFINE D == DOMAIN cw
           turn == [d \in DOMAIN next |-> next[-d]]
<1>1. EulerFacts
  BY EulerFactsHold
<1>2. DOMAIN next = D /\ \A d \in D : next[d] = cw[-d]
  BY PlaneTypes DEF FacesInv, IInv, LinksFollowDrawing
<1>3. turn = cw
  <2>1. \A d \in D : -d \in D /\ -(-d) = d
    BY <1>1 DEF EulerFacts, Countable
  <2>2. cw = [d \in D |-> cw[d]]
    BY DEF FacesInv, TurnsInv
  <2> QED BY <1>2, <2>1, <2>2
<1>4. {n \in Node : Leaving(n) = {}} = {n \in Node : \A d \in D : org[d] # n}
  BY <1>1 DEF Leaving, EulerFacts
<1>5. Cardinality({Piece(cw, d) : d \in D}) + Cardinality({n \in Node : \A d \in D : org[d] # n})
        = Cardinality(Comps(org, Node))
  BY <1>1, PiecesAreComps DEF EulerFacts, Turning, Countable
<1>6. Cardinality(Node) - Cardinality(Edge) + Cardinality(face) = Cardinality(Comps(org, Node))
  BY <1>1 DEF EulerInv, Euler, EulerFacts
<1>7. {Piece(turn, d) : d \in DOMAIN next} = {Piece(cw, d) : d \in D}
  BY <1>2, <1>3
<1> HIDE DEF turn
<1>8. Cardinality({Piece(turn, d) : d \in DOMAIN next}) + Cardinality({n \in Node : Leaving(n) = {}})
        = Cardinality(Node) - Cardinality(Edge) + Cardinality(face)
  BY <1>4, <1>5, <1>6, <1>7
<1> QED BY <1>8 DEF EulerFormula, turn

\* Nodes, edges, faces and pieces agree with Euler's formula in every reachable state, so no
\* edit loses one or makes one up.
THEOREM EulerCorrect == Spec => []EulerFormula
<1>1. FacesInv /\ FacesInv' /\ EulerInv /\ [Next]_vars => EulerInv'
  BY EulerInvNext
<1> QED BY <1>1, EulerInvInit, EulerCounts, FacesInductive, PTL DEF Spec

\* The faces are sound in themselves: each has one shell, its rings stay in it, and there are as
\* many as the nodes, edges and pieces make.
THEOREM FacesSoundCorrect == Spec => []FacesSound
<1>1. OneShellPerFace /\ RingsInOneFace /\ EulerFormula => FacesSound
  BY DEF FacesSound
<1> QED BY <1>1, ShellsCorrect, RingsInOneFaceCorrect, EulerCorrect, PTL

-----------------------------------------------------------------------------
(* What an object covers is carried over to the new drawing by every edit.        *)

\* The elements of a type that rows give an object, as DrawnAs and Elements read them.
Ids(rows, tg, type) == {Abs(r.id) : r \in {x \in rows : x.tg = tg /\ x.type = type}}

\* The rows of edges or of faces with one of these ids.
RowsWith(type, S) == {r \in relation : r.type = type /\ Abs(r.id) \in S}

\* What an object covers after the step is what it covered before, carried over by the maps of
\* Inherit.
CarriedOver(nodes, lineWas, dartWas) ==
  \A tg \in TopoGeom :
    DrawnAs(relation, tg)' =
      [points |-> DrawnAs(relation, tg).points \cap nodes,
       lines |-> {e \in DOMAIN lineWas : lineWas[e] \in DrawnAs(relation, tg).lines},
       area |-> {d \in DOMAIN dartWas : dartWas[d] \in DrawnAs(relation, tg).area}]

\* A step and a state it is taken in.
Carrying == FacesInv /\ FacesInv' /\ RowsName(relation, Node, Edge, face)

\* The history variable extent does to what objects were drawn as what the step does to
\* what the rows denote.
LEMMA ExtentsCarried ==
  ASSUME ExtentsPreserved, NEW nodes, NEW lineWas, NEW dartWas,
         Inherit(nodes, lineWas, dartWas), CarriedOver(nodes, lineWas, dartWas)
  PROVE  ExtentsPreserved'
<1> SUFFICES ASSUME NEW tg \in TopoGeom PROVE DrawnAs(relation, tg)' = extent'[tg]
  BY DEF ExtentsPreserved
<1>1. DrawnAs(relation, tg) = extent[tg]
  BY DEF ExtentsPreserved
<1>2. extent'[tg] = [points |-> extent[tg].points \cap nodes,
                     lines |-> {e \in DOMAIN lineWas : lineWas[e] \in extent[tg].lines},
                     area |-> {d \in DOMAIN dartWas : dartWas[d] \in extent[tg].area}]
  BY DEF Inherit
<1> QED BY <1>1, <1>2 DEF CarriedOver

\* What DrawnAs reads of the rows.
LEMMA DrawnIds ==
  ASSUME NEW tg
  PROVE  /\ DrawnAs(relation, tg) =
              [points |-> Ids(relation, tg, 1), lines |-> Ids(relation, tg, 2),
               area |-> {d \in DOMAIN region : region[d] \in Ids(relation, tg, 3)}]
         /\ DrawnAs(relation, tg)' =
              [points |-> Ids(relation', tg, 1), lines |-> Ids(relation', tg, 2),
               area |-> {d \in DOMAIN region' : region'[d] \in Ids(relation', tg, 3)}]
BY DEF DrawnAs, Ids

\* So it is enough to follow points, lines and regions.
LEMMA CarriedIds ==
  ASSUME NEW nodes, NEW lineWas, NEW dartWas,
         \A tg \in TopoGeom :
           /\ Ids(relation', tg, 1) = Ids(relation, tg, 1) \cap nodes
           /\ \A e : e \in Ids(relation', tg, 2) <=>
                       e \in DOMAIN lineWas /\ lineWas[e] \in Ids(relation, tg, 2)
           /\ \A d \in DOMAIN dartWas :
                region'[d] \in Ids(relation', tg, 3) <=>
                  dartWas[d] \in DOMAIN region /\ region[dartWas[d]] \in Ids(relation, tg, 3),
         DOMAIN region' = DOMAIN dartWas
  PROVE  CarriedOver(nodes, lineWas, dartWas)
<1> SUFFICES ASSUME NEW tg \in TopoGeom
             PROVE  DrawnAs(relation, tg)' =
                      [points |-> DrawnAs(relation, tg).points \cap nodes,
                       lines |-> {e \in DOMAIN lineWas : lineWas[e] \in DrawnAs(relation, tg).lines},
                       area |-> {d \in DOMAIN dartWas : dartWas[d] \in DrawnAs(relation, tg).area}]
  BY DEF CarriedOver
<1>1. /\ DrawnAs(relation, tg).points = Ids(relation, tg, 1)
      /\ DrawnAs(relation, tg).lines = Ids(relation, tg, 2)
      /\ DrawnAs(relation, tg).area = {d \in DOMAIN region : region[d] \in Ids(relation, tg, 3)}
  BY DrawnIds
<1>2. Ids(relation', tg, 2) = {e \in DOMAIN lineWas : lineWas[e] \in Ids(relation, tg, 2)}
  OBVIOUS
<1>3. {d \in DOMAIN region' : region'[d] \in Ids(relation', tg, 3)} =
        {d \in DOMAIN dartWas : dartWas[d] \in {x \in DOMAIN region : region[x] \in Ids(relation, tg, 3)}}
  OBVIOUS
<1> QED BY <1>1, <1>2, <1>3, DrawnIds

\* Elements of rows that are added.
LEMMA IdsOfUnion ==
  ASSUME NEW A, NEW B, NEW tg, NEW type, NEW y
  PROVE  y \in Ids(A \cup B, tg, type) <=> y \in Ids(A, tg, type) \/ y \in Ids(B, tg, type)
BY DEF Ids

\* Elements of rows that are taken away.
LEMMA IdsLeft ==
  ASSUME NEW S, NEW type, NEW tg, NEW ty, NEW y
  PROVE  y \in Ids(relation \ RowsWith(type, S), tg, ty) <=>
           y \in Ids(relation, tg, ty) /\ ~(ty = type /\ y \in S)
BY DEF Ids, RowsWith

\* Elements of rows that are put under a new id.
LEMMA IdsPut ==
  ASSUME relation \subseteq Row, NEW x, NEW type, NEW tg, NEW ty, NEW i \in Nat, NEW y
  PROVE  y \in Ids(Put(RowsWith(type, {x}), i), tg, ty) <=>
           y = i /\ ty = type /\ x \in Ids(relation, tg, ty)
<1> DEFINE rows == RowsWith(type, {x})
<1>1. rows \subseteq relation /\ \A o \in rows : o.type = type /\ Abs(o.id) = x
  BY DEF RowsWith
<1>2. ASSUME NEW r \in Put(rows, i)
      PROVE  Abs(r.id) = i /\ r.type = type /\ x \in Ids(relation, r.tg, type)
  <2> HIDE DEF rows
  <2>1. PICK o \in rows : r.tg = o.tg /\ r.type = o.type /\ Abs(r.id) = i
    BY <1>1, PutRows
  <2>2. o \in relation /\ o.type = type /\ Abs(o.id) = x
    BY <1>1
  <2> QED BY <2>1, <2>2 DEF Ids
<1>3. ASSUME y \in Ids(Put(rows, i), tg, ty)
      PROVE  y = i /\ ty = type /\ x \in Ids(relation, tg, ty)
  <2>1. PICK r \in Put(rows, i) : r.tg = tg /\ r.type = ty /\ y = Abs(r.id)
    BY <1>3 DEF Ids
  <2> QED BY <1>2, <2>1
<1>4. ASSUME ty = type, x \in Ids(relation, tg, ty)
      PROVE  i \in Ids(Put(rows, i), tg, ty)
  <2>1. PICK o \in relation : o.tg = tg /\ o.type = type /\ Abs(o.id) = x
    BY <1>4 DEF Ids
  <2>2. o \in rows /\ o \in Row
    BY <2>1 DEF RowsWith
  <2> DEFINE r == [o EXCEPT !.id = Sign(o.id) * i]
  <2>3. r \in Put(rows, i)
    BY <2>2 DEF Put
  <2>4. r.tg = tg /\ r.type = type
    BY <2>1, <2>2 DEF Row
  <2>5. Abs(r.id) = i
    BY <1>2, <2>3
  <2> HIDE DEF r, rows
  <2> QED BY <1>4, <2>3, <2>4, <2>5 DEF Ids
<1> QED BY <1>3, <1>4

\* What Carrying says of the rows, and of the columns before and after the step.
LEMMA CarryFacts ==
  ASSUME Carrying
  PROVE  /\ relation \subseteq Row
         /\ \A tg : /\ Ids(relation, tg, 1) \subseteq Node
                    /\ Ids(relation, tg, 2) \subseteq Edge
                    /\ Ids(relation, tg, 3) \subseteq face
         /\ \A tg, type : Ids(relation, tg, type) # {} => tg \in OfType(type)
         /\ side = region /\ DOMAIN region = DOMAIN next /\ side' = region'
         /\ DOMAIN next = Darts(Edge) /\ 0 \notin DOMAIN next /\ DOMAIN next \subseteq Int
         /\ Edge \subseteq 1..last.edge /\ last.edge \in Nat /\ Edge \subseteq DOMAIN next
         /\ face \subseteq 1..last.face /\ last.face \in Nat /\ 0 \notin face
<1>0. FacesInv /\ FacesInv' /\ RowsName(relation, Node, Edge, face)
  BY DEF Carrying
<1>1. TypeOK
  BY <1>0 DEF FacesInv, IInv
<1>2. relation \subseteq Row
  BY <1>1 DEF TypeOK
<1>3. /\ side = region /\ DOMAIN region = DOMAIN next
      /\ face \subseteq 1..last.face /\ last.face \in Nat /\ 0 \notin face
  BY <1>0, PlaneTypes
<1>4. side' = region'
  <2>1. (FacesInv => side = region)'
    BY PlaneTypes, PTL
  <2> QED BY <1>0, <2>1
<1>5. /\ DOMAIN next = Darts(Edge) /\ Edge \subseteq 1..last.edge /\ last.edge \in Nat
  BY <1>1 DEF TypeOK
<1>6. 0 \notin DOMAIN next /\ DOMAIN next \subseteq Int /\ Edge \subseteq DOMAIN next
  <2>1. \A e \in Edge : e \in Int /\ e # 0 /\ -e \in Int /\ -e # 0
    BY <1>5
  <2> QED BY <1>5, <2>1 DEF Darts
<1>7. ASSUME NEW tg, NEW type, NEW x \in Ids(relation, tg, type)
      PROVE  /\ tg \in OfType(type)
             /\ type = 1 => x \in Node
             /\ type = 2 => x \in Edge
             /\ type = 3 => x \in face
  <2>1. PICK r \in relation : r.tg = tg /\ r.type = type /\ x = Abs(r.id)
    BY DEF Ids
  <2>2. r.tg \in OfType(r.type) /\ Names(r, Node, Edge, face)
    BY <1>0 DEF RowsName
  <2>3. \A y \in Node \cup face : Abs(y) = y
    <3>1. Node \subseteq Nat /\ face \subseteq Nat
      BY <1>0, PlaneTypes
    <3> QED BY <3>1 DEF Abs
  <2> QED BY <2>1, <2>2, <2>3 DEF Names
<1> QED BY <1>2, <1>3, <1>4, <1>5, <1>6, <1>7

\* The rows of an edge or of a face.
LEMMA RowsOfOne ==
  ASSUME Carrying, NEW x
  PROVE  RowsOfEdge(x) = RowsWith(2, {x}) /\ RowsOfFace(x) = RowsWith(3, {x})
<1>1. face \subseteq Nat
  <2>1. face \subseteq 1..last.face
    BY CarryFacts
  <2> QED BY <2>1
<1>2. ASSUME NEW r \in relation, r.type = 3 PROVE Abs(r.id) = r.id
  <2>1. r.id \in face
    BY <1>2 DEF Carrying, RowsName, Names
  <2>2. \A k \in Nat : Abs(k) = k
    BY DEF Abs
  <2> QED BY <1>1, <2>1, <2>2
<1> QED BY <1>2 DEF RowsOfEdge, RowsOfFace, RowsWith

\* The elements once an edge or a face is split: a new id beside the old one, or two for it.
LEMMA IdsSplit ==
  ASSUME relation \subseteq Row, NEW type, NEW x, NEW i \in Nat, NEW tg, NEW ty, NEW y
  PROVE  y \in Ids(relation \cup Put(RowsWith(type, {x}), i), tg, ty) <=>
           y \in Ids(relation, tg, ty) \/ (ty = type /\ x \in Ids(relation, tg, ty) /\ y = i)
<1> DEFINE rows == RowsWith(type, {x})
<1>1. y \in Ids(Put(rows, i), tg, ty) <=> y = i /\ ty = type /\ x \in Ids(relation, tg, ty)
  BY IdsPut
<1> HIDE DEF rows
<1>2. y \in Ids(relation \cup Put(rows, i), tg, ty) <=>
        y \in Ids(relation, tg, ty) \/ y \in Ids(Put(rows, i), tg, ty)
  BY IdsOfUnion
<1> QED BY <1>1, <1>2 DEF rows

\* What an object has once the rows of x are put under i and under j.
LEMMA IdsReplaced ==
  ASSUME relation \subseteq Row, NEW type, NEW x, NEW i \in Nat, NEW j \in Nat, NEW tg, NEW ty, NEW y
  PROVE  y \in Ids((relation \ RowsWith(type, {x})) \cup Put(RowsWith(type, {x}), i)
                     \cup Put(RowsWith(type, {x}), j), tg, ty) <=>
           \/ y \in Ids(relation, tg, ty) /\ ~(ty = type /\ y = x)
           \/ ty = type /\ x \in Ids(relation, tg, ty) /\ y \in {i, j}
<1> DEFINE was == Ids(relation, tg, ty)
           rows == RowsWith(type, {x})
<1>1. /\ y \in Ids(Put(rows, i), tg, ty) <=> y = i /\ ty = type /\ x \in was
      /\ y \in Ids(Put(rows, j), tg, ty) <=> y = j /\ ty = type /\ x \in was
  BY IdsPut
<1>2. y \in Ids(relation \ rows, tg, ty) <=> y \in was /\ ~(ty = type /\ y \in {x})
  BY IdsLeft
<1> HIDE DEF rows
<1>3. y \in Ids((relation \ rows) \cup Put(rows, i) \cup Put(rows, j), tg, ty) <=>
        \/ y \in Ids(relation \ rows, tg, ty)
        \/ y \in Ids(Put(rows, i), tg, ty) \/ y \in Ids(Put(rows, j), tg, ty)
  BY IdsOfUnion
<1> HIDE DEF was
<1> QED BY <1>1, <1>2, <1>3 DEF was, rows

\* The elements once edges or faces S become one under a new id.
LEMMA IdsHealed ==
  ASSUME relation \subseteq Row, NEW type, NEW x, NEW S, NEW i \in Nat, NEW tg, NEW ty, NEW y
  PROVE  y \in Ids((relation \ RowsWith(type, S)) \cup Put(RowsWith(type, {x}), i), tg, ty) <=>
           \/ y \in Ids(relation, tg, ty) /\ ~(ty = type /\ y \in S)
           \/ ty = type /\ x \in Ids(relation, tg, ty) /\ y = i
<1> DEFINE was == Ids(relation, tg, ty)
           one == RowsWith(type, {x})
           all == RowsWith(type, S)
<1>1. y \in Ids(Put(one, i), tg, ty) <=> y = i /\ ty = type /\ x \in was
  BY IdsPut
<1>2. y \in Ids(relation \ all, tg, ty) <=> y \in was /\ ~(ty = type /\ y \in S)
  BY IdsLeft
<1> HIDE DEF one, all
<1>3. y \in Ids((relation \ all) \cup Put(one, i), tg, ty) <=>
        y \in Ids(relation \ all, tg, ty) \/ y \in Ids(Put(one, i), tg, ty)
  BY IdsOfUnion
<1> HIDE DEF was
<1> QED BY <1>1, <1>2, <1>3 DEF was, one, all

\* The maps of Inherit, and what the edits do to the drawing that TopoGeomSpec speaks of.
Brings(nodes, lineWas, dartWas) == Inherit(nodes, lineWas, dartWas) /\ CarriedOver(nodes, lineWas, dartWas)

Unmarks(n) ==
  /\ n \in Node /\ Node' = Node \ {n} /\ next' = next
  /\ \A tg \in TopoGeom : n \notin Ids(relation, tg, 1)
  /\ Brings(Node \ {n}, Same, SameDarts)

\* The dart that a new edge in region f is drawn beside.
Beside(f) == IF \E d \in DOMAIN region : region[d] = f
             THEN CHOOSE d \in DOMAIN region : region[d] = f ELSE 0

DrawsIn(e, f) ==
  /\ e = last.edge + 1 /\ Node' = Node /\ DOMAIN next' = DOMAIN next \cup {e, -e}
  /\ Brings(Node, [i \in Edge \cup {e} |-> IF i = e THEN 0 ELSE i],
            [d \in DOMAIN next \cup {e, -e} |-> IF d \in {e, -e} THEN Beside(f) ELSE d])

TakesOut(e) ==
  /\ e \in Edge /\ Node' = Node /\ DOMAIN next' = DOMAIN next \ {e, -e}
  /\ \A tg \in TopoGeom : /\ e \notin Ids(relation, tg, 2)
                          /\ region[e] \in Ids(relation, tg, 3) <=> region[-e] \in Ids(relation, tg, 3)
  /\ Brings(Node, [i \in Edge \ {e} |-> i], [d \in DOMAIN next \ {e, -e} |-> d])

\* A new edge takes nothing from an object whose area it is drawn in, and gives nothing to
\* another: a face that an object has shows on some dart.
LEMMA BesideShows ==
  ASSUME Carrying, NEW f, NEW tg
  PROVE  Beside(f) \in DOMAIN region /\ region[Beside(f)] \in Ids(relation, tg, 3)
           <=> f \in Ids(relation, tg, 3)
<1>1. CASE \E d \in DOMAIN region : region[d] = f
  BY <1>1 DEF Beside
<1>2. CASE ~\E d \in DOMAIN region : region[d] = f
  <2>1. Beside(f) \notin DOMAIN region
    BY <1>2, CarryFacts DEF Beside
  <2>2. f \notin face
    <3>1. \A x \in face : HasShell(DOMAIN cw, hole, region, x)
      BY DEF Carrying, FacesInv, PlaneInv, RegionsAreFaces
    <3>2. DOMAIN cw = DOMAIN region
      BY PlaneTypes DEF Carrying
    <3> QED BY <1>2, <3>1, <3>2 DEF HasShell
  <2>3. Ids(relation, tg, 3) \subseteq face
    BY CarryFacts
  <2> QED BY <2>1, <2>2, <2>3
<1> QED BY <1>1, <1>2

\* An edge is added: the rows of faces follow the regions it parts.
LEMMA DrawingCarries ==
  ASSUME Carrying, NEW f, NEW e, e = last.edge + 1, ExtendWith(e, f),
         Node' = Node, DOMAIN next' = DOMAIN next \cup {e, -e},
         \A tg : /\ Ids(relation', tg, 1) = Ids(relation, tg, 1)
                 /\ Ids(relation', tg, 2) = Ids(relation, tg, 2)
                 /\ \A d \in DOMAIN next :
                      side'[d] \in Ids(relation', tg, 3) <=> side[d] \in Ids(relation, tg, 3)
                 /\ \A d \in {e, -e} :
                      side'[d] \in Ids(relation', tg, 3) <=> f \in Ids(relation, tg, 3)
  PROVE  DrawsIn(e, f)
<1> DEFINE lineWas == [i \in Edge \cup {e} |-> IF i = e THEN 0 ELSE i]
           dartWas == [d \in DOMAIN next \cup {e, -e} |-> IF d \in {e, -e} THEN Beside(f) ELSE d]
<1>1. Inherit(Node, lineWas, dartWas)
  BY DEF ExtendWith, Beside
<1>2. /\ \A tg : Ids(relation, tg, 1) \subseteq Node /\ Ids(relation, tg, 2) \subseteq Edge
      /\ side = region /\ side' = region' /\ DOMAIN region = DOMAIN next
      /\ e \notin Edge /\ 0 \notin Edge /\ e \notin DOMAIN next /\ -e \notin DOMAIN next
  <2>1. \A x \in Edge : x # e /\ x # 0 /\ -x # e /\ x # -e /\ -x # -e
    <3>1. PICK n : n = last.edge
      OBVIOUS
    <3>2. Edge \subseteq 1..n /\ n \in Nat /\ e = n + 1
      BY <3>1, CarryFacts
    <3> QED BY <3>2
  <2>2. DOMAIN next = Darts(Edge)
    BY CarryFacts
  <2>3. e \notin DOMAIN next /\ -e \notin DOMAIN next
    BY <2>1, <2>2 DEF Darts
  <2> QED BY <2>1, <2>3, CarryFacts
<1>3. DOMAIN region' = DOMAIN next \cup {e, -e}
  <2>1. (FacesInv => DOMAIN next = DOMAIN cw /\ DOMAIN region = DOMAIN cw)'
    BY PlaneTypes, PTL
  <2> QED BY <2>1 DEF Carrying
<1>4. ASSUME NEW tg, NEW x
      PROVE  x \in Ids(relation', tg, 2) <=> x \in DOMAIN lineWas /\ lineWas[x] \in Ids(relation, tg, 2)
  <2>1. Ids(relation', tg, 2) = Ids(relation, tg, 2) /\ Ids(relation, tg, 2) \subseteq Edge
    BY <1>2
  <2> QED BY <1>2, <2>1
<1>5. ASSUME NEW tg, NEW d \in DOMAIN dartWas
      PROVE  region'[d] \in Ids(relation', tg, 3) <=>
               dartWas[d] \in DOMAIN region /\ region[dartWas[d]] \in Ids(relation, tg, 3)
  <2>1. CASE d \in {e, -e}
    <3>1. side'[d] \in Ids(relation', tg, 3) <=> f \in Ids(relation, tg, 3)
      BY <2>1
    <3>2. dartWas[d] = Beside(f)
      BY <2>1
    <3> QED BY <1>2, <3>1, <3>2, BesideShows
  <2>2. CASE d \in DOMAIN next
    <3>1. side'[d] \in Ids(relation', tg, 3) <=> side[d] \in Ids(relation, tg, 3)
      BY <2>2
    <3>2. dartWas[d] = d
      BY <1>2, <2>2
    <3> QED BY <1>2, <2>2, <3>1, <3>2
  <2> QED BY <2>1, <2>2
<1>6. \A tg \in TopoGeom : Ids(relation', tg, 1) = Ids(relation, tg, 1) \cap Node
  BY <1>2
<1>7. DOMAIN dartWas = DOMAIN next \cup {e, -e}
  OBVIOUS
<1> HIDE DEF lineWas, dartWas
<1>8. CarriedOver(Node, lineWas, dartWas)
  <2>1. DOMAIN region' = DOMAIN dartWas
    BY <1>3, <1>7
  <2> QED BY <1>4, <1>5, <1>6, <2>1, CarriedIds
<1> QED BY <1>1, <1>8 DEF DrawsIn, Brings, lineWas, dartWas

\* An edge is taken away that no object runs along.
LEMMA ErasingCarries ==
  ASSUME Carrying, NEW e \in Edge, Node' = Node, DOMAIN next' = DOMAIN next \ {e, -e},
         Inherit(Node, [i \in Edge \ {e} |-> i], [d \in DOMAIN next \ {e, -e} |-> d]),
         \A tg : /\ Ids(relation', tg, 1) = Ids(relation, tg, 1)
                 /\ Ids(relation', tg, 2) = Ids(relation, tg, 2)
                 /\ e \notin Ids(relation, tg, 2)
                 /\ side[e] \in Ids(relation, tg, 3) <=> side[-e] \in Ids(relation, tg, 3)
                 /\ \A d \in DOMAIN next' :
                      side'[d] \in Ids(relation', tg, 3) <=> side[d] \in Ids(relation, tg, 3)
  PROVE  TakesOut(e)
<1> DEFINE lineWas == [i \in Edge \ {e} |-> i]
           dartWas == [d \in DOMAIN next \ {e, -e} |-> d]
<1>2. /\ \A tg : Ids(relation, tg, 1) \subseteq Node /\ Ids(relation, tg, 2) \subseteq Edge
      /\ side = region /\ side' = region' /\ DOMAIN region = DOMAIN next
  BY CarryFacts
<1>3. DOMAIN region' = DOMAIN dartWas
  <2>1. (FacesInv => DOMAIN next = DOMAIN cw /\ DOMAIN region = DOMAIN cw)'
    BY PlaneTypes, PTL
  <2> QED BY <2>1 DEF Carrying
<1>4. ASSUME NEW tg, NEW x
      PROVE  x \in Ids(relation', tg, 2) <=> x \in DOMAIN lineWas /\ lineWas[x] \in Ids(relation, tg, 2)
  <2>1. /\ Ids(relation', tg, 2) = Ids(relation, tg, 2) /\ Ids(relation, tg, 2) \subseteq Edge
        /\ e \notin Ids(relation, tg, 2)
    BY <1>2
  <2> QED BY <2>1
<1>5. ASSUME NEW tg, NEW d \in DOMAIN dartWas
      PROVE  region'[d] \in Ids(relation', tg, 3) <=>
               dartWas[d] \in DOMAIN region /\ region[dartWas[d]] \in Ids(relation, tg, 3)
  <2>1. side'[d] \in Ids(relation', tg, 3) <=> side[d] \in Ids(relation, tg, 3)
    OBVIOUS
  <2> QED BY <1>2, <2>1
<1>6. \A tg \in TopoGeom : Ids(relation', tg, 1) = Ids(relation, tg, 1) \cap Node
  BY <1>2
<1> HIDE DEF lineWas, dartWas
<1>7. CarriedOver(Node, lineWas, dartWas)
  BY <1>3, <1>4, <1>5, <1>6, CarriedIds
<1> QED BY <1>2, <1>7 DEF TakesOut, Brings, lineWas, dartWas

\* A node that the check lets go is no element.
LEMMA NoPointRows ==
  ASSUME Carrying, NEW n \in Node, checkTopoGeomRemIsoNode(n), NEW tg
  PROVE  n \notin Ids(relation, tg, 1)
<1> SUFFICES ASSUME n \in Ids(relation, tg, 1) PROVE FALSE
  OBVIOUS
<1>1. PICK r \in relation : r.tg = tg /\ r.type = 1 /\ n = Abs(r.id)
  BY DEF Ids
<1>2. r.tg \in OfType(1) /\ r.id \in Node
  BY <1>1 DEF Carrying, RowsName, Names
<1>3. \A x \in Node : Abs(x) = x
  <2>1. Node \subseteq Nat
    BY PlaneTypes DEF Carrying
  <2> QED BY <2>1 DEF Abs
<1> QED BY <1>1, <1>2, <1>3 DEF checkTopoGeomRemIsoNode

\* No object has the node that lwt_RemoveIsoNode takes away.
LEMMA RemoveIsoNodeCarries ==
  ASSUME Carrying, RemoveIsoNode
  PROVE  \E n : Unmarks(n)
<1>1. PICK n \in Node : /\ checkTopoGeomRemIsoNode(n)
                        /\ containing' = [m \in Node \ {n} |-> containing[m]]
                        /\ ErasePoint(n)
                        /\ Inherit(Node \ {n}, Same, SameDarts)
                        /\ UNCHANGED <<relation, next, side>>
  BY DEF RemoveIsoNode
<1>2. Node' = Node \ {n} /\ relation' = relation /\ next' = next /\ region' = region
  BY <1>1 DEF Node, ErasePoint
<1>3. /\ \A tg : Ids(relation, tg, 1) \subseteq Node /\ Ids(relation, tg, 2) \subseteq Edge
      /\ DOMAIN region = DOMAIN next
  BY CarryFacts
<1>4. ASSUME NEW tg PROVE n \notin Ids(relation, tg, 1)
  BY <1>1, NoPointRows
<1>5. /\ \A x \in Edge : x \in DOMAIN Same /\ Same[x] = x
      /\ DOMAIN Same = Edge /\ DOMAIN SameDarts = DOMAIN next
      /\ \A d \in DOMAIN next : SameDarts[d] = d
  BY DEF Same, SameDarts
<1>6. ASSUME NEW tg, NEW x
      PROVE  x \in Ids(relation', tg, 2) <=> x \in DOMAIN Same /\ Same[x] \in Ids(relation, tg, 2)
  <2>1. Ids(relation, tg, 2) \subseteq Edge
    BY <1>3
  <2> QED BY <1>2, <1>5, <2>1
<1>7. ASSUME NEW tg PROVE Ids(relation', tg, 1) = Ids(relation, tg, 1) \cap (Node \ {n})
  BY <1>2, <1>3, <1>4
<1>8. CarriedOver(Node \ {n}, Same, SameDarts)
  BY <1>2, <1>3, <1>5, <1>6, <1>7, CarriedIds
<1>9. Unmarks(n)
  BY <1>1, <1>2, <1>4, <1>8 DEF Unmarks, Brings
<1> QED BY <1>9

\* An isolated edge is drawn in one face.
LEMMA AddIsoEdgeCarries ==
  ASSUME Carrying, AddIsoEdge
  PROVE  \E e, f : DrawsIn(e, f)
<1> DEFINE e == last.edge + 1
<1>1. PICK s \in Node : \E t \in Node :
        /\ containing[s] # None /\ containing[s] = containing[t]
        /\ DOMAIN next' = DOMAIN next \cup {e, -e}
        /\ side' = [d \in DOMAIN side \cup {e, -e} |->
                      IF d \in {e, -e} THEN containing[s] ELSE side[d]]
        /\ DOMAIN containing' = Node
        /\ ExtendWith(e, isoRegion[s])
        /\ relation' = relation
  BY DEF AddIsoEdge, Node
<1>2. containing[s] = isoRegion[s]
  <2>1. \A n \in Node : containing[n] = IF n \in DOMAIN isoRegion THEN isoRegion[n] ELSE None
    BY PlaneTypes DEF Carrying
  <2> QED BY <1>1, <2>1
<1>3. DOMAIN side = DOMAIN next /\ e \notin DOMAIN next /\ -e \notin DOMAIN next
  <2>1. side = region /\ DOMAIN region = DOMAIN next
    BY CarryFacts
  <2>2. TypeOK
    BY DEF Carrying, FacesInv, IInv
  <2>3. e \in Nat /\ e > last.edge
    <3>1. last.edge \in Nat
      BY CarryFacts
    <3> QED BY <3>1
  <2> QED BY <2>1, <2>2, <2>3, FreshDarts
<1> HIDE DEF e
<1>4. Node' = Node
  BY <1>1 DEF Node
<1>5. ASSUME NEW tg
      PROVE  /\ Ids(relation', tg, 1) = Ids(relation, tg, 1)
             /\ Ids(relation', tg, 2) = Ids(relation, tg, 2)
             /\ \A d \in DOMAIN next :
                  side'[d] \in Ids(relation', tg, 3) <=> side[d] \in Ids(relation, tg, 3)
             /\ \A d \in {e, -e} :
                  side'[d] \in Ids(relation', tg, 3) <=> isoRegion[s] \in Ids(relation, tg, 3)
  BY <1>1, <1>2, <1>3
<1>6. DrawsIn(e, isoRegion[s])
  BY <1>1, <1>4, <1>5, DrawingCarries DEF e
<1> QED BY <1>6

\* No object runs along the edge that lwt_RemIsoEdge takes away, but for the backward rows it lets
\* through.
LEMMA RemIsoEdgeCarries ==
  ASSUME Carrying, RemIsoEdge, BackwardRowsGuarded
  PROVE  \E e : TakesOut(e)
<1>1. PICK e \in Edge :
        /\ side[e] = side[-e]
        /\ DOMAIN next' = DOMAIN next \ {e, -e}
        /\ side' = [d \in DOMAIN side \ {e, -e} |-> side[d]]
        /\ DOMAIN containing' = Node
        /\ Inherit(Node, [i \in Edge \ {e} |-> i], [d \in DOMAIN next \ {e, -e} |-> d])
        /\ relation' = relation
  BY DEF RemIsoEdge, Node
<1>2. Node' = Node
  BY <1>1 DEF Node
<1>3. DOMAIN side = DOMAIN next
  <2>1. side = region /\ DOMAIN region = DOMAIN next
    BY CarryFacts
  <2> QED BY <2>1
<1>4. e \notin Edge'
  <2>1. TypeOK'
    BY DEF Carrying, FacesInv, IInv
  <2>2. DOMAIN next' = Darts(Edge')
    BY <2>1 DEF TypeOK
  <2>3. Edge' \subseteq DOMAIN next'
    BY <2>2 DEF Darts
  <2> QED BY <1>1, <2>3
<1>5. ASSUME NEW tg PROVE e \notin Ids(relation, tg, 2)
  <2>1. \A r \in relation : r.type = 2 => Abs(r.id) \in Edge'
    BY DEF BackwardRowsGuarded
  <2> QED BY <1>4, <2>1 DEF Ids
<1>6. \A d \in DOMAIN next' : side'[d] = side[d]
  BY <1>1, <1>3
<1>7. TakesOut(e)
  BY <1>1, <1>2, <1>5, <1>6, ErasingCarries
<1> QED BY <1>7

\* Edge e is cut at node n into i and j, for the objects too.
CutLines(e, i, j) == [k \in (Edge \ {e}) \cup {i, j} |-> IF k \in {i, j} THEN e ELSE k]
CutWas(e, i, j) == [d \in (DOMAIN next \ {e, -e}) \cup {i, -i, j, -j} |-> WasCut(e, i, j, d)]
CutsAt(e, i, j, n) ==
  /\ e \in Edge /\ i \in Nat \ {0} /\ j \in Nat \ {0} /\ i # j /\ {i, j} \cap (Edge \ {e}) = {}
  /\ n \notin Node /\ Node' = Node \cup {n}
  /\ DOMAIN next' = (DOMAIN next \ {e, -e}) \cup {i, -i, j, -j}
  /\ Brings(Node, CutLines(e, i, j), CutWas(e, i, j))

\* A split gives both parts what the edge had: the rows, and the faces of its sides.
LEMMA CuttingCarries ==
  ASSUME Carrying, NEW e \in Edge, NEW i \in Nat \ {0}, NEW j \in Nat \ {0}, NEW n, n \notin Node,
         i # j, i = e \/ i > last.edge, j > last.edge, Node' = Node \cup {n},
         DOMAIN next' = (DOMAIN next \ {e, -e}) \cup {i, -i, j, -j},
         side' = [d \in (DOMAIN next \ {e, -e}) \cup {i, -i, j, -j} |-> side[WasCut(e, i, j, d)]],
         Inherit(Node, CutLines(e, i, j), CutWas(e, i, j)),
         \A tg, y : /\ y \in Ids(relation', tg, 1) <=> y \in Ids(relation, tg, 1)
                    /\ y \in Ids(relation', tg, 2) <=>
                         \/ y \in Ids(relation, tg, 2) /\ y # e
                         \/ e \in Ids(relation, tg, 2) /\ y \in {i, j}
                    /\ y \in Ids(relation', tg, 3) <=> y \in Ids(relation, tg, 3)
  PROVE  CutsAt(e, i, j, n)
<1> DEFINE D == (DOMAIN next \ {e, -e}) \cup {i, -i, j, -j}
           lineWas == CutLines(e, i, j)
           dartWas == CutWas(e, i, j)
<1>1. /\ \A tg : Ids(relation, tg, 1) \subseteq Node /\ Ids(relation, tg, 2) \subseteq Edge
      /\ side = region /\ side' = region' /\ DOMAIN region = DOMAIN next
      /\ e \in DOMAIN next /\ -e \in DOMAIN next
  <2>1. e \in DOMAIN next /\ -e \in DOMAIN next
    <3>1. DOMAIN next = Darts(Edge)
      BY CarryFacts
    <3> QED BY <3>1 DEF Darts
  <2> QED BY <2>1, CarryFacts
<1>2. {i, j} \cap (Edge \ {e}) = {}
  <2>1. PICK m : m = last.edge
    OBVIOUS
  <2>2. Edge \subseteq 1..m /\ m \in Nat
    BY <2>1, CarryFacts
  <2> QED BY <2>1, <2>2
<1>3. DOMAIN region' = D
  <2>1. (FacesInv => DOMAIN next = DOMAIN cw /\ DOMAIN region = DOMAIN cw)'
    BY PlaneTypes, PTL
  <2> QED BY <2>1 DEF Carrying
<1>4. /\ DOMAIN lineWas = (Edge \ {e}) \cup {i, j}
      /\ \A k \in (Edge \ {e}) \cup {i, j} : lineWas[k] = IF k \in {i, j} THEN e ELSE k
      /\ DOMAIN dartWas = D /\ \A d \in D : dartWas[d] = WasCut(e, i, j, d)
  BY DEF CutLines, CutWas
<1> HIDE DEF D, lineWas, dartWas
<1>5. ASSUME NEW tg, NEW x
      PROVE  x \in Ids(relation', tg, 2) <=> x \in DOMAIN lineWas /\ lineWas[x] \in Ids(relation, tg, 2)
  <2>1. Ids(relation, tg, 2) \subseteq Edge
    BY <1>1
  <2>2. x \in Ids(relation', tg, 2) <=> \/ x \in Ids(relation, tg, 2) /\ x # e
                                        \/ e \in Ids(relation, tg, 2) /\ x \in {i, j}
    OBVIOUS
  <2> QED BY <1>2, <1>4, <2>1, <2>2
<1>6. ASSUME NEW tg, NEW d \in DOMAIN dartWas
      PROVE  region'[d] \in Ids(relation', tg, 3) <=>
               dartWas[d] \in DOMAIN region /\ region[dartWas[d]] \in Ids(relation, tg, 3)
  <2>1. region'[d] = region[WasCut(e, i, j, d)]
    BY <1>1, <1>4 DEF D
  <2>2. WasCut(e, i, j, d) \in DOMAIN next
    BY <1>1, <1>4 DEF WasCut, D
  <2> QED BY <1>1, <1>4, <2>1, <2>2
<1>7. ASSUME NEW tg PROVE Ids(relation', tg, 1) = Ids(relation, tg, 1) \cap Node
  BY <1>1
<1>8. CarriedOver(Node, lineWas, dartWas)
  BY <1>3, <1>4, <1>5, <1>6, <1>7, CarriedIds
<1> QED BY <1>2, <1>8 DEF CutsAt, Brings, lineWas, dartWas

\* lwt_ModEdgeSplit puts a row of the new edge beside each of the old one.
LEMMA ModEdgeSplitCarries ==
  ASSUME Carrying, ModEdgeSplit
  PROVE  \E e, i, j, n : CutsAt(e, i, j, n)
<1> DEFINE n == last.node + 1
           j == last.edge + 1
           D == DOMAIN next \cup {j, -j}
<1>1. PICK e \in Edge :
        /\ DOMAIN containing' = Node \cup {n} /\ DOMAIN next' = D
        /\ side' = [d \in D |-> IF d = j THEN side[e] ELSE IF d = -j THEN side[-e] ELSE side[d]]
        /\ relation' = updateTopoGeomEdgeSplit(e, j, -1)
        /\ Inherit(Node, [i \in Edge \cup {j} |-> IF i = j THEN e ELSE i],
                   [d \in D |-> IF d = j THEN e ELSE IF d = -j THEN -e ELSE d])
  BY DEF ModEdgeSplit, Node
<1>2. /\ relation \subseteq Row /\ last.edge \in Nat /\ e \in 1..last.edge
      /\ DOMAIN next = Darts(Edge)
  BY CarryFacts
<1>3. /\ e \in Nat \ {0} /\ j \in Nat \ {0} /\ e # j /\ j > last.edge /\ -(-e) = e /\ e # -e /\ j # -j
      /\ e # -j /\ e \in DOMAIN next /\ -e \in DOMAIN next
  BY <1>2 DEF Darts
<1>4. n \notin Node
  <2>1. Node \subseteq 1..last.node /\ last.node \in Nat
    BY PlaneTypes DEF Carrying
  <2> QED BY <2>1
<1> HIDE DEF n, j
<1>5. Node' = Node \cup {n}
  BY <1>1 DEF Node
<1>6. D = (DOMAIN next \ {e, -e}) \cup {e, -e, j, -j}
  BY <1>3
<1> HIDE DEF D
<1>7. \A d \in D : (IF d = j THEN e ELSE IF d = -j THEN -e ELSE d) = WasCut(e, e, j, d)
  BY <1>3 DEF WasCut
<1>8. side' = [d \in D |-> side[WasCut(e, e, j, d)]]
  <2>1. \A d \in D : (IF d = j THEN side[e] ELSE IF d = -j THEN side[-e] ELSE side[d])
                      = side[WasCut(e, e, j, d)]
    BY <1>7
  <2> QED BY <1>1, <2>1
<1>9. Inherit(Node, CutLines(e, e, j), CutWas(e, e, j))
  <2> DEFINE lineWas == [i \in Edge \cup {j} |-> IF i = j THEN e ELSE i]
             dartWas == [d \in D |-> IF d = j THEN e ELSE IF d = -j THEN -e ELSE d]
  <2>1. lineWas = CutLines(e, e, j)
    BY DEF CutLines
  <2>2. dartWas = CutWas(e, e, j)
    BY <1>6, <1>7 DEF CutWas
  <2>3. Inherit(Node, lineWas, dartWas)
    BY <1>1
  <2> HIDE DEF lineWas, dartWas
  <2> QED BY <2>1, <2>2, <2>3
<1>10. relation' = relation \cup Put(RowsWith(2, {e}), j)
  <2>1. RowsOfEdge(e) = RowsWith(2, {e})
    BY RowsOfOne
  <2> QED BY <1>1, <2>1 DEF updateTopoGeomEdgeSplit
<1>11. ASSUME NEW tg, NEW ty, NEW y
       PROVE  y \in Ids(relation', tg, ty) <=>
                y \in Ids(relation, tg, ty) \/ (ty = 2 /\ e \in Ids(relation, tg, ty) /\ y = j)
  BY <1>2, <1>3, <1>10, IdsSplit
<1>12. CutsAt(e, e, j, n)
  <2>1. \A tg, y : /\ y \in Ids(relation', tg, 1) <=> y \in Ids(relation, tg, 1)
                   /\ y \in Ids(relation', tg, 2) <=>
                         \/ y \in Ids(relation, tg, 2) /\ y # e
                         \/ e \in Ids(relation, tg, 2) /\ y \in {e, j}
                   /\ y \in Ids(relation', tg, 3) <=> y \in Ids(relation, tg, 3)
    BY <1>11
  <2>2. /\ DOMAIN next' = (DOMAIN next \ {e, -e}) \cup {e, -e, j, -j}
        /\ side' = [d \in (DOMAIN next \ {e, -e}) \cup {e, -e, j, -j} |-> side[WasCut(e, e, j, d)]]
    BY <1>1, <1>6, <1>8
  <2> QED BY <1>3, <1>4, <1>5, <1>9, <2>1, <2>2, CuttingCarries
<1> QED BY <1>12

\* lwt_NewEdgesSplit only splits an edge that has no rows.
LEMMA NewEdgesSplitCarries ==
  ASSUME Carrying, NewEdgesSplit
  PROVE  \E e, i, j, n : CutsAt(e, i, j, n)
<1> DEFINE n == last.node + 1
           i == last.edge + 1
           j == last.edge + 2
           D(e) == (DOMAIN next \ {e, -e}) \cup {i, -i, j, -j}
<1>1. PICK e \in Edge :
        /\ DOMAIN containing' = Node \cup {n} /\ DOMAIN next' = D(e)
        /\ side' = [d \in D(e) |-> side[IF d \in {i, j} THEN e ELSE IF d \in {-i, -j} THEN -e ELSE d]]
        /\ updateTopoGeomEdgeSplitExecutes(e, i, j)
        /\ relation' = updateTopoGeomEdgeSplit(e, i, j)
        /\ Inherit(Node, [k \in (Edge \ {e}) \cup {i, j} |-> IF k \in {i, j} THEN e ELSE k],
                   [d \in D(e) |-> IF d \in {i, j} THEN e ELSE IF d \in {-i, -j} THEN -e ELSE d])
  BY DEF NewEdgesSplit, Node
<1>2. last.edge \in Nat /\ relation \subseteq Row
  BY CarryFacts
<1>3. /\ i \in Nat \ {0} /\ j \in Nat \ {0} /\ i # j /\ i > last.edge /\ j > last.edge /\ j # -1
  BY <1>2
<1>4. n \notin Node
  <2>1. Node \subseteq 1..last.node /\ last.node \in Nat
    BY PlaneTypes DEF Carrying
  <2> QED BY <2>1
<1> HIDE DEF n, i, j
<1>5. Node' = Node \cup {n}
  BY <1>1 DEF Node
<1>6. RowsOfEdge(e) = {}
  BY <1>1, <1>3 DEF updateTopoGeomEdgeSplitExecutes
<1>7. relation' = relation
  <2>1. Put({}, i) = {} /\ Put({}, j) = {}
    BY DEF Put
  <2> QED BY <1>1, <1>3, <1>6, <2>1 DEF updateTopoGeomEdgeSplit
<1>8. /\ side' = [d \in D(e) |-> side[WasCut(e, i, j, d)]]
      /\ Inherit(Node, CutLines(e, i, j), CutWas(e, i, j))
  BY <1>1 DEF WasCut, CutLines, CutWas
<1>9. ASSUME NEW tg PROVE e \notin Ids(relation, tg, 2)
  BY <1>6 DEF Ids, RowsOfEdge
<1>10. ASSUME NEW tg PROVE i \notin Ids(relation, tg, 2) /\ j \notin Ids(relation, tg, 2)
  <2>1. Ids(relation, tg, 2) \subseteq Edge /\ Edge \subseteq 1..last.edge
    BY CarryFacts
  <2> QED BY <1>2, <1>3, <2>1
<1>11. CutsAt(e, i, j, n)
  <2>1. \A tg, y : /\ y \in Ids(relation', tg, 1) <=> y \in Ids(relation, tg, 1)
                   /\ y \in Ids(relation', tg, 2) <=>
                         \/ y \in Ids(relation, tg, 2) /\ y # e
                         \/ e \in Ids(relation, tg, 2) /\ y \in {i, j}
                   /\ y \in Ids(relation', tg, 3) <=> y \in Ids(relation, tg, 3)
    BY <1>7, <1>9, <1>10
  <2> QED BY <1>1, <1>3, <1>4, <1>5, <1>8, <2>1, CuttingCarries
<1> QED BY <1>11

\* The edges e1 and e2, walked as darts a and b, become m, walked as M, for the objects too.
JoinsUp(e1, e2, m, a, b, M, n) ==
  /\ e1 \in Edge /\ e2 \in Edge /\ m \in Nat \ {0} /\ Joins(a, b, M)
  /\ {a, -a} = {e1, -e1} /\ {b, -b} = {e2, -e2} /\ {M, -M} = {m, -m}
  /\ m = e1 \/ m \notin Edge
  /\ n \in Node /\ Node' = Node \ {n} /\ DOMAIN next' = JoinDarts(a, b, M)
  /\ region[a] = region[b] /\ region[-a] = region[-b]
  /\ \A tg \in TopoGeom : /\ n \notin Ids(relation, tg, 1)
                          /\ e1 \in Ids(relation, tg, 2) <=> e2 \in Ids(relation, tg, 2)
  /\ Brings(Node \ {n}, [k \in (Edge \ {e1, e2}) \cup {m} |-> IF k = m THEN e1 ELSE k],
            [d \in JoinDarts(a, b, M) |-> IF d = M THEN a ELSE IF d = -M THEN -a ELSE d])

\* Two edges that may be healed are elements of the same objects.
LEMMA BothOrNone ==
  ASSUME Carrying, NEW n, NEW e1, NEW e2, checkTopoGeomRemNode(n, e1, e2), NEW tg \in TopoGeom
  PROVE  e1 \in Ids(relation, tg, 2) <=> e2 \in Ids(relation, tg, 2)
<1>1. Elements(tg, 2) = Ids(relation, tg, 2)
  BY DEF Elements, Ids
<1>2. CASE tg \in OfType(2)
  BY <1>1, <1>2 DEF checkTopoGeomRemNode
<1>3. CASE tg \notin OfType(2)
  BY <1>3, CarryFacts
<1> QED BY <1>2, <1>3

\* The rows once e1 and e2 are m.
LEMMA HealedRows ==
  ASSUME Carrying, NEW e1 \in Edge, NEW e2 \in Edge, e1 # e2, NEW m \in Nat,
         m = e1 \/ m \notin Edge, relation' = updateTopoGeomEdgeHeal(e1, e2, m),
         NEW tg, NEW ty, NEW y
  PROVE  y \in Ids(relation', tg, ty) <=>
           \/ y \in Ids(relation, tg, ty) /\ ~(ty = 2 /\ y \in {e1, e2})
           \/ ty = 2 /\ e1 \in Ids(relation, tg, ty) /\ y = m
<1>1. relation \subseteq Row
  BY CarryFacts
<1>2. RowsOfEdge(e1) = RowsWith(2, {e1}) /\ RowsOfEdge(e2) = RowsWith(2, {e2})
  BY RowsOfOne
<1>3. CASE m = e1
  <2>1. relation' = relation \ UNION {RowsOfEdge(e) : e \in {e1, e2} \ {e1}}
    BY <1>3 DEF updateTopoGeomEdgeHeal
  <2>2. relation' = relation \ RowsWith(2, {e2})
    BY <1>2, <2>1
  <2>3. y \in Ids(relation', tg, ty) <=> y \in Ids(relation, tg, ty) /\ ~(ty = 2 /\ y \in {e2})
    BY <2>2, IdsLeft
  <2> QED BY <1>3, <2>3
<1>4. CASE m \notin Edge
  <2>1. relation' = (relation \ (RowsOfEdge(e1) \cup RowsOfEdge(e2))) \cup Put(RowsOfEdge(e1), m)
    BY <1>4 DEF updateTopoGeomEdgeHeal
  <2>2. RowsWith(2, {e1}) \cup RowsWith(2, {e2}) = RowsWith(2, {e1, e2})
    BY DEF RowsWith
  <2>3. relation' = (relation \ RowsWith(2, {e1, e2})) \cup Put(RowsWith(2, {e1}), m)
    BY <1>2, <2>1, <2>2
  <2> QED BY <1>1, <2>3, IdsHealed
<1> QED BY <1>3, <1>4

\* _lwt_HealEdges: the new edge has the rows of both.
LEMMA HealsCarry ==
  ASSUME Carrying, NEW modEdge \in BOOLEAN, HealEdges(modEdge)
  PROVE  \E e1, e2, m, a, b, M, n : JoinsUp(e1, e2, m, a, b, M, n)
<1>1. PICK e1 \in Edge, e2 \in Edge, n \in Node : \E a, b, M :
        HealsInto(e1, e2, IF modEdge THEN e1 ELSE last.edge + 1, a, b, M, n)
  BY HealEdgesJoins DEF Carrying, FacesInv
<1> DEFINE m == IF modEdge THEN e1 ELSE last.edge + 1
<1>2. PICK a, b, M : HealsInto(e1, e2, m, a, b, M, n)
  BY <1>1
<1>3. /\ Edge \subseteq 1..last.edge /\ last.edge \in Nat /\ DOMAIN region = DOMAIN next
      /\ side = region /\ side' = region'
      /\ \A tg : Ids(relation, tg, 1) \subseteq Node /\ Ids(relation, tg, 2) \subseteq Edge
  BY CarryFacts
<1>4. m \in Nat \ {0} /\ (m = e1 \/ m \notin Edge)
  <2>1. PICK k : k = last.edge
    OBVIOUS
  <2>2. Edge \subseteq 1..k /\ k \in Nat
    BY <1>3, <2>1
  <2> QED BY <2>1, <2>2
<1> HIDE DEF m
<1>5. /\ JoinsEdges(a, b, M)
      /\ {a, -a} = {e1, -e1} /\ {b, -b} = {e2, -e2} /\ {M, -M} = {m, -m}
      /\ side' = [d \in JoinDarts(a, b, M) |-> IF d = M THEN side[a]
                                               ELSE IF d = -M THEN side[-a] ELSE side[d]]
      /\ containing' = [k \in Node \ {n} |-> containing[k]]
      /\ checkTopoGeomRemNode(n, e1, e2)
      /\ relation' = updateTopoGeomEdgeHeal(e1, e2, m)
      /\ Inherit(Node \ {n}, [k \in (Edge \ {e1, e2}) \cup {m} |-> IF k = m THEN e1 ELSE k],
                 [d \in JoinDarts(a, b, M) |-> IF d = M THEN a ELSE IF d = -M THEN -a ELSE d])
  BY <1>2 DEF HealsInto
<1>6. /\ Joins(a, b, M) /\ cw' = JoinRot(a, b, M)
      /\ org[-a] = org[b] /\ \A d \in DOMAIN cw : org[d] \in {org[-a], org[b]} <=> d \in {-a, b}
  BY <1>5 DEF JoinsEdges
<1>7. /\ Rotates(cw, DOMAIN cw) /\ OneTurn(cw, org) /\ \A d \in DOMAIN cw : org[cw[d]] = org[d]
      /\ OneRegion(cw, DOMAIN cw, region)
  BY DrawingRotates DEF Carrying, FacesInv, TurnsInv, PlaneInv, Planar
<1>8. cw[-a] = b /\ cw[b] = -a
  BY <1>6, <1>7, JoinTurn
<1>9. region[a] = region[b] /\ region[-a] = region[-b]
  <2>1. a \in DOMAIN cw /\ -b \in DOMAIN cw /\ -(-b) = b
    BY <1>6 DEF Joins
  <2> QED BY <1>7, <1>8, <2>1 DEF OneRegion
<1>10. e1 # e2
  BY <1>5, <1>6 DEF Joins
<1>11. Node' = Node \ {n}
  BY <1>5 DEF Node
<1>12. DOMAIN next' = JoinDarts(a, b, M) /\ DOMAIN region' = JoinDarts(a, b, M)
  <2>1. (FacesInv => DOMAIN next = DOMAIN cw /\ DOMAIN region = DOMAIN cw)'
    BY PlaneTypes, PTL
  <2> QED BY <1>6, <2>1 DEF Carrying, JoinRot
<1>13. ASSUME NEW tg PROVE n \notin Ids(relation, tg, 1)
  BY <1>5, NoPointRows DEF checkTopoGeomRemNode
<1> DEFINE lineWas == [k \in (Edge \ {e1, e2}) \cup {m} |-> IF k = m THEN e1 ELSE k]
           dartWas == [d \in JoinDarts(a, b, M) |-> IF d = M THEN a ELSE IF d = -M THEN -a ELSE d]
<1>14. ASSUME NEW tg, NEW ty, NEW y
       PROVE  y \in Ids(relation', tg, ty) <=>
                \/ y \in Ids(relation, tg, ty) /\ ~(ty = 2 /\ y \in {e1, e2})
                \/ ty = 2 /\ e1 \in Ids(relation, tg, ty) /\ y = m
  BY <1>4, <1>5, <1>10, HealedRows
<1>15. ASSUME NEW tg, NEW x
       PROVE  x \in Ids(relation', tg, 2) <=> x \in DOMAIN lineWas /\ lineWas[x] \in Ids(relation, tg, 2)
  <2>1. Ids(relation, tg, 2) \subseteq Edge
    BY <1>3
  <2> QED BY <1>4, <1>14, <2>1
<1>16. ASSUME NEW tg, NEW d \in DOMAIN dartWas
       PROVE  region'[d] \in Ids(relation', tg, 3) <=>
                dartWas[d] \in DOMAIN region /\ region[dartWas[d]] \in Ids(relation, tg, 3)
  <2>1. \A y : y \in Ids(relation', tg, 3) <=> y \in Ids(relation, tg, 3)
    BY <1>14
  <2>2. region'[d] = region[dartWas[d]]
    BY <1>3, <1>5
  <2>3. dartWas[d] \in DOMAIN region
    <3>1. DOMAIN region = DOMAIN cw
      BY PlaneTypes DEF Carrying
    <3> QED BY <1>6, <3>1 DEF JoinDarts, Joins
  <2> QED BY <2>1, <2>2, <2>3
<1>17. ASSUME NEW tg PROVE Ids(relation', tg, 1) = Ids(relation, tg, 1) \cap (Node \ {n})
  <2>1. \A y : y \in Ids(relation', tg, 1) <=> y \in Ids(relation, tg, 1)
    BY <1>14
  <2> QED BY <1>3, <1>13, <2>1
<1>18. DOMAIN region' = DOMAIN dartWas
  BY <1>12
<1> HIDE DEF lineWas, dartWas
<1>19. CarriedOver(Node \ {n}, lineWas, dartWas)
  BY <1>15, <1>16, <1>17, <1>18, CarriedIds
<1>20. \A tg \in TopoGeom : e1 \in Ids(relation, tg, 2) <=> e2 \in Ids(relation, tg, 2)
  BY <1>5, BothOrNone
<1>21. Brings(Node \ {n}, lineWas, dartWas)
  BY <1>5, <1>19 DEF Brings, lineWas, dartWas
<1>22. JoinsUp(e1, e2, m, a, b, M, n)
  BY <1>4, <1>5, <1>6, <1>9, <1>11, <1>12, <1>13, <1>20, <1>21 DEF JoinsUp, lineWas, dartWas
<1> QED BY <1>22

\* What lwt_RemEdge does to the tables, but for the drawing.
RemovesEdge(e, l, r, f, gone) ==
  /\ checkTopoGeomRemEdge(e, l, r)
  /\ DOMAIN next' = DOMAIN next \ {e, -e} /\ Node' = Node
  /\ side' = [d \in DOMAIN next \ {e, -e} |-> IF side[d] \in gone THEN f ELSE side[d]]
  /\ relation' = IF l # r THEN updateTopoGeomFaceHeal(r, l, f) ELSE relation
  /\ gone = IF l # r THEN {l, r} \ {f} ELSE {}
  /\ l # r => f \in {l, r} \/ f = last.face + 1
  /\ Inherit(Node, [i \in Edge \ {e} |-> i], [d \in DOMAIN next \ {e, -e} |-> d])

\* _lwt_RemEdge takes an edge out and joins the faces at its sides.
LEMMA RemEdgeRemoves ==
  ASSUME NEW modFace \in BOOLEAN, Carrying, RemEdge(modFace)
  PROVE  \E e \in Edge : \E f, gone : RemovesEdge(e, side[e], side[-e], f, gone)
<1>1. PICK e \in Edge :
    LET left == side[e]
        right == side[-e]
        joins == left # right
        fresh == joins /\ 0 \notin {left, right} /\ ~modFace
        flood == IF joins /\ 0 \in {left, right} THEN 0
                 ELSE IF fresh THEN last.face + 1 ELSE right
        vanished == IF joins THEN {left, right} \ {flood} ELSE {}
        flooded(f) == IF f \in vanished THEN flood ELSE f
        D == DOMAIN next \ {e, -e}
    IN
    /\ checkTopoGeomRemEdge(e, left, right)
    /\ DOMAIN next' = D
    /\ side' = [d \in D |-> flooded(side[d])]
    /\ DOMAIN containing' = Node
    /\ relation' = IF joins THEN updateTopoGeomFaceHeal(right, left, flood) ELSE relation
    /\ Inherit(Node, [i \in Edge \ {e} |-> i], [d \in D |-> d])
  BY DEF RemEdge
<1> DEFINE f == Flood(e, modFace)
           gone == Vanished(e, modFace)
           joins == side[e] # side[-e]
<1>2. /\ f = IF joins /\ 0 \in {side[e], side[-e]} THEN 0
             ELSE IF joins /\ 0 \notin {side[e], side[-e]} /\ ~modFace THEN last.face + 1
             ELSE side[-e]
      /\ gone = IF joins THEN {side[e], side[-e]} \ {f} ELSE {}
  BY DEF Flood, Vanished
<1> HIDE DEF f, gone
<1>3. /\ checkTopoGeomRemEdge(e, side[e], side[-e])
      /\ DOMAIN next' = DOMAIN next \ {e, -e} /\ DOMAIN containing' = Node
      /\ side' = [d \in DOMAIN next \ {e, -e} |-> IF side[d] \in gone THEN f ELSE side[d]]
      /\ relation' = IF joins THEN updateTopoGeomFaceHeal(side[-e], side[e], f) ELSE relation
      /\ Inherit(Node, [i \in Edge \ {e} |-> i], [d \in DOMAIN next \ {e, -e} |-> d])
  BY <1>1, <1>2
<1>4. Node' = Node
  BY <1>3 DEF Node
<1>5. RemovesEdge(e, side[e], side[-e], f, gone)
  BY <1>2, <1>3, <1>4 DEF RemovesEdge
<1> QED BY <1>5

\* The rows once faces l and r are f.
LEMMA FloodedRows ==
  ASSUME Carrying, NEW l, NEW r, l # r, NEW f, f \in {l, r} \/ f \in Nat \ {l, r},
         relation' = updateTopoGeomFaceHeal(r, l, f), NEW tg, NEW ty, NEW y
  PROVE  y \in Ids(relation', tg, ty) <=>
           \/ y \in Ids(relation, tg, ty) /\ ~(ty = 3 /\ y \in {l, r} \ {f})
           \/ ty = 3 /\ f \notin {l, r} /\ l \in Ids(relation, tg, ty) /\ y = f
<1>1. relation \subseteq Row
  BY CarryFacts
<1>2. \A x : RowsOfFace(x) = RowsWith(3, {x})
  BY RowsOfOne
<1>3. CASE f \in {l, r}
  <2>1. PICK g \in {l, r} : g # f
    BY <1>3
  <2>2. {l, r} \ {f} = {g} /\ {r, l} \ {f} = {g}
    BY <1>3, <2>1
  <2>3. relation' = relation \ UNION {RowsOfFace(x) : x \in {r, l} \ {f}}
    BY <1>3 DEF updateTopoGeomFaceHeal
  <2>4. relation' = relation \ RowsWith(3, {g})
    BY <1>2, <2>2, <2>3
  <2>5. y \in Ids(relation', tg, ty) <=> y \in Ids(relation, tg, ty) /\ ~(ty = 3 /\ y \in {g})
    BY <2>4, IdsLeft
  <2> QED BY <1>3, <2>2, <2>5
<1>4. CASE f \notin {l, r}
  <2>1. relation' = (relation \ (RowsOfFace(r) \cup RowsOfFace(l))) \cup Put(RowsOfFace(l), f)
    BY <1>4 DEF updateTopoGeomFaceHeal
  <2>2. RowsWith(3, {r}) \cup RowsWith(3, {l}) = RowsWith(3, {l, r})
    BY DEF RowsWith
  <2>3. relation' = (relation \ RowsWith(3, {l, r})) \cup Put(RowsWith(3, {l}), f)
    BY <1>2, <2>1, <2>2
  <2>4. y \in Ids(relation', tg, ty) <=>
           \/ y \in Ids(relation, tg, ty) /\ ~(ty = 3 /\ y \in {l, r})
           \/ ty = 3 /\ l \in Ids(relation, tg, ty) /\ y = f
    <3>1. f \in Nat
      BY <1>4
    <3> DEFINE left == relation \ RowsWith(3, {l, r})
               added == Put(RowsWith(3, {l}), f)
    <3>2. y \in Ids(left, tg, ty) <=> y \in Ids(relation, tg, ty) /\ ~(ty = 3 /\ y \in {l, r})
      BY IdsLeft
    <3>3. y \in Ids(added, tg, ty) <=> y = f /\ ty = 3 /\ l \in Ids(relation, tg, ty)
      BY <1>1, <3>1, IdsPut
    <3>4. relation' = left \cup added
      BY <2>3
    <3> HIDE DEF left, added
    <3>5. y \in Ids(relation', tg, ty) <=> y \in Ids(left, tg, ty) \/ y \in Ids(added, tg, ty)
      BY <3>4, IdsOfUnion
    <3> QED BY <3>2, <3>3, <3>5
  <2>5. {l, r} \ {f} = {l, r}
    BY <1>4
  <2> QED BY <1>4, <2>4, <2>5
<1> QED BY <1>3, <1>4

\* An edge that may be removed runs along no object, and bounds the area of none.
LEMMA EdgeUnused ==
  ASSUME Carrying, NEW e \in Edge, NEW l, NEW r, checkTopoGeomRemEdge(e, l, r), NEW tg
  PROVE  /\ e \notin Ids(relation, tg, 2)
         /\ l \in Ids(relation, tg, 3) <=> r \in Ids(relation, tg, 3)
<1>1. e \notin Ids(relation, tg, 2)
  <2> SUFFICES ASSUME e \in Ids(relation, tg, 2) PROVE FALSE
    OBVIOUS
  <2>1. PICK o \in relation : o.tg = tg /\ o.type = 2 /\ e = Abs(o.id)
    BY DEF Ids
  <2>2. tg \in OfType(2) /\ o \in Row
    BY <2>1, CarryFacts
  <2>3. o.id \in {e, -e}
    BY <2>1, <2>2 DEF Abs, Row
  <2> QED BY <2>1, <2>2, <2>3 DEF checkTopoGeomRemEdge
<1>2. l \in Ids(relation, tg, 3) <=> r \in Ids(relation, tg, 3)
  <2>1. CASE tg \in OfType(3)
    <3>1. Elements(tg, 3) = Ids(relation, tg, 3)
      BY DEF Elements, Ids
    <3> QED BY <2>1, <3>1 DEF checkTopoGeomRemEdge
  <2>2. CASE tg \notin OfType(3)
    BY <2>2, CarryFacts
  <2> QED BY <2>1, <2>2
<1> QED BY <1>1, <1>2

\* _lwt_RemEdge: where two faces become one, the objects that had one had both, and
\* have the one that remains.
LEMMA RemEdgeCarries ==
  ASSUME NEW modFace \in BOOLEAN, Carrying, RemEdge(modFace)
  PROVE  \E e : TakesOut(e)
<1>1. PICK e \in Edge : \E f, gone : RemovesEdge(e, side[e], side[-e], f, gone)
  BY RemEdgeRemoves
<1> DEFINE l == side[e]
           r == side[-e]
<1>2. PICK f, gone : RemovesEdge(e, l, r, f, gone)
  BY <1>1
<1>3. /\ \A d \in DOMAIN next : side[d] \in face \cup {0}
      /\ face \subseteq Nat /\ last.face + 1 \in Nat /\ last.face + 1 \notin face \cup {0}
      /\ \A tg : Ids(relation, tg, 3) \subseteq face
  <2>1. face \subseteq 1..last.face /\ last.face \in Nat /\ side = region /\ DOMAIN next = DOMAIN cw
    BY PlaneTypes DEF Carrying
  <2>2. \A d \in DOMAIN cw : region[d] \in face \cup {0}
    BY DEF Carrying, FacesInv, PlaneInv, RegionsAreFaces
  <2>3. last.face + 1 \in Nat /\ last.face + 1 \notin face \cup {0} /\ face \subseteq Nat
    <3>1. PICK k : k = last.face
      OBVIOUS
    <3>2. face \subseteq 1..k /\ k \in Nat
      BY <2>1, <3>1
    <3> QED BY <3>1, <3>2
  <2> QED BY <2>1, <2>2, <2>3, CarryFacts
<1>4. l \in face \cup {0} /\ r \in face \cup {0}
  <2>1. e \in DOMAIN next /\ -e \in DOMAIN next
    <3>1. DOMAIN next = Darts(Edge)
      BY CarryFacts
    <3> QED BY <3>1 DEF Darts
  <2> QED BY <1>3, <2>1
<1> HIDE DEF l, r
<1>5. ASSUME NEW tg
      PROVE  e \notin Ids(relation, tg, 2) /\ (l \in Ids(relation, tg, 3) <=> r \in Ids(relation, tg, 3))
  BY <1>2, EdgeUnused DEF RemovesEdge
<1>6. ASSUME l # r, NEW tg, NEW ty, NEW y
      PROVE  y \in Ids(relation', tg, ty) <=>
               \/ y \in Ids(relation, tg, ty) /\ ~(ty = 3 /\ y \in {l, r} \ {f})
               \/ ty = 3 /\ f \notin {l, r} /\ l \in Ids(relation, tg, ty) /\ y = f
  <2>1. relation' = updateTopoGeomFaceHeal(r, l, f) /\ (f \in {l, r} \/ f \in Nat \ {l, r})
    BY <1>2, <1>3, <1>6 DEF RemovesEdge
  <2> QED BY <1>6, <2>1, FloodedRows
<1>7. ASSUME NEW tg, NEW ty, ty # 3 PROVE Ids(relation', tg, ty) = Ids(relation, tg, ty)
  <2>1. CASE l # r
    BY <1>6, <1>7, <2>1
  <2>2. CASE l = r
    BY <1>2, <2>2 DEF RemovesEdge
  <2> QED BY <2>1, <2>2
<1>8. /\ DOMAIN next' = DOMAIN next \ {e, -e}
      /\ gone = IF l # r THEN {l, r} \ {f} ELSE {}
      /\ side' = [d \in DOMAIN next \ {e, -e} |-> IF side[d] \in gone THEN f ELSE side[d]]
  BY <1>2 DEF RemovesEdge
<1>9. ASSUME NEW tg, NEW d \in DOMAIN next'
      PROVE  side'[d] \in Ids(relation', tg, 3) <=> side[d] \in Ids(relation, tg, 3)
  <2>0. side'[d] = (IF side[d] \in gone THEN f ELSE side[d]) /\ side[d] \in face \cup {0}
    BY <1>3, <1>8
  <2>1. CASE l = r
    <3>1. relation' = relation /\ gone = {}
      BY <1>2, <2>1 DEF RemovesEdge
    <3> QED BY <2>0, <3>1
  <2>2. CASE l # r
    <3> DEFINE W == Ids(relation, tg, 3)
               new == Ids(relation', tg, 3)
    <3>1. \A y : y \in new <=> \/ y \in W /\ y \notin {l, r} \ {f}
                               \/ f \notin {l, r} /\ l \in W /\ y = f
      BY <1>6, <2>2
    <3>2. l \in W <=> r \in W
      BY <1>5
    <3>3. W \subseteq face
      BY <1>3
    <3>4. gone = {l, r} \ {f}
      BY <1>8, <2>2
    <3>5. f \in {l, r} \/ f \notin face \cup {0}
      BY <1>2, <1>3, <2>2 DEF RemovesEdge
    <3> HIDE DEF W, new
    <3>6. side'[d] \in new <=> side[d] \in W
      BY <2>0, <3>1, <3>2, <3>3, <3>4, <3>5
    <3> QED BY <3>6 DEF W, new
  <2> QED BY <2>1, <2>2
<1>10. TakesOut(e)
  <2>1. Node' = Node /\ Inherit(Node, [i \in Edge \ {e} |-> i], [d \in DOMAIN next \ {e, -e} |-> d])
    BY <1>2 DEF RemovesEdge
  <2>2. \A tg : /\ Ids(relation', tg, 1) = Ids(relation, tg, 1)
                /\ Ids(relation', tg, 2) = Ids(relation, tg, 2)
                /\ e \notin Ids(relation, tg, 2)
                /\ side[e] \in Ids(relation, tg, 3) <=> side[-e] \in Ids(relation, tg, 3)
                /\ \A d \in DOMAIN next' :
                     side'[d] \in Ids(relation', tg, 3) <=> side[d] \in Ids(relation, tg, 3)
    BY <1>5, <1>7, <1>9 DEF l, r
  <2> QED BY <1>8, <2>1, <2>2, ErasingCarries
<1> QED BY <1>10

\* The rows once face f has a second part i, and once parts i and j take its place.
LEMMA SplitFaceRows ==
  ASSUME Carrying, NEW f, NEW i \in Nat, NEW j \in Nat,
         \/ relation' = updateTopoGeomFaceSplit(f, i, -1) /\ j = f
         \/ relation' = updateTopoGeomFaceSplit(f, i, j),
         NEW tg, NEW ty, NEW y
  PROVE  y \in Ids(relation', tg, ty) <=>
           \/ y \in Ids(relation, tg, ty) /\ ~(ty = 3 /\ y = f)
           \/ ty = 3 /\ f \in Ids(relation, tg, ty) /\ y \in {i, j}
<1>1. relation \subseteq Row /\ j # -1
  BY CarryFacts
<1>2. RowsOfFace(f) = RowsWith(3, {f})
  BY RowsOfOne
<1>3. CASE relation' = updateTopoGeomFaceSplit(f, i, -1) /\ j = f
  <2>1. relation' = relation \cup Put(RowsWith(3, {f}), i)
    BY <1>2, <1>3 DEF updateTopoGeomFaceSplit
  <2>2. \A type, x : y \in Ids(relation \cup Put(RowsWith(type, {x}), i), tg, ty) <=>
                       y \in Ids(relation, tg, ty) \/ (ty = type /\ x \in Ids(relation, tg, ty) /\ y = i)
    BY <1>1, IdsSplit
  <2>3. y \in Ids(relation', tg, ty) <=>
          y \in Ids(relation, tg, ty) \/ (ty = 3 /\ f \in Ids(relation, tg, ty) /\ y = i)
    BY <2>1, <2>2
  <2> QED BY <1>3, <2>3
<1>4. CASE relation' = updateTopoGeomFaceSplit(f, i, j)
  <2>1. relation' = (relation \ RowsWith(3, {f})) \cup Put(RowsWith(3, {f}), i) \cup Put(RowsWith(3, {f}), j)
    BY <1>1, <1>2, <1>4 DEF updateTopoGeomFaceSplit
  <2>2. \A type, x :
          y \in Ids((relation \ RowsWith(type, {x})) \cup Put(RowsWith(type, {x}), i)
                      \cup Put(RowsWith(type, {x}), j), tg, ty) <=>
            \/ y \in Ids(relation, tg, ty) /\ ~(ty = type /\ y = x)
            \/ ty = type /\ x \in Ids(relation, tg, ty) /\ y \in {i, j}
    BY <1>1, IdsReplaced
  <2> QED BY <2>1, <2>2
<1> QED BY <1>3, <1>4

\* A face that is parted: each part has the rows of the face.
LEMMA PartsHaveRows ==
  ASSUME Carrying, NEW modFace \in BOOLEAN, NEW f \in face \cup {0}, NEW g, NEW l, NEW r,
         PartNames(g, f, modFace, last.face, l, r),
         relation' = IF f = 0 THEN relation
                     ELSE IF modFace THEN updateTopoGeomFaceSplit(f, last.face + 1, -1)
                     ELSE updateTopoGeomFaceSplit(f, last.face + 2, last.face + 1),
         NEW tg
  PROVE  /\ Ids(relation', tg, 1) = Ids(relation, tg, 1)
         /\ Ids(relation', tg, 2) = Ids(relation, tg, 2)
         /\ \A y : y # f /\ y \in face \cup {0} =>
                     (y \in Ids(relation', tg, 3) <=> y \in Ids(relation, tg, 3))
         /\ \A y \in {l, r} : y \in Ids(relation', tg, 3) <=> f \in Ids(relation, tg, 3)
<1> DEFINE n == last.face
<1>1. /\ face \subseteq Nat /\ n + 1 \in Nat /\ n + 2 \in Nat
      /\ n + 1 \notin face \cup {0} /\ n + 2 \notin face \cup {0} /\ 0 \notin face
      /\ Ids(relation, tg, 3) \subseteq face
  <2>1. PICK k : k = last.face
    OBVIOUS
  <2>2. face \subseteq 1..k /\ k \in Nat
    BY <2>1, CarryFacts
  <2>3. /\ face \subseteq Nat /\ k + 1 \in Nat /\ k + 2 \in Nat
        /\ k + 1 \notin face \cup {0} /\ k + 2 \notin face \cup {0} /\ 0 \notin face
    BY <2>2
  <2> QED BY <2>1, <2>3, CarryFacts
<1> HIDE DEF n
<1>2. CASE f = 0
  <2>1. l \in {0, n + 1} /\ r \in {0, n + 1}
    BY <1>2 DEF PartNames, n
  <2> QED BY <1>1, <1>2, <2>1
<1>3. ASSUME NEW i \in Nat, NEW j \in Nat,
             \/ relation' = updateTopoGeomFaceSplit(f, i, -1) /\ j = f
             \/ relation' = updateTopoGeomFaceSplit(f, i, j),
             {l, r} = {i, j}, i \notin face \cup {0}, j = f \/ j \notin face \cup {0}
      PROVE  /\ Ids(relation', tg, 1) = Ids(relation, tg, 1)
             /\ Ids(relation', tg, 2) = Ids(relation, tg, 2)
             /\ \A y : y # f /\ y \in face \cup {0} =>
                         (y \in Ids(relation', tg, 3) <=> y \in Ids(relation, tg, 3))
             /\ \A y \in {l, r} : y \in Ids(relation', tg, 3) <=> f \in Ids(relation, tg, 3)
  <2>1. \A ty, y : y \in Ids(relation', tg, ty) <=>
                     \/ y \in Ids(relation, tg, ty) /\ ~(ty = 3 /\ y = f)
                     \/ ty = 3 /\ f \in Ids(relation, tg, ty) /\ y \in {i, j}
    <3>1. CASE relation' = updateTopoGeomFaceSplit(f, i, -1) /\ j = f
      BY <3>1, SplitFaceRows
    <3>2. CASE relation' = updateTopoGeomFaceSplit(f, i, j)
      BY <3>2, SplitFaceRows
    <3> QED BY <1>3, <3>1, <3>2
  <2>2. \A y : y \in Ids(relation', tg, 3) <=>
                     \/ y \in Ids(relation, tg, 3) /\ y # f
                     \/ f \in Ids(relation, tg, 3) /\ y \in {i, j}
    BY <2>1
  <2>3. \A ty, y : ty # 3 => (y \in Ids(relation', tg, ty) <=> y \in Ids(relation, tg, ty))
    BY <2>1
  <2>4. Ids(relation', tg, 1) = Ids(relation, tg, 1) /\ Ids(relation', tg, 2) = Ids(relation, tg, 2)
    <3>1. \A y : y \in Ids(relation', tg, 1) <=> y \in Ids(relation, tg, 1)
      BY <2>3
    <3>2. \A y : y \in Ids(relation', tg, 2) <=> y \in Ids(relation, tg, 2)
      BY <2>3
    <3> QED BY <3>1, <3>2
  <2>5. \A y : y # f /\ y \in face \cup {0} => y \notin {i, j}
    BY <1>3
  <2>6. \A y \in {i, j} : y \in Ids(relation, tg, 3) => y = f
    BY <1>1, <1>3
  <2>7. \A y \in {l, r} : y \in {i, j}
    BY <1>3
  <2> QED BY <2>2, <2>4, <2>5, <2>6, <2>7
<1>4. CASE f # 0 /\ modFace
  <2>1. relation' = updateTopoGeomFaceSplit(f, n + 1, -1) /\ l = n + 1 /\ r = f
    BY <1>4 DEF PartNames, n
  <2>2. f \in Nat
    BY <1>1
  <2> QED BY <1>1, <1>3, <2>1, <2>2
<1>5. CASE f # 0 /\ ~modFace
  <2>1. relation' = updateTopoGeomFaceSplit(f, n + 2, n + 1) /\ l = n + 2 /\ r = n + 1
    BY <1>5 DEF PartNames, n
  <2> QED BY <1>1, <1>3, <2>1
<1> QED BY <1>2, <1>4, <1>5

\* _lwt_AddEdge: both parts of a face that is split belong to the objects that had it.
LEMMA AddEdgeCarries ==
  ASSUME NEW modFace \in BOOLEAN, Carrying, [Next]_vars, AddEdge(modFace)
  PROVE  \E e, f : DrawsIn(e, f)
<1> DEFINE e == last.edge + 1
<1>1. PICK s \in Node, t \in Node, f \in face \cup {0} : \E p, q, g, l, r, after :
        AddsEdge(e, s, t, p, q, f, g, l, r, after, modFace)
  BY AddEdgeAdds DEF Carrying
<1>2. PICK p, q, g, l, r, after : AddsEdge(e, s, t, p, q, f, g, l, r, after, modFace)
  BY <1>1
<1>3. e = last.edge + 1
  OBVIOUS
<1> HIDE DEF e
<1>4. ExtendWith(e, f) /\ DOMAIN cw' = DOMAIN cw \cup {e, -e} /\ Placed(e, p, q)
  BY <1>2 DEF AddsEdge, DrawnStep
<1>5. DOMAIN next' = DOMAIN next \cup {e, -e} /\ DOMAIN cw = DOMAIN next
  <2>1. (FacesInv => DOMAIN next = DOMAIN cw)'
    BY PlaneTypes, PTL
  <2> QED BY <1>4, <2>1, PlaneTypes DEF Carrying
<1>6. /\ e \notin DOMAIN next /\ -e \notin DOMAIN next
      /\ side = region /\ \A d \in DOMAIN next : side[d] \in face \cup {0}
  BY <1>4, <1>5, PlaneTypes DEF Placed, Carrying, FacesInv, PlaneInv, RegionsAreFaces
<1>7. CASE ~g.splits
  <2>1. Node' = Node /\ side' = WithCurve(side, DOMAIN cw, e, f) /\ relation' = relation
    BY <1>2, <1>7, AddBridge DEF Carrying
  <2>2. /\ \A d \in DOMAIN next : side'[d] = side[d]
        /\ \A d \in {e, -e} : side'[d] = f
    BY <1>5, <1>6, <2>1 DEF WithCurve
  <2>3. DrawsIn(e, f)
    BY <1>3, <1>4, <1>5, <2>1, <2>2, DrawingCarries
  <2> QED BY <2>3
<1>8. CASE g.splits
  <2>1. /\ Node' = Node
        /\ side' = RegionsWith(DOMAIN cw \cup {e, -e}, e, g, f, l, r)
        /\ PartNames(g, f, modFace, last.face, l, r)
        /\ relation' = IF f = 0 THEN relation
                       ELSE IF modFace THEN updateTopoGeomFaceSplit(f, last.face + 1, -1)
                       ELSE updateTopoGeomFaceSplit(f, last.face + 2, last.face + 1)
    <3>1. FacesInv
      BY DEF Carrying
    <3> QED BY <1>2, <1>8, <3>1, AddSplit
  <2>2. ASSUME NEW tg
        PROVE  /\ Ids(relation', tg, 1) = Ids(relation, tg, 1)
               /\ Ids(relation', tg, 2) = Ids(relation, tg, 2)
               /\ \A y : y # f /\ y \in face \cup {0} =>
                           (y \in Ids(relation', tg, 3) <=> y \in Ids(relation, tg, 3))
               /\ \A y \in {l, r} : y \in Ids(relation', tg, 3) <=> f \in Ids(relation, tg, 3)
    BY <2>1, PartsHaveRows
  <2>3. /\ \A d \in DOMAIN next : IF side[d] # f THEN side'[d] = side[d] ELSE side'[d] \in {l, r}
        /\ \A d \in {e, -e} : side'[d] \in {l, r}
    BY <1>5, <1>6, <1>8, <2>1 DEF RegionsWith
  <2>4. ASSUME NEW tg
        PROVE  /\ Ids(relation', tg, 1) = Ids(relation, tg, 1)
               /\ Ids(relation', tg, 2) = Ids(relation, tg, 2)
               /\ \A d \in DOMAIN next :
                    side'[d] \in Ids(relation', tg, 3) <=> side[d] \in Ids(relation, tg, 3)
               /\ \A d \in {e, -e} :
                    side'[d] \in Ids(relation', tg, 3) <=> f \in Ids(relation, tg, 3)
    BY <1>6, <2>2, <2>3
  <2>5. DrawsIn(e, f)
    BY <1>3, <1>4, <1>5, <2>1, <2>4, DrawingCarries
  <2> QED BY <2>5
<1> QED BY <1>7, <1>8

\* A point is marked that no object has.
Marks(n) == /\ n \notin Node /\ Node' = Node \cup {n} /\ next' = next
            /\ relation' = relation /\ region' = region /\ extent' = extent

\* lwt_AddIsoNode marks a point.
LEMMA AddIsoNodeCarries ==
  ASSUME FacesInv, AddIsoNode
  PROVE  \E n : Marks(n)
<1> DEFINE n == last.node + 1
<1>1. /\ DOMAIN containing' = Node \cup {n} /\ next' = next
      /\ relation' = relation /\ region' = region /\ extent' = extent
  BY DEF AddIsoNode, DrawPoint, tgVars
<1>2. n \notin Node
  <2>1. Node \subseteq 1..last.node /\ last.node \in Nat
    BY PlaneTypes
  <2> QED BY <2>1
<1> QED BY <1>1, <1>2 DEF Marks, Node

\* One object is redefined, and is drawn as its rows say.
Redefines(tg) ==
  /\ tg \in TopoGeom /\ Node' = Node /\ next' = next /\ region' = region
  /\ \A t \in TopoGeom : t # tg => DrawnAs(relation', t) = DrawnAs(relation, t)
  /\ extent' = [extent EXCEPT ![tg] = DrawnAs(relation', tg)]

\* addElement, remElement and clearTopoGeom change one object.
LEMMA RedefinitionCarries ==
  ASSUME RowsName(relation, Node, Edge, face), Redefinition
  PROVE  \E tg : Redefines(tg)
<1>1. ASSUME NEW rows, NEW tg \in TopoGeom, Redefine(rows, tg),
             \A r : r.tg # tg => (r \in rows <=> r \in relation)
      PROVE  /\ extent' = [extent EXCEPT ![tg] = DrawnAs(relation', tg)]
             /\ \A t \in TopoGeom : t # tg => DrawnAs(relation', t) = DrawnAs(relation, t)
  <2>1. relation' = rows /\ extent' = [extent EXCEPT ![tg] = DrawnAs(rows, tg)]
    BY <1>1 DEF Redefine
  <2>2. ASSUME NEW t \in TopoGeom, t # tg PROVE DrawnAs(relation', t) = DrawnAs(relation, t)
    <3>1. \A type : {x \in relation' : x.tg = t /\ x.type = type} =
                    {x \in relation : x.tg = t /\ x.type = type}
      BY <1>1, <2>1, <2>2
    <3> QED BY <3>1 DEF DrawnAs
  <2> QED BY <2>1, <2>2
<1>2. UNCHANGED <<geomVars, tableVars>>
  BY DEF Redefinition, AddElement, RemElement, ClearTopoGeom
<1>3. Node' = Node /\ next' = next /\ region' = region
  BY <1>2 DEF geomVars, tableVars, Node
<1>4. CASE AddElement
  <2>1. PICK r : /\ r.tg \in TopoGeom /\ Redefine(relation \cup {r}, r.tg)
    BY <1>4 DEF AddElement, TopoGeom_addElement
  <2> QED BY <1>1, <1>3, <2>1 DEF Redefines
<1>5. CASE RemElement
  <2>1. PICK r \in relation : Redefine(relation \ {r}, r.tg)
    BY <1>5 DEF RemElement, TopoGeom_remElement
  <2>2. r.tg \in TopoGeom
    BY DEF RowsName, OfType
  <2> QED BY <1>1, <1>3, <2>1, <2>2 DEF Redefines
<1>6. CASE ClearTopoGeom
  <2>1. PICK tg \in TopoGeom : Redefine({r \in relation : r.tg # tg}, tg)
    BY <1>6 DEF ClearTopoGeom, clearTopoGeom
  <2> QED BY <1>1, <1>3, <2>1 DEF Redefines
<1> QED BY <1>4, <1>5, <1>6 DEF Redefinition

\* The shapes of the steps that may change what an object covers.
Carries ==
  \/ \E n : Marks(n) \/ Unmarks(n)
  \/ \E e, f : DrawsIn(e, f)
  \/ \E e : TakesOut(e)
  \/ \E e, i, j, n : CutsAt(e, i, j, n)
  \/ \E e1, e2, m, a, b, M, n : JoinsUp(e1, e2, m, a, b, M, n)
  \/ \E tg : Redefines(tg)

\* Every step has one of them, but for the removals that BackwardRowsGuarded leaves out.
LEMMA StepCarries ==
  ASSUME Carrying, Next /\ BackwardRowsGuarded
  PROVE  Carries
<1>1. FacesInv /\ RowsName(relation, Node, Edge, face)
  BY DEF Carrying
<1>2. CASE AddIsoNode
  BY <1>1, <1>2, AddIsoNodeCarries DEF Carries
<1>3. CASE RemoveIsoNode
  BY <1>3, RemoveIsoNodeCarries DEF Carries
<1>4. CASE AddIsoEdge
  BY <1>4, AddIsoEdgeCarries DEF Carries
<1>5. CASE RemIsoEdge
  BY <1>5, RemIsoEdgeCarries DEF Carries
<1>6. CASE ModEdgeSplit
  BY <1>6, ModEdgeSplitCarries DEF Carries
<1>7. CASE NewEdgesSplit
  BY <1>7, NewEdgesSplitCarries DEF Carries
<1>8. CASE ModEdgeHeal \/ NewEdgeHeal
  <2>1. \E modEdge \in BOOLEAN : HealEdges(modEdge)
    BY <1>8 DEF ModEdgeHeal, NewEdgeHeal
  <2> QED BY <2>1, HealsCarry DEF Carries
<1>9. CASE AddEdgeModFace \/ AddEdgeNewFaces
  <2>1. \E modFace \in BOOLEAN : AddEdge(modFace)
    BY <1>9 DEF AddEdgeModFace, AddEdgeNewFaces
  <2> QED BY <2>1, AddEdgeCarries DEF Carries
<1>10. CASE RemEdgeModFace \/ RemEdgeNewFace
  <2>1. \E modFace \in BOOLEAN : RemEdge(modFace)
    BY <1>10 DEF RemEdgeModFace, RemEdgeNewFace
  <2> QED BY <2>1, RemEdgeCarries DEF Carries
<1>11. CASE Redefinition
  BY <1>1, <1>11, RedefinitionCarries DEF Carries
<1> QED BY <1>2, <1>3, <1>4, <1>5, <1>6, <1>7, <1>8, <1>9, <1>10, <1>11 DEF Next, Edit

\* The history variable says what the rows denote.
ExtentsDrawn == extent = [tg \in TopoGeom |-> DrawnAs(relation, tg)]

\* And so it does after a step of any of the shapes.
LEMMA CarriesExtents ==
  ASSUME ExtentsDrawn, Carries PROVE ExtentsDrawn'
<1>1. ExtentsPreserved /\ DOMAIN extent = TopoGeom
  BY DEF ExtentsDrawn, ExtentsPreserved
<1>2. ASSUME NEW nodes, NEW lineWas, NEW dartWas, Brings(nodes, lineWas, dartWas) PROVE ExtentsDrawn'
  <2>1. ExtentsPreserved'
    BY <1>1, <1>2, ExtentsCarried DEF Brings
  <2>2. extent' = [tg \in TopoGeom |-> extent'[tg]]
    BY <1>2 DEF Brings, Inherit
  <2> QED BY <2>1, <2>2 DEF ExtentsPreserved, ExtentsDrawn
<1>3. ASSUME region' = region, NEW tg PROVE DrawnAs(relation, tg)' = DrawnAs(relation', tg)
  BY <1>3 DEF DrawnAs
<1>4. ASSUME NEW n, Marks(n) PROVE ExtentsDrawn'
  <2>1. \A tg \in TopoGeom : DrawnAs(relation, tg)' = DrawnAs(relation, tg)
    BY <1>3, <1>4 DEF Marks
  <2> QED BY <1>4, <2>1 DEF Marks, ExtentsDrawn
<1>5. ASSUME NEW tg, Redefines(tg) PROVE ExtentsDrawn'
  <2>1. extent' = [t \in TopoGeom |-> IF t = tg THEN DrawnAs(relation', tg) ELSE extent[t]]
    BY <1>1, <1>5 DEF Redefines
  <2>2. \A t \in TopoGeom : extent'[t] = DrawnAs(relation', t)
    BY <1>1, <1>5, <2>1 DEF Redefines, ExtentsPreserved
  <2>3. \A t \in TopoGeom : DrawnAs(relation, t)' = DrawnAs(relation', t)
    BY <1>3, <1>5 DEF Redefines
  <2> QED BY <2>1, <2>2, <2>3 DEF ExtentsDrawn
<1>6. ASSUME NEW n, Unmarks(n) PROVE ExtentsDrawn'
  BY <1>2, <1>6 DEF Unmarks
<1>7. ASSUME NEW e, NEW f, DrawsIn(e, f) PROVE ExtentsDrawn'
  BY <1>2, <1>7 DEF DrawsIn
<1>8. ASSUME NEW e, TakesOut(e) PROVE ExtentsDrawn'
  BY <1>2, <1>8 DEF TakesOut
<1>9. ASSUME NEW e, NEW i, NEW j, NEW n, CutsAt(e, i, j, n) PROVE ExtentsDrawn'
  BY <1>2, <1>9 DEF CutsAt
<1>10. ASSUME NEW e1, NEW e2, NEW m, NEW a, NEW b, NEW M, NEW n, JoinsUp(e1, e2, m, a, b, M, n)
       PROVE  ExtentsDrawn'
  BY <1>2, <1>10 DEF JoinsUp
<1> QED BY <1>4, <1>5, <1>6, <1>7, <1>8, <1>9, <1>10 DEF Carries

\* The inductive invariant of a topology and its TopoGeometry objects.
ObjectsInv == FacesInv /\ RowsInv /\ ExtentsDrawn

\* It holds of a new topology.
LEMMA ObjectsInvInit == Init => ObjectsInv
<1>1. Init => ExtentsDrawn
  <2>1. relation = {} /\ DOMAIN region = {} =>
          \A tg : DrawnAs(relation, tg) = [points |-> {}, lines |-> {}, area |-> {}]
    BY DEF DrawnAs
  <2>2. Init => /\ relation = {} /\ DOMAIN region = {}
                /\ extent = [tg \in TopoGeom |-> [points |-> {}, lines |-> {}, area |-> {}]]
    BY DEF Init, GeomInit, TopoGeomInit
  <2> QED BY <2>1, <2>2 DEF ExtentsDrawn
<1> QED BY <1>1, FacesInvInit, RowsInvInit DEF ObjectsInv

\* The steps from a state that the invariant describes.
LEMMA ObjectsInvNext ==
  ObjectsInv /\ [Next /\ BackwardRowsGuarded]_vars =>
    /\ ObjectsInv'
    /\ (Carrying /\ [Next]_vars /\ Carries) \/ UNCHANGED vars
<1> SUFFICES ASSUME ObjectsInv, [Next /\ BackwardRowsGuarded]_vars
             PROVE  /\ ObjectsInv'
                    /\ (Carrying /\ [Next]_vars /\ Carries) \/ UNCHANGED vars
  OBVIOUS
<1>1. FacesInv /\ RowsInv /\ ExtentsDrawn
  BY DEF ObjectsInv
<1>2. [Next]_vars
  OBVIOUS
<1>3. FacesInv'
  BY <1>1, <1>2, NextInv, TurnsInvNext, PlaneInvNext DEF FacesInv
<1>4. RowsInv'
  BY <1>1, RowsInvNext DEF FacesInv
<1>5. Carrying
  <2>1. IInv => relation \subseteq Row
    BY DEF IInv, TypeOK
  <2>2. RowsName(relation, Node, Edge, face)
    BY <1>1, <2>1, RowsNamed DEF RowsName, FacesInv
  <2> QED BY <1>1, <1>3, <2>2 DEF Carrying
<1>6. CASE UNCHANGED vars
  <2>1. ExtentsDrawn'
    BY <1>1, <1>6 DEF vars, geomVars, tgVars, ExtentsDrawn, DrawnAs
  <2> QED BY <1>3, <1>4, <1>6, <2>1 DEF ObjectsInv
<1>7. CASE Next /\ BackwardRowsGuarded
  <2>1. Carries
    BY <1>5, <1>7, StepCarries
  <2>2. ExtentsDrawn'
    BY <1>1, <2>1, CarriesExtents
  <2> QED BY <1>2, <1>3, <1>4, <1>5, <2>1, <2>2 DEF ObjectsInv
<1> QED BY <1>6, <1>7

\* Editing the topology never changes what a TopoGeometry covers, whatever edits and redefinitions
\* led here: cb_checkTopoGeom* refuse what cb_updateTopoGeom* could not carry over, but for the
\* removals of an isolated edge that a TopoGeometry walks backward.
THEOREM ExtentsCorrect == GuardedSpec => []ExtentsPreserved
<1>1. ObjectsInv => ExtentsPreserved
  BY DEF ObjectsInv, ExtentsDrawn, ExtentsPreserved
<1> QED BY <1>1, ObjectsInvInit, ObjectsInvNext, PTL DEF GuardedSpec

-----------------------------------------------------------------------------
(* Every edit carries what the objects cover over as TopoGeomSpec promises.       *)

\* What TopoGeomSpec reads of a topology besides its nodes and edges.
Cov == [tg \in TopoGeom |-> DrawnAs(relation, tg)]

\* The actions of TopoGeomSpec, read of a topology, with their witnesses named.
PromiseNoLine(l) ==
  /\ Edge' = Edge \ {l}
  /\ \A tg \in TopoGeom : /\ l \notin Cov[tg].lines
                          /\ l \in Cov[tg].area <=> -l \in Cov[tg].area
  /\ Cov' = [tg \in TopoGeom |-> [Cov[tg] EXCEPT !.area = @ \ {l, -l}]]
  /\ Node' = Node
PromiseNewLine(l, drawnIn) ==
  /\ Edge' = Edge \cup {l}
  /\ Cov' = [tg \in TopoGeom |->
              IF tg \in drawnIn THEN [Cov[tg] EXCEPT !.area = @ \cup {l, -l}] ELSE Cov[tg]]
  /\ Node' = Node
PromiseCut(n, l, i, j) ==
  /\ i # j
  /\ {i, j} \cap (Edge \ {l}) = {}
  /\ Node' = Node \cup {n}
  /\ Edge' = (Edge \ {l}) \cup {i, j}
  /\ Cov' = [tg \in TopoGeom |->
       [points |-> Cov[tg].points,
        lines |-> (Cov[tg].lines \ {l, -l}) \cup (IF l \in Cov[tg].lines THEN {i, j} ELSE {}),
        area |-> (Cov[tg].area \ {l, -l}) \cup (IF l \in Cov[tg].area THEN {i, j} ELSE {})
                     \cup (IF -l \in Cov[tg].area THEN {-i, -j} ELSE {})]]
PromiseJoin(n, a, b, m) ==
  /\ b \notin {a, -a}
  /\ {m, -m} \cap (Edge \ {a, -a, b, -b}) = {}
  /\ Node' = Node \ {n}
  /\ Edge' = (Edge \ {a, -a, b, -b}) \cup (Edge' \cap {m, -m})
  /\ \A tg \in TopoGeom :
       /\ n \notin Cov[tg].points
       /\ Edge \cap {a, -a} \subseteq Cov[tg].lines <=> Edge \cap {b, -b} \subseteq Cov[tg].lines
       /\ a \in Cov[tg].area <=> b \in Cov[tg].area
       /\ -a \in Cov[tg].area <=> -b \in Cov[tg].area
  /\ Cov' = [tg \in TopoGeom |->
       [points |-> Cov[tg].points,
        lines |-> (Cov[tg].lines \ {a, -a, b, -b})
                  \cup (IF Edge \cap {a, -a} \subseteq Cov[tg].lines THEN Edge' \cap {m, -m} ELSE {}),
        area |-> (Cov[tg].area \ {a, -a, b, -b}) \cup (IF a \in Cov[tg].area THEN {m} ELSE {})
                               \cup (IF -a \in Cov[tg].area THEN {-m} ELSE {})]]

\* These are the actions of TopoGeomSpec.
LEMMA PromiseActions ==
  /\ Promise!MarkPoint <=> /\ \E n \in Node' \ Node : Node' = Node \cup {n}
                           /\ UNCHANGED <<Edge, Cov>>
  /\ Promise!UnmarkPoint <=> /\ \E n \in Node \ Node' : /\ Node' = Node \ {n}
                                                        /\ \A tg \in TopoGeom : n \notin Cov[tg].points
                             /\ UNCHANGED <<Edge, Cov>>
  /\ Promise!NewLine <=> \E l \in Edge' \ Edge : \E drawnIn \in SUBSET TopoGeom : PromiseNewLine(l, drawnIn)
  /\ Promise!NoLine <=> \E l \in Edge \ Edge' : PromiseNoLine(l)
  /\ Promise!Cut <=> \E n \in Node' \ Node : \E l \in Edge, i, j \in Edge' : PromiseCut(n, l, i, j)
  /\ Promise!Join <=> \E n \in Node \ Node' : \E a, b \in Darts(Edge), m \in Darts(Edge)' : PromiseJoin(n, a, b, m)
  /\ Promise!Redefined <=> /\ UNCHANGED <<Node, Edge>>
                           /\ \E tg \in TopoGeom : /\ Promise!Within(Cov[tg]', Node, Edge)
                                                   /\ Cov' = [Cov EXCEPT ![tg] = Cov[tg]']
<1>1. Promise!MarkPoint <=> /\ \E n \in Node' \ Node : Node' = Node \cup {n}
                            /\ UNCHANGED <<Edge, Cov>>
  BY Zenon DEF Promise!MarkPoint, Cov
<1>2. Promise!UnmarkPoint <=> /\ \E n \in Node \ Node' : /\ Node' = Node \ {n}
                                                         /\ \A tg \in TopoGeom : n \notin Cov[tg].points
                              /\ UNCHANGED <<Edge, Cov>>
  BY Zenon DEF Promise!UnmarkPoint, Cov
<1>3. Promise!NewLine <=> \E l \in Edge' \ Edge : \E drawnIn \in SUBSET TopoGeom : PromiseNewLine(l, drawnIn)
  <2>1. ASSUME Promise!NewLine
        PROVE  \E l \in Edge' \ Edge : \E drawnIn \in SUBSET TopoGeom : PromiseNewLine(l, drawnIn)
    BY <2>1, Zenon DEF Promise!NewLine, PromiseNewLine, Cov
  <2>2. ASSUME NEW l \in Edge' \ Edge, NEW drawnIn \in SUBSET TopoGeom, PromiseNewLine(l, drawnIn)
        PROVE  Promise!NewLine
    BY <2>2, Zenon DEF Promise!NewLine, PromiseNewLine, Cov
  <2> QED BY <2>1, <2>2, Zenon
<1>4. Promise!NoLine <=> \E l \in Edge \ Edge' : PromiseNoLine(l)
  BY Zenon DEF Promise!NoLine, Promise!Carried, PromiseNoLine, Cov
<1>5. Promise!Cut <=> \E n \in Node' \ Node : \E l \in Edge, i, j \in Edge' : PromiseCut(n, l, i, j)
  BY Zenon DEF Promise!Cut, Promise!Carried, PromiseCut, Cov
<1>6. Promise!Join <=> \E n \in Node \ Node' : \E a, b \in Darts(Edge), m \in Darts(Edge)' : PromiseJoin(n, a, b, m)
  BY Zenon DEF Promise!Join, Promise!Carried, Promise!Sides, Darts, PromiseJoin, Cov
<1>7. Promise!Redefined <=> /\ UNCHANGED <<Node, Edge>>
                            /\ \E tg \in TopoGeom : /\ Promise!Within(Cov[tg]', Node, Edge)
                                                    /\ Cov' = [Cov EXCEPT ![tg] = Cov[tg]']
  BY Zenon DEF Promise!Redefined, Cov
<1> QED BY <1>1, <1>2, <1>3, <1>4, <1>5, <1>6, <1>7

\* What the objects cover is part of the drawing.
Covering ==
  /\ DOMAIN next = Darts(Edge) /\ Edge \subseteq Nat \ {0} /\ DOMAIN Cov = TopoGeom
  /\ \A tg \in TopoGeom :
       /\ Cov[tg] = [points |-> Cov[tg].points, lines |-> Cov[tg].lines, area |-> Cov[tg].area]
       /\ Cov[tg].points \subseteq Node /\ Cov[tg].lines \subseteq Edge
       /\ Cov[tg].area = {d \in DOMAIN next : region[d] \in Ids(relation, tg, 3)}
       /\ Cov[tg].points = Ids(relation, tg, 1) /\ Cov[tg].lines = Ids(relation, tg, 2)

\* The rows name primitives, so they cover parts of the drawing.
LEMMA ObjectsCovering == ObjectsInv => Covering
<1> SUFFICES ASSUME ObjectsInv PROVE Covering
  OBVIOUS
<1>1. FacesInv /\ RowsInv /\ TypeOK
  BY DEF ObjectsInv, FacesInv, IInv
<1>2. relation \subseteq Row /\ DOMAIN next = Darts(Edge) /\ Edge \subseteq Nat \ {0}
  BY <1>1 DEF TypeOK
<1>3. DOMAIN region = DOMAIN next /\ Node \subseteq Nat
  BY <1>1, PlaneTypes
<1>4. ASSUME NEW tg PROVE Ids(relation, tg, 1) \subseteq Node /\ Ids(relation, tg, 2) \subseteq Edge
  <2>1. ASSUME NEW type \in {1, 2}, NEW x \in Ids(relation, tg, type)
        PROVE  x \in IF type = 1 THEN Node ELSE Edge
    <3>1. PICK r \in relation : r.tg = tg /\ r.type = type /\ x = Abs(r.id)
      BY DEF Ids
    <3>2. Names(r, Node, Edge, face)
      BY <1>1, <1>2, RowsNamed
    <3>3. \A y \in Node : Abs(y) = y
      BY <1>3 DEF Abs
    <3> QED BY <3>1, <3>2, <3>3 DEF Names
  <2> QED BY <2>1
<1>5. DOMAIN Cov = TopoGeom /\ \A tg \in TopoGeom : Cov[tg] = DrawnAs(relation, tg)
  BY DEF Cov
<1>6. ASSUME NEW tg \in TopoGeom
      PROVE  /\ Cov[tg] = [points |-> Cov[tg].points, lines |-> Cov[tg].lines, area |-> Cov[tg].area]
             /\ Cov[tg].area = {d \in DOMAIN next : region[d] \in Ids(relation, tg, 3)}
             /\ Cov[tg].points = Ids(relation, tg, 1) /\ Cov[tg].lines = Ids(relation, tg, 2)
  BY <1>3, <1>5, DrawnIds
<1> QED BY <1>2, <1>4, <1>5, <1>6 DEF Covering

\* What they cover after a step that carries it over.
LEMMA CoveringAfter ==
  ASSUME Covering, NEW nodes, NEW lineWas, NEW dartWas, Brings(nodes, lineWas, dartWas),
         NEW tg \in TopoGeom
  PROVE  /\ Cov'[tg] = [points |-> Cov'[tg].points, lines |-> Cov'[tg].lines, area |-> Cov'[tg].area]
         /\ \A x : x \in Cov'[tg].points <=> x \in Cov[tg].points /\ x \in nodes
         /\ \A x : x \in Cov'[tg].lines <=> x \in DOMAIN lineWas /\ lineWas[x] \in Cov[tg].lines
         /\ \A x : x \in Cov'[tg].area <=> x \in DOMAIN dartWas /\ dartWas[x] \in Cov[tg].area
<1>1. Cov[tg] = DrawnAs(relation, tg)
  BY DEF Cov
<1>2. Cov'[tg] = DrawnAs(relation, tg)'
  BY DEF Cov
<1>3. Cov'[tg] = [points |-> Cov[tg].points \cap nodes,
                  lines |-> {e \in DOMAIN lineWas : lineWas[e] \in Cov[tg].lines},
                  area |-> {d \in DOMAIN dartWas : dartWas[d] \in Cov[tg].area}]
  BY <1>1, <1>2 DEF Brings, CarriedOver
<1> QED BY <1>3

\* Cov is known by its values.
LEMMA CoveringIs ==
  ASSUME NEW f, DOMAIN f = TopoGeom, f = [tg \in TopoGeom |-> f[tg]],
         \A tg \in TopoGeom : Cov'[tg] = f[tg]
  PROVE  Cov' = f
<1>1. Cov' = [tg \in TopoGeom |-> Cov'[tg]]
  BY DEF Cov
<1> QED BY <1>1

\* The edges of which these are the darts.
LEMMA PositiveDarts ==
  ASSUME NEW D, D \subseteq Int \ {0}, \A d \in D : -d \in D
  PROVE  \A e : e \in {Abs(d) : d \in D} <=> e \in D /\ e > 0
<1>1. ASSUME NEW d \in D PROVE Abs(d) \in D /\ Abs(d) > 0
  BY DEF Abs
<1>2. ASSUME NEW d \in D, d > 0 PROVE Abs(d) = d
  BY <1>2 DEF Abs
<1> QED BY <1>1, <1>2

\* A node that comes.
LEMMA MarksPromised ==
  ASSUME Covering, NEW n, Marks(n) PROVE Promise!MarkPoint
<1>1. Edge' = Edge /\ Cov' = Cov
  BY DEF Marks, Edge, Cov, DrawnAs
<1>2. n \in Node' \ Node /\ Node' = Node \cup {n}
  BY DEF Marks
<1> QED BY <1>1, <1>2, PromiseActions

\* A node that goes.
LEMMA UnmarksPromised ==
  ASSUME Covering, NEW n, Unmarks(n) PROVE Promise!UnmarkPoint
<1>1. Edge' = Edge /\ n \in Node \ Node' /\ Node' = Node \ {n}
  BY DEF Unmarks, Edge
<1>2. \A tg \in TopoGeom : n \notin Cov[tg].points
  BY DEF Unmarks, Covering
<1>3. Brings(Node \ {n}, Same, SameDarts)
  BY DEF Unmarks
<1>4. ASSUME NEW tg \in TopoGeom PROVE Cov'[tg] = Cov[tg]
  <2> DEFINE nodes == Node \ {n}
  <2>1. Brings(nodes, Same, SameDarts)
    BY <1>3
  <2>2. /\ Cov[tg].points \subseteq Node /\ Cov[tg].lines \subseteq Edge /\ Cov[tg].area \subseteq DOMAIN next
        /\ Cov[tg] = [points |-> Cov[tg].points, lines |-> Cov[tg].lines, area |-> Cov[tg].area]
    BY DEF Covering
  <2>3. n \notin Cov[tg].points
    BY <1>2
  <2>4. \A x \in Cov[tg].points : x \in nodes
    BY <2>2, <2>3
  <2> HIDE DEF nodes
  <2>5. /\ Cov'[tg] = [points |-> Cov'[tg].points, lines |-> Cov'[tg].lines, area |-> Cov'[tg].area]
        /\ \A x : x \in Cov'[tg].points <=> x \in Cov[tg].points /\ x \in nodes
        /\ \A x : x \in Cov'[tg].lines <=> x \in DOMAIN Same /\ Same[x] \in Cov[tg].lines
        /\ \A x : x \in Cov'[tg].area <=> x \in DOMAIN SameDarts /\ SameDarts[x] \in Cov[tg].area
    BY <2>1, CoveringAfter
  <2>6. /\ \A x : x \in Cov'[tg].points <=> x \in Cov[tg].points
        /\ \A x : x \in Cov'[tg].lines <=> x \in Cov[tg].lines
        /\ \A x : x \in Cov'[tg].area <=> x \in Cov[tg].area
    BY <2>2, <2>4, <2>5 DEF Same, SameDarts
  <2>7. Cov'[tg].points = Cov[tg].points /\ Cov'[tg].lines = Cov[tg].lines /\ Cov'[tg].area = Cov[tg].area
    BY <2>6
  <2> QED BY <2>2, <2>5, <2>7
<1>5. Cov' = Cov
  <2>1. Cov = [tg \in TopoGeom |-> Cov[tg]] /\ DOMAIN Cov = TopoGeom
    BY DEF Cov
  <2> QED BY <1>4, <2>1, CoveringIs
<1> QED BY <1>1, <1>2, <1>5, PromiseActions

\* A new line, drawn inside the areas that have its face.
LEMMA DrawsPromised ==
  ASSUME Covering, Covering', last.edge \in Nat, Edge \subseteq 1..last.edge,
         NEW e, NEW f, DrawsIn(e, f)
  PROVE  Promise!NewLine
<1> DEFINE lineWas == [i \in Edge \cup {e} |-> IF i = e THEN 0 ELSE i]
           D == DOMAIN next \cup {e, -e}
           dartWas == [d \in D |-> IF d \in {e, -e} THEN Beside(f) ELSE d]
           drawnIn == {tg \in TopoGeom : Beside(f) \in Cov[tg].area}
<1>1. Brings(Node, lineWas, dartWas) /\ Node' = Node /\ DOMAIN next' = D /\ e = last.edge + 1
  BY DEF DrawsIn
<1>2. DOMAIN next = Darts(Edge) /\ e \in Nat \ {0} /\ e \notin Edge /\ 0 \notin Edge
  BY <1>1 DEF Covering
<1>3. \A d \in DOMAIN next : d # e /\ d # -e /\ d \in Int /\ d # 0 /\ -d \in DOMAIN next
  <2>1. \A x \in Edge : x \in 1..last.edge /\ x \in Int /\ -x \in Int /\ -(-x) = x /\ x # 0 /\ -x # 0
    OBVIOUS
  <2>2. \A x \in Edge : x # e /\ x # -e /\ -x # e /\ -x # -e
    BY <1>1, <2>1
  <2> QED BY <1>2, <2>1, <2>2 DEF Darts
<1>4. Edge' = Edge \cup {e}
  <2>1. D \subseteq Int \ {0} /\ \A d \in D : -d \in D
    BY <1>2, <1>3
  <2>2. Edge' = {Abs(d) : d \in D}
    BY <1>1 DEF Edge
  <2> HIDE DEF D
  <2>3. \A x : x \in Edge' <=> x \in D /\ x > 0
    BY <2>1, <2>2, PositiveDarts
  <2>4. \A x \in Edge : x \in Int /\ x > 0 /\ x \in DOMAIN next /\ ~(-x > 0)
    BY <1>2 DEF Darts
  <2>5. \A x : x \in DOMAIN next /\ x > 0 => x \in Edge
    BY <1>2, <2>4 DEF Darts
  <2>6. \A x : x \in D <=> x \in DOMAIN next \/ x = e \/ x = -e
    BY DEF D
  <2>7. ~(-e > 0) /\ e > 0
    BY <1>2
  <2> QED BY <2>3, <2>4, <2>5, <2>6, <2>7
<1> HIDE DEF drawnIn
<1>5. ASSUME NEW tg \in TopoGeom
      PROVE  Cov'[tg] = IF tg \in drawnIn THEN [Cov[tg] EXCEPT !.area = @ \cup {e, -e}] ELSE Cov[tg]
  <2>1. /\ Cov[tg].points \subseteq Node /\ Cov[tg].lines \subseteq Edge /\ Cov[tg].area \subseteq DOMAIN next
        /\ Cov[tg] = [points |-> Cov[tg].points, lines |-> Cov[tg].lines, area |-> Cov[tg].area]
    BY DEF Covering
  <2> HIDE DEF lineWas, dartWas
  <2>2. /\ Cov'[tg] = [points |-> Cov'[tg].points, lines |-> Cov'[tg].lines, area |-> Cov'[tg].area]
        /\ \A x : x \in Cov'[tg].points <=> x \in Cov[tg].points /\ x \in Node
        /\ \A x : x \in Cov'[tg].lines <=> x \in DOMAIN lineWas /\ lineWas[x] \in Cov[tg].lines
        /\ \A x : x \in Cov'[tg].area <=> x \in DOMAIN dartWas /\ dartWas[x] \in Cov[tg].area
    BY <1>1, CoveringAfter
  <2>3. /\ \A x : x \in Cov'[tg].points <=> x \in Cov[tg].points
        /\ \A x : x \in Cov'[tg].lines <=> x \in Cov[tg].lines
    BY <1>2, <2>1, <2>2 DEF lineWas
  <2>4. \A x : x \in Cov'[tg].area <=>
                 x \in Cov[tg].area \/ (x \in {e, -e} /\ Beside(f) \in Cov[tg].area)
    BY <1>3, <2>1, <2>2 DEF dartWas
  <2>5. tg \in drawnIn <=> Beside(f) \in Cov[tg].area
    BY DEF drawnIn
  <2>6. /\ Cov'[tg].points = Cov[tg].points /\ Cov'[tg].lines = Cov[tg].lines
        /\ Cov'[tg].area = IF tg \in drawnIn THEN Cov[tg].area \cup {e, -e} ELSE Cov[tg].area
    BY <2>3, <2>4, <2>5
  <2>7. CASE tg \in drawnIn
    <3>1. [Cov[tg] EXCEPT !.area = @ \cup {e, -e}] =
            [points |-> Cov[tg].points, lines |-> Cov[tg].lines, area |-> Cov[tg].area \cup {e, -e}]
      BY <2>1
    <3> QED BY <2>2, <2>6, <2>7, <3>1
  <2>8. CASE tg \notin drawnIn
    BY <2>1, <2>2, <2>6, <2>8
  <2> QED BY <2>7, <2>8
<1>6. PromiseNewLine(e, drawnIn)
  <2> DEFINE F == [tg \in TopoGeom |->
                    IF tg \in drawnIn THEN [Cov[tg] EXCEPT !.area = @ \cup {e, -e}] ELSE Cov[tg]]
  <2>1. Cov' = F
    <3>1. DOMAIN F = TopoGeom /\ F = [tg \in TopoGeom |-> F[tg]]
      OBVIOUS
    <3>2. \A tg \in TopoGeom : Cov'[tg] = F[tg]
      BY <1>5
    <3> HIDE DEF F
    <3> QED BY <3>1, <3>2, CoveringIs
  <2> QED BY <1>1, <1>4, <2>1 DEF PromiseNewLine
<1>7. drawnIn \in SUBSET TopoGeom /\ e \in Edge' \ Edge
  BY <1>2, <1>4 DEF drawnIn
<1> QED BY <1>6, <1>7, PromiseActions

\* A line that goes.
LEMMA TakesPromised ==
  ASSUME Covering, NEW e, TakesOut(e)
  PROVE  Promise!NoLine
<1> DEFINE lineWas == [i \in Edge \ {e} |-> i]
           D == DOMAIN next \ {e, -e}
           dartWas == [d \in D |-> d]
<1>1. Brings(Node, lineWas, dartWas) /\ Node' = Node /\ DOMAIN next' = D /\ e \in Edge
  BY DEF TakesOut
<1>2. DOMAIN next = Darts(Edge) /\ Edge \subseteq Nat \ {0} /\ e \in Nat \ {0}
  BY <1>1 DEF Covering
<1>3. /\ \A d \in DOMAIN next : d \in Int /\ d # 0 /\ -d \in DOMAIN next
      /\ \A d : d \in DOMAIN next /\ d > 0 => d \in Edge
      /\ Edge \subseteq DOMAIN next
  <2>1. \A x \in Edge : x \in Int /\ x > 0 /\ -x \in Int /\ -(-x) = x /\ x # 0 /\ -x # 0 /\ ~(-x > 0)
    BY <1>2
  <2> QED BY <1>2, <2>1 DEF Darts
<1>4. Edge' = Edge \ {e}
  <2>1. D \subseteq Int \ {0} /\ \A d \in D : -d \in D
    BY <1>2, <1>3
  <2>2. Edge' = {Abs(d) : d \in D}
    BY <1>1 DEF Edge
  <2> HIDE DEF D
  <2>3. \A x : x \in Edge' <=> x \in D /\ x > 0
    BY <2>1, <2>2, PositiveDarts
  <2>6. \A x : x \in D <=> x \in DOMAIN next /\ x # e /\ x # -e
    BY DEF D
  <2>7. ~(-e > 0) /\ \A x \in Edge : x > 0
    BY <1>2
  <2> QED BY <1>3, <2>3, <2>6, <2>7
<1>5. ASSUME NEW tg \in TopoGeom
      PROVE  /\ Cov'[tg] = [Cov[tg] EXCEPT !.area = @ \ {e, -e}]
             /\ e \notin Cov[tg].lines
             /\ e \in Cov[tg].area <=> -e \in Cov[tg].area
  <2>1. /\ Cov[tg].points \subseteq Node /\ Cov[tg].lines \subseteq Edge
        /\ Cov[tg].area = {d \in DOMAIN next : region[d] \in Ids(relation, tg, 3)}
        /\ Cov[tg].lines = Ids(relation, tg, 2)
        /\ Cov[tg] = [points |-> Cov[tg].points, lines |-> Cov[tg].lines, area |-> Cov[tg].area]
    BY DEF Covering
  <2>2. e \notin Cov[tg].lines
    BY <2>1 DEF TakesOut
  <2>3. e \in Cov[tg].area <=> -e \in Cov[tg].area
    BY <1>1, <1>3, <2>1 DEF TakesOut
  <2> HIDE DEF lineWas, dartWas
  <2>4. /\ Cov'[tg] = [points |-> Cov'[tg].points, lines |-> Cov'[tg].lines, area |-> Cov'[tg].area]
        /\ \A x : x \in Cov'[tg].points <=> x \in Cov[tg].points /\ x \in Node
        /\ \A x : x \in Cov'[tg].lines <=> x \in DOMAIN lineWas /\ lineWas[x] \in Cov[tg].lines
        /\ \A x : x \in Cov'[tg].area <=> x \in DOMAIN dartWas /\ dartWas[x] \in Cov[tg].area
    BY <1>1, CoveringAfter
  <2>5. /\ \A x : x \in Cov'[tg].points <=> x \in Cov[tg].points
        /\ \A x : x \in Cov'[tg].lines <=> x \in Cov[tg].lines
    BY <2>1, <2>2, <2>4 DEF lineWas
  <2>6. \A x : x \in Cov'[tg].area <=> x \in Cov[tg].area /\ x \notin {e, -e}
    BY <2>1, <2>4 DEF dartWas
  <2>7. /\ Cov'[tg].points = Cov[tg].points /\ Cov'[tg].lines = Cov[tg].lines
        /\ Cov'[tg].area = Cov[tg].area \ {e, -e}
    BY <2>5, <2>6
  <2>8. [Cov[tg] EXCEPT !.area = @ \ {e, -e}] =
            [points |-> Cov[tg].points, lines |-> Cov[tg].lines, area |-> Cov[tg].area \ {e, -e}]
    BY <2>1
  <2> QED BY <2>2, <2>3, <2>4, <2>7, <2>8
<1>6. PromiseNoLine(e)
  <2> DEFINE F == [tg \in TopoGeom |-> [Cov[tg] EXCEPT !.area = @ \ {e, -e}]]
  <2>1. Cov' = F
    <3>1. DOMAIN F = TopoGeom /\ F = [tg \in TopoGeom |-> F[tg]]
      OBVIOUS
    <3>2. \A tg \in TopoGeom : Cov'[tg] = F[tg]
      BY <1>5
    <3> HIDE DEF F
    <3> QED BY <3>1, <3>2, CoveringIs
  <2> QED BY <1>1, <1>4, <1>5, <2>1 DEF PromiseNoLine
<1> QED BY <1>1, <1>4, <1>6, PromiseActions

\* A redefinition.
LEMMA RedefinesPromised ==
  ASSUME Covering, Covering', NEW tg, Redefines(tg)
  PROVE  Promise!Redefined
<1>1. tg \in TopoGeom /\ Node' = Node /\ Edge' = Edge /\ DOMAIN next' = DOMAIN next
  BY DEF Redefines, Edge
<1>2. Promise!Within(Cov[tg]', Node, Edge)
  <2>1. /\ Cov'[tg].points \subseteq Node' /\ Cov'[tg].lines \subseteq Edge'
        /\ Cov'[tg].area \subseteq DOMAIN next' /\ DOMAIN next = Darts(Edge)
    BY <1>1 DEF Covering
  <2> QED BY <1>1, <2>1 DEF Promise!Within, Promise!Sides, Darts
<1>3. ASSUME NEW t \in TopoGeom, t # tg PROVE Cov'[t] = Cov[t]
  <2>1. DrawnAs(relation, t)' = DrawnAs(relation', t)
    BY DEF Redefines, DrawnAs
  <2> QED BY <1>3, <2>1 DEF Redefines, Cov
<1>4. Cov' = [Cov EXCEPT ![tg] = Cov[tg]']
  BY <1>1, <1>3 DEF Cov
<1> QED BY <1>1, <1>2, <1>4, PromiseActions

\* The darts and the edges of a drawing.
LEMMA DartsOf ==
  ASSUME Covering
  PROVE  /\ \A d \in DOMAIN next : d \in Int /\ d # 0 /\ -d \in DOMAIN next
         /\ \A d : d \in DOMAIN next /\ d > 0 => d \in Edge
         /\ Edge \subseteq DOMAIN next
         /\ \A x \in Edge : x \in Int /\ x > 0 /\ ~(-x > 0)
<1>1. DOMAIN next = Darts(Edge) /\ Edge \subseteq Nat \ {0}
  BY DEF Covering
<1>2. \A x \in Edge : x \in Int /\ x > 0 /\ -x \in Int /\ -(-x) = x /\ x # 0 /\ -x # 0 /\ ~(-x > 0)
  BY <1>1
<1> QED BY <1>1, <1>2 DEF Darts

\* A line that is cut.
LEMMA CutsPromised ==
  ASSUME Covering, NEW e, NEW i, NEW j, NEW n, CutsAt(e, i, j, n)
  PROVE  Promise!Cut
<1> DEFINE D == (DOMAIN next \ {e, -e}) \cup {i, -i, j, -j}
<1>1. /\ Brings(Node, CutLines(e, i, j), CutWas(e, i, j)) /\ Node' = Node \cup {n} /\ n \notin Node
      /\ DOMAIN next' = D /\ e \in Edge /\ i \in Nat \ {0} /\ j \in Nat \ {0} /\ i # j
      /\ {i, j} \cap (Edge \ {e}) = {}
  BY DEF CutsAt
<1>2. /\ \A d \in DOMAIN next : d \in Int /\ d # 0 /\ -d \in DOMAIN next
      /\ \A d : d \in DOMAIN next /\ d > 0 => d \in Edge
      /\ Edge \subseteq DOMAIN next
      /\ \A x \in Edge : x \in Int /\ x > 0 /\ ~(-x > 0)
  BY DartsOf
<1>3. Edge' = (Edge \ {e}) \cup {i, j}
  <2>1. D \subseteq Int \ {0} /\ \A d \in D : -d \in D
    BY <1>1, <1>2
  <2>2. Edge' = {Abs(d) : d \in D}
    BY <1>1 DEF Edge
  <2>3. \A x : x \in D <=> (x \in DOMAIN next /\ x # e /\ x # -e) \/ x \in {i, -i, j, -j}
    OBVIOUS
  <2> HIDE DEF D
  <2>4. \A x : x \in Edge' <=> x \in D /\ x > 0
    BY <2>1, <2>2, PositiveDarts
  <2>5. ~(-e > 0) /\ ~(-i > 0) /\ ~(-j > 0) /\ i > 0 /\ j > 0
    BY <1>1, <1>2
  <2> QED BY <1>2, <2>3, <2>4, <2>5
<1>4. ASSUME NEW tg \in TopoGeom
      PROVE  Cov'[tg] =
               [points |-> Cov[tg].points,
                lines |-> (Cov[tg].lines \ {e, -e}) \cup (IF e \in Cov[tg].lines THEN {i, j} ELSE {}),
                area |-> (Cov[tg].area \ {e, -e}) \cup (IF e \in Cov[tg].area THEN {i, j} ELSE {})
                             \cup (IF -e \in Cov[tg].area THEN {-i, -j} ELSE {})]
  <2>1. /\ Cov[tg].points \subseteq Node /\ Cov[tg].lines \subseteq Edge /\ Cov[tg].area \subseteq DOMAIN next
        /\ Cov[tg] = [points |-> Cov[tg].points, lines |-> Cov[tg].lines, area |-> Cov[tg].area]
    BY DEF Covering
  <2>2. /\ Cov'[tg] = [points |-> Cov'[tg].points, lines |-> Cov'[tg].lines, area |-> Cov'[tg].area]
        /\ \A x : x \in Cov'[tg].points <=> x \in Cov[tg].points /\ x \in Node
        /\ \A x : x \in Cov'[tg].lines <=>
                    x \in DOMAIN CutLines(e, i, j) /\ CutLines(e, i, j)[x] \in Cov[tg].lines
        /\ \A x : x \in Cov'[tg].area <=>
                    x \in DOMAIN CutWas(e, i, j) /\ CutWas(e, i, j)[x] \in Cov[tg].area
    BY <1>1, CoveringAfter
  <2>3. Cov'[tg].points = Cov[tg].points
    BY <2>1, <2>2
  <2>4. \A x : x \in Cov'[tg].lines <=>
                 x \in (Cov[tg].lines \ {e, -e}) \cup (IF e \in Cov[tg].lines THEN {i, j} ELSE {})
    <3>1. \A x : x \in Cov'[tg].lines <=>
                   \/ x \in {i, j} /\ e \in Cov[tg].lines
                   \/ x \in Edge /\ x # e /\ x \notin {i, j} /\ x \in Cov[tg].lines
      BY <2>2 DEF CutLines
    <3>2. \A x \in Cov[tg].lines : x \in Edge /\ x # -e /\ (x # e => x \notin {i, j})
      BY <1>1, <1>2, <2>1
    <3> QED BY <3>1, <3>2
  <2>5. \A x : x \in Cov'[tg].area <=>
                 x \in (Cov[tg].area \ {e, -e}) \cup (IF e \in Cov[tg].area THEN {i, j} ELSE {})
                             \cup (IF -e \in Cov[tg].area THEN {-i, -j} ELSE {})
    <3>1. \A x : x \in Cov'[tg].area <=> x \in D /\ WasCut(e, i, j, x) \in Cov[tg].area
      BY <2>2 DEF CutWas
    <3>2. {i, j} \cap {-i, -j} = {}
      BY <1>1
    <3>3. \A x \in DOMAIN next : x # e /\ x # -e => x \notin {i, j} /\ x \notin {-i, -j}
      <4>1. ASSUME NEW x \in DOMAIN next, x # e, x \in {i, j} PROVE FALSE
        BY <1>1, <1>2, <4>1
      <4>2. ASSUME NEW x \in DOMAIN next, x # -e, x \in {-i, -j} PROVE FALSE
        <5>1. -x \in DOMAIN next /\ -x \in {i, j} /\ -x # e
          BY <1>1, <1>2, <4>2
        <5> QED BY <4>1, <5>1
      <4> QED BY <4>1, <4>2
    <3>4. ASSUME NEW x \in {i, j} PROVE x \in Cov'[tg].area <=> e \in Cov[tg].area
      BY <3>1 DEF WasCut
    <3>5. ASSUME NEW x \in {-i, -j} PROVE x \in Cov'[tg].area <=> -e \in Cov[tg].area
      BY <3>1, <3>2 DEF WasCut
    <3>6. ASSUME NEW x, x \notin {i, j}, x \notin {-i, -j}
          PROVE  x \in Cov'[tg].area <=> x \in Cov[tg].area /\ x # e /\ x # -e
      BY <2>1, <3>1, <3>6 DEF WasCut
    <3> HIDE DEF D
    <3> QED BY <2>1, <3>2, <3>3, <3>4, <3>5, <3>6
  <2>6. /\ Cov'[tg].lines =
             (Cov[tg].lines \ {e, -e}) \cup (IF e \in Cov[tg].lines THEN {i, j} ELSE {})
        /\ Cov'[tg].area =
             (Cov[tg].area \ {e, -e}) \cup (IF e \in Cov[tg].area THEN {i, j} ELSE {})
                             \cup (IF -e \in Cov[tg].area THEN {-i, -j} ELSE {})
    BY <2>4, <2>5
  <2> QED BY <2>2, <2>3, <2>6
<1>5. PromiseCut(n, e, i, j)
  <2> DEFINE F == [tg \in TopoGeom |->
               [points |-> Cov[tg].points,
                lines |-> (Cov[tg].lines \ {e, -e}) \cup (IF e \in Cov[tg].lines THEN {i, j} ELSE {}),
                area |-> (Cov[tg].area \ {e, -e}) \cup (IF e \in Cov[tg].area THEN {i, j} ELSE {})
                             \cup (IF -e \in Cov[tg].area THEN {-i, -j} ELSE {})]]
  <2>1. Cov' = F
    <3>1. DOMAIN F = TopoGeom /\ F = [tg \in TopoGeom |-> F[tg]]
      OBVIOUS
    <3>2. \A tg \in TopoGeom : Cov'[tg] = F[tg]
      BY <1>4
    <3> HIDE DEF F
    <3> QED BY <3>1, <3>2, CoveringIs
  <2> QED BY <1>1, <1>3, <2>1 DEF PromiseCut
<1>6. n \in Node' \ Node /\ e \in Edge /\ i \in Edge' /\ j \in Edge'
  BY <1>1, <1>3
<1> QED BY <1>5, <1>6, PromiseActions

\* Two lines that are joined.
LEMMA JoinsPromised ==
  ASSUME Covering, DOMAIN cw = DOMAIN next,
         NEW e1, NEW e2, NEW m, NEW a, NEW b, NEW M, NEW n, JoinsUp(e1, e2, m, a, b, M, n)
  PROVE  Promise!Join
<1> DEFINE lineWas == [k \in (Edge \ {e1, e2}) \cup {m} |-> IF k = m THEN e1 ELSE k]
           D == (DOMAIN next \ {a, -a, b, -b}) \cup {M, -M}
           dartWas == [d \in D |-> IF d = M THEN a ELSE IF d = -M THEN -a ELSE d]
           gone == {a, -a, b, -b}
<1>0. JoinDarts(a, b, M) = D
  BY DEF JoinDarts
<1>1. /\ Brings(Node \ {n}, lineWas, dartWas) /\ Node' = Node \ {n} /\ n \in Node
      /\ DOMAIN next' = D
  BY <1>0 DEF JoinsUp
<1>2. /\ e1 \in Edge /\ e2 \in Edge /\ m \in Nat \ {0} /\ Joins(a, b, M)
      /\ {a, -a} = {e1, -e1} /\ {b, -b} = {e2, -e2} /\ {M, -M} = {m, -m}
      /\ m = e1 \/ m \notin Edge
      /\ region[a] = region[b] /\ region[-a] = region[-b]
      /\ \A tg \in TopoGeom : /\ n \notin Ids(relation, tg, 1)
                              /\ e1 \in Ids(relation, tg, 2) <=> e2 \in Ids(relation, tg, 2)
  BY DEF JoinsUp
<1>3. /\ \A d \in DOMAIN next : d \in Int /\ d # 0 /\ -d \in DOMAIN next
      /\ \A d : d \in DOMAIN next /\ d > 0 => d \in Edge
      /\ Edge \subseteq DOMAIN next
      /\ \A x \in Edge : x \in Int /\ x > 0 /\ ~(-x > 0)
  BY DartsOf
<1>4. /\ a \in Int \ {0} /\ b \in Int \ {0} /\ M \in Int \ {0} /\ b \notin {a, -a}
      /\ gone \subseteq DOMAIN next /\ (M = a \/ {M, -M} \cap DOMAIN next = {})
  BY <1>2 DEF Joins
<1>5. gone = {e1, -e1, e2, -e2}
  BY <1>2
<1>6. Edge' = (Edge \ {e1, e2}) \cup {m}
  <2>1. D \subseteq Int \ {0} /\ \A d \in D : -d \in D
    BY <1>3, <1>4
  <2>2. Edge' = {Abs(d) : d \in D}
    BY <1>1 DEF Edge
  <2>3. \A x : x \in D <=> (x \in DOMAIN next /\ x \notin gone) \/ x \in {m, -m}
    BY <1>2
  <2> HIDE DEF D, gone
  <2>4. \A x : x \in Edge' <=> x \in D /\ x > 0
    BY <2>1, <2>2, PositiveDarts
  <2>5. ~(-e1 > 0) /\ ~(-e2 > 0) /\ ~(-m > 0) /\ m > 0
    BY <1>2, <1>3
  <2> QED BY <1>3, <1>5, <2>3, <2>4, <2>5
<1>7. Edge \cap {a, -a} = {e1} /\ Edge \cap {b, -b} = {e2} /\ Edge' \cap {M, -M} = {m}
  <2>1. -e1 \notin Edge /\ -e2 \notin Edge /\ -m \notin Edge'
    BY <1>2, <1>3, <1>6
  <2> QED BY <1>2, <1>6, <2>1
<1>8. {M, -M} \cap (Edge \ gone) = {} /\ Edge' = (Edge \ gone) \cup (Edge' \cap {M, -M})
  <2>1. \A x \in Edge : x # -e1 /\ x # -e2 /\ x # -m
    BY <1>2, <1>3
  <2>2. Edge \ gone = Edge \ {e1, e2}
    BY <1>5, <2>1
  <2> HIDE DEF gone
  <2>3. {m, -m} \cap (Edge \ {e1, e2}) = {}
    BY <1>2, <2>1
  <2> QED BY <1>2, <1>6, <1>7, <2>2, <2>3
<1>9. ASSUME NEW tg \in TopoGeom
      PROVE  /\ n \notin Cov[tg].points
             /\ {e1} \subseteq Cov[tg].lines <=> {e2} \subseteq Cov[tg].lines
             /\ a \in Cov[tg].area <=> b \in Cov[tg].area
             /\ -a \in Cov[tg].area <=> -b \in Cov[tg].area
             /\ Cov'[tg] =
                  [points |-> Cov[tg].points,
                   lines |-> (Cov[tg].lines \ gone) \cup (IF e1 \in Cov[tg].lines THEN {m} ELSE {}),
                   area |-> (Cov[tg].area \ gone) \cup (IF a \in Cov[tg].area THEN {M} ELSE {})
                                \cup (IF -a \in Cov[tg].area THEN {-M} ELSE {})]
  <2>1. /\ Cov[tg].points \subseteq Node /\ Cov[tg].lines \subseteq Edge
        /\ Cov[tg].area = {d \in DOMAIN next : region[d] \in Ids(relation, tg, 3)}
        /\ Cov[tg].points = Ids(relation, tg, 1) /\ Cov[tg].lines = Ids(relation, tg, 2)
        /\ Cov[tg] = [points |-> Cov[tg].points, lines |-> Cov[tg].lines, area |-> Cov[tg].area]
    BY DEF Covering
  <2>2. /\ n \notin Cov[tg].points
        /\ {e1} \subseteq Cov[tg].lines <=> {e2} \subseteq Cov[tg].lines
        /\ a \in Cov[tg].area <=> b \in Cov[tg].area
        /\ -a \in Cov[tg].area <=> -b \in Cov[tg].area
    BY <1>2, <1>4, <2>1
  <2>a. /\ Cov[tg].area \subseteq DOMAIN next
        /\ \A x \in DOMAIN next : x \notin gone => x # M /\ x # -M
    BY <1>4, <2>1
  <2>b. \A x \in Edge : x # -e1 /\ x # -e2 /\ x # -m
    BY <1>2, <1>3
  <2>c. \A x : x \in Node \ {n} <=> x \in Node /\ x # n
    OBVIOUS
  <2> DEFINE nodes == Node \ {n}
  <2> HIDE DEF lineWas, dartWas, nodes
  <2>3. Brings(nodes, lineWas, dartWas)
    BY <1>1 DEF nodes
  <2>4. /\ Cov'[tg] = [points |-> Cov'[tg].points, lines |-> Cov'[tg].lines, area |-> Cov'[tg].area]
        /\ \A x : x \in Cov'[tg].points <=> x \in Cov[tg].points /\ x \in nodes
        /\ \A x : x \in Cov'[tg].lines <=> x \in DOMAIN lineWas /\ lineWas[x] \in Cov[tg].lines
        /\ \A x : x \in Cov'[tg].area <=> x \in DOMAIN dartWas /\ dartWas[x] \in Cov[tg].area
    BY <2>3, CoveringAfter
  <2>5. Cov'[tg].points = Cov[tg].points
    BY <2>1, <2>2, <2>4, <2>c DEF nodes
  <2>6. \A x : x \in Cov'[tg].lines <=>
                 x \in (Cov[tg].lines \ gone) \cup (IF e1 \in Cov[tg].lines THEN {m} ELSE {})
    <3>1. \A x : x \in Cov'[tg].lines <=>
                   \/ x = m /\ e1 \in Cov[tg].lines
                   \/ x \in Edge /\ x # e1 /\ x # e2 /\ x # m /\ x \in Cov[tg].lines
      BY <2>4 DEF lineWas
    <3>2. \A x \in Cov[tg].lines : x \in gone <=> x = e1 \/ x = e2
      BY <1>5, <2>1, <2>b
    <3>3. \A x \in Cov[tg].lines : x # e1 => x # m
      BY <1>2, <2>1
    <3> HIDE DEF gone
    <3> QED BY <2>1, <3>1, <3>2, <3>3
  <2>7. \A x : x \in Cov'[tg].area <=>
                 x \in (Cov[tg].area \ gone) \cup (IF a \in Cov[tg].area THEN {M} ELSE {})
                                \cup (IF -a \in Cov[tg].area THEN {-M} ELSE {})
    <3>1. /\ DOMAIN dartWas = D
          /\ \A x \in D : dartWas[x] = IF x = M THEN a ELSE IF x = -M THEN -a ELSE x
      BY DEF dartWas
    <3>2. \A x : x \in D <=> (x \in DOMAIN next /\ x \notin gone) \/ x = M \/ x = -M
      OBVIOUS
    <3>3. M # -M
      BY <1>4
    <3> HIDE DEF gone, D
    <3>4. ASSUME NEW x, x = M PROVE x \in Cov'[tg].area <=> a \in Cov[tg].area
      BY <2>4, <3>1, <3>2, <3>4
    <3>5. ASSUME NEW x, x = -M PROVE x \in Cov'[tg].area <=> -a \in Cov[tg].area
      BY <2>4, <3>1, <3>2, <3>3, <3>5
    <3>6. ASSUME NEW x, x # M, x # -M
          PROVE  x \in Cov'[tg].area <=> x \in Cov[tg].area /\ x \notin gone
      BY <2>4, <2>a, <3>1, <3>2, <3>6
    <3> QED BY <2>a, <3>3, <3>4, <3>5, <3>6
  <2> HIDE DEF gone
  <2>8. /\ Cov'[tg].lines = (Cov[tg].lines \ gone) \cup (IF e1 \in Cov[tg].lines THEN {m} ELSE {})
        /\ Cov'[tg].area = (Cov[tg].area \ gone) \cup (IF a \in Cov[tg].area THEN {M} ELSE {})
                                \cup (IF -a \in Cov[tg].area THEN {-M} ELSE {})
    BY <2>6, <2>7
  <2> QED BY <2>2, <2>4, <2>5, <2>8
<1>10. PromiseJoin(n, a, b, M)
  <2> DEFINE F == [tg \in TopoGeom |->
       [points |-> Cov[tg].points,
        lines |-> (Cov[tg].lines \ gone)
                  \cup (IF Edge \cap {a, -a} \subseteq Cov[tg].lines THEN Edge' \cap {M, -M} ELSE {}),
        area |-> (Cov[tg].area \ gone) \cup (IF a \in Cov[tg].area THEN {M} ELSE {})
                               \cup (IF -a \in Cov[tg].area THEN {-M} ELSE {})]]
  <2>1. Cov' = F
    <3>1. DOMAIN F = TopoGeom /\ F = [tg \in TopoGeom |-> F[tg]]
      OBVIOUS
    <3>2. ASSUME NEW tg \in TopoGeom PROVE Cov'[tg] = F[tg]
      <4>1. {e1} \subseteq Cov[tg].lines <=> e1 \in Cov[tg].lines
        OBVIOUS
      <4> HIDE DEF gone
      <4> QED BY <1>7, <1>9, <4>1
    <3> HIDE DEF F
    <3> QED BY <3>1, <3>2, CoveringIs
  <2>2. \A tg \in TopoGeom :
          /\ n \notin Cov[tg].points
          /\ Edge \cap {a, -a} \subseteq Cov[tg].lines <=> Edge \cap {b, -b} \subseteq Cov[tg].lines
          /\ a \in Cov[tg].area <=> b \in Cov[tg].area
          /\ -a \in Cov[tg].area <=> -b \in Cov[tg].area
    BY <1>7, <1>9
  <2> QED BY <1>1, <1>4, <1>8, <2>1, <2>2, Zenon DEF PromiseJoin
<1>11. n \in Node \ Node' /\ a \in Darts(Edge) /\ b \in Darts(Edge) /\ M \in Darts(Edge)'
  <2>1. a \in DOMAIN next /\ b \in DOMAIN next
    BY <1>4
  <2>2. M \in {m, -m} /\ m \in Edge'
    BY <1>2, <1>6
  <2>3. a \in Darts(Edge) /\ b \in Darts(Edge)
    BY <2>1 DEF Covering
  <2>4. M \in Darts(Edge)'
    BY <2>2 DEF Darts
  <2> QED BY <1>1, <2>3, <2>4
<1> QED BY <1>10, <1>11, PromiseActions

\* A topology starts as a drawing of nothing.
LEMMA PromiseInit == Init => Promise!SpecInit
<1> SUFFICES ASSUME Init PROVE Promise!SpecInit
  OBVIOUS
<1>1. Node = {} /\ DOMAIN next = {} /\ DOMAIN region = {} /\ relation = {}
  BY DEF Init, GeomInit, TopoGeomInit, Node
<1>2. Edge = {}
  BY <1>1 DEF Edge
<1>3. \A tg : DrawnAs(relation, tg) = [points |-> {}, lines |-> {}, area |-> {}]
  BY <1>1 DEF DrawnAs
<1> QED BY <1>1, <1>2, <1>3 DEF Promise!SpecInit, Promise!Nothing

\* Every step is one of TopoGeomSpec.
LEMMA PromiseNext ==
  ObjectsInv /\ [Next /\ BackwardRowsGuarded]_vars => [Promise!SpecNext]_(Promise!specVars)
<1> SUFFICES ASSUME ObjectsInv, [Next /\ BackwardRowsGuarded]_vars
             PROVE  [Promise!SpecNext]_(Promise!specVars)
  OBVIOUS
<1>1. ObjectsInv' /\ ((Carrying /\ [Next]_vars /\ Carries) \/ UNCHANGED vars)
  BY ObjectsInvNext
<1>2. CASE UNCHANGED vars
  <2>1. UNCHANGED <<Node, Edge, Cov>>
    BY <1>2 DEF vars, geomVars, tableVars, tgVars, Node, Edge, Cov, DrawnAs
  <2> QED BY <2>1, Zenon DEF Promise!specVars, Cov
<1>3. CASE Carrying /\ Carries
  <2>1. Covering /\ Covering'
    <3>1. (ObjectsInv => Covering)'
      BY ObjectsCovering, PTL
    <3> QED BY <1>1, <3>1, ObjectsCovering
  <2>2. last.edge \in Nat /\ Edge \subseteq 1..last.edge
    BY <1>3, CarryFacts
  <2>3. DOMAIN cw = DOMAIN next
    BY DEF ObjectsInv, FacesInv, IInv, TypeOK, LinksFollowDrawing
  <2>4. Promise!SpecNext
    <3>1. ASSUME NEW n, Marks(n) PROVE Promise!SpecNext
      BY <2>1, <3>1, MarksPromised DEF Promise!SpecNext
    <3>2. ASSUME NEW n, Unmarks(n) PROVE Promise!SpecNext
      BY <2>1, <3>2, UnmarksPromised DEF Promise!SpecNext
    <3>3. ASSUME NEW e, NEW f, DrawsIn(e, f) PROVE Promise!SpecNext
      BY <2>1, <2>2, <3>3, DrawsPromised DEF Promise!SpecNext
    <3>4. ASSUME NEW e, TakesOut(e) PROVE Promise!SpecNext
      BY <2>1, <3>4, TakesPromised DEF Promise!SpecNext
    <3>5. ASSUME NEW e, NEW i, NEW j, NEW n, CutsAt(e, i, j, n) PROVE Promise!SpecNext
      BY <2>1, <3>5, CutsPromised DEF Promise!SpecNext
    <3>6. ASSUME NEW e1, NEW e2, NEW m, NEW a, NEW b, NEW M, NEW n, JoinsUp(e1, e2, m, a, b, M, n)
          PROVE  Promise!SpecNext
      BY <2>1, <2>3, <3>6, JoinsPromised DEF Promise!SpecNext
    <3>7. ASSUME NEW tg, Redefines(tg) PROVE Promise!SpecNext
      BY <2>1, <3>7, RedefinesPromised DEF Promise!SpecNext
    <3> QED BY <1>3, <3>1, <3>2, <3>3, <3>4, <3>5, <3>6, <3>7 DEF Carries
  <2> QED BY <2>4
<1> QED BY <1>1, <1>2, <1>3

\* A topology implements TopoGeomSpec through its relation rows: every edit carries each
\* TopoGeometry over to the new drawing or is refused, and only addElement, remElement and
\* clearTopoGeom change what one covers, but for the removals of an isolated edge that a
\* TopoGeometry walks backward.
THEOREM TopologyImplementsTopoGeomSpec == GuardedSpec => EditsCarryTopoGeoms
<1> QED BY PromiseInit, PromiseNext, ObjectsInvInit, ObjectsInvNext, PTL
        DEF GuardedSpec, EditsCarryTopoGeoms, Promise!TopoGeomSpec

\* Without lineal layers and collections nothing is left out.
THEOREM TopologyWithoutLinesImplementsTopoGeomSpec ==
  ASSUME \A tg \in TopoGeom : FeatureType[tg] \notin {2, 4}
  PROVE  Spec => EditsCarryTopoGeoms /\ []ExtentsPreserved
<1>1. ObjectsInv /\ [Next]_vars => [Next /\ BackwardRowsGuarded]_vars
  <2>1. RowsInv => \A r \in relation : r.type # 2
    BY DEF RowsInv, OfType
  <2> QED BY <2>1 DEF ObjectsInv, BackwardRowsGuarded
<1>2. ObjectsInv => ExtentsPreserved
  BY DEF ObjectsInv, ExtentsDrawn, ExtentsPreserved
<1> QED BY <1>1, <1>2, PromiseInit, PromiseNext, ObjectsInvInit, ObjectsInvNext, PTL
        DEF Spec, EditsCarryTopoGeoms, Promise!TopoGeomSpec

-----------------------------------------------------------------------------
(* Flooding.                                                                 *)

\* The pairs of faces that the edges E have on their sides.
PairsOf(E) == {{side[e], side[-e]} : e \in E}

\* S and the pairs of it that have a face of S.
JoinedTo(pairs, S) == S \cup UNION {p \in pairs : p \cap S # {}}

\* What FloodFaces stands for: the faces reached after as many rounds as there are pairs.
LEMMA FloodRounds ==
  ASSUME NEW E, NEW f, NEW pairs, pairs = PairsOf(E), IsFiniteSet(pairs),
         NEW n, n = Cardinality(pairs)
  PROVE  /\ n \in Nat
         /\ \E grown : /\ grown[0] = {f}
                       /\ \A k \in 1..n : grown[k] = JoinedTo(pairs, grown[k - 1])
                       /\ FloodFaces(E, f) = grown[n]
<1> DEFINE U == {f} \cup UNION pairs
           G == [x \in (SUBSET U) \X (1..n) |-> JoinedTo(pairs, x[1])]
<1>1. n \in Nat
  BY FS_CardinalityType
<1>2. PICK h \in [0..n -> SUBSET U] : Iterates(h, n, {f}, G)
  <2>1. G \in [(SUBSET U) \X (1..n) -> SUBSET U]
    BY DEF JoinedTo
  <2> HIDE DEF G
  <2>2. {f} \in SUBSET U
    OBVIOUS
  <2> HIDE DEF U
  <2> QED BY <1>1, <2>1, <2>2, Recursion
<1>3. h = [i \in 0..n |-> IF i = 0 THEN {f} ELSE JoinedTo(pairs, h[i - 1])]
  <2>1. ASSUME NEW k \in 1..n PROVE h[k] = JoinedTo(pairs, h[k - 1])
    <3>1. k - 1 \in 0..n /\ h[k - 1] \in SUBSET U
      <4>1. k - 1 \in 0..n
        BY <1>1
      <4> HIDE DEF U, G
      <4>2. h \in [0..n -> SUBSET U]
        BY <1>2
      <4> QED BY <4>1, <4>2
    <3> QED BY <1>2, <3>1 DEF Iterates
  <2> HIDE DEF U, G
  <2> QED BY <1>1, <1>2, <2>1 DEF Iterates
<1> DEFINE st == CHOOSE g : g = [i \in 0..n |-> IF i = 0 THEN {f} ELSE JoinedTo(pairs, g[i - 1])]
<1>4. st = [i \in 0..n |-> IF i = 0 THEN {f} ELSE JoinedTo(pairs, st[i - 1])]
  BY <1>3, Zenon
<1>5. FloodFaces(E, f) = st[n]
  BY <1>1 DEF FloodFaces, JoinedTo, PairsOf
<1> HIDE DEF st
<1>6. st[0] = {f} /\ \A k \in 1..n : st[k] = JoinedTo(pairs, st[k - 1])
  <2>1. 0 \in 0..n /\ \A k \in 1..n : k \in 0..n /\ k # 0
    BY <1>1
  <2> QED BY <1>4, <2>1, Zenon
<1> QED BY <1>1, <1>5, <1>6

\* FloodFaces(E, f) is the least set with f that the deletion of E does not lead out of.
LEMMA FloodIsLeast ==
  ASSUME NEW E, IsFiniteSet(E), NEW f, NEW F, F = FloodFaces(E, f)
  PROVE  /\ f \in F
         /\ \A e \in E : side[e] \in F <=> side[-e] \in F
         /\ \A X : f \in X /\ (\A e \in E : side[e] \in X <=> side[-e] \in X) => F \subseteq X
<1>p. PICK pairs : pairs = PairsOf(E)
  OBVIOUS
<1>n. PICK n : n = Cardinality(pairs)
  OBVIOUS
<1>1. IsFiniteSet(pairs)
  <2> DEFINE h == [e \in E |-> {side[e], side[-e]}]
  <2>1. h \in Surjection(E, pairs)
    BY <1>p DEF Surjection, PairsOf
  <2> HIDE DEF h
  <2> QED BY <2>1, FS_Surjection
<1>2. /\ n \in Nat
      /\ \E grown : /\ grown[0] = {f}
                    /\ \A k \in 1..n : grown[k] = JoinedTo(pairs, grown[k - 1])
                    /\ F = grown[n]
  <2>1. /\ n \in Nat
        /\ \E grown : /\ grown[0] = {f}
                      /\ \A k \in 1..n : grown[k] = JoinedTo(pairs, grown[k - 1])
                      /\ FloodFaces(E, f) = grown[n]
    BY <1>p, <1>n, <1>1, FloodRounds
  <2> QED BY <2>1
<1>3. PICK grown : /\ grown[0] = {f}
                   /\ \A k \in 1..n : grown[k] = JoinedTo(pairs, grown[k - 1])
                   /\ F = grown[n]
  BY <1>2
<1>4. ASSUME NEW k \in 0..n, k < n PROVE grown[k + 1] = JoinedTo(pairs, grown[k]) /\ k + 1 \in 0..n
  <2>1. k + 1 \in 1..n /\ (k + 1) - 1 = k
    BY <1>2, <1>4
  <2> QED BY <1>2, <1>3, <2>1
<1> DEFINE Stable(S) == \A p \in pairs : p \cap S # {} => p \subseteq S
           PairsIn(S) == {p \in pairs : p \subseteq S}
<1>5. \A S : S \subseteq JoinedTo(pairs, S) /\ (Stable(S) => JoinedTo(pairs, S) = S)
  BY DEF JoinedTo
<1>6. ASSUME NEW S, ~Stable(S) PROVE PairsIn(S) \subseteq PairsIn(JoinedTo(pairs, S)) /\ PairsIn(S) # PairsIn(JoinedTo(pairs, S))
  <2>1. PICK p \in pairs : p \cap S # {} /\ ~(p \subseteq S)
    BY <1>6
  <2>2. p \in PairsIn(JoinedTo(pairs, S)) /\ p \notin PairsIn(S)
    BY <2>1 DEF JoinedTo
  <2> QED BY <1>5, <2>2
<1>7. ASSUME NEW S PROVE PairsIn(S) \in SUBSET pairs /\ IsFiniteSet(PairsIn(S)) /\ Cardinality(PairsIn(S)) \in Nat
  <2>1. PairsIn(S) \in SUBSET pairs
    OBVIOUS
  <2> HIDE DEF PairsIn
  <2> QED BY <1>1, <2>1, FS_Subset, FS_CardinalityType
<1> DEFINE V == {k \in 0..n : Stable(grown[k]) \/ Cardinality(PairsIn(grown[k])) >= k}
<1>8. 0..n \subseteq V
  <2>1. 0 \in V
    <3>1. Cardinality(PairsIn(grown[0])) >= 0
      <4> HIDE DEF PairsIn
      <4> QED BY <1>7
    <3> QED BY <1>2, <3>1
  <2>2. ASSUME NEW k \in 0..n, k < n, k \in V PROVE k + 1 \in V
    <3>1. CASE Stable(grown[k])
      BY <1>4, <1>5, <2>2, <3>1
    <3>2. CASE ~Stable(grown[k])
      <4>1. PairsIn(grown[k]) \subseteq PairsIn(grown[k + 1]) /\ PairsIn(grown[k]) # PairsIn(grown[k + 1])
        BY <1>4, <1>6, <2>2, <3>2
      <4> HIDE DEF PairsIn
      <4>2. Cardinality(PairsIn(grown[k])) <= Cardinality(PairsIn(grown[k + 1]))
            /\ Cardinality(PairsIn(grown[k])) # Cardinality(PairsIn(grown[k + 1]))
        BY <1>7, <4>1, FS_Subset
      <4>3. Cardinality(PairsIn(grown[k])) >= k
        BY <2>2, <3>2
      <4>4. Cardinality(PairsIn(grown[k + 1])) >= k + 1
        BY <1>7, <4>2, <4>3
      <4> QED BY <1>4, <2>2, <4>4
    <3> QED BY <3>1, <3>2
  <2> HIDE DEF V
  <2> QED BY <1>2, <2>1, <2>2, UpTo
<1>9. Stable(F)
  <2>1. CASE Cardinality(PairsIn(F)) >= n
    <3>1. Cardinality(PairsIn(F)) <= n /\ (Cardinality(pairs) = Cardinality(PairsIn(F)) => pairs = PairsIn(F))
      <4> HIDE DEF PairsIn
      <4> QED BY <1>1, <1>7, <1>n, FS_Subset
    <3>2. PairsIn(F) = pairs
      <4> HIDE DEF PairsIn
      <4> QED BY <1>2, <1>7, <1>n, <2>1, <3>1
    <3> QED BY <3>2
  <2>2. n \in V
    BY <1>2, <1>8
  <2> QED BY <1>3, <2>1, <2>2
<1>10. f \in F
  <2> DEFINE W == {k \in 0..n : f \in grown[k]}
  <2>1. 0 \in W
    BY <1>2, <1>3
  <2>2. ASSUME NEW k \in 0..n, k < n, k \in W PROVE k + 1 \in W
    BY <1>4, <1>5, <2>2
  <2>3. 0..n \subseteq W
    <3> HIDE DEF W
    <3> QED BY <1>2, <2>1, <2>2, UpTo
  <2> QED BY <1>2, <1>3, <2>3
<1>11. ASSUME NEW X, f \in X, \A e \in E : side[e] \in X <=> side[-e] \in X PROVE F \subseteq X
  <2> DEFINE W == {k \in 0..n : grown[k] \subseteq X}
  <2>0. \A p \in pairs : p \cap X # {} => p \subseteq X
    BY <1>p, <1>11 DEF PairsOf
  <2>1. 0 \in W
    BY <1>2, <1>3, <1>11
  <2>2. ASSUME NEW k \in 0..n, k < n, k \in W PROVE k + 1 \in W
    <3>1. JoinedTo(pairs, grown[k]) \subseteq X
      BY <2>0, <2>2 DEF JoinedTo
    <3> QED BY <1>4, <2>2, <3>1
  <2>3. 0..n \subseteq W
    <3> HIDE DEF W
    <3> QED BY <1>2, <2>1, <2>2, UpTo
  <2> QED BY <1>2, <1>3, <2>3
<1>12. \A e \in E : side[e] \in F <=> side[-e] \in F
  <2> SUFFICES ASSUME NEW e \in E PROVE side[e] \in F <=> side[-e] \in F
    OBVIOUS
  <2>1. {side[e], side[-e]} \in pairs
    BY <1>p DEF PairsOf
  <2> QED BY <1>9, <2>1
<1> QED BY <1>10, <1>11, <1>12

\* The deletion of darts G, with faces s on their left, does not lead out of X.
Apart(G, s, X) == \A d \in G : s[d] \in X <=> s[-d] \in X

\* The faces that become one.
Merging(m) == m.merge \cup {m.keep}

\* merged lists what of the faces F becomes one when the curves of G go.
MergesOf(merged, G, s, F) ==
  /\ \A m \in merged : /\ \A x \in m.merge : m.keep < x
                       /\ Merging(m) \subseteq F
                       /\ Apart(G, s, Merging(m))
                       /\ \A X : Apart(G, s, X) /\ X \cap Merging(m) # {} => Merging(m) \subseteq X
  /\ \A d \in G : s[d] # s[-d] => \E m \in merged : s[d] \in Merging(m)

\* mu gives a face of F the name of the lowest face of those it is one with once the
\* curves of H are gone, which are some of G.
Lowers(mu, F, G, H, s) ==
  /\ mu \in [F -> F]
  /\ \A f \in F : mu[f] <= f
  /\ \A X : Apart(G, s, X) => \A f \in F : f \in X <=> mu[f] \in X
  /\ \A d \in H : mu[s[d]] = mu[s[-d]]

\* Lowest is what it says.
LEMMA LowestIsLeast ==
  ASSUME NEW S, S \subseteq Nat, S # {}
  PROVE  Lowest(S) \in S /\ \A y \in S : Lowest(S) <= y
<1>1. \E m \in S : \A k \in S : m <= k
  BY Least
<1> QED BY <1>1 DEF Lowest

\* The faces that the deletion of E joins to the left of one of its darts.
LEMMA FloodJoins ==
  ASSUME NEW E, IsFiniteSet(E), E \subseteq Nat, NEW F, \A d \in Darts(E) : side[d] \in F,
         NEW d \in Darts(E), NEW S, S = FloodFaces(E, side[d])
  PROVE  /\ side[d] \in S /\ S \subseteq F /\ Apart(Darts(E), side, S)
         /\ \A X : Apart(Darts(E), side, X) /\ X \cap S # {} => S \subseteq X
<1>0. \A X : Apart(Darts(E), side, X) <=> \A e \in E : side[e] \in X <=> side[-e] \in X
  <2> SUFFICES ASSUME NEW X
               PROVE  Apart(Darts(E), side, X) <=> \A e \in E : side[e] \in X <=> side[-e] \in X
    OBVIOUS
  <2>1. \A e \in E : -(-e) = e
    OBVIOUS
  <2> QED BY <2>1 DEF Apart, Darts
<1>1. /\ side[d] \in S
      /\ \A e \in E : side[e] \in S <=> side[-e] \in S
      /\ \A X : side[d] \in X /\ (\A e \in E : side[e] \in X <=> side[-e] \in X) => S \subseteq X
  <2>1. PICK f : f = side[d]
    OBVIOUS
  <2>2. S = FloodFaces(E, f)
    BY <2>1
  <2>3. /\ f \in S
        /\ \A e \in E : side[e] \in S <=> side[-e] \in S
        /\ \A X : f \in X /\ (\A e \in E : side[e] \in X <=> side[-e] \in X) => S \subseteq X
    BY <2>2, FloodIsLeast
  <2> QED BY <2>1, <2>3
<1>2. Apart(Darts(E), side, S) /\ \A X : side[d] \in X /\ Apart(Darts(E), side, X) => S \subseteq X
  BY <1>0, <1>1
<1>3. S \subseteq F
  <2>1. \A x \in Darts(E) : side[x] \in F /\ side[-x] \in F
    BY DEF Darts
  <2>2. Apart(Darts(E), side, F)
    BY <2>1 DEF Apart
  <2> QED BY <1>2, <2>2
<1>4. ASSUME NEW X, Apart(Darts(E), side, X), X \cap S # {} PROVE S \subseteq X
  <2>1. CASE side[d] \in X
    BY <1>2, <1>4, <2>1
  <2>2. CASE side[d] \notin X
    <3>1. Apart(Darts(E), side, S \ X)
      BY <1>2, <1>4 DEF Apart
    <3>2. side[d] \in S \ X
      BY <1>1, <2>2
    <3>3. S \subseteq S \ X
      BY <1>2, <3>1, <3>2
    <3> QED BY <1>4, <3>3
  <2> QED BY <2>1, <2>2
<1> QED BY <1>1, <1>2, <1>3, <1>4

\* What RemoveUnusedPrimitives lists as merged_faces.
LEMMA MergedFacesMerge ==
  ASSUME NEW E, IsFiniteSet(E), E \subseteq Nat, NEW F, F \subseteq Nat, IsFiniteSet(F),
         \A d \in Darts(E) : side[d] \in F
  PROVE  MergesOf(MergedFaces(E), Darts(E), side, F)
<1>1. \A d \in Darts(E) : \A S : S = FloodFaces(E, side[d]) =>
        /\ side[d] \in S /\ S \subseteq F /\ Apart(Darts(E), side, S)
        /\ \A X : Apart(Darts(E), side, X) /\ X \cap S # {} => S \subseteq X
  BY FloodJoins
<1>2. ASSUME NEW m \in MergedFaces(E)
      PROVE  /\ \A x \in m.merge : m.keep < x
             /\ Merging(m) \subseteq F
             /\ Apart(Darts(E), side, Merging(m))
             /\ \A X : Apart(Darts(E), side, X) /\ X \cap Merging(m) # {} => Merging(m) \subseteq X
  <2>1. PICK d, S : /\ d \in Darts(E) /\ S = FloodFaces(E, side[d])
                    /\ m = [keep |-> Lowest(S), merge |-> S \ {Lowest(S)}]
    BY DEF MergedFaces
  <2>2. /\ side[d] \in S /\ S \subseteq F /\ Apart(Darts(E), side, S)
        /\ \A X : Apart(Darts(E), side, X) /\ X \cap S # {} => S \subseteq X
    BY <1>1, <2>1
  <2>3. Lowest(S) \in S /\ \A y \in S : Lowest(S) <= y
    BY <2>2, LowestIsLeast
  <2>4. Merging(m) = S
    BY <2>1, <2>3 DEF Merging
  <2>5. \A x \in m.merge : m.keep < x
    <3>1. m.merge = S \ {Lowest(S)} /\ m.keep = Lowest(S)
      BY <2>1
    <3>2. \A x \in S : x \in Nat
      BY <2>2
    <3> QED BY <2>3, <3>1, <3>2
  <2> QED BY <2>2, <2>4, <2>5
<1>3. ASSUME NEW d \in Darts(E), side[d] # side[-d]
      PROVE  \E m \in MergedFaces(E) : side[d] \in Merging(m)
  <2>1. PICK S : S = FloodFaces(E, side[d])
    OBVIOUS
  <2>2. side[d] \in S /\ S \subseteq F /\ Apart(Darts(E), side, S)
    BY <1>1, <2>1
  <2>3. {side[d], side[-d]} \subseteq S
    BY <2>2 DEF Apart
  <2>4. IsFiniteSet(S) /\ Cardinality(S) \in Nat
    BY <2>2, FS_Subset, FS_CardinalityType
  <2>5. Cardinality(S) # 0 /\ Cardinality(S) # 1
    BY <1>3, <2>3, <2>4, FS_EmptySet, FS_Singleton
  <2>6. Cardinality(S) > 1
    BY <2>4, <2>5
  <2>7. Lowest(S) \in S
    BY <2>2, LowestIsLeast
  <2>8. PICK m : m = [keep |-> Lowest(S), merge |-> S \ {Lowest(S)}]
    OBVIOUS
  <2>9. m \in MergedFaces(E)
    BY <2>1, <2>6, <2>8 DEF MergedFaces
  <2>10. side[d] \in Merging(m)
    BY <2>2, <2>8 DEF Merging
  <2> QED BY <2>9, <2>10
<1> QED BY <1>2, <1>3 DEF MergesOf

\* Erasing one more curve gives the two faces on its sides the lower name.
LEMMA OneMoreLowered ==
  ASSUME NEW F, F \subseteq Nat, NEW G, NEW H, NEW s, NEW mu, Lowers(mu, F, G, H, s),
         NEW e, e \in G, -e \in G, -(-e) = e, \A d \in G : s[d] \in F /\ s[-d] \in F, H \subseteq G,
         NEW f, f \in {mu[s[e]], mu[s[-e]]}, f <= mu[s[e]], f <= mu[s[-e]],
         NEW nu, nu = [g \in F |-> IF mu[g] \in {mu[s[e]], mu[s[-e]]} THEN f ELSE mu[g]]
  PROVE  Lowers(nu, F, G, H \cup {e, -e}, s)
<1>1. /\ mu \in [F -> F] /\ \A g \in F : mu[g] <= g
      /\ \A X : Apart(G, s, X) => \A g \in F : g \in X <=> mu[g] \in X
      /\ \A d \in H : mu[s[d]] = mu[s[-d]]
  BY DEF Lowers
<1>2. s[e] \in F /\ s[-e] \in F /\ mu[s[e]] \in F /\ mu[s[-e]] \in F /\ f \in F
  BY <1>1
<1>3. nu \in [F -> F]
  BY <1>1, <1>2
<1>4. \A g \in F : nu[g] <= g
  <2> SUFFICES ASSUME NEW g \in F PROVE nu[g] <= g
    OBVIOUS
  <2>1. nu[g] <= mu[g] /\ mu[g] <= g
    <3>1. mu[g] \in Nat /\ mu[g] <= g
      BY <1>1
    <3>2. nu[g] = IF mu[g] \in {mu[s[e]], mu[s[-e]]} THEN f ELSE mu[g]
      OBVIOUS
    <3> QED BY <3>1, <3>2
  <2>2. mu[g] \in Nat /\ nu[g] \in Nat /\ g \in Nat
    BY <1>1, <1>3
  <2> QED BY <2>1, <2>2
<1>5. ASSUME NEW X, Apart(G, s, X), NEW g \in F PROVE g \in X <=> nu[g] \in X
  <2>1. mu[s[e]] \in X <=> mu[s[-e]] \in X
    BY <1>1, <1>2, <1>5 DEF Apart
  <2> QED BY <1>1, <1>5, <2>1
<1>6. \A d \in H \cup {e, -e} : nu[s[d]] = nu[s[-d]]
  BY <1>1, <1>2
<1> QED BY <1>3, <1>4, <1>5, <1>6 DEF Lowers

\* When all of them are gone, the names are those that merged_faces says to keep.
LEMMA AllLowered ==
  ASSUME NEW F, F \subseteq Nat, NEW G, NEW s, NEW mu, Lowers(mu, F, G, G, s),
         \A d \in G : -d \in G /\ s[d] \in F, NEW merged, MergesOf(merged, G, s, F)
  PROVE  \A f \in F : /\ mu[f] = Kept(merged, f)
                      /\ \A m \in merged : mu[f] \notin m.merge /\ (f \in m.merge => mu[f] = m.keep)
<1>1. /\ mu \in [F -> F] /\ \A g \in F : mu[g] <= g
      /\ \A X : Apart(G, s, X) => \A g \in F : g \in X <=> mu[g] \in X
      /\ \A d \in G : mu[s[d]] = mu[s[-d]]
  BY DEF Lowers
<1>2. \A m \in merged : /\ \A x \in m.merge : m.keep < x
                        /\ Merging(m) \subseteq F
                        /\ Apart(G, s, Merging(m))
                        /\ \A X : Apart(G, s, X) /\ X \cap Merging(m) # {} => Merging(m) \subseteq X
  BY DEF MergesOf
<1>3. ASSUME NEW f \in F, NEW m \in merged, f \in Merging(m) PROVE mu[f] = m.keep
  <2>1. PICK X : X = {g \in F : mu[g] = mu[f]}
    OBVIOUS
  <2>2. Apart(G, s, X)
    BY <1>1, <2>1 DEF Apart
  <2>3. Merging(m) \subseteq X
    BY <1>2, <1>3, <2>1, <2>2
  <2>4. m.keep \in F /\ mu[m.keep] = mu[f] /\ mu[f] <= m.keep
    BY <1>1, <2>1, <2>3 DEF Merging
  <2>5. mu[f] \in Merging(m)
    BY <1>1, <1>2, <1>3
  <2>6. mu[f] \notin m.merge
    <3>1. mu[f] \in Nat /\ m.keep \in Nat
      BY <1>1, <2>4
    <3> QED BY <1>2, <2>4, <3>1
  <2> QED BY <2>5, <2>6 DEF Merging
<1>4. ASSUME NEW f \in F, \A m \in merged : f \notin Merging(m) PROVE mu[f] = f
  <2>1. Apart(G, s, {f})
    <3> SUFFICES ASSUME NEW d \in G PROVE s[d] = f <=> s[-d] = f
      BY DEF Apart
    <3>1. CASE s[d] = s[-d]
      BY <3>1
    <3>2. CASE s[d] # s[-d]
      <4>1. PICK m \in merged : s[d] \in Merging(m)
        BY <3>2 DEF MergesOf
      <4>2. s[-d] \in Merging(m)
        BY <1>2, <4>1 DEF Apart
      <4> QED BY <1>4, <4>1, <4>2
    <3> QED BY <3>1, <3>2
  <2> QED BY <1>1, <2>1
<1>5. ASSUME NEW f \in F PROVE mu[f] = Kept(merged, f)
  <2>1. CASE \E m \in merged : f \in m.merge
    <3>1. PICK m \in merged : m = (CHOOSE k \in merged : f \in k.merge) /\ f \in m.merge
      BY <2>1
    <3>2. Kept(merged, f) = m.keep
      BY <2>1, <3>1 DEF Kept
    <3>3. f \in Merging(m)
      BY <3>1 DEF Merging
    <3> QED BY <1>3, <3>2, <3>3
  <2>2. CASE ~\E m \in merged : f \in m.merge
    <3>1. Kept(merged, f) = f
      BY <2>2 DEF Kept
    <3>2. CASE \E m \in merged : f \in Merging(m)
      <4>1. PICK m \in merged : f \in Merging(m)
        BY <3>2
      <4>2. f = m.keep
        BY <2>2, <4>1 DEF Merging
      <4> QED BY <1>3, <3>1, <4>1, <4>2
    <3>3. CASE ~\E m \in merged : f \in Merging(m)
      BY <1>4, <3>1, <3>3
    <3> QED BY <3>2, <3>3
  <2> QED BY <2>1, <2>2
<1>6. ASSUME NEW f \in F, NEW m \in merged, mu[f] \in m.merge PROVE FALSE
  <2>1. f \in Merging(m)
    <3>1. mu[f] \in Merging(m)
      BY <1>6 DEF Merging
    <3> QED BY <1>1, <1>2, <3>1
  <2>2. mu[f] = m.keep /\ m.keep < mu[f] /\ mu[f] \in Nat
    BY <1>1, <1>2, <1>3, <1>6, <2>1
  <2> QED BY <2>2
<1>7. \A f \in F, m \in merged : f \in m.merge => mu[f] = m.keep
  BY <1>3 DEF Merging
<1> QED BY <1>5, <1>6, <1>7

-----------------------------------------------------------------------------
(* The tables while edges are deleted, compared with what they were: c, s and o are  *)
(* the drawing's rotation, the faces and the nodes of the darts before.              *)

\* They were the tables of a drawing.
WasDrawn(c, s, o) ==
  /\ Rotates(c, DOMAIN c) /\ DartSet(DOMAIN c, last.edge) /\ OneTurn(c, o)
  /\ \A x \in DOMAIN c : o[c[x]] = o[x] /\ s[c[-x]] = s[x] /\ o[x] \in Node /\ s[x] \in face \cup {0}
  /\ DOMAIN o = DOMAIN c
  /\ last \in [node : Nat, edge : Nat, face : Nat]
  /\ Node \subseteq 1..last.node /\ face \subseteq 1..last.face /\ relation \subseteq Row
  /\ \A n \in Node : /\ containing[n] \in face \cup {0, None}
                     /\ containing[n] = None <=> \E d \in DOMAIN c : o[d] = n

\* The darts of the edges in deleted_edges, and those that are no longer drawn.
Deleted == DOMAIN job.old.next
Gone(c) == DOMAIN c \ DOMAIN cw

\* deleted_edges and merged_faces say what the deleted edges were.
Listed(c, s, o) ==
  /\ job = [phase |-> job.phase, box |-> job.box, old |-> job.old, merged |-> job.merged, todo |-> job.todo]
  /\ Deleted \subseteq DOMAIN c /\ DOMAIN job.old.side = Deleted /\ DOMAIN job.old.org = Deleted
  /\ \A d \in Deleted : /\ -d \in Deleted /\ job.old.next[d] = c[-d]
                        /\ job.old.side[d] = s[d] /\ job.old.org[d] = o[d]
  /\ MergesOf(job.merged, Deleted, s, face \cup {0})

\* The other rows are as they were, but for next, and what they are the rows of is drawn.
Erased(c, s, o) ==
  /\ DOMAIN cw \subseteq DOMAIN c /\ Gone(c) \subseteq Deleted
  /\ next = [d \in DOMAIN cw |-> next[d]]
  /\ side = [d \in DOMAIN cw |-> s[d]]
  /\ org = [d \in DOMAIN cw |-> o[d]]
  /\ Planar(cw, DOMAIN cw, hole, region) /\ OneTurn(cw, org)
  /\ \A d \in DOMAIN cw : o[cw[d]] = o[d]

\* mu names the regions that the faces are part of now.
Regions(c, s, o, mu) ==
  /\ Lowers(mu, face \cup {0}, Deleted, Gone(c), s)
  /\ region = [d \in DOMAIN cw |-> mu[s[d]]]
  /\ \A f \in face : mu[f] # 0 => HasShell(DOMAIN cw, hole, region, mu[f])
  /\ DOMAIN isoRegion = {n \in Node : \A d \in DOMAIN cw : o[d] # n}
  /\ \A n \in DOMAIN isoRegion :
       IF containing[n] # None THEN isoRegion[n] = mu[containing[n]]
       ELSE \E d \in DOMAIN c : o[d] = n /\ isoRegion[n] = mu[s[d]]

\* Turning clockwise from dart y for as long as the dart is in G leads to z.
Reaches(c, G, y, z) == \A X : y \in X /\ (\A x \in X \cap G : c[x] \in X) => z \in X

\* How far the links are mended.
Mending(c) ==
  /\ \A d \in DOMAIN cw : Reaches(c, Gone(c), next[d], cw[-d])
  /\ IF job.phase = "delete"
     THEN /\ job.todo \subseteq Nat /\ job.todo # {} /\ Darts(job.todo) = Deleted \cap DOMAIN cw
          /\ \A d \in DOMAIN cw : next[d] = c[-d]
     ELSE Deleted \cap DOMAIN cw = {}
  /\ job.phase \in {"left", "faces"} => \A d \in DOMAIN cw : d < 0 => next[d] = cw[-d]
  /\ job.phase = "faces" => \A d \in DOMAIN cw : d > 0 => next[d] = cw[-d]

\* Between two statements of RemoveUnusedPrimitives that leave the tables inconsistent.
Deleting(c, s, o, mu) == WasDrawn(c, s, o) /\ Listed(c, s, o) /\ Erased(c, s, o) /\ Regions(c, s, o, mu) /\ Mending(c)

\* The invariant of the whole function.
CleanupInv ==
  \/ job.phase \in {"idle", "nodes", "heal", "returned"} /\ "phase" \in DOMAIN job /\ FacesInv
  \/ job.phase \in {"delete", "right", "left", "faces"} /\ \E c, s, o, mu : Deleting(c, s, o, mu)

-----------------------------------------------------------------------------
(* RemoveUnusedPrimitives begins. *)

\* Every dart of the drawing was one of a table before, and at first none is gone.
LEMMA NothingGone ==
  ASSUME FacesInv
  PROVE  /\ WasDrawn(cw, side, org)
         /\ DOMAIN cw \ DOMAIN cw = {} /\ next = [d \in DOMAIN cw |-> next[d]]
         /\ side = [d \in DOMAIN cw |-> side[d]] /\ org = [d \in DOMAIN cw |-> org[d]]
         /\ Planar(cw, DOMAIN cw, hole, region) /\ OneTurn(cw, org)
         /\ \A d \in DOMAIN cw : org[cw[d]] = org[d] /\ next[d] = cw[-d]
         /\ DartSet(DOMAIN cw, last.edge)
<1>1. /\ DOMAIN next = DOMAIN cw /\ DOMAIN side = DOMAIN cw /\ DOMAIN org = DOMAIN cw
      /\ DOMAIN region = DOMAIN cw /\ Rotates(cw, DOMAIN cw) /\ side = region
      /\ \A x \in DOMAIN cw : org[x] \in Node
      /\ \A n \in Node : n \in DOMAIN isoRegion <=> Leaving(n) = {}
      /\ \A n \in Node : containing[n] = IF n \in DOMAIN isoRegion THEN isoRegion[n] ELSE None
  BY PlaneTypes
<1>2. /\ IInv /\ cw \in [DOMAIN cw -> DOMAIN cw] /\ OneTurn(cw, org)
      /\ Planar(cw, DOMAIN cw, hole, region) /\ RegionsAreFaces
  BY DEF FacesInv, TurnsInv, PlaneInv
<1>3. \A d \in DOMAIN cw : org[cw[d]] = org[d]
  BY <1>2, DrawingRotates
<1>4. DartSet(DOMAIN cw, last.edge)
  BY <1>1, <1>2, DartsTyped DEF IInv
<1>5. \A x \in DOMAIN cw : side[cw[-x]] = side[x] /\ side[x] \in face \cup {0}
  BY <1>1, <1>2 DEF Planar, OneRegion, RegionsAreFaces
<1>6. \A n \in Node : /\ containing[n] \in face \cup {0, None}
                      /\ containing[n] = None <=> \E d \in DOMAIN cw : org[d] = n
  <2> SUFFICES ASSUME NEW n \in Node
               PROVE  /\ containing[n] \in face \cup {0, None}
                      /\ containing[n] = None <=> \E d \in DOMAIN cw : org[d] = n
    OBVIOUS
  <2>1. containing[n] \in face \cup {0, None}
    BY <1>1, <1>2 DEF RegionsAreFaces
  <2>2. containing[n] # None <=> Leaving(n) = {}
    BY <1>2 DEF IInv, IsolatedNodesBare
  <2> QED BY <1>1, <2>1, <2>2 DEF Leaving
<1>7. /\ last \in [node : Nat, edge : Nat, face : Nat]
      /\ Node \subseteq 1..last.node /\ face \subseteq 1..last.face /\ relation \subseteq Row
      /\ next \in [DOMAIN next -> Int] /\ side \in [DOMAIN next -> Nat] /\ org \in [DOMAIN next -> Node]
  BY <1>2 DEF IInv, TypeOK
<1>8. \A d \in DOMAIN cw : next[d] = cw[-d]
  BY <1>1, <1>2 DEF IInv, LinksFollowDrawing
<1>9. WasDrawn(cw, side, org)
  BY <1>1, <1>2, <1>3, <1>4, <1>5, <1>6, <1>7 DEF WasDrawn
<1> QED BY <1>1, <1>2, <1>3, <1>4, <1>7, <1>8, <1>9

\* The edges that are found unused are edges.
LEMMA UnusedAreEdges == ASSUME DOMAIN org = DOMAIN next, NEW box \in Boxes PROVE UnusedEdges(box) \subseteq Edge
<1>1. box.edges \subseteq Edge
  <2>1. CASE box = Everything
    BY <2>1 DEF Everything
  <2>2. CASE box \in {[whole |-> FALSE, edges |-> {e}, nodes |-> {}] : e \in Edge}
    BY <2>2
  <2>3. CASE box \in {[whole |-> FALSE, edges |-> {Abs(d) : d \in Leaving(n)}, nodes |-> {n}] : n \in Node}
    BY <2>3 DEF Leaving, Edge
  <2> QED BY <2>1, <2>2, <2>3 DEF Boxes
<1> QED BY <1>1 DEF UnusedEdges, Unreferenced

\* Nothing is gone at first, and every face has its own name.
LEMMA CleanupStarts ==
  ASSUME FacesInv, NEW box \in Boxes, RemoveUnusedPrimitives(box)
  PROVE  job'.phase \in {"delete", "right"} /\ \E c, s, o, mu : Deleting(c, s, o, mu)'
<1>1. PICK c, s, o : c = cw /\ s = side /\ o = org
  OBVIOUS
<1>2. PICK E : E = UnusedEdges(box)
  OBVIOUS
<1>3. /\ job' = [phase |-> IF E = {} THEN "right" ELSE "delete",
                 box |-> box,
                 old |-> [next |-> [d \in Darts(E) |-> next[d]],
                          side |-> [d \in Darts(E) |-> side[d]],
                          org |-> [d \in Darts(E) |-> org[d]]],
                 merged |-> MergedFaces(E),
                 todo |-> E]
      /\ UNCHANGED vars
  BY <1>2 DEF RemoveUnusedPrimitives
<1>4. PICK F : F = face \cup {0}
  OBVIOUS
<1>5. PICK mu : mu = [f \in F |-> f]
  OBVIOUS
<1>6. /\ cw' = cw /\ hole' = hole /\ region' = region /\ isoRegion' = isoRegion
      /\ next' = next /\ side' = side /\ org' = org /\ containing' = containing
      /\ face' = face /\ last' = last /\ relation' = relation
  BY <1>3 DEF vars, geomVars, tgVars, tableVars
<1>7. Node' = Node
  BY <1>6 DEF Node
<1>8. /\ WasDrawn(c, s, o)
      /\ next = [d \in DOMAIN cw |-> next[d]] /\ side = [d \in DOMAIN cw |-> s[d]]
      /\ org = [d \in DOMAIN cw |-> o[d]]
      /\ Planar(cw, DOMAIN cw, hole, region) /\ OneTurn(cw, org)
      /\ \A d \in DOMAIN cw : o[cw[d]] = o[d] /\ next[d] = cw[-d]
      /\ DartSet(DOMAIN cw, last.edge)
  BY <1>1, NothingGone
<1>9. /\ E \subseteq Nat /\ IsFiniteSet(E) /\ Darts(E) \subseteq DOMAIN cw /\ \A d \in Darts(E) : -d \in Darts(E)
  <2>1. TypeOK /\ DOMAIN next = DOMAIN cw /\ DOMAIN org = DOMAIN next
    BY PlaneTypes DEF FacesInv, IInv
  <2>2. E \subseteq Edge
    BY <1>2, <2>1, UnusedAreEdges
  <2>3. Edge \subseteq 1..last.edge /\ last.edge \in Nat
    BY <2>1 DEF TypeOK
  <2>4. IsFiniteSet(1..last.edge)
    BY <2>3, FS_Interval
  <2>5. E \in SUBSET (1..last.edge)
    BY <2>2, <2>3
  <2>6. IsFiniteSet(E)
    BY <2>4, <2>5, FS_Subset
  <2>7. Darts(E) \subseteq Darts(Edge)
    BY <2>2 DEF Darts
  <2>8. DOMAIN next = Darts(Edge)
    BY <2>1 DEF TypeOK
  <2>9. E \subseteq Nat
    BY <2>3, <2>5
  <2>10. \A d \in Darts(E) : -d \in Darts(E)
    BY <2>9 DEF Darts
  <2> QED BY <2>1, <2>6, <2>7, <2>8, <2>9, <2>10
<1>10. Deleted' = Darts(E)
  BY <1>3 DEF Deleted
<1>11. F \subseteq Nat /\ IsFiniteSet(F) /\ \A d \in DOMAIN cw : side[d] \in F
  <2>1. face \subseteq 1..last.face /\ last.face \in Nat
    BY PlaneTypes
  <2>2. IsFiniteSet(0..last.face)
    BY <2>1, FS_Interval
  <2>3. F \in SUBSET (0..last.face)
    BY <1>4, <2>1
  <2>4. IsFiniteSet(F)
    BY <2>2, <2>3, FS_Subset
  <2>5. \A d \in DOMAIN cw : side[d] \in F
    BY <1>1, <1>4, <1>8 DEF WasDrawn
  <2> QED BY <2>1, <2>3, <2>4, <2>5
<1>12. WasDrawn(c, s, o)'
  BY <1>6, <1>7, <1>8 DEF WasDrawn
<1>13. Listed(c, s, o)'
  <2>1. MergesOf(MergedFaces(E), Darts(E), s, F)
    BY <1>1, <1>9, <1>11, MergedFacesMerge
  <2>2. MergesOf(job'.merged, Deleted', s, face' \cup {0})
    BY <1>3, <1>4, <1>6, <1>10, <2>1
  <2>3. \A d \in Darts(E) : /\ -d \in Darts(E) /\ job'.old.next[d] = c[-d]
                            /\ job'.old.side[d] = s[d] /\ job'.old.org[d] = o[d]
    BY <1>1, <1>3, <1>8, <1>9
  <2>4. DOMAIN job'.old.side = Darts(E) /\ DOMAIN job'.old.org = Darts(E)
    BY <1>3
  <2>5. job' = [phase |-> job'.phase, box |-> job'.box, old |-> job'.old, merged |-> job'.merged, todo |-> job'.todo]
    BY <1>3
  <2> QED BY <1>1, <1>9, <1>10, <2>2, <2>3, <2>4, <2>5 DEF Listed
<1>14. Gone(c)' = {}
  BY <1>1, <1>6 DEF Gone
<1>15. Erased(c, s, o)'
  BY <1>1, <1>6, <1>8, <1>14 DEF Erased
<1>16. Regions(c, s, o, mu)'
  <2>1. Lowers(mu, face' \cup {0}, Deleted', Gone(c)', s)
    <3>1. mu \in [F -> F] /\ \A f \in F : mu[f] = f /\ f \in Nat
      BY <1>5, <1>11
    <3>2. \A f \in F : mu[f] <= f
      BY <3>1
    <3>3. \A G, X : Apart(G, s, X) => \A f \in F : f \in X <=> mu[f] \in X
      BY <3>1
    <3> QED BY <1>4, <1>6, <1>14, <3>1, <3>2, <3>3 DEF Lowers
  <2>2. region' = [d \in DOMAIN cw |-> mu[s[d]]]
    <3>1. region = side /\ DOMAIN region = DOMAIN cw
      BY PlaneTypes
    <3> QED BY <1>1, <1>5, <1>6, <1>8, <1>11, <3>1
  <2>3. \A f \in face : HasShell(DOMAIN cw, hole, region, f)
    BY DEF FacesInv, PlaneInv, RegionsAreFaces
  <2>4. /\ \A n \in Node : n \in DOMAIN isoRegion <=> Leaving(n) = {}
        /\ \A n \in Node : containing[n] = IF n \in DOMAIN isoRegion THEN isoRegion[n] ELSE None
        /\ DOMAIN isoRegion \subseteq Node /\ DOMAIN org = DOMAIN cw
        /\ \A n \in DOMAIN isoRegion : isoRegion[n] \in face \cup {0}
    BY PlaneTypes DEF FacesInv, PlaneInv, RegionsAreFaces
  <2>5. DOMAIN isoRegion = {n \in Node : \A d \in DOMAIN cw : o[d] # n}
    BY <1>1, <2>4 DEF Leaving
  <2>6. \A n \in DOMAIN isoRegion : containing[n] # None /\ isoRegion[n] = mu[containing[n]]
    <3> SUFFICES ASSUME NEW n \in DOMAIN isoRegion PROVE containing[n] # None /\ isoRegion[n] = mu[containing[n]]
      OBVIOUS
    <3>1. containing[n] = isoRegion[n] /\ isoRegion[n] \in F
      BY <1>4, <2>4
    <3> QED BY <1>5, <1>11, <3>1 DEF None
  <2>7. \A f \in face : mu[f] = f
    BY <1>4, <1>5
  <2> QED BY <1>6, <1>7, <2>1, <2>2, <2>3, <2>5, <2>6, <2>7 DEF Regions
<1>17. Mending(c)'
  <2>1. \A d \in DOMAIN cw : Reaches(c, {}, next[d], cw[-d])
    BY <1>8 DEF Reaches
  <2>2. \A d \in DOMAIN cw : next[d] = c[-d]
    BY <1>1, <1>8
  <2>3. job'.phase = (IF E = {} THEN "right" ELSE "delete") /\ job'.todo = E
    BY <1>3
  <2>4. CASE E = {}
    <3>1. Deleted' = {}
      BY <1>10, <2>4 DEF Darts
    <3> QED BY <1>6, <1>14, <2>1, <2>3, <2>4, <3>1 DEF Mending
  <2>5. CASE E # {}
    <3>1. Darts(E) = Deleted' \cap DOMAIN cw
      BY <1>9, <1>10
    <3> QED BY <1>6, <1>9, <1>14, <2>1, <2>2, <2>3, <2>5, <3>1 DEF Mending
  <2> QED BY <2>4, <2>5
<1>18. Deleting(c, s, o, mu)'
  BY <1>12, <1>13, <1>15, <1>16, <1>17 DEF Deleting
<1>19. job'.phase \in {"delete", "right"}
  BY <1>3
<1> QED BY <1>18, <1>19

-----------------------------------------------------------------------------
(* One edge is deleted. *)

\* Taking a curve out of a rotation leaves one.
LEMMA ErasedRotation ==
  ASSUME Rotates(cw, DOMAIN cw), NEW e, e \in DOMAIN cw, \A d \in DOMAIN cw : org[cw[d]] = org[d]
  PROVE  /\ DOMAIN Dropped(e) = DOMAIN cw \ {e, -e} /\ Rotates(Dropped(e), DOMAIN cw \ {e, -e})
         /\ \A d \in DOMAIN cw \ {e, -e} : org[Dropped(e)[d]] = org[d]
<1>1. /\ IsFiniteSet(DOMAIN cw) /\ -e \in DOMAIN cw
      /\ \A x \in DOMAIN cw : x \in Int \ {0} /\ -x \in DOMAIN cw /\ -(-x) = x /\ cw[x] \in DOMAIN cw
      /\ \A x, y \in DOMAIN cw : cw[x] = cw[y] => x = y
  BY DEF Rotates, Permutes
<1>2. Star(Dropped(e), org)
  <2>1. Star(DropEdge(cw, e), org)
    BY <1>1, DropEdgeStar
  <2> QED BY <2>1, DropEdgeValue
<1>0. PICK a, A : a = Dropped(e) /\ A = DOMAIN cw \ {e, -e}
  OBVIOUS
<1>3. a = Dropped(e) /\ A = DOMAIN cw \ {e, -e} /\ DOMAIN a = A
  BY <1>0 DEF Dropped
<1>4. Permutes(a, A)
  <2>1. IsFiniteSet(A)
    BY <1>1, <1>3, FS_Subset
  <2> QED BY <1>2, <1>3, <2>1 DEF Star, Permutes
<1>5. \A x \in A : x \in Int \ {0} /\ -x \in A
  BY <1>1, <1>3
<1> QED BY <1>2, <1>3, <1>4, <1>5 DEF Star, Rotates

\* What had a shell has one under its new name.
LEMMA ErasedShells ==
  ASSUME Planar(cw, DOMAIN cw, hole, region), NEW e, e \in DOMAIN cw,
         NEW A, A = DOMAIN cw \ {e, -e}, NEW a, a = Dropped(e), Rotates(a, A), NEW f,
         f \in {region[e], region[-e]}, LeftName(e, f),
         \A y \in {region[e], region[-e]} : y # 0 => HasShell(DOMAIN cw, hole, region, y),
         NEW z, HasShell(DOMAIN cw, hole, region, z),
         NEW w, w = (IF z \in {region[e], region[-e]} THEN f ELSE z), w # 0
  PROVE  HasShell(A, HolesLess(e), RegionsLess(e, f), w)
<1>1. CASE region[e] = region[-e]
  <2>1. f = region[e] /\ w = z
    BY <1>1
  <2> QED BY <1>1, <2>1, BridgeErasedShells
<1>2. CASE region[e] # region[-e]
  <2>1. /\ \A y : /\ y \notin {region[e], region[-e]} /\ HasShell(DOMAIN cw, hole, region, y)
                  => HasShell(A, HolesLess(e), RegionsLess(e, f), y)
        /\ f # 0 => HasShell(A, HolesLess(e), RegionsLess(e, f), f)
    BY <1>2, PartsErasedShells
  <2> QED BY <2>1
<1> QED BY <1>1, <1>2

\* Edge e goes, and f is the name of the region that is left.
EdgeGoes(e, f, A) ==
  /\ e \in Int \ {0} /\ e \in DOMAIN cw /\ -e \in DOMAIN cw /\ -(-e) = e
  /\ e \in Deleted /\ -e \in Deleted /\ e \in job.todo
  /\ f \in {region[e], region[-e]} /\ f <= region[e] /\ f <= region[-e] /\ LeftName(e, f)
  /\ A = DOMAIN cw \ {e, -e}
  /\ cw' = Dropped(e) /\ DOMAIN cw' = A /\ Rotates(cw', A)
  /\ hole' = HolesLess(e) /\ region' = RegionsLess(e, f)
  /\ isoRegion' = [n \in DOMAIN isoRegion \cup Stranded(e) |->
                     IF n \in Stranded(e) \/ isoRegion[n] \in {region[e], region[-e]} THEN f ELSE isoRegion[n]]
  /\ next' = [d \in A |-> next[d]] /\ side' = [d \in A |-> side[d]] /\ org' = [d \in A |-> org[d]]
  /\ job' = [phase |-> IF job.todo = {e} THEN "right" ELSE "delete",
             box |-> job.box, old |-> job.old, merged |-> job.merged, todo |-> job.todo \ {e}]
  /\ UNCHANGED <<relation, containing, face, last>>

\* DeleteEdge erases the lowest edge of those to delete.
LEMMA DeleteEdgeGoes ==
  ASSUME NEW c, NEW s, NEW o, NEW mu, Deleting(c, s, o, mu), job.phase = "delete", DeleteEdge
  PROVE  \E e, f, A : EdgeGoes(e, f, A)
<1>1. PICK e : e = Lowest(job.todo)
  OBVIOUS
<1>2. PICK A : A = DOMAIN cw \ {e, -e}
  OBVIOUS
<1>3. PICK f : f = Lowest({region[e], region[-e]})
  OBVIOUS
<1>4. /\ Erased(c, s, o) /\ Listed(c, s, o) /\ Regions(c, s, o, mu) /\ Mending(c) /\ WasDrawn(c, s, o)
  BY DEF Deleting
<1>5. job.todo \subseteq Nat /\ job.todo # {} /\ Darts(job.todo) = Deleted \cap DOMAIN cw
  BY <1>4 DEF Mending
<1>6. e \in job.todo /\ e \in Nat
  BY <1>1, <1>5, LowestIsLeast
<1>7. e \in Deleted /\ e \in DOMAIN cw /\ -e \in Deleted /\ -e \in DOMAIN cw
  BY <1>5, <1>6 DEF Darts
<1>8. Planar(cw, DOMAIN cw, hole, region) /\ Rotates(cw, DOMAIN cw)
  BY <1>4 DEF Erased, Planar
<1>9. e \in Int \ {0} /\ -(-e) = e
  BY <1>7, <1>8 DEF Rotates
<1>10. DOMAIN next = DOMAIN cw /\ DOMAIN org = DOMAIN cw /\ \A d \in DOMAIN cw : org[cw[d]] = org[d]
  <2>1. org = [d \in DOMAIN cw |-> o[d]] /\ \A d \in DOMAIN cw : o[cw[d]] = o[d] /\ cw[d] \in DOMAIN cw
    BY <1>4, <1>8 DEF Erased, Rotates, Permutes
  <2> QED BY <1>4, <2>1 DEF Erased
<1>11. DOMAIN Dropped(e) = A /\ Rotates(Dropped(e), A)
  BY <1>2, <1>7, <1>8, <1>10, ErasedRotation
<1>12. /\ next' = [d \in A |-> next[d]] /\ side' = [d \in A |-> side[d]] /\ org' = [d \in A |-> org[d]]
       /\ EraseLine(e, f, Stranded(e))
       /\ job' = [job EXCEPT !.phase = IF job.todo = {e} THEN "right" ELSE "delete", !.todo = @ \ {e}]
       /\ UNCHANGED <<relation, containing, face, last>>
  BY <1>1, <1>2, <1>3, <1>10 DEF DeleteEdge
<1>13. DropEdge(cw, e) = Dropped(e)
  BY DropEdgeValue
<1>14. /\ cw' = Dropped(e) /\ hole' = HolesLess(e) /\ region' = RegionsLess(e, f)
       /\ isoRegion' = [n \in DOMAIN isoRegion \cup Stranded(e) |->
                     IF n \in Stranded(e) \/ isoRegion[n] \in {region[e], region[-e]} THEN f ELSE isoRegion[n]]
  BY <1>2, <1>11, <1>12, <1>13 DEF EraseLine, HolesLess, RegionsLess
<1>15. region[e] \in Nat /\ region[-e] \in Nat
  <2>1. \A d \in DOMAIN cw : s[d] \in face \cup {0} /\ region[d] = mu[s[d]]
    BY <1>4 DEF WasDrawn, Erased, Regions
  <2>2. mu \in [face \cup {0} -> face \cup {0}] /\ face \cup {0} \subseteq Nat
    BY <1>4 DEF Regions, Lowers, WasDrawn
  <2> QED BY <1>7, <2>1, <2>2
<1>16. f \in {region[e], region[-e]} /\ f <= region[e] /\ f <= region[-e]
  BY <1>3, <1>15, LowestIsLeast
<1>17. LeftName(e, f)
  BY <1>15, <1>16 DEF LeftName
<1>18. job' = [phase |-> IF job.todo = {e} THEN "right" ELSE "delete",
               box |-> job.box, old |-> job.old, merged |-> job.merged, todo |-> job.todo \ {e}]
  <2>1. job = [phase |-> job.phase, box |-> job.box, old |-> job.old, merged |-> job.merged, todo |-> job.todo]
    BY <1>4 DEF Listed
  <2> QED BY <1>12, <2>1
<1>19. EdgeGoes(e, f, A)
  BY <1>2, <1>6, <1>7, <1>9, <1>11, <1>12, <1>14, <1>16, <1>17, <1>18 DEF EdgeGoes
<1> QED BY <1>19

\* The other edges keep their rows, and what they are the rows of is drawn.
LEMMA DeleteErases ==
  ASSUME NEW c, NEW s, NEW o, NEW mu, Deleting(c, s, o, mu), NEW e, NEW f, NEW A, EdgeGoes(e, f, A)
  PROVE  /\ WasDrawn(c, s, o)' /\ Listed(c, s, o)' /\ Erased(c, s, o)'
         /\ Deleted' = Deleted /\ Gone(c)' = Gone(c) \cup {e, -e}
<1> USE DEF EdgeGoes
<1>1. WasDrawn(c, s, o) /\ Listed(c, s, o) /\ Erased(c, s, o)
  BY DEF Deleting
<1>2. Node' = Node
  BY DEF Node
<1>3. WasDrawn(c, s, o)'
  BY <1>1, <1>2 DEF WasDrawn
<1>4. /\ job'.old = job.old /\ job'.merged = job.merged
      /\ job' = [phase |-> job'.phase, box |-> job'.box, old |-> job'.old, merged |-> job'.merged, todo |-> job'.todo]
  OBVIOUS
<1>5. Deleted' = Deleted
  BY <1>4 DEF Deleted
<1>6. Listed(c, s, o)'
  BY <1>1, <1>4, <1>5 DEF Listed
<1>7. Gone(c)' = Gone(c) \cup {e, -e}
  BY <1>1 DEF Gone, Erased
<1>8. Erased(c, s, o)'
  <2>1. /\ DOMAIN cw' \subseteq DOMAIN c /\ Gone(c)' \subseteq Deleted'
        /\ next' = [d \in DOMAIN cw' |-> next'[d]] /\ \A d \in DOMAIN cw' : next'[d] = next[d]
    BY <1>1, <1>5, <1>7 DEF Erased
  <2>2. side' = [d \in DOMAIN cw' |-> s[d]] /\ org' = [d \in DOMAIN cw' |-> o[d]]
    BY <1>1 DEF Erased
  <2>3. /\ Planar(cw, DOMAIN cw, hole, region) /\ OneTurn(cw, org)
        /\ Rotates(cw, DOMAIN cw) /\ Permutes(cw, DOMAIN cw) /\ \A d \in DOMAIN cw : cw[d] \in DOMAIN cw
    BY <1>1 DEF Erased, Planar, Rotates, Permutes
  <2>4. Planar(cw', DOMAIN cw', hole', region')
    BY <2>3, ErasedPlanar
  <2>5. OneTurn(cw', org')
    <3>1. \A x \in DOMAIN Dropped(e) : Dropped(e)[x] \in DOMAIN Dropped(e)
      BY DEF Rotates, Permutes
    <3>2. OneTurn(Dropped(e), [d \in DOMAIN cw \ {e, -e} |-> org[d]])
      BY <2>3, <3>1, ErasedTurns
    <3> QED BY <3>2
  <2>6. \A d \in DOMAIN cw : org[cw[d]] = org[d] /\ org[d] = o[d]
    BY <1>1, <2>3 DEF Erased
  <2>7. \A d \in A : org[Dropped(e)[d]] = org[d] /\ Dropped(e)[d] \in A
    BY <2>3, <2>6, ErasedRotation DEF Rotates, Permutes
  <2>8. \A d \in DOMAIN cw' : o[cw'[d]] = o[d]
    BY <2>6, <2>7
  <2> QED BY <2>1, <2>2, <2>4, <2>5, <2>8 DEF Erased
<1> QED BY <1>3, <1>5, <1>6, <1>7, <1>8

\* The regions on the two sides get the lower of their names.
LEMMA DeleteNames ==
  ASSUME NEW c, NEW s, NEW o, NEW mu, Deleting(c, s, o, mu), NEW e, NEW f, NEW A, EdgeGoes(e, f, A),
         NEW nu, nu = [g \in face \cup {0} |-> IF mu[g] \in {region[e], region[-e]} THEN f ELSE mu[g]]
  PROVE  Regions(c, s, o, nu)'
<1> DEFINE F == face \cup {0}
           m == {region[e], region[-e]}
<1>0. /\ e \in Int \ {0} /\ e \in DOMAIN cw /\ -e \in DOMAIN cw /\ -(-e) = e
      /\ e \in Deleted /\ -e \in Deleted
      /\ f \in m /\ f <= region[e] /\ f <= region[-e] /\ LeftName(e, f)
      /\ A = DOMAIN cw \ {e, -e} /\ cw' = Dropped(e) /\ DOMAIN cw' = A /\ Rotates(cw', A)
      /\ hole' = HolesLess(e) /\ region' = RegionsLess(e, f)
      /\ isoRegion' = [n \in DOMAIN isoRegion \cup Stranded(e) |->
                         IF n \in Stranded(e) \/ isoRegion[n] \in m THEN f ELSE isoRegion[n]]
      /\ UNCHANGED <<containing, face>>
  BY DEF EdgeGoes
<1>1. WasDrawn(c, s, o) /\ Erased(c, s, o) /\ Regions(c, s, o, mu) /\ Listed(c, s, o)
  BY DEF Deleting
<1>2. Deleted' = Deleted /\ Gone(c)' = Gone(c) \cup {e, -e}
  BY DeleteErases
<1>3. F \subseteq Nat /\ \A d \in DOMAIN c : s[d] \in F
  BY <1>1 DEF WasDrawn
<1>4. /\ DOMAIN cw \subseteq DOMAIN c /\ Gone(c) \subseteq Deleted /\ Deleted \subseteq DOMAIN c
      /\ \A d \in Deleted : -d \in Deleted
      /\ Planar(cw, DOMAIN cw, hole, region)
      /\ DOMAIN org = DOMAIN cw /\ \A d \in DOMAIN cw : org[d] = o[d]
  BY <1>1 DEF Erased, Listed
<1>5. /\ Lowers(mu, F, Deleted, Gone(c), s)
      /\ \A d \in DOMAIN cw : region[d] = mu[s[d]]
      /\ \A g \in face : mu[g] # 0 => HasShell(DOMAIN cw, hole, region, mu[g])
      /\ DOMAIN isoRegion = {n \in Node : \A d \in DOMAIN cw : o[d] # n}
      /\ \A n \in DOMAIN isoRegion :
           IF containing[n] # None THEN isoRegion[n] = mu[containing[n]]
           ELSE \E d \in DOMAIN c : o[d] = n /\ isoRegion[n] = mu[s[d]]
  BY <1>1 DEF Regions
<1>6. mu \in [F -> F] /\ mu[0] = 0
  <2>1. mu \in [F -> F] /\ \A g \in F : mu[g] <= g
    BY <1>5 DEF Lowers
  <2>2. mu[0] \in Nat /\ mu[0] <= 0
    BY <1>3, <2>1
  <2> QED BY <2>1, <2>2
<1>7. region[e] = mu[s[e]] /\ region[-e] = mu[s[-e]]
  BY <1>0, <1>5
<1>8. \A g \in F : nu[g] = IF mu[g] \in m THEN f ELSE mu[g]
  OBVIOUS
<1>9. Lowers(nu, F, Deleted, Gone(c) \cup {e, -e}, s)
  <2>1. nu = [g \in F |-> IF mu[g] \in {mu[s[e]], mu[s[-e]]} THEN f ELSE mu[g]]
    BY <1>7
  <2>2. f \in {mu[s[e]], mu[s[-e]]} /\ f <= mu[s[e]] /\ f <= mu[s[-e]]
    BY <1>0, <1>7
  <2>3. \A d \in Deleted : s[d] \in F /\ s[-d] \in F
    BY <1>3, <1>4
  <2> HIDE DEF F, m
  <2> QED BY <1>0, <1>3, <1>4, <1>5, <2>1, <2>2, <2>3, OneMoreLowered
<1>10. region' = [d \in DOMAIN cw' |-> nu[s[d]]]
  <2>1. \A d \in A : s[d] \in F /\ region[d] = mu[s[d]]
    BY <1>0, <1>3, <1>4, <1>5
  <2>2. region' = [d \in A |-> IF region[d] \in m THEN f ELSE region[d]]
    BY <1>0 DEF RegionsLess
  <2> HIDE DEF F, m
  <2> QED BY <1>0, <1>8, <2>1, <2>2
<1>11. ASSUME NEW g \in face, nu[g] # 0 PROVE HasShell(DOMAIN cw', hole', region', nu[g])
  <2>1. \A y \in F : mu[y] # 0 => HasShell(DOMAIN cw, hole, region, mu[y])
    BY <1>5, <1>6
  <2>2. \A y \in m : y # 0 => HasShell(DOMAIN cw, hole, region, y)
    BY <1>0, <1>3, <1>4, <1>7, <2>1
  <2>3. g \in F
    OBVIOUS
  <2>4. nu[g] = IF mu[g] \in m THEN f ELSE mu[g]
    BY <1>8, <2>3
  <2>5. CASE mu[g] = 0
    <3>1. mu[g] \in m
      BY <1>11, <2>4, <2>5
    <3>2. f = 0
      <4>1. f \in Nat /\ f <= 0
        <5>1. mu[s[e]] \in Nat /\ mu[s[-e]] \in Nat
          BY <1>0, <1>3, <1>4, <1>6
        <5> QED BY <1>0, <1>7, <2>5, <3>1, <5>1
      <4> QED BY <4>1
    <3> QED BY <1>11, <2>4, <3>1, <3>2
  <2>6. CASE mu[g] # 0
    <3>1. HasShell(DOMAIN cw, hole, region, mu[g])
      BY <1>5, <2>6
    <3>2. HasShell(A, HolesLess(e), RegionsLess(e, f), nu[g])
      <4> HIDE DEF F
      <4> QED BY <1>0, <1>4, <1>11, <2>2, <2>4, <3>1, ErasedShells
    <3> QED BY <1>0, <3>2
  <2> QED BY <2>5, <2>6
<1>12. Stranded(e) \subseteq Node /\ \A n \in Stranded(e) : n \in {o[e], o[-e]} /\ \A d \in A : o[d] # n
  <2>1. o[e] \in Node /\ o[-e] \in Node
    BY <1>0, <1>1, <1>4 DEF WasDrawn
  <2> QED BY <1>0, <1>4, <2>1 DEF Stranded, Leaving
<1>13. DOMAIN isoRegion' = {n \in Node' : \A d \in DOMAIN cw' : o[d] # n}
  <2>1. Node' = Node
    BY <1>0 DEF Node
  <2>2. ASSUME NEW n \in Node, \A d \in A : o[d] # n, n \notin DOMAIN isoRegion PROVE n \in Stranded(e)
    <3>1. PICK d \in DOMAIN cw : o[d] = n
      BY <1>5, <2>2
    <3>2. d \in {e, -e}
      BY <1>0, <2>2, <3>1
    <3>3. n \in {org[e], org[-e]}
      BY <1>4, <3>1, <3>2
    <3>4. Leaving(n) \subseteq {e, -e}
      BY <1>0, <1>4, <2>2 DEF Leaving
    <3> QED BY <3>3, <3>4 DEF Stranded
  <2> QED BY <1>0, <1>5, <1>12, <2>1, <2>2
<1>14. ASSUME NEW n \in DOMAIN isoRegion'
       PROVE  IF containing[n] # None THEN isoRegion'[n] = nu[containing[n]]
              ELSE \E d \in DOMAIN c : o[d] = n /\ isoRegion'[n] = nu[s[d]]
  <2>1. n \in DOMAIN isoRegion \cup Stranded(e)
        /\ isoRegion'[n] = IF n \in Stranded(e) \/ isoRegion[n] \in m THEN f ELSE isoRegion[n]
    BY <1>0
  <2>2. CASE n \in Stranded(e)
    <3>1. PICK d \in {e, -e} : o[d] = n
      BY <1>12, <2>2
    <3>2. d \in DOMAIN c /\ s[d] \in F /\ mu[s[d]] \in m
      BY <1>0, <1>3, <1>4, <1>7
    <3>3. nu[s[d]] = f
      BY <1>8, <3>2
    <3>4. containing[n] = None
      BY <1>1, <1>12, <2>2, <3>1, <3>2 DEF WasDrawn
    <3> QED BY <2>1, <2>2, <3>1, <3>2, <3>3, <3>4
  <2>3. CASE n \notin Stranded(e) /\ containing[n] # None
    <3>1. isoRegion[n] = mu[containing[n]]
      BY <1>5, <2>1, <2>3
    <3>2. containing[n] \in F
      BY <1>1, <1>5, <2>1, <2>3 DEF WasDrawn
    <3> HIDE DEF m, F
    <3> QED BY <1>8, <2>1, <2>3, <3>1, <3>2
  <2>4. CASE n \notin Stranded(e) /\ containing[n] = None
    <3>1. PICK d \in DOMAIN c : o[d] = n /\ isoRegion[n] = mu[s[d]]
      BY <1>5, <2>1, <2>4
    <3>2. s[d] \in F
      BY <1>3
    <3>3. isoRegion'[n] = nu[s[d]]
      <4> HIDE DEF m, F
      <4> QED BY <1>8, <2>1, <2>4, <3>1, <3>2
    <3> QED BY <2>4, <3>1, <3>3
  <2> QED BY <2>2, <2>3, <2>4
<1>15. face' = face /\ containing' = containing
  BY <1>0
<1>16. Lowers(nu, (face \cup {0})', Deleted', Gone(c)', s)
  BY <1>2, <1>9, <1>15
<1>17. \A n \in DOMAIN isoRegion' :
         IF containing'[n] # None THEN isoRegion'[n] = nu[containing'[n]]
         ELSE \E d \in DOMAIN c : o[d] = n /\ isoRegion'[n] = nu[s[d]]
  BY <1>14, <1>15
<1>18. \A g \in face' : nu[g] # 0 => HasShell(DOMAIN cw', hole', region', nu[g])
  BY <1>11, <1>15
<1> HIDE DEF F, m
<1> QED BY <1>10, <1>13, <1>16, <1>17, <1>18 DEF Regions

\* Reaching the next dart from where a link leads, past those in G.
LEMMA ReachesOn ==
  ASSUME NEW c, NEW G, NEW y, NEW z, Reaches(c, G, y, z), z \notin G
  PROVE  /\ y \notin G => y = z
         /\ y \in G => c[y] # y /\ Reaches(c, G, c[y], z)
<1>1. ASSUME y \notin G \/ c[y] = y PROVE y = z
  <2>1. \A x \in {y} \cap G : c[x] \in {y}
    BY <1>1
  <2>2. z \in {y}
    BY <2>1 DEF Reaches
  <2> QED BY <2>2
<1>2. ASSUME y \in G PROVE Reaches(c, G, c[y], z)
  <2> SUFFICES ASSUME NEW X, c[y] \in X, \A x \in X \cap G : c[x] \in X PROVE z \in X
    BY DEF Reaches
  <2>1. \A x \in (X \cup {y}) \cap G : c[x] \in X \cup {y}
    OBVIOUS
  <2>2. z \in X \cup {y}
    BY <2>1 DEF Reaches
  <2> QED BY <1>2, <2>2
<1> QED BY <1>1, <1>2

\* Going past one edge more.
LEMMA ReachesPast ==
  ASSUME NEW c, NEW G, NEW e, NEW y, NEW x,
         Reaches(c, G, y, cw[x]), Reaches(c, G, c[e], cw[e]), Reaches(c, G, c[-e], cw[-e])
  PROVE  Reaches(c, G \cup {e, -e}, y, PastEdge(e, PastEdge(e, cw[x])))
<1> SUFFICES ASSUME NEW X, y \in X, \A k \in X \cap (G \cup {e, -e}) : c[k] \in X
             PROVE  PastEdge(e, PastEdge(e, cw[x])) \in X
  BY DEF Reaches
<1>1. \A k \in X \cap G : c[k] \in X
  OBVIOUS
<1>2. cw[x] \in X
  BY <1>1 DEF Reaches
<1>3. \A k \in X : PastEdge(e, k) \in X
  <2> SUFFICES ASSUME NEW k \in X, k \in {e, -e} PROVE cw[k] \in X
    BY DEF PastEdge
  <2>1. c[k] \in X
    OBVIOUS
  <2>2. Reaches(c, G, c[k], cw[k])
    OBVIOUS
  <2> QED BY <1>1, <2>1, <2>2 DEF Reaches
<1> QED BY <1>2, <1>3

\* The links still lead to the darts that follow in the drawing.
LEMMA DeleteMends ==
  ASSUME NEW c, NEW s, NEW o, NEW mu, Deleting(c, s, o, mu), job.phase = "delete",
         NEW e, NEW f, NEW A, EdgeGoes(e, f, A)
  PROVE  Mending(c)' /\ job'.phase \in {"delete", "right"}
<1>0. /\ e \in Int \ {0} /\ e \in DOMAIN cw /\ -e \in DOMAIN cw /\ -(-e) = e
      /\ e \in Deleted /\ -e \in Deleted /\ e \in job.todo
      /\ A = DOMAIN cw \ {e, -e} /\ cw' = Dropped(e) /\ DOMAIN cw' = A
      /\ next' = [d \in A |-> next[d]]
      /\ job' = [phase |-> IF job.todo = {e} THEN "right" ELSE "delete",
                 box |-> job.box, old |-> job.old, merged |-> job.merged, todo |-> job.todo \ {e}]
  BY DEF EdgeGoes
<1>1. Deleted' = Deleted /\ Gone(c)' = Gone(c) \cup {e, -e}
  BY DeleteErases
<1>2. /\ \A d \in DOMAIN cw : Reaches(c, Gone(c), next[d], cw[-d]) /\ next[d] = c[-d]
      /\ job.todo \subseteq Nat /\ job.todo # {} /\ Darts(job.todo) = Deleted \cap DOMAIN cw
  BY DEF Deleting, Mending
<1>3. \A d \in DOMAIN cw : -d \in DOMAIN cw /\ -(-d) = d /\ d \in Int
  BY DEF Deleting, Erased, Planar, Rotates
<1>4. \A d \in A : Reaches(c, Gone(c) \cup {e, -e}, next[d], cw'[-d])
  <2> TAKE d \in A
  <2>1. -d \in A
    BY <1>0, <1>3
  <2>2. cw'[-d] = PastEdge(e, PastEdge(e, cw[-d]))
    BY <1>0, <2>1 DEF Dropped
  <2>3. Reaches(c, Gone(c), next[d], cw[-d])
    BY <1>0, <1>2
  <2>4. Reaches(c, Gone(c), c[e], cw[e]) /\ Reaches(c, Gone(c), c[-e], cw[-e])
    BY <1>0, <1>2
  <2>5. Reaches(c, Gone(c) \cup {e, -e}, next[d], PastEdge(e, PastEdge(e, cw[-d])))
    <3>1. PICK x, y, G : x = -d /\ y = next[d] /\ G = Gone(c)
      OBVIOUS
    <3>2. Reaches(c, G, y, cw[x]) /\ Reaches(c, G, c[e], cw[e]) /\ Reaches(c, G, c[-e], cw[-e])
      BY <2>3, <2>4, <3>1
    <3>3. Reaches(c, G \cup {e, -e}, y, PastEdge(e, PastEdge(e, cw[x])))
      BY <3>2, ReachesPast
    <3> QED BY <3>1, <3>3
  <2> QED BY <2>2, <2>5
<1>5. \A d \in DOMAIN cw' : Reaches(c, Gone(c)', next'[d], cw'[-d]) /\ next'[d] = c[-d]
  BY <1>0, <1>1, <1>2, <1>4
<1>6. Darts(job'.todo) = Deleted' \cap DOMAIN cw'
  <2>1. \A k \in job.todo : k \in Nat
    BY <1>2
  <2>2. e \in Nat /\ job'.todo = job.todo \ {e} /\ -e # e
    BY <1>0, <2>1
  <2>3. ASSUME NEW k PROVE k \in Darts(job.todo \ {e}) <=> k \in Darts(job.todo) /\ k \notin {e, -e}
    BY <2>1, <2>2 DEF Darts
  <2>4. Darts(job.todo \ {e}) = Darts(job.todo) \ {e, -e}
    BY <2>3
  <2> QED BY <1>0, <1>1, <1>2, <2>2, <2>4
<1>7. CASE job.todo = {e}
  <2>1. job'.phase = "right" /\ job'.todo = {}
    BY <1>0, <1>7
  <2>2. Deleted' \cap DOMAIN cw' = {}
    BY <1>6, <2>1 DEF Darts
  <2> QED BY <1>5, <2>1, <2>2 DEF Mending
<1>8. CASE job.todo # {e}
  <2>1. job'.phase = "delete" /\ job'.todo = job.todo \ {e}
    BY <1>0, <1>8
  <2>2. job'.todo # {} /\ job'.todo \subseteq Nat
    BY <1>0, <1>2, <1>8, <2>1
  <2> QED BY <1>5, <1>6, <2>1, <2>2 DEF Mending
<1> QED BY <1>7, <1>8

\* So a deletion keeps the invariant.
LEMMA DeleteEdgeKeeps ==
  ASSUME NEW c, NEW s, NEW o, NEW mu, Deleting(c, s, o, mu), job.phase = "delete", DeleteEdge
  PROVE  job'.phase \in {"delete", "right"} /\ \E nu : Deleting(c, s, o, nu)'
<1>1. PICK e, f, A : EdgeGoes(e, f, A)
  BY DeleteEdgeGoes
<1>2. PICK nu : nu = [g \in face \cup {0} |-> IF mu[g] \in {region[e], region[-e]} THEN f ELSE mu[g]]
  OBVIOUS
<1>3. WasDrawn(c, s, o)' /\ Listed(c, s, o)' /\ Erased(c, s, o)'
  BY <1>1, DeleteErases
<1>4. Regions(c, s, o, nu)'
  BY <1>1, <1>2, DeleteNames
<1>5. Mending(c)' /\ job'.phase \in {"delete", "right"}
  BY <1>1, DeleteMends
<1>6. Deleting(c, s, o, nu)'
  BY <1>3, <1>4, <1>5 DEF Deleting
<1> QED BY <1>5, <1>6

-----------------------------------------------------------------------------
(* The links are mended. *)

\* What the loop over the column of columns leaves once it ends, and keeps until then.
LEMMA MendingGoesOn ==
  ASSUME NEW c, NEW s, NEW o, NEW mu, Deleting(c, s, o, mu), NEW columns, NEW after,
         \/ job.phase = "right" /\ columns = {d \in DOMAIN next : d < 0} /\ after = "left"
         \/ job.phase = "left" /\ columns = {d \in DOMAIN next : d > 0} /\ after = "faces",
         MendLinks(columns, after)
  PROVE  job'.phase \in {job.phase, after} /\ Deleting(c, s, o, mu)'
<1>1. /\ WasDrawn(c, s, o) /\ Listed(c, s, o) /\ Erased(c, s, o) /\ Regions(c, s, o, mu) /\ Mending(c)
  BY DEF Deleting
<1>2. /\ next' = [d \in DOMAIN next |-> IF d \in Broken(columns) THEN Past(next[d]) ELSE next[d]]
      /\ job' = IF Broken(columns) = {} THEN [job EXCEPT !.phase = after] ELSE job
      /\ cw' = cw /\ hole' = hole /\ region' = region /\ isoRegion' = isoRegion
      /\ side' = side /\ org' = org /\ containing' = containing /\ face' = face /\ last' = last
      /\ relation' = relation
  BY DEF MendLinks, geomVars, tgVars
<1>3. Node' = Node
  BY <1>2 DEF Node
<1>4. DOMAIN next = DOMAIN cw /\ next = [d \in DOMAIN cw |-> next[d]]
  BY <1>1 DEF Erased
<1>5. job' = [phase |-> IF Broken(columns) = {} THEN after ELSE job.phase,
              box |-> job.box, old |-> job.old, merged |-> job.merged, todo |-> job.todo]
  <2>1. job = [phase |-> job.phase, box |-> job.box, old |-> job.old, merged |-> job.merged, todo |-> job.todo]
    BY <1>1 DEF Listed
  <2> QED BY <1>2, <2>1
<1>6. /\ job'.old = job.old /\ job'.merged = job.merged
      /\ job' = [phase |-> job'.phase, box |-> job'.box, old |-> job'.old, merged |-> job'.merged, todo |-> job'.todo]
      /\ job'.phase = IF Broken(columns) = {} THEN after ELSE job.phase
  BY <1>5
<1>7. Deleted' = Deleted /\ Gone(c)' = Gone(c)
  BY <1>2, <1>6 DEF Deleted, Gone
<1>8. WasDrawn(c, s, o)'
  BY <1>1, <1>2, <1>3 DEF WasDrawn
<1>9. Listed(c, s, o)'
  BY <1>1, <1>2, <1>6, <1>7 DEF Listed
<1>10. Erased(c, s, o)'
  BY <1>1, <1>2, <1>4, <1>7 DEF Erased
<1>11. Regions(c, s, o, mu)'
  BY <1>1, <1>2, <1>3, <1>7 DEF Regions
<1>12. /\ Gone(c) = Deleted /\ \A d \in DOMAIN cw : d \notin Deleted
       /\ \A x \in Deleted : Past(x) = c[x]
       /\ \A d \in DOMAIN cw : -d \in DOMAIN cw /\ cw[-d] \in DOMAIN cw /\ d \in Int /\ d # 0
       /\ \A d \in DOMAIN cw : Reaches(c, Gone(c), next[d], cw[-d])
  <2>1. Deleted \cap DOMAIN cw = {} /\ Deleted \subseteq DOMAIN c /\ Gone(c) \subseteq Deleted
    BY <1>1 DEF Mending, Listed, Erased
  <2>2. \A x \in Deleted : -x \in Deleted /\ -(-x) = x /\ job.old.next[x] = c[-x]
    BY <1>1 DEF Listed, WasDrawn, Rotates
  <2>3. \A d \in DOMAIN cw : -d \in DOMAIN cw /\ cw[-d] \in DOMAIN cw /\ d \in Int /\ d # 0
    BY <1>1 DEF Erased, Planar, Rotates, Permutes
  <2> QED BY <1>1, <2>1, <2>2, <2>3 DEF Gone, Past, Mending
<1>13. \A d \in DOMAIN cw : Reaches(c, Gone(c), next'[d], cw[-d])
  <2> TAKE d \in DOMAIN cw
  <2>1. CASE d \in Broken(columns)
    <3>1. next'[d] = c[next[d]] /\ next[d] \in Gone(c)
      BY <1>2, <1>4, <1>12, <2>1 DEF Broken, Deleted
    <3> QED BY <1>12, <3>1, ReachesOn
  <2>2. CASE d \notin Broken(columns)
    BY <1>2, <1>4, <1>12, <2>2
  <2> QED BY <2>1, <2>2
<1>14. ASSUME Broken(columns) = {}
       PROVE  \A d \in columns : next'[d] = cw[-d]
  <2> TAKE d \in columns
  <2>1. d \in DOMAIN cw /\ next'[d] = next[d]
    BY <1>2, <1>4, <1>14
  <2>2. next[d] \notin Deleted \/ next[d] = c[next[d]]
    BY <1>12, <1>14 DEF Broken, Deleted
  <2>3. Reaches(c, Gone(c), next[d], cw[-d]) /\ cw[-d] \notin Gone(c)
    BY <1>12, <2>1
  <2> QED BY <1>12, <2>1, <2>2, <2>3, ReachesOn
<1>15. \A d \in DOMAIN cw : d \notin columns => next'[d] = next[d]
  BY <1>2, <1>4 DEF Broken
<1>16. Mending(c)'
  <2>1. \A d \in DOMAIN cw' : Reaches(c, Gone(c)', next'[d], cw'[-d])
    BY <1>2, <1>7, <1>13
  <2>2. job'.phase \in {"right", "left", "faces"} /\ Deleted' \cap DOMAIN cw' = {}
    BY <1>2, <1>6, <1>7, <1>12
  <2>3. job'.phase \in {"left", "faces"} => \A d \in DOMAIN cw : d < 0 => next'[d] = cw[-d]
    <3>1. CASE job.phase = "right"
      BY <1>4, <1>6, <1>14, <3>1
    <3>2. CASE job.phase = "left"
      <4>1. \A d \in DOMAIN cw : d < 0 => next[d] = cw[-d] /\ d \notin columns
        BY <1>1, <1>12, <3>2 DEF Mending
      <4> QED BY <1>15, <4>1
    <3> QED BY <3>1, <3>2
  <2>4. job'.phase = "faces" => \A d \in DOMAIN cw : d > 0 => next'[d] = cw[-d]
    BY <1>4, <1>6, <1>14
  <2> QED BY <1>2, <2>1, <2>2, <2>3, <2>4 DEF Mending
<1> QED BY <1>6, <1>8, <1>9, <1>10, <1>11, <1>16 DEF Deleting

\* Both loops keep the invariant.
LEMMA MendKeeps ==
  ASSUME NEW c, NEW s, NEW o, NEW mu, Deleting(c, s, o, mu), MendNextRight \/ MendNextLeft
  PROVE  job'.phase \in {"right", "left", "faces"} /\ Deleting(c, s, o, mu)'
<1>1. CASE MendNextRight
  <2>1. PICK columns : columns = {d \in DOMAIN next : d < 0}
    OBVIOUS
  <2>2. job.phase = "right" /\ MendLinks(columns, "left")
    BY <1>1, <2>1 DEF MendNextRight
  <2> QED BY <2>1, <2>2, MendingGoesOn
<1>2. CASE MendNextLeft
  <2>1. PICK columns : columns = {d \in DOMAIN next : d > 0}
    OBVIOUS
  <2>2. job.phase = "left" /\ MendLinks(columns, "faces")
    BY <1>2, <2>1 DEF MendNextLeft
  <2> QED BY <2>1, <2>2, MendingGoesOn
<1> QED BY <1>1, <1>2

-----------------------------------------------------------------------------
(* The faces are relabelled. *)

\* What is so when the links are mended: nothing is left to delete, and the regions have
\* the names that merged_faces says to keep.
NamesKept(c, s, mu) ==
  /\ Gone(c) = Deleted /\ Deleted \cap DOMAIN cw = {}
  /\ \A d \in DOMAIN cw : next[d] = cw[-d]
  /\ face \cup {0} \subseteq Nat /\ mu \in [face \cup {0} -> face \cup {0}]
  /\ \A d \in Deleted : mu[s[d]] = mu[s[-d]]
  /\ \A f \in face \cup {0} :
       /\ mu[f] = Kept(job.merged, f)
       /\ \A m \in job.merged : mu[f] \notin m.merge /\ (f \in m.merge => mu[f] = m.keep)
  /\ \A m \in job.merged : m.merge \subseteq face

\* It is so before the relabelling.
LEMMA KeptNames ==
  ASSUME NEW c, NEW s, NEW o, NEW mu, Deleting(c, s, o, mu), job.phase = "faces"
  PROVE  NamesKept(c, s, mu)
<1>1. /\ WasDrawn(c, s, o) /\ Listed(c, s, o) /\ Erased(c, s, o) /\ Regions(c, s, o, mu) /\ Mending(c)
  BY DEF Deleting
<1>2. PICK F : F = face \cup {0}
  OBVIOUS
<1>3. Gone(c) = Deleted /\ Deleted \cap DOMAIN cw = {}
  <2>1. Deleted \cap DOMAIN cw = {} /\ Deleted \subseteq DOMAIN c /\ Gone(c) \subseteq Deleted
    BY <1>1 DEF Mending, Listed, Erased
  <2> QED BY <2>1 DEF Gone
<1>4. \A d \in DOMAIN cw : next[d] = cw[-d]
  <2>1. \A d \in DOMAIN cw : d \in Int /\ d # 0
    BY <1>1 DEF Erased, Planar, Rotates
  <2>2. \A d \in DOMAIN cw : (d < 0 => next[d] = cw[-d]) /\ (d > 0 => next[d] = cw[-d])
    BY <1>1 DEF Mending
  <2>3. \A d \in DOMAIN cw : d < 0 \/ d > 0
    BY <2>1
  <2> QED BY <2>2, <2>3
<1>5. /\ F \subseteq Nat /\ \A d \in Deleted : -d \in Deleted /\ s[d] \in F
  BY <1>1, <1>2 DEF WasDrawn, Listed
<1>6. Lowers(mu, F, Deleted, Deleted, s) /\ MergesOf(job.merged, Deleted, s, F)
  BY <1>1, <1>2, <1>3 DEF Regions, Listed
<1>7. \A f \in F : /\ mu[f] = Kept(job.merged, f)
                   /\ \A m \in job.merged : mu[f] \notin m.merge /\ (f \in m.merge => mu[f] = m.keep)
  BY <1>5, <1>6, AllLowered
<1>8. mu \in [F -> F] /\ \A d \in Deleted : mu[s[d]] = mu[s[-d]]
  BY <1>6 DEF Lowers
<1>9. ASSUME NEW m \in job.merged PROVE m.merge \subseteq face
  <2>1. m.merge \subseteq F /\ m.keep \in F /\ \A x \in m.merge : m.keep < x
    BY <1>6 DEF MergesOf, Merging
  <2>2. 0 \notin m.merge
    <3>1. m.keep \in Nat
      BY <1>5, <2>1
    <3> QED BY <2>1, <3>1
  <2> QED BY <1>2, <2>1, <2>2
<1> QED BY <1>2, <1>3, <1>4, <1>5, <1>7, <1>8, <1>9 DEF NamesKept

\* A node that nothing leaves any more is in the region that all its darts were in, and
\* Uncovered finds it.
LEMMA UncoveredIsThere ==
  ASSUME NEW c, NEW s, NEW o, NEW mu, Deleting(c, s, o, mu), job.phase = "faces",
         NEW n \in Node, \A d \in DOMAIN cw : o[d] # n, \E d \in DOMAIN job.old.org : job.old.org[d] = n
  PROVE  /\ n \in DOMAIN isoRegion /\ Uncovered(n) = isoRegion[n] /\ isoRegion[n] \in face \cup {0}
         /\ \E f \in face \cup {0} : isoRegion[n] = mu[f]
<1>1. /\ WasDrawn(c, s, o) /\ Listed(c, s, o) /\ Erased(c, s, o) /\ Regions(c, s, o, mu)
  BY DEF Deleting
<1>2. PICK F : F = face \cup {0}
  OBVIOUS
<1>3. /\ Gone(c) = Deleted /\ F \subseteq Nat /\ mu \in [F -> F]
      /\ \A d \in Deleted : mu[s[d]] = mu[s[-d]]
      /\ \A f \in F :
              /\ mu[f] = Kept(job.merged, f)
              /\ \A m \in job.merged : mu[f] \notin m.merge /\ (f \in m.merge => mu[f] = m.keep)
  <2>1. NamesKept(c, s, mu)
    BY KeptNames
  <2> QED BY <1>2, <2>1 DEF NamesKept
<1>4. /\ \A x \in DOMAIN c : o[c[x]] = o[x] /\ s[c[-x]] = s[x] /\ s[x] \in F
      /\ \A x \in DOMAIN c : c[x] \in DOMAIN c /\ -x \in DOMAIN c /\ -(-x) = x
      /\ OneTurn(c, o) /\ \A d \in DOMAIN c : o[d] = n => containing[n] = None
  BY <1>1, <1>2 DEF WasDrawn, Rotates, Permutes
<1>5. /\ Deleted \subseteq DOMAIN c /\ DOMAIN job.old.org = Deleted
      /\ \A d \in Deleted : -d \in Deleted /\ job.old.side[d] = s[d] /\ job.old.org[d] = o[d]
  BY <1>1 DEF Listed
<1>6. n \in DOMAIN isoRegion /\ containing[n] = None
  BY <1>1, <1>4, <1>5 DEF Regions
<1>7. PICK k \in DOMAIN c : o[k] = n /\ isoRegion[n] = mu[s[k]]
  BY <1>1, <1>6 DEF Regions
<1>8. PICK r : r = mu[s[k]] /\ r \in F
  BY <1>3, <1>4
<1>9. \A x \in DOMAIN c : o[x] = n => x \in Deleted
  BY <1>3 DEF Gone
<1>10. \A x \in DOMAIN c : o[x] = n => mu[s[x]] = r
  <2>1. PICK S \in SUBSET DOMAIN c : S = {x \in DOMAIN c : o[x] = n /\ mu[s[x]] = r}
    OBVIOUS
  <2>2. ASSUME NEW x \in S PROVE c[x] \in S
    <3>1. o[x] = n /\ mu[s[x]] = r /\ x \in DOMAIN c /\ c[x] \in DOMAIN c /\ o[c[x]] = n
      BY <1>4, <2>1
    <3>2. s[c[x]] = s[-x]
      BY <1>4, <3>1
    <3>3. mu[s[-x]] = r
      BY <1>3, <1>9, <3>1
    <3> QED BY <2>1, <3>1, <3>2, <3>3
  <2>3. k \in S /\ ClosedUnder(c, S)
    BY <1>7, <1>8, <2>1, <2>2 DEF ClosedUnder
  <2>4. \A y \in DOMAIN c : o[y] = n => y \in S
    BY <1>4, <1>7, <2>3 DEF OneTurn
  <2> QED BY <2>1, <2>4
<1> DEFINE at == {d \in DOMAIN job.old.org : job.old.org[d] = n}
           incident == {job.old.side[d] : d \in at} \cup {job.old.side[-d] : d \in at}
           touched == {m \in job.merged : m.merge \cap incident # {}}
<1>11. \A g \in incident : g \in F /\ mu[g] = r
  <2>1. ASSUME NEW d \in at PROVE job.old.side[d] \in F /\ mu[job.old.side[d]] = r
                                  /\ job.old.side[-d] \in F /\ mu[job.old.side[-d]] = r
    <3>1. d \in Deleted /\ -d \in Deleted /\ o[d] = n
      BY <1>5
    <3>2. mu[s[d]] = r /\ mu[s[-d]] = r
      BY <1>3, <1>5, <1>10, <3>1
    <3> QED BY <1>4, <1>5, <3>1, <3>2
  <2> HIDE DEF at
  <2> QED BY <2>1
<1>12. incident # {}
  OBVIOUS
<1>13. Uncovered(n) = IF touched # {} THEN (CHOOSE m \in touched : TRUE).keep ELSE Lowest(incident)
  BY DEF Uncovered
<1> HIDE DEF at, incident
<1>14. Uncovered(n) = r
  <2>1. CASE touched # {}
    <3>1. PICK m \in touched : m = CHOOSE i \in touched : TRUE
      BY <2>1
    <3>2. PICK g \in incident : g \in m.merge /\ m \in job.merged
      BY <3>1
    <3>3. mu[g] = m.keep
      BY <1>3, <1>11, <3>2
    <3> QED BY <1>11, <1>13, <2>1, <3>1, <3>2, <3>3
  <2>2. CASE touched = {}
    <3>1. \A g \in incident : g = r
      <4> TAKE g \in incident
      <4>1. ~\E m \in job.merged : g \in m.merge
        BY <2>2
      <4>2. Kept(job.merged, g) = g
        BY <4>1 DEF Kept
      <4> QED BY <1>3, <1>11, <4>2
    <3>2. incident \subseteq Nat
      BY <1>3, <1>11
    <3>3. Lowest(incident) \in incident
      BY <1>12, <3>2, LowestIsLeast
    <3> QED BY <1>13, <2>2, <3>1, <3>3
  <2> QED BY <2>1, <2>2
<1> QED BY <1>2, <1>4, <1>6, <1>7, <1>8, <1>14

\* What the relabelling writes into the tables.
Relabelled(mu, cont, gone) ==
  /\ side' = [d \in DOMAIN cw |-> mu[side[d]]]
  /\ containing' = [n \in Node |-> cont[n]]
  /\ face' = face \ gone /\ relation' \subseteq relation
  /\ \A n \in Node : cont[n] = IF n \in DOMAIN isoRegion THEN isoRegion[n] ELSE None
  /\ gone \subseteq face
  /\ \A f \in face \cup {0} : mu[f] \in (face \ gone) \cup {0}
  /\ \A f \in face \ gone : mu[f] = f
  /\ \A n \in DOMAIN isoRegion : isoRegion[n] \in (face \ gone) \cup {0}
  /\ UNCHANGED <<geomVars, next, org, last>>
  /\ job'.phase = "nodes" /\ "phase" \in DOMAIN job'

\* RelabelFaces gives every isolated node the region it is in.
LEMMA RelabelFacesWrites ==
  ASSUME NEW c, NEW s, NEW o, NEW mu, Deleting(c, s, o, mu), RelabelFaces
  PROVE  \E cont, gone : Relabelled(mu, cont, gone)
<1>0. job.phase = "faces"
  BY DEF RelabelFaces
<1>1. PICK gone : gone = UNION {m.merge : m \in job.merged}
  OBVIOUS
<1>2. PICK isolated : isolated = {n \in Node : Leaving(n) = {} /\ \E d \in DOMAIN job.old.org : job.old.org[d] = n}
  OBVIOUS
<1>3. PICK cont : cont = [n \in Node |-> IF n \in isolated THEN Uncovered(n) ELSE Kept(job.merged, containing[n])]
  OBVIOUS
<1>4. /\ side' = [d \in DOMAIN side |-> Kept(job.merged, side[d])]
      /\ containing' = cont /\ face' = face \ gone /\ relation' \subseteq relation
      /\ job' = [phase |-> "nodes", box |-> job.box,
                 todo |-> {n \in Node \cap job.box.nodes :
                         cont[n] # None /\ \A r \in InLayers({1}) : r.id # n}]
      /\ UNCHANGED <<geomVars, next, org, last>>
  BY <1>1, <1>2, <1>3 DEF RelabelFaces
<1>5. /\ WasDrawn(c, s, o) /\ Listed(c, s, o) /\ Erased(c, s, o) /\ Regions(c, s, o, mu)
  BY DEF Deleting
<1>6. /\ Gone(c) = Deleted /\ face \cup {0} \subseteq Nat /\ mu \in [face \cup {0} -> face \cup {0}]
      /\ \A f \in face \cup {0} :
              /\ mu[f] = Kept(job.merged, f)
              /\ \A m \in job.merged : mu[f] \notin m.merge /\ (f \in m.merge => mu[f] = m.keep)
      /\ \A m \in job.merged : m.merge \subseteq face
  <2>1. NamesKept(c, s, mu)
    BY <1>0, KeptNames
  <2> QED BY <2>1 DEF NamesKept
<1>7. gone \subseteq face
  BY <1>1, <1>6
<1>8. \A f \in face \cup {0} : mu[f] \in (face \ gone) \cup {0}
  BY <1>1, <1>6
<1>9. \A f \in face \ gone : mu[f] = f
  BY <1>1, <1>6 DEF Kept
<1>10. side' = [d \in DOMAIN cw |-> mu[side[d]]]
  <2>1. DOMAIN side = DOMAIN cw /\ \A d \in DOMAIN cw : side[d] \in face \cup {0}
    BY <1>5 DEF Erased, WasDrawn
  <2> QED BY <1>4, <1>6, <2>1
<1>11. ASSUME NEW n \in Node
       PROVE  /\ cont[n] = IF n \in DOMAIN isoRegion THEN isoRegion[n] ELSE None
              /\ n \in DOMAIN isoRegion => \E f \in face \cup {0} : isoRegion[n] = mu[f]
  <2>0. /\ DOMAIN org = DOMAIN cw /\ \A d \in DOMAIN cw : org[d] = o[d] /\ d \in DOMAIN c
        /\ n \in DOMAIN isoRegion <=> \A d \in DOMAIN cw : o[d] # n
        /\ DOMAIN job.old.org = Deleted /\ \A d \in Deleted : job.old.org[d] = o[d] /\ d \in DOMAIN c
        /\ containing[n] \in face \cup {0, None}
        /\ containing[n] = None <=> \E d \in DOMAIN c : o[d] = n
    BY <1>5 DEF Erased, Regions, Listed, WasDrawn
  <2>1. Leaving(n) = {} <=> \A d \in DOMAIN cw : o[d] # n
    BY <2>0 DEF Leaving
  <2>2. CASE n \in isolated
    <3>1. (\A d \in DOMAIN cw : o[d] # n) /\ \E d \in DOMAIN job.old.org : job.old.org[d] = n
      BY <1>2, <2>1, <2>2
    <3>2. /\ n \in DOMAIN isoRegion /\ Uncovered(n) = isoRegion[n]
          /\ \E f \in face \cup {0} : isoRegion[n] = mu[f]
      BY <1>0, <3>1, UncoveredIsThere
    <3> QED BY <1>3, <2>2, <3>2
  <2>3. CASE n \notin isolated
    <3>1. cont[n] = Kept(job.merged, containing[n])
      BY <1>3, <2>3
    <3>2. CASE containing[n] = None
      <4>1. n \notin DOMAIN isoRegion
        <5>1. PICK d \in DOMAIN c : o[d] = n
          BY <2>0, <3>2
        <5>2. CASE d \in Deleted
          <6>1. \E k \in DOMAIN job.old.org : job.old.org[k] = n
            BY <2>0, <5>1, <5>2
          <6>2. Leaving(n) # {}
            BY <1>2, <2>3, <6>1
          <6> QED BY <2>0, <2>1, <6>2
        <5>3. CASE d \notin Deleted
          <6>1. d \in DOMAIN cw
            BY <1>6, <5>1, <5>3 DEF Gone
          <6> QED BY <2>0, <5>1, <6>1
        <5> QED BY <5>2, <5>3
      <4>2. Kept(job.merged, None) = None
        <5>1. None \notin face
          BY <1>6 DEF None
        <5> QED BY <1>6, <5>1 DEF Kept
      <4> QED BY <3>1, <3>2, <4>1, <4>2
    <3>3. CASE containing[n] # None
      <4>1. n \in DOMAIN isoRegion
        BY <2>0, <3>3
      <4>2. containing[n] \in face \cup {0} /\ isoRegion[n] = mu[containing[n]]
        BY <1>5, <2>0, <3>3, <4>1 DEF Regions
      <4> QED BY <1>6, <3>1, <4>1, <4>2
    <3> QED BY <3>2, <3>3
  <2> QED BY <2>2, <2>3
<1>12. \A n \in DOMAIN isoRegion : isoRegion[n] \in (face \ gone) \cup {0}
  <2>1. DOMAIN isoRegion \subseteq Node
    BY <1>5 DEF Regions
  <2> QED BY <1>8, <1>11, <2>1
<1>13. containing' = [n \in Node |-> cont[n]]
  BY <1>3, <1>4
<1>14. job'.phase = "nodes" /\ "phase" \in DOMAIN job'
  BY <1>4
<1>15. Relabelled(mu, cont, gone)
  BY <1>4, <1>7, <1>8, <1>9, <1>10, <1>11, <1>12, <1>13, <1>14 DEF Relabelled
<1> QED BY <1>15

\* So the tables are those of the drawing again.
LEMMA RelabelRestores ==
  ASSUME NEW c, NEW s, NEW o, NEW mu, Deleting(c, s, o, mu), job.phase = "faces",
         NEW cont, NEW gone, Relabelled(mu, cont, gone)
  PROVE  FacesInv'
<1>0. /\ side' = [d \in DOMAIN cw |-> mu[side[d]]]
      /\ containing' = [n \in Node |-> cont[n]]
      /\ face' = face \ gone /\ relation' \subseteq relation
      /\ \A n \in Node : cont[n] = IF n \in DOMAIN isoRegion THEN isoRegion[n] ELSE None
      /\ gone \subseteq face
      /\ \A f \in face \cup {0} : mu[f] \in (face \ gone) \cup {0}
      /\ \A f \in face \ gone : mu[f] = f
      /\ \A n \in DOMAIN isoRegion : isoRegion[n] \in (face \ gone) \cup {0}
      /\ cw' = cw /\ hole' = hole /\ region' = region /\ isoRegion' = isoRegion
      /\ next' = next /\ org' = org /\ last' = last
  BY DEF Relabelled, geomVars
<1>1. /\ WasDrawn(c, s, o) /\ Erased(c, s, o) /\ Regions(c, s, o, mu)
  BY DEF Deleting
<1>2. /\ \A d \in DOMAIN cw : next[d] = cw[-d]
      /\ face \cup {0} \subseteq Nat
  <2>1. NamesKept(c, s, mu)
    BY KeptNames
  <2> QED BY <2>1 DEF NamesKept
<1>3. Node' = Node
  BY <1>0 DEF Node
<1>4. /\ next = [d \in DOMAIN cw |-> next[d]] /\ DOMAIN next = DOMAIN cw
      /\ side = [d \in DOMAIN cw |-> s[d]] /\ org = [d \in DOMAIN cw |-> o[d]]
      /\ Planar(cw, DOMAIN cw, hole, region) /\ OneTurn(cw, org)
      /\ \A d \in DOMAIN cw : o[cw[d]] = o[d] /\ o[d] \in Node /\ s[d] \in face \cup {0}
      /\ last \in [node : Nat, edge : Nat, face : Nat]
      /\ Node \subseteq 1..last.node /\ face \subseteq 1..last.face /\ relation \subseteq Row
  BY <1>1 DEF WasDrawn, Erased
<1>5. Rotates(cw, DOMAIN cw) /\ cw \in [DOMAIN cw -> DOMAIN cw]
      /\ \A x, y \in DOMAIN cw : cw[x] = cw[y] => x = y
  BY <1>4 DEF Planar, Rotates, Permutes
<1>6. DartSet(DOMAIN cw, last.edge)
  <2>1. DOMAIN cw \subseteq DOMAIN c /\ DartSet(DOMAIN c, last.edge)
    BY <1>1 DEF WasDrawn, Erased
  <2> QED BY <1>5, <2>1 DEF DartSet, Rotates
<1>7. side' = region
  <2>1. region = [d \in DOMAIN cw |-> mu[s[d]]]
    BY <1>1 DEF Regions
  <2> QED BY <1>0, <1>4, <2>1
<1>8. (LinksFollowDrawing /\ RingsClose)'
  <2>1. Star(cw, org)
    BY <1>4, <1>5 DEF Star
  <2>2. (DartSet(DOMAIN next, last.edge))' /\ (DOMAIN cw = DOMAIN next)'
        /\ (\A d \in DOMAIN next : next[d] = cw[-d])' /\ Star(cw, org)'
    BY <1>0, <1>2, <1>4, <1>6, <2>1 DEF Star
  <2> QED BY <2>2, StarGivesLinks
<1>9. TypeOK'
  <2>1. next \in [DOMAIN next -> Int]
    <3>1. \A d \in DOMAIN cw : -d \in DOMAIN cw /\ cw[-d] \in DOMAIN cw /\ \A x \in DOMAIN cw : x \in Int
      BY <1>5 DEF Rotates
    <3> QED BY <1>2, <1>4, <3>1
  <2>2. DartSet(DOMAIN next', (last.edge)') /\ (last \in [node : Nat, edge : Nat, face : Nat])'
        /\ (next \in [DOMAIN next -> Int])'
    BY <1>0, <1>4, <1>6, <2>1
  <2>3. (next \in [Darts(Edge) -> Int] /\ Edge \subseteq 1..last.edge)'
    <3>1. (last.edge)' \in Nat
      BY <2>2
    <3> QED BY <2>2, <3>1, DartsOfEdges DEF Edge
  <2>4. side' \in [DOMAIN next' -> Nat]
    <3>1. \A d \in DOMAIN cw : side[d] \in face \cup {0} /\ mu[side[d]] \in (face \ gone) \cup {0}
      BY <1>0, <1>4
    <3> QED BY <1>0, <1>2, <1>4, <3>1
  <2>5. org' \in [DOMAIN next' -> Node']
    BY <1>0, <1>3, <1>4
  <2>6. containing' \in [Node' -> Nat \cup {None}]
    BY <1>0, <1>2, <1>3
  <2>7. Node' \subseteq 1..last'.node /\ face' \subseteq 1..last'.face /\ relation' \subseteq Row
    BY <1>0, <1>3, <1>4
  <2> QED BY <2>2, <2>3, <2>4, <2>5, <2>6, <2>7 DEF TypeOK
<1>10. IsolatedNodesBare'
  <2> SUFFICES ASSUME NEW n \in Node PROVE containing'[n] # None <=> Leaving(n)' = {}
    BY <1>3 DEF IsolatedNodesBare
  <2>1. n \in DOMAIN isoRegion <=> \A d \in DOMAIN cw : o[d] # n
    BY <1>1 DEF Regions
  <2>2. Leaving(n)' = {} <=> \A d \in DOMAIN cw : o[d] # n
    BY <1>0, <1>4 DEF Leaving
  <2>3. n \in DOMAIN isoRegion => isoRegion[n] # None
    BY <1>0, <1>2 DEF None
  <2> QED BY <1>0, <2>1, <2>2, <2>3
<1>11. IInv' /\ TurnsInv'
  BY <1>0, <1>4, <1>5, <1>8, <1>9, <1>10 DEF IInv, TurnsInv
<1>12. FacesFollowDrawing'
  BY <1>0, <1>3, <1>7 DEF FacesFollowDrawing
<1>13. RegionsAreFaces'
  <2>1. \A x \in DOMAIN cw' : region'[x] \in face' \cup {0}
    BY <1>0, <1>4, <1>7
  <2>2. DOMAIN isoRegion' \subseteq Node' /\ \A n \in DOMAIN isoRegion' : isoRegion'[n] \in face' \cup {0}
    BY <1>0, <1>1, <1>3 DEF Regions
  <2>3. ASSUME NEW f \in face' PROVE HasShell(DOMAIN cw', hole', region', f)
    <3>1. f \in face /\ mu[f] = f /\ f # 0
      BY <1>0, <1>4, <2>3
    <3>2. HasShell(DOMAIN cw, hole, region, f)
      BY <1>1, <3>1 DEF Regions
    <3> QED BY <1>0, <3>2
  <2> QED BY <2>1, <2>2, <2>3 DEF RegionsAreFaces
<1>14. PlaneInv'
  BY <1>0, <1>4, <1>12, <1>13 DEF PlaneInv
<1> QED BY <1>11, <1>14 DEF FacesInv

\* The relabelling ends the part that leaves the tables inconsistent.
LEMMA RelabelEnds ==
  ASSUME NEW c, NEW s, NEW o, NEW mu, Deleting(c, s, o, mu), RelabelFaces
  PROVE  CleanupInv'
<1>1. job.phase = "faces"
  BY DEF RelabelFaces
<1>2. PICK cont, gone : Relabelled(mu, cont, gone)
  BY RelabelFacesWrites
<1>3. FacesInv'
  BY <1>1, <1>2, RelabelRestores
<1>4. job'.phase = "nodes" /\ "phase" \in DOMAIN job'
  BY <1>2 DEF Relabelled
<1> QED BY <1>3, <1>4 DEF CleanupInv

-----------------------------------------------------------------------------
(* The whole function. *)

\* A step that edits the tables as an operation of module Topology does, or that leaves
\* them as they are, keeps the invariant.
LEMMA EditsKeepFaces == FacesInv /\ [Next]_vars => FacesInv'
BY NextInv, TurnsInvNext, PlaneInvNext DEF FacesInv

\* The loops over nodes edit the tables only so.
LEMMA NodeLoopsEdit ==
  ASSUME CleanIsoNode \/ ListHeals \/ CleanNode \/ EndCleanup, "phase" \in DOMAIN job
  PROVE  /\ [Next]_vars
         /\ job'.phase \in {"nodes", "heal", "returned"} /\ "phase" \in DOMAIN job'
<1>1. CASE CleanIsoNode
  <2>1. PICK n \in job.todo : /\ RemoveIsoNode \/ UNCHANGED vars
                              /\ job' = [job EXCEPT !.todo = @ \ {n}]
    BY <1>1 DEF CleanIsoNode
  <2>2. job.phase = "nodes"
    BY <1>1 DEF CleanIsoNode
  <2>3. [Next]_vars
    BY <2>1 DEF Next, Edit
  <2> QED BY <2>1, <2>2, <2>3
<1>2. CASE ListHeals
  BY <1>2 DEF ListHeals
<1>3. CASE CleanNode
  <2>1. PICK h \in job.todo :
          LET a == Renamed(Lowest(h.edges))
              b == Renamed(Lowest(h.edges \ {Lowest(h.edges)}))
              left == job.todo \ {h}
          IN  \/ /\ a # b
                 /\ \E k \in Heals(a, b, h.nodes) : HealMeeting(a, b, k, TRUE)
                 /\ job' = [job EXCEPT !.todo = left,
                                       !.edgeMap = [e \in DOMAIN @ \cup {b} |-> IF e = b THEN a ELSE @[e]]]
              \/ /\ a = b \/ Heals(a, b, h.nodes) = {}
                 /\ job' = [job EXCEPT !.todo = left]
                 /\ UNCHANGED vars
    BY <1>3 DEF CleanNode
  <2>2. job.phase = "heal"
    BY <1>3 DEF CleanNode
  <2> DEFINE a == Renamed(Lowest(h.edges))
             b == Renamed(Lowest(h.edges \ {Lowest(h.edges)}))
  <2>3. CASE UNCHANGED vars /\ job' = [job EXCEPT !.todo = job.todo \ {h}]
    BY <2>2, <2>3
  <2>4. CASE /\ \E k \in Heals(a, b, h.nodes) : HealMeeting(a, b, k, TRUE)
             /\ job' = [job EXCEPT !.todo = job.todo \ {h},
                                   !.edgeMap = [e \in DOMAIN @ \cup {b} |-> IF e = b THEN a ELSE @[e]]]
    <3> HIDE DEF a, b
    <3>1. PICK k \in Heals(a, b, h.nodes) : HealMeeting(a, b, k, TRUE)
      BY <2>4
    <3>2. a \in Edge /\ b \in Edge /\ k \in HealChoice(a, b)
      BY DEF Heals
    <3>3. ModEdgeHeal
      BY <3>1, <3>2 DEF ModEdgeHeal, HealEdges
    <3>4. job'.phase = job.phase /\ DOMAIN job' = DOMAIN job
      BY <2>4, <2>2
    <3> QED BY <2>2, <3>3, <3>4 DEF Next, Edit
  <2> QED BY <2>1, <2>3, <2>4
<1>4. CASE EndCleanup
  BY <1>4 DEF EndCleanup, Returned
<1> QED BY <1>1, <1>2, <1>3, <1>4

\* A step that changes nothing keeps it.
LEMMA StutterKeeps ==
  ASSUME CleanupInv, UNCHANGED cleanupVars
  PROVE  CleanupInv'
<1>1. /\ cw' = cw /\ hole' = hole /\ region' = region /\ isoRegion' = isoRegion
      /\ relation' = relation /\ next' = next /\ side' = side /\ org' = org
      /\ containing' = containing /\ face' = face /\ last' = last /\ job' = job
  BY DEF cleanupVars, vars, geomVars, tgVars, tableVars
<1>2. CASE job.phase \in {"idle", "nodes", "heal", "returned"} /\ "phase" \in DOMAIN job /\ FacesInv
  <2>1. FacesInv'
    BY <1>2, EditsKeepFaces DEF cleanupVars
  <2> QED BY <1>1, <1>2, <2>1 DEF CleanupInv
<1>3. CASE job.phase \in {"delete", "right", "left", "faces"} /\ \E c, s, o, mu : Deleting(c, s, o, mu)
  <2>1. PICK c, s, o, mu : Deleting(c, s, o, mu)
    BY <1>3
  <2>2. Node' = Node /\ Deleted' = Deleted /\ Gone(c)' = Gone(c)
    BY <1>1 DEF Node, Deleted, Gone
  <2>3. WasDrawn(c, s, o)'
    BY <1>1, <2>1, <2>2 DEF Deleting, WasDrawn
  <2>4. Listed(c, s, o)'
    BY <1>1, <2>1, <2>2 DEF Deleting, Listed
  <2>5. Erased(c, s, o)'
    BY <1>1, <2>1, <2>2 DEF Deleting, Erased
  <2>6. Regions(c, s, o, mu)'
    BY <1>1, <2>1, <2>2 DEF Deleting, Regions
  <2>7. Mending(c)'
    BY <1>1, <2>1, <2>2 DEF Deleting, Mending
  <2> QED BY <1>1, <1>3, <2>3, <2>4, <2>5, <2>6, <2>7 DEF Deleting, CleanupInv
<1> QED BY <1>2, <1>3 DEF CleanupInv

\* It holds at first.
LEMMA CleanupInvInit == CleanupInit => CleanupInv
BY FacesInvInit DEF CleanupInit, CleanupInv, Idle

\* And every step keeps it.
LEMMA CleanupInvNext == CleanupInv /\ [CleanupNext]_cleanupVars => CleanupInv'
<1> SUFFICES ASSUME CleanupInv, [CleanupNext]_cleanupVars PROVE CleanupInv'
  OBVIOUS
<1>1. CASE UNCHANGED cleanupVars
  BY <1>1, StutterKeeps
<1>2. Resting => job.phase \in {"idle", "returned"} /\ FacesInv /\ "phase" \in DOMAIN job
  BY DEF Resting, Idle, Returned, CleanupInv
<1>3. ASSUME NEW box \in Boxes, RemoveUnusedPrimitives(box) PROVE CleanupInv'
  <2>1. FacesInv
    BY <1>2, <1>3 DEF RemoveUnusedPrimitives
  <2> QED BY <1>3, <2>1, CleanupStarts DEF CleanupInv
<1>4. CASE Resting /\ Next /\ UNCHANGED job
  BY <1>2, <1>4, EditsKeepFaces DEF CleanupInv
<1>5. CASE DeleteEdge
  <2>1. job.phase = "delete"
    BY <1>5 DEF DeleteEdge
  <2>2. PICK c, s, o, mu : Deleting(c, s, o, mu)
    BY <2>1 DEF CleanupInv
  <2> QED BY <1>5, <2>1, <2>2, DeleteEdgeKeeps DEF CleanupInv
<1>6. CASE MendNextRight \/ MendNextLeft
  <2>1. job.phase \in {"right", "left"}
    BY <1>6 DEF MendNextRight, MendNextLeft
  <2>2. PICK c, s, o, mu : Deleting(c, s, o, mu)
    BY <2>1 DEF CleanupInv
  <2> QED BY <1>6, <2>2, MendKeeps DEF CleanupInv
<1>7. CASE RelabelFaces
  <2>1. job.phase = "faces"
    BY <1>7 DEF RelabelFaces
  <2>2. PICK c, s, o, mu : Deleting(c, s, o, mu)
    BY <2>1 DEF CleanupInv
  <2> QED BY <1>7, <2>2, RelabelEnds
<1>8. CASE CleanIsoNode \/ ListHeals \/ CleanNode \/ EndCleanup
  <2>1. job.phase \in {"nodes", "heal"}
    BY <1>8 DEF CleanIsoNode, ListHeals, CleanNode, EndCleanup
  <2>2. FacesInv /\ "phase" \in DOMAIN job
    BY <2>1 DEF CleanupInv
  <2>3. /\ [Next]_vars
        /\ job'.phase \in {"nodes", "heal", "returned"} /\ "phase" \in DOMAIN job'
    BY <1>8, <2>2, NodeLoopsEdit
  <2> QED BY <2>2, <2>3, EditsKeepFaces DEF CleanupInv
<1> QED BY <1>1, <1>3, <1>4, <1>5, <1>6, <1>7, <1>8 DEF CleanupNext, CleanupStep

\* Whatever set of edges RemoveUnusedPrimitives deletes at once, its two UPDATE loops and
\* its relabelling leave the links, the ends, the faces and the containing faces of the
\* drawing without those edges, for its loops over nodes and for the edits that follow.
THEOREM CleanupCorrect == CleanupSpec => []MendedTablesFollowDrawing
<1>1. CleanupInv => MendedTablesFollowDrawing
  <2> SUFFICES ASSUME CleanupInv, Mended
               PROVE  /\ LinksFollowDrawing /\ NodesFollowDrawing /\ FacesFollowDrawing
                      /\ IsolatedNodesBare /\ ForeignKeysHold
    BY DEF MendedTablesFollowDrawing
  <2>1. FacesInv
    BY DEF Mended, CleanupInv
  <2>2. NodesFollowDrawing
    BY <2>1, TurnsAreNodes DEF FacesInv
  <2>3. ForeignKeysHold
    BY <2>1, RegionsAreKeys
  <2> QED BY <2>1, <2>2, <2>3 DEF FacesInv, IInv, PlaneInv
<1> QED BY <1>1, CleanupInvInit, CleanupInvNext, PTL DEF CleanupSpec
=============================================================================
