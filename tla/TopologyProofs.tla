------------------------------ MODULE TopologyProofs ------------------------------
(* Type correctness, the links, the rings, the isolated nodes, the origins of edges   *)
(* and the rows of the relation table of Topology, for every number of nodes, edges   *)
(* and faces and every TopoGeometry; and the theory of planar maps that               *)
(* TopologyFacesProofs goes on from.                                                  *)
(*                                                                                    *)
(* The argument, in the order of the module. cw, the rotation of the drawing,         *)
(* permutes the darts and never leaves a node (Star). Each edit is an insertion, a    *)
(* removal, a cut or a join of that rotation, and each of these keeps it a Star. What *)
(* remains for an edit is that the columns it writes are read off the new rotation.   *)
(* Then that each node has one turn (OneTurn); that the rows refer to primitives,     *)
(* when the check of ST_RemIsoEdge is not passed by (RowsInv); and when the rings of  *)
(* a drawing part the plane as Jordan's theorem says (Planar): that it stays so when  *)
(* a curve is drawn inside a face, erased, cut or joined with the next.               *)
EXTENDS Topology, FiniteSetTheorems, TLAPS

\* The numbers less than others are well founded.
LEMMA LessWellFounded == IsWellFoundedOn({ss \in Nat \X Nat : ss[1] < ss[2]}, Nat)
BY NatLessThanWellFounded DEF OpToRel

\* A set of numbers has a least one.
LEMMA Least ==
  ASSUME NEW S, S \subseteq Nat, S # {}
  PROVE  \E m \in S : \A k \in S : m <= k
<1> DEFINE R == {ss \in Nat \X Nat : ss[1] < ss[2]}
<1>1. IsWellFoundedOn(R, Nat)
  BY LessWellFounded
<1> HIDE DEF R
<1>2. PICK m \in S : \A k \in S : ~(<<k, m>> \in R)
  BY <1>1, WFMin
<1>3. ASSUME NEW k \in S PROVE m <= k
  <2>1. <<k, m>> \in Nat \X Nat
    OBVIOUS
  <2>2. ~(k < m)
    BY <1>2, <2>1 DEF R
  <2> QED BY <2>2
<1> QED BY <1>3

\* A set that has 0, and with a number below n the next one, has all up to n.
LEMMA UpTo ==
  ASSUME NEW n \in Nat, NEW S, 0 \in S, \A k \in 0..n : k < n /\ k \in S => k + 1 \in S
  PROVE  0..n \subseteq S
<1> SUFFICES ASSUME (0..n) \ S # {} PROVE FALSE
  OBVIOUS
<1> DEFINE L == (0..n) \ S
<1>0. L \subseteq Nat /\ L # {}
  OBVIOUS
<1>1. PICK m \in L : \A k \in L : m <= k
  <2> HIDE DEF L
  <2> QED BY <1>0, Least
<1>2. m - 1 \in 0..n /\ m - 1 < n /\ m - 1 \in S
  BY <1>1
<1>3. (m - 1) + 1 \in S
  BY <1>2
<1> QED BY <1>1, <1>3

\* f has the value base and then, at each number up to n, G of the value before.
Iterates(f, n, base, G) == f[0] = base /\ \A k \in 1..n : f[k] = G[<<f[k - 1], k>>]

\* Every function of a value and a number can be iterated.
LEMMA Recursion ==
  ASSUME NEW n \in Nat, NEW X, NEW base \in X, NEW G \in [X \X (1..n) -> X]
  PROVE  \E f \in [0..n -> X] : Iterates(f, n, base, G)
<1> DEFINE Runs(f, m) == f[0] = base /\ \A k \in 1..m : f[k] = G[<<f[k - 1], k>>]
<1> DEFINE S == {m \in 0..n : \E f \in [0..m -> X] : Runs(f, m)}
<1>1. 0 \in S
  <2> DEFINE f == [k \in 0..0 |-> base]
  <2>1. f \in [0..0 -> X] /\ Runs(f, 0)
    OBVIOUS
  <2>2. \E h \in [0..0 -> X] : Runs(h, 0)
    BY <2>1
  <2> QED BY <2>2
<1>2. ASSUME NEW m \in 0..n, m < n, m \in S PROVE m + 1 \in S
  <2>1. PICK f \in [0..m -> X] : Runs(f, m)
    BY <1>2
  <2> DEFINE v == G[<<f[m], m + 1>>]
  <2> DEFINE g == [k \in 0..m+1 |-> IF k = m + 1 THEN v ELSE f[k]]
  <2>2. <<f[m], m + 1>> \in X \X (1..n) /\ v \in X
    BY <1>2
  <2> HIDE DEF v
  <2>3. g \in [0..m+1 -> X]
    BY <2>2
  <2>4. ASSUME NEW k \in 1..m+1 PROVE g[k] = G[<<g[k - 1], k>>]
    <3>1. CASE k = m + 1
      <4>1. g[k] = v /\ g[k - 1] = f[m]
        BY <3>1
      <4> QED BY <3>1, <4>1 DEF v
    <3>2. CASE k # m + 1
      <4>1. k \in 1..m /\ k - 1 \in 0..m
        BY <3>2
      <4>2. g[k] = f[k] /\ g[k - 1] = f[k - 1]
        BY <4>1
      <4> QED BY <4>1, <4>2, <2>1
    <3> QED BY <3>1, <3>2
  <2>5. Runs(g, m + 1)
    <3>1. g[0] = base
      BY <2>1
    <3> QED BY <3>1, <2>4
  <2>6. \E h \in [0..m+1 -> X] : Runs(h, m + 1)
    BY <2>3, <2>5
  <2>7. m + 1 \in 0..n
    BY <1>2
  <2> QED BY <2>6, <2>7
<1>3. 0..n \subseteq S
  <2> HIDE DEF S
  <2> QED BY <1>1, <1>2, UpTo
<1>4. n \in S
  BY <1>3
<1> QED BY <1>4 DEF Iterates

\* A collection that has the empty set, and with a set the one with one element of S
\* more, has the finite set S.
LEMMA Growing ==
  ASSUME NEW S, IsFiniteSet(S), NEW U, {} \in U,
         \A T \in SUBSET S : \A x \in S \ T : T \in U => T \cup {x} \in U
  PROVE  S \in U
<1> DEFINE n == Cardinality(S)
<1> DEFINE C == {k \in 0..n : \A T \in SUBSET S : Cardinality(T) = k => T \in U}
<1>1. n \in Nat
  BY FS_CardinalityType
<1>2. 0 \in C
  BY <1>1, FS_EmptySet, FS_Subset
<1>3. ASSUME NEW k \in 0..n, k < n, k \in C PROVE k + 1 \in C
  <2>1. SUFFICES ASSUME NEW T \in SUBSET S, Cardinality(T) = k + 1 PROVE T \in U
    BY <1>1, <1>3
  <2>2. IsFiniteSet(T)
    BY FS_Subset
  <2>3. T # {}
    <3>1. k + 1 # 0
      BY <1>1
    <3> QED BY <2>1, <3>1, FS_EmptySet
  <2>4. PICK x \in T : TRUE
    BY <2>3
  <2>5. Cardinality(T \ {x}) = k
    <3>1. Cardinality(T \ {x}) = Cardinality(T) - 1
      BY <2>2, <2>4, FS_RemoveElement
    <3> QED BY <2>1, <3>1, <1>1
  <2>6. T \ {x} \in U
    BY <1>3, <2>5
  <2>7. (T \ {x}) \cup {x} \in U
    BY <2>6
  <2>8. (T \ {x}) \cup {x} = T
    OBVIOUS
  <2> QED BY <2>7, <2>8
<1>4. 0..n \subseteq C
  <2> HIDE DEF C, n
  <2> QED BY <1>1, <1>2, <1>3, UpTo
<1> QED BY <1>1, <1>4

\* D holds both directions of every curve it has one of, named by ids up to n.
DartSet(D, n) == \A d \in D : d \in Int /\ d # 0 /\ -d \in D /\ d <= n

\* The inductive invariant. Rings cannot be shown to stay closed without knowing
\* that the links follow the drawing (an edit changes two or three links, and only
\* the rotation says which), and the drawing around a node changes shape when its
\* first edge comes or its last goes, which is when isolation changes.
IInv == TypeOK /\ LinksFollowDrawing /\ RingsClose /\ IsolatedNodesBare

\* The darts of the stored edges are their ids, each with both signs: an edge has
\* one row, which both columns of next edges are in.
LEMMA DartsOfEdges ==
  ASSUME NEW D, NEW n \in Nat, DartSet(D, n)
  PROVE  /\ Darts({Abs(d) : d \in D}) = D
         /\ {Abs(d) : d \in D} \subseteq 1..n
<1>1. {Abs(d) : d \in D} \subseteq D
  BY DEF DartSet, Abs
<1>2. \A d \in D : Abs(d) \in 1..n
  BY DEF DartSet, Abs
<1>3. Darts({Abs(d) : d \in D}) \subseteq D
  BY <1>1 DEF DartSet, Darts
<1>4. ASSUME NEW d \in D PROVE d \in Darts({Abs(x) : x \in D})
  <2>1. Abs(d) \in {Abs(x) : x \in D}
    OBVIOUS
  <2>2. d = Abs(d) \/ d = -Abs(d)
    BY DEF DartSet, Abs
  <2> QED BY <2>1, <2>2 DEF Darts
<1> QED BY <1>2, <1>3, <1>4

\* The ids of a set of typed edges make a DartSet bounded by the edge sequence.
LEMMA DartsTyped ==
  ASSUME TypeOK
  PROVE  DartSet(DOMAIN next, last.edge) /\ DOMAIN next = Darts(Edge)
<1>1. DOMAIN next = Darts(Edge)
  BY DEF TypeOK
<1>2. \A e \in Edge : e \in Int /\ 1 <= e /\ e <= last.edge
  BY DEF TypeOK
<1>3. ASSUME NEW d \in Darts(Edge) 
      PROVE d \in Int /\ d # 0 /\ -d \in Darts(Edge) /\ d <= last.edge
  <2>1. CASE d \in Edge
    BY <2>1, <1>2 DEF Darts, TypeOK
  <2>2. CASE d \in {-e : e \in Edge}
    <3>1. PICK e \in Edge : d = -e
      BY <2>2
    <3>2. -d = e
      BY <3>1, <1>2
    <3> QED BY <3>1, <3>2, <1>2 DEF Darts, TypeOK
  <2> QED BY <2>1, <2>2 DEF Darts
<1> QED BY <1>1, <1>3 DEF DartSet

\* In a well typed database the darts of the edge table are such a set.
LEMMA EdgeDarts ==
  ASSUME TypeOK, NEW e \in Edge
  PROVE  /\ e \in Int /\ e # 0 /\ e # -e /\ e <= last.edge
         /\ e \in DOMAIN next /\ -e \in DOMAIN next
         /\ DartSet(DOMAIN next, last.edge) /\ last.edge \in Nat
<1>1. e \in Darts(Edge)
  BY DEF Darts
<1>2. e \in DOMAIN next /\ DartSet(DOMAIN next, last.edge)
  BY <1>1, DartsTyped
<1> QED BY <1>2 DEF DartSet, TypeOK

\* An id is that of a stored edge when its positive dart is one.
LEMMA FromDarts ==
  ASSUME TypeOK, DartSet(DOMAIN next', (last.edge)'),
         (last \in [node : Nat, edge : Nat, face : Nat])',
         (next \in [DOMAIN next -> Int])'
  PROVE  (next \in [Darts(Edge) -> Int] /\ Edge \subseteq 1..last.edge)'
<1>1. (last.edge)' \in Nat
  OBVIOUS
<1> QED BY <1>1, DartsOfEdges DEF Edge

\* lwt_AddIsoNode, which adds a node no edge touches, keeps the invariant.
LEMMA AddIsoNodeInv == IInv /\ AddIsoNode => IInv'
<1> SUFFICES ASSUME IInv, AddIsoNode PROVE IInv'
  OBVIOUS
<1> USE DEF IInv
<1>0. PICK f \in face \cup {0} : \E found \in FacesFound(f) :
        LET n == last.node + 1 IN
        /\ Fresh("node", 1, MaxNode)
        /\ containing' = [m \in Node \cup {n} |-> IF m = n THEN found ELSE containing[m]]
        /\ DrawPoint(n, f)
        /\ UNCHANGED <<tgVars, next, side, org, face>>
  BY DEF AddIsoNode
<1>1. PICK found \in FacesFound(f) :
        /\ Fresh("node", 1, MaxNode)
        /\ containing' = [m \in Node \cup {last.node + 1} |->
                            IF m = last.node + 1 THEN found ELSE containing[m]]
        /\ DrawPoint(last.node + 1, f)
        /\ UNCHANGED <<tgVars, next, side, org, face>>
  BY <1>0
<1>2. found \in Nat
  BY DEF FacesFound, TypeOK
<1>3. last' \in [node : Nat, edge : Nat, face : Nat] /\ last'.node = last.node + 1
      /\ last'.edge = last.edge /\ last'.face = last.face
  BY <1>1 DEF Fresh, TypeOK
<1>4. Node' = Node \cup {last.node + 1} /\ last.node + 1 \notin Node
  BY <1>1 DEF Node, TypeOK
<1>5. TypeOK'
  BY <1>1, <1>2, <1>3, <1>4 DEF TypeOK, Edge, tgVars, Node
<1>6. UNCHANGED <<next, org, cw, side>>
  BY <1>1 DEF DrawPoint
<1>7. LinksFollowDrawing' /\ RingsClose'
  BY <1>6 DEF LinksFollowDrawing, RingsClose
<1>8. IsolatedNodesBare'
  <2> SUFFICES ASSUME NEW m \in Node' PROVE (containing[m] # None)' <=> Leaving(m)' = {}
    BY DEF IsolatedNodesBare
  <2>1. Leaving(m)' = Leaving(m)
    BY <1>6 DEF Leaving
  <2>2. CASE m \in Node
    BY <2>1, <2>2, <1>1, <1>4 DEF IsolatedNodesBare
  <2>3. CASE m = last.node + 1
    <3>1. Leaving(m) = {}
      BY <2>3, <1>4 DEF Leaving, TypeOK
    <3> QED BY <2>1, <2>3, <3>1, <1>1, <1>2 DEF None
  <2> QED BY <2>2, <2>3, <1>4
<1> QED BY <1>5, <1>7, <1>8

\* lwt_RemoveIsoNode, which takes away a node without edges, keeps the invariant.
LEMMA RemoveIsoNodeInv == IInv /\ RemoveIsoNode => IInv'
<1> SUFFICES ASSUME IInv, RemoveIsoNode PROVE IInv'
  OBVIOUS
<1> USE DEF IInv
<1>1. PICK n \in Node :
        /\ containing[n] # None
        /\ containing' = [m \in Node \ {n} |-> containing[m]]
        /\ ErasePoint(n)
        /\ UNCHANGED <<relation, next, side, org, face, last>>
  BY DEF RemoveIsoNode
<1>2. Node' = Node \ {n}
  BY <1>1 DEF Node
<1>3. UNCHANGED <<next, org, cw, side, relation, face, last>>
  BY <1>1 DEF ErasePoint
<1>4. Leaving(n) = {}
  BY <1>1 DEF IsolatedNodesBare
<1>5. TypeOK'
  <2>1. \A d \in DOMAIN next : org[d] \in Node \ {n}
    BY <1>4 DEF TypeOK, Leaving
  <2>2. org \in [DOMAIN next -> Node \ {n}]
    BY <2>1 DEF TypeOK
  <2> QED BY <1>1, <1>2, <1>3, <2>2 DEF TypeOK, Edge
<1>6. LinksFollowDrawing' /\ RingsClose'
  BY <1>3 DEF LinksFollowDrawing, RingsClose
<1>7. IsolatedNodesBare'
  BY <1>1, <1>2, <1>3 DEF IsolatedNodesBare, Leaving
<1> QED BY <1>5, <1>6, <1>7

-----------------------------------------------------------------------------
(* Rotations. *)

\* rot permutes the darts, and stays at the node a dart starts from: going round
\* by rot visits the edge ends of one node.
Star(rot, at) == /\ rot \in [DOMAIN rot -> DOMAIN rot]
                 /\ \A x, y \in DOMAIN rot : rot[x] = rot[y] => x = y
                 /\ \A x \in DOMAIN rot : at[rot[x]] = at[x]

\* The two halves of the invariant that are about links, as one fact about cw.
LEMMA LinksAreStar ==
  ASSUME TypeOK, LinksFollowDrawing, RingsClose
  PROVE  /\ DOMAIN cw = DOMAIN next
         /\ \A d \in DOMAIN next : next[d] = cw[-d] /\ cw[d] = next[-d]
         /\ \A d \in DOMAIN next : cw[d] \in DOMAIN next /\ org[cw[d]] = org[d]
         /\ \A d, x \in DOMAIN next : cw[d] = cw[x] => d = x
<1>1. DartSet(DOMAIN next, last.edge)
  BY DartsTyped
<1>2. \A d \in DOMAIN next : d \in Int /\ -d \in DOMAIN next /\ -(-d) = d
  BY <1>1 DEF DartSet
<1>3. DOMAIN cw = DOMAIN next /\ \A d \in DOMAIN next : next[d] = cw[-d] /\ cw[d] = next[-d]
  BY <1>2 DEF LinksFollowDrawing
<1>4. \A d \in DOMAIN next : cw[d] \in DOMAIN next /\ org[cw[d]] = org[d]
  BY <1>2, <1>3 DEF RingsClose
<1>5. ASSUME NEW d \in DOMAIN next, NEW x \in DOMAIN next, cw[d] = cw[x] PROVE d = x
  <2>1. -d = -x
    BY <1>2, <1>3, <1>5 DEF RingsClose
  <2> QED BY <2>1, <1>2
<1> QED BY <1>3, <1>4, <1>5

\* Conversely, links taken from a rotation that permutes the darts node by node
\* close into rings.
LEMMA StarGivesLinks ==
  ASSUME (DartSet(DOMAIN next, last.edge))', (DOMAIN cw = DOMAIN next)',
         (\A d \in DOMAIN next : next[d] = cw[-d])', Star(cw, org)'
  PROVE  (LinksFollowDrawing /\ RingsClose)'
<1>1. \A d \in DOMAIN next' : d \in Int /\ -d \in DOMAIN next' /\ -(-d) = d
  BY DEF DartSet
<1>2. LinksFollowDrawing'
  BY DEF LinksFollowDrawing
<1>3. RingsClose'
  <2>1. ASSUME NEW d \in DOMAIN next' PROVE next'[d] \in DOMAIN next' /\ org'[next'[d]] = org'[-d]
    BY <1>1 DEF Star
  <2>2. ASSUME NEW d \in DOMAIN next', NEW x \in DOMAIN next', next'[d] = next'[x] PROVE d = x
    <3>1. -d = -x
      BY <1>1, <2>2 DEF Star
    <3> QED BY <1>1, <3>1
  <2> QED BY <2>1, <2>2 DEF RingsClose
<1> QED BY <1>2, <1>3

\* The dart after x clockwise once both ends of edge e are inserted, e after p
\* and then -e after q.
After(e, p, q, x) ==
  LET afterE == IF p = 0 THEN e ELSE cw[p]
  IN  IF x = -e THEN IF q = 0 THEN -e
                     ELSE IF q = e THEN afterE
                     ELSE IF q = p THEN e ELSE cw[q]
      ELSE IF x = q THEN -e
      ELSE IF x = e THEN afterE
      ELSE IF x = p THEN e ELSE cw[x]

\* e is a new edge, and p and q are places for its ends.
Placed(e, p, q) ==
  /\ e \in Int \ {0} /\ p \in Int /\ q \in Int
  /\ e \notin DOMAIN cw /\ -e \notin DOMAIN cw /\ 0 \notin DOMAIN cw
  /\ p \in DOMAIN cw \cup {0}
  /\ q \in DOMAIN cw \cup {0, e}

\* The rotation with both ends of e inserted.
Inserted(e, p, q) == [x \in DOMAIN cw \cup {e, -e} |-> After(e, p, q, x)]

\* InsertEdge is that rotation, when the places are places of the drawing.
LEMMA InsertEdgeValue ==
  ASSUME NEW e, NEW p, NEW q, Placed(e, p, q)
  PROVE  InsertEdge(cw, e, p, q) = Inserted(e, p, q)
<1> USE DEF Placed
<1> DEFINE one == InsertDart(cw, e, p)
<1>1. e # -e
  OBVIOUS
<1>2. /\ one = [x \in DOMAIN cw \cup {e} |-> one[x]]
      /\ \A x \in DOMAIN cw \cup {e} : one[x] = IF x = e THEN (IF p = 0 THEN e ELSE cw[p])
                                        ELSE IF x = p THEN e ELSE cw[x]
  BY DEF InsertDart
<1>3. InsertEdge(cw, e, p, q) =
        [x \in DOMAIN cw \cup {e, -e} |-> IF x = -e THEN (IF q = 0 THEN -e ELSE one[q])
                                  ELSE IF x = q THEN -e ELSE one[x]]
  <2>1. DOMAIN one = DOMAIN cw \cup {e}
    BY <1>2
  <2>2. DOMAIN one \cup {-e} = DOMAIN cw \cup {e, -e}
    BY <2>1
  <2> HIDE DEF one
  <2>3. InsertDart(one, -e, q) = [x \in DOMAIN one \cup {-e} |->
            IF x = -e THEN (IF q = 0 THEN -e ELSE one[q])
            ELSE IF x = q THEN -e ELSE one[x]]
    BY DEF InsertDart
  <2> QED BY <2>2, <2>3 DEF InsertEdge, one
<1> HIDE DEF one
<1> QED BY <1>1, <1>2, <1>3 DEF After, Inserted

\* Drawing a new edge between two places at its end nodes leaves a rotation that
\* permutes the darts node by node.
LEMMA InsertEdgeStar ==
  ASSUME NEW e, NEW p, NEW q, Placed(e, p, q), NEW s, NEW t, NEW at,
         \A d \in DOMAIN cw : cw[d] \in DOMAIN cw /\ org[cw[d]] = org[d],
         \A d, x \in DOMAIN cw : cw[d] = cw[x] => d = x,
         p # 0 => org[p] = s,
         q # 0 => IF q = e THEN s = t ELSE org[q] = t,
         at[e] = s, at[-e] = t, \A d \in DOMAIN cw : at[d] = org[d]
  PROVE  Star(InsertEdge(cw, e, p, q), at)
<1> DEFINE rot == InsertEdge(cw, e, p, q)
<1>0. rot = Inserted(e, p, q)
  BY InsertEdgeValue
<1>1. rot = [x \in DOMAIN cw \cup {e, -e} |-> After(e, p, q, x)]
  BY <1>0 DEF Inserted
<1>2. \A x \in DOMAIN cw \cup {e, -e} : rot[x] = After(e, p, q, x)
  BY <1>1
<1>3. e # -e
  BY DEF Placed
<1> HIDE DEF rot
<1> USE DEF After, Placed
<1>4. \A x \in DOMAIN cw \cup {e, -e} : rot[x] \in DOMAIN cw \cup {e, -e}
  BY <1>2
<1>5. \A x \in DOMAIN cw \cup {e, -e} : at[rot[x]] = at[x]
  BY <1>2, <1>3
<1>6. ASSUME NEW x \in DOMAIN cw \cup {e, -e}, NEW y \in DOMAIN cw \cup {e, -e}, rot[x] = rot[y]
      PROVE  x = y
  BY <1>2, <1>3, <1>6
<1> QED BY <1>1, <1>4, <1>5, <1>6 DEF Star, rot

\* Every dart is in the drawing, and the places an edge end can take are among them.
LEMMA DrawingRot ==
  ASSUME NEW e, NEW s, NEW t, NEW f, NEW g \in DrawingsBetween(e, s, t, f)
  PROVE  \E p, q : <<p, q>> \in Places(e, s, t, f) /\ g.rot = InsertEdge(cw, e, p, q)
<1>1. PICK pq \in Places(e, s, t, f) : g \in Drawings(e, pq[1], pq[2], f, {s, t})
  BY DEF DrawingsBetween
<1>2. g.rot = InsertEdge(cw, e, pq[1], pq[2])
  BY <1>1 DEF Drawings
<1>3. pq = <<pq[1], pq[2]>>
  BY DEF Places
<1> QED BY <1>2, <1>3

\* An id the sequence has not given out names no dart, with either sign.
LEMMA FreshDarts ==
  ASSUME TypeOK, NEW k \in Nat, k > last.edge
  PROVE  /\ k \in Int \ {0} /\ k # -k
         /\ k \notin DOMAIN next /\ -k \notin DOMAIN next /\ 0 \notin DOMAIN next
         /\ \A D : D = DOMAIN next \cup {k, -k} => DartSet(D, k)
<1>1. DartSet(DOMAIN next, last.edge)
  BY DartsTyped
<1>2. last.edge \in Nat
  BY DEF TypeOK
<1> QED BY <1>1, <1>2 DEF DartSet

\* lwt_AddIsoEdge, which joins two isolated nodes by an edge that is its own next
\* edge on both sides, keeps the invariant.
LEMMA AddIsoEdgeInv == IInv /\ AddIsoEdge => IInv'
<1> SUFFICES ASSUME IInv, AddIsoEdge PROVE IInv'
  OBVIOUS
<1> USE DEF IInv
<1> DEFINE e == last.edge + 1
           D == DOMAIN next \cup {e, -e}
<1>1. PICK s \in Node, t \in Node :
        /\ s # t
        /\ containing[s] # None
        /\ containing[s] = containing[t]
        /\ Fresh("edge", 1, MaxEdge)
        /\ next' = [d \in DOMAIN next \cup {e, -e} |-> IF d \in {e, -e} THEN -d ELSE next[d]]
        /\ side' = [d \in DOMAIN side \cup {e, -e} |->
                      IF d \in {e, -e} THEN containing[s] ELSE side[d]]
        /\ org' = [d \in DOMAIN org \cup {e, -e} |->
                     IF d = e THEN s ELSE IF d = -e THEN t ELSE org[d]]
        /\ containing' = [containing EXCEPT ![s] = None, ![t] = None]
        /\ \E g \in DrawingsBetween(e, s, t, isoRegion[s]) :
             DrawLine(e, g, isoRegion[s], 0, 0, {s, t})
        /\ UNCHANGED <<relation, face>>
  BY DEF AddIsoEdge
<1>2. PICK g \in DrawingsBetween(e, s, t, isoRegion[s]) : cw' = g.rot
  BY <1>1 DEF DrawLine
<1>3. last' \in [node : Nat, edge : Nat, face : Nat] /\ last'.edge = e
      /\ last'.node = last.node /\ last'.face = last.face
  BY <1>1 DEF Fresh, TypeOK
<1>4. /\ e \in Int \ {0} /\ e # -e /\ DartSet(D, e)
      /\ e \notin DOMAIN next /\ -e \notin DOMAIN next /\ 0 \notin DOMAIN next
  BY FreshDarts DEF TypeOK
<1>5. DOMAIN next = DOMAIN cw /\ DOMAIN org = DOMAIN next /\ DOMAIN side = DOMAIN next
  BY DEF TypeOK, LinksFollowDrawing
<1> HIDE DEF e
<1>6. next' = [d \in D |-> IF d \in {e, -e} THEN -d ELSE next[d]]
  BY <1>1
<1>7. org' = [d \in D |-> IF d = e THEN s ELSE IF d = -e THEN t ELSE org[d]]
  BY <1>1, <1>5
<1>8. side' = [d \in D |-> IF d \in {e, -e} THEN containing[s] ELSE side[d]]
  BY <1>1, <1>5
<1>9. Node' = Node
  BY <1>1 DEF Node
<1>10. Leaving(s) = {} /\ Leaving(t) = {}
  BY <1>1 DEF IsolatedNodesBare
<1>11. TypeOK'
  <2>1. (next \in [Darts(Edge) -> Int] /\ Edge \subseteq 1..last.edge)'
    BY <1>3, <1>4, <1>6, FromDarts DEF TypeOK
  <2>2. (side \in [DOMAIN next -> Nat])'
    BY <1>1, <1>5, <1>6, <1>8 DEF TypeOK, None, Node
  <2>3. (org \in [DOMAIN next -> Node])'
    BY <1>5, <1>6, <1>7, <1>9 DEF TypeOK
  <2>4. (containing \in [Node -> Nat \cup {None}])'
    BY <1>1, <1>9 DEF TypeOK
  <2> QED BY <1>1, <1>3, <1>9, <2>1, <2>2, <2>3, <2>4 DEF TypeOK
<1>12. cw' = Inserted(e, 0, 0) /\ Placed(e, 0, 0)
  <2>1. PICK p, q : <<p, q>> \in Places(e, s, t, isoRegion[s]) /\ g.rot = InsertEdge(cw, e, p, q)
    BY DrawingRot
  <2>2. p = 0 /\ q = 0
    BY <1>1, <1>10, <2>1 DEF Places, Sectors
  <2>3. Placed(e, 0, 0)
    BY <1>4, <1>5 DEF Placed
  <2> QED BY <1>2, <2>1, <2>2, <2>3, InsertEdgeValue
<1>13. Star(cw, org)'
  <2>1. org'[e] = s /\ org'[-e] = t /\ \A d \in DOMAIN cw : org'[d] = org[d]
    BY <1>4, <1>5, <1>7
  <2>2. Star(InsertEdge(cw, e, 0, 0), org')
    BY <1>12, <2>1, LinksAreStar, InsertEdgeStar
  <2> QED BY <1>12, <2>2, InsertEdgeValue
<1>14. LinksFollowDrawing' /\ RingsClose'
  <2>1. DOMAIN cw' = D
    BY <1>5, <1>12 DEF Inserted
  <2>2. ASSUME NEW d \in D PROVE next'[d] = cw'[-d]
    <3>1. -d \in D /\ -d \in DOMAIN cw \cup {e, -e}
      BY <1>4, <1>5 DEF DartSet
    <3>2. cw'[-d] = After(e, 0, 0, -d)
      BY <1>12, <3>1 DEF Inserted
    <3>3. d \in DOMAIN next => next[d] = cw[-d] /\ d # 0 /\ d \in Int
      BY LinksAreStar, DartsTyped DEF DartSet
    <3>4. e \in Int
      BY <1>4
    <3> QED BY <1>4, <1>6, <3>2, <3>3, <3>4 DEF After
  <2> QED BY <1>3, <1>4, <1>6, <1>13, <2>1, <2>2, StarGivesLinks
<1>15. IsolatedNodesBare'
  <2> SUFFICES ASSUME NEW n \in Node PROVE containing'[n] # None <=> Leaving(n)' = {}
    BY <1>9 DEF IsolatedNodesBare
  <2>1. CASE n \in {s, t}
    <3>1. containing'[n] = None
      BY <1>1, <2>1 DEF Node
    <3>2. e \in Leaving(s)' /\ -e \in Leaving(t)'
      BY <1>4, <1>7 DEF Leaving
    <3> QED BY <2>1, <3>1, <3>2
  <2>2. CASE n \notin {s, t}
    <3>1. Leaving(n)' = Leaving(n)
      BY <1>4, <1>5, <1>7, <2>2 DEF Leaving
    <3>2. containing'[n] = containing[n]
      BY <1>1, <2>2 DEF Node
    <3> QED BY <3>1, <3>2 DEF IsolatedNodesBare
  <2> QED BY <2>1, <2>2
<1> QED BY <1>11, <1>14, <1>15

\* The dart after x once edge e is passed over.
PastEdge(e, x) == IF x \in {e, -e} THEN cw[x] ELSE x

\* The rotation without e: an end of e is passed over at most twice.
Dropped(e) == [x \in DOMAIN cw \ {e, -e} |-> PastEdge(e, PastEdge(e, cw[x]))]

\* DropEdge is that rotation.
LEMMA DropEdgeValue == ASSUME NEW e PROVE DropEdge(cw, e) = Dropped(e)
BY DEF DropEdge, Dropped, PastEdge

\* Erasing an edge, closed, blind or neither, leaves a rotation that permutes the
\* remaining darts node by node.
LEMMA DropEdgeStar ==
  ASSUME NEW e, e \in DOMAIN cw, -e \in DOMAIN cw, NEW at,
         \A d \in DOMAIN cw : cw[d] \in DOMAIN cw /\ org[cw[d]] = org[d],
         \A d, x \in DOMAIN cw : cw[d] = cw[x] => d = x,
         \A d \in DOMAIN cw \ {e, -e} : at[d] = org[d]
  PROVE  Star(DropEdge(cw, e), at)
<1> DEFINE rot == DropEdge(cw, e)
<1>0. rot = Dropped(e)
  BY DropEdgeValue
<1>1. /\ rot = [x \in DOMAIN rot |-> rot[x]]
      /\ DOMAIN rot = DOMAIN cw \ {e, -e}
      /\ \A x \in DOMAIN rot : rot[x] = PastEdge(e, PastEdge(e, cw[x]))
  BY <1>0 DEF Dropped
<1> HIDE DEF rot
<1>2. \A x \in DOMAIN rot : rot[x] \in DOMAIN cw \ {e, -e}
  BY <1>1 DEF PastEdge
<1>3. \A x \in DOMAIN rot : org[rot[x]] = org[x]
  BY <1>1 DEF PastEdge
<1>4. ASSUME NEW x \in DOMAIN rot, NEW y \in DOMAIN rot, rot[x] = rot[y] PROVE x = y
  BY <1>1, <1>4 DEF PastEdge
<1> QED BY <1>1, <1>2, <1>3, <1>4 DEF Star, rot

\* Taking an edge away leaves a set of darts with both directions of each curve.
LEMMA FewerDarts ==
  ASSUME NEW D, NEW n \in Int, DartSet(D, n), NEW e \in Int
  PROVE  \A F : F = D \ {e, -e} => DartSet(F, n)
BY DEF DartSet

\* lwt_RemIsoEdge, which leaves both end nodes isolated, keeps the invariant.
LEMMA RemIsoEdgeInv == IInv /\ RemIsoEdge => IInv'
<1> SUFFICES ASSUME IInv, RemIsoEdge PROVE IInv'
  OBVIOUS
<1> USE DEF IInv
<1>1. PICK e \in Edge :
        /\ side[e] = side[-e]
        /\ Leaving(org[e]) \cup Leaving(org[-e]) \subseteq {e, -e}
        /\ next' = [d \in DOMAIN next \ {e, -e} |-> next[d]]
        /\ side' = [d \in DOMAIN side \ {e, -e} |-> side[d]]
        /\ org' = [d \in DOMAIN org \ {e, -e} |-> org[d]]
        /\ containing' = [n \in Node |-> IF n \in {org[e], org[-e]} THEN side[e] ELSE containing[n]]
        /\ EraseLine(e, region[e], {org[e], org[-e]})
        /\ UNCHANGED <<relation, face, last>>
  BY DEF RemIsoEdge
<1> DEFINE D == DOMAIN next \ {e, -e}
<1>2. /\ e \in Int /\ e \in DOMAIN next /\ -e \in DOMAIN next
      /\ DartSet(DOMAIN next, last.edge) /\ last.edge \in Int
  BY EdgeDarts
<1>3. DartSet(D, last.edge)
  BY <1>2, FewerDarts
<1>4. DOMAIN next = DOMAIN cw /\ DOMAIN org = DOMAIN next /\ DOMAIN side = DOMAIN next
  BY DEF TypeOK, LinksFollowDrawing
<1>5. Node' = Node
  BY <1>1 DEF Node
<1>6. cw' = DropEdge(cw, e)
  BY <1>1 DEF EraseLine
<1>7. TypeOK'
  <2>1. (next \in [DOMAIN next -> Int])'
    BY <1>1 DEF TypeOK
  <2>2. (next \in [Darts(Edge) -> Int] /\ Edge \subseteq 1..last.edge)'
    BY <1>1, <1>3, <2>1, FromDarts DEF TypeOK
  <2> QED BY <1>1, <1>2, <1>4, <1>5, <2>2 DEF TypeOK
<1>8. LinksFollowDrawing' /\ RingsClose'
  <2>1. Star(DropEdge(cw, e), org')
    BY <1>1, <1>2, <1>4, LinksAreStar, DropEdgeStar
  <2>2. cw' = Dropped(e)
    BY <1>6, DropEdgeValue
  <2>3. ASSUME NEW d \in D PROVE next'[d] = cw'[-d]
    <3>1. -d \in D /\ d \in Int
      BY <1>3 DEF DartSet
    <3>2. cw[-d] \notin {e, -e}
      BY <1>1, <1>4, <3>1, LinksAreStar DEF Leaving
    <3>3. cw'[-d] = cw[-d]
      BY <1>4, <2>2, <3>1, <3>2 DEF Dropped, PastEdge
    <3> QED BY <1>1, <3>3, LinksAreStar
  <2>4. DOMAIN cw' = D
    BY <1>4, <2>2 DEF Dropped
  <2> QED BY <1>1, <1>3, <1>6, <2>1, <2>3, <2>4, StarGivesLinks
<1>9. IsolatedNodesBare'
  <2> SUFFICES ASSUME NEW n \in Node PROVE containing'[n] # None <=> Leaving(n)' = {}
    BY <1>5 DEF IsolatedNodesBare
  <2>1. Leaving(n)' = Leaving(n) \ {e, -e}
    BY <1>1, <1>4 DEF Leaving
  <2>2. CASE n \in {org[e], org[-e]}
    BY <1>1, <1>2, <2>1, <2>2 DEF TypeOK, None
  <2>3. CASE n \notin {org[e], org[-e]}
    <3>1. Leaving(n)' = Leaving(n)
      BY <2>1, <2>3 DEF Leaving
    <3> QED BY <1>1, <2>3, <3>1 DEF IsolatedNodesBare
  <2> QED BY <2>2, <2>3
<1> QED BY <1>7, <1>8, <1>9

\* An id put into the rows of a TopoGeometry with either sign gives typed rows.
LEMMA PutTyped == ASSUME NEW rows, rows \subseteq Row, NEW i \in Int PROVE Put(rows, i) \subseteq Row
<1> SUFFICES ASSUME NEW r \in rows PROVE [r EXCEPT !.id = Sign(r.id) * i] \in Row
  BY DEF Put
<1>1. r \in Row /\ r.id \in Int
  BY DEF Row
<1>2. Sign(r.id) * i \in Int
  BY <1>1 DEF Sign
<1> QED BY <1>1, <1>2 DEF Row

\* What the callbacks for face merges, face splits, edge splits and heals make of
\* the relation table is a typed relation table.
LEMMA UpdatesTyped ==
  ASSUME relation \subseteq Row, NEW a, NEW b, NEW i \in Int, NEW j \in Int
  PROVE  /\ updateTopoGeomEdgeSplit(a, i, j) \subseteq Row
         /\ updateTopoGeomFaceSplit(a, i, j) \subseteq Row
         /\ updateTopoGeomFaceHeal(a, b, i) \subseteq Row
         /\ updateTopoGeomEdgeHeal(a, b, i) \subseteq Row
<1>1. RowsOfEdge(a) \subseteq Row /\ RowsOfFace(a) \subseteq Row /\ RowsOfFace(b) \subseteq Row
  BY DEF RowsOfEdge, RowsOfFace
<1>2. /\ Put(RowsOfEdge(a), i) \subseteq Row /\ Put(RowsOfEdge(a), j) \subseteq Row
      /\ Put(RowsOfFace(a), i) \subseteq Row /\ Put(RowsOfFace(a), j) \subseteq Row
      /\ Put(RowsOfFace(b), i) \subseteq Row
  BY <1>1, PutTyped
<1> QED BY <1>2 DEF updateTopoGeomEdgeSplit, updateTopoGeomFaceSplit,
                    updateTopoGeomFaceHeal, updateTopoGeomEdgeHeal

\* _lwt_RemEdge, in both of its modes, keeps the invariant: the neighbours of the
\* edge are linked past it, and its end nodes are isolated if it was their last.
LEMMA RemEdgeInv == ASSUME NEW modFace, IInv, RemEdge(modFace) PROVE IInv'
<1> USE DEF IInv
<1>1. PICK e \in Edge :
    LET left == side[e]
        right == side[-e]
        joins == left # right
        fresh == joins /\ 0 \notin {left, right} /\ ~modFace
        flood == IF joins /\ 0 \in {left, right} THEN 0
                 ELSE IF fresh THEN last.face + 1 ELSE right
        vanished == IF joins THEN {left, right} \ {flood} ELSE {}
        relinked(x) == IF x = -e THEN (IF next[e] # e THEN next[e] ELSE next[-e])
                       ELSE IF x = e THEN (IF next[-e] # -e THEN next[-e] ELSE next[e])
                       ELSE x
        flooded(f) == IF f \in vanished THEN flood ELSE f
        D == DOMAIN next \ {e, -e}
        bare == Stranded(e)
    IN
    /\ IF fresh THEN Fresh("face", 1, MaxFace) ELSE UNCHANGED last
    /\ next' = [d \in D |-> relinked(next[d])]
    /\ side' = [d \in D |-> flooded(side[d])]
    /\ org' = [d \in D |-> org[d]]
    /\ containing' = [n \in Node |-> IF n \in bare THEN flood ELSE flooded(containing[n])]
    /\ face' = (face \cup (IF fresh THEN {flood} ELSE {})) \ vanished
    /\ relation' = IF joins THEN updateTopoGeomFaceHeal(right, left, flood) ELSE relation
    /\ EraseLine(e, flood, bare)
  BY DEF RemEdge
<1> DEFINE left == side[e]
           right == side[-e]
           joins == left # right
           fresh == joins /\ 0 \notin {left, right} /\ ~modFace
           flood == IF joins /\ 0 \in {left, right} THEN 0
                    ELSE IF fresh THEN last.face + 1 ELSE right
           vanished == IF joins THEN {left, right} \ {flood} ELSE {}
           flooded(f) == IF f \in vanished THEN flood ELSE f
           D == DOMAIN next \ {e, -e}
           bare == Stranded(e)
<1>2. /\ e \in Int /\ e # -e /\ e \in DOMAIN next /\ -e \in DOMAIN next
      /\ DartSet(DOMAIN next, last.edge) /\ last.edge \in Int
  BY EdgeDarts
<1>3. DartSet(D, last.edge)
  BY <1>2, FewerDarts
<1>4. DOMAIN next = DOMAIN cw /\ DOMAIN org = DOMAIN next /\ DOMAIN side = DOMAIN next
  BY DEF TypeOK, LinksFollowDrawing
<1>5. Node' = Node
  BY <1>1 DEF Node
<1>6. cw' = DropEdge(cw, e)
  BY <1>1 DEF EraseLine
<1>7. last' \in [node : Nat, edge : Nat, face : Nat] /\ last'.edge = last.edge
      /\ last'.node = last.node
      /\ last'.face >= last.face /\ last.face \in Nat /\ last'.face \in Nat
      /\ (fresh => last'.face = last.face + 1)
  BY <1>1 DEF Fresh, TypeOK
<1>8. left \in Nat /\ right \in Nat /\ flood \in Nat /\ last.face \in Nat
  BY <1>2 DEF TypeOK
<1>9. None \notin vanished /\ flood # None
  BY <1>8 DEF None
<1>10. next' = [d \in D |->
                 IF next[d] = -e THEN (IF next[e] # e THEN next[e] ELSE next[-e])
                 ELSE IF next[d] = e THEN (IF next[-e] # -e THEN next[-e] ELSE next[e])
                 ELSE next[d]]
  BY <1>1
<1>11. /\ side' = [d \in D |-> flooded(side[d])]
       /\ org' = [d \in D |-> org[d]]
       /\ containing' = [n \in Node |-> IF n \in bare THEN flood ELSE flooded(containing[n])]
       /\ face' = (face \cup (IF fresh THEN {flood} ELSE {})) \ vanished
       /\ relation' = IF joins THEN updateTopoGeomFaceHeal(right, left, flood) ELSE relation
  BY <1>1
<1>15. fresh => flood = last.face + 1
  OBVIOUS
<1>16. relation' = relation \/ relation' = updateTopoGeomFaceHeal(right, left, flood)
  BY <1>11
<1> HIDE DEF left, right, flood, vanished, fresh, joins, bare
<1>12. TypeOK'
  <2>1. (next \in [DOMAIN next -> Int])'
    BY <1>2, <1>10 DEF TypeOK
  <2>2. (next \in [Darts(Edge) -> Int] /\ Edge \subseteq 1..last.edge)'
    BY <1>3, <1>7, <1>10, <2>1, FromDarts DEF TypeOK
  <2>3. (side \in [DOMAIN next -> Nat])'
    BY <1>4, <1>8, <1>10, <1>11 DEF TypeOK
  <2>4. (org \in [DOMAIN next -> Node])'
    BY <1>4, <1>5, <1>10, <1>11 DEF TypeOK
  <2>5. (containing \in [Node -> Nat \cup {None}])'
    BY <1>5, <1>8, <1>11 DEF TypeOK
  <2>6. (face \subseteq 1..last.face)'
    <3>1. face \subseteq 1..last.face
      BY DEF TypeOK
    <3>2. \A f \in face' : f \in face \/ (fresh /\ f = last.face + 1)
      BY <1>11, <1>15
    <3>3. ASSUME NEW f \in face' PROVE f \in 1..last'.face
      <4>1. CASE f \in face
        BY <1>7, <3>1, <4>1
      <4>2. CASE fresh /\ f = last.face + 1
        BY <1>7, <4>2
      <4> QED BY <3>2, <4>1, <4>2
    <3> QED BY <3>3
  <2>7. (relation \subseteq Row)'
    <3>1. relation \subseteq Row /\ flood \in Int
      BY <1>8 DEF TypeOK
    <3>2. updateTopoGeomFaceHeal(right, left, flood) \subseteq Row
      BY <3>1, UpdatesTyped
    <3> QED BY <1>16, <3>1, <3>2
  <2> QED BY <1>5, <1>7, <2>2, <2>3, <2>4, <2>5, <2>6, <2>7 DEF TypeOK
<1>13. LinksFollowDrawing' /\ RingsClose'
  <2>1. Star(DropEdge(cw, e), org')
    BY <1>2, <1>4, <1>11, LinksAreStar, DropEdgeStar
  <2>2. cw' = Dropped(e)
    BY <1>6, DropEdgeValue
  <2>3. ASSUME NEW d \in D PROVE next'[d] = cw'[-d]
    <3>1. -d \in D /\ d \in Int
      BY <1>3 DEF DartSet
    <3>2. next[d] = cw[-d] /\ next[e] = cw[-e] /\ next[-e] = cw[e]
      BY <1>2, LinksAreStar
    <3>3. cw'[-d] = PastEdge(e, PastEdge(e, cw[-d]))
      BY <1>4, <2>2, <3>1 DEF Dropped
    <3> QED BY <1>2, <1>10, <3>2, <3>3 DEF PastEdge
  <2>4. DOMAIN cw' = D
    BY <1>4, <2>2 DEF Dropped
  <2> QED BY <1>3, <1>6, <1>7, <1>10, <2>1, <2>3, <2>4, StarGivesLinks
<1>14. IsolatedNodesBare'
  <2> SUFFICES ASSUME NEW n \in Node PROVE containing'[n] # None <=> Leaving(n)' = {}
    BY <1>5 DEF IsolatedNodesBare
  <2>1. Leaving(n)' = Leaving(n) \ {e, -e}
    BY <1>4, <1>11 DEF Leaving
  <2>2. CASE n \in bare
    BY <1>9, <1>11, <2>1, <2>2 DEF bare, Stranded
  <2>3. CASE n \notin bare
    <3>1. containing'[n] # None <=> containing[n] # None
      BY <1>9, <1>11, <2>3
    <3>2. Leaving(n)' = {} <=> Leaving(n) = {}
      BY <2>1, <2>3 DEF bare, Stranded, Leaving
    <3> QED BY <3>1, <3>2 DEF IsolatedNodesBare
  <2> QED BY <2>2, <2>3
<1> QED BY <1>12, <1>13, <1>14

\* The dart of curve i or j drawn where x is, and the dart x of curve e after the cut.
WasCut(e, i, j, x) == IF x \in {i, j} THEN e ELSE IF x \in {-i, -j} THEN -e ELSE x

\* The dart after the cut that goes on from where dart x did.
RenCut(e, i, j, x) == IF x = e THEN i ELSE IF x = -e THEN -j ELSE x

\* e is a curve of the drawing and i and j are fresh names for its two halves; the
\* first half may keep the name e, as in ModEdgeSplit.
Cuts(e, i, j) == /\ e \in Int /\ i \in Int /\ j \in Int
                 /\ e # 0 /\ i # 0 /\ j # 0 /\ i # j /\ i # -j
                 /\ e \in DOMAIN cw /\ -e \in DOMAIN cw
                 /\ i = e \/ i \notin DOMAIN cw
                 /\ i = e \/ -i \notin DOMAIN cw
                 /\ j \notin DOMAIN cw /\ -j \notin DOMAIN cw

\* The darts after the cut.
CutDarts(e, i, j) == (DOMAIN cw \ {e, -e}) \cup {i, -i, j, -j}

\* The dart after x clockwise once e is cut into i and j.
CutAfter(e, i, j, x) ==
  IF x = -i THEN j ELSE IF x = j THEN -i ELSE RenCut(e, i, j, cw[WasCut(e, i, j, x)])

\* The rotation after the cut.
CutRot(e, i, j) == [x \in CutDarts(e, i, j) |-> CutAfter(e, i, j, x)]

\* CutLine is that rotation.
LEMMA CutLineValue == ASSUME NEW e, NEW i, NEW j, CutLine(e, i, j) PROVE cw' = CutRot(e, i, j)
BY DEF CutLine, CutRot, CutDarts, CutAfter, RenCut, WasCut

\* Cutting a curve at a new node leaves a rotation that permutes the darts node by
\* node, whether or not the first half keeps its id.
LEMMA CutLineStar ==
  ASSUME NEW e, NEW i, NEW j, Cuts(e, i, j), NEW n, NEW at,
         \A d \in DOMAIN cw : cw[d] \in DOMAIN cw /\ org[cw[d]] = org[d],
         \A d, x \in DOMAIN cw : cw[d] = cw[x] => d = x,
         \A d \in CutDarts(e, i, j) :
           at[d] = IF d \in {-i, j} THEN n ELSE org[WasCut(e, i, j, d)]
  PROVE  Star(CutRot(e, i, j), at)
<1> DEFINE rot == CutRot(e, i, j)
<1> DEFINE D == CutDarts(e, i, j)
<1>0. rot = [x \in D |-> CutAfter(e, i, j, x)]
  BY DEF CutRot
<1>1. \A x \in D : rot[x] = CutAfter(e, i, j, x)
  BY <1>0
<1>2. \A x \in D : WasCut(e, i, j, x) \in DOMAIN cw
  BY DEF CutDarts, WasCut, Cuts
<1>3. \A y \in DOMAIN cw : RenCut(e, i, j, y) \in D \ {-i, j}
  BY DEF CutDarts, RenCut, Cuts
<1>4. \A y \in DOMAIN cw : WasCut(e, i, j, RenCut(e, i, j, y)) = y
  BY DEF CutDarts, RenCut, WasCut, Cuts
<1>5. ASSUME NEW x \in D, x # -i, x # j PROVE RenCut(e, i, j, WasCut(e, i, j, x)) = x
  <2>1. CASE x = i
    BY <2>1 DEF RenCut, WasCut, Cuts
  <2>2. CASE x = -j
    BY <1>5, <2>2 DEF RenCut, WasCut, Cuts
  <2>3. CASE x \in DOMAIN cw \ {e, -e} /\ x # i
    BY <1>5, <2>3 DEF RenCut, WasCut, Cuts
  <2> QED BY <1>5, <2>1, <2>2, <2>3 DEF CutDarts
<1>6. -i \in D /\ j \in D /\ j # -i
  BY DEF CutDarts, Cuts
<1> HIDE DEF rot, D
<1>7. \A x \in D : CutAfter(e, i, j, x) \in D
  BY <1>2, <1>3, <1>6 DEF CutAfter
<1>8. ASSUME NEW y \in DOMAIN cw PROVE at[RenCut(e, i, j, y)] = org[y]
  <2>1. RenCut(e, i, j, y) \in CutDarts(e, i, j) /\ RenCut(e, i, j, y) \notin {-i, j}
    BY <1>3 DEF D
  <2>2. at[RenCut(e, i, j, y)] = org[WasCut(e, i, j, RenCut(e, i, j, y))]
    BY <2>1
  <2> QED BY <1>4, <2>2
<1>9. \A x \in D : at[CutAfter(e, i, j, x)] = at[x]
  <2> SUFFICES ASSUME NEW x \in D PROVE at[CutAfter(e, i, j, x)] = at[x]
    OBVIOUS
  <2>1. CASE x \in {-i, j}
    BY <1>6, <2>1 DEF CutAfter, D
  <2>2. CASE x \notin {-i, j}
    <3>1. CutAfter(e, i, j, x) = RenCut(e, i, j, cw[WasCut(e, i, j, x)])
      BY <2>2 DEF CutAfter
    <3>2. at[CutAfter(e, i, j, x)] = org[WasCut(e, i, j, x)]
      BY <1>2, <1>8, <3>1
    <3> QED BY <2>2, <3>2 DEF D
  <2> QED BY <2>1, <2>2
<1>10. ASSUME NEW x \in D, NEW y \in D, CutAfter(e, i, j, x) = CutAfter(e, i, j, y)
       PROVE  x = y
  <2>1. CASE x \in {-i, j} \/ y \in {-i, j}
    BY <1>2, <1>3, <1>6, <1>10, <2>1 DEF CutAfter
  <2>2. CASE x \notin {-i, j} /\ y \notin {-i, j}
    <3>1. RenCut(e, i, j, cw[WasCut(e, i, j, x)]) = RenCut(e, i, j, cw[WasCut(e, i, j, y)])
      BY <1>10, <2>2 DEF CutAfter
    <3>2. cw[WasCut(e, i, j, x)] = cw[WasCut(e, i, j, y)]
      BY <1>2, <1>4, <3>1
    <3> QED BY <1>2, <1>5, <2>2, <3>2
  <2> QED BY <2>1, <2>2
<1> QED BY <1>0, <1>1, <1>7, <1>9, <1>10 DEF Star, rot

\* lwt_ModEdgeSplit, whose three updates run one after the other on what the ones
\* before left, keeps the invariant.
LEMMA ModEdgeSplitInv == IInv /\ ModEdgeSplit => IInv'
<1> SUFFICES ASSUME IInv, ModEdgeSplit PROVE IInv'
  OBVIOUS
<1> USE DEF IInv
<1> DEFINE n == last.node + 1
           j == last.edge + 1
           D == DOMAIN next \cup {j, -j}
<1>1. PICK e \in Edge :
        /\ last' = [node |-> n, edge |-> j, face |-> last.face]
        /\ containing' = [m \in Node \cup {n} |-> IF m = n THEN None ELSE containing[m]]
        /\ next' = [d \in D |->
                      IF d = e THEN j
                      ELSE IF d = -j THEN -e
                      ELSE IF d = j THEN (IF next[e] = -e THEN -j ELSE next[e])
                      ELSE IF d \in Before(-e, org[-e]) THEN -j ELSE next[d]]
        /\ side' = [d \in D |-> IF d = j THEN side[e] ELSE IF d = -j THEN side[-e] ELSE side[d]]
        /\ org' = [d \in D |-> IF d \in {j, -e} THEN n ELSE IF d = -j THEN org[-e] ELSE org[d]]
        /\ relation' = updateTopoGeomEdgeSplit(e, j, -1)
        /\ CutLine(e, e, j)
        /\ UNCHANGED face
  BY DEF ModEdgeSplit
<1>2. /\ e \in Int /\ e # 0 /\ e # -e /\ e <= last.edge
      /\ e \in DOMAIN next /\ -e \in DOMAIN next
      /\ DartSet(DOMAIN next, last.edge) /\ last.edge \in Nat
  BY EdgeDarts
<1>3. /\ j \in Int \ {0} /\ j # -j /\ DartSet(D, j)
      /\ j \notin DOMAIN next /\ -j \notin DOMAIN next
  BY <1>2, FreshDarts
<1>4. DOMAIN next = DOMAIN cw /\ DOMAIN org = DOMAIN next /\ DOMAIN side = DOMAIN next
  BY DEF TypeOK, LinksFollowDrawing
<1>5. /\ last' \in [node : Nat, edge : Nat, face : Nat]
      /\ last'.edge = j /\ last'.node = n /\ last'.face = last.face
  BY <1>1 DEF TypeOK
<1>6. Node' = Node \cup {n} /\ n \notin Node
  BY <1>1 DEF Node, TypeOK
<1>7. D = CutDarts(e, e, j) /\ Cuts(e, e, j)
  BY <1>2, <1>3, <1>4 DEF CutDarts, Cuts
<1>8. cw' = CutRot(e, e, j)
  BY <1>1, CutLineValue
<1>81. n \in Nat /\ last.face \in Nat
  BY DEF TypeOK
<1>82. \A m \in Node' : m \in 1..n
  BY <1>6 DEF TypeOK
<1>83. DOMAIN next' = D
  BY <1>1
<1> HIDE DEF n, j, D
<1>84. \A d \in D : d = j \/ d = -j \/ d \in DOMAIN next
  BY DEF D
<1>9. TypeOK'
  <2>1. (next \in [DOMAIN next -> Int])'
    BY <1>1, <1>2, <1>3, <1>83, <1>84 DEF TypeOK
  <2>2. (next \in [Darts(Edge) -> Int] /\ Edge \subseteq 1..last.edge)'
    BY <1>3, <1>5, <1>83, <2>1, FromDarts
  <2>3. (side \in [DOMAIN next -> Nat])'
    BY <1>1, <1>2, <1>83, <1>84 DEF TypeOK
  <2>4. (org \in [DOMAIN next -> Node])'
    BY <1>1, <1>2, <1>6, <1>83, <1>84 DEF TypeOK
  <2>5. (containing \in [Node -> Nat \cup {None}])'
    BY <1>1, <1>6 DEF TypeOK
  <2>6. (relation \subseteq Row)'
    <3>1. relation \subseteq Row /\ j \in Int /\ -1 \in Int
      BY <1>3 DEF TypeOK
    <3> QED BY <1>1, <3>1, UpdatesTyped
  <2>7. (Node \subseteq 1..last.node)'
    BY <1>5, <1>82
  <2>8. (face \subseteq 1..last.face)'
    BY <1>1, <1>5 DEF TypeOK
  <2> QED BY <1>5, <2>2, <2>3, <2>4, <2>5, <2>6, <2>7, <2>8 DEF TypeOK
<1>10. LinksFollowDrawing' /\ RingsClose'
  <2>1. \A d \in CutDarts(e, e, j) :
           org'[d] = IF d \in {-e, j} THEN n ELSE org[WasCut(e, e, j, d)]
    BY <1>1, <1>2, <1>3, <1>7 DEF WasCut
  <2>2. Star(CutRot(e, e, j), org')
    <3>1. /\ \A d \in DOMAIN cw : cw[d] \in DOMAIN cw /\ org[cw[d]] = org[d]
          /\ \A d, x \in DOMAIN cw : cw[d] = cw[x] => d = x
      BY <1>4, LinksAreStar
    <3> QED BY <1>7, <2>1, <3>1, CutLineStar
  <2>3. ASSUME NEW d \in D PROVE next'[d] = cw'[-d]
    <3>1. -d \in D /\ d \in Int /\ -(-d) = d
      BY <1>3 DEF DartSet
    <3>2. cw'[-d] = CutAfter(e, e, j, -d)
      BY <1>7, <1>8, <3>1 DEF CutRot
    <3>3. next[e] = cw[-e] /\ next[-e] = cw[e]
      BY <1>2, LinksAreStar
    <3>4. CASE d \in {e, j, -j}
      BY <1>1, <1>2, <1>3, <3>2, <3>3, <3>4 DEF CutAfter, RenCut, WasCut, Before, D
    <3>5. CASE d \notin {e, j, -j}
      <4>1. d \in DOMAIN next /\ -d \in DOMAIN next
        BY <1>2, <3>5 DEF D, DartSet
      <4>2. next[d] = cw[-d] /\ org[cw[-d]] = org[-d]
        BY <4>1, LinksAreStar
      <4>3. d \in Before(-e, org[-e]) <=> next[d] = -e
        BY <4>1, <4>2 DEF Before
      <4>4. next'[d] = IF next[d] = -e THEN -j ELSE next[d]
        BY <1>1, <3>5, <4>3
      <4>5. WasCut(e, e, j, -d) = -d
        BY <1>2, <1>3, <3>1, <3>5 DEF WasCut
      <4>6. cw'[-d] = RenCut(e, e, j, cw[-d])
        BY <1>2, <1>3, <3>1, <3>2, <3>5, <4>5 DEF CutAfter
      <4> QED BY <1>2, <4>2, <4>4, <4>6 DEF RenCut
    <3> QED BY <3>4, <3>5
  <2>4. DOMAIN cw' = D
    BY <1>7, <1>8 DEF CutRot
  <2> QED BY <1>1, <1>3, <1>5, <1>8, <2>2, <2>3, <2>4, StarGivesLinks
<1>11. IsolatedNodesBare'
  <2> SUFFICES ASSUME NEW m \in Node' PROVE containing'[m] # None <=> Leaving(m)' = {}
    BY DEF IsolatedNodesBare
  <2>1. CASE m = n
    <3>1. j \in Leaving(m)'
      BY <1>1, <2>1 DEF Leaving, D
    <3> QED BY <1>1, <1>6, <2>1, <3>1
  <2>2. CASE m # n
    <3>1. m \in Node /\ containing'[m] = containing[m]
      BY <1>1, <1>6, <2>2
    <3>2. Leaving(m)' = {} => Leaving(m) = {}
      <4>1. ASSUME NEW d \in Leaving(m) PROVE IF d = -e THEN -j \in Leaving(m)' ELSE d \in Leaving(m)'
        BY <1>1, <1>2, <1>3, <1>4, <2>2 DEF Leaving, D
      <4> QED BY <4>1
    <3>3. Leaving(m) = {} => Leaving(m)' = {}
      <4>1. ASSUME NEW d \in Leaving(m)' PROVE IF d = -j THEN -e \in Leaving(m) ELSE d \in Leaving(m)
        BY <1>1, <1>2, <1>3, <1>4, <2>2 DEF Leaving, D
      <4> QED BY <4>1
    <3> QED BY <3>1, <3>2, <3>3 DEF IsolatedNodesBare
  <2> QED BY <2>1, <2>2
<1> QED BY <1>9, <1>10, <1>11

\* lwt_NewEdgesSplit, which replaces an edge by two and relinks every reference to
\* it, keeps the invariant.
LEMMA NewEdgesSplitInv == IInv /\ NewEdgesSplit => IInv'
<1> SUFFICES ASSUME IInv, NewEdgesSplit PROVE IInv'
  OBVIOUS
<1> USE DEF IInv
<1> DEFINE n == last.node + 1
           i == last.edge + 1
           j == last.edge + 2
<1>1. PICK e \in Edge :
        /\ last' = [node |-> n, edge |-> j, face |-> last.face]
        /\ containing' = [m \in Node \cup {n} |-> IF m = n THEN None ELSE containing[m]]
        /\ next' = [d \in CutDarts(e, i, j) |->
                      IF d = i THEN j
                      ELSE IF d = -j THEN -i
                      ELSE IF d = -i THEN RenCut(e, i, j, next[-e])
                      ELSE IF d = j THEN RenCut(e, i, j, next[e])
                      ELSE IF d \in Before(e, org[e]) THEN i
                      ELSE IF d \in Before(-e, org[-e]) THEN -j
                      ELSE next[d]]
        /\ side' = [d \in CutDarts(e, i, j) |-> side[WasCut(e, i, j, d)]]
        /\ org' = [d \in CutDarts(e, i, j) |->
                     IF d \in {-i, j} THEN n ELSE org[WasCut(e, i, j, d)]]
        /\ relation' = updateTopoGeomEdgeSplit(e, i, j)
        /\ CutLine(e, i, j)
        /\ UNCHANGED face
  BY DEF NewEdgesSplit, CutDarts, WasCut, RenCut, LinksFollowDrawing
<1>2. /\ e \in Int /\ e # 0 /\ e # -e /\ e <= last.edge
      /\ e \in DOMAIN next /\ -e \in DOMAIN next
      /\ DartSet(DOMAIN next, last.edge) /\ last.edge \in Nat
  BY EdgeDarts
<1>3. /\ i \in Int \ {0} /\ i # -i /\ i \notin DOMAIN next /\ -i \notin DOMAIN next
      /\ j \in Int \ {0} /\ j # -j /\ j \notin DOMAIN next /\ -j \notin DOMAIN next
      /\ i # j /\ i # -j
  BY <1>2, FreshDarts
<1>4. DOMAIN next = DOMAIN cw /\ DOMAIN org = DOMAIN next /\ DOMAIN side = DOMAIN next
  BY DEF TypeOK, LinksFollowDrawing
<1>5. /\ last' \in [node : Nat, edge : Nat, face : Nat]
      /\ last'.edge = j /\ last'.node = n /\ last'.face = last.face
  BY <1>1 DEF TypeOK
<1>6. Node' = Node \cup {n} /\ n \notin Node
  BY <1>1 DEF Node, TypeOK
<1>7. Cuts(e, i, j)
  BY <1>2, <1>3, <1>4 DEF Cuts
<1>8. cw' = CutRot(e, i, j)
  BY <1>1, CutLineValue
<1>9. \A d \in DOMAIN next : d \in Int /\ d # 0 /\ -d \in DOMAIN next /\ d <= j
  BY <1>2 DEF DartSet
<1>10. n \in Nat /\ last.face \in Nat /\ \A m \in Node' : m \in 1..n
  BY <1>6 DEF TypeOK
<1>11. i \in Nat /\ j \in Nat /\ i <= j
  BY <1>2
<1> HIDE DEF n, i, j
<1> DEFINE D == CutDarts(e, i, j)
<1>12. DartSet(D, j)
  BY <1>2, <1>3, <1>4, <1>9, <1>11 DEF CutDarts, DartSet
<1>13. \A d \in D : WasCut(e, i, j, d) \in DOMAIN next
  BY <1>2, <1>4 DEF CutDarts, WasCut
<1>14. DOMAIN next' = D
  BY <1>1
<1>15. TypeOK'
  <2>1. (next \in [DOMAIN next -> Int])'
    <3>1. \A d \in DOMAIN next : next[d] \in Int /\ RenCut(e, i, j, next[d]) \in Int
      BY <1>3 DEF TypeOK, RenCut
    <3>2. \A d \in D : d \in {i, -i, j, -j} \/ d \in DOMAIN next
      BY <1>4 DEF CutDarts
    <3> HIDE DEF D
    <3> QED BY <1>1, <1>2, <1>3, <3>1, <3>2 DEF D
  <2>2. (next \in [Darts(Edge) -> Int] /\ Edge \subseteq 1..last.edge)'
    BY <1>5, <1>12, <1>14, <2>1, FromDarts
  <2>3. (side \in [DOMAIN next -> Nat])'
    BY <1>1, <1>13, <1>14 DEF TypeOK
  <2>4. (org \in [DOMAIN next -> Node])'
    BY <1>1, <1>6, <1>13, <1>14 DEF TypeOK
  <2>5. (containing \in [Node -> Nat \cup {None}])'
    BY <1>1, <1>6 DEF TypeOK
  <2>6. (relation \subseteq Row)'
    <3>1. relation \subseteq Row /\ i \in Int /\ j \in Int
      BY <1>3 DEF TypeOK
    <3> QED BY <1>1, <3>1, UpdatesTyped
  <2>7. (Node \subseteq 1..last.node)'
    BY <1>5, <1>10
  <2>8. (face \subseteq 1..last.face)'
    BY <1>1, <1>5 DEF TypeOK
  <2> QED BY <1>5, <2>2, <2>3, <2>4, <2>5, <2>6, <2>7, <2>8 DEF TypeOK
<1>16. LinksFollowDrawing' /\ RingsClose'
  <2>1. /\ \A d \in DOMAIN cw : cw[d] \in DOMAIN cw /\ org[cw[d]] = org[d]
        /\ \A d, x \in DOMAIN cw : cw[d] = cw[x] => d = x
    BY <1>4, LinksAreStar
  <2>2. \A d \in CutDarts(e, i, j) :
           org'[d] = IF d \in {-i, j} THEN n ELSE org[WasCut(e, i, j, d)]
    BY <1>1
  <2>3. Star(CutRot(e, i, j), org')
    BY <1>7, <2>1, <2>2, CutLineStar
  <2>4. ASSUME NEW d \in D PROVE next'[d] = cw'[-d]
    <3>1. -d \in D /\ d \in Int /\ -(-d) = d
      BY <1>12 DEF DartSet
    <3>2. cw'[-d] = CutAfter(e, i, j, -d)
      BY <1>8, <3>1 DEF CutRot
    <3>3. next[e] = cw[-e] /\ next[-e] = cw[e]
      BY <1>2, LinksAreStar
    <3>4. CASE d \in {i, -j}
      BY <1>1, <1>2, <1>3, <3>2, <3>4 DEF CutAfter
    <3>5. CASE d \in {-i, j}
      <4>1. -d # -i /\ -d # j
        BY <1>2, <1>3, <3>1, <3>5
      <4>2. WasCut(e, i, j, -d) = IF d = -i THEN e ELSE -e
        BY <1>2, <1>3, <3>1, <3>5 DEF WasCut
      <4>3. cw'[-d] = RenCut(e, i, j, IF d = -i THEN cw[e] ELSE cw[-e])
        BY <3>2, <4>1, <4>2 DEF CutAfter
      <4>4. next'[d] = RenCut(e, i, j, IF d = -i THEN next[-e] ELSE next[e])
        BY <1>1, <1>2, <1>3, <3>5
      <4> QED BY <3>3, <4>3, <4>4
    <3>6. CASE d \notin {i, -i, j, -j}
      <4>1. d \in DOMAIN next /\ -d \in DOMAIN next /\ d # e /\ d # -e
        BY <1>4, <1>9, <3>6 DEF CutDarts
      <4>2. next[d] = cw[-d] /\ org[cw[-d]] = org[-d]
        BY <4>1, LinksAreStar
      <4>3. /\ d \in Before(-e, org[-e]) <=> next[d] = -e
            /\ d \in Before(e, org[e]) <=> next[d] = e
        BY <4>1, <4>2 DEF Before
      <4>4. next'[d] = RenCut(e, i, j, next[d])
        BY <1>1, <1>2, <3>6, <4>3 DEF RenCut
      <4>5. WasCut(e, i, j, -d) = -d /\ -d # -i /\ -d # j
        BY <1>2, <1>3, <3>1, <3>6 DEF WasCut
      <4> QED BY <3>2, <4>2, <4>4, <4>5 DEF CutAfter
    <3> QED BY <3>4, <3>5, <3>6
  <2>5. DOMAIN cw' = D
    BY <1>8 DEF CutRot
  <2> QED BY <1>5, <1>8, <1>12, <1>14, <2>3, <2>4, <2>5, StarGivesLinks
<1>17. IsolatedNodesBare'
  <2> SUFFICES ASSUME NEW m \in Node' PROVE containing'[m] # None <=> Leaving(m)' = {}
    BY DEF IsolatedNodesBare
  <2>1. CASE m = n
    <3>1. j \in Leaving(m)'
      BY <1>1, <2>1 DEF Leaving, CutDarts
    <3> QED BY <1>1, <1>6, <2>1, <3>1
  <2>2. CASE m # n
    <3>1. m \in Node /\ containing'[m] = containing[m]
      BY <1>1, <1>6, <2>2
    <3>2. Leaving(m)' = {} => Leaving(m) = {}
      <4>1. ASSUME NEW d \in Leaving(m) PROVE RenCut(e, i, j, d) \in Leaving(m)'
        <5>1. d \in DOMAIN next /\ org[d] = m
          BY <1>4 DEF Leaving
        <5>2. RenCut(e, i, j, d) \in D /\ RenCut(e, i, j, d) \notin {-i, j}
              /\ WasCut(e, i, j, RenCut(e, i, j, d)) = d
          BY <1>2, <1>3, <1>4, <5>1 DEF RenCut, WasCut, CutDarts
        <5> QED BY <1>1, <5>1, <5>2 DEF Leaving
      <4> QED BY <4>1
    <3>3. Leaving(m) = {} => Leaving(m)' = {}
      <4>1. ASSUME NEW d \in Leaving(m)' PROVE WasCut(e, i, j, d) \in Leaving(m)
        BY <1>1, <1>4, <1>13, <2>2 DEF Leaving
      <4> QED BY <4>1
    <3> QED BY <3>1, <3>2, <3>3 DEF IsolatedNodesBare
  <2> QED BY <2>1, <2>2
<1> QED BY <1>15, <1>16, <1>17

\* The dart of curve a or b drawn where x is, and the dart x after they are joined.
WasJoin(a, b, M, x) == IF x = M THEN a ELSE IF x = -M THEN -b ELSE x
RenJoin(a, b, M, x) == IF x = a THEN M ELSE IF x = -b THEN -M ELSE x

\* Curves a and b can be joined as M, which is a's own name or a fresh one.
Joins(a, b, M) == /\ a \in Int \ {0} /\ b \in Int \ {0} /\ M \in Int \ {0}
                  /\ a # b /\ a # -b
                  /\ {a, -a, b, -b} \subseteq DOMAIN cw
                  /\ M = a \/ {M, -M} \cap DOMAIN cw = {}

\* The darts after the join.
JoinDarts(a, b, M) == (DOMAIN cw \ {a, -a, b, -b}) \cup {M, -M}

\* The rotation after the join.
JoinRot(a, b, M) == [x \in JoinDarts(a, b, M) |-> RenJoin(a, b, M, cw[WasJoin(a, b, M, x)])]

\* JoinLines is that rotation.
LEMMA JoinLinesValue ==
  ASSUME NEW a, NEW b, NEW M, JoinLines(a, b, M) PROVE cw' = JoinRot(a, b, M)
BY DEF JoinLines, JoinRot, JoinDarts, RenJoin, WasJoin

\* Renaming before and after a join are inverse on the darts that remain.
LEMMA JoinRenames ==
  ASSUME NEW a, NEW b, NEW M, Joins(a, b, M)
  PROVE  /\ \A x \in JoinDarts(a, b, M) :
              /\ WasJoin(a, b, M, x) \in DOMAIN cw \ {-a, b}
              /\ RenJoin(a, b, M, WasJoin(a, b, M, x)) = x
         /\ \A y \in DOMAIN cw \ {-a, b} :
              /\ RenJoin(a, b, M, y) \in JoinDarts(a, b, M)
              /\ WasJoin(a, b, M, RenJoin(a, b, M, y)) = y
<1>1. ASSUME NEW x \in JoinDarts(a, b, M)
      PROVE  /\ WasJoin(a, b, M, x) \in DOMAIN cw \ {-a, b}
             /\ RenJoin(a, b, M, WasJoin(a, b, M, x)) = x
  <2>1. CASE x = M
    BY <2>1 DEF Joins, JoinDarts, WasJoin, RenJoin
  <2>2. CASE x = -M
    BY <2>2 DEF Joins, JoinDarts, WasJoin, RenJoin
  <2>3. CASE x # M /\ x # -M
    BY <2>3 DEF Joins, JoinDarts, WasJoin, RenJoin
  <2> QED BY <2>1, <2>2, <2>3
<1>2. ASSUME NEW y \in DOMAIN cw \ {-a, b}
      PROVE  /\ RenJoin(a, b, M, y) \in JoinDarts(a, b, M)
             /\ WasJoin(a, b, M, RenJoin(a, b, M, y)) = y
  <2>1. CASE y = a
    BY <2>1 DEF Joins, JoinDarts, WasJoin, RenJoin
  <2>2. CASE y = -b
    BY <2>2 DEF Joins, JoinDarts, WasJoin, RenJoin
  <2>3. CASE y # a /\ y # -b
    BY <2>3 DEF Joins, JoinDarts, WasJoin, RenJoin
  <2> QED BY <2>1, <2>2, <2>3
<1> QED BY <1>1, <1>2

\* Joining two curves at a node nothing else touches leaves a rotation that
\* permutes the darts node by node.
LEMMA JoinLinesStar ==
  ASSUME NEW a, NEW b, NEW M, Joins(a, b, M), NEW at,
         \A d \in DOMAIN cw : cw[d] \in DOMAIN cw /\ org[cw[d]] = org[d],
         \A d, x \in DOMAIN cw : cw[d] = cw[x] => d = x,
         \A d \in DOMAIN cw : org[d] \in {org[-a], org[b]} => d \in {-a, b},
         \A d \in JoinDarts(a, b, M) : at[d] = org[WasJoin(a, b, M, d)]
  PROVE  Star(JoinRot(a, b, M), at)
<1> DEFINE D == JoinDarts(a, b, M)
           w(x) == WasJoin(a, b, M, x)
           r(x) == RenJoin(a, b, M, x)
           rot == JoinRot(a, b, M)
<1>1. rot = [x \in D |-> r(cw[w(x)])]
  BY DEF JoinRot
<1>2. \A x \in D : rot[x] = r(cw[w(x)])
  BY <1>1
<1>3. \A x \in D : w(x) \in DOMAIN cw \ {-a, b} /\ r(w(x)) = x
  BY JoinRenames
<1>4. \A y \in DOMAIN cw \ {-a, b} : r(y) \in D /\ w(r(y)) = y
  BY JoinRenames
<1>5. \A y \in DOMAIN cw \ {-a, b} : cw[y] \in DOMAIN cw \ {-a, b}
  OBVIOUS
<1>6. \A x \in D : at[x] = org[w(x)]
  OBVIOUS
<1> HIDE DEF D, w, r, rot
<1>7. \A x \in D : rot[x] \in D
  BY <1>2, <1>3, <1>4, <1>5
<1>8. \A x \in D : at[rot[x]] = at[x]
  BY <1>2, <1>3, <1>4, <1>5, <1>6
<1>9. ASSUME NEW x \in D, NEW y \in D, rot[x] = rot[y] PROVE x = y
  <2>1. cw[w(x)] = cw[w(y)]
    BY <1>2, <1>3, <1>4, <1>5, <1>9
  <2> QED BY <1>3, <2>1
<1>10. rot = [x \in D |-> rot[x]] /\ DOMAIN rot = D
  BY <1>1
<1> QED BY <1>7, <1>8, <1>9, <1>10 DEF Star, rot

\* The four cases of HealCase, as the dart a that arrives at the node that goes
\* away, the dart b that leaves it, and the dart M that both become.
LEMMA HealChoiceCases ==
  ASSUME TypeOK, NEW e1 \in Edge, NEW e2 \in Edge, NEW c \in HealChoice(e1, e2), NEW m \in Int
  PROVE  LET a == c.free1 * e1
             b == c.free1 * c.dir * e2
             M == c.free1 * m
         IN  /\ \/ a = e1 /\ M = m /\ c.left = b /\ c.right = -a /\ c.from = a /\ c.to = -b
                \/ a = -e1 /\ M = -m /\ c.left = -a /\ c.right = b /\ c.from = -b /\ c.to = a
             /\ b \in {e2, -e2} /\ c.free2 * e2 = -b
             /\ c.free2 * m * c.dir = -M
             /\ c.at = org[-a] /\ c.at = org[b]
             /\ Leaving(c.at) \subseteq {e1, -e1, e2, -e2}
<1> DEFINE a == c.free1 * e1
           b == c.free1 * c.dir * e2
           M == c.free1 * m
           other == c.free2 * e2
           back == c.free2 * m * c.dir
<1>1. e1 \in Int /\ e2 \in Int
  BY EdgeDarts
<1>2. PICK k \in 1..4 : /\ c = HealCase(e1, e2)[k]
                        /\ c.at = c.meets
                        /\ Leaving(c.at) \subseteq {e1, -e1, e2, -e2}
  BY DEF HealChoice
<1>3. CASE k = 1
  <2>1. /\ c.at = org[-e1] /\ c.meets = org[e2] /\ c.from = e1 /\ c.to = -e2
        /\ c.left = e2 /\ c.right = -e1 /\ c.free1 = 1 /\ c.free2 = -1 /\ c.dir = 1
    BY <1>2, <1>3 DEF HealCase
  <2>2. /\ c.free1 * e1 = e1 /\ c.free1 * m = m /\ c.free1 * c.dir = 1
        /\ (1) * e2 = e2 /\ c.free2 * e2 = -e2
        /\ c.free2 * m = -m /\ (-m) * c.dir = -m
    BY <1>1, <2>1
  <2>3. a = e1 /\ b = e2 /\ M = m /\ other = -e2 /\ back = -m
    BY <2>2
  <2> HIDE DEF a, b, M, other, back
  <2>4. other = -b /\ back = -M /\ -a = -e1
    BY <1>1, <2>3
  <2>5. /\ \/ a = e1 /\ M = m /\ c.left = b /\ c.right = -a /\ c.from = a /\ c.to = -b
           \/ a = -e1 /\ M = -m /\ c.left = -a /\ c.right = b /\ c.from = -b /\ c.to = a
        /\ b \in {e2, -e2} /\ other = -b /\ back = -M
        /\ c.at = org[-a] /\ c.at = org[b]
        /\ Leaving(c.at) \subseteq {e1, -e1, e2, -e2}
    BY <1>1, <1>2, <2>1, <2>3, <2>4
  <2> QED BY <2>5 DEF a, b, M, other, back
<1>4. CASE k = 2
  <2>1. /\ c.at = org[-e1] /\ c.meets = org[-e2] /\ c.from = e1 /\ c.to = e2
        /\ c.left = -e2 /\ c.right = -e1 /\ c.free1 = 1 /\ c.free2 = 1 /\ c.dir = -1
    BY <1>2, <1>4 DEF HealCase
  <2>2. /\ c.free1 * e1 = e1 /\ c.free1 * m = m /\ c.free1 * c.dir = -1
        /\ (-1) * e2 = -e2 /\ c.free2 * e2 = e2
        /\ c.free2 * m = m /\ (m) * c.dir = -m
    BY <1>1, <2>1
  <2>3. a = e1 /\ b = -e2 /\ M = m /\ other = e2 /\ back = -m
    BY <2>2
  <2> HIDE DEF a, b, M, other, back
  <2>4. other = -b /\ back = -M /\ -a = -e1
    BY <1>1, <2>3
  <2>5. /\ \/ a = e1 /\ M = m /\ c.left = b /\ c.right = -a /\ c.from = a /\ c.to = -b
           \/ a = -e1 /\ M = -m /\ c.left = -a /\ c.right = b /\ c.from = -b /\ c.to = a
        /\ b \in {e2, -e2} /\ other = -b /\ back = -M
        /\ c.at = org[-a] /\ c.at = org[b]
        /\ Leaving(c.at) \subseteq {e1, -e1, e2, -e2}
    BY <1>1, <1>2, <2>1, <2>3, <2>4
  <2> QED BY <2>5 DEF a, b, M, other, back
<1>5. CASE k = 3
  <2>1. /\ c.at = org[e1] /\ c.meets = org[e2] /\ c.from = -e2 /\ c.to = -e1
        /\ c.left = e1 /\ c.right = e2 /\ c.free1 = -1 /\ c.free2 = -1 /\ c.dir = -1
    BY <1>2, <1>5 DEF HealCase
  <2>2. /\ c.free1 * e1 = -e1 /\ c.free1 * m = -m /\ c.free1 * c.dir = 1
        /\ (1) * e2 = e2 /\ c.free2 * e2 = -e2
        /\ c.free2 * m = -m /\ (-m) * c.dir = m
    BY <1>1, <2>1
  <2>3. a = -e1 /\ b = e2 /\ M = -m /\ other = -e2 /\ back = m
    BY <2>2
  <2> HIDE DEF a, b, M, other, back
  <2>4. other = -b /\ back = -M /\ -a = e1 /\ -b = -e2
    BY <1>1, <2>3
  <2>5. /\ \/ a = e1 /\ M = m /\ c.left = b /\ c.right = -a /\ c.from = a /\ c.to = -b
           \/ a = -e1 /\ M = -m /\ c.left = -a /\ c.right = b /\ c.from = -b /\ c.to = a
        /\ b \in {e2, -e2} /\ other = -b /\ back = -M
        /\ c.at = org[-a] /\ c.at = org[b]
        /\ Leaving(c.at) \subseteq {e1, -e1, e2, -e2}
    BY <1>1, <1>2, <2>1, <2>3, <2>4
  <2> QED BY <2>5 DEF a, b, M, other, back
<1>6. CASE k = 4
  <2>1. /\ c.at = org[e1] /\ c.meets = org[-e2] /\ c.from = e2 /\ c.to = -e1
        /\ c.left = e1 /\ c.right = -e2 /\ c.free1 = -1 /\ c.free2 = 1 /\ c.dir = 1
    BY <1>2, <1>6 DEF HealCase
  <2>2. /\ c.free1 * e1 = -e1 /\ c.free1 * m = -m /\ c.free1 * c.dir = -1
        /\ (-1) * e2 = -e2 /\ c.free2 * e2 = e2
        /\ c.free2 * m = m /\ (m) * c.dir = m
    BY <1>1, <2>1
  <2>3. a = -e1 /\ b = -e2 /\ M = -m /\ other = e2 /\ back = m
    BY <2>2
  <2> HIDE DEF a, b, M, other, back
  <2>4. other = -b /\ back = -M /\ -a = e1 /\ -b = e2
    BY <1>1, <2>3
  <2>5. /\ \/ a = e1 /\ M = m /\ c.left = b /\ c.right = -a /\ c.from = a /\ c.to = -b
           \/ a = -e1 /\ M = -m /\ c.left = -a /\ c.right = b /\ c.from = -b /\ c.to = a
        /\ b \in {e2, -e2} /\ other = -b /\ back = -M
        /\ c.at = org[-a] /\ c.at = org[b]
        /\ Leaving(c.at) \subseteq {e1, -e1, e2, -e2}
    BY <1>1, <1>2, <2>1, <2>3, <2>4
  <2> QED BY <2>5 DEF a, b, M, other, back
<1> QED BY <1>3, <1>4, <1>5, <1>6

\* _lwt_HealEdges, in each of its four cases and both of its modes, keeps the
\* invariant.
LEMMA HealEdgesInv == ASSUME NEW modEdge \in BOOLEAN, IInv, HealEdges(modEdge) PROVE IInv'
<1> USE DEF IInv
<1>1. PICK e1 \in Edge, e2 \in Edge : \E c \in HealChoice(e1, e2) : HealMeeting(e1, e2, c, modEdge)
  BY DEF HealEdges
<1>0. PICK c \in HealChoice(e1, e2) : HealMeeting(e1, e2, c, modEdge)
  BY <1>1
<1> DEFINE m == IF modEdge THEN e1 ELSE last.edge + 1
           gone == IF modEdge THEN {e2} ELSE {e1, e2}
           D == (DOMAIN next \ Darts(gone)) \cup {m, -m}
<1>2. /\ e1 \in Int /\ e1 # 0 /\ e1 # -e1 /\ e1 \in DOMAIN next /\ -e1 \in DOMAIN next
      /\ e2 \in Int /\ e2 # 0 /\ e2 # -e2 /\ e2 \in DOMAIN next /\ -e2 \in DOMAIN next
      /\ DartSet(DOMAIN next, last.edge) /\ last.edge \in Nat /\ e1 > 0 /\ e2 > 0
      /\ e1 <= last.edge
  <2>1. \A x \in Edge : x > 0
    BY DEF TypeOK
  <2> QED BY <2>1, EdgeDarts
<1>3. /\ m \in Int \ {0} /\ m # -m /\ m > 0 /\ m <= last'.edge /\ last'.edge \in Nat /\ last'.edge >= last.edge
      /\ m = e1 \/ (m \notin DOMAIN next /\ -m \notin DOMAIN next)
      /\ last' \in [node : Nat, edge : Nat, face : Nat]
      /\ last'.node = last.node /\ last'.face = last.face
  <2>1. last \in [node : Nat, edge : Nat, face : Nat]
    BY DEF TypeOK
  <2>2. CASE modEdge
    <3>1. last' = last
      BY <1>0, <2>2 DEF HealMeeting
    <3>2. m = e1
      BY <2>2
    <3> HIDE DEF m
    <3>3. m \in Int \ {0} /\ m # -m /\ m > 0 /\ m <= last.edge
      BY <1>2, <3>2
    <3>4. last'.edge \in Nat /\ last'.edge >= last.edge /\ m <= last'.edge
      BY <1>2, <3>1, <3>3
    <3> QED BY <2>1, <3>1, <3>2, <3>3, <3>4
  <2>3. CASE ~modEdge
    <3>1. last' = [last EXCEPT !.edge = @ + 1]
      BY <1>0, <2>3 DEF HealMeeting, Fresh
    <3>2. m = last.edge + 1 /\ m \notin DOMAIN next /\ -m \notin DOMAIN next
      BY <1>2, <2>3, FreshDarts
    <3> QED BY <1>2, <2>1, <3>1, <3>2
  <2> QED BY <2>2, <2>3
<1>4. DOMAIN next = DOMAIN cw /\ DOMAIN org = DOMAIN next /\ DOMAIN side = DOMAIN next
  BY DEF TypeOK, LinksFollowDrawing
<1>5. /\ next' = [d \in D |-> LET x == IF d = m THEN next[c.left]
                                     ELSE IF d = -m THEN next[c.right]
                                     ELSE next[d]
                            IN  IF x = c.free2 * e2 THEN c.free2 * m * c.dir
                                ELSE IF ~modEdge /\ x = c.free1 * e1 THEN c.free1 * m
                                ELSE x]
      /\ side' = [d \in D |-> IF d = m THEN side[e1] ELSE IF d = -m THEN side[-e1] ELSE side[d]]
      /\ org' = [d \in D |-> IF d = m THEN org[c.from] ELSE IF d = -m THEN org[c.to] ELSE org[d]]
      /\ containing' = [n \in Node \ {c.at} |-> containing[n]]
      /\ relation' = updateTopoGeomEdgeHeal(e1, e2, m)
      /\ JoinLines(c.free1 * e1, c.free1 * c.dir * e2, c.free1 * m)
      /\ UNCHANGED face
  BY <1>0 DEF HealMeeting
<1>6. e1 # e2 /\ org[e1] # org[-e1] /\ org[e2] # org[-e2]
  BY <1>0 DEF HealMeeting
<1>7. modEdge => m = e1
  OBVIOUS
<1>8. D = (DOMAIN next \ {e1, -e1, e2, -e2}) \cup {m, -m}
  BY <1>2 DEF Darts
<1> HIDE DEF m, D
<1> DEFINE a == c.free1 * e1
           b == c.free1 * c.dir * e2
           M == c.free1 * m
<1>9. /\ \/ a = e1 /\ M = m /\ c.left = b /\ c.right = -a /\ c.from = a /\ c.to = -b
         \/ a = -e1 /\ M = -m /\ c.left = -a /\ c.right = b /\ c.from = -b /\ c.to = a
      /\ b \in {e2, -e2} /\ c.free2 * e2 = -b
      /\ c.free2 * m * c.dir = -M
      /\ c.at = org[-a] /\ c.at = org[b]
      /\ Leaving(c.at) \subseteq {e1, -e1, e2, -e2}
  BY <1>3, HealChoiceCases
<1>10. /\ next' = [d \in D |-> LET x == IF d = m THEN next[c.left]
                                     ELSE IF d = -m THEN next[c.right]
                                     ELSE next[d]
                            IN  IF x = -b THEN -M ELSE IF ~modEdge /\ x = a THEN M ELSE x]
       /\ JoinLines(a, b, M)
  BY <1>5, <1>9
<1> HIDE DEF a, b, M
<1>11. /\ M \in Int /\ {M, -M} = {m, -m} /\ {a, -a} = {e1, -e1} /\ {b, -b} = {e2, -e2}
       /\ a \in Int /\ b \in Int /\ (modEdge => M = a)
  BY <1>2, <1>3, <1>7, <1>9
<1>12. Joins(a, b, M) /\ JoinDarts(a, b, M) = D
  <2>1. a # b /\ a # -b
    BY <1>2, <1>6, <1>9
  <2>2. M = a \/ (M \notin DOMAIN cw /\ -M \notin DOMAIN cw)
    BY <1>2, <1>3, <1>4, <1>9
  <2>3. a # 0 /\ b # 0 /\ M # 0
    BY <1>2, <1>3, <1>9
  <2>4. a \in DOMAIN cw /\ -a \in DOMAIN cw /\ b \in DOMAIN cw /\ -b \in DOMAIN cw
    BY <1>2, <1>4, <1>9
  <2>5. Joins(a, b, M)
    <3>1. a \in Int /\ b \in Int /\ M \in Int
      BY <1>11
    <3> QED BY <2>1, <2>2, <2>3, <2>4, <3>1 DEF Joins
  <2>6. {a, -a, b, -b} = {e1, -e1, e2, -e2}
    BY <1>11
  <2>7. JoinDarts(a, b, M) = (DOMAIN cw \ {e1, -e1, e2, -e2}) \cup {m, -m}
    BY <1>11, <2>6 DEF JoinDarts
  <2> QED BY <1>4, <1>8, <2>5, <2>7
<1>13. /\ next' = [d \in D |-> RenJoin(a, b, M, IF d = M THEN next[b]
                                           ELSE IF d = -M THEN next[-a] ELSE next[d])]
       /\ org' = [d \in D |-> org[WasJoin(a, b, M, d)]]
  <2>1. \A d \in D : next'[d] = RenJoin(a, b, M, IF d = M THEN next[b]
                                           ELSE IF d = -M THEN next[-a] ELSE next[d])
    BY <1>2, <1>3, <1>9, <1>10, <1>11, <1>12 DEF RenJoin, Joins
  <2>2. \A d \in D : org'[d] = org[WasJoin(a, b, M, d)]
    BY <1>3, <1>5, <1>9, <1>11 DEF WasJoin
  <2> QED BY <1>5, <2>1, <2>2
<1>14. cw' = JoinRot(a, b, M)
  BY <1>10, JoinLinesValue
<1>15. DOMAIN next' = D /\ DOMAIN org' = D
  BY <1>13
<1>16. /\ \A x \in D : /\ WasJoin(a, b, M, x) \in DOMAIN next \ {-a, b}
                       /\ RenJoin(a, b, M, WasJoin(a, b, M, x)) = x
       /\ \A y \in DOMAIN next \ {-a, b} : /\ RenJoin(a, b, M, y) \in D
                                           /\ WasJoin(a, b, M, RenJoin(a, b, M, y)) = y
  BY <1>4, <1>12, JoinRenames
<1>17. \A d \in DOMAIN next : org[d] = c.at => d \in {-a, b}
  <2>1. ASSUME NEW d \in DOMAIN next, org[d] = c.at PROVE d \in {-a, b}
    <3>1. d \in {a, -a, b, -b}
      BY <1>4, <1>9, <1>11, <2>1 DEF Leaving
    <3>2. org[a] # org[-a]
      <4>1. CASE a = e1
        BY <1>6, <4>1
      <4>2. CASE a = -e1
        <5>1. -a = e1
          BY <1>2, <4>2
        <5> QED BY <1>6, <4>2, <5>1
      <4> QED BY <1>9, <4>1, <4>2
    <3>3. org[b] # org[-b]
      <4>1. CASE b = e2
        BY <1>6, <4>1
      <4>2. CASE b = -e2
        <5>1. -b = e2
          BY <1>2, <4>2
        <5> QED BY <1>6, <4>2, <5>1
      <4> QED BY <1>9, <4>1, <4>2
    <3> QED BY <1>9, <2>1, <3>1, <3>2, <3>3
  <2> QED BY <2>1
<1>18. DartSet(D, last'.edge)
  <2>1. /\ DOMAIN next \subseteq Int \ {0}
        /\ \A d \in DOMAIN next : -d \in DOMAIN next /\ d <= last.edge /\ -d <= last.edge
    BY <1>2 DEF DartSet
  <2>2. \A d \in D : d \in {m, -m} \/ d \in DOMAIN next \ {e1, -e1, e2, -e2}
    BY <1>8
  <2>3. ASSUME NEW d \in D PROVE d \in Int /\ d # 0 /\ d <= last'.edge /\ -d \in D
    <3>1. CASE d \in {m, -m}
      BY <1>3, <1>8, <3>1
    <3>2. CASE d \in DOMAIN next \ {e1, -e1, e2, -e2}
      BY <1>2, <1>3, <1>8, <2>1, <3>2
    <3> QED BY <2>2, <2>3, <3>1, <3>2
  <2> QED BY <2>3 DEF DartSet
<1>19. Node' = Node \ {c.at}
  BY <1>5 DEF Node
<1>20. TypeOK'
  <2>1. (next \in [DOMAIN next -> Int])'
    <3>1. \A d \in DOMAIN next : RenJoin(a, b, M, next[d]) \in Int
      BY <1>11 DEF RenJoin, TypeOK
    <3>2. b \in DOMAIN next /\ -a \in DOMAIN next
      BY <1>4, <1>12 DEF Joins
    <3>3. \A d \in D : next'[d] \in Int
      BY <1>4, <1>8, <1>11, <1>13, <3>1, <3>2
    <3> QED BY <1>13, <3>3
  <2>2. (next \in [Darts(Edge) -> Int] /\ Edge \subseteq 1..last.edge)'
    BY <1>3, <1>15, <1>18, <2>1, FromDarts
  <2>3. (side \in [DOMAIN next -> Nat])'
    <3>1. \A d \in D : side'[d] \in Nat
      BY <1>2, <1>5, <1>8 DEF TypeOK
    <3> QED BY <1>5, <1>15, <3>1
  <2>4. (org \in [DOMAIN next -> Node])'
    <3>1. \A d \in D : org'[d] \in Node /\ org'[d] # c.at
      BY <1>4, <1>13, <1>16, <1>17 DEF TypeOK
    <3> QED BY <1>13, <1>15, <1>19, <3>1
  <2>5. (containing \in [Node -> Nat \cup {None}])'
    BY <1>5, <1>19 DEF TypeOK
  <2>6. (relation \subseteq Row)'
    <3>1. relation \subseteq Row /\ m \in Int
      BY <1>3 DEF TypeOK
    <3> QED BY <1>5, <3>1, UpdatesTyped
  <2>7. (Node \subseteq 1..last.node)'
    BY <1>3, <1>19 DEF TypeOK
  <2>8. (face \subseteq 1..last.face)'
    BY <1>3, <1>5 DEF TypeOK
  <2> QED BY <1>3, <2>2, <2>3, <2>4, <2>5, <2>6, <2>7, <2>8 DEF TypeOK
<1>21. LinksFollowDrawing' /\ RingsClose'
  <2>1. /\ \A d \in DOMAIN cw : cw[d] \in DOMAIN cw /\ org[cw[d]] = org[d]
        /\ \A d, x \in DOMAIN cw : cw[d] = cw[x] => d = x
    BY <1>4, LinksAreStar
  <2>2. \A d \in DOMAIN cw : org[d] \in {org[-a], org[b]} => d \in {-a, b}
    BY <1>4, <1>9, <1>17
  <2>3. \A d \in JoinDarts(a, b, M) : org'[d] = org[WasJoin(a, b, M, d)]
    BY <1>12, <1>13
  <2>4. Star(JoinRot(a, b, M), org')
    BY <1>12, <2>1, <2>2, <2>3, JoinLinesStar
  <2>5. ASSUME NEW d \in D PROVE next'[d] = cw'[-d]
    <3>1. -d \in D /\ d \in Int /\ -(-d) = d
      BY <1>18 DEF DartSet
    <3>2. cw'[-d] = RenJoin(a, b, M, cw[WasJoin(a, b, M, -d)])
      BY <1>12, <1>14, <3>1 DEF JoinRot
    <3>3. cw[WasJoin(a, b, M, -d)] = IF d = M THEN next[b]
                                     ELSE IF d = -M THEN next[-a] ELSE next[d]
      <4>1. b \in DOMAIN next /\ -a \in DOMAIN next /\ M # -M /\ M \in Int
            /\ b \in Int /\ a \in Int
        BY <1>4, <1>12 DEF Joins
      <4>2. next[b] = cw[-b] /\ next[-a] = cw[a]
        BY <4>1, LinksAreStar
      <4>3. d \notin {M, -M} => d \in DOMAIN next
        BY <1>8, <1>11
      <4>4. d \notin {M, -M} => next[d] = cw[-d]
        BY <4>3, LinksAreStar
      <4> QED BY <3>1, <4>1, <4>2, <4>4 DEF WasJoin
    <3> QED BY <1>13, <3>2, <3>3
  <2>6. DOMAIN cw' = D
    BY <1>12, <1>14 DEF JoinRot
  <2> QED BY <1>14, <1>15, <1>18, <2>4, <2>5, <2>6, StarGivesLinks
<1>22. IsolatedNodesBare'
  <2> SUFFICES ASSUME NEW n \in Node, n # c.at PROVE containing'[n] # None <=> Leaving(n)' = {}
    BY <1>19 DEF IsolatedNodesBare
  <2>1. ASSUME NEW d \in Leaving(n) PROVE RenJoin(a, b, M, d) \in Leaving(n)'
    <3>1. d \in DOMAIN next \ {-a, b} /\ org[d] = n
      BY <1>4, <1>9 DEF Leaving
    <3> QED BY <1>13, <1>16, <3>1 DEF Leaving
  <2>2. ASSUME NEW d \in Leaving(n)' PROVE WasJoin(a, b, M, d) \in Leaving(n)
    BY <1>4, <1>13, <1>16 DEF Leaving
  <2>3. containing'[n] = containing[n]
    BY <1>5
  <2> QED BY <2>1, <2>2, <2>3 DEF IsolatedNodesBare
<1> QED BY <1>20, <1>21, <1>22

\* Any TopoGeometry may be redefined: only the relation table changes, and the
\* rows added are typed.
LEMMA RedefinitionInv == IInv /\ Redefinition => IInv'
<1> SUFFICES ASSUME IInv, Redefinition PROVE IInv'
  OBVIOUS
<1> USE DEF IInv
<1>1. UNCHANGED <<geomVars, tableVars>>
  BY DEF Redefinition, AddElement, RemElement, ClearTopoGeom
<1>2. relation' \subseteq Row
  <2>0. relation \subseteq Row
    BY DEF TypeOK
  <2>1. CASE AddElement
    <3>1. PICK r \in [tg : TopoGeom, type : {1}, id : Node]
            \cup [tg : TopoGeom, type : {2}, id : Darts(Edge)]
            \cup [tg : TopoGeom, type : {3}, id : face] :
          relation' = relation \cup {r}
      BY <2>1 DEF AddElement, TopoGeom_addElement, Redefine
    <3>2. Node \subseteq Int /\ face \subseteq Int
      BY DEF TypeOK
    <3>3. Darts(Edge) \subseteq Int
      BY DartsTyped DEF DartSet
    <3>4. r \in Row
      <4>1. CASE r \in [tg : TopoGeom, type : {1}, id : Node]
        <5>1. r.id \in Int
          BY <3>2, <4>1
        <5> QED BY <4>1, <5>1 DEF Row
      <4>2. CASE r \in [tg : TopoGeom, type : {2}, id : Darts(Edge)]
        BY <3>3, <4>2 DEF Row
      <4>3. CASE r \in [tg : TopoGeom, type : {3}, id : face]
        <5>1. r.id \in Int
          BY <3>2, <4>3
        <5> QED BY <4>3, <5>1 DEF Row
      <4> QED BY <3>1, <4>1, <4>2, <4>3
    <3> QED BY <2>0, <3>1, <3>4
  <2>2. CASE RemElement
    BY <2>0, <2>2 DEF RemElement, TopoGeom_remElement, Redefine
  <2>3. CASE ClearTopoGeom
    BY <2>0, <2>3 DEF ClearTopoGeom, clearTopoGeom, Redefine
  <2> QED BY <2>1, <2>2, <2>3 DEF Redefinition
<1>3. /\ next' = next /\ side' = side /\ org' = org /\ containing' = containing
      /\ face' = face /\ last' = last /\ cw' = cw
  BY <1>1 DEF geomVars, tableVars
<1>4. Edge' = Edge /\ Node' = Node /\ \A n : Leaving(n)' = Leaving(n)
  BY <1>3 DEF Edge, Node, Leaving
<1>5. TypeOK'
  BY <1>2, <1>3, <1>4 DEF TypeOK
<1>6. LinksFollowDrawing' /\ RingsClose'
  BY <1>3 DEF LinksFollowDrawing, RingsClose
<1>7. IsolatedNodesBare'
  BY <1>3, <1>4 DEF IsolatedNodesBare
<1> QED BY <1>5, <1>6, <1>7

\* The dart just before end d of edge e clockwise, with e inserted after p and
\* then -e after q.
Pred(e, p, q, d) ==
  IF d = -e THEN IF q = 0 THEN -e ELSE q
  ELSE IF p = 0 THEN IF q = e THEN -e ELSE e
  ELSE IF q = p THEN -e ELSE p

\* Pred is where an inserted end is found: the dart before it clockwise.
LEMMA InsertedPred ==
  ASSUME NEW e, NEW p, NEW q, Placed(e, p, q),
         \A x \in DOMAIN cw : cw[x] \in DOMAIN cw,
         NEW d \in {e, -e}
  PROVE  (CHOOSE x \in DOMAIN Inserted(e, p, q) : Inserted(e, p, q)[x] = d) = Pred(e, p, q, d)
<1>1. DOMAIN Inserted(e, p, q) = DOMAIN cw \cup {e, -e}
  BY DEF Inserted
<1>2. \A x \in DOMAIN cw \cup {e, -e} : Inserted(e, p, q)[x] = After(e, p, q, x)
  BY DEF Inserted
<1>3. e # -e
  BY DEF Placed
<1>4. Pred(e, p, q, d) \in DOMAIN cw \cup {e, -e} /\ After(e, p, q, Pred(e, p, q, d)) = d
  BY <1>3 DEF Pred, After, Placed
<1>5. ASSUME NEW x \in DOMAIN cw \cup {e, -e}, After(e, p, q, x) = d PROVE x = Pred(e, p, q, d)
  BY <1>3, <1>5 DEF Pred, After, Placed
<1> QED BY <1>1, <1>2, <1>4, <1>5

\* _lwt_FindAdjacentEdges without its choice of the first match: what it returns
\* for an end of an edge, in terms of the drawing.
LEMMA AdjacentUnfolded ==
  ASSUME NEW e, NEW d, NEW rot, NEW cwd, NEW ccwd, NEW nextCW, NEW nextCCW,
         rot[d] = cwd, (CHOOSE x \in DOMAIN rot : rot[x] = d) = ccwd,
         nextCW = (IF cwd \in {e, -e} THEN 0 ELSE cwd),
         nextCCW = (IF ccwd \in {e, -e} THEN 0 ELSE ccwd)
  PROVE  Adjacent(e, d, rot) =
           [nextCW |-> nextCW, nextCCW |-> nextCCW,
            cwFace |-> IF nextCW = 0 THEN None ELSE side[nextCW],
            ccwFace |-> IF nextCCW = 0 THEN None ELSE side[-nextCCW]]
<1> DEFINE other(x) == IF x \in {e, -e} THEN 0 ELSE x
           before == CHOOSE x \in DOMAIN rot : rot[x] = d
<1>1. Adjacent(e, d, rot) =
        [nextCW |-> other(rot[d]), nextCCW |-> other(before),
         cwFace |-> IF other(rot[d]) = 0 THEN None ELSE side[other(rot[d])],
         ccwFace |-> IF other(before) = 0 THEN None ELSE side[-other(before)]]
  BY DEF Adjacent
<1>2. before = ccwd
  BY Zenon
<1>3. other(rot[d]) = nextCW /\ other(ccwd) = nextCCW
  OBVIOUS
<1> HIDE DEF other, before
<1> QED BY <1>1, <1>2, <1>3

\* What _lwt_FindAdjacentEdges finds for the two ends of edge e.
LEMMA AdjacentFound ==
  ASSUME NEW e, NEW p, NEW q, Placed(e, p, q),
         \A x \in DOMAIN cw : cw[x] \in DOMAIN cw,
         NEW d \in {e, -e}
  PROVE  LET cwd == After(e, p, q, d)
             ccwd == Pred(e, p, q, d)
             found == Adjacent(e, d, Inserted(e, p, q))
         IN  /\ found.nextCW = IF cwd \in {e, -e} THEN 0 ELSE cwd
             /\ found.nextCCW = IF ccwd \in {e, -e} THEN 0 ELSE ccwd
             /\ found.cwFace = IF found.nextCW = 0 THEN None ELSE side[found.nextCW]
             /\ found.ccwFace = IF found.nextCCW = 0 THEN None ELSE side[-found.nextCCW]
<1>1. Inserted(e, p, q)[d] = After(e, p, q, d)
  BY DEF Inserted
<1>2. (CHOOSE x \in DOMAIN Inserted(e, p, q) : Inserted(e, p, q)[x] = d) = Pred(e, p, q, d)
  BY InsertedPred
<1> DEFINE cwd == After(e, p, q, d)
           ccwd == Pred(e, p, q, d)
           nextCW == IF cwd \in {e, -e} THEN 0 ELSE cwd
           nextCCW == IF ccwd \in {e, -e} THEN 0 ELSE ccwd
<1>3. Adjacent(e, d, Inserted(e, p, q)) =
        [nextCW |-> nextCW, nextCCW |-> nextCCW,
         cwFace |-> IF nextCW = 0 THEN None ELSE side[nextCW],
         ccwFace |-> IF nextCCW = 0 THEN None ELSE side[-nextCCW]]
  BY <1>1, <1>2, AdjacentUnfolded
<1> HIDE DEF nextCW, nextCCW
<1>4. LET found == Adjacent(e, d, Inserted(e, p, q))
      IN  /\ found.nextCW = nextCW
          /\ found.nextCCW = nextCCW
          /\ found.cwFace = IF nextCW = 0 THEN None ELSE side[nextCW]
          /\ found.ccwFace = IF nextCCW = 0 THEN None ELSE side[-nextCCW]
  BY <1>3
<1> QED BY <1>4 DEF nextCW, nextCCW

\* The faces found beside a new edge are face ids, so an edge that is accepted
\* gets one.
LEMMA AcceptedFace ==
  ASSUME TypeOK, LinksFollowDrawing, NEW e, NEW p, NEW q, Placed(e, p, q),
         \A x \in DOMAIN cw : cw[x] \in DOMAIN cw,
         NEW s \in Node, NEW t \in Node,
         Accepted(EdgeFaces(e, s, t, Inserted(e, p, q)))
  PROVE  EdgeFaces(e, s, t, Inserted(e, p, q)).left \in Nat
<1> DEFINE span == Adjacent(e, e, Inserted(e, p, q))
           Found == Nat \cup {None}
<1>1. span.cwFace \in Found /\ span.ccwFace \in Found
  <2>1. /\ span.nextCW = IF After(e, p, q, e) \in {e, -e} THEN 0 ELSE After(e, p, q, e)
        /\ span.nextCCW = IF Pred(e, p, q, e) \in {e, -e} THEN 0 ELSE Pred(e, p, q, e)
        /\ span.cwFace = IF span.nextCW = 0 THEN None ELSE side[span.nextCW]
        /\ span.ccwFace = IF span.nextCCW = 0 THEN None ELSE side[-span.nextCCW]
    BY AdjacentFound
  <2>2. After(e, p, q, e) \in DOMAIN cw \cup {e, -e} /\ Pred(e, p, q, e) \in DOMAIN cw \cup {e, -e}
    BY DEF After, Pred, Placed
  <2>3. \A d \in DOMAIN cw : -d \in DOMAIN cw
    BY DartsTyped DEF DartSet, LinksFollowDrawing
  <2>4. \A d \in DOMAIN cw : side[d] \in Nat
    BY DEF TypeOK, LinksFollowDrawing
  <2> HIDE DEF span
  <2> QED BY <2>1, <2>2, <2>3, <2>4
<1>2. containing[s] \in Found /\ containing[t] \in Found
  BY DEF TypeOK
<1>3. EdgeFaces(e, s, t, Inserted(e, p, q)).left
        \in {containing[s], containing[t], span.cwFace, span.ccwFace}
  BY DEF EdgeFaces
<1> HIDE DEF span
<1> QED BY <1>1, <1>2, <1>3 DEF Accepted

\* p and q are where the ends of e go at nodes s and t.
EndsPlaced(e, s, t, p, q) ==
  /\ Placed(e, p, q)
  /\ p = 0 <=> Leaving(s) = {}
  /\ p # 0 => org[p] = s
  /\ q \notin {0, e} => org[q] = t
  /\ s # t => q # e /\ (q = 0 <=> Leaving(t) = {})
  /\ s = t => q # 0 /\ (p = 0 => q = e)

\* The places an added edge can be drawn at are places of the drawing's rotation.
LEMMA PlacesArePlaced ==
  ASSUME TypeOK, LinksFollowDrawing, NEW e \in Int \ {0}, e \notin DOMAIN next, -e \notin DOMAIN next,
         NEW s \in Node, NEW t \in Node, NEW f, NEW p, NEW q, <<p, q>> \in Places(e, s, t, f)
  PROVE  EndsPlaced(e, s, t, p, q)
<1>1. p \in Sectors(s, f) /\ q \in IF s # t THEN Sectors(t, f) ELSE {e} \cup (Sectors(s, f) \ {0})
  BY DEF Places
<1>2. DOMAIN org = DOMAIN cw /\ DOMAIN next = DOMAIN cw /\ \A d \in DOMAIN cw : d \in Int /\ d # 0
  BY DartsTyped DEF TypeOK, LinksFollowDrawing, DartSet
<1>3. \A n : /\ Leaving(n) \subseteq DOMAIN cw
             /\ \A d \in Leaving(n) : org[d] = n
             /\ Leaving(n) = {} => Sectors(n, f) \subseteq {0}
             /\ Leaving(n) # {} => Sectors(n, f) \subseteq Leaving(n)
  BY <1>2 DEF Sectors, Leaving
<1>4. Placed(e, p, q)
  BY <1>1, <1>2, <1>3 DEF Placed
<1>5. p = 0 <=> Leaving(s) = {}
  BY <1>1, <1>2, <1>3
<1>6. p # 0 => org[p] = s
  BY <1>1, <1>2, <1>3
<1>7. CASE s # t
  <2>1. q # e /\ (q = 0 <=> Leaving(t) = {}) /\ (q # 0 => org[q] = t)
    BY <1>1, <1>2, <1>3, <1>7
  <2> QED BY <1>4, <1>5, <1>6, <1>7, <2>1 DEF EndsPlaced
<1>8. CASE s = t
  <2>1. q # 0 /\ (q # e => q \in Leaving(s) /\ org[q] = t)
    BY <1>1, <1>2, <1>3, <1>8
  <2> QED BY <1>4, <1>5, <1>6, <1>8, <2>1 DEF EndsPlaced
<1> QED BY <1>7, <1>8

\* The new edge is linked where it is drawn.
LEMMA LinkedValue ==
  ASSUME TypeOK, LinksFollowDrawing, RingsClose,
         NEW e, NEW s, NEW t, NEW p, NEW q, EndsPlaced(e, s, t, p, q),
         NEW d \in DOMAIN next \cup {e, -e}
  PROVE  Linked(e, s, t, Inserted(e, p, q))[d] = After(e, p, q, -d)
<1> DEFINE span == Adjacent(e, e, Inserted(e, p, q))
           epan == Adjacent(e, -e, Inserted(e, p, q))
           outE == IF After(e, p, q, e) \in {e, -e} THEN 0 ELSE After(e, p, q, e)
           outB == IF After(e, p, q, -e) \in {e, -e} THEN 0 ELSE After(e, p, q, -e)
           inE == IF Pred(e, p, q, e) \in {e, -e} THEN 0 ELSE Pred(e, p, q, e)
           inB == IF Pred(e, p, q, -e) \in {e, -e} THEN 0 ELSE Pred(e, p, q, -e)
           nextRight == IF Leaving(s) # {} THEN (IF outE # 0 THEN outE ELSE -e)
                        ELSE IF s = t THEN -e ELSE e
           nextLeft == IF Leaving(t) # {} THEN (IF outB # 0 THEN outB ELSE e)
                       ELSE IF s = t THEN e ELSE -e
<1>1. Placed(e, p, q) /\ \A x \in DOMAIN cw : cw[x] \in DOMAIN cw
  BY LinksAreStar DEF EndsPlaced
<1>2. span.nextCW = outE /\ span.nextCCW = inE /\ epan.nextCW = outB /\ epan.nextCCW = inB
  BY <1>1, AdjacentFound
<1>3. Linked(e, s, t, Inserted(e, p, q))[d] =
        IF d = e THEN nextLeft
        ELSE IF d = -e THEN nextRight
        ELSE IF d = -inB THEN -e
        ELSE IF d = -inE THEN e
        ELSE next[d]
  <2> HIDE DEF outE, outB, inE, inB
  <2> QED BY <1>2 DEF Linked
<1>4. DOMAIN next = DOMAIN cw /\ e \in Int \ {0} /\ e # -e /\ -(-e) = e
      /\ e \notin DOMAIN cw /\ -e \notin DOMAIN cw /\ 0 \notin DOMAIN cw
  BY DEF EndsPlaced, Placed, LinksFollowDrawing
<1>5. nextLeft = After(e, p, q, -e)
  BY <1>1, <1>4 DEF EndsPlaced, Placed, After
<1>6. nextRight = After(e, p, q, e)
  BY <1>1, <1>4 DEF EndsPlaced, Placed, After
<1>7. ASSUME d \in DOMAIN next
      PROVE  (IF d = -inB THEN -e ELSE IF d = -inE THEN e ELSE next[d]) = After(e, p, q, -d)
  <2>1. d \in Int /\ d # 0 /\ -d \in DOMAIN cw /\ -d \notin {e, -e} /\ next[d] = cw[-d]
    BY <1>4, <1>7, DartsTyped, LinksAreStar DEF DartSet
  <2>2. inB = IF q \in {0, e} THEN 0 ELSE q
    BY <1>4 DEF Pred, EndsPlaced, Placed
  <2>3. inE = IF p = 0 \/ q = p THEN 0 ELSE p
    BY <1>4 DEF Pred, EndsPlaced, Placed
  <2>4. p \in Int /\ q \in Int
    BY <1>1 DEF Placed
  <2> HIDE DEF inB, inE
  <2>5. (d = -inB) <=> (-d = q)
    BY <1>4, <2>1, <2>2, <2>4
  <2>6. -d # q => ((d = -inE) <=> (-d = p))
    BY <1>4, <2>1, <2>3, <2>4
  <2> QED BY <2>1, <2>5, <2>6 DEF After
<1> HIDE DEF nextLeft, nextRight, inB, inE, outE, outB
<1>8. CASE d = e
  BY <1>3, <1>5, <1>8
<1>9. CASE d = -e
  BY <1>3, <1>4, <1>6, <1>9
<1>10. CASE d \notin {e, -e}
  BY <1>3, <1>7, <1>10
<1> QED BY <1>8, <1>9, <1>10

\* What a face split keeps: the types of the columns it updates, and which nodes
\* are isolated (those of cont that have a containing face).
GoodFaces(st, D, cont) ==
  /\ st \in [side : [D -> Nat], containing : [Node -> Nat \cup {None}],
             face : SUBSET Nat, last : Nat, ret : Int]
  /\ \A n \in Node : st.containing[n] = None <=> cont[n] = None
  /\ last.face <= st.last
  /\ st.face \subseteq 1..st.last

\* The id a face split returns does not matter for what it keeps.
LEMMA GoodRet ==
  ASSUME NEW D, NEW cont, NEW st, GoodFaces(st, D, cont), NEW r \in Int
  PROVE  GoodFaces([st EXCEPT !.ret = r], D, cont)
BY DEF GoodFaces

\* _lwt_AddFaceSplit keeps what a face split must keep, whichever edges and
\* isolated nodes turn out to lie inside the new ring.
LEMMA AddFaceSplitGood ==
  ASSUME NEW D, NEW cont, NEW st, GoodFaces(st, D, cont), last.face \in Nat,
         NEW nx, NEW g, NEW sedge, NEW f \in Nat, NEW mbrOnly
  PROVE  GoodFaces(AddFaceSplit(st, nx, g, sedge, f, mbrOnly), D, cont)
<1> DEFINE ring == Orbit(nx, sedge)
           isccw == ring # g.out
           outward == f # 0 /\ ~isccw
           id == st.last + 1
           facing == g.out = {} /\ ring = g.right
           within == IF facing THEN g.rest \ g.inside ELSE g.inside
           withinPts == IF facing THEN g.points \ g.insidePts ELSE g.insidePts
           sweeps(x) == IF outward THEN x \in g.rest \ within ELSE x \in within
           sweepsPt(n) == IF outward THEN n \notin withinPts ELSE n \in withinPts
           relabelled == [x \in DOMAIN st.side |->
                            IF \/ x \in ring
                               \/ st.side[x] = f /\ -x \notin ring /\ sweeps(x)
                            THEN id ELSE st.side[x]]
           moved == [n \in DOMAIN st.containing |->
                       IF st.containing[n] = f /\ sweepsPt(n) THEN id ELSE st.containing[n]]
           new == [side |-> relabelled, containing |-> moved,
                   face |-> st.face \cup {id}, last |-> id, ret |-> id]
<1>1. AddFaceSplit(st, nx, g, sedge, f, mbrOnly)
        \in {[st EXCEPT !.ret = 0], [st EXCEPT !.ret = -1], new}
  BY DEF AddFaceSplit
<1>2. /\ st.side \in [D -> Nat] /\ st.containing \in [Node -> Nat \cup {None}]
      /\ st.last \in Nat /\ st.face \subseteq 1..st.last /\ last.face <= st.last
      /\ \A n \in Node : st.containing[n] = None <=> cont[n] = None
  BY DEF GoodFaces
<1>3. id \in Nat /\ id > st.last /\ last.face <= id
  BY <1>2
<1>4. relabelled \in [D -> Nat]
  <2> HIDE DEF id, ring, sweeps
  <2> QED BY <1>2, <1>3
<1>5. moved \in [Node -> Nat \cup {None}] /\ \A n \in Node : moved[n] = None <=> cont[n] = None
  <2> HIDE DEF id, sweepsPt
  <2> QED BY <1>2, <1>3 DEF None
<1>6. st.face \cup {id} \subseteq 1..id
  BY <1>2, <1>3
<1> HIDE DEF relabelled, moved, id
<1>7. GoodFaces(new, D, cont)
  <2>1. st.face \cup {id} \subseteq Nat
    BY <1>6
  <2> QED BY <1>3, <1>4, <1>5, <1>6, <2>1 DEF GoodFaces
<1>8. GoodFaces([st EXCEPT !.ret = 0], D, cont) /\ GoodFaces([st EXCEPT !.ret = -1], D, cont)
  BY GoodRet
<1> HIDE DEF new
<1> QED BY <1>1, <1>7, <1>8

\* So do the two splits of an edge that is added, in either order and mode.
LEMMA SplitsGood ==
  ASSUME NEW D, NEW cont, NEW st, GoodFaces(st, D, cont), last.face \in Nat,
         NEW nx, NEW g, NEW e, NEW f \in Nat
  PROVE  /\ GoodFaces(SplitModFace(st, nx, g, e, f), D, cont)
         /\ GoodFaces(SplitNewFaces(st, nx, g, e, f), D, cont)
<1>1. GoodFaces(SplitModFace(st, nx, g, e, f), D, cont)
  <2> DEFINE left == AddFaceSplit(st, nx, g, e, f, FALSE)
  <2>1. GoodFaces(left, D, cont)
    BY AddFaceSplitGood
  <2>2. left.ret \in Int
    BY <2>1 DEF GoodFaces
  <2> HIDE DEF left
  <2>3. /\ GoodFaces(AddFaceSplit(left, nx, g, -e, f, FALSE), D, cont)
        /\ GoodFaces(AddFaceSplit(left, nx, g, -e, f, TRUE), D, cont)
    BY <2>1, AddFaceSplitGood
  <2>4. GoodFaces([AddFaceSplit(left, nx, g, -e, f, TRUE) EXCEPT !.ret = left.ret], D, cont)
    BY <2>2, <2>3, GoodRet
  <2> QED BY <2>1, <2>3, <2>4 DEF SplitModFace, left
<1>2. GoodFaces(SplitNewFaces(st, nx, g, e, f), D, cont)
  <2> DEFINE right == AddFaceSplit(st, nx, g, -e, f, FALSE)
             left == AddFaceSplit(right, nx, g, e, f, FALSE)
  <2>1. GoodFaces(right, D, cont)
    BY AddFaceSplitGood
  <2>2. GoodFaces(left, D, cont)
    <3> HIDE DEF right
    <3> QED BY <2>1, AddFaceSplitGood
  <2>3. SplitNewFaces(st, nx, g, e, f) \in {right, left, [left EXCEPT !.face = @ \ {f}]}
    BY DEF SplitNewFaces
  <2> HIDE DEF left, right
  <2>4. GoodFaces([left EXCEPT !.face = @ \ {f}], D, cont)
    BY <2>2 DEF GoodFaces
  <2> QED BY <2>1, <2>2, <2>3, <2>4
<1> QED BY <1>1, <1>2

\* _lwt_AddEdge, in both of its modes, keeps the invariant: the new edge is linked
\* where it is drawn, and its end nodes stop being isolated.
LEMMA AddEdgeInv == ASSUME NEW modFace \in BOOLEAN, IInv, AddEdge(modFace) PROVE IInv'
<1> USE DEF IInv
<1> DEFINE e == last.edge + 1
           D == DOMAIN next \cup {e, -e}
<1>1. PICK s \in Node, t \in Node, f \in face \cup {0} :
        \E g \in DrawingsBetween(e, s, t, f) : AddEdgeAs(e, s, t, f, g, modFace)
  BY DEF AddEdge
<1>2. PICK g \in DrawingsBetween(e, s, t, f) : AddEdgeAs(e, s, t, f, g, modFace)
  BY <1>1
<1> DEFINE f0 == EdgeFaces(e, s, t, g.rot).left
           sd == [d \in DOMAIN side \cup {e, -e} |-> IF d \in {e, -e} THEN f0 ELSE side[d]]
           cont == [n \in Node |-> IF n \in {s, t} THEN None ELSE containing[n]]
           nx == Linked(e, s, t, g.rot)
           before == FaceState(sd, cont)
           after == IF s # t /\ (Leaving(s) = {} \/ Leaving(t) = {}) THEN before
                    ELSE IF modFace THEN SplitModFace(before, nx, g, e, f0)
                    ELSE SplitNewFaces(before, nx, g, e, f0)
<1>3. /\ Accepted(EdgeFaces(e, s, t, g.rot))
      /\ next' = Linked(e, s, t, g.rot)
      /\ org' = [d \in DOMAIN org \cup {e, -e} |->
                   IF d = e THEN s ELSE IF d = -e THEN t ELSE org[d]]
      /\ side' = after.side
      /\ containing' = after.containing
      /\ face' = after.face
      /\ last' = [node |-> last.node, edge |-> e, face |-> after.last]
      /\ relation' = IF f0 = 0 \/ after.ret <= 0 THEN relation
                     ELSE IF modFace THEN updateTopoGeomFaceSplit(f0, after.ret, -1)
                     ELSE updateTopoGeomFaceSplit(f0, after.ret, after.ret - 1)
      /\ cw' = g.rot
  BY <1>2 DEF AddEdgeAs, DrawLine
<1>4. /\ e \in Int \ {0} /\ e # -e /\ DartSet(D, e)
      /\ e \notin DOMAIN next /\ -e \notin DOMAIN next /\ 0 \notin DOMAIN next
  BY FreshDarts DEF TypeOK
<1>5. DOMAIN next = DOMAIN cw /\ DOMAIN org = DOMAIN next /\ DOMAIN side = DOMAIN next
  BY DEF TypeOK, LinksFollowDrawing
<1>6. e \in Nat /\ last.node \in Nat /\ last.face \in Nat
  BY DEF TypeOK
<1> HIDE DEF e
<1>7. PICK p, q : <<p, q>> \in Places(e, s, t, f) /\ g.rot = InsertEdge(cw, e, p, q)
  BY DrawingRot
<1>8. EndsPlaced(e, s, t, p, q)
  BY <1>4, <1>7, PlacesArePlaced
<1>9. Placed(e, p, q) /\ g.rot = Inserted(e, p, q)
  BY <1>7, <1>8, InsertEdgeValue DEF EndsPlaced
<1>10. f0 \in Nat
  BY <1>3, <1>9, LinksAreStar, AcceptedFace
<1>11. GoodFaces(after, D, cont)
  <2> HIDE DEF f0
  <2>1. sd \in [D -> Nat]
    BY <1>5, <1>10 DEF TypeOK
  <2>2. cont \in [Node -> Nat \cup {None}]
    BY DEF TypeOK
  <2>3. face \subseteq Nat /\ face \subseteq 1..last.face
    BY <1>6 DEF TypeOK
  <2> HIDE DEF sd, cont, D
  <2>4. GoodFaces(before, D, cont)
    BY <1>6, <2>1, <2>2, <2>3 DEF GoodFaces, FaceState
  <2> HIDE DEF before, nx
  <2> QED BY <1>6, <1>10, <2>4, SplitsGood
<1> HIDE DEF after, f0
<1>12. \A d \in D : next'[d] = After(e, p, q, -d)
  BY <1>3, <1>8, <1>9, LinkedValue
<1>13. DOMAIN next' = D
  BY <1>3 DEF Linked
<1>14. Node' = Node
  <2> HIDE DEF cont, D
  <2> QED BY <1>3, <1>11 DEF Node, GoodFaces
<1>15. org' = [d \in D |-> IF d = e THEN s ELSE IF d = -e THEN t ELSE org[d]]
  BY <1>3, <1>5
<1>16. Star(cw, org)'
  <2>1. org'[e] = s /\ org'[-e] = t /\ \A d \in DOMAIN cw : org'[d] = org[d]
    BY <1>4, <1>5, <1>15
  <2>2. Star(InsertEdge(cw, e, p, q), org')
    BY <1>8, <1>9, <2>1, LinksAreStar, InsertEdgeStar DEF EndsPlaced
  <2> QED BY <1>3, <1>7, <2>2
<1>17. cw' = Inserted(e, p, q)
  BY <1>3, <1>9
<1>18. TypeOK'
  <2>1. (next \in [DOMAIN next -> Int])'
    <3>1. ASSUME NEW d \in D PROVE next'[d] \in Int
      <4>1. -d \in DOMAIN cw \cup {e, -e}
        BY <1>4, <1>5 DEF DartSet
      <4>2. \A x \in DOMAIN cw : cw[x] \in Int
        BY <1>4, <1>5, LinksAreStar DEF DartSet
      <4> QED BY <1>4, <1>9, <1>12, <4>1, <4>2 DEF After, Placed
    <3>2. next' = [d \in DOMAIN next' |-> next'[d]]
      BY <1>3 DEF Linked
    <3> QED BY <1>13, <3>1, <3>2
  <2>2. (last \in [node : Nat, edge : Nat, face : Nat])'
    BY <1>3, <1>6, <1>11 DEF GoodFaces
  <2>3. (next \in [Darts(Edge) -> Int] /\ Edge \subseteq 1..last.edge)'
    BY <1>3, <1>4, <1>13, <2>1, <2>2, FromDarts
  <2>4. (side \in [DOMAIN next -> Nat])'
    BY <1>3, <1>11, <1>13 DEF GoodFaces
  <2>5. (org \in [DOMAIN next -> Node])'
    BY <1>5, <1>13, <1>14, <1>15 DEF TypeOK
  <2>6. (containing \in [Node -> Nat \cup {None}])'
    BY <1>3, <1>11, <1>14 DEF GoodFaces
  <2>7. (Node \subseteq 1..last.node)'
    BY <1>3, <1>14 DEF TypeOK
  <2>8. (face \subseteq 1..last.face)'
    BY <1>3, <1>11 DEF GoodFaces
  <2>9. (relation \subseteq Row)'
    <3>1. relation \subseteq Row /\ after.ret \in Int /\ after.ret - 1 \in Int /\ -1 \in Int
      BY <1>11 DEF GoodFaces, TypeOK
    <3>2. /\ updateTopoGeomFaceSplit(f0, after.ret, -1) \subseteq Row
          /\ updateTopoGeomFaceSplit(f0, after.ret, after.ret - 1) \subseteq Row
      BY <3>1, UpdatesTyped
    <3> QED BY <1>3, <3>1, <3>2
  <2> QED BY <2>2, <2>3, <2>4, <2>5, <2>6, <2>7, <2>8, <2>9 DEF TypeOK
<1>19. LinksFollowDrawing' /\ RingsClose'
  <2>1. DOMAIN cw' = D
    BY <1>5, <1>17 DEF Inserted
  <2>2. ASSUME NEW d \in D PROVE next'[d] = cw'[-d]
    <3>1. -d \in DOMAIN cw \cup {e, -e}
      BY <1>4, <1>5 DEF DartSet
    <3> QED BY <1>12, <1>17, <3>1 DEF Inserted
  <2>3. last'.edge = e
    BY <1>3
  <2> QED BY <1>4, <1>13, <1>16, <2>1, <2>2, <2>3, StarGivesLinks
<1>20. IsolatedNodesBare'
  <2> SUFFICES ASSUME NEW n \in Node PROVE containing'[n] # None <=> Leaving(n)' = {}
    BY <1>14 DEF IsolatedNodesBare
  <2>1. containing'[n] = None <=> cont[n] = None
    BY <1>3, <1>11 DEF GoodFaces
  <2>2. CASE n \in {s, t}
    <3>1. e \in Leaving(s)' /\ -e \in Leaving(t)'
      BY <1>4, <1>15 DEF Leaving
    <3> QED BY <2>1, <2>2, <3>1
  <2>3. CASE n \notin {s, t}
    <3>1. Leaving(n)' = Leaving(n)
      BY <1>4, <1>5, <1>15, <2>3 DEF Leaving
    <3> QED BY <2>1, <2>3, <3>1 DEF IsolatedNodesBare
  <2> QED BY <2>2, <2>3
<1> QED BY <1>18, <1>19, <1>20

\* A topology as CreateTopology leaves it satisfies the invariant.
LEMMA InitInv == Init => IInv
<1> SUFFICES ASSUME Init PROVE IInv
  OBVIOUS
<1>1. DOMAIN next = {} /\ DOMAIN cw = {} /\ Node = {} /\ relation = {} /\ face = {}
  BY DEF Init, GeomInit, TopoGeomInit, Node
<1>2. Edge = {} /\ Darts(Edge) = {}
  BY <1>1 DEF Edge, Darts
<1>3. TypeOK
  BY <1>1, <1>2 DEF Init, TypeOK
<1> QED BY <1>1, <1>3 DEF IInv, LinksFollowDrawing, RingsClose, IsolatedNodesBare

\* Every edit, and every redefinition of a TopoGeometry, keeps the invariant.
LEMMA NextInv == IInv /\ [Next]_vars => IInv'
<1> SUFFICES ASSUME IInv, [Next]_vars PROVE IInv'
  OBVIOUS
<1>1. CASE AddIsoNode
  BY <1>1, AddIsoNodeInv
<1>2. CASE RemoveIsoNode
  BY <1>2, RemoveIsoNodeInv
<1>3. CASE AddIsoEdge
  BY <1>3, AddIsoEdgeInv
<1>4. CASE RemIsoEdge
  BY <1>4, RemIsoEdgeInv
<1>5. CASE ModEdgeSplit
  BY <1>5, ModEdgeSplitInv
<1>6. CASE NewEdgesSplit
  BY <1>6, NewEdgesSplitInv
<1>7. CASE ModEdgeHeal
  BY <1>7, HealEdgesInv DEF ModEdgeHeal
<1>8. CASE NewEdgeHeal
  BY <1>8, HealEdgesInv DEF NewEdgeHeal
<1>9. CASE AddEdgeModFace
  BY <1>9, AddEdgeInv DEF AddEdgeModFace
<1>10. CASE AddEdgeNewFaces
  BY <1>10, AddEdgeInv DEF AddEdgeNewFaces
<1>11. CASE RemEdgeModFace
  BY <1>11, RemEdgeInv DEF RemEdgeModFace
<1>12. CASE RemEdgeNewFace
  BY <1>12, RemEdgeInv DEF RemEdgeNewFace
<1>13. CASE Redefinition
  BY <1>13, RedefinitionInv
<1>14. CASE UNCHANGED vars
  <2>1. /\ next' = next /\ side' = side /\ org' = org /\ containing' = containing
        /\ face' = face /\ last' = last /\ cw' = cw /\ relation' = relation
    BY <1>14 DEF vars, geomVars, tgVars, tableVars
  <2>2. Edge' = Edge /\ Node' = Node /\ \A n : Leaving(n)' = Leaving(n)
    BY <2>1 DEF Edge, Node, Leaving
  <2> QED BY <2>1, <2>2 DEF IInv, TypeOK, LinksFollowDrawing, RingsClose, IsolatedNodesBare
<1> QED BY <1>1, <1>2, <1>3, <1>4, <1>5, <1>6, <1>7, <1>8, <1>9, <1>10, <1>11, <1>12, <1>13,
           <1>14 DEF Next, Edit

\* The invariant holds after any history of edits.
LEMMA Inductive == Spec => []IInv
BY InitInv, NextInv, PTL DEF Spec

\* In every reachable state the node, edge_data, face and relation tables are well
\* typed and every id in them was given out by its sequence (the column types and
\* sequences of CreateTopology).
THEOREM TypeCorrect == Spec => []TypeOK
BY Inductive, PTL DEF IInv

\* After any history of edits, next_left_edge and next_right_edge of every edge are
\* the first edges clockwise around its end and start node: what AddEdge, RemEdge,
\* the splits and the heals write agrees with the drawing they were given.
THEOREM LinksCorrect == Spec => []LinksFollowDrawing
BY Inductive, PTL DEF IInv

\* Next edges always form closed walks that go on from the node they arrive at, so
\* the recursive query of cb_getRingEdges ends where it began.
THEOREM RingsAlwaysClose == Spec => []RingsClose
BY Inductive, PTL DEF IInv

\* A node has a containing face exactly when no edge starts or ends at it: AddEdge
\* clears it, and RemEdge and RemIsoEdge set it again for the last edge.
THEOREM IsolationCorrect == Spec => []IsolatedNodesBare
BY Inductive, PTL DEF IInv



-----------------------------------------------------------------------------
(* Orbits. What is said of Orbit and Piece below is all that is used of them. *)

ClosedUnder(f, S) == \A x \in S : f[x] \in S
Permutes(f, D) == /\ IsFiniteSet(D) /\ f \in [D -> D]
                  /\ \A x, y \in D : f[x] = f[y] => x = y

\* A permutation of a finite set enters a set it does not leave from within only.
LEMMA EnteredFromWithin ==
  ASSUME NEW D, NEW f, Permutes(f, D), NEW S, S \subseteq D, ClosedUnder(f, S),
         NEW x \in D, f[x] \in S
  PROVE  x \in S
<1> DEFINE g == [y \in S |-> f[y]]
<1>1. IsFiniteSet(S)
  BY FS_Subset DEF Permutes
<1>2. g \in [S -> S] /\ \A a, b \in S : g[a] = g[b] => a = b
  BY DEF ClosedUnder, Permutes
<1>3. g \in Injection(S, S)
  <2> HIDE DEF g
  <2> QED BY <1>2 DEF Injection, IsInjective
<1>4. g \in Surjection(S, S)
  <2> HIDE DEF g
  <2> QED BY <1>1, <1>3, FS_Injection
<1>5. \A t \in S : \E s \in S : g[s] = t
  <2> HIDE DEF g
  <2> QED BY <1>4 DEF Surjection
<1>6. PICK s \in S : f[s] = f[x]
  BY <1>5
<1> QED BY <1>6 DEF Permutes

\* What Orbit stands for: the darts reached in 0..n steps.
LEMMA OrbitSteps ==
  ASSUME NEW D, IsFiniteSet(D), NEW f \in [D -> D], NEW d \in D, NEW n, n = Cardinality(D)
  PROVE  /\ n \in Nat
         /\ \E step \in [0..n -> D] :
              /\ step[0] = d /\ \A k \in 1..n : step[k] = f[step[k - 1]]
              /\ Orbit(f, d) = {step[i] : i \in 0..n}
<1> DEFINE G == [x \in D \X (1..n) |-> f[x[1]]]
<1>1. n \in Nat /\ DOMAIN f = D
  BY FS_CardinalityType
<1>2. PICK h \in [0..n -> D] : Iterates(h, n, d, G)
  <2>1. G \in [D \X (1..n) -> D]
    OBVIOUS
  <2> HIDE DEF G
  <2> QED BY <1>1, <2>1, Recursion
<1>3. h = [i \in 0..n |-> IF i = 0 THEN d ELSE f[h[i - 1]]]
  <2>1. ASSUME NEW k \in 1..n PROVE h[k] = f[h[k - 1]]
    <3>1. k - 1 \in 0..n /\ h[k - 1] \in D
      BY <1>1
    <3> QED BY <1>2, <3>1 DEF Iterates
  <2> QED BY <1>1, <1>2, <2>1 DEF Iterates
<1> DEFINE st == CHOOSE g : g = [i \in 0..n |-> IF i = 0 THEN d ELSE f[g[i - 1]]]
<1>4. st = [i \in 0..n |-> IF i = 0 THEN d ELSE f[st[i - 1]]]
  BY <1>3, Zenon
<1>5. Orbit(f, d) = {st[i] : i \in 0..n}
  BY <1>1 DEF Orbit
<1> HIDE DEF st
<1> DEFINE S == {k \in 0..n : st[k] \in D}
<1>6. st[0] = d /\ \A k \in 1..n : st[k] = f[st[k - 1]]
  BY <1>1, <1>4
<1>7. 0 \in S
  BY <1>1, <1>6
<1>8. ASSUME NEW k \in 0..n, k < n, k \in S PROVE k + 1 \in S
  <2>1. k + 1 \in 1..n /\ (k + 1) - 1 = k
    BY <1>1, <1>8
  <2>2. st[k + 1] = f[st[k]]
    BY <1>6, <2>1
  <2> QED BY <1>1, <1>8, <2>1, <2>2
<1>9. 0..n \subseteq S
  <2> HIDE DEF S
  <2> QED BY <1>1, <1>7, <1>8, UpTo
<1>10. st \in [0..n -> D]
  BY <1>4, <1>9
<1> QED BY <1>1, <1>5, <1>6, <1>10

\* Orbit(f, d) is the least set with d that f does not leave.
LEMMA OrbitIsLeast ==
  ASSUME NEW D, IsFiniteSet(D), NEW f \in [D -> D], NEW d \in D
  PROVE  /\ d \in Orbit(f, d) /\ Orbit(f, d) \subseteq D /\ ClosedUnder(f, Orbit(f, d))
         /\ \A S : d \in S /\ ClosedUnder(f, S \cap D) => Orbit(f, d) \subseteq S
<1> DEFINE n == Cardinality(D)
<1>0. /\ n \in Nat
      /\ \E step \in [0..n -> D] :
              /\ step[0] = d /\ \A k \in 1..n : step[k] = f[step[k - 1]]
              /\ Orbit(f, d) = {step[i] : i \in 0..n}
  BY OrbitSteps
<1>1. PICK step \in [0..n -> D] :
              /\ step[0] = d /\ \A k \in 1..n : step[k] = f[step[k - 1]]
              /\ Orbit(f, d) = {step[i] : i \in 0..n}
  BY <1>0
<1>2. IsFiniteSet(0..n) /\ Cardinality(0..n) = n + 1
  BY <1>0, FS_Interval
<1> HIDE DEF n
<1>3. ASSUME NEW k \in 0..n, k < n PROVE step[k + 1] = f[step[k]]
  <2>1. k + 1 \in 1..n /\ (k + 1) - 1 = k
    BY <1>0, <1>3
  <2> QED BY <1>1, <2>1
<1>4. PICK a \in 0..n, b \in 0..n : a < b /\ step[a] = step[b]
  <2>1. n < n + 1
    BY <1>0
  <2>2. PICK x, y \in 0..n : x # y /\ step[x] = step[y]
    BY <1>2, <2>1, FS_PigeonHole DEF n
  <2>3. x < y \/ y < x
    BY <1>0, <2>2
  <2> QED BY <2>2, <2>3
<1> DEFINE m == n - b
<1>5. m \in Nat /\ a + m \in 0..n /\ b + m = n /\ a + m < n
  BY <1>0, <1>4
<1> DEFINE T == {k \in 0..m : step[a + k] = step[b + k]}
<1>6. 0..m \subseteq T
  <2>1. 0 \in T
    BY <1>4, <1>5
  <2>2. ASSUME NEW k \in 0..m, k < m, k \in T PROVE k + 1 \in T
    <3>1. a + k \in 0..n /\ b + k \in 0..n /\ a + k < n /\ b + k < n
      BY <1>0, <1>4, <2>2
    <3>2. step[(a + k) + 1] = f[step[a + k]] /\ step[(b + k) + 1] = f[step[b + k]]
      BY <1>3, <3>1
    <3>3. (a + k) + 1 = a + (k + 1) /\ (b + k) + 1 = b + (k + 1)
      BY <1>0, <1>4, <2>2
    <3> HIDE DEF m
    <3> QED BY <1>5, <2>2, <3>2, <3>3
  <2> HIDE DEF T, m
  <2> QED BY <1>5, <2>1, <2>2, UpTo
<1>7. step[a + m] = step[n]
  BY <1>5, <1>6
<1>8. ClosedUnder(f, Orbit(f, d))
  <2> SUFFICES ASSUME NEW k \in 0..n PROVE f[step[k]] \in {step[i] : i \in 0..n}
    BY <1>1 DEF ClosedUnder
  <2>1. CASE k < n
    BY <1>0, <1>3, <2>1
  <2>2. CASE k = n
    <3>1. f[step[k]] = step[(a + m) + 1] /\ (a + m) + 1 \in 0..n
      BY <1>0, <1>3, <1>5, <1>7, <2>2
    <3> QED BY <3>1
  <2> QED BY <1>0, <2>1, <2>2
<1>9. d \in Orbit(f, d) /\ Orbit(f, d) \subseteq D
  BY <1>0, <1>1
<1>10. ASSUME NEW S, d \in S, ClosedUnder(f, S \cap D) PROVE Orbit(f, d) \subseteq S
  <2> DEFINE V == {k \in 0..n : step[k] \in S}
  <2>1. 0 \in V
    BY <1>0, <1>1, <1>10
  <2>2. ASSUME NEW k \in 0..n, k < n, k \in V PROVE k + 1 \in V
    BY <1>0, <1>3, <1>10, <2>2 DEF ClosedUnder
  <2>3. 0..n \subseteq V
    <3> HIDE DEF V
    <3> QED BY <1>0, <2>1, <2>2, UpTo
  <2> QED BY <1>1, <2>3
<1> QED BY <1>8, <1>9, <1>10

\* Orbits of a permutation are symmetric: they part the darts.
LEMMA OrbitsPart ==
  ASSUME NEW D, NEW f, Permutes(f, D), NEW x \in D, NEW y \in Orbit(f, x)
  PROVE  y \in D /\ x \in Orbit(f, y) /\ Orbit(f, y) = Orbit(f, x)
<1>1. /\ x \in Orbit(f, x) /\ Orbit(f, x) \subseteq D /\ ClosedUnder(f, Orbit(f, x))
      /\ \A S : x \in S /\ ClosedUnder(f, S \cap D) => Orbit(f, x) \subseteq S
  BY OrbitIsLeast DEF Permutes
<1>2. y \in D
  BY <1>1
<1>3. /\ y \in Orbit(f, y) /\ Orbit(f, y) \subseteq D /\ ClosedUnder(f, Orbit(f, y))
      /\ \A S : y \in S /\ ClosedUnder(f, S \cap D) => Orbit(f, y) \subseteq S
  BY <1>2, OrbitIsLeast DEF Permutes
<1>4. x \in Orbit(f, y)
  <2> SUFFICES ASSUME x \notin Orbit(f, y) PROVE FALSE
    OBVIOUS
  <2> DEFINE S == D \ Orbit(f, y)
  <2>1. ClosedUnder(f, S \cap D)
    <3> SUFFICES ASSUME NEW z \in S, f[z] \in Orbit(f, y) PROVE FALSE
      BY DEF ClosedUnder, Permutes
    <3> QED BY <1>3, EnteredFromWithin
  <2> QED BY <1>1, <1>3, <2>1
<1>5. Orbit(f, y) \subseteq Orbit(f, x)
  BY <1>1, <1>3 DEF ClosedUnder
<1>6. Orbit(f, x) \subseteq Orbit(f, y)
  BY <1>1, <1>3, <1>4 DEF ClosedUnder
<1> QED BY <1>2, <1>4, <1>5, <1>6

\* S holds with a dart the other darts of its node and its other direction.
Closed(c, S) == \A x \in S : c[x] \in S /\ -x \in S

\* Every dart of r with what leaves its node next to it and its other direction.
Round(rot, r) == r \cup {rot[x] : x \in r} \cup {-x : x \in r}

\* What Piece stands for: the darts reached after n rounds.
LEMMA PieceRounds ==
  ASSUME NEW D, IsFiniteSet(D), NEW rot \in [D -> D], \A x \in D : -x \in D, NEW d \in D,
         NEW n, n = Cardinality(D)
  PROVE  /\ n \in Nat
         /\ \E reach \in [0..n -> SUBSET D] :
              /\ reach[0] = {d}
              /\ \A k \in 1..n : reach[k] = Round(rot, reach[k - 1])
              /\ Piece(rot, d) = reach[n]
<1> DEFINE G == [x \in (SUBSET D) \X (1..n) |-> Round(rot, x[1])]
<1>1. n \in Nat /\ DOMAIN rot = D
  BY FS_CardinalityType
<1>2. PICK h \in [0..n -> SUBSET D] : Iterates(h, n, {d}, G)
  <2>1. G \in [(SUBSET D) \X (1..n) -> SUBSET D]
    BY DEF Round
  <2> HIDE DEF G
  <2>2. {d} \in SUBSET D
    OBVIOUS
  <2> QED BY <1>1, <2>1, <2>2, Recursion
<1>3. h = [i \in 0..n |-> IF i = 0 THEN {d} ELSE Round(rot, h[i - 1])]
  <2>1. ASSUME NEW k \in 1..n PROVE h[k] = Round(rot, h[k - 1])
    <3>1. k - 1 \in 0..n /\ h[k - 1] \in SUBSET D
      BY <1>1
    <3> QED BY <1>2, <3>1 DEF Iterates
  <2> QED BY <1>1, <1>2, <2>1 DEF Iterates
<1> DEFINE st == CHOOSE g : g = [i \in 0..n |-> IF i = 0 THEN {d} ELSE Round(rot, g[i - 1])]
<1>4. st = [i \in 0..n |-> IF i = 0 THEN {d} ELSE Round(rot, st[i - 1])]
  BY <1>3, Zenon
<1>5. Piece(rot, d) = st[n]
  BY <1>1 DEF Piece, Round
<1> HIDE DEF st
<1> DEFINE S == {k \in 0..n : st[k] \in SUBSET D}
<1>6. st[0] = {d} /\ \A k \in 1..n : st[k] = Round(rot, st[k - 1])
  <2>1. 0 \in 0..n /\ \A k \in 1..n : k \in 0..n /\ k # 0
    BY <1>1
  <2> QED BY <1>4, <2>1, Zenon
<1>7. 0 \in S
  BY <1>1, <1>6
<1>8. ASSUME NEW k \in 0..n, k < n, k \in S PROVE k + 1 \in S
  <2>1. k + 1 \in 1..n /\ (k + 1) - 1 = k
    BY <1>1, <1>8
  <2>2. st[k + 1] = Round(rot, st[k])
    BY <1>6, <2>1
  <2>3. Round(rot, st[k]) \in SUBSET D
    BY <1>8 DEF Round
  <2> QED BY <1>1, <1>8, <2>1, <2>2, <2>3
<1>9. 0..n \subseteq S
  <2> HIDE DEF S
  <2> QED BY <1>1, <1>7, <1>8, UpTo
<1>10. st \in [0..n -> SUBSET D]
  BY <1>4, <1>9
<1> QED BY <1>1, <1>5, <1>6, <1>10

\* Piece(rot, d) is the least closed set with d.
LEMMA PieceIsLeast ==
  ASSUME NEW D, IsFiniteSet(D), NEW rot \in [D -> D], \A x \in D : -x \in D, NEW d \in D
  PROVE  /\ d \in Piece(rot, d) /\ Piece(rot, d) \subseteq D /\ Closed(rot, Piece(rot, d))
         /\ \A S : d \in S /\ Closed(rot, S \cap D) => Piece(rot, d) \subseteq S
<1>n. PICK n : n = Cardinality(D)
  OBVIOUS
<1>0. /\ n \in Nat
      /\ \E reach \in [0..n -> SUBSET D] :
              /\ reach[0] = {d}
              /\ \A k \in 1..n : reach[k] = Round(rot, reach[k - 1])
              /\ Piece(rot, d) = reach[n]
  BY <1>n, PieceRounds
<1>1. PICK reach \in [0..n -> SUBSET D] :
              /\ reach[0] = {d} /\ \A k \in 1..n : reach[k] = Round(rot, reach[k - 1])
              /\ Piece(rot, d) = reach[n]
  BY <1>0
<1>2. \A r \in SUBSET D : r \subseteq Round(rot, r) /\ (Round(rot, r) = r => Closed(rot, r)) /\ (Closed(rot, r) => Round(rot, r) = r)
  BY DEF Closed, Round
<1>3. \A S : \A r \in SUBSET D : r \subseteq S /\ Closed(rot, S \cap D) => Round(rot, r) \subseteq S
  BY DEF Closed, Round
<1>4. ASSUME NEW k \in 0..n, k < n PROVE reach[k + 1] = Round(rot, reach[k]) /\ k + 1 \in 0..n
  <2>1. k + 1 \in 1..n /\ (k + 1) - 1 = k
    BY <1>0, <1>4
  <2> QED BY <1>0, <1>1, <2>1
<1>5. \A k \in 0..n : reach[k] \in SUBSET D /\ IsFiniteSet(reach[k]) /\ Cardinality(reach[k]) \in Nat
  BY FS_Subset, FS_CardinalityType
<1> DEFINE U == {k \in 0..n : Closed(rot, reach[k]) \/ Cardinality(reach[k]) >= k + 1}
<1>6. 0..n \subseteq U
  <2>1. 0 \in U
    <3>1. Cardinality({d}) = 1
      BY FS_Singleton
    <3>2. 0 \in 0..n /\ Cardinality(reach[0]) >= 0 + 1
      BY <1>0, <1>1, <3>1
    <3> QED BY <3>2
  <2>2. ASSUME NEW k \in 0..n, k < n, k \in U PROVE k + 1 \in U
    <3>1. CASE Closed(rot, reach[k])
      BY <1>2, <1>4, <1>5, <2>2, <3>1
    <3>2. CASE ~Closed(rot, reach[k])
      <4>1. reach[k] \subseteq reach[k + 1] /\ reach[k + 1] # reach[k]
        BY <1>2, <1>4, <1>5, <2>2, <3>2
      <4>2. Cardinality(reach[k]) <= Cardinality(reach[k + 1]) /\ Cardinality(reach[k]) # Cardinality(reach[k + 1])
        <5>1. k + 1 \in 0..n /\ IsFiniteSet(reach[k + 1])
          BY <1>4, <1>5, <2>2
        <5> QED BY <4>1, <5>1, FS_Subset
      <4>3. Cardinality(reach[k]) \in Nat /\ Cardinality(reach[k + 1]) \in Nat /\ Cardinality(reach[k]) >= k + 1 /\ k + 1 \in 0..n
        BY <1>4, <1>5, <2>2, <3>2
      <4> QED BY <1>0, <4>2, <4>3
    <3> QED BY <3>1, <3>2
  <2> HIDE DEF U
  <2> QED BY <1>0, <2>1, <2>2, UpTo
<1>7. Closed(rot, reach[n])
  <2>1. Cardinality(reach[n]) <= n
    BY <1>0, <1>1, <1>n, FS_Subset
  <2>2. n \in U /\ Cardinality(reach[n]) \in Nat
    BY <1>0, <1>5, <1>6
  <2> QED BY <1>0, <2>1, <2>2
<1>8. ASSUME NEW S, d \in S, Closed(rot, S \cap D)
      PROVE  \A k \in 0..n : reach[k] \subseteq S
  <2> DEFINE V == {k \in 0..n : reach[k] \subseteq S}
  <2>1. 0 \in V
    BY <1>0, <1>1, <1>8
  <2>2. ASSUME NEW k \in 0..n, k < n, k \in V PROVE k + 1 \in V
    BY <1>3, <1>4, <1>5, <1>8, <2>2
  <2>3. 0..n \subseteq V
    <3> HIDE DEF V
    <3> QED BY <1>0, <2>1, <2>2, UpTo
  <2> QED BY <2>3
<1>9. d \in reach[n]
  <2> DEFINE V == {k \in 0..n : d \in reach[k]}
  <2>1. 0 \in V
    BY <1>0, <1>1
  <2>2. ASSUME NEW k \in 0..n, k < n, k \in V PROVE k + 1 \in V
    BY <1>2, <1>4, <1>5, <2>2
  <2>3. 0..n \subseteq V
    <3> HIDE DEF V
    <3> QED BY <1>0, <2>1, <2>2, UpTo
  <2> QED BY <1>0, <2>3
<1> QED BY <1>0, <1>1, <1>7, <1>8, <1>9

\* The darts of a drawing, and the rotation around their nodes.
Rotates(c, D) == Permutes(c, D) /\ \A x \in D : x \in Int \ {0} /\ -x \in D

\* A set closed under a rotation is closed backwards too, so what is not in it is
\* closed as well.
LEMMA ClosedBackwards ==
  ASSUME NEW c, NEW D, Rotates(c, D), NEW S, S \subseteq D, Closed(c, S)
  PROVE  /\ \A x \in D : (c[x] \in S <=> x \in S) /\ (-x \in S <=> x \in S)
         /\ Closed(c, D \ S)
<1>1. ClosedUnder(c, S) /\ Permutes(c, D)
  BY DEF Closed, ClosedUnder, Rotates
<1>2. \A x \in D : c[x] \in S => x \in S
  BY <1>1, EnteredFromWithin
<1>3. \A x \in D : -x \in S => x \in S
  <2> SUFFICES ASSUME NEW x \in D, -x \in S PROVE x \in S
    OBVIOUS
  <2>1. -(-x) = x
    BY DEF Rotates
  <2> QED BY <2>1 DEF Closed
<1>4. \A x \in D : c[x] \in D /\ -x \in D
  BY DEF Rotates, Permutes
<1> QED BY <1>2, <1>3, <1>4 DEF Closed

\* Walking is a permutation of the darts too.
LEMMA WalkPermutes ==
  ASSUME NEW c, NEW D, Rotates(c, D)
  PROVE  /\ Permutes(Walk(c), D) /\ DOMAIN c = D
         /\ \A x \in D : Walk(c)[x] = c[-x] /\ c[-x] \in D /\ c[x] \in D
<1>1. DOMAIN c = D /\ \A x \in D : -x \in D /\ c[x] \in D /\ -(-x) = x
  BY DEF Rotates, Permutes
<1>2. Walk(c) = [x \in D |-> c[-x]]
  BY <1>1 DEF Walk
<1>3. \A x, y \in D : c[-x] = c[-y] => x = y
  <2> SUFFICES ASSUME NEW x \in D, NEW y \in D, c[-x] = c[-y] PROVE x = y
    OBVIOUS
  <2>1. -x = -y
    BY <1>1 DEF Rotates, Permutes
  <2> QED BY <1>1, <2>1
<1> QED BY <1>1, <1>2, <1>3 DEF Rotates, Permutes

\* A set of rings.
Walked(c, S) == \A x \in S : c[-x] \in S

\* So the rings part the darts: the ring of x is the least set with x that the walk
\* does not leave, and of all of its darts.
LEMMA RingsPart ==
  ASSUME NEW c, NEW D, Rotates(c, D), NEW x \in D, NEW R, R = Orbit(Walk(c), x)
  PROVE  /\ x \in R /\ R \subseteq D
         /\ \A y \in D : c[-y] \in R <=> y \in R
         /\ \A S : x \in S /\ Walked(c, S \cap D) => R \subseteq S
         /\ \A y \in R : Orbit(Walk(c), y) = R
<1>1. /\ Permutes(Walk(c), D) /\ IsFiniteSet(D) /\ Walk(c) \in [D -> D]
      /\ \A y \in D : Walk(c)[y] = c[-y]
  BY WalkPermutes DEF Permutes
<1>2. /\ x \in R /\ R \subseteq D /\ ClosedUnder(Walk(c), R)
      /\ \A S : x \in S /\ ClosedUnder(Walk(c), S \cap D) => R \subseteq S
  BY <1>1, OrbitIsLeast
<1>3. \A y \in D : c[-y] \in R => y \in R
  BY <1>1, <1>2, EnteredFromWithin
<1>4. \A y \in R : Orbit(Walk(c), y) = R
  BY <1>1, OrbitsPart
<1> QED BY <1>1, <1>2, <1>3, <1>4 DEF ClosedUnder, Walked

\* Pieces part the darts as well.
LEMMA PiecesPart ==
  ASSUME NEW c, NEW D, Rotates(c, D), NEW x \in D, NEW T, T = Piece(c, x)
  PROVE  /\ x \in T /\ T \subseteq D /\ Closed(c, T)
         /\ \A S : x \in S /\ Closed(c, S \cap D) => T \subseteq S
         /\ \A y \in T : Piece(c, y) = T
<1>1. IsFiniteSet(D) /\ c \in [D -> D] /\ \A y \in D : -y \in D
  BY DEF Rotates, Permutes
<1>2. /\ x \in T /\ T \subseteq D /\ Closed(c, T)
      /\ \A S : x \in S /\ Closed(c, S \cap D) => T \subseteq S
  BY <1>1, PieceIsLeast
<1>3. ASSUME NEW y \in T PROVE Piece(c, y) = T
  <2>1. /\ y \in Piece(c, y) /\ Piece(c, y) \subseteq D /\ Closed(c, Piece(c, y))
        /\ \A S : y \in S /\ Closed(c, S \cap D) => Piece(c, y) \subseteq S
    BY <1>1, <1>2, PieceIsLeast
  <2>2. Piece(c, y) \subseteq T
    BY <1>2, <2>1 DEF Closed
  <2>3. x \in Piece(c, y)
    <3> SUFFICES ASSUME x \notin Piece(c, y) PROVE FALSE
      OBVIOUS
    <3>1. Closed(c, D \ Piece(c, y))
      BY <2>1, ClosedBackwards
    <3>2. (D \ Piece(c, y)) \cap D = D \ Piece(c, y)
      OBVIOUS
    <3>3. T \subseteq D \ Piece(c, y)
      BY <1>2, <3>1, <3>2
    <3> QED BY <2>1, <3>3
  <2>4. Piece(c, y) \cap D = Piece(c, y)
    BY <2>1
  <2> QED BY <1>2, <2>1, <2>2, <2>3, <2>4
<1> QED BY <1>2, <1>3

-----------------------------------------------------------------------------
(* What every edit does to the drawing: one of four things. *)

\* Curve e is drawn from node s to node t in region f, as g says.
DrawsEdge(e, s, t, p, q, f, g) ==
  /\ s \in Node /\ t \in Node /\ <<p, q>> \in Places(e, s, t, f)
  /\ EndsPlaced(e, s, t, p, q)
  /\ g \in Drawings(e, p, q, f, {s, t}) /\ g.rot = Inserted(e, p, q)
  /\ cw' = Inserted(e, p, q)
  /\ org' = [d \in DOMAIN cw \cup {e, -e} |-> IF d = e THEN s ELSE IF d = -e THEN t ELSE org[d]]

\* Curve e is erased, and leaves region f on what were its two sides.
ErasesEdge(e, f, bare) ==
  /\ e \in Int \ {0} /\ e \in DOMAIN cw /\ -e \in DOMAIN cw
  /\ EraseLine(e, f, bare) /\ cw' = Dropped(e)
  /\ org' = [d \in DOMAIN cw \ {e, -e} |-> org[d]]

\* Curve e is cut at the new node n into i and j.
CutsEdge(e, i, j, n) ==
  /\ Cuts(e, i, j) /\ CutLine(e, i, j) /\ cw' = CutRot(e, i, j) /\ n \notin Node
  /\ org' = [d \in CutDarts(e, i, j) |-> IF d \in {-i, j} THEN n ELSE org[WasCut(e, i, j, d)]]

\* Curves a and b are joined at a node nothing else leaves.
JoinsEdges(a, b, M) ==
  /\ Joins(a, b, M) /\ JoinLines(a, b, M) /\ cw' = JoinRot(a, b, M)
  /\ org[-a] = org[b] /\ \A d \in DOMAIN cw : org[d] \in {org[-a], org[b]} <=> d \in {-a, b}
  /\ org' = [d \in JoinDarts(a, b, M) |-> org[WasJoin(a, b, M, d)]]

\* The tables' darts are the drawing's, which its rotation permutes.
LEMMA DrawingRotates ==
  ASSUME IInv, cw \in [DOMAIN cw -> DOMAIN cw]
  PROVE  /\ Rotates(cw, DOMAIN cw) /\ DOMAIN next = DOMAIN cw
         /\ DOMAIN side = DOMAIN cw /\ DOMAIN org = DOMAIN cw
         /\ \A d \in DOMAIN cw : org[cw[d]] = org[d]
<1>1. DOMAIN next = DOMAIN cw /\ DOMAIN side = DOMAIN cw /\ DOMAIN org = DOMAIN cw
  BY DEF IInv, TypeOK, LinksFollowDrawing
<1>2. DartSet(DOMAIN cw, last.edge) /\ last.edge \in Nat
  BY <1>1, DartsTyped DEF IInv, TypeOK
<1>3. IsFiniteSet(DOMAIN cw)
  <2>0. -last.edge \in Int /\ last.edge \in Int
    BY <1>2
  <2>1. IsFiniteSet((-last.edge)..last.edge)
    BY <2>0, FS_Interval
  <2>2. \A d \in DOMAIN cw : d \in (-last.edge)..last.edge
    BY <1>2 DEF DartSet
  <2> QED BY <2>1, <2>2, FS_Subset
<1>4. /\ \A d \in DOMAIN cw : cw[d] \in DOMAIN cw /\ org[cw[d]] = org[d]
      /\ \A d, x \in DOMAIN cw : cw[d] = cw[x] => d = x
  BY <1>1, LinksAreStar DEF IInv
<1>5. Permutes(cw, DOMAIN cw)
  BY <1>3, <1>4 DEF Permutes
<1>6. \A x \in DOMAIN cw : x \in Int \ {0} /\ -x \in DOMAIN cw
  BY <1>2 DEF DartSet
<1> QED BY <1>1, <1>4, <1>5, <1>6 DEF Rotates

\* lwt_AddIsoEdge and _lwt_AddEdge draw an edge.
LEMMA AddIsoEdgeDraws ==
  ASSUME IInv, AddIsoEdge
  PROVE  \E s, t \in Node : \E g :
           /\ DrawsEdge(last.edge + 1, s, t, 0, 0, isoRegion[s], g)
           /\ DrawLine(last.edge + 1, g, isoRegion[s], 0, 0, {s, t})
           /\ s # t /\ containing[s] = containing[t]
           /\ side' = [d \in DOMAIN cw \cup {last.edge + 1, -(last.edge + 1)} |->
                        IF d \in {last.edge + 1, -(last.edge + 1)} THEN containing[s] ELSE side[d]]
           /\ containing' = [containing EXCEPT ![s] = None, ![t] = None]
           /\ UNCHANGED <<relation, face>>
<1> USE DEF IInv
<1> DEFINE e == last.edge + 1
<1>1. PICK s \in Node, t \in Node :
        /\ s # t
        /\ containing[s] # None
        /\ containing[s] = containing[t]
        /\ side' = [d \in DOMAIN side \cup {e, -e} |->
                      IF d \in {e, -e} THEN containing[s] ELSE side[d]]
        /\ org' = [d \in DOMAIN org \cup {e, -e} |->
                     IF d = e THEN s ELSE IF d = -e THEN t ELSE org[d]]
        /\ containing' = [containing EXCEPT ![s] = None, ![t] = None]
        /\ \E g \in DrawingsBetween(e, s, t, isoRegion[s]) :
             DrawLine(e, g, isoRegion[s], 0, 0, {s, t})
        /\ UNCHANGED <<relation, face>>
  BY DEF AddIsoEdge
<1> DEFINE f == isoRegion[s]
<1>2. PICK g \in DrawingsBetween(e, s, t, f) : DrawLine(e, g, f, 0, 0, {s, t})
  BY <1>1
<1>3. /\ e \in Int \ {0} /\ e \notin DOMAIN next /\ -e \notin DOMAIN next
  BY FreshDarts DEF TypeOK
<1>4. DOMAIN next = DOMAIN cw /\ DOMAIN org = DOMAIN next /\ DOMAIN side = DOMAIN next
  BY DEF TypeOK, LinksFollowDrawing
<1> HIDE DEF e, f
<1>5. PICK pq \in Places(e, s, t, f) : g \in Drawings(e, pq[1], pq[2], f, {s, t})
  BY DEF DrawingsBetween
<1>6. Leaving(s) = {} /\ Leaving(t) = {}
  BY <1>1 DEF IsolatedNodesBare
<1>7. pq = <<0, 0>> /\ pq[1] = 0 /\ pq[2] = 0
  BY <1>1, <1>5, <1>6 DEF Places, Sectors
<1>8. <<0, 0>> \in Places(e, s, t, f) /\ g \in Drawings(e, 0, 0, f, {s, t})
  BY <1>5, <1>7
<1>9. EndsPlaced(e, s, t, 0, 0)
  BY <1>3, <1>8, PlacesArePlaced
<1>10. g.rot = Inserted(e, 0, 0)
  <2>1. g.rot = InsertEdge(cw, e, 0, 0)
    BY <1>8 DEF Drawings
  <2> QED BY <1>9, <2>1, InsertEdgeValue DEF EndsPlaced
<1>11. DrawsEdge(e, s, t, 0, 0, f, g)
  <2>1. cw' = g.rot
    BY <1>2 DEF DrawLine
  <2> QED BY <1>1, <1>4, <1>8, <1>9, <1>10, <2>1 DEF DrawsEdge
<1> QED BY <1>1, <1>2, <1>4, <1>11 DEF e, f

\* _lwt_AddEdge draws its curve between the nodes it was asked for.
LEMMA AddEdgeDraws ==
  ASSUME NEW modFace, IInv, AddEdge(modFace)
  PROVE  \E s, t \in Node, f \in face \cup {0} : \E p, q, g :
           /\ DrawsEdge(last.edge + 1, s, t, p, q, f, g)
           /\ AddEdgeAs(last.edge + 1, s, t, f, g, modFace)
<1> USE DEF IInv
<1> DEFINE e == last.edge + 1
<1>1. PICK s \in Node, t \in Node, f \in face \cup {0} :
        \E g \in DrawingsBetween(e, s, t, f) : AddEdgeAs(e, s, t, f, g, modFace)
  BY DEF AddEdge
<1>2. PICK g \in DrawingsBetween(e, s, t, f) : AddEdgeAs(e, s, t, f, g, modFace)
  BY <1>1
<1>3. /\ e \in Int \ {0} /\ e \notin DOMAIN next /\ -e \notin DOMAIN next
  BY FreshDarts DEF TypeOK
<1>4. DOMAIN next = DOMAIN cw /\ DOMAIN org = DOMAIN next
  BY DEF TypeOK, LinksFollowDrawing
<1> HIDE DEF e
<1>5. PICK pq \in Places(e, s, t, f) : g \in Drawings(e, pq[1], pq[2], f, {s, t})
  BY DEF DrawingsBetween
<1>6. PICK p, q : pq = <<p, q>> /\ pq[1] = p /\ pq[2] = q
  BY DEF Places
<1>7. <<p, q>> \in Places(e, s, t, f) /\ g \in Drawings(e, p, q, f, {s, t})
  BY <1>5, <1>6
<1>8. EndsPlaced(e, s, t, p, q)
  BY <1>3, <1>7, PlacesArePlaced
<1>9. g.rot = Inserted(e, p, q)
  <2>1. g.rot = InsertEdge(cw, e, p, q)
    BY <1>7 DEF Drawings
  <2> QED BY <1>8, <2>1, InsertEdgeValue DEF EndsPlaced
<1>10. cw' = g.rot
  BY <1>2 DEF AddEdgeAs, DrawLine
<1>11. org' = [d \in DOMAIN cw \cup {e, -e} |-> IF d = e THEN s ELSE IF d = -e THEN t ELSE org[d]]
  BY <1>2, <1>4 DEF AddEdgeAs
<1>12. DrawsEdge(e, s, t, p, q, f, g)
  BY <1>7, <1>8, <1>9, <1>10, <1>11 DEF DrawsEdge
<1> QED BY <1>2, <1>12 DEF e

\* lwt_RemIsoEdge and _lwt_RemEdge erase one.
LEMMA RemIsoEdgeErases ==
  ASSUME IInv, RemIsoEdge
  PROVE  \E e \in Edge : /\ ErasesEdge(e, region[e], {org[e], org[-e]})
                         /\ side[e] = side[-e]
                         /\ Leaving(org[e]) \cup Leaving(org[-e]) \subseteq {e, -e}
                         /\ side' = [d \in DOMAIN cw \ {e, -e} |-> side[d]]
                         /\ containing' = [n \in Node |-> IF n \in {org[e], org[-e]} THEN side[e]
                                                         ELSE containing[n]]
                         /\ UNCHANGED <<relation, face>>
<1> USE DEF IInv
<1>1. PICK e \in Edge :
        /\ side[e] = side[-e]
        /\ Leaving(org[e]) \cup Leaving(org[-e]) \subseteq {e, -e}
        /\ side' = [d \in DOMAIN side \ {e, -e} |-> side[d]]
        /\ org' = [d \in DOMAIN org \ {e, -e} |-> org[d]]
        /\ containing' = [n \in Node |-> IF n \in {org[e], org[-e]} THEN side[e] ELSE containing[n]]
        /\ EraseLine(e, region[e], {org[e], org[-e]})
        /\ UNCHANGED <<relation, face>>
  BY DEF RemIsoEdge
<1>2. DOMAIN next = DOMAIN cw /\ DOMAIN org = DOMAIN next /\ DOMAIN side = DOMAIN next
  BY DEF TypeOK, LinksFollowDrawing
<1>3. e \in Int \ {0} /\ e \in DOMAIN cw /\ -e \in DOMAIN cw
  BY <1>2, EdgeDarts
<1>4. cw' = Dropped(e)
  BY <1>1, DropEdgeValue DEF EraseLine
<1> QED BY <1>1, <1>2, <1>3, <1>4 DEF ErasesEdge

\* What _lwt_RemEdge makes of the faces on the two sides of edge e: the one that
\* covers both, and those that go.
Flood(e, modFace) ==
  IF side[e] # side[-e] /\ 0 \in {side[e], side[-e]} THEN 0
  ELSE IF side[e] # side[-e] /\ ~modFace THEN last.face + 1 ELSE side[-e]
Vanished(e, modFace) ==
  IF side[e] # side[-e] THEN {side[e], side[-e]} \ {Flood(e, modFace)} ELSE {}

\* _lwt_RemEdge erases a curve; the nodes it strands are those nothing else leaves.
LEMMA RemEdgeErases ==
  ASSUME NEW modFace, IInv, RemEdge(modFace)
  PROVE  \E e \in Edge :
           LET flood == Flood(e, modFace)
               gone == Vanished(e, modFace)
               joins == side[e] # side[-e]
           IN  /\ ErasesEdge(e, flood, Stranded(e))
               /\ checkTopoGeomRemEdge(e, side[e], side[-e])
               /\ side' = [d \in DOMAIN cw \ {e, -e} |-> IF side[d] \in gone THEN flood ELSE side[d]]
               /\ containing' = [n \in Node |-> IF n \in Stranded(e) THEN flood
                                                ELSE IF containing[n] \in gone THEN flood
                                                ELSE containing[n]]
               /\ face' = (face \cup (IF joins /\ 0 \notin {side[e], side[-e]} /\ ~modFace
                                      THEN {flood} ELSE {})) \ gone
               /\ relation' = IF joins THEN updateTopoGeomFaceHeal(side[-e], side[e], flood) ELSE relation
<1> USE DEF IInv
<1>1. PICK e \in Edge :
    LET left == side[e]
        right == side[-e]
        joins == left # right
        fresh == joins /\ 0 \notin {left, right} /\ ~modFace
        flood == IF joins /\ 0 \in {left, right} THEN 0
                 ELSE IF fresh THEN last.face + 1 ELSE right
        vanished == IF joins THEN {left, right} \ {flood} ELSE {}
        flooded(f) == IF f \in vanished THEN flood ELSE f
        D == DOMAIN next \ {e, -e}
        bare == Stranded(e)
    IN
    /\ checkTopoGeomRemEdge(e, left, right)
    /\ side' = [d \in D |-> flooded(side[d])]
    /\ org' = [d \in D |-> org[d]]
    /\ containing' = [n \in Node |-> IF n \in bare THEN flood ELSE flooded(containing[n])]
    /\ face' = (face \cup (IF fresh THEN {flood} ELSE {})) \ vanished
    /\ relation' = IF joins THEN updateTopoGeomFaceHeal(right, left, flood) ELSE relation
    /\ EraseLine(e, flood, bare)
  BY DEF RemEdge
<1> DEFINE flood == Flood(e, modFace)
           gone == Vanished(e, modFace)
           joins == side[e] # side[-e]
           fresh == joins /\ 0 \notin {side[e], side[-e]} /\ ~modFace
<1>2. /\ flood = IF joins /\ 0 \in {side[e], side[-e]} THEN 0
                 ELSE IF fresh THEN last.face + 1 ELSE side[-e]
      /\ gone = IF joins THEN {side[e], side[-e]} \ {flood} ELSE {}
  BY DEF Flood, Vanished
<1> HIDE DEF flood, gone
<1>3. /\ checkTopoGeomRemEdge(e, side[e], side[-e])
      /\ side' = [d \in DOMAIN next \ {e, -e} |-> IF side[d] \in gone THEN flood ELSE side[d]]
      /\ org' = [d \in DOMAIN next \ {e, -e} |-> org[d]]
      /\ containing' = [n \in Node |-> IF n \in Stranded(e) THEN flood
                                       ELSE IF containing[n] \in gone THEN flood
                                       ELSE containing[n]]
      /\ face' = (face \cup (IF fresh THEN {flood} ELSE {})) \ gone
      /\ relation' = IF joins THEN updateTopoGeomFaceHeal(side[-e], side[e], flood) ELSE relation
      /\ EraseLine(e, flood, Stranded(e))
  BY <1>1, <1>2
<1>4. DOMAIN next = DOMAIN cw
  BY DEF LinksFollowDrawing
<1>5. e \in Int \ {0} /\ e \in DOMAIN cw /\ -e \in DOMAIN cw
  BY <1>4, EdgeDarts
<1>6. cw' = Dropped(e)
  BY <1>3, DropEdgeValue DEF EraseLine
<1>7. ErasesEdge(e, flood, Stranded(e))
  BY <1>3, <1>4, <1>5, <1>6 DEF ErasesEdge
<1> QED BY <1>3, <1>4, <1>7 DEF flood, gone

\* lwt_ModEdgeSplit and lwt_NewEdgesSplit cut a curve, and both halves keep its faces.
LEMMA ModEdgeSplitCuts ==
  ASSUME IInv, ModEdgeSplit
  PROVE  \E e \in Edge :
           LET j == last.edge + 1
               n == last.node + 1
           IN  /\ CutsEdge(e, e, j, n)
               /\ side' = [d \in CutDarts(e, e, j) |-> side[WasCut(e, e, j, d)]]
               /\ containing' = [m \in Node \cup {n} |-> IF m = n THEN None ELSE containing[m]]
               /\ relation' = updateTopoGeomEdgeSplit(e, j, -1)
               /\ UNCHANGED face
<1> USE DEF IInv
<1> DEFINE n == last.node + 1
           j == last.edge + 1
           D == DOMAIN next \cup {j, -j}
<1>1. PICK e \in Edge :
        /\ containing' = [m \in Node \cup {n} |-> IF m = n THEN None ELSE containing[m]]
        /\ side' = [d \in D |-> IF d = j THEN side[e] ELSE IF d = -j THEN side[-e] ELSE side[d]]
        /\ org' = [d \in D |-> IF d \in {j, -e} THEN n ELSE IF d = -j THEN org[-e] ELSE org[d]]
        /\ relation' = updateTopoGeomEdgeSplit(e, j, -1)
        /\ CutLine(e, e, j)
        /\ UNCHANGED face
  BY DEF ModEdgeSplit
<1>2. /\ e \in Int /\ e # 0 /\ e # -e
      /\ e \in DOMAIN next /\ -e \in DOMAIN next
  BY EdgeDarts
<1>3. /\ j \in Int \ {0} /\ j # -j
      /\ j \notin DOMAIN next /\ -j \notin DOMAIN next
  BY FreshDarts DEF TypeOK
<1>4. DOMAIN next = DOMAIN cw /\ DOMAIN org = DOMAIN next /\ DOMAIN side = DOMAIN next
  BY DEF TypeOK, LinksFollowDrawing
<1>5. n \notin Node
  BY DEF TypeOK
<1>6. D = CutDarts(e, e, j) /\ Cuts(e, e, j)
  BY <1>2, <1>3, <1>4 DEF CutDarts, Cuts
<1>7. cw' = CutRot(e, e, j)
  BY <1>1, CutLineValue
<1> HIDE DEF n, j, D
<1>8. \A d \in D : /\ side'[d] = side[WasCut(e, e, j, d)]
                   /\ org'[d] = IF d \in {-e, j} THEN n ELSE org[WasCut(e, e, j, d)]
  BY <1>1, <1>2, <1>3, <1>4 DEF WasCut
<1>9. /\ side' = [d \in CutDarts(e, e, j) |-> side[WasCut(e, e, j, d)]]
      /\ org' = [d \in CutDarts(e, e, j) |-> IF d \in {-e, j} THEN n ELSE org[WasCut(e, e, j, d)]]
  BY <1>1, <1>6, <1>8
<1> QED BY <1>1, <1>5, <1>6, <1>7, <1>9 DEF CutsEdge, n, j

\* lwt_NewEdgesSplit: the same with two new ids.
LEMMA NewEdgesSplitCuts ==
  ASSUME IInv, NewEdgesSplit
  PROVE  \E e \in Edge :
           LET i == last.edge + 1
               j == last.edge + 2
               n == last.node + 1
           IN  /\ CutsEdge(e, i, j, n)
               /\ side' = [d \in CutDarts(e, i, j) |-> side[WasCut(e, i, j, d)]]
               /\ containing' = [m \in Node \cup {n} |-> IF m = n THEN None ELSE containing[m]]
               /\ relation' = updateTopoGeomEdgeSplit(e, i, j)
               /\ UNCHANGED face
<1> USE DEF IInv
<1> DEFINE n == last.node + 1
           i == last.edge + 1
           j == last.edge + 2
<1>1. PICK e \in Edge :
        /\ containing' = [m \in Node \cup {n} |-> IF m = n THEN None ELSE containing[m]]
        /\ side' = [d \in CutDarts(e, i, j) |-> side[WasCut(e, i, j, d)]]
        /\ org' = [d \in CutDarts(e, i, j) |->
                     IF d \in {-i, j} THEN n ELSE org[WasCut(e, i, j, d)]]
        /\ relation' = updateTopoGeomEdgeSplit(e, i, j)
        /\ CutLine(e, i, j)
        /\ UNCHANGED face
  BY DEF NewEdgesSplit, CutDarts, WasCut, LinksFollowDrawing
<1>2. /\ e \in Int /\ e # 0 /\ e # -e
      /\ e \in DOMAIN next /\ -e \in DOMAIN next /\ last.edge \in Nat
  BY EdgeDarts
<1>3. /\ i \in Int \ {0} /\ i # -i /\ i \notin DOMAIN next /\ -i \notin DOMAIN next
      /\ j \in Int \ {0} /\ j # -j /\ j \notin DOMAIN next /\ -j \notin DOMAIN next
      /\ i # j /\ i # -j
  BY <1>2, FreshDarts
<1>4. DOMAIN next = DOMAIN cw
  BY DEF LinksFollowDrawing
<1>5. n \notin Node
  BY DEF TypeOK
<1>6. Cuts(e, i, j)
  BY <1>2, <1>3, <1>4 DEF Cuts
<1>7. cw' = CutRot(e, i, j)
  BY <1>1, CutLineValue
<1> HIDE DEF n, i, j
<1> QED BY <1>1, <1>5, <1>6, <1>7 DEF CutsEdge, n, i, j

\* Edges e1 and e2 are healed into edge m: dart a arrives at node n, which goes
\* away, dart b leaves it, and both become dart M.
HealsInto(e1, e2, m, a, b, M, n) ==
  /\ JoinsEdges(a, b, M)
  /\ {a, -a} = {e1, -e1} /\ {b, -b} = {e2, -e2} /\ {M, -M} = {m, -m}
  /\ M = m <=> a = e1
  /\ side' = [d \in JoinDarts(a, b, M) |-> IF d = M THEN side[a]
                                           ELSE IF d = -M THEN side[-a] ELSE side[d]]
  /\ n = org[b] /\ containing' = [k \in Node \ {n} |-> containing[k]]
  /\ checkTopoGeomRemNode(n, e1, e2)
  /\ relation' = updateTopoGeomEdgeHeal(e1, e2, m)
  /\ Inherit(Node \ {n}, [k \in (Edge \ {e1, e2}) \cup {m} |-> IF k = m THEN e1 ELSE k],
             [d \in JoinDarts(a, b, M) |-> IF d = M THEN a ELSE IF d = -M THEN -a ELSE d])
  /\ UNCHANGED face

\* _lwt_HealEdges joins two curves, in either mode and each of its four cases.
LEMMA HealEdgesJoins ==
  ASSUME NEW modEdge \in BOOLEAN, IInv, HealEdges(modEdge)
  PROVE  \E e1, e2 \in Edge, n \in Node : \E a, b, M :
           HealsInto(e1, e2, IF modEdge THEN e1 ELSE last.edge + 1, a, b, M, n)
<1> USE DEF IInv
<1>1. PICK e1 \in Edge, e2 \in Edge : \E c \in HealChoice(e1, e2) : HealMeeting(e1, e2, c, modEdge)
  BY DEF HealEdges
<1>0. PICK c \in HealChoice(e1, e2) : HealMeeting(e1, e2, c, modEdge)
  BY <1>1
<1> DEFINE m == IF modEdge THEN e1 ELSE last.edge + 1
           gone == IF modEdge THEN {e2} ELSE {e1, e2}
           D == (DOMAIN next \ Darts(gone)) \cup {m, -m}
<1>2. /\ e1 \in Int /\ e1 # 0 /\ e1 # -e1 /\ e1 \in DOMAIN next /\ -e1 \in DOMAIN next
      /\ e2 \in Int /\ e2 # 0 /\ e2 # -e2 /\ e2 \in DOMAIN next /\ -e2 \in DOMAIN next
      /\ DartSet(DOMAIN next, last.edge) /\ last.edge \in Nat /\ e1 > 0 /\ e2 > 0
      /\ e1 <= last.edge
  <2>1. \A x \in Edge : x > 0
    BY DEF TypeOK
  <2> QED BY <2>1, EdgeDarts
<1>3. /\ m \in Int \ {0} /\ m # -m /\ m > 0 /\ m <= last'.edge /\ last'.edge \in Nat /\ last'.edge >= last.edge
      /\ m = e1 \/ (m \notin DOMAIN next /\ -m \notin DOMAIN next)
  <2>1. last \in [node : Nat, edge : Nat, face : Nat]
    BY DEF TypeOK
  <2>2. CASE modEdge
    <3>1. last' = last
      BY <1>0, <2>2 DEF HealMeeting
    <3>2. m = e1
      BY <2>2
    <3> HIDE DEF m
    <3>3. m \in Int \ {0} /\ m # -m /\ m > 0 /\ m <= last.edge
      BY <1>2, <3>2
    <3>4. last'.edge \in Nat /\ last'.edge >= last.edge /\ m <= last'.edge
      BY <1>2, <3>1, <3>3
    <3> QED BY <2>1, <3>1, <3>2, <3>3, <3>4
  <2>3. CASE ~modEdge
    <3>1. last' = [last EXCEPT !.edge = @ + 1]
      BY <1>0, <2>3 DEF HealMeeting, Fresh
    <3>2. m = last.edge + 1 /\ m \notin DOMAIN next /\ -m \notin DOMAIN next
      BY <1>2, <2>3, FreshDarts
    <3> QED BY <1>2, <2>1, <3>1, <3>2
  <2> QED BY <2>2, <2>3
<1>4. DOMAIN next = DOMAIN cw /\ DOMAIN org = DOMAIN next /\ DOMAIN side = DOMAIN next
  BY DEF TypeOK, LinksFollowDrawing
<1>5. /\ side' = [d \in D |-> IF d = m THEN side[e1] ELSE IF d = -m THEN side[-e1] ELSE side[d]]
      /\ org' = [d \in D |-> IF d = m THEN org[c.from] ELSE IF d = -m THEN org[c.to] ELSE org[d]]
      /\ containing' = [n \in Node \ {c.at} |-> containing[n]]
      /\ relation' = updateTopoGeomEdgeHeal(e1, e2, m)
      /\ JoinLines(c.free1 * e1, c.free1 * c.dir * e2, c.free1 * m)
      /\ Inherit(Node \ {c.at}, [k \in (Edge \ gone) \cup {m} |-> IF k = m THEN e1 ELSE k],
                 [d \in D |-> IF d = m THEN e1 ELSE IF d = -m THEN -e1 ELSE d])
      /\ UNCHANGED face
  BY <1>0 DEF HealMeeting
<1>51. (Edge \ gone) \cup {m} = (Edge \ {e1, e2}) \cup {m}
  <2>1. CASE modEdge
    BY <2>1
  <2>2. CASE ~modEdge
    BY <2>2
  <2> QED BY <2>1, <2>2
<1>6. e1 # e2 /\ org[e1] # org[-e1] /\ org[e2] # org[-e2]
  BY <1>0 DEF HealMeeting
<1>7. modEdge => m = e1
  OBVIOUS
<1>8. D = (DOMAIN next \ {e1, -e1, e2, -e2}) \cup {m, -m}
  BY <1>2 DEF Darts
<1> HIDE DEF m, D
<1> DEFINE a == c.free1 * e1
           b == c.free1 * c.dir * e2
           M == c.free1 * m
<1>9. /\ \/ a = e1 /\ M = m /\ c.left = b /\ c.right = -a /\ c.from = a /\ c.to = -b
         \/ a = -e1 /\ M = -m /\ c.left = -a /\ c.right = b /\ c.from = -b /\ c.to = a
      /\ b \in {e2, -e2} /\ c.free2 * e2 = -b
      /\ c.free2 * m * c.dir = -M
      /\ c.at = org[-a] /\ c.at = org[b]
      /\ Leaving(c.at) \subseteq {e1, -e1, e2, -e2}
  BY <1>3, HealChoiceCases
<1>10. JoinLines(a, b, M)
  BY <1>5, <1>9
<1> HIDE DEF a, b, M
<1>11. /\ M \in Int /\ {M, -M} = {m, -m} /\ {a, -a} = {e1, -e1} /\ {b, -b} = {e2, -e2}
       /\ a \in Int /\ b \in Int /\ (modEdge => M = a)
  BY <1>2, <1>3, <1>7, <1>9
<1>12. Joins(a, b, M) /\ JoinDarts(a, b, M) = D
  <2>1. a # b /\ a # -b
    BY <1>2, <1>6, <1>9
  <2>2. M = a \/ (M \notin DOMAIN cw /\ -M \notin DOMAIN cw)
    BY <1>2, <1>3, <1>4, <1>9
  <2>3. a # 0 /\ b # 0 /\ M # 0
    BY <1>2, <1>3, <1>9
  <2>4. a \in DOMAIN cw /\ -a \in DOMAIN cw /\ b \in DOMAIN cw /\ -b \in DOMAIN cw
    BY <1>2, <1>4, <1>9
  <2>5. Joins(a, b, M)
    <3>1. a \in Int /\ b \in Int /\ M \in Int
      BY <1>11
    <3> QED BY <2>1, <2>2, <2>3, <2>4, <3>1 DEF Joins
  <2>6. {a, -a, b, -b} = {e1, -e1, e2, -e2}
    BY <1>11
  <2>7. JoinDarts(a, b, M) = (DOMAIN cw \ {e1, -e1, e2, -e2}) \cup {m, -m}
    BY <1>11, <2>6 DEF JoinDarts
  <2> QED BY <1>4, <1>8, <2>5, <2>7
<1>13. /\ org' = [d \in D |-> org[WasJoin(a, b, M, d)]]
       /\ side' = [d \in D |-> IF d = M THEN side[a] ELSE IF d = -M THEN side[-a] ELSE side[d]]
  <2>1. \A d \in D : org'[d] = org[WasJoin(a, b, M, d)]
    BY <1>3, <1>5, <1>9, <1>11 DEF WasJoin
  <2>2. \A d \in D : side'[d] = IF d = M THEN side[a] ELSE IF d = -M THEN side[-a] ELSE side[d]
    <3>1. -(-e1) = e1 /\ -(-m) = m
      BY <1>2, <1>3
    <3> QED BY <1>3, <1>5, <1>9, <3>1
  <2> QED BY <1>5, <2>1, <2>2
<1>14. cw' = JoinRot(a, b, M)
  BY <1>10, JoinLinesValue
<1>17. \A d \in DOMAIN next : org[d] = c.at => d \in {-a, b}
  <2>1. ASSUME NEW d \in DOMAIN next, org[d] = c.at PROVE d \in {-a, b}
    <3>1. d \in {a, -a, b, -b}
      BY <1>4, <1>9, <1>11, <2>1 DEF Leaving
    <3>2. org[a] # org[-a]
      <4>1. CASE a = e1
        BY <1>6, <4>1
      <4>2. CASE a = -e1
        <5>1. -a = e1
          BY <1>2, <4>2
        <5> QED BY <1>6, <4>2, <5>1
      <4> QED BY <1>9, <4>1, <4>2
    <3>3. org[b] # org[-b]
      <4>1. CASE b = e2
        BY <1>6, <4>1
      <4>2. CASE b = -e2
        <5>1. -b = e2
          BY <1>2, <4>2
        <5> QED BY <1>6, <4>2, <5>1
      <4> QED BY <1>9, <4>1, <4>2
    <3> QED BY <1>9, <2>1, <3>1, <3>2, <3>3
  <2> QED BY <2>1
<1>18. c.at \in Node /\ c.at = org[b] /\ c.at = org[-a]
  BY <1>4, <1>9, <1>12 DEF TypeOK, Joins
<1>19. JoinsEdges(a, b, M)
  <2>1. \A d \in DOMAIN cw : org[d] \in {org[-a], org[b]} <=> d \in {-a, b}
    BY <1>4, <1>17, <1>18
  <2> QED BY <1>10, <1>12, <1>13, <1>14, <1>18, <2>1 DEF JoinsEdges
<1>20. M = m <=> a = e1
  BY <1>2, <1>3, <1>9
<1>21. checkTopoGeomRemNode(c.at, e1, e2)
  BY <1>0 DEF HealMeeting
<1>211. Inherit(Node \ {c.at}, [k \in (Edge \ {e1, e2}) \cup {m} |-> IF k = m THEN e1 ELSE k],
                [d \in JoinDarts(a, b, M) |-> IF d = M THEN a ELSE IF d = -M THEN -a ELSE d])
  <2> DEFINE lineWas == [k \in (Edge \ gone) \cup {m} |-> IF k = m THEN e1 ELSE k]
             dartWas == [d \in D |-> IF d = m THEN e1 ELSE IF d = -m THEN -e1 ELSE d]
  <2>1. lineWas = [k \in (Edge \ {e1, e2}) \cup {m} |-> IF k = m THEN e1 ELSE k]
    BY <1>51
  <2>2. dartWas = [d \in JoinDarts(a, b, M) |-> IF d = M THEN a ELSE IF d = -M THEN -a ELSE d]
    <3>1. -(-e1) = e1 /\ -(-m) = m /\ m # -m
      BY <1>2, <1>3
    <3>2. \A d \in D : (IF d = m THEN e1 ELSE IF d = -m THEN -e1 ELSE d) =
                        (IF d = M THEN a ELSE IF d = -M THEN -a ELSE d)
      BY <1>9, <3>1
    <3> QED BY <1>12, <3>2
  <2>3. Inherit(Node \ {c.at}, lineWas, dartWas)
    BY <1>5
  <2> HIDE DEF lineWas, dartWas
  <2> QED BY <2>1, <2>2, <2>3
<1>22. HealsInto(e1, e2, m, a, b, M, c.at)
  BY <1>5, <1>11, <1>12, <1>13, <1>18, <1>19, <1>20, <1>21, <1>211 DEF HealsInto
<1> QED BY <1>18, <1>22 DEF m

-----------------------------------------------------------------------------
(* The darts of one node are one turn of the rotation. *)

\* What the rotation does not leave holds with a dart every dart of its node.
OneTurn(c, at) ==
  \A S \in SUBSET DOMAIN c : ClosedUnder(c, S) =>
    \A x \in S, y \in DOMAIN c : at[x] = at[y] => y \in S

\* A new curve's ends are put into the turns of the nodes it joins.
LEMMA DrawnTurns ==
  ASSUME IInv, cw \in [DOMAIN cw -> DOMAIN cw], OneTurn(cw, org),
         NEW e, NEW s, NEW t, NEW p, NEW q, EndsPlaced(e, s, t, p, q),
         NEW at, at = [d \in DOMAIN cw \cup {e, -e} |-> IF d = e THEN s ELSE IF d = -e THEN t ELSE org[d]],
         NEW b, b = Inserted(e, p, q), Permutes(b, DOMAIN cw \cup {e, -e})
  PROVE  OneTurn(b, at)
<1> DEFINE D == DOMAIN cw
           F == D \cup {e, -e}
<1>1. /\ e \in Int \ {0} /\ e # -e /\ e \notin D /\ -e \notin D
      /\ p \in D \cup {0} /\ q \in D \cup {0, e} /\ 0 \notin D
      /\ DOMAIN b = F
      /\ \A x \in F : b[x] = After(e, p, q, x)
  BY DEF EndsPlaced, Placed, Inserted
<1>2. /\ at[e] = s /\ at[-e] = t /\ \A d \in D : at[d] = org[d]
  BY <1>1
<1>3. DOMAIN org = D /\ \A x \in D : cw[x] \in D
  BY DrawingRotates
<1> SUFFICES ASSUME NEW S \in SUBSET F, ClosedUnder(b, S), NEW x \in S, NEW y \in F, at[x] = at[y]
             PROVE  y \in S
  BY <1>1 DEF OneTurn
<1>4. ClosedUnder(cw, S \cap D)
  <2> SUFFICES ASSUME NEW z \in S \cap D PROVE cw[z] \in S
    BY <1>3 DEF ClosedUnder
  <2>1. \A w \in S : b[w] \in S /\ b[w] = After(e, p, q, w)
    BY <1>1 DEF ClosedUnder
  <2>2. CASE z # p /\ z # q
    BY <1>1, <2>1, <2>2 DEF After
  <2>3. CASE z = q
    <3>1. -e \in S
      BY <1>1, <2>1, <2>3 DEF After
    <3>2. CASE p = q
      <4>1. e \in S
        BY <1>1, <2>1, <2>3, <3>1, <3>2 DEF After
      <4> QED BY <1>1, <2>1, <2>3, <3>2, <4>1 DEF After
    <3>3. CASE p # q
      BY <1>1, <2>1, <2>3, <3>1, <3>3 DEF After
    <3> QED BY <3>2, <3>3
  <2>4. CASE z = p /\ z # q
    <3>1. e \in S
      BY <1>1, <2>1, <2>4 DEF After
    <3>2. CASE q = e
      <4>1. -e \in S
        BY <1>1, <2>1, <3>1, <3>2 DEF After
      <4> QED BY <1>1, <2>1, <2>4, <3>2, <4>1 DEF After
    <3>3. CASE q # e
      BY <1>1, <2>1, <2>4, <3>1, <3>3 DEF After
    <3> QED BY <3>2, <3>3
  <2> QED BY <2>2, <2>3, <2>4
<1>5. \A z \in F : After(e, p, q, z) \in S <=> z \in S
  BY <1>1, EnteredFromWithin DEF ClosedUnder
<1>6. p # 0 => (e \in S <=> p \in S)
  <2> HAVE p # 0
  <2>1. CASE p # q
    BY <1>1, <1>5, <2>1 DEF After
  <2>2. CASE p = q
    <3>1. After(e, p, q, p) = -e /\ After(e, p, q, -e) = e
      BY <1>1, <2>2 DEF After
    <3> QED BY <1>1, <1>5, <3>1
  <2> QED BY <2>1, <2>2
<1>7. q # 0 => (-e \in S <=> q \in S)
  <2> HAVE q # 0
  <2>1. After(e, p, q, q) = -e /\ q \in F
    BY <1>1 DEF After
  <2> QED BY <1>5, <2>1
<1>8. \A v, w \in D : v \in S /\ org[v] = org[w] => w \in S
  <2>1. S \cap D \in SUBSET DOMAIN cw
    OBVIOUS
  <2> QED BY <1>4, <2>1 DEF OneTurn
<1>9. /\ \A w \in D : org[w] = s => p # 0 /\ org[p] = s /\ p \in D
      /\ \A w \in D : org[w] = t => q # 0 /\ (q \in D => org[q] = t) /\ (q = e => s = t)
      /\ p # 0 => org[p] = s
      /\ s = t => q # 0 /\ (p = 0 => q = e)
      /\ q \notin {0, e} => org[q] = t
  BY <1>1, <1>3 DEF EndsPlaced, Leaving
<1>10. CASE x \in D /\ y \in D
  BY <1>2, <1>8, <1>10
<1>11. ASSUME NEW w \in D, org[w] = s PROVE w \in S <=> e \in S
  BY <1>6, <1>8, <1>9, <1>11
<1>12. ASSUME NEW w \in D, org[w] = t PROVE w \in S <=> -e \in S
  BY <1>1, <1>7, <1>8, <1>9, <1>11, <1>12
<1>13. s = t => (e \in S <=> -e \in S)
  <2> HAVE s = t
  <2>1. CASE q = e
    BY <1>7, <1>9, <2>1
  <2>2. CASE q # e
    <3>1. q \in D /\ p \in D /\ org[q] = org[p]
      BY <1>1, <1>9, <2>2
    <3> QED BY <1>6, <1>7, <1>8, <1>9, <3>1
  <2> QED BY <2>1, <2>2
<1> QED BY <1>1, <1>2, <1>10, <1>11, <1>12, <1>13

\* An erased curve's ends are taken out of theirs.
LEMMA ErasedTurns ==
  ASSUME Permutes(cw, DOMAIN cw), OneTurn(cw, org),
         NEW e \in Int \ {0}, e \in DOMAIN cw, -e \in DOMAIN cw,
         NEW at, at = [d \in DOMAIN cw \ {e, -e} |-> org[d]],
         NEW a, a = Dropped(e), \A x \in DOMAIN a : a[x] \in DOMAIN a
  PROVE  OneTurn(a, at)
<1> DEFINE D == DOMAIN cw
           F == D \ {e, -e}
<1>1. DOMAIN a = F /\ \A x \in F : a[x] = PastEdge(e, PastEdge(e, cw[x])) /\ a[x] \in F
  BY DEF Dropped
<1>2. Permutes(cw, D) /\ \A x \in D : cw[x] \in D
  BY DEF Permutes
<1> SUFFICES ASSUME NEW S \in SUBSET F, ClosedUnder(a, S), NEW x \in S, NEW y \in F, at[x] = at[y]
             PROVE  y \in S
  BY <1>1 DEF OneTurn
<1> DEFINE T == S \cup {z \in {e, -e} : cw[z] \in S \/ (cw[z] = -z /\ cw[-z] \in S)}
<1>3. ASSUME NEW z \in S PROVE cw[z] \in T
  <2>1. a[z] \in S /\ a[z] = PastEdge(e, PastEdge(e, cw[z]))
    BY <1>1, <1>3 DEF ClosedUnder
  <2>2. CASE cw[z] \notin {e, -e}
    BY <2>1, <2>2 DEF PastEdge
  <2>3. CASE cw[z] \in {e, -e}
    <3>1. PICK k \in {e, -e} : k = cw[z]
      BY <2>3
    <3>2. cw[k] # k
      BY <1>2, <3>1 DEF Permutes
    <3>3. cw[k] \in {e, -e} => cw[k] = -k /\ -k \in {e, -e}
      BY <3>2
    <3>4. a[z] = IF cw[k] \in {e, -e} THEN cw[-k] ELSE cw[k]
      BY <2>1, <3>1, <3>3 DEF PastEdge
    <3> QED BY <2>1, <3>1, <3>3, <3>4
  <2> QED BY <2>2, <2>3
<1>4. ASSUME NEW z \in {e, -e}, cw[z] \in S \/ (cw[z] = -z /\ cw[-z] \in S) PROVE cw[z] \in T
  <2>1. CASE cw[z] \in S
    BY <2>1
  <2>2. CASE cw[z] = -z /\ cw[-z] \in S
    <3>1. -z \in {e, -e}
      OBVIOUS
    <3> QED BY <2>2, <3>1
  <2> QED BY <1>4, <2>1, <2>2
<1>5. ClosedUnder(cw, T) /\ T \in SUBSET D
  BY <1>3, <1>4 DEF ClosedUnder
<1> HIDE DEF T
<1>6. org[x] = org[y] /\ x \in T
  BY DEF T
<1>7. y \in T
  BY <1>5, <1>6 DEF OneTurn
<1> QED BY <1>7 DEF T

\* A cut makes a turn of two darts, and a join takes one away.
LEMMA CutTurns ==
  ASSUME IInv, cw \in [DOMAIN cw -> DOMAIN cw], OneTurn(cw, org),
         NEW e, NEW i, NEW j, Cuts(e, i, j), NEW n, n \notin Node,
         NEW at, at = [d \in CutDarts(e, i, j) |-> IF d \in {-i, j} THEN n ELSE org[WasCut(e, i, j, d)]],
         NEW b, b = CutRot(e, i, j)
  PROVE  OneTurn(b, at)
<1> DEFINE D == DOMAIN cw
           F == CutDarts(e, i, j)
           ren(y) == RenCut(e, i, j, y)
           was(x) == WasCut(e, i, j, x)
<1>0. \A d \in D : cw[d] \in D /\ d \in Int /\ org[d] \in Node
  BY DrawingRotates DEF Rotates, Permutes, IInv, TypeOK
<1>1. DOMAIN b = F /\ \A x \in F : b[x] = IF x = -i THEN j ELSE IF x = j THEN -i ELSE ren(cw[was(x)])
  BY DEF CutRot, CutAfter
<1>2. /\ \A y \in D : ren(y) \in F /\ ren(y) # -i /\ ren(y) # j /\ was(ren(y)) = y
      /\ \A x \in F : x # -i /\ x # j => was(x) \in D /\ ren(was(x)) = x
      /\ -i \in F /\ j \in F
  BY <1>0 DEF Cuts, CutDarts, RenCut, WasCut
<1> HIDE DEF ren, was
<1>3. \A x \in F : at[x] = IF x \in {-i, j} THEN n ELSE org[was(x)]
  BY DEF was
<1> SUFFICES ASSUME NEW S \in SUBSET F, ClosedUnder(b, S), NEW x \in S, NEW y \in F, at[x] = at[y]
             PROVE  y \in S
  BY <1>1 DEF OneTurn
<1>4. x \in {-i, j} <=> y \in {-i, j}
  BY <1>0, <1>2, <1>3
<1>5. CASE x \in {-i, j}
  BY <1>1, <1>2, <1>4, <1>5 DEF ClosedUnder
<1>6. CASE x \notin {-i, j}
  <2> DEFINE T == {z \in D : ren(z) \in S}
  <2>1. ClosedUnder(cw, T)
    BY <1>0, <1>1, <1>2 DEF ClosedUnder
  <2>2. was(x) \in T /\ was(y) \in D /\ org[was(x)] = org[was(y)]
    BY <1>2, <1>3, <1>4, <1>6
  <2>3. was(y) \in T
    <3> HIDE DEF T
    <3>1. T \in SUBSET DOMAIN cw
      BY DEF T
    <3> QED BY <2>1, <2>2, <3>1 DEF OneTurn
  <2> QED BY <1>2, <1>4, <1>6, <2>3
<1> QED BY <1>5, <1>6

\* Joining two curves loses the node between them and changes no other turn.
LEMMA JoinTurns ==
  ASSUME IInv, cw \in [DOMAIN cw -> DOMAIN cw], OneTurn(cw, org),
         NEW a, NEW b, NEW M, Joins(a, b, M),
         \A d \in DOMAIN cw : org[d] \in {org[-a], org[b]} <=> d \in {-a, b},
         NEW at, at = [d \in JoinDarts(a, b, M) |-> org[WasJoin(a, b, M, d)]],
         NEW c, c = JoinRot(a, b, M)
  PROVE  OneTurn(c, at)
<1> DEFINE D == DOMAIN cw \ {-a, b}
           F == JoinDarts(a, b, M)
           ren(y) == RenJoin(a, b, M, y)
           was(x) == WasJoin(a, b, M, x)
<1>0. /\ \A d \in DOMAIN cw : cw[d] \in DOMAIN cw /\ org[cw[d]] = org[d]
      /\ \A d \in D : cw[d] \in D
  BY DrawingRotates DEF Rotates, Permutes
<1>1. DOMAIN c = F /\ \A x \in F : c[x] = ren(cw[was(x)])
  BY DEF JoinRot
<1>2. /\ \A y \in D : ren(y) \in F /\ was(ren(y)) = y
      /\ \A x \in F : was(x) \in D /\ ren(was(x)) = x
  BY JoinRenames
<1> HIDE DEF ren, was
<1>3. \A x \in F : at[x] = org[was(x)]
  BY DEF was
<1> SUFFICES ASSUME NEW S \in SUBSET F, ClosedUnder(c, S), NEW x \in S, NEW y \in F, at[x] = at[y]
             PROVE  y \in S
  BY <1>1 DEF OneTurn
<1> DEFINE T == {z \in D : ren(z) \in S}
<1>4. ClosedUnder(cw, T)
  BY <1>0, <1>1, <1>2 DEF ClosedUnder
<1>5. was(x) \in T /\ was(y) \in DOMAIN cw /\ org[was(x)] = org[was(y)]
  BY <1>2, <1>3
<1>6. was(y) \in T
  <2> HIDE DEF T
  <2>1. T \in SUBSET DOMAIN cw
    BY DEF T
  <2> QED BY <1>4, <1>5, <2>1 DEF OneTurn
<1> QED BY <1>2, <1>6

\* The invariant of the drawing itself: each node has one turn.
TurnsInv == cw \in [DOMAIN cw -> DOMAIN cw] /\ OneTurn(cw, org)

\* Nothing is drawn.
DrawsNothing == UNCHANGED <<cw, hole, region, org, side, next>>

\* What does not draw or erase leaves the rotation alone.
LEMMA RestDrawsNothing ==
  ASSUME IInv, AddIsoNode \/ RemoveIsoNode \/ Redefinition \/ UNCHANGED vars
  PROVE  DrawsNothing
<1>1. CASE AddIsoNode
  BY <1>1 DEF AddIsoNode, DrawPoint, DrawsNothing
<1>2. CASE RemoveIsoNode
  BY <1>2 DEF RemoveIsoNode, ErasePoint, DrawsNothing
<1>3. CASE Redefinition
  BY <1>3 DEF Redefinition, AddElement, RemElement, ClearTopoGeom, geomVars, tableVars, DrawsNothing
<1>4. CASE UNCHANGED vars
  BY <1>4 DEF vars, geomVars, tableVars, DrawsNothing
<1> QED BY <1>1, <1>2, <1>3, <1>4

\* The four things an edit can do to the drawing.
DrawsSome == \E e, s, t, p, q, f, g : DrawsEdge(e, s, t, p, q, f, g)
ErasesSome == \E e, f, bare : ErasesEdge(e, f, bare)
CutsSome == \E e, i, j, n : CutsEdge(e, i, j, n)
JoinsSome == \E a, b, M : JoinsEdges(a, b, M)

\* Every step does one of the four to the drawing, or nothing.
LEMMA StepShapes ==
  ASSUME IInv, [Next]_vars
  PROVE  DrawsSome \/ ErasesSome \/ CutsSome \/ JoinsSome \/ DrawsNothing
<1>1. CASE AddIsoNode \/ RemoveIsoNode \/ Redefinition \/ UNCHANGED vars
  BY <1>1, RestDrawsNothing
<1>2. CASE AddIsoEdge
  BY <1>2, AddIsoEdgeDraws DEF DrawsSome
<1>3. CASE AddEdgeModFace \/ AddEdgeNewFaces
  BY <1>3, AddEdgeDraws DEF DrawsSome, AddEdgeModFace, AddEdgeNewFaces
<1>4. CASE RemIsoEdge
  BY <1>4, RemIsoEdgeErases DEF ErasesSome
<1>5. CASE RemEdgeModFace \/ RemEdgeNewFace
  BY <1>5, RemEdgeErases DEF ErasesSome, RemEdgeModFace, RemEdgeNewFace
<1>6. CASE ModEdgeSplit
  BY <1>6, ModEdgeSplitCuts DEF CutsSome
<1>7. CASE NewEdgesSplit
  BY <1>7, NewEdgesSplitCuts DEF CutsSome
<1>8. CASE ModEdgeHeal \/ NewEdgeHeal
  <2>1. PICK modEdge \in BOOLEAN : HealEdges(modEdge)
    BY <1>8 DEF ModEdgeHeal, NewEdgeHeal
  <2>2. PICK e1, e2, m, a, b, M, n : HealsInto(e1, e2, m, a, b, M, n)
    BY <2>1, HealEdgesJoins
  <2> QED BY <2>2 DEF HealsInto, JoinsSome
<1>9. \/ AddIsoNode \/ RemoveIsoNode \/ Redefinition \/ UNCHANGED vars
      \/ AddIsoEdge \/ AddEdgeModFace \/ AddEdgeNewFaces \/ RemIsoEdge
      \/ RemEdgeModFace \/ RemEdgeNewFace \/ ModEdgeSplit \/ NewEdgesSplit
      \/ ModEdgeHeal \/ NewEdgeHeal
  BY DEF Next, Edit
<1> QED BY <1>1, <1>2, <1>3, <1>4, <1>5, <1>6, <1>7, <1>8, <1>9

\* Whatever an edit does, the new rotation is a function that permutes the darts.
LEMMA RotatesAlways ==
  IInv /\ cw \in [DOMAIN cw -> DOMAIN cw]
    => Rotates(cw, DOMAIN cw) /\ DOMAIN org = DOMAIN cw /\ \A d \in DOMAIN cw : org[cw[d]] = org[d]
BY DrawingRotates

\* The rotation stays among the darts, as the inductive invariant says.
LEMMA NextInRotation == IInv => \A d \in DOMAIN cw : cw[d] \in DOMAIN cw
BY LinksAreStar DEF IInv

\* The new rotation is a function on the new darts.
LEMMA NewRotation ==
  ASSUME IInv, cw \in [DOMAIN cw -> DOMAIN cw], [Next]_vars
  PROVE  IInv' /\ Rotates(cw', DOMAIN cw') /\ cw' \in [DOMAIN cw' -> DOMAIN cw']
         /\ DOMAIN org' = DOMAIN cw' /\ \A d \in DOMAIN cw' : org'[cw'[d]] = org'[d]
<1>1. IInv'
  BY NextInv
<1>0. (\A d \in DOMAIN cw : cw[d] \in DOMAIN cw)'
  BY <1>1, NextInRotation, PTL
<1>2. \A d \in DOMAIN cw' : cw'[d] \in DOMAIN cw'
  BY <1>0
<1>3. cw' = [d \in DOMAIN cw' |-> cw'[d]]
  <2>1. CASE DrawsSome
    BY <2>1 DEF DrawsSome, DrawsEdge, Inserted
  <2>2. CASE ErasesSome
    BY <2>2 DEF ErasesSome, ErasesEdge, Dropped
  <2>3. CASE CutsSome
    BY <2>3 DEF CutsSome, CutsEdge, CutRot
  <2>4. CASE JoinsSome
    BY <2>4 DEF JoinsSome, JoinsEdges, JoinRot
  <2>5. CASE DrawsNothing
    BY <2>5 DEF DrawsNothing
  <2> QED BY <2>1, <2>2, <2>3, <2>4, <2>5, StepShapes
<1>4. (cw \in [DOMAIN cw -> DOMAIN cw])'
  BY <1>2, <1>3
<1>5. (Rotates(cw, DOMAIN cw) /\ DOMAIN org = DOMAIN cw /\ \A d \in DOMAIN cw : org[cw[d]] = org[d])'
  BY <1>1, <1>4, RotatesAlways, PTL
<1> QED BY <1>1, <1>4, <1>5

\* No step gives a node a second turn.
LEMMA TurnsInvNext == IInv /\ TurnsInv /\ [Next]_vars => TurnsInv'
<1> SUFFICES ASSUME IInv, TurnsInv, [Next]_vars PROVE TurnsInv'
  OBVIOUS
<1> USE DEF TurnsInv
<1>1. /\ Permutes(cw', DOMAIN cw') /\ cw' \in [DOMAIN cw' -> DOMAIN cw']
      /\ \A d \in DOMAIN cw' : cw'[d] \in DOMAIN cw'
  BY NewRotation DEF Rotates
<1>2. CASE DrawsSome
  <2>1. PICK e, s, t, p, q, f, g : DrawsEdge(e, s, t, p, q, f, g)
    BY <1>2 DEF DrawsSome
  <2>2. DOMAIN cw' = DOMAIN cw \cup {e, -e}
    BY <2>1 DEF DrawsEdge, Inserted
  <2>3. OneTurn(cw', org')
    BY <1>1, <2>1, <2>2, DrawnTurns DEF DrawsEdge
  <2> QED BY <1>1, <2>3
<1>3. CASE ErasesSome
  <2>1. PICK e, f, bare : ErasesEdge(e, f, bare)
    BY <1>3 DEF ErasesSome
  <2>2. Permutes(cw, DOMAIN cw)
    BY DrawingRotates DEF Rotates
  <2>3. OneTurn(cw', org')
    BY <1>1, <2>1, <2>2, ErasedTurns DEF ErasesEdge
  <2> QED BY <1>1, <2>3
<1>4. CASE CutsSome
  <2>1. PICK e, i, j, n : CutsEdge(e, i, j, n)
    BY <1>4 DEF CutsSome
  <2>2. OneTurn(cw', org')
    BY <2>1, CutTurns DEF CutsEdge
  <2> QED BY <1>1, <2>2
<1>5. CASE JoinsSome
  <2>1. PICK a, b, M : JoinsEdges(a, b, M)
    BY <1>5 DEF JoinsSome
  <2>2. OneTurn(cw', org')
    BY <2>1, JoinTurns DEF JoinsEdges
  <2> QED BY <1>1, <2>2
<1>6. CASE DrawsNothing
  BY <1>6 DEF DrawsNothing
<1> QED BY <1>2, <1>3, <1>4, <1>5, <1>6, StepShapes

\* So each node has one turn in every reachable state.
LEMMA TurnsInductive == Spec => [](IInv /\ TurnsInv)
<1>1. Init => IInv /\ TurnsInv
  <2> SUFFICES ASSUME Init PROVE TurnsInv
    BY InitInv
  <2>1. cw = [d \in {} |-> 0]
    BY DEF Init, GeomInit
  <2> QED BY <2>1 DEF TurnsInv, OneTurn
<1>2. IInv /\ TurnsInv /\ [Next]_vars => (IInv /\ TurnsInv)'
  BY NextInv, TurnsInvNext
<1> QED BY <1>1, <1>2, PTL DEF Spec

\* A turn is what Orbit goes round.
LEMMA TurnsAreNodes == IInv /\ TurnsInv => NodesFollowDrawing
<1> SUFFICES ASSUME IInv, TurnsInv, NEW d \in DOMAIN cw
             PROVE  Orbit(cw, d) = Leaving(org[d])
  BY DEF NodesFollowDrawing
<1>1. /\ IsFiniteSet(DOMAIN cw) /\ cw \in [DOMAIN cw -> DOMAIN cw] /\ DOMAIN org = DOMAIN cw
      /\ \A x \in DOMAIN cw : org[cw[x]] = org[x]
  BY DrawingRotates DEF TurnsInv, Rotates, Permutes
<1>2. /\ d \in Orbit(cw, d) /\ Orbit(cw, d) \subseteq DOMAIN cw /\ ClosedUnder(cw, Orbit(cw, d))
      /\ \A S : d \in S /\ ClosedUnder(cw, S \cap DOMAIN cw) => Orbit(cw, d) \subseteq S
  BY <1>1, OrbitIsLeast
<1>3. Orbit(cw, d) \subseteq Leaving(org[d])
  <2>1. ClosedUnder(cw, Leaving(org[d]) \cap DOMAIN cw)
    BY <1>1 DEF ClosedUnder, Leaving
  <2>2. d \in Leaving(org[d])
    BY <1>1 DEF Leaving
  <2> QED BY <1>2, <2>1, <2>2
<1>4. Leaving(org[d]) \subseteq Orbit(cw, d)
  BY <1>1, <1>2 DEF TurnsInv, OneTurn, Leaving
<1> QED BY <1>3, <1>4

\* start_node and end_node agree with the drawing: going round by the rotation from
\* a dart of a node visits what getEdgeByNode finds there, all of it and no more.
THEOREM NodesCorrect == Spec => []NodesFollowDrawing
BY TurnsAreNodes, TurnsInductive, PTL

-----------------------------------------------------------------------------
(* The rows of the relation table refer to primitives there are.                 *)

\* The invariant: a row is of a type its object's layer may hold as well, or the
\* checks that only look at those objects would pass over it.
RowsInv == RelationRefersToPrimitives /\ \A r \in relation : r.tg \in OfType(r.type)

\* Row r names a primitive of these tables.
Names(r, nodes, edges, faces) == /\ r.type = 1 => r.id \in nodes
                                 /\ r.type = 2 => Abs(r.id) \in edges
                                 /\ r.type = 3 => r.id \in faces

\* RowsInv without the CASE.
LEMMA RowsNamed ==
  relation \subseteq Row =>
    (RowsInv <=> \A r \in relation : r.tg \in OfType(r.type) /\ Names(r, Node, Edge, face))
<1> SUFFICES ASSUME relation \subseteq Row
             PROVE  RowsInv <=> \A r \in relation : r.tg \in OfType(r.type) /\ Names(r, Node, Edge, face)
  OBVIOUS
<1>1. ASSUME NEW r \in relation
      PROVE  Names(r, Node, Edge, face) <=> CASE r.type = 1 -> r.id \in Node
                                              [] r.type = 2 -> Abs(r.id) \in Edge
                                              [] r.type = 3 -> r.id \in face
  <2>1. r.type \in 1..3
    BY <1>1 DEF Row
  <2>2. r.type = 1 \/ r.type = 2 \/ r.type = 3
    BY <2>1
  <2>3. CASE r.type = 1
    BY <2>3 DEF Names
  <2>4. CASE r.type = 2
    BY <2>4 DEF Names
  <2>5. CASE r.type = 3
    BY <2>5 DEF Names
  <2> QED BY <2>2, <2>3, <2>4, <2>5
<1> QED BY <1>1 DEF RowsInv, RelationRefersToPrimitives

\* A row put under a new id keeps its object and its type.
LEMMA PutRows ==
  ASSUME relation \subseteq Row, NEW rows, rows \subseteq relation, NEW i \in Nat, NEW r \in Put(rows, i)
  PROVE  \E o \in rows : /\ r.tg = o.tg /\ r.type = o.type /\ Abs(r.id) = i
                         /\ o.id >= 0 => r.id = i
<1>1. PICK o \in rows : r = [o EXCEPT !.id = Sign(o.id) * i]
  BY DEF Put
<1>2. o \in Row /\ o.id \in Int
  BY DEF Row
<1>3. r.tg = o.tg /\ r.type = o.type /\ r.id = Sign(o.id) * i
  BY <1>1, <1>2 DEF Row
<1>4. Abs(r.id) = i /\ (o.id >= 0 => r.id = i)
  BY <1>2, <1>3 DEF Abs, Sign
<1> QED BY <1>3, <1>4

\* An edge is one of those after an edit when a dart of it is.
LEMMA EdgesOf ==
  ASSUME TypeOK, NEW D, DOMAIN next' = D
  PROVE  /\ \A d \in D : Abs(d) \in Edge'
         /\ \A x \in Edge : x \in D => x \in Edge'
<1>1. \A d \in D : Abs(d) \in Edge'
  BY DEF Edge
<1>2. ASSUME NEW x \in Edge, x \in D PROVE x \in Edge'
  <2>1. x \in 1..last.edge
    BY DEF TypeOK
  <2>2. Abs(x) = x
    BY <2>1 DEF Abs
  <2> QED BY <1>1, <1>2, <2>2
<1> QED BY <1>1, <1>2

\* A record of what the split functions read and write.
IsFaceState(st) == st \in [side : {st.side}, containing : {st.containing}, face : {st.face},
                           last : Nat, ret : Int]

\* The split of a face that is not refused makes a new face and keeps the old ones.
NewFace(st, new) == /\ new.last = (IF new.ret = st.last + 1 THEN st.last + 1 ELSE st.last)
                    /\ st.face \subseteq new.face /\ new.ret \in {0, -1} \cup {st.last + 1}
                    /\ new.face = IF new.ret = st.last + 1 THEN st.face \cup {new.ret} ELSE st.face

\* _lwt_AddFaceSplit makes one new face or none: none when the ring has the edge on both
\* sides, one when it has not and the face is not the universe face.
LEMMA AddFaceSplitFace ==
  ASSUME NEW st, IsFaceState(st), NEW nx, NEW g, NEW sedge, NEW f, NEW mbrOnly
  PROVE  /\ NewFace(st, AddFaceSplit(st, nx, g, sedge, f, mbrOnly))
         /\ IsFaceState(AddFaceSplit(st, nx, g, sedge, f, mbrOnly))
         /\ -sedge \in Orbit(nx, sedge) => AddFaceSplit(st, nx, g, sedge, f, mbrOnly).ret = 0
         /\ -sedge \notin Orbit(nx, sedge) /\ f # 0 =>
              AddFaceSplit(st, nx, g, sedge, f, FALSE).ret = st.last + 1
<1> DEFINE id == st.last + 1
           fresh(sd, cont) == [side |-> sd, containing |-> cont, face |-> st.face \cup {id},
                               last |-> id, ret |-> id]
           new == AddFaceSplit(st, nx, g, sedge, f, mbrOnly)
<1>1. \/ new = [st EXCEPT !.ret = 0]
      \/ -sedge \notin Orbit(nx, sedge) /\ new = [st EXCEPT !.ret = -1]
      \/ -sedge \notin Orbit(nx, sedge) /\ \E sd, cont : new = fresh(sd, cont)
  BY DEF AddFaceSplit
<1>2. ASSUME NEW x, NEW r \in Int, x = [st EXCEPT !.ret = r]
      PROVE  IsFaceState(x) /\ x.face = st.face /\ x.ret = r /\ x.last = st.last
  BY <1>2 DEF IsFaceState
<1>3. ASSUME NEW x, NEW sd, NEW cont, x = fresh(sd, cont)
      PROVE  /\ IsFaceState(x) /\ x.face = st.face \cup {id} /\ x.ret = id /\ x.last = id
  BY <1>3 DEF IsFaceState
<1>4. st.last \in Nat /\ 0 \in Int /\ -1 \in Int
  BY DEF IsFaceState
<1>5. -sedge \notin Orbit(nx, sedge) /\ f # 0 =>
        \E sd, cont : AddFaceSplit(st, nx, g, sedge, f, FALSE) = fresh(sd, cont)
  BY DEF AddFaceSplit
<1>6. -sedge \in Orbit(nx, sedge) => new = [st EXCEPT !.ret = 0]
  BY DEF AddFaceSplit
<1>7. -sedge \notin Orbit(nx, sedge) /\ f # 0 =>
        AddFaceSplit(st, nx, g, sedge, f, FALSE).ret = st.last + 1
  BY <1>3, <1>5
<1> HIDE DEF new, fresh
<1>8. NewFace(st, new) /\ IsFaceState(new)
  <2>1. CASE new = [st EXCEPT !.ret = 0]
    <3>1. IsFaceState(new) /\ new.face = st.face /\ new.ret = 0 /\ new.last = st.last
      BY <1>2, <1>4, <2>1
    <3> QED BY <1>4, <3>1 DEF NewFace
  <2>2. CASE new = [st EXCEPT !.ret = -1]
    <3>1. IsFaceState(new) /\ new.face = st.face /\ new.ret = -1 /\ new.last = st.last
      BY <1>2, <1>4, <2>2
    <3> QED BY <1>4, <3>1 DEF NewFace
  <2>3. CASE \E sd, cont : new = fresh(sd, cont)
    <3>1. IsFaceState(new) /\ new.face = st.face \cup {id} /\ new.ret = id /\ new.last = id
      BY <1>3, <2>3
    <3> QED BY <1>4, <3>1 DEF NewFace
  <2> QED BY <1>1, <2>1, <2>2, <2>3
<1>9. -sedge \in Orbit(nx, sedge) => new.ret = 0
  BY <1>2, <1>4, <1>6
<1> QED BY <1>7, <1>8, <1>9 DEF new

\* Both splits of an edge that is added: the faces there were stay, but the one that
\* lwt_AddEdgeNewFaces replaces, and what is returned, if positive, is a new face.
SplitFacts(st, f, mod, new) ==
  /\ st.face \subseteq mod.face
  /\ mod.ret \in {0, -1, st.last + 1}
  /\ mod.ret = st.last + 1 => mod.ret \in mod.face
  /\ new.ret \in {0, -1, st.last + 1, st.last + 2}
  /\ f # 0 /\ new.ret = 0 => new.face = st.face
  /\ f # 0 /\ new.ret # 0 => /\ new.ret = st.last + 2
                             /\ new.face = (st.face \cup {st.last + 1, st.last + 2}) \ {f}
  /\ f = 0 => st.face \subseteq new.face

\* What both splits return.
LEMMA SplitFaces ==
  ASSUME NEW st, IsFaceState(st), NEW D, NEW nx, Permutes(nx, D), NEW g,
         NEW e \in Int, e \in D, -e \in D, NEW f
  PROVE  SplitFacts(st, f, SplitModFace(st, nx, g, e, f), SplitNewFaces(st, nx, g, e, f))
<1> DEFINE modf == SplitModFace(st, nx, g, e, f)
           newf == SplitNewFaces(st, nx, g, e, f)
<1>14. PICK mod : mod = modf
  OBVIOUS
<1>15. PICK new : new = newf
  OBVIOUS
<1>16. st.last \in Nat
  BY DEF IsFaceState
<1> SUFFICES SplitFacts(st, f, mod, new)
  BY <1>14, <1>15
<1> USE DEF SplitFacts
<1> USE <1>16
<1>1. -e \in Orbit(nx, e) <=> e \in Orbit(nx, -e)
  BY OrbitsPart
<1>2. PICK left : left = AddFaceSplit(st, nx, g, e, f, FALSE)
  OBVIOUS
<1>3. PICK right : right = AddFaceSplit(st, nx, g, -e, f, FALSE)
  OBVIOUS
<1>4. /\ NewFace(st, left)
      /\ IsFaceState(left)
      /\ -e \in Orbit(nx, e) => left.ret = 0
  BY <1>2, AddFaceSplitFace
<1>5. /\ NewFace(st, right)
      /\ IsFaceState(right)
      /\ e \notin Orbit(nx, -e) /\ f # 0 => right.ret = st.last + 1
      /\ e \in Orbit(nx, -e) => right.ret = 0
  <2>1. -(-e) = e
    OBVIOUS
  <2> QED BY <1>3, <2>1, AddFaceSplitFace
<1>0. mod = IF left.ret = 0 THEN left
            ELSE IF left.ret < 0 THEN AddFaceSplit(left, nx, g, -e, f, FALSE)
            ELSE [AddFaceSplit(left, nx, g, -e, f, TRUE) EXCEPT !.ret = left.ret]
  BY <1>14, <1>2 DEF SplitModFace
<1>6. /\ st.face \subseteq mod.face
      /\ mod.ret \in {0, -1, st.last + 1}
      /\ mod.ret = st.last + 1 => mod.ret \in mod.face
  <2>1. left.ret \in {0, -1, st.last + 1} /\ left.last \in Nat
    BY <1>4 DEF NewFace, IsFaceState
  <2>2. CASE left.ret = 0
    BY <1>0, <1>4, <2>2 DEF NewFace
  <2>3. CASE left.ret = -1
    <3>1. mod = AddFaceSplit(left, nx, g, -e, f, FALSE)
      BY <1>0, <2>3
    <3>2. left.last = st.last /\ left.face = st.face /\ st.last \in Nat
      BY <1>4, <2>3 DEF NewFace, IsFaceState
    <3>3. NewFace(left, mod)
      BY <1>4, <3>1, <3>2, AddFaceSplitFace
    <3> QED BY <3>2, <3>3 DEF NewFace
  <2>4. CASE left.ret = st.last + 1
    <3> DEFINE m == AddFaceSplit(left, nx, g, -e, f, TRUE)
    <3>1. left.ret # 0 /\ ~(left.ret < 0)
      BY <2>4
    <3>2. mod = [m EXCEPT !.ret = left.ret]
      BY <1>0, <3>1
    <3>3. NewFace(left, m) /\ left.last \in Nat
      BY <1>4, <2>4, <3>1, AddFaceSplitFace DEF IsFaceState
    <3>4. IsFaceState(m)
      BY <1>4, <2>4, <3>1, AddFaceSplitFace DEF NewFace
    <3> HIDE DEF m
    <3>5. mod.ret = left.ret /\ mod.face = m.face
      BY <3>2, <3>4
    <3> QED BY <1>4, <2>4, <3>3, <3>5 DEF NewFace
  <2> QED BY <2>1, <2>2, <2>3, <2>4
<1>7. ASSUME NEW l, l = AddFaceSplit(right, nx, g, e, f, FALSE), right.last \in Nat
      PROVE  /\ NewFace(right, l)
             /\ IsFaceState(l)
             /\ -e \notin Orbit(nx, e) /\ f # 0 => l.ret = right.last + 1
  BY <1>5, <1>7, AddFaceSplitFace
<1>8. right.last \in Nat
  BY <1>5 DEF IsFaceState
<1>9. PICK l : l = AddFaceSplit(right, nx, g, e, f, FALSE)
  OBVIOUS
<1>10. new = IF right.ret = 0 THEN right ELSE IF f = 0 THEN l ELSE [l EXCEPT !.face = @ \ {f}]
  BY <1>15, <1>3, <1>9 DEF SplitNewFaces
<1>11. CASE right.ret = 0
  BY <1>5, <1>6, <1>10, <1>11 DEF NewFace
<1>12. CASE right.ret # 0 /\ f # 0
  <2>1. right.ret = st.last + 1 /\ right.last = st.last + 1 /\ l.ret = st.last + 2
    <3>1. right.ret = st.last + 1 /\ -e \notin Orbit(nx, e)
      BY <1>1, <1>5, <1>12
    <3>2. right.last = st.last + 1
      BY <1>5, <3>1 DEF NewFace
    <3>3. l.ret = right.last + 1
      BY <1>7, <1>8, <1>9, <1>12, <3>1
    <3> QED BY <3>1, <3>2, <3>3
  <2>2. l.face = st.face \cup {st.last + 1, st.last + 2}
    <3>1. l.face = right.face \cup {right.last + 1} /\ right.face = st.face \cup {st.last + 1}
      <4>1. l.ret = right.last + 1
        BY <2>1
      <4>2. NewFace(right, l)
        BY <1>7, <1>8, <1>9
      <4> QED BY <1>5, <2>1, <4>1, <4>2 DEF NewFace
    <3> QED BY <2>1, <3>1
  <2>3. new.ret = l.ret /\ new.face = l.face \ {f}
    BY <1>7, <1>8, <1>9, <1>10, <1>12 DEF IsFaceState
  <2> QED BY <1>6, <1>12, <2>1, <2>2, <2>3
<1>13. CASE right.ret # 0 /\ f = 0
  <2>1. new = l
    BY <1>10, <1>13
  <2>2. right.ret \in {-1, st.last + 1} /\ right.last \in {st.last, st.last + 1}
    BY <1>5, <1>13 DEF NewFace, IsFaceState
  <2>3. NewFace(right, l)
    BY <1>7, <1>8, <1>9
  <2> QED BY <1>5, <1>6, <1>13, <2>1, <2>2, <2>3 DEF NewFace
<1> QED BY <1>11, <1>12, <1>13


\* What RowsInv says, of the relation table, nodes, edges and faces after a step.
RowsName(rows, nodes, edges, faces) ==
  \A r \in rows : r.tg \in OfType(r.type) /\ Names(r, nodes, edges, faces)

\* Rows that were there, and rows of a type put under the id of a primitive of it.
LEMMA PutNamed ==
  ASSUME TypeOK, RowsName(relation, Node, Edge, face), NEW nodes, NEW edges, NEW faces,
         NEW type \in {2, 3}, NEW rows, rows \subseteq relation, \A r \in rows : r.type = type,
         NEW i \in Nat, type = 2 => i \in edges, type = 3 => i \in faces
  PROVE  RowsName(Put(rows, i), nodes, edges, faces)
<1> SUFFICES ASSUME NEW r \in Put(rows, i)
             PROVE  r.tg \in OfType(r.type) /\ Names(r, nodes, edges, faces)
  BY DEF RowsName
<1>1. relation \subseteq Row
  BY DEF TypeOK
<1>2. PICK o \in rows : r.tg = o.tg /\ r.type = o.type /\ Abs(r.id) = i /\ (o.id >= 0 => r.id = i)
  BY <1>1, PutRows
<1>3. o.tg \in OfType(o.type) /\ Names(o, Node, Edge, face)
  BY DEF RowsName
<1>4. type = 3 => o.id >= 0
  <2>1. \A x \in face : x >= 0
    <3>1. last.face \in Nat /\ face \subseteq 1..last.face
      BY DEF TypeOK
    <3> QED BY <3>1
  <2>2. ASSUME type = 3 PROVE o.id \in face
    BY <1>2, <1>3, <2>2 DEF Names
  <2> QED BY <2>1, <2>2
<1> QED BY <1>2, <1>3, <1>4 DEF Names

\* The rows of a primitive are of its type.
LEMMA RowsOfType ==
  ASSUME NEW x
  PROVE  /\ RowsOfEdge(x) \subseteq relation /\ \A r \in RowsOfEdge(x) : r.type = 2 /\ Abs(r.id) = x
         /\ RowsOfFace(x) \subseteq relation /\ \A r \in RowsOfFace(x) : r.type = 3 /\ r.id = x
         /\ \A r \in relation \ RowsOfEdge(x) : r.type = 2 => Abs(r.id) # x
         /\ \A r \in relation \ RowsOfFace(x) : r.type = 3 => r.id # x
BY DEF RowsOfEdge, RowsOfFace

\* lwt_ModEdgeSplit and lwt_NewEdgesSplit: the new edges are there, and no row of the old
\* edge is left if it is not.
LEMMA SplitsKeepRows ==
  ASSUME IInv, RowsName(relation, Node, Edge, face), ModEdgeSplit \/ NewEdgesSplit
  PROVE  RowsName(relation', Node', Edge', face')
<1>0. /\ TypeOK /\ last.edge \in Nat /\ DOMAIN next = Darts(Edge) /\ Edge \subseteq 1..last.edge
  BY DEF IInv, TypeOK
<1>1. CASE ModEdgeSplit
  <2> DEFINE j == last.edge + 1
  <2>1. PICK e \in Edge : /\ DOMAIN next' = DOMAIN next \cup {j, -j}
                          /\ Node' = Node \cup {last.node + 1} /\ face' = face
                          /\ relation' = relation \cup Put(RowsOfEdge(e), j)
    BY <1>1 DEF ModEdgeSplit, updateTopoGeomEdgeSplit, Node
  <2>2. j \in Edge' /\ Edge \subseteq Edge' /\ j \in Nat
    <3>1. Abs(j) = j
      BY <1>0 DEF Abs
    <3>2. Edge \subseteq DOMAIN next
      BY <1>0 DEF Darts
    <3> QED BY <1>0, <2>1, <3>1, <3>2, EdgesOf
  <2>3. RowsName(relation, Node', Edge', face')
    BY <2>1, <2>2 DEF RowsName, Names
  <2>4. RowsName(Put(RowsOfEdge(e), j), Node', Edge', face')
    BY <1>0, <2>2, PutNamed, RowsOfType
  <2> QED BY <2>1, <2>3, <2>4 DEF RowsName
<1>2. CASE NewEdgesSplit
  <2> DEFINE i == last.edge + 1
             j == last.edge + 2
  <2>1. PICK e \in Edge : /\ DOMAIN next' = (DOMAIN next \ {e, -e}) \cup {i, -i, j, -j}
                          /\ Node' = Node \cup {last.node + 1} /\ face' = face
                          /\ relation' = updateTopoGeomEdgeSplit(e, i, j)
    BY <1>2 DEF NewEdgesSplit, Node
  <2>2. i \in Nat /\ j \in Nat /\ j # -1 /\ Abs(i) = i /\ Abs(j) = j
    BY <1>0 DEF Abs
  <2>3. relation' = (relation \ RowsOfEdge(e)) \cup Put(RowsOfEdge(e), i) \cup Put(RowsOfEdge(e), j)
    BY <2>1, <2>2 DEF updateTopoGeomEdgeSplit
  <2>4. i \in Edge' /\ j \in Edge' /\ \A x \in Edge \ {e} : x \in Edge'
    <3>1. ASSUME NEW x \in Edge \ {e} PROVE x \in DOMAIN next'
      BY <1>0, <2>1, <3>1 DEF Darts
    <3> QED BY <1>0, <2>1, <2>2, <3>1, EdgesOf
  <2>5. RowsName(relation \ RowsOfEdge(e), Node', Edge', face')
    BY <2>1, <2>4, RowsOfType DEF RowsName, Names
  <2>6. /\ RowsName(Put(RowsOfEdge(e), i), Node', Edge', face')
        /\ RowsName(Put(RowsOfEdge(e), j), Node', Edge', face')
    BY <1>0, <2>2, <2>4, PutNamed, RowsOfType
  <2> QED BY <2>3, <2>5, <2>6 DEF RowsName
<1> QED BY <1>1, <1>2

\* lwt_ModEdgeHeal and lwt_NewEdgeHeal: the rows of both edges name the new one, and
\* there is none of the node.
LEMMA HealsKeepRows ==
  ASSUME NEW modEdge \in BOOLEAN, IInv, RowsName(relation, Node, Edge, face), HealEdges(modEdge)
  PROVE  RowsName(relation', Node', Edge', face')
<1>0. /\ TypeOK /\ last.edge \in Nat /\ DOMAIN next = Darts(Edge) /\ Edge \subseteq 1..last.edge
      /\ relation \subseteq Row
  BY DEF IInv, TypeOK
<1>1. PICK e1 \in Edge, e2 \in Edge : \E c \in HealChoice(e1, e2) : HealMeeting(e1, e2, c, modEdge)
  BY DEF HealEdges
<1>2. PICK c : HealMeeting(e1, e2, c, modEdge)
  BY <1>1
<1> DEFINE m == IF modEdge THEN e1 ELSE last.edge + 1
           gone == IF modEdge THEN {e2} ELSE {e1, e2}
<1>3. /\ e1 # e2
      /\ checkTopoGeomRemNode(c.at, e1, e2)
      /\ DOMAIN next' = (DOMAIN next \ Darts(gone)) \cup {m, -m}
      /\ Node' = Node \ {c.at} /\ face' = face
      /\ relation' = updateTopoGeomEdgeHeal(e1, e2, m)
  BY <1>2 DEF HealMeeting, Node
<1>4. m \in Nat /\ m # e2 /\ Abs(m) = m
  BY <1>0, <1>3 DEF Abs
<1>5. m \in Edge' /\ \A x \in Edge \ {e1, e2} : x \in Edge'
  <2>1. ASSUME NEW x \in Edge \ {e1, e2} PROVE x \in DOMAIN next'
    BY <1>0, <1>3 DEF Darts
  <2> QED BY <1>0, <1>3, <1>4, <2>1, EdgesOf
<1>6. ASSUME NEW r \in relation, r.type = 2 => Abs(r.id) \in Edge'
      PROVE  r.tg \in OfType(r.type) /\ Names(r, Node', Edge', face')
  <2>1. r.type = 1 => r.id # c.at
    BY <1>3 DEF checkTopoGeomRemNode, checkTopoGeomRemIsoNode, RowsName
  <2> QED BY <1>3, <1>6, <2>1 DEF RowsName, Names
<1>7. CASE modEdge
  <2>1. m = e1
    BY <1>7
  <2>2. relation' = relation \ UNION {RowsOfEdge(e) : e \in {e1, e2} \ {e1}}
    BY <1>3, <2>1 DEF updateTopoGeomEdgeHeal
  <2>3. \A r \in relation' : r \in relation /\ r \notin RowsOfEdge(e2)
    BY <1>3, <2>2
  <2>4. ASSUME NEW r \in relation', r.type = 2 PROVE Abs(r.id) \in Edge'
    <3>1. Abs(r.id) # e2 /\ Abs(r.id) \in Edge
      BY <2>3, <2>4, RowsOfType DEF RowsName, Names
    <3> QED BY <1>5, <2>1, <3>1
  <2> QED BY <1>6, <2>3, <2>4 DEF RowsName
<1>8. CASE ~modEdge
  <2>1. m \notin {e1, e2}
    BY <1>0, <1>8
  <2>2. relation' = (relation \ (RowsOfEdge(e1) \cup RowsOfEdge(e2))) \cup Put(RowsOfEdge(e1), m)
    BY <1>3, <2>1 DEF updateTopoGeomEdgeHeal
  <2>3. ASSUME NEW r \in relation \ (RowsOfEdge(e1) \cup RowsOfEdge(e2)), r.type = 2
        PROVE  Abs(r.id) \in Edge'
    <3>1. Abs(r.id) \notin {e1, e2} /\ Abs(r.id) \in Edge
      BY <2>3, RowsOfType DEF RowsName, Names
    <3> QED BY <1>5, <3>1
  <2>4. RowsName(Put(RowsOfEdge(e1), m), Node', Edge', face')
    BY <1>0, <1>4, <1>5, PutNamed, RowsOfType
  <2> QED BY <1>6, <2>2, <2>3, <2>4 DEF RowsName
<1> QED BY <1>7, <1>8

\* _lwt_RemEdge: the rows of the faces that go are taken away or name the new face, and
\* no row names the edge.
LEMMA RemEdgeKeepsRows ==
  ASSUME NEW modFace, IInv, RowsName(relation, Node, Edge, face), RemEdge(modFace)
  PROVE  RowsName(relation', Node', Edge', face')
<1>0. /\ TypeOK /\ last.edge \in Nat /\ last.face \in Nat /\ DOMAIN next = Darts(Edge)
      /\ Edge \subseteq 1..last.edge /\ face \subseteq 1..last.face /\ relation \subseteq Row
      /\ DOMAIN next = DOMAIN cw /\ DOMAIN side = DOMAIN next
  BY DEF IInv, TypeOK, LinksFollowDrawing
<1>1. PICK e \in Edge :
        /\ ErasesEdge(e, Flood(e, modFace), Stranded(e))
        /\ checkTopoGeomRemEdge(e, side[e], side[-e])
        /\ side' = [d \in DOMAIN cw \ {e, -e} |->
                      IF side[d] \in Vanished(e, modFace) THEN Flood(e, modFace) ELSE side[d]]
        /\ DOMAIN containing' = Node
        /\ face' = (face \cup (IF side[e] # side[-e] /\ 0 \notin {side[e], side[-e]} /\ ~modFace
                               THEN {Flood(e, modFace)} ELSE {})) \ Vanished(e, modFace)
        /\ relation' = IF side[e] # side[-e]
                       THEN updateTopoGeomFaceHeal(side[-e], side[e], Flood(e, modFace)) ELSE relation
  <2>1. \E e \in Edge :
           LET flood == Flood(e, modFace)
               gone == Vanished(e, modFace)
               joins == side[e] # side[-e]
           IN  /\ ErasesEdge(e, flood, Stranded(e))
               /\ checkTopoGeomRemEdge(e, side[e], side[-e])
               /\ side' = [d \in DOMAIN cw \ {e, -e} |-> IF side[d] \in gone THEN flood ELSE side[d]]
               /\ containing' = [n \in Node |-> IF n \in Stranded(e) THEN flood
                                                ELSE IF containing[n] \in gone THEN flood
                                                ELSE containing[n]]
               /\ face' = (face \cup (IF joins /\ 0 \notin {side[e], side[-e]} /\ ~modFace
                                      THEN {flood} ELSE {})) \ gone
               /\ relation' = IF joins THEN updateTopoGeomFaceHeal(side[-e], side[e], flood) ELSE relation
    BY RemEdgeErases
  <2> QED BY <2>1
<1>2. DOMAIN next' = DOMAIN next \ {e, -e}
  <2>1. DOMAIN next' = DOMAIN cw'
    <3>1. IInv'
      BY RemEdgeInv
    <3> QED BY <3>1 DEF IInv, LinksFollowDrawing
  <2> QED BY <1>0, <1>1, <2>1 DEF ErasesEdge, Dropped
<1>3. Node' = Node
  BY <1>1 DEF Node
<1>4. \A x \in Edge \ {e} : x \in Edge'
  <2>1. ASSUME NEW x \in Edge \ {e} PROVE x \in DOMAIN next'
    BY <1>0, <1>2, <2>1 DEF Darts
  <2> QED BY <1>0, <1>2, <2>1, EdgesOf
<1>5. ASSUME NEW r \in relation, r.type = 3 => r.id \in face'
      PROVE  r.tg \in OfType(r.type) /\ Names(r, Node', Edge', face')
  <2>1. r.type = 2 => r.id \notin {e, -e} /\ r.id \in Int
    BY <1>0, <1>1 DEF checkTopoGeomRemEdge, RowsName, Row
  <2>2. r.type = 2 => Abs(r.id) # e
    BY <1>0, <2>1 DEF Abs
  <2> QED BY <1>3, <1>4, <1>5, <2>2 DEF RowsName, Names
<1> DEFINE l == side[e]
           r == side[-e]
           flood == Flood(e, modFace)
<1>6. CASE l = r
  <2>1. relation' = relation /\ face' = face
    BY <1>1, <1>6 DEF Vanished
  <2> QED BY <1>5, <2>1 DEF RowsName, Names
<1>7. CASE l # r /\ (0 \in {l, r} \/ modFace)
  <2>1. flood \in {l, r} /\ Vanished(e, modFace) = {l, r} \ {flood}
    BY <1>7 DEF Flood, Vanished
  <2>2. face' = face \ ({l, r} \ {flood})
    BY <1>1, <1>7, <2>1
  <2>3. relation' = relation \ UNION {RowsOfFace(f) : f \in {r, l} \ {flood}}
    BY <1>1, <1>7, <2>1 DEF updateTopoGeomFaceHeal
  <2>4. ASSUME NEW o \in relation' PROVE o \in relation /\ (o.type = 3 => o.id \in face')
    <3>1. o \in relation /\ \A f \in {r, l} \ {flood} : o \notin RowsOfFace(f)
      BY <2>3
    <3> HIDE DEF l, r, flood
    <3>2. o.type = 3 => o.id \in face /\ o.id \notin {r, l} \ {flood}
      BY <3>1, RowsOfType DEF RowsName, Names
    <3> QED BY <2>2, <3>1, <3>2
  <2> QED BY <1>5, <2>4 DEF RowsName
<1>8. CASE l # r /\ 0 \notin {l, r} /\ ~modFace
  <2>1. flood = last.face + 1 /\ Vanished(e, modFace) = {l, r} \ {flood}
    BY <1>8 DEF Flood, Vanished
  <2>2. face' = (face \cup {flood}) \ ({l, r} \ {flood}) /\ flood \in Nat
    BY <1>0, <1>1, <1>8, <2>1
  <2>3. CASE flood \notin {l, r}
    <3>1. relation' = (relation \ (RowsOfFace(r) \cup RowsOfFace(l))) \cup Put(RowsOfFace(l), flood)
      BY <1>1, <1>8, <2>3 DEF updateTopoGeomFaceHeal
    <3>2. ASSUME NEW o \in relation \ (RowsOfFace(r) \cup RowsOfFace(l)), o.type = 3
          PROVE  o.id \in face'
      <4>1. o.id \in face /\ o.id # l /\ o.id # r
        <5> HIDE DEF l, r
        <5> QED BY <3>2, RowsOfType DEF RowsName, Names
      <4> QED BY <2>2, <4>1
    <3>3. flood \in face' /\ flood \in Nat
      BY <2>2
    <3>4. RowsName(Put(RowsOfFace(l), flood), Node', Edge', face')
      <4> HIDE DEF l, flood
      <4> QED BY <1>0, <3>3, PutNamed, RowsOfType
    <3> QED BY <1>5, <3>1, <3>2, <3>4 DEF RowsName
  \* The id is one of the sides only in name: no row has it.
  <2>4. CASE flood \in {l, r}
    <3>1. relation' = relation \ UNION {RowsOfFace(f) : f \in {r, l} \ {flood}}
      BY <1>1, <1>8, <2>4 DEF updateTopoGeomFaceHeal
    <3>2. ASSUME NEW o \in relation' PROVE o \in relation /\ (o.type = 3 => o.id \in face')
      <4>1. o \in relation /\ \A f \in {r, l} \ {flood} : o \notin RowsOfFace(f)
        BY <3>1
      <4> HIDE DEF l, r, flood
      <4>2. o.type = 3 => o.id \in face /\ o.id \notin {r, l} \ {flood}
        BY <4>1, RowsOfType DEF RowsName, Names
      <4> QED BY <2>2, <4>1, <4>2
    <3> QED BY <1>5, <3>2 DEF RowsName
  <2> QED BY <2>3, <2>4
<1> QED BY <1>6, <1>7, <1>8

\* _lwt_AddEdge neither makes nor removes a node.
LEMMA AddEdgeNodes == ASSUME NEW modFace \in BOOLEAN, IInv, AddEdge(modFace) PROVE Node' = Node
<1> USE DEF IInv
<1> DEFINE e == last.edge + 1
           D == DOMAIN next \cup {e, -e}
<1>1. PICK s \in Node, t \in Node, f \in face \cup {0} :
        \E g \in DrawingsBetween(e, s, t, f) : AddEdgeAs(e, s, t, f, g, modFace)
  BY DEF AddEdge
<1>2. PICK g \in DrawingsBetween(e, s, t, f) : AddEdgeAs(e, s, t, f, g, modFace)
  BY <1>1
<1> DEFINE f0 == EdgeFaces(e, s, t, g.rot).left
           sd == [d \in DOMAIN side \cup {e, -e} |-> IF d \in {e, -e} THEN f0 ELSE side[d]]
           cont == [n \in Node |-> IF n \in {s, t} THEN None ELSE containing[n]]
           nx == Linked(e, s, t, g.rot)
           before == FaceState(sd, cont)
           after == IF s # t /\ (Leaving(s) = {} \/ Leaving(t) = {}) THEN before
                    ELSE IF modFace THEN SplitModFace(before, nx, g, e, f0)
                    ELSE SplitNewFaces(before, nx, g, e, f0)
<1>3. /\ Accepted(EdgeFaces(e, s, t, g.rot))
      /\ next' = Linked(e, s, t, g.rot)
      /\ org' = [d \in DOMAIN org \cup {e, -e} |->
                   IF d = e THEN s ELSE IF d = -e THEN t ELSE org[d]]
      /\ side' = after.side
      /\ containing' = after.containing
      /\ face' = after.face
      /\ last' = [node |-> last.node, edge |-> e, face |-> after.last]
      /\ relation' = IF f0 = 0 \/ after.ret <= 0 THEN relation
                     ELSE IF modFace THEN updateTopoGeomFaceSplit(f0, after.ret, -1)
                     ELSE updateTopoGeomFaceSplit(f0, after.ret, after.ret - 1)
      /\ cw' = g.rot
  BY <1>2 DEF AddEdgeAs, DrawLine
<1>4. /\ e \in Int \ {0} /\ e # -e /\ DartSet(D, e)
      /\ e \notin DOMAIN next /\ -e \notin DOMAIN next /\ 0 \notin DOMAIN next
  BY FreshDarts DEF TypeOK
<1>5. DOMAIN next = DOMAIN cw /\ DOMAIN org = DOMAIN next /\ DOMAIN side = DOMAIN next
  BY DEF TypeOK, LinksFollowDrawing
<1>6. e \in Nat /\ last.node \in Nat /\ last.face \in Nat
  BY DEF TypeOK
<1> HIDE DEF e
<1>7. PICK p, q : <<p, q>> \in Places(e, s, t, f) /\ g.rot = InsertEdge(cw, e, p, q)
  BY DrawingRot
<1>8. EndsPlaced(e, s, t, p, q)
  BY <1>4, <1>7, PlacesArePlaced
<1>9. Placed(e, p, q) /\ g.rot = Inserted(e, p, q)
  BY <1>7, <1>8, InsertEdgeValue DEF EndsPlaced
<1>10. f0 \in Nat
  BY <1>3, <1>9, LinksAreStar, AcceptedFace
<1>11. GoodFaces(after, D, cont)
  <2> HIDE DEF f0
  <2>1. sd \in [D -> Nat]
    BY <1>5, <1>10 DEF TypeOK
  <2>2. cont \in [Node -> Nat \cup {None}]
    BY DEF TypeOK
  <2>3. face \subseteq Nat /\ face \subseteq 1..last.face
    BY <1>6 DEF TypeOK
  <2> HIDE DEF sd, cont, D
  <2>4. GoodFaces(before, D, cont)
    BY <1>6, <2>1, <2>2, <2>3 DEF GoodFaces, FaceState
  <2> HIDE DEF before, nx
  <2> QED BY <1>6, <1>10, <2>4, SplitsGood
<1> HIDE DEF after, f0
<1> QED
  <2> HIDE DEF cont, D
  <2> QED BY <1>3, <1>11 DEF Node, GoodFaces

\* _lwt_AddEdge: the rows of a face that is split name the new faces, those of a face that
\* is replaced nothing else.
LEMMA AddEdgeKeepsRows ==
  ASSUME NEW modFace \in BOOLEAN, IInv, TurnsInv, RowsName(relation, Node, Edge, face),
         AddEdge(modFace)
  PROVE  RowsName(relation', Node', Edge', face')
<1> DEFINE e == last.edge + 1
<1>0. /\ TypeOK /\ last.edge \in Nat /\ last.face \in Nat /\ DOMAIN next = Darts(Edge)
      /\ Edge \subseteq 1..last.edge /\ face \subseteq 1..last.face /\ relation \subseteq Row
      /\ DOMAIN next = DOMAIN cw
  BY DEF IInv, TypeOK, LinksFollowDrawing
<1>1. PICK s \in Node, t \in Node, f \in face \cup {0} : \E p, q, g :
        /\ DrawsEdge(e, s, t, p, q, f, g)
        /\ AddEdgeAs(e, s, t, f, g, modFace)
  BY AddEdgeDraws
<1>2. PICK p, q, g : /\ DrawsEdge(e, s, t, p, q, f, g)
                     /\ AddEdgeAs(e, s, t, f, g, modFace)
  BY <1>1
<1> DEFINE f0 == EdgeFaces(e, s, t, g.rot).left
           sd == [d \in DOMAIN side \cup {e, -e} |-> IF d \in {e, -e} THEN f0 ELSE side[d]]
           cont == [n \in Node |-> IF n \in {s, t} THEN None ELSE containing[n]]
           nx == Linked(e, s, t, g.rot)
           before == FaceState(sd, cont)
           dangling == s # t /\ (Leaving(s) = {} \/ Leaving(t) = {})
           after == IF dangling THEN before
                    ELSE IF modFace THEN SplitModFace(before, nx, g, e, f0)
                    ELSE SplitNewFaces(before, nx, g, e, f0)
<1>3. /\ next' = nx
      /\ face' = after.face
      /\ relation' = IF f0 = 0 \/ after.ret <= 0 THEN relation
                     ELSE IF modFace THEN updateTopoGeomFaceSplit(f0, after.ret, -1)
                     ELSE updateTopoGeomFaceSplit(f0, after.ret, after.ret - 1)
  BY <1>2 DEF AddEdgeAs
<1>4. IInv' /\ Rotates(cw', DOMAIN cw') /\ DOMAIN cw' = DOMAIN cw \cup {e, -e}
  <2>1. Next
    BY DEF Next, Edit, AddEdgeModFace, AddEdgeNewFaces
  <2>2. IInv' /\ Rotates(cw', DOMAIN cw')
    BY <2>1, NewRotation DEF TurnsInv
  <2> QED BY <1>2, <2>2 DEF DrawsEdge, Inserted
<1>5. next' = Walk(cw') /\ DOMAIN next' = DOMAIN next \cup {e, -e}
  <2>1. /\ DOMAIN next' = DOMAIN cw' /\ \A d \in DOMAIN next' : next'[d] = cw'[-d]
    BY <1>4 DEF IInv, LinksFollowDrawing
  <2>2. next' = [d \in DOMAIN next' |-> next'[d]]
    BY <1>3 DEF Linked
  <2> QED BY <1>0, <1>4, <2>1, <2>2 DEF Walk
<1>6. Permutes(nx, DOMAIN cw') /\ e \in DOMAIN cw' /\ -e \in DOMAIN cw' /\ e \in Int
  BY <1>0, <1>3, <1>4, <1>5, WalkPermutes
<1>7. Node' = Node /\ \A x \in Edge : x \in Edge'
  <2>1. Node' = Node
    BY AddEdgeNodes
  <2>2. Edge \subseteq DOMAIN next
    BY <1>0 DEF Darts
  <2> QED BY <1>0, <1>5, <2>1, <2>2, EdgesOf
<1>8. IsFaceState(before) /\ before.last = last.face /\ before.face = face /\ before.ret = 0
  <2>1. before.last = last.face /\ before.face = face /\ before.ret = 0
    BY DEF FaceState
  <2>2. before \in [side : {sd}, containing : {cont}, face : {face}, last : Nat, ret : Int]
    BY <1>0 DEF FaceState
  <2>3. before.side = sd /\ before.containing = cont
    BY DEF FaceState
  <2> HIDE DEF sd, cont, before
  <2> QED BY <2>1, <2>2, <2>3 DEF IsFaceState
<1> HIDE DEF before, dangling, f0, nx, e
<1>9. /\ face \subseteq SplitModFace(before, nx, g, e, f0).face
      /\ SplitModFace(before, nx, g, e, f0).ret \in {0, -1, last.face + 1}
      /\ SplitModFace(before, nx, g, e, f0).ret = last.face + 1
           => SplitModFace(before, nx, g, e, f0).ret \in SplitModFace(before, nx, g, e, f0).face
      /\ f0 # 0 /\ SplitNewFaces(before, nx, g, e, f0).ret = 0
           => SplitNewFaces(before, nx, g, e, f0).face = face
      /\ f0 # 0 /\ SplitNewFaces(before, nx, g, e, f0).ret # 0
           => /\ SplitNewFaces(before, nx, g, e, f0).ret = last.face + 2
              /\ SplitNewFaces(before, nx, g, e, f0).face
                   = (face \cup {last.face + 1, last.face + 2}) \ {f0}
      /\ f0 = 0 => face \subseteq SplitNewFaces(before, nx, g, e, f0).face
  <2>1. SplitFacts(before, f0, SplitModFace(before, nx, g, e, f0), SplitNewFaces(before, nx, g, e, f0))
    BY <1>6, <1>8, SplitFaces
  <2> QED BY <1>8, <2>1 DEF SplitFacts
<1>91. ASSUME modFace
       PROVE  /\ face \subseteq after.face
              /\ after.ret \in {0, -1, last.face + 1}
              /\ after.ret = last.face + 1 => after.ret \in after.face
  <2>1. after = before \/ after = SplitModFace(before, nx, g, e, f0)
    BY <1>91
  <2> HIDE DEF after
  <2> QED BY <1>0, <1>8, <1>9, <2>1
<1>92. ASSUME ~modFace
       PROVE  /\ f0 # 0 /\ after.ret = 0 => after.face = face
              /\ f0 # 0 /\ after.ret # 0 =>
                   /\ after.ret = last.face + 2
                   /\ after.face = (face \cup {last.face + 1, last.face + 2}) \ {f0}
              /\ f0 = 0 => face \subseteq after.face
  <2>1. after = before \/ after = SplitNewFaces(before, nx, g, e, f0)
    BY <1>92
  <2> HIDE DEF after
  <2> QED BY <1>0, <1>8, <1>9, <2>1
<1> HIDE DEF after
<1>10. ASSUME NEW r \in relation, r.type = 3 => r.id \in face'
       PROVE  r.tg \in OfType(r.type) /\ Names(r, Node', Edge', face')
  BY <1>7, <1>10 DEF RowsName, Names
<1>11. CASE (f0 = 0 \/ after.ret <= 0) /\ face \subseteq face'
  <2>1. relation' = relation
    BY <1>3, <1>11
  <2> QED BY <1>10, <1>11, <2>1 DEF RowsName, Names
<1>12. CASE modFace /\ ~(f0 = 0 \/ after.ret <= 0)
  <2>1. relation' = relation \cup Put(RowsOfFace(f0), after.ret)
    BY <1>3, <1>12 DEF updateTopoGeomFaceSplit
  <2>2. face \subseteq face' /\ after.ret \in face' /\ after.ret \in Nat
    <3>1. ~(after.ret <= 0) /\ after.ret \in {0, -1, last.face + 1}
      BY <1>91, <1>12
    <3>2. after.ret = last.face + 1
      BY <1>0, <3>1
    <3>3. face \subseteq after.face /\ (after.ret = last.face + 1 => after.ret \in after.face)
      BY <1>91, <1>12
    <3> QED BY <1>0, <1>3, <3>2, <3>3
  <2>3. RowsName(Put(RowsOfFace(f0), after.ret), Node', Edge', face')
    BY <1>0, <2>2, PutNamed, RowsOfType
  <2> QED BY <1>10, <2>1, <2>2, <2>3 DEF RowsName, Names
<1>13. CASE ~modFace /\ f0 # 0 /\ after.ret # 0
  <2>1. /\ after.ret = last.face + 2
        /\ face' = (face \cup {last.face + 1, last.face + 2}) \ {f0}
    BY <1>3, <1>92, <1>13
  <2>2. relation' = (relation \ RowsOfFace(f0)) \cup Put(RowsOfFace(f0), last.face + 2)
                                               \cup Put(RowsOfFace(f0), last.face + 1)
    <3>1. ~(after.ret <= 0) /\ after.ret - 1 = last.face + 1 /\ last.face + 1 # -1
      BY <1>0, <2>1
    <3> QED BY <1>3, <1>13, <2>1, <3>1 DEF updateTopoGeomFaceSplit
  <2>3. ASSUME NEW r \in relation \ RowsOfFace(f0), r.type = 3 PROVE r.id \in face'
    BY <2>1, <2>3, RowsOfType DEF RowsName, Names
  \* A face with rows is one there was, so not one of the new ones.
  <2>4. CASE RowsOfFace(f0) = {}
    <3>1. relation' = relation \ RowsOfFace(f0)
      BY <2>2, <2>4 DEF Put
    <3> QED BY <1>10, <2>3, <3>1 DEF RowsName
  <2>5. CASE RowsOfFace(f0) # {}
    <3>1. f0 \in face
      BY <2>5, RowsOfType DEF RowsName, Names
    <3>2. f0 # last.face + 1 /\ f0 # last.face + 2
      BY <1>0, <3>1
    <3>3. /\ last.face + 1 \in face' /\ last.face + 2 \in face'
          /\ last.face + 1 \in Nat /\ last.face + 2 \in Nat
      BY <1>0, <2>1, <3>2
    <3>4. /\ RowsName(Put(RowsOfFace(f0), last.face + 2), Node', Edge', face')
          /\ RowsName(Put(RowsOfFace(f0), last.face + 1), Node', Edge', face')
      BY <1>0, <3>3, PutNamed, RowsOfType
    <3> QED BY <1>10, <2>2, <2>3, <3>4 DEF RowsName
  <2> QED BY <2>4, <2>5
<1>14. CASE ~modFace /\ f0 # 0 /\ after.ret = 0
  <2>1. face \subseteq after.face /\ after.ret <= 0
    BY <1>92, <1>14
  <2> QED BY <1>3, <1>11, <2>1
<1>15. CASE ~modFace /\ f0 = 0
  <2>1. face \subseteq after.face
    BY <1>92, <1>15
  <2> QED BY <1>3, <1>11, <1>15, <2>1
<1>16. CASE modFace /\ (f0 = 0 \/ after.ret <= 0)
  <2>1. face \subseteq after.face
    BY <1>91, <1>16
  <2> QED BY <1>3, <1>11, <1>16, <2>1
<1> QED BY <1>12, <1>13, <1>14, <1>15, <1>16

\* The other edits make primitives or remove one that no row names; RemIsoEdge is held to
\* that by BackwardRowsGuarded, what its own check lets through being a finding.
LEMMA OthersKeepRows ==
  ASSUME IInv, RowsName(relation, Node, Edge, face), BackwardRowsGuarded,
         AddIsoNode \/ RemoveIsoNode \/ AddIsoEdge \/ RemIsoEdge
  PROVE  RowsName(relation', Node', Edge', face')
<1>0. /\ TypeOK /\ last.edge \in Nat /\ DOMAIN next = Darts(Edge)
  BY DEF IInv, TypeOK
<1>1. CASE AddIsoNode
  <2>1. Node \subseteq Node' /\ Edge' = Edge /\ face' = face /\ relation' = relation
    BY <1>1 DEF AddIsoNode, tgVars, Node, Edge
  <2> QED BY <2>1 DEF RowsName, Names
<1>2. CASE RemoveIsoNode
  <2>1. PICK n \in Node : /\ checkTopoGeomRemIsoNode(n)
                          /\ containing' = [m \in Node \ {n} |-> containing[m]]
                          /\ UNCHANGED <<relation, next, face>>
    BY <1>2 DEF RemoveIsoNode
  <2>2. Node' = Node \ {n} /\ Edge' = Edge
    BY <2>1 DEF Node, Edge
  <2>3. \A r \in relation : r.type = 1 => r.id # n
    BY <2>1 DEF checkTopoGeomRemIsoNode, RowsName
  <2> QED BY <2>1, <2>2, <2>3 DEF RowsName, Names
<1>3. CASE AddIsoEdge
  <2>1. /\ DOMAIN next' = DOMAIN next \cup {last.edge + 1, -(last.edge + 1)}
        /\ DOMAIN containing' = Node /\ relation' = relation /\ face' = face
    BY <1>3 DEF AddIsoEdge, Node
  <2>2. Edge \subseteq DOMAIN next
    BY <1>0 DEF Darts
  <2>3. Edge \subseteq Edge' /\ Node' = Node
    BY <1>0, <2>1, <2>2, EdgesOf DEF Node
  <2> QED BY <2>1, <2>3 DEF RowsName, Names
<1>4. CASE RemIsoEdge
  <2>1. DOMAIN containing' = Node /\ relation' = relation /\ face' = face
    BY <1>4 DEF RemIsoEdge
  <2>2. \A r \in relation : r.type = 2 => Abs(r.id) \in Edge'
    BY <1>4 DEF BackwardRowsGuarded
  <2>3. Node' = Node
    BY <2>1 DEF Node
  <2> QED BY <2>1, <2>2, <2>3 DEF RowsName, Names
<1> QED BY <1>1, <1>2, <1>3, <1>4

\* RelationTrigger lets in no row of a primitive that is not there.
LEMMA RedefinitionKeepsRows ==
  ASSUME IInv, RowsName(relation, Node, Edge, face), Redefinition \/ UNCHANGED vars
  PROVE  RowsName(relation', Node', Edge', face')
<1>1. Node' = Node /\ Edge' = Edge /\ face' = face
  BY DEF Redefinition, AddElement, RemElement, ClearTopoGeom, vars, tableVars, Node, Edge
<1>2. \/ relation' \subseteq relation
      \/ \E r : relation' = relation \cup {r} /\ RelationTriggerAccepts(r, Node, Edge, face)
                /\ r.type \in {1, 2, 3}
  <2>1. CASE AddElement
    <3>1. PICK r \in [tg : TopoGeom, type : {1}, id : Node]
               \cup [tg : TopoGeom, type : {2}, id : Darts(Edge)]
               \cup [tg : TopoGeom, type : {3}, id : face] :
                 TopoGeom_addElement(r, Node, Edge, face)
      BY <2>1 DEF AddElement
    <3>2. r.type \in {1, 2, 3}
      OBVIOUS
    <3> QED BY <3>1, <3>2 DEF TopoGeom_addElement, Redefine
  <2>2. CASE RemElement
    BY <2>2 DEF RemElement, TopoGeom_remElement, Redefine
  <2>3. CASE ClearTopoGeom
    BY <2>3 DEF ClearTopoGeom, clearTopoGeom, Redefine
  <2>4. CASE UNCHANGED vars
    BY <2>4 DEF vars, tgVars
  <2> QED BY <2>1, <2>2, <2>3, <2>4 DEF Redefinition
<1>3. CASE relation' \subseteq relation
  BY <1>1, <1>3 DEF RowsName
<1>4. ASSUME NEW r, relation' = relation \cup {r}, RelationTriggerAccepts(r, Node, Edge, face),
             r.type \in {1, 2, 3}
      PROVE  RowsName(relation', Node', Edge', face')
  <2>1. r.tg \in OfType(r.type)
    BY <1>4 DEF RelationTriggerAccepts
  <2>2. CASE r.type = 1
    BY <1>1, <1>4, <2>1, <2>2 DEF RelationTriggerAccepts, RowsName, Names
  <2>3. CASE r.type = 2
    BY <1>1, <1>4, <2>1, <2>3 DEF RelationTriggerAccepts, RowsName, Names
  <2>4. CASE r.type = 3
    BY <1>1, <1>4, <2>1, <2>4 DEF RelationTriggerAccepts, RowsName, Names
  <2> QED BY <1>4, <2>2, <2>3, <2>4
<1> QED BY <1>2, <1>3, <1>4

\* So no step leaves a row dangling.
LEMMA RowsInvNext ==
  IInv /\ TurnsInv /\ RowsInv /\ [Next /\ BackwardRowsGuarded]_vars => (IInv /\ TurnsInv /\ RowsInv)'
<1>2. IInv => relation \subseteq Row
  BY DEF IInv, TypeOK
<1>3. IInv => (RowsInv <=> RowsName(relation, Node, Edge, face))
  BY <1>2, RowsNamed DEF RowsName
<1>4. IInv' => (RowsInv' <=> RowsName(relation', Node', Edge', face'))
  <2>1. (IInv => (RowsInv <=> RowsName(relation, Node, Edge, face)))'
    BY <1>3, PTL
  <2> QED BY <2>1 DEF RowsName, Names
<1> SUFFICES ASSUME IInv, TurnsInv, RowsInv, [Next /\ BackwardRowsGuarded]_vars
             PROVE  (IInv /\ TurnsInv /\ RowsInv)'
  OBVIOUS
<1>11. [Next]_vars /\ IInv' /\ TurnsInv'
  BY NextInv, TurnsInvNext
<1>12. RowsName(relation, Node, Edge, face)
  BY <1>3
<1>13. RowsName(relation', Node', Edge', face')
  <2>1. CASE Redefinition \/ UNCHANGED vars
    BY <1>12, <2>1, RedefinitionKeepsRows
  <2>2. CASE BackwardRowsGuarded /\ (AddIsoNode \/ RemoveIsoNode \/ AddIsoEdge \/ RemIsoEdge)
    BY <1>12, <2>2, OthersKeepRows
  <2>3. CASE ModEdgeSplit \/ NewEdgesSplit
    BY <1>12, <2>3, SplitsKeepRows
  <2>4. CASE \E modEdge \in BOOLEAN : HealEdges(modEdge)
    BY <1>12, <2>4, HealsKeepRows
  <2>5. CASE \E modFace \in BOOLEAN : AddEdge(modFace)
    BY <1>12, <2>5, AddEdgeKeepsRows
  <2>6. CASE \E modFace \in BOOLEAN : RemEdge(modFace)
    BY <1>12, <2>6, RemEdgeKeepsRows
  <2>7. TRUE \in BOOLEAN /\ FALSE \in BOOLEAN
    OBVIOUS
  <2> QED BY <2>1, <2>2, <2>3, <2>4, <2>5, <2>6, <2>7
        DEF Next, Edit, ModEdgeHeal, NewEdgeHeal, AddEdgeModFace, AddEdgeNewFaces,
            RemEdgeModFace, RemEdgeNewFace
<1> QED BY <1>4, <1>11, <1>13

\* There are none in the beginning.
LEMMA RowsInvInit == Init => IInv /\ TurnsInv /\ RowsInv
<1>11. Init => RowsInv
  BY DEF Init, TopoGeomInit, RowsInv, RelationRefersToPrimitives
<1>12. Init => TurnsInv
  BY DEF Init, GeomInit, TurnsInv, OneTurn
<1> QED BY InitInv, <1>11, <1>12

\* Every row of the relation table refers to a primitive that exists, whatever edits and
\* redefinitions led here, but for the removals of an isolated edge that a TopoGeometry
\* walks backward, which cb_checkTopoGeomRemIsoEdge lets through.
THEOREM RowsCorrect == GuardedSpec => []RelationRefersToPrimitives
BY RowsInvInit, RowsInvNext, PTL DEF GuardedSpec, RowsInv

\* Without lineal layers and collections nothing is left out.
THEOREM RowsWithoutLinesCorrect ==
  ASSUME \A tg \in TopoGeom : FeatureType[tg] \notin {2, 4}
  PROVE  Spec => []RelationRefersToPrimitives
<1>1. RowsInv /\ [Next]_vars => [Next /\ BackwardRowsGuarded]_vars
  <2>1. RowsInv => \A r \in relation : r.type # 2
    BY DEF RowsInv, OfType
  <2> QED BY <2>1 DEF BackwardRowsGuarded
<1> QED BY <1>1, RowsInvInit, RowsInvNext, PTL DEF Spec, RowsInv

-----------------------------------------------------------------------------
(* One curve more or less. b is a rotation of darts B, and a that of the darts A *)
(* without the curve of e: drawing e leads from a to b, erasing it back.         *)

Grows(a, A, b, B, e) ==
  /\ Rotates(a, A) /\ Rotates(b, B)
  /\ e \in Int \ {0} /\ e \notin A /\ -e \notin A /\ B = A \cup {e, -e}
  /\ \A x \in A : a[x] = IF b[x] \notin {e, -e} THEN b[x]
                         ELSE IF b[b[x]] \notin {e, -e} THEN b[b[x]] ELSE b[b[b[x]]]

\* What is before the ends of e clockwise, when anything is.
LEMMA GrowsLinks ==
  ASSUME NEW a, NEW A, NEW b, NEW B, NEW e, Grows(a, A, b, B, e)
  PROVE  /\ \A x \in B : x \in Int /\ -x \in B /\ -(-x) = x /\ b[x] \in B
         /\ \A x \in A : x \in Int /\ -x \in A /\ -(-x) = x /\ a[x] \in A
         /\ \A x, y \in B : b[x] = b[y] => x = y
         /\ e # -e /\ e \in B /\ -e \in B /\ A \subseteq B /\ B \ A = {e, -e} /\ -(-e) = e
         /\ \A x \in A : b[x] \notin {e, -e} => a[x] = b[x]
         /\ \A x \in A : b[x] = e => b[e] # e /\ a[x] = IF b[e] = -e THEN b[-e] ELSE b[e]
         /\ \A x \in A : b[x] = -e => b[-e] # -e /\ a[x] = IF b[-e] = e THEN b[e] ELSE b[-e]
<1>1. /\ \A x \in B : x \in Int /\ -x \in B /\ -(-x) = x /\ b[x] \in B
      /\ \A x \in A : x \in Int /\ -x \in A /\ -(-x) = x /\ a[x] \in A
      /\ \A x, y \in B : b[x] = b[y] => x = y
  BY DEF Grows, Rotates, Permutes
<1>2. e # -e /\ e \in B /\ -e \in B /\ A \subseteq B /\ B \ A = {e, -e} /\ -(-e) = e
  BY DEF Grows
<1>3. \A x \in A : b[x] \notin {e, -e} => a[x] = b[x]
  BY DEF Grows
<1>4. ASSUME NEW x \in A, b[x] = e PROVE b[e] # e /\ a[x] = IF b[e] = -e THEN b[-e] ELSE b[e]
  <2>1. b[e] # e
    BY <1>1, <1>2, <1>4 DEF Grows
  <2> QED BY <1>4, <2>1 DEF Grows
<1>5. ASSUME NEW x \in A, b[x] = -e PROVE b[-e] # -e /\ a[x] = IF b[-e] = e THEN b[e] ELSE b[-e]
  <2>1. b[-e] # -e
    BY <1>1, <1>2, <1>5 DEF Grows
  <2> QED BY <1>5, <2>1 DEF Grows
<1> QED BY <1>1, <1>2, <1>3, <1>4, <1>5

\* Sets of rings before and after: one that has e on both sides or on none loses it;
\* one gains it when it has what follows both ends.
LEMMA GrowsWalked ==
  ASSUME NEW a, NEW A, NEW b, NEW B, NEW e, Grows(a, A, b, B, e)
  PROVE  /\ \A S \in SUBSET B : Walked(b, S) /\ (e \in S <=> -e \in S) => Walked(a, S \ {e, -e})
         /\ \A S \in SUBSET A : /\ Walked(a, S) /\ b[e] \in S \cup {e, -e} /\ b[-e] \in S \cup {e, -e}
                                => Walked(b, S \cup {e, -e})
         /\ \A S \in SUBSET A : /\ Walked(a, S) /\ b[e] \notin S /\ b[-e] \notin S => Walked(b, S)
<1> USE GrowsLinks
<1>1. ASSUME NEW S \in SUBSET B, Walked(b, S), e \in S <=> -e \in S, NEW x \in S \ {e, -e}
      PROVE  a[-x] \in S \ {e, -e}
  <2>1. -x \in A /\ b[-x] \in S
    BY <1>1 DEF Walked
  <2>2. CASE b[-x] \notin {e, -e}
    BY <2>1, <2>2
  <2>3. CASE b[-x] \in {e, -e}
    <3>1. e \in S /\ -e \in S /\ b[-e] \in S /\ b[e] \in S
      <4>1. e \in S /\ -e \in S /\ -(-e) = e
        BY <1>1, <2>1, <2>3
      <4>2. b[-(-e)] \in S /\ b[-e] \in S
        BY <1>1, <4>1 DEF Walked
      <4> QED BY <4>1, <4>2
    <3>2. a[-x] \in {b[e], b[-e]}
      BY <2>1, <2>3
    <3>3. a[-x] \in A
      BY <2>1
    <3> QED BY <3>1, <3>2, <3>3
  <2> QED BY <2>2, <2>3
<1>2. ASSUME NEW S \in SUBSET A, Walked(a, S), b[e] \in S \cup {e, -e}, b[-e] \in S \cup {e, -e},
             NEW x \in S \cup {e, -e}
      PROVE  b[-x] \in S \cup {e, -e}
  <2>1. CASE x \in S
    <3>1. -x \in A /\ a[-x] \in S
      BY <1>2, <2>1 DEF Walked
    <3> QED BY <3>1
  <2>2. CASE x \in {e, -e}
    BY <1>2, <2>2
  <2> QED BY <2>1, <2>2
<1>3. ASSUME NEW S \in SUBSET A, Walked(a, S), b[e] \notin S, b[-e] \notin S, NEW x \in S
      PROVE  b[-x] \in S
  <2>1. -x \in A /\ a[-x] \in S
    BY <1>3 DEF Walked
  <2> QED BY <1>3, <2>1
<1> QED BY <1>1, <1>2, <1>3 DEF Walked

\* And sets of pieces.
LEMMA GrowsClosed ==
  ASSUME NEW a, NEW A, NEW b, NEW B, NEW e, Grows(a, A, b, B, e)
  PROVE  /\ \A S \in SUBSET B : Closed(b, S) => Closed(a, S \ {e, -e})
         /\ \A S \in SUBSET A : /\ Closed(a, S) /\ b[e] \in S \cup {e, -e} /\ b[-e] \in S \cup {e, -e}
                                => Closed(b, S \cup {e, -e})
         /\ \A S \in SUBSET A : /\ Closed(a, S) /\ b[e] \notin S /\ b[-e] \notin S => Closed(b, S)
<1> USE GrowsLinks
<1>1. ASSUME NEW S \in SUBSET B, Closed(b, S), NEW x \in S \ {e, -e}
      PROVE  a[x] \in S \ {e, -e} /\ -x \in S \ {e, -e}
  <2>1. x \in A /\ -x \in A /\ -x \in S /\ b[x] \in S /\ a[x] \in A
    BY <1>1 DEF Closed
  <2>2. CASE b[x] \notin {e, -e}
    BY <2>1, <2>2
  <2>3. CASE b[x] \in {e, -e}
    <3>1. b[-e] \in S /\ b[e] \in S
      BY <1>1, <2>1, <2>3 DEF Closed
    <3>2. a[x] \in {b[e], b[-e]}
      BY <2>1, <2>3
    <3> QED BY <2>1, <3>1, <3>2
  <2> QED BY <2>2, <2>3
<1>2. ASSUME NEW S \in SUBSET A, Closed(a, S), b[e] \in S \cup {e, -e}, b[-e] \in S \cup {e, -e},
             NEW x \in S \cup {e, -e}
      PROVE  b[x] \in S \cup {e, -e} /\ -x \in S \cup {e, -e}
  <2>1. CASE x \in S
    <3>1. x \in A /\ a[x] \in S /\ -x \in S
      BY <1>2, <2>1 DEF Closed
    <3> QED BY <3>1
  <2>2. CASE x \in {e, -e}
    BY <1>2, <2>2
  <2> QED BY <2>1, <2>2
<1>3. ASSUME NEW S \in SUBSET A, Closed(a, S), b[e] \notin S, b[-e] \notin S, NEW x \in S
      PROVE  b[x] \in S /\ -x \in S
  <2>1. x \in A /\ a[x] \in S /\ -x \in S
    BY <1>3 DEF Closed
  <2> QED BY <1>3, <2>1
<1> QED BY <1>1, <1>2, <1>3 DEF Closed

\* A set of pieces is a set of rings, and what is left without a set of rings is one.
LEMMA WalkedSets ==
  ASSUME NEW c, NEW D, Rotates(c, D)
  PROVE  /\ \A S \in SUBSET D : Closed(c, S) => Walked(c, S) /\ \A x \in S : -x \in S
         /\ \A S \in SUBSET D : Walked(c, S) => /\ \A x \in D : c[-x] \in S <=> x \in S
                                                /\ Walked(c, D \ S)
         /\ \A S, T \in SUBSET D : Walked(c, S) /\ Walked(c, T)
              => Walked(c, S \cap T) /\ Walked(c, S \cup T) /\ Walked(c, S \ T)
<1>1. /\ Permutes(Walk(c), D)
      /\ \A x \in D : Walk(c)[x] = c[-x] /\ c[-x] \in D
  BY WalkPermutes
<1>2. ASSUME NEW S \in SUBSET D, Walked(c, S), NEW x \in D, c[-x] \in S PROVE x \in S
  <2>1. ClosedUnder(Walk(c), S)
    BY <1>1, <1>2 DEF ClosedUnder, Walked
  <2> QED BY <1>1, <1>2, <2>1, EnteredFromWithin
<1>3. ASSUME NEW S \in SUBSET D, Closed(c, S) PROVE Walked(c, S) /\ \A x \in S : -x \in S
  BY <1>3 DEF Closed, Walked
<1>4. ASSUME NEW S \in SUBSET D, Walked(c, S)
      PROVE  (\A x \in D : c[-x] \in S <=> x \in S) /\ Walked(c, D \ S)
  <2>1. \A x \in D : c[-x] \in S <=> x \in S
    BY <1>2, <1>4 DEF Walked
  <2> QED BY <1>1, <2>1 DEF Walked
<1>5. ASSUME NEW S \in SUBSET D, NEW T \in SUBSET D, Walked(c, S), Walked(c, T)
      PROVE  Walked(c, S \cap T) /\ Walked(c, S \cup T) /\ Walked(c, S \ T)
  <2>1. \A x \in D : c[-x] \in T <=> x \in T
    BY <1>4, <1>5
  <2> QED BY <1>5, <2>1 DEF Walked
<1> QED BY <1>3, <1>4, <1>5

\* One of the three at a time.
LEMMA WalkedMinus ==
  ASSUME NEW c, NEW D, Rotates(c, D), NEW S \in SUBSET D, NEW T \in SUBSET D,
         Walked(c, S), Walked(c, T)
  PROVE  Walked(c, S \cap T) /\ Walked(c, S \cup T) /\ Walked(c, S \ T)
BY WalkedSets

\* The curve of e parts a ring: L and R, on its two sides, are K without it.
Parts(b, e, L, R, K) ==
  /\ L = Orbit(Walk(b), e) /\ R = Orbit(Walk(b), -e) /\ K = (L \cup R) \ {e, -e}
  /\ -e \notin L

\* The two rings of a curve that is added and parts a ring are disjoint, each is the least set that
\* holds its dart, and without the curve they are one.
LEMMA PartedRings ==
  ASSUME NEW a, NEW A, NEW b, NEW B, NEW e, Grows(a, A, b, B, e),
         NEW L, NEW R, NEW K, Parts(b, e, L, R, K)
  PROVE  /\ e \in L /\ -e \in R /\ e \notin R /\ -e \notin L /\ L \cap R = {}
         /\ L \subseteq B /\ R \subseteq B /\ Walked(b, L) /\ Walked(b, R)
         /\ \A S \in SUBSET B : Walked(b, S) => (e \in S <=> L \cap S # {}) /\ (e \in S => L \subseteq S)
         /\ \A S \in SUBSET B : Walked(b, S) => (-e \in S <=> R \cap S # {}) /\ (-e \in S => R \subseteq S)
         /\ K \subseteq A /\ Walked(a, K)
         /\ b[-e] \in L /\ b[e] \in R
         /\ \A S \in SUBSET A : Walked(a, S) /\ S \cap K # {} => K \subseteq S
<1> USE GrowsLinks
<1>0. Rotates(b, B) /\ Rotates(a, A)
  BY DEF Grows
<1>1. /\ e \in L /\ L \subseteq B
      /\ \A y \in B : b[-y] \in L <=> y \in L
      /\ \A S : e \in S /\ Walked(b, S \cap B) => L \subseteq S
      /\ \A y \in L : Orbit(Walk(b), y) = L
  BY <1>0, RingsPart DEF Parts
<1>2. /\ -e \in R /\ R \subseteq B
      /\ \A y \in B : b[-y] \in R <=> y \in R
      /\ \A S : -e \in S /\ Walked(b, S \cap B) => R \subseteq S
      /\ \A y \in R : Orbit(Walk(b), y) = R
  BY <1>0, RingsPart DEF Parts
<1>3. L \cap R = {} /\ -e \notin L /\ e \notin R
  <2>1. -e \notin L
    BY DEF Parts
  <2>2. ASSUME NEW y \in L, y \in R PROVE FALSE
    BY <1>1, <1>2, <2>1, <2>2
  <2> QED BY <1>1, <2>1, <2>2
<1>4. Walked(b, L) /\ Walked(b, R)
  BY <1>1, <1>2 DEF Walked
<1>5. ASSUME NEW S \in SUBSET B, Walked(b, S) PROVE e \in S => L \subseteq S
  <2>1. S \cap B = S
    BY <1>5
  <2> QED BY <1>1, <1>5, <2>1
<1>6. ASSUME NEW S \in SUBSET B, Walked(b, S) PROVE -e \in S => R \subseteq S
  <2>1. S \cap B = S
    BY <1>6
  <2> QED BY <1>2, <1>6, <2>1
<1>7. ASSUME NEW S \in SUBSET B, Walked(b, S), L \cap S # {} PROVE e \in S
  <2>1. Walked(b, B \ S)
    BY <1>0, <1>7, WalkedSets
  <2>2. e \notin S => L \subseteq B \ S
    BY <1>5, <2>1
  <2> QED BY <1>7, <2>2
<1>8. ASSUME NEW S \in SUBSET B, Walked(b, S), R \cap S # {} PROVE -e \in S
  <2>1. Walked(b, B \ S)
    BY <1>0, <1>8, WalkedSets
  <2>2. -e \notin S => R \subseteq B \ S
    BY <1>6, <2>1
  <2> QED BY <1>8, <2>2
<1>9. K \subseteq A /\ K = (L \cup R) \ {e, -e}
  BY <1>1, <1>2 DEF Parts
<1>10. Walked(a, K)
  <2>1. Walked(b, L \cup R) /\ L \cup R \in SUBSET B
    BY <1>1, <1>2, <1>4 DEF Walked
  <2> QED BY <1>1, <1>2, <1>9, <2>1, GrowsWalked
<1>11. b[-e] \in L /\ b[e] \in R
  BY <1>1, <1>2
<1>12. ASSUME NEW S \in SUBSET A, Walked(a, S), S \cap K # {} PROVE K \subseteq S
  \* Following the walk from S, it leaves S at an end of e.
  <2>1. ASSUME S \cap L # {} PROVE \E z \in S \cap L : b[-z] = e
    <3>1. S \cap L \in SUBSET B /\ e \notin S
      BY <1>1
    <3>2. ~Walked(b, S \cap L)
      BY <1>7, <2>1, <3>1
    <3>3. PICK z \in S \cap L : b[-z] \notin S \cap L
      BY <3>2 DEF Walked
    <3>4. b[-z] \in L /\ -z \in A /\ a[-z] \in S
      BY <1>4, <1>12, <3>3 DEF Walked
    <3> QED BY <1>3, <3>3, <3>4
  <2>2. ASSUME S \cap R # {} PROVE \E z \in S \cap R : b[-z] = -e
    <3>1. S \cap R \in SUBSET B /\ -e \notin S
      BY <1>2
    <3>2. ~Walked(b, S \cap R)
      BY <1>8, <2>2, <3>1
    <3>3. PICK z \in S \cap R : b[-z] \notin S \cap R
      BY <3>2 DEF Walked
    <3>4. b[-z] \in R /\ -z \in A /\ a[-z] \in S
      BY <1>4, <1>12, <3>3 DEF Walked
    <3> QED BY <1>3, <3>3, <3>4
  <2>3. ASSUME S \cap L # {} PROVE (b[e] = -e /\ b[-e] \in S) \/ b[e] \in S
    <3>1. PICK z \in S \cap L : b[-z] = e
      BY <2>1, <2>3
    <3>2. -z \in A /\ a[-z] \in S
      BY <1>12, <3>1 DEF Walked
    <3> QED BY <3>1, <3>2
  <2>4. ASSUME S \cap R # {} PROVE (b[-e] = e /\ b[e] \in S) \/ b[-e] \in S
    <3>1. PICK z \in S \cap R : b[-z] = -e
      BY <2>2, <2>4
    <3>2. -z \in A /\ a[-z] \in S
      BY <1>12, <3>1 DEF Walked
    <3> QED BY <3>1, <3>2
  <2>5. S \cap L # {} \/ S \cap R # {}
    BY <1>9, <1>12
  <2>6. b[e] \in S => S \cap R # {}
    BY <1>11
  <2>7. b[-e] \in S => S \cap L # {}
    BY <1>11
  <2>8. b[e] \in S \cup {e, -e} /\ b[-e] \in S \cup {e, -e}
    BY <2>3, <2>4, <2>5, <2>6, <2>7
  <2>9. Walked(b, S \cup {e, -e}) /\ S \cup {e, -e} \in SUBSET B
    BY <1>12, <2>8, GrowsWalked
  <2>10. L \subseteq S \cup {e, -e} /\ R \subseteq S \cup {e, -e}
    BY <1>5, <1>6, <2>9
  <2> QED BY <1>9, <2>10
<1> QED BY <1>1, <1>2, <1>3, <1>4, <1>5, <1>6, <1>7, <1>8, <1>9, <1>10, <1>11, <1>12

-----------------------------------------------------------------------------
(* Parity, of finite sets of darts.                                          *)

Odd(S) == \E k \in Nat : Cardinality(S) = 2 * k + 1

\* One element more turns odd into even and even into odd.
LEMMA OddStep ==
  ASSUME NEW S, IsFiniteSet(S), NEW y, y \notin S
  PROVE  Odd(S \cup {y}) <=> ~Odd(S)
<1>1. Cardinality(S) \in Nat /\ Cardinality(S \cup {y}) = Cardinality(S) + 1
  BY FS_CardinalityType, FS_AddElement
<1> DEFINE n == Cardinality(S)
<1>2. n \in Nat
  BY <1>1
<1> HIDE DEF n
<1>3. (\E k \in Nat : n = 2 * k + 1) => ~(\E k \in Nat : n + 1 = 2 * k + 1)
  BY <1>2
<1>4. (\E k \in Nat : n = 2 * k) \/ (\E k \in Nat : n = 2 * k + 1)
  <2> DEFINE E == {m \in 0..n : (\E k \in Nat : m = 2 * k) \/ (\E k \in Nat : m = 2 * k + 1)}
  <2>1. 0 \in E
    BY <1>2
  <2>2. \A m \in 0..n : m < n /\ m \in E => m + 1 \in E
    <3> SUFFICES ASSUME NEW m \in 0..n, m < n, m \in E PROVE m + 1 \in E
      OBVIOUS
    <3>1. CASE \E k \in Nat : m = 2 * k
      BY <1>2, <3>1
    <3>2. CASE \E k \in Nat : m = 2 * k + 1
      <4>1. PICK k \in Nat : m = 2 * k + 1
        BY <3>2
      <4>2. m + 1 = 2 * (k + 1) /\ k + 1 \in Nat
        BY <4>1
      <4>3. \E j \in Nat : m + 1 = 2 * j
        BY <4>2
      <4>4. m + 1 \in 0..n
        BY <1>2
      <4> QED BY <4>3, <4>4
    <3> QED BY <3>1, <3>2
  <2> HIDE DEF E
  <2>3. 0..n \subseteq E
    BY <1>2, <2>1, <2>2, UpTo
  <2>4. n \in E
    BY <1>2, <2>3
  <2> QED BY <2>4 DEF E
<1>5. (\E k \in Nat : n = 2 * k) => \E k \in Nat : n + 1 = 2 * k + 1
  BY <1>2
<1> QED BY <1>1, <1>3, <1>4, <1>5 DEF Odd, n

\* Nothing is even, and so is one set with another of its size that is apart.
LEMMA OddFacts ==
  /\ ~Odd({})
  /\ \A S, T : IsFiniteSet(S) /\ IsFiniteSet(T) /\ Cardinality(S) = Cardinality(T)
       => ~Odd((S \cup T) \ (S \cap T))
<1>1. ~Odd({})
  BY FS_EmptySet DEF Odd
<1>2. ASSUME NEW S, NEW T, IsFiniteSet(S), IsFiniteSet(T), Cardinality(S) = Cardinality(T)
      PROVE  ~Odd((S \cup T) \ (S \cap T))
  <2> DEFINE I == S \cap T
             X == S \ I
             Y == T \ I
  <2>1. IsFiniteSet(I) /\ IsFiniteSet(X) /\ IsFiniteSet(Y)
    BY <1>2, FS_Subset
  <2>2. /\ S = X \cup I /\ X \cap I = {} /\ T = Y \cup I /\ Y \cap I = {}
        /\ (S \cup T) \ (S \cap T) = X \cup Y /\ X \cap Y = {}
    OBVIOUS
  <2> HIDE DEF I, X, Y
  <2>3. /\ Cardinality(S) = Cardinality(X) + Cardinality(I) - Cardinality(X \cap I)
        /\ Cardinality(T) = Cardinality(Y) + Cardinality(I) - Cardinality(Y \cap I)
        /\ Cardinality(X \cup Y) = Cardinality(X) + Cardinality(Y) - Cardinality(X \cap Y)
    BY <2>1, <2>2, FS_Union
  <2>4. Cardinality({}) = 0 /\ Cardinality(X) \in Nat /\ Cardinality(Y) \in Nat /\ Cardinality(I) \in Nat
    BY <2>1, FS_EmptySet, FS_CardinalityType
  <2>5. Cardinality(X) = Cardinality(Y)
    <3>1. Cardinality(X \cap I) = 0 /\ Cardinality(Y \cap I) = 0
      BY <2>2, <2>4
    <3>2. /\ Cardinality(S) = Cardinality(X) + Cardinality(I) - 0
          /\ Cardinality(T) = Cardinality(Y) + Cardinality(I) - 0
      BY <2>3, <3>1
    <3>3. \A x, y, i \in Nat : x + i - 0 = y + i - 0 => x = y
      OBVIOUS
    <3>4. Cardinality(X) + Cardinality(I) - 0 = Cardinality(Y) + Cardinality(I) - 0
      BY <1>2, <3>2
    <3> QED BY <2>4, <3>3, <3>4
  <2>6. Cardinality(X \cup Y) = Cardinality(X) + Cardinality(X)
    <3>1. Cardinality(X \cap Y) = 0
      BY <2>2, <2>4
    <3> QED BY <2>3, <2>4, <2>5, <3>1
  <2> DEFINE k == Cardinality(X)
  <2>7. k \in Nat /\ Cardinality((S \cup T) \ (S \cap T)) = k + k
    BY <2>2, <2>4, <2>6
  <2> HIDE DEF k
  <2>8. \A j \in Nat : k + k # 2 * j + 1
    BY <2>7
  <2> QED BY <2>7, <2>8 DEF Odd
<1> QED BY <1>1, <1>2

\* A curve added to a symmetric set of curves counts in S once for each side on it.
LEMMA OddCurve ==
  ASSUME NEW X, NEW S, IsFiniteSet(X), NEW y \in Int \ {0}, y \notin X, -y \notin X
  PROVE  Odd((X \cup {y, -y}) \cap S) <=> (Odd(X \cap S) <=> (y \in S <=> -y \in S))
<1>1. IsFiniteSet(X \cap S) /\ y # -y
  BY FS_Subset
<1>2. CASE y \notin S /\ -y \notin S
  <2>1. (X \cup {y, -y}) \cap S = X \cap S
    BY <1>2
  <2> QED BY <1>2, <2>1
<1>3. CASE y \in S /\ -y \notin S
  <2>1. (X \cup {y, -y}) \cap S = (X \cap S) \cup {y}
    BY <1>3
  <2> QED BY <1>1, <1>3, <2>1, OddStep
<1>4. CASE y \notin S /\ -y \in S
  <2>1. (X \cup {y, -y}) \cap S = (X \cap S) \cup {-y}
    BY <1>4
  <2> QED BY <1>1, <1>4, <2>1, OddStep
<1>5. CASE y \in S /\ -y \in S
  <2>1. (X \cup {y, -y}) \cap S = ((X \cap S) \cup {y}) \cup {-y}
    BY <1>5
  <2>2. IsFiniteSet((X \cap S) \cup {y}) /\ -y \notin (X \cap S) \cup {y}
    BY <1>1, FS_AddElement
  <2>3. Odd((X \cap S) \cup {y}) <=> ~Odd(X \cap S)
    BY <1>1, OddStep
  <2>4. Odd(((X \cap S) \cup {y}) \cup {-y}) <=> ~Odd((X \cap S) \cup {y})
    BY <2>2, OddStep
  <2> QED BY <1>5, <2>1, <2>3, <2>4
<1> QED BY <1>2, <1>3, <1>4, <1>5

\* A side of every node: C has all darts that leave a node or none.
Sides(c, D, C) == C \subseteq D /\ \A x \in D : x \in C <=> c[x] \in C

\* The darts that go from one side to the other.
Crossing(D, C) == {x \in D : (x \in C) # (-x \in C)}

\* However the nodes are put on two sides, a ring goes back and forth evenly.
LEMMA RingsCrossEvenly ==
  ASSUME NEW c, NEW D, Rotates(c, D), NEW C, Sides(c, D, C), NEW S \in SUBSET D, Walked(c, S)
  PROVE  ~Odd(Crossing(D, C) \cap S)
<1> DEFINE P == {x \in S : x \in C}
           Q == {x \in S : -x \in C}
           w == [x \in Q |-> c[-x]]
<1>1. /\ Permutes(Walk(c), D)
      /\ \A x \in D : Walk(c)[x] = c[-x] /\ c[-x] \in D
      /\ \A x \in D : -x \in D
  BY WalkPermutes DEF Rotates
<1>2. IsFiniteSet(P) /\ IsFiniteSet(Q)
  <2>1. IsFiniteSet(S)
    BY <1>1, FS_Subset DEF Permutes
  <2> QED BY <2>1, FS_Subset
<1>3. w \in [Q -> P]
  BY <1>1 DEF Sides, Walked
<1>4. \A x, y \in Q : w[x] = w[y] => x = y
  BY <1>1 DEF Permutes
<1>5. \A y \in P : \E x \in Q : w[x] = y
  <2> SUFFICES ASSUME NEW y \in P PROVE \E x \in Q : c[-x] = y
    OBVIOUS
  <2>1. Walk(c) \in Surjection(D, D)
    <3>1. Walk(c) \in Injection(D, D) /\ IsFiniteSet(D)
      BY <1>1 DEF Permutes, Injection, IsInjective
    <3> QED BY <3>1, FS_Injection
  <2>2. PICK x \in D : c[-x] = y
    BY <1>1, <2>1 DEF Surjection
  <2>3. x \in S
    BY <2>2, WalkedSets
  <2> QED BY <1>1, <2>2, <2>3 DEF Sides
<1>6. Cardinality(P) = Cardinality(Q)
  <2>1. w \in Bijection(Q, P)
    <3> HIDE DEF w, P, Q
    <3> QED BY <1>3, <1>4, <1>5 DEF Bijection, Injection, IsInjective, Surjection
  <2>2. ExistsBijection(Q, P)
    BY <2>1, Zenon DEF ExistsBijection
  <2> QED BY <1>2, <2>2, FS_Bijection, Zenon
<1>7. Crossing(D, C) \cap S = (P \cup Q) \ (P \cap Q)
  BY DEF Crossing
<1> HIDE DEF P, Q
<1> QED BY <1>2, <1>6, <1>7, OddFacts

-----------------------------------------------------------------------------
(* What makes a rotation c of darts D, with the darts h of outer boundaries and  *)
(* the regions rg on the left of darts, a drawing in the plane.                  *)

SameRing(c, D, x, y) == \A S \in SUBSET D : Walked(c, S) /\ x \in S => y \in S
SamePiece(c, D, x, y) == \A S \in SUBSET D : Closed(c, S) /\ x \in S => y \in S

\* Walking along a ring the region on the left stays the same.
OneRegion(c, D, rg) == \A x \in D : rg[c[-x]] = rg[x]

\* A ring is the outer boundary of its piece with all of its darts or none.
HolesWhole(c, D, h) == h \subseteq D /\ \A x \in D : x \in h <=> c[-x] \in h

\* The other rings, the shells, are in bounded regions and no two in one.
OneShell(c, D, h, rg) == /\ \A x \in D \ h : rg[x] # 0
                         /\ \A x, y \in D \ h : rg[x] = rg[y] => SameRing(c, D, x, y)

\* A piece has one outer boundary.
OneHole(c, D, h) == \A x, y \in h : SamePiece(c, D, x, y) => SameRing(c, D, x, y)
HasHole(c, D, h) == \A x \in D : \E y \in h : SamePiece(c, D, x, y)

\* A set of whole curves that meets the boundary of every region evenly is all that
\* leads from one side to the other, for some way to put the nodes on two sides.
Curves(X) == \A x \in X : -x \in X
RegionOf(D, rg, z) == {x \in D : rg[x] = rg[z]}
Evenly(D, rg, X) == \A z \in D : ~Odd(X \cap RegionOf(D, rg, z))
Jordan(c, D, rg) ==
  \A X \in SUBSET D : Curves(X) /\ Evenly(D, rg, X) => \E C : Sides(c, D, C) /\ Crossing(D, C) = X

Planar(c, D, h, rg) == /\ Rotates(c, D) /\ OneRegion(c, D, rg) /\ HolesWhole(c, D, h)
                       /\ OneShell(c, D, h, rg) /\ OneHole(c, D, h) /\ HasHole(c, D, h)
                       /\ Jordan(c, D, rg)

\* Being in one ring or in one piece is mutual.
LEMMA Mutual ==
  ASSUME NEW c, NEW D, Rotates(c, D), NEW x \in D, NEW y \in D
  PROVE  /\ SameRing(c, D, x, y) => SameRing(c, D, y, x)
         /\ SamePiece(c, D, x, y) => SamePiece(c, D, y, x)
         /\ SameRing(c, D, x, y) => SamePiece(c, D, x, y)
<1>1. ASSUME SameRing(c, D, x, y), NEW S \in SUBSET D, Walked(c, S), y \in S PROVE x \in S
  <2>1. Walked(c, D \ S) /\ D \ S \in SUBSET D
    BY <1>1, WalkedSets
  <2> QED BY <1>1, <2>1 DEF SameRing
<1>2. ASSUME SamePiece(c, D, x, y), NEW S \in SUBSET D, Closed(c, S), y \in S PROVE x \in S
  <2>1. Closed(c, D \ S) /\ D \ S \in SUBSET D
    BY <1>2, ClosedBackwards
  <2> QED BY <1>2, <2>1 DEF SamePiece
<1>3. SameRing(c, D, x, y) => SamePiece(c, D, x, y)
  BY WalkedSets DEF SameRing, SamePiece
<1> QED BY <1>1, <1>2, <1>3 DEF SameRing, SamePiece

\* Z has the curve of y if X has not, and has not if X has.
Toggles(X, Z, y) ==
  /\ Curves(Z) /\ IsFiniteSet(Z) /\ Z \subseteq X \cup {y, -y}
  /\ \A S : Odd(Z \cap S) <=> (Odd(X \cap S) <=> (y \in S <=> -y \in S))

\* Adding a curve to a set of curves or taking it out.
LEMMA Toggled ==
  ASSUME NEW X, IsFiniteSet(X), X \subseteq Int, Curves(X), NEW y \in Int \ {0}
  PROVE  \E Z : Toggles(X, Z, y)
<1>1. CASE y \notin X
  <2>1. -y \notin X
    BY <1>1 DEF Curves
  <2>2. Curves(X \cup {y, -y})
    BY DEF Curves
  <2>3. IsFiniteSet(X \cup {y, -y})
    <3>1. IsFiniteSet((X \cup {y}) \cup {-y})
      BY FS_AddElement
    <3>2. (X \cup {y}) \cup {-y} = X \cup {y, -y}
      OBVIOUS
    <3> QED BY <3>1, <3>2
  <2>4. \A S : Odd((X \cup {y, -y}) \cap S) <=> (Odd(X \cap S) <=> (y \in S <=> -y \in S))
    BY <1>1, <2>1, OddCurve
  <2> QED BY <2>2, <2>3, <2>4 DEF Toggles
<1>2. CASE y \in X
  <2> DEFINE Z == X \ {y, -y}
  <2>1. -y \in X /\ X = Z \cup {y, -y} /\ y \notin Z /\ -y \notin Z
    BY <1>2 DEF Curves
  <2>2. Curves(Z)
    <3> SUFFICES ASSUME NEW x \in Z PROVE -x \in Z
      BY DEF Curves
    <3>0. x \in X
      OBVIOUS
    <3>1. -x \in X
      BY <3>0 DEF Curves
    <3>2. -x # y /\ -x # -y
      BY <3>0
    <3> QED BY <3>1, <3>2
  <2>3. IsFiniteSet(Z)
    BY FS_Subset
  <2> HIDE DEF Z
  <2>4. \A S : Odd(X \cap S) <=> (Odd(Z \cap S) <=> (y \in S <=> -y \in S))
    BY <2>1, <2>3, OddCurve
  <2>5. \A S : Odd(Z \cap S) <=> (Odd(X \cap S) <=> (y \in S <=> -y \in S))
    BY <2>4
  <2> QED BY <2>1, <2>2, <2>3, <2>5 DEF Toggles
<1> QED BY <1>1, <1>2

\* X leads from the region of x to that of y, in and out of the rings Q.
LeadsTo(D, rg, Q, x, X, y) ==
  /\ Curves(X) /\ X \subseteq D
  /\ \A z \in D : Odd(X \cap RegionOf(D, rg, z)) <=> (rg[x] = rg[z] <=> rg[y] # rg[z])
  /\ Odd(X \cap Q) <=> y \notin Q

\* Two sides of one piece that are in the same region are in the same ring.
LEMMA SameRegionSameRing ==
  ASSUME NEW c, NEW D, Rotates(c, D), NEW rg, OneRegion(c, D, rg), Jordan(c, D, rg),
         NEW x \in D, NEW y \in D, SamePiece(c, D, x, y), rg[x] = rg[y]
  PROVE  SameRing(c, D, x, y)
<1> SUFFICES ASSUME NEW Q \in SUBSET D, Walked(c, Q), x \in Q, y \notin Q PROVE FALSE
  BY DEF SameRing
<1>0. /\ IsFiniteSet(D) /\ D \subseteq Int /\ \A u \in D : u \in Int \ {0} /\ -u \in D /\ -(-u) = u
      /\ \A u \in D : c[u] \in D
  BY DEF Rotates, Permutes
<1> DEFINE W == {u \in D : \E X \in SUBSET D : LeadsTo(D, rg, Q, x, X, u)}
<1>1. x \in W
  <2>1. \A S : {} \cap S = {}
    OBVIOUS
  <2>2. \A S : ~Odd({} \cap S)
    BY <2>1, OddFacts
  <2>3. LeadsTo(D, rg, Q, x, {}, x)
    BY <2>2 DEF LeadsTo, Curves
  <2> QED BY <2>3
<1>2. ASSUME NEW u \in W PROVE c[-u] \in W
  <2>1. PICK X \in SUBSET D : LeadsTo(D, rg, Q, x, X, u)
    OBVIOUS
  <2>2. c[-u] \in D /\ rg[c[-u]] = rg[u] /\ (c[-u] \in Q <=> u \in Q)
    BY <1>0, WalkedSets DEF OneRegion
  <2>3. LeadsTo(D, rg, Q, x, X, c[-u])
    BY <2>1, <2>2 DEF LeadsTo
  <2> QED BY <2>2, <2>3
<1>3. ASSUME NEW u \in W PROVE -u \in W
  <2>1. PICK X \in SUBSET D : LeadsTo(D, rg, Q, x, X, u)
    OBVIOUS
  <2>2. u \in D /\ u \in Int \ {0} /\ -u \in D
    BY <1>0
  <2>3. IsFiniteSet(X) /\ X \subseteq Int /\ Curves(X)
    BY <1>0, <2>1, FS_Subset DEF LeadsTo
  <2>4a. PICK Z : Toggles(X, Z, u)
    BY <2>2, <2>3, Toggled
  <2>4. /\ Curves(Z) /\ Z \subseteq X \cup {u, -u}
        /\ \A S : Odd(Z \cap S) <=> (Odd(X \cap S) <=> (u \in S <=> -u \in S))
    BY <2>4a DEF Toggles
  <2>5. Z \in SUBSET D
    BY <2>2, <2>4
  <2>6. ASSUME NEW z \in D PROVE Odd(Z \cap RegionOf(D, rg, z)) <=> (rg[x] = rg[z] <=> rg[-u] # rg[z])
    <3>1. /\ u \in RegionOf(D, rg, z) <=> rg[u] = rg[z]
          /\ -u \in RegionOf(D, rg, z) <=> rg[-u] = rg[z]
      BY <2>2 DEF RegionOf
    <3>2. Odd(X \cap RegionOf(D, rg, z)) <=> (rg[x] = rg[z] <=> rg[u] # rg[z])
      BY <2>1 DEF LeadsTo
    <3>3. Odd(Z \cap RegionOf(D, rg, z))
          <=> (Odd(X \cap RegionOf(D, rg, z)) <=> (u \in RegionOf(D, rg, z) <=> -u \in RegionOf(D, rg, z)))
      BY <2>4
    <3> QED BY <3>1, <3>2, <3>3
  <2>7. Odd(Z \cap Q) <=> -u \notin Q
    BY <2>1, <2>4 DEF LeadsTo
  <2>8. LeadsTo(D, rg, Q, x, Z, -u)
    BY <2>4, <2>5, <2>6, <2>7 DEF LeadsTo
  <2> QED BY <2>2, <2>5, <2>8
<1>4. y \in W
  <2>1. W \in SUBSET D
    OBVIOUS
  <2>2. Closed(c, W)
    <3> SUFFICES ASSUME NEW u \in W PROVE c[u] \in W /\ -u \in W
      BY DEF Closed
    <3>1. -u \in W
      BY <1>3
    <3>2. c[-(-u)] \in W /\ -(-u) = u
      <4> HIDE DEF W
      <4>1. u \in D
        BY <2>1
      <4> QED BY <1>0, <1>2, <3>1, <4>1
    <3> QED BY <3>1, <3>2
  <2> HIDE DEF W
  <2> QED BY <1>1, <2>1, <2>2 DEF SamePiece
<1>5. PICK X \in SUBSET D : LeadsTo(D, rg, Q, x, X, y)
  BY <1>4
<1>6. Curves(X) /\ Evenly(D, rg, X) /\ Odd(X \cap Q)
  BY <1>5 DEF LeadsTo, Evenly
<1>7. PICK C : Sides(c, D, C) /\ Crossing(D, C) = X
  BY <1>6 DEF Jordan
<1>8. ~Odd(Crossing(D, C) \cap Q)
  BY <1>7, RingsCrossEvenly
<1> QED BY <1>6, <1>7, <1>8

\* Being in one ring or piece carries over.
LEMMA Onward ==
  ASSUME NEW c, NEW D, NEW x, NEW y, NEW z
  PROVE  /\ SameRing(c, D, x, y) /\ SameRing(c, D, y, z) => SameRing(c, D, x, z)
         /\ SamePiece(c, D, x, y) /\ SamePiece(c, D, y, z) => SamePiece(c, D, x, z)
         /\ SameRing(c, D, x, x) /\ SamePiece(c, D, x, x)
BY DEF SameRing, SamePiece

-----------------------------------------------------------------------------
(* The rings and pieces on both sides of a curve that parts a ring.            *)

\* Sets of rings and pieces before and after.
PartedAlike(a, A, b, B, e, L, R, K) ==
  /\ \A S \in SUBSET B : Walked(b, S) => S \ (L \cup R) \in SUBSET A /\ Walked(a, S \ (L \cup R))
  /\ \A S \in SUBSET A : Walked(a, S) => S \ K \in SUBSET B /\ Walked(b, S \ K)
  /\ \A S \in SUBSET B : Closed(b, S) => /\ S \ {e, -e} \in SUBSET A /\ Closed(a, S \ {e, -e})
                                         /\ S \cap (L \cup R) # {} => L \cup R \subseteq S
  /\ \A S \in SUBSET A : Closed(a, S) => \E U \in SUBSET B : Closed(b, U) /\ U \cap A = S
  /\ K = {} => Closed(b, {e, -e}) /\ {e, -e} \in SUBSET B

\* All of a parted ring and both of its parts are in one piece.
LEMMA PartedSets ==
  ASSUME NEW a, NEW A, NEW b, NEW B, NEW e, Grows(a, A, b, B, e),
         NEW L, NEW R, NEW K, Parts(b, e, L, R, K)
  PROVE  PartedAlike(a, A, b, B, e, L, R, K)
<1>0. Rotates(a, A) /\ Rotates(b, B)
  BY DEF Grows
<1>1. /\ e \in L /\ -e \in R /\ L \subseteq B /\ R \subseteq B /\ Walked(b, L) /\ Walked(b, R)
      /\ \A S \in SUBSET B : Walked(b, S) => (e \in S <=> L \cap S # {}) /\ (e \in S => L \subseteq S)
      /\ \A S \in SUBSET B : Walked(b, S) => (-e \in S <=> R \cap S # {}) /\ (-e \in S => R \subseteq S)
      /\ K \subseteq A /\ Walked(a, K)
      /\ b[-e] \in L /\ b[e] \in R
      /\ \A S \in SUBSET A : Walked(a, S) /\ S \cap K # {} => K \subseteq S
  BY PartedRings
<1>2. K = (L \cup R) \ {e, -e} /\ B \ (L \cup R) \subseteq A /\ B \ A = {e, -e} /\ A \subseteq B
      /\ e \notin A /\ -e \notin A
  BY <1>1, GrowsLinks DEF Parts, Grows
<1>3. ASSUME NEW S \in SUBSET B, Walked(b, S) PROVE S \ (L \cup R) \in SUBSET A /\ Walked(a, S \ (L \cup R))
  <2>0. Walked(b, L \cup R) /\ L \cup R \in SUBSET B
    BY <1>0, <1>1, WalkedMinus
  <2>1. PICK U \in SUBSET B : U = L \cup R /\ Walked(b, U)
    BY <2>0
  <2>4. Walked(b, S \ U)
    BY <1>0, <1>3, <2>1, WalkedMinus
  <2>3. (S \ (L \cup R)) \ {e, -e} = S \ (L \cup R) /\ S \ (L \cup R) \in SUBSET B
    BY <1>1
  <2>5. e \notin S \ (L \cup R) /\ -e \notin S \ (L \cup R) /\ Walked(b, S \ (L \cup R))
    BY <1>1, <2>1, <2>4
  <2> QED BY <1>2, <2>5, <2>3, GrowsWalked
<1>4. ASSUME NEW S \in SUBSET A, Walked(a, S) PROVE S \ K \in SUBSET B /\ Walked(b, S \ K)
  <2>1. Walked(a, S \ K)
    BY <1>0, <1>1, <1>4, WalkedMinus
  <2>2. b[e] \notin S \ K /\ b[-e] \notin S \ K
    BY <1>1, <1>2
  <2> QED BY <1>2, <2>1, <2>2, GrowsWalked
<1>5. ASSUME NEW S \in SUBSET B, Closed(b, S)
      PROVE  /\ S \ {e, -e} \in SUBSET A /\ Closed(a, S \ {e, -e})
             /\ S \cap (L \cup R) # {} => L \cup R \subseteq S
  <2>1. S \ {e, -e} \in SUBSET A /\ Closed(a, S \ {e, -e})
    BY <1>2, <1>5, GrowsClosed
  <2>2. Walked(b, S) /\ \A x \in S : -x \in S
    BY <1>0, <1>5, WalkedSets
  <2>3. e \in S <=> -e \in S
    BY <2>2, GrowsLinks
  <2>4. S \cap (L \cup R) # {} => L \cup R \subseteq S
    BY <1>1, <2>2, <2>3
  <2> QED BY <2>1, <2>4
<1>6. ASSUME NEW S \in SUBSET A, Closed(a, S) PROVE \E U \in SUBSET B : Closed(b, U) /\ U \cap A = S
  <2>1. Walked(a, S)
    BY <1>0, <1>6, WalkedSets
  <2>2. CASE K \cap S = {}
    <3>1. b[e] \notin S /\ b[-e] \notin S
      BY <1>1, <1>2, <2>2
    <3>2. S \in SUBSET B /\ Closed(b, S) /\ S \cap A = S
      BY <1>2, <1>6, <3>1, GrowsClosed
    <3> QED BY <3>2
  <2>3. CASE K \cap S # {}
    <3>1. K \subseteq S
      BY <1>1, <2>1, <2>3
    <3>2. b[e] \in S \cup {e, -e} /\ b[-e] \in S \cup {e, -e}
      BY <1>1, <1>2, <3>1
    <3>3. Closed(b, S \cup {e, -e})
      BY <1>6, <3>2, GrowsClosed
    <3>4. S \cup {e, -e} \in SUBSET B /\ (S \cup {e, -e}) \cap A = S
      BY <1>2
    <3> QED BY <3>3, <3>4
  <2> QED BY <2>2, <2>3
<1>7. K = {} => Closed(b, {e, -e}) /\ {e, -e} \in SUBSET B
  <2>1. SUFFICES ASSUME K = {} PROVE Closed(b, {e, -e}) /\ {e, -e} \in SUBSET B
    OBVIOUS
  <2>2. b[e] \in {e, -e} /\ b[-e] \in {e, -e} /\ -(-e) = e /\ {e, -e} \in SUBSET B
    BY <1>1, <1>2, <2>1, GrowsLinks
  <2> QED BY <2>2 DEF Closed
<1> QED BY <1>3, <1>4, <1>5, <1>6, <1>7 DEF PartedAlike

\* What is in one ring or piece with what, before and after.
LEMMA PartedSame ==
  ASSUME NEW a, NEW A, NEW b, NEW B, NEW e, Grows(a, A, b, B, e),
         NEW L, NEW R, NEW K, Parts(b, e, L, R, K)
  PROVE  /\ \A x, y \in A : SamePiece(a, A, x, y) <=> SamePiece(b, B, x, y)
         /\ \A x, y \in A \ K : SameRing(a, A, x, y) <=> SameRing(b, B, x, y)
         /\ \A x \in K, y \in A : SameRing(a, A, x, y) <=> y \in K
         /\ \A x \in L, y \in B : SameRing(b, B, x, y) <=> y \in L
         /\ \A x \in R, y \in B : SameRing(b, B, x, y) <=> y \in R
         /\ \A x, y \in L \cup R : SamePiece(b, B, x, y)
         /\ K = {} => \A x \in {e, -e}, y \in A : ~SamePiece(b, B, x, y)
<1>1. /\ e \in L /\ -e \in R /\ L \subseteq B /\ R \subseteq B /\ Walked(b, L) /\ Walked(b, R)
      /\ \A S \in SUBSET B : Walked(b, S) => (e \in S <=> L \cap S # {}) /\ (e \in S => L \subseteq S)
      /\ \A S \in SUBSET B : Walked(b, S) => (-e \in S <=> R \cap S # {}) /\ (-e \in S => R \subseteq S)
      /\ K \subseteq A /\ Walked(a, K)
      /\ \A S \in SUBSET A : Walked(a, S) /\ S \cap K # {} => K \subseteq S
  BY PartedRings
<1>2. K = (L \cup R) \ {e, -e} /\ A \subseteq B /\ e \notin A /\ -e \notin A
  BY <1>1, GrowsLinks DEF Parts, Grows
<1>0. PartedAlike(a, A, b, B, e, L, R, K)
  BY PartedSets
<1>3. /\ \A S \in SUBSET B : Walked(b, S) => S \ (L \cup R) \in SUBSET A /\ Walked(a, S \ (L \cup R))
      /\ \A S \in SUBSET A : Walked(a, S) => S \ K \in SUBSET B /\ Walked(b, S \ K)
  BY <1>0 DEF PartedAlike
<1>4. /\ \A S \in SUBSET B : Closed(b, S) => /\ S \ {e, -e} \in SUBSET A /\ Closed(a, S \ {e, -e})
                                             /\ S \cap (L \cup R) # {} => L \cup R \subseteq S
      /\ \A S \in SUBSET A : Closed(a, S) => \E U \in SUBSET B : Closed(b, U) /\ U \cap A = S
      /\ K = {} => Closed(b, {e, -e}) /\ {e, -e} \in SUBSET B
  BY <1>0 DEF PartedAlike
<1>5. ASSUME NEW x \in A, NEW y \in A, SamePiece(a, A, x, y) PROVE SamePiece(b, B, x, y)
  BY <1>2, <1>4, <1>5 DEF SamePiece
<1>6. ASSUME NEW x \in A, NEW y \in A, SamePiece(b, B, x, y) PROVE SamePiece(a, A, x, y)
  <2> SUFFICES ASSUME NEW S \in SUBSET A, Closed(a, S), x \in S PROVE y \in S
    BY DEF SamePiece
  <2>1. PICK U \in SUBSET B : Closed(b, U) /\ U \cap A = S
    BY <1>4
  <2> QED BY <1>6, <2>1 DEF SamePiece
<1>7. ASSUME NEW x \in A \ K, NEW y \in A \ K, SameRing(a, A, x, y) PROVE SameRing(b, B, x, y)
  <2> SUFFICES ASSUME NEW S \in SUBSET B, Walked(b, S), x \in S PROVE y \in S
    BY DEF SameRing
  <2>1. x \in S \ (L \cup R)
    BY <1>2
  <2> QED BY <1>3, <1>7, <2>1 DEF SameRing
<1>8. ASSUME NEW x \in A \ K, NEW y \in A \ K, SameRing(b, B, x, y) PROVE SameRing(a, A, x, y)
  <2> SUFFICES ASSUME NEW S \in SUBSET A, Walked(a, S), x \in S PROVE y \in S
    BY DEF SameRing
  <2>1. x \in S \ K
    OBVIOUS
  <2> QED BY <1>3, <1>8, <2>1 DEF SameRing
<1>9. \A x \in K, y \in A : SameRing(a, A, x, y) <=> y \in K
  BY <1>1 DEF SameRing
<1>10. \A x \in L, y \in B : SameRing(b, B, x, y) <=> y \in L
  BY <1>1 DEF SameRing
<1>11. \A x \in R, y \in B : SameRing(b, B, x, y) <=> y \in R
  BY <1>1 DEF SameRing
<1>12. \A x, y \in L \cup R : SamePiece(b, B, x, y)
  BY <1>4 DEF SamePiece
<1>13. K = {} => \A x \in {e, -e}, y \in A : ~SamePiece(b, B, x, y)
  BY <1>2, <1>4 DEF SamePiece
<1> QED BY <1>5, <1>6, <1>7, <1>8, <1>9, <1>10, <1>11, <1>12, <1>13

\* Regions l and r of rb are one region, f, in ra.
Merges(A, ra, rb, f, l, r) ==
  l # r /\ \A x \in A : IF rb[x] \in {l, r} THEN ra[x] = f ELSE ra[x] = rb[x] /\ ra[x] # f

\* Drawing a curve that parts a ring: regions l and r on its two sides make up f, and
\* out is the ring that becomes an outer boundary, when what was parted was one.
PartsDrawing(a, A, ha, ra, b, B, hb, rb, e, L, R, K, out, f, l, r) ==
  /\ Grows(a, A, b, B, e) /\ Parts(b, e, L, R, K) /\ OneRegion(b, B, rb)
  /\ Merges(A, ra, rb, f, l, r) /\ (\A x \in L : rb[x] = l) /\ (\A x \in R : rb[x] = r)
  /\ hb = (ha \ (L \cup R)) \cup out /\ out \in {L, R, {}}
  /\ out # {} => K \subseteq ha
  /\ out = {} => K # {} /\ K \cap ha = {}
  /\ out = L => \A x \in A \ (L \cup R) : x \notin ha /\ ra[x] = f => rb[x] = l
  /\ out = R => \A x \in A \ (L \cup R) : x \notin ha /\ ra[x] = f => rb[x] = r
  /\ f # 0 => l # 0 /\ r # 0
  /\ l = 0 => out = L
  /\ r = 0 => out = R

\* Which darts are on outer boundaries then.
LEMMA PartedHoles ==
  ASSUME NEW a, NEW A, NEW ha, NEW ra, NEW b, NEW B, NEW hb, NEW rb, NEW e, NEW L, NEW R, NEW K,
         NEW out, NEW f, NEW l, NEW r,
         PartsDrawing(a, A, ha, ra, b, B, hb, rb, e, L, R, K, out, f, l, r),
         HolesWhole(a, A, ha)
  PROVE  /\ HolesWhole(b, B, hb)
         /\ \A x \in A \ (L \cup R) : x \in hb <=> x \in ha
         /\ \A x \in L \cup R : x \in hb <=> x \in out
<1>0. Grows(a, A, b, B, e) /\ Parts(b, e, L, R, K) /\ Rotates(b, B)
  BY DEF PartsDrawing, Grows
<1>1. /\ L \cap R = {} /\ L \subseteq B /\ R \subseteq B /\ Walked(b, L) /\ Walked(b, R)
  BY <1>0, PartedRings
<1>2. /\ \A x \in B : b[-x] \in L <=> x \in L
      /\ \A x \in B : b[-x] \in R <=> x \in R
  BY <1>0, <1>1, WalkedSets
<1>3. hb = (ha \ (L \cup R)) \cup out /\ out \in {L, R, {}}
  BY DEF PartsDrawing
<1>4. /\ \A x \in A \ (L \cup R) : x \in hb <=> x \in ha
      /\ \A x \in L \cup R : x \in hb <=> x \in out
  BY <1>1, <1>3
<1>5. hb \subseteq B
  BY <1>0, <1>1, <1>3 DEF HolesWhole, Grows
<1>6. e \in L /\ -e \in R
  BY <1>0, PartedRings
<1>7. ASSUME NEW x \in B PROVE x \in hb <=> b[-x] \in hb
  <2>1. CASE x \in L \cup R
    BY <1>1, <1>2, <1>3, <1>4, <2>1
  <2>2. CASE x \notin L \cup R
    <3>1. x \in A /\ b[-x] \in B /\ b[-x] \notin L \cup R /\ -x \in A
      BY <1>0, <1>2, <1>6, <2>2, GrowsLinks
    <3>2. a[-x] = b[-x] /\ b[-x] \in A
      BY <1>0, <1>6, <3>1, GrowsLinks
    <3> QED BY <1>4, <2>2, <3>1, <3>2 DEF HolesWhole
  <2> QED BY <2>1, <2>2
<1> QED BY <1>4, <1>5, <1>7 DEF HolesWhole

\* The shells.
LEMMA PartedShells ==
  ASSUME NEW a, NEW A, NEW ha, NEW ra, NEW b, NEW B, NEW hb, NEW rb, NEW e, NEW L, NEW R, NEW K,
         NEW out, NEW f, NEW l, NEW r,
         PartsDrawing(a, A, ha, ra, b, B, hb, rb, e, L, R, K, out, f, l, r),
         HolesWhole(a, A, ha), OneShell(a, A, ha, ra)
  PROVE  OneShell(b, B, hb, rb)
<1>0. Grows(a, A, b, B, e) /\ Parts(b, e, L, R, K)
  BY DEF PartsDrawing
<1>1. /\ L \cap R = {} /\ L \subseteq B /\ R \subseteq B /\ K \subseteq A
      /\ e \in L /\ -e \in R
  BY <1>0, PartedRings
<1>2. /\ \A x \in A \ (L \cup R) : x \in hb <=> x \in ha
      /\ \A x \in L \cup R : x \in hb <=> x \in out
  BY PartedHoles
<1>3. /\ B \ (L \cup R) \subseteq A /\ K = (L \cup R) \ {e, -e}
  BY <1>0, <1>1 DEF Parts, Grows
<1>4. /\ \A x \in A : IF rb[x] \in {l, r} THEN ra[x] = f ELSE ra[x] = rb[x] /\ ra[x] # f
      /\ l # r /\ (\A x \in L : rb[x] = l) /\ (\A x \in R : rb[x] = r)
      /\ out \in {L, R, {}} /\ (out # {} => K \subseteq ha) /\ (out = {} => K # {} /\ K \cap ha = {})
      /\ out = L => \A x \in A \ (L \cup R) : x \notin ha /\ ra[x] = f => rb[x] = l
      /\ out = R => \A x \in A \ (L \cup R) : x \notin ha /\ ra[x] = f => rb[x] = r
      /\ f # 0 => l # 0 /\ r # 0
      /\ l = 0 => out = L
      /\ r = 0 => out = R
  BY DEF PartsDrawing, Merges
<1>5. /\ \A x \in A \ ha : ra[x] # 0
      /\ \A x, y \in A \ ha : ra[x] = ra[y] => SameRing(a, A, x, y)
  BY DEF OneShell
<1>6. ASSUME NEW x \in B \ hb PROVE rb[x] # 0
  <2>1. CASE x \in L \cup R
    BY <1>1, <1>2, <1>4, <2>1
  <2>2. CASE x \notin L \cup R
    BY <1>2, <1>3, <1>4, <1>5, <2>2
  <2> QED BY <2>1, <2>2
<1>7. /\ \A x, y \in A \ K : SameRing(a, A, x, y) <=> SameRing(b, B, x, y)
      /\ \A x \in K, y \in A : SameRing(a, A, x, y) <=> y \in K
      /\ \A x \in L, y \in B : SameRing(b, B, x, y) <=> y \in L
      /\ \A x \in R, y \in B : SameRing(b, B, x, y) <=> y \in R
  BY <1>0, PartedSame
<1>8. out = {} => \A y \in A \ ha : ra[y] = f => y \in K
  <2>1. out = {} => \E k \in K : k \notin ha /\ ra[k] = f
    BY <1>1, <1>3, <1>4
  <2> QED BY <1>1, <1>5, <1>7, <2>1
<1>9. ASSUME NEW x \in B \ hb, NEW y \in B \ hb, rb[x] = rb[y] PROVE SameRing(b, B, x, y)
  <2>1. CASE x \in L /\ y \in L
    BY <1>7, <2>1
  <2>2. CASE x \in R /\ y \in R
    BY <1>7, <2>2
  <2>3. CASE x \notin L \cup R /\ y \notin L \cup R
    <3>1. x \in A \ ha /\ y \in A \ ha /\ ra[x] = ra[y] /\ x \notin K /\ y \notin K
      BY <1>2, <1>3, <1>4, <1>9, <2>3
    <3> QED BY <1>5, <1>7, <3>1
  \* A shell in f other than the parted ring gets the region of the ring that becomes
  \* an outer boundary.
  <2>4. ASSUME NEW u \in L \cup R, NEW v \in B \ (L \cup R), u \notin hb, v \notin hb, rb[u] = rb[v]
        PROVE FALSE
    <3>1. v \in A \ ha /\ ra[v] = f /\ v \notin K
      BY <1>2, <1>3, <1>4, <2>4
    <3>2. out # {}
      BY <1>8, <3>1
    <3>3. CASE out = L
      <4>2. u \in R
        BY <1>2, <2>4, <3>3
      <4>3. rb[v] = l
        <5>1. v \in A \ (L \cup R) /\ v \notin ha /\ ra[v] = f
          BY <2>4, <3>1
        <5> QED BY <1>4, <3>3, <5>1
      <4>1. u \in R /\ rb[u] = r /\ rb[v] = l /\ l # r
        BY <1>4, <4>2, <4>3
      <4> QED BY <2>4, <4>1
    <3>4. CASE out = R
      <4>2. u \in L
        BY <1>2, <2>4, <3>4
      <4>3. rb[v] = r
        BY <1>4, <2>4, <3>1, <3>4
      <4>1. u \in L /\ rb[u] = l /\ rb[v] = r /\ l # r
        BY <1>4, <4>2, <4>3
      <4> QED BY <2>4, <4>1
    <3> QED BY <1>4, <3>2, <3>3, <3>4
  <2>5. CASE (x \in L /\ y \in R) \/ (x \in R /\ y \in L)
    BY <1>4, <1>9, <2>5
  <2>6. CASE x \in L \cup R /\ y \notin L \cup R
    BY <1>9, <2>4, <2>6
  <2>7. CASE x \notin L \cup R /\ y \in L \cup R
    <3>1. x \in B \ (L \cup R) /\ x \notin hb /\ y \notin hb /\ rb[y] = rb[x] /\ y \in L \cup R
      BY <1>9, <2>7
    <3>2. FALSE
      BY <2>4, <3>1, Zenon
    <3> QED BY <3>2
  <2>8. CASE x \in L \cup R /\ y \in L \cup R
    BY <2>1, <2>2, <2>5, <2>8
  <2> QED BY <2>3, <2>6, <2>7, <2>8
<1> QED BY <1>6, <1>9 DEF OneShell

\* The outer boundaries: still one for each piece.
LEMMA PartedOuter ==
  ASSUME NEW a, NEW A, NEW ha, NEW ra, NEW b, NEW B, NEW hb, NEW rb, NEW e, NEW L, NEW R, NEW K,
         NEW out, NEW f, NEW l, NEW r,
         PartsDrawing(a, A, ha, ra, b, B, hb, rb, e, L, R, K, out, f, l, r),
         HolesWhole(a, A, ha), OneHole(a, A, ha), HasHole(a, A, ha)
  PROVE  OneHole(b, B, hb) /\ HasHole(b, B, hb)
<1>0. Grows(a, A, b, B, e) /\ Parts(b, e, L, R, K) /\ Rotates(b, B)
  BY DEF PartsDrawing, Grows
<1>1. /\ L \cap R = {} /\ L \subseteq B /\ R \subseteq B /\ K \subseteq A
      /\ e \in L /\ -e \in R
  BY <1>0, PartedRings
<1>2. /\ \A x \in A \ (L \cup R) : x \in hb <=> x \in ha
      /\ \A x \in L \cup R : x \in hb <=> x \in out
      /\ hb \subseteq B /\ ha \subseteq A
  BY PartedHoles DEF HolesWhole
<1>3. /\ B \ (L \cup R) \subseteq A /\ K = (L \cup R) \ {e, -e} /\ A \subseteq B
  BY <1>0, <1>1 DEF Parts, Grows
<1>4. out \in {L, R, {}} /\ (out # {} => K \subseteq ha) /\ (out = {} => K # {} /\ K \cap ha = {})
  BY DEF PartsDrawing
<1>5. /\ \A x, y \in A : SamePiece(a, A, x, y) <=> SamePiece(b, B, x, y)
      /\ \A x, y \in A \ K : SameRing(a, A, x, y) <=> SameRing(b, B, x, y)
      /\ \A x \in K, y \in A : SameRing(a, A, x, y) <=> y \in K
      /\ \A x \in L, y \in B : SameRing(b, B, x, y) <=> y \in L
      /\ \A x \in R, y \in B : SameRing(b, B, x, y) <=> y \in R
      /\ \A x, y \in L \cup R : SamePiece(b, B, x, y)
      /\ K = {} => \A x \in {e, -e}, y \in A : ~SamePiece(b, B, x, y)
  BY <1>0, PartedSame
<1>6. ASSUME NEW x \in hb, NEW y \in hb, SamePiece(b, B, x, y), x \in L \cup R, y \notin L \cup R
      PROVE FALSE
  <2>1. out # {} /\ K \subseteq ha /\ y \in ha /\ y \in A
    BY <1>2, <1>3, <1>4, <1>6
  <2>2. K # {}
    BY <1>3, <1>5, <1>6, <2>1
  <2>3. PICK k \in K : TRUE
    BY <2>2
  <2>4. SamePiece(b, B, k, y)
    <3>1. SamePiece(b, B, k, x)
      BY <1>3, <1>5, <1>6, <2>3
    <3> QED BY <1>6, <3>1, Onward
  <2>5. SameRing(a, A, k, y)
    <3>1. SamePiece(a, A, k, y) /\ k \in ha
      BY <1>1, <1>5, <2>1, <2>4
    <3> QED BY <2>1, <3>1 DEF OneHole
  <2> QED BY <1>3, <1>5, <1>6, <2>1, <2>5
<1>7. ASSUME NEW x \in hb, NEW y \in hb, SamePiece(b, B, x, y) PROVE SameRing(b, B, x, y)
  <2>1. CASE x \in L \cup R /\ y \in L \cup R
    BY <1>2, <1>4, <1>5, <2>1
  <2>2. CASE x \notin L \cup R /\ y \notin L \cup R
    <3>1. x \in ha /\ y \in ha /\ x \in A \ K /\ y \in A \ K
      BY <1>2, <1>3, <2>2
    <3>2. SameRing(a, A, x, y)
      BY <1>5, <1>7, <3>1 DEF OneHole
    <3> QED BY <1>5, <3>1, <3>2
  <2>3. CASE x \notin L \cup R /\ y \in L \cup R
    <3>1. SamePiece(b, B, y, x)
      BY <1>0, <1>2, <1>7, Mutual
    <3> QED BY <1>6, <2>3, <3>1
  <2> QED BY <1>6, <1>7, <2>1, <2>2, <2>3
<1>8. ASSUME NEW x \in A PROVE \E y \in hb : SamePiece(b, B, x, y)
  <2>1. PICK y \in ha : SamePiece(a, A, x, y)
    BY DEF HasHole
  <2>2. SamePiece(b, B, x, y) /\ y \in A
    BY <1>2, <1>5, <2>1
  <2>3. CASE y \notin L \cup R
    BY <1>2, <2>2, <2>3
  <2>4. CASE y \in L \cup R
    <3>1. y \in K
      BY <1>3, <2>2, <2>4, <1>0, GrowsLinks
    <3>2. PICK z \in out : z \in L \cup R
      BY <1>1, <1>4, <3>1
    <3>3. SamePiece(b, B, y, z) /\ z \in hb
      BY <1>2, <1>5, <2>4, <3>2
    <3> QED BY <2>2, <3>3, Onward
  <2> QED BY <2>3, <2>4
<1>9. ASSUME NEW x \in {e, -e} PROVE \E y \in hb : SamePiece(b, B, x, y)
  <2>1. CASE K = {}
    <3>1. PICK z \in out : z \in L \cup R
      BY <1>1, <1>4, <2>1
    <3>2. SamePiece(b, B, x, z) /\ z \in hb
      BY <1>1, <1>2, <1>5, <3>1
    <3> QED BY <3>2
  <2>2. CASE K # {}
    <3>1. PICK k \in K : TRUE
      BY <2>2
    <3>2. SamePiece(b, B, x, k) /\ k \in A
      BY <1>1, <1>3, <1>5, <3>1
    <3>3. PICK y \in hb : SamePiece(b, B, k, y)
      BY <1>8, <3>2
    <3> QED BY <3>2, <3>3, Onward
  <2> QED BY <2>1, <2>2
<1>10. \A x \in B : x \in A \/ x \in {e, -e}
  BY <1>0 DEF Grows
<1> QED BY <1>7, <1>8, <1>9, <1>10 DEF OneHole, HasHole

-----------------------------------------------------------------------------
(* Sides of the nodes, with the curve of e and without it.                     *)

\* Two sets apart are odd together when one of them is.
LEMMA OddUnion ==
  ASSUME NEW S, NEW T, IsFiniteSet(S), IsFiniteSet(T), S \cap T = {}
  PROVE  Odd(S \cup T) <=> (Odd(S) <=> ~Odd(T))
<1> DEFINE U == {Z \in SUBSET T : Odd(S \cup Z) <=> (Odd(S) <=> ~Odd(Z))}
<1>1. {} \in U
  <2>1. S \cup {} = S
    OBVIOUS
  <2> QED BY <2>1, OddFacts
<1>2. \A Z \in SUBSET T : \A x \in T \ Z : Z \in U => Z \cup {x} \in U
  <2> SUFFICES ASSUME NEW Z \in SUBSET T, NEW x \in T \ Z, Odd(S \cup Z) <=> (Odd(S) <=> ~Odd(Z))
               PROVE  Odd(S \cup (Z \cup {x})) <=> (Odd(S) <=> ~Odd(Z \cup {x}))
    OBVIOUS
  <2>1. IsFiniteSet(Z) /\ x \notin Z
    BY FS_Subset
  <2>2. IsFiniteSet(S \cup Z) /\ x \notin S \cup Z /\ S \cup (Z \cup {x}) = (S \cup Z) \cup {x}
    BY <2>1, FS_Union
  <2>3. Odd(Z \cup {x}) <=> ~Odd(Z)
    BY <2>1, OddStep
  <2>4. Odd((S \cup Z) \cup {x}) <=> ~Odd(S \cup Z)
    BY <2>2, OddStep
  <2> QED BY <2>2, <2>3, <2>4
<1>3. T \in U
  <2> HIDE DEF U
  <2> QED BY <1>1, <1>2, Growing
<1> QED BY <1>3

\* What a set of curves loses with the curve of e.
LEMMA CurveLeftOut ==
  ASSUME NEW X, IsFiniteSet(X), Curves(X), NEW e \in Int \ {0}, -(-e) = e
  PROVE  \A S : Odd((X \ {e, -e}) \cap S) <=> (Odd(X \cap S) <=> (e \in X => (e \in S <=> -e \in S)))
<1>1. CASE e \notin X
  <2>1. -e \notin X
    BY <1>1 DEF Curves
  <2>2. X \ {e, -e} = X
    BY <1>1, <2>1
  <2> QED BY <1>1, <2>2
<1>2. CASE e \in X
  <2> DEFINE Z == X \ {e, -e}
  <2>1. -e \in X /\ X = Z \cup {e, -e} /\ e \notin Z /\ -e \notin Z
    BY <1>2 DEF Curves
  <2>2. IsFiniteSet(Z)
    BY FS_Subset
  <2> HIDE DEF Z
  <2>3. \A S : Odd((Z \cup {e, -e}) \cap S) <=> (Odd(Z \cap S) <=> (e \in S <=> -e \in S))
    BY <2>1, <2>2, OddCurve
  <2>4. ASSUME NEW S PROVE Odd(Z \cap S) <=> (Odd(X \cap S) <=> (e \in X => (e \in S <=> -e \in S)))
    <3>1. Odd(X \cap S) <=> (Odd(Z \cap S) <=> (e \in S <=> -e \in S))
      BY <2>1, <2>3
    <3> QED BY <1>2, <3>1
  <2> QED BY <2>4 DEF Z
<1> QED BY <1>1, <1>2

\* The darts from one side to the other are whole curves.
LEMMA CrossingCurves ==
  ASSUME NEW c, NEW D, Rotates(c, D), NEW C
  PROVE  Curves(Crossing(D, C)) /\ Crossing(D, C) \in SUBSET D /\ IsFiniteSet(Crossing(D, C))
<1>1. \A x \in D : -x \in D /\ -(-x) = x
  BY DEF Rotates
<1>2. IsFiniteSet(D)
  BY DEF Rotates, Permutes
<1> QED BY <1>1, <1>2, FS_Subset DEF Curves, Crossing

\* A new curve takes the side of the node each of its ends is at.
LEMMA SidesExtend ==
  ASSUME NEW a, NEW A, NEW b, NEW B, NEW e, Grows(a, A, b, B, e)
  PROVE  /\ \A C : Sides(a, A, C) => \E U : Sides(b, B, U) /\ U \cap A = C
         /\ \A U : Sides(b, B, U) => Sides(a, A, U \cap A)
<1> USE GrowsLinks
<1>0. /\ \A x \in B : x \in A \/ x \in {e, -e}
      /\ e \notin A /\ -e \notin A /\ A \subseteq B
  BY DEF Grows
<1>1. ASSUME NEW C, Sides(a, A, C) PROVE \E U : Sides(b, B, U) /\ U \cap A = C
  <2> DEFINE E1 == IF b[e] # -e THEN b[e] ELSE b[-e]
             E2 == IF b[-e] # e THEN b[-e] ELSE b[e]
             U == C \cup {x \in {e} : E1 \in C} \cup {x \in {-e} : E2 \in C}
  <2>1. C \subseteq A /\ \A x \in A : x \in C <=> a[x] \in C
    BY <1>1 DEF Sides
  <2>2. /\ e \in U <=> E1 \in C
        /\ -e \in U <=> E2 \in C
        /\ \A x \in A : x \in U <=> x \in C
        /\ U \subseteq B
    BY <1>0, <2>1
  <2>3. E1 \notin {e, -e} => E1 \in A
    BY <1>0
  <2>4. E2 \notin {e, -e} => E2 \in A
    BY <1>0
  <2> HIDE DEF U
  <2>5. ASSUME NEW x \in A PROVE x \in U <=> b[x] \in U
    <3>1. CASE b[x] \notin {e, -e}
      BY <1>0, <2>1, <2>2, <3>1
    <3>2. CASE b[x] = e
      <4>1. a[x] = E1 /\ a[x] \in A
        BY <3>2
      <4> QED BY <2>1, <2>2, <3>2, <4>1
    <3>3. CASE b[x] = -e
      <4>1. a[x] = E2 /\ a[x] \in A
        BY <3>3
      <4> QED BY <2>1, <2>2, <3>3, <4>1
    <3> QED BY <3>1, <3>2, <3>3
  <2>6. e \in U <=> b[e] \in U
    <3>1. CASE b[e] \in A
      BY <1>0, <2>2, <3>1
    <3>2. CASE b[e] = e
      BY <3>2
    <3>3. CASE b[e] = -e
      <4>1. b[-e] # -e
        BY <3>3
      <4>2. CASE b[-e] = e
        BY <1>0, <2>1, <2>2, <3>3, <4>2
      <4>3. CASE b[-e] # e
        BY <2>2, <3>3, <4>3
      <4> QED BY <4>2, <4>3
    <3> QED BY <1>0, <3>1, <3>2, <3>3
  <2>7. -e \in U <=> b[-e] \in U
    <3>1. CASE b[-e] \in A
      BY <1>0, <2>2, <3>1
    <3>2. CASE b[-e] = -e
      BY <3>2
    <3>3. CASE b[-e] = e
      <4>1. b[e] # e
        BY <3>3
      <4>2. CASE b[e] = -e
        BY <1>0, <2>1, <2>2, <3>3, <4>2
      <4>3. CASE b[e] # -e
        BY <2>2, <3>3, <4>3
      <4> QED BY <4>2, <4>3
    <3> QED BY <1>0, <3>1, <3>2, <3>3
  <2>8. Sides(b, B, U)
    BY <1>0, <2>2, <2>5, <2>6, <2>7 DEF Sides
  <2>9. U \cap A = C
    BY <2>1, <2>2
  <2> QED BY <2>8, <2>9
<1>2. ASSUME NEW U, Sides(b, B, U) PROVE Sides(a, A, U \cap A)
  <2>1. \A x \in B : x \in U <=> b[x] \in U
    BY <1>2 DEF Sides
  <2>2. ASSUME NEW x \in A PROVE x \in U <=> a[x] \in U
    <3>1. a[x] \in {b[x], b[b[x]], b[b[b[x]]]}
      BY DEF Grows
    <3> QED BY <1>0, <2>1, <3>1
  <2>3. \A x \in A : a[x] \in A
    OBVIOUS
  <2> QED BY <2>2, <2>3 DEF Sides
<1> QED BY <1>1, <1>2

\* Curves X of B, and what is left of them without the curve of e.
RestOfCurves(A, B, e, X) ==
  /\ X \ {e, -e} \in SUBSET A /\ Curves(X \ {e, -e})
  /\ IsFiniteSet(X) /\ IsFiniteSet(A) /\ IsFiniteSet(B)
  /\ \A S : Odd((X \ {e, -e}) \cap S) <=> (Odd(X \cap S) <=> (e \in X => (e \in S <=> -e \in S)))
  /\ e \in X <=> -e \in X

\* That the rest are darts without e, and how odd it is.
LEMMA RegionsOfRest ==
  ASSUME NEW a, NEW A, NEW b, NEW B, NEW e, Grows(a, A, b, B, e), NEW X \in SUBSET B, Curves(X)
  PROVE  RestOfCurves(A, B, e, X)
<1>1. /\ IsFiniteSet(A) /\ IsFiniteSet(B) /\ e \in Int \ {0} /\ -(-e) = e
      /\ \A x \in B : -(-x) = x /\ (x \in A \/ x \in {e, -e})
  BY GrowsLinks DEF Grows, Rotates, Permutes
<1>2. IsFiniteSet(X)
  BY <1>1, FS_Subset
<1>3. X \ {e, -e} \in SUBSET A
  BY <1>1
<1>4. \A x \in X \ {e, -e} : -x \in X \ {e, -e}
  <2>1. \A x \in X : -x \in X /\ -(-x) = x
    BY <1>1 DEF Curves
  <2> QED BY <1>1, <2>1
<1>5. \A S : Odd((X \ {e, -e}) \cap S) <=> (Odd(X \cap S) <=> (e \in X => (e \in S <=> -e \in S)))
  BY <1>1, <1>2, CurveLeftOut
<1>6. e \in X <=> -e \in X
  BY <1>1 DEF Curves
<1> QED BY <1>1, <1>2, <1>3, <1>4, <1>5, <1>6 DEF Curves, RestOfCurves

\* The darts of a region are a set of rings.
LEMMA RegionWalked ==
  ASSUME NEW c, NEW D, Rotates(c, D), NEW rg, OneRegion(c, D, rg), NEW f
  PROVE  Walked(c, {x \in D : rg[x] = f})
BY WalkPermutes DEF OneRegion, Walked

\* Parting a region keeps it true that what meets every region evenly leads from side
\* to side.
LEMMA PartedCurves ==
  ASSUME NEW a, NEW A, NEW ra, NEW b, NEW B, NEW rb, NEW e, NEW f, NEW l, NEW r,
         Grows(a, A, b, B, e), OneRegion(b, B, rb), Merges(A, ra, rb, f, l, r),
         rb[e] = l, rb[-e] = r, Jordan(a, A, ra)
  PROVE  Jordan(b, B, rb)
<1> SUFFICES ASSUME NEW X \in SUBSET B, Curves(X), Evenly(B, rb, X)
             PROVE  \E C : Sides(b, B, C) /\ Crossing(B, C) = X
  BY DEF Jordan
<1> DEFINE Z == X \ {e, -e}
           SL == {x \in B : rb[x] = l}
           SR == {x \in B : rb[x] = r}
<1>0. Rotates(a, A) /\ Rotates(b, B) /\ A \subseteq B /\ e \in B /\ -e \in B /\ e \notin A /\ -e \notin A
  BY GrowsLinks DEF Grows
<1>20. RestOfCurves(A, B, e, X)
  BY RegionsOfRest
<1>1. /\ Z \in SUBSET A /\ Curves(Z) /\ IsFiniteSet(A) /\ IsFiniteSet(B)
      /\ \A S : Odd(Z \cap S) <=> (Odd(X \cap S) <=> (e \in X => (e \in S <=> -e \in S)))
  BY <1>20 DEF RestOfCurves
<1>2. l # r /\ \A x \in A : IF rb[x] \in {l, r} THEN ra[x] = f ELSE ra[x] = rb[x] /\ ra[x] # f
  BY DEF Merges
<1>3. /\ SL = RegionOf(B, rb, e) /\ SR = RegionOf(B, rb, -e)
      /\ e \in SL /\ -e \notin SL /\ e \notin SR /\ -e \in SR /\ SL \cap SR = {}
  BY <1>0, <1>2 DEF RegionOf
<1>4. ~Odd(X \cap SL) /\ ~Odd(X \cap SR)
  BY <1>0, <1>3 DEF Evenly
<1>5. (Odd(Z \cap SL) <=> e \in X) /\ (Odd(Z \cap SR) <=> e \in X)
  BY <1>1, <1>3, <1>4
<1>6. Evenly(A, ra, Z)
  <2> SUFFICES ASSUME NEW z \in A PROVE ~Odd(Z \cap RegionOf(A, ra, z))
    BY DEF Evenly
  <2>1. CASE ra[z] # f
    <3>1. Z \cap RegionOf(A, ra, z) = Z \cap RegionOf(B, rb, z)
      BY <1>0, <1>1, <1>2, <2>1 DEF RegionOf
    <3>2. e \notin RegionOf(B, rb, z) /\ -e \notin RegionOf(B, rb, z)
      BY <1>0, <1>2, <2>1 DEF RegionOf
    <3>3. ~Odd(X \cap RegionOf(B, rb, z))
      BY <1>0 DEF Evenly
    <3> QED BY <1>1, <3>1, <3>2, <3>3
  <2>2. CASE ra[z] = f
    <3>1. Z \cap RegionOf(A, ra, z) = (Z \cap SL) \cup (Z \cap SR)
      BY <1>0, <1>1, <1>2, <2>2 DEF RegionOf
    <3>2. IsFiniteSet(Z \cap SL) /\ IsFiniteSet(Z \cap SR) /\ (Z \cap SL) \cap (Z \cap SR) = {}
      BY <1>1, <1>3, FS_Subset
    <3> HIDE DEF Z, SL, SR
    <3>3. Odd((Z \cap SL) \cup (Z \cap SR)) <=> (Odd(Z \cap SL) <=> ~Odd(Z \cap SR))
      BY <3>2, OddUnion
    <3> QED BY <1>5, <3>1, <3>3
  <2> QED BY <2>1, <2>2
<1>7. PICK C : Sides(a, A, C) /\ Crossing(A, C) = Z
  BY <1>1, <1>6 DEF Jordan
<1>8. PICK U : Sides(b, B, U) /\ U \cap A = C
  BY <1>7, SidesExtend
<1> DEFINE Y == Crossing(B, U)
<1>9. Y \in SUBSET B /\ Curves(Y)
  BY <1>0, CrossingCurves
<1>21. RestOfCurves(A, B, e, Y)
  <2> HIDE DEF Y
  <2> QED BY <1>9, RegionsOfRest
<1>10. Y \ {e, -e} = Z
  <2>1. \A x \in A : x \in Y <=> x \in Crossing(A, C)
    BY <1>0, <1>8 DEF Crossing, Rotates
  <2>2. \A x \in B : x \in A <=> x \notin {e, -e}
    BY <1>0 DEF Grows
  <2>3. Crossing(A, C) \subseteq A
    BY DEF Crossing
  <2> QED BY <1>7, <1>9, <1>0, <2>1, <2>2, <2>3
<1>11. e \in Y <=> e \in X
  <2>1. ~Odd(Y \cap SL)
    <3>1. Walked(b, SL) /\ SL \in SUBSET B
      BY <1>0, RegionWalked
    <3> HIDE DEF SL
    <3> QED BY <1>0, <1>8, <3>1, RingsCrossEvenly
  <2>2. Odd((Y \ {e, -e}) \cap SL) <=> (Odd(Y \cap SL) <=> (e \in Y => (e \in SL <=> -e \in SL)))
    <3> HIDE DEF Y, SL
    <3> QED BY <1>21 DEF RestOfCurves
  <2> QED BY <1>3, <1>5, <1>10, <2>1, <2>2
<1>12. Y = X
  <2>1. (e \in Y <=> -e \in Y) /\ (e \in X <=> -e \in X)
    <3> HIDE DEF Y
    <3> QED BY <1>20, <1>21 DEF RestOfCurves
  <2> QED BY <1>9, <1>10, <1>11, <2>1
<1> QED BY <1>8, <1>12

\* And so does taking the curve away.
LEMMA UnpartedCurves ==
  ASSUME NEW a, NEW A, NEW ra, NEW b, NEW B, NEW rb, NEW e, NEW f, NEW l, NEW r,
         Grows(a, A, b, B, e), OneRegion(b, B, rb), Merges(A, ra, rb, f, l, r),
         rb[e] = l, rb[-e] = r, Jordan(b, B, rb)
  PROVE  Jordan(a, A, ra)
<1> SUFFICES ASSUME NEW X \in SUBSET A, Curves(X), Evenly(A, ra, X)
             PROVE  \E C : Sides(a, A, C) /\ Crossing(A, C) = X
  BY DEF Jordan
<1> DEFINE SL == {x \in B : rb[x] = l}
           SR == {x \in B : rb[x] = r}
<1>0. /\ Rotates(a, A) /\ Rotates(b, B) /\ A \subseteq B /\ e \in B /\ -e \in B /\ e \notin A /\ -e \notin A
      /\ e \in Int \ {0} /\ -(-e) = e /\ \A x \in B : x \in A <=> x \notin {e, -e}
  BY GrowsLinks DEF Grows
<1>1. IsFiniteSet(A) /\ IsFiniteSet(X)
  BY <1>0, FS_Subset DEF Rotates, Permutes
<1>2. l # r /\ \A x \in A : IF rb[x] \in {l, r} THEN ra[x] = f ELSE ra[x] = rb[x] /\ ra[x] # f
  BY DEF Merges
<1>3. e \in SL /\ -e \notin SL /\ e \notin SR /\ -e \in SR /\ SL \cap SR = {}
  BY <1>0, <1>2
<1>4. Odd(X \cap SL) <=> Odd(X \cap SR)
  <2>1. CASE X \cap (SL \cup SR) = {}
    <3>1. X \cap SL = {} /\ X \cap SR = {}
      BY <2>1
    <3> QED BY <3>1
  <2>2. CASE X \cap (SL \cup SR) # {}
    <3>1. PICK z \in X : z \in SL \cup SR
      BY <2>2
    <3>2. X \cap RegionOf(A, ra, z) = (X \cap SL) \cup (X \cap SR)
      BY <1>0, <1>2, <3>1 DEF RegionOf
    <3>3. ~Odd(X \cap RegionOf(A, ra, z))
      BY <3>1 DEF Evenly
    <3>4. IsFiniteSet(X \cap SL) /\ IsFiniteSet(X \cap SR) /\ (X \cap SL) \cap (X \cap SR) = {}
      BY <1>1, <1>3, FS_Subset
    <3> HIDE DEF SL, SR
    <3>5. Odd((X \cap SL) \cup (X \cap SR)) <=> (Odd(X \cap SL) <=> ~Odd(X \cap SR))
      BY <3>4, OddUnion
    <3> QED BY <3>2, <3>3, <3>5
  <2> QED BY <2>1, <2>2
\* e comes along if the curves meet each of the two regions oddly.
<1>5. \E Y \in SUBSET B : /\ Curves(Y) /\ Y \cap A = X
                          /\ \A z \in B : ~Odd(Y \cap RegionOf(B, rb, z))
  <2>0. ASSUME NEW z \in B, rb[z] \notin {l, r} PROVE ~Odd(X \cap RegionOf(B, rb, z))
    <3>1. z \in A /\ X \cap RegionOf(A, ra, z) = X \cap RegionOf(B, rb, z)
      <4>1. z \in A
        BY <1>0, <1>3, <2>0
      <4> QED BY <1>0, <1>2, <2>0, <4>1 DEF RegionOf
    <3> QED BY <3>1 DEF Evenly
  <2>1. ASSUME NEW z \in B
        PROVE  /\ rb[z] = l => RegionOf(B, rb, z) = SL
               /\ rb[z] = r => RegionOf(B, rb, z) = SR
    BY DEF RegionOf
  <2>2. CASE ~Odd(X \cap SL)
    <3>1. \A z \in B : ~Odd(X \cap RegionOf(B, rb, z))
      BY <1>4, <2>0, <2>1, <2>2
    <3>2. X \in SUBSET B /\ X \cap A = X
      BY <1>0
    <3> QED BY <3>1, <3>2
  <2>3. CASE Odd(X \cap SL)
    <3> DEFINE Y == X \cup {e, -e}
    <3>1. Curves(Y) /\ Y \in SUBSET B /\ Y \cap A = X
      BY <1>0 DEF Curves
    <3>2. \A S : Odd(Y \cap S) <=> (Odd(X \cap S) <=> (e \in S <=> -e \in S))
      BY <1>0, <1>1, OddCurve
    <3> HIDE DEF Y
    <3>3. ASSUME NEW z \in B PROVE ~Odd(Y \cap RegionOf(B, rb, z))
      <4>1. CASE rb[z] = l
        BY <1>3, <2>1, <2>3, <3>2, <4>1
      <4>2. CASE rb[z] = r
        BY <1>3, <1>4, <2>1, <2>3, <3>2, <4>2
      <4>3. CASE rb[z] \notin {l, r}
        <5>1. e \notin RegionOf(B, rb, z) /\ -e \notin RegionOf(B, rb, z)
          BY <4>3 DEF RegionOf
        <5> QED BY <2>0, <3>2, <4>3, <5>1
      <4> QED BY <4>1, <4>2, <4>3
    <3> QED BY <3>1, <3>3
  <2> QED BY <2>2, <2>3
<1>6. PICK Y \in SUBSET B : Curves(Y) /\ Evenly(B, rb, Y) /\ Y \cap A = X
  BY <1>5 DEF Evenly
<1>7. PICK U : Sides(b, B, U) /\ Crossing(B, U) = Y
  BY <1>6 DEF Jordan
<1>8. Sides(a, A, U \cap A)
  BY <1>7, SidesExtend
<1>9. Crossing(A, U \cap A) = X
  <2>1. \A x \in A : x \in Crossing(A, U \cap A) <=> x \in Crossing(B, U)
    BY <1>0 DEF Crossing, Rotates
  <2>2. Crossing(A, U \cap A) \subseteq A
    BY DEF Crossing
  <2> QED BY <1>6, <1>7, <2>1, <2>2
<1> QED BY <1>8, <1>9

-----------------------------------------------------------------------------
(* A curve with one ring on both of its sides: it bridges pieces, those in T *)
(* and those that are not, or hangs from one, or is one.                     *)

Bridges(a, A, b, B, e, T, L, K) ==
  /\ Grows(a, A, b, B, e) /\ L = Orbit(Walk(b), e) /\ K = L \ {e, -e} /\ -e \in L
  /\ T \in SUBSET A /\ Closed(a, T) /\ b[e] \in T \cup {e} /\ b[-e] \in (A \ T) \cup {-e}

\* Seen from the other end it is a bridge too.
LEMMA BridgesBack ==
  ASSUME NEW a, NEW A, NEW b, NEW B, NEW e, NEW T, NEW L, NEW K, Bridges(a, A, b, B, e, T, L, K)
  PROVE  Bridges(a, A, b, B, -e, A \ T, L, K)
<1>1. Rotates(a, A) /\ Rotates(b, B) /\ Grows(a, A, b, B, e) /\ e \in B /\ -(-e) = e
  BY GrowsLinks DEF Bridges, Grows
<1>2. Grows(a, A, b, B, -e)
  <2>1. /\ -e \in Int \ {0} /\ -e \notin A /\ -(-e) \notin A /\ B = A \cup {-e, -(-e)}
        /\ {e, -e} = {-e, -(-e)}
    BY <1>1 DEF Grows
  <2>2. \A x \in A : a[x] = IF b[x] \notin {-e, -(-e)} THEN b[x]
                            ELSE IF b[b[x]] \notin {-e, -(-e)} THEN b[b[x]] ELSE b[b[b[x]]]
    BY <1>1, <2>1 DEF Grows
  <2> QED BY <1>1, <2>1, <2>2 DEF Grows
<1>3. L = Orbit(Walk(b), -e)
  BY <1>1, RingsPart DEF Bridges
<1>4. A \ T \in SUBSET A /\ Closed(a, A \ T) /\ A \ (A \ T) = T
  BY <1>1, ClosedBackwards DEF Bridges
<1>5. e \in L
  BY <1>1, RingsPart DEF Bridges
<1>6. /\ K = L \ {-e, -(-e)} /\ -(-e) \in L
      /\ b[-e] \in (A \ T) \cup {-e} /\ b[-(-e)] \in (A \ (A \ T)) \cup {-(-e)}
  <2>1. K = L \ {e, -e} /\ b[e] \in T \cup {e} /\ b[-e] \in (A \ T) \cup {-e}
    BY DEF Bridges
  <2>2. {-e, -(-e)} = {e, -e}
    BY <1>1
  <2> QED BY <1>1, <1>4, <1>5, <2>1, <2>2
<1> QED BY <1>2, <1>3, <1>4, <1>6 DEF Bridges

\* The rings: that of e is made of one of each side.
BridgedRings(a, A, b, B, e, T, L, K) ==
  /\ e \in L /\ -e \in L /\ L \subseteq B /\ Walked(b, L) /\ K \subseteq A /\ Walked(a, K)
  /\ \A S \in SUBSET B : Walked(b, S) /\ S \cap L # {} => L \subseteq S
  /\ b[e] \in A => b[e] \in K \cap T
  /\ b[-e] \in A => b[-e] \in K \ T
  /\ Walked(a, K \cap T) /\ Walked(a, K \ T)
  /\ \A S \in SUBSET A : Walked(a, S) /\ S \cap (K \cap T) # {} => K \cap T \subseteq S
  /\ K \cap T # {} => b[e] \in A

\* A set of rings that has something of the ring of e on the side of T has all of it.
LEMMA BridgesRings ==
  ASSUME NEW a, NEW A, NEW b, NEW B, NEW e, NEW T, NEW L, NEW K, Bridges(a, A, b, B, e, T, L, K)
  PROVE  BridgedRings(a, A, b, B, e, T, L, K)
<1>0. /\ Grows(a, A, b, B, e) /\ Rotates(b, B) /\ Rotates(a, A)
      /\ T \in SUBSET A /\ Closed(a, T) /\ b[e] \in T \cup {e} /\ b[-e] \in (A \ T) \cup {-e}
      /\ L = Orbit(Walk(b), e) /\ K = L \ {e, -e} /\ -e \in L
      /\ e \notin A /\ -e \notin A
  BY DEF Bridges, Grows
<1>g. /\ e # -e /\ e \in B /\ -e \in B /\ A \subseteq B /\ B \ A = {e, -e} /\ -(-e) = e
  BY <1>0, GrowsLinks
<1>1. /\ e \in L /\ L \subseteq B
      /\ \A y \in B : b[-y] \in L <=> y \in L
      /\ \A S : e \in S /\ Walked(b, S \cap B) => L \subseteq S
  BY <1>0, <1>g, RingsPart
<1>2. Walked(b, L)
  BY <1>1 DEF Walked
<1>3. K \in SUBSET A /\ Walked(a, K)
  <2>1. K \subseteq A
    BY <1>0, <1>1, <1>g
  <2> QED BY <1>0, <1>1, <1>2, <2>1, GrowsWalked
<1>4. ASSUME NEW S \in SUBSET B, Walked(b, S), S \cap L # {} PROVE L \subseteq S
  <2>1. Walked(b, B \ S)
    BY <1>0, <1>4, WalkedSets
  <2>2. (B \ S) \cap B = B \ S /\ S \cap B = S
    OBVIOUS
  <2>3. e \in S
    <3>1. e \notin S => L \subseteq B \ S
      BY <1>1, <1>g, <2>1, <2>2
    <3> QED BY <1>4, <3>1
  <2> QED BY <1>1, <1>4, <2>2, <2>3
<1>5. b[e] \in L /\ b[-e] \in L
  BY <1>0, <1>1, <1>g
<1>6. Walked(a, T)
  BY <1>0, WalkedSets
<1>7. Walked(a, K \cap T) /\ Walked(a, K \ T)
  BY <1>0, <1>3, <1>6, WalkedMinus
<1>8. ASSUME NEW S \in SUBSET A, Walked(a, S), S \cap (K \cap T) # {} PROVE b[e] \in S
  <2> SUFFICES ASSUME b[e] \notin S PROVE FALSE
    OBVIOUS
  <2>1. PICK V \in SUBSET A : V = S \cap (K \cap T) /\ Walked(a, V)
    <3>1. PICK V \in SUBSET A : V = K \cap T /\ Walked(a, V)
      BY <1>3, <1>7
    <3>2. Walked(a, S \cap V)
      BY <1>0, <1>8, <3>1, WalkedMinus
    <3> QED BY <3>1, <3>2
  <2>2. b[e] \notin V /\ b[-e] \notin V
    BY <1>0, <2>1
  <2>3. Walked(b, V) /\ V \in SUBSET B
    BY <1>0, <1>g, <2>1, <2>2, GrowsWalked
  <2>4. V \cap L # {} /\ e \notin V
    BY <1>0, <1>8, <2>1
  <2> QED BY <1>1, <1>4, <2>3, <2>4
<1>9. ASSUME NEW S \in SUBSET A, Walked(a, S), S \cap (K \cap T) # {} PROVE K \cap T \subseteq S
  <2>1. PICK V \in SUBSET A : V = (S \cap T) \cup (K \ T) /\ Walked(a, V)
    <3>1. Walked(a, S \cap T)
      BY <1>0, <1>6, <1>9, WalkedMinus
    <3>2. PICK V1 \in SUBSET A, V2 \in SUBSET A : V1 = S \cap T /\ V2 = K \ T /\ Walked(a, V1) /\ Walked(a, V2)
      BY <1>3, <1>7, <3>1
    <3>3. Walked(a, V1 \cup V2)
      BY <1>0, <3>2, WalkedMinus
    <3> QED BY <3>2, <3>3
  <2>2. b[e] \in V
    BY <1>0, <1>8, <1>9, <2>1
  <2>3. b[-e] \in V \cup {e, -e}
    BY <1>0, <1>5, <2>1
  <2>4. Walked(b, V \cup {e, -e}) /\ V \cup {e, -e} \in SUBSET B
    BY <1>0, <1>g, <2>1, <2>2, <2>3, GrowsWalked
  <2>5. L \subseteq V \cup {e, -e}
    BY <1>1, <1>4, <2>4
  <2> QED BY <1>0, <2>1, <2>5
<1>10. K \cap T # {} => b[e] \in A
  <2> SUFFICES ASSUME K \cap T # {} PROVE b[e] \in A
    OBVIOUS
  <2>1. PICK V \in SUBSET A : V = K \cap T /\ Walked(a, V)
    BY <1>3, <1>7
  <2>2. b[e] \in V
    BY <1>8, <2>1
  <2> QED BY <2>2
<1>11. (b[e] \in A => b[e] \in K \cap T) /\ (b[-e] \in A => b[-e] \in K \ T)
  BY <1>0, <1>5
<1> QED BY <1>0, <1>1, <1>2, <1>3, <1>4, <1>7, <1>9, <1>10, <1>11 DEF BridgedRings

\* What is in one ring or piece with what, without the bridge and with it.
BridgedSame(a, A, b, B, e, T, L, K) ==
  /\ \A x, y \in A \ K : SameRing(a, A, x, y) <=> SameRing(b, B, x, y)
  /\ \A x \in K \cap T, y \in A : SameRing(a, A, x, y) <=> y \in K \cap T
  /\ \A x \in L, y \in B : SameRing(b, B, x, y) <=> y \in L
  /\ \A x, y \in A : SamePiece(a, A, x, y) => SamePiece(b, B, x, y) /\ (x \in T <=> y \in T)
  /\ \A x, y \in T : SamePiece(b, B, x, y) => SamePiece(a, A, x, y)
  /\ \A y \in T : SamePiece(b, B, e, y) => b[e] \in T /\ SamePiece(a, A, b[e], y)
  /\ \A x \in T, y \in A \ T : SamePiece(b, B, x, y) => SamePiece(b, B, e, x) /\ SamePiece(b, B, e, y)
  /\ \A x, y \in L : SamePiece(b, B, x, y)

\* That part of it which is said of the side of T.
LEMMA BridgesSame ==
  ASSUME NEW a, NEW A, NEW b, NEW B, NEW e, NEW T, NEW L, NEW K, Bridges(a, A, b, B, e, T, L, K)
  PROVE  BridgedSame(a, A, b, B, e, T, L, K)
<1>0. /\ Grows(a, A, b, B, e) /\ Rotates(b, B) /\ Rotates(a, A)
      /\ T \in SUBSET A /\ Closed(a, T) /\ b[e] \in T \cup {e} /\ b[-e] \in (A \ T) \cup {-e}
      /\ K = L \ {e, -e} /\ e \notin A /\ -e \notin A
  BY DEF Bridges, Grows
<1>g. /\ e # -e /\ e \in B /\ -e \in B /\ A \subseteq B /\ B \ A = {e, -e} /\ -(-e) = e
  BY <1>0, GrowsLinks
<1>r. BridgedRings(a, A, b, B, e, T, L, K)
  BY BridgesRings
<1>1. /\ e \in L /\ -e \in L /\ L \subseteq B /\ Walked(b, L) /\ K \subseteq A /\ Walked(a, K)
      /\ \A S \in SUBSET B : Walked(b, S) /\ S \cap L # {} => L \subseteq S
      /\ b[e] \in A => b[e] \in K \cap T
      /\ b[-e] \in A => b[-e] \in K \ T
      /\ Walked(a, K \cap T)
      /\ \A S \in SUBSET A : Walked(a, S) /\ S \cap (K \cap T) # {} => K \cap T \subseteq S
  BY <1>r DEF BridgedRings
<1>t. Closed(a, A \ T) /\ \A x \in A : -x \in T <=> x \in T
  BY <1>0, ClosedBackwards
<1>2. ASSUME NEW x \in A \ K, NEW y \in A \ K, SameRing(a, A, x, y) PROVE SameRing(b, B, x, y)
  <2> SUFFICES ASSUME NEW S \in SUBSET B, Walked(b, S), x \in S PROVE y \in S
    BY DEF SameRing
  <2>1. Walked(b, S \ L)
    BY <1>0, <1>1, WalkedMinus
  <2>2. (S \ L) \ {e, -e} = S \ L /\ S \ L \in SUBSET B /\ S \ L \in SUBSET A
        /\ e \notin S \ L /\ -e \notin S \ L
    BY <1>1, <1>g
  <2>3. Walked(a, S \ L)
    BY <1>0, <2>1, <2>2, GrowsWalked
  <2> QED BY <1>2, <1>0, <2>2, <2>3 DEF SameRing
<1>3. ASSUME NEW x \in A \ K, NEW y \in A \ K, SameRing(b, B, x, y) PROVE SameRing(a, A, x, y)
  <2> SUFFICES ASSUME NEW S \in SUBSET A, Walked(a, S), x \in S PROVE y \in S
    BY DEF SameRing
  <2>1. Walked(a, S \ K) /\ S \ K \in SUBSET A
    BY <1>0, <1>1, WalkedMinus
  <2>2. b[e] \notin S \ K /\ b[-e] \notin S \ K
    BY <1>0, <1>1
  <2>3. Walked(b, S \ K) /\ S \ K \in SUBSET B
    BY <1>0, <1>g, <2>1, <2>2, GrowsWalked
  <2> QED BY <1>3, <2>3 DEF SameRing
<1>4. \A x \in K \cap T, y \in A : SameRing(a, A, x, y) <=> y \in K \cap T
  BY <1>1 DEF SameRing
<1>5. \A x \in L, y \in B : SameRing(b, B, x, y) <=> y \in L
  BY <1>1 DEF SameRing
<1>6. ASSUME NEW x \in A, NEW y \in A, SamePiece(a, A, x, y)
      PROVE  SamePiece(b, B, x, y) /\ (x \in T <=> y \in T)
  <2>1. x \in T <=> y \in T
    BY <1>0, <1>6, <1>t DEF SamePiece
  <2>2. ASSUME NEW S \in SUBSET B, Closed(b, S), x \in S PROVE y \in S
    <3>1. Closed(a, S \ {e, -e}) /\ S \ {e, -e} \in SUBSET A
      BY <1>0, <1>g, <2>2, GrowsClosed
    <3> QED BY <1>0, <1>6, <2>2, <3>1 DEF SamePiece
  <2> QED BY <2>1, <2>2 DEF SamePiece
\* Of pieces U on the side of T that have the end of e, if anything, and of all that are
\* on the other side, the bridge makes one set of pieces.
<1>7. ASSUME NEW U \in SUBSET T, Closed(a, U), b[e] \in U \cup {e}
      PROVE  Closed(b, U \cup (A \ T) \cup {e, -e}) /\ U \cup (A \ T) \cup {e, -e} \in SUBSET B
  <2>1. Closed(a, U \cup (A \ T)) /\ U \cup (A \ T) \in SUBSET A
    BY <1>0, <1>7, <1>t DEF Closed
  <2>2. b[e] \in (U \cup (A \ T)) \cup {e, -e} /\ b[-e] \in (U \cup (A \ T)) \cup {e, -e}
    BY <1>0, <1>7
  <2> QED BY <1>0, <1>g, <2>1, <2>2, GrowsClosed
<1>8. ASSUME NEW U \in SUBSET T, Closed(a, U), b[e] \notin U PROVE Closed(b, U) /\ U \in SUBSET B
  <2>1. b[-e] \notin U
    BY <1>0, <1>8
  <2> QED BY <1>0, <1>g, <1>8, <2>1, GrowsClosed
<1>9. ASSUME NEW S \in SUBSET A, Closed(a, S) PROVE Closed(a, S \cap T) /\ S \cap T \in SUBSET T
  BY <1>0, <1>9 DEF Closed
<1>10. ASSUME NEW x \in T, NEW y \in T, SamePiece(b, B, x, y) PROVE SamePiece(a, A, x, y)
  <2> SUFFICES ASSUME NEW S \in SUBSET A, Closed(a, S), x \in S PROVE y \in S
    BY DEF SamePiece
  <2>1. CASE b[e] \in (S \cap T) \cup {e}
    <3>1. y \in (S \cap T) \cup (A \ T) \cup {e, -e}
      BY <1>7, <1>9, <1>10, <2>1 DEF SamePiece
    <3> QED BY <1>0, <3>1
  <2>2. CASE b[e] \notin (S \cap T) \cup {e}
    BY <1>8, <1>9, <1>10, <2>2 DEF SamePiece
  <2> QED BY <2>1, <2>2
<1>11. ASSUME NEW y \in T, SamePiece(b, B, e, y) PROVE b[e] \in T /\ SamePiece(a, A, b[e], y)
  <2>1. b[e] # e
    <3> SUFFICES ASSUME b[e] = e PROVE FALSE
      OBVIOUS
    <3>1. Closed(a, {}) /\ {} \in SUBSET T
      BY DEF Closed
    <3>2. y \in {} \cup (A \ T) \cup {e, -e}
      BY <1>7, <1>11, <3>1 DEF SamePiece
    <3> QED BY <1>0, <3>2
  <2>2. b[e] \in T
    BY <1>0, <2>1
  <2>3. ASSUME NEW S \in SUBSET A, Closed(a, S), b[e] \in S PROVE y \in S
    <3>1. y \in (S \cap T) \cup (A \ T) \cup {e, -e}
      BY <1>7, <1>9, <1>11, <2>2, <2>3 DEF SamePiece
    <3> QED BY <1>0, <3>1
  <2> QED BY <2>2, <2>3 DEF SamePiece
<1>12. ASSUME NEW x \in T, NEW y \in A \ T, SamePiece(b, B, x, y)
       PROVE  SamePiece(b, B, e, x) /\ SamePiece(b, B, e, y)
  <2>1. SamePiece(b, B, x, e)
    <3> SUFFICES ASSUME NEW S \in SUBSET B, Closed(b, S), x \in S, e \notin S PROVE FALSE
      BY DEF SamePiece
    <3>1. -e \notin S /\ S \in SUBSET A
      <4>1. -e \in S <=> e \in S
        BY <1>0, <1>g, ClosedBackwards
      <4> QED BY <1>0, <1>g, <4>1
    <3>2. Closed(a, S)
      <4>1. S \ {e, -e} = S
        BY <3>1
      <4> QED BY <1>0, <4>1, GrowsClosed
    <3>3. b[e] \notin S
      BY <1>0, <1>g, ClosedBackwards
    <3>4. Closed(b, S \cap T) /\ S \cap T \in SUBSET B
      BY <1>8, <1>9, <3>1, <3>2, <3>3
    <3> QED BY <1>0, <1>12, <3>4 DEF SamePiece
  <2>2. SamePiece(b, B, e, x)
    BY <1>0, <1>g, <2>1, Mutual
  <2> QED BY <1>12, <2>2, Onward
<1>13. ASSUME NEW x \in L, NEW y \in L PROVE SamePiece(b, B, x, y)
  <2>1. x \in B /\ y \in B /\ SameRing(b, B, x, y)
    BY <1>1, <1>5
  <2> QED BY <1>0, <2>1, Mutual
<1> QED BY <1>0, <1>2, <1>3, <1>4, <1>5, <1>6, <1>10, <1>11, <1>12, <1>13 DEF BridgedSame

\* All that is said of a bridge, from both of its ends.
Bridged(a, A, b, B, e, T, L, K) ==
  /\ K = L \ {e, -e} /\ K \subseteq A /\ e \in L /\ -e \in L /\ L \subseteq B
  /\ A \subseteq B /\ B \ A = {e, -e} /\ e \notin A /\ -e \notin A /\ Walked(b, L) /\ T \subseteq A
  /\ b[e] \in A => b[e] \in K \cap T
  /\ b[-e] \in A => b[-e] \in K \ T
  /\ K \cap T # {} => b[e] \in A
  /\ K \ T # {} => b[-e] \in A
  /\ \A x, y \in A \ K : SameRing(a, A, x, y) <=> SameRing(b, B, x, y)
  /\ \A x \in K \cap T, y \in A : SameRing(a, A, x, y) <=> y \in K \cap T
  /\ \A x \in K \ T, y \in A : SameRing(a, A, x, y) <=> y \in K \ T
  /\ \A x \in L, y \in B : SameRing(b, B, x, y) <=> y \in L
  /\ \A x, y \in A : SamePiece(a, A, x, y) => SamePiece(b, B, x, y) /\ (x \in T <=> y \in T)
  /\ \A x, y \in A : SamePiece(b, B, x, y) /\ (x \in T <=> y \in T) => SamePiece(a, A, x, y)
  /\ \A y \in T : SamePiece(b, B, e, y) => b[e] \in T /\ SamePiece(a, A, b[e], y)
  /\ \A y \in A \ T : SamePiece(b, B, e, y) => b[-e] \in A \ T /\ SamePiece(a, A, b[-e], y)
  /\ \A x \in T, y \in A \ T : SamePiece(b, B, x, y) => SamePiece(b, B, e, x) /\ SamePiece(b, B, e, y)
  /\ \A x, y \in L : SamePiece(b, B, x, y)

\* A bridge is between what is in T and what is not.
LEMMA BridgesBoth ==
  ASSUME NEW a, NEW A, NEW b, NEW B, NEW e, NEW T, NEW L, NEW K, Bridges(a, A, b, B, e, T, L, K)
  PROVE  Bridged(a, A, b, B, e, T, L, K)
<1>0. Bridges(a, A, b, B, -e, A \ T, L, K)
  BY BridgesBack
<1>1. BridgedRings(a, A, b, B, e, T, L, K) /\ BridgedSame(a, A, b, B, e, T, L, K)
  BY BridgesRings, BridgesSame
<1>2. BridgedRings(a, A, b, B, -e, A \ T, L, K) /\ BridgedSame(a, A, b, B, -e, A \ T, L, K)
  BY <1>0, BridgesRings, BridgesSame
<1>3. /\ K = L \ {e, -e} /\ K \subseteq A /\ e \in L /\ -e \in L /\ L \subseteq B
      /\ A \subseteq B /\ B \ A = {e, -e} /\ e \notin A /\ -e \notin A /\ Walked(b, L)
      /\ T \subseteq A /\ Rotates(b, B) /\ e \in B /\ -e \in B
  <2>1. Grows(a, A, b, B, e) /\ K = L \ {e, -e} /\ T \subseteq A
    BY DEF Bridges
  <2>2. e \in L /\ -e \in L /\ L \subseteq B /\ Walked(b, L) /\ K \subseteq A
    BY <1>1 DEF BridgedRings
  <2> QED BY <2>1, <2>2, GrowsLinks DEF Grows
<1>4. /\ b[e] \in A => b[e] \in K \cap T
      /\ b[-e] \in A => b[-e] \in K \ T
      /\ K \cap T # {} => b[e] \in A
  BY <1>1 DEF BridgedRings
<1>5. K \cap (A \ T) = K \ T
  BY <1>3
<1>6. K \ T # {} => b[-e] \in A
  BY <1>2, <1>5 DEF BridgedRings
<1>7. /\ \A x, y \in A \ K : SameRing(a, A, x, y) <=> SameRing(b, B, x, y)
      /\ \A x \in K \cap T, y \in A : SameRing(a, A, x, y) <=> y \in K \cap T
      /\ \A x \in L, y \in B : SameRing(b, B, x, y) <=> y \in L
      /\ \A x, y \in A : SamePiece(a, A, x, y) => SamePiece(b, B, x, y) /\ (x \in T <=> y \in T)
      /\ \A x, y \in T : SamePiece(b, B, x, y) => SamePiece(a, A, x, y)
      /\ \A y \in T : SamePiece(b, B, e, y) => b[e] \in T /\ SamePiece(a, A, b[e], y)
      /\ \A x \in T, y \in A \ T : SamePiece(b, B, x, y) => SamePiece(b, B, e, x) /\ SamePiece(b, B, e, y)
      /\ \A x, y \in L : SamePiece(b, B, x, y)
  BY <1>1 DEF BridgedSame
<1>8. /\ \A x \in K \cap (A \ T), y \in A : SameRing(a, A, x, y) <=> y \in K \cap (A \ T)
      /\ \A x, y \in A \ T : SamePiece(b, B, x, y) => SamePiece(a, A, x, y)
      /\ \A y \in A \ T : SamePiece(b, B, -e, y) => b[-e] \in A \ T /\ SamePiece(a, A, b[-e], y)
  BY <1>2 DEF BridgedSame
<1>9. \A x \in K \ T, y \in A : SameRing(a, A, x, y) <=> y \in K \ T
  BY <1>5, <1>8
<1>10. \A x, y \in A : SamePiece(b, B, x, y) /\ (x \in T <=> y \in T) => SamePiece(a, A, x, y)
  BY <1>7, <1>8
<1>11. \A y \in A \ T : SamePiece(b, B, e, y) => b[-e] \in A \ T /\ SamePiece(a, A, b[-e], y)
  <2> SUFFICES ASSUME NEW y \in A \ T, SamePiece(b, B, e, y)
               PROVE  b[-e] \in A \ T /\ SamePiece(a, A, b[-e], y)
    OBVIOUS
  <2>1. SamePiece(b, B, -e, e)
    BY <1>3, <1>7
  <2>2. SamePiece(b, B, -e, y)
    BY <2>1, Onward
  <2> QED BY <1>8, <2>2
<1> QED BY <1>3, <1>4, <1>6, <1>7, <1>9, <1>10, <1>11 DEF Bridged

\* Drawing a bridge: it is in the region it is drawn in, and the ring around it is an
\* outer boundary if all that it is made of was.
BridgeDrawing(a, A, ha, ra, b, B, hb, rb, e, T, L, K) ==
  /\ Bridges(a, A, b, B, e, T, L, K) /\ OneRegion(b, B, rb) /\ \A x \in A : rb[x] = ra[x]
  /\ hb = (ha \ L) \cup (IF K \subseteq ha THEN L ELSE {})

\* What the ring of the bridge is made of.
BridgeHoles(A, ha, B, hb, rb, e, T, L, K) ==
  /\ \A x \in A \ L : x \in hb <=> x \in ha
  /\ \A x \in L : x \in hb <=> K \subseteq ha
  /\ \A x \in L : rb[x] = rb[e]
  /\ (\E k \in K \cap T : k \in ha) => K \cap T \subseteq ha
  /\ (\E k \in K \ T : k \in ha) => K \ T \subseteq ha

\* The rings it is made of are outer boundaries or shells as a whole.
LEMMA BridgeDrawn ==
  ASSUME NEW a, NEW A, NEW ha, NEW ra, NEW b, NEW B, NEW hb, NEW rb, NEW e, NEW T, NEW L, NEW K,
         BridgeDrawing(a, A, ha, ra, b, B, hb, rb, e, T, L, K), HolesWhole(a, A, ha)
  PROVE  HolesWhole(b, B, hb) /\ BridgeHoles(A, ha, B, hb, rb, e, T, L, K)
<1>0. /\ Bridges(a, A, b, B, e, T, L, K) /\ OneRegion(b, B, rb)
      /\ hb = (ha \ L) \cup (IF K \subseteq ha THEN L ELSE {})
  BY DEF BridgeDrawing
<1>1. Bridged(a, A, b, B, e, T, L, K) /\ Grows(a, A, b, B, e) /\ Rotates(b, B) /\ Rotates(a, A)
  BY <1>0, BridgesBoth DEF Bridges, Grows
<1>2. /\ K = L \ {e, -e} /\ K \subseteq A /\ e \in L /\ -e \in L /\ L \subseteq B /\ Walked(b, L)
      /\ A \subseteq B /\ B \ A = {e, -e} /\ e \notin A /\ -e \notin A
      /\ \A x \in K \cap T, y \in A : SameRing(a, A, x, y) <=> y \in K \cap T
      /\ \A x \in K \ T, y \in A : SameRing(a, A, x, y) <=> y \in K \ T
      /\ \A x \in L, y \in B : SameRing(b, B, x, y) <=> y \in L
  BY <1>1 DEF Bridged
<1>3. /\ \A x \in A \ L : x \in hb <=> x \in ha
      /\ \A x \in L : x \in hb <=> K \subseteq ha
      /\ hb \subseteq B /\ ha \subseteq A /\ Walked(a, ha)
  <2>1. ha \subseteq A /\ Walked(a, ha)
    BY DEF HolesWhole, Walked
  <2> QED BY <1>0, <1>2, <2>1
<1>4. \A x \in L : rb[x] = rb[e]
  <2>0. Walked(b, {x \in B : rb[x] = rb[e]})
    <3>1. Rotates(b, B) /\ OneRegion(b, B, rb)
      BY <1>0, <1>1
    <3>2. \A x \in B : Walk(b)[x] = b[-x] /\ b[-x] \in B
      BY <3>1, WalkPermutes
    <3> QED BY <3>1, <3>2 DEF OneRegion, Walked
  <2>1. PICK S \in SUBSET B : S = {x \in B : rb[x] = rb[e]} /\ Walked(b, S)
    BY <2>0
  <2>2. \A y \in L : SameRing(b, B, e, y)
    BY <1>2
  <2> QED BY <1>2, <2>1, <2>2 DEF SameRing
<1>5. (\E k \in K \cap T : k \in ha) => K \cap T \subseteq ha
  BY <1>2, <1>3 DEF SameRing
<1>6. (\E k \in K \ T : k \in ha) => K \ T \subseteq ha
  BY <1>2, <1>3 DEF SameRing
<1>7. ASSUME NEW x \in B PROVE x \in hb <=> b[-x] \in hb
  <2>0. \A y \in B : b[-y] \in L <=> y \in L
    BY <1>1, <1>2, WalkedSets
  <2>1. CASE x \in L
    BY <1>3, <2>0, <2>1
  <2>2. CASE x \notin L
    <3>1. x \in A /\ b[-x] \in B /\ b[-x] \notin L /\ -x \in A
      BY <1>1, <1>2, <2>0, <2>2, GrowsLinks
    <3>2. a[-x] = b[-x] /\ b[-x] \in A
      BY <1>1, <1>2, <3>1, GrowsLinks
    <3> QED BY <1>3, <2>2, <3>1, <3>2 DEF HolesWhole
  <2> QED BY <2>1, <2>2
<1> QED BY <1>3, <1>4, <1>5, <1>6, <1>7 DEF HolesWhole, BridgeHoles

\* The shells after a bridge is drawn.
LEMMA BridgeShells ==
  ASSUME NEW a, NEW A, NEW ha, NEW ra, NEW b, NEW B, NEW hb, NEW rb, NEW e, NEW T, NEW L, NEW K,
         BridgeDrawing(a, A, ha, ra, b, B, hb, rb, e, T, L, K), HolesWhole(a, A, ha),
         OneShell(a, A, ha, ra)
  PROVE  OneShell(b, B, hb, rb)
<1>0. Bridged(a, A, b, B, e, T, L, K) /\ BridgeHoles(A, ha, B, hb, rb, e, T, L, K)
  BY BridgeDrawn, BridgesBoth DEF BridgeDrawing
<1>1. /\ K = L \ {e, -e} /\ K \subseteq A /\ L \subseteq B /\ e \in L /\ -e \in L /\ B \ A = {e, -e}
      /\ \A x, y \in A \ K : SameRing(a, A, x, y) <=> SameRing(b, B, x, y)
      /\ \A x \in K \cap T, y \in A : SameRing(a, A, x, y) <=> y \in K \cap T
      /\ \A x \in K \ T, y \in A : SameRing(a, A, x, y) <=> y \in K \ T
      /\ \A x \in L, y \in B : SameRing(b, B, x, y) <=> y \in L
  BY <1>0 DEF Bridged
<1>2. /\ \A x \in A \ L : x \in hb <=> x \in ha
      /\ \A x \in L : x \in hb <=> K \subseteq ha
      /\ \A x \in L : rb[x] = rb[e]
  BY <1>0 DEF BridgeHoles
<1>3. \A x \in A : rb[x] = ra[x]
  BY DEF BridgeDrawing
<1>4. /\ \A x \in A \ ha : ra[x] # 0
      /\ \A x, y \in A \ ha : ra[x] = ra[y] => SameRing(a, A, x, y)
  BY DEF OneShell
<1>5. ASSUME NEW x \in L, x \notin hb
      PROVE  \E k \in K : k \in A \ ha /\ ra[k] = rb[x]
  <2>1. PICK k \in K : k \notin ha
    BY <1>2, <1>5
  <2> QED BY <1>1, <1>2, <1>3, <2>1, <1>5
<1>6. \A x \in B \ hb : rb[x] # 0
  <2> SUFFICES ASSUME NEW x \in B \ hb PROVE rb[x] # 0
    OBVIOUS
  <2>1. CASE x \in L
    BY <1>4, <1>5, <2>1
  <2>2. CASE x \notin L
    BY <1>1, <1>2, <1>3, <1>4, <2>2
  <2> QED BY <2>1, <2>2
\* A shell beside the bridge is not in its region.
<1>7. ASSUME NEW x \in L, x \notin hb, NEW y \in B \ L, y \notin hb, rb[x] = rb[y] PROVE FALSE
  <2>1. PICK k \in K : k \in A \ ha /\ ra[k] = rb[x]
    BY <1>5, <1>7
  <2>2. y \in A \ ha /\ ra[y] = rb[y] /\ y \notin K
    BY <1>1, <1>2, <1>3, <1>7
  <2>3. SameRing(a, A, k, y)
    BY <1>4, <1>7, <2>1, <2>2
  <2> QED BY <1>1, <2>1, <2>2, <2>3
<1>8. ASSUME NEW x \in B \ hb, NEW y \in B \ hb, rb[x] = rb[y] PROVE SameRing(b, B, x, y)
  <2>1. CASE x \in L /\ y \in L
    BY <1>1, <2>1
  <2>2. CASE x \notin L /\ y \notin L
    <3>1. x \in A \ ha /\ y \in A \ ha /\ ra[x] = ra[y] /\ x \notin K /\ y \notin K
      BY <1>1, <1>2, <1>3, <1>8, <2>2
    <3> QED BY <1>1, <1>4, <3>1
  <2>3. CASE x \in L /\ y \notin L
    BY <1>7, <1>8, <2>3
  <2>4. CASE x \notin L /\ y \in L
    BY <1>7, <1>8, <2>4
  <2> QED BY <2>1, <2>2, <2>3, <2>4
<1> QED BY <1>6, <1>8 DEF OneShell

\* The outer boundaries: of two pieces one is joined from outside.
LEMMA BridgeOuter ==
  ASSUME NEW a, NEW A, NEW ha, NEW ra, NEW b, NEW B, NEW hb, NEW rb, NEW e, NEW T, NEW L, NEW K,
         BridgeDrawing(a, A, ha, ra, b, B, hb, rb, e, T, L, K), HolesWhole(a, A, ha),
         OneShell(a, A, ha, ra), OneHole(a, A, ha), HasHole(a, A, ha)
  PROVE  OneHole(b, B, hb) /\ HasHole(b, B, hb)
<1>0. /\ Bridged(a, A, b, B, e, T, L, K) /\ BridgeHoles(A, ha, B, hb, rb, e, T, L, K)
      /\ HolesWhole(b, B, hb) /\ Rotates(b, B) /\ Rotates(a, A)
  BY BridgeDrawn, BridgesBoth DEF BridgeDrawing, Bridges, Grows
<1>1. /\ K = L \ {e, -e} /\ K \subseteq A /\ L \subseteq B /\ e \in L /\ -e \in L /\ B \ A = {e, -e}
      /\ A \subseteq B /\ T \subseteq A
      /\ \A x, y \in A \ K : SameRing(a, A, x, y) <=> SameRing(b, B, x, y)
      /\ \A x \in K \cap T, y \in A : SameRing(a, A, x, y) <=> y \in K \cap T
      /\ \A x \in K \ T, y \in A : SameRing(a, A, x, y) <=> y \in K \ T
      /\ \A x \in L, y \in B : SameRing(b, B, x, y) <=> y \in L
  BY <1>0 DEF Bridged
<1>p. /\ b[e] \in A => b[e] \in K \cap T
      /\ b[-e] \in A => b[-e] \in K \ T
      /\ \A x, y \in A : SamePiece(a, A, x, y) => SamePiece(b, B, x, y) /\ (x \in T <=> y \in T)
      /\ \A x, y \in A : SamePiece(b, B, x, y) /\ (x \in T <=> y \in T) => SamePiece(a, A, x, y)
      /\ \A y \in T : SamePiece(b, B, e, y) => b[e] \in T /\ SamePiece(a, A, b[e], y)
      /\ \A y \in A \ T : SamePiece(b, B, e, y) => b[-e] \in A \ T /\ SamePiece(a, A, b[-e], y)
      /\ \A x \in T, y \in A \ T : SamePiece(b, B, x, y) => SamePiece(b, B, e, x) /\ SamePiece(b, B, e, y)
      /\ \A x, y \in L : SamePiece(b, B, x, y)
  BY <1>0 DEF Bridged
<1>2. /\ \A x \in A \ L : x \in hb <=> x \in ha
      /\ \A x \in L : x \in hb <=> K \subseteq ha
      /\ \A x \in L : rb[x] = rb[e]
      /\ (\E k \in K \cap T : k \in ha) => K \cap T \subseteq ha
      /\ (\E k \in K \ T : k \in ha) => K \ T \subseteq ha
      /\ ha \subseteq A /\ hb \subseteq B
  BY <1>0 DEF BridgeHoles, HolesWhole
<1>3. \A x \in A : rb[x] = ra[x]
  BY DEF BridgeDrawing
<1>4. \A x, y \in ha : SamePiece(a, A, x, y) => SameRing(a, A, x, y)
  BY DEF OneHole
\* The outer boundary of a piece the bridge ends at, when it is not the bridge's ring.
<1>5. ASSUME NEW y \in ha, SamePiece(b, B, e, y), y \notin L
      PROVE  y \in T => b[e] \in A \ ha
  <2>1. SUFFICES ASSUME y \in T, b[e] \in ha PROVE FALSE
    BY <1>1, <1>5, <1>p
  <2>2. SamePiece(a, A, b[e], y)
    BY <1>5, <1>p, <2>1
  <2> QED BY <1>1, <1>2, <1>4, <1>5, <1>p, <2>1, <2>2
<1>6. ASSUME NEW y \in ha, SamePiece(b, B, e, y), y \notin L
      PROVE  y \notin T => b[-e] \in A \ ha
  <2>1. SUFFICES ASSUME y \notin T, b[-e] \in ha PROVE FALSE
    BY <1>1, <1>2, <1>6, <1>p
  <2>2. SamePiece(a, A, b[-e], y)
    BY <1>2, <1>6, <1>p, <2>1
  <2> QED BY <1>1, <1>2, <1>4, <1>6, <1>p, <2>1, <2>2
<1>7. ASSUME NEW x \in hb, NEW y \in hb, SamePiece(b, B, x, y), x \in L, y \notin L PROVE FALSE
  <2>1. K \subseteq ha /\ y \in ha /\ y \in A
    BY <1>1, <1>2, <1>7
  <2>2. SamePiece(b, B, e, y)
    BY <1>1, <1>7, <1>p, Onward
  <2>3. b[e] \in A => b[e] \in ha
    BY <1>p, <2>1
  <2>4. b[-e] \in A => b[-e] \in ha
    BY <1>p, <2>1
  <2> QED BY <1>5, <1>6, <1>7, <2>1, <2>2, <2>3, <2>4
\* Two shells do not meet in one region.
<1>8. b[e] \in A \ ha => b[-e] \notin A \ ha
  <2> SUFFICES ASSUME b[e] \in A \ ha, b[-e] \in A \ ha PROVE FALSE
    OBVIOUS
  <2>1. b[e] \in K \cap T /\ b[-e] \in K \ T
    BY <1>p
  <2>2. ra[b[e]] = ra[b[-e]]
    BY <1>1, <1>2, <1>3, <2>1
  <2>3. SameRing(a, A, b[e], b[-e])
    BY <2>2 DEF OneShell
  <2> QED BY <1>1, <2>1, <2>3
<1>9. ASSUME NEW x \in hb, NEW y \in hb, SamePiece(b, B, x, y), x \notin L, y \notin L
      PROVE  SameRing(b, B, x, y)
  <2>1. x \in ha /\ y \in ha /\ x \in A \ K /\ y \in A \ K
    BY <1>1, <1>2, <1>9
  <2>2. CASE x \in T <=> y \in T
    <3>1. SamePiece(a, A, x, y)
      BY <1>9, <1>p, <2>1, <2>2
    <3> QED BY <1>1, <1>4, <2>1, <3>1
  <2>3. ASSUME NEW u \in ha, NEW v \in ha, u \in T, v \notin T, u \notin L, v \notin L,
               SamePiece(b, B, u, v)
        PROVE  FALSE
    <3>1. SamePiece(b, B, e, u) /\ SamePiece(b, B, e, v)
      BY <1>2, <1>p, <2>3
    <3> QED BY <1>5, <1>6, <1>8, <2>3, <3>1
  <2>4. CASE x \in T /\ y \notin T
    BY <1>9, <2>1, <2>3, <2>4
  <2>5. CASE x \notin T /\ y \in T
    <3>1. SamePiece(b, B, y, x)
      BY <1>0, <1>1, <1>2, <1>9, Mutual
    <3> QED BY <1>9, <2>1, <2>3, <2>5, <3>1
  <2> QED BY <2>2, <2>4, <2>5
<1>10. ASSUME NEW x \in hb, NEW y \in hb, SamePiece(b, B, x, y) PROVE SameRing(b, B, x, y)
  <2>1. SamePiece(b, B, y, x)
    BY <1>0, <1>2, <1>10, Mutual
  <2>2. CASE x \in L /\ y \in L
    BY <1>1, <2>2
  <2> QED BY <1>7, <1>9, <1>10, <2>1, <2>2
<1>11. ASSUME NEW x \in K, K \subseteq ha \/ x \in ha PROVE \E y \in hb : SamePiece(b, B, x, y)
  <2>1. CASE K \subseteq ha
    <3>1. x \in L /\ x \in hb
      BY <1>1, <1>2, <2>1
    <3> QED BY <3>1, Onward
  <2>2. CASE ~(K \subseteq ha)
    <3>1. PICK k \in K : k \notin ha
      BY <2>2
    <3>2. PICK y \in ha : SamePiece(a, A, k, y)
      BY <1>1, <3>1 DEF HasHole
    <3>3. (k \in T <=> y \in T) /\ SamePiece(b, B, k, y) /\ k \in A /\ y \in A
      BY <1>1, <1>2, <1>p, <3>1, <3>2
    \* What is a hole is on the side of x, and k, which is none, is on the other.
    <3>4. (x \in T) # (k \in T)
      BY <1>2, <1>11, <2>2, <3>1
    <3>5. y \notin L
      <4>1. SUFFICES ASSUME y \in K PROVE FALSE
        BY <1>1, <3>3
      <4> QED BY <1>2, <3>1, <3>2, <3>3, <4>1
    <3>6. y \in hb
      BY <1>2, <3>3, <3>5
    <3>7. SamePiece(b, B, x, k)
      BY <1>1, <1>p, <3>1
    <3>8. SamePiece(b, B, x, y)
      BY <3>3, <3>7, Onward
    <3> QED BY <3>6, <3>8
  <2> QED BY <2>1, <2>2
<1>12. ASSUME NEW x \in A PROVE \E y \in hb : SamePiece(b, B, x, y)
  <2>1. PICK y \in ha : SamePiece(a, A, x, y)
    BY DEF HasHole
  <2>2. SamePiece(b, B, x, y) /\ y \in A
    BY <1>2, <1>p, <2>1
  <2>3. CASE y \notin L
    BY <1>2, <2>1, <2>2, <2>3
  <2>4. CASE y \in L
    <3>1. y \in K
      BY <1>1, <2>2, <2>4
    <3>2. PICK z \in hb : SamePiece(b, B, y, z)
      BY <1>11, <3>1
    <3> QED BY <2>2, <3>2, Onward
  <2> QED BY <2>3, <2>4
<1>13. ASSUME NEW x \in {e, -e} PROVE \E y \in hb : SamePiece(b, B, x, y)
  <2>1. CASE K = {}
    <3>1. x \in L /\ x \in hb
      BY <1>1, <1>2, <2>1
    <3> QED BY <3>1, Onward
  <2>2. CASE K # {}
    <3>1. PICK k \in K : TRUE
      BY <2>2
    <3>2. SamePiece(b, B, x, k) /\ k \in A
      BY <1>1, <1>p, <3>1
    <3>3. PICK y \in hb : SamePiece(b, B, k, y)
      BY <1>12, <3>2
    <3> QED BY <3>2, <3>3, Onward
  <2> QED BY <2>1, <2>2
<1>14. \A x \in B : x \in A \/ x \in {e, -e}
  BY <1>1
<1> QED BY <1>10, <1>12, <1>13, <1>14 DEF OneHole, HasHole

\* The two sides of a bridge are one region of the drawing, before and after.
BridgedRegions(a, A, ra, b, B, rb, e) ==
  /\ Grows(a, A, b, B, e) /\ rb[e] = rb[-e] /\ \A x \in A : rb[x] = ra[x]

\* A bridge does not part any sides: T with its end is one side of the nodes.
LEMMA BridgeSides ==
  ASSUME NEW a, NEW A, NEW b, NEW B, NEW e, Grows(a, A, b, B, e), NEW T \in SUBSET A, Closed(a, T),
         b[e] \in T \cup {e}, b[-e] \in (A \ T) \cup {-e}
  PROVE  Sides(b, B, T \cup {e})
<1> USE GrowsLinks
<1>0. /\ \A x \in B : x \in A \/ x \in {e, -e}
      /\ e \notin A /\ -e \notin A /\ A \subseteq B /\ Rotates(a, A)
  BY DEF Grows
<1>1. \A x \in A : x \in T <=> a[x] \in T
  <2>1. Closed(a, A \ T)
    BY <1>0, ClosedBackwards
  <2> QED BY <2>1 DEF Closed
<1>2. ASSUME NEW x \in A PROVE x \in T \cup {e} <=> b[x] \in T \cup {e}
  <2>1. CASE b[x] \notin {e, -e}
    BY <1>0, <1>1, <2>1
  <2>2. CASE b[x] = e
    <3>1. b[e] # e /\ a[x] = b[e] /\ b[e] \in T
      BY <1>0, <2>2
    <3> QED BY <1>1, <2>2, <3>1
  <2>3. CASE b[x] = -e
    <3>1. b[-e] # -e /\ a[x] = b[-e] /\ b[-e] \notin T
      BY <1>0, <2>3
    <3> QED BY <1>0, <1>1, <2>3, <3>1
  <2> QED BY <2>1, <2>2, <2>3
<1>3. e \in T \cup {e} <=> b[e] \in T \cup {e}
  OBVIOUS
<1>4. -e \in T \cup {e} <=> b[-e] \in T \cup {e}
  BY <1>0
<1>5. T \cup {e} \subseteq B
  BY <1>0
<1> QED BY <1>0, <1>2, <1>3, <1>4, <1>5 DEF Sides

\* Drawing a bridge keeps it true that what meets every region evenly leads from side
\* to side: if a choice of sides is wrong about the bridge, all on one of its sides
\* change sides.
LEMMA BridgeCurves ==
  ASSUME NEW a, NEW A, NEW ra, NEW b, NEW B, NEW rb, NEW e, NEW T,
         BridgedRegions(a, A, ra, b, B, rb, e), T \in SUBSET A, Closed(a, T),
         b[e] \in T \cup {e}, b[-e] \in (A \ T) \cup {-e}, Jordan(a, A, ra)
  PROVE  Jordan(b, B, rb)
<1> SUFFICES ASSUME NEW X \in SUBSET B, Curves(X), Evenly(B, rb, X)
             PROVE  \E C : Sides(b, B, C) /\ Crossing(B, C) = X
  BY DEF Jordan
<1>0. /\ Grows(a, A, b, B, e) /\ rb[e] = rb[-e] /\ \A x \in A : rb[x] = ra[x]
  BY DEF BridgedRegions
<1>1. /\ Rotates(a, A) /\ Rotates(b, B) /\ A \subseteq B /\ e \in B /\ -e \in B /\ e \notin A /\ -e \notin A
      /\ e \in Int \ {0} /\ -(-e) = e /\ \A x \in B : x \in A <=> x \notin {e, -e}
  BY <1>0, GrowsLinks DEF Grows
<1>2. /\ X \ {e, -e} \in SUBSET A /\ Curves(X \ {e, -e}) /\ (e \in X <=> -e \in X)
      /\ \A S : Odd((X \ {e, -e}) \cap S) <=> (Odd(X \cap S) <=> (e \in X => (e \in S <=> -e \in S)))
  <2>1. RestOfCurves(A, B, e, X)
    BY <1>0, RegionsOfRest
  <2> QED BY <2>1 DEF RestOfCurves
<1>3. ASSUME NEW z \in A PROVE ~Odd((X \ {e, -e}) \cap RegionOf(A, ra, z))
  <2>1. (X \ {e, -e}) \cap RegionOf(A, ra, z) = (X \ {e, -e}) \cap RegionOf(B, rb, z)
    BY <1>0, <1>1, <1>2 DEF RegionOf
  <2>2. e \in RegionOf(B, rb, z) <=> -e \in RegionOf(B, rb, z)
    BY <1>0, <1>1 DEF RegionOf
  <2>3. ~Odd(X \cap RegionOf(B, rb, z))
    BY <1>1 DEF Evenly
  <2>4. Odd((X \ {e, -e}) \cap RegionOf(B, rb, z))
        <=> (Odd(X \cap RegionOf(B, rb, z)) <=> (e \in X => (e \in RegionOf(B, rb, z) <=> -e \in RegionOf(B, rb, z))))
    BY <1>2
  <2> QED BY <2>1, <2>2, <2>3, <2>4
<1>4. PICK C : Sides(a, A, C) /\ Crossing(A, C) = X \ {e, -e}
  BY <1>2, <1>3 DEF Jordan, Evenly
<1>5. PICK U : Sides(b, B, U) /\ U \cap A = C
  BY <1>0, <1>4, SidesExtend
<1>6. \A x \in B : -x \in B /\ -(-x) = x /\ b[x] \in B /\ (x \in A => -x \in A)
  BY <1>0, <1>1, GrowsLinks
<1>7. \A x \in A : x \in Crossing(B, U) <=> x \in X
  <2>1. \A x \in A : x \in Crossing(B, U) <=> x \in Crossing(A, C)
    BY <1>1, <1>5, <1>6 DEF Crossing
  <2> QED BY <1>1, <1>4, <2>1
<1>8. CASE e \in Crossing(B, U) <=> e \in X
  <2>1. -e \in Crossing(B, U) <=> e \in Crossing(B, U)
    BY <1>1 DEF Crossing
  <2>2. Crossing(B, U) \subseteq B
    BY DEF Crossing
  <2>3. Crossing(B, U) = X
    <3>1. \A x \in B : x \in Crossing(B, U) <=> x \in X
      BY <1>1, <1>2, <1>7, <1>8, <2>1
    <3> QED BY <2>2, <3>1
  <2> QED BY <1>5, <2>3
<1>9. CASE ~(e \in Crossing(B, U) <=> e \in X)
  <2> DEFINE V == T \cup {e}
             Z == {x \in B : (x \in U) # (x \in V)}
  <2>1. Sides(b, B, V)
    BY <1>0, BridgeSides
  <2>2. Sides(b, B, Z)
    <3>1. \A x \in B : (x \in V <=> b[x] \in V) /\ (x \in U <=> b[x] \in U)
      BY <1>5, <2>1 DEF Sides
    <3> HIDE DEF V
    <3>2. \A x \in B : x \in Z <=> b[x] \in Z
      BY <1>6, <3>1
    <3>3. Z \subseteq B
      OBVIOUS
    <3> HIDE DEF Z
    <3> QED BY <3>2, <3>3 DEF Sides
  <2>3. /\ \A x \in A : x \in V <=> -x \in V
        /\ e \in V /\ -e \notin V
    <3>2. \A x \in A : x \in T <=> -x \in T
      BY <1>1, ClosedBackwards
    <3> QED BY <1>1, <1>6, <3>2
  <2>4. \A x \in A : x \in Crossing(B, Z) <=> x \in Crossing(B, U)
    <3> HIDE DEF V
    <3>1. \A x \in A : x \in B /\ -x \in B
      BY <1>1, <1>6
    <3> QED BY <2>3, <3>1 DEF Crossing
  <2>5. e \in Crossing(B, Z) <=> e \notin Crossing(B, U)
    <3> HIDE DEF V
    <3> QED BY <1>1, <2>3 DEF Crossing
  <2>6. -e \in Crossing(B, Z) <=> e \in Crossing(B, Z)
    BY <1>1 DEF Crossing
  <2>7. Crossing(B, Z) \subseteq B
    BY DEF Crossing
  <2> HIDE DEF Z
  <2>8. Crossing(B, Z) = X
    <3>1. \A x \in B : x \in Crossing(B, Z) <=> x \in X
      <4> SUFFICES ASSUME NEW x \in B PROVE x \in Crossing(B, Z) <=> x \in X
        OBVIOUS
      <4>1. CASE x \in A
        BY <1>7, <2>4, <4>1
      <4>2. CASE x \notin A
        <5>1. x \in {e, -e}
          BY <1>1, <4>2
        <5>2. e \in X <=> -e \in X
          BY <1>2
        <5> QED BY <1>9, <2>5, <2>6, <5>1, <5>2
      <4> QED BY <4>1, <4>2
    <3> QED BY <2>7, <3>1
  <2> QED BY <2>2, <2>8
<1> QED BY <1>8, <1>9

\* And so does taking it away.
LEMMA UnbridgeCurves ==
  ASSUME NEW a, NEW A, NEW ra, NEW b, NEW B, NEW rb, NEW e,
         BridgedRegions(a, A, ra, b, B, rb, e), Jordan(b, B, rb)
  PROVE  Jordan(a, A, ra)
<1> SUFFICES ASSUME NEW X \in SUBSET A, Curves(X), Evenly(A, ra, X)
             PROVE  \E C : Sides(a, A, C) /\ Crossing(A, C) = X
  BY DEF Jordan
<1>0. /\ Grows(a, A, b, B, e) /\ rb[e] = rb[-e] /\ \A x \in A : rb[x] = ra[x]
  BY DEF BridgedRegions
<1>1. /\ Rotates(a, A) /\ A \subseteq B /\ \A x \in A : -x \in A
  BY <1>0, GrowsLinks DEF Grows
<1>2. ASSUME NEW z \in B PROVE ~Odd(X \cap RegionOf(B, rb, z))
  <2>1. CASE X \cap RegionOf(B, rb, z) = {}
    BY <2>1, OddFacts
  <2>2. CASE X \cap RegionOf(B, rb, z) # {}
    <3>1. PICK y \in X : y \in RegionOf(B, rb, z)
      BY <2>2
    <3>2. X \cap RegionOf(B, rb, z) = X \cap RegionOf(A, ra, y)
      BY <1>0, <1>1, <3>1 DEF RegionOf
    <3> QED BY <3>1, <3>2 DEF Evenly
  <2> QED BY <2>1, <2>2
<1>3. PICK U : Sides(b, B, U) /\ Crossing(B, U) = X
  BY <1>1, <1>2 DEF Jordan, Evenly
<1>4. Sides(a, A, U \cap A)
  BY <1>0, <1>3, SidesExtend
<1>5. Crossing(A, U \cap A) = X
  <2>1. \A x \in A : x \in Crossing(A, U \cap A) <=> x \in Crossing(B, U)
    BY <1>1 DEF Crossing
  <2>2. Crossing(A, U \cap A) \subseteq A
    BY DEF Crossing
  <2> QED BY <1>3, <2>1, <2>2
<1> QED BY <1>4, <1>5

\* The darts from after dart e on, up to the dart -e: those of every set that has the
\* dart after e and, with a dart other than -e, the one after it.
Arc(b, B, e) ==
  {y \in B : \A S \in SUBSET B : /\ b[-e] \in S
                                 /\ \A x \in S \ {-e} : b[-x] \in S
                                 => y \in S}

\* Along a ring that has both sides of e, the way from e to -e does not come to e.
LEMMA ArcsOfRing ==
  ASSUME NEW b, NEW B, Rotates(b, B), NEW e \in B, -e # e, -e \in Orbit(Walk(b), e), b[-e] # -e
  PROVE  /\ Arc(b, B, e) \subseteq B /\ b[-e] \in Arc(b, B, e) /\ e \notin Arc(b, B, e)
         /\ \A x \in Arc(b, B, e) \ {-e} : b[-x] \in Arc(b, B, e)
         /\ b[e] \notin Arc(b, B, e)
<1> DEFINE Z == Arc(b, B, e)
<1>0. /\ \A x \in B : -x \in B /\ -(-x) = x /\ b[x] \in B /\ b[-x] \in B
      /\ \A x, y \in B : b[x] = b[y] => x = y
  BY DEF Rotates, Permutes
<1>1. Z \subseteq B /\ b[-e] \in Z /\ \A x \in Z \ {-e} : b[-x] \in Z
  BY <1>0 DEF Arc
<1>2. ASSUME NEW y \in Z, y # b[-e] PROVE \E x \in Z \ {-e} : b[-x] = y
  <2> DEFINE S == {b[-e]} \cup {z \in Z : \E x \in Z \ {-e} : b[-x] = z}
  <2>1. S \in SUBSET B /\ b[-e] \in S
    BY <1>0, <1>1
  <2>2. ASSUME NEW x \in S \ {-e} PROVE b[-x] \in S
    <3>1. x \in Z
      BY <1>1
    <3> HIDE DEF Z
    <3>2. b[-x] \in Z
      BY <1>1, <3>1
    <3> QED BY <3>1, <3>2
  <2>3. y \in S
    <3> HIDE DEF S
    <3> QED BY <2>1, <2>2 DEF Arc
  <2> QED BY <1>2, <2>3
<1> HIDE DEF Z
<1>3. b[e] \notin Z
  <2> SUFFICES ASSUME b[e] \in Z PROVE FALSE
    OBVIOUS
  <2>1. b[e] # b[-e]
    BY <1>0
  <2>2. PICK x \in Z \ {-e} : b[-x] = b[e]
    BY <1>2, <2>1
  <2>3. x \in B /\ -x \in B /\ -(-x) = x
    BY <1>0, <1>1
  <2>4. -x = e
    BY <1>0, <2>2, <2>3
  <2> QED BY <2>2, <2>3, <2>4
<1>4. e \notin Z
  <2> SUFFICES ASSUME e \in Z PROVE FALSE
    OBVIOUS
  <2>1. \A y \in Z : \E x \in Z \ {-e} : b[-x] = y
    <3>1. e \in Z \ {-e}
      OBVIOUS
    <3> QED BY <1>2, <3>1
  <2>2. ASSUME NEW x \in B \ Z PROVE b[-x] \in B \ Z
    <3> SUFFICES ASSUME b[-x] \in Z PROVE FALSE
      BY <1>0
    <3>1. PICK y \in Z : b[-y] = b[-x]
      BY <2>1
    <3>2. y \in B /\ -y \in B /\ -(-y) = y
      BY <1>0, <1>1
    <3>3. -x \in B /\ -(-x) = x
      BY <1>0
    <3>4. -y = -x
      BY <1>0, <3>1, <3>2, <3>3
    <3> QED BY <3>2, <3>3, <3>4
  <2>3. Walked(b, Z)
    <3>1. Walked(b, B \ Z) /\ B \ Z \in SUBSET B
      BY <2>2 DEF Walked
    <3>2. PICK S \in SUBSET B : S = B \ Z /\ Walked(b, S)
      BY <3>1
    <3>3. Walked(b, B \ S)
      BY <3>2, WalkedSets
    <3>4. B \ S = Z
      BY <1>1, <3>2
    <3> QED BY <3>3, <3>4
  <2>4. -e \in Z
    <3>1. Z \cap B = Z
      BY <1>1
    <3>2. Orbit(Walk(b), e) \subseteq Z
      BY <2>3, <3>1, RingsPart
    <3> QED BY <3>2
  <2>5. b[-(-e)] \in Z /\ -(-e) = e
    BY <1>0, <2>3, <2>4 DEF Walked
  <2> QED BY <1>3, <2>5
<1> QED BY <1>1, <1>3, <1>4 DEF Z

\* Without e it is the whole ring of the dart after e, and has not the one after -e.
LEMMA ArcsApart ==
  ASSUME NEW a, NEW A, NEW b, NEW B, NEW e, Grows(a, A, b, B, e),
         -e \in Orbit(Walk(b), e), b[e] \in A, b[-e] \in A
  PROVE  ~SameRing(a, A, b[-e], b[e])
<1> DEFINE Z == Arc(b, B, e)
           S == Z \ {-e}
<1>0. /\ Rotates(b, B) /\ e \in B /\ -e \in B /\ e # -e /\ e \notin A /\ -e \notin A
      /\ A \subseteq B /\ B \ A = {e, -e}
  BY GrowsLinks DEF Grows
<1>1. /\ Z \subseteq B /\ b[-e] \in Z /\ e \notin Z /\ b[e] \notin Z
      /\ \A x \in Z \ {-e} : b[-x] \in Z
  <2>1. b[-e] # -e
    BY <1>0
  <2> HIDE DEF Z
  <2> QED BY <1>0, <2>1, ArcsOfRing DEF Z
<1> HIDE DEF Z
<1>2. S \in SUBSET A /\ b[-e] \in S /\ b[e] \notin S
  BY <1>0, <1>1
<1>3. ASSUME NEW x \in S PROVE a[-x] \in S
  <2>1. x \in A /\ -x \in A /\ a[-x] \in A /\ b[-x] \in Z
    BY <1>1, <1>2, GrowsLinks
  <2>2. CASE b[-x] \notin {e, -e}
    BY <2>1, <2>2, GrowsLinks
  <2>3. CASE b[-x] = -e
    <3>1. a[-x] = b[-e]
      BY <1>0, <2>1, <2>3, GrowsLinks
    <3> QED BY <1>2, <3>1
  <2> QED BY <1>1, <2>1, <2>2, <2>3
<1> HIDE DEF S
<1> QED BY <1>2, <1>3 DEF SameRing, Walked

\* Darts before keep their regions, and a set T of pieces that e, with ring L on both of
\* its sides, bridges.
Extends(A, ra, rb) == \A x \in A : rb[x] = ra[x]
BridgeFound(a, A, b, B, e, L) == \E T : Bridges(a, A, b, B, e, T, L, L \ {e, -e})

\* Drawing a curve that parts no region makes a bridge.
LEMMA DrawnBridge ==
  ASSUME NEW a, NEW A, NEW ra, NEW b, NEW B, NEW rb, NEW e, NEW L,
         Grows(a, A, b, B, e), L = Orbit(Walk(b), e), -e \in L,
         OneRegion(a, A, ra), Jordan(a, A, ra), OneRegion(b, B, rb), Extends(A, ra, rb)
  PROVE  BridgeFound(a, A, b, B, e, L) /\ rb[e] = rb[-e]
<1> USE DEF Extends, BridgeFound
<1>0. /\ Rotates(a, A) /\ Rotates(b, B) /\ e \in B /\ -e \in B /\ e # -e /\ -(-e) = e
      /\ e \notin A /\ -e \notin A /\ A \subseteq B /\ B \ A = {e, -e}
      /\ b[e] \in B /\ b[-e] \in B
  BY GrowsLinks DEF Grows
<1>1. /\ \A y \in B : b[-y] \in L <=> y \in L
      /\ \A S : e \in S /\ Walked(b, S \cap B) => L \subseteq S
  BY <1>0, RingsPart
<1>2. b[e] # -e /\ b[-e] # e
  <2>1. b[e] # -e
    <3> SUFFICES ASSUME b[e] = -e PROVE FALSE
      OBVIOUS
    <3>1. Walked(b, {-e}) /\ {-e} \in SUBSET B
      BY <1>0 DEF Walked
    <3>2. PICK S \in SUBSET B : S = {-e} /\ Walked(b, S)
      BY <3>1
    <3>3. Walked(b, B \ S)
      BY <1>0, <3>2, WalkedSets
    <3>4. (B \ S) \cap B = B \ S /\ e \in B \ S /\ -e \notin B \ S
      BY <1>0, <3>2
    <3> QED BY <1>1, <3>3, <3>4
  <2>2. b[-e] # e
    <3> SUFFICES ASSUME b[-e] = e PROVE FALSE
      OBVIOUS
    <3>1. Walked(b, {e}) /\ {e} \cap B = {e}
      BY <1>0 DEF Walked
    <3>2. L \subseteq {e}
      BY <1>1, <3>1
    <3> QED BY <1>0, <3>2
  <2> QED BY <2>1, <2>2
<1>3. rb[e] = rb[-e] /\ rb[b[e]] = rb[e] /\ rb[b[-e]] = rb[e]
  <2>1. Walked(b, {x \in B : rb[x] = rb[e]})
    <3>1. \A x \in B : b[-x] \in B
      BY GrowsLinks
    <3> QED BY <3>1 DEF OneRegion, Walked
  <2>2. PICK S \in SUBSET B : S = {x \in B : rb[x] = rb[e]} /\ Walked(b, S)
    BY <2>1
  <2>3. S \cap B = S /\ e \in S
    BY <1>0, <2>2
  <2>4. -e \in S
    BY <1>1, <2>2, <2>3
  <2>5. rb[-e] = rb[e]
    BY <2>2, <2>4
  <2>6. rb[b[-e]] = rb[e] /\ rb[b[-(-e)]] = rb[-e]
    BY <1>0 DEF OneRegion
  <2> QED BY <1>0, <2>5, <2>6
<1>4. CASE b[e] = e
  <2>1. {} \in SUBSET A /\ Closed(a, {}) /\ b[e] \in {} \cup {e} /\ b[-e] \in (A \ {}) \cup {-e}
    BY <1>0, <1>2, <1>4 DEF Closed
  <2>2. Bridges(a, A, b, B, e, {}, L, L \ {e, -e})
    BY <2>1 DEF Bridges
  <2> QED BY <1>3, <2>2
<1>5. CASE b[-e] = -e
  <2>1. A \in SUBSET A /\ Closed(a, A) /\ b[e] \in A \cup {e} /\ b[-e] \in (A \ A) \cup {-e}
    BY <1>0, <1>2, <1>5, GrowsLinks DEF Closed
  <2>2. Bridges(a, A, b, B, e, A, L, L \ {e, -e})
    BY <2>1 DEF Bridges
  <2> QED BY <1>3, <2>2
<1>6. CASE b[e] # e /\ b[-e] # -e
  <2>1. b[e] \in A /\ b[-e] \in A
    BY <1>0, <1>2, <1>6
  <2>2. ra[b[-e]] = ra[b[e]]
    BY <1>3, <2>1
  <2>3. ~SameRing(a, A, b[-e], b[e])
    BY <2>1, ArcsApart
  <2>4. ~SamePiece(a, A, b[-e], b[e])
    BY <1>0, <2>1, <2>2, <2>3, SameRegionSameRing
  <2>5. PICK S \in SUBSET A : Closed(a, S) /\ b[-e] \in S /\ b[e] \notin S
    BY <2>4 DEF SamePiece
  <2>6. Closed(a, A \ S)
    BY <1>0, <2>5, ClosedBackwards
  <2>7. A \ S \in SUBSET A /\ b[e] \in (A \ S) \cup {e} /\ b[-e] \in (A \ (A \ S)) \cup {-e}
    BY <2>1, <2>5
  <2>8. Bridges(a, A, b, B, e, A \ S, L, L \ {e, -e})
    BY <2>6, <2>7 DEF Bridges
  <2> QED BY <1>3, <2>8
<1> QED BY <1>4, <1>5, <1>6

\* A curve in one region is a bridge.
LEMMA ErasedBridge ==
  ASSUME NEW a, NEW A, NEW b, NEW B, NEW rb, NEW e, NEW L,
         Grows(a, A, b, B, e), L = Orbit(Walk(b), e),
         OneRegion(b, B, rb), Jordan(b, B, rb), rb[e] = rb[-e]
  PROVE  \E T : Bridges(a, A, b, B, e, T, L, L \ {e, -e})
<1>0. /\ Rotates(a, A) /\ Rotates(b, B) /\ e \in B /\ -e \in B /\ e # -e /\ -(-e) = e
      /\ e \notin A /\ -e \notin A /\ A \subseteq B /\ B \ A = {e, -e}
      /\ b[e] \in B /\ b[-e] \in B /\ e \in Int \ {0}
  BY GrowsLinks DEF Grows
<1>1. -e \in L
  <2>1. SamePiece(b, B, e, -e)
    BY <1>0, WalkedSets DEF SamePiece
  <2>2. SameRing(b, B, e, -e)
    BY <1>0, <2>1, SameRegionSameRing
  <2>3. L \in SUBSET B /\ e \in L /\ \A y \in B : b[-y] \in L <=> y \in L
    BY <1>0, RingsPart
  <2> QED BY <2>2, <2>3 DEF SameRing, Walked
<1>2. Curves({e, -e}) /\ {e, -e} \in SUBSET B
  BY <1>0 DEF Curves
<1>3. Evenly(B, rb, {e, -e})
  <2>1. ASSUME NEW z \in B PROVE ~Odd({e, -e} \cap RegionOf(B, rb, z))
    <3>1. e \in RegionOf(B, rb, z) <=> -e \in RegionOf(B, rb, z)
      BY <1>0 DEF RegionOf
    <3>2. IsFiniteSet({}) /\ e \notin {} /\ -e \notin {} /\ {} \cup {e, -e} = {e, -e}
      BY FS_EmptySet
    <3>3. Odd(({} \cup {e, -e}) \cap RegionOf(B, rb, z))
          <=> (Odd({} \cap RegionOf(B, rb, z)) <=> (e \in RegionOf(B, rb, z) <=> -e \in RegionOf(B, rb, z)))
      BY <1>0, <3>2, OddCurve
    <3>4. {} \cap RegionOf(B, rb, z) = {}
      OBVIOUS
    <3> QED BY <3>1, <3>2, <3>3, <3>4, OddFacts
  <2> QED BY <2>1 DEF Evenly
<1>4. PICK C : Sides(b, B, C) /\ Crossing(B, C) = {e, -e}
  <2>1. \A X \in SUBSET B : Curves(X) /\ Evenly(B, rb, X)
          => \E C : Sides(b, B, C) /\ Crossing(B, C) = X
    BY DEF Jordan
  <2> HIDE DEF Jordan
  <2> QED BY <1>2, <1>3, <2>1
<1>5. /\ e \in C <=> -e \notin C
      /\ \A x \in A : x \in C <=> -x \in C
  <2>1. e \in Crossing(B, C) /\ \A x \in A : x \notin Crossing(B, C)
    BY <1>0, <1>4
  <2> QED BY <1>0, <2>1 DEF Crossing
<1>6. Sides(a, A, C \cap A)
  BY <1>4, SidesExtend
<1>7. Closed(a, C \cap A) /\ Closed(a, A \ C)
  <2>1. \A x \in A : x \in C <=> a[x] \in C
    <3>1. \A x \in A : a[x] \in A
      BY GrowsLinks
    <3> QED BY <1>6, <3>1 DEF Sides
  <2>2. \A x \in A : a[x] \in A /\ -x \in A
    BY GrowsLinks
  <2> QED BY <1>5, <2>1, <2>2 DEF Closed
<1>8. (e \in C <=> b[e] \in C) /\ (-e \in C <=> b[-e] \in C)
  BY <1>0, <1>4 DEF Sides
<1>9. CASE e \in C
  <2>1. b[e] \in (C \cap A) \cup {e} /\ b[-e] \in (A \ (C \cap A)) \cup {-e}
    BY <1>0, <1>5, <1>8, <1>9
  <2>2. Bridges(a, A, b, B, e, C \cap A, L, L \ {e, -e})
    BY <1>1, <1>7, <2>1 DEF Bridges
  <2> QED BY <2>2
<1>10. CASE e \notin C
  <2>1. b[e] \in (A \ C) \cup {e} /\ b[-e] \in (A \ (A \ C)) \cup {-e}
    BY <1>0, <1>5, <1>8, <1>10
  <2>2. Bridges(a, A, b, B, e, A \ C, L, L \ {e, -e})
    BY <1>1, <1>7, <2>1 DEF Bridges
  <2> QED BY <2>2
<1> QED BY <1>9, <1>10

\* Taking a curve away keeps one region along every ring, when the regions on its two
\* sides become one.
LEMMA RegionsOnceErased ==
  ASSUME NEW a, NEW A, NEW ra, NEW b, NEW B, NEW rb, NEW e, Grows(a, A, b, B, e), OneRegion(b, B, rb),
         \A x, y \in A : rb[x] = rb[y] \/ {rb[x], rb[y]} \subseteq {rb[e], rb[-e]} => ra[x] = ra[y]
  PROVE  OneRegion(a, A, ra)
<1> SUFFICES ASSUME NEW x \in A PROVE ra[a[-x]] = ra[x]
  BY DEF OneRegion
<1>0. /\ e \in B /\ -e \in B /\ -(-e) = e /\ A \subseteq B /\ -x \in A /\ a[-x] \in A /\ x \in B
  BY GrowsLinks
<1>1. rb[b[-x]] = rb[x] /\ rb[b[-e]] = rb[e] /\ rb[b[e]] = rb[-e]
  <2>1. rb[b[-(-e)]] = rb[-e]
    BY <1>0 DEF OneRegion
  <2> QED BY <1>0, <2>1 DEF OneRegion
<1>2. rb[a[-x]] = rb[x] \/ {rb[x], rb[a[-x]]} \subseteq {rb[e], rb[-e]}
  <2>1. CASE b[-x] \notin {e, -e}
    BY <1>0, <1>1, <2>1, GrowsLinks
  <2>2. CASE b[-x] = e
    <3>1. a[-x] \in {b[e], b[-e]}
      BY <1>0, <2>2, GrowsLinks
    <3> QED BY <1>1, <2>2, <3>1
  <2>3. CASE b[-x] = -e
    <3>1. a[-x] \in {b[e], b[-e]}
      BY <1>0, <2>3, GrowsLinks
    <3> QED BY <1>1, <2>3, <3>1
  <2> QED BY <2>1, <2>2, <2>3
<1> QED BY <1>0, <1>2

\* Piece is the set of the darts that are in one piece with a dart, Ring likewise.
LEMMA PieceIsSame ==
  ASSUME NEW c, NEW D, Rotates(c, D), NEW x \in D, NEW y \in D
  PROVE  /\ y \in Piece(c, x) <=> SamePiece(c, D, x, y)
         /\ y \in Orbit(Walk(c), x) <=> SameRing(c, D, x, y)
<1>1. /\ x \in Piece(c, x) /\ Piece(c, x) \in SUBSET D /\ Closed(c, Piece(c, x))
      /\ \A S : x \in S /\ Closed(c, S \cap D) => Piece(c, x) \subseteq S
  BY PiecesPart
<1>2. /\ x \in Orbit(Walk(c), x) /\ Orbit(Walk(c), x) \in SUBSET D
      /\ \A z \in D : c[-z] \in Orbit(Walk(c), x) <=> z \in Orbit(Walk(c), x)
      /\ \A S : x \in S /\ Walked(c, S \cap D) => Orbit(Walk(c), x) \subseteq S
  BY RingsPart
<1>3. \A S \in SUBSET D : S \cap D = S
  OBVIOUS
<1>4. y \in Piece(c, x) <=> SamePiece(c, D, x, y)
  BY <1>1, <1>3 DEF SamePiece
<1>5. Walked(c, Orbit(Walk(c), x))
  BY <1>2 DEF Walked
<1>6. y \in Orbit(Walk(c), x) <=> SameRing(c, D, x, y)
  BY <1>2, <1>3, <1>5 DEF SameRing
<1> QED BY <1>4, <1>6

-----------------------------------------------------------------------------
(* Taking a bridge away.                                                     *)

\* If its ring is an outer boundary, both of its parts are.  Else the part that is not
\* in a piece with an outer boundary of its own becomes one.
BridgeErasing(a, A, ha, ra, b, B, hb, rb, e, T, L, K) ==
  /\ Bridges(a, A, b, B, e, T, L, K) /\ \A x \in A : rb[x] = ra[x]
  /\ ha = IF e \in hb THEN hb \ {e, -e}
          ELSE hb \cup {x \in K : \A y \in hb : ~SamePiece(a, A, x, y)}

\* Which of its darts are on outer boundaries.
BridgeHolesBack(a, A, ha, b, B, hb, e, T, L, K) ==
  /\ \A x \in A \ L : x \in hb <=> x \in ha
  /\ \A x \in L : x \in hb <=> e \in hb
  /\ \A x \in K : x \in ha <=> e \in hb \/ \A y \in hb : ~SamePiece(a, A, x, y)

\* The rings are outer boundaries or shells as a whole.
LEMMA BridgeErased ==
  ASSUME NEW a, NEW A, NEW ha, NEW ra, NEW b, NEW B, NEW hb, NEW rb, NEW e, NEW T, NEW L, NEW K,
         BridgeErasing(a, A, ha, ra, b, B, hb, rb, e, T, L, K), HolesWhole(b, B, hb)
  PROVE  HolesWhole(a, A, ha) /\ BridgeHolesBack(a, A, ha, b, B, hb, e, T, L, K)
<1>0. /\ Bridges(a, A, b, B, e, T, L, K)
      /\ ha = IF e \in hb THEN hb \ {e, -e}
              ELSE hb \cup {x \in K : \A y \in hb : ~SamePiece(a, A, x, y)}
  BY DEF BridgeErasing
<1>1. Bridged(a, A, b, B, e, T, L, K) /\ Grows(a, A, b, B, e) /\ Rotates(b, B) /\ Rotates(a, A)
  BY <1>0, BridgesBoth DEF Bridges, Grows
<1>2. /\ K = L \ {e, -e} /\ K \subseteq A /\ e \in L /\ -e \in L /\ L \subseteq B /\ Walked(b, L)
      /\ A \subseteq B /\ B \ A = {e, -e} /\ e \notin A /\ -e \notin A
      /\ \A x \in L, y \in B : SameRing(b, B, x, y) <=> y \in L
  BY <1>1 DEF Bridged
<1>3. hb \in SUBSET B /\ Walked(b, hb)
  BY DEF HolesWhole, Walked
<1>4. \A x \in L : x \in hb <=> e \in hb
  <2>1. \A x \in L : SameRing(b, B, e, x) /\ SameRing(b, B, x, e)
    BY <1>2
  <2> QED BY <1>3, <2>1 DEF SameRing
<1>5. /\ \A x \in A \ L : x \in hb <=> x \in ha
      /\ \A x \in K : x \in ha <=> e \in hb \/ \A y \in hb : ~SamePiece(a, A, x, y)
      /\ ha \subseteq A
  <2>1. CASE e \in hb
    BY <1>0, <1>2, <1>3, <1>4, <2>1
  <2>2. CASE e \notin hb
    BY <1>0, <1>2, <1>3, <1>4, <2>2
  <2> QED BY <2>1, <2>2
<1>6. ASSUME NEW x \in A PROVE x \in ha => a[-x] \in ha
  <2>0. a[-x] \in A /\ -x \in A
    BY GrowsLinks, <1>1
  <2>1. CASE e \in hb
    <3>1. Walked(a, hb \ {e, -e})
      BY <1>1, <1>2, <1>3, <1>4, <2>1, GrowsWalked
    <3> QED BY <1>0, <2>1, <3>1 DEF Walked
  <2>2. CASE e \notin hb
    <3>1. Walked(a, hb \ {e, -e}) /\ hb \ {e, -e} = hb
      BY <1>1, <1>2, <1>3, <1>4, <2>2, GrowsWalked
    <3>2. CASE x \in hb
      BY <1>0, <2>2, <3>1, <3>2 DEF Walked
    <3>3. CASE x \notin hb /\ x \in ha
      <4>1. x \in K /\ \A y \in hb : ~SamePiece(a, A, x, y)
        BY <1>5, <1>2, <3>3, <2>2
      <4>2. SameRing(a, A, x, a[-x]) /\ SamePiece(a, A, x, a[-x])
        <5>1. SameRing(a, A, x, a[-x])
          BY DEF SameRing, Walked
        <5> QED BY <1>1, <2>0, <5>1, Mutual
      <4>3. SamePiece(a, A, a[-x], x)
        BY <1>1, <2>0, <4>2, Mutual
      <4>4. \A y \in hb : ~SamePiece(a, A, a[-x], y)
        BY <4>1, <4>2, Onward
      <4>5. a[-x] \in K
        <5>1. Walked(a, K) /\ K \in SUBSET A
          <6>1. BridgedRings(a, A, b, B, e, T, L, K)
            BY <1>0, BridgesRings
          <6> QED BY <6>1 DEF BridgedRings
        <5> QED BY <4>1, <5>1 DEF Walked
      <4> QED BY <1>5, <4>4, <4>5
    <3> QED BY <3>2, <3>3
  <2> QED BY <2>1, <2>2
<1>7. \A x \in A : x \in ha <=> a[-x] \in ha
  <2>1. Walked(a, ha) /\ ha \in SUBSET A
    BY <1>5, <1>6 DEF Walked
  <2> QED BY <1>1, <2>1, WalkedSets
<1> QED BY <1>4, <1>5, <1>7 DEF HolesWhole, BridgeHolesBack

\* The shells after a bridge is taken away.
LEMMA BridgeShellsBack ==
  ASSUME NEW a, NEW A, NEW ha, NEW ra, NEW b, NEW B, NEW hb, NEW rb, NEW e, NEW T, NEW L, NEW K,
         BridgeErasing(a, A, ha, ra, b, B, hb, rb, e, T, L, K), HolesWhole(b, B, hb),
         OneShell(b, B, hb, rb), OneHole(b, B, hb)
  PROVE  OneShell(a, A, ha, ra)
<1>0. Bridges(a, A, b, B, e, T, L, K) /\ \A x \in A : rb[x] = ra[x]
  BY DEF BridgeErasing
<1>1. Bridged(a, A, b, B, e, T, L, K) /\ Rotates(b, B) /\ Rotates(a, A)
  BY <1>0, BridgesBoth DEF Bridges, Grows
<1>2. /\ K = L \ {e, -e} /\ K \subseteq A /\ e \in L /\ -e \in L /\ L \subseteq B
      /\ A \subseteq B /\ B \ A = {e, -e} /\ e \notin A /\ -e \notin A
      /\ \A x, y \in A \ K : SameRing(a, A, x, y) <=> SameRing(b, B, x, y)
      /\ \A x \in K \cap T, y \in A : SameRing(a, A, x, y) <=> y \in K \cap T
      /\ \A x \in K \ T, y \in A : SameRing(a, A, x, y) <=> y \in K \ T
      /\ \A x \in L, y \in B : SameRing(b, B, x, y) <=> y \in L
      /\ \A x, y \in A : SamePiece(a, A, x, y) => SamePiece(b, B, x, y) /\ (x \in T <=> y \in T)
      /\ \A x, y \in L : SamePiece(b, B, x, y)
  BY <1>1 DEF Bridged
<1>3. /\ \A x \in A \ L : x \in hb <=> x \in ha
      /\ \A x \in L : x \in hb <=> e \in hb
      /\ \A x \in K : x \in ha <=> e \in hb \/ \A y \in hb : ~SamePiece(a, A, x, y)
      /\ ha \subseteq A /\ hb \subseteq B
  <2>1. HolesWhole(a, A, ha) /\ BridgeHolesBack(a, A, ha, b, B, hb, e, T, L, K)
    BY BridgeErased
  <2> QED BY <2>1 DEF HolesWhole, BridgeHolesBack
<1>4. \A x \in A \ ha : x \in B \ hb
  BY <1>2, <1>3
<1>5. ASSUME NEW x \in A \ ha PROVE ra[x] # 0
  BY <1>0, <1>4 DEF OneShell
\* A part of a shell that is no outer boundary has one in its piece.
<1>6. ASSUME NEW x \in K \ ha
      PROVE  \E h \in hb : h \in A \ K /\ SamePiece(a, A, x, h) /\ SamePiece(b, B, e, h)
  <2>1. e \notin hb
    BY <1>2, <1>3
  <2>2. PICK h \in hb : SamePiece(a, A, x, h)
    BY <1>3
  <2>3. h \in A \ K
    BY <1>2, <1>3, <2>1
  <2>4. SamePiece(b, B, x, h) /\ SamePiece(b, B, e, x)
    BY <1>2, <2>2, <2>3
  <2>5. SamePiece(b, B, e, h)
    BY <2>4, Onward
  <2> QED BY <2>2, <2>3, <2>5
<1>7. ASSUME NEW x \in K \ ha, NEW y \in K \ ha, x \in T, y \notin T PROVE FALSE
  <2>1. PICK h \in hb : h \in A \ K /\ SamePiece(a, A, x, h) /\ SamePiece(b, B, e, h)
    BY <1>6
  <2>2. PICK k \in hb : k \in A \ K /\ SamePiece(a, A, y, k) /\ SamePiece(b, B, e, k)
    BY <1>6
  <2>3. SamePiece(b, B, h, k)
    <3>1. e \in B /\ h \in B
      BY <1>2, <2>1
    <3>2. SamePiece(b, B, h, e)
      BY <1>1, <2>1, <3>1, Mutual
    <3> QED BY <2>2, <3>2, Onward
  <2>4. SameRing(b, B, h, k)
    BY <2>3 DEF OneHole
  <2>5. SamePiece(a, A, h, k)
    <3>1. SameRing(a, A, h, k)
      BY <1>2, <2>1, <2>2, <2>4
    <3> QED BY <1>1, <2>1, <2>2, <3>1, Mutual
  <2>6. h \in T /\ k \notin T
    BY <1>2, <1>7, <2>1, <2>2
  <2> QED BY <1>2, <2>1, <2>2, <2>5, <2>6
<1>8. ASSUME NEW x \in A \ ha, NEW y \in A \ ha, ra[x] = ra[y] PROVE SameRing(a, A, x, y)
  <2>1. SameRing(b, B, x, y) /\ SameRing(b, B, y, x)
    BY <1>0, <1>4, <1>8 DEF OneShell
  <2>2. x \in K <=> y \in K
    BY <1>2, <2>1
  <2>3. CASE x \in K
    BY <1>2, <1>7, <2>2, <2>3
  <2>4. CASE x \notin K
    BY <1>2, <2>1, <2>2, <2>4
  <2> QED BY <2>3, <2>4
<1> QED BY <1>5, <1>8 DEF OneShell

\* The outer boundaries: each piece has one.
LEMMA BridgeOuterBack ==
  ASSUME NEW a, NEW A, NEW ha, NEW ra, NEW b, NEW B, NEW hb, NEW rb, NEW e, NEW T, NEW L, NEW K,
         BridgeErasing(a, A, ha, ra, b, B, hb, rb, e, T, L, K), HolesWhole(b, B, hb),
         OneHole(b, B, hb), HasHole(b, B, hb)
  PROVE  OneHole(a, A, ha) /\ HasHole(a, A, ha)
<1>0. Bridges(a, A, b, B, e, T, L, K)
  BY DEF BridgeErasing
<1>1. Bridged(a, A, b, B, e, T, L, K) /\ Rotates(b, B) /\ Rotates(a, A)
  BY <1>0, BridgesBoth DEF Bridges, Grows
<1>2. /\ K = L \ {e, -e} /\ K \subseteq A /\ e \in L /\ -e \in L /\ L \subseteq B
      /\ A \subseteq B /\ B \ A = {e, -e} /\ e \notin A /\ -e \notin A /\ T \subseteq A
      /\ b[e] \in A => b[e] \in K \cap T
      /\ b[-e] \in A => b[-e] \in K \ T
      /\ \A x, y \in A \ K : SameRing(a, A, x, y) <=> SameRing(b, B, x, y)
      /\ \A x \in K \cap T, y \in A : SameRing(a, A, x, y) <=> y \in K \cap T
      /\ \A x \in K \ T, y \in A : SameRing(a, A, x, y) <=> y \in K \ T
  BY <1>1 DEF Bridged
<1>3. /\ \A x \in L, y \in B : SameRing(b, B, x, y) <=> y \in L
      /\ \A x, y \in A : SamePiece(a, A, x, y) => SamePiece(b, B, x, y) /\ (x \in T <=> y \in T)
      /\ \A x, y \in A : SamePiece(b, B, x, y) /\ (x \in T <=> y \in T) => SamePiece(a, A, x, y)
      /\ \A y \in T : SamePiece(b, B, e, y) => b[e] \in T /\ SamePiece(a, A, b[e], y)
      /\ \A y \in A \ T : SamePiece(b, B, e, y) => b[-e] \in A \ T /\ SamePiece(a, A, b[-e], y)
      /\ \A x \in T, y \in A \ T : SamePiece(b, B, x, y) => SamePiece(b, B, e, x) /\ SamePiece(b, B, e, y)
      /\ \A x, y \in L : SamePiece(b, B, x, y)
  BY <1>1 DEF Bridged
<1>4. /\ \A x \in A \ L : x \in hb <=> x \in ha
      /\ \A x \in L : x \in hb <=> e \in hb
      /\ \A x \in K : x \in ha <=> e \in hb \/ \A y \in hb : ~SamePiece(a, A, x, y)
      /\ ha \subseteq A /\ hb \subseteq B
  <2>1. HolesWhole(a, A, ha) /\ BridgeHolesBack(a, A, ha, b, B, hb, e, T, L, K)
    BY BridgeErased
  <2> QED BY <2>1 DEF HolesWhole, BridgeHolesBack
<1>5. ASSUME NEW x \in A, NEW y \in A, SamePiece(a, A, x, y) PROVE SamePiece(a, A, y, x)
  BY <1>1, <1>5, Mutual
\* One each.
<1>6. ASSUME NEW x \in ha, NEW y \in ha, SamePiece(a, A, x, y) PROVE SameRing(a, A, x, y)
  <2>0. x \in A /\ y \in A /\ x \in B /\ y \in B /\ SamePiece(b, B, x, y) /\ (x \in T <=> y \in T)
    BY <1>2, <1>3, <1>4, <1>6
  <2>1. CASE x \in hb /\ y \in hb
    <3>1. SameRing(b, B, x, y) /\ SameRing(b, B, y, x)
      BY <1>1, <2>0, <2>1, Mutual DEF OneHole
    <3>2. x \in K <=> y \in K
      BY <1>2, <1>3, <2>0, <3>1
    <3> QED BY <1>2, <2>0, <3>1, <3>2
  <2>2. CASE x \notin hb \/ y \notin hb
    <3>1. e \notin hb
      BY <1>2, <1>4, <2>0, <2>2
    <3>2. CASE x \notin hb
      <4>1. x \in K /\ \A z \in hb : ~SamePiece(a, A, x, z)
        BY <1>2, <1>4, <2>0, <3>1, <3>2
      <4>2. y \notin hb
        BY <1>6, <4>1
      <4>3. y \in K
        BY <1>2, <1>4, <2>0, <4>2
      <4> QED BY <1>2, <2>0, <4>1, <4>3
    <3>3. CASE y \notin hb
      <4>1. y \in K /\ \A z \in hb : ~SamePiece(a, A, y, z)
        BY <1>2, <1>4, <2>0, <3>1, <3>3
      <4>2. x \notin hb
        BY <1>5, <1>6, <2>0, <4>1
      <4>3. x \in K
        BY <1>2, <1>4, <2>0, <4>2
      <4> QED BY <1>2, <2>0, <4>1, <4>3
    <3> QED BY <2>2, <3>2, <3>3
  <2> QED BY <2>1, <2>2
\* The piece of an end of the bridge has one.
<1>7. ASSUME NEW u \in K PROVE \E y \in ha : SamePiece(a, A, u, y)
  <2>1. CASE u \in ha
    BY <2>1, Onward
  <2>2. CASE u \notin ha
    <3>1. e \notin hb
      BY <1>4, <2>2
    <3>2. PICK h \in hb : SamePiece(a, A, u, h)
      BY <1>4, <2>2
    <3>3. h \in A \ L
      BY <1>2, <1>4, <3>1
    <3> QED BY <1>4, <3>2, <3>3
  <2> QED BY <2>1, <2>2
<1>8. ASSUME NEW x \in A PROVE \E y \in ha : SamePiece(a, A, x, y)
  <2>0. x \in B /\ e \in B /\ -e \in B
    BY <1>2
  <2>1. PICK h \in hb : SamePiece(b, B, x, h)
    BY <2>0 DEF HasHole
  <2>2. CASE h \in A /\ (x \in T <=> h \in T)
    <3>1. SamePiece(a, A, x, h)
      BY <1>3, <2>1, <2>2
    <3>2. CASE h \in L
      <4>1. h \in K
        BY <1>2, <2>2, <3>2
      <4> QED BY <1>7, <3>1, <4>1, Onward
    <3>3. CASE h \notin L
      BY <1>4, <2>2, <3>1, <3>3
    <3> QED BY <3>2, <3>3
  <2>3. CASE ~(h \in A /\ (x \in T <=> h \in T))
    <3>1. SamePiece(b, B, e, x)
      <4>1. CASE h \in A
        <5>1. h \in B /\ SamePiece(b, B, h, x)
          BY <1>1, <1>4, <2>0, <2>1, Mutual
        <5>2. (x \in T /\ h \in A \ T) \/ (h \in T /\ x \in A \ T)
          BY <2>3, <4>1
        <5> QED BY <1>3, <2>1, <5>1, <5>2
      <4>2. CASE h \notin A
        <5>1. h \in B /\ h \in {e, -e}
          BY <1>2, <1>4, <4>2
        <5>2. SamePiece(b, B, h, x) /\ SamePiece(b, B, e, h)
          BY <1>1, <1>2, <1>3, <2>0, <2>1, <5>1, Mutual
        <5> QED BY <5>2, Onward
      <4> QED BY <4>1, <4>2
    <3>2. \E u \in K : SamePiece(a, A, u, x)
      <4>1. CASE x \in T
        BY <1>2, <1>3, <3>1, <4>1
      <4>2. CASE x \notin T
        BY <1>2, <1>3, <3>1, <4>2
      <4> QED BY <4>1, <4>2
    <3>3. PICK u \in K : SamePiece(a, A, u, x)
      BY <3>2
    <3>4. PICK y \in ha : SamePiece(a, A, u, y)
      BY <1>7
    <3>5. SamePiece(a, A, x, u)
      BY <1>2, <1>5, <3>3
    <3> QED BY <3>4, <3>5, Onward
  <2> QED BY <2>2, <2>3
<1> QED BY <1>6, <1>8 DEF OneHole, HasHole

-----------------------------------------------------------------------------
(* Taking away a curve between two regions.                                  *)

\* Regions l and r on its two sides become f; if one of its rings was an outer boundary
\* then what is left of both is one.
PartsErasing(a, A, ha, ra, b, B, hb, rb, e, L, R, K, f, l, r) ==
  /\ Grows(a, A, b, B, e) /\ Parts(b, e, L, R, K) /\ OneRegion(b, B, rb)
  /\ Merges(A, ra, rb, f, l, r) /\ rb[e] = l /\ rb[-e] = r
  /\ f = 0 <=> 0 \in {l, r}
  /\ ha = IF {e, -e} \cap hb # {} THEN (hb \cup K) \ {e, -e} ELSE hb

\* Which darts are on outer boundaries; d and n are the two sides of the curve, M and N
\* their rings.
PartsHolesBack(a, A, ha, b, B, hb, e, L, R, K) ==
  /\ \A x \in A \ K : x \in ha <=> x \in hb
  /\ \A x \in L : x \in hb <=> e \in hb
  /\ \A x \in R : x \in hb <=> -e \in hb
  /\ \A x \in K : x \in ha <=> {e, -e} \cap hb # {}
  /\ ha \subseteq A /\ hb \subseteq B
  /\ ~(e \in hb /\ -e \in hb)

\* The rings are outer boundaries or shells as a whole, and of the two rings of the
\* curve at most one is an outer boundary.
LEMMA PartsErased ==
  ASSUME NEW a, NEW A, NEW ha, NEW ra, NEW b, NEW B, NEW hb, NEW rb, NEW e, NEW L, NEW R, NEW K,
         NEW f, NEW l, NEW r, PartsErasing(a, A, ha, ra, b, B, hb, rb, e, L, R, K, f, l, r),
         HolesWhole(b, B, hb), OneHole(b, B, hb)
  PROVE  HolesWhole(a, A, ha) /\ PartsHolesBack(a, A, ha, b, B, hb, e, L, R, K)
<1>0. /\ Grows(a, A, b, B, e) /\ Parts(b, e, L, R, K)
      /\ ha = IF {e, -e} \cap hb # {} THEN (hb \cup K) \ {e, -e} ELSE hb
  BY DEF PartsErasing
<1>1. /\ e \in L /\ -e \in R /\ e \notin R /\ -e \notin L /\ L \subseteq B /\ R \subseteq B
      /\ Walked(b, L) /\ Walked(b, R) /\ K \subseteq A
      /\ Rotates(a, A) /\ Rotates(b, B) /\ K = (L \cup R) \ {e, -e}
      /\ A \subseteq B /\ e \notin A /\ -e \notin A /\ B \ A = {e, -e}
  BY <1>0, PartedRings, GrowsLinks DEF Grows, Parts
<1>2. /\ \A x \in L, y \in B : SameRing(b, B, x, y) <=> y \in L
      /\ \A x \in R, y \in B : SameRing(b, B, x, y) <=> y \in R
      /\ \A x, y \in L \cup R : SamePiece(b, B, x, y)
  BY <1>0, PartedSame
<1>3. hb \in SUBSET B /\ Walked(b, hb)
  BY DEF HolesWhole, Walked
<1>4. \A x \in L : x \in hb <=> e \in hb
  <2>1. \A x \in L : SameRing(b, B, e, x) /\ SameRing(b, B, x, e)
    BY <1>1, <1>2
  <2> QED BY <1>3, <2>1 DEF SameRing
<1>5. \A x \in R : x \in hb <=> -e \in hb
  <2>1. \A x \in R : SameRing(b, B, -e, x) /\ SameRing(b, B, x, -e)
    BY <1>1, <1>2
  <2> QED BY <1>3, <2>1 DEF SameRing
<1>6. ~(e \in hb /\ -e \in hb)
  <2>1. SamePiece(b, B, e, -e) /\ ~SameRing(b, B, e, -e)
    BY <1>1, <1>2
  <2> QED BY <2>1 DEF OneHole
<1>7. /\ \A x \in A \ K : x \in ha <=> x \in hb
      /\ \A x \in K : x \in ha <=> {e, -e} \cap hb # {}
      /\ ha \subseteq A
  <2>1. CASE {e, -e} \cap hb # {}
    BY <1>0, <1>1, <1>3, <2>1
  <2>2. CASE {e, -e} \cap hb = {}
    BY <1>0, <1>1, <1>3, <1>4, <1>5, <2>2
  <2> QED BY <2>1, <2>2
<1>8. Walked(a, ha)
  <2>1. CASE {e, -e} \cap hb # {}
    <3>1. Walked(b, L \cup R) /\ L \cup R \in SUBSET B
      BY <1>1, WalkedMinus
    <3>2. PICK S \in SUBSET B : S = L \cup R /\ Walked(b, S)
      BY <3>1
    <3>3. Walked(b, hb \cup S)
      BY <1>1, <1>3, <3>2, WalkedMinus
    <3>4. e \in hb \cup S /\ -e \in hb \cup S /\ hb \cup S \in SUBSET B
      BY <1>1, <1>3, <3>2
    <3>5. Walked(a, (hb \cup S) \ {e, -e})
      BY <1>0, <3>3, <3>4, GrowsWalked
    <3>6. (hb \cup S) \ {e, -e} = ha
      BY <1>0, <1>1, <2>1, <3>2
    <3> QED BY <3>5, <3>6
  <2>2. CASE {e, -e} \cap hb = {}
    <3>1. Walked(a, hb \ {e, -e}) /\ hb \ {e, -e} = ha
      BY <1>0, <1>3, <2>2, GrowsWalked
    <3> QED BY <3>1
  <2> QED BY <2>1, <2>2
<1>9. \A x \in A : x \in ha <=> a[-x] \in ha
  <2>1. ha \in SUBSET A
    BY <1>7
  <2> QED BY <1>1, <1>8, <2>1, WalkedSets
<1> QED BY <1>3, <1>4, <1>5, <1>6, <1>7, <1>9 DEF HolesWhole, PartsHolesBack

\* The shells.
LEMMA PartsShellsBack ==
  ASSUME NEW a, NEW A, NEW ha, NEW ra, NEW b, NEW B, NEW hb, NEW rb, NEW e, NEW L, NEW R, NEW K,
         NEW f, NEW l, NEW r, PartsErasing(a, A, ha, ra, b, B, hb, rb, e, L, R, K, f, l, r),
         HolesWhole(b, B, hb), OneHole(b, B, hb), OneShell(b, B, hb, rb)
  PROVE  OneShell(a, A, ha, ra)
<1>0. /\ Grows(a, A, b, B, e) /\ Parts(b, e, L, R, K)
      /\ \A x \in A : IF rb[x] \in {l, r} THEN ra[x] = f ELSE ra[x] = rb[x] /\ ra[x] # f
      /\ rb[e] = l /\ rb[-e] = r /\ (f = 0 <=> 0 \in {l, r})
  BY DEF PartsErasing, Merges
<1>1. /\ e \in L /\ -e \in R /\ L \subseteq B /\ R \subseteq B /\ K \subseteq A
      /\ Rotates(a, A) /\ Rotates(b, B) /\ K = (L \cup R) \ {e, -e}
      /\ A \subseteq B /\ e \notin A /\ -e \notin A /\ B \ A = {e, -e}
  <2>1. e \in L /\ -e \in R /\ L \subseteq B /\ R \subseteq B /\ K \subseteq A
    BY <1>0, PartedRings
  <2>2. A \subseteq B /\ B \ A = {e, -e}
    BY <1>0, GrowsLinks
  <2> QED BY <1>0, <2>1, <2>2 DEF Grows, Parts
<1>2. /\ \A x, y \in A \ K : SameRing(a, A, x, y) <=> SameRing(b, B, x, y)
      /\ \A x \in K, y \in A : SameRing(a, A, x, y) <=> y \in K
      /\ \A x \in L, y \in B : SameRing(b, B, x, y) <=> y \in L
      /\ \A x \in R, y \in B : SameRing(b, B, x, y) <=> y \in R
  BY <1>0, PartedSame
<1>3. /\ \A x \in A \ K : x \in ha <=> x \in hb
      /\ \A x \in L : x \in hb <=> e \in hb
      /\ \A x \in R : x \in hb <=> -e \in hb
      /\ \A x \in K : x \in ha <=> {e, -e} \cap hb # {}
      /\ ha \subseteq A /\ hb \subseteq B /\ ~(e \in hb /\ -e \in hb)
  <2>1. PartsHolesBack(a, A, ha, b, B, hb, e, L, R, K)
    BY PartsErased
  <2> QED BY <2>1 DEF PartsHolesBack
<1>4. /\ \A x \in B \ hb : rb[x] # 0
      /\ \A x, y \in B \ hb : rb[x] = rb[y] => SameRing(b, B, x, y)
  BY DEF OneShell
\* What is no outer boundary afterwards was none.
<1>5. \A x \in A \ ha : x \in B \ hb
  BY <1>1, <1>3
<1>6. ASSUME NEW x \in A \ ha PROVE ra[x] # 0
  <2>1. rb[x] # 0
    BY <1>4, <1>5
  <2>2. CASE rb[x] \notin {l, r}
    BY <1>0, <2>1, <2>2
  <2>3. CASE rb[x] \in {l, r}
    <3>1. l # 0
      <4>1. CASE e \in B \ hb
        BY <1>0, <1>4, <4>1
      <4>2. CASE e \in hb
        \* Otherwise the other ring would be the shell of region 0, or x be on it.
        <5>1. -e \in B \ hb /\ x \notin K
          BY <1>1, <1>3, <4>2
        <5>2. rb[x] # r
          <6>1. rb[x] = r => SameRing(b, B, -e, x)
            BY <1>0, <1>4, <1>5, <5>1
          <6> QED BY <1>1, <1>2, <5>1, <6>1
        <5> QED BY <2>1, <2>3, <5>2
      <4> QED BY <1>1, <4>1, <4>2
    <3>2. r # 0
      <4>1. CASE -e \in B \ hb
        BY <1>0, <1>4, <4>1
      <4>2. CASE -e \in hb
        <5>1. e \in B \ hb /\ x \notin K
          BY <1>1, <1>3, <4>2
        <5>2. rb[x] # l
          <6>1. rb[x] = l => SameRing(b, B, e, x)
            BY <1>0, <1>4, <1>5, <5>1
          <6> QED BY <1>1, <1>2, <5>1, <6>1
        <5> QED BY <2>1, <2>3, <5>2
      <4> QED BY <1>1, <4>1, <4>2
    <3> QED BY <1>0, <2>3, <3>1, <3>2
  <2> QED BY <2>2, <2>3
<1>7. ASSUME NEW x \in A \ ha, NEW y \in A \ ha, ra[x] = ra[y] PROVE SameRing(a, A, x, y)
  <2>1. CASE rb[x] = rb[y]
    <3>1. SameRing(b, B, x, y) /\ SameRing(b, B, y, x)
      BY <1>4, <1>5, <2>1
    <3>2. x \in K <=> y \in K
      BY <1>1, <1>2, <3>1
    <3> QED BY <1>2, <3>1, <3>2
  <2>2. CASE rb[x] # rb[y]
    <3>1. rb[x] \in {l, r} /\ rb[y] \in {l, r}
      BY <1>0, <1>7, <2>2
    \* One is in l, the other in r: both must be on the rings of the curve.
    <3>2. e \in B \ hb /\ -e \in B \ hb
      <4>1. e \in hb => rb[x] # r /\ rb[y] # r
        <5> SUFFICES ASSUME e \in hb PROVE rb[x] # r /\ rb[y] # r
          OBVIOUS
        <5>1. -e \in B \ hb /\ x \notin K /\ y \notin K
          BY <1>1, <1>3
        <5>2. (rb[x] = r => SameRing(b, B, -e, x)) /\ (rb[y] = r => SameRing(b, B, -e, y))
          BY <1>0, <1>4, <1>5, <5>1
        <5> QED BY <1>1, <1>2, <5>1, <5>2
      <4>2. -e \in hb => rb[x] # l /\ rb[y] # l
        <5> SUFFICES ASSUME -e \in hb PROVE rb[x] # l /\ rb[y] # l
          OBVIOUS
        <5>1. e \in B \ hb /\ x \notin K /\ y \notin K
          BY <1>1, <1>3
        <5>2. (rb[x] = l => SameRing(b, B, e, x)) /\ (rb[y] = l => SameRing(b, B, e, y))
          BY <1>0, <1>4, <1>5, <5>1
        <5> QED BY <1>1, <1>2, <5>1, <5>2
      <4> QED BY <1>1, <2>2, <3>1, <4>1, <4>2
    <3>3. ASSUME NEW z \in A \ ha, rb[z] \in {l, r} PROVE z \in K
      <4>1. SameRing(b, B, e, z) \/ SameRing(b, B, -e, z)
        BY <1>0, <1>4, <1>5, <3>2, <3>3
      <4> QED BY <1>1, <1>2, <4>1
    <3>4. x \in K /\ y \in K
      BY <3>1, <3>3
    <3> QED BY <1>2, <3>4
  <2> QED BY <2>1, <2>2
<1> QED BY <1>6, <1>7 DEF OneShell

\* The outer boundaries: each piece has one.
LEMMA PartsOuterBack ==
  ASSUME NEW a, NEW A, NEW ha, NEW ra, NEW b, NEW B, NEW hb, NEW rb, NEW e, NEW L, NEW R, NEW K,
         NEW f, NEW l, NEW r, PartsErasing(a, A, ha, ra, b, B, hb, rb, e, L, R, K, f, l, r),
         HolesWhole(b, B, hb), OneHole(b, B, hb), HasHole(b, B, hb)
  PROVE  OneHole(a, A, ha) /\ HasHole(a, A, ha)
<1>0. /\ Grows(a, A, b, B, e) /\ Parts(b, e, L, R, K)
  BY DEF PartsErasing
<1>1. /\ e \in L /\ -e \in R /\ L \subseteq B /\ R \subseteq B /\ K \subseteq A
      /\ Rotates(a, A) /\ Rotates(b, B) /\ K = (L \cup R) \ {e, -e}
      /\ A \subseteq B /\ e \notin A /\ -e \notin A /\ B \ A = {e, -e}
  <2>1. e \in L /\ -e \in R /\ L \subseteq B /\ R \subseteq B /\ K \subseteq A
    BY <1>0, PartedRings
  <2>2. A \subseteq B /\ B \ A = {e, -e}
    BY <1>0, GrowsLinks
  <2> QED BY <1>0, <2>1, <2>2 DEF Grows, Parts
<1>2. /\ \A x, y \in A : SamePiece(a, A, x, y) <=> SamePiece(b, B, x, y)
      /\ \A x, y \in A \ K : SameRing(a, A, x, y) <=> SameRing(b, B, x, y)
      /\ \A x \in K, y \in A : SameRing(a, A, x, y) <=> y \in K
      /\ \A x \in L, y \in B : SameRing(b, B, x, y) <=> y \in L
      /\ \A x \in R, y \in B : SameRing(b, B, x, y) <=> y \in R
      /\ \A x, y \in L \cup R : SamePiece(b, B, x, y)
      /\ K = {} => \A x \in {e, -e}, y \in A : ~SamePiece(b, B, x, y)
  BY <1>0, PartedSame
<1>3. /\ \A x \in A \ K : x \in ha <=> x \in hb
      /\ \A x \in L : x \in hb <=> e \in hb
      /\ \A x \in R : x \in hb <=> -e \in hb
      /\ \A x \in K : x \in ha <=> {e, -e} \cap hb # {}
      /\ ha \subseteq A /\ hb \subseteq B
  <2>1. PartsHolesBack(a, A, ha, b, B, hb, e, L, R, K)
    BY PartsErased
  <2> QED BY <2>1 DEF PartsHolesBack
\* A piece with what is left of the rings has no other outer boundary.
<1>4. ASSUME NEW x \in ha, NEW y \in ha, x \in K, y \notin K, SamePiece(a, A, x, y) PROVE FALSE
  <2>1. PICK d \in {e, -e} : d \in hb
    BY <1>3, <1>4
  <2>2. y \in hb /\ y \in A /\ x \in A /\ y \in B /\ d \in B
    BY <1>1, <1>3, <1>4
  <2>3. SamePiece(b, B, d, x) /\ SamePiece(b, B, x, y)
    BY <1>1, <1>2, <1>4, <2>2
  <2>4. SamePiece(b, B, d, y)
    BY <2>3, Onward
  <2>5. SameRing(b, B, d, y)
    BY <2>1, <2>2, <2>4 DEF OneHole
  <2>6. y \in L \cup R
    BY <1>1, <1>2, <2>2, <2>5
  <2> QED BY <1>1, <1>4, <2>2, <2>6
<1>5. ASSUME NEW x \in ha, NEW y \in ha, SamePiece(a, A, x, y) PROVE SameRing(a, A, x, y)
  <2>0. x \in A /\ y \in A /\ SamePiece(a, A, y, x)
    <3>1. x \in A /\ y \in A
      BY <1>3
    <3> QED BY <1>1, <1>5, <3>1, Mutual
  <2>1. x \in K <=> y \in K
    BY <1>4, <1>5, <2>0
  <2>2. CASE x \in K
    BY <1>2, <2>0, <2>1, <2>2
  <2>3. CASE x \notin K
    <3>1. x \in hb /\ y \in hb /\ SamePiece(b, B, x, y)
      BY <1>2, <1>3, <1>5, <2>0, <2>1, <2>3
    <3>2. SameRing(b, B, x, y)
      BY <3>1 DEF OneHole
    <3> QED BY <1>2, <2>0, <2>1, <2>3, <3>2
  <2> QED BY <2>2, <2>3
<1>6. ASSUME NEW x \in A PROVE \E y \in ha : SamePiece(a, A, x, y)
  <2>1. PICK h \in hb : SamePiece(b, B, x, h)
    BY <1>1 DEF HasHole
  <2>2. CASE h \in A
    <3>1. h \in ha
      BY <1>1, <1>3, <2>1, <2>2
    <3> QED BY <1>2, <2>1, <2>2, <3>1
  <2>3. CASE h \notin A
    <3>1. h \in {e, -e} /\ h \in B /\ x \in B
      BY <1>1, <1>3, <2>3
    <3>2. SamePiece(b, B, h, x)
      BY <1>1, <2>1, <3>1, Mutual
    <3>3. PICK k \in K : TRUE
      BY <1>2, <3>1, <3>2
    <3>4. SamePiece(b, B, h, k) /\ k \in A /\ k \in ha
      BY <1>1, <1>2, <1>3, <2>1, <3>1
    <3>5. SamePiece(b, B, x, k)
      BY <2>1, <3>4, Onward
    <3> QED BY <1>2, <3>4, <3>5
  <2> QED BY <2>2, <2>3
<1> QED BY <1>5, <1>6 DEF OneHole, HasHole

-----------------------------------------------------------------------------
(* One curve e, in drawing c, or two, i and j, in drawing c2: cutting leads  *)
(* from c to c2, joining back.                                               *)

\* The dart of i or j that leaves where dart x of e does, and the dart of e that goes
\* the way of dart x of i or j; other darts stay.
FirstOf(e, i, j, x) == IF x = e THEN i ELSE IF x = -e THEN -j ELSE x
WholeOf(e, i, j, x) == IF x \in {i, j} THEN e ELSE IF x \in {-i, -j} THEN -e ELSE x

Divides(c, D, c2, D2, e, i, j) ==
  /\ Rotates(c, D) /\ Rotates(c2, D2) /\ e \in D /\ i \in D2 /\ j \in D2 /\ i \notin {j, -j}
  /\ D \ {e, -e} = D2 \ {i, -i, j, -j}
  /\ c2[-i] = j /\ c2[j] = -i
  /\ \A x \in D : c2[FirstOf(e, i, j, x)] = FirstOf(e, i, j, c[x])

\* Sets and values for the darts of both.
DividedSet(D2, e, i, j, S) == {x \in D2 : WholeOf(e, i, j, x) \in S}
WholeSet(D, e, i, j, S2) == {x \in D : FirstOf(e, i, j, x) \in S2}

\* Where the darts go.
DividedDarts(c, D, c2, D2, e, i, j) ==
  /\ \A x \in D : x \in Int \ {0} /\ -x \in D /\ -(-x) = x /\ c[x] \in D
  /\ \A x \in D2 : x \in Int \ {0} /\ -x \in D2 /\ -(-x) = x /\ c2[x] \in D2
  /\ \A x \in D : FirstOf(e, i, j, x) \in D2 /\ WholeOf(e, i, j, FirstOf(e, i, j, x)) = x
  /\ \A x \in D2 : WholeOf(e, i, j, x) \in D /\ WholeOf(e, i, j, -x) = -WholeOf(e, i, j, x)
  /\ e # -e /\ i # -i /\ j # -j /\ i # j /\ i # -j /\ -i # j /\ -i # -j
  /\ e \in D /\ -e \in D /\ i \in D2 /\ -i \in D2 /\ j \in D2 /\ -j \in D2
  /\ \A x \in D \ {e, -e} : x \in D2 /\ x \notin {i, -i, j, -j}
  /\ \A x \in D2 \ {i, -i, j, -j} : x \in D /\ x \notin {e, -e}
  /\ \A x \in D : FirstOf(e, i, j, x) \notin {-i, j}
  /\ \A x \in D2 : x \notin {-i, j} => FirstOf(e, i, j, WholeOf(e, i, j, x)) = x

\* A curve that is cut in two keeps its darts, at its two ends, and gets two more in the middle.
LEMMA DivideDarts ==
  ASSUME NEW c, NEW D, NEW c2, NEW D2, NEW e, NEW i, NEW j, Divides(c, D, c2, D2, e, i, j)
  PROVE  DividedDarts(c, D, c2, D2, e, i, j)
<1>1. /\ \A x \in D : x \in Int \ {0} /\ -x \in D /\ -(-x) = x /\ c[x] \in D
      /\ \A x \in D2 : x \in Int \ {0} /\ -x \in D2 /\ -(-x) = x /\ c2[x] \in D2
  BY DEF Divides, Rotates, Permutes
<1>2. e \in D /\ i \in D2 /\ j \in D2 /\ i \notin {j, -j} /\ D \ {e, -e} = D2 \ {i, -i, j, -j}
  BY DEF Divides
<1>3. e # -e /\ i # -i /\ j # -j /\ i # j /\ i # -j /\ -i # j /\ -i # -j
  BY <1>1, <1>2
<1>4. e \in D /\ -e \in D /\ i \in D2 /\ -i \in D2 /\ j \in D2 /\ -j \in D2
  BY <1>1, <1>2
<1>5. /\ \A x \in D \ {e, -e} : x \in D2 /\ x \notin {i, -i, j, -j}
      /\ \A x \in D2 \ {i, -i, j, -j} : x \in D /\ x \notin {e, -e}
  BY <1>2
<1>6. ASSUME NEW x \in D
      PROVE  /\ FirstOf(e, i, j, x) \in D2 /\ WholeOf(e, i, j, FirstOf(e, i, j, x)) = x
             /\ FirstOf(e, i, j, x) \notin {-i, j}
  <2>1. CASE x = e
    BY <1>3, <1>4, <2>1 DEF FirstOf, WholeOf
  <2>2. CASE x = -e
    BY <1>3, <1>4, <2>2 DEF FirstOf, WholeOf
  <2>3. CASE x \notin {e, -e}
    BY <1>5, <2>3 DEF FirstOf, WholeOf
  <2> QED BY <2>1, <2>2, <2>3
<1>7. ASSUME NEW x \in D2
      PROVE  /\ WholeOf(e, i, j, x) \in D /\ WholeOf(e, i, j, -x) = -WholeOf(e, i, j, x)
             /\ x \notin {-i, j} => FirstOf(e, i, j, WholeOf(e, i, j, x)) = x
  <2>0. -(-i) = i /\ -(-j) = j /\ -(-e) = e
    BY <1>1, <1>4
  <2>1. CASE x = i
    BY <1>3, <1>4, <2>0, <2>1 DEF WholeOf, FirstOf
  <2>2. CASE x = -i
    BY <1>3, <1>4, <2>0, <2>2 DEF WholeOf, FirstOf
  <2>3. CASE x = j
    BY <1>3, <1>4, <2>0, <2>3 DEF WholeOf, FirstOf
  <2>4. CASE x = -j
    BY <1>3, <1>4, <2>0, <2>4 DEF WholeOf, FirstOf
  <2>5. CASE x \notin {i, -i, j, -j}
    <3>1. x \in D /\ x \notin {e, -e}
      BY <1>5, <2>5
    <3>2. -x \notin {i, -i, j, -j}
      BY <1>1, <1>4, <2>5
    <3> QED BY <2>5, <3>1, <3>2 DEF WholeOf, FirstOf
  <2> QED BY <2>1, <2>2, <2>3, <2>4, <2>5
<1> QED BY <1>1, <1>3, <1>4, <1>5, <1>6, <1>7 DEF DividedDarts

\* Walking: from i to j and from -j to -i, and otherwise as along the whole curve.
LEMMA DivideWalks ==
  ASSUME NEW c, NEW D, NEW c2, NEW D2, NEW e, NEW i, NEW j, Divides(c, D, c2, D2, e, i, j)
  PROVE  /\ c2[-i] = j /\ c2[-(-j)] = -i /\ WholeOf(e, i, j, i) = e /\ WholeOf(e, i, j, j) = e
         /\ WholeOf(e, i, j, -i) = -e /\ WholeOf(e, i, j, -j) = -e
         /\ \A x \in D2 \ {i, -j} : WholeOf(e, i, j, c2[-x]) = c[-WholeOf(e, i, j, x)]
         /\ \A x \in D : \E y \in D2 \ {i, -j} : WholeOf(e, i, j, y) = x
<1>0. DividedDarts(c, D, c2, D2, e, i, j)
  BY DivideDarts
<1>1. c2[-i] = j /\ c2[j] = -i /\ \A x \in D : c2[FirstOf(e, i, j, x)] = FirstOf(e, i, j, c[x])
  BY DEF Divides
<1>2. -(-j) = j /\ -(-i) = i /\ i # -i /\ j # -j /\ i # j /\ i # -j /\ -i # j /\ -i # -j
  BY <1>0 DEF DividedDarts
<1>3. /\ WholeOf(e, i, j, i) = e /\ WholeOf(e, i, j, j) = e
      /\ WholeOf(e, i, j, -i) = -e /\ WholeOf(e, i, j, -j) = -e
  BY <1>2 DEF WholeOf
<1>4. ASSUME NEW x \in D2 \ {i, -j} PROVE WholeOf(e, i, j, c2[-x]) = c[-WholeOf(e, i, j, x)]
  <2>1. -x \in D2 /\ -x \notin {-i, j} /\ -(-x) = x
    BY <1>0, <1>2 DEF DividedDarts
  <2>2. /\ FirstOf(e, i, j, WholeOf(e, i, j, -x)) = -x
        /\ WholeOf(e, i, j, -x) = -WholeOf(e, i, j, x) /\ WholeOf(e, i, j, -x) \in D
    BY <1>0, <2>1 DEF DividedDarts
  <2>3. c2[-x] = FirstOf(e, i, j, c[-WholeOf(e, i, j, x)])
    BY <1>1, <2>2
  <2>4. c[-WholeOf(e, i, j, x)] \in D
    BY <1>0, <2>2 DEF DividedDarts
  <2> QED BY <1>0, <2>3, <2>4 DEF DividedDarts
<1>5. ASSUME NEW x \in D PROVE \E y \in D2 \ {i, -j} : WholeOf(e, i, j, y) = x
  <2>1. CASE x = e
    BY <1>0, <1>2, <1>3, <2>1 DEF DividedDarts
  <2>2. CASE x = -e
    BY <1>0, <1>2, <1>3, <2>2 DEF DividedDarts
  <2>3. CASE x \notin {e, -e}
    <3>1. x \in D2 \ {i, -j} /\ x \notin {i, -i, j, -j}
      BY <1>0, <2>3 DEF DividedDarts
    <3> QED BY <3>1 DEF WholeOf
  <2> QED BY <2>1, <2>2, <2>3
<1> QED BY <1>1, <1>2, <1>3, <1>4, <1>5

\* Sets of rings and of pieces correspond.
LEMMA DivideSets ==
  ASSUME NEW c, NEW D, NEW c2, NEW D2, NEW e, NEW i, NEW j, Divides(c, D, c2, D2, e, i, j)
  PROVE  /\ \A S \in SUBSET D : Walked(c, S) <=> Walked(c2, DividedSet(D2, e, i, j, S))
         /\ \A S \in SUBSET D : Closed(c, S) <=> Closed(c2, DividedSet(D2, e, i, j, S))
         /\ \A S \in SUBSET D2 : Walked(c2, S)
              => DividedSet(D2, e, i, j, WholeSet(D, e, i, j, S)) = S /\ WholeSet(D, e, i, j, S) \in SUBSET D
<1>0. DividedDarts(c, D, c2, D2, e, i, j) /\ Rotates(c2, D2) /\ Rotates(c, D)
  BY DivideDarts DEF Divides
<1>1. /\ c2[-i] = j /\ c2[-(-j)] = -i /\ WholeOf(e, i, j, i) = e /\ WholeOf(e, i, j, j) = e
      /\ WholeOf(e, i, j, -i) = -e /\ WholeOf(e, i, j, -j) = -e
      /\ \A x \in D2 \ {i, -j} : WholeOf(e, i, j, c2[-x]) = c[-WholeOf(e, i, j, x)]
      /\ \A x \in D : \E y \in D2 \ {i, -j} : WholeOf(e, i, j, y) = x
  BY DivideWalks
<1>2. /\ \A x \in D : -x \in D /\ c[x] \in D
      /\ \A x \in D2 : -x \in D2 /\ -(-x) = x /\ c2[x] \in D2
      /\ \A x \in D2 : WholeOf(e, i, j, x) \in D /\ WholeOf(e, i, j, -x) = -WholeOf(e, i, j, x)
  BY <1>0 DEF DividedDarts
<1>3. ASSUME NEW S \in SUBSET D PROVE Walked(c, S) <=> Walked(c2, DividedSet(D2, e, i, j, S))
  <2>1. ASSUME Walked(c, S), NEW x \in D2, WholeOf(e, i, j, x) \in S PROVE WholeOf(e, i, j, c2[-x]) \in S
    <3>1. CASE x \in {i, -j}
      BY <1>1, <2>1, <3>1
    <3>2. CASE x \notin {i, -j}
      BY <1>1, <2>1, <3>2 DEF Walked
    <3> QED BY <3>1, <3>2
  <2>2. ASSUME Walked(c2, DividedSet(D2, e, i, j, S)), NEW x \in S PROVE c[-x] \in S
    <3>1. PICK y \in D2 \ {i, -j} : WholeOf(e, i, j, y) = x
      BY <1>1
    <3>2. c2[-y] \in DividedSet(D2, e, i, j, S)
      BY <2>2, <3>1 DEF DividedSet, Walked
    <3> QED BY <1>1, <3>1, <3>2 DEF DividedSet
  <2> QED BY <1>2, <2>1, <2>2 DEF Walked, DividedSet
<1>4. ASSUME NEW S \in SUBSET D
      PROVE  (\A x \in S : -x \in S) <=> \A x \in DividedSet(D2, e, i, j, S) : -x \in DividedSet(D2, e, i, j, S)
  <2>1. ASSUME \A x \in S : -x \in S, NEW x \in D2, WholeOf(e, i, j, x) \in S PROVE WholeOf(e, i, j, -x) \in S
    BY <1>2, <2>1
  <2>2. ASSUME \A x \in DividedSet(D2, e, i, j, S) : -x \in DividedSet(D2, e, i, j, S), NEW x \in S
        PROVE  -x \in S
    <3>1. PICK y \in D2 \ {i, -j} : WholeOf(e, i, j, y) = x
      BY <1>1
    <3>2. -y \in DividedSet(D2, e, i, j, S)
      BY <2>2, <3>1 DEF DividedSet
    <3>3. WholeOf(e, i, j, -y) \in S /\ WholeOf(e, i, j, -y) = -x
      BY <1>2, <3>1, <3>2 DEF DividedSet
    <3> QED BY <3>3
  <2> QED BY <1>2, <2>1, <2>2 DEF DividedSet
<1>5. ASSUME NEW C, NEW E, Rotates(C, E), NEW S \in SUBSET E
      PROVE  Closed(C, S) <=> Walked(C, S) /\ \A x \in S : -x \in S
  <2>1. \A x \in E : -x \in E /\ -(-x) = x
    BY <1>5 DEF Rotates
  <2> QED BY <2>1 DEF Closed, Walked
<1>6. ASSUME NEW S \in SUBSET D PROVE Closed(c, S) <=> Closed(c2, DividedSet(D2, e, i, j, S))
  <2>1. DividedSet(D2, e, i, j, S) \in SUBSET D2
    BY DEF DividedSet
  <2> QED BY <1>0, <1>3, <1>4, <1>5, <2>1
<1>7. ASSUME NEW S \in SUBSET D2, Walked(c2, S)
      PROVE  DividedSet(D2, e, i, j, WholeSet(D, e, i, j, S)) = S
  <2>1. \A x \in D2 : c2[-x] \in S <=> x \in S
    BY <1>0, <1>7, WalkedSets
  <2>2. (i \in S <=> j \in S) /\ (-j \in S <=> -i \in S)
    <3>1. i \in D2 /\ -j \in D2
      BY <1>0 DEF DividedDarts
    <3> QED BY <1>1, <2>1, <3>1
  <2>3. ASSUME NEW x \in D2 PROVE FirstOf(e, i, j, WholeOf(e, i, j, x)) \in S <=> x \in S
    <3>1. CASE x \notin {-i, j}
      BY <1>0, <3>1 DEF DividedDarts
    <3>2. CASE x = j
      BY <1>1, <2>2, <3>2 DEF FirstOf
    <3>3. CASE x = -i
      <4>1. e # -e
        BY <1>0 DEF DividedDarts
      <4> QED BY <1>1, <2>2, <3>3, <4>1 DEF FirstOf
    <3> QED BY <3>1, <3>2, <3>3
  <2> QED BY <1>2, <2>3 DEF DividedSet, WholeSet
<1>8. \A S : WholeSet(D, e, i, j, S) \in SUBSET D
  BY DEF WholeSet
<1> QED BY <1>3, <1>6, <1>7, <1>8

\* What is in one ring or piece with what.
LEMMA DivideSame ==
  ASSUME NEW c, NEW D, NEW c2, NEW D2, NEW e, NEW i, NEW j, Divides(c, D, c2, D2, e, i, j)
  PROVE  \A x, y \in D2 :
           /\ SameRing(c2, D2, x, y) <=> SameRing(c, D, WholeOf(e, i, j, x), WholeOf(e, i, j, y))
           /\ SamePiece(c2, D2, x, y) <=> SamePiece(c, D, WholeOf(e, i, j, x), WholeOf(e, i, j, y))
<1> SUFFICES ASSUME NEW x \in D2, NEW y \in D2
             PROVE  /\ SameRing(c2, D2, x, y) <=> SameRing(c, D, WholeOf(e, i, j, x), WholeOf(e, i, j, y))
                    /\ SamePiece(c2, D2, x, y) <=> SamePiece(c, D, WholeOf(e, i, j, x), WholeOf(e, i, j, y))
  OBVIOUS
<1> DEFINE u == WholeOf(e, i, j, x)
           v == WholeOf(e, i, j, y)
           Two(S) == DividedSet(D2, e, i, j, S)
           One(S) == WholeSet(D, e, i, j, S)
<1>0. \A S : /\ Two(S) \in SUBSET D2 /\ One(S) \in SUBSET D
             /\ x \in Two(S) <=> u \in S
             /\ y \in Two(S) <=> v \in S
  BY DEF DividedSet, WholeSet
<1>1. /\ \A S \in SUBSET D : (Walked(c, S) <=> Walked(c2, Two(S))) /\ (Closed(c, S) <=> Closed(c2, Two(S)))
      /\ \A S \in SUBSET D2 : Walked(c2, S) => Two(One(S)) = S
  BY DivideSets
<1>2. \A S \in SUBSET D2 : Closed(c2, S) => Walked(c2, S)
  BY WalkedSets DEF Divides
<1> HIDE DEF u, v, Two, One
<1>3. SameRing(c2, D2, x, y) <=> SameRing(c, D, u, v)
  <2>1. ASSUME SameRing(c2, D2, x, y), NEW S \in SUBSET D, Walked(c, S), u \in S PROVE v \in S
    BY <1>0, <1>1, <2>1 DEF SameRing
  <2>2. ASSUME SameRing(c, D, u, v), NEW S \in SUBSET D2, Walked(c2, S), x \in S PROVE y \in S
    <3>1. Two(One(S)) = S /\ One(S) \in SUBSET D
      BY <1>0, <1>1, <2>2
    <3>2. Walked(c, One(S)) /\ u \in One(S)
      BY <1>0, <1>1, <2>2, <3>1
    <3>3. v \in One(S)
      BY <2>2, <3>1, <3>2 DEF SameRing
    <3> QED BY <1>0, <3>1, <3>3
  <2> QED BY <2>1, <2>2 DEF SameRing
<1>4. SamePiece(c2, D2, x, y) <=> SamePiece(c, D, u, v)
  <2>1. ASSUME SamePiece(c2, D2, x, y), NEW S \in SUBSET D, Closed(c, S), u \in S PROVE v \in S
    BY <1>0, <1>1, <2>1 DEF SamePiece
  <2>2. ASSUME SamePiece(c, D, u, v), NEW S \in SUBSET D2, Closed(c2, S), x \in S PROVE y \in S
    <3>1. Two(One(S)) = S /\ One(S) \in SUBSET D
      BY <1>0, <1>1, <1>2, <2>2
    <3>2. Closed(c, One(S)) /\ u \in One(S)
      BY <1>0, <1>1, <2>2, <3>1
    <3>3. v \in One(S)
      BY <2>2, <3>1, <3>2 DEF SamePiece
    <3> QED BY <1>0, <3>1, <3>3
  <2> QED BY <2>1, <2>2 DEF SamePiece
<1> QED BY <1>3, <1>4 DEF u, v

\* Both darts on each side of a cut curve are outer boundary and in a region as the
\* whole is.
DividedMarks(D, h, rg, D2, h2, rg2, e, i, j) ==
  /\ h \subseteq D /\ h2 \subseteq D2
  /\ \A x \in D2 : (x \in h2 <=> WholeOf(e, i, j, x) \in h) /\ rg2[x] = rg[WholeOf(e, i, j, x)]

\* All but the rule of sides of Planar.
Bounded(c, D, h, rg) == /\ OneRegion(c, D, rg) /\ HolesWhole(c, D, h)
                        /\ OneShell(c, D, h, rg) /\ OneHole(c, D, h) /\ HasHole(c, D, h)

\* Regions and boundaries are as good before as after.
LEMMA DivideBounds ==
  ASSUME NEW c, NEW D, NEW h, NEW rg, NEW c2, NEW D2, NEW h2, NEW rg2, NEW e, NEW i, NEW j,
         Divides(c, D, c2, D2, e, i, j), DividedMarks(D, h, rg, D2, h2, rg2, e, i, j)
  PROVE  Bounded(c, D, h, rg) <=> Bounded(c2, D2, h2, rg2)
<1> DEFINE W(x) == WholeOf(e, i, j, x)
<1>1. /\ \A x \in D2 : W(x) \in D /\ c2[-x] \in D2
      /\ \A x \in D : -x \in D /\ c[-x] \in D
      /\ i \in D2 /\ -j \in D2 /\ e \in D
  <2>1. DividedDarts(c, D, c2, D2, e, i, j)
    BY DivideDarts
  <2> QED BY <2>1 DEF DividedDarts
<1>2. /\ W(c2[-i]) = W(i) /\ W(c2[-(-j)]) = W(-j)
      /\ \A x \in D2 \ {i, -j} : W(c2[-x]) = c[-W(x)]
      /\ \A x \in D : \E y \in D2 \ {i, -j} : W(y) = x
  BY DivideWalks
<1>3. /\ h \subseteq D /\ h2 \subseteq D2
      /\ \A x \in D2 : (x \in h2 <=> W(x) \in h) /\ rg2[x] = rg[W(x)]
  BY DEF DividedMarks
<1>4. \A x, y \in D2 : /\ SameRing(c2, D2, x, y) <=> SameRing(c, D, W(x), W(y))
                       /\ SamePiece(c2, D2, x, y) <=> SamePiece(c, D, W(x), W(y))
  BY DivideSame
<1> HIDE DEF W
<1>5. OneRegion(c, D, rg) <=> OneRegion(c2, D2, rg2)
  <2>1. ASSUME OneRegion(c, D, rg), NEW x \in D2 PROVE rg2[c2[-x]] = rg2[x]
    <3>1. CASE x \in {i, -j}
      BY <1>1, <1>2, <1>3, <3>1
    <3>2. CASE x \notin {i, -j}
      BY <1>1, <1>2, <1>3, <2>1, <3>2 DEF OneRegion
    <3> QED BY <3>1, <3>2
  <2>2. ASSUME OneRegion(c2, D2, rg2), NEW x \in D PROVE rg[c[-x]] = rg[x]
    <3>1. PICK y \in D2 \ {i, -j} : W(y) = x
      BY <1>2
    <3> QED BY <1>1, <1>2, <1>3, <2>2, <3>1 DEF OneRegion
  <2> QED BY <2>1, <2>2 DEF OneRegion
<1>6. HolesWhole(c, D, h) <=> HolesWhole(c2, D2, h2)
  <2>1. ASSUME HolesWhole(c, D, h), NEW x \in D2 PROVE x \in h2 <=> c2[-x] \in h2
    <3>1. CASE x \in {i, -j}
      BY <1>1, <1>2, <1>3, <3>1
    <3>2. CASE x \notin {i, -j}
      BY <1>1, <1>2, <1>3, <2>1, <3>2 DEF HolesWhole
    <3> QED BY <3>1, <3>2
  <2>2. ASSUME HolesWhole(c2, D2, h2), NEW x \in D PROVE x \in h <=> c[-x] \in h
    <3>1. PICK y \in D2 \ {i, -j} : W(y) = x
      BY <1>2
    <3> QED BY <1>1, <1>2, <1>3, <2>2, <3>1 DEF HolesWhole
  <2> QED BY <1>3, <2>1, <2>2 DEF HolesWhole
<1>7. OneShell(c, D, h, rg) <=> OneShell(c2, D2, h2, rg2)
  <2>1. \A x \in D2 \ h2 : W(x) \in D \ h
    BY <1>1, <1>3
  <2>2. \A x \in D \ h : \E y \in D2 \ h2 : W(y) = x
    BY <1>2, <1>3
  <2>3. OneShell(c, D, h, rg) => OneShell(c2, D2, h2, rg2)
    BY <1>3, <1>4, <2>1 DEF OneShell
  <2>4. OneShell(c2, D2, h2, rg2) => OneShell(c, D, h, rg)
    <3> SUFFICES ASSUME OneShell(c2, D2, h2, rg2), NEW x \in D \ h, NEW y \in D \ h
                 PROVE  rg[x] # 0 /\ (rg[x] = rg[y] => SameRing(c, D, x, y))
      BY DEF OneShell
    <3>1. PICK u \in D2 \ h2 : W(u) = x
      BY <2>2
    <3>2. PICK v \in D2 \ h2 : W(v) = y
      BY <2>2
    <3> QED BY <1>3, <1>4, <3>1, <3>2 DEF OneShell
  <2> QED BY <2>3, <2>4
<1>8. OneHole(c, D, h) <=> OneHole(c2, D2, h2)
  <2>1. \A x \in h2 : W(x) \in h
    BY <1>1, <1>3
  <2>2. \A x \in h : \E y \in h2 : W(y) = x
    BY <1>2, <1>3
  <2>3. OneHole(c, D, h) => OneHole(c2, D2, h2)
    BY <1>3, <1>4, <2>1 DEF OneHole
  <2>4. OneHole(c2, D2, h2) => OneHole(c, D, h)
    <3> SUFFICES ASSUME OneHole(c2, D2, h2), NEW x \in h, NEW y \in h, SamePiece(c, D, x, y)
                 PROVE  SameRing(c, D, x, y)
      BY DEF OneHole
    <3>1. PICK u \in h2 : W(u) = x
      BY <2>2
    <3>2. PICK v \in h2 : W(v) = y
      BY <2>2
    <3> QED BY <1>3, <1>4, <3>1, <3>2 DEF OneHole
  <2> QED BY <2>3, <2>4
<1>9. HasHole(c, D, h) <=> HasHole(c2, D2, h2)
  <2>2. \A x \in h : \E y \in h2 : W(y) = x
    BY <1>2, <1>3
  <2>3. HasHole(c, D, h) => HasHole(c2, D2, h2)
    <3> SUFFICES ASSUME HasHole(c, D, h), NEW x \in D2 PROVE \E y \in h2 : SamePiece(c2, D2, x, y)
      BY DEF HasHole
    <3>1. PICK v \in h : SamePiece(c, D, W(x), v)
      BY <1>1 DEF HasHole
    <3>2. PICK y \in h2 : W(y) = v
      BY <2>2
    <3> QED BY <1>3, <1>4, <3>1, <3>2
  <2>4. HasHole(c2, D2, h2) => HasHole(c, D, h)
    <3> SUFFICES ASSUME HasHole(c2, D2, h2), NEW x \in D PROVE \E y \in h : SamePiece(c, D, x, y)
      BY DEF HasHole
    <3>1. PICK u \in D2 : W(u) = x
      BY <1>2
    <3>2. PICK v \in h2 : SamePiece(c2, D2, u, v)
      BY DEF HasHole
    <3> QED BY <1>3, <1>4, <3>1, <3>2
  <2> QED BY <2>3, <2>4
<1> QED BY <1>5, <1>6, <1>7, <1>8, <1>9 DEF Bounded

\* The curves X2 of the cut drawing are X with e where one of i and j is in.
DividedCurves(D, D2, e, i, j, X, X2) ==
  /\ X \in SUBSET D /\ X2 \in SUBSET D2 /\ Curves(X) /\ Curves(X2)
  /\ X \ {e, -e} = (X2 \ {i, -i}) \ {j, -j}
  /\ (e \in X <=> (i \in X2 <=> j \notin X2))

\* S2 has the sides of the cut drawing that S has of the other.
DividedSides(D2, e, i, j, S, S2) == \A x \in D2 : x \in S2 <=> WholeOf(e, i, j, x) \in S

\* They are as odd on every set of sides.
LEMMA DivideOdd ==
  ASSUME NEW c, NEW D, NEW c2, NEW D2, NEW e, NEW i, NEW j, Divides(c, D, c2, D2, e, i, j),
         NEW X, NEW X2, DividedCurves(D, D2, e, i, j, X, X2), NEW S, NEW S2,
         DividedSides(D2, e, i, j, S, S2)
  PROVE  Odd(X \cap S) <=> Odd(X2 \cap S2)
<1>0. DividedDarts(c, D, c2, D2, e, i, j)
  BY DivideDarts
<1>1. /\ X \in SUBSET D /\ X2 \in SUBSET D2 /\ Curves(X) /\ Curves(X2)
      /\ X \ {e, -e} = (X2 \ {i, -i}) \ {j, -j}
      /\ (e \in X <=> (i \in X2 <=> j \notin X2))
  BY DEF DividedCurves
<1>2. IsFiniteSet(X) /\ IsFiniteSet(X2) /\ IsFiniteSet(X2 \ {i, -i})
  <2>1. IsFiniteSet(D) /\ IsFiniteSet(D2)
    BY DEF Divides, Rotates, Permutes
  <2> QED BY <1>1, <2>1, FS_Subset
<1>3. /\ e \in Int \ {0} /\ i \in Int \ {0} /\ j \in Int \ {0} /\ -(-e) = e /\ -(-i) = i /\ -(-j) = j
      /\ i \in D2 /\ -i \in D2 /\ j \in D2 /\ -j \in D2 /\ i # j /\ i # -j /\ -i # j /\ -i # -j
      /\ \A x \in D2 : -(-x) = x
      /\ \A x \in D2 \ {i, -i, j, -j} : x \in D /\ x \notin {e, -e}
  BY <1>0 DEF DividedDarts
<1>4. /\ WholeOf(e, i, j, i) = e /\ WholeOf(e, i, j, j) = e
      /\ WholeOf(e, i, j, -i) = -e /\ WholeOf(e, i, j, -j) = -e
  BY DivideWalks
<1>5. /\ i \in S2 <=> e \in S
      /\ j \in S2 <=> e \in S
      /\ -i \in S2 <=> -e \in S
      /\ -j \in S2 <=> -e \in S
  BY <1>3, <1>4 DEF DividedSides
<1>6. Odd((X \ {e, -e}) \cap S) <=> (Odd(X \cap S) <=> (e \in X => (e \in S <=> -e \in S)))
  BY <1>1, <1>2, <1>3, CurveLeftOut
<1>7. Odd((X2 \ {i, -i}) \cap S2) <=> (Odd(X2 \cap S2) <=> (i \in X2 => (i \in S2 <=> -i \in S2)))
  BY <1>1, <1>2, <1>3, CurveLeftOut
<1>8. Curves(X2 \ {i, -i})
  <2> SUFFICES ASSUME NEW x \in X2 \ {i, -i} PROVE -x \in X2 \ {i, -i}
    BY DEF Curves
  <2>1. -x \in X2 /\ -(-x) = x
    BY <1>1, <1>3 DEF Curves
  <2> QED BY <1>3, <2>1
<1>9. Odd(((X2 \ {i, -i}) \ {j, -j}) \cap S2)
      <=> (Odd((X2 \ {i, -i}) \cap S2) <=> (j \in X2 \ {i, -i} => (j \in S2 <=> -j \in S2)))
  BY <1>2, <1>3, <1>8, CurveLeftOut
<1>10. j \in X2 \ {i, -i} <=> j \in X2
  BY <1>3
<1>11. ((X2 \ {i, -i}) \ {j, -j}) \cap S2 = (X \ {e, -e}) \cap S
  <2>1. \A x \in (X2 \ {i, -i}) \ {j, -j} : x \in S2 <=> x \in S
    <3> SUFFICES ASSUME NEW x \in D2 \ {i, -i, j, -j} PROVE x \in S2 <=> x \in S
      BY <1>1
    <3>1. WholeOf(e, i, j, x) = x
      BY DEF WholeOf
    <3> QED BY <3>1 DEF DividedSides
  <2> QED BY <1>1, <2>1
<1> DEFINE s == e \in S <=> -e \in S
           o == Odd((X \ {e, -e}) \cap S)
<1>12. o <=> (Odd(X \cap S) <=> (e \in X => s))
  BY <1>6
<1>13. o <=> ((Odd(X2 \cap S2) <=> (i \in X2 => s)) <=> (j \in X2 => s))
  BY <1>5, <1>7, <1>9, <1>10, <1>11
<1> HIDE DEF s, o
<1>14. s \in BOOLEAN /\ o \in BOOLEAN
  BY DEF s, o, Odd
<1>15. Odd(X \cap S) \in BOOLEAN /\ Odd(X2 \cap S2) \in BOOLEAN
  BY DEF Odd
<1> QED BY <1>1, <1>12, <1>13, <1>14, <1>15

\* Cutting a curve keeps it true that what meets every region evenly leads from side to
\* side: the point it is cut at goes on the side that its first half asks for.
LEMMA CutCurves ==
  ASSUME NEW c, NEW D, NEW h, NEW rg, NEW c2, NEW D2, NEW h2, NEW rg2, NEW e, NEW i, NEW j,
         Divides(c, D, c2, D2, e, i, j), DividedMarks(D, h, rg, D2, h2, rg2, e, i, j),
         Jordan(c, D, rg)
  PROVE  Jordan(c2, D2, rg2)
<1> SUFFICES ASSUME NEW X2 \in SUBSET D2, Curves(X2), Evenly(D2, rg2, X2)
             PROVE  \E C : Sides(c2, D2, C) /\ Crossing(D2, C) = X2
  BY DEF Jordan
<1>0. DividedDarts(c, D, c2, D2, e, i, j)
  BY DivideDarts
<1>1. /\ \A x \in D : -x \in D /\ -(-x) = x /\ c[x] \in D
      /\ \A x \in D2 : -x \in D2 /\ -(-x) = x /\ c2[x] \in D2 /\ WholeOf(e, i, j, x) \in D
      /\ e # -e /\ i # -i /\ j # -j /\ i # j /\ i # -j /\ -i # j /\ -i # -j
      /\ e \in D /\ -e \in D /\ i \in D2 /\ -i \in D2 /\ j \in D2 /\ -j \in D2
  BY <1>0 DEF DividedDarts
<1>2. /\ \A x \in D \ {e, -e} : x \in D2 /\ x \notin {i, -i, j, -j}
      /\ \A x \in D2 \ {i, -i, j, -j} : x \in D /\ x \notin {e, -e}
  BY <1>0 DEF DividedDarts
<1>3. /\ WholeOf(e, i, j, i) = e /\ WholeOf(e, i, j, j) = e
      /\ WholeOf(e, i, j, -i) = -e /\ WholeOf(e, i, j, -j) = -e
      /\ \A x \in D2 \ {i, -i, j, -j} : WholeOf(e, i, j, x) = x
  BY DivideWalks DEF WholeOf
<1> DEFINE X == {x \in D : IF x \in {e, -e} THEN i \in X2 <=> j \notin X2 ELSE x \in X2}
<1>4. DividedCurves(D, D2, e, i, j, X, X2)
  <2>1. X \in SUBSET D /\ (e \in X <=> (i \in X2 <=> j \notin X2))
    BY <1>1
  <2>2. X \ {e, -e} = (X2 \ {i, -i}) \ {j, -j}
    BY <1>2
  <2>3. Curves(X)
    <3> SUFFICES ASSUME NEW x \in X PROVE -x \in X
      BY DEF Curves
    <3>1. CASE x \in {e, -e}
      BY <1>1, <3>1
    <3>2. CASE x \notin {e, -e}
      <4>1. -x \in D /\ -x \notin {e, -e} /\ -x \in X2
        BY <1>1, <3>2 DEF Curves
      <4> QED BY <4>1
    <3> QED BY <3>1, <3>2
  <2> HIDE DEF X
  <2> QED BY <2>1, <2>2, <2>3 DEF DividedCurves
<1>5. X \in SUBSET D /\ Curves(X) /\ (e \in X <=> (i \in X2 <=> j \notin X2))
      /\ \A x \in D2 \ {i, -i, j, -j} : x \in X <=> x \in X2
  <2>1. \A x \in D2 \ {i, -i, j, -j} : x \in X <=> x \in X2
    BY <1>2
  <2> HIDE DEF X
  <2> QED BY <1>4, <2>1 DEF DividedCurves
<1> HIDE DEF X
<1>6. \A x \in D2 : rg2[x] = rg[WholeOf(e, i, j, x)]
  BY DEF DividedMarks
<1>7. Evenly(D, rg, X)
  <2> SUFFICES ASSUME NEW z \in D PROVE ~Odd(X \cap RegionOf(D, rg, z))
    BY DEF Evenly
  <2>1. PICK y \in D2 : WholeOf(e, i, j, y) = z
    BY DivideWalks
  <2>2. \A x \in D2 : x \in RegionOf(D2, rg2, y) <=> WholeOf(e, i, j, x) \in RegionOf(D, rg, z)
    BY <1>1, <1>6, <2>1 DEF RegionOf
  <2>3. Odd(X \cap RegionOf(D, rg, z)) <=> Odd(X2 \cap RegionOf(D2, rg2, y))
    <3> DEFINE S == RegionOf(D, rg, z)
               S2 == RegionOf(D2, rg2, y)
    <3>1. DividedSides(D2, e, i, j, S, S2)
      BY <2>2 DEF DividedSides
    <3> HIDE DEF S, S2
    <3>2. Odd(X \cap S) <=> Odd(X2 \cap S2)
      BY <1>4, <3>1, DivideOdd
    <3> QED BY <3>2 DEF S, S2
  <2> QED BY <2>3 DEF Evenly
<1>8. PICK C : Sides(c, D, C) /\ Crossing(D, C) = X
  BY <1>5, <1>7 DEF Jordan
<1> DEFINE U == {x \in D2 : IF x \in {-i, j} THEN (e \in C) # (i \in X2) ELSE WholeOf(e, i, j, x) \in C}
<1>9. /\ \A x \in D2 : x \notin {-i, j} => (x \in U <=> WholeOf(e, i, j, x) \in C)
      /\ \A x \in {-i, j} : x \in U <=> ((e \in C) # (i \in X2))
      /\ U \subseteq D2
  BY <1>1
<1> HIDE DEF U
<1>10. Sides(c2, D2, U)
  <2> SUFFICES ASSUME NEW x \in D2 PROVE x \in U <=> c2[x] \in U
    BY <1>9 DEF Sides
  <2>1. CASE x \in {-i, j}
    <3>1. c2[x] \in {-i, j}
      BY <2>1 DEF Divides
    <3> QED BY <1>9, <2>1, <3>1
  <2>2. CASE x \notin {-i, j}
    <3> DEFINE y == WholeOf(e, i, j, x)
    <3>1. y \in D /\ FirstOf(e, i, j, y) = x
      BY <1>0, <2>2 DEF DividedDarts
    <3>2. c2[x] = FirstOf(e, i, j, c[y])
      BY <3>1 DEF Divides
    <3>3. c[y] \in D /\ (y \in C <=> c[y] \in C)
      BY <1>1, <1>8, <3>1 DEF Sides
    <3>4. c2[x] \notin {-i, j} /\ WholeOf(e, i, j, c2[x]) = c[y]
      BY <1>0, <3>2, <3>3 DEF DividedDarts
    <3> QED BY <1>1, <1>9, <2>2, <3>3, <3>4
  <2> QED BY <2>1, <2>2
<1>11. e \in X <=> ((e \in C) # (-e \in C))
  BY <1>1, <1>8 DEF Crossing
<1>12. /\ i \in U <=> e \in C
       /\ -j \in U <=> -e \in C
       /\ -i \in U <=> ((e \in C) # (i \in X2))
       /\ j \in U <=> ((e \in C) # (i \in X2))
  BY <1>1, <1>3, <1>9
<1>13. /\ (i \in U) # (-i \in U) <=> i \in X2
       /\ (j \in U) # (-j \in U) <=> j \in X2
  BY <1>5, <1>11, <1>12
<1>14. ASSUME NEW x \in D2 PROVE x \in Crossing(D2, U) <=> x \in X2
  <2>0. x \in Crossing(D2, U) <=> (x \in U) # (-x \in U)
    BY DEF Crossing
  <2>1. CASE x \in {i, -i}
    <3>1. i \in X2 <=> -i \in X2
      BY <1>1 DEF Curves
    <3> QED BY <1>1, <1>13, <2>0, <2>1, <3>1
  <2>2. CASE x \in {j, -j}
    <3>1. j \in X2 <=> -j \in X2
      BY <1>1 DEF Curves
    <3> QED BY <1>1, <1>13, <2>0, <2>2, <3>1
  <2>3. CASE x \notin {i, -i, j, -j}
    <3>1. -x \in D2 /\ -x \notin {i, -i, j, -j} /\ x \in D
      BY <1>1, <1>2, <2>3
    <3>2. (x \in U <=> x \in C) /\ (-x \in U <=> -x \in C)
      BY <1>3, <1>9, <2>3, <3>1
    <3>3. x \in X <=> (x \in C) # (-x \in C)
      BY <1>8, <3>1 DEF Crossing
    <3> QED BY <1>5, <2>0, <2>3, <3>2, <3>3
  <2> QED BY <2>1, <2>2, <2>3
<1>15. Crossing(D2, U) = X2
  <2>1. Crossing(D2, U) \subseteq D2
    BY DEF Crossing
  <2> QED BY <1>14, <2>1
<1> QED BY <1>10, <1>15

\* And so does joining two.
LEMMA JoinCurves ==
  ASSUME NEW c, NEW D, NEW h, NEW rg, NEW c2, NEW D2, NEW h2, NEW rg2, NEW e, NEW i, NEW j,
         Divides(c, D, c2, D2, e, i, j), DividedMarks(D, h, rg, D2, h2, rg2, e, i, j),
         Jordan(c2, D2, rg2)
  PROVE  Jordan(c, D, rg)
<1> SUFFICES ASSUME NEW X \in SUBSET D, Curves(X), Evenly(D, rg, X)
             PROVE  \E C : Sides(c, D, C) /\ Crossing(D, C) = X
  BY DEF Jordan
<1>0. DividedDarts(c, D, c2, D2, e, i, j)
  BY DivideDarts
<1>1. /\ \A x \in D : -x \in D /\ -(-x) = x /\ c[x] \in D /\ FirstOf(e, i, j, x) \in D2
      /\ \A x \in D2 : -x \in D2 /\ -(-x) = x /\ c2[x] \in D2 /\ WholeOf(e, i, j, x) \in D
      /\ e # -e /\ i # -i /\ j # -j /\ i # j /\ i # -j /\ -i # j /\ -i # -j
      /\ e \in D /\ -e \in D /\ i \in D2 /\ -i \in D2 /\ j \in D2 /\ -j \in D2
  BY <1>0 DEF DividedDarts
<1>2. /\ \A x \in D \ {e, -e} : x \in D2 /\ x \notin {i, -i, j, -j}
      /\ \A x \in D2 \ {i, -i, j, -j} : x \in D /\ x \notin {e, -e}
  BY <1>0 DEF DividedDarts
<1> DEFINE X2 == {x \in D2 : IF x \in {i, -i} THEN e \in X ELSE x \notin {j, -j} /\ x \in X}
<1>3. /\ X2 \in SUBSET D2 /\ (i \in X2 <=> e \in X) /\ j \notin X2 /\ (-i \in X2 <=> e \in X) /\ -j \notin X2
      /\ \A x \in D2 \ {i, -i, j, -j} : x \in X <=> x \in X2
  BY <1>1
<1>4. DividedCurves(D, D2, e, i, j, X, X2)
  <2>1. X \ {e, -e} = (X2 \ {i, -i}) \ {j, -j}
    BY <1>2
  <2>2. Curves(X2)
    <3> SUFFICES ASSUME NEW x \in X2 PROVE -x \in X2
      BY DEF Curves
    <3>1. CASE x \in {i, -i}
      BY <1>1, <1>3, <3>1
    <3>2. CASE x \notin {i, -i}
      <4>1. x \in X /\ x \notin {j, -j} /\ x \in D2
        BY <3>2
      <4>2. -x \in D2 /\ -x \notin {i, -i, j, -j} /\ -x \in X
        BY <1>1, <3>2, <4>1 DEF Curves
      <4> QED BY <4>2
    <3> QED BY <3>1, <3>2
  <2> HIDE DEF X2
  <2> QED BY <1>3, <2>1, <2>2 DEF DividedCurves
<1> HIDE DEF X2
<1>5. Curves(X2)
  BY <1>4 DEF DividedCurves
<1>6. \A x \in D2 : rg2[x] = rg[WholeOf(e, i, j, x)]
  BY DEF DividedMarks
<1>7. Evenly(D2, rg2, X2)
  <2> SUFFICES ASSUME NEW y \in D2 PROVE ~Odd(X2 \cap RegionOf(D2, rg2, y))
    BY DEF Evenly
  <2> DEFINE z == WholeOf(e, i, j, y)
  <2>1. z \in D
    BY <1>1
  <2>2. \A x \in D2 : x \in RegionOf(D2, rg2, y) <=> WholeOf(e, i, j, x) \in RegionOf(D, rg, z)
    BY <1>1, <1>6 DEF RegionOf
  <2> HIDE DEF z
  <2>3. Odd(X \cap RegionOf(D, rg, z)) <=> Odd(X2 \cap RegionOf(D2, rg2, y))
    <3> DEFINE S == RegionOf(D, rg, z)
               S2 == RegionOf(D2, rg2, y)
    <3>1. DividedSides(D2, e, i, j, S, S2)
      BY <2>2 DEF DividedSides
    <3> HIDE DEF S, S2
    <3>2. Odd(X \cap S) <=> Odd(X2 \cap S2)
      BY <1>4, <3>1, DivideOdd
    <3> QED BY <3>2 DEF S, S2
  <2> QED BY <2>1, <2>3 DEF Evenly
<1>8. PICK U : Sides(c2, D2, U) /\ Crossing(D2, U) = X2
  BY <1>3, <1>5, <1>7 DEF Jordan
<1> DEFINE C == WholeSet(D, e, i, j, U)
<1>9. \A x \in D : x \in C <=> FirstOf(e, i, j, x) \in U
  BY DEF WholeSet
<1>10. Sides(c, D, C)
  <2>1. C \subseteq D
    BY DEF WholeSet
  <2> HIDE DEF C
  <2>2. ASSUME NEW x \in D PROVE x \in C <=> c[x] \in C
    <3>1. FirstOf(e, i, j, x) \in U <=> c2[FirstOf(e, i, j, x)] \in U
      BY <1>1, <1>8 DEF Sides
    <3>2. c2[FirstOf(e, i, j, x)] = FirstOf(e, i, j, c[x]) /\ c[x] \in D
      BY <1>1 DEF Divides
    <3> QED BY <1>9, <3>1, <3>2
  <2> QED BY <2>1, <2>2 DEF Sides
<1> HIDE DEF C
<1>11. (e \in C <=> i \in U) /\ (-e \in C <=> -j \in U)
  BY <1>1, <1>9 DEF FirstOf
<1>12. -i \in U <=> j \in U
  BY <1>1, <1>8 DEF Sides, Divides
<1>13. /\ (i \in U) # (-i \in U) <=> e \in X
       /\ (j \in U) = (-j \in U)
  <2>1. i \in Crossing(D2, U) <=> e \in X
    BY <1>3, <1>8
  <2>2. j \notin Crossing(D2, U)
    BY <1>3, <1>8
  <2> QED BY <1>1, <2>1, <2>2 DEF Crossing
<1>14. ASSUME NEW x \in D PROVE x \in Crossing(D, C) <=> x \in X
  <2>0. x \in Crossing(D, C) <=> (x \in C) # (-x \in C)
    BY DEF Crossing
  <2>1. CASE x \in {e, -e}
    <3>1. e \in X <=> -e \in X
      BY <1>1 DEF Curves
    <3>2. (e \in C) # (-e \in C) <=> e \in X
      BY <1>11, <1>12, <1>13
    <3> QED BY <1>1, <2>0, <2>1, <3>1, <3>2
  <2>2. CASE x \notin {e, -e}
    <3>1. -x \in D /\ -x \notin {e, -e} /\ x \in D2 /\ x \notin {i, -i, j, -j}
      BY <1>1, <1>2, <2>2
    <3>2. (x \in C <=> x \in U) /\ (-x \in C <=> -x \in U)
      BY <1>9, <2>2, <3>1 DEF FirstOf
    <3>3. x \in X2 <=> (x \in U) # (-x \in U)
      BY <1>8, <3>1 DEF Crossing
    <3> QED BY <1>3, <2>0, <3>1, <3>2, <3>3
  <2> QED BY <2>1, <2>2
<1>15. Crossing(D, C) = X
  <2>1. Crossing(D, C) \subseteq D
    BY DEF Crossing
  <2> QED BY <1>14, <2>1
<1> QED BY <1>10, <1>15

-----------------------------------------------------------------------------
(* The four edits of a drawing leave a drawing.                              *)

\* What a plane drawing is made of.
LEMMA PlanarParts ==
  ASSUME NEW c, NEW D, NEW h, NEW rg
  PROVE  Planar(c, D, h, rg) <=> Rotates(c, D) /\ Bounded(c, D, h, rg) /\ Jordan(c, D, rg)
BY DEF Planar, Bounded

\* Drawing a curve that parts a region.
LEMMA PartsDrawn ==
  ASSUME NEW a, NEW A, NEW ha, NEW ra, NEW b, NEW B, NEW hb, NEW rb, NEW e, NEW L, NEW R, NEW K,
         NEW out, NEW f, NEW l, NEW r,
         PartsDrawing(a, A, ha, ra, b, B, hb, rb, e, L, R, K, out, f, l, r), Planar(a, A, ha, ra)
  PROVE  Planar(b, B, hb, rb)
<1>1. /\ HolesWhole(a, A, ha) /\ OneShell(a, A, ha, ra) /\ OneHole(a, A, ha) /\ HasHole(a, A, ha)
      /\ Jordan(a, A, ra)
  BY DEF Planar
<1>2. HolesWhole(b, B, hb)
  BY <1>1, PartedHoles
<1>3. OneShell(b, B, hb, rb)
  BY <1>1, PartedShells
<1>4. OneHole(b, B, hb) /\ HasHole(b, B, hb)
  BY <1>1, PartedOuter
<1>5. /\ Grows(a, A, b, B, e) /\ OneRegion(b, B, rb) /\ Merges(A, ra, rb, f, l, r) /\ Parts(b, e, L, R, K)
      /\ (\A x \in L : rb[x] = l) /\ (\A x \in R : rb[x] = r)
  BY DEF PartsDrawing
<1>6. e \in L /\ -e \in R
  BY <1>5, PartedRings
<1>7. rb[e] = l /\ rb[-e] = r
  BY <1>5, <1>6
<1>8. Jordan(b, B, rb)
  BY <1>1, <1>5, <1>7, PartedCurves
<1>9. Rotates(b, B)
  BY <1>5 DEF Grows
<1> QED BY <1>2, <1>3, <1>4, <1>5, <1>8, <1>9 DEF Planar

\* Drawing one that parts none.
LEMMA BridgePlanar ==
  ASSUME NEW a, NEW A, NEW ha, NEW ra, NEW b, NEW B, NEW hb, NEW rb, NEW e, NEW L,
         Grows(a, A, b, B, e), L = Orbit(Walk(b), e), -e \in L, OneRegion(b, B, rb),
         Extends(A, ra, rb),
         hb = (ha \ L) \cup (IF L \ {e, -e} \subseteq ha THEN L ELSE {}), Planar(a, A, ha, ra)
  PROVE  Planar(b, B, hb, rb)
<1>1. /\ OneRegion(a, A, ra) /\ Jordan(a, A, ra) /\ HolesWhole(a, A, ha)
      /\ OneShell(a, A, ha, ra) /\ OneHole(a, A, ha) /\ HasHole(a, A, ha)
  BY DEF Planar
<1>2. BridgeFound(a, A, b, B, e, L) /\ rb[e] = rb[-e]
  BY <1>1, DrawnBridge
<1>3. PICK T : Bridges(a, A, b, B, e, T, L, L \ {e, -e})
  BY <1>2 DEF BridgeFound
<1> DEFINE K == L \ {e, -e}
<1>4. BridgeDrawing(a, A, ha, ra, b, B, hb, rb, e, T, L, K)
  BY <1>3 DEF BridgeDrawing, Extends
<1> HIDE DEF K
<1>5. HolesWhole(b, B, hb)
  BY <1>1, <1>4, BridgeDrawn
<1>6. OneShell(b, B, hb, rb)
  BY <1>1, <1>4, BridgeShells
<1>7. OneHole(b, B, hb) /\ HasHole(b, B, hb)
  BY <1>1, <1>4, BridgeOuter
<1>8. /\ BridgedRegions(a, A, ra, b, B, rb, e) /\ T \in SUBSET A /\ Closed(a, T)
      /\ b[e] \in T \cup {e} /\ b[-e] \in (A \ T) \cup {-e}
  BY <1>2, <1>3 DEF Bridges, BridgedRegions, Extends
<1>9. Jordan(b, B, rb)
  BY <1>1, <1>8, BridgeCurves
<1>10. Rotates(b, B)
  BY DEF Grows
<1> QED BY <1>5, <1>6, <1>7, <1>9, <1>10 DEF Planar

\* Erasing a curve between two regions.
LEMMA PartsTaken ==
  ASSUME NEW a, NEW A, NEW ha, NEW ra, NEW b, NEW B, NEW hb, NEW rb, NEW e, NEW L, NEW R, NEW K,
         NEW f, NEW l, NEW r, PartsErasing(a, A, ha, ra, b, B, hb, rb, e, L, R, K, f, l, r),
         Planar(b, B, hb, rb)
  PROVE  Planar(a, A, ha, ra)
<1>1. /\ HolesWhole(b, B, hb) /\ OneShell(b, B, hb, rb) /\ OneHole(b, B, hb) /\ HasHole(b, B, hb)
      /\ Jordan(b, B, rb)
  BY DEF Planar
<1>2. HolesWhole(a, A, ha)
  BY <1>1, PartsErased
<1>3. OneShell(a, A, ha, ra)
  BY <1>1, PartsShellsBack
<1>4. OneHole(a, A, ha) /\ HasHole(a, A, ha)
  BY <1>1, PartsOuterBack
<1>5. /\ Grows(a, A, b, B, e) /\ OneRegion(b, B, rb) /\ Merges(A, ra, rb, f, l, r)
      /\ rb[e] = l /\ rb[-e] = r
  BY DEF PartsErasing
<1>6. \A x, y \in A : rb[x] = rb[y] \/ {rb[x], rb[y]} \subseteq {rb[e], rb[-e]} => ra[x] = ra[y]
  <2> TAKE x, y \in A
  <2>1. /\ IF rb[x] \in {l, r} THEN ra[x] = f ELSE ra[x] = rb[x] /\ ra[x] # f
        /\ IF rb[y] \in {l, r} THEN ra[y] = f ELSE ra[y] = rb[y] /\ ra[y] # f
    BY <1>5 DEF Merges
  <2> QED BY <1>5, <2>1
<1>7. OneRegion(a, A, ra)
  BY <1>5, <1>6, RegionsOnceErased
<1>8. Jordan(a, A, ra)
  BY <1>1, <1>5, UnpartedCurves
<1>9. Rotates(a, A)
  BY <1>5 DEF Grows
<1> QED BY <1>2, <1>3, <1>4, <1>7, <1>8, <1>9 DEF Planar

\* Which darts are on outer boundaries once the curve of e is taken out of ring L: L is
\* left in two, of which that becomes one whose piece has none.
HolesWithout(a, A, hb, e, L) ==
  IF e \in hb THEN hb \ {e, -e}
  ELSE hb \cup {x \in L \ {e, -e} : \A y \in hb : ~SamePiece(a, A, x, y)}

\* Erasing one in one region.
LEMMA BridgeTaken ==
  ASSUME NEW a, NEW A, NEW ha, NEW ra, NEW b, NEW B, NEW hb, NEW rb, NEW e, NEW L,
         Grows(a, A, b, B, e), L = Orbit(Walk(b), e), rb[e] = rb[-e],
         Extends(A, ra, rb), ha = HolesWithout(a, A, hb, e, L),
         Planar(b, B, hb, rb)
  PROVE  Planar(a, A, ha, ra)
<1>1. /\ OneRegion(b, B, rb) /\ Jordan(b, B, rb) /\ HolesWhole(b, B, hb)
      /\ OneShell(b, B, hb, rb) /\ OneHole(b, B, hb) /\ HasHole(b, B, hb)
  BY DEF Planar
<1>2. PICK T : Bridges(a, A, b, B, e, T, L, L \ {e, -e})
  BY <1>1, ErasedBridge
<1> DEFINE K == L \ {e, -e}
<1>3. BridgeErasing(a, A, ha, ra, b, B, hb, rb, e, T, L, K)
  BY <1>2 DEF BridgeErasing, Extends, HolesWithout
<1> HIDE DEF K
<1>4. HolesWhole(a, A, ha)
  BY <1>1, <1>3, BridgeErased
<1>5. OneShell(a, A, ha, ra)
  BY <1>1, <1>3, BridgeShellsBack
<1>6. OneHole(a, A, ha) /\ HasHole(a, A, ha)
  BY <1>1, <1>3, BridgeOuterBack
<1>7. \A x, y \in A : rb[x] = rb[y] \/ {rb[x], rb[y]} \subseteq {rb[e], rb[-e]} => ra[x] = ra[y]
  <2> TAKE x, y \in A
  <2>1. rb[x] = ra[x] /\ rb[y] = ra[y]
    BY DEF Extends
  <2> QED BY <2>1
<1>8. OneRegion(a, A, ra)
  BY <1>1, <1>7, RegionsOnceErased
<1>9. Jordan(a, A, ra)
  <2>1. BridgedRegions(a, A, ra, b, B, rb, e)
    BY DEF BridgedRegions, Extends
  <2> QED BY <1>1, <2>1, UnbridgeCurves
<1>10. Rotates(a, A)
  BY DEF Grows
<1> QED BY <1>4, <1>5, <1>6, <1>8, <1>9, <1>10 DEF Planar

\* Cutting a curve, and joining two.
LEMMA DividedPlanar ==
  ASSUME NEW c, NEW D, NEW h, NEW rg, NEW c2, NEW D2, NEW h2, NEW rg2, NEW e, NEW i, NEW j,
         Divides(c, D, c2, D2, e, i, j), DividedMarks(D, h, rg, D2, h2, rg2, e, i, j)
  PROVE  Planar(c, D, h, rg) <=> Planar(c2, D2, h2, rg2)
<1>1. Rotates(c, D) /\ Rotates(c2, D2)
  BY DEF Divides
<1>2. Bounded(c, D, h, rg) <=> Bounded(c2, D2, h2, rg2)
  BY DivideBounds
<1>3. Jordan(c, D, rg) => Jordan(c2, D2, rg2)
  BY CutCurves
<1>4. Jordan(c2, D2, rg2) => Jordan(c, D, rg)
  BY JoinCurves
<1> QED BY <1>1, <1>2, <1>3, <1>4, PlanarParts
===============================================================================
