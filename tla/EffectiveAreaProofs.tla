------------------------- MODULE EffectiveAreaProofs -------------------------
(* The heap of tune_areas and the points it leaves, for every line, number of *)
(* points to keep and threshold.                                              *)
(*                                                                            *)
(* The argument: down and up mend a heap that is out of order at one place;   *)
(* so the point on top is one of least area, and as long as no area was       *)
(* refused, the stored areas are those of the algorithm of Visvalingam.       *)
EXTENDS EffectiveArea, Integers, FiniteSets, FiniteSetTheorems, TLAPS

\* The numbers less than others are well founded.
LEMMA LessWellFounded == IsWellFoundedOn({ss \in Nat \X Nat : ss[1] < ss[2]}, Nat)
BY NatLessThanWellFounded DEF OpToRel

\* A set of numbers has a least one.
LEMMA Least ==
  ASSUME NEW S, S \subseteq Nat, S # {}
  PROVE  \E m \in S : \A k \in S : m <= k
<1> DEFINE R == {ss \in Nat \X Nat : ss[1] < ss[2]}
<1>1. IsWellFoundedOn(R, Nat)
  BY LessWellFounded
<1> HIDE DEF R
<1>2. PICK m \in S : \A k \in S : ~(<<k, m>> \in R)
  BY <1>1, WFMin
<1>3. ASSUME NEW k \in S PROVE m <= k
  <2>1. <<k, m>> \in Nat \X Nat
    OBVIOUS
  <2>2. ~(k < m)
    BY <1>2, <2>1 DEF R
  <2> QED BY <2>2
<1> QED BY <1>3

\* A set that has 0, and with a number below n the next one, has all up to n.
LEMMA UpTo ==
  ASSUME NEW n \in Nat, NEW S, 0 \in S, \A k \in 0..n : k < n /\ k \in S => k + 1 \in S
  PROVE  0..n \subseteq S
<1> SUFFICES ASSUME (0..n) \ S # {} PROVE FALSE
  OBVIOUS
<1> DEFINE L == (0..n) \ S
<1>0. L \subseteq Nat /\ L # {}
  OBVIOUS
<1>1. PICK m \in L : \A k \in L : m <= k
  <2> HIDE DEF L
  <2> QED BY <1>0, Least
<1>2. m - 1 \in 0..n /\ m - 1 < n /\ m - 1 \in S
  BY <1>1
<1>3. (m - 1) + 1 \in S
  BY <1>2
<1> QED BY <1>1, <1>3

\* A set of numbers up to n has a greatest one.
LEMMA Greatest ==
  ASSUME NEW n \in Nat, NEW S, S \subseteq 0..n, S # {}
  PROVE  \E m \in S : \A k \in S : k <= m
<1> DEFINE B == {b \in 0..n : \A k \in S : k <= b}
<1>1. n \in B /\ B \subseteq Nat
  OBVIOUS
<1>2. PICK m \in B : \A b \in B : m <= b
  BY <1>1, Least, Zenon
<1>3. SUFFICES ASSUME m \notin S PROVE FALSE
  BY <1>2
<1>4. \A k \in S : k <= m - 1
  BY <1>2, <1>3
<1>5. m - 1 \in B
  <2>1. PICK k \in S : TRUE
    OBVIOUS
  <2>2. k \in 0..n /\ k <= m - 1
    BY <1>4
  <2> QED BY <1>2, <1>4, <2>2
<1> QED BY <1>2, <1>5

\* f has the value base and then, at each number up to n, G of the value before.
Iterates(f, n, base, G) == f[0] = base /\ \A k \in 1..n : f[k] = G[<<f[k - 1], k>>]

\* Every function of a value and a number can be iterated.
LEMMA Recursion ==
  ASSUME NEW n \in Nat, NEW X, NEW base \in X, NEW G \in [X \X (1..n) -> X]
  PROVE  \E f \in [0..n -> X] : Iterates(f, n, base, G)
<1> DEFINE Runs(f, m) == f[0] = base /\ \A k \in 1..m : f[k] = G[<<f[k - 1], k>>]
<1> DEFINE S == {m \in 0..n : \E f \in [0..m -> X] : Runs(f, m)}
<1>1. 0 \in S
  <2> DEFINE f == [k \in 0..0 |-> base]
  <2>1. f \in [0..0 -> X] /\ Runs(f, 0)
    OBVIOUS
  <2>2. \E h \in [0..0 -> X] : Runs(h, 0)
    BY <2>1
  <2> QED BY <2>2
<1>2. ASSUME NEW m \in 0..n, m < n, m \in S PROVE m + 1 \in S
  <2>1. PICK f \in [0..m -> X] : Runs(f, m)
    BY <1>2
  <2> DEFINE v == G[<<f[m], m + 1>>]
  <2> DEFINE g == [k \in 0..m+1 |-> IF k = m + 1 THEN v ELSE f[k]]
  <2>2. <<f[m], m + 1>> \in X \X (1..n) /\ v \in X
    BY <1>2
  <2> HIDE DEF v
  <2>3. g \in [0..m+1 -> X]
    BY <2>2
  <2>4. ASSUME NEW k \in 1..m+1 PROVE g[k] = G[<<g[k - 1], k>>]
    <3>1. CASE k = m + 1
      <4>1. g[k] = v /\ g[k - 1] = f[m]
        BY <3>1
      <4> QED BY <3>1, <4>1 DEF v
    <3>2. CASE k # m + 1
      <4>1. k \in 1..m /\ k - 1 \in 0..m
        BY <3>2
      <4>2. g[k] = f[k] /\ g[k - 1] = f[k - 1]
        BY <4>1
      <4> QED BY <4>1, <4>2, <2>1
    <3> QED BY <3>1, <3>2
  <2>5. Runs(g, m + 1)
    <3>1. g[0] = base
      BY <2>1
    <3> QED BY <3>1, <2>4
  <2>6. \E h \in [0..m+1 -> X] : Runs(h, m + 1)
    BY <2>3, <2>5
  <2>7. m + 1 \in 0..n
    BY <1>2
  <2> QED BY <2>6, <2>7
<1>3. 0..n \subseteq S
  <2> HIDE DEF S
  <2> QED BY <1>1, <1>2, UpTo
<1>4. n \in S
  BY <1>3
<1> QED BY <1>4 DEF Iterates

-----------------------------------------------------------------------------
(* The heap.                                                                 *)

\* A heap of u points: every point of it knows its place.
Heaps(P, u) == {h \in [tree : [0..u-1 -> P], index : [P -> Nat], area : [P -> Int]] :
                  \A c \in 0..u-1 : h.index[h.tree[c]] = c}

Points(h) == {h.tree[c] : c \in DOMAIN h.tree}

\* No point has less area than the one above.
Ordered(h, u) == \A d \in 1..u-1 : At(h, Parent(d)) <= At(h, d)

\* The same except for the points below place c, or for the point at place c: where they
\* are is not to blame, and moving one level restores the order there.
LowAt(h, u, c)  == /\ \A d \in 1..u-1 : Parent(d) # c => At(h, Parent(d)) <= At(h, d)
                   /\ \A d \in 1..u-1 : Parent(d) = c /\ c > 0 => At(h, Parent(c)) <= At(h, d)
HighAt(h, u, c) == /\ \A d \in 1..u-1 : d # c => At(h, Parent(d)) <= At(h, d)
                   /\ \A d \in 1..u-1 : Parent(d) = c /\ c > 0 => At(h, Parent(c)) <= At(h, d)

\* Places of a heap, and the places below and above.
LEMMA Places ==
  /\ \A d \in Nat : Parent(d) \in Nat /\ (d > 0 => Parent(d) < d) /\ Parent(0) = 0
  /\ \A c, d \in Nat : d > 0 => (Parent(d) = c <=> d = 2 * c + 1 \/ d = 2 * c + 2)
BY DEF Parent

\* A heap has as many points as places.
LEMMA UsedPlaces ==
  ASSUME NEW u \in Nat, NEW P, NEW h \in Heaps(P, u)
  PROVE  Used(h) = u
<1>1. DOMAIN h.tree = 0..u-1
  BY DEF Heaps
<1>2. Cardinality(0..u-1) = u
  BY FS_Interval
<1> QED BY <1>1, <1>2 DEF Used

\* Two points change places.
LEMMA SwappedHeap ==
  ASSUME NEW u \in Nat, NEW P, NEW h \in Heaps(P, u), NEW c \in 0..u-1, NEW d \in 0..u-1
  PROVE  LET g == Swapped(h, c, d)
         IN  /\ g \in Heaps(P, u) /\ g.area = h.area /\ Points(g) = Points(h)
             /\ At(g, c) = At(h, d) /\ At(g, d) = At(h, c)
             /\ \A e \in (0..u-1) \ {c, d} : At(g, e) = At(h, e)
<1> DEFINE g == Swapped(h, c, d)
<1> DEFINE p == h.tree[c]
<1> DEFINE q == h.tree[d]
<1>1. /\ h.tree \in [0..u-1 -> P] /\ h.index \in [P -> Nat] /\ h.area \in [P -> Int]
      /\ \A e \in 0..u-1 : h.index[h.tree[e]] = e
      /\ h = [tree |-> h.tree, index |-> h.index, area |-> h.area]
  BY DEF Heaps
<1>2. p \in P /\ q \in P
  BY <1>1
<1>3. g = [tree  |-> [[h.tree EXCEPT ![c] = q] EXCEPT ![d] = p],
           index |-> [[h.index EXCEPT ![q] = c] EXCEPT ![p] = d],
           area  |-> h.area]
  <2> DEFINE t == [[h.tree EXCEPT ![c] = q] EXCEPT ![d] = p]
  <2> DEFINE x == [[h.index EXCEPT ![q] = c] EXCEPT ![p] = d]
  <2>1. g = [h EXCEPT !.tree = t, !.index = x]
    BY DEF Swapped
  <2> HIDE DEF g, t, x
  <2>2. g = [tree |-> t, index |-> x, area |-> h.area]
    BY <1>1, <2>1
  <2> QED BY <2>2 DEF t, x
<1> HIDE DEF p, q, g
<1>4. /\ g.tree \in [0..u-1 -> P] /\ g.index \in [P -> Nat] /\ g.area = h.area
      /\ g.tree[c] = q /\ g.tree[d] = p /\ \A e \in (0..u-1) \ {c, d} : g.tree[e] = h.tree[e]
      /\ g.index[p] = d /\ (p # q => g.index[q] = c) /\ \A x \in P \ {p, q} : g.index[x] = h.index[x]
      /\ g \in [tree : [0..u-1 -> P], index : [P -> Nat], area : [P -> Int]]
  <2>1. g.tree \in [0..u-1 -> P] /\ g.index \in [P -> Nat] /\ g.area = h.area
    BY <1>1, <1>2, <1>3
  <2>2. g.tree[d] = p /\ (c # d => g.tree[c] = q) /\ \A e \in (0..u-1) \ {c, d} : g.tree[e] = h.tree[e]
    BY <1>1, <1>2, <1>3
  <2>3. c = d => p = q
    BY DEF p, q
  <2>4. g.index[p] = d /\ (p # q => g.index[q] = c) /\ \A x \in P \ {p, q} : g.index[x] = h.index[x]
    BY <1>1, <1>2, <1>3
  <2>5. g \in [tree : [0..u-1 -> P], index : [P -> Nat], area : [P -> Int]]
    BY <1>1, <1>3, <2>1
  <2> QED BY <2>1, <2>2, <2>3, <2>4, <2>5
<1>5. \A e \in 0..u-1 : g.index[g.tree[e]] = e
  <2>1. p = q => c = d
    BY <1>1 DEF p, q
  <2>2. \A e \in (0..u-1) \ {c, d} : h.tree[e] \in P \ {p, q}
    BY <1>1 DEF p, q
  <2>3. c \in 0..u-1 /\ d \in 0..u-1 /\ \A e \in 0..u-1 : h.index[h.tree[e]] = e
    BY <1>1
  <2>4. g.index[g.tree[d]] = d
    BY <1>4
  <2>5. g.index[g.tree[c]] = c
    <3>1. CASE p = q
      BY <1>4, <2>1, <3>1
    <3>2. CASE p # q
      BY <1>4, <3>2
    <3> QED BY <3>1, <3>2
  <2>6. ASSUME NEW e \in (0..u-1) \ {c, d} PROVE g.index[g.tree[e]] = e
    <3>1. g.tree[e] = h.tree[e] /\ h.tree[e] \in P \ {p, q}
      BY <1>4, <2>2
    <3>2. g.index[h.tree[e]] = h.index[h.tree[e]]
      BY <1>4, <3>1
    <3> QED BY <2>3, <3>1, <3>2
  <2> QED BY <2>4, <2>5, <2>6
<1>6. g \in Heaps(P, u)
  BY <1>4, <1>5 DEF Heaps
<1>7. Points(g) = Points(h)
  <2>1. DOMAIN g.tree = 0..u-1 /\ DOMAIN h.tree = 0..u-1
    BY <1>1, <1>4
  <2>2. ASSUME NEW e \in 0..u-1 PROVE g.tree[e] \in Points(h) /\ h.tree[e] \in Points(g)
    <3>1. h.tree[c] = p /\ h.tree[d] = q
      BY DEF p, q
    <3>2. CASE e \in {c, d}
      BY <1>4, <2>1, <3>1, <3>2 DEF Points
    <3>3. CASE e \notin {c, d}
      BY <1>4, <2>1, <3>3 DEF Points
    <3> QED BY <3>2, <3>3
  <2>3. Points(g) \subseteq Points(h)
    BY <2>1, <2>2 DEF Points
  <2>4. Points(h) \subseteq Points(g)
    BY <2>1, <2>2 DEF Points
  <2> QED BY <2>3, <2>4
<1>8. /\ At(g, c) = At(h, d) /\ At(g, d) = At(h, c)
      /\ \A e \in (0..u-1) \ {c, d} : At(g, e) = At(h, e)
  BY <1>4 DEF At, p, q
<1> QED BY <1>4, <1>6, <1>7, <1>8 DEF g

\* down: where to go.
LEMMA BelowPlace ==
  ASSUME NEW u \in Nat, NEW P, NEW h \in Heaps(P, u), NEW c \in Nat
  PROVE  LET d == Below(h, c)
         IN  /\ d = c \/ (d \in 1..u-1 /\ Parent(d) = c /\ d > c /\ c \in 0..u-1)
             /\ c \in 0..u-1 /\ d = c => \A e \in 1..u-1 : Parent(e) = c => At(h, c) <= At(h, e)
             /\ d # c => At(h, d) < At(h, c) /\ \A e \in 1..u-1 : Parent(e) = c => At(h, d) <= At(h, e)
<1> DEFINE left == 2 * c + 1
<1> DEFINE right == 2 * c + 2
<1> DEFINE d == Below(h, c)
<1>1. Used(h) = u
  BY UsedPlaces
<1>2. \A e \in 0..u-1 : At(h, e) \in Int
  BY DEF At, Heaps
<1>3. d = IF right < u /\ At(h, right) < At(h, c) /\ At(h, right) < At(h, left) THEN right
          ELSE IF left < u /\ At(h, c) > At(h, left) THEN left ELSE c
  BY <1>1 DEF Below
<1>4. \A e \in 1..u-1 : Parent(e) = c <=> e = left \/ e = right
  BY Places
<1> HIDE DEF d
<1>5. CASE right < u
  <2>1. left \in 1..u-1 /\ right \in 1..u-1 /\ c \in 0..u-1 /\ left > c /\ right > c
    BY <1>5
  <2> QED BY <1>2, <1>3, <1>4, <1>5, <2>1 DEF d
<1>6. CASE ~ (right < u) /\ left < u
  <2>1. left \in 1..u-1 /\ right \notin 1..u-1 /\ c \in 0..u-1 /\ left > c
    BY <1>6
  <2> QED BY <1>2, <1>3, <1>4, <1>6, <2>1 DEF d
<1>7. CASE ~ (left < u)
  <2>1. d = c /\ left \notin 1..u-1 /\ right \notin 1..u-1
    BY <1>3, <1>7
  <2> QED BY <1>4, <2>1 DEF d
<1> QED BY <1>5, <1>6, <1>7

\* down: a level.
LEMMA DownLevel ==
  ASSUME NEW u \in Nat, NEW P, NEW h \in Heaps(P, u), NEW c \in Nat, LowAt(h, u, c), Below(h, c) # c
  PROVE  LET d == Below(h, c)
             g == Swapped(h, c, d)
         IN  d \in 0..u-1 /\ d > c /\ c \in 0..u-1 /\ LowAt(g, u, d)
<1> DEFINE d == Below(h, c)
<1> DEFINE g == Swapped(h, c, d)
<1>1. /\ d \in 1..u-1 /\ Parent(d) = c /\ d > c /\ c \in 0..u-1
      /\ At(h, d) < At(h, c) /\ \A e \in 1..u-1 : Parent(e) = c => At(h, d) <= At(h, e)
  BY BelowPlace
<1> HIDE DEF d
<1>2. /\ At(g, c) = At(h, d) /\ At(g, d) = At(h, c)
      /\ \A e \in (0..u-1) \ {c, d} : At(g, e) = At(h, e)
  <2>1. c \in 0..u-1 /\ d \in 0..u-1
    BY <1>1
  <2> QED BY <2>1, SwappedHeap
<1> HIDE DEF g
<1>3. \A e \in 0..u-1 : At(h, e) \in Int
  BY DEF At, Heaps
<1>4. \A e \in 1..u-1 : Parent(e) \in 0..u-1 /\ Parent(e) < e
  BY Places
<1>5. ASSUME NEW e \in 1..u-1, Parent(e) # d PROVE At(g, Parent(e)) <= At(g, e)
  <2>1. CASE e = d
    BY <1>1, <1>2, <1>3, <2>1
  <2>2. CASE e # d /\ Parent(e) = c
    <3>1. At(g, e) = At(h, e) /\ At(g, Parent(e)) = At(h, d)
      BY <1>1, <1>2, <1>4, <2>2
    <3> QED BY <1>1, <2>2, <3>1
  <2>3. CASE e = c
    <3>1. At(g, Parent(e)) = At(h, Parent(c)) /\ At(g, e) = At(h, d)
      BY <1>1, <1>2, <1>4, <1>5, <2>3
    <3>2. At(h, Parent(c)) <= At(h, d)
      BY <1>1, <2>3 DEF LowAt
    <3> QED BY <3>1, <3>2
  <2>4. CASE e \notin {c, d} /\ Parent(e) # c
    <3>1. At(g, Parent(e)) = At(h, Parent(e)) /\ At(g, e) = At(h, e)
      BY <1>2, <1>4, <1>5, <2>4
    <3> QED BY <2>4, <3>1 DEF LowAt
  <2> QED BY <2>1, <2>2, <2>3, <2>4
<1>6. ASSUME NEW e \in 1..u-1, Parent(e) = d, d > 0 PROVE At(g, Parent(d)) <= At(g, e)
  <2>1. At(g, Parent(d)) = At(h, d) /\ At(g, e) = At(h, e)
    BY <1>1, <1>2, <1>4, <1>6
  <2>2. At(h, Parent(e)) <= At(h, e)
    BY <1>1, <1>6 DEF LowAt
  <2> QED BY <1>6, <2>1, <2>2
<1> QED BY <1>1, <1>5, <1>6 DEF LowAt, d, g

\* up: a level.
LEMMA UpLevel ==
  ASSUME NEW u \in Nat, NEW P, NEW h \in Heaps(P, u), NEW c \in 0..u-1, HighAt(h, u, c),
         At(h, c) < At(h, Parent(c))
  PROVE  LET p == Parent(c)
             g == Swapped(h, c, p)
         IN  p \in 0..u-1 /\ p < c /\ HighAt(g, u, p)
<1> DEFINE p == Parent(c)
<1> DEFINE g == Swapped(h, c, p)
<1>1. \A e \in 0..u-1 : At(h, e) \in Int
  BY DEF At, Heaps
<1>2. c > 0 /\ p \in 0..u-1 /\ p < c
  <2>1. c = 0 => p = 0
    BY Places
  <2>2. c > 0
    BY <1>1, <2>1
  <2> QED BY <2>2, Places
<1>3. At(h, c) < At(h, p) /\ Parent(c) = p
  OBVIOUS
<1> HIDE DEF p
<1>4. /\ At(g, c) = At(h, p) /\ At(g, p) = At(h, c)
      /\ \A e \in (0..u-1) \ {c, p} : At(g, e) = At(h, e)
  BY <1>2, SwappedHeap
<1> HIDE DEF g
<1>5. \A e \in 1..u-1 : Parent(e) \in 0..u-1 /\ Parent(e) < e
  BY Places
<1>6. ASSUME NEW e \in 1..u-1, Parent(e) = p, e # c PROVE At(h, p) <= At(h, e) /\ At(g, e) = At(h, e)
  BY <1>4, <1>5, <1>6 DEF HighAt
<1>7. ASSUME NEW e \in 1..u-1, e # p PROVE At(g, Parent(e)) <= At(g, e)
  <2>1. CASE e = c
    BY <1>1, <1>2, <1>3, <1>4, <2>1
  <2>2. CASE e # c /\ Parent(e) = p
    <3>1. At(g, Parent(e)) = At(h, c) /\ At(g, e) = At(h, e) /\ At(h, p) <= At(h, e)
      BY <1>4, <1>6, <2>2
    <3> QED BY <1>1, <1>2, <1>3, <3>1
  <2>3. CASE Parent(e) = c
    <3>1. At(g, Parent(e)) = At(h, p) /\ At(g, e) = At(h, e)
      BY <1>4, <1>5, <1>7, <2>3
    <3>2. At(h, Parent(c)) <= At(h, e)
      BY <1>2, <2>3 DEF HighAt
    <3> QED BY <1>3, <3>1, <3>2
  <2>4. CASE e # c /\ Parent(e) \notin {c, p}
    <3>1. At(g, Parent(e)) = At(h, Parent(e)) /\ At(g, e) = At(h, e)
      BY <1>4, <1>5, <1>7, <2>4
    <3> QED BY <2>4, <3>1 DEF HighAt
  <2> QED BY <2>1, <2>2, <2>3, <2>4
<1>8. ASSUME NEW e \in 1..u-1, Parent(e) = p, p > 0 PROVE At(g, Parent(p)) <= At(g, e)
  <2>1. p \in 1..u-1 /\ At(h, Parent(p)) <= At(h, p) /\ Parent(p) \notin {c, p} /\ Parent(p) \in 0..u-1
    BY <1>2, <1>5, <1>8 DEF HighAt
  <2>2. At(g, Parent(p)) = At(h, Parent(p))
    BY <1>4, <2>1
  <2>3. CASE e = c
    BY <1>4, <2>1, <2>2, <2>3
  <2>4. CASE e # c
    BY <1>1, <1>2, <1>6, <1>8, <2>1, <2>2, <2>4
  <2> QED BY <2>3, <2>4
<1> QED BY <1>2, <1>7, <1>8 DEF HighAt, p, g

\* Heaps of the same points with the same areas.
Kin(P, u, h) == {g \in Heaps(P, u) : g.area = h.area /\ Points(g) = Points(h)}

\* Swapped points leave a heap of the same points.
LEMMA KinSwap ==
  ASSUME NEW u \in Nat, NEW P, NEW h, NEW g \in Kin(P, u, h), NEW c \in 0..u-1, NEW d \in 0..u-1
  PROVE  Swapped(g, c, d) \in Kin(P, u, h)
<1>1. g \in Heaps(P, u)
  BY DEF Kin
<1> DEFINE s == Swapped(g, c, d)
<1>2. s \in Heaps(P, u) /\ s.area = g.area /\ Points(s) = Points(g)
  BY <1>1, SwappedHeap
<1> HIDE DEF s
<1>3. s \in Kin(P, u, h)
  BY <1>2 DEF Kin
<1> QED BY <1>3 DEF s

\* The heap and the place after one level of down, and of up.
Sunk(m)  == LET d == Below(m.h, m.c) IN IF d = m.c THEN m ELSE [h |-> Swapped(m.h, m.c, d), c |-> d]
Risen(m) == LET d == Parent(m.c) IN
            IF At(m.h, m.c) < At(m.h, d) THEN [h |-> Swapped(m.h, m.c, d), c |-> d] ELSE m

\* down mends a heap that is out of order below one place.
LEMMA DownMends ==
  ASSUME npoints \in Nat, NEW u \in 0..npoints, NEW P, NEW h \in Heaps(P, u), NEW c \in Nat, LowAt(h, u, c)
  PROVE  down(h, c) \in Kin(P, u, h) /\ Ordered(down(h, c), u)
<1> DEFINE n == npoints
<1> DEFINE X == [h : Kin(P, u, h), c : Nat]
<1> DEFINE m0 == [h |-> h, c |-> c]
<1> DEFINE G == [x \in X \X (1..n) |-> Sunk(x[1])]
<1>1. n \in Nat /\ u \in Nat /\ u <= n /\ m0 \in X
  BY DEF Kin
<1>2. ASSUME NEW m \in X
      PROVE  /\ Sunk(m) \in X
             /\ LowAt(m.h, u, m.c) /\ Below(m.h, m.c) # m.c => LowAt(Sunk(m).h, u, Sunk(m).c) /\ Sunk(m).c > m.c
  <2> DEFINE g == m.h
  <2> DEFINE e == m.c
  <2> DEFINE d == Below(g, e)
  <2>1. g \in Kin(P, u, h) /\ g \in Heaps(P, u) /\ e \in Nat
    BY DEF Kin
  <2>2. CASE d = e
    BY <2>2 DEF Sunk
  <2>3. CASE d # e
    <3>1. Sunk(m) = [h |-> Swapped(g, e, d), c |-> d]
      BY <2>3 DEF Sunk
    <3> HIDE DEF g, e
    <3>2. d \in 1..u-1 /\ e \in 0..u-1
      BY <2>1, <2>3, BelowPlace
    <3>3. LowAt(g, u, e) => d > e /\ LowAt(Swapped(g, e, d), u, d)
      BY <2>1, <2>3, DownLevel
    <3> DEFINE s == Swapped(g, e, d)
    <3> HIDE DEF d
    <3>4. s \in Kin(P, u, h) /\ d \in Nat
      BY <2>1, <3>2, KinSwap
    <3> HIDE DEF s
    <3>5. Sunk(m) \in X /\ Sunk(m).h = s /\ Sunk(m).c = d
      BY <3>1, <3>4 DEF s
    <3> QED BY <3>3, <3>5 DEF s, g, e
  <2> QED BY <2>2, <2>3
<1> HIDE DEF n, X, m0
<1>3. PICK f \in [0..n -> X] : Iterates(f, n, m0, G)
  <2>1. G \in [X \X (1..n) -> X]
    BY <1>2
  <2> HIDE DEF G
  <2> QED BY <1>1, <2>1, Recursion
<1>4. f = [k \in 0..n |-> IF k = 0 THEN m0 ELSE Sunk(f[k - 1])]
  <2>1. ASSUME NEW k \in 1..n PROVE f[k] = Sunk(f[k - 1])
    <3>1. k - 1 \in 0..n /\ f[k - 1] \in X
      BY <1>1
    <3> QED BY <1>3, <3>1 DEF Iterates
  <2> QED BY <1>1, <1>3, <2>1 DEF Iterates
<1> DEFINE move == CHOOSE g : g = [k \in 0..n |-> IF k = 0 THEN m0 ELSE Sunk(g[k - 1])]
<1>5. move = [k \in 0..n |-> IF k = 0 THEN m0 ELSE Sunk(move[k - 1])]
  BY <1>4, Zenon
<1>6. down(h, c) = move[n].h
  BY Zenon DEF down, Sunk, m0, n
<1> HIDE DEF move
<1> DEFINE Done(m) == Below(m.h, m.c) = m.c
<1> DEFINE S == {k \in 0..n : move[k] \in X /\ LowAt(move[k].h, u, move[k].c) /\ (Done(move[k]) \/ move[k].c >= k)}
<1>7. 0 \in S
  <2>1. move[0] = m0 /\ 0 \in 0..n
    BY <1>1, <1>5
  <2> QED BY <1>1, <2>1 DEF m0
<1>8. ASSUME NEW k \in 0..n, k < n, k \in S PROVE k + 1 \in S
  <2> DEFINE m == move[k]
  <2> DEFINE s == move[k + 1]
  <2>1. s = Sunk(m) /\ k + 1 \in 0..n
    BY <1>1, <1>5, <1>8
  <2>2. m \in X /\ LowAt(m.h, u, m.c) /\ (Done(m) \/ m.c >= k)
    BY <1>8
  <2> HIDE DEF m, s
  <2>3. CASE Done(m)
    <3>1. s = m
      BY <2>1, <2>3 DEF Sunk
    <3> QED BY <2>1, <2>2, <2>3, <3>1 DEF s
  <2>4. CASE ~ Done(m)
    <3>1. s \in X /\ LowAt(s.h, u, s.c) /\ s.c > m.c
      BY <1>2, <2>1, <2>2, <2>4
    <3>2. s.c \in Nat /\ m.c \in Nat
      BY <2>2, <3>1 DEF X
    <3>3. s.c >= k + 1
      BY <2>2, <2>4, <3>1, <3>2
    <3> QED BY <2>1, <3>1, <3>3 DEF s
  <2> QED BY <2>3, <2>4
<1>9. n \in S
  <2>1. 0..n \subseteq S
    <3> HIDE DEF S
    <3> QED BY <1>1, <1>7, <1>8, UpTo
  <2> QED BY <1>1, <2>1
<1> DEFINE m == move[n]
<1>10. m \in X /\ LowAt(m.h, u, m.c) /\ (Done(m) \/ m.c >= n)
  BY <1>9
<1> HIDE DEF m
<1>11. m.h \in Kin(P, u, h) /\ m.h \in Heaps(P, u) /\ m.c \in Nat
  BY <1>10 DEF X, Kin
<1>12. Ordered(m.h, u)
  <2>1. SUFFICES ASSUME NEW d \in 1..u-1, Parent(d) = m.c PROVE At(m.h, m.c) <= At(m.h, d)
    BY <1>10 DEF LowAt, Ordered
  <2>2. m.c \in 0..u-1
    BY <1>1, <2>1, Places
  <2>3. Done(m)
    BY <1>1, <1>10, <2>2
  <2> QED BY <1>1, <1>11, <2>1, <2>2, <2>3, BelowPlace
<1> QED BY <1>6, <1>11, <1>12 DEF m

\* up mends a heap in which one point is too low.
LEMMA UpMends ==
  ASSUME npoints \in Nat, NEW u \in 0..npoints, NEW P, NEW h \in Heaps(P, u), NEW c \in 0..u-1, HighAt(h, u, c)
  PROVE  up(h, c) \in Kin(P, u, h) /\ Ordered(up(h, c), u)
<1> DEFINE n == npoints
<1> DEFINE X == [h : Kin(P, u, h), c : 0..u-1]
<1> DEFINE m0 == [h |-> h, c |-> c]
<1> DEFINE G == [x \in X \X (1..n) |-> Risen(x[1])]
<1> DEFINE Done(m) == ~ (At(m.h, m.c) < At(m.h, Parent(m.c)))
<1>1. n \in Nat /\ u \in Nat /\ u <= n /\ c \in Nat /\ c < n /\ m0 \in X
  BY DEF Kin
<1>2. ASSUME NEW m \in X
      PROVE  /\ Risen(m) \in X
             /\ HighAt(m.h, u, m.c) /\ ~ Done(m) => HighAt(Risen(m).h, u, Risen(m).c) /\ Risen(m).c < m.c
  <2> DEFINE g == m.h
  <2> DEFINE e == m.c
  <2> DEFINE d == Parent(e)
  <2>1. g \in Kin(P, u, h) /\ g \in Heaps(P, u) /\ e \in 0..u-1
    BY DEF Kin
  <2>2. CASE Done(m)
    BY <2>2 DEF Risen
  <2>3. CASE ~ Done(m)
    <3>1. Risen(m) = [h |-> Swapped(g, e, d), c |-> d]
      BY <2>3 DEF Risen
    <3>2. At(g, e) < At(g, Parent(e))
      BY <2>3
    <3> HIDE DEF g, e
    <3>3. d \in 0..u-1
      BY <1>1, <2>1, Places
    <3>4. HighAt(g, u, e) => d < e /\ HighAt(Swapped(g, e, d), u, d)
      BY <1>1, <2>1, <3>2, UpLevel
    <3> DEFINE s == Swapped(g, e, d)
    <3> HIDE DEF d
    <3>5. s \in Kin(P, u, h)
      BY <1>1, <2>1, <3>3, KinSwap
    <3> HIDE DEF s
    <3>6. Risen(m) \in X /\ Risen(m).h = s /\ Risen(m).c = d
      BY <3>1, <3>3, <3>5 DEF s
    <3> QED BY <3>4, <3>6 DEF s, g, e
  <2> QED BY <2>2, <2>3
<1> HIDE DEF n, X, m0
<1>3. PICK f \in [0..n -> X] : Iterates(f, n, m0, G)
  <2>1. G \in [X \X (1..n) -> X]
    BY <1>2
  <2> HIDE DEF G
  <2> QED BY <1>1, <2>1, Recursion
<1>4. f = [k \in 0..n |-> IF k = 0 THEN m0 ELSE Risen(f[k - 1])]
  <2>1. ASSUME NEW k \in 1..n PROVE f[k] = Risen(f[k - 1])
    <3>1. k - 1 \in 0..n /\ f[k - 1] \in X
      BY <1>1
    <3> QED BY <1>3, <3>1 DEF Iterates
  <2> QED BY <1>1, <1>3, <2>1 DEF Iterates
<1> DEFINE move == CHOOSE g : g = [k \in 0..n |-> IF k = 0 THEN m0 ELSE Risen(g[k - 1])]
<1>5. move = [k \in 0..n |-> IF k = 0 THEN m0 ELSE Risen(move[k - 1])]
  BY <1>4, Zenon
<1>6. up(h, c) = move[n].h
  BY Zenon DEF up, Risen, m0, n
<1> HIDE DEF move
<1> DEFINE S == {k \in 0..n : move[k] \in X /\ HighAt(move[k].h, u, move[k].c) /\ (Done(move[k]) \/ move[k].c + k <= c)}
<1>7. 0 \in S
  <2>1. move[0] = m0 /\ 0 \in 0..n
    BY <1>1, <1>5
  <2> QED BY <1>1, <2>1 DEF m0
<1> HIDE DEF Done
<1>8. ASSUME NEW k \in 0..n, k < n, k \in S PROVE k + 1 \in S
  <2> DEFINE m == move[k]
  <2> DEFINE s == move[k + 1]
  <2>1. s = Risen(m) /\ k + 1 \in 0..n
    BY <1>1, <1>5, <1>8
  <2>2. m \in X /\ HighAt(m.h, u, m.c) /\ (Done(m) \/ m.c + k <= c)
    BY <1>8
  <2> HIDE DEF m, s
  <2>3. CASE Done(m)
    <3>1. s = m
      BY <2>1, <2>3 DEF Risen, Done
    <3> QED BY <2>1, <2>2, <2>3, <3>1 DEF s
  <2>4. CASE ~ Done(m)
    <3>1. s \in X /\ HighAt(s.h, u, s.c) /\ s.c < m.c
      BY <1>2, <2>1, <2>2, <2>4
    <3>2. s.c \in Nat /\ m.c \in Nat
      BY <1>1, <2>2, <3>1 DEF X
    <3>3. s.c + (k + 1) <= c
      BY <1>1, <2>2, <2>4, <3>1, <3>2
    <3> QED BY <2>1, <3>1, <3>3 DEF s
  <2> QED BY <2>3, <2>4
<1>9. n \in S
  <2>1. 0..n \subseteq S
    <3> HIDE DEF S
    <3> QED BY <1>1, <1>7, <1>8, UpTo
  <2> QED BY <1>1, <2>1
<1> DEFINE m == move[n]
<1>10. m \in X /\ HighAt(m.h, u, m.c) /\ (Done(m) \/ m.c + n <= c)
  BY <1>9
<1> HIDE DEF m
<1>11. m.h \in Kin(P, u, h) /\ m.h \in Heaps(P, u) /\ m.c \in 0..u-1
  BY <1>10 DEF X, Kin
<1>12. Ordered(m.h, u)
  <2>1. Done(m)
    BY <1>1, <1>10, <1>11
  <2>2. m.c \in 0..u-1 /\ Parent(m.c) \in 0..u-1
    <3> DEFINE e == m.c
    <3>1. e \in 0..u-1 /\ e \in Nat
      BY <1>1, <1>11
    <3> HIDE DEF e
    <3>2. Parent(e) \in Nat /\ (e > 0 => Parent(e) < e) /\ Parent(0) = 0
      BY <3>1, Places
    <3>3. Parent(e) \in 0..u-1
      BY <1>1, <3>1, <3>2
    <3> QED BY <3>1, <3>3 DEF e
  <2>3. At(m.h, Parent(m.c)) \in Int /\ At(m.h, m.c) \in Int
    BY <1>11, <2>2 DEF At, Heaps
  <2>4. At(m.h, Parent(m.c)) <= At(m.h, m.c)
    BY <2>1, <2>3 DEF Done
  <2> QED BY <1>10, <2>4 DEF HighAt, Ordered
<1> QED BY <1>6, <1>11, <1>12 DEF m

\* The point on top has least area.
LEMMA TopLeast ==
  ASSUME NEW u \in Nat, NEW P, NEW h \in Heaps(P, u), Ordered(h, u), NEW c \in 0..u-1
  PROVE  At(h, 0) <= At(h, c)
<1>1. \A e \in 0..u-1 : At(h, e) \in Int
  BY DEF At, Heaps
<1> DEFINE B == {e \in 0..u-1 : At(h, e) < At(h, 0)}
<1>2. B = {}
  <2> SUFFICES ASSUME B # {} PROVE FALSE
    OBVIOUS
  <2>1. PICK e \in B : \A x \in B : e <= x
    <3>1. B \subseteq Nat /\ B # {}
      OBVIOUS
    <3> HIDE DEF B
    <3> QED BY <3>1, Least
  <2>2. e \in 1..u-1 /\ At(h, e) < At(h, 0)
    BY <1>1
  <2>3. Parent(e) \in 0..u-1 /\ Parent(e) < e /\ At(h, Parent(e)) <= At(h, e)
    BY <2>2, Places DEF Ordered
  <2>4. Parent(e) \in B
    BY <1>1, <2>2, <2>3
  <2> QED BY <2>1, <2>3, <2>4
<1> QED BY <1>1, <1>2

\* The heaps of these points with these areas, in order.
Mended(P, u, pts, areas) == {h \in Heaps(P, u) : Ordered(h, u) /\ Points(h) = pts /\ h.area = areas}

\* Points of a heap are at different places.
LEMMA Places1To1 ==
  ASSUME NEW u \in Nat, NEW P, NEW h \in Heaps(P, u), NEW c \in 0..u-1, NEW d \in 0..u-1, h.tree[c] = h.tree[d]
  PROVE  c = d
BY DEF Heaps

\* minheap_pop: the point on top is gone.
LEMMA PopGood ==
  ASSUME npoints \in Nat, NEW u \in 1..npoints, NEW P, NEW h \in Heaps(P, u), Ordered(h, u)
  PROVE  minheap_pop(h) \in Mended(P, u - 1, Points(h) \ {h.tree[0]}, h.area)
<1> DEFINE l == h.tree[u - 1]
<1> DEFINE first == [h EXCEPT !.tree[0] = l, !.index[l] = 0]
<1> DEFINE cut == [first EXCEPT !.tree = [c \in 0..u-2 |-> first.tree[c]]]
<1> DEFINE t == [c \in 0..u-2 |-> IF c = 0 THEN l ELSE h.tree[c]]
<1> DEFINE x == [h.index EXCEPT ![l] = 0]
<1>1. /\ h.tree \in [0..u-1 -> P] /\ h.index \in [P -> Nat] /\ h.area \in [P -> Int]
      /\ \A c \in 0..u-1 : h.index[h.tree[c]] = c
      /\ h = [tree |-> h.tree, index |-> h.index, area |-> h.area]
  BY DEF Heaps
<1>2. u \in Nat /\ u - 1 \in 0..npoints /\ u - 1 \in Nat /\ 0 \in 0..u-1 /\ u - 1 \in 0..u-1 /\ l \in P
      /\ 0..(u-1)-1 = 0..u-2 /\ 0..u-2 \subseteq 0..u-1
  BY <1>1
<1>3. minheap_pop(h) = down(cut, 0)
  <2>1. Used(h) = u
    BY <1>2, UsedPlaces
  <2> QED BY <2>1 DEF minheap_pop
<1>4. cut = [tree |-> t, index |-> x, area |-> h.area]
  <2>1. first = [tree |-> [h.tree EXCEPT ![0] = l], index |-> x, area |-> h.area]
    <3> DEFINE t0 == [h.tree EXCEPT ![0] = l]
    <3>1. first = [h EXCEPT !.tree = t0, !.index = x]
      <4> HIDE DEF l
      <4> QED BY <1>1
    <3> HIDE DEF first, t0, x, l
    <3>2. first = [tree |-> t0, index |-> x, area |-> h.area]
      BY <1>1, <3>1
    <3> QED BY <3>2 DEF t0
  <2> HIDE DEF first, x, l
  <2>2. ASSUME NEW c \in 0..u-2 PROVE first.tree[c] = IF c = 0 THEN l ELSE h.tree[c]
    BY <1>1, <1>2, <2>1
  <2>3. [c \in 0..u-2 |-> first.tree[c]] = t
    BY <2>2
  <2>4. cut = [first EXCEPT !.tree = t]
    BY <2>3
  <2>5. first.index = x /\ first.area = h.area /\ first = [tree |-> first.tree, index |-> first.index, area |-> first.area]
    BY <2>1
  <2> HIDE DEF t, cut
  <2> QED BY <2>4, <2>5
<1> HIDE DEF first, cut, l
<1>5. t \in [0..u-2 -> P] /\ x \in [P -> Nat]
  BY <1>1, <1>2
<1>6. \A c \in 0..u-2 : x[t[c]] = c
  <2> TAKE c \in 0..u-2
  <2>1. CASE c = 0
    BY <1>1, <1>2, <2>1
  <2>2. CASE c # 0
    <3>1. t[c] = h.tree[c] /\ h.tree[c] \in P /\ h.index[h.tree[c]] = c
      BY <1>1, <1>2, <2>2
    <3>2. h.tree[c] # l
      BY <1>1, <1>2 DEF l
    <3> QED BY <1>1, <3>1, <3>2
  <2> QED BY <2>1, <2>2
<1>7. /\ cut \in Heaps(P, u - 1) /\ cut.area = h.area /\ cut.tree = t
  <2> HIDE DEF t, x
  <2>1. cut.tree = t /\ cut.index = x /\ cut.area = h.area
    BY <1>4
  <2>2. cut \in [tree : [0..(u-1)-1 -> P], index : [P -> Nat], area : [P -> Int]]
    BY <1>1, <1>2, <1>4, <1>5
  <2> QED BY <1>2, <1>6, <2>1, <2>2 DEF Heaps
<1>8. Points(cut) = Points(h) \ {h.tree[0]}
  <2>1. Points(cut) = {t[c] : c \in 0..u-2} /\ Points(h) = {h.tree[c] : c \in 0..u-1}
    <3>1. DOMAIN t = 0..u-2 /\ DOMAIN h.tree = 0..u-1
      BY <1>1
    <3> HIDE DEF t
    <3> QED BY <1>7, <3>1 DEF Points
  <2>2. ASSUME NEW c \in 0..u-2 PROVE t[c] \in {h.tree[d] : d \in 0..u-1} /\ t[c] # h.tree[0]
    <3>1. CASE c = 0
      <4>1. t[c] = l /\ u - 1 # 0
        BY <3>1
      <4> QED BY <1>1, <1>2, <4>1 DEF l
    <3>2. CASE c # 0
      <4>1. t[c] = h.tree[c] /\ c \in 0..u-1
        BY <3>2
      <4> QED BY <1>1, <1>2, <3>2, <4>1
    <3> QED BY <3>1, <3>2
  <2>3. ASSUME NEW d \in 0..u-1, h.tree[d] # h.tree[0] PROVE h.tree[d] \in {t[c] : c \in 0..u-2}
    <3>1. d > 0
      BY <2>3
    <3>2. CASE d = u - 1
      <4>1. 0 \in 0..u-2 /\ t[0] = h.tree[d]
        BY <3>1, <3>2 DEF l
      <4> QED BY <4>1
    <3>3. CASE d # u - 1
      <4>1. d \in 0..u-2 /\ t[d] = h.tree[d]
        BY <3>1, <3>3
      <4> QED BY <4>1
    <3> QED BY <3>2, <3>3
  <2> HIDE DEF t
  <2> QED BY <2>1, <2>2, <2>3
<1>9. LowAt(cut, u - 1, 0)
  <2>1. ASSUME NEW d \in 1..(u-1)-1, Parent(d) # 0 PROVE At(cut, Parent(d)) <= At(cut, d)
    <3>1. Parent(d) \in 1..u-2 /\ d \in 1..u-2 /\ d \in 1..u-1
      BY <1>2, <2>1, Places
    <3>2. At(cut, Parent(d)) = At(h, Parent(d)) /\ At(cut, d) = At(h, d)
      BY <1>7, <3>1 DEF At
    <3> QED BY <3>1, <3>2 DEF Ordered
  <2> QED BY <2>1 DEF LowAt
<1>10. down(cut, 0) \in Kin(P, u - 1, cut) /\ Ordered(down(cut, 0), u - 1)
  BY <1>2, <1>7, <1>9, DownMends
<1> QED BY <1>3, <1>7, <1>8, <1>10 DEF Kin, Mended

\* minheap_update: the heap is mended, whether the area of the point grew or shrank.
LEMMA UpdateGood ==
  ASSUME npoints \in Nat, NEW u \in 0..npoints, NEW P, NEW pts, NEW areas, NEW h \in Mended(P, u, pts, areas),
         NEW p \in pts, NEW a \in Int
  PROVE  minheap_update(h, p, a) \in Mended(P, u, pts, [areas EXCEPT ![p] = a])
<1> DEFINE new == [h EXCEPT !.area[p] = a]
<1> DEFINE b == [h.area EXCEPT ![p] = a]
<1> DEFINE c == h.index[p]
<1>1. /\ h.tree \in [0..u-1 -> P] /\ h.index \in [P -> Nat] /\ h.area \in [P -> Int]
      /\ \A e \in 0..u-1 : h.index[h.tree[e]] = e
      /\ h = [tree |-> h.tree, index |-> h.index, area |-> h.area]
      /\ h \in Heaps(P, u) /\ Ordered(h, u) /\ Points(h) = pts /\ h.area = areas
  BY DEF Heaps, Mended
<1>2. p \in P /\ c \in 0..u-1 /\ h.tree[c] = p /\ \A e \in (0..u-1) \ {c} : h.tree[e] # p
  <2>1. PICK e \in 0..u-1 : p = h.tree[e]
    BY <1>1 DEF Points
  <2> QED BY <1>1, <2>1
<1>3. new = [tree |-> h.tree, index |-> h.index, area |-> b]
  <2>1. new = [h EXCEPT !.area = b]
    OBVIOUS
  <2> HIDE DEF new, b
  <2> QED BY <1>1, <2>1
<1>4. b \in [P -> Int] /\ b[p] = a /\ \A x \in P \ {p} : b[x] = h.area[x]
  BY <1>1, <1>2
<1> HIDE DEF new, b, c
<1>5. new.tree = h.tree /\ new.index = h.index /\ new.area = b /\ new \in Heaps(P, u) /\ Points(new) = pts
  <2>1. new.tree = h.tree /\ new.index = h.index /\ new.area = b
    BY <1>3
  <2>2. new \in [tree : [0..u-1 -> P], index : [P -> Nat], area : [P -> Int]]
    BY <1>1, <1>3, <1>4
  <2> QED BY <1>1, <2>1, <2>2 DEF Heaps, Points
<1>6. At(new, c) = a /\ \A e \in (0..u-1) \ {c} : At(new, e) = At(h, e)
  <2>1. ASSUME NEW e \in (0..u-1) \ {c} PROVE At(new, e) = At(h, e)
    <3>1. h.tree[e] \in P \ {p}
      BY <1>1, <1>2, <2>1
    <3> QED BY <1>4, <1>5, <3>1 DEF At
  <2>2. At(new, c) = a
    BY <1>2, <1>4, <1>5 DEF At
  <2> QED BY <2>1, <2>2
<1>7. \A e \in 0..u-1 : At(h, e) \in Int /\ At(new, e) \in Int
  BY <1>1, <1>4, <1>5 DEF At
<1>8. \A e \in 1..u-1 : Parent(e) \in 0..u-1 /\ Parent(e) < e /\ At(h, Parent(e)) <= At(h, e)
  BY <1>1, Places DEF Ordered
<1>9. c \in Nat /\ Parent(c) \in 0..u-1 /\ (c = 0 => Parent(c) = 0) /\ (c > 0 => Parent(c) < c)
  <2>1. c \in Nat
    BY <1>2
  <2> QED BY <1>2, <2>1, Places
<1> DEFINE up1 == At(new, c) < At(new, Parent(c))
<1>10. minheap_update(h, p, a) = IF up1 THEN up(new, c) ELSE down(new, c)
  BY DEF minheap_update, new, c
<1> HIDE DEF up1
<1>11. ASSUME up1 PROVE up(new, c) \in Kin(P, u, new) /\ Ordered(up(new, c), u)
  <2>1. c > 0 /\ Parent(c) # c /\ c \in 1..u-1
    BY <1>2, <1>6, <1>7, <1>9, <1>11 DEF up1
  <2>2. a < At(h, Parent(c)) /\ At(h, Parent(c)) <= At(h, c)
    BY <1>6, <1>8, <1>9, <1>11, <2>1 DEF up1
  <2>3. ASSUME NEW d \in 1..u-1, d # c PROVE At(new, Parent(d)) <= At(new, d)
    <3>1. CASE Parent(d) = c
      BY <1>2, <1>6, <1>7, <1>8, <1>9, <2>2, <2>3, <3>1
    <3>2. CASE Parent(d) # c
      BY <1>6, <1>8, <2>3, <3>2
    <3> QED BY <3>1, <3>2
  <2>4. ASSUME NEW d \in 1..u-1, Parent(d) = c PROVE At(new, Parent(c)) <= At(new, d)
    BY <1>2, <1>6, <1>7, <1>8, <1>9, <2>1, <2>4
  <2>5. HighAt(new, u, c)
    BY <2>3, <2>4 DEF HighAt
  <2> QED BY <1>2, <1>5, <2>5, UpMends
<1>12. ASSUME ~ up1 PROVE down(new, c) \in Kin(P, u, new) /\ Ordered(down(new, c), u)
  <2>1. ASSUME NEW d \in 1..u-1, Parent(d) # c PROVE At(new, Parent(d)) <= At(new, d)
    <3>1. CASE d = c
      BY <1>2, <1>7, <1>9, <1>12, <3>1 DEF up1
    <3>2. CASE d # c
      BY <1>6, <1>8, <2>1, <3>2
    <3> QED BY <3>1, <3>2
  <2>2. ASSUME NEW d \in 1..u-1, Parent(d) = c, c > 0 PROVE At(new, Parent(c)) <= At(new, d)
    BY <1>2, <1>6, <1>7, <1>8, <1>9, <2>2
  <2>3. LowAt(new, u, c)
    BY <2>1, <2>2 DEF LowAt
  <2> QED BY <1>2, <1>5, <1>9, <2>3, DownMends
<1>13. \A g \in Kin(P, u, new) : Ordered(g, u) => g \in Mended(P, u, pts, b)
  BY <1>5 DEF Kin, Mended
<1> QED BY <1>1, <1>10, <1>11, <1>12, <1>13 DEF b

\* A heap has as many points as places.
LEMMA HeapSize ==
  ASSUME NEW u \in Nat, NEW P, NEW h \in Heaps(P, u)
  PROVE  Cardinality(Points(h)) = u
<1> DEFINE f == h.tree
<1>1. f \in [0..u-1 -> P] /\ \A c, d \in 0..u-1 : f[c] = f[d] => c = d
  BY Places1To1 DEF Heaps
<1>2. Points(h) = {f[c] : c \in 0..u-1}
  BY <1>1 DEF Points
<1> HIDE DEF f
<1>3. f \in Bijection(0..u-1, Points(h))
  <2>1. f \in [0..u-1 -> Points(h)]
    BY <1>1, <1>2
  <2> QED BY <1>1, <1>2, <2>1 DEF Bijection, Injection, Surjection, IsInjective
<1>4. IsFiniteSet(0..u-1) /\ Cardinality(0..u-1) = u
  BY FS_Interval
<1> QED BY <1>3, <1>4, FS_Bijection DEF ExistsBijection

\* qsort and the references to it: the first heap.
LEMMA FirstHeap ==
  ASSUME NEW n \in Nat, NEW a \in [0..n-1 -> Int],
         NEW k, k = [c \in 0..n-1 |-> CHOOSE p \in 0..n-1 : Sorted(a)[p] = c]
  PROVE  [tree |-> k, index |-> Sorted(a), area |-> a] \in Mended(0..n-1, n, 0..n-1, a)
<1> DEFINE P == 0..n-1
<1> DEFINE less(q, p) == a[q] < a[p] \/ (a[q] = a[p] /\ q < p)
<1> DEFINE T(p) == {q \in P : less(q, p)}
<1> DEFINE s == Sorted(a)
<1>1. s = [p \in P |-> Cardinality(T(p))]
  BY DEF Sorted
<1>2. IsFiniteSet(P) /\ Cardinality(P) = n
  BY FS_Interval
<1>3. ASSUME NEW p \in P PROVE s[p] \in P
  <2>1. T(p) \in SUBSET (P \ {p})
    OBVIOUS
  <2>2. IsFiniteSet(P \ {p}) /\ Cardinality(P \ {p}) = n - 1
    <3>1. p \in P
      OBVIOUS
    <3> HIDE DEF P
    <3> QED BY <1>2, <3>1, FS_RemoveElement
  <2> DEFINE t == T(p)
  <2> DEFINE R == P \ {p}
  <2>3. s[p] = Cardinality(t)
    BY <1>1
  <2> HIDE DEF t, R
  <2>4. IsFiniteSet(t) /\ Cardinality(t) <= n - 1
    BY <2>1, <2>2, FS_Subset DEF t, R
  <2>5. Cardinality(t) \in Nat
    BY <2>4, FS_CardinalityType
  <2> QED BY <2>3, <2>4, <2>5
<1>4. ASSUME NEW p \in P, NEW q \in P, less(p, q) PROVE s[p] < s[q]
  <2>1. T(p) \cup {p} \in SUBSET T(q) /\ p \notin T(p) /\ T(p) \subseteq P /\ T(q) \subseteq P
    BY <1>4
  <2> DEFINE t == T(p)
  <2> DEFINE r == T(q)
  <2>2. s[p] = Cardinality(t) /\ s[q] = Cardinality(r)
    BY <1>1
  <2>3. IsFiniteSet(t) /\ IsFiniteSet(r)
    <3> HIDE DEF t, r
    <3> QED BY <1>2, <2>1, FS_Subset DEF t, r
  <2> HIDE DEF t, r
  <2>4. Cardinality(t \cup {p}) = Cardinality(t) + 1
    BY <2>1, <2>3, FS_AddElement DEF t
  <2>5. Cardinality(t \cup {p}) <= Cardinality(r)
    BY <2>1, <2>3, FS_Subset DEF t, r
  <2>6. Cardinality(t) \in Nat /\ Cardinality(r) \in Nat
    BY <2>3, FS_CardinalityType
  <2> QED BY <2>2, <2>4, <2>5, <2>6
<1>5. \A p, q \in P : less(p, q) \/ less(q, p) \/ p = q
  OBVIOUS
<1> HIDE DEF s, less
<1>6. s \in Injection(P, P)
  <2>1. s \in [P -> P]
    BY <1>1, <1>3
  <2>2. ASSUME NEW p \in P, NEW q \in P, s[p] = s[q] PROVE p = q
    <3>1. s[p] \in P /\ s[q] \in P
      BY <1>3
    <3>2. ~ (s[p] < s[q]) /\ ~ (s[q] < s[p])
      BY <2>2, <3>1
    <3>3. ~ less(p, q) /\ ~ less(q, p)
      BY <1>4, <3>2
    <3> QED BY <1>5, <3>3
  <2> QED BY <2>1, <2>2 DEF Injection, IsInjective
<1>7. s \in Surjection(P, P)
  BY <1>2, <1>6, FS_Injection
<1>8. ASSUME NEW c \in P PROVE k[c] \in P /\ s[k[c]] = c
  <2>1. \E p \in P : s[p] = c
    BY <1>7 DEF Surjection
  <2>2. k[c] = CHOOSE p \in P : s[p] = c
    BY DEF s
  <2> QED BY <2>1, <2>2
<1> DEFINE h == [tree |-> k, index |-> s, area |-> a]
<1>9. h \in Heaps(P, n)
  <2>1. k \in [P -> P] /\ s \in [P -> Nat]
    <3>1. k = [c \in P |-> k[c]] /\ P \subseteq Nat
      OBVIOUS
    <3> QED BY <1>6, <1>8, <3>1 DEF Injection
  <2>2. h.tree = k /\ h.index = s
    OBVIOUS
  <2>3. h \in [tree : [0..n-1 -> P], index : [P -> Nat], area : [P -> Int]]
    BY <2>1
  <2> HIDE DEF h, P
  <2>4. \A c \in 0..n-1 : h.index[h.tree[c]] = c
    BY <1>8, <2>2 DEF P
  <2> QED BY <2>3, <2>4 DEF Heaps
<1>10. Points(h) = P
  <2>1. DOMAIN h.tree = P /\ h.tree = k
    OBVIOUS
  <2> HIDE DEF h
  <2>2. Points(h) = {k[c] : c \in P}
    BY <2>1 DEF Points
  <2>3. ASSUME NEW p \in P PROVE \E c \in P : p = k[c]
    <3>1. s[p] \in P
      BY <1>3
    <3>2. k[s[p]] = p
      <4>1. k[s[p]] \in P /\ s[k[s[p]]] = s[p]
        BY <1>8, <3>1
      <4> QED BY <1>6, <4>1 DEF Injection, IsInjective
    <3> QED BY <3>1, <3>2
  <2>4. \A c \in P : k[c] \in P
    BY <1>8
  <2> HIDE DEF P
  <2>5. P \subseteq Points(h)
    BY <2>2, <2>3
  <2>6. Points(h) \subseteq P
    BY <2>2, <2>4
  <2> QED BY <2>5, <2>6
<1>11. Ordered(h, n)
  <2>1. SUFFICES ASSUME NEW d \in 1..n-1 PROVE At(h, Parent(d)) <= At(h, d)
    BY DEF Ordered
  <2>2. Parent(d) \in P /\ d \in P /\ Parent(d) < d
    BY <2>1, Places
  <2> DEFINE c == Parent(d)
  <2>3. At(h, c) = a[k[c]] /\ At(h, d) = a[k[d]]
    BY DEF At
  <2> HIDE DEF c
  <2>4. k[c] \in P /\ k[d] \in P /\ s[k[c]] = c /\ s[k[d]] = d /\ c < d
    BY <1>8, <2>2 DEF c
  <2>5. ~ less(k[d], k[c])
    <3>1. ~ (s[k[d]] < s[k[c]])
      BY <2>2, <2>4 DEF c
    <3> QED BY <1>4, <2>4, <3>1
  <2>6. a[k[c]] \in Int /\ a[k[d]] \in Int
    BY <2>4
  <2>7. a[k[c]] <= a[k[d]]
    BY <2>5, <2>6 DEF less
  <2> QED BY <2>3, <2>7 DEF c
<1> HIDE DEF P
<1>12. h.area = a
  OBVIOUS
<1> HIDE DEF h
<1>13. h \in Mended(P, n, P, a)
  BY <1>9, <1>10, <1>11, <1>12 DEF Mended
<1> QED BY <1>13 DEF h, P, s

-----------------------------------------------------------------------------
(* The links.                                                                *)

Ends == {0, npoints - 1}

\* The points that are linked.
LiveIn(prv, nxt) == {p \in Point : p = 0 \/ nxt[prv[p]] = p}
Live == LiveIn(prev, next)

\* The links of a point are the next ones on both sides, and end at the ends; those of a
\* point that was passed over never come back.
LinkedTo(L, prv, nxt) ==
  /\ prv[0] = 0 /\ nxt[npoints - 1] = npoints - 1 /\ Ends \subseteq L
  /\ \A p \in L : p > 0 => prv[p] \in L /\ prv[p] < p /\ \A q \in L : q < p => q <= prv[p]
  /\ \A p \in L : p < npoints - 1 => nxt[p] \in L /\ p < nxt[p] /\ \A q \in L : p < q => nxt[p] <= q
  /\ \A q \in Point \ L : q < nxt[prv[q]]
Linked(prv, nxt) == LinkedTo(LiveIn(prv, nxt), prv, nxt)

\* A point between the ends is passed over.
Skipped(prv, nxt, c) ==
  LET prv2 == [prv EXCEPT ![nxt[c]] = prv[c]]  nxt2 == [nxt EXCEPT ![prv[c]] = nxt[c]]
  IN  Linked(prv2, nxt2) /\ LiveIn(prv2, nxt2) = LiveIn(prv, nxt) \ {c}

\* tune_areas, the links of a point between the ends when its turn comes.
LEMMA LinksSkip ==
  ASSUME npoints \in Nat \ {0}, NEW prv \in [Point -> Point], NEW nxt \in [Point -> Point], Linked(prv, nxt),
         NEW c \in LiveIn(prv, nxt) \ Ends
  PROVE  Skipped(prv, nxt, c)
<1> DEFINE prv2 == [prv EXCEPT ![nxt[c]] = prv[c]]
<1> DEFINE nxt2 == [nxt EXCEPT ![prv[c]] = nxt[c]]
<1> DEFINE L == LiveIn(prv, nxt)
<1> DEFINE M == L \ {c}
<1> DEFINE b == prv[c]
<1> DEFINE a == nxt[c]
<1> DEFINE n == npoints
<1>1. /\ n \in Nat \ {0} /\ Point = 0..n-1 /\ Ends = {0, n - 1} /\ L \subseteq Point /\ c \in Point /\ c \in L
      /\ c > 0 /\ c < n - 1 /\ \A p \in L : p > 0 => nxt[prv[p]] = p
  <2>1. n \in Nat \ {0} /\ Point = 0..n-1 /\ Ends = {0, n - 1}
    BY DEF Point, Ends
  <2>2. L \subseteq Point /\ \A p \in L : p # 0 => nxt[prv[p]] = p
    BY DEF LiveIn
  <2> HIDE DEF n, L
  <2>3. c \in L /\ c \in Point /\ c # 0 /\ c # n - 1
    BY <2>1, <2>2 DEF L
  <2>4. c > 0 /\ c < n - 1
    BY <2>1, <2>3
  <2>5. \A p \in L : p > 0 => nxt[prv[p]] = p
    BY <2>1, <2>2
  <2> QED BY <2>1, <2>2, <2>3, <2>4, <2>5, Zenon
<1>2. /\ prv[0] = 0 /\ nxt[n - 1] = n - 1 /\ 0 \in L /\ n - 1 \in L
      /\ \A p \in L : p > 0 => prv[p] \in L /\ prv[p] < p /\ \A q \in L : q < p => q <= prv[p]
      /\ \A p \in L : p < n - 1 => nxt[p] \in L /\ p < nxt[p] /\ \A q \in L : p < q => nxt[p] <= q
      /\ \A q \in Point \ L : q < nxt[prv[q]]
  BY DEF Linked, LinkedTo, Ends
<1> HIDE DEF n, L
<1>3. a \in L /\ b \in L /\ b < c /\ c < a /\ nxt[b] = c /\ a \in Point /\ b \in Point
      /\ (\A q \in L : q < c => q <= b) /\ \A q \in L : c < q => a <= q
  BY <1>1, <1>2
<1> HIDE DEF a, b
<1>4. /\ prv2[a] = b /\ \A p \in Point \ {a} : prv2[p] = prv[p]
      /\ nxt2[b] = a /\ \A p \in Point \ {b} : nxt2[p] = nxt[p]
  BY <1>3 DEF a, b
<1> HIDE DEF prv2, nxt2
<1>5. ASSUME NEW p \in M PROVE /\ p \in Point
                               /\ p # a /\ p > 0 => prv[p] # b
                               /\ p # a /\ p > 0 => prv[p] # c
                               /\ p # b /\ p < n - 1 => nxt[p] # c
  <2>1. p \in Point /\ p \in L /\ p # c
    BY <1>1
  <2>2. ASSUME p # a, p > 0 PROVE prv[p] # b /\ prv[p] # c
    <3>1. nxt[prv[p]] = p
      BY <1>1, <2>1, <2>2
    <3> QED BY <1>3, <2>1, <2>2, <3>1 DEF a
  <2>3. ASSUME p # b, p < n - 1, nxt[p] = c PROVE FALSE
    <3>1. p < c /\ \A q \in L : p < q => c <= q
      BY <1>2, <2>1, <2>3
    <3>2. p <= b
      BY <1>3, <2>1, <3>1
    <3>3. p < b
      BY <1>1, <1>3, <2>1, <2>3, <3>2
    <3> QED BY <1>1, <1>3, <3>1, <3>3
  <2> QED BY <2>1, <2>2, <2>3
<1>6. LiveIn(prv2, nxt2) = M
  <2>1. ASSUME NEW p \in M PROVE p = 0 \/ nxt2[prv2[p]] = p
    <3>1. SUFFICES ASSUME p # 0 PROVE nxt2[prv2[p]] = p
      OBVIOUS
    <3>2. p \in L /\ p \in Point /\ p > 0 /\ nxt[prv[p]] = p /\ prv[p] \in Point
      BY <1>1, <1>2, <1>5, <3>1
    <3>3. CASE p = a
      BY <1>4, <3>3
    <3>4. CASE p # a
      BY <1>4, <1>5, <3>2, <3>4
    <3> QED BY <3>3, <3>4
  <2>2. nxt2[prv2[c]] # c
    <3>1. prv2[c] = b
      BY <1>1, <1>3, <1>4 DEF b
    <3>2. nxt2[prv2[c]] = a
      BY <1>4, <3>1
    <3>3. a \in Int /\ c \in Int /\ c < a
      BY <1>1, <1>3
    <3> QED BY <3>2, <3>3
  <2>3. ASSUME NEW q \in Point \ L PROVE q < nxt2[prv2[q]]
    <3>1. prv2[q] = prv[q] /\ q < nxt[prv[q]] /\ prv[q] \in Point
      BY <1>2, <1>3, <1>4
    <3>2. CASE prv[q] = b
      <4>1. q < c /\ c < a
        BY <1>3, <3>1, <3>2
      <4>2. nxt2[prv2[q]] = a
        BY <1>4, <3>1, <3>2
      <4>3. q \in Int /\ c \in Int /\ a \in Int
        BY <1>1, <1>3
      <4> QED BY <4>1, <4>2, <4>3
    <3>3. CASE prv[q] # b
      BY <1>4, <3>1, <3>3
    <3> QED BY <3>2, <3>3
  <2>4. \A q \in Point : q \notin M => q # 0 /\ nxt2[prv2[q]] # q
    <3> SUFFICES ASSUME NEW q \in Point, q \notin M PROVE q # 0 /\ nxt2[prv2[q]] # q
      OBVIOUS
    <3>1. CASE q = c
      BY <1>1, <2>2, <3>1
    <3>2. CASE q # c
      <4>1. q \in Point \ L /\ q \in Int
        BY <1>1, <3>2
      <4>2. q < nxt2[prv2[q]]
        BY <2>3, <4>1
      <4> QED BY <1>2, <4>1, <4>2
    <3> QED BY <3>1, <3>2
  <2>5. LiveIn(prv2, nxt2) = {p \in Point : p = 0 \/ nxt2[prv2[p]] = p}
    BY DEF LiveIn
  <2> QED BY <1>5, <2>1, <2>4, <2>5
<1>7. prv2[0] = 0 /\ nxt2[n - 1] = n - 1 /\ 0 \in M /\ n - 1 \in M
  <2>1. 0 \in Point \ {a} /\ n - 1 \in Point \ {b}
    BY <1>1, <1>2, <1>3
  <2> QED BY <1>1, <1>2, <1>4, <2>1
<1>8. ASSUME NEW p \in M, p > 0 PROVE prv2[p] \in M /\ prv2[p] < p /\ \A q \in M : q < p => q <= prv2[p]
  <2>1. CASE p = a
    <3>1. \A q \in M : q < a => q <= b
      <4> SUFFICES ASSUME NEW q \in M, q < a PROVE q <= b
        OBVIOUS
      <4>1. q \in L /\ q \in Int /\ q # c /\ c \in Int /\ a \in Int
        BY <1>1, <1>3
      <4>2. ~ (c < q)
        BY <1>3, <4>1
      <4> QED BY <1>3, <4>1, <4>2
    <3>2. b \in M /\ b < a
      BY <1>1, <1>3
    <3> QED BY <1>4, <2>1, <3>1, <3>2
  <2>2. CASE p # a
    <3>1. prv2[p] = prv[p] /\ p \in L
      BY <1>4, <1>5, <2>2
    <3> QED BY <1>2, <1>5, <1>8, <2>2, <3>1
  <2> QED BY <2>1, <2>2
<1>9. ASSUME NEW p \in M, p < n - 1 PROVE nxt2[p] \in M /\ p < nxt2[p] /\ \A q \in M : p < q => nxt2[p] <= q
  <2>1. CASE p = b
    <3>1. \A q \in M : b < q => a <= q
      <4> SUFFICES ASSUME NEW q \in M, b < q PROVE a <= q
        OBVIOUS
      <4>1. q \in L /\ q \in Int /\ q # c /\ c \in Int /\ b \in Int
        BY <1>1, <1>3
      <4>2. ~ (q < c)
        BY <1>3, <4>1
      <4> QED BY <1>3, <4>1, <4>2
    <3>2. a \in M /\ b < a
      BY <1>1, <1>3
    <3> QED BY <1>4, <2>1, <3>1, <3>2
  <2>2. CASE p # b
    <3>1. nxt2[p] = nxt[p] /\ p \in L
      BY <1>4, <1>5, <2>2
    <3> QED BY <1>2, <1>5, <1>9, <2>2, <3>1
  <2> QED BY <2>1, <2>2
<1>10. ASSUME NEW q \in Point \ M PROVE q < nxt2[prv2[q]]
  <2>1. CASE q = c
    <3>1. prv2[c] = b
      BY <1>1, <1>3, <1>4 DEF b
    <3> QED BY <1>3, <1>4, <2>1, <3>1
  <2>2. CASE q # c
    <3>1. q \in Point \ L /\ prv2[q] = prv[q] /\ q < nxt[prv[q]] /\ prv[q] \in Point
      BY <1>2, <1>3, <1>4, <2>2
    <3>2. CASE prv[q] = b
      <4>1. q < c /\ c < a
        BY <1>3, <3>1, <3>2
      <4>2. nxt2[prv2[q]] = a
        BY <1>4, <3>1, <3>2
      <4>3. q \in Int /\ c \in Int /\ a \in Int
        BY <1>1, <1>3
      <4> QED BY <4>1, <4>2, <4>3
    <3>3. CASE prv[q] # b
      BY <1>4, <3>1, <3>3
    <3> QED BY <3>2, <3>3
  <2> QED BY <2>1, <2>2
<1> HIDE DEF M
<1>11. LinkedTo(M, prv2, nxt2)
  BY <1>1, <1>7, <1>8, <1>9, <1>10 DEF LinkedTo, n
<1> QED BY <1>6, <1>11 DEF Linked, M, L, prv2, nxt2, Skipped

\* An end stays linked when its turn comes.
LEMMA LinksStay ==
  ASSUME npoints \in Nat \ {0}, NEW prv \in [Point -> Point], NEW nxt \in [Point -> Point], Linked(prv, nxt),
         NEW c \in Ends
  PROVE  [prv EXCEPT ![nxt[c]] = prv[c]] = prv /\ [nxt EXCEPT ![prv[c]] = nxt[c]] = nxt
<1> DEFINE L == LiveIn(prv, nxt)
<1> DEFINE n == npoints
<1>1. n \in Nat \ {0} /\ Point = 0..n-1 /\ L \subseteq Point /\ c \in {0, n - 1}
      /\ \A p \in L : p > 0 => nxt[prv[p]] = p
  <2>1. n \in Nat \ {0} /\ Point = 0..n-1 /\ Ends = {0, n - 1}
    BY DEF Point, Ends
  <2>2. L \subseteq Point /\ \A p \in L : p # 0 => nxt[prv[p]] = p
    BY DEF LiveIn
  <2> HIDE DEF n, L
  <2>3. \A p \in L : p > 0 => p # 0
    BY <2>1, <2>2
  <2> QED BY <2>1, <2>2, <2>3
<1>2. /\ prv[0] = 0 /\ nxt[n - 1] = n - 1 /\ 0 \in L /\ n - 1 \in L
      /\ \A p \in L : p > 0 => prv[p] \in L /\ prv[p] < p /\ \A q \in L : q < p => q <= prv[p]
      /\ \A p \in L : p < n - 1 => nxt[p] \in L /\ p < nxt[p] /\ \A q \in L : p < q => nxt[p] <= q
  BY DEF Linked, LinkedTo, Ends
<1> HIDE DEF n, L
<1>3. prv[nxt[c]] = prv[c] /\ nxt[prv[c]] = nxt[c]
  <2>1. CASE n = 1
    BY <1>1, <1>2, <2>1
  <2>2. CASE n > 1 /\ c = 0
    <3>1. nxt[0] \in L /\ nxt[0] > 0 /\ nxt[0] \in Point
      BY <1>1, <1>2, <2>2
    <3>2. prv[nxt[0]] \in L /\ prv[nxt[0]] < nxt[0] /\ prv[nxt[0]] \in Point
      BY <1>1, <1>2, <3>1
    <3>3. ~ (0 < prv[nxt[0]])
      BY <1>1, <1>2, <2>2, <3>1, <3>2
    <3> QED BY <1>1, <1>2, <2>2, <3>2, <3>3
  <2>3. CASE n > 1 /\ c = n - 1
    BY <1>1, <1>2, <2>3
  <2> QED BY <1>1, <2>1, <2>2, <2>3
<1> QED BY <1>1, <1>3

-----------------------------------------------------------------------------
(* The inductive invariant.                                                  *)

Heap == [tree |-> key_array, index |-> treeindex, area |-> area]

TypeOK ==
  /\ inpts \in Line /\ avoid_collaps \in Avoid /\ set_area \in BOOLEAN /\ trshld \in Threshold
  /\ area \in [Point -> 0..FLT_MAX] /\ prev \in [Point -> Point] /\ next \in [Point -> Point]
  /\ res_arealist \in [Point -> 0..FLT_MAX]
  /\ i \in 0..npoints /\ check_order_min_area \in 0..FLT_MAX /\ go_on \in BOOLEAN

\* As long as areas are given to points, the stored ones are those of the algorithm.
Weighed ==
  i <= npoints - avoid_collaps =>
    /\ check_order_min_area < FLT_MAX /\ Remaining = Live
    /\ \A p \in Live \ Ends : area[p] < FLT_MAX /\ area[p] = Recalculated(check_order_min_area, prev[p], p, next[p])
    /\ \A q \in Point \ Remaining : res_arealist[q] <= check_order_min_area
    /\ check_order_min_area = 0 \/ \E q \in Point \ Remaining : res_arealist[q] = check_order_min_area

\* Points stay out of the result until an area reaches the threshold; from then on the
\* result does not change, and its triangles are not below.
NoSmallTriangle(K) ==
  \A p \in K \ Ends : \A q, r \in K : /\ q < p /\ p < r
                                      /\ \A k \in K : k <= q \/ k = p \/ r <= k
                                      => triarea2d(inpts, q, p, r) >= trshld
Reached ==
  i <= npoints - avoid_collaps =>
    IF check_order_min_area < trshld THEN Kept = Remaining ELSE NoSmallTriangle(Kept)

Fewest == IF avoid_collaps < npoints THEN avoid_collaps ELSE npoints

IInv ==
  /\ TypeOK
  /\ Heap \in Mended(Point, npoints - i, InHeap, area)
  /\ Linked(prev, next) /\ Live \ Ends \subseteq InHeap /\ InHeap \subseteq Live
  /\ \A p \in Ends : area[p] = FLT_MAX /\ res_arealist[p] = FLT_MAX
  /\ Live \subseteq Remaining
  /\ Cardinality(Remaining) = IF i <= npoints - Fewest THEN npoints - i ELSE Fewest
  /\ Weighed /\ Reached
  /\ IF go_on THEN next[0] # npoints - 1 ELSE next[0] = npoints - 1 \/ check_order_min_area >= trshld

\* The numbers of a line.
LEMMA LineFacts ==
  ASSUME inpts \in Line
  PROVE  /\ npoints \in Nat \ 0..2 /\ DOMAIN inpts = Point /\ Point = 0..npoints-1 /\ FLT_MAX \in Nat
         /\ \A p, q, r \in Point : triarea2d(inpts, p, q, r) \in 0..FLT_MAX /\ triarea2d(inpts, p, q, r) < FLT_MAX
<1>1. /\ npoints \in Nat \ 0..2 /\ DOMAIN inpts = Point /\ Point = 0..npoints-1 /\ FLT_MAX \in Nat
      /\ \A p \in Point : inpts[p] \in Int \X Int
      /\ \A p, q, r \in Point : triarea2d(inpts, p, q, r) < FLT_MAX
  BY EffectiveAreaAssumption DEF npoints, Point
<1>2. ASSUME NEW p \in Point, NEW q \in Point, NEW r \in Point PROVE triarea2d(inpts, p, q, r) \in Nat
  <2>1. /\ inpts[p][1] \in Int /\ inpts[p][2] \in Int /\ inpts[q][1] \in Int /\ inpts[q][2] \in Int
        /\ inpts[r][1] \in Int /\ inpts[r][2] \in Int
    BY <1>1
  <2> DEFINE d == (inpts[p][1] - inpts[q][1]) * (inpts[r][2] - inpts[q][2])
                  - (inpts[p][2] - inpts[q][2]) * (inpts[r][1] - inpts[q][1])
  <2>2. d \in Int
    BY <2>1
  <2>3. triarea2d(inpts, p, q, r) = IF d < 0 THEN -d ELSE d
    BY DEF triarea2d
  <2> HIDE DEF d
  <2> QED BY <2>2, <2>3
<1>3. ASSUME NEW p \in Point, NEW q \in Point, NEW r \in Point PROVE triarea2d(inpts, p, q, r) \in 0..FLT_MAX
  <2> DEFINE d == triarea2d(inpts, p, q, r)
  <2>1. d \in Nat /\ d < FLT_MAX
    BY <1>1, <1>2
  <2> HIDE DEF d
  <2>2. d \in 0..FLT_MAX
    BY <1>1, <2>1
  <2> QED BY <2>2 DEF d
<1> QED BY <1>1, <1>3

\* The greater of two numbers.
LEMMA MaxOfTwo ==
  ASSUME NEW x \in Int, NEW y \in Int
  PROVE  Max({x, y}) = IF x >= y THEN x ELSE y
<1> DEFINE m == IF x >= y THEN x ELSE y
<1>1. m \in {x, y} /\ \A z \in {x, y} : m >= z
  OBVIOUS
<1>2. \A w \in {x, y} : (\A z \in {x, y} : w >= z) => w = m
  OBVIOUS
<1> HIDE DEF m
<1>3. Max({x, y}) = m
  BY <1>1, <1>2, Zenon DEF Max
<1> QED BY <1>3 DEF m

\* The area a neighbour gets.
IsGreater(least, p, q, r) ==
  LET w == Recalculated(least, p, q, r)  t == triarea2d(inpts, p, q, r)
  IN  w \in 0..FLT_MAX /\ w = (IF t >= least THEN t ELSE least) /\ t \in 0..FLT_MAX /\ t < FLT_MAX

\* The area a neighbour gets is that of its triangle, or of the point that goes.
LEMMA NewArea ==
  ASSUME inpts \in Line, NEW least \in 0..FLT_MAX, NEW p \in Point, NEW q \in Point, NEW r \in Point
  PROVE  IsGreater(least, p, q, r)
<1> DEFINE t == triarea2d(inpts, p, q, r)
<1>1. t \in 0..FLT_MAX /\ t < FLT_MAX /\ FLT_MAX \in Nat
  BY LineFacts
<1>2. Recalculated(least, p, q, r) = Max({t, least})
  BY DEF Recalculated
<1> HIDE DEF t
<1>3. Max({t, least}) = IF t >= least THEN t ELSE least
  BY <1>1, MaxOfTwo
<1>4. Max({t, least}) \in 0..FLT_MAX
  BY <1>1, <1>3
<1> QED BY <1>1, <1>2, <1>3, <1>4 DEF t, IsGreater

\* ptarray_calc_areas and the start of tune_areas.
LEMMA InitHolds == Init => IInv
<1> SUFFICES ASSUME Init PROVE IInv
  OBVIOUS
<1> USE DEF Init
<1> DEFINE n == npoints
<1>1. /\ n \in Nat \ 0..2 /\ DOMAIN inpts = Point /\ Point = 0..n-1 /\ FLT_MAX \in Nat /\ FLT_MAX > 0
      /\ \A p, q, r \in Point : triarea2d(inpts, p, q, r) \in 0..FLT_MAX /\ triarea2d(inpts, p, q, r) < FLT_MAX
  <2>1. /\ n \in Nat \ 0..2 /\ DOMAIN inpts = Point /\ Point = 0..n-1 /\ FLT_MAX \in Nat
        /\ \A p, q, r \in Point : triarea2d(inpts, p, q, r) \in 0..FLT_MAX /\ triarea2d(inpts, p, q, r) < FLT_MAX
    BY LineFacts
  <2>2. triarea2d(inpts, 0, 0, 0) \in 0..FLT_MAX /\ triarea2d(inpts, 0, 0, 0) < FLT_MAX
    BY <2>1
  <2> DEFINE d == triarea2d(inpts, 0, 0, 0)
  <2> HIDE DEF d
  <2>3. FLT_MAX > 0
    BY <2>1, <2>2 DEF d
  <2> QED BY <2>1, <2>3
<1>2. /\ avoid_collaps \in Nat /\ trshld \in 0..FLT_MAX
  BY EffectiveAreaAssumption
<1>3. area \in [Point -> 0..FLT_MAX] /\ area[0] = FLT_MAX /\ area[n - 1] = FLT_MAX
      /\ \A p \in Point \ {0, n - 1} : area[p] = triarea2d(inpts, p - 1, p, p + 1)
  <2>1. area = [p \in Point |-> IF p = 0 \/ p = n - 1 THEN FLT_MAX ELSE triarea2d(inpts, p - 1, p, p + 1)]
    BY <1>1 DEF FirstAreas, npoints
  <2> HIDE DEF Init, n
  <2>2. \A p \in Point \ {0, n - 1} : p - 1 \in Point /\ p + 1 \in Point
    BY <1>1
  <2>3. FLT_MAX \in 0..FLT_MAX /\ 0 \in Point /\ n - 1 \in Point
    BY <1>1
  <2> QED BY <1>1, <2>1, <2>2, <2>3
<1>4. /\ prev \in [Point -> Point] /\ next \in [Point -> Point]
      /\ prev[0] = 0 /\ next[n - 1] = n - 1
      /\ \A p \in Point : (p > 0 => prev[p] = p - 1) /\ (p < n - 1 => next[p] = p + 1)
  <2>1. /\ prev = [p \in Point |-> IF p = 0 THEN 0 ELSE p - 1]
        /\ next = [p \in Point |-> IF p = n - 1 THEN p ELSE p + 1]
    OBVIOUS
  <2> HIDE DEF Init, n
  <2>2. ASSUME NEW p \in Point
        PROVE  (p # 0 => p - 1 \in Point) /\ (p # n - 1 => p + 1 \in Point) /\ (p > 0 => p # 0) /\ (p < n - 1 => p # n - 1)
    BY <1>1
  <2>3. 0 \in Point /\ n - 1 \in Point
    BY <1>1
  <2>4. prev \in [Point -> Point] /\ next \in [Point -> Point]
    BY <2>1, <2>2, <2>3
  <2>5. \A p \in Point : (p > 0 => prev[p] = p - 1) /\ (p < n - 1 => next[p] = p + 1)
    BY <2>1, <2>2
  <2> QED BY <2>1, <2>3, <2>4, <2>5
<1>5. TypeOK
  <2>1. /\ i \in 0..n /\ check_order_min_area \in 0..FLT_MAX /\ go_on \in BOOLEAN
        /\ res_arealist \in [Point -> 0..FLT_MAX]
    BY <1>1
  <2> QED BY <1>3, <1>4, <2>1 DEF TypeOK
<1>6. InHeap = Point /\ Heap \in Mended(Point, npoints - i, InHeap, area)
  <2>1. key_array = [c \in 0..n-1 |-> CHOOSE p \in 0..n-1 : Sorted(area)[p] = c] /\ treeindex = Sorted(area)
    BY <1>1
  <2>2. area \in [0..n-1 -> Int] /\ n \in Nat /\ n - i = n
    BY <1>1, <1>3
  <2> HIDE DEF Init, n
  <2>3. Heap \in Mended(0..n-1, n, 0..n-1, area)
    BY <2>1, <2>2, FirstHeap DEF Heap
  <2>4. Points(Heap) = Point
    BY <1>1, <2>3 DEF Mended
  <2>5. InHeap = Points(Heap)
    BY DEF InHeap, Heap, Points
  <2> QED BY <1>1, <2>2, <2>3, <2>4, <2>5 DEF n
<1>7. Live = Point
  <2>1. ASSUME NEW p \in Point, p # 0 PROVE next[prev[p]] = p
    <3>1. prev[p] = p - 1 /\ p - 1 \in Point /\ p - 1 < n - 1
      BY <1>1, <1>4, <2>1
    <3>2. next[p - 1] = (p - 1) + 1
      BY <1>4, <3>1
    <3> QED BY <1>1, <2>1, <3>1, <3>2
  <2> QED BY <2>1 DEF Live, LiveIn
<1>8. Linked(prev, next)
  <2>1. LinkedTo(Point, prev, next)
    <3> HIDE DEF Init
    <3>1. Ends \subseteq Point
      BY <1>1 DEF Ends
    <3>2. ASSUME NEW p \in Point, p > 0 PROVE prev[p] \in Point /\ prev[p] < p /\ \A q \in Point : q < p => q <= prev[p]
      <4>1. prev[p] = p - 1 /\ p \in 0..n-1
        BY <1>1, <1>4, <3>2
      <4> HIDE DEF n
      <4> QED BY <1>1, <3>2, <4>1
    <3>3. ASSUME NEW p \in Point, p < n - 1 PROVE next[p] \in Point /\ p < next[p] /\ \A q \in Point : p < q => next[p] <= q
      <4>1. next[p] = p + 1 /\ p \in 0..n-1
        BY <1>1, <1>4, <3>3
      <4> HIDE DEF n
      <4> QED BY <1>1, <3>3, <4>1
    <3> QED BY <1>4, <3>1, <3>2, <3>3 DEF LinkedTo
  <2> QED BY <1>7, <2>1 DEF Linked, Live
<1>9. \A p \in Ends : area[p] = FLT_MAX /\ res_arealist[p] = FLT_MAX
  <2>1. 0 \in Point /\ n - 1 \in Point
    BY <1>1
  <2> QED BY <1>3, <2>1 DEF Ends
<1>10. Remaining = Point
  BY DEF Remaining
<1>11. Cardinality(Remaining) = IF i <= npoints - Fewest THEN npoints - i ELSE Fewest
  <2>1. Cardinality(Point) = n
    BY <1>1, FS_Interval
  <2>2. Fewest \in Nat /\ Fewest <= n
    BY <1>1, <1>2 DEF Fewest
  <2> QED BY <1>1, <1>10, <2>1, <2>2
<1>12. Weighed
  <2>1. ASSUME NEW p \in Point \ Ends
        PROVE  area[p] < FLT_MAX /\ area[p] = Recalculated(check_order_min_area, prev[p], p, next[p])
    <3>1. p \in Point \ {0, n - 1} /\ p > 0 /\ p < n - 1 /\ p - 1 \in Point /\ p + 1 \in Point
      BY <1>1, <2>1 DEF Ends
    <3>2. prev[p] = p - 1 /\ next[p] = p + 1
      BY <1>4, <3>1
    <3> DEFINE t == triarea2d(inpts, p - 1, p, p + 1)
    <3>3. area[p] = t
      BY <1>3, <3>1
    <3> DEFINE w == Recalculated(0, p - 1, p, p + 1)
    <3>4. w = (IF t >= 0 THEN t ELSE 0) /\ t \in 0..FLT_MAX /\ t < FLT_MAX
      BY <1>1, <3>1, NewArea DEF IsGreater
    <3> HIDE DEF t, w
    <3>5. w = t /\ t < FLT_MAX
      BY <3>4
    <3> QED BY <3>2, <3>3, <3>5 DEF w
  <2> QED BY <1>1, <1>7, <1>10, <2>1 DEF Weighed
<1>13. Reached
  <2>1. Kept = Point
    <3>1. \A p \in Point : res_arealist[p] = FLT_MAX
      OBVIOUS
    <3>2. FLT_MAX >= trshld
      BY <1>1, <1>2
    <3> HIDE DEF Init
    <3> QED BY <3>1, <3>2 DEF Kept
  <2>2. ASSUME ~ (check_order_min_area < trshld) PROVE NoSmallTriangle(Kept)
    <3>1. trshld = 0
      BY <1>1, <1>2, <2>2
    <3>2. \A p, q, r \in Point : triarea2d(inpts, p, q, r) >= 0
      <4> TAKE p, q, r \in Point
      <4>1. triarea2d(inpts, p, q, r) \in 0..FLT_MAX
        BY <1>1
      <4> DEFINE d == triarea2d(inpts, p, q, r)
      <4> HIDE DEF d
      <4> QED BY <4>1 DEF d
    <3> QED BY <2>1, <3>1, <3>2 DEF NoSmallTriangle
  <2> QED BY <1>10, <2>1, <2>2 DEF Reached
<1>14. IF go_on THEN next[0] # npoints - 1 ELSE next[0] = npoints - 1 \/ check_order_min_area >= trshld
  BY <1>1, <1>4
<1> QED BY <1>5, <1>6, <1>7, <1>8, <1>9, <1>10, <1>11, <1>12, <1>13, <1>14 DEF IInv

\* The point on top, its neighbours and the area it gets.
Current == key_array[0]
Before  == prev[Current]
After   == next[Current]
Res     == Effective(area[Current])

\* What is on top of the heap at the start of a turn: there is a point, it is linked, and
\* neighbours that are not ends are in the heap too.
LEMMA TopOfHeap ==
  ASSUME IInv, go_on
  PROVE  /\ i < npoints /\ Heap \in Heaps(Point, npoints - i) /\ Ordered(Heap, npoints - i)
         /\ Points(Heap) = InHeap /\ Current \in InHeap /\ Current \in Live /\ InHeap \subseteq Point
         /\ next[0] \in Live \ Ends
         /\ Before \in Point /\ After \in Point /\ Before <= Current /\ Current <= After
         /\ Before > 0 => Before \in InHeap \ {Current} /\ Before < Current /\ Before \in Live \ Ends
         /\ After < npoints - 1 => After \in InHeap \ {Current} /\ Current < After /\ After \in Live \ Ends
         /\ Current \notin Ends => Before < Current /\ Current < After /\ Before \in Live /\ After \in Live
<1> DEFINE n == npoints
<1> DEFINE u == npoints - i
<1> DEFINE c == Current
<1>1. /\ n \in Nat \ 0..2 /\ Point = 0..n-1 /\ i \in 0..n /\ Ends = {0, n - 1}
      /\ prev \in [Point -> Point] /\ next \in [Point -> Point]
  BY LineFacts DEF IInv, TypeOK, Ends
<1>2. /\ Heap \in Heaps(Point, u) /\ Ordered(Heap, u) /\ Points(Heap) = InHeap
      /\ Live \ Ends \subseteq InHeap /\ InHeap \subseteq Live /\ next[0] # n - 1
  BY DEF IInv, Mended
<1>3. /\ prev[0] = 0 /\ next[n - 1] = n - 1 /\ 0 \in Live /\ n - 1 \in Live
      /\ \A p \in Live : p > 0 => prev[p] \in Live /\ prev[p] < p /\ \A q \in Live : q < p => q <= prev[p]
      /\ \A p \in Live : p < n - 1 => next[p] \in Live /\ p < next[p] /\ \A q \in Live : p < q => next[p] <= q
  BY DEF IInv, Linked, LinkedTo, Ends, Live
<1>4. Live \subseteq Point
  BY DEF Live, LiveIn
<1> HIDE DEF n
<1>5. next[0] \in Live \ Ends
  BY <1>1, <1>2, <1>3
<1>6. u \in Nat /\ u >= 1 /\ i < n
  <2>1. next[0] \in InHeap
    BY <1>2, <1>5
  <2>2. DOMAIN key_array = 0..u-1
    BY <1>2 DEF Heaps, Heap
  <2>3. \E d \in 0..u-1 : TRUE
    BY <2>1, <2>2 DEF InHeap
  <2>4. n \in Int /\ i \in Int /\ u = n - i
    BY <1>1 DEF n
  <2> HIDE DEF u
  <2> QED BY <1>1, <2>3, <2>4
<1>7. c \in InHeap
  <2>1. DOMAIN key_array = 0..u-1
    BY <1>2 DEF Heaps, Heap
  <2>2. 0 \in 0..u-1
    BY <1>6
  <2> QED BY <2>1, <2>2 DEF InHeap, Current
<1>8. c \in Live /\ c \in Point /\ c \in Int /\ InHeap \subseteq Point
  BY <1>1, <1>2, <1>4, <1>7
<1> HIDE DEF c
<1>9. /\ prev[c] \in Point /\ next[c] \in Point
      /\ c > 0 => prev[c] \in Live /\ prev[c] < c
      /\ c < n - 1 => next[c] \in Live /\ c < next[c]
      /\ (c = 0 => prev[c] = 0) /\ (c = n - 1 => next[c] = n - 1)
  BY <1>1, <1>3, <1>8
<1>10. prev[c] \in Int /\ next[c] \in Int /\ 0 <= prev[c] /\ next[c] <= n - 1 /\ 0 <= c /\ c <= n - 1 /\ c \in Int /\ n \in Int
  BY <1>1, <1>8, <1>9
<1>11. prev[c] <= c /\ c <= next[c]
  BY <1>1, <1>9, <1>10
<1>12. prev[c] > 0 => prev[c] \in InHeap \ {c} /\ prev[c] < c /\ prev[c] \in Live \ Ends
  <2>1. SUFFICES ASSUME prev[c] > 0 PROVE prev[c] \in InHeap \ {c} /\ prev[c] < c /\ prev[c] \in Live \ Ends
    OBVIOUS
  <2>2. c > 0 /\ prev[c] \in Live /\ prev[c] < c
    BY <1>9, <1>10, <2>1
  <2>3. prev[c] \notin Ends /\ prev[c] # c
    BY <1>1, <1>10, <2>1, <2>2
  <2> QED BY <1>2, <2>2, <2>3
<1>13. next[c] < n - 1 => next[c] \in InHeap \ {c} /\ c < next[c] /\ next[c] \in Live \ Ends
  <2>1. SUFFICES ASSUME next[c] < n - 1 PROVE next[c] \in InHeap \ {c} /\ c < next[c] /\ next[c] \in Live \ Ends
    OBVIOUS
  <2>2. c < n - 1 /\ next[c] \in Live /\ c < next[c]
    BY <1>9, <1>10, <2>1
  <2>3. next[c] \notin Ends /\ next[c] # c
    BY <1>1, <1>10, <2>1, <2>2
  <2> QED BY <1>2, <2>2, <2>3
<1>14. c \notin Ends => prev[c] < c /\ c < next[c] /\ prev[c] \in Live /\ next[c] \in Live
  BY <1>1, <1>9, <1>10
<1> QED BY <1>2, <1>5, <1>6, <1>7, <1>8, <1>9, <1>11, <1>12, <1>13, <1>14 DEF n, c, Before, After

\* The area the point gets.
LEMMA ResType ==
  ASSUME IInv, go_on
  PROVE  Res \in 0..FLT_MAX /\ (i < npoints - avoid_collaps => Res = area[Current])
                            /\ (~ (i < npoints - avoid_collaps) => Res = FLT_MAX)
<1>1. Current \in Point
  BY TopOfHeap
<1>2. area \in [Point -> 0..FLT_MAX] /\ FLT_MAX \in 0..FLT_MAX
  BY LineFacts DEF IInv, TypeOK
<1> QED BY <1>1, <1>2 DEF Res, Effective

\* A turn leaves the heap in order, without the point that was on top.
LEMMA TurnHeap ==
  ASSUME IInv, Turn
  PROVE  /\ Heap' \in Mended(Point, npoints - (i + 1), InHeap \ {Current}, area')
         /\ InHeap' = InHeap \ {Current}
         /\ area' \in [Point -> 0..FLT_MAX]
         /\ \A p \in Point :
              /\ p = Before /\ Before > 0 => area'[p] = Recalculated(Res, prev[Before], Before, After)
              /\ p = After /\ After < npoints - 1 => area'[p] = Recalculated(Res, Before, After, next[After])
              /\ ~ (p = Before /\ Before > 0) /\ ~ (p = After /\ After < npoints - 1) => area'[p] = area[p]
<1> DEFINE n == npoints
<1> DEFINE c == Current
<1> DEFINE b == Before
<1> DEFINE a == After
<1> DEFINE v == n - (i + 1)
<1> DEFINE pts == InHeap \ {c}
<1> DEFINE wb == Recalculated(Res, prev[b], b, a)
<1> DEFINE wa == Recalculated(Res, b, a, next[a])
<1> DEFINE A1 == IF b > 0 THEN [area EXCEPT ![b] = wb] ELSE area
<1> DEFINE A2 == IF a < n - 1 THEN [A1 EXCEPT ![a] = wa] ELSE A1
<1> DEFINE popped == minheap_pop(Heap)
<1> DEFINE h1 == IF b > 0 THEN minheap_update(popped, b, wb) ELSE popped
<1> DEFINE h2 == IF a < n - 1 THEN minheap_update(h1, a, wa) ELSE h1
<1>1. key_array' = h2.tree /\ treeindex' = h2.index /\ area' = h2.area
  BY DEF Turn, Heap, Current, Before, After, Res
<1>2. /\ i < n /\ Heap \in Heaps(Point, n - i) /\ Ordered(Heap, n - i) /\ Points(Heap) = InHeap
      /\ c \in InHeap /\ c \in Point /\ InHeap \subseteq Point /\ b \in Point /\ a \in Point
      /\ (b > 0 => b \in pts /\ b < c) /\ (a < n - 1 => a \in pts /\ c < a)
  <2>1. go_on
    BY DEF Turn
  <2> QED BY <2>1, TopOfHeap
<1>3. /\ n \in Nat \ 0..2 /\ Point = 0..n-1 /\ i \in 0..n
      /\ prev \in [Point -> Point] /\ next \in [Point -> Point] /\ area \in [Point -> 0..FLT_MAX] /\ FLT_MAX \in Nat
  BY LineFacts DEF IInv, TypeOK
<1>4. wb \in 0..FLT_MAX /\ wa \in 0..FLT_MAX
  <2>1. inpts \in Line /\ Res \in 0..FLT_MAX
    BY ResType DEF IInv, TypeOK, Turn
  <2>2. prev[b] \in Point /\ next[a] \in Point
    BY <1>2, <1>3
  <2> HIDE DEF a, b
  <2> QED BY <1>2, <2>1, <2>2, NewArea DEF IsGreater
<1>5. popped \in Mended(Point, v, pts, area)
  <2>1. n - i \in 1..n /\ (n - i) - 1 = v
    BY <1>2, <1>3
  <2>2. Heap.area = area /\ Heap.tree[0] = c
    BY DEF Heap, Current
  <2> DEFINE u == n - i
  <2> HIDE DEF u, v, popped, c, n
  <2>3. minheap_pop(Heap) \in Mended(Point, u - 1, Points(Heap) \ {Heap.tree[0]}, Heap.area)
    BY <1>2, <1>3, <2>1, PopGood DEF u, n
  <2> QED BY <1>2, <2>1, <2>2, <2>3 DEF u, popped
<1>6. v \in 0..n /\ n \in Nat /\ wa \in Int /\ wb \in Int
  BY <1>2, <1>3, <1>4
<1> HIDE DEF popped, wa, wb, v, pts, a, b, c
<1>7. h1 \in Mended(Point, v, pts, A1)
  <2>1. CASE b > 0
    BY <1>2, <1>5, <1>6, <2>1, UpdateGood
  <2>2. CASE ~ (b > 0)
    BY <1>5, <2>2
  <2> QED BY <2>1, <2>2
<1> HIDE DEF h1, A1
<1>8. h2 \in Mended(Point, v, pts, A2)
  <2>1. CASE a < n - 1
    BY <1>2, <1>6, <1>7, <2>1, UpdateGood
  <2>2. CASE ~ (a < n - 1)
    BY <1>7, <2>2
  <2> QED BY <2>1, <2>2
<1> HIDE DEF h2
<1>9. A1 \in [Point -> 0..FLT_MAX] /\ (b > 0 => A1[b] = wb) /\ \A p \in Point : ~ (p = b /\ b > 0) => A1[p] = area[p]
  BY <1>2, <1>3, <1>4 DEF A1
<1>10. A2 \in [Point -> 0..FLT_MAX] /\ (a < n - 1 => A2[a] = wa) /\ \A p \in Point : ~ (p = a /\ a < n - 1) => A2[p] = A1[p]
  BY <1>2, <1>3, <1>4, <1>9
<1> HIDE DEF A2
<1>11. area' = A2 /\ Heap' = h2 /\ InHeap' = pts
  <2>1. h2 = [tree |-> h2.tree, index |-> h2.index, area |-> h2.area] /\ h2.area = A2 /\ Points(h2) = pts
    BY <1>8 DEF Mended, Heaps
  <2>2. Heap' = [tree |-> key_array', index |-> treeindex', area |-> area']
    BY DEF Heap
  <2>3. InHeap' = {key_array'[d] : d \in DOMAIN key_array'}
    BY DEF InHeap
  <2> QED BY <1>1, <2>1, <2>2, <2>3 DEF Points
<1>12. b > 0 /\ a < n - 1 => b # a
  BY <1>2, <1>3 DEF pts
<1>13. \A p \in Point : /\ p = b /\ b > 0 => A2[p] = wb
                        /\ p = a /\ a < n - 1 => A2[p] = wa
                        /\ ~ (p = b /\ b > 0) /\ ~ (p = a /\ a < n - 1) => A2[p] = area[p]
  BY <1>2, <1>9, <1>10, <1>12
<1> QED BY <1>8, <1>10, <1>11, <1>13 DEF a, b, c, n, v, wa, wb, pts

\* Nothing in the heap has less area than the point on top; and as long as areas are given,
\* that point is not an end, and its area not less than that of the point before.
LEMMA LeastOnTop ==
  ASSUME IInv, go_on
  PROVE  /\ \A p \in InHeap : area[Current] <= area[p]
         /\ i < npoints - avoid_collaps => Current \notin Ends /\ Res < FLT_MAX /\ Res >= check_order_min_area
<1> DEFINE u == npoints - i
<1>1. /\ i < npoints /\ Heap \in Heaps(Point, u) /\ Ordered(Heap, u) /\ Points(Heap) = InHeap
      /\ Current \in InHeap /\ InHeap \subseteq Point /\ next[0] \in Live \ Ends
  BY TopOfHeap
<1>2. npoints \in Nat /\ i \in 0..npoints /\ u \in Nat /\ 0 \in 0..u-1
  <2>1. npoints \in Nat /\ i \in 0..npoints
    BY LineFacts DEF IInv, TypeOK
  <2> QED BY <1>1, <2>1
<1>3. \A p \in InHeap : area[Current] <= area[p]
  <2> TAKE p \in InHeap
  <2>1. PICK d \in 0..u-1 : p = key_array[d]
    BY <1>1 DEF Heaps, Heap, InHeap
  <2> HIDE DEF u
  <2>2. At(Heap, 0) <= At(Heap, d)
    BY <1>1, <1>2, TopLeast
  <2> QED BY <2>1, <2>2 DEF At, Heap, Current
<1>4. ASSUME i < npoints - avoid_collaps
      PROVE  Current \notin Ends /\ Res < FLT_MAX /\ Res >= check_order_min_area
  <2>1. /\ inpts \in Line /\ avoid_collaps \in Nat /\ FLT_MAX \in Nat /\ check_order_min_area \in 0..FLT_MAX
        /\ area \in [Point -> 0..FLT_MAX] /\ prev \in [Point -> Point] /\ next \in [Point -> Point]
    BY EffectiveAreaAssumption DEF IInv, TypeOK
  <2>2. \A p \in Live \ Ends : area[p] < FLT_MAX /\ area[p] = Recalculated(check_order_min_area, prev[p], p, next[p])
    BY <1>2, <1>4, <2>1 DEF IInv, Weighed
  <2>3. next[0] \in InHeap /\ (\A p \in Ends : area[p] = FLT_MAX) /\ InHeap \subseteq Live
    BY <1>1 DEF IInv
  <2>4. area[Current] < FLT_MAX
    <3>1. area[Current] \in Int /\ area[next[0]] \in Int
      BY <1>1, <2>1, <2>3
    <3>2. area[Current] <= area[next[0]] /\ area[next[0]] < FLT_MAX
      BY <1>1, <1>3, <2>2, <2>3
    <3> QED BY <2>1, <3>1, <3>2
  <2>5. Current \notin Ends
    BY <2>1, <2>3, <2>4
  <2>6. Res = area[Current]
    BY <1>4, ResType
  <2> DEFINE c == Current
  <2> DEFINE w == Recalculated(check_order_min_area, prev[c], c, next[c])
  <2> DEFINE t == triarea2d(inpts, prev[c], c, next[c])
  <2>7. c \in Point /\ c \in Live \ Ends /\ prev[c] \in Point /\ next[c] \in Point
    BY <1>1, <2>1, <2>3, <2>5
  <2>8. w = (IF t >= check_order_min_area THEN t ELSE check_order_min_area) /\ t \in 0..FLT_MAX
    BY <2>1, <2>7, NewArea DEF IsGreater
  <2>9. area[c] = w
    BY <2>2, <2>7
  <2> HIDE DEF c, t, w
  <2>10. w >= check_order_min_area
    BY <2>1, <2>8
  <2> QED BY <2>4, <2>5, <2>6, <2>9, <2>10 DEF c
<1> QED BY <1>3, <1>4

\* A turn keeps the links.
LEMMA TurnLinks ==
  ASSUME IInv, Turn
  PROVE  /\ Point' = Point /\ npoints' = npoints /\ prev' \in [Point -> Point] /\ next' \in [Point -> Point]
         /\ Linked(prev, next)'
         /\ Current \in Ends => Live' = Live /\ prev' = prev /\ next' = next
         /\ Current \notin Ends =>
              /\ Live' = Live \ {Current}
              /\ prev'[After] = Before /\ \A p \in Point \ {After} : prev'[p] = prev[p]
              /\ next'[Before] = After /\ \A p \in Point \ {Before} : next'[p] = next[p]
<1>1. /\ npoints \in Nat \ {0} /\ prev \in [Point -> Point] /\ next \in [Point -> Point] /\ Linked(prev, next)
  <2>1. inpts \in Line /\ prev \in [Point -> Point] /\ next \in [Point -> Point] /\ Linked(prev, next)
    BY DEF IInv, TypeOK
  <2>2. npoints \in Nat \ 0..2
    BY <2>1, LineFacts
  <2> QED BY <2>1, <2>2
<1>2. /\ Before \in Point /\ After \in Point /\ Current \in Live
  BY TopOfHeap DEF Turn
<1>3. prev' = [prev EXCEPT ![next[Current]] = prev[Current]] /\ next' = [next EXCEPT ![prev[Current]] = next[Current]]
  BY DEF Turn, Current
<1>4. Point' = Point /\ npoints' = npoints
  BY DEF Turn, call, Point, npoints
<1>5. prev' \in [Point -> Point] /\ next' \in [Point -> Point]
  BY <1>1, <1>2, <1>3 DEF Before, After
<1>6. Linked(prev, next)' <=> Linked(prev', next')
  BY <1>4 DEF Linked, LinkedTo, LiveIn, Ends
<1>7. Live' = LiveIn(prev', next')
  BY <1>4 DEF Live, LiveIn
<1>8. CASE Current \in Ends
  <2>1. prev' = prev /\ next' = next
    BY <1>1, <1>3, <1>8, LinksStay
  <2> QED BY <1>1, <1>4, <1>5, <1>6, <1>7, <1>8, <2>1 DEF Live
<1>9. CASE Current \notin Ends
  <2>1. Current \in LiveIn(prev, next) \ Ends
    BY <1>2, <1>9 DEF Live
  <2>2. Linked(prev', next') /\ LiveIn(prev', next') = LiveIn(prev, next) \ {Current}
    <3>1. Skipped(prev, next, Current)
      BY <1>1, <2>1, LinksSkip
    <3> QED BY <1>3, <3>1 DEF Skipped
  <2>3. /\ prev'[After] = Before /\ \A p \in Point \ {After} : prev'[p] = prev[p]
        /\ next'[Before] = After /\ \A p \in Point \ {Before} : next'[p] = next[p]
    BY <1>1, <1>2, <1>3 DEF Before, After
  <2> QED BY <1>4, <1>5, <1>6, <1>7, <1>9, <2>2, <2>3 DEF Live
<1> QED BY <1>8, <1>9

\* A turn that gives an area eliminates the point; the others eliminate none.
LEMMA TurnResults ==
  ASSUME IInv, Turn
  PROVE  /\ res_arealist' \in [Point -> 0..FLT_MAX] /\ check_order_min_area' = Res /\ i' = i + 1
         /\ Current \in Remaining
         /\ i < npoints - avoid_collaps => Remaining' = Remaining \ {Current} /\ res_arealist'[Current] = Res
         /\ ~ (i < npoints - avoid_collaps) => Remaining' = Remaining
         /\ \A p \in Point \ {Current} : res_arealist'[p] = res_arealist[p]
<1>1. res_arealist' = [res_arealist EXCEPT ![Current] = Res] /\ check_order_min_area' = Res /\ i' = i + 1 /\ Point' = Point
  BY TurnLinks DEF Turn, Res, Current
<1>2. /\ Res \in 0..FLT_MAX /\ res_arealist \in [Point -> 0..FLT_MAX] /\ FLT_MAX \in Nat
      /\ Current \in Point /\ Current \in Remaining
      /\ (~ (i < npoints - avoid_collaps) => Res = FLT_MAX)
      /\ (i < npoints - avoid_collaps => Res < FLT_MAX)
  <2>1. go_on
    BY DEF Turn
  <2> QED BY <2>1, ResType, TopOfHeap, LeastOnTop, LineFacts DEF IInv, TypeOK
<1>3. /\ res_arealist' \in [Point -> 0..FLT_MAX] /\ res_arealist'[Current] = Res
      /\ \A p \in Point \ {Current} : res_arealist'[p] = res_arealist[p]
  BY <1>1, <1>2
<1>4. Remaining' = {p \in Point : res_arealist'[p] = FLT_MAX} /\ Remaining = {p \in Point : res_arealist[p] = FLT_MAX}
  BY <1>1 DEF Remaining
<1>5. ASSUME i < npoints - avoid_collaps PROVE Remaining' = Remaining \ {Current}
  <2>1. Res # FLT_MAX
    BY <1>2, <1>5
  <2> QED BY <1>2, <1>3, <1>4, <2>1
<1>6. ASSUME ~ (i < npoints - avoid_collaps) PROVE Remaining' = Remaining
  BY <1>2, <1>3, <1>4, <1>6
<1> QED BY <1>1, <1>2, <1>3, <1>5, <1>6

\* ... keeps the areas those of the algorithm.
LEMMA TurnWeighed ==
  ASSUME IInv, Turn
  PROVE  Weighed'
<1> SUFFICES ASSUME i' <= npoints' - avoid_collaps'
             PROVE  /\ check_order_min_area' < FLT_MAX /\ Remaining' = Live'
                    /\ \A p \in Live' \ Ends' : /\ area'[p] < FLT_MAX
                                               /\ area'[p] = Recalculated(check_order_min_area, prev[p], p, next[p])'
                    /\ \A q \in Point' \ Remaining' : res_arealist'[q] <= check_order_min_area'
                    /\ \E q \in Point' \ Remaining' : res_arealist'[q] = check_order_min_area'
  BY DEF Weighed
<1>1. /\ go_on /\ npoints' = npoints /\ Point' = Point /\ avoid_collaps' = avoid_collaps /\ inpts' = inpts /\ Ends' = Ends
  BY TurnLinks DEF Turn, call, Ends
<1>2. i < npoints - avoid_collaps /\ i <= npoints - avoid_collaps /\ inpts \in Line
  <2>1. i' = i + 1 /\ i \in Int /\ avoid_collaps \in Int /\ npoints \in Int
    BY TurnResults, LineFacts, EffectiveAreaAssumption DEF IInv, TypeOK
  <2> QED BY <1>1, <2>1 DEF IInv, TypeOK
<1>3. /\ Current \notin Ends /\ Res < FLT_MAX /\ Res >= check_order_min_area /\ Res = area[Current]
      /\ Res \in 0..FLT_MAX /\ check_order_min_area \in 0..FLT_MAX
  BY <1>1, <1>2, LeastOnTop, ResType DEF IInv, TypeOK
<1>4. /\ check_order_min_area' = Res /\ Remaining' = Remaining \ {Current} /\ res_arealist'[Current] = Res
      /\ Current \in Remaining /\ Remaining \subseteq Point /\ res_arealist \in [Point -> 0..FLT_MAX]
      /\ \A p \in Point \ {Current} : res_arealist'[p] = res_arealist[p]
  BY <1>2, TurnResults DEF Remaining, IInv, TypeOK
<1>5. /\ Live' = Live \ {Current}
      /\ prev'[After] = Before /\ \A p \in Point \ {After} : prev'[p] = prev[p]
      /\ next'[Before] = After /\ \A p \in Point \ {Before} : next'[p] = next[p]
  BY <1>3, TurnLinks
<1>6. /\ Remaining = Live
      /\ \A p \in Live \ Ends : area[p] < FLT_MAX /\ area[p] = Recalculated(check_order_min_area, prev[p], p, next[p])
      /\ \A q \in Point \ Remaining : res_arealist[q] <= check_order_min_area
  BY <1>2 DEF IInv, Weighed
<1>7. ASSUME NEW q \in Point \ Remaining' PROVE res_arealist'[q] <= Res
  <2>1. CASE q = Current
    BY <1>3, <1>4, <2>1
  <2>2. CASE q # Current
    <3>1. res_arealist'[q] = res_arealist[q] /\ res_arealist[q] <= check_order_min_area /\ res_arealist[q] \in Int
      BY <1>4, <1>6, <2>2
    <3> QED BY <1>3, <3>1
  <2> QED BY <2>1, <2>2
<1>8. ASSUME NEW p \in Live \ Ends, p # Current
      PROVE  area'[p] < FLT_MAX /\ area'[p] = Recalculated(Res, prev'[p], p, next'[p])
  <2>1. /\ p \in Point /\ Before \in Point /\ After \in Point /\ Before < Current /\ Current < After
        /\ npoints \in Int /\ Before \in Int /\ After \in Int /\ Current \in Int
        /\ prev \in [Point -> Point] /\ next \in [Point -> Point] /\ Point = 0..npoints-1 /\ FLT_MAX \in Nat
        /\ Live \subseteq Point
    <3>1. Live \subseteq Point /\ Current \in Point
      BY <1>4 DEF Live, LiveIn
    <3>2. Before \in Point /\ After \in Point /\ Before < Current /\ Current < After
      BY <1>1, <1>3, TopOfHeap
    <3>3. npoints \in Nat /\ Point = 0..npoints-1 /\ FLT_MAX \in Nat
      BY <1>2, LineFacts
    <3>4. prev \in [Point -> Point] /\ next \in [Point -> Point]
      BY DEF IInv, TypeOK
    <3>5. p \in Point /\ Point \subseteq Int /\ npoints \in Int
      BY <3>1, <3>3
    <3> QED BY <3>1, <3>2, <3>3, <3>4, <3>5
  <2>2. p > 0 /\ p < npoints - 1 /\ Before # After
    BY <1>8, <2>1 DEF Ends
  <2>3. CASE p = Before
    <3>1. area'[p] = Recalculated(Res, prev[p], p, After) /\ prev'[p] = prev[p] /\ next'[p] = After
      BY <1>5, <2>1, <2>2, <2>3, TurnHeap
    <3>2. prev[p] \in Point
      BY <2>1
    <3> DEFINE q == prev[p]
    <3> DEFINE w == Recalculated(Res, q, p, After)
    <3> DEFINE t == triarea2d(inpts, q, p, After)
    <3>3. w = (IF t >= Res THEN t ELSE Res) /\ t < FLT_MAX
      <4> HIDE DEF w, t, q
      <4>1. IsGreater(Res, q, p, After)
        BY <1>2, <1>3, <2>1, <3>2, NewArea DEF q
      <4> QED BY <4>1 DEF IsGreater, w, t
    <3> HIDE DEF w, t
    <3>4. w < FLT_MAX
      BY <1>3, <3>3
    <3> QED BY <3>1, <3>4 DEF w
  <2>4. CASE p = After
    <3>1. area'[p] = Recalculated(Res, Before, p, next[p]) /\ prev'[p] = Before /\ next'[p] = next[p]
      BY <1>5, <2>1, <2>2, <2>4, TurnHeap
    <3>2. next[p] \in Point
      BY <2>1
    <3> DEFINE q == next[p]
    <3> DEFINE w == Recalculated(Res, Before, p, q)
    <3> DEFINE t == triarea2d(inpts, Before, p, q)
    <3>3. w = (IF t >= Res THEN t ELSE Res) /\ t < FLT_MAX
      <4> HIDE DEF w, t, q
      <4>1. IsGreater(Res, Before, p, q)
        BY <1>2, <1>3, <2>1, <3>2, NewArea DEF q
      <4> QED BY <4>1 DEF IsGreater, w, t
    <3> HIDE DEF w, t
    <3>4. w < FLT_MAX
      BY <1>3, <3>3
    <3> QED BY <3>1, <3>4 DEF w
  <2>5. CASE p # Before /\ p # After
    <3>1. area'[p] = area[p] /\ prev'[p] = prev[p] /\ next'[p] = next[p]
      BY <1>5, <2>1, <2>5, TurnHeap
    <3>2. prev[p] \in Point /\ next[p] \in Point
      BY <2>1
    <3> DEFINE q == prev[p]
    <3> DEFINE r == next[p]
    <3> DEFINE w == Recalculated(Res, q, p, r)
    <3> DEFINE x == Recalculated(check_order_min_area, q, p, r)
    <3> DEFINE t == triarea2d(inpts, q, p, r)
    <3>3. /\ w = (IF t >= Res THEN t ELSE Res) /\ t \in 0..FLT_MAX
          /\ x = (IF t >= check_order_min_area THEN t ELSE check_order_min_area)
      <4> HIDE DEF w, x, t, q, r
      <4>1. IsGreater(Res, q, p, r) /\ IsGreater(check_order_min_area, q, p, r)
        BY <1>2, <1>3, <2>1, <3>2, NewArea DEF q, r
      <4> QED BY <4>1 DEF IsGreater, w, x, t
    <3>4. area[p] = x /\ area[p] < FLT_MAX
      BY <1>6, <1>8
    <3>5. Res <= area[p]
      <4>1. p \in InHeap
        BY <1>8 DEF IInv
      <4> QED BY <1>1, <1>3, <4>1, LeastOnTop
    <3> HIDE DEF w, x, t
    <3>6. w = x
      BY <1>3, <3>3, <3>4, <3>5
    <3> QED BY <3>1, <3>4, <3>6 DEF w
  <2> QED BY <2>3, <2>4, <2>5
<1>9. \A p \in Point : Recalculated(check_order_min_area, prev[p], p, next[p])' = Recalculated(Res, prev'[p], p, next'[p])
  BY <1>1, <1>4 DEF Recalculated
<1>10. \A p \in Live' \ Ends' : /\ area'[p] < FLT_MAX
                               /\ area'[p] = Recalculated(check_order_min_area, prev[p], p, next[p])'
  <2>1. Live \subseteq Point
    BY DEF Live, LiveIn
  <2> QED BY <1>1, <1>5, <1>8, <1>9, <2>1
<1>11. \E q \in Point' \ Remaining' : res_arealist'[q] = check_order_min_area'
  BY <1>1, <1>4
<1> QED BY <1>1, <1>3, <1>4, <1>5, <1>6, <1>7, <1>10, <1>11

\* ... and the result is what is linked, until an area reaches the threshold.
LEMMA TurnReached ==
  ASSUME IInv, Turn
  PROVE  Reached'
<1> SUFFICES ASSUME i' <= npoints' - avoid_collaps'
             PROVE  IF check_order_min_area' < trshld' THEN Kept' = Remaining' ELSE NoSmallTriangle(Kept)'
  BY DEF Reached
<1>1. /\ go_on /\ npoints' = npoints /\ Point' = Point /\ avoid_collaps' = avoid_collaps /\ inpts' = inpts /\ Ends' = Ends
      /\ trshld' = trshld
  BY TurnLinks DEF Turn, call, Ends
<1>2. i < npoints - avoid_collaps /\ i <= npoints - avoid_collaps /\ inpts \in Line
  <2>1. i' = i + 1 /\ i \in Int /\ avoid_collaps \in Int /\ npoints \in Int
    BY TurnResults, LineFacts, EffectiveAreaAssumption DEF IInv, TypeOK
  <2> QED BY <1>1, <2>1 DEF IInv, TypeOK
<1>3. /\ Res \in 0..FLT_MAX /\ Res >= check_order_min_area /\ check_order_min_area \in 0..FLT_MAX
      /\ trshld \in 0..FLT_MAX /\ FLT_MAX \in Nat
  BY <1>1, <1>2, LeastOnTop, ResType, EffectiveAreaAssumption DEF IInv, TypeOK
<1>4. /\ check_order_min_area' = Res /\ Remaining' = Remaining \ {Current} /\ res_arealist'[Current] = Res
      /\ Current \in Remaining /\ Current \in Point /\ res_arealist[Current] = FLT_MAX
      /\ \A p \in Point \ {Current} : res_arealist'[p] = res_arealist[p]
  BY <1>2, TurnResults DEF Remaining
<1>5. Kept = {p \in Point : res_arealist[p] >= trshld} /\ Kept' = {p \in Point : res_arealist'[p] >= trshld}
  BY <1>1 DEF Kept
<1>6. Current \in Kept /\ FLT_MAX >= trshld
  <2>1. FLT_MAX >= trshld
    BY <1>3
  <2> QED BY <1>4, <1>5, <2>1
<1>7. NoSmallTriangle(Kept)' <=> NoSmallTriangle(Kept')
  BY <1>1 DEF NoSmallTriangle
<1>8. IF check_order_min_area < trshld THEN Kept = Remaining ELSE NoSmallTriangle(Kept)
  BY <1>2 DEF IInv, Reached
<1>9. CASE Res < trshld
  <2>1. check_order_min_area < trshld
    BY <1>3, <1>9
  <2>2. Kept' = Kept \ {Current}
    <3>1. ~ (Res >= trshld)
      BY <1>3, <1>9
    <3> QED BY <1>4, <1>5, <3>1
  <2> QED BY <1>1, <1>4, <1>8, <1>9, <2>1, <2>2
<1>10. CASE ~ (Res < trshld)
  <2>1. Kept' = Kept
    <3>1. Res >= trshld
      BY <1>3, <1>10
    <3> QED BY <1>4, <1>5, <1>6, <3>1
  <2>2. CASE ~ (check_order_min_area < trshld)
    BY <1>1, <1>4, <1>7, <1>8, <1>10, <2>1, <2>2
  <2>3. CASE check_order_min_area < trshld
    <3>1. Kept = Live /\ Live \subseteq Point
      BY <1>2, <1>8, <2>3 DEF IInv, Weighed, Live, LiveIn
    <3>2. /\ prev \in [Point -> Point] /\ next \in [Point -> Point]
          /\ npoints \in Nat /\ Point = 0..npoints-1 /\ Point \subseteq Int
      <4>1. npoints \in Nat /\ Point = 0..npoints-1
        BY <1>2, LineFacts
      <4>2. prev \in [Point -> Point] /\ next \in [Point -> Point]
        BY DEF IInv, TypeOK
      <4> QED BY <4>1, <4>2
    <3>3. ASSUME NEW p \in Live \ Ends, NEW q \in Live, NEW r \in Live, q < p, p < r,
                 \A k \in Live : k <= q \/ k = p \/ r <= k
          PROVE  triarea2d(inpts, q, p, r) >= trshld
      <4>1. p \in Point /\ p > 0 /\ p < npoints - 1 /\ q \in Int /\ r \in Int /\ p \in Int
        BY <3>1, <3>2, <3>3 DEF Ends
      <4>2. /\ prev[p] \in Live /\ prev[p] < p /\ q <= prev[p]
            /\ next[p] \in Live /\ p < next[p] /\ next[p] <= r
        BY <3>3, <4>1 DEF IInv, Linked, LinkedTo, Live
      <4>3. prev[p] \in Int /\ next[p] \in Int
        BY <3>2, <4>1
      <4>4. prev[p] <= q
        <5>1. prev[p] <= q \/ r <= prev[p]
          BY <3>3, <4>2, <4>3
        <5> QED BY <3>3, <4>1, <4>2, <4>3, <5>1
      <4>5. r <= next[p]
        <5>1. next[p] <= q \/ r <= next[p]
          BY <3>3, <4>2, <4>3
        <5> QED BY <3>3, <4>1, <4>2, <4>3, <5>1
      <4>6. prev[p] = q /\ next[p] = r
        BY <4>1, <4>2, <4>3, <4>4, <4>5
      <4>7. area[p] = Recalculated(check_order_min_area, q, p, r)
        BY <1>2, <3>3, <4>6 DEF IInv, Weighed
      <4>8. IsGreater(check_order_min_area, q, p, r)
        BY <1>2, <1>3, <3>1, <3>3, NewArea
      <4>9. area[Current] <= area[p] /\ Res = area[Current]
        <5>1. p \in InHeap
          BY <3>3 DEF IInv
        <5> QED BY <1>1, <1>2, <5>1, LeastOnTop, ResType
      <4> DEFINE t == triarea2d(inpts, q, p, r)
      <4>10. area[p] = (IF t >= check_order_min_area THEN t ELSE check_order_min_area) /\ t \in 0..FLT_MAX
        BY <4>7, <4>8 DEF IsGreater
      <4> HIDE DEF t
      <4>11. t >= trshld
        BY <1>3, <1>10, <2>3, <4>9, <4>10
      <4> QED BY <4>11 DEF t
    <3>4. NoSmallTriangle(Live)
      BY <3>3 DEF NoSmallTriangle
    <3> QED BY <1>1, <1>4, <1>7, <1>10, <2>1, <3>1, <3>4
  <2> QED BY <2>2, <2>3
<1> QED BY <1>9, <1>10

\* A turn keeps the invariant.
LEMMA TurnHolds ==
  ASSUME IInv, Turn
  PROVE  IInv'
<1>1. /\ go_on /\ npoints' = npoints /\ Point' = Point /\ Ends' = Ends
      /\ inpts' = inpts /\ avoid_collaps' = avoid_collaps /\ set_area' = set_area /\ trshld' = trshld
  BY TurnLinks DEF Turn, call, Ends
<1>2. /\ res_arealist' \in [Point -> 0..FLT_MAX] /\ check_order_min_area' = Res /\ i' = i + 1
      /\ Current \in Remaining
      /\ i < npoints - avoid_collaps => Remaining' = Remaining \ {Current}
      /\ ~ (i < npoints - avoid_collaps) => Remaining' = Remaining
      /\ \A p \in Point \ {Current} : res_arealist'[p] = res_arealist[p]
  BY TurnResults
<1>3. /\ i < npoints /\ Current \in InHeap /\ InHeap \subseteq Point
      /\ (Before > 0 => Before \notin Ends) /\ (After < npoints - 1 => After \notin Ends)
  BY <1>1, TopOfHeap
<1>4. /\ npoints \in Nat \ 0..2 /\ Point = 0..npoints-1 /\ i \in 0..npoints /\ avoid_collaps \in Nat /\ FLT_MAX \in Nat
      /\ Res \in 0..FLT_MAX /\ trshld \in 0..FLT_MAX
  BY <1>1, ResType, LineFacts, EffectiveAreaAssumption DEF IInv, TypeOK
<1>5. TypeOK'
  <2>1. i' \in 0..npoints
    BY <1>2, <1>3, <1>4
  <2>2. go_on' \in BOOLEAN
    BY DEF Turn
  <2>3. area' \in [Point -> 0..FLT_MAX] /\ prev' \in [Point -> Point] /\ next' \in [Point -> Point]
    BY TurnHeap, TurnLinks
  <2> QED BY <1>1, <1>2, <1>4, <2>1, <2>2, <2>3 DEF TypeOK, IInv
<1>6. (Heap \in Mended(Point, npoints - i, InHeap, area))'
  <2>1. Heap' \in Mended(Point, npoints - (i + 1), InHeap', area')
    BY TurnHeap
  <2>2. Heap' \in Mended(Point', npoints' - i', InHeap', area')
    BY <1>1, <1>2, <2>1
  <2>3. Ordered(Heap, npoints - i)' <=> Ordered(Heap', npoints' - i')
    BY DEF Ordered, At
  <2> QED BY <2>2, <2>3 DEF Mended, Heaps, Points, Ordered, At
<1>7. Linked(prev, next)'
  BY TurnLinks
<1>8. Live' \ Ends' \subseteq InHeap' /\ InHeap' \subseteq Live'
  <2>1. Live \ Ends \subseteq InHeap /\ InHeap \subseteq Live /\ InHeap' = InHeap \ {Current}
    BY TurnHeap DEF IInv
  <2>2. Live' = IF Current \in Ends THEN Live ELSE Live \ {Current}
    BY TurnLinks
  <2> QED BY <1>1, <2>1, <2>2
<1>9. \A p \in Ends' : area'[p] = FLT_MAX /\ res_arealist'[p] = FLT_MAX
  <2> SUFFICES ASSUME NEW p \in Ends PROVE area'[p] = FLT_MAX /\ res_arealist'[p] = FLT_MAX
    BY <1>1
  <2>1. p \in Point /\ area[p] = FLT_MAX /\ res_arealist[p] = FLT_MAX
    BY <1>4 DEF Ends, IInv
  <2>2. area'[p] = area[p]
    BY <1>3, <2>1, TurnHeap
  <2>3. res_arealist'[p] = FLT_MAX
    <3>1. CASE p # Current
      BY <1>2, <2>1, <3>1
    <3>2. CASE p = Current
      <4>1. ~ (i < npoints - avoid_collaps)
        BY <1>1, <3>2, LeastOnTop
      <4>2. p \in Remaining'
        BY <1>2, <3>2, <4>1
      <4> QED BY <4>2 DEF Remaining
    <3> QED BY <3>1, <3>2
  <2> QED BY <2>1, <2>2, <2>3
<1>10. Live' \subseteq Remaining'
  <2>1. Live \subseteq Remaining /\ Live' = IF Current \in Ends THEN Live ELSE Live \ {Current}
    BY TurnLinks DEF IInv
  <2>2. i < npoints - avoid_collaps => Current \notin Ends
    BY <1>1, LeastOnTop
  <2> QED BY <1>2, <2>1, <2>2
<1>11. (Cardinality(Remaining) = IF i <= npoints - Fewest THEN npoints - i ELSE Fewest)'
  <2>1. Cardinality(Remaining) = IF i <= npoints - Fewest THEN npoints - i ELSE Fewest
    BY DEF IInv
  <2>2. Fewest' = Fewest /\ Fewest = IF avoid_collaps < npoints THEN avoid_collaps ELSE npoints
    BY <1>1 DEF Fewest
  <2>3. IsFiniteSet(Remaining)
    <3>1. IsFiniteSet(Point) /\ Remaining \in SUBSET Point
      BY <1>4, FS_Interval DEF Remaining
    <3> QED BY <3>1, FS_Subset
  <2> DEFINE R == Remaining
  <2> DEFINE F == Fewest
  <2>4. CASE i < npoints - avoid_collaps
    <3>1. Cardinality(R \ {Current}) = Cardinality(R) - 1
      <4> HIDE DEF R
      <4> QED BY <1>2, <2>3, FS_RemoveElement DEF R
    <3>2. F = avoid_collaps /\ i <= npoints - F /\ i + 1 <= npoints - F
      BY <1>4, <2>2, <2>4
    <3>3. Cardinality(Remaining') = npoints - (i + 1)
      <4>1. Cardinality(R) = npoints - i
        BY <2>1, <3>2
      <4>2. Remaining' = R \ {Current}
        BY <1>2, <2>4
      <4>3. Cardinality(Remaining') = (npoints - i) - 1
        BY <3>1, <4>1, <4>2
      <4> QED BY <1>4, <4>3
    <3> QED BY <1>1, <1>2, <2>2, <3>2, <3>3
  <2>5. CASE ~ (i < npoints - avoid_collaps)
    <3>1. F \in Int /\ ~ (i + 1 <= npoints - F) /\ npoints - i <= F
      BY <1>4, <2>2, <2>5
    <3>2. Cardinality(R) = F
      BY <1>4, <2>1, <3>1
    <3> QED BY <1>1, <1>2, <2>2, <2>5, <3>1, <3>2
  <2> QED BY <2>4, <2>5
<1>12. Weighed' /\ Reached'
  BY TurnWeighed, TurnReached
<1>13. (IF go_on THEN next[0] # npoints - 1 ELSE next[0] = npoints - 1 \/ check_order_min_area >= trshld)'
  <2>1. go_on' = ~ (EndsEarly(Res) \/ next'[0] = npoints - 1)
    BY DEF Turn, Res, Current
  <2> QED BY <1>1, <1>2, <2>1 DEF EndsEarly
<1> QED BY <1>5, <1>6, <1>7, <1>8, <1>9, <1>10, <1>11, <1>12, <1>13 DEF IInv

\* The invariant is inductive.
LEMMA Inductive == Spec => []IInv
<1>1. IInv /\ [Turn]_vars => IInv'
  <2> SUFFICES ASSUME IInv, [Turn]_vars PROVE IInv'
    OBVIOUS
  <2>1. CASE Turn
    BY <2>1, TurnHolds
  <2>2. CASE UNCHANGED vars
    <3>1. /\ inpts' = inpts /\ avoid_collaps' = avoid_collaps /\ set_area' = set_area /\ trshld' = trshld
          /\ area' = area /\ prev' = prev /\ next' = next /\ treeindex' = treeindex /\ key_array' = key_array
          /\ res_arealist' = res_arealist /\ i' = i /\ check_order_min_area' = check_order_min_area /\ go_on' = go_on
      BY <2>2 DEF vars, call
    <3>2. npoints' = npoints /\ Point' = Point /\ Ends' = Ends /\ Heap' = Heap /\ InHeap' = InHeap
      BY <3>1 DEF npoints, Point, Ends, Heap, InHeap
    <3>3. Live' = Live /\ Remaining' = Remaining /\ Kept' = Kept /\ Fewest' = Fewest
      BY <3>1, <3>2 DEF Live, LiveIn, Remaining, Kept, Fewest
    <3>4. TypeOK' <=> TypeOK
      BY <3>1, <3>2 DEF TypeOK
    <3>5. Linked(prev, next)' <=> Linked(prev, next)
      BY <3>1, <3>2 DEF Linked, LinkedTo, LiveIn
    <3>6. Weighed' <=> Weighed
      BY <3>1, <3>2, <3>3 DEF Weighed, Recalculated
    <3>7. Reached' <=> Reached
      BY <3>1, <3>2, <3>3 DEF Reached, NoSmallTriangle
    <3>8. (Heap \in Mended(Point, npoints - i, InHeap, area))' <=> Heap \in Mended(Point, npoints - i, InHeap, area)
      BY <3>1, <3>2 DEF Mended, Heaps, Ordered, At, Points
    <3> QED BY <3>1, <3>2, <3>3, <3>4, <3>5, <3>6, <3>7, <3>8 DEF IInv
  <2> QED BY <2>1, <2>2
<1> QED BY InitHolds, <1>1, PTL DEF Spec

-----------------------------------------------------------------------------
(* The properties.                                                           *)

\* The heap gives the points in the order tune_areas relies on, and the error of a wrong
\* order is never raised.
THEOREM HeapCorrect == Spec => []HeapSound
<1>1. IInv => HeapSound
  <2> SUFFICES ASSUME IInv PROVE HeapSound
    OBVIOUS
  <2> DEFINE u == npoints - i
  <2>1. /\ npoints \in Nat \ 0..2 /\ Point = 0..npoints-1 /\ i \in 0..npoints /\ avoid_collaps \in Nat /\ FLT_MAX \in Nat
        /\ check_order_min_area \in 0..FLT_MAX /\ inpts \in Line
        /\ area \in [Point -> 0..FLT_MAX] /\ prev \in [Point -> Point] /\ next \in [Point -> Point]
    BY LineFacts, EffectiveAreaAssumption DEF IInv, TypeOK
  <2>2. /\ Heap \in Heaps(Point, u) /\ Ordered(Heap, u) /\ Points(Heap) = InHeap /\ u \in Nat
        /\ Live \ Ends \subseteq InHeap /\ InHeap \subseteq Live /\ Live \subseteq Point
    BY <2>1 DEF IInv, Mended, Live, LiveIn
  <2>3. /\ DOMAIN key_array = 0..u-1 /\ \A c \in 0..u-1 : treeindex[key_array[c]] = c /\ key_array[c] \in Point
    BY <2>2 DEF Heaps, Heap
  <2>4. ASSUME NEW c \in 0..u-1 PROVE area[key_array[Parent(c)]] <= area[key_array[c]]
    <3>1. CASE c = 0
      <4>1. Parent(c) = c
        BY <3>1, Places
      <4>2. key_array[c] \in Point
        BY <2>3
      <4>3. area[key_array[c]] \in Int
        <5>1. area \in [Point -> Int]
          BY <2>1
        <5> HIDE DEF u
        <5> QED BY <4>2, <5>1
      <4> QED BY <4>1, <4>3
    <3>2. CASE c # 0
      <4>1. c \in 1..u-1
        BY <2>2, <3>2
      <4>2. At(Heap, Parent(c)) <= At(Heap, c)
        BY <2>2, <4>1 DEF Ordered
      <4> QED BY <4>2 DEF At, Heap
    <3> QED BY <3>1, <3>2
  <2>5. Cardinality(InHeap) = u
    BY <2>2, HeapSize
  <2>6. {p \in Point : next[prev[p]] = p /\ p > 0} \ {npoints - 1} \subseteq InHeap
    <3>1. ASSUME NEW p \in Point, next[prev[p]] = p, p > 0, p # npoints - 1 PROVE p \in Live \ Ends
      BY <2>1, <3>1 DEF Live, LiveIn, Ends
    <3> QED BY <2>2, <3>1
  <2>7. HeapOrdered
    <3>1. u - 1 = npoints - i - 1
      BY <2>1
    <3> QED BY <2>3, <2>4, <2>5, <2>6, <3>1 DEF HeapOrdered
  <2>8. NoneBelowLast
    <3> SUFFICES ASSUME NEW p \in InHeap PROVE Effective(area[p]) >= check_order_min_area
      BY DEF NoneBelowLast
    <3>1. CASE ~ (i < npoints - avoid_collaps)
      BY <2>1, <3>1 DEF Effective
    <3>2. CASE i < npoints - avoid_collaps
      <4>1. Effective(area[p]) = area[p] /\ i <= npoints - avoid_collaps /\ p \in Live /\ p \in Point
        BY <2>1, <2>2, <3>2 DEF Effective
      <4>2. CASE p \in Ends
        BY <2>1, <4>1, <4>2 DEF IInv
      <4>3. CASE p \notin Ends
        <5> DEFINE w == Recalculated(check_order_min_area, prev[p], p, next[p])
        <5>1. area[p] = w
          BY <4>1, <4>3 DEF IInv, Weighed
        <5>2. IsGreater(check_order_min_area, prev[p], p, next[p])
          <6>1. prev[p] \in Point /\ next[p] \in Point
            BY <2>1, <4>1
          <6> QED BY <2>1, <4>1, <6>1, NewArea
        <5> DEFINE t == triarea2d(inpts, prev[p], p, next[p])
        <5>3. w = (IF t >= check_order_min_area THEN t ELSE check_order_min_area) /\ t \in 0..FLT_MAX
          BY <5>2 DEF IsGreater
        <5> HIDE DEF w, t
        <5> QED BY <2>1, <4>1, <5>1, <5>3
      <4> QED BY <4>2, <4>3
    <3> QED BY <3>1, <3>2
  <2> QED BY <2>7, <2>8 DEF HeapSound
<1> QED BY <1>1, Inductive, PTL

\* The result keeps the ends, and as many points as tune_areas was told to.
THEOREM LineCorrect == Spec => []LineKept
<1>1. IInv => LineKept
  <2> SUFFICES ASSUME IInv PROVE LineKept
    OBVIOUS
  <2>1. /\ npoints \in Nat \ 0..2 /\ Point = 0..npoints-1 /\ i \in 0..npoints /\ avoid_collaps \in Nat /\ FLT_MAX \in Nat
        /\ trshld \in 0..FLT_MAX /\ res_arealist \in [Point -> 0..FLT_MAX]
    BY LineFacts, EffectiveAreaAssumption DEF IInv, TypeOK
  <2>2. Remaining \subseteq Kept /\ Kept \subseteq Point
    <3>1. FLT_MAX >= trshld
      BY <2>1
    <3> QED BY <3>1 DEF Remaining, Kept
  <2>3. {0, npoints - 1} \subseteq Kept
    <3>1. 0 \in Point /\ npoints - 1 \in Point
      BY <2>1
    <3>2. {0, npoints - 1} \subseteq Remaining
      BY <3>1 DEF IInv, Remaining, Ends
    <3> QED BY <2>2, <3>2
  <2>4. Cardinality(Kept) >= Cardinality(Remaining) /\ Cardinality(Kept) \in Nat
    <3>1. IsFiniteSet(Point)
      BY <2>1, FS_Interval
    <3>2. IsFiniteSet(Kept)
      BY <2>2, <3>1, FS_Subset
    <3>3. Cardinality(Remaining) <= Cardinality(Kept) /\ IsFiniteSet(Remaining)
      BY <2>2, <3>2, FS_Subset
    <3>4. Cardinality(Kept) \in Nat /\ Cardinality(Remaining) \in Nat
      BY <3>2, <3>3, FS_CardinalityType
    <3> QED BY <3>3, <3>4
  <2>5. Cardinality(Remaining) >= Fewest /\ Cardinality(Remaining) \in Int /\ Fewest \in Nat
    <3>1. Fewest \in Nat /\ Fewest <= npoints
      BY <2>1 DEF Fewest
    <3> QED BY <2>1, <3>1 DEF IInv
  <2>6. Min({avoid_collaps, npoints}) = Fewest
    <3>1. Fewest \in {avoid_collaps, npoints} /\ \A x \in {avoid_collaps, npoints} : Fewest <= x
      BY <2>1 DEF Fewest
    <3>2. \A y \in {avoid_collaps, npoints} : (\A x \in {avoid_collaps, npoints} : y <= x) => y = Fewest
      BY <2>1, <3>1
    <3> QED BY <3>1, <3>2, Zenon DEF Min
  <2> QED BY <2>3, <2>4, <2>5, <2>6 DEF LineKept
<1> QED BY <1>1, Inductive, PTL

\* The greatest and the least of some points.
LEMMA Extremes ==
  ASSUME npoints \in Nat, NEW S, S \subseteq Point, S # {}
  PROVE  /\ Max(S) \in S /\ \A k \in S : k <= Max(S)
         /\ Min(S) \in S /\ \A k \in S : Min(S) <= k
<1>1. S \subseteq Nat /\ S \subseteq 0..npoints
  BY DEF Point
<1>2. \E m \in S : \A k \in S : k <= m
  BY <1>1, Greatest
<1>3. \E m \in S : \A k \in S : m <= k
  BY <1>1, Least
<1>4. Max(S) \in S /\ \A k \in S : Max(S) >= k
  <2>1. \E m \in S : \A k \in S : m >= k
    BY <1>1, <1>2
  <2> QED BY <2>1, Zenon DEF Max
<1>5. Min(S) \in S /\ \A k \in S : Min(S) <= k
  BY <1>3, Zenon DEF Min
<1> QED BY <1>1, <1>4, <1>5

\* When the loop ends, early or not, no point is left that should have gone.
THEOREM ResultCorrect == Spec => []NothingSmallLeft
<1>1. IInv => NothingSmallLeft
  <2> SUFFICES ASSUME IInv, ~ go_on, ~ (Cardinality(Remaining) <= avoid_collaps), NEW p \in Kept \ {0, npoints - 1}
               PROVE  triarea2d(inpts, Max({q \in Kept : q < p}), p, Min({q \in Kept : p < q})) >= trshld
    BY DEF NothingSmallLeft
  <2>1. /\ npoints \in Nat \ 0..2 /\ Point = 0..npoints-1 /\ i \in 0..npoints /\ avoid_collaps \in Nat /\ FLT_MAX \in Nat
        /\ trshld \in 0..FLT_MAX /\ check_order_min_area \in 0..FLT_MAX /\ Kept \subseteq Point
    BY LineFacts, EffectiveAreaAssumption DEF IInv, TypeOK, Kept
  <2>2. i <= npoints - avoid_collaps
    <3>1. Cardinality(Remaining) = IF i <= npoints - Fewest THEN npoints - i ELSE Fewest
      BY DEF IInv
    <3>2. Fewest \in Nat /\ Fewest <= avoid_collaps
      BY <2>1 DEF Fewest
    <3>3. i <= npoints - Fewest /\ ~ (npoints - i <= avoid_collaps)
      BY <3>1, <3>2
    <3> QED BY <2>1, <3>3
  <2>3. ~ (check_order_min_area < trshld)
    <3> SUFFICES ASSUME check_order_min_area < trshld PROVE FALSE
      OBVIOUS
    <3>1. Kept = Live
      BY <2>2 DEF IInv, Reached, Weighed
    <3>2. next[0] = npoints - 1
      BY <2>1 DEF IInv
    <3>3. 0 \in Live /\ p \in Live /\ 0 < p /\ p < npoints - 1 /\ 0 < npoints - 1
      BY <2>1, <3>1 DEF IInv, Linked, LinkedTo, Live, Ends
    <3>4. next[0] <= p
      BY <3>3 DEF IInv, Linked, LinkedTo, Live
    <3> QED BY <2>1, <3>2, <3>3, <3>4
  <2>4. NoSmallTriangle(Kept)
    BY <2>2, <2>3 DEF IInv, Reached
  <2> DEFINE B == {q \in Kept : q < p}
  <2> DEFINE A == {q \in Kept : p < q}
  <2>5. 0 \in B /\ npoints - 1 \in A
    <3>1. {0, npoints - 1} \subseteq Kept
      <4>1. 0 \in Point /\ npoints - 1 \in Point /\ FLT_MAX >= trshld
        BY <2>1
      <4> QED BY <4>1 DEF IInv, Ends, Kept
    <3> QED BY <2>1, <3>1
  <2>6. /\ Max(B) \in B /\ (\A k \in B : k <= Max(B))
        /\ Min(A) \in A /\ (\A k \in A : Min(A) <= k)
    <3>1. A \subseteq Point /\ B \subseteq Point /\ A # {} /\ B # {}
      BY <2>1, <2>5
    <3> HIDE DEF A, B
    <3> QED BY <2>1, <3>1, Extremes
  <2> DEFINE b == Max(B)
  <2> DEFINE a == Min(A)
  <2> HIDE DEF a, b
  <2>7. b \in Kept /\ b < p /\ a \in Kept /\ p < a
    BY <2>6 DEF a, b
  <2>8. ASSUME NEW k \in Kept PROVE k <= b \/ k = p \/ a <= k
    <3>1. k \in Int /\ p \in Int
      BY <2>1
    <3>2. k < p \/ k = p \/ p < k
      BY <3>1
    <3>3. k < p => k <= b
      BY <2>6 DEF b
    <3>4. p < k => a <= k
      BY <2>6 DEF a
    <3> QED BY <3>2, <3>3, <3>4
  <2>9. triarea2d(inpts, b, p, a) >= trshld
    BY <2>4, <2>7, <2>8 DEF NoSmallTriangle, Ends
  <2> QED BY <2>9 DEF a, b
<1> QED BY <1>1, Inductive, PTL

\* A turn that gives an area is an elimination of the algorithm, the others change nothing
\* of it.
THEOREM RefinesVisvalingam == Spec => EliminatesLeast
<1> DEFINE eff == [p \in Point \ Remaining |-> res_arealist[p]]
<1>0. \A S : V!Max(S) = Max(S) /\ V!Min(S) = Min(S)
  BY DEF V!Max, V!Min, Max, Min
<1>1. Init => V!Init
  <2> SUFFICES ASSUME Init PROVE V!Init
    OBVIOUS
  <2>1. DOMAIN inpts = Point /\ Remaining = Point
    BY LineFacts DEF Init, Remaining
  <2>2. eff = [p \in {} |-> 0]
    BY <2>1
  <2> QED BY <2>1, <2>2 DEF V!Init
<1>2. ASSUME IInv, Turn, i < npoints - avoid_collaps PROVE V!Next
  <2> DEFINE c == Current
  <2>1. /\ npoints \in Nat \ 0..2 /\ Point = 0..npoints-1 /\ i \in 0..npoints /\ avoid_collaps \in Nat /\ FLT_MAX \in Nat
        /\ check_order_min_area \in 0..FLT_MAX /\ inpts \in Line /\ res_arealist \in [Point -> 0..FLT_MAX]
        /\ prev \in [Point -> Point] /\ next \in [Point -> Point] /\ i <= npoints - avoid_collaps
    BY <1>2, LineFacts, EffectiveAreaAssumption DEF IInv, TypeOK
  <2>2. /\ go_on /\ c \in Live \ Ends /\ c \in InHeap /\ Res = area[c] /\ \A p \in InHeap : area[c] <= area[p]
    <3>1. go_on
      BY <1>2 DEF Turn
    <3> QED BY <1>2, <3>1, TopOfHeap, LeastOnTop, ResType
  <2>3. /\ Remaining = Live /\ Live \ Ends \subseteq InHeap /\ Live \subseteq Point
        /\ \A p \in Live \ Ends : area[p] = Recalculated(check_order_min_area, prev[p], p, next[p])
        /\ \A q \in Point \ Remaining : res_arealist[q] <= check_order_min_area
        /\ check_order_min_area = 0 \/ \E q \in Point \ Remaining : res_arealist[q] = check_order_min_area
    BY <1>2, <2>1 DEF IInv, Weighed, Live, LiveIn
  <2>4. /\ 0 \in Live /\ npoints - 1 \in Live
        /\ \A p \in Live : p > 0 => prev[p] \in Live /\ prev[p] < p /\ \A q \in Live : q < p => q <= prev[p]
        /\ \A p \in Live : p < npoints - 1 => next[p] \in Live /\ p < next[p] /\ \A q \in Live : p < q => next[p] <= q
    BY <1>2 DEF IInv, Linked, LinkedTo, Ends, Live
  <2>5. V!Inner = Live \ Ends
    <3>1. ASSUME NEW p \in Live PROVE (\E q \in Live : q < p) /\ (\E q \in Live : p < q) <=> p \notin Ends
      <4>1. p \in 0..npoints-1
        BY <2>1, <2>3
      <4>2. CASE p = 0
        BY <2>1, <2>3, <4>2 DEF Ends
      <4>3. CASE p = npoints - 1
        BY <2>1, <2>3, <4>3 DEF Ends
      <4>4. CASE p # 0 /\ p # npoints - 1
        <5>1. 0 < p /\ p < npoints - 1
          BY <2>1, <4>1, <4>4
        <5> QED BY <2>4, <4>4, <5>1 DEF Ends
      <4> QED BY <4>2, <4>3, <4>4
    <3> QED BY <2>3, <3>1 DEF V!Inner
  <2>6. V!Last = check_order_min_area
    <3> DEFINE S == {0} \cup {eff[p] : p \in DOMAIN eff}
    <3>1. S = {0} \cup {res_arealist[p] : p \in Point \ Remaining}
      OBVIOUS
    <3> DEFINE m == check_order_min_area
    <3>2. m \in S /\ m \in Int /\ m >= 0 /\ S \subseteq Int /\ \A x \in S : m >= x
      <4>1. m \in Int /\ m >= 0
        BY <2>1
      <4>2. \A p \in Point \ Remaining : res_arealist[p] \in Int /\ m >= res_arealist[p]
        <5> TAKE p \in Point \ Remaining
        <5>1. res_arealist[p] \in Int /\ res_arealist[p] <= m
          BY <2>1, <2>3
        <5> HIDE DEF m
        <5> QED BY <4>1, <5>1
      <4>3. m \in S
        <5> HIDE DEF S
        <5> QED BY <2>3, <3>1
      <4> HIDE DEF S, m
      <4> QED BY <3>1, <4>1, <4>2, <4>3
    <3> HIDE DEF m, S
    <3>3. \A y \in S : (\A x \in S : y >= x) => y = m
      BY <3>2
    <3>4. Max(S) = m
      BY <3>2, <3>3, Zenon DEF Max
    <3>5. V!Last = Max(S)
      BY <1>0 DEF V!Last, S
    <3> QED BY <3>4, <3>5 DEF m
  <2>7. ASSUME NEW p \in Live \ Ends PROVE V!Weight(p) = area[p]
    <3>1. p \in Point /\ 0 < p /\ p < npoints - 1 /\ 0 \in Point /\ npoints - 1 \in Point
      BY <2>1, <2>3 DEF Ends
    <3> DEFINE B == {q \in Remaining : q < p}
    <3> DEFINE A == {q \in Remaining : p < q}
    <3>2. B \subseteq Point /\ A \subseteq Point /\ 0 \in B /\ npoints - 1 \in A /\ npoints \in Nat
      BY <2>1, <2>3, <2>4, <3>1
    <3>3. prev[p] \in B /\ (\A q \in B : q <= prev[p]) /\ next[p] \in A /\ \A q \in A : next[p] <= q
      BY <2>3, <2>4, <3>1
    <3> HIDE DEF A, B
    <3>4. Max(B) \in B /\ (\A q \in B : q <= Max(B)) /\ Min(A) \in A /\ (\A q \in A : Min(A) <= q)
      BY <3>2, Extremes
    <3>5. Max(B) = prev[p] /\ Min(A) = next[p]
      <4>1. A \subseteq Int /\ B \subseteq Int
        BY <2>1, <3>2
      <4>2. Max(B) \in Int /\ prev[p] \in Int /\ Max(B) <= prev[p] /\ prev[p] <= Max(B)
        BY <3>3, <3>4, <4>1
      <4>3. Min(A) \in Int /\ next[p] \in Int /\ Min(A) <= next[p] /\ next[p] <= Min(A)
        BY <3>3, <3>4, <4>1
      <4> QED BY <4>2, <4>3
    <3>6. V!Weight(p) = Max({V!TwiceArea(inpts[prev[p]], inpts[p], inpts[next[p]]), V!Last})
      BY <1>0, <3>5 DEF V!Weight, A, B
    <3>7. V!TwiceArea(inpts[prev[p]], inpts[p], inpts[next[p]]) = triarea2d(inpts, prev[p], p, next[p])
      BY DEF V!TwiceArea, triarea2d
    <3> QED BY <2>3, <2>6, <3>6, <3>7 DEF Recalculated
  <2>8. \A q \in V!Inner : V!Weight(c) <= V!Weight(q)
    BY <2>2, <2>3, <2>5, <2>7
  <2>9. /\ Point' = Point /\ Remaining' = Remaining \ {c} /\ inpts' = inpts
        /\ res_arealist'[c] = area[c] /\ \A p \in Point \ {c} : res_arealist'[p] = res_arealist[p]
    BY <1>2, <2>2, TurnResults, TurnLinks DEF Turn, call
  <2>10. eff' = [q \in DOMAIN eff \cup {c} |-> IF q = c THEN V!Weight(c) ELSE eff[q]]
    <3>1. eff' = [q \in Point \ (Remaining \ {c}) |-> res_arealist'[q]]
      BY <2>9
    <3>2. Point \ (Remaining \ {c}) = (Point \ Remaining) \cup {c} /\ DOMAIN eff = Point \ Remaining /\ c \in Remaining
      BY <2>2, <2>3
    <3>3. V!Weight(c) = area[c]
      BY <2>2, <2>7
    <3>4. \A q \in (Point \ Remaining) \cup {c} :
             res_arealist'[q] = IF q = c THEN V!Weight(c) ELSE eff[q]
      BY <2>9, <3>2, <3>3
    <3> HIDE DEF eff
    <3> QED BY <3>1, <3>2, <3>4
  <2>11. PICK p \in V!Inner : p = c
    BY <2>2, <2>5
  <2> HIDE DEF c
  <2>12. V!Eliminate(p)
    BY <2>8, <2>9, <2>10, <2>11 DEF V!Eliminate
  <2> QED BY <2>12 DEF V!Next
<1>3. ASSUME IInv, Turn, ~ (i < npoints - avoid_collaps) PROVE UNCHANGED V!vars
  <2>1. /\ Point' = Point /\ Remaining' = Remaining /\ inpts' = inpts /\ Current \in Remaining
        /\ \A p \in Point \ {Current} : res_arealist'[p] = res_arealist[p]
    BY <1>3, TurnResults, TurnLinks DEF Turn, call
  <2>2. eff' = eff
    BY <2>1
  <2> QED BY <2>1, <2>2 DEF V!vars
<1>4. UNCHANGED vars => UNCHANGED V!vars
  BY DEF vars, call, V!vars, Remaining, Point, npoints
<1>5. IInv /\ [Turn]_vars => [V!Next]_V!vars
  <2> SUFFICES ASSUME IInv, [Turn]_vars PROVE [V!Next]_V!vars
    OBVIOUS
  <2>1. CASE Turn /\ i < npoints - avoid_collaps
    BY <1>2, <2>1
  <2>2. CASE Turn /\ ~ (i < npoints - avoid_collaps)
    BY <1>3, <2>2
  <2>3. CASE UNCHANGED vars
    BY <1>4, <2>3
  <2> QED BY <2>1, <2>2, <2>3
<1> QED BY <1>1, <1>5, Inductive, PTL DEF Spec, EliminatesLeast, V!Spec

=============================================================================
