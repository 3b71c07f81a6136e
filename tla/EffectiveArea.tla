--------------------------- MODULE EffectiveArea ---------------------------
(***************************************************************************)
(* Effective areas of the points of a line, src/liblwgeom/effectivearea.c:  *)
(* the remaining points are linked, and a heap of pointers to them gives    *)
(* the smallest area; each point knows its place in the heap, so that it    *)
(* can be moved when its area changes.                                     *)
(*                                                                         *)
(* Areas are in 2d and doubled, triarea3d only differs in the number.       *)
(* Points and places of the heap are counted from 0.                        *)
(***************************************************************************)
EXTENDS Integers, FiniteSetsExt

CONSTANTS Line,       \* the lines, functions from 0..npoints-1 to <<x, y>>
          Avoid,      \* values of avoid_collaps: 2 for lines, 4 for shells, 0 for holes
          Threshold,  \* values of trshld, doubled
          FLT_MAX     \* greater than every area

\* Of the triangle of three points of a line, doubled.
triarea2d(l, p, q, r) ==
  LET P1 == l[p]  P2 == l[q]  P3 == l[r]
      d == (P1[1] - P2[1]) * (P3[2] - P2[2]) - (P1[2] - P2[2]) * (P3[1] - P2[1])
  IN IF d < 0 THEN -d ELSE d

\* lwline_set_effective_area returns lines of less than three points as they are.
ASSUME EffectiveAreaAssumption ==
  /\ \A l \in Line : /\ Cardinality(DOMAIN l) \in Nat \ 0..2 /\ DOMAIN l = 0 .. Cardinality(DOMAIN l) - 1
                     /\ \A p \in DOMAIN l : l[p] \in Int \X Int
                     /\ \A p, q, r \in DOMAIN l : triarea2d(l, p, q, r) < FLT_MAX
  /\ Avoid \subseteq Nat /\ FLT_MAX \in Nat /\ Threshold \subseteq 0..FLT_MAX

VARIABLES inpts, avoid_collaps, set_area, trshld,   \* the call
          area, prev, next, treeindex,              \* the initial_arealist
          key_array,                                \* the heap
          res_arealist,
          i, check_order_min_area, go_on            \* of the loop

call == <<inpts, avoid_collaps, set_area, trshld>>
vars == <<call, area, prev, next, treeindex, key_array, res_arealist, i, check_order_min_area, go_on>>

npoints == Cardinality(DOMAIN inpts)
Point   == 0 .. npoints - 1

-----------------------------------------------------------------------------
(* The heap: [tree, index, area], the arrays key_array, treeindex and area. *)

Used(h)   == Cardinality(DOMAIN h.tree)
Parent(c) == IF c = 0 THEN 0 ELSE (c - 1) \div 2
At(h, c)  == h.area[h.tree[c]]

\* Faulty variant: the point that goes down is not told its place.
SwappedHalf(h, c, d) ==
  [h EXCEPT !.tree[c] = h.tree[d], !.tree[d] = h.tree[c], !.index[h.tree[d]] = c]

\* The points at two places change places.
Swapped(h, c, d) ==
  [h EXCEPT !.tree = [@ EXCEPT ![c] = h.tree[d], ![d] = h.tree[c]],
            !.index = [@ EXCEPT ![h.tree[d]] = c, ![h.tree[c]] = d]]

\* The child a point changes places with on its way down, or its own place.
Below(h, c) ==
  LET left == 2 * c + 1  right == 2 * c + 2
      toLeft  == IF left < Used(h) THEN At(h, c) > At(h, left) ELSE FALSE
      toRight == IF right < Used(h) THEN At(h, right) < At(h, c) /\ At(h, right) < At(h, left) ELSE FALSE
  IN IF toRight THEN right ELSE IF toLeft THEN left ELSE c

\* The point at a place goes down or up as long as it has to; move[k] is the heap and the
\* place after k levels.
down(h, parent) ==
  LET move[k \in 0..npoints] ==
        IF k = 0 THEN [h |-> h, c |-> parent]
        ELSE LET m == move[k - 1]  d == Below(m.h, m.c) IN
             IF d = m.c THEN m ELSE [h |-> Swapped(m.h, m.c, d), c |-> d]
  IN move[npoints].h

up(h, c) ==
  LET move[k \in 0..npoints] ==
        IF k = 0 THEN [h |-> h, c |-> c]
        ELSE LET m == move[k - 1]  d == Parent(m.c) IN
             IF At(m.h, m.c) < At(m.h, d) THEN [h |-> Swapped(m.h, m.c, d), c |-> d] ELSE m
  IN move[npoints].h

\* The last point takes the first place and goes down.
minheap_pop(h) ==
  LET used == Used(h)
      first == [h EXCEPT !.tree[0] = h.tree[used - 1], !.index[h.tree[used - 1]] = 0]
  IN down([first EXCEPT !.tree = [c \in 0 .. used - 2 |-> first.tree[c]]], 0)

\* Faulty variant: an area only grows, so a point only goes down.
minheap_update_down(h, p, a) == down([h EXCEPT !.area[p] = a], h.index[p])

\* The area of a point changes.
minheap_update(h, p, a) ==
  LET new == [h EXCEPT !.area[p] = a]
      idx == h.index[p]
  IN IF At(new, idx) < At(new, Parent(idx)) THEN up(new, idx) ELSE down(new, idx)

-----------------------------------------------------------------------------
(* ptarray_calc_areas.                                                     *)

FirstAreas(l) ==
  LET n == Cardinality(DOMAIN l)
  IN [p \in DOMAIN l |-> IF p = 0 \/ p = n - 1 THEN FLT_MAX ELSE triarea2d(l, p - 1, p, p + 1)]

\* qsort with cmpfunc: the places of the points, of equal areas the first point first.
Sorted(a) == [p \in DOMAIN a |-> Cardinality({q \in DOMAIN a : a[q] < a[p] \/ (a[q] = a[p] /\ q < p)})]

Init ==
  /\ inpts \in Line /\ avoid_collaps \in Avoid /\ set_area \in BOOLEAN /\ trshld \in Threshold
  /\ area = FirstAreas(inpts)
  /\ prev = [p \in Point |-> IF p = 0 THEN 0 ELSE p - 1]
  /\ next = [p \in Point |-> IF p = npoints - 1 THEN p ELSE p + 1]
  /\ treeindex = Sorted(area)
  /\ key_array = [c \in Point |-> CHOOSE p \in Point : treeindex[p] = c]
  /\ res_arealist = [p \in Point |-> FLT_MAX]
  /\ i = 0 /\ check_order_min_area = 0 /\ go_on = TRUE

\* Faulty variant: one point more than may be is eliminated.
EffectiveOneMore(a) == IF i <= npoints - avoid_collaps THEN a ELSE FLT_MAX

\* The effective area of the i-th point eliminated.
Effective(a) == IF i < npoints - avoid_collaps THEN a ELSE FLT_MAX

\* The area of a neighbour of the point eliminated.
Recalculated(least, p, q, r) == Max({triarea2d(inpts, p, q, r), least})

\* Faulty variant: a greater area than the threshold's does not end the loop.
EndsEarlyWrong(res) == ~ set_area /\ res <= trshld

\* Where areas are not asked for, the rest is not computed.
EndsEarly(res) == ~ set_area /\ res >= trshld

\* A turn of the loop of tune_areas.
Turn ==
  /\ go_on
  /\ LET current == key_array[0]
         before  == prev[current]
         after   == next[current]
         res     == Effective(area[current])
         popped  == minheap_pop([tree |-> key_array, index |-> treeindex, area |-> area])
         h1 == IF before > 0
               THEN minheap_update(popped, before, Recalculated(res, prev[before], before, after)) ELSE popped
         h2 == IF after < npoints - 1
               THEN minheap_update(h1, after, Recalculated(res, before, after, next[after])) ELSE h1
     IN /\ res >= check_order_min_area
        /\ res_arealist' = [res_arealist EXCEPT ![current] = res]
        /\ check_order_min_area' = res
        /\ key_array' = h2.tree /\ treeindex' = h2.index /\ area' = h2.area
        /\ next' = [next EXCEPT ![before] = next[current]]
        /\ prev' = [prev EXCEPT ![after] = prev[current]]
        /\ go_on' = ~ (EndsEarly(res) \/ next'[0] = npoints - 1)
        /\ i' = i + 1
        /\ UNCHANGED call

\* ptarray_set_effective_area: the points of the result.
Kept == {p \in Point : res_arealist[p] >= trshld}

Spec == Init /\ [][Turn]_vars

-----------------------------------------------------------------------------
(* Properties.                                                             *)

InHeap == {key_array[c] : c \in DOMAIN key_array}

\* The heap is ordered, a point of it knows its place, and it has the points that are not
\* eliminated, whichever areas grew or shrank on the way.
HeapOrdered ==
  /\ \A c \in DOMAIN key_array : /\ area[key_array[Parent(c)]] <= area[key_array[c]]
                                 /\ treeindex[key_array[c]] = c
  /\ Cardinality(InHeap) = npoints - i /\ DOMAIN key_array = 0 .. npoints - i - 1
  /\ {p \in Point : next[prev[p]] = p /\ p > 0} \ {npoints - 1} \subseteq InHeap

\* "Oh no, this is a bug": the heap never returns a point whose effective area is less than
\* that of the point before.
NoneBelowLast == \A p \in InHeap : Effective(area[p]) >= check_order_min_area

\* The heap gives the points in the order tune_areas relies on.
HeapSound == HeapOrdered /\ NoneBelowLast

\* The ends stay, and at least avoid_collaps points.
LineKept == /\ {0, npoints - 1} \subseteq Kept
            /\ Cardinality(Kept) >= Min({avoid_collaps, npoints})

Remaining == {p \in Point : res_arealist[p] = FLT_MAX}

\* When the loop ends, early or not, no point is left that should have gone: its triangle
\* with its neighbours in the result is not below the threshold, or no more may go.
NothingSmallLeft ==
  ~ go_on => \/ Cardinality(Remaining) <= avoid_collaps
             \/ \A p \in Kept \ {0, npoints - 1} :
                  triarea2d(inpts, Max({q \in Kept : q < p}), p, Min({q \in Kept : p < q})) >= trshld

\* Each turn eliminates a point with the least effective area, by the definition of the
\* algorithm, which knows no heap and no stored areas.
V == INSTANCE Visvalingam WITH
       line <- inpts, left <- Remaining,
       effective <- [p \in Point \ Remaining |-> res_arealist[p]]
EliminatesLeast == V!Spec

=============================================================================
