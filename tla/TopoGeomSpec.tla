---------------------------- MODULE TopoGeomSpec ----------------------------
(***************************************************************************)
(* What a topology promises to its TopoGeometry objects, without faces,    *)
(* rows, next edges or callbacks: a drawing of points and lines, and for   *)
(* each object what it covers of it.  Editing the drawing carries what an  *)
(* object covers over to the new points and lines, and is refused where    *)
(* that cannot be done; only a redefinition changes what an object covers. *)
(*                                                                         *)
(* An area is the set of the darts (sides of lines) that show it.          *)
(***************************************************************************)
EXTENDS Integers

CONSTANT TopoGeom

VARIABLES points, lines, covers

specVars == <<points, lines, covers>>

Nothing == [points |-> {}, lines |-> {}, area |-> {}]
Sides(L) == L \cup {-l : l \in L}

Within(c, P, L) == c.points \subseteq P /\ c.lines \subseteq L /\ c.area \subseteq Sides(L)

SpecInit == /\ points = {}
            /\ lines = {}
            /\ covers = [tg \in TopoGeom |-> Nothing]

\* Every object covers after what it covered before, carried over by f.
Carried(f(_)) == covers' = [tg \in TopoGeom |-> f(covers[tg])]

MarkPoint == /\ \E n \in points' \ points : points' = points \cup {n}
             /\ UNCHANGED <<lines, covers>>

UnmarkPoint == /\ \E n \in points \ points' : /\ points' = points \ {n}
                                              /\ \A tg \in TopoGeom : n \notin covers[tg].points
               /\ UNCHANGED <<lines, covers>>

\* The sides of a new line show an area when the line is drawn inside it.
NewLine ==
  \E l \in lines' \ lines :
    /\ lines' = lines \cup {l}
    /\ \E drawnIn \in SUBSET TopoGeom :
         covers' = [tg \in TopoGeom |->
           IF tg \in drawnIn THEN [covers[tg] EXCEPT !.area = @ \cup {l, -l}] ELSE covers[tg]]
    /\ UNCHANGED points

\* A line goes when no object runs along it and no area ends at it.
NoLine ==
  \E l \in lines \ lines' :
    /\ lines' = lines \ {l}
    /\ \A tg \in TopoGeom : /\ l \notin covers[tg].lines
                            /\ l \in covers[tg].area <=> -l \in covers[tg].area
    /\ Carried(LAMBDA c : [c EXCEPT !.area = @ \ {l, -l}])
    /\ UNCHANGED points

\* Line l is cut at new point n into line i, up to the point, and line j.
Cut ==
  \E n \in points' \ points : \E l \in lines, i, j \in lines' :
    LET keep(S) == S \ {l, -l} IN
    /\ i # j
    /\ {i, j} \cap (lines \ {l}) = {}
    /\ points' = points \cup {n}
    /\ lines' = (lines \ {l}) \cup {i, j}
    /\ Carried(LAMBDA c :
         [points |-> c.points,
          lines |-> keep(c.lines) \cup (IF l \in c.lines THEN {i, j} ELSE {}),
          area |-> keep(c.area) \cup (IF l \in c.area THEN {i, j} ELSE {})
                                \cup (IF -l \in c.area THEN {-i, -j} ELSE {})])

\* Two lines, walked as darts a and b, are joined at point n into line m, which
\* runs the way a or b does: every object has the whole of both or nothing.
Join ==
  \E n \in points \ points' : \E a, b \in Sides(lines), m \in Sides(lines') :
    LET gone == {a, -a, b, -b} IN
    /\ b \notin {a, -a}
    /\ {m, -m} \cap (lines \ gone) = {}
    /\ points' = points \ {n}
    /\ lines' = (lines \ gone) \cup (lines' \cap {m, -m})
    /\ \A tg \in TopoGeom :
         /\ n \notin covers[tg].points
         /\ lines \cap {a, -a} \subseteq covers[tg].lines <=> lines \cap {b, -b} \subseteq covers[tg].lines
         /\ a \in covers[tg].area <=> b \in covers[tg].area
         /\ -a \in covers[tg].area <=> -b \in covers[tg].area
    /\ Carried(LAMBDA c :
         [points |-> c.points,
          lines |-> (c.lines \ gone)
                    \cup (IF lines \cap {a, -a} \subseteq c.lines THEN lines' \cap {m, -m} ELSE {}),
          area |-> (c.area \ gone) \cup (IF a \in c.area THEN {m} ELSE {})
                                   \cup (IF -a \in c.area THEN {-m} ELSE {})])

\* An object is given anything there is in the drawing.
Redefined ==
  /\ UNCHANGED <<points, lines>>
  /\ \E tg \in TopoGeom :
       /\ Within(covers'[tg], points, lines)
       /\ covers' = [covers EXCEPT ![tg] = covers'[tg]]

SpecNext == MarkPoint \/ UnmarkPoint \/ NewLine \/ NoLine \/ Cut \/ Join \/ Redefined

TopoGeomSpec == SpecInit /\ [][SpecNext]_specVars
=============================================================================
