----------------------------- MODULE MCGeomCaches -----------------------------
(* The caches of ST_Intersects, which asks for the interval tree of a polygon  *)
(* in either place and for the prepared geometry of either argument.           *)
EXTENDS GeomCaches

CONSTANTS A, B, E,             \* geometries; no tree can be built for E
          a1, ai, b1, ei,      \* datums; a1 and b1 are on disk
          prep, itree

Holds == [d \in Datum |-> CASE d \in {a1, ai} -> A [] d = b1 -> B [] d = ei -> E]
UsesOfIntersects == {<<itree, <<1, 0>>>>, <<itree, <<2, 0>>>>, <<prep, <<1, 2>>>>}

\* States that differ in the addresses of the objects only are one: the places that
\* point to objects, each given by a place that points to the same one.
Places ==
  <<toast[1].obj, toast[2].obj, got.shared[1].obj, got.shared[2].obj>>
  \o cache[prep].geom \o cache[itree].geom \o <<cache[prep].tree.obj, cache[itree].tree.obj>>

Addressless ==
  LET at == Places
      first == [i \in 1..Len(at) |-> CHOOSE j \in 1..i : at[j] = at[i]]
  IN  <<first,
        [i \in 1..Len(at) |-> IF at[i] = Nil THEN Nil ELSE heap[at[i]]],
        Cardinality({o \in Obj : heap[o].count > 0}),
        <<toast[1].key, toast[2].key>>, cache[prep].argnum, cache[itree].argnum,
        cache[prep].tree.geom, cache[itree].tree.geom,
        got.row, got.entry, GeomOf(got.passed[1]), GeomOf(got.passed[2]),
        got.shared[1].geom, got.shared[2].geom>>
=============================================================================
