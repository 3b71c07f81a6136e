-------------------------------- MODULE Brin --------------------------------
(* One block range of a BRIN index on a geometry or geography column: its      *)
(* summary, kept up by the inserts and by a summarisation that runs beside     *)
(* them, and what index scans find through it.                                 *)
(*                                                                             *)
(* PostgreSQL's BRIN core calls the support functions of PostGIS               *)
(* (src/postgis/brin_2d.c, brin_nd.c) and is modelled from their contract. A   *)
(* row stands for its bounding box: a sequence with one interval for X and Y,  *)
(* which are always there and treated alike, then one for Z, then one for M. A *)
(* geometry with M and no Z has the interval Pad for Z.                        *)
EXTENDS Integers, Sequences, FiniteSets

CONSTANTS
  Table,    \* the columns: records of operator class, values and queries
  Null,     \* no value
  EMPTY,    \* a geometry without points
  NaN,      \* the box of an EMPTY geometry in the 2D class
  None,     \* no summary, no box, no summarisation
  FltMax,   \* FLT_MAX: above every coordinate
  MaxRows   \* bound: different values in the range

VARIABLES
  table,    \* the column, fixed
  rows,     \* values of the range's rows whose index entry is made
  waiting,  \* values of the rows in the heap whose index entry is still to make
  summary,  \* the range's index tuple
  job       \* the summarisation

vars == <<table, rows, waiting, summary, job>>

Pad == <<-FltMax, FltMax>>

Interval == {side \in (-FltMax..FltMax) \X (-FltMax..FltMax) : side[1] <= side[2]}

\* What a summary can hold: a union is a box of one to three intervals, and X and Y
\* are there.
Key == {box \in Seq(Interval) : Len(box) \in 1..3 /\ box[1][2] < FltMax}
Column == [allnulls : BOOLEAN, hasnulls : BOOLEAN, union : {None, NaN} \cup Key,
           unmergeable : BOOLEAN, containsEmpty : BOOLEAN]

\* The box of a geometry: a dimension that reaches FLT_MAX is one that is not there.
Box == {box \in Key : \A i \in DOMAIN box : box[i][2] = FltMax => box[i] = Pad}

Boxed(v) == v \notin {Null, EMPTY}

\* The operators of a class, and what they are asked about.
AskedOf(class, q) == \/ q.op \in {"IS NULL", "IS NOT NULL"}
                     \/ class = "2d" /\ q.op \in {"&&", "~", "@"} /\ (q.box = EMPTY \/ q.box \in Box)
                     \/ class # "2d" /\ q.box \in Box

ASSUME BrinAssumption ==
  /\ FltMax \in Nat /\ Null # EMPTY
  /\ None \notin [placeholder : BOOLEAN, column : Column]
  /\ \A side \in Interval : <<side>> # NaN
  /\ \A t \in Table : /\ t.class \in {"2d", "geography", "3d", "4d"}
                      /\ \A v \in t.values : Boxed(v) => v \in Box
                      /\ \A q \in t.queries : AskedOf(t.class, q)

SmallerOf(a, b) == IF a < b THEN a ELSE b
LargerOf(a, b) == IF a > b THEN a ELSE b
Encloses(a, b) == a[1] <= b[1] /\ a[2] >= b[2]
Meets(a, b) == a[1] <= b[2] /\ b[1] <= a[2]

\* Faulty variant: the union starts from a zeroed box.
EnlargedFromOrigin(a, b) == [i \in DOMAIN a |-> <<SmallerOf(0, SmallerOf(a[i][1], b[i][1])),
                                                   LargerOf(a[i][2], b[i][2])>>]

\* The union of two boxes, in the dimensions of the first.
Enlarged(a, b) == [i \in DOMAIN a |-> <<SmallerOf(a[i][1], b[i][1]), LargerOf(a[i][2], b[i][2])>>]

-----------------------------------------------------------------------------
(* The 2D class. The box of an EMPTY geometry is made of NaN, and a comparison *)
(* with NaN refuses nothing.                                                   *)

gserialized_datum_get_box2df_p(v) == IF v = EMPTY THEN NaN ELSE <<v[1]>>

box2df_overlaps(a, b) == NaN \notin {a, b} /\ Meets(a[1], b[1])
box2df_contains(a, b) == NaN \in {a, b} \/ Encloses(a[1], b[1])
box2df_within(a, b) == NaN \in {a, b} \/ Encloses(b[1], a[1])

Box2dfTest(op, a, b) == CASE op = "&&" -> box2df_overlaps(a, b)
                          [] op = "~" -> box2df_contains(a, b)
                          [] op = "@" -> box2df_within(a, b)

-----------------------------------------------------------------------------
(* The other classes compare the dimensions two boxes share, except the padded.*)

Shared(a, b) == {i \in DOMAIN a \cap DOMAIN b : FltMax \notin {a[i][2], b[i][2]}}

gidx_overlaps(a, b) == \A i \in Shared(a, b) : Meets(a[i], b[i])
gidx_contains(a, b) == \A i \in Shared(a, b) : Encloses(a[i], b[i])

\* The dimensions an operator class stores.
max_dims(class) == CASE class \in {"2d", "geography"} -> 1
                     [] class = "3d" -> 2
                     [] class = "4d" -> 3

-----------------------------------------------------------------------------
(* The support functions, on a column of a summary (BrinValues).               *)

Fresh == [allnulls |-> TRUE, hasnulls |-> FALSE, union |-> None,
          unmergeable |-> FALSE, containsEmpty |-> FALSE]

\* The first box of a range is its union.
First(column, box) == [column EXCEPT !.allnulls = FALSE, !.union = box,
                                     !.unmergeable = FALSE, !.containsEmpty = FALSE]

\* Faulty variant: the last box takes the place of the union.
addValueReplaces(column, v) ==
  IF v = Null THEN [column EXCEPT !.hasnulls = TRUE]
  ELSE First(column, gserialized_datum_get_box2df_p(v))

\* gserialized_datum_get_box2df_p gives every geometry a box, so the branch
\* for those that have none is never taken.
geom2d_brin_inclusion_add_value(column, v) ==
  LET box == gserialized_datum_get_box2df_p(v)
  IN  CASE v = Null -> [column EXCEPT !.hasnulls = TRUE]
        [] v # Null /\ column.allnulls -> First(column, box)
        [] v # Null /\ ~column.allnulls ->
             IF box2df_contains(column.union, box) THEN column
             ELSE [column EXCEPT !.union = Enlarged(@, box)]

\* Faulty variant: what the placeholder gathered is dropped.
mergeKeepsKey(a, b) == a

geom2d_brin_inclusion_merge(a, b) == IF box2df_contains(a, b) THEN a ELSE Enlarged(a, b)

Clipped(box, dims) == IF Len(box) > dims THEN SubSeq(box, 1, dims) ELSE box

gidx_brin_inclusion_add_value(class, column, v) ==
  LET summarised == ~column.allnulls
      boxed == v # Null /\ v # EMPTY /\ ~(summarised /\ column.unmergeable)
  IN  CASE v = Null -> [column EXCEPT !.hasnulls = TRUE]
        [] summarised /\ v # Null /\ column.unmergeable -> column
        [] v = EMPTY /\ ~(summarised /\ column.unmergeable) -> [column EXCEPT !.containsEmpty = TRUE]
        [] boxed /\ ~summarised -> First(column, Clipped(v, max_dims(class)))
        [] boxed /\ summarised ->
             IF Len(column.union) # Len(v) THEN [column EXCEPT !.unmergeable = TRUE]
             ELSE IF gidx_contains(column.union, v) THEN column
             ELSE [column EXCEPT !.union = Enlarged(@, v)]

gidx_brin_inclusion_mergeable(a, b) == Len(a) = Len(b)

gidx_brin_inclusion_merge(a, b) ==
  IF ~gidx_brin_inclusion_mergeable(a, b) \/ gidx_contains(a, b) THEN a ELSE Enlarged(a, b)

add_value(column, v) ==
  IF table.class = "2d" THEN geom2d_brin_inclusion_add_value(column, v)
  ELSE gidx_brin_inclusion_add_value(table.class, column, v)

merge(a, b) == IF table.class = "2d" THEN geom2d_brin_inclusion_merge(a, b)
               ELSE gidx_brin_inclusion_merge(a, b)

\* Only the n-D classes have a mergeable function.
mergeable(a, b) == table.class = "2d" \/ gidx_brin_inclusion_mergeable(a, b)

-----------------------------------------------------------------------------
(* What PostgreSQL does with a summary.                                        *)

\* brin_form_tuple: the values of an all-null column are not stored.
Stored(column) == IF column.allnulls THEN [Fresh EXCEPT !.hasnulls = column.hasnulls] ELSE column

\* union_tuples and brin_inclusion_union.
union_tuples(a, b) ==
  LET nulls == [a EXCEPT !.hasnulls = @ \/ b.hasnulls]
      empties == [nulls EXCEPT !.containsEmpty = @ \/ b.containsEmpty]
  IN  CASE b.allnulls -> nulls
        [] ~b.allnulls /\ a.allnulls -> [b EXCEPT !.hasnulls = nulls.hasnulls]
        [] ~b.allnulls /\ ~a.allnulls ->
             IF a.unmergeable \/ b.unmergeable \/ ~mergeable(a.union, b.union)
             THEN [empties EXCEPT !.unmergeable = TRUE]
             ELSE [empties EXCEPT !.union = merge(@, b.union)]

\* brin_inclusion_consistent, for the operators of the classes: within (@) asks
\* whether the union overlaps the query.
Consistent(column, op, box) ==
  \/ column.unmergeable
  \/ IF table.class = "2d"
     THEN \/ Box2dfTest(IF op = "@" THEN "&&" ELSE op, column.union, box)
          \/ op = "@" /\ column.containsEmpty
     ELSE gidx_overlaps(column.union, box)

\* bringetbitmap: the ranges whose rows are read.
Lossy == summary = None \/ summary.placeholder
Returned(q) ==
  \/ Lossy
  \/ LET column == summary.column
     IN  CASE q.op = "IS NULL" -> column.allnulls \/ column.hasnulls
           [] q.op = "IS NOT NULL" -> ~column.allnulls
           [] q.op \notin {"IS NULL", "IS NOT NULL"} ->
                ~column.allnulls /\ Consistent(column, q.op,
                  IF table.class = "2d" THEN gserialized_datum_get_box2df_p(q.box) ELSE q.box)

\* The operator itself, which a scan without the index evaluates on every row.
Matches(v, q) ==
  CASE q.op = "IS NULL" -> v = Null
    [] q.op = "IS NOT NULL" -> v # Null
    [] q.op \notin {"IS NULL", "IS NOT NULL"} ->
         /\ v # Null
         /\ IF table.class = "2d"
            THEN Box2dfTest(q.op, gserialized_datum_get_box2df_p(v), gserialized_datum_get_box2df_p(q.box))
            ELSE v # EMPTY /\ gidx_overlaps(v, q.box)

-----------------------------------------------------------------------------
Init == /\ table \in Table
        /\ rows = {} /\ waiting = {}
        /\ summary = None
        /\ job = None

Heap == rows \cup waiting

\* An insert puts the row in the heap, then updates the index.
HeapInsert(v) == /\ v \in table.values
                 /\ Cardinality(Heap \cup {v}) <= MaxRows
                 /\ waiting' = waiting \cup {v}
                 /\ UNCHANGED <<table, rows, summary, job>>

\* brininsert: a range without a summary is left alone; another is updated, and
\* the update is tried again when the tuple changed meanwhile.
IndexInsert(v) ==
  /\ v \in waiting
  /\ waiting' = waiting \ {v}
  /\ rows' = rows \cup {v}
  /\ summary' = IF summary = None THEN None
                ELSE [summary EXCEPT !.column = Stored(add_value(@, v))]
  /\ UNCHANGED <<table, job>>

\* summarize_range: a placeholder collects what is inserted during the scan.
StartSummary ==
  /\ job = None /\ summary = None
  /\ summary' = [placeholder |-> TRUE, column |-> Fresh]
  /\ job' = [column |-> Fresh, left |-> Heap, seen |-> Fresh]
  /\ UNCHANGED <<table, rows, waiting>>

\* The scan meets every row that was there when it began, and may meet others.
ScanRow(v) ==
  /\ job # None /\ job.left # {} /\ v \in Heap
  /\ job' = [job EXCEPT !.column = add_value(@, v), !.left = @ \ {v}]
  /\ UNCHANGED <<table, rows, waiting, summary>>

\* The placeholder changed: what it gathered is merged in.
MergePlaceholder ==
  /\ job # None /\ job.left = {} /\ summary.column # job.seen
  /\ job' = [job EXCEPT !.column = union_tuples(@, summary.column), !.seen = summary.column]
  /\ UNCHANGED <<table, rows, waiting, summary>>

\* The placeholder did not change: the summary takes its place.
FinishSummary ==
  /\ job # None /\ job.left = {} /\ summary.column = job.seen
  /\ summary' = [placeholder |-> FALSE, column |-> Stored(job.column)]
  /\ job' = None
  /\ UNCHANGED <<table, rows, waiting>>

\* An error in the summarising session leaves the placeholder behind.
AbortSummary == /\ job # None
                /\ job' = None
                /\ UNCHANGED <<table, rows, waiting, summary>>

\* brin_desummarize_range, which a summarisation excludes.
Desummarize == /\ job = None /\ summary # None
               /\ summary' = None
               /\ UNCHANGED <<table, rows, waiting, job>>

Insert == \E v \in table.values : HeapInsert(v) \/ IndexInsert(v)
Scan == \E v \in Heap : ScanRow(v)
Next == \/ Insert \/ StartSummary \/ Scan \/ MergePlaceholder \/ FinishSummary
        \/ AbortSummary \/ Desummarize

\* The summarising session goes on; nothing makes anyone insert or summarise.
Summarise == \/ \E v \in Heap : v \in job.left /\ ScanRow(v)
             \/ MergePlaceholder \/ FinishSummary

Spec == Init /\ [][Next]_vars /\ WF_vars(job # None /\ Summarise)

-----------------------------------------------------------------------------
\* A column has a union when it has a box; the union stores what the class does,
\* and the 2D class alone has the box of an EMPTY geometry.
Fits(column) ==
  /\ column \in Column
  /\ IF column.allnulls THEN column.union = None
     ELSE \/ table.class = "2d" /\ column.union = NaN
          \/ column.union \in Key /\ Len(column.union) <= max_dims(table.class)

\* The state is well formed; the columns fit the class.
TypeOK ==
  /\ table \in Table
  /\ rows \cup waiting \subseteq table.values
  /\ summary # None => /\ summary \in [placeholder : BOOLEAN, column : Column]
                       /\ Fits(summary.column)
  /\ job # None => /\ job \in [column : Column, left : SUBSET Heap, seen : Column]
                   /\ Fits(job.column) /\ Fits(job.seen)

\* A scan through the index finds what a scan of the table finds: the range of a
\* row that is in the table and the index is read by every query the row matches,
\* whatever inserts, summarisations and failures came before (add_value and merge
\* of both files, bound to the operators in postgis_brin.sql.in).
RowsFound == \A v \in rows : \A q \in table.queries : Matches(v, q) => Returned(q)

\* The index is as selective as the manual says: the union is the box of the range,
\* so each of its sides is a side of some row's box.
UnionIsTight ==
  summary # None /\ ~summary.column.allnulls /\ ~summary.column.unmergeable =>
    \A i \in DOMAIN summary.column.union : \A side \in 1..2 :
      \E v \in {w \in Heap : Boxed(w) /\ Len(w) >= i} : v[i][side] = summary.column.union[i][side]

\* A range is given up as unmergeable only when its geometries have different
\* dimensions, or more than the class stores (dims_key # dims_geom, mergeable).
UnmergeableOnlyMixed ==
  summary # None /\ summary.column.unmergeable =>
    \E v, w \in {u \in Heap : Boxed(u)} : Len(v) # Len(w) \/ Len(v) > max_dims(table.class)

\* The index leaves out what it can: nothing makes the key of a range wider, or gives it
\* up, but the rows of the range.
IndexIsSelective == UnionIsTight /\ UnmergeableOnlyMixed

\* A summarisation ends, however many rows are inserted beside it: the placeholder
\* stops changing, because a value that adds nothing leaves the column alone.
SummariesEnd == job # None ~> job = None
=============================================================================
