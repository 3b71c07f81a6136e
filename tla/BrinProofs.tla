----------------------------- MODULE BrinProofs -----------------------------
(***************************************************************************)
(* That an index scan finds the rows of the range, and that the key of the *)
(* range is no wider than its rows, for every column, however many values  *)
(* it has and whatever they are.                                           *)
(***************************************************************************)
EXTENDS Brin, SequenceTheorems, TLAPS

Boxes(H) == {v \in H : Boxed(v)}

\* The intervals of a geometry that its class stores.
Width(t, v) == SmallerOf(Len(v), max_dims(t.class))
Clip(t, v) == [i \in 1..Width(t, v) |-> v[i]]

\* The unions a class can have.
Keys(t) == {u \in Key : Len(u) <= max_dims(t.class)}

\* A well typed column of a summary.
Typed(t, c) == /\ c \in Column
               /\ IF c.allnulls THEN c.union = None
                  ELSE (t.class = "2d" /\ c.union = NaN) \/ c.union \in Keys(t)

\* A column whose unions are boxes: of EMPTY the 2D class makes a box of NaN.
NoEmpty(t) == t.class = "2d" => EMPTY \notin t.values

Padded(u, i) == u[i][2] = FltMax

\* The two boxes have the same dimensions, missing ones among them.
Alike(u, w) == Len(u) = Len(w) /\ \A i \in 1..Len(u) : Padded(u, i) <=> Padded(w, i)

\* Geometries of the column with as many dimensions miss the same ones.
Even(t) == \A v, w \in Boxes(t.values) :
             Width(t, v) = Width(t, w) => Alike(Clip(t, v), Clip(t, w))

\* The columns whose rows are all found. The others: a 2D class with EMPTY values, or
\* asked what is within EMPTY, an n-D class with EMPTY values that is asked what is not
\* null, and a column that has geometries with M and no Z beside others with Z.
Regular(t) ==
  /\ NoEmpty(t)
  /\ \A q \in t.queries :
       /\ t.class = "2d" /\ q.op = "@" => q.box # EMPTY
       /\ t.class # "2d" /\ q.op = "IS NOT NULL" => EMPTY \notin t.values
  /\ Even(t)

Mixed(t, H) == \E v, w \in Boxes(H) : Len(v) # Len(w) \/ Len(v) > max_dims(t.class)

\* Every side of the box u is a side of a box in H.
Sides(u, H) == \A i \in 1..Len(u) : \A side \in 1..2 :
                 \E v \in Boxes(H) : Len(v) >= i /\ v[i][side] = u[i][side]

\* The column says no more than the values in H.
Selective(t, c, H) ==
  /\ ~c.allnulls => /\ c.union \in Keys(t) /\ Sides(c.union, H)
                    /\ \E v \in Boxes(H) : Len(c.union) = Width(t, v)
  /\ c.unmergeable => Mixed(t, H)

\* The union has the dimensions of some value.
Shaped(t, c) == ~c.allnulls => /\ c.union \in Keys(t)
                               /\ \E v \in Boxes(t.values) : Alike(c.union, Clip(t, v))

\* The box u takes in the box v, as far as the dimensions of u go.
Reaches(u, v) ==
  Len(u) <= Len(v) /\ \A i \in 1..Len(u) : Padded(u, i) \/ (~Padded(v, i) /\ Encloses(u[i], v[i]))

\* The column allows for the value v.
Covers(c, v) ==
  /\ v = Null => c.hasnulls
  /\ Boxed(v) => ~c.allnulls /\ (c.unmergeable \/ Reaches(c.union, v))

\* TypeOK, with the columns of the class as a set.
WellTyped ==
  /\ table \in Table /\ rows \cup waiting \subseteq table.values
  /\ summary # None => /\ summary \in [placeholder : BOOLEAN, column : Column]
                       /\ Typed(table, summary.column)
  /\ job # None => /\ job \in [column : Column, left : SUBSET Heap, seen : Column]
                   /\ Typed(table, job.column) /\ Typed(table, job.seen)

\* A summarisation has its placeholder.
Placed == job # None => summary # None /\ summary.placeholder

\* Every column there is says no more than the rows.
Tight ==
  /\ summary # None => Selective(table, summary.column, Heap)
  /\ job # None => Selective(table, job.column, Heap)

\* Every row whose entry is made is allowed for: by the summary, or, while one is
\* made, by what it has, by what the placeholder has, or it is still to be met. What
\* was seen of the placeholder is in the summary that is being made.
Complete ==
  /\ summary # None => Shaped(table, summary.column)
  /\ summary # None => summary.placeholder \/ \A v \in rows : Covers(summary.column, v)
  /\ job # None =>
       /\ Shaped(table, job.column)
       /\ \A v \in rows : v \in job.left \/ Covers(job.column, v) \/ Covers(summary.column, v)
       /\ \A v \in table.values : Covers(job.seen, v) => Covers(job.column, v)

IInv == /\ WellTyped /\ Placed
        /\ NoEmpty(table) => Tight
        /\ Regular(table) => Complete

-----------------------------------------------------------------------------
(* Boxes.                                                                      *)

\* A function over 1..n is a sequence of length n.
LEMMA FunctionSeq ==
  ASSUME NEW S, NEW n \in Nat, NEW f \in [1..n -> S]
  PROVE  f \in Seq(S) /\ Len(f) = n
OBVIOUS

\* FLT_MAX is a number.
LEMMA FltMaxNat == FltMax \in Nat
BY BrinAssumption

\* The sides of an interval are numbers in order.
LEMMA IntervalForm ==
  ASSUME NEW a \in Interval
  PROVE  /\ a = <<a[1], a[2]>> /\ a[1] \in Int /\ a[2] \in Int
         /\ -FltMax <= a[1] /\ a[1] <= a[2] /\ a[2] <= FltMax
BY FltMaxNat DEF Interval

\* A union is a function from its dimensions to intervals.
LEMMA KeyForm ==
  ASSUME NEW u \in Key
  PROVE  /\ u \in [1..Len(u) -> Interval] /\ Len(u) \in 1..3
         /\ DOMAIN u = 1..Len(u)
         /\ 1 \in 1..Len(u) /\ ~Padded(u, 1)
<1>1. /\ u \in [1..Len(u) -> Interval] /\ Len(u) \in 1..3 /\ u[1][2] < FltMax
  BY DEF Key
<1>2. u[1] \in Interval
  BY <1>1
<1> QED BY <1>1, <1>2, IntervalForm, FltMaxNat DEF Padded

\* Such a function is a union.
LEMMA FormKey ==
  ASSUME NEW n \in 1..3, NEW u \in [1..n -> Interval], ~Padded(u, 1)
  PROVE  u \in Key /\ Len(u) = n
<1>1. n \in Nat
  OBVIOUS
<1>2. u \in Seq(Interval) /\ Len(u) = n
  BY <1>1, FunctionSeq
<1>3. u[1] \in Interval
  OBVIOUS
<1>4. u[1][2] < FltMax
  BY <1>3, IntervalForm, FltMaxNat DEF Padded
<1> QED BY <1>2, <1>4 DEF Key

\* The classes store one to three intervals.
LEMMA DimsOf ==
  ASSUME NEW t \in Table
  PROVE  /\ max_dims(t.class) \in 1..3
         /\ t.class = "2d" => max_dims(t.class) = 1
BY BrinAssumption DEF max_dims

\* A geometry of the column has a box, whose first interval is there.
LEMMA BoxForm ==
  ASSUME NEW t \in Table, NEW v \in Boxes(t.values)
  PROVE  v \in Box /\ v \in Key
BY BrinAssumption DEF Boxes, Box

\* What the class stores of a geometry is a union.
LEMMA ClipForm ==
  ASSUME NEW t \in Table, NEW v \in Boxes(t.values)
  PROVE  /\ Width(t, v) \in 1..3 /\ Width(t, v) <= Len(v) /\ Width(t, v) <= max_dims(t.class)
         /\ Len(v) <= max_dims(t.class) => Width(t, v) = Len(v)
         /\ Len(v) \in 1..3
         /\ Clip(t, v) \in Keys(t) /\ Len(Clip(t, v)) = Width(t, v)
         /\ \A i \in 1..Width(t, v) : Clip(t, v)[i] = v[i]
<1>1. v \in Key /\ Len(v) \in 1..3 /\ v \in [1..Len(v) -> Interval]
  BY BoxForm, KeyForm
<1>2. max_dims(t.class) \in 1..3
  BY DimsOf
<1>3. /\ Width(t, v) \in 1..3 /\ Width(t, v) <= Len(v) /\ Width(t, v) <= max_dims(t.class)
      /\ Len(v) <= max_dims(t.class) => Width(t, v) = Len(v)
  BY <1>1, <1>2 DEF Width, SmallerOf
<1>4. Clip(t, v) \in [1..Width(t, v) -> Interval] /\ \A i \in 1..Width(t, v) : Clip(t, v)[i] = v[i]
  BY <1>1, <1>3 DEF Clip
<1>5. ~Padded(Clip(t, v), 1)
  BY <1>1, <1>3, <1>4, KeyForm DEF Padded
<1>6. Clip(t, v) \in Key /\ Len(Clip(t, v)) = Width(t, v)
  BY <1>3, <1>4, <1>5, FormKey
<1> QED BY <1>1, <1>3, <1>4, <1>6 DEF Keys

\* Clipping a box gives its first intervals.
LEMMA ClippedIsClip ==
  ASSUME NEW t \in Table, NEW v \in Boxes(t.values)
  PROVE  Clipped(v, max_dims(t.class)) = Clip(t, v)
<1>1. v \in Key /\ Len(v) \in 1..3 /\ v \in [1..Len(v) -> Interval]
  BY BoxForm, KeyForm
<1>2. max_dims(t.class) \in 1..3
  BY DimsOf
<1>3. CASE Len(v) > max_dims(t.class)
  <2>1. Width(t, v) = max_dims(t.class)
    BY <1>1, <1>2, <1>3 DEF Width, SmallerOf
  <2>2. SubSeq(v, 1, max_dims(t.class)) = [i \in 1..max_dims(t.class) |-> v[i]]
    BY <1>1, <1>2, <1>3
  <2> QED BY <1>3, <2>1, <2>2 DEF Clipped, Clip
<1>4. CASE ~(Len(v) > max_dims(t.class))
  <2>1. Width(t, v) = Len(v)
    BY <1>1, <1>2, <1>4 DEF Width, SmallerOf
  <2> QED BY <1>1, <1>4, <2>1 DEF Clipped, Clip
<1> QED BY <1>3, <1>4

\* The 2D box of a geometry is what its class stores of it.
LEMMA FlatIsClip ==
  ASSUME NEW t \in Table, t.class = "2d", NEW v \in Boxes(t.values)
  PROVE  gserialized_datum_get_box2df_p(v) = Clip(t, v) /\ Width(t, v) = 1
<1>1. Len(v) \in 1..3 /\ max_dims(t.class) = 1
  BY BoxForm, KeyForm, DimsOf
<1>2. Width(t, v) = 1
  BY <1>1, ClipForm
<1>3. <<v[1]>> = [i \in 1..1 |-> v[i]]
  OBVIOUS
<1> QED BY <1>2, <1>3 DEF gserialized_datum_get_box2df_p, Clip, Boxes, Boxed

-----------------------------------------------------------------------------
(* What becomes of a union.                                                    *)

\* The union u with the box w taken in.
Join(u, w) == IF gidx_contains(u, w) THEN u ELSE Enlarged(u, w)

\* The sides of two intervals make another, which encloses both.
LEMMA HullForm ==
  ASSUME NEW a \in Interval, NEW b \in Interval,
         NEW h, h = <<SmallerOf(a[1], b[1]), LargerOf(a[2], b[2])>>
  PROVE  /\ h \in Interval /\ Encloses(h, a) /\ Encloses(h, b)
         /\ \A side \in 1..2 : h[side] \in {a[side], b[side]}
         /\ h[2] = FltMax <=> a[2] = FltMax \/ b[2] = FltMax
<1>1. /\ a[1] \in Int /\ a[2] \in Int /\ -FltMax <= a[1] /\ a[1] <= a[2] /\ a[2] <= FltMax
      /\ b[1] \in Int /\ b[2] \in Int /\ -FltMax <= b[1] /\ b[1] <= b[2] /\ b[2] <= FltMax
      /\ FltMax \in Nat
  BY IntervalForm, FltMaxNat
<1>2. /\ h[1] = SmallerOf(a[1], b[1]) /\ h[2] = LargerOf(a[2], b[2])
      /\ h[1] \in {a[1], b[1]} /\ h[1] <= a[1] /\ h[1] <= b[1]
      /\ h[2] \in {a[2], b[2]} /\ h[2] >= a[2] /\ h[2] >= b[2]
  BY <1>1 DEF SmallerOf, LargerOf
<1>3. h \in Interval
  <2>1. h[1] \in -FltMax..FltMax /\ h[2] \in -FltMax..FltMax /\ h[1] <= h[2]
    BY <1>1, <1>2
  <2>2. h = <<h[1], h[2]>>
    OBVIOUS
  <2> QED BY <2>1, <2>2 DEF Interval
<1>4. Encloses(h, a) /\ Encloses(h, b)
  BY <1>2 DEF Encloses
<1>5. \A side \in 1..2 : h[side] \in {a[side], b[side]}
  <2>1. \A side \in 1..2 : side = 1 \/ side = 2
    OBVIOUS
  <2> QED BY <1>2, <2>1
<1>6. h[2] = FltMax <=> a[2] = FltMax \/ b[2] = FltMax
  BY <1>1, <1>2
<1> QED BY <1>3, <1>4, <1>5, <1>6

\* The union of two boxes of as many dimensions, interval by interval.
LEMMA EnlargedForm ==
  ASSUME NEW u \in Key, NEW w \in Key, Len(u) = Len(w)
  PROVE  /\ Enlarged(u, w) \in Key /\ Len(Enlarged(u, w)) = Len(u)
         /\ \A i \in 1..Len(u) :
              /\ Encloses(Enlarged(u, w)[i], u[i]) /\ Encloses(Enlarged(u, w)[i], w[i])
              /\ \A side \in 1..2 : Enlarged(u, w)[i][side] \in {u[i][side], w[i][side]}
              /\ Padded(Enlarged(u, w), i) <=> Padded(u, i) \/ Padded(w, i)
<1> DEFINE n == Len(u)
           e == Enlarged(u, w)
<1>1. /\ n \in 1..3 /\ u \in [1..n -> Interval] /\ w \in [1..n -> Interval] /\ DOMAIN u = 1..n
  BY KeyForm
<1>2. \A i \in 1..n : e[i] = <<SmallerOf(u[i][1], w[i][1]), LargerOf(u[i][2], w[i][2])>>
  BY <1>1 DEF Enlarged
<1>3. DOMAIN e = 1..n /\ e = [i \in 1..n |-> e[i]]
  BY <1>1 DEF Enlarged
<1> HIDE DEF e, n
<1>4. ASSUME NEW i \in 1..n
      PROVE  /\ e[i] \in Interval /\ Encloses(e[i], u[i]) /\ Encloses(e[i], w[i])
             /\ \A side \in 1..2 : e[i][side] \in {u[i][side], w[i][side]}
             /\ Padded(e, i) <=> Padded(u, i) \/ Padded(w, i)
  <2> DEFINE a == u[i]
             b == w[i]
             h == e[i]
  <2>1. a \in Interval /\ b \in Interval /\ h = <<SmallerOf(a[1], b[1]), LargerOf(a[2], b[2])>>
    BY <1>1, <1>2
  <2> HIDE DEF a, b, h
  <2>2. /\ h \in Interval /\ Encloses(h, a) /\ Encloses(h, b)
        /\ \A side \in 1..2 : h[side] \in {a[side], b[side]}
        /\ h[2] = FltMax <=> a[2] = FltMax \/ b[2] = FltMax
    BY <2>1, HullForm
  <2> QED BY <2>2 DEF a, b, h, Padded
<1>5. e \in [1..n -> Interval]
  BY <1>3, <1>4
<1>6. ~Padded(e, 1)
  BY <1>1, <1>4, KeyForm
<1>7. e \in Key /\ Len(e) = n
  BY <1>1, <1>5, <1>6, FormKey
<1> QED BY <1>4, <1>7 DEF e, n

\* The union stays one of the class, and has no side of its own.
LEMMA JoinForm ==
  ASSUME NEW t \in Table, NEW u \in Keys(t), NEW w \in Keys(t), Len(u) = Len(w)
  PROVE  /\ Join(u, w) \in Keys(t) /\ Len(Join(u, w)) = Len(u)
         /\ \A i \in 1..Len(u) : \A side \in 1..2 : Join(u, w)[i][side] \in {u[i][side], w[i][side]}
BY EnlargedForm DEF Join, Keys

\* Reaching is passed on by enclosure.
LEMMA EnclosesPasses ==
  ASSUME NEW a \in Interval, NEW b \in Interval, NEW c \in Interval, Encloses(a, b), Encloses(b, c)
  PROVE  Encloses(a, c)
BY IntervalForm DEF Encloses

\* When both boxes miss the same dimensions, the union of them does, and reaches what
\* either reaches.
LEMMA JoinReaches ==
  ASSUME NEW t \in Table, NEW u \in Keys(t), NEW w \in Keys(t), Alike(u, w)
  PROVE  /\ Alike(Join(u, w), u)
         /\ \A v \in Key : Reaches(u, v) \/ Reaches(w, v) => Reaches(Join(u, w), v)
<1> DEFINE j == Join(u, w)
           n == Len(u)
<1>1. /\ u \in Key /\ w \in Key /\ Len(w) = n /\ n \in 1..3 /\ j \in Keys(t) /\ j \in Key /\ Len(j) = n
      /\ u \in [1..n -> Interval] /\ w \in [1..n -> Interval] /\ j \in [1..n -> Interval]
      /\ DOMAIN u = 1..n /\ DOMAIN w = 1..n
  BY JoinForm, KeyForm DEF Keys, Alike
<1>2. \A i \in 1..n : Padded(u, i) <=> Padded(w, i)
  BY DEF Alike
<1>3. ASSUME NEW i \in 1..n
      PROVE  /\ Padded(j, i) <=> Padded(u, i)
             /\ ~Padded(j, i) => Encloses(j[i], u[i]) /\ Encloses(j[i], w[i])
  <2>1. CASE gidx_contains(u, w)
    <3>1. j = u
      BY <2>1 DEF Join
    <3>2. Encloses(u[i], u[i])
      BY <1>1, IntervalForm DEF Encloses
    <3>3. ~Padded(u, i) => Encloses(u[i], w[i])
      BY <1>1, <1>2, <2>1 DEF gidx_contains, Shared, Padded
    <3> QED BY <3>1, <3>2, <3>3
  <2>2. CASE ~gidx_contains(u, w)
    <3>1. j = Enlarged(u, w)
      BY <2>2 DEF Join
    <3> QED BY <1>1, <1>2, <3>1, EnlargedForm
  <2> QED BY <2>1, <2>2
<1> HIDE DEF j
<1>4. Alike(j, u)
  BY <1>1, <1>3 DEF Alike
<1>5. ASSUME NEW v \in Key, Reaches(u, v) \/ Reaches(w, v)
      PROVE  Reaches(j, v)
  <2>1. n <= Len(v) /\ Len(v) \in 1..3 /\ v \in [1..Len(v) -> Interval]
    BY <1>1, <1>5, KeyForm DEF Reaches
  <2>2. ASSUME NEW i \in 1..n, ~Padded(j, i)
        PROVE  ~Padded(v, i) /\ Encloses(j[i], v[i])
    <3>1. u[i] \in Interval /\ w[i] \in Interval /\ j[i] \in Interval /\ v[i] \in Interval
      BY <1>1, <2>1
    <3>2. ~Padded(u, i) /\ ~Padded(w, i) /\ Encloses(j[i], u[i]) /\ Encloses(j[i], w[i])
      BY <1>2, <1>3, <2>2
    <3>3. ~Padded(v, i) /\ (Encloses(u[i], v[i]) \/ Encloses(w[i], v[i]))
      BY <1>1, <1>5, <3>2 DEF Reaches
    <3> QED BY <3>1, <3>2, <3>3, EnclosesPasses
  <2> QED BY <1>1, <2>1, <2>2 DEF Reaches
<1> QED BY <1>4, <1>5 DEF j

-----------------------------------------------------------------------------
(* What becomes of a column.                                                   *)

\* The column c with the box w taken into its union.
Joined(c, w) == [c EXCEPT !.union = Join(c.union, w)]

\* The cases of adding the value v to the column c, with the outcome r.
AddsNull(c, v, r) == v = Null /\ r = [c EXCEPT !.hasnulls = TRUE]
AddsNothing(t, c, v, r) ==
  /\ v # Null /\ r \in {c, [c EXCEPT !.containsEmpty = TRUE]}
  /\ \/ t.class # "2d" /\ (v = EMPTY \/ (~c.allnulls /\ c.unmergeable))
     \/ t.class = "2d" /\ ~c.allnulls /\ (v = EMPTY \/ c.union = NaN)
AddsNoBox(t, c, v, r) == t.class = "2d" /\ v = EMPTY /\ r = First(c, NaN)
AddsFirst(t, c, v, r) == Boxed(v) /\ c.allnulls /\ r = First(c, Clip(t, v))
GivesUp(t, c, v, r) == /\ Boxed(v) /\ ~c.allnulls /\ c.union \in Keys(t)
                       /\ Len(c.union) # Len(v) /\ r = [c EXCEPT !.unmergeable = TRUE]
AddsBox(t, c, v, r) == /\ Boxed(v) /\ ~c.allnulls /\ c.union \in Keys(t)
                       /\ Len(c.union) = Width(t, v) /\ r = Joined(c, Clip(t, v))
Adds(t, c, v, r) ==
  \/ AddsNull(c, v, r)
  \/ AddsNothing(t, c, v, r)
  \/ AddsNoBox(t, c, v, r)
  \/ AddsFirst(t, c, v, r)
  \/ GivesUp(t, c, v, r)
  \/ AddsBox(t, c, v, r)

\* A union is not the box of an EMPTY geometry, in the 2D class.
LEMMA KeyIsNoNaN ==
  ASSUME NEW t \in Table, t.class = "2d", NEW u \in Keys(t)
  PROVE  u # NaN /\ Len(u) = 1 /\ u[1] \in Interval /\ DOMAIN u = 1..1
<1>1. u \in [1..Len(u) -> Interval] /\ Len(u) \in 1..3 /\ Len(u) <= 1
  BY KeyForm, DimsOf DEF Keys
<1>2. Len(u) = 1
  BY <1>1
<1>3. u = <<u[1]>> /\ u[1] \in Interval
  BY <1>1, <1>2
<1> QED BY <1>1, <1>2, <1>3, BrinAssumption

\* In the 2D class one box contains another when it does by the test of the others,
\* as X and Y are there.
LEMMA SameContains ==
  ASSUME NEW t \in Table, t.class = "2d", NEW u \in Keys(t), NEW w \in Keys(t)
  PROVE  box2df_contains(u, w) <=> gidx_contains(u, w)
<1>1. /\ u # NaN /\ DOMAIN u = 1..1 /\ w # NaN /\ DOMAIN w = 1..1
  BY KeyIsNoNaN
<1>2. ~Padded(u, 1) /\ ~Padded(w, 1)
  BY KeyForm DEF Keys
<1>3. Shared(u, w) = {1}
  BY <1>1, <1>2 DEF Shared, Padded
<1> QED BY <1>1, <1>3 DEF box2df_contains, gidx_contains

\* A column with its own union in place of itself is the column.
LEMMA SameUnion ==
  ASSUME NEW c \in Column
  PROVE  [c EXCEPT !.union = c.union] = c
BY DEF Column

\* The 2D class.
LEMMA FlatAdds ==
  ASSUME table \in Table, table.class = "2d", NEW c, Typed(table, c), NEW v \in table.values
  PROVE  Adds(table, c, v, geom2d_brin_inclusion_add_value(c, v))
<1> DEFINE r == geom2d_brin_inclusion_add_value(c, v)
           box == gserialized_datum_get_box2df_p(v)
<1>1. CASE v = Null
  BY <1>1 DEF geom2d_brin_inclusion_add_value, Adds, AddsNull
<1>2. CASE v # Null /\ c.allnulls
  <2>1. r = First(c, box)
    BY <1>2 DEF geom2d_brin_inclusion_add_value
  <2>2. CASE v = EMPTY
    BY <1>2, <2>1, <2>2 DEF gserialized_datum_get_box2df_p, Adds, AddsNoBox
  <2>3. CASE v # EMPTY
    <3>1. v \in Boxes(table.values) /\ Boxed(v)
      BY <1>2, <2>3 DEF Boxes, Boxed
    <3>2. box = Clip(table, v)
      BY <3>1, FlatIsClip
    <3> QED BY <1>2, <2>1, <3>1, <3>2 DEF Adds, AddsFirst
  <2> QED BY <2>2, <2>3
<1>3. CASE v # Null /\ ~c.allnulls
  <2>1. r = IF box2df_contains(c.union, box) THEN c ELSE [c EXCEPT !.union = Enlarged(c.union, box)]
    BY <1>3 DEF geom2d_brin_inclusion_add_value
  <2>2. CASE v = EMPTY \/ c.union = NaN
    <3>1. box2df_contains(c.union, box)
      BY <2>2 DEF gserialized_datum_get_box2df_p, box2df_contains
    <3> QED BY <1>3, <2>1, <2>2, <3>1 DEF Adds, AddsNothing
  <2>3. CASE v # EMPTY /\ c.union # NaN
    <3>1. v \in Boxes(table.values) /\ Boxed(v)
      BY <1>3, <2>3 DEF Boxes, Boxed
    <3>2. box = Clip(table, v) /\ Clip(table, v) \in Keys(table) /\ Width(table, v) = 1
      BY <3>1, FlatIsClip, ClipForm
    <3>3. c \in Column /\ c.union \in Keys(table)
      BY <1>3, <2>3 DEF Typed
    <3>4. Len(c.union) = 1 /\ (box2df_contains(c.union, box) <=> gidx_contains(c.union, box))
      BY <3>2, <3>3, KeyIsNoNaN, SameContains
    <3>5. r = [c EXCEPT !.union = Join(c.union, box)]
      BY <2>1, <3>3, <3>4, SameUnion DEF Join
    <3> QED BY <1>3, <3>1, <3>2, <3>3, <3>4, <3>5 DEF Adds, AddsBox, Joined
  <2> QED BY <2>2, <2>3
<1>4. c.allnulls \in BOOLEAN
  BY DEF Typed, Column
<1> QED BY <1>1, <1>2, <1>3, <1>4

\* The other classes.
LEMMA GidxAdds ==
  ASSUME table \in Table, table.class # "2d", NEW c, Typed(table, c), NEW v \in table.values
  PROVE  Adds(table, c, v, gidx_brin_inclusion_add_value(table.class, c, v))
<1> DEFINE r == gidx_brin_inclusion_add_value(table.class, c, v)
<1>0. c \in Column /\ c.allnulls \in BOOLEAN /\ c.unmergeable \in BOOLEAN
  BY DEF Typed, Column
<1>1. CASE v = Null
  <2>1. v # EMPTY
    BY <1>1, BrinAssumption
  <2>2. r = [c EXCEPT !.hasnulls = TRUE]
    BY <1>1, <2>1 DEF gidx_brin_inclusion_add_value
  <2> QED BY <1>1, <2>2 DEF Adds, AddsNull
<1>2. CASE v # Null /\ ~c.allnulls /\ c.unmergeable
  <2>1. r = c
    BY <1>2 DEF gidx_brin_inclusion_add_value
  <2> QED BY <1>2, <2>1 DEF Adds, AddsNothing
<1>3. CASE v = EMPTY /\ ~(~c.allnulls /\ c.unmergeable)
  <2>1. v # Null
    BY <1>3, BrinAssumption
  <2>2. r = [c EXCEPT !.containsEmpty = TRUE]
    BY <1>3, <2>1 DEF gidx_brin_inclusion_add_value
  <2> QED BY <1>3, <2>1, <2>2 DEF Adds, AddsNothing
<1>4. CASE Boxed(v) /\ c.allnulls
  <2>1. r = First(c, Clipped(v, max_dims(table.class)))
    BY <1>4 DEF gidx_brin_inclusion_add_value, Boxed
  <2>2. v \in Boxes(table.values)
    BY <1>4 DEF Boxes
  <2> QED BY <1>4, <2>1, <2>2, ClippedIsClip DEF Adds, AddsFirst
<1>5. CASE Boxed(v) /\ ~c.allnulls /\ ~c.unmergeable
  <2>1. r = IF Len(c.union) # Len(v) THEN [c EXCEPT !.unmergeable = TRUE]
            ELSE IF gidx_contains(c.union, v) THEN c
            ELSE [c EXCEPT !.union = Enlarged(c.union, v)]
    BY <1>5 DEF gidx_brin_inclusion_add_value, Boxed
  <2>2. v \in Boxes(table.values) /\ c.union \in Keys(table)
    BY <1>5 DEF Boxes, Typed
  <2>3. CASE Len(c.union) # Len(v)
    BY <1>5, <2>1, <2>2, <2>3 DEF Adds, GivesUp
  <2>4. CASE Len(c.union) = Len(v)
    <3>1. Len(v) <= max_dims(table.class) /\ v \in Key
      BY <2>2, <2>4, BoxForm DEF Keys
    <3>2. Width(table, v) = Len(v)
      BY <2>2, <3>1, ClipForm
    <3>3. Clip(table, v) = v
      BY <3>1, <3>2, KeyForm DEF Clip
    <3>4. r = [c EXCEPT !.union = Join(c.union, v)]
      BY <1>0, <2>1, <2>4, SameUnion DEF Join
    <3> QED BY <1>5, <2>2, <2>4, <3>2, <3>3, <3>4 DEF Adds, AddsBox, Joined
  <2> QED BY <2>3, <2>4
<1> QED BY <1>0, <1>1, <1>2, <1>3, <1>4, <1>5 DEF Boxed

\* What add_value does.
LEMMA AddCases ==
  ASSUME table \in Table, NEW c, Typed(table, c), NEW v \in table.values
  PROVE  Adds(table, c, v, add_value(c, v))
BY FlatAdds, GidxAdds DEF add_value

\* Adding a value leaves the column well typed.
LEMMA AddTyped ==
  ASSUME NEW t \in Table, NEW c, Typed(t, c), NEW v \in t.values, NEW r, Adds(t, c, v, r)
  PROVE  Typed(t, r)
<1>0. c \in Column
  BY DEF Typed
<1>1. CASE AddsNull(c, v, r)
  BY <1>0, <1>1 DEF AddsNull, Typed, Column
<1>2. CASE AddsNothing(t, c, v, r)
  BY <1>0, <1>2 DEF AddsNothing, Typed, Column
<1>3. CASE AddsNoBox(t, c, v, r)
  BY <1>0, <1>3 DEF AddsNoBox, First, Typed, Column
<1>4. CASE AddsFirst(t, c, v, r)
  <2>1. Clip(t, v) \in Keys(t)
    BY <1>4, ClipForm DEF AddsFirst, Boxes
  <2> QED BY <1>0, <1>4, <2>1 DEF AddsFirst, First, Typed, Column, Keys
<1>5. CASE GivesUp(t, c, v, r)
  BY <1>0, <1>5 DEF GivesUp, Typed, Column
<1>6. CASE AddsBox(t, c, v, r)
  <2>1. Clip(t, v) \in Keys(t) /\ Len(Clip(t, v)) = Width(t, v)
    BY <1>6, ClipForm DEF AddsBox, Boxes
  <2>2. Join(c.union, Clip(t, v)) \in Keys(t)
    BY <1>6, <2>1, JoinForm DEF AddsBox
  <2> QED BY <1>0, <1>6, <2>2 DEF AddsBox, Joined, Typed, Column, Keys
<1> QED BY <1>1, <1>2, <1>3, <1>4, <1>5, <1>6 DEF Adds

\* What a column says is said of more values.
LEMMA SelectiveOfMore ==
  ASSUME NEW t, NEW c, NEW H, NEW G, H \subseteq G, Selective(t, c, H)
  PROVE  Selective(t, c, G)
<1>1. Boxes(H) \subseteq Boxes(G)
  BY DEF Boxes
<1> QED BY <1>1 DEF Selective, Sides, Mixed

\* A union whose sides are sides of two others is as tight as they are.
LEMMA SidesOfTwo ==
  ASSUME NEW H, NEW u, NEW w, NEW j, Sides(u, H), Sides(w, H), Len(j) = Len(u), Len(w) = Len(u),
         \A i \in 1..Len(u) : \A side \in 1..2 : j[i][side] \in {u[i][side], w[i][side]}
  PROVE  Sides(j, H)
<1> SUFFICES ASSUME NEW i \in 1..Len(u), NEW side \in 1..2
             PROVE  \E v \in Boxes(H) : Len(v) >= i /\ v[i][side] = j[i][side]
  BY DEF Sides
<1>1. CASE j[i][side] = u[i][side]
  BY <1>1 DEF Sides
<1>2. CASE j[i][side] = w[i][side]
  BY <1>2 DEF Sides
<1> QED BY <1>1, <1>2

\* What the class stores of a value has the sides of the value.
LEMMA ClipSides ==
  ASSUME NEW t \in Table, NEW H, H \subseteq t.values, NEW v \in Boxes(H)
  PROVE  Sides(Clip(t, v), H)
<1>1. v \in Boxes(t.values)
  BY DEF Boxes
<1>2. /\ Len(Clip(t, v)) = Width(t, v) /\ \A i \in 1..Width(t, v) : Clip(t, v)[i] = v[i]
      /\ Width(t, v) <= Len(v) /\ Width(t, v) \in 1..3 /\ Len(v) \in 1..3
  BY <1>1, ClipForm
<1> QED BY <1>2 DEF Sides

\* With a value added the column says no more than the values and that one.
LEMMA AddSelective ==
  ASSUME NEW t \in Table, NoEmpty(t), NEW H, H \subseteq t.values,
         NEW c, Typed(t, c), Selective(t, c, H),
         NEW v \in H, NEW r, Adds(t, c, v, r)
  PROVE  Selective(t, r, H)
<1>0. c \in Column
  BY DEF Typed
<1>1. CASE AddsNull(c, v, r)
  BY <1>0, <1>1 DEF AddsNull, Selective, Column
<1>2. CASE AddsNothing(t, c, v, r)
  BY <1>0, <1>2 DEF AddsNothing, Selective, Column
<1>3. CASE AddsNoBox(t, c, v, r)
  BY <1>3 DEF AddsNoBox, NoEmpty
<1>4. CASE AddsFirst(t, c, v, r)
  <2>1. v \in Boxes(H) /\ v \in Boxes(t.values)
    BY <1>4 DEF AddsFirst, Boxes
  <2>2. Clip(t, v) \in Keys(t) /\ Sides(Clip(t, v), H) /\ Len(Clip(t, v)) = Width(t, v)
    BY <2>1, ClipForm, ClipSides
  <2>3. r.union = Clip(t, v) /\ ~r.unmergeable
    BY <1>0, <1>4 DEF AddsFirst, First, Column
  <2> QED BY <2>1, <2>2, <2>3 DEF Selective
<1>5. CASE GivesUp(t, c, v, r)
  <2>1. v \in Boxes(H) /\ v \in Boxes(t.values)
    BY <1>5 DEF GivesUp, Boxes
  <2>2. PICK w \in Boxes(H) : Len(c.union) = Width(t, w)
    BY <1>5 DEF GivesUp, Selective
  <2>3. w \in Boxes(t.values)
    BY DEF Boxes
  <2>4. Len(v) # Len(w) \/ Len(w) > max_dims(t.class)
    <3>1. Len(w) \in 1..3 /\ max_dims(t.class) \in 1..3
      BY <2>3, ClipForm, DimsOf
    <3> QED BY <1>5, <2>2, <2>3, <3>1, ClipForm DEF GivesUp
  <2>5. Mixed(t, H)
    BY <2>1, <2>4 DEF Mixed
  <2>6. r.allnulls = c.allnulls /\ r.union = c.union
    BY <1>0, <1>5 DEF GivesUp, Column
  <2> QED BY <2>5, <2>6 DEF Selective
<1>6. CASE AddsBox(t, c, v, r)
  <2>1. v \in Boxes(H) /\ v \in Boxes(t.values)
    BY <1>6 DEF AddsBox, Boxes
  <2> DEFINE w == Clip(t, v)
             j == Join(c.union, w)
  <2>2. w \in Keys(t) /\ Sides(w, H) /\ Len(w) = Len(c.union)
    BY <1>6, <2>1, ClipForm, ClipSides DEF AddsBox
  <2>3. c.union \in Keys(t) /\ Sides(c.union, H) /\ \E x \in Boxes(H) : Len(c.union) = Width(t, x)
    BY <1>6 DEF AddsBox, Selective
  <2>4. /\ j \in Keys(t) /\ Len(j) = Len(c.union)
        /\ \A i \in 1..Len(c.union) : \A side \in 1..2 : j[i][side] \in {c.union[i][side], w[i][side]}
    <3> HIDE DEF w
    <3> QED BY <2>2, <2>3, JoinForm
  <2>5. r.allnulls = c.allnulls /\ r.union = j /\ r.unmergeable = c.unmergeable
    BY <1>0, <1>6 DEF AddsBox, Joined, Column
  <2> HIDE DEF j, w
  <2>6. Sides(j, H)
    BY <2>2, <2>3, <2>4, SidesOfTwo
  <2> QED BY <2>3, <2>4, <2>5, <2>6 DEF Selective
<1> QED BY <1>1, <1>2, <1>3, <1>4, <1>5, <1>6 DEF Adds

\* Having the same dimensions is passed on.
LEMMA AlikeTransitive ==
  ASSUME NEW u, NEW w, NEW x, Alike(u, w), Alike(w, x)
  PROVE  Alike(u, x)
BY DEF Alike

\* It goes both ways.
LEMMA AlikeSymmetric ==
  ASSUME NEW u, NEW w, Alike(u, w)
  PROVE  Alike(w, u)
BY DEF Alike

\* In an even column the union has the dimensions of every value with as many.
LEMMA ShapedLike ==
  ASSUME NEW t \in Table, Even(t), NEW c, Shaped(t, c), ~c.allnulls,
         NEW v \in Boxes(t.values), Len(c.union) = Width(t, v)
  PROVE  Alike(c.union, Clip(t, v))
<1>1. PICK x \in Boxes(t.values) : Alike(c.union, Clip(t, x))
  BY DEF Shaped
<1>2. Width(t, x) = Width(t, v)
  BY <1>1, ClipForm DEF Alike
<1>3. Alike(Clip(t, x), Clip(t, v))
  BY <1>2 DEF Even
<1> QED BY <1>1, <1>3, AlikeTransitive

\* What the class stores of a geometry reaches it.
LEMMA ClipReaches ==
  ASSUME NEW t \in Table, NEW v \in Boxes(t.values)
  PROVE  Reaches(Clip(t, v), v)
<1>1. /\ Len(Clip(t, v)) = Width(t, v) /\ \A i \in 1..Width(t, v) : Clip(t, v)[i] = v[i]
      /\ Width(t, v) <= Len(v) /\ Width(t, v) \in 1..3 /\ Len(v) \in 1..3
  BY ClipForm
<1>2. v \in [1..Len(v) -> Interval]
  BY BoxForm, KeyForm
<1>3. \A i \in 1..Width(t, v) : Encloses(v[i], v[i])
  BY <1>1, <1>2, IntervalForm DEF Encloses
<1> QED BY <1>1, <1>3 DEF Reaches, Padded

\* With a value added the column has the dimensions of some value, allows for what it
\* did and for that value (add_value of both files).
LEMMA AddCovers ==
  ASSUME NEW t \in Table, NoEmpty(t), Even(t), NEW c, Typed(t, c), Shaped(t, c),
         NEW v \in t.values, NEW r, Adds(t, c, v, r)
  PROVE  /\ Shaped(t, r) /\ Covers(r, v)
         /\ \A w \in t.values : Covers(c, w) => Covers(r, w)
<1>0. c \in Column
  BY DEF Typed
<1>1. CASE AddsNull(c, v, r)
  <2>1. /\ r.hasnulls /\ r.allnulls = c.allnulls /\ r.union = c.union /\ r.unmergeable = c.unmergeable
    BY <1>0, <1>1 DEF AddsNull, Column
  <2> QED BY <1>1, <2>1 DEF AddsNull, Shaped, Covers, Boxed
<1>2. CASE AddsNothing(t, c, v, r)
  <2>1. /\ r.hasnulls = c.hasnulls /\ r.allnulls = c.allnulls /\ r.union = c.union
        /\ r.unmergeable = c.unmergeable
    BY <1>0, <1>2 DEF AddsNothing, Column
  <2>2. v = EMPTY \/ (~c.allnulls /\ c.unmergeable)
    <3>1. CASE t.class = "2d" /\ c.union = NaN /\ ~c.allnulls
      BY <3>1, KeyIsNoNaN DEF Shaped
    <3> QED BY <1>2, <3>1 DEF AddsNothing
  <2>3. Covers(r, v)
    BY <1>2, <2>1, <2>2 DEF AddsNothing, Covers, Boxed
  <2> QED BY <2>1, <2>3 DEF Shaped, Covers
<1>3. CASE AddsNoBox(t, c, v, r)
  BY <1>3 DEF AddsNoBox, NoEmpty
<1>4. CASE AddsFirst(t, c, v, r)
  <2>1. v \in Boxes(t.values)
    BY <1>4 DEF AddsFirst, Boxes
  <2>2. ~r.allnulls /\ r.union = Clip(t, v) /\ r.hasnulls = c.hasnulls
    BY <1>0, <1>4 DEF AddsFirst, First, Column
  <2>3. Clip(t, v) \in Keys(t) /\ Reaches(Clip(t, v), v) /\ Alike(Clip(t, v), Clip(t, v))
    BY <2>1, ClipForm, ClipReaches DEF Alike
  <2>4. Covers(r, v)
    BY <1>4, <2>2, <2>3 DEF AddsFirst, Covers, Boxed
  <2>5. \A w \in t.values : Covers(c, w) => Covers(r, w)
    BY <1>4, <2>2 DEF AddsFirst, Covers
  <2>6. Shaped(t, r)
    BY <2>1, <2>2, <2>3 DEF Shaped
  <2> QED BY <2>4, <2>5, <2>6
<1>5. CASE GivesUp(t, c, v, r)
  <2>1. /\ r.hasnulls = c.hasnulls /\ r.allnulls = c.allnulls /\ r.union = c.union /\ r.unmergeable
    BY <1>0, <1>5 DEF GivesUp, Column
  <2> QED BY <1>5, <2>1 DEF GivesUp, Covers, Shaped, Boxed
<1>6. CASE AddsBox(t, c, v, r)
  <2>1. v \in Boxes(t.values) /\ Boxed(v) /\ ~c.allnulls
    BY <1>6 DEF AddsBox, Boxes
  <2> DEFINE u == c.union
             k == Clip(t, v)
             j == Join(u, k)
  <2>2. u \in Keys(t) /\ k \in Keys(t) /\ Alike(u, k) /\ Reaches(k, v) /\ v \in Key
    BY <1>6, <2>1, ClipForm, ClipReaches, ShapedLike, BoxForm DEF AddsBox
  <2>3. /\ r.hasnulls = c.hasnulls /\ ~r.allnulls /\ r.union = j /\ r.unmergeable = c.unmergeable
    BY <1>0, <1>6 DEF AddsBox, Joined, Column
  <2>4. \A w \in t.values : Boxed(w) => w \in Key
    BY BoxForm DEF Boxes
  <2> HIDE DEF u, k
  <2>5. /\ j \in Keys(t) /\ Alike(j, u)
        /\ \A w \in Key : Reaches(u, w) \/ Reaches(k, w) => Reaches(j, w)
    BY <2>2, JoinForm, JoinReaches DEF Alike
  <2> HIDE DEF j
  <2>6. Alike(j, k)
    BY <2>2, <2>5, AlikeTransitive
  <2>7. Shaped(t, r)
    BY <2>1, <2>3, <2>5, <2>6 DEF Shaped, k
  <2>8. Covers(r, v)
    BY <2>1, <2>2, <2>3, <2>5 DEF Covers, Boxed
  <2>9. \A w \in t.values : Covers(c, w) => Covers(r, w)
    BY <2>3, <2>4, <2>5 DEF Covers, u
  <2> QED BY <2>7, <2>8, <2>9
<1> QED BY <1>1, <1>2, <1>3, <1>4, <1>5, <1>6 DEF Adds

\* The cases of uniting the columns a and b, with the outcome r.
Both(a, b, u, given) == [a EXCEPT !.hasnulls = a.hasnulls \/ b.hasnulls,
                                  !.containsEmpty = a.containsEmpty \/ b.containsEmpty,
                                  !.union = u, !.unmergeable = given]
NothingToUnite(a, b, r) == b.allnulls /\ r = [a EXCEPT !.hasnulls = a.hasnulls \/ b.hasnulls]
Takes(a, b, r) == ~b.allnulls /\ a.allnulls /\ r = [b EXCEPT !.hasnulls = a.hasnulls \/ b.hasnulls]
Parts(t, a, b, r) ==
  /\ ~a.allnulls /\ ~b.allnulls /\ r = Both(a, b, a.union, TRUE)
  /\ \/ a.unmergeable \/ b.unmergeable
     \/ a.union \in Keys(t) /\ b.union \in Keys(t) /\ Len(a.union) # Len(b.union)
KeepsNaN(t, a, b, r) ==
  /\ ~a.allnulls /\ ~b.allnulls /\ r = Both(a, b, a.union, FALSE)
  /\ t.class = "2d" /\ NaN \in {a.union, b.union}
Merges(t, a, b, r) ==
  /\ ~a.allnulls /\ ~b.allnulls /\ a.union \in Keys(t) /\ b.union \in Keys(t)
  /\ Len(a.union) = Len(b.union) /\ r = Both(a, b, Join(a.union, b.union), FALSE)
  /\ ~a.unmergeable /\ ~b.unmergeable
Unites(t, a, b, r) ==
  \/ NothingToUnite(a, b, r)
  \/ Takes(a, b, r)
  \/ Parts(t, a, b, r)
  \/ KeepsNaN(t, a, b, r)
  \/ Merges(t, a, b, r)

\* What union_tuples does.
LEMMA UnionCases ==
  ASSUME table \in Table, NEW a, NEW b, Typed(table, a), Typed(table, b)
  PROVE  Unites(table, a, b, union_tuples(a, b))
<1> DEFINE r == union_tuples(a, b)
           nulls == [a EXCEPT !.hasnulls = a.hasnulls \/ b.hasnulls]
           apart == ~mergeable(a.union, b.union)
           u == merge(a.union, b.union)
<1>0. /\ a \in Column /\ b \in Column
      /\ a.allnulls \in BOOLEAN /\ b.allnulls \in BOOLEAN /\ a.unmergeable \in BOOLEAN /\ b.unmergeable \in BOOLEAN
  BY DEF Typed, Column
<1>1. CASE b.allnulls
  BY <1>1 DEF union_tuples, Unites, NothingToUnite
<1>2. CASE ~b.allnulls /\ a.allnulls
  <2>1. nulls.hasnulls = (a.hasnulls \/ b.hasnulls)
    BY <1>0 DEF Column
  <2>2. r = [b EXCEPT !.hasnulls = nulls.hasnulls]
    BY <1>2 DEF union_tuples
  <2> QED BY <1>2, <2>1, <2>2 DEF Unites, Takes
<1>3. CASE ~b.allnulls /\ ~a.allnulls /\ (a.unmergeable \/ b.unmergeable \/ apart)
  <2>1. r = Both(a, b, a.union, TRUE)
    <3>1. r = [[nulls EXCEPT !.containsEmpty = nulls.containsEmpty \/ b.containsEmpty] EXCEPT !.unmergeable = TRUE]
      BY <1>3 DEF union_tuples
    <3> QED BY <1>0, <3>1 DEF Both, Column
  <2>2. apart => a.union \in Keys(table) /\ b.union \in Keys(table) /\ Len(a.union) # Len(b.union)
    BY <1>3 DEF mergeable, gidx_brin_inclusion_mergeable, Typed
  <2> QED BY <1>3, <2>1, <2>2 DEF Unites, Parts
<1>4. CASE ~b.allnulls /\ ~a.allnulls /\ ~(a.unmergeable \/ b.unmergeable \/ apart)
  <2>1. r = Both(a, b, u, FALSE)
    <3>1. r = [[nulls EXCEPT !.containsEmpty = nulls.containsEmpty \/ b.containsEmpty] EXCEPT
                 !.union = merge([nulls EXCEPT !.containsEmpty = nulls.containsEmpty \/ b.containsEmpty].union, b.union)]
      BY <1>4 DEF union_tuples
    <3>2. [nulls EXCEPT !.containsEmpty = nulls.containsEmpty \/ b.containsEmpty].union = a.union
      BY <1>0 DEF Column
    <3> HIDE DEF u
    <3>3. r = [[nulls EXCEPT !.containsEmpty = nulls.containsEmpty \/ b.containsEmpty] EXCEPT !.union = u]
      BY <3>1, <3>2 DEF u
    <3> QED BY <1>0, <1>4, <3>3 DEF Both, Column
  <2>2. CASE table.class = "2d" /\ NaN \in {a.union, b.union}
    <3>1. u = a.union
      BY <2>2 DEF merge, geom2d_brin_inclusion_merge, box2df_contains
    <3> QED BY <1>4, <2>1, <2>2, <3>1 DEF Unites, KeepsNaN
  <2>3. CASE table.class = "2d" /\ NaN \notin {a.union, b.union}
    <3>1. a.union \in Keys(table) /\ b.union \in Keys(table)
      BY <1>4, <2>3 DEF Typed
    <3>2. Len(a.union) = Len(b.union)
      BY <2>3, <3>1, KeyIsNoNaN
    <3>3. u = Join(a.union, b.union)
      BY <2>3, <3>1, SameContains DEF merge, geom2d_brin_inclusion_merge, Join
    <3> QED BY <1>4, <2>1, <3>1, <3>2, <3>3 DEF Unites, Merges
  <2>4. CASE table.class # "2d"
    <3>1. a.union \in Keys(table) /\ b.union \in Keys(table) /\ Len(a.union) = Len(b.union)
      BY <1>4, <2>4 DEF Typed, mergeable, gidx_brin_inclusion_mergeable
    <3>2. u = Join(a.union, b.union)
      BY <2>4, <3>1 DEF merge, gidx_brin_inclusion_merge, gidx_brin_inclusion_mergeable, Join
    <3> QED BY <1>4, <2>1, <3>1, <3>2 DEF Unites, Merges
  <2> QED BY <2>2, <2>3, <2>4
<1> QED BY <1>0, <1>1, <1>2, <1>3, <1>4

\* Two columns in one are well typed.
LEMMA UnionTyped ==
  ASSUME NEW t \in Table, NEW a, NEW b, Typed(t, a), Typed(t, b), NEW r, Unites(t, a, b, r)
  PROVE  Typed(t, r)
<1>0. a \in Column /\ b \in Column
  BY DEF Typed
<1>1. CASE NothingToUnite(a, b, r)
  BY <1>0, <1>1 DEF NothingToUnite, Typed, Column
<1>2. CASE Takes(a, b, r)
  BY <1>0, <1>2 DEF Takes, Typed, Column
<1>3. CASE Parts(t, a, b, r) \/ KeepsNaN(t, a, b, r)
  <2>1. /\ ~a.allnulls /\ \E given \in BOOLEAN : r = Both(a, b, a.union, given)
        /\ (t.class = "2d" /\ a.union = NaN) \/ a.union \in Keys(t)
    BY <1>3 DEF Parts, KeepsNaN, Typed
  <2> QED BY <1>0, <2>1 DEF Both, Typed, Keys, Column
<1>4. CASE Merges(t, a, b, r)
  <2>1. Join(a.union, b.union) \in Keys(t) /\ ~a.allnulls /\ r = Both(a, b, Join(a.union, b.union), FALSE)
    BY <1>4, JoinForm DEF Merges
  <2> QED BY <1>0, <2>1 DEF Both, Typed, Keys, Column
<1> QED BY <1>1, <1>2, <1>3, <1>4 DEF Unites

\* Two columns in one say no more than both did.
LEMMA UnionSelective ==
  ASSUME NEW t \in Table, NoEmpty(t), NEW H, H \subseteq t.values, NEW a, NEW b, Typed(t, a), Typed(t, b),
         Selective(t, a, H), Selective(t, b, H), NEW r, Unites(t, a, b, r)
  PROVE  Selective(t, r, H)
<1>0. a \in Column /\ b \in Column
  BY DEF Typed
<1>1. CASE NothingToUnite(a, b, r)
  BY <1>0, <1>1 DEF NothingToUnite, Selective, Column
<1>2. CASE Takes(a, b, r)
  BY <1>0, <1>2 DEF Takes, Selective, Column
<1>3. CASE Parts(t, a, b, r)
  <2>1. r.allnulls = a.allnulls /\ r.union = a.union
    BY <1>0, <1>3 DEF Parts, Both, Column
  <2>2. CASE a.unmergeable \/ b.unmergeable
    BY <2>1, <2>2 DEF Selective
  <2>3. CASE Len(a.union) # Len(b.union)
    <3>1. PICK v \in Boxes(H) : Len(a.union) = Width(t, v)
      BY <1>3 DEF Parts, Selective
    <3>2. PICK w \in Boxes(H) : Len(b.union) = Width(t, w)
      BY <1>3 DEF Parts, Selective
    <3>3. v \in Boxes(t.values) /\ w \in Boxes(t.values)
      BY DEF Boxes
    <3>4. Len(v) # Len(w) \/ Len(v) > max_dims(t.class)
      BY <2>3, <3>1, <3>2, <3>3, DimsOf DEF Width
    <3> QED BY <2>1, <3>4 DEF Selective, Mixed
  <2> QED BY <1>3, <2>2, <2>3 DEF Parts
<1>4. CASE KeepsNaN(t, a, b, r)
  BY <1>4, KeyIsNoNaN DEF KeepsNaN, Selective
<1>5. CASE Merges(t, a, b, r)
  <2> DEFINE u == a.union
             w == b.union
             j == Join(u, w)
  <2>1. /\ u \in Keys(t) /\ w \in Keys(t) /\ Len(u) = Len(w) /\ Sides(u, H) /\ Sides(w, H)
        /\ \E x \in Boxes(H) : Len(u) = Width(t, x)
    BY <1>5 DEF Merges, Selective
  <2>2. r.union = j /\ r.unmergeable = FALSE
    BY <1>0, <1>5 DEF Merges, Both, Column
  <2> HIDE DEF u, w
  <2>3. /\ j \in Keys(t) /\ Len(j) = Len(u)
        /\ \A i \in 1..Len(u) : \A side \in 1..2 : j[i][side] \in {u[i][side], w[i][side]}
    BY <2>1, JoinForm
  <2> HIDE DEF j
  <2>4. Sides(j, H)
    BY <2>1, <2>3, SidesOfTwo
  <2> QED BY <2>1, <2>2, <2>3, <2>4 DEF Selective
<1> QED BY <1>1, <1>2, <1>3, <1>4, <1>5 DEF Unites

\* Two columns in one allow for what either did (merge of both files).
LEMMA UnionCovers ==
  ASSUME NEW t \in Table, Even(t), NEW a, NEW b, Typed(t, a), Typed(t, b), Shaped(t, a), Shaped(t, b),
         NEW r, Unites(t, a, b, r)
  PROVE  /\ Shaped(t, r)
         /\ \A w \in t.values : Covers(a, w) \/ Covers(b, w) => Covers(r, w)
<1>0. a \in Column /\ b \in Column
  BY DEF Typed
<1>1. CASE NothingToUnite(a, b, r)
  <2>1. /\ r.hasnulls = (a.hasnulls \/ b.hasnulls) /\ r.allnulls = a.allnulls /\ r.union = a.union
        /\ r.unmergeable = a.unmergeable
    BY <1>0, <1>1 DEF NothingToUnite, Column
  <2> QED BY <1>1, <2>1, BrinAssumption DEF NothingToUnite, Covers, Shaped, Boxed
<1>2. CASE Takes(a, b, r)
  <2>1. /\ r.hasnulls = (a.hasnulls \/ b.hasnulls) /\ r.allnulls = b.allnulls /\ r.union = b.union
        /\ r.unmergeable = b.unmergeable
    BY <1>0, <1>2 DEF Takes, Column
  <2> QED BY <1>2, <2>1, BrinAssumption DEF Takes, Covers, Shaped, Boxed
<1>3. CASE Parts(t, a, b, r)
  <2>1. r.hasnulls = (a.hasnulls \/ b.hasnulls) /\ ~r.allnulls /\ r.union = a.union /\ r.unmergeable
    BY <1>0, <1>3 DEF Parts, Both, Column
  <2> QED BY <1>3, <2>1 DEF Parts, Covers, Shaped
<1>4. CASE KeepsNaN(t, a, b, r)
  BY <1>4, KeyIsNoNaN DEF KeepsNaN, Shaped
<1>5. CASE Merges(t, a, b, r)
  <2> DEFINE u == a.union
             w == b.union
             j == Join(u, w)
  <2>1. /\ u \in Keys(t) /\ w \in Keys(t) /\ Len(u) = Len(w) /\ ~a.allnulls /\ ~b.allnulls
    BY <1>5 DEF Merges
  <2>2. /\ r.hasnulls = (a.hasnulls \/ b.hasnulls) /\ ~r.allnulls /\ r.union = j /\ r.unmergeable = FALSE
    BY <1>0, <1>5 DEF Merges, Both, Column
  <2>3. PICK x \in Boxes(t.values) : Alike(w, Clip(t, x))
    BY <2>1 DEF Shaped
  <2>4. Len(u) = Width(t, x)
    BY <2>1, <2>3, ClipForm DEF Alike
  <2>5. Alike(u, Clip(t, x))
    BY <2>1, <2>4, ShapedLike
  <2> HIDE DEF u, w
  <2>6. Alike(u, w)
    BY <2>3, <2>5, AlikeTransitive, AlikeSymmetric
  <2>7. /\ j \in Keys(t) /\ Alike(j, u)
        /\ \A v \in Key : Reaches(u, v) \/ Reaches(w, v) => Reaches(j, v)
    BY <2>1, <2>6, JoinForm, JoinReaches
  <2> HIDE DEF j
  <2>8. Shaped(t, r)
    BY <2>2, <2>5, <2>7, AlikeTransitive DEF Shaped
  <2>9. ASSUME NEW v \in t.values, Covers(a, v) \/ Covers(b, v)
        PROVE  Covers(r, v)
    <3>1. CASE v = Null
      BY <2>2, <2>9, <3>1 DEF Covers, Boxed
    <3>2. CASE Boxed(v)
      <4>1. v \in Key
        BY <3>2, BoxForm DEF Boxes
      <4>2. Reaches(u, v) \/ Reaches(w, v)
        BY <1>5, <2>9, <3>2 DEF Covers, Merges, u, w
      <4>3. Reaches(j, v)
        BY <2>7, <4>1, <4>2
      <4> QED BY <2>2, <3>2, <4>3 DEF Covers, Boxed
    <3> QED BY <3>1, <3>2 DEF Covers
  <2> QED BY <2>8, <2>9
<1> QED BY <1>1, <1>2, <1>3, <1>4, <1>5 DEF Unites

\* Storing a column changes nothing of it that is looked at.
LEMMA StoredKeeps ==
  ASSUME NEW t \in Table, NEW c, Typed(t, c)
  PROVE  /\ Typed(t, Stored(c))
         /\ \A H : Selective(t, c, H) => Selective(t, Stored(c), H)
         /\ Shaped(t, c) => Shaped(t, Stored(c))
         /\ \A v : Covers(c, v) => Covers(Stored(c), v)
<1>1. CASE c.allnulls
  <2> DEFINE r == [Fresh EXCEPT !.hasnulls = c.hasnulls]
  <2>1. Stored(c) = r
    BY <1>1 DEF Stored
  <2>2. /\ r \in Column /\ r.allnulls = TRUE /\ r.hasnulls = c.hasnulls /\ r.union = None
        /\ r.unmergeable = FALSE
    BY DEF Fresh, Typed, Column
  <2> HIDE DEF r
  <2> QED BY <1>1, <2>1, <2>2 DEF Typed, Selective, Shaped, Covers
<1>2. CASE ~c.allnulls
  BY <1>2 DEF Stored
<1> QED BY <1>1, <1>2

\* The column of a range without rows.
LEMMA FreshForm ==
  ASSUME NEW t \in Table
  PROVE  /\ Typed(t, Fresh) /\ Shaped(t, Fresh)
         /\ \A H : Selective(t, Fresh, H)
<1>1. Fresh \in Column /\ Fresh.allnulls = TRUE /\ Fresh.unmergeable = FALSE /\ Fresh.union = None
  BY DEF Fresh, Column
<1> QED BY <1>1 DEF Typed, Shaped, Selective

-----------------------------------------------------------------------------
(* The range.                                                                  *)

\* Of the columns that add_value and union_tuples make.
LEMMA AddKeeps ==
  ASSUME table \in Table, NEW c, Typed(table, c), NEW v \in table.values
  PROVE  /\ Typed(table, add_value(c, v))
         /\ NoEmpty(table) => \A H \in SUBSET table.values :
              v \in H /\ Selective(table, c, H) => Selective(table, add_value(c, v), H)
         /\ Regular(table) /\ Shaped(table, c) =>
              /\ Shaped(table, add_value(c, v)) /\ Covers(add_value(c, v), v)
              /\ \A w \in table.values : Covers(c, w) => Covers(add_value(c, v), w)
<1> DEFINE r == add_value(c, v)
<1>1. Adds(table, c, v, r)
  BY AddCases
<1> HIDE DEF r
<1>2. Typed(table, r)
  BY <1>1, AddTyped
<1>3. ASSUME NoEmpty(table), NEW H \in SUBSET table.values, v \in H, Selective(table, c, H)
      PROVE  Selective(table, r, H)
  BY <1>1, <1>3, AddSelective
<1>4. ASSUME Regular(table), Shaped(table, c)
      PROVE  /\ Shaped(table, r) /\ Covers(r, v)
             /\ \A w \in table.values : Covers(c, w) => Covers(r, w)
  <2>1. NoEmpty(table) /\ Even(table)
    BY <1>4 DEF Regular
  <2> QED BY <1>1, <1>4, <2>1, AddCovers
<1> QED BY <1>2, <1>3, <1>4 DEF r

LEMMA UnionKeeps ==
  ASSUME table \in Table, NEW a, NEW b, Typed(table, a), Typed(table, b)
  PROVE  /\ Typed(table, union_tuples(a, b))
         /\ NoEmpty(table) => \A H \in SUBSET table.values :
              Selective(table, a, H) /\ Selective(table, b, H) => Selective(table, union_tuples(a, b), H)
         /\ Regular(table) /\ Shaped(table, a) /\ Shaped(table, b) =>
              /\ Shaped(table, union_tuples(a, b))
              /\ \A w \in table.values : Covers(a, w) \/ Covers(b, w) => Covers(union_tuples(a, b), w)
<1> DEFINE r == union_tuples(a, b)
<1>1. Unites(table, a, b, r)
  BY UnionCases
<1> HIDE DEF r
<1>2. Typed(table, r)
  BY <1>1, UnionTyped
<1>3. ASSUME NoEmpty(table), NEW H \in SUBSET table.values, Selective(table, a, H), Selective(table, b, H)
      PROVE  Selective(table, r, H)
  BY <1>1, <1>3, UnionSelective
<1>4. ASSUME Regular(table), Shaped(table, a), Shaped(table, b)
      PROVE  /\ Shaped(table, r)
             /\ \A w \in table.values : Covers(a, w) \/ Covers(b, w) => Covers(r, w)
  <2>1. Even(table)
    BY <1>4 DEF Regular
  <2> QED BY <1>1, <1>4, <2>1, UnionCovers
<1> QED BY <1>2, <1>3, <1>4 DEF r

\* What the summary becomes when the index entry of v is made.
Updated(v) == [summary EXCEPT !.column = Stored(add_value(summary.column, v))]

LEMMA UpdatedForm ==
  ASSUME WellTyped, summary # None, NEW v \in table.values
  PROVE  /\ Updated(v) \in [placeholder : BOOLEAN, column : Column] /\ Updated(v) # None
         /\ Updated(v).placeholder = summary.placeholder
         /\ Updated(v).column = Stored(add_value(summary.column, v))
         /\ Typed(table, Updated(v).column)
<1> DEFINE k == Stored(add_value(summary.column, v))
<1>1. Typed(table, k)
  BY AddKeeps, StoredKeeps DEF WellTyped
<1>2. k \in Column
  BY <1>1 DEF Typed
<1> HIDE DEF k
<1>3. Updated(v) = [summary EXCEPT !.column = k]
  BY DEF Updated, k
<1>4. summary \in [placeholder : BOOLEAN, column : Column]
  BY DEF WellTyped
<1>5. /\ Updated(v) \in [placeholder : BOOLEAN, column : Column]
      /\ Updated(v).placeholder = summary.placeholder /\ Updated(v).column = k
  BY <1>2, <1>3, <1>4
<1> QED BY <1>1, <1>5, BrinAssumption DEF k

-----------------------------------------------------------------------------
(* The range: the invariant holds at first, and every action keeps it.         *)

LEMMA InitIInv == Init => IInv
BY DEF Init, IInv, WellTyped, Placed, Tight, Complete, Heap

\* A row comes into the heap.
LEMMA HeapInsertKeeps ==
  ASSUME IInv, NEW v \in table.values, HeapInsert(v)
  PROVE  IInv'
<1>1. UNCHANGED <<table, rows, summary, job>> /\ waiting' = waiting \cup {v} /\ WellTyped
  BY DEF HeapInsert, IInv
<1>2. Heap \subseteq Heap'
  BY <1>1 DEF Heap
<1>3. WellTyped' /\ Placed'
  BY <1>1, <1>2 DEF IInv, WellTyped, Placed
<1>4. NoEmpty(table) => Tight'
  BY <1>1, <1>2, SelectiveOfMore DEF IInv, Tight
<1>5. Regular(table) => Complete'
  BY <1>1 DEF IInv, Complete
<1> QED BY <1>1, <1>3, <1>4, <1>5 DEF IInv

\* An index entry is made.
LEMMA IndexInsertKeeps ==
  ASSUME IInv, NEW v \in table.values, IndexInsert(v)
  PROVE  IInv'
<1>1. /\ UNCHANGED <<table, job>> /\ v \in Heap /\ Heap' = Heap /\ rows' = rows \cup {v} /\ WellTyped
      /\ summary' = IF summary = None THEN None ELSE Updated(v)
  BY DEF IndexInsert, IInv, Heap, Updated
<1>2. /\ Heap \in SUBSET table.values /\ table \in Table
      /\ summary # None => Typed(table, summary.column) /\ summary \in [placeholder : BOOLEAN, column : Column]
  BY <1>1 DEF WellTyped, Heap
<1>3. WellTyped'
  <2>1. rows' \cup waiting' \subseteq table.values
    BY <1>1, <1>2 DEF Heap
  <2>2. summary' # None => /\ summary' \in [placeholder : BOOLEAN, column : Column]
                           /\ Typed(table, summary'.column)
    BY <1>1, UpdatedForm
  <2> QED BY <1>1, <2>1, <2>2 DEF WellTyped
<1>6. Placed'
  BY <1>1, UpdatedForm DEF IInv, Placed
<1> DEFINE c == summary.column
           k == add_value(c, v)
<1>4. NoEmpty(table) => Tight'
  <2>1. ASSUME NoEmpty(table), summary # None
        PROVE  Selective(table, summary'.column, Heap)
    <3>1. Selective(table, c, Heap)
      BY <2>1 DEF IInv, Tight
    <3>2. Selective(table, k, Heap) /\ Typed(table, k)
      BY <1>1, <1>2, <2>1, <3>1, AddKeeps
    <3> QED BY <1>1, <1>2, <2>1, <3>2, StoredKeeps, UpdatedForm
  <2> QED BY <1>1, <2>1 DEF IInv, Tight
<1>5. ASSUME Regular(table)
      PROVE  Complete'
  <2>0. Complete
    BY <1>5 DEF IInv
  <2>1. ASSUME summary # None
        PROVE  /\ Shaped(table, summary'.column) /\ Covers(summary'.column, v)
               /\ \A w \in table.values : Covers(c, w) => Covers(summary'.column, w)
               /\ summary'.placeholder = summary.placeholder
    <3>1. Shaped(table, c)
      BY <2>0, <2>1 DEF Complete
    <3>2. /\ Shaped(table, k) /\ Covers(k, v) /\ Typed(table, k)
          /\ \A w \in table.values : Covers(c, w) => Covers(k, w)
      BY <1>2, <1>5, <2>1, <3>1, AddKeeps
    <3>3. summary' # None /\ summary'.placeholder = summary.placeholder /\ summary'.column = Stored(k)
      BY <1>1, <2>1, UpdatedForm
    <3> HIDE DEF k
    <3> QED BY <1>2, <3>2, <3>3, StoredKeeps
  <2>2. rows \subseteq table.values
    BY <1>2 DEF Heap
  <2>3. summary' # None => Shaped(table, summary'.column)
    BY <1>1, <2>1
  <2>4. summary' # None => summary'.placeholder \/ \A w \in rows' : Covers(summary'.column, w)
    BY <1>1, <2>0, <2>1, <2>2 DEF Complete
  <2>5. ASSUME job # None
        PROVE  \A w \in rows' : w \in job.left \/ Covers(job.column, w) \/ Covers(summary'.column, w)
    <3>1. summary # None
      BY <2>5 DEF IInv, Placed
    <3> QED BY <1>1, <2>0, <2>1, <2>2, <2>5, <3>1 DEF Complete
  <2> QED BY <1>1, <2>0, <2>3, <2>4, <2>5 DEF Complete
<1> QED BY <1>1, <1>3, <1>4, <1>5, <1>6 DEF IInv

\* A summarisation starts.
LEMMA StartSummaryKeeps ==
  ASSUME IInv, StartSummary
  PROVE  IInv'
<1>1. /\ UNCHANGED <<table, rows, waiting>> /\ WellTyped /\ Heap' = Heap
      /\ summary' = [placeholder |-> TRUE, column |-> Fresh]
      /\ job' = [column |-> Fresh, left |-> Heap, seen |-> Fresh]
  BY DEF StartSummary, IInv, Heap
<1>2. Typed(table, Fresh) /\ Shaped(table, Fresh) /\ Fresh \in Column /\ \A H : Selective(table, Fresh, H)
  BY <1>1, FreshForm DEF WellTyped, Typed
<1>3. /\ summary' \in [placeholder : BOOLEAN, column : Column] /\ summary'.column = Fresh /\ summary'.placeholder
      /\ job' \in [column : Column, left : SUBSET Heap, seen : Column]
      /\ job'.column = Fresh /\ job'.seen = Fresh /\ job'.left = Heap
  BY <1>1, <1>2
<1>4. summary' # None
  BY <1>3, BrinAssumption
<1>5. WellTyped' /\ Placed'
  BY <1>1, <1>2, <1>3, <1>4 DEF WellTyped, Placed
<1>6. Tight'
  BY <1>1, <1>2, <1>3 DEF Tight
<1>7. Complete'
  BY <1>1, <1>2, <1>3, <1>4 DEF Complete, Heap
<1> QED BY <1>5, <1>6, <1>7 DEF IInv

\* The scan meets a row.
LEMMA ScanRowKeeps ==
  ASSUME IInv, NEW v \in Heap, ScanRow(v)
  PROVE  IInv'
<1> DEFINE c == job.column
           k == add_value(c, v)
<1>1. /\ UNCHANGED <<table, rows, waiting, summary>> /\ WellTyped /\ Heap' = Heap /\ job # None
      /\ job' = [job EXCEPT !.column = k, !.left = job.left \ {v}]
  BY DEF ScanRow, IInv, Heap
<1>2. /\ table \in Table /\ Heap \in SUBSET table.values /\ v \in table.values
      /\ job \in [column : Column, left : SUBSET Heap, seen : Column]
      /\ Typed(table, c) /\ Typed(table, job.seen)
  BY <1>1 DEF WellTyped, Heap
<1>3. Typed(table, k) /\ k \in Column
  BY <1>2, AddKeeps DEF Typed
<1> HIDE DEF k
<1>4. /\ job' \in [column : Column, left : SUBSET Heap, seen : Column]
      /\ job'.column = k /\ job'.left = job.left \ {v} /\ job'.seen = job.seen
  BY <1>1, <1>2, <1>3
<1>5. WellTyped' /\ Placed'
  BY <1>1, <1>2, <1>3, <1>4 DEF IInv, WellTyped, Placed
<1>6. ASSUME NoEmpty(table)
      PROVE  Tight'
  <2>1. Selective(table, c, Heap)
    BY <1>1, <1>6 DEF IInv, Tight
  <2>2. Selective(table, k, Heap)
    BY <1>2, <1>6, <2>1, AddKeeps DEF k
  <2> QED BY <1>1, <1>4, <1>6, <2>2 DEF IInv, Tight
<1>7. ASSUME Regular(table)
      PROVE  Complete'
  <2>1. Complete
    BY <1>7 DEF IInv
  <2>2. Shaped(table, c)
    BY <1>1, <2>1 DEF Complete
  <2>3. /\ Shaped(table, k) /\ Covers(k, v)
        /\ \A w \in table.values : Covers(c, w) => Covers(k, w)
    BY <1>2, <1>7, <2>2, AddKeeps DEF k
  <2>4. rows \subseteq table.values
    BY <1>2 DEF Heap
  <2> QED BY <1>1, <1>4, <2>1, <2>3, <2>4 DEF Complete
<1> QED BY <1>1, <1>5, <1>6, <1>7 DEF IInv

\* What the placeholder gathered is merged.
LEMMA MergePlaceholderKeeps ==
  ASSUME IInv, MergePlaceholder
  PROVE  IInv'
<1> DEFINE a == job.column
           b == summary.column
           k == union_tuples(a, b)
<1>1. /\ UNCHANGED <<table, rows, waiting, summary>> /\ WellTyped /\ Heap' = Heap
      /\ job # None /\ summary # None
      /\ job' = [job EXCEPT !.column = k, !.seen = b]
  BY DEF MergePlaceholder, IInv, Placed, Heap
<1>2. /\ table \in Table /\ Heap \in SUBSET table.values
      /\ job \in [column : Column, left : SUBSET Heap, seen : Column]
      /\ Typed(table, a) /\ Typed(table, b) /\ b \in Column
  BY <1>1 DEF WellTyped, Heap
<1>3. Typed(table, k) /\ k \in Column
  BY <1>2, UnionKeeps DEF Typed
<1> HIDE DEF k
<1>4. /\ job' \in [column : Column, left : SUBSET Heap, seen : Column]
      /\ job'.column = k /\ job'.left = job.left /\ job'.seen = b
  BY <1>1, <1>2, <1>3
<1>5. WellTyped' /\ Placed'
  BY <1>1, <1>2, <1>3, <1>4 DEF IInv, WellTyped, Placed
<1>6. ASSUME NoEmpty(table)
      PROVE  Tight'
  <2>1. Selective(table, a, Heap) /\ Selective(table, b, Heap)
    BY <1>1, <1>6 DEF IInv, Tight
  <2>2. Selective(table, k, Heap)
    BY <1>2, <1>6, <2>1, UnionKeeps DEF k
  <2> QED BY <1>1, <1>4, <1>6, <2>2 DEF IInv, Tight
<1>7. ASSUME Regular(table)
      PROVE  Complete'
  <2>1. Complete
    BY <1>7 DEF IInv
  <2>2. Shaped(table, a) /\ Shaped(table, b)
    BY <1>1, <2>1 DEF Complete
  <2>3. /\ Shaped(table, k)
        /\ \A w \in table.values : Covers(a, w) \/ Covers(b, w) => Covers(k, w)
    BY <1>2, <1>7, <2>2, UnionKeeps DEF k
  <2>4. rows \subseteq table.values
    BY <1>2 DEF Heap
  <2> QED BY <1>1, <1>4, <2>1, <2>3, <2>4 DEF Complete
<1> QED BY <1>1, <1>5, <1>6, <1>7 DEF IInv

\* The summary takes the place of the placeholder, which has not changed since it was
\* merged.
LEMMA FinishSummaryKeeps ==
  ASSUME IInv, FinishSummary
  PROVE  IInv'
<1> DEFINE a == job.column
           k == Stored(a)
<1>1. /\ UNCHANGED <<table, rows, waiting>> /\ WellTyped /\ Heap' = Heap
      /\ job # None /\ summary # None /\ job.left = {} /\ summary.column = job.seen
      /\ summary' = [placeholder |-> FALSE, column |-> k] /\ job' = None
  BY DEF FinishSummary, IInv, Placed, Heap
<1>2. table \in Table /\ Heap \in SUBSET table.values /\ Typed(table, a)
  BY <1>1 DEF WellTyped, Heap
<1>3. /\ Typed(table, k) /\ k \in Column
      /\ \A H : Selective(table, a, H) => Selective(table, k, H)
      /\ Shaped(table, a) => Shaped(table, k)
      /\ \A v : Covers(a, v) => Covers(k, v)
  BY <1>2, StoredKeeps DEF Typed
<1> HIDE DEF k
<1>4. /\ summary' \in [placeholder : BOOLEAN, column : Column]
      /\ summary'.column = k /\ summary'.placeholder = FALSE
  BY <1>1, <1>3
<1>5. WellTyped' /\ Placed'
  BY <1>1, <1>3, <1>4 DEF WellTyped, Placed
<1>6. ASSUME NoEmpty(table)
      PROVE  Tight'
  BY <1>1, <1>3, <1>4, <1>6 DEF IInv, Tight
<1>7. ASSUME Regular(table)
      PROVE  Complete'
  <2>1. Complete
    BY <1>7 DEF IInv
  <2>2. rows \subseteq table.values
    BY <1>2 DEF Heap
  <2>3. \A v \in rows : Covers(a, v)
    BY <1>1, <2>1, <2>2 DEF Complete
  <2>4. Shaped(table, k) /\ \A v \in rows : Covers(k, v)
    BY <1>1, <1>3, <2>1, <2>3 DEF Complete
  <2> QED BY <1>1, <1>4, <2>4 DEF Complete
<1> QED BY <1>1, <1>5, <1>6, <1>7 DEF IInv

\* The summary, or what is there of it, is given up, or nothing happens.
LEMMA OthersKeep ==
  ASSUME IInv, AbortSummary \/ Desummarize \/ UNCHANGED vars
  PROVE  IInv'
<1>1. CASE AbortSummary
  BY <1>1 DEF AbortSummary, IInv, WellTyped, Placed, Tight, Complete, Heap
<1>2. CASE Desummarize
  BY <1>2 DEF Desummarize, IInv, WellTyped, Placed, Tight, Complete, Heap
<1>3. CASE UNCHANGED vars
  BY <1>3 DEF vars, IInv, WellTyped, Placed, Tight, Complete, Heap
<1> QED BY <1>1, <1>2, <1>3

\* Every step keeps the invariant.
LEMMA NextKeeps ==
  ASSUME IInv, [Next]_vars
  PROVE  IInv'
<1>1. CASE Insert
  BY <1>1, HeapInsertKeeps, IndexInsertKeeps DEF Insert
<1>2. CASE Scan
  BY <1>2, ScanRowKeeps DEF Scan
<1> QED BY <1>1, <1>2, StartSummaryKeeps, MergePlaceholderKeeps, FinishSummaryKeeps, OthersKeep DEF Next

\* In every reachable state of the range the invariant holds.
LEMMA Invariance == Spec => []IInv
BY InitIInv, NextKeeps, PTL DEF Spec

-----------------------------------------------------------------------------
(* What a scan finds.                                                          *)

\* A query of one of the n-D classes that meets a box meets every union that reaches it.
LEMMA OverlapsPasses ==
  ASSUME NEW u \in Key, NEW v \in Key, NEW b \in Key, Reaches(u, v), gidx_overlaps(v, b)
  PROVE  gidx_overlaps(u, b)
<1> SUFFICES ASSUME NEW i \in Shared(u, b)
             PROVE  Meets(u[i], b[i])
  BY DEF gidx_overlaps
<1>1. /\ DOMAIN u = 1..Len(u) /\ DOMAIN v = 1..Len(v) /\ DOMAIN b = 1..Len(b)
      /\ u \in [1..Len(u) -> Interval] /\ v \in [1..Len(v) -> Interval] /\ b \in [1..Len(b) -> Interval]
      /\ Len(u) \in 1..3 /\ Len(v) \in 1..3 /\ Len(u) <= Len(v)
  BY KeyForm DEF Reaches
<1>2. i \in 1..Len(u) /\ i \in 1..Len(v) /\ i \in 1..Len(b) /\ ~Padded(u, i) /\ b[i][2] # FltMax
  BY <1>1 DEF Shared, Padded
<1>3. ~Padded(v, i) /\ Encloses(u[i], v[i])
  BY <1>2 DEF Reaches
<1>4. Meets(v[i], b[i])
  BY <1>1, <1>2, <1>3 DEF gidx_overlaps, Shared, Padded
<1>5. u[i] \in Interval /\ v[i] \in Interval /\ b[i] \in Interval
  BY <1>1, <1>2
<1> QED BY <1>3, <1>4, <1>5, IntervalForm DEF Encloses, Meets

\* A query of the 2D class that matches a box finds every union that reaches it.
LEMMA FlatPasses ==
  ASSUME NEW t \in Table, t.class = "2d", NEW u \in Keys(t), NEW v \in Boxes(t.values), Reaches(u, v),
         NEW b, b = NaN \/ (DOMAIN b = 1..1 /\ b[1] \in Interval), NEW op \in {"&&", "~", "@"},
         op = "@" => b # NaN,
         Box2dfTest(op, <<v[1]>>, b)
  PROVE  Box2dfTest(IF op = "@" THEN "&&" ELSE op, u, b)
<1>1. u # NaN /\ Len(u) = 1 /\ u[1] \in Interval
  BY KeyIsNoNaN
<1>2. v \in Key /\ Len(v) \in 1..3 /\ v[1] \in Interval
  BY BoxForm, KeyForm
<1>3. <<v[1]>> # NaN
  BY <1>2, BrinAssumption
<1>4. ~Padded(u, 1)
  BY KeyForm DEF Keys
<1>5. Encloses(u[1], v[1])
  BY <1>1, <1>4 DEF Reaches
<1>6. CASE op = "&&"
  <2>1. b # NaN /\ Meets(v[1], b[1])
    BY <1>6 DEF Box2dfTest, box2df_overlaps
  <2>2. Meets(u[1], b[1])
    BY <1>1, <1>2, <1>5, <2>1, IntervalForm DEF Encloses, Meets
  <2> QED BY <1>1, <1>6, <2>1, <2>2 DEF Box2dfTest, box2df_overlaps
<1>7. CASE op = "~"
  <2>1. b = NaN \/ Encloses(v[1], b[1])
    BY <1>3, <1>7 DEF Box2dfTest, box2df_contains
  <2>2. b = NaN \/ Encloses(u[1], b[1])
    BY <1>1, <1>2, <1>5, <2>1, EnclosesPasses
  <2> QED BY <1>7, <2>2 DEF Box2dfTest, box2df_contains
<1>8. CASE op = "@"
  <2>1. b # NaN /\ Encloses(b[1], v[1])
    BY <1>3, <1>8 DEF Box2dfTest, box2df_within
  <2>2. Meets(u[1], b[1])
    BY <1>1, <1>2, <1>5, <2>1, IntervalForm DEF Encloses, Meets
  <2> QED BY <1>1, <1>8, <2>1, <2>2 DEF Box2dfTest, box2df_overlaps
<1> QED BY <1>6, <1>7, <1>8

\* A summary that allows for a row is returned by every query the row matches.
LEMMA CoversReturns ==
  ASSUME table \in Table, Regular(table), ~Lossy, Typed(table, summary.column), Shaped(table, summary.column),
         NEW v \in table.values, Covers(summary.column, v),
         NEW q \in table.queries, Matches(v, q)
  PROVE  Returned(q)
<1> DEFINE c == summary.column
           u == c.union
<1>1. CASE q.op = "IS NULL"
  BY <1>1 DEF Matches, Returned, Covers
<1>2. CASE q.op = "IS NOT NULL"
  <2>1. v # Null
    BY <1>2 DEF Matches
  <2>2. v # EMPTY
    BY <1>2 DEF Regular, NoEmpty
  <2> QED BY <1>2, <2>1, <2>2 DEF Returned, Covers, Boxed
<1>3. CASE q.op \notin {"IS NULL", "IS NOT NULL"}
  <2>0. AskedOf(table.class, q) /\ v # Null
    BY <1>3, BrinAssumption DEF Matches
  <2>1. v # EMPTY
    BY <1>3 DEF Regular, NoEmpty, Matches
  <2>2. Boxed(v) /\ v \in Boxes(table.values) /\ v \in Key
    BY <2>0, <2>1, BoxForm DEF Boxed, Boxes
  <2>3. ~c.allnulls /\ (c.unmergeable \/ Reaches(u, v)) /\ u \in Keys(table) /\ u \in Key
    BY <2>2 DEF Covers, Shaped, Keys
  <2> SUFFICES ASSUME ~c.unmergeable
               PROVE  IF table.class = "2d"
                      THEN Box2dfTest(IF q.op = "@" THEN "&&" ELSE q.op, u, gserialized_datum_get_box2df_p(q.box))
                      ELSE gidx_overlaps(u, q.box)
    BY <1>3, <2>3 DEF Returned, Consistent
  <2>4. CASE table.class = "2d"
    <3> DEFINE b == gserialized_datum_get_box2df_p(q.box)
    <3>1. q.op \in {"&&", "~", "@"} /\ (q.box = EMPTY \/ q.box \in Box) /\ (q.op = "@" => q.box # EMPTY)
      BY <1>3, <2>0, <2>4 DEF AskedOf, Regular
    <3>2. (b = NaN \/ (DOMAIN b = 1..1 /\ b[1] \in Interval)) /\ (q.op = "@" => b # NaN)
      <4>1. CASE q.box = EMPTY
        BY <3>1, <4>1 DEF gserialized_datum_get_box2df_p
      <4>2. CASE q.box # EMPTY
        <5>1. b = <<q.box[1]>> /\ q.box \in Key
          BY <3>1, <4>2 DEF gserialized_datum_get_box2df_p, Box
        <5>2. q.box[1] \in Interval
          BY <5>1, KeyForm
        <5> QED BY <5>1, <5>2, BrinAssumption
      <4> QED BY <4>1, <4>2
    <3>3. Box2dfTest(q.op, <<v[1]>>, b)
      BY <1>3, <2>1, <2>4 DEF Matches, gserialized_datum_get_box2df_p
    <3> HIDE DEF b
    <3>4. Box2dfTest(IF q.op = "@" THEN "&&" ELSE q.op, u, b)
      BY <2>2, <2>3, <2>4, <3>1, <3>2, <3>3, FlatPasses
    <3> QED BY <2>4, <3>4 DEF b
  <2>5. CASE table.class # "2d"
    <3>1. q.box \in Key /\ gidx_overlaps(v, q.box)
      BY <1>3, <2>0, <2>5 DEF AskedOf, Matches, Box
    <3> QED BY <2>2, <2>3, <2>5, <3>1, OverlapsPasses
  <2> QED BY <2>4, <2>5
<1> QED BY <1>1, <1>2, <1>3

-----------------------------------------------------------------------------
(* The theorems.                                                               *)

\* In every reachable state, for every column, the summary and what a summarisation
\* has so far are well formed and fit the operator class (brin_2d.c, brin_nd.c).
THEOREM TypeCorrect == Spec => []TypeOK
<1>1. IInv => TypeOK
  BY DEF IInv, WellTyped, TypeOK, Fits, Typed, Keys
<1> QED BY <1>1, Invariance, PTL

\* For every column whose geometries have boxes, in every reachable state: the union is
\* no wider than the rows of the range, whatever was merged in which order, and the range
\* is given up only for rows that the class cannot put in one union (add_value and merge
\* of brin_2d.c and brin_nd.c).
THEOREM SelectiveCorrect == Spec => [](NoEmpty(table) => IndexIsSelective)
<1>1. ASSUME IInv, NoEmpty(table)
      PROVE  UnionIsTight
  <2> SUFFICES ASSUME summary # None, ~summary.column.allnulls,
                      NEW i \in DOMAIN summary.column.union, NEW side \in 1..2
               PROVE  \E v \in {w \in Heap : Boxed(w) /\ Len(w) >= i} : v[i][side] = summary.column.union[i][side]
    BY DEF UnionIsTight
  <2>1. summary.column.union \in Keys(table) /\ Sides(summary.column.union, Heap)
    BY <1>1 DEF IInv, Tight, Selective
  <2>2. i \in 1..Len(summary.column.union)
    BY <2>1, KeyForm DEF Keys
  <2> QED BY <2>1, <2>2 DEF Sides, Boxes
<1>2. ASSUME IInv, NoEmpty(table)
      PROVE  UnmergeableOnlyMixed
  BY <1>2 DEF IInv, Tight, Selective, Mixed, Boxes, UnmergeableOnlyMixed
<1>3. IInv => (NoEmpty(table) => IndexIsSelective)
  BY <1>1, <1>2 DEF IndexIsSelective
<1> QED BY <1>3, Invariance, PTL

\* For every regular column, in every reachable state: a query returns the range of every
\* row it matches, after any inserts, summarisations, failures of them and
\* desummarisations (add_value and merge of brin_2d.c and brin_nd.c).
THEOREM RowsCorrect == Spec => [](Regular(table) => RowsFound)
<1>1. ASSUME IInv, Regular(table)
      PROVE  RowsFound
  <2> SUFFICES ASSUME NEW v \in rows, NEW q \in table.queries, Matches(v, q), ~Lossy
               PROVE  Returned(q)
    BY DEF RowsFound, Returned
  <2>1. summary # None /\ ~summary.placeholder
    BY DEF Lossy
  <2>2. table \in Table /\ Typed(table, summary.column) /\ v \in table.values
    BY <1>1, <2>1 DEF IInv, WellTyped
  <2>3. Shaped(table, summary.column) /\ Covers(summary.column, v)
    BY <1>1, <2>1 DEF IInv, Complete
  <2> QED BY <1>1, <2>2, <2>3, CoversReturns
<1>2. IInv => (Regular(table) => RowsFound)
  BY <1>1
<1> QED BY <1>2, Invariance, PTL

=============================================================================
