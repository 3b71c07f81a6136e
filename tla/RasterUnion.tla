---------------------------- MODULE RasterUnion ----------------------------
(***************************************************************************)
(* The raster aggregate ST_Union: RASTER_union_transfn and                  *)
(* RASTER_union_finalfn of src/raster/rt_pg/rtpg_mapalgebra.c over          *)
(* rt_raster_iterator.  The state keeps, for each band of the result, one   *)
(* working raster or, for MEAN and RANGE, two; every raster that comes is   *)
(* burnt into them.                                                        *)
(*                                                                         *)
(* A raster is [ext, bands]: its extent is an interval of pixels of one row *)
(* of an alignment all rasters share, its bands a sequence.  Null, which no *)
(* raster is, has neither pixels nor bands.                                 *)
(***************************************************************************)
EXTENDS RasterCore, Sequences, FiniteSetsExt, Functions

CONSTANTS Tile,     \* the rasters a query may have
          Call,     \* the forms of the aggregate: see AddBands
          Large,    \* the last number of 64BF and of 32BUI
          MaxTiles  \* bound on the rasters of a group

Null == [ext |-> {}, bands |-> <<>>]

UnionType == {"LAST", "FIRST", "MIN", "MAX", "COUNT", "SUM", "MEAN", "RANGE"}

List(s) == Len(s) \in Nat /\ s = [i \in 1..Len(s) |-> s[i]]

\* A pixel type, and a band of one with the pixels P: rt_core keeps every value, and the
\* NODATA value, as a pixel of the type holds it.  No value is the lowest number of 64BF, which
\* a working raster that starts without the band takes for NODATA.
IsPixelType(t) ==
  t.lo \in Int /\ t.hi \in Int /\ t.lo <= 0 /\ 0 <= t.hi /\ t.float \in BOOLEAN /\ t.bit \in BOOLEAN

IsBand(b, P) ==
  /\ IsPixelType(b.type) /\ b.hasnodata \in BOOLEAN /\ b.isnodata \in BOOLEAN
  /\ b.nodataval \in Int /\ Clamp(b.type, b.nodataval) = b.nodataval
  /\ b.data \in [P -> Int] /\ \A p \in P : b.data[p] > -2 * Large /\ Clamp(b.type, b.data[p]) = b.data[p]

ASSUME UnionAssumption ==
  /\ MaxTiles \in Nat /\ Large \in Nat /\ MaxTiles <= Large
  /\ \A r \in Tile : /\ r = [ext |-> r.ext, bands |-> r.bands] /\ List(r.bands)
                     /\ r # Null => r.ext \subseteq Int /\ \E lo, hi \in r.ext : r.ext = lo..hi
                     /\ \A n \in DOMAIN r.bands : IsBand(r.bands[n], r.ext)
  /\ \A c \in Call : /\ c.form \in {"all", "text", "args"} /\ (c.form = "text" => c.args # <<>>)
                     /\ List(c.args) /\ \A i \in DOMAIN c.args :
                          c.args[i].uniontype \in UnionType /\ c.args[i].nband \in Nat \ {0}

VARIABLES call,     \* the form of the aggregate in the query
          bandarg,  \* the state: per band of the result
          seen      \* the rasters that came

vars == <<call, bandarg, seen>>

\* Types that stand for 64BF and 32BUI whatever the tiles have.
PT_64BF  == [lo |-> -Large, hi |-> Large, float |-> TRUE, bit |-> FALSE]
PT_32BUI == [lo |-> 0, hi |-> Large, float |-> FALSE, bit |-> FALSE]

Hull(P) == Min(P)..Max(P)
HasBand(r, n) == n <= Len(r.bands)

-----------------------------------------------------------------------------
(* Callbacks: a is the working raster, b the one that comes.                *)

Is(v)   == [value |-> v, nodata |-> FALSE]
NoData  == [value |-> 0, nodata |-> TRUE]

\* Faulty variant: NODATA in the working raster is taken for a value.
rtpg_union_callback_blind(utype, a, b) ==
  CASE b.nodata -> (IF a.nodata THEN NoData ELSE Is(a.value))
    [] utype = "FIRST" -> Is(a.value)
    [] utype = "MIN"   -> Is(Min({a.value, b.value}))
    [] utype = "MAX"   -> Is(Max({a.value, b.value}))
    [] utype = "COUNT" -> Is(a.value + 2)
    [] utype = "SUM"   -> Is(a.value + b.value)
    [] OTHER           -> Is(b.value)

rtpg_union_callback(utype, a, b) ==
  IF utype = "COUNT"
  THEN Is((IF a.nodata THEN 0 ELSE a.value) + (IF b.nodata THEN 0 ELSE 2))
  ELSE CASE a.nodata /\ b.nodata -> NoData
         [] ~ a.nodata /\ b.nodata -> Is(a.value)
         [] a.nodata /\ ~ b.nodata -> Is(b.value)
         [] OTHER -> Is(CASE utype = "FIRST" -> a.value
                          [] utype = "MIN"   -> Min({a.value, b.value})
                          [] utype = "MAX"   -> Max({a.value, b.value})
                          [] utype = "SUM"   -> a.value + b.value
                          [] OTHER           -> b.value)

\* Counts and sums are in halves too; a quotient is rounded down to halves.
rtpg_union_mean_callback(count, sum) ==
  IF ~ count.nodata /\ count.value # 0 /\ ~ sum.nodata
  THEN Is((2 * sum.value) \div count.value) ELSE NoData

rtpg_union_range_callback(min, max) ==
  IF ~ min.nodata /\ ~ max.nodata THEN Is(max.value - min.value) ELSE NoData

\* MEAN and RANGE are taken from two working rasters when all have come.
Callback(utype, a, b) ==
  CASE utype = "MEAN"  -> rtpg_union_mean_callback(a, b)
    [] utype = "RANGE" -> rtpg_union_range_callback(a, b)
    [] OTHER -> rtpg_union_callback(utype, a, b)

-----------------------------------------------------------------------------
(* rt_raster_iterator for two rasters, without neighbourhood.              *)

\* What the callback gets of band n of a raster at a pixel.
Arg(r, n, p) ==
  IF ~ HasBand(r, n) \/ p \notin r.ext THEN [value |-> 0, nodata |-> TRUE]
  ELSE rt_band_get_pixel(r.bands[n], p)

\* A new raster of one band with what the callback of utype gives for every pixel of ext.
rt_raster_iterator(r0, n0, r1, n1, ext, set, utype) ==
  LET new == rt_raster_generate_new_band(ext, set.type, set.nodataval, set.hasnodata, set.nodataval)
      Burn(b, p) ==
        LET c == Callback(utype, Arg(r0, n0, p), Arg(r1, n1, p)) IN
        IF ~ c.nodata THEN rt_band_set_pixel(b, p, c.value)
        ELSE IF ~ set.hasnodata THEN rt_band_set_pixel(b, p, Lowest(set.type)) ELSE b
      burnt[p \in Min(ext) - 1..Max(ext)] == IF p < Min(ext) THEN new ELSE Burn(burnt[p - 1], p)
  IN [ext |-> ext, bands |-> <<burnt[Max(ext)]>>]

-----------------------------------------------------------------------------
(* The transition function.                                                *)

Working(uniontype) == IF uniontype \in {"MEAN", "RANGE"} THEN 2 ELSE 1

\* A band of the result, for band n of the rasters, with raster r for a start.
NewBand(n, uniontype, r) ==
  [uniontype |-> uniontype, nband |-> n, raster |-> [j \in 1..Working(uniontype) |-> r]]

\* Faulty variant: a band that is added later starts without the extent of the others.
NewBandsBare(args, n, uniontype) ==
  IF n <= Len(args) THEN args
  ELSE [i \in 1..n |-> IF i <= Len(args) THEN args[i] ELSE NewBand(i, uniontype, Null)]

\* Bands up to n; one that is added later starts as the first one's raster without bands.
NewBands(args, n, uniontype) ==
  LET r == IF args = <<>> THEN Null ELSE [args[1].raster[1] EXCEPT !.bands = <<>>]
  IN IF n <= Len(args) THEN args
     ELSE [i \in 1..n |-> IF i <= Len(args) THEN args[i] ELSE NewBand(i, uniontype, r)]

\* ST_Union(rast) unites all bands, ST_Union(rast, text) too and makes at least one band,
\* and the other forms name the bands once and for all.
AddBands(args, r) ==
  LET n == Len(r.bands) IN
  CASE call.form = "all"  -> NewBands(args, n, "LAST")
    [] call.form = "text" -> NewBands(args, Max({n, 1}), call.args[1].uniontype)
    [] call.form = "args" ->
         IF args # <<>> THEN args
         ELSE [i \in DOMAIN call.args |-> NewBand(call.args[i].nband, call.args[i].uniontype, Null)]

\* What the j-th working raster gathers.
Pass(uniontype, j) ==
  CASE uniontype = "MEAN"  -> <<"COUNT", "SUM">>[j]
    [] uniontype = "RANGE" -> <<"MIN", "MAX">>[j]
    [] OTHER -> uniontype

\* Type and NODATA value of the working raster to come.
Settings(utype, work, r, n) ==
  LET Of(b) == [type |-> b.type, hasnodata |-> TRUE, nodataval |-> NodataOf(b)]
      workHas == HasBand(work, 1)
      rHas    == HasBand(r, n)
  IN CASE utype = "COUNT" -> [type |-> PT_32BUI, hasnodata |-> FALSE, nodataval |-> 0]
       [] utype # "COUNT" /\ workHas -> Of(work.bands[1])
       [] utype # "COUNT" /\ ~ workHas /\ rHas -> Of(r.bands[n])
       [] OTHER -> [type |-> PT_64BF, hasnodata |-> TRUE, nodataval |-> Lowest(PT_64BF)]

\* The pixels of a band are copied into another.
Copied(b, from) ==
  LET P == DOMAIN from.data
      copied[p \in Min(P) - 1..Max(P)] ==
        IF p < Min(P) THEN b ELSE rt_band_set_pixel_line(copied[p - 1], p, from.data[p])
  IN copied[Max(P)]

\* Both rasters have the band: only the pixels of the one that comes are computed.
LineMethod(utype, work, r, n) ==
  LET set == Settings(utype, work, r, n)
      ext == Hull(work.ext \cup r.ext)
      old == work.bands[1]
      base == IF ext = work.ext THEN old
              ELSE Copied(rt_raster_generate_new_band(ext, set.type, set.nodataval, set.hasnodata, set.nodataval), old)
      new == rt_raster_iterator(work, 1, r, n, r.ext, set, utype)
  IN [ext |-> ext, bands |-> <<Copied(base, new.bands[1])>>]

PixelMethod(utype, work, r, n) ==
  LET ext == Hull(work.ext \cup r.ext) IN
  rt_raster_iterator(work, 1, r, n, ext, Settings(utype, work, r, n), utype)

United(utype, work, r, n) ==
  IF work = Null /\ r = Null THEN Null
  ELSE IF HasBand(work, 1) /\ HasBand(r, n) THEN LineMethod(utype, work, r, n)
  ELSE PixelMethod(utype, work, r, n)

\* Where bands are named a raster must have them.
Acceptable(args, r) ==
  (call.form = "args" /\ r # Null) => \A i \in DOMAIN args : HasBand(r, args[i].nband)

RASTER_union_transfn(r) ==
  LET args == AddBands(bandarg, r) IN
  /\ Acceptable(args, r)
  /\ bandarg' = [i \in DOMAIN args |->
       [args[i] EXCEPT !.raster = [j \in DOMAIN @ |->
          United(Pass(args[i].uniontype, j), @[j], r, args[i].nband)]]]

-----------------------------------------------------------------------------
(* The final function.                                                     *)

\* The raster of one band of the result.
Finished(ba) ==
  LET b == ba.raster[2].bands[1]
      set == [type |-> b.type, hasnodata |-> b.hasnodata, nodataval |-> b.nodataval]
      ext == Hull(ba.raster[1].ext \cup ba.raster[2].ext)
  IN IF ba.uniontype \in {"MEAN", "RANGE"}
     THEN rt_raster_iterator(ba.raster[1], 1, ba.raster[2], 1, ext, set, ba.uniontype)
     ELSE ba.raster[1]

\* With no raster there is no result; MEAN and RANGE of no raster are left out.
Result(args) == IF args = <<>> \/ \E i \in DOMAIN args : args[i].raster[1] = Null THEN <<>>
                ELSE [i \in DOMAIN args |-> Finished(args[i])]

\* The working rasters are destroyed when the result has been taken from them.
RASTER_union_finalfn ==
  bandarg' = [i \in DOMAIN bandarg |-> [bandarg[i] EXCEPT !.raster = [j \in DOMAIN @ |-> Null]]]

-----------------------------------------------------------------------------
Init == call \in Call /\ bandarg = <<>> /\ seen = <<>>

Transition == \E r \in Tile :
  /\ Len(seen) < MaxTiles
  /\ RASTER_union_transfn(r)
  /\ seen' = Append(seen, r)
  /\ UNCHANGED call

\* An aggregate of a group: the final function comes last, its effect on the state is not seen.
Spec == Init /\ [][Transition]_vars

\* An aggregate over a window that grows: the final function is called for a row, and the
\* state goes on to the next one.
Finalize == Result(bandarg) # <<>> /\ RASTER_union_finalfn /\ UNCHANGED <<call, seen>>
WindowSpec == Init /\ [][Transition \/ Finalize]_vars

-----------------------------------------------------------------------------
(* Properties.                                                             *)

\* Which of the rasters rs, a sequence, have a value of band n at a pixel, and what it is.
Having(rs, n, p)     == {k \in DOMAIN rs : ~ Arg(rs[k], n, p).nodata}
ValueOf(rs, n, p, k) == Arg(rs[k], n, p).value
ValuesOf(rs, n, p)   == {ValueOf(rs, n, p, k) : k \in Having(rs, n, p)}

\* The sums of the values of the first k rasters, for each k.
Sums(rs, n, p) ==
  LET sum[k \in 0..Len(rs)] ==
        IF k = 0 THEN 0
        ELSE sum[k - 1] + (IF k \in Having(rs, n, p) THEN ValueOf(rs, n, p, k) ELSE 0)
  IN sum

\* The bands n of the rasters are of one type and have one NODATA value.
Alike(rs, n) ==
  \A k, m \in {x \in DOMAIN rs : HasBand(rs[x], n)} :
    LET b == rs[k].bands[n]
        c == rs[m].bands[n]
    IN b.hasnodata /\ b.type = c.type /\ b.nodataval = c.nodataval

At(i, p) == rt_band_get_pixel(Result(bandarg)[i].bands[1], p)
Results  == DOMAIN Result(bandarg)
Extent   == UNION {r.ext : r \in Range(seen)}

\* The result has the extent of the whole set, in each of its bands, wherever and whenever
\* the rasters came that have the band (src/doc/reference_raster.xml, ST_Union).  For a
\* window that grows this holds if the final function leaves the state intact.
ExtentIsWhole ==
  (call.form # "all" \/ \A r \in Range(seen) \ {Null} : r.bands # <<>>) =>
    \A i \in Results : Result(bandarg)[i].ext = Hull(Extent)

\* What a union type selects of the values.
Selected(utype, rs, n, p) ==
  CASE utype = "FIRST" -> ValueOf(rs, n, p, Min(Having(rs, n, p)))
    [] utype = "LAST"  -> ValueOf(rs, n, p, Max(Having(rs, n, p)))
    [] utype = "MIN"   -> Min(ValuesOf(rs, n, p))
    [] utype = "MAX"   -> Max(ValuesOf(rs, n, p))

\* Of bands that are alike the result has the first, last, least or greatest value there
\* is at a pixel, and NODATA where there is none.
ValueIsSelected ==
  \A i \in Results :
    LET n == bandarg[i].nband IN
    Alike(seen, n) /\ bandarg[i].uniontype \in {"FIRST", "LAST", "MIN", "MAX"} =>
      \A p \in Result(bandarg)[i].ext :
        IF Having(seen, n, p) = {} THEN At(i, p).nodata
        ELSE At(i, p) = Is(Selected(bandarg[i].uniontype, seen, n, p))

\* COUNT counts the values at each pixel, whatever the types and NODATA values of the bands.
CountIsExact ==
  \A i \in Results : bandarg[i].uniontype = "COUNT" =>
    \A p \in Result(bandarg)[i].ext :
      At(i, p) = Is(2 * Cardinality(Having(seen, bandarg[i].nband, p)))

\* No sum on the way is the NODATA value of b or more than its type can hold.
SumsFit(b, rs, n, p) ==
  \A k \in Having(rs, n, p) : LET s == Sums(rs, n, p)[k] IN Clamp(b.type, s) = s /\ s # b.nodataval

\* Of bands that are alike SUM is the sum, MEAN the mean and RANGE the difference of the
\* extremes as one pixel of the type can hold it, unless a sum on the way is the NODATA
\* value or more than the type can hold.
ArithmeticHolds ==
  \A i \in Results :
    LET n == bandarg[i].nband
        b == Result(bandarg)[i].bands[1]
    IN Alike(seen, n) => \A p \in Result(bandarg)[i].ext :
         LET vs  == ValuesOf(seen, n, p)
             sum == Sums(seen, n, p)[Len(seen)]
             Held(v) == rt_band_get_pixel(rt_band_set_pixel(b, p, v), p)
             Computed(v) == IF vs = {} THEN At(i, p).nodata ELSE At(i, p) = v
         IN CASE bandarg[i].uniontype = "SUM"   -> SumsFit(b, seen, n, p) => Computed(Is(sum))
              [] bandarg[i].uniontype = "MEAN"  ->
                   SumsFit(b, seen, n, p) => Computed(Held(sum \div Cardinality(Having(seen, n, p))))
              [] bandarg[i].uniontype = "RANGE" -> Computed(Held(Max(vs) - Min(vs)))
              [] OTHER -> TRUE

\* The value at each pixel is the one the union type defines
\* (src/doc/reference_raster.xml:12209).
ValueIsDefined == ValueIsSelected /\ CountIsExact /\ ArithmeticHolds

\* The documentation says that the value is defined by the union type: SUM is the sum
\* wherever the type can hold it.
SumIsSum ==
  \A i \in Results :
    LET n == bandarg[i].nband
        b == Result(bandarg)[i].bands[1]
    IN Alike(seen, n) /\ bandarg[i].uniontype = "SUM" =>
         \A p \in Result(bandarg)[i].ext :
           LET sum == Sums(seen, n, p)[Len(seen)]
           IN Having(seen, n, p) # {} /\ Clamp(b.type, sum) = sum /\ sum # b.nodataval
                => At(i, p) = Is(sum)

=============================================================================
