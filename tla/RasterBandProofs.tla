--------------------------- MODULE RasterBandProofs ---------------------------
(* What a band says of itself and of its pixels, for every set of pixel types, *)
(* height and numbers that calls bring.                                        *)
(*                                                                             *)
(* The argument: in a good band the flag isnodata never changes what a pixel   *)
(* reads as (ReadsData), so a call may be judged by the data it leaves alone;  *)
(* every way to write a pixel, and so every loop over pixels, keeps a band     *)
(* good.                                                                       *)
EXTENDS RasterBand, Integers, FiniteSets, FiniteSetTheorems, TLAPS

\* The numbers less than others are well founded.
LEMMA LessWellFounded == IsWellFoundedOn({ss \in Nat \X Nat : ss[1] < ss[2]}, Nat)
BY NatLessThanWellFounded DEF OpToRel

\* A set of numbers has a least one.
LEMMA Least ==
  ASSUME NEW S, S \subseteq Nat, S # {}
  PROVE  \E m \in S : \A k \in S : m <= k
<1> DEFINE R == {ss \in Nat \X Nat : ss[1] < ss[2]}
<1>1. IsWellFoundedOn(R, Nat)
  BY LessWellFounded
<1> HIDE DEF R
<1>2. PICK m \in S : \A k \in S : ~(<<k, m>> \in R)
  BY <1>1, WFMin
<1>3. ASSUME NEW k \in S PROVE m <= k
  <2>1. <<k, m>> \in Nat \X Nat
    OBVIOUS
  <2>2. ~(k < m)
    BY <1>2, <2>1 DEF R
  <2> QED BY <2>2
<1> QED BY <1>3

\* A set that has 0, and with a number below n the next one, has all up to n.
LEMMA UpTo ==
  ASSUME NEW n \in Nat, NEW S, 0 \in S, \A k \in 0..n : k < n /\ k \in S => k + 1 \in S
  PROVE  0..n \subseteq S
<1> SUFFICES ASSUME (0..n) \ S # {} PROVE FALSE
  OBVIOUS
<1> DEFINE L == (0..n) \ S
<1>0. L \subseteq Nat /\ L # {}
  OBVIOUS
<1>1. PICK m \in L : \A k \in L : m <= k
  <2> HIDE DEF L
  <2> QED BY <1>0, Least
<1>2. m - 1 \in 0..n /\ m - 1 < n /\ m - 1 \in S
  BY <1>1
<1>3. (m - 1) + 1 \in S
  BY <1>2
<1> QED BY <1>1, <1>3

\* f has the value base and then, at each number up to n, G of the value before.
Iterates(f, n, base, G) == f[0] = base /\ \A k \in 1..n : f[k] = G[<<f[k - 1], k>>]

\* Every function of a value and a number can be iterated.
LEMMA Recursion ==
  ASSUME NEW n \in Nat, NEW X, NEW base \in X, NEW G \in [X \X (1..n) -> X]
  PROVE  \E f \in [0..n -> X] : Iterates(f, n, base, G)
<1> DEFINE Runs(f, m) == f[0] = base /\ \A k \in 1..m : f[k] = G[<<f[k - 1], k>>]
<1> DEFINE S == {m \in 0..n : \E f \in [0..m -> X] : Runs(f, m)}
<1>1. 0 \in S
  <2> DEFINE f == [k \in 0..0 |-> base]
  <2>1. f \in [0..0 -> X] /\ Runs(f, 0)
    OBVIOUS
  <2>2. \E h \in [0..0 -> X] : Runs(h, 0)
    BY <2>1
  <2> QED BY <2>2
<1>2. ASSUME NEW m \in 0..n, m < n, m \in S PROVE m + 1 \in S
  <2>1. PICK f \in [0..m -> X] : Runs(f, m)
    BY <1>2
  <2> DEFINE v == G[<<f[m], m + 1>>]
  <2> DEFINE g == [k \in 0..m+1 |-> IF k = m + 1 THEN v ELSE f[k]]
  <2>2. <<f[m], m + 1>> \in X \X (1..n) /\ v \in X
    BY <1>2
  <2> HIDE DEF v
  <2>3. g \in [0..m+1 -> X]
    BY <2>2
  <2>4. ASSUME NEW k \in 1..m+1 PROVE g[k] = G[<<g[k - 1], k>>]
    <3>1. CASE k = m + 1
      <4>1. g[k] = v /\ g[k - 1] = f[m]
        BY <3>1
      <4> QED BY <3>1, <4>1 DEF v
    <3>2. CASE k # m + 1
      <4>1. k \in 1..m /\ k - 1 \in 0..m
        BY <3>2
      <4>2. g[k] = f[k] /\ g[k - 1] = f[k - 1]
        BY <4>1
      <4> QED BY <4>1, <4>2, <2>1
    <3> QED BY <3>1, <3>2
  <2>5. Runs(g, m + 1)
    <3>1. g[0] = base
      BY <2>1
    <3> QED BY <3>1, <2>4
  <2>6. \E h \in [0..m+1 -> X] : Runs(h, m + 1)
    BY <2>3, <2>5
  <2>7. m + 1 \in 0..n
    BY <1>2
  <2> QED BY <2>6, <2>7
<1>3. 0..n \subseteq S
  <2> HIDE DEF S
  <2> QED BY <1>1, <1>2, UpTo
<1>4. n \in S
  BY <1>3
<1> QED BY <1>4 DEF Iterates

\* Same(a, b): a has the settings of b.
Same(a, b) == a.type = b.type /\ a.hasnodata = b.hasnodata /\ a.nodataval = b.nodataval

\* The stored values are values of the type, and the flag about all of them is true.
Clamped(b) == /\ \A p \in Pixel : Clamp(b.type, b.data[p]) = b.data[p]
              /\ Clamp(b.type, b.nodataval) = b.nodataval
Flagged(b) == b.isnodata => /\ b.hasnodata
                            /\ \A p \in Pixel : rt_band_clamped_value_is_nodata(b, b.data[p]) # 0
Good(b) == b \in BandType /\ Clamped(b) /\ Flagged(b)

-----------------------------------------------------------------------------
\* The fields of a pixel type.
LEMMA TypeFields ==
  ASSUME NEW t \in PixType
  PROVE  /\ t.lo \in Int /\ t.hi \in Int /\ t.lo < t.hi /\ t.lo <= 0 /\ 0 <= t.hi
         /\ t.float \in BOOLEAN /\ t.bit \in BOOLEAN
         /\ t.bit => ~ t.float /\ t.lo = 0 /\ t.hi = 1
BY BandAssumption

\* rt_util_clamp_to_*: whole numbers of the type stay, and what comes out is one.
LEMMA ClampHolds ==
  ASSUME NEW t \in PixType, NEW h \in Int
  PROVE  /\ Clamp(t, h) \in Int
         /\ Clamp(t, Clamp(t, h)) = Clamp(t, h)
         /\ t.float => Clamp(t, h) = h
         /\ ~ t.float => Clamp(t, h) \in Lowest(t)..Highest(t) /\ Clamp(t, h) % 2 = 0
         /\ h \in Lowest(t)..Highest(t) /\ h % 2 = 0 => Clamp(t, h) = h
         /\ ~ t.float /\ h < Lowest(t) => Clamp(t, h) = Lowest(t)
         /\ ~ t.float /\ h > Highest(t) => Clamp(t, h) = Highest(t)
         /\ ~ t.float /\ h \in Lowest(t)..Highest(t) /\ h >= 0 /\ h % 2 = 1 => Clamp(t, h) = h - 1
<1> DEFINE lo == t.lo
<1> DEFINE hi == t.hi
<1>1. lo \in Int /\ hi \in Int /\ lo < hi /\ t.float \in BOOLEAN
  BY TypeFields
<1>2. CASE t.float
  BY <1>2 DEF Clamp
<1>3. CASE ~ t.float
  <2>1. \A v \in Int : Clamp(t, v) = Truncated(IF v < 2 * lo THEN 2 * lo ELSE IF v > 2 * hi THEN 2 * hi ELSE v)
    BY <1>3 DEF Clamp, Lowest, Highest
  <2>2. \A v \in Int : v % 2 = 0 => Truncated(v) = v
    BY DEF Truncated
  <2>3. \A v \in Int : v >= 0 /\ v % 2 = 1 => Truncated(v) = v - 1
    BY DEF Truncated
  <2>4. \A v \in Int : v >= 2 * lo /\ v <= 2 * hi =>
          Truncated(v) \in Int /\ Truncated(v) >= 2 * lo /\ Truncated(v) <= 2 * hi /\ Truncated(v) % 2 = 0
    BY <1>1 DEF Truncated
  <2>5. Lowest(t) = 2 * lo /\ Highest(t) = 2 * hi /\ (2 * lo) % 2 = 0 /\ (2 * hi) % 2 = 0
    BY <1>1 DEF Lowest, Highest
  <2> HIDE DEF lo, hi
  <2>6. Clamp(t, h) \in Int /\ Clamp(t, h) >= 2 * lo /\ Clamp(t, h) <= 2 * hi /\ Clamp(t, h) % 2 = 0
    BY <1>1, <2>1, <2>4
  <2>7. \A v \in Int : v >= 2 * lo /\ v <= 2 * hi /\ v % 2 = 0 => Clamp(t, v) = v
    BY <1>1, <2>1, <2>2
  <2>8. h < 2 * lo => Clamp(t, h) = 2 * lo
    BY <1>1, <2>1, <2>2, <2>5
  <2>9. h > 2 * hi => Clamp(t, h) = 2 * hi
    BY <1>1, <2>1, <2>2, <2>5
  <2>10. h >= 2 * lo /\ h <= 2 * hi /\ h >= 0 /\ h % 2 = 1 => Clamp(t, h) = h - 1
    BY <1>1, <2>1, <2>3
  <2> QED BY <1>1, <1>3, <2>5, <2>6, <2>7, <2>8, <2>9, <2>10
<1> QED BY <1>1, <1>2, <1>3

\* Among stored values only the NODATA value is NODATA.
LEMMA StoredNodata ==
  ASSUME NEW b \in BandType, Clamp(b.type, b.nodataval) = b.nodataval,
         NEW v, Clamp(b.type, v) = v
  PROVE  rt_band_clamped_value_is_nodata(b, v) # 0 <=> b.hasnodata /\ v = b.nodataval
BY DEF rt_band_clamped_value_is_nodata, BandType

\* The flag never changes what a pixel reads as: readers that trust it and readers that
\* look at the data (rt_band_get_pixel, rt_band_get_pixel_line) agree.
LEMMA ReadsData ==
  ASSUME NEW b, Good(b), NEW p \in Pixel
  PROVE  /\ rt_band_get_pixel(b, p).value = b.data[p]
         /\ rt_band_get_pixel(b, p).nodata <=> b.hasnodata /\ b.data[p] = b.nodataval
         /\ rt_band_get_pixel(b, p).nodata \in BOOLEAN
<1>1. b \in BandType /\ Clamp(b.type, b.nodataval) = b.nodataval /\ Clamp(b.type, b.data[p]) = b.data[p]
  BY DEF Good, Clamped
<1>2. rt_band_clamped_value_is_nodata(b, b.data[p]) # 0 <=> b.hasnodata /\ b.data[p] = b.nodataval
  BY <1>1, StoredNodata
<1> QED BY <1>1, <1>2 DEF rt_band_get_pixel, Good, Flagged, BandType

-----------------------------------------------------------------------------
(* Each operation of rt_core keeps a band good.                              *)

\* A band with another pixel and flag.
With(b, p, v, flag) == [b EXCEPT !.data[p] = v, !.isnodata = flag]

\* It has the same settings and other pixels.
LEMMA Changed ==
  ASSUME NEW b \in BandType, NEW p \in Pixel, NEW v \in Int, NEW flag \in BOOLEAN
  PROVE  LET new == With(b, p, v, flag)
         IN  /\ new \in BandType /\ Same(new, b) /\ new.isnodata = flag
             /\ new.data[p] = v /\ \A q \in Pixel \ {p} : new.data[q] = b.data[q]
BY DEF With, BandType, Same

\* If every value stored is one of the type, and NODATA when the flag is up, the band is good.
LEMMA GoodBySettings ==
  ASSUME NEW b, Good(b), NEW new \in BandType, Same(new, b),
         new.isnodata => new.hasnodata,
         \A q \in Pixel : /\ Clamp(b.type, new.data[q]) = new.data[q]
                          /\ new.isnodata => new.data[q] = b.nodataval
  PROVE  Good(new)
<1>0. new.type = b.type /\ new.nodataval = b.nodataval /\ Clamp(b.type, b.nodataval) = b.nodataval
  BY DEF Good, Clamped, Same
<1>1. Clamped(new)
  BY <1>0 DEF Clamped
<1>2. ASSUME new.isnodata, NEW q \in Pixel PROVE rt_band_clamped_value_is_nodata(new, new.data[q]) # 0
  BY <1>0, <1>2 DEF rt_band_clamped_value_is_nodata
<1> QED BY <1>1, <1>2 DEF Good, Flagged

\* What rt_band_set_pixel stores for a number.
Put(b, h) == Clamp(b.type, IF b.type.float THEN h ELSE rt_band_corrected_clamped_value(b, h))

\* What is corrected is a number, and is NODATA only if it was the NODATA value, or has
\* nowhere to go.
LEMMA PutValue ==
  ASSUME NEW b, Good(b), NEW h \in Int
  PROVE  LET v == IF b.type.float THEN h ELSE rt_band_corrected_clamped_value(b, h)
         IN  /\ v \in Int /\ Put(b, h) \in Int /\ Clamp(b.type, Put(b, h)) = Put(b, h)
             /\ rt_band_clamped_value_is_nodata(b, v) # 0 => b.hasnodata /\ Put(b, h) = b.nodataval
<1> DEFINE v == IF b.type.float THEN h ELSE rt_band_corrected_clamped_value(b, h)
<1>1. b.type \in PixType /\ b.nodataval \in Int /\ b.hasnodata \in BOOLEAN
      /\ Clamp(b.type, b.nodataval) = b.nodataval
  BY DEF Good, BandType, Clamped
<1>2. v \in Int
  BY DEF rt_band_corrected_clamped_value
<1>3. Put(b, h) = Clamp(b.type, v)
  BY DEF Put
<1> HIDE DEF v
<1>4. Put(b, h) \in Int /\ Clamp(b.type, Put(b, h)) = Put(b, h)
  BY <1>1, <1>2, <1>3, ClampHolds
<1>5. rt_band_clamped_value_is_nodata(b, v) # 0 => b.hasnodata /\ Put(b, h) = b.nodataval
  BY <1>1, <1>3 DEF rt_band_clamped_value_is_nodata
<1> QED BY <1>2, <1>4, <1>5 DEF v

\* rt_band_set_pixel writes one pixel and takes the flag down unless it wrote NODATA.
LEMMA SetPixelGood ==
  ASSUME NEW b, Good(b), NEW p \in Pixel, NEW h \in Int
  PROVE  LET new == rt_band_set_pixel(b, p, h)
         IN  /\ Good(new) /\ Same(new, b) /\ new.data[p] = Put(b, h)
             /\ \A q \in Pixel \ {p} : new.data[q] = b.data[q]
<1> DEFINE v == IF b.type.float THEN h ELSE rt_band_corrected_clamped_value(b, h)
<1> DEFINE flag == b.isnodata /\ rt_band_clamped_value_is_nodata(b, v) # 0
<1> DEFINE new == rt_band_set_pixel(b, p, h)
<1>1. b \in BandType /\ flag \in BOOLEAN
  BY DEF Good, BandType
<1>2. /\ Put(b, h) \in Int /\ Clamp(b.type, Put(b, h)) = Put(b, h)
      /\ flag => b.hasnodata /\ Put(b, h) = b.nodataval
  BY PutValue
<1>3. new = With(b, p, Put(b, h), flag)
  BY DEF rt_band_set_pixel, Put, With
<1> HIDE DEF flag, new
<1>4. /\ new \in BandType /\ Same(new, b) /\ new.isnodata = flag
      /\ new.data[p] = Put(b, h) /\ \A q \in Pixel \ {p} : new.data[q] = b.data[q]
  BY <1>1, <1>2, <1>3, Changed
<1>5. \A q \in Pixel : /\ Clamp(b.type, new.data[q]) = new.data[q]
                       /\ new.isnodata => new.data[q] = b.nodataval
  <2>1. ASSUME NEW q \in Pixel PROVE Clamp(b.type, b.data[q]) = b.data[q]
    BY DEF Good, Clamped
  <2>2. ASSUME NEW q \in Pixel, b.isnodata PROVE b.data[q] = b.nodataval
    BY <2>2, <2>1, StoredNodata DEF Good, Flagged, Clamped
  <2>3. new.isnodata => b.isnodata
    BY <1>4 DEF flag
  <2> QED BY <1>2, <1>4, <2>1, <2>2, <2>3
<1>6. new.isnodata => new.hasnodata
  BY <1>2, <1>4 DEF Same
<1>7. Good(new)
  BY <1>4, <1>5, <1>6, GoodBySettings
<1> QED BY <1>4, <1>7 DEF new

\* rt_band_set_pixel_line copies a value of the type as it is.
LEMMA SetLineGood ==
  ASSUME NEW b, Good(b), NEW p \in Pixel, NEW v \in Int, Clamp(b.type, v) = v
  PROVE  LET new == rt_band_set_pixel_line(b, p, v)
         IN  /\ Good(new) /\ Same(new, b) /\ new.data[p] = v
             /\ \A q \in Pixel \ {p} : new.data[q] = b.data[q]
<1> DEFINE flag == b.isnodata /\ ~ b.hasnodata
<1> DEFINE new == rt_band_set_pixel_line(b, p, v)
<1>1. b \in BandType /\ flag = FALSE /\ flag \in BOOLEAN
  BY DEF Good, BandType, Flagged
<1>2. new = With(b, p, v, flag)
  BY DEF rt_band_set_pixel_line, With
<1> HIDE DEF flag, new
<1>3. /\ new \in BandType /\ Same(new, b) /\ new.isnodata = FALSE
      /\ new.data[p] = v /\ \A q \in Pixel \ {p} : new.data[q] = b.data[q]
  BY <1>1, <1>2, Changed
<1>4. \A q \in Pixel : Clamp(b.type, new.data[q]) = new.data[q]
  BY <1>3 DEF Good, Clamped
<1>5. Good(new)
  BY <1>3, <1>4, GoodBySettings
<1> QED BY <1>3, <1>5 DEF new

\* rt_raster_generate_new_band.
LEMMA NewBandGood ==
  ASSUME NEW t \in PixType, NEW init \in Int, NEW hasnodata \in BOOLEAN, NEW nodata \in Int
  PROVE  LET new == rt_raster_generate_new_band(Pixel, t, init, hasnodata, nodata)
         IN  /\ Good(new) /\ new.type = t /\ new.hasnodata = hasnodata
             /\ hasnodata => new.nodataval = Clamp(t, nodata)
             /\ \A q \in Pixel : new.data[q] = Clamp(t, init)
<1> DEFINE new == rt_raster_generate_new_band(Pixel, t, init, hasnodata, nodata)
<1>1. /\ Clamp(t, init) \in Int /\ Clamp(t, Clamp(t, init)) = Clamp(t, init)
      /\ Clamp(t, nodata) \in Int /\ Clamp(t, Clamp(t, nodata)) = Clamp(t, nodata)
  BY ClampHolds
<1>2. new \in BandType
  BY <1>1 DEF rt_raster_generate_new_band, BandType
<1>3. /\ new.type = t /\ new.hasnodata = hasnodata
      /\ new.nodataval = IF hasnodata THEN Clamp(t, nodata) ELSE 0
      /\ new.isnodata = (hasnodata /\ init = nodata)
      /\ \A q \in Pixel : new.data[q] = Clamp(t, init)
  BY DEF rt_raster_generate_new_band
<1> HIDE DEF new
<1>4. Clamp(t, new.nodataval) = new.nodataval
  <2>1. CASE hasnodata
    BY <1>1, <1>3, <2>1
  <2>2. CASE ~ hasnodata
    <3>1. t.float \/ 0 \in Lowest(t)..Highest(t)
      BY TypeFields DEF Lowest, Highest
    <3>2. Clamp(t, 0) = 0
      BY <3>1, ClampHolds
    <3> QED BY <1>3, <2>2, <3>2
  <2> QED BY <2>1, <2>2
<1>5. Clamped(new)
  BY <1>1, <1>3, <1>4 DEF Clamped
<1>6. Flagged(new)
  <2>1. SUFFICES ASSUME hasnodata, init = nodata, NEW q \in Pixel
                 PROVE  rt_band_clamped_value_is_nodata(new, new.data[q]) # 0
    BY <1>3 DEF Flagged
  <2> QED BY <1>1, <1>3, <2>1 DEF rt_band_clamped_value_is_nodata
<1> QED BY <1>2, <1>3, <1>5, <1>6 DEF Good, new

-----------------------------------------------------------------------------
(* The loops over pixels and points.                                         *)

\* Good bands that differ from b in pixels of P only.
Leaves(b, P) == {a \in BandType : Good(a) /\ Same(a, b) /\ \A q \in Pixel \ P : a.data[q] = b.data[q]}

\* The values that stand for NODATA are numbers.
LEMMA NodataNumber ==
  ASSUME NEW b, Good(b)
  PROVE  NodataOf(b) \in Int /\ GeomNodata(b) \in Int
BY TypeFields DEF NodataOf, GeomNodata, Good, BandType, Lowest

\* What is written for a value is a number.
LEMMA WrittenNumber ==
  ASSUME NEW b, Good(b), NEW v \in Int \cup {Null}
  PROVE  ValueOf(b, v) \in Int /\ PointValue(b, v) \in Int
BY NodataNumber DEF ValueOf, PointValue

\* A pixel of P is written, or not: the others stay.
LEMMA SetKeeps ==
  ASSUME NEW b, NEW P \in SUBSET Pixel, NEW a \in Leaves(b, P), NEW p \in P, NEW h \in Int, NEW keep
  PROVE  SetUnlessKept(a, p, h, keep) \in Leaves(b, P)
<1> DEFINE new == rt_band_set_pixel(a, p, h)
<1>1. Good(a) /\ Same(a, b) /\ \A q \in Pixel \ P : a.data[q] = b.data[q]
  BY DEF Leaves
<1>2. /\ Good(new) /\ Same(new, a)
      /\ \A q \in Pixel \ {p} : new.data[q] = a.data[q]
  BY <1>1, SetPixelGood
<1> HIDE DEF new
<1>3. new \in Leaves(b, P)
  BY <1>1, <1>2 DEF Leaves, Same, Good
<1> QED BY <1>3 DEF SetUnlessKept, new

\* ST_SetValues from an array writes the pixels it has values for and no other.
LEMMA ArrayKeeps ==
  ASSUME NEW b, Good(b), NEW P \in SUBSET Pixel, NEW news \in [P -> Int \cup {Null}], NEW keep
  PROVE  RASTER_setPixelValuesArray(b, news, keep) \in Leaves(b, P)
<1> DEFINE X == Leaves(b, P)
<1> DEFINE Step(a, p) == IF p \in P THEN SetUnlessKept(a, p, ValueOf(b, news[p]), keep /\ b.hasnodata) ELSE a
<1> DEFINE G == [x \in X \X (1..Height) |-> Step(x[1], x[2])]
<1>1. Height \in Nat /\ b \in X
  BY BandAssumption DEF Leaves, Same, Good
<1>2. \A a \in X, p \in 1..Height : Step(a, p) \in X
  <2>1. ASSUME NEW a \in X, NEW p \in P PROVE SetUnlessKept(a, p, ValueOf(b, news[p]), keep /\ b.hasnodata) \in X
    BY SetKeeps, WrittenNumber
  <2> QED BY <2>1
<1> HIDE DEF X, Step
<1>3. PICK f \in [0..Height -> X] : Iterates(f, Height, b, G)
  <2>1. G \in [X \X (1..Height) -> X]
    BY <1>2
  <2> HIDE DEF G
  <2> QED BY <1>1, <2>1, Recursion
<1>4. f = [p \in 0..Height |-> IF p = 0 THEN b ELSE Step(f[p - 1], p)]
  <2>1. ASSUME NEW p \in 1..Height PROVE f[p] = Step(f[p - 1], p)
    <3>1. p - 1 \in 0..Height /\ f[p - 1] \in X
      BY <1>1
    <3> QED BY <1>3, <3>1 DEF Iterates
  <2> QED BY <1>1, <1>3, <2>1 DEF Iterates
<1> DEFINE after == CHOOSE h : h = [p \in 0..Height |-> IF p = 0 THEN b ELSE Step(h[p - 1], p)]
<1>5. after = [p \in 0..Height |-> IF p = 0 THEN b ELSE Step(after[p - 1], p)]
  BY <1>4, Zenon
<1>6. RASTER_setPixelValuesArray(b, news, keep) = after[Height]
  <2>1. \A h : [p \in 0..Height |-> IF p = 0 THEN b
                                   ELSE IF p \in DOMAIN news
                                        THEN SetUnlessKept(h[p - 1], p, ValueOf(b, news[p]), keep /\ b.hasnodata)
                                   ELSE h[p - 1]]
             = [p \in 0..Height |-> IF p = 0 THEN b ELSE Step(h[p - 1], p)]
    BY DEF Step
  <2> QED BY <2>1, Zenon DEF RASTER_setPixelValuesArray
<1> HIDE DEF after
<1> DEFINE S == {p \in 0..Height : after[p] \in X}
<1>7. 0 \in S
  BY <1>1, <1>5
<1>8. ASSUME NEW p \in 0..Height, p < Height, p \in S PROVE p + 1 \in S
  <2>1. after[p + 1] = Step(after[p], p + 1)
    BY <1>1, <1>5, <1>8
  <2> QED BY <1>1, <1>2, <1>8, <2>1
<1>9. 0..Height \subseteq S
  <2> HIDE DEF S
  <2> QED BY <1>1, <1>7, <1>8, UpTo
<1> QED BY <1>1, <1>6, <1>9 DEF X

\* ST_SetValues from points writes the pixels they lie in and no other.
LEMMA PointsKeep ==
  ASSUME NEW b, Good(b), NEW n \in Nat, NEW P \in SUBSET Pixel,
         NEW gvs \in [1..n -> P \X (Int \cup {Null})], NEW keep
  PROVE  SetPoints(b, gvs, keep) \in Leaves(b, P)
<1> DEFINE X == Leaves(b, P)
<1> DEFINE Step(a, i) == SetUnlessKept(a, gvs[i][1], PointValue(b, gvs[i][2]), keep)
<1> DEFINE G == [x \in X \X (1..n) |-> Step(x[1], x[2])]
<1>1. Len(gvs) = n /\ b \in X
  BY DEF Leaves, Same, Good
<1>2. \A a \in X, i \in 1..n : Step(a, i) \in X
  BY SetKeeps, WrittenNumber
<1> HIDE DEF X, Step
<1>3. PICK f \in [0..n -> X] : Iterates(f, n, b, G)
  <2>1. G \in [X \X (1..n) -> X]
    BY <1>2
  <2> HIDE DEF G
  <2> QED BY <1>1, <2>1, Recursion
<1>4. f = [i \in 0..n |-> IF i = 0 THEN b ELSE Step(f[i - 1], i)]
  <2>1. ASSUME NEW i \in 1..n PROVE f[i] = Step(f[i - 1], i)
    <3>1. i - 1 \in 0..n /\ f[i - 1] \in X
      OBVIOUS
    <3> QED BY <1>3, <3>1 DEF Iterates
  <2> QED BY <1>3, <2>1 DEF Iterates
<1> DEFINE after == CHOOSE h : h = [i \in 0..n |-> IF i = 0 THEN b ELSE Step(h[i - 1], i)]
<1>5. after = [i \in 0..n |-> IF i = 0 THEN b ELSE Step(after[i - 1], i)]
  BY <1>4, Zenon
<1>6. SetPoints(b, gvs, keep) = IF keep /\ b.isnodata THEN b ELSE after[n]
  BY <1>1 DEF SetPoints, Step
<1> HIDE DEF after
<1> DEFINE S == {i \in 0..n : after[i] \in X}
<1>7. 0 \in S
  BY <1>1, <1>5
<1>8. ASSUME NEW i \in 0..n, i < n, i \in S PROVE i + 1 \in S
  <2>1. after[i + 1] = Step(after[i], i + 1)
    BY <1>5, <1>8
  <2> QED BY <1>2, <1>8, <2>1
<1>9. 0..n \subseteq S
  <2> HIDE DEF S
  <2> QED BY <1>7, <1>8, UpTo
<1> QED BY <1>1, <1>6, <1>9 DEF X

-----------------------------------------------------------------------------
\* The band SetMasks burns into, and what it stores for a pixel, given what covers it.
Canvas(b) == rt_raster_generate_new_band(Pixel, b.type, GeomNodata(b), b.hasnodata, GeomNodata(b))

MaskValue(b, gvs, keep, p) ==
  LET old  == rt_band_get_pixel(b, p)
      over == LastOver(gvs, p)
  IN IF keep /\ old.nodata THEN Null
     ELSE IF over # {} THEN gvs[CHOOSE i \in over : TRUE][2]
     ELSE IF old.nodata THEN Null ELSE old.value

Burn(b, gvs, keep, a, p) ==
  LET v == MaskValue(b, gvs, keep, p)
  IN IF v # Null THEN rt_band_set_pixel(a, p, v)
     ELSE IF b.hasnodata THEN a ELSE rt_band_set_pixel(a, p, Lowest(b.type))

Burnt(b, v) == IF v # Null THEN Put(b, v) ELSE IF b.hasnodata THEN b.nodataval ELSE Put(b, Lowest(b.type))

\* The canvas has the settings of the band where they matter, and is all NODATA.
LEMMA CanvasGood ==
  ASSUME NEW b, Good(b)
  PROVE  /\ Good(Canvas(b)) /\ Canvas(b).type = b.type /\ Canvas(b).hasnodata = b.hasnodata
         /\ b.hasnodata => /\ Canvas(b).nodataval = b.nodataval
                           /\ \A q \in Pixel : Canvas(b).data[q] = b.nodataval
<1>1. b.type \in PixType /\ b.hasnodata \in BOOLEAN /\ GeomNodata(b) \in Int
  BY NodataNumber DEF Good, BandType
<1>2. b.hasnodata => GeomNodata(b) = b.nodataval /\ Clamp(b.type, b.nodataval) = b.nodataval
  BY DEF GeomNodata, Good, Clamped
<1> DEFINE new == rt_raster_generate_new_band(Pixel, b.type, GeomNodata(b), b.hasnodata, GeomNodata(b))
<1>3. /\ Good(new) /\ new.type = b.type /\ new.hasnodata = b.hasnodata
      /\ b.hasnodata => new.nodataval = Clamp(b.type, GeomNodata(b))
      /\ \A q \in Pixel : new.data[q] = Clamp(b.type, GeomNodata(b))
  BY <1>1, NewBandGood
<1> HIDE DEF new
<1>4. Canvas(b) = new
  BY DEF new, Canvas
<1> QED BY <1>1, <1>2, <1>3, <1>4

\* What is put into a band without NODATA value does not depend on the rest of it.
LEMMA PutSame ==
  ASSUME NEW a, NEW b, a.type = b.type, a.hasnodata = b.hasnodata,
         b.hasnodata => a.nodataval = b.nodataval, NEW h
  PROVE  Put(a, h) = Put(b, h)
BY DEF Put, rt_band_corrected_clamped_value, rt_band_clamped_value_is_nodata

\* ST_SetValues through masks leaves every pixel of a good band with what it stores for it.
LEMMA MasksBurn ==
  ASSUME NEW b, Good(b), NEW gvs, NEW keep, ~ (keep /\ b.isnodata),
         \A p \in Pixel : MaskValue(b, gvs, keep, p) \in Int \cup {Null}
  PROVE  LET r == SetMasks(b, gvs, keep)
         IN  /\ Good(r) /\ r.type = b.type /\ r.hasnodata = b.hasnodata
             /\ b.hasnodata => r.nodataval = b.nodataval
             /\ \A p \in Pixel : r.data[p] = Burnt(b, MaskValue(b, gvs, keep, p))
<1> DEFINE new == Canvas(b)
<1> DEFINE X == Leaves(new, Pixel)
<1> DEFINE Step(a, p) == Burn(b, gvs, keep, a, p)
<1> DEFINE G == [x \in X \X (1..Height) |-> Step(x[1], x[2])]
<1>0. /\ Good(new) /\ new.type = b.type /\ new.hasnodata = b.hasnodata
      /\ b.hasnodata => /\ new.nodataval = b.nodataval
                        /\ \A q \in Pixel : new.data[q] = b.nodataval
  BY CanvasGood
<1> HIDE DEF new
<1>1. Height \in Nat /\ new \in X
  BY <1>0, BandAssumption DEF Leaves, Same, Good
<1>2. ASSUME NEW a \in X, NEW p \in 1..Height
      PROVE  /\ Step(a, p) \in X
             /\ \A q \in Pixel \ {p} : Step(a, p).data[q] = a.data[q]
             /\ a.data[p] = new.data[p] => Step(a, p).data[p] = Burnt(b, MaskValue(b, gvs, keep, p))
  <2> DEFINE v == MaskValue(b, gvs, keep, p)
  <2>1. v \in Int \cup {Null} /\ p \in Pixel
    BY DEF Pixel
  <2>2. Good(a) /\ Same(a, new)
    BY DEF Leaves
  <2>3. \A h : Put(a, h) = Put(b, h)
    BY <1>0, <2>2, PutSame DEF Same
  <2> HIDE DEF v
  <2>4. ASSUME NEW h \in Int
        PROVE  LET s == rt_band_set_pixel(a, p, h)
               IN  s \in X /\ (\A q \in Pixel \ {p} : s.data[q] = a.data[q]) /\ s.data[p] = Put(b, h)
    <3> DEFINE s == rt_band_set_pixel(a, p, h)
    <3>1. /\ Good(s) /\ Same(s, a) /\ s.data[p] = Put(a, h)
          /\ \A q \in Pixel \ {p} : s.data[q] = a.data[q]
      BY <2>1, <2>2, SetPixelGood
    <3> HIDE DEF s
    <3>2. s \in X
      BY <2>2, <3>1 DEF Leaves, Same, Good
    <3> QED BY <2>3, <3>1, <3>2 DEF s
  <2>5. Lowest(b.type) \in Int
    BY TypeFields DEF Good, BandType, Lowest
  <2>6. CASE v # Null
    <3>1. Step(a, p) = rt_band_set_pixel(a, p, v) /\ Burnt(b, v) = Put(b, v)
      BY <2>6 DEF Burn, Burnt, v
    <3> QED BY <2>1, <2>4, <2>6, <3>1 DEF v
  <2>7. CASE v = Null /\ b.hasnodata
    <3>1. Step(a, p) = a /\ Burnt(b, v) = b.nodataval
      BY <2>7 DEF Burn, Burnt, v
    <3> QED BY <1>0, <2>1, <2>7, <3>1 DEF v
  <2>8. CASE v = Null /\ ~ b.hasnodata
    <3>1. Step(a, p) = rt_band_set_pixel(a, p, Lowest(b.type)) /\ Burnt(b, v) = Put(b, Lowest(b.type))
      BY <2>8 DEF Burn, Burnt, v
    <3> QED BY <2>4, <2>5, <3>1 DEF v
  <2>9. b.hasnodata \/ ~ b.hasnodata
    OBVIOUS
  <2> QED BY <2>6, <2>7, <2>8, <2>9
<1> HIDE DEF X, Step
<1>3. PICK f \in [0..Height -> X] : Iterates(f, Height, new, G)
  <2>1. G \in [X \X (1..Height) -> X]
    BY <1>2
  <2> HIDE DEF G
  <2> QED BY <1>1, <2>1, Recursion
<1>4. f = [p \in 0..Height |-> IF p = 0 THEN new ELSE Step(f[p - 1], p)]
  <2>1. ASSUME NEW p \in 1..Height PROVE f[p] = Step(f[p - 1], p)
    <3>1. p - 1 \in 0..Height /\ f[p - 1] \in X
      BY <1>1
    <3> QED BY <1>3, <3>1 DEF Iterates
  <2> QED BY <1>1, <1>3, <2>1 DEF Iterates
<1> DEFINE after == CHOOSE h : h = [p \in 0..Height |-> IF p = 0 THEN new ELSE Step(h[p - 1], p)]
<1>5. after = [p \in 0..Height |-> IF p = 0 THEN new ELSE Step(after[p - 1], p)]
  BY <1>4, Zenon
<1>6. SetMasks(b, gvs, keep) = after[Height]
  BY Zenon DEF SetMasks, Step, Burn, MaskValue, new, Canvas
<1> HIDE DEF after
<1> DEFINE S == {k \in 0..Height : /\ after[k] \in X
                                   /\ \A p \in 1..k : after[k].data[p] = Burnt(b, MaskValue(b, gvs, keep, p))
                                   /\ \A p \in k+1..Height : after[k].data[p] = new.data[p]}
<1>7. 0 \in S
  BY <1>1, <1>5
<1>8. ASSUME NEW k \in 0..Height, k < Height, k \in S PROVE k + 1 \in S
  <2>1. after[k + 1] = Step(after[k], k + 1) /\ k + 1 \in 1..Height
    BY <1>1, <1>5, <1>8
  <2> DEFINE s == after[k + 1]
  <2>2. /\ s \in X /\ \A q \in Pixel \ {k + 1} : s.data[q] = after[k].data[q]
        /\ s.data[k + 1] = Burnt(b, MaskValue(b, gvs, keep, k + 1))
    BY <1>1, <1>2, <1>8, <2>1
  <2> HIDE DEF s
  <2>3. ASSUME NEW p \in 1..k+1 PROVE s.data[p] = Burnt(b, MaskValue(b, gvs, keep, p))
    BY <1>1, <1>8, <2>2 DEF Pixel
  <2>4. ASSUME NEW p \in (k+1)+1..Height PROVE s.data[p] = new.data[p]
    BY <1>1, <1>8, <2>2 DEF Pixel
  <2> QED BY <1>1, <1>8, <2>2, <2>3, <2>4 DEF s
<1>9. Height \in S
  <2>1. 0..Height \subseteq S
    <3> HIDE DEF S
    <3> QED BY <1>1, <1>7, <1>8, UpTo
  <2> QED BY <1>1, <2>1
<1>10. Good(after[Height]) /\ Same(after[Height], new)
  BY <1>9 DEF X, Leaves
<1> QED BY <1>0, <1>6, <1>9, <1>10 DEF Same, Pixel

\* ST_Tile copies the rows it covers and pads the rest with the NODATA value.
LEMMA TileCopies ==
  ASSUME NEW b, Good(b), NEW off \in Nat, NEW pad \in Int \cup {Null}
  PROVE  LET r == RASTER_tile(b, off, pad)
         IN  /\ Good(r) /\ r.type = b.type /\ r.hasnodata = (b.hasnodata \/ pad # Null)
             /\ b.hasnodata => r.nodataval = b.nodataval
             /\ \A p \in Pixel : IF p + off \in Pixel THEN r.data[p] = b.data[p + off]
                                 ELSE r.hasnodata => r.data[p] = r.nodataval
<1> DEFINE padded == b.hasnodata \/ pad # Null
<1> DEFINE nodataval == IF b.hasnodata THEN b.nodataval ELSE IF pad # Null THEN pad ELSE Lowest(b.type)
<1> DEFINE tile == rt_raster_generate_new_band(Pixel, b.type, nodataval, padded, nodataval)
<1> DEFINE Step(a, p) == IF p + off \in Pixel THEN rt_band_set_pixel_line(a, p, b.data[p + off]) ELSE a
<1> DEFINE X == Leaves(tile, Pixel)
<1> DEFINE G == [x \in X \X (1..Height) |-> Step(x[1], x[2])]
<1>0. /\ Good(tile) /\ tile.type = b.type /\ tile.hasnodata = padded
      /\ padded => tile.nodataval = Clamp(b.type, nodataval)
      /\ \A q \in Pixel : tile.data[q] = Clamp(b.type, nodataval)
  <2>1. b.type \in PixType /\ padded \in BOOLEAN /\ nodataval \in Int
    BY TypeFields DEF Good, BandType, Lowest
  <2> HIDE DEF padded, nodataval
  <2> QED BY <2>1, NewBandGood
<1>1. b.hasnodata => padded /\ Clamp(b.type, nodataval) = b.nodataval
  BY DEF Good, Clamped
<1> HIDE DEF padded, nodataval, tile
<1>2. Height \in Nat /\ tile \in X
  BY <1>0, BandAssumption DEF Leaves, Same, Good
<1>3. ASSUME NEW a \in X, NEW p \in 1..Height
      PROVE  /\ Step(a, p) \in X
             /\ \A q \in Pixel \ {p} : Step(a, p).data[q] = a.data[q]
             /\ Step(a, p).data[p] = IF p + off \in Pixel THEN b.data[p + off] ELSE a.data[p]
  <2>1. CASE p + off \in Pixel
    <3> DEFINE v == b.data[p + off]
    <3> DEFINE s == rt_band_set_pixel_line(a, p, v)
    <3>1. v \in Int /\ Clamp(a.type, v) = v /\ Good(a) /\ p \in Pixel
      BY <1>0, <2>1 DEF Good, BandType, Clamped, Leaves, Same, Pixel
    <3> HIDE DEF v
    <3>2. /\ Good(s) /\ Same(s, a) /\ s.data[p] = v
          /\ \A q \in Pixel \ {p} : s.data[q] = a.data[q]
      BY <3>1, SetLineGood
    <3>3. Step(a, p) = s
      BY <2>1 DEF v
    <3> HIDE DEF s, Step
    <3>4. s \in X
      BY <3>2 DEF Leaves, Same, Good
    <3> QED BY <2>1, <3>2, <3>3, <3>4 DEF v
  <2>2. CASE p + off \notin Pixel
    BY <2>2
  <2> QED BY <2>1, <2>2
<1> HIDE DEF X, Step
<1>4. PICK f \in [0..Height -> X] : Iterates(f, Height, tile, G)
  <2>1. G \in [X \X (1..Height) -> X]
    BY <1>3
  <2> HIDE DEF G
  <2> QED BY <1>2, <2>1, Recursion
<1>5. f = [p \in 0..Height |-> IF p = 0 THEN tile ELSE Step(f[p - 1], p)]
  <2>1. ASSUME NEW p \in 1..Height PROVE f[p] = Step(f[p - 1], p)
    <3>1. p - 1 \in 0..Height /\ f[p - 1] \in X
      BY <1>2
    <3> QED BY <1>4, <3>1 DEF Iterates
  <2> QED BY <1>2, <1>4, <2>1 DEF Iterates
<1> DEFINE after == CHOOSE h : h = [p \in 0..Height |-> IF p = 0 THEN tile ELSE Step(h[p - 1], p)]
<1>6. after = [p \in 0..Height |-> IF p = 0 THEN tile ELSE Step(after[p - 1], p)]
  BY <1>5, Zenon
<1>7. RASTER_tile(b, off, pad) = IF b.isnodata THEN [tile EXCEPT !.isnodata = TRUE] ELSE after[Height]
  BY Zenon DEF RASTER_tile, Step, tile, nodataval, padded
<1> HIDE DEF after
<1> DEFINE S == {k \in 0..Height : /\ after[k] \in X
                                   /\ \A p \in 1..k : after[k].data[p] = IF p + off \in Pixel THEN b.data[p + off]
                                                                       ELSE tile.data[p]
                                   /\ \A p \in k+1..Height : after[k].data[p] = tile.data[p]}
<1>8. 0 \in S
  BY <1>2, <1>6
<1>9. ASSUME NEW k \in 0..Height, k < Height, k \in S PROVE k + 1 \in S
  <2>1. after[k + 1] = Step(after[k], k + 1) /\ k + 1 \in 1..Height
    BY <1>2, <1>6, <1>9
  <2> DEFINE s == after[k + 1]
  <2> DEFINE a == after[k]
  <2>2. /\ s \in X /\ \A q \in Pixel \ {k + 1} : s.data[q] = after[k].data[q]
        /\ s.data[k + 1] = IF (k + 1) + off \in Pixel THEN b.data[(k + 1) + off] ELSE after[k].data[k + 1]
    <3>1. a \in X /\ s = Step(a, k + 1)
      BY <1>9, <2>1
    <3> HIDE DEF a, s
    <3>2. /\ s \in X /\ \A q \in Pixel \ {k + 1} : s.data[q] = a.data[q]
          /\ s.data[k + 1] = IF (k + 1) + off \in Pixel THEN b.data[(k + 1) + off] ELSE a.data[k + 1]
      BY <1>3, <2>1, <3>1
    <3> QED BY <3>2 DEF a
  <2> HIDE DEF s
  <2>3. ASSUME NEW p \in 1..k+1
        PROVE  s.data[p] = IF p + off \in Pixel THEN b.data[p + off] ELSE tile.data[p]
    <3>1. CASE p = k + 1
      BY <1>2, <1>9, <2>2, <3>1
    <3>2. CASE p # k + 1
      BY <1>2, <1>9, <2>2, <3>2 DEF Pixel
    <3> QED BY <3>1, <3>2
  <2>4. ASSUME NEW p \in (k+1)+1..Height PROVE s.data[p] = tile.data[p]
    BY <1>2, <1>9, <2>2 DEF Pixel
  <2> QED BY <1>2, <1>9, <2>2, <2>3, <2>4 DEF s
<1>10. Height \in S
  <2>1. 0..Height \subseteq S
    <3> HIDE DEF S
    <3> QED BY <1>2, <1>8, <1>9, UpTo
  <2> QED BY <1>2, <2>1
<1>11. CASE ~ b.isnodata
  <2>1. Good(after[Height]) /\ Same(after[Height], tile)
    BY <1>10 DEF X, Leaves
  <2> QED BY <1>0, <1>1, <1>7, <1>10, <1>11, <2>1 DEF Same, Pixel, padded
<1>12. CASE b.isnodata
  <2> DEFINE r == [tile EXCEPT !.isnodata = TRUE]
  <2>1. b.hasnodata /\ \A q \in Pixel : b.data[q] = b.nodataval
    BY <1>12, StoredNodata DEF Good, Flagged, Clamped
  <2>2. r \in BandType /\ Same(r, tile) /\ r.data = tile.data /\ r.hasnodata
    BY <1>0, <1>1, <2>1 DEF Good, BandType, Same
  <2> HIDE DEF r
  <2>3. \A q \in Pixel : Clamp(tile.type, r.data[q]) = r.data[q] /\ r.data[q] = tile.nodataval
    BY <1>0, <1>1, <2>1, <2>2 DEF Good, Clamped
  <2>4. Good(r)
    BY <1>0, <2>2, <2>3, GoodBySettings
  <2> QED BY <1>0, <1>1, <1>7, <1>12, <2>1, <2>2, <2>3, <2>4 DEF Same, r, padded
<1> QED BY <1>11, <1>12

-----------------------------------------------------------------------------
(* The theorems.                                                             *)

\* A good band is stored as it is.
LEMMA StoredGood ==
  ASSUME NEW b, Good(b)
  PROVE  Stored(b) = b
BY DEF Stored, Good, Flagged, BandType

\* The numbers a call may bring.
LEMMA NumbersOfType == ASSUME NEW t \in PixType PROVE Number[t] \subseteq Int
BY BandAssumption

\* The inductive invariant.
IInv == Good(band) /\ touched \subseteq Pixel

\* A raster is made with a good band.
LEMMA InitIInv == Init => IInv
<1> SUFFICES ASSUME Init PROVE IInv
  OBVIOUS
<1>1. PICK t \in PixType : \E init, nodata \in Number[t], hasnodata \in BOOLEAN :
        /\ band = Stored(rt_raster_generate_new_band(Pixel, t, init, hasnodata, nodata))
        /\ touched = Pixel
  BY DEF Init
<1>2. PICK init \in Number[t], nodata \in Number[t], hasnodata \in BOOLEAN :
        /\ band = Stored(rt_raster_generate_new_band(Pixel, t, init, hasnodata, nodata))
        /\ touched = Pixel
  BY <1>1
<1> DEFINE new == rt_raster_generate_new_band(Pixel, t, init, hasnodata, nodata)
<1>3. Good(new)
  BY NewBandGood, NumbersOfType
<1> HIDE DEF new
<1>4. band = new
  BY <1>2, <1>3, StoredGood DEF new
<1> QED BY <1>2, <1>3, <1>4 DEF IInv

\* What a pixel of a good band reads as.
LEMMA ReadIs ==
  ASSUME NEW b, Good(b), NEW p \in Pixel
  PROVE  rt_band_get_pixel(b, p) = [value |-> b.data[p], nodata |-> b.hasnodata /\ b.data[p] = b.nodataval]
<1> DEFINE r == rt_band_get_pixel(b, p)
<1>1. r.value = b.data[p] /\ r.nodata \in BOOLEAN /\ (r.nodata <=> b.hasnodata /\ b.data[p] = b.nodataval)
  BY ReadsData
<1>2. r.nodata = (b.hasnodata /\ b.data[p] = b.nodataval)
  <2>1. b.hasnodata \in BOOLEAN
    BY DEF Good, BandType
  <2> HIDE DEF r
  <2> QED BY <1>1, <2>1
<1>3. r = [value |-> r.value, nodata |-> r.nodata]
  BY DEF rt_band_get_pixel
<1> HIDE DEF r
<1> QED BY <1>1, <1>2, <1>3 DEF r

\* A value that is stored and not NODATA is stored again as it is.
LEMMA PutAgain ==
  ASSUME NEW b, Good(b), NEW v \in Int, Clamp(b.type, v) = v
  PROVE  Put(b, v) = v
BY DEF Put, rt_band_corrected_clamped_value, rt_band_clamped_value_is_nodata, Good, Clamped

\* ST_SetBandNoDataValue: the value changes and the flag about all pixels is down, or
\* true after the pixels were looked at; the pixels stay.
LEMMA NoNodataGood ==
  ASSUME NEW b, Good(b)
  PROVE  LET new == rt_band_set_hasnodata_flag(b, FALSE) IN Good(new) /\ new.data = b.data
<1> DEFINE new == rt_band_set_hasnodata_flag(b, FALSE)
<1>1. /\ new \in BandType /\ new.type = b.type /\ new.nodataval = b.nodataval /\ new.data = b.data
      /\ new.isnodata = FALSE
  BY DEF rt_band_set_hasnodata_flag, Good, BandType
<1> HIDE DEF new
<1>2. Good(new)
  BY <1>1 DEF Good, Clamped, Flagged
<1> QED BY <1>1, <1>2 DEF new

\* rt_band_set_nodata leaves the pixels, and a flag that is true of them.
LEMMA SetNodataGood ==
  ASSUME NEW b, Good(b), NEW v \in Int
  PROVE  LET new == rt_band_set_nodata(b, v) IN Good(new) /\ new.data = b.data
<1> DEFINE new == rt_band_set_nodata(b, v)
<1>0. b.type \in PixType
  BY DEF Good, BandType
<1>1. Clamp(b.type, v) \in Int /\ Clamp(b.type, Clamp(b.type, v)) = Clamp(b.type, v)
  BY <1>0, ClampHolds
<1>2. /\ new \in BandType /\ new.type = b.type /\ new.nodataval = Clamp(b.type, v) /\ new.data = b.data
      /\ new.isnodata = FALSE
  BY <1>1 DEF rt_band_set_nodata, Good, BandType
<1> HIDE DEF new
<1>3. Good(new)
  BY <1>1, <1>2 DEF Good, Clamped, Flagged
<1> QED BY <1>2, <1>3 DEF new

\* rt_band_check_is_nodata puts the flag where the data are.
LEMMA CheckGood ==
  ASSUME NEW b, Good(b)
  PROVE  LET new == rt_band_check_is_nodata(b)
         IN  /\ Good(new) /\ new.data = b.data /\ Same(new, b)
             /\ new.isnodata => b.hasnodata /\ \A p \in Pixel : b.data[p] = b.nodataval
<1> DEFINE new == rt_band_check_is_nodata(b)
<1> DEFINE low == [b EXCEPT !.isnodata = FALSE]
<1>1. /\ low \in BandType /\ Same(low, b) /\ low.data = b.data /\ low.isnodata = FALSE
      /\ DOMAIN b.data = Pixel
  BY DEF Good, BandType, Same
<1>2. new.isnodata = (b.hasnodata /\ \A p \in DOMAIN b.data : rt_band_get_pixel(low, p).nodata)
  BY DEF rt_band_check_is_nodata, Good, BandType
<1>3. new \in BandType /\ Same(new, b) /\ new.data = b.data
  BY DEF rt_band_check_is_nodata, Good, BandType, Same
<1> HIDE DEF new, low
<1>4. Good(low)
  BY <1>1, GoodBySettings DEF Good, Clamped
<1>5. new.isnodata => b.hasnodata /\ \A p \in Pixel : b.data[p] = b.nodataval
  <2>1. \A p \in Pixel : rt_band_get_pixel(low, p).nodata <=> low.hasnodata /\ low.data[p] = low.nodataval
    BY <1>4, ReadsData
  <2> QED BY <1>1, <1>2, <2>1 DEF Same
<1>6. Good(new)
  BY <1>3, <1>5, GoodBySettings DEF Good, Clamped, Same
<1> QED BY <1>3, <1>5, <1>6 DEF new

\* ST_SetBandIsNoData where it may be called.
LEMMA FlagUpGood ==
  ASSUME NEW b, Good(b), rt_band_check_is_nodata(b).isnodata
  PROVE  LET new == [b EXCEPT !.isnodata = TRUE] IN Good(new) /\ new.data = b.data
<1> DEFINE new == [b EXCEPT !.isnodata = TRUE]
<1>1. b.hasnodata /\ \A p \in Pixel : b.data[p] = b.nodataval
  BY CheckGood
<1>2. new \in BandType /\ Same(new, b) /\ new.data = b.data
  BY DEF Good, BandType, Same
<1> HIDE DEF new
<1>3. /\ new.isnodata => new.hasnodata
      /\ \A q \in Pixel : /\ Clamp(b.type, new.data[q]) = new.data[q]
                          /\ new.isnodata => new.data[q] = b.nodataval
  BY <1>1, <1>2 DEF Good, Clamped, Same
<1>4. Good(new)
  BY <1>2, <1>3, GoodBySettings
<1> QED BY <1>2, <1>4 DEF new

-----------------------------------------------------------------------------
(* The calls.                                                                *)

\* A call makes a good band of the stored one, and leaves the data of the pixels that it is
\* not asked to write.
Rest(b, P) == Good(b) /\ P \subseteq Pixel /\ \A p \in Pixel \ P : b.data[p] = band.data[p]

\* A call puts the band it makes in place of the stored one.
LEMMA CallKeeps ==
  ASSUME NEW b, NEW P, Rest(b, P), Call(b, P)
  PROVE  band' = b /\ touched' = P /\ Rest(band', touched')
BY StoredGood DEF Call, Rest

\* The numbers asked for.
LEMMA AskedNumbers == ASSUME Good(band) PROVE Asked \subseteq Int \cup {Null}
BY NumbersOfType DEF Asked, Good, BandType

\* The pixels geometries lie over, and their values, are pixels and values.
LEMMA GeomValsLists ==
  ASSUME Good(band), NEW gvs \in GeomVals
  PROVE  \E n \in Nat : /\ gvs \in [1..n -> Over(gvs) \X (Int \cup {Null})]
                        /\ Over(gvs) \in SUBSET Pixel /\ Len(gvs) = n
<1>1. PICK n \in 1..MaxGeoms : gvs \in [1..n -> Pixel \X Asked]
  BY DEF GeomVals
<1>2. n \in Nat
  BY BandAssumption
<1>3. \A i \in 1..n : gvs[i] \in Over(gvs) \X (Int \cup {Null}) /\ gvs[i][1] \in Pixel
  BY <1>1, AskedNumbers DEF Over
<1>4. Over(gvs) \in SUBSET Pixel
  BY <1>1, <1>3 DEF Over
<1> QED BY <1>1, <1>2, <1>3, <1>4

\* What masks give a pixel is a number or NULL.
LEMMA MaskValueNumber ==
  ASSUME Good(band), NEW gvs \in GeomVals, NEW keep, NEW p \in Pixel
  PROVE  MaskValue(band, gvs, keep, p) \in Int \cup {Null}
<1>1. PICK n \in Nat : gvs \in [1..n -> Over(gvs) \X (Int \cup {Null})]
  BY GeomValsLists
<1>2. LastOver(gvs, p) # {} => (CHOOSE i \in LastOver(gvs, p) : TRUE) \in 1..n
  BY <1>1 DEF LastOver
<1>3. rt_band_get_pixel(band, p).value \in Int
  BY ReadsData DEF Good, BandType
<1> QED BY <1>1, <1>2, <1>3 DEF MaskValue

\* Pixels that no mask covers keep their data.
LEMMA MasksRest ==
  ASSUME Good(band), NEW gvs \in GeomVals, NEW keep
  PROVE  Rest(SetMasks(band, gvs, keep), Over(gvs))
<1>1. Over(gvs) \subseteq Pixel /\ Good(band)
  BY GeomValsLists
<1>2. CASE keep /\ band.isnodata
  BY <1>1, <1>2 DEF SetMasks, Rest
<1>3. CASE ~ (keep /\ band.isnodata)
  <2> DEFINE r == SetMasks(band, gvs, keep)
  <2>1. Good(r) /\ \A p \in Pixel : r.data[p] = Burnt(band, MaskValue(band, gvs, keep, p))
    BY <1>3, MaskValueNumber, MasksBurn
  <2> HIDE DEF r
  <2>2. ASSUME NEW p \in Pixel \ Over(gvs) PROVE r.data[p] = band.data[p]
    <3> DEFINE v == MaskValue(band, gvs, keep, p)
    <3> DEFINE old == rt_band_get_pixel(band, p)
    <3>1. LastOver(gvs, p) = {}
      BY DEF LastOver, Over
    <3>2. v = IF old.nodata THEN Null ELSE old.value
      BY <3>1 DEF MaskValue
    <3>3. /\ old.value = band.data[p] /\ (old.nodata <=> band.hasnodata /\ band.data[p] = band.nodataval)
          /\ band.data[p] \in Int /\ Clamp(band.type, band.data[p]) = band.data[p]
      BY ReadsData DEF Good, BandType, Clamped
    <3> HIDE DEF v, old
    <3>4. Burnt(band, v) = band.data[p]
      BY <3>2, <3>3, BandAssumption, PutAgain DEF Burnt
    <3> QED BY <2>1, <3>4 DEF v
  <2> QED BY <1>1, <2>1, <2>2 DEF Rest, r
<1> QED BY <1>2, <1>3

\* Every call leaves a good band, and the data of the pixels that it does not write.
LEMMA StepKeeps ==
  ASSUME Good(band), Next
  PROVE  Rest(band', touched')
<1>1. CASE ST_SetValue
  <2>1. PICK p \in Pixel, v \in Asked : Call(rt_band_set_pixel(band, p, ValueOf(band, v)), {p})
    BY <1>1 DEF ST_SetValue
  <2> DEFINE h == ValueOf(band, v)
  <2> DEFINE new == rt_band_set_pixel(band, p, h)
  <2>2. h \in Int
    BY AskedNumbers, WrittenNumber
  <2>3. Call(new, {p})
    BY <2>1
  <2> HIDE DEF h
  <2>4. Good(new) /\ \A q \in Pixel \ {p} : new.data[q] = band.data[q]
    BY <2>2, SetPixelGood
  <2> HIDE DEF new
  <2> QED BY <2>3, <2>4, CallKeeps DEF Rest
<1>2. CASE ST_SetValuesArray
  <2>1. PICK P \in SUBSET Pixel : \E news \in [P -> Asked], keep \in BOOLEAN :
          Call(RASTER_setPixelValuesArray(band, news, keep), P)
    BY <1>2 DEF ST_SetValuesArray
  <2>2. PICK news \in [P -> Asked], keep \in BOOLEAN : Call(RASTER_setPixelValuesArray(band, news, keep), P)
    BY <2>1
  <2> DEFINE new == RASTER_setPixelValuesArray(band, news, keep)
  <2>3. news \in [P -> Int \cup {Null}]
    BY AskedNumbers
  <2>4. new \in Leaves(band, P)
    BY <2>3, ArrayKeeps
  <2> HIDE DEF new
  <2>5. Rest(new, P)
    BY <2>4 DEF Leaves, Rest
  <2> QED BY <2>2, <2>5, CallKeeps DEF new
<1>3. CASE ST_SetValuesPoints
  <2>1. PICK gvs \in GeomVals, keep \in BOOLEAN : Call(SetPoints(band, gvs, keep), Over(gvs))
    BY <1>3 DEF ST_SetValuesPoints
  <2> DEFINE new == SetPoints(band, gvs, keep)
  <2> DEFINE P == Over(gvs)
  <2>2. PICK n \in Nat : gvs \in [1..n -> P \X (Int \cup {Null})] /\ P \in SUBSET Pixel
    BY GeomValsLists
  <2> HIDE DEF P
  <2>3. new \in Leaves(band, P)
    BY <2>2, PointsKeep
  <2> HIDE DEF new
  <2>4. Rest(new, P)
    BY <2>2, <2>3 DEF Leaves, Rest
  <2> QED BY <2>1, <2>4, CallKeeps DEF new, P
<1>4. CASE ST_SetValuesMasks
  <2>1. PICK gvs \in GeomVals, keep \in BOOLEAN : Call(SetMasks(band, gvs, keep), Over(gvs))
    BY <1>4 DEF ST_SetValuesMasks
  <2>2. Rest(SetMasks(band, gvs, keep), Over(gvs))
    BY MasksRest
  <2> QED BY <2>1, <2>2, CallKeeps
<1>5. CASE ST_SetBandNoDataValue
  <2>1. PICK v \in Asked, force \in BOOLEAN :
          LET b == IF v = Null THEN rt_band_set_hasnodata_flag(band, FALSE) ELSE rt_band_set_nodata(band, v)
          IN Call(IF v # Null /\ force THEN rt_band_check_is_nodata(b) ELSE b, {})
    BY <1>5 DEF ST_SetBandNoDataValue
  <2> DEFINE b == IF v = Null THEN rt_band_set_hasnodata_flag(band, FALSE) ELSE rt_band_set_nodata(band, v)
  <2> DEFINE new == IF v # Null /\ force THEN rt_band_check_is_nodata(b) ELSE b
  <2>2. Call(new, {})
    BY <2>1
  <2>3. v = Null => Good(b) /\ b.data = band.data
    BY NoNodataGood
  <2>4. v # Null => Good(b) /\ b.data = band.data
    BY AskedNumbers, SetNodataGood
  <2> HIDE DEF b
  <2>5. Good(new) /\ new.data = band.data
    BY <2>3, <2>4, CheckGood
  <2> HIDE DEF new
  <2> QED BY <2>2, <2>5, CallKeeps DEF Rest
<1>6. CASE ST_SetBandIsNoData
  <2> DEFINE new == [band EXCEPT !.isnodata = TRUE]
  <2>1. Call(new, {}) /\ rt_band_check_is_nodata(band).isnodata
    BY <1>6 DEF ST_SetBandIsNoData
  <2>2. Good(new) /\ new.data = band.data
    BY <2>1, FlagUpGood
  <2> HIDE DEF new
  <2> QED BY <2>1, <2>2, CallKeeps DEF Rest
<1>7. CASE ST_Tile
  <2>1. PICK off \in 0 .. Height - 1, pad \in Asked : Call(RASTER_tile(band, off, pad), Pixel)
    BY <1>7 DEF ST_Tile
  <2> DEFINE new == RASTER_tile(band, off, pad)
  <2>2. off \in Nat /\ pad \in Int \cup {Null}
    BY AskedNumbers, BandAssumption
  <2>3. Good(new)
    BY <2>2, TileCopies
  <2> HIDE DEF new
  <2>4. Rest(new, Pixel)
    BY <2>3 DEF Rest
  <2> QED BY <2>1, <2>4, CallKeeps DEF new
<1> QED BY <1>1, <1>2, <1>3, <1>4, <1>5, <1>6, <1>7 DEF Next

\* The inductive invariant holds.
LEMMA Inductive == Spec => []IInv
<1>1. IInv /\ [Next]_vars => IInv'
  <2> SUFFICES ASSUME IInv, [Next]_vars PROVE IInv'
    OBVIOUS
  <2>1. CASE Next
    BY <2>1, StepKeeps DEF IInv, Rest
  <2>2. CASE UNCHANGED vars
    BY <2>2 DEF IInv, vars, Good, BandType, Clamped, Flagged, Pixel
  <2> QED BY <2>1, <2>2
<1> QED BY InitIInv, <1>1, PTL DEF Spec

\* A band's settings and data are values of its type, whatever is written.
THEOREM TypeCorrect == Spec => []TypeOK
<1>1. IInv => TypeOK
  BY DEF IInv, Good, Clamped, TypeOK
<1> QED BY Inductive, <1>1, PTL

\* The flag that every pixel is NODATA is up only if they all are: no reader that trusts it
\* (rt_band_get_pixel, ST_Tile, ST_Union) skips a value.
THEOREM FlagCorrect == Spec => []FlagIsTrue
<1>1. IInv => FlagIsTrue
  BY DEF IInv, Good, Flagged, FlagIsTrue
<1> QED BY Inductive, <1>1, PTL

\* No call changes what a pixel that it does not write reads as.
THEOREM OthersKept == Spec => OthersReadAsBefore
<1> DEFINE Kept == \A p \in Pixel \ touched' :
                     /\ Read(p)'.value = Read(p).value
                     /\ <<band.hasnodata, band.nodataval>>' = <<band.hasnodata, band.nodataval>>
                          => Read(p)' = Read(p)
<1>1. IInv /\ [Next]_vars => [Kept]_vars
  <2> SUFFICES ASSUME IInv, Next, NEW p \in Pixel \ touched'
               PROVE  /\ Read(p)'.value = Read(p).value
                      /\ <<band.hasnodata, band.nodataval>>' = <<band.hasnodata, band.nodataval>>
                           => Read(p)' = Read(p)
    OBVIOUS
  <2>1. Good(band) /\ Rest(band', touched')
    BY StepKeeps DEF IInv
  <2>2. Read(p) = [value |-> band.data[p], nodata |-> band.hasnodata /\ band.data[p] = band.nodataval]
    BY <2>1, ReadIs DEF Read
  <2> DEFINE b == band'
  <2>3. Good(b) /\ b.data[p] = band.data[p] /\ p \in Pixel
    BY <2>1 DEF Rest
  <2>4. Read(p)' = rt_band_get_pixel(b, p)
    BY DEF Read, rt_band_get_pixel, rt_band_clamped_value_is_nodata, Clamp, Truncated, Lowest, Highest
  <2> HIDE DEF b
  <2>5. rt_band_get_pixel(b, p) = [value |-> b.data[p], nodata |-> b.hasnodata /\ b.data[p] = b.nodataval]
    BY <2>3, ReadIs
  <2>6. /\ rt_band_get_pixel(b, p).value = Read(p).value
        /\ b.hasnodata = band.hasnodata /\ b.nodataval = band.nodataval => rt_band_get_pixel(b, p) = Read(p)
    BY <2>2, <2>3, <2>5
  <2> QED BY <2>4, <2>6 DEF b
<1> QED BY Inductive, <1>1, PTL DEF Spec, OthersReadAsBefore

\* A number in the range of the type is stored as it is, or as the whole number below, or,
\* when that would be NODATA, as the whole number above that or below.
LEMMA PutNear ==
  ASSUME NEW b, Good(b), NEW v \in Int, v \in Lowest(b.type)..Highest(b.type), v % 2 = 0 \/ b.type.lo >= 0
  PROVE  /\ Put(b, v) - v \in -3..3
         /\ b.hasnodata => (Put(b, v) = b.nodataval <=> v = b.nodataval)
<1> DEFINE t == b.type
<1> DEFINE n == b.nodataval
<1> DEFINE c == rt_band_corrected_clamped_value(b, v)
<1>1. /\ t \in PixType /\ n \in Int /\ Clamp(t, n) = n /\ b.hasnodata \in BOOLEAN
  BY DEF Good, BandType, Clamped
<1>2. /\ t.lo \in Int /\ t.hi \in Int /\ t.lo < t.hi /\ t.float \in BOOLEAN /\ t.bit \in BOOLEAN
      /\ Lowest(t) = 2 * t.lo /\ Highest(t) = 2 * t.hi
      /\ t.bit => t.lo = 0 /\ t.hi = 1
  BY <1>1, TypeFields DEF Lowest, Highest
<1>3. CASE t.float
  <2>1. Put(b, v) = v
    BY <1>1, <1>3, ClampHolds DEF Put
  <2> QED BY <2>1
<1>4. CASE ~ t.float
  <2>1. Put(b, v) = Clamp(t, c)
    BY <1>4 DEF Put
  <2>2. \A h \in Int : /\ h \in Lowest(t)..Highest(t) /\ h % 2 = 0 => Clamp(t, h) = h
                       /\ h > Highest(t) => Clamp(t, h) = Highest(t)
                       /\ h \in Lowest(t)..Highest(t) /\ h >= 0 /\ h % 2 = 1 => Clamp(t, h) = h - 1
    BY <1>1, <1>4, ClampHolds
  <2>3. CASE rt_band_clamped_value_is_nodata(b, v) # 1
    <3>1. c = v /\ (~ b.hasnodata \/ v = n \/ Clamp(t, v) # Clamp(t, n))
      BY <2>3 DEF rt_band_corrected_clamped_value, rt_band_clamped_value_is_nodata
    <3>2. Clamp(t, v) - v \in -1..0
      BY <1>2, <2>2
    <3> HIDE DEF c, t, n
    <3>3. Put(b, v) - v \in -3..3
      BY <2>1, <3>1, <3>2
    <3>4. b.hasnodata => (Put(b, v) = n <=> v = n)
      BY <1>1, <2>1, <3>1
    <3> QED BY <3>3, <3>4 DEF n
  <2>4. CASE rt_band_clamped_value_is_nodata(b, v) = 1
    <3>1. /\ v # n /\ Clamp(t, v) = n
          /\ c = IF t.bit THEN (IF n = 0 THEN 2 ELSE 0)
                 ELSE IF Clamp(t, v) = Clamp(t, Lowest(t)) THEN v + 2 ELSE v - 2
      BY <1>1, <2>4 DEF rt_band_corrected_clamped_value, rt_band_clamped_value_is_nodata
    <3> HIDE DEF c
    <3>2. v % 2 = 1 /\ v >= 0 /\ t.lo >= 0 /\ n = v - 1
      BY <1>2, <2>2, <3>1
    <3>3. Clamp(t, Lowest(t)) = Lowest(t)
      BY <1>2, <2>2
    <3>4. CASE t.bit
      BY <1>2, <2>1, <2>2, <3>1, <3>2, <3>4
    <3>5. CASE ~ t.bit /\ n = Lowest(t)
      <4>1. c = v + 2 /\ v = Lowest(t) + 1
        BY <3>1, <3>2, <3>3, <3>5
      <4>2. c \in Int /\ c >= 0 /\ c % 2 = 1
        BY <3>2, <4>1
      <4>3. c \in Lowest(t)..Highest(t) \/ c = Highest(t) + 1
        BY <1>2, <4>1
      <4>4. Clamp(t, c) = v + 1
        BY <1>2, <2>2, <4>1, <4>2, <4>3
      <4> QED BY <2>1, <3>2, <4>4
    <3>6. CASE ~ t.bit /\ n # Lowest(t)
      <4>1. c = v - 2
        BY <3>1, <3>2, <3>3, <3>6
      <4>2. v >= Lowest(t) + 3 /\ Lowest(t) >= 0
        <5> DEFINE k == v \div 2
        <5>1. k \in Int /\ v = 2 * k + 1
          BY <3>2
        <5> HIDE DEF k
        <5>2. k >= t.lo
          BY <1>2, <5>1
        <5>3. k # t.lo
          BY <1>2, <3>2, <3>6, <5>1
        <5> QED BY <1>2, <3>2, <5>1, <5>2, <5>3
      <4>3. c \in Int /\ c >= 0 /\ c % 2 = 1 /\ c \in Lowest(t)..Highest(t)
        BY <1>2, <3>2, <4>1, <4>2
      <4>4. Clamp(t, c) = c - 1
        BY <2>2, <4>3
      <4>5. Clamp(t, c) = v - 3
        BY <4>1, <4>4
      <4> QED BY <2>1, <3>2, <4>5
    <3> QED BY <1>2, <3>4, <3>5, <3>6
  <2> QED BY <2>3, <2>4
<1> QED BY <1>2, <1>3, <1>4

\* What is written is read back: ST_SetValue then ST_Value give a number the type can hold,
\* or its neighbour, and NODATA only for the NODATA value.
THEOREM WritesCorrect == Spec => []WritesReadBack
<1>1. IInv => WritesReadBack
  <2> DEFINE t == band.type
  <2> SUFFICES ASSUME IInv, NEW p \in Pixel, NEW v \in Number[t],
                      v \in Lowest(t)..Highest(t), v % 2 = 0 \/ t.lo >= 0
               PROVE  LET r == rt_band_get_pixel(rt_band_set_pixel(band, p, v), p)
                      IN  (r.nodata <=> (band.hasnodata /\ v = band.nodataval)) /\ r.value - v \in -3..3
    BY DEF WritesReadBack
  <2>1. Good(band) /\ v \in Int
    BY NumbersOfType DEF IInv, Good, BandType
  <2> DEFINE new == rt_band_set_pixel(band, p, v)
  <2>2. Good(new) /\ Same(new, band) /\ new.data[p] = Put(band, v)
    BY <2>1, SetPixelGood
  <2> HIDE DEF new
  <2>3. rt_band_get_pixel(new, p) = [value |-> new.data[p], nodata |-> new.hasnodata /\ new.data[p] = new.nodataval]
    BY <2>2, ReadIs
  <2>4. /\ Put(band, v) - v \in -3..3
        /\ band.hasnodata => (Put(band, v) = band.nodataval <=> v = band.nodataval)
    BY <2>1, PutNear
  <2> DEFINE r == rt_band_get_pixel(new, p)
  <2>5. r.value = Put(band, v) /\ r.nodata = (band.hasnodata /\ Put(band, v) = band.nodataval)
    BY <2>2, <2>3 DEF Same
  <2> HIDE DEF r
  <2>6. (r.nodata <=> (band.hasnodata /\ v = band.nodataval)) /\ r.value - v \in -3..3
    BY <2>4, <2>5
  <2> QED BY <2>6 DEF r, new
<1> QED BY Inductive, <1>1, PTL

\* ST_Tile: a tile reads as the rows it was cut from, and NODATA beyond them.
THEOREM TilesCorrect == Spec => []TilesReadAsTheBand
<1>1. IInv => TilesReadAsTheBand
  <2> SUFFICES ASSUME IInv, NEW off \in 0 .. Height - 1, NEW pad \in Asked, NEW p \in Pixel
               PROVE  LET r == rt_band_get_pixel(Stored(RASTER_tile(band, off, pad)), p)
                      IN  IF p + off \in Pixel
                          THEN r.value = Read(p + off).value /\ (band.hasnodata => r = Read(p + off))
                          ELSE r.nodata <=> (band.hasnodata \/ pad # Null)
    BY DEF TilesReadAsTheBand
  <2>1. Good(band) /\ off \in Nat /\ pad \in Int \cup {Null}
    BY AskedNumbers, BandAssumption DEF IInv
  <2> DEFINE new == RASTER_tile(band, off, pad)
  <2>2. /\ Good(new) /\ new.hasnodata = (band.hasnodata \/ pad # Null)
        /\ band.hasnodata => new.nodataval = band.nodataval
        /\ IF p + off \in Pixel THEN new.data[p] = band.data[p + off]
           ELSE new.hasnodata => new.data[p] = new.nodataval
    BY <2>1, TileCopies
  <2> HIDE DEF new
  <2>3. Stored(new) = new
    BY <2>2, StoredGood
  <2>4. rt_band_get_pixel(new, p) = [value |-> new.data[p], nodata |-> new.hasnodata /\ new.data[p] = new.nodataval]
    BY <2>2, ReadIs
  <2> DEFINE r == rt_band_get_pixel(new, p)
  <2>5. r.value = new.data[p] /\ r.nodata = (new.hasnodata /\ new.data[p] = new.nodataval)
        /\ r = [value |-> r.value, nodata |-> r.nodata]
    BY <2>4
  <2> HIDE DEF r
  <2>6. CASE p + off \in Pixel
    <3>1. Read(p + off) = [value |-> band.data[p + off],
                           nodata |-> band.hasnodata /\ band.data[p + off] = band.nodataval]
      BY <2>1, <2>6, ReadIs DEF Read
    <3> DEFINE old == Read(p + off)
    <3>2. old.value = r.value /\ old = [value |-> old.value, nodata |-> old.nodata]
          /\ old.nodata = (band.hasnodata /\ new.data[p] = band.nodataval)
      BY <2>2, <2>5, <2>6, <3>1
    <3>3. band.hasnodata => r.nodata = old.nodata
      BY <2>2, <2>5, <3>2
    <3> HIDE DEF old
    <3>4. r.value = old.value /\ (band.hasnodata => r = old)
      BY <2>5, <3>2, <3>3
    <3> QED BY <2>3, <2>6, <3>4 DEF r, new, old
  <2>7. CASE p + off \notin Pixel
    <3>1. r.nodata <=> (band.hasnodata \/ pad # Null)
      BY <2>2, <2>5, <2>7
    <3> QED BY <2>3, <2>7, <3>1 DEF r, new
  <2> QED BY <2>6, <2>7
<1> QED BY Inductive, <1>1, PTL

-----------------------------------------------------------------------------
(* Points and masks.                                                         *)

\* keepnodata protects a pixel; a value that it would not protect once written.
Protected(b, keep, p) == keep /\ b.hasnodata /\ b.data[p] = b.nodataval
Unprotected(b, v)     == v # Null /\ Put(b, v) # b.nodataval

\* What burns is what a point sets, NULL of a band without NODATA apart.
LEMMA BurntIs ==
  ASSUME NEW b, Good(b), NEW v \in Int \cup {Null}, b.hasnodata \/ v # Null
  PROVE  Burnt(b, v) = Put(b, PointValue(b, v))
<1>1. b.nodataval \in Int /\ Clamp(b.type, b.nodataval) = b.nodataval
  BY DEF Good, BandType, Clamped
<1>2. Put(b, b.nodataval) = b.nodataval
  BY <1>1, PutAgain
<1> QED BY <1>2 DEF Burnt, PointValue, GeomNodata

\* That NULL is 0 from a point, and the type's lowest value when burnt.
LEMMA NullIs ==
  ASSUME NEW b, Good(b), ~ b.hasnodata
  PROVE  Put(b, PointValue(b, Null)) = 0 /\ Burnt(b, Null) = Lowest(b.type)
<1> DEFINE t == b.type
<1>1. t \in PixType
  BY DEF Good, BandType
<1> HIDE DEF t
<1>2. Lowest(t) \in Int /\ Lowest(t) <= 0 /\ 0 <= Highest(t) /\ Lowest(t) % 2 = 0 /\ Highest(t) \in Int
  BY <1>1, TypeFields DEF Lowest, Highest
<1>3. Clamp(t, 0) = 0 /\ Clamp(t, Lowest(t)) = Lowest(t)
  BY <1>1, <1>2, ClampHolds
<1>4. Put(b, 0) = 0 /\ Put(b, Lowest(t)) = Lowest(t)
  BY <1>2, <1>3, PutAgain DEF t
<1> QED BY <1>4 DEF PointValue, GeomNodata, Burnt, t

\* One point of the list is set.
LEMMA SetOne ==
  ASSUME NEW b, Good(b), NEW a \in Leaves(b, Pixel), NEW p \in Pixel, NEW h \in Int, NEW keep,
         keep /\ b.hasnodata => (a.data[p] = b.nodataval <=> b.data[p] = b.nodataval)
  PROVE  LET s == SetUnlessKept(a, p, h, keep)
         IN  /\ s \in Leaves(b, Pixel) /\ \A q \in Pixel \ {p} : s.data[q] = a.data[q]
             /\ s.data[p] = IF Protected(b, keep, p) THEN a.data[p] ELSE Put(b, h)
<1> DEFINE s == SetUnlessKept(a, p, h, keep)
<1> DEFINE new == rt_band_set_pixel(a, p, h)
<1>1. Good(a) /\ Same(a, b)
  BY DEF Leaves
<1>2. Put(a, h) = Put(b, h)
  BY <1>1, PutSame DEF Same
<1>3. s = IF keep /\ rt_band_get_pixel(a, p).nodata THEN a ELSE new
  BY DEF SetUnlessKept
<1>4. rt_band_get_pixel(a, p).nodata <=> b.hasnodata /\ a.data[p] = b.nodataval
  BY <1>1, ReadsData DEF Same
<1>5. s \in Leaves(b, Pixel)
  BY SetKeeps
<1>6. new.data[p] = Put(a, h) /\ \A q \in Pixel \ {p} : new.data[q] = a.data[q]
  BY <1>1, SetPixelGood
<1> HIDE DEF new, s
<1>7. keep /\ rt_band_get_pixel(a, p).nodata <=> Protected(b, keep, p)
  BY <1>4 DEF Protected
<1> QED BY <1>2, <1>3, <1>5, <1>6, <1>7 DEF s

\* After k points a band holds, in every pixel, what the last of them that lies in it wrote.
HasLast(b, gvs, keep, k, a) ==
  /\ a \in Leaves(b, Pixel)
  /\ \A p \in Pixel :
       \/ /\ Protected(b, keep, p) \/ \A i \in 1..k : gvs[i][1] # p
          /\ a.data[p] = b.data[p]
       \/ /\ ~ Protected(b, keep, p)
          /\ \E i \in 1..k : /\ gvs[i][1] = p /\ \A j \in i+1..k : gvs[j][1] # p
                             /\ a.data[p] = Put(b, PointValue(b, gvs[i][2]))

\* Each point takes the place of those before it.
LEMMA NextPoint ==
  ASSUME NEW b, Good(b), NEW n \in Nat, NEW gvs \in [1..n -> Pixel \X (Int \cup {Null})], NEW keep,
         keep /\ b.hasnodata => \A i \in 1..n : Unprotected(b, gvs[i][2]),
         NEW k \in 0..n, k < n, NEW a, HasLast(b, gvs, keep, k, a)
  PROVE  HasLast(b, gvs, keep, k + 1, SetUnlessKept(a, gvs[k + 1][1], PointValue(b, gvs[k + 1][2]), keep))
<1> DEFINE p == gvs[k + 1][1]
<1> DEFINE v == gvs[k + 1][2]
<1> DEFINE s == SetUnlessKept(a, p, PointValue(b, v), keep)
<1>1. k + 1 \in 1..n /\ p \in Pixel /\ PointValue(b, v) \in Int
  <2>1. k + 1 \in 1..n /\ p \in Pixel /\ v \in Int \cup {Null}
    BY BandAssumption
  <2> HIDE DEF v
  <2> QED BY <2>1, WrittenNumber
<1>2. a \in Leaves(b, Pixel)
  BY DEF HasLast
<1>3. ASSUME keep, b.hasnodata PROVE a.data[p] = b.nodataval <=> b.data[p] = b.nodataval
  <2>1. CASE a.data[p] = b.data[p]
    BY <2>1
  <2>2. CASE a.data[p] # b.data[p]
    <3>1. PICK i \in 1..k : a.data[p] = Put(b, PointValue(b, gvs[i][2]))
      BY <1>1, <2>2 DEF HasLast
    <3>2. i \in 1..n /\ ~ Protected(b, keep, p)
      BY <1>1, <2>2 DEF HasLast
    <3>3. a.data[p] # b.nodataval
      BY <1>3, <3>1, <3>2 DEF Unprotected, PointValue
    <3> QED BY <1>3, <3>2, <3>3 DEF Protected
  <2> QED BY <2>1, <2>2
<1>4. /\ s \in Leaves(b, Pixel) /\ \A q \in Pixel \ {p} : s.data[q] = a.data[q]
      /\ s.data[p] = IF Protected(b, keep, p) THEN a.data[p] ELSE Put(b, PointValue(b, v))
  <2> HIDE DEF p, v
  <2> QED BY <1>1, <1>2, <1>3, SetOne
<1>5. ASSUME NEW q \in Pixel
      PROVE  \/ /\ Protected(b, keep, q) \/ \A i \in 1..k+1 : gvs[i][1] # q
                /\ s.data[q] = b.data[q]
             \/ /\ ~ Protected(b, keep, q)
                /\ \E i \in 1..k+1 : /\ gvs[i][1] = q /\ \A j \in i+1..k+1 : gvs[j][1] # q
                                     /\ s.data[q] = Put(b, PointValue(b, gvs[i][2]))
  <2> HIDE DEF s
  <2>1. CASE q = p /\ Protected(b, keep, q)
    BY <1>1, <1>4, <2>1 DEF HasLast
  <2>2. CASE q = p /\ ~ Protected(b, keep, q)
    <3>1. gvs[k + 1][1] = q /\ s.data[q] = Put(b, PointValue(b, gvs[k + 1][2]))
      BY <1>4, <2>2
    <3>2. k + 1 \in 1..k+1 /\ (k + 1) + 1 .. k + 1 = {}
      OBVIOUS
    <3> QED BY <2>2, <3>1, <3>2
  <2>3. CASE q # p
    <3>1. s.data[q] = a.data[q]
      BY <1>4, <2>3
    <3>2. \A i \in 1..k+1 : i \in 1..k \/ i = k + 1
      OBVIOUS
    <3>3. CASE (Protected(b, keep, q) \/ \A i \in 1..k : gvs[i][1] # q) /\ a.data[q] = b.data[q]
      BY <2>3, <3>1, <3>2, <3>3
    <3>4. CASE ~ Protected(b, keep, q) /\ \E i \in 1..k : /\ gvs[i][1] = q /\ \A j \in i+1..k : gvs[j][1] # q
                                                          /\ a.data[q] = Put(b, PointValue(b, gvs[i][2]))
      <4>1. PICK i \in 1..k : /\ gvs[i][1] = q /\ \A j \in i+1..k : gvs[j][1] # q
                              /\ a.data[q] = Put(b, PointValue(b, gvs[i][2]))
        BY <3>4
      <4>2. i \in 1..k+1 /\ \A j \in i+1..k+1 : gvs[j][1] # q
        <5>1. i \in 1..k+1 /\ \A j \in i+1..k+1 : j \in i+1..k \/ j = k + 1
          OBVIOUS
        <5>2. gvs[k + 1][1] # q
          BY <2>3
        <5> QED BY <4>1, <5>1, <5>2
      <4> QED BY <3>1, <3>4, <4>1, <4>2
    <3> QED BY <3>3, <3>4 DEF HasLast
  <2> QED BY <2>1, <2>2, <2>3
<1> QED BY <1>4, <1>5 DEF HasLast

\* ST_SetValues with points: the last point in a pixel gives its value.
LEMMA PointsHaveLast ==
  ASSUME NEW b, Good(b), NEW n \in Nat, NEW gvs \in [1..n -> Pixel \X (Int \cup {Null})], NEW keep,
         keep /\ b.hasnodata => \A i \in 1..n : Unprotected(b, gvs[i][2]), ~ (keep /\ b.isnodata)
  PROVE  HasLast(b, gvs, keep, n, SetPoints(b, gvs, keep))
<1> DEFINE X == Leaves(b, Pixel)
<1> DEFINE Step(a, i) == SetUnlessKept(a, gvs[i][1], PointValue(b, gvs[i][2]), keep)
<1> DEFINE G == [x \in X \X (1..n) |-> Step(x[1], x[2])]
<1>1. Len(gvs) = n /\ b \in X /\ X \subseteq BandType
  BY DEF Leaves, Same, Good
<1>2. \A a \in X, i \in 1..n : Step(a, i) \in X
  BY SetKeeps, WrittenNumber
<1> HIDE DEF X, Step
<1>3. PICK f \in [0..n -> X] : Iterates(f, n, b, G)
  <2>1. G \in [X \X (1..n) -> X]
    BY <1>2
  <2> HIDE DEF G
  <2> QED BY <1>1, <2>1, Recursion
<1>4. f = [i \in 0..n |-> IF i = 0 THEN b ELSE Step(f[i - 1], i)]
  <2>1. ASSUME NEW i \in 1..n PROVE f[i] = Step(f[i - 1], i)
    <3>1. i - 1 \in 0..n /\ f[i - 1] \in X
      OBVIOUS
    <3> QED BY <1>3, <3>1 DEF Iterates
  <2> QED BY <1>3, <2>1 DEF Iterates
<1> DEFINE after == CHOOSE h : h = [i \in 0..n |-> IF i = 0 THEN b ELSE Step(h[i - 1], i)]
<1>5. after = [i \in 0..n |-> IF i = 0 THEN b ELSE Step(after[i - 1], i)]
  BY <1>4, Zenon
<1>6. SetPoints(b, gvs, keep) = after[n]
  BY <1>1 DEF SetPoints, Step
<1> HIDE DEF after
<1> DEFINE S == {k \in 0..n : HasLast(b, gvs, keep, k, after[k])}
<1>7. 0 \in S
  <2>1. HasLast(b, gvs, keep, 0, b)
    BY <1>1 DEF HasLast, X
  <2> QED BY <1>5, <2>1
<1>8. ASSUME NEW k \in 0..n, k < n, k \in S PROVE k + 1 \in S
  <2> DEFINE a == after[k]
  <2>1. after[k + 1] = Step(a, k + 1) /\ k + 1 \in 0..n
    BY <1>5, <1>8
  <2>2. HasLast(b, gvs, keep, k, a)
    BY <1>8
  <2> HIDE DEF a
  <2>3. HasLast(b, gvs, keep, k + 1, Step(a, k + 1))
    BY <1>8, <2>2, NextPoint DEF Step
  <2> QED BY <2>1, <2>3
<1>9. n \in S
  <2>1. 0..n \subseteq S
    <3> HIDE DEF S
    <3> QED BY <1>7, <1>8, UpTo
  <2> QED BY <2>1
<1> QED BY <1>6, <1>9

\* What a mask gives to a pixel is what the last point in it gives, NULL of a band without
\* NODATA apart.
LEMMA MasksHaveLast ==
  ASSUME Good(band), NEW gvs \in GeomVals, NEW keep, NEW p \in Pixel, NEW d,
         \/ /\ Protected(band, keep, p) \/ \A i \in DOMAIN gvs : gvs[i][1] # p
            /\ d = band.data[p]
         \/ /\ ~ Protected(band, keep, p)
            /\ \E i \in DOMAIN gvs : /\ gvs[i][1] = p /\ \A j \in DOMAIN gvs : j > i => gvs[j][1] # p
                                     /\ d = Put(band, PointValue(band, gvs[i][2]))
  PROVE  LET m == Burnt(band, MaskValue(band, gvs, keep, p))
         IN  IF ~ band.hasnodata /\ NullIsLast(gvs, p) THEN d = 0 /\ m = Lowest(band.type) ELSE d = m
<1> DEFINE old == rt_band_get_pixel(band, p)
<1> DEFINE v == MaskValue(band, gvs, keep, p)
<1>1. /\ old.value = band.data[p] /\ (old.nodata <=> band.hasnodata /\ band.data[p] = band.nodataval)
      /\ band.data[p] \in Int /\ Clamp(band.type, band.data[p]) = band.data[p]
  BY ReadsData DEF Good, BandType, Clamped
<1>2. PICK n \in Nat : gvs \in [1..n -> Over(gvs) \X (Int \cup {Null})]
  BY GeomValsLists
<1>3. CASE Protected(band, keep, p)
  <2>1. v = Null
    BY <1>1, <1>3 DEF Protected, MaskValue
  <2> QED BY <1>3, <2>1 DEF Burnt, Protected
<1>4. CASE ~ Protected(band, keep, p) /\ \A i \in DOMAIN gvs : gvs[i][1] # p
  <2>0. ~ NullIsLast(gvs, p)
    BY <1>4 DEF NullIsLast
  <2>1. LastOver(gvs, p) = {}
    BY <1>4 DEF LastOver
  <2>2. v = IF old.nodata THEN Null ELSE old.value
    BY <2>1 DEF MaskValue
  <2> HIDE DEF v, old
  <2>3. Burnt(band, v) = band.data[p]
    BY <1>1, <2>2, BandAssumption, PutAgain DEF Burnt
  <2> QED BY <1>4, <2>0, <2>3 DEF v
<1>5. CASE ~ Protected(band, keep, p) /\ \E i \in DOMAIN gvs : gvs[i][1] = p
  <2>1. PICK i \in DOMAIN gvs : /\ gvs[i][1] = p /\ \A j \in DOMAIN gvs : j > i => gvs[j][1] # p
                                /\ d = Put(band, PointValue(band, gvs[i][2]))
    BY <1>5
  <2>2. LastOver(gvs, p) = {i}
    <3>1. DOMAIN gvs = 1..n /\ i \in 1..n
      BY <1>2
    <3>2. \A k \in 1..n : k \in LastOver(gvs, p) <=> gvs[k][1] = p /\ \A j \in 1..n : gvs[j][1] = p => j <= k
      BY <3>1 DEF LastOver
    <3>3. LastOver(gvs, p) \subseteq 1..n
      BY <3>1 DEF LastOver
    <3>4. \A j \in 1..n : gvs[j][1] = p => j <= i
      BY <2>1, <3>1
    <3>5. i \in LastOver(gvs, p)
      BY <2>1, <3>1, <3>2, <3>4
    <3>6. ASSUME NEW k \in LastOver(gvs, p) PROVE k = i
      <4>1. k \in 1..n /\ k <= i /\ i <= k
        BY <2>1, <3>1, <3>2, <3>3, <3>4
      <4> QED BY <3>1, <4>1
    <3> QED BY <3>5, <3>6
  <2>3. v = gvs[i][2]
    BY <1>1, <1>5, <2>2 DEF MaskValue, Protected
  <2>4. gvs[i][2] \in Int \cup {Null}
    BY <1>2
  <2>5. NullIsLast(gvs, p) <=> v = Null
    <3>1. DOMAIN gvs = 1..n /\ i \in 1..n /\ gvs[i] = <<p, v>>
      BY <1>2, <2>1, <2>3
    <3> HIDE DEF v
    <3>2. ASSUME NullIsLast(gvs, p) PROVE v = Null
      <4>1. PICK j \in 1..n : gvs[j] = <<p, Null>> /\ \A k \in 1..n : k > j => gvs[k][1] # p
        BY <3>1, <3>2 DEF NullIsLast
      <4>2. j = i
        <5>1. ~ (j > i) /\ ~ (i > j)
          BY <2>1, <3>1, <4>1
        <5> QED BY <3>1, <5>1
      <4> QED BY <3>1, <4>1, <4>2
    <3>3. v = Null => NullIsLast(gvs, p)
      BY <2>1, <3>1 DEF NullIsLast
    <3> QED BY <3>2, <3>3
  <2> HIDE DEF v
  <2>6. CASE band.hasnodata \/ v # Null
    <3>1. Burnt(band, v) = Put(band, PointValue(band, v))
      BY <2>3, <2>4, <2>6, BurntIs
    <3> QED BY <2>1, <2>3, <2>5, <2>6, <3>1 DEF v
  <2>7. CASE ~ band.hasnodata /\ v = Null
    <3>1. Put(band, PointValue(band, Null)) = 0 /\ Burnt(band, Null) = Lowest(band.type)
      BY <2>7, NullIs
    <3> QED BY <2>1, <2>3, <2>5, <2>7, <3>1 DEF v
  <2> QED BY <2>6, <2>7
<1> QED BY <1>3, <1>4, <1>5

\* ST_SetValues gives the same band whether its geometries are points, set one by one, or
\* go through masks, unless keepnodata protects what an earlier point made NODATA, or NULL
\* is set where there is no NODATA value: that is 0 from points and the type's lowest value
\* from masks.
THEOREM PathsCorrect == Spec => []PathsAgree
<1>1. IInv => PathsAgree
  <2> DEFINE odd(gvs, p) == ~ band.hasnodata /\ NullIsLast(gvs, p)
  <2> SUFFICES ASSUME IInv, NEW gvs \in GeomVals, NEW keep \in BOOLEAN, NoneProtected(gvs, keep),
                      NEW p \in Pixel
               PROVE  IF odd(gvs, p)
                      THEN ByPoints(gvs, keep, p).value = 0 /\ ByMasks(gvs, keep, p).value = Lowest(band.type)
                      ELSE ByPoints(gvs, keep, p) = ByMasks(gvs, keep, p)
    BY DEF PathsAgree
  <2>1. Good(band)
    BY DEF IInv
  <2>2. PICK n \in Nat : gvs \in [1..n -> Pixel \X (Int \cup {Null})]
    <3>1. PICK n \in Nat : gvs \in [1..n -> Over(gvs) \X (Int \cup {Null})] /\ Over(gvs) \in SUBSET Pixel
      BY <2>1, GeomValsLists
    <3> QED BY <3>1
  <2>3. CASE keep /\ band.isnodata
    <3>1. band.hasnodata
      BY <2>1, <2>3 DEF Good, Flagged
    <3> QED BY <2>3, <3>1 DEF ByPoints, ByMasks, SetPoints, SetMasks
  <2>4. CASE ~ (keep /\ band.isnodata)
    <3>1. ASSUME keep, band.hasnodata, NEW i \in 1..n PROVE Unprotected(band, gvs[i][2])
      <4> DEFINE q == gvs[i][1]
      <4> DEFINE v == gvs[i][2]
      <4> DEFINE s == rt_band_set_pixel(band, q, v)
      <4>1. q \in Pixel /\ v \in Int /\ v # Null /\ ~ rt_band_get_pixel(s, q).nodata
        BY <2>2, <3>1 DEF NoneProtected
      <4> HIDE DEF q, v
      <4>2. Good(s) /\ Same(s, band) /\ s.data[q] = Put(band, v)
        BY <2>1, <4>1, SetPixelGood
      <4> HIDE DEF s
      <4>3. ~ (s.hasnodata /\ s.data[q] = s.nodataval)
        BY <4>1, <4>2, ReadsData
      <4> QED BY <3>1, <4>1, <4>2, <4>3 DEF Unprotected, Same, v
    <3> DEFINE a == SetPoints(band, gvs, keep)
    <3> DEFINE m == SetMasks(band, gvs, keep)
    <3>2. HasLast(band, gvs, keep, n, a)
      BY <2>1, <2>2, <2>4, <3>1, PointsHaveLast
    <3>3. /\ Good(m) /\ m.hasnodata = band.hasnodata
          /\ band.hasnodata => m.nodataval = band.nodataval
          /\ m.data[p] = Burnt(band, MaskValue(band, gvs, keep, p))
      BY <2>1, <2>4, MaskValueNumber, MasksBurn
    <3> HIDE DEF a, m
    <3>4. Good(a) /\ Same(a, band)
      BY <3>2 DEF HasLast, Leaves
    <3>5. IF odd(gvs, p) THEN a.data[p] = 0 /\ m.data[p] = Lowest(band.type) ELSE a.data[p] = m.data[p]
      <4> DEFINE d == a.data[p]
      <4>1. DOMAIN gvs = 1..n
        BY <2>2
      <4>2. \/ /\ Protected(band, keep, p) \/ \A i \in 1..n : gvs[i][1] # p
               /\ d = band.data[p]
            \/ /\ ~ Protected(band, keep, p)
               /\ \E i \in 1..n : /\ gvs[i][1] = p /\ \A j \in i+1..n : gvs[j][1] # p
                                  /\ d = Put(band, PointValue(band, gvs[i][2]))
        BY <3>2 DEF HasLast
      <4>3. \A i \in 1..n : \A j \in 1..n : j > i => j \in i+1..n
        OBVIOUS
      <4> HIDE DEF d
      <4> DEFINE u == Burnt(band, MaskValue(band, gvs, keep, p))
      <4>4. IF ~ band.hasnodata /\ NullIsLast(gvs, p) THEN d = 0 /\ u = Lowest(band.type) ELSE d = u
        <5>1. \/ /\ Protected(band, keep, p) \/ \A i \in DOMAIN gvs : gvs[i][1] # p
                 /\ d = band.data[p]
              \/ /\ ~ Protected(band, keep, p)
                 /\ \E i \in DOMAIN gvs : /\ gvs[i][1] = p /\ \A j \in DOMAIN gvs : j > i => gvs[j][1] # p
                                          /\ d = Put(band, PointValue(band, gvs[i][2]))
          BY <4>1, <4>2, <4>3
        <5> QED BY <2>1, <5>1, MasksHaveLast
      <4> QED BY <3>3, <4>4 DEF d
    <3>6. rt_band_get_pixel(a, p) = [value |-> a.data[p], nodata |-> a.hasnodata /\ a.data[p] = a.nodataval]
      BY <3>4, ReadIs
    <3>7. rt_band_get_pixel(m, p) = [value |-> m.data[p], nodata |-> m.hasnodata /\ m.data[p] = m.nodataval]
      BY <3>3, ReadIs
    <3>8. ByPoints(gvs, keep, p) = rt_band_get_pixel(a, p) /\ ByMasks(gvs, keep, p) = rt_band_get_pixel(m, p)
      BY DEF ByPoints, ByMasks, a, m
    <3>9. CASE odd(gvs, p)
      BY <3>5, <3>6, <3>7, <3>8, <3>9
    <3>10. CASE ~ odd(gvs, p)
      <4> HIDE DEF odd
      <4>1. (a.hasnodata /\ a.data[p] = a.nodataval) = (m.hasnodata /\ m.data[p] = m.nodataval)
        BY <3>3, <3>4, <3>5, <3>10 DEF Same
      <4> QED BY <3>5, <3>6, <3>7, <3>8, <3>10, <4>1
    <3> QED BY <3>9, <3>10
  <2> QED BY <2>3, <2>4
<1> QED BY Inductive, <1>1, PTL

=============================================================================
