----------------------------- MODULE RasterBand -----------------------------
(***************************************************************************)
(* A band of a stored raster under the SQL functions that write its pixels  *)
(* and its NODATA settings: rtpg_pixel.c, rtpg_band_properties.c and        *)
(* RASTER_tile.  A pixel is a row of the raster.                            *)
(***************************************************************************)
EXTENDS RasterCore, Sequences

CONSTANTS PixType,  \* pixel types, records lo, hi, float, bit
          Height,   \* pixels of a band
          Number,   \* for each type the values, in halves, that calls bring
          MaxGeoms, \* bound on the geometries a call brings
          Null      \* SQL's NULL

\* Every type has 0. The one type of a single bit is 1BB; a floating-point type keeps
\* every number.
ASSUME BandAssumption ==
  /\ Height \in Nat \ {0} /\ MaxGeoms \in Nat
  /\ \A t \in PixType : /\ t.lo \in Int /\ t.hi \in Int /\ t.lo < t.hi /\ 0 \in t.lo..t.hi
                        /\ t.float \in BOOLEAN /\ t.bit \in BOOLEAN
                        /\ t.bit => ~ t.float /\ t.lo = 0 /\ t.hi = 1
  /\ Number \in [PixType -> SUBSET Int]
  /\ Null \notin Int

VARIABLES band,     \* the stored raster's band
          touched   \* the pixels the last call was asked to write

vars == <<band, touched>>

Pixel == 1..Height

-----------------------------------------------------------------------------
(* ST_SetValues.                                                           *)

\* What a value from an array writes: without a NODATA value NULL is the type's lowest.
ValueOf(b, v) == IF v = Null THEN NodataOf(b) ELSE v

\* The nodataval of RASTER_setPixelValuesGeomval, which stays 0 without a NODATA value,
\* and what a value from a point writes.
GeomNodata(b) == IF b.hasnodata THEN b.nodataval ELSE 0
PointValue(b, v) == IF v = Null THEN GeomNodata(b) ELSE v

\* A pixel, unless keepnodata protects it.
SetUnlessKept(b, p, h, keep) ==
  IF keep /\ rt_band_get_pixel(b, p).nodata THEN b ELSE rt_band_set_pixel(b, p, h)

\* From an array: news holds the pixels that are set, row by row.
RASTER_setPixelValuesArray(b, news, keep) ==
  LET after[p \in 0..Height] ==
        IF p = 0 THEN b
        ELSE IF p \in DOMAIN news
        THEN SetUnlessKept(after[p - 1], p, ValueOf(b, news[p]), keep /\ b.hasnodata)
        ELSE after[p - 1]
  IN  after[Height]

\* From points: one after the other; each is <<pixel, value>>.
SetPoints(b, gvs, keep) ==
  LET after[i \in 0..Len(gvs)] ==
        IF i = 0 THEN b ELSE SetUnlessKept(after[i - 1], gvs[i][1], PointValue(b, gvs[i][2]), keep)
  IN  IF keep /\ b.isnodata THEN b ELSE after[Len(gvs)]

\* Faulty variant: the first geometry over a pixel gives the value.
FirstOver(gvs, p) == LET is == {i \in DOMAIN gvs : gvs[i][1] = p} IN
                     {i \in is : \A j \in is : i <= j}

\* The geometry that gives a pixel its value: the last one that covers it.
LastOver(gvs, p) == LET is == {i \in DOMAIN gvs : gvs[i][1] = p} IN
                    {i \in is : \A j \in is : j <= i}

\* The same through masks: a new band is burnt pixel by pixel, and takes the old one's place.
SetMasks(b, gvs, keep) ==
  LET new == rt_raster_generate_new_band(Pixel, b.type, GeomNodata(b), b.hasnodata, GeomNodata(b))
      Burnt(a, p) ==
        LET old  == rt_band_get_pixel(b, p)
            over == LastOver(gvs, p)
            v == IF keep /\ old.nodata THEN Null
                 ELSE IF over # {} THEN gvs[CHOOSE i \in over : TRUE][2]
                 ELSE IF old.nodata THEN Null ELSE old.value
        IN IF v # Null THEN rt_band_set_pixel(a, p, v)
           ELSE IF b.hasnodata THEN a ELSE rt_band_set_pixel(a, p, Lowest(b.type))
      after[p \in 0..Height] == IF p = 0 THEN new ELSE Burnt(after[p - 1], p)
  IN IF keep /\ b.isnodata THEN b ELSE after[Height]

-----------------------------------------------------------------------------
\* ST_Tile: the tile that starts after row off, padded at its end; pad is the NODATA value
\* asked for, or Null.
RASTER_tile(b, off, pad) ==
  LET padded    == b.hasnodata \/ pad # Null
      nodataval == IF b.hasnodata THEN b.nodataval ELSE IF pad # Null THEN pad ELSE Lowest(b.type)
      tile == rt_raster_generate_new_band(Pixel, b.type, nodataval, padded, nodataval)
      Copied(a, p) == IF p + off \in Pixel THEN rt_band_set_pixel_line(a, p, b.data[p + off]) ELSE a
      after[p \in 0..Height] == IF p = 0 THEN tile ELSE Copied(after[p - 1], p)
  IN IF b.isnodata THEN [tile EXCEPT !.isnodata = TRUE] ELSE after[Height]

-----------------------------------------------------------------------------
(* Calls.  Each reads the stored raster and stores what it returns.         *)

Init == \E t \in PixType : \E init, nodata \in Number[t], hasnodata \in BOOLEAN :
  /\ band = Stored(rt_raster_generate_new_band(Pixel, t, init, hasnodata, nodata))
  /\ touched = Pixel

Call(b, pixels) == band' = Stored(b) /\ touched' = pixels

Asked == Number[band.type] \cup {Null}

ST_SetValue == \E p \in Pixel, v \in Asked :
  /\ v = Null => band.hasnodata
  /\ Call(rt_band_set_pixel(band, p, ValueOf(band, v)), {p})

ST_SetValuesArray == \E P \in SUBSET Pixel : \E news \in [P -> Asked], keep \in BOOLEAN :
  Call(RASTER_setPixelValuesArray(band, news, keep), P)

GeomVals == UNION {[1..n -> Pixel \X Asked] : n \in 1..MaxGeoms}
Over(gvs) == {gvs[i][1] : i \in DOMAIN gvs}

ST_SetValuesPoints == \E gvs \in GeomVals, keep \in BOOLEAN :
  Call(SetPoints(band, gvs, keep), Over(gvs))

ST_SetValuesMasks == \E gvs \in GeomVals, keep \in BOOLEAN :
  Call(SetMasks(band, gvs, keep), Over(gvs))

ST_SetBandNoDataValue == \E v \in Asked, force \in BOOLEAN :
  LET b == IF v = Null THEN rt_band_set_hasnodata_flag(band, FALSE) ELSE rt_band_set_nodata(band, v)
  IN Call(IF v # Null /\ force THEN rt_band_check_is_nodata(b) ELSE b, {})

\* Called as its documentation asks: when ST_BandIsNoData with forced checking is true.
ST_SetBandIsNoData ==
  /\ rt_band_check_is_nodata(band).isnodata
  /\ Call([band EXCEPT !.isnodata = TRUE], {})

\* The raster is replaced by one of its tiles.
ST_Tile == \E off \in 0 .. Height - 1, pad \in Asked : Call(RASTER_tile(band, off, pad), Pixel)

Next == ST_SetValue \/ ST_SetValuesArray \/ ST_SetValuesPoints \/ ST_SetValuesMasks
        \/ ST_SetBandNoDataValue \/ ST_SetBandIsNoData \/ ST_Tile
Spec == Init /\ [][Next]_vars

-----------------------------------------------------------------------------
(* Properties.                                                             *)

Read(p) == rt_band_get_pixel(band, p)

BandType == [type : PixType, hasnodata : BOOLEAN, nodataval : Int, isnodata : BOOLEAN,
             data : [Pixel -> Int]]

\* A band's settings and data are values of its type.
TypeOK ==
  /\ band \in BandType
  /\ \A p \in Pixel : Clamp(band.type, band.data[p]) = band.data[p]
  /\ Clamp(band.type, band.nodataval) = band.nodataval
  /\ touched \subseteq Pixel

\* If the band says that all its pixels are NODATA they are, whatever was written and
\* whichever value is NODATA now.
FlagIsTrue ==
  band.isnodata => /\ band.hasnodata
                   /\ \A p \in Pixel : rt_band_clamped_value_is_nodata(band, band.data[p]) # 0

\* A call leaves the pixels it does not write: they read as before, and are NODATA as
\* before unless the call is about NODATA.
OthersReadAsBefore ==
  [][\A p \in Pixel \ touched' :
       /\ Read(p)'.value = Read(p).value
       /\ <<band.hasnodata, band.nodataval>>' = <<band.hasnodata, band.nodataval>>
            => Read(p)' = Read(p)]_vars

\* What is written is read back: a number the type can hold, when written, is NODATA only
\* if it is the NODATA value, and is off by less than two.
WritesReadBack ==
  LET t == band.type IN
  \A p \in Pixel, v \in Number[t] :
    v \in Lowest(t)..Highest(t) /\ (v % 2 = 0 \/ t.lo >= 0) =>
      LET r == rt_band_get_pixel(rt_band_set_pixel(band, p, v), p) IN
      /\ r.nodata <=> (band.hasnodata /\ v = band.nodataval)
      /\ r.value - v \in -3..3

\* The comment in rt_band_set_pixel: no value becomes NODATA by being brought into range.
NoValueBecomesNodata ==
  \A p \in Pixel, v \in Number[band.type] :
    rt_band_clamped_value_is_nodata(band, v) # 2 =>
      ~ rt_band_get_pixel(rt_band_set_pixel(band, p, v), p).nodata

\* keepnodata protects no pixel that an earlier geometry of the list made NODATA.
NoneProtected(gvs, keep) ==
  keep /\ band.hasnodata =>
    \A i \in DOMAIN gvs :
      LET p == gvs[i][1]
          v == gvs[i][2]
      IN  v # Null /\ ~ rt_band_get_pixel(rt_band_set_pixel(band, p, v), p).nodata

\* The last geometry over a pixel brings NULL.
NullIsLast(gvs, p) ==
  \E i \in DOMAIN gvs : gvs[i] = <<p, Null>> /\ \A j \in DOMAIN gvs : j > i => gvs[j][1] # p

ByPoints(gvs, keep, p) == rt_band_get_pixel(SetPoints(band, gvs, keep), p)
ByMasks(gvs, keep, p)  == rt_band_get_pixel(SetMasks(band, gvs, keep), p)

\* Points are set one by one and other geometries through masks: both give the same band
\* for the same pixels, unless keepnodata protects what an earlier point made NODATA, or
\* the band has no NODATA value: then NULL is 0 from a point and the type's lowest value
\* from a mask.
PathsAgree ==
  \A gvs \in GeomVals, keep \in BOOLEAN : NoneProtected(gvs, keep) =>
    \A p \in Pixel :
      IF ~ band.hasnodata /\ NullIsLast(gvs, p)
      THEN ByPoints(gvs, keep, p).value = 0 /\ ByMasks(gvs, keep, p).value = Lowest(band.type)
      ELSE ByPoints(gvs, keep, p) = ByMasks(gvs, keep, p)

\* The documentation of ST_SetValues: for points "the function uses a shortcut"
\* (doc/reference_raster.xml), that is, one to the same result, for NULL as well.
ShortcutAgrees ==
  \A gvs \in GeomVals, keep \in BOOLEAN : NoneProtected(gvs, keep) =>
    \A p \in Pixel : ByPoints(gvs, keep, p) = ByMasks(gvs, keep, p)

\* A tile reads as the rows it was cut from, and NODATA beyond them.
TilesReadAsTheBand ==
  \A off \in 0 .. Height - 1, pad \in Asked, p \in Pixel :
    LET r == rt_band_get_pixel(Stored(RASTER_tile(band, off, pad)), p) IN
    IF p + off \in Pixel
    THEN r.value = Read(p + off).value /\ (band.hasnodata => r = Read(p + off))
    ELSE r.nodata <=> (band.hasnodata \/ pad # Null)

=============================================================================
