----------------------------- MODULE RasterCore -----------------------------
(***************************************************************************)
(* Bands of rasters and their pixels: src/raster/rt_core/rt_band.c.         *)
(* A band has a NODATA value if hasnodata, and says with isnodata that      *)
(* every pixel is NODATA, so that readers need not look at the data.        *)
(*                                                                         *)
(* Numbers are counted in halves: 2 * n stands for the integer n, odd       *)
(* numbers for fractions.  A pixel type keeps whole numbers from lo to hi,  *)
(* or, as 64BF, every number.  Equality within FLT_EPSILON is equality.     *)
(***************************************************************************)
EXTENDS Integers

-----------------------------------------------------------------------------
(* Values.                                                                 *)

\* The cast of a number in halves to an integer type, in halves again.
Truncated(h) == IF h >= 0 THEN 2 * (h \div 2) ELSE -2 * ((-h) \div 2)

Lowest(t)  == 2 * t.lo
Highest(t) == 2 * t.hi

\* rt_util_clamp_to_*: bring into range, then cast.
Clamp(t, h) ==
  IF t.float THEN h
  ELSE Truncated(IF h < Lowest(t) THEN Lowest(t) ELSE IF h > Highest(t) THEN Highest(t) ELSE h)

\* 2: is the NODATA value, 1: is stored as the NODATA value, 0: neither.
rt_band_clamped_value_is_nodata(b, h) ==
  IF ~ b.hasnodata THEN 0
  ELSE IF h = b.nodataval THEN 2
  ELSE IF Clamp(b.type, h) = Clamp(b.type, b.nodataval) THEN 1 ELSE 0

\* Faulty variant: the lowest value is moved down like the others.
correctedDown(b, h) == IF rt_band_clamped_value_is_nodata(b, h) # 1 THEN h ELSE h - 2

\* A value that would be stored as NODATA and is not NODATA is moved by one.
rt_band_corrected_clamped_value(b, h) ==
  IF rt_band_clamped_value_is_nodata(b, h) # 1 THEN h
  ELSE IF b.type.bit THEN (IF b.nodataval = 0 THEN 2 ELSE 0)
  ELSE IF Clamp(b.type, h) = Clamp(b.type, Lowest(b.type)) THEN h + 2 ELSE h - 2

-----------------------------------------------------------------------------
(* Operations of rt_core on a band.                                        *)

rt_band_get_pixel(b, p) ==
  IF b.isnodata THEN [value |-> b.nodataval, nodata |-> TRUE]
  ELSE [value |-> b.data[p], nodata |-> rt_band_clamped_value_is_nodata(b, b.data[p]) # 0]

\* Faulty variant: the flag is left alone.
setPixelBlind(b, p, h) ==
  [b EXCEPT !.data[p] = Clamp(b.type, rt_band_corrected_clamped_value(b, h))]

rt_band_set_pixel(b, p, h) ==
  LET v == IF b.type.float THEN h ELSE rt_band_corrected_clamped_value(b, h) IN
  [b EXCEPT !.data[p]   = Clamp(b.type, v),
            !.isnodata = b.isnodata /\ rt_band_clamped_value_is_nodata(b, v) # 0]

\* Faulty variant: the flag is left alone.
setLineBlind(b, p, v) == [b EXCEPT !.data[p] = v]

\* Values of the band's own type, copied as they are.
rt_band_set_pixel_line(b, p, v) ==
  [b EXCEPT !.data[p] = v, !.isnodata = b.isnodata /\ ~ b.hasnodata]

rt_band_set_hasnodata_flag(b, flag) ==
  [b EXCEPT !.hasnodata = flag, !.isnodata = b.isnodata /\ flag]

\* Faulty variant: the flag about all pixels is kept.
setNodataKeepingFlag(b, h) == [b EXCEPT !.nodataval = Clamp(b.type, h), !.hasnodata = TRUE]

rt_band_set_nodata(b, h) ==
  [b EXCEPT !.nodataval = Clamp(b.type, h), !.hasnodata = TRUE, !.isnodata = FALSE]

rt_band_check_is_nodata(b) ==
  [b EXCEPT !.isnodata = b.hasnodata /\ \A p \in DOMAIN b.data :
                rt_band_get_pixel([b EXCEPT !.isnodata = FALSE], p).nodata]

rt_raster_generate_new_band(P, t, init, hasnodata, nodata) ==
  [type |-> t, hasnodata |-> hasnodata,
   nodataval |-> IF hasnodata THEN Clamp(t, nodata) ELSE 0,
   isnodata |-> hasnodata /\ init = nodata,
   data |-> [p \in P |-> Clamp(t, init)]]

\* rt_raster_serialize and rt_raster_deserialize.
Stored(b) == [b EXCEPT !.isnodata = b.hasnodata /\ b.isnodata]

\* The value that stands for NODATA in a band that may have none.
NodataOf(b) == IF b.hasnodata THEN b.nodataval ELSE Lowest(b.type)

=============================================================================
