--------------------------- MODULE MCRasterUnion ---------------------------
(* Two pixels; 4BUI bands whose NODATA value is 3, one that has none, one that is 64BF, a *)
(* raster without bands, one with two bands and NULL.                                     *)
EXTENDS RasterUnion, TLC

PT_4BUI == [lo |-> 0, hi |-> 15, float |-> FALSE, bit |-> FALSE]

Band(type, hasnodata, nodata, data) ==
  [type |-> type, hasnodata |-> hasnodata, nodataval |-> nodata, isnodata |-> FALSE, data |-> data]
Raster(ext, bands) == [ext |-> ext, bands |-> bands]

Half(data)  == Band(PT_4BUI, TRUE, 6, data)
Plain(data) == Band(PT_4BUI, FALSE, 0, data)

MCTile == {Null,
  Raster({1}, <<>>),
  Raster({2}, <<Half(2 :> 2)>>),
  Raster({2}, <<Half(2 :> 20)>>),
  Raster({1}, <<Half(1 :> 4)>>),
  Raster({1, 2}, <<Half(1 :> 2 @@ 2 :> 0)>>),
  Raster({1, 2}, <<Half(1 :> 6 @@ 2 :> 4)>>),
  Raster({2}, <<[Half(2 :> 6) EXCEPT !.isnodata = TRUE]>>),
  Raster({1, 2}, <<Plain(1 :> 0 @@ 2 :> 6)>>),
  Raster({2}, <<Band(PT_64BF, TRUE, 0, 2 :> 9)>>),
  Raster({2}, <<Half(2 :> 4), Half(2 :> 2)>>)}

Named(n, t) == [nband |-> n, uniontype |-> t]
MCCall ==
  {[form |-> "all", args |-> <<>>]}
  \cup {[form |-> "text", args |-> <<Named(1, t)>>] : t \in UnionType}
  \cup {[form |-> "args", args |-> <<Named(1, t)>>] : t \in {"LAST", "MEAN"}}
  \cup {[form |-> "args", args |-> <<Named(2, "MIN"), Named(1, "RANGE")>>],
        [form |-> "args", args |-> <<Named(1, "SUM"), Named(1, "COUNT")>>]}
=============================================================================
