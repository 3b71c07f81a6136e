---------------------------- MODULE MCRasterBand ----------------------------
(* Pixel types: 1BB, 2BUI, 64BF, and a signed type of two bits for 8BSI, 16BSI and 32BSI;   *)
(* the numbers brought lie in, between and outside the values of the type.                  *)
EXTENDS RasterBand

Type(lo, hi) == [lo |-> lo, hi |-> hi, float |-> FALSE, bit |-> FALSE]
PT_1BB  == [lo |-> 0, hi |-> 1, float |-> FALSE, bit |-> TRUE]
PT_2BUI == Type(0, 3)
PT_2BSI == Type(-2, 1)
PT_64BF == [lo |-> -9, hi |-> 9, float |-> TRUE, bit |-> FALSE]

MCPixType == {PT_1BB, PT_2BUI, PT_2BSI, PT_64BF}
MCNumber == [t \in MCPixType |->
  CASE t = PT_1BB  -> {0, 1, 2, 4}
    [] t = PT_2BUI -> {-2, 0, 1, 2, 6, 8}
    [] t = PT_2BSI -> {-6, -4, -1, 0, 1, 2}
    [] t = PT_64BF -> {0, 1, 3}]
=============================================================================
