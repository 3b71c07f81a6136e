-------------------------- MODULE RasterUnionProofs --------------------------
(* The extent of a union and its values, for all rasters, forms of the       *)
(* aggregate and numbers of rasters.                                          *)
(*                                                                            *)
(* The extent: every working raster has the extent of all that came, those    *)
(* included that are made late or that get a raster without the band.         *)
(*                                                                            *)
(* The values: a working raster that is renewed holds at each pixel what the  *)
(* callback makes of what it held and of the raster that comes, or what it    *)
(* held; so it tells, at each pixel, what its union type defines of the       *)
(* rasters that came, as long as it holds numbers of their type.              *)
EXTENDS RasterUnion, Integers, FiniteSets, FiniteSetTheorems, TLAPS

\* The numbers less than others are well founded.
LEMMA LessWellFounded == IsWellFoundedOn({ss \in Nat \X Nat : ss[1] < ss[2]}, Nat)
BY NatLessThanWellFounded DEF OpToRel

\* A set of numbers has a least one.
LEMMA Least ==
  ASSUME NEW S, S \subseteq Nat, S # {}
  PROVE  \E m \in S : \A k \in S : m <= k
<1> DEFINE R == {ss \in Nat \X Nat : ss[1] < ss[2]}
<1>1. IsWellFoundedOn(R, Nat)
  BY LessWellFounded
<1> HIDE DEF R
<1>2. PICK m \in S : \A k \in S : ~(<<k, m>> \in R)
  BY <1>1, WFMin
<1>3. ASSUME NEW k \in S PROVE m <= k
  <2>1. <<k, m>> \in Nat \X Nat
    OBVIOUS
  <2>2. ~(k < m)
    BY <1>2, <2>1 DEF R
  <2> QED BY <2>2
<1> QED BY <1>3

\* A set that has 0, and with a number below n the next one, has all up to n.
LEMMA UpTo ==
  ASSUME NEW n \in Nat, NEW S, 0 \in S, \A k \in 0..n : k < n /\ k \in S => k + 1 \in S
  PROVE  0..n \subseteq S
<1> SUFFICES ASSUME (0..n) \ S # {} PROVE FALSE
  OBVIOUS
<1> DEFINE L == (0..n) \ S
<1>0. L \subseteq Nat /\ L # {}
  OBVIOUS
<1>1. PICK m \in L : \A k \in L : m <= k
  <2> HIDE DEF L
  <2> QED BY <1>0, Least
<1>2. m - 1 \in 0..n /\ m - 1 < n /\ m - 1 \in S
  BY <1>1
<1>3. (m - 1) + 1 \in S
  BY <1>2
<1> QED BY <1>1, <1>3

\* f has the value base and then, at each number up to n, G of the value before.
Iterates(f, n, base, G) == f[0] = base /\ \A k \in 1..n : f[k] = G[<<f[k - 1], k>>]

\* Every function of a value and a number can be iterated.
LEMMA Recursion ==
  ASSUME NEW n \in Nat, NEW X, NEW base \in X, NEW G \in [X \X (1..n) -> X]
  PROVE  \E f \in [0..n -> X] : Iterates(f, n, base, G)
<1> DEFINE Runs(f, m) == f[0] = base /\ \A k \in 1..m : f[k] = G[<<f[k - 1], k>>]
<1> DEFINE S == {m \in 0..n : \E f \in [0..m -> X] : Runs(f, m)}
<1>1. 0 \in S
  <2> DEFINE f == [k \in 0..0 |-> base]
  <2>1. f \in [0..0 -> X] /\ Runs(f, 0)
    OBVIOUS
  <2>2. \E h \in [0..0 -> X] : Runs(h, 0)
    BY <2>1
  <2> QED BY <2>2
<1>2. ASSUME NEW m \in 0..n, m < n, m \in S PROVE m + 1 \in S
  <2>1. PICK f \in [0..m -> X] : Runs(f, m)
    BY <1>2
  <2> DEFINE v == G[<<f[m], m + 1>>]
  <2> DEFINE g == [k \in 0..m+1 |-> IF k = m + 1 THEN v ELSE f[k]]
  <2>2. <<f[m], m + 1>> \in X \X (1..n) /\ v \in X
    BY <1>2
  <2> HIDE DEF v
  <2>3. g \in [0..m+1 -> X]
    BY <2>2
  <2>4. ASSUME NEW k \in 1..m+1 PROVE g[k] = G[<<g[k - 1], k>>]
    <3>1. CASE k = m + 1
      <4>1. g[k] = v /\ g[k - 1] = f[m]
        BY <3>1
      <4> QED BY <3>1, <4>1 DEF v
    <3>2. CASE k # m + 1
      <4>1. k \in 1..m /\ k - 1 \in 0..m
        BY <3>2
      <4>2. g[k] = f[k] /\ g[k - 1] = f[k - 1]
        BY <4>1
      <4> QED BY <4>1, <4>2, <2>1
    <3> QED BY <3>1, <3>2
  <2>5. Runs(g, m + 1)
    <3>1. g[0] = base
      BY <2>1
    <3> QED BY <3>1, <2>4
  <2>6. \E h \in [0..m+1 -> X] : Runs(h, m + 1)
    BY <2>3, <2>5
  <2>7. m + 1 \in 0..n
    BY <1>2
  <2> QED BY <2>6, <2>7
<1>3. 0..n \subseteq S
  <2> HIDE DEF S
  <2> QED BY <1>1, <1>2, UpTo
<1>4. n \in S
  BY <1>3
<1> QED BY <1>4 DEF Iterates

-----------------------------------------------------------------------------
(* Extents.                                                                  *)

\* S reaches from lo to hi.
Spans(S, lo, hi) == lo \in S /\ hi \in S /\ \A x \in S : x \in Int /\ lo <= x /\ x <= hi

\* The hull of what spans lo to hi is the interval.
LEMMA HullOfSpan ==
  ASSUME NEW S, NEW lo \in Int, NEW hi \in Int, Spans(S, lo, hi)
  PROVE  Hull(S) = lo..hi
<1>1. Min(S) = lo
  <2>1. lo \in S /\ \A y \in S : lo <= y
    BY DEF Spans
  <2>2. \A x \in S : (\A y \in S : x <= y) => x = lo
    BY DEF Spans
  <2> QED BY <2>1, <2>2, Zenon DEF Min
<1>2. Max(S) = hi
  <2>1. hi \in S /\ \A y \in S : hi >= y
    BY DEF Spans
  <2>2. \A x \in S : (\A y \in S : x >= y) => x = hi
    BY DEF Spans
  <2> QED BY <2>1, <2>2, Zenon DEF Max
<1> QED BY <1>1, <1>2 DEF Hull

\* S is empty or has ends, and the interval from one to the other.
Reach(S) == S = {} \/ \E lo, hi \in Int : Spans(S, lo, hi)
Cover(S) == IF S = {} THEN {} ELSE Hull(S)

\* Pixels may be added to a set or to its hull.
LEMMA HullJoins ==
  ASSUME NEW S, Reach(S), NEW T, Reach(T), S \cup T # {}
  PROVE  /\ Reach(S \cup T) /\ Hull(Cover(S) \cup T) = Hull(S \cup T)
         /\ Hull(S \cup T) # {}
<1>1. CASE S = {}
  <2>1. S \cup T = T /\ Cover(S) \cup T = T
    BY <1>1 DEF Cover
  <2>2. PICK lo \in Int, hi \in Int : Spans(T, lo, hi)
    BY <1>1 DEF Reach
  <2>3. Hull(T) = lo..hi /\ lo \in lo..hi
    <3>1. lo \in lo..hi
      BY <2>2 DEF Spans
    <3> QED BY <2>2, <3>1, HullOfSpan
  <2> QED BY <2>1, <2>3
<1>2. CASE S # {}
  <2>1. PICK lo \in Int, hi \in Int : Spans(S, lo, hi)
    BY <1>2 DEF Reach
  <2>2. Cover(S) = lo..hi /\ lo <= hi
    BY <1>2, <2>1, HullOfSpan DEF Cover, Spans
  <2>3. PICK c \in Int, d \in Int : Spans(S \cup T, c, d) /\ Spans((lo..hi) \cup T, c, d)
    <3>1. CASE T = {}
      BY <2>1, <2>2, <3>1 DEF Spans
    <3>2. CASE T # {}
      <4>1. PICK a \in Int, b \in Int : Spans(T, a, b)
        BY <3>2 DEF Reach
      <4> DEFINE c == IF a <= lo THEN a ELSE lo
      <4> DEFINE d == IF hi <= b THEN b ELSE hi
      <4>2. c \in Int /\ d \in Int /\ Spans(S \cup T, c, d) /\ Spans((lo..hi) \cup T, c, d)
        BY <2>1, <2>2, <4>1 DEF Spans
      <4> QED BY <4>2
    <3> QED BY <3>1, <3>2
  <2> DEFINE A == S \cup T
  <2> DEFINE B == (lo..hi) \cup T
  <2>4. c \in A /\ c \in c..d
    BY <2>3 DEF Spans
  <2> HIDE DEF A, B
  <2>5. Hull(A) = c..d /\ Hull(B) = c..d
    BY <2>3, HullOfSpan DEF A, B
  <2>6. Reach(A) /\ Hull(B) = Hull(A) /\ Hull(A) # {}
    BY <2>3, <2>4, <2>5 DEF Reach, A
  <2> QED BY <2>2, <2>6 DEF A, B
<1> QED BY <1>1, <1>2

\* A raster that may come.
LEMMA TileShape ==
  ASSUME NEW r \in Tile
  PROVE  Reach(r.ext) /\ (r = Null <=> r.ext = {})
<1>1. CASE r = Null
  BY <1>1 DEF Null, Reach
<1>2. CASE r # Null
  <2>1. PICK lo \in r.ext, hi \in r.ext : r.ext = lo..hi
    BY <1>2, UnionAssumption
  <2>2. r.ext \subseteq Int
    BY <1>2, UnionAssumption
  <2>3. Spans(r.ext, lo, hi)
    BY <2>1, <2>2 DEF Spans
  <2> QED BY <1>2, <2>1, <2>2, <2>3 DEF Reach
<1> QED BY <1>1, <1>2

-----------------------------------------------------------------------------
(* Working rasters.                                                          *)

\* A raster with the extent of all of S.
Whole(w, S) == /\ w = [ext |-> w.ext, bands |-> w.bands]
               /\ w.ext = Cover(S) /\ (S = {} => w = Null)

\* RASTER_union_transfn gives a working raster the extent of the one that comes too, by
\* pixels or by lines.
LEMMA UnitedWhole ==
  ASSUME NEW S, Reach(S), NEW work, Whole(work, S), NEW r \in Tile, NEW utype, NEW n
  PROVE  Whole(United(utype, work, r, n), S \cup r.ext)
<1> DEFINE T == r.ext
<1>1. Reach(T) /\ (r = Null <=> T = {})
  BY TileShape
<1>2. work = Null <=> S = {}
  <2>1. S # {} => Cover(S) # {}
    <3>1. S # {} => Hull(S \cup {}) # {}
      BY HullJoins DEF Reach
    <3> QED BY <3>1 DEF Cover
  <2> QED BY <2>1 DEF Whole, Null
<1>3. CASE S \cup T = {}
  BY <1>1, <1>2, <1>3 DEF United, Whole, Cover, Null
<1>4. CASE S \cup T # {}
  <2> DEFINE new == United(utype, work, r, n)
  <2>1. new = LineMethod(utype, work, r, n) \/ new = PixelMethod(utype, work, r, n)
    BY <1>1, <1>2, <1>4 DEF United
  <2>2. \E bs : LineMethod(utype, work, r, n) = [ext |-> Hull(work.ext \cup T), bands |-> bs]
    BY DEF LineMethod
  <2>3. \E bs : PixelMethod(utype, work, r, n) = [ext |-> Hull(work.ext \cup T), bands |-> bs]
    BY DEF PixelMethod, rt_raster_iterator
  <2> HIDE DEF new
  <2>4. PICK bs : new = [ext |-> Hull(work.ext \cup T), bands |-> bs]
    BY <2>1, <2>2, <2>3
  <2>5. new.ext = Hull(S \cup T) /\ new = [ext |-> new.ext, bands |-> new.bands]
    BY <1>1, <1>4, <2>4, HullJoins DEF Whole
  <2> QED BY <1>4, <2>5 DEF Whole, Cover, new
<1> QED BY <1>3, <1>4

-----------------------------------------------------------------------------
(* The state.                                                                *)

\* Lists, and functions that are lists.
LEMMA Lists ==
  /\ \A s : List(s) => Len(s) \in Nat /\ DOMAIN s = 1..Len(s) /\ (s # <<>> <=> 1 \in DOMAIN s)
  /\ \A n \in Nat : \A s : s = [i \in 1..n |-> s[i]] => Len(s) = n /\ List(s)
<1>1. ASSUME NEW n \in Nat, NEW s, s = [i \in 1..n |-> s[i]]
      PROVE  Len(s) = n /\ DOMAIN s = 1..n /\ List(s)
  <2> DEFINE V == {s[i] : i \in 1..n}
  <2>1. s \in [1..n -> V]
    BY <1>1
  <2> QED BY <1>1, <2>1 DEF List
<1>2. ASSUME NEW s, List(s)
      PROVE  Len(s) \in Nat /\ DOMAIN s = 1..Len(s) /\ (s # <<>> <=> 1 \in DOMAIN s)
  <2> DEFINE n == Len(s)
  <2>1. n \in Nat /\ s = [i \in 1..n |-> s[i]] /\ DOMAIN s = 1..n
    BY <1>2 DEF List
  <2> HIDE DEF n
  <2>2. n = 0 => s = <<>>
    BY <2>1
  <2>3. n # 0 => 1 \in DOMAIN s /\ s # <<>>
    BY <2>1
  <2> QED BY <2>1, <2>2, <2>3 DEF n
<1> QED BY <1>1, <1>2

\* A band of the state, each of its working rasters with the extent of S.
BandWhole(ba, S) ==
  /\ ba = [uniontype |-> ba.uniontype, nband |-> ba.nband, raster |-> ba.raster]
  /\ ba.raster = [j \in 1..Working(ba.uniontype) |-> ba.raster[j]]
  /\ \A j \in 1..Working(ba.uniontype) : Whole(ba.raster[j], S)

BandsWhole(args, S) == List(args) /\ \A i \in DOMAIN args : BandWhole(args[i], S)

\* A band that is made late starts with the extent of the others.
LEMMA NewBandWhole ==
  ASSUME NEW n, NEW uniontype, NEW r, NEW S, Whole(r, S)
  PROVE  BandWhole(NewBand(n, uniontype, r), S)
<1> DEFINE ba == NewBand(n, uniontype, r)
<1>1. ba.uniontype = uniontype /\ ba.raster = [j \in 1..Working(uniontype) |-> r]
      /\ ba = [uniontype |-> ba.uniontype, nband |-> ba.nband, raster |-> ba.raster]
  BY DEF NewBand
<1> HIDE DEF ba
<1>2. ba.raster = [j \in 1..Working(uniontype) |-> ba.raster[j]]
  BY <1>1
<1> QED BY <1>1, <1>2 DEF BandWhole, ba

\* rtpg_union_noarg: the bands that are new have the extent of what came before, which is none.
LEMMA NewBandsWhole ==
  ASSUME NEW S, NEW args, BandsWhole(args, S), args = <<>> => S = {}, NEW n \in Nat, NEW uniontype
  PROVE  LET new == NewBands(args, n, uniontype)
         IN  BandsWhole(new, S) /\ (n > 0 \/ args # <<>> => new # <<>>)
<1> DEFINE new == NewBands(args, n, uniontype)
<1> DEFINE r == IF args = <<>> THEN Null ELSE [args[1].raster[1] EXCEPT !.bands = <<>>]
<1>0. Len(args) \in Nat /\ DOMAIN args = 1..Len(args) /\ (args # <<>> <=> 1 \in DOMAIN args) /\ List(args)
  BY Lists DEF BandsWhole
<1>1. Whole(r, S)
  <2>1. CASE args = <<>>
    BY <2>1 DEF Whole, Cover, Null
  <2>2. CASE args # <<>>
    <3> DEFINE w == args[1].raster[1]
    <3>1. Whole(w, S)
      <4>1. BandWhole(args[1], S)
        BY <1>0, <2>2 DEF BandsWhole
      <4>2. 1 \in 1..Working(args[1].uniontype)
        BY DEF Working
      <4> QED BY <4>1, <4>2 DEF BandWhole
    <3>2. r = [w EXCEPT !.bands = <<>>]
      BY <2>2
    <3> HIDE DEF w, r
    <3>3. r = [ext |-> w.ext, bands |-> <<>>]
      BY <3>1, <3>2 DEF Whole
    <3>4. r.ext = w.ext /\ r = [ext |-> r.ext, bands |-> r.bands]
      BY <3>3
    <3>5. S = {} => r = Null
      BY <3>1, <3>3 DEF Whole, Null
    <3> QED BY <3>1, <3>4, <3>5 DEF Whole
  <2> QED BY <2>1, <2>2
<1>2. CASE n <= Len(args)
  BY <1>0, <1>2 DEF NewBands
<1>3. CASE n > Len(args)
  <2>1. new = [i \in 1..n |-> IF i <= Len(args) THEN args[i] ELSE NewBand(i, uniontype, r)]
    BY <1>0, <1>3 DEF NewBands
  <2> HIDE DEF new, r
  <2>2. new = [i \in 1..n |-> new[i]]
    BY <2>1
  <2>3. List(new) /\ DOMAIN new = 1..n /\ n > 0
    BY <1>0, <1>3, <2>2, Lists
  <2>4. ASSUME NEW i \in 1..n PROVE BandWhole(new[i], S)
    BY <1>0, <1>1, <2>1, NewBandWhole DEF BandsWhole
  <2>5. new # <<>>
    BY <2>3, Lists
  <2> QED BY <2>3, <2>4, <2>5 DEF BandsWhole, new
<1> QED BY <1>0, <1>2, <1>3

\* The bands of the result are known from the first raster that has one on.
Begun(args, S) == args = <<>> => S = {} \/ (call.form = "args" /\ call.args = <<>>)

\* RASTER_union_transfn: after the band arguments are completed, all bands have the extent.
LEMMA AddBandsWhole ==
  ASSUME call \in Call, NEW S, NEW args, BandsWhole(args, S), Begun(args, S),
         NEW r \in Tile, call.form = "all" /\ r # Null => r.bands # <<>>
  PROVE  LET new == AddBands(args, r)
         IN  BandsWhole(new, S) /\ Begun(new, S \cup r.ext)
<1> DEFINE new == AddBands(args, r)
<1>1. /\ List(r.bands) /\ call.form \in {"all", "text", "args"} /\ List(call.args)
      /\ (r = Null => r.ext = {})
  BY UnionAssumption DEF Null
<1>2. Len(r.bands) \in Nat /\ (r.bands # <<>> => Len(r.bands) > 0)
  BY <1>1, Lists
<1>3. CASE call.form = "all"
  <2>1. new = NewBands(args, Len(r.bands), "LAST") /\ (args = <<>> => S = {})
    BY <1>3 DEF AddBands, Begun
  <2>2. BandsWhole(new, S) /\ (Len(r.bands) > 0 \/ args # <<>> => new # <<>>)
    BY <1>2, <2>1, NewBandsWhole
  <2> HIDE DEF new
  <2>3. new = <<>> => S \cup r.ext = {}
    BY <1>1, <1>2, <1>3, <2>1, <2>2
  <2> QED BY <2>2, <2>3 DEF Begun, new
<1>4. CASE call.form = "text"
  <2> DEFINE n == Max({Len(r.bands), 1})
  <2>1. n \in Nat /\ n > 0
    <3> DEFINE k == IF Len(r.bands) > 1 THEN Len(r.bands) ELSE 1
    <3>1. Spans({Len(r.bands), 1}, IF Len(r.bands) > 1 THEN 1 ELSE Len(r.bands), k)
      BY <1>2 DEF Spans
    <3>2. \A x \in {Len(r.bands), 1} : (\A y \in {Len(r.bands), 1} : x >= y) => x = k
      BY <1>2
    <3>3. k \in {Len(r.bands), 1} /\ \A y \in {Len(r.bands), 1} : k >= y
      BY <1>2
    <3>4. n = k
      BY <3>2, <3>3, Zenon DEF Max
    <3> QED BY <1>2, <3>4
  <2>2. new = NewBands(args, n, call.args[1].uniontype) /\ (args = <<>> => S = {})
    BY <1>4 DEF AddBands, Begun
  <2> HIDE DEF n
  <2>3. BandsWhole(new, S) /\ new # <<>>
    BY <2>1, <2>2, NewBandsWhole
  <2> QED BY <2>3 DEF Begun
<1>5. CASE call.form = "args"
  <2>1. CASE args # <<>>
    <3>1. new = args
      BY <1>5, <2>1 DEF AddBands
    <3> QED BY <2>1, <3>1 DEF Begun
  <2>2. CASE args = <<>>
    <3>1. new = [i \in DOMAIN call.args |-> NewBand(call.args[i].nband, call.args[i].uniontype, Null)]
      BY <1>5, <2>2 DEF AddBands
    <3> HIDE DEF new
    <3>2. DOMAIN call.args = 1..Len(call.args) /\ Len(call.args) \in Nat /\ (call.args # <<>> <=> 1 \in DOMAIN call.args)
      BY <1>1, Lists
    <3>3. new = [i \in 1..Len(call.args) |-> new[i]]
      BY <3>1, <3>2
    <3>4. List(new) /\ DOMAIN new = DOMAIN call.args /\ (new # <<>> <=> 1 \in DOMAIN new)
      BY <3>1, <3>2, <3>3, Lists
    <3>5. CASE call.args = <<>>
      BY <1>5, <3>2, <3>4, <3>5 DEF BandsWhole, Begun, new
    <3>6. CASE call.args # <<>>
      <4>1. S = {} /\ Whole(Null, S)
        BY <1>5, <2>2, <3>6 DEF Begun, Whole, Cover, Null
      <4>2. \A i \in DOMAIN new : BandWhole(new[i], S)
        BY <3>1, <4>1, NewBandWhole
      <4> QED BY <3>2, <3>4, <3>6, <4>2 DEF BandsWhole, Begun, new
    <3> QED BY <3>5, <3>6
  <2> QED BY <2>1, <2>2
<1> QED BY <1>1, <1>3, <1>4, <1>5

\* A band after the raster r.
Gathered(ba, r) ==
  [ba EXCEPT !.raster = [j \in DOMAIN @ |-> United(Pass(ba.uniontype, j), @[j], r, ba.nband)]]

\* RASTER_union_transfn: the united band has the extent and that of the raster.
LEMMA GatheredWhole ==
  ASSUME NEW S, Reach(S), NEW ba, BandWhole(ba, S), NEW r \in Tile
  PROVE  BandWhole(Gathered(ba, r), S \cup r.ext)
<1> DEFINE n == Working(ba.uniontype)
<1> DEFINE rs == [j \in 1..n |-> United(Pass(ba.uniontype, j), ba.raster[j], r, ba.nband)]
<1> DEFINE new == Gathered(ba, r)
<1>1. DOMAIN ba.raster = 1..n /\ ba = [uniontype |-> ba.uniontype, nband |-> ba.nband, raster |-> ba.raster]
  BY DEF BandWhole
<1>2. new = [uniontype |-> ba.uniontype, nband |-> ba.nband, raster |-> rs]
  <2>1. rs = [j \in DOMAIN ba.raster |-> United(Pass(ba.uniontype, j), ba.raster[j], r, ba.nband)]
    BY <1>1
  <2>2. new = [ba EXCEPT !.raster = rs]
    BY <2>1, Zenon DEF Gathered
  <2> HIDE DEF new, rs
  <2> QED BY <1>1, <2>2
<1>3. \A j \in 1..n : Whole(rs[j], S \cup r.ext)
  BY UnitedWhole DEF BandWhole
<1>4. rs = [j \in 1..n |-> rs[j]]
  OBVIOUS
<1> HIDE DEF rs
<1>5. ASSUME NEW a, a = [uniontype |-> ba.uniontype, nband |-> ba.nband, raster |-> rs]
      PROVE  BandWhole(a, S \cup r.ext)
  BY <1>3, <1>4, <1>5 DEF BandWhole
<1> HIDE DEF new
<1>6. BandWhole(new, S \cup r.ext)
  BY <1>2, <1>5
<1> QED BY <1>6 DEF new

\* The inductive invariant, where the rasters that come have the bands to unite.
Complete == call.form # "all" \/ \A r \in Range(seen) \ {Null} : r.bands # <<>>

UInv == /\ call \in Call /\ seen \in Seq(Tile) /\ Reach(Extent)
        /\ Complete => BandsWhole(bandarg, Extent) /\ Begun(bandarg, Extent)

\* A transition keeps the invariant.
LEMMA TransitionKeeps == UInv /\ Transition => UInv'
<1> SUFFICES ASSUME UInv, Transition PROVE UInv'
  OBVIOUS
<1>1. PICK r \in Tile : RASTER_union_transfn(r) /\ seen' = Append(seen, r) /\ call' = call
  BY DEF Transition
<1>2. seen' \in Seq(Tile) /\ Range(seen') = Range(seen) \cup {r}
  BY <1>1 DEF UInv, Range
<1>3. Extent' = Extent \cup r.ext
  BY <1>2 DEF Extent
<1>4. Reach(Extent')
  <2>1. Reach(Extent) /\ Reach(r.ext)
    BY TileShape DEF UInv
  <2>2. CASE Extent \cup r.ext = {}
    BY <1>3, <2>2 DEF Reach
  <2>3. CASE Extent \cup r.ext # {}
    BY <1>3, <2>1, <2>3, HullJoins
  <2> QED BY <2>2, <2>3
<1>5. ASSUME Complete' PROVE BandsWhole(bandarg', Extent') /\ Begun(bandarg, Extent)'
  <2>1. Complete /\ (call.form = "all" /\ r # Null => r.bands # <<>>)
    BY <1>1, <1>2, <1>5 DEF Complete
  <2> DEFINE S == Extent
  <2> DEFINE args == AddBands(bandarg, r)
  <2>2. BandsWhole(args, S) /\ Begun(args, S \cup r.ext)
    BY <2>1, AddBandsWhole DEF UInv
  <2>3. bandarg' = [i \in DOMAIN args |-> Gathered(args[i], r)]
    BY <1>1 DEF RASTER_union_transfn, Gathered
  <2> HIDE DEF args
  <2>4. List(args) /\ DOMAIN args = 1..Len(args) /\ Len(args) \in Nat /\ (args # <<>> <=> 1 \in DOMAIN args)
    BY <2>2, Lists DEF BandsWhole
  <2>5. bandarg' = [i \in 1..Len(args) |-> bandarg'[i]] /\ DOMAIN bandarg' = DOMAIN args
    BY <2>3, <2>4
  <2>6. List(bandarg') /\ (bandarg' # <<>> <=> 1 \in DOMAIN bandarg')
    BY <2>4, <2>5, Lists
  <2>7. ASSUME NEW i \in DOMAIN args PROVE BandWhole(bandarg'[i], S \cup r.ext)
    BY <2>2, <2>3, GatheredWhole DEF UInv, BandsWhole
  <2>8. BandsWhole(bandarg', Extent')
    BY <1>3, <2>5, <2>6, <2>7 DEF BandsWhole
  <2>9. Begun(bandarg, Extent)'
    BY <1>1, <1>3, <2>2, <2>4, <2>5, <2>6 DEF Begun
  <2> QED BY <2>8, <2>9
<1> QED BY <1>1, <1>2, <1>4, <1>5 DEF UInv, Extent, Complete, BandsWhole, Begun

\* The aggregate starts with nothing.
LEMMA InitUInv == Init => UInv
<1> SUFFICES ASSUME Init PROVE UInv
  OBVIOUS
<1>1. seen = <<>> /\ bandarg = <<>> /\ call \in Call
  BY DEF Init
<1>2. Extent = {} /\ seen \in Seq(Tile)
  BY <1>1 DEF Extent, Range
<1>3. List(bandarg) /\ DOMAIN bandarg = {}
  <2> DEFINE e == [i \in 1..0 |-> 0]
  <2>1. e = <<>> /\ DOMAIN e = {}
    OBVIOUS
  <2>2. e = [i \in 1..0 |-> e[i]]
    OBVIOUS
  <2> HIDE DEF e
  <2>3. List(e)
    BY <2>2, Lists
  <2> QED BY <1>1, <2>1, <2>3
<1> QED BY <1>1, <1>2, <1>3 DEF UInv, Reach, BandsWhole, Begun

\* The final function does not change the extent.
LEMMA FinishedWhole ==
  ASSUME NEW S, Reach(S), S # {}, NEW ba, BandWhole(ba, S)
  PROVE  Finished(ba).ext = Hull(S)
<1>0. \A j \in 1..Working(ba.uniontype) : ba.raster[j].ext = Hull(S)
  BY DEF BandWhole, Whole, Cover
<1>1. ba.raster[1].ext = Hull(S)
  BY <1>0 DEF Working
<1>2. CASE ba.uniontype \notin {"MEAN", "RANGE"}
  BY <1>1, <1>2 DEF Finished
<1>3. CASE ba.uniontype \in {"MEAN", "RANGE"}
  <2>1. ba.raster[2].ext = Hull(S)
    BY <1>0, <1>3 DEF Working
  <2>2. Finished(ba).ext = Hull(ba.raster[1].ext \cup ba.raster[2].ext)
    BY <1>3 DEF Finished, rt_raster_iterator
  <2>3. Reach({}) /\ S \cup {} = S /\ Cover(S) \cup {} = Hull(S)
    BY DEF Reach, Cover
  <2>4. Hull(Hull(S)) = Hull(S)
    BY <2>3, HullJoins
  <2>5. ba.raster[1].ext \cup ba.raster[2].ext = Hull(S)
    BY <1>1, <2>1
  <2> QED BY <2>2, <2>4, <2>5
<1> QED BY <1>2, <1>3

\* ST_Union: every band of the result has the extent of the whole set of rasters, wherever
\* and whenever the rasters came that have the band, for all forms of the aggregate.
THEOREM ExtentCorrect == Spec => []ExtentIsWhole
<1>1. UInv /\ [Transition]_vars => UInv'
  <2>1. UInv /\ UNCHANGED vars => UInv'
    BY DEF UInv, vars, Extent, Complete, BandsWhole, Begun
  <2> QED BY <2>1, TransitionKeeps
<1>2. UInv => ExtentIsWhole
  <2> SUFFICES ASSUME UInv, Complete, NEW i \in Results
               PROVE  Result(bandarg)[i].ext = Hull(Extent)
    BY DEF ExtentIsWhole, Complete
  <2>1. ~ (bandarg = <<>> \/ \E k \in DOMAIN bandarg : bandarg[k].raster[1] = Null)
    <3>1. SUFFICES ASSUME Result(bandarg) = <<>> PROVE FALSE
      BY DEF Result
    <3> QED BY <3>1 DEF Results
  <2>2. Result(bandarg) = [k \in DOMAIN bandarg |-> Finished(bandarg[k])]
    BY <2>1 DEF Result
  <2>3. i \in DOMAIN bandarg
    BY <2>2 DEF Results
  <2>4. BandWhole(bandarg[i], Extent) /\ Reach(Extent)
    BY <2>3 DEF UInv, BandsWhole
  <2>5. Extent # {}
    <3>1. 1 \in 1..Working(bandarg[i].uniontype)
      BY DEF Working
    <3>2. Extent = {} => bandarg[i].raster[1] = Null
      BY <2>4, <3>1 DEF BandWhole, Whole
    <3> QED BY <2>1, <2>3, <3>2
  <2> QED BY <2>2, <2>3, <2>4, <2>5, FinishedWhole
<1> QED BY InitUInv, <1>1, <1>2, PTL DEF Spec

-----------------------------------------------------------------------------
(* Walks along the pixels of an interval.                                     *)

\* The ends of an interval.
LEMMA Ends ==
  ASSUME NEW lo \in Int, NEW hi \in Int, lo <= hi
  PROVE  Min(lo..hi) = lo /\ Max(lo..hi) = hi
<1>1. lo \in lo..hi /\ hi \in lo..hi /\ \A y \in lo..hi : lo <= y /\ hi >= y
  OBVIOUS
<1>2. \A x \in lo..hi : (\A y \in lo..hi : x <= y) => x = lo
  BY <1>1
<1>3. \A x \in lo..hi : (\A y \in lo..hi : x >= y) => x = hi
  BY <1>1
<1> QED BY <1>1, <1>2, <1>3, Zenon DEF Min, Max

\* A set with lo - 1, and with a pixel's predecessor the pixel, has all up to hi.
LEMMA Along ==
  ASSUME NEW lo \in Int, NEW hi \in Int, lo <= hi, NEW S, lo - 1 \in S,
         \A p \in lo..hi : p - 1 \in S => p \in S
  PROVE  (lo - 1)..hi \subseteq S
<1> DEFINE n == hi - lo + 1
<1> DEFINE T == {k \in 0..n : lo - 1 + k \in S}
<1>1. n \in Nat /\ 0 \in T
  OBVIOUS
<1>2. ASSUME NEW k \in 0..n, k < n, k \in T PROVE k + 1 \in T
  <2>1. lo + k \in lo..hi /\ (lo + k) - 1 = lo - 1 + k /\ lo - 1 + (k + 1) = lo + k
    BY <1>2
  <2>2. lo + k \in S
    BY <1>2, <2>1
  <2> QED BY <1>2, <2>1, <2>2
<1>3. 0..n \subseteq T
  <2> HIDE DEF T, n
  <2> QED BY <1>1, <1>2, UpTo
<1>4. ASSUME NEW p \in (lo - 1)..hi PROVE p \in S
  <2>1. p - (lo - 1) \in 0..n /\ lo - 1 + (p - (lo - 1)) = p
    OBVIOUS
  <2> QED BY <1>3, <2>1
<1> QED BY <1>4

\* f has the value base and then, at each pixel, G of the value before.
Walks(f, lo, hi, base, G) == f[lo - 1] = base /\ \A p \in lo..hi : f[p] = G[<<f[p - 1], p>>]

\* A function of a value and a pixel can be iterated along the pixels.
LEMMA Walk ==
  ASSUME NEW lo \in Int, NEW hi \in Int, lo <= hi, NEW X, NEW base \in X,
         NEW G \in [X \X (lo..hi) -> X]
  PROVE  \E f \in [(lo - 1)..hi -> X] : Walks(f, lo, hi, base, G)
<1> DEFINE n == hi - lo + 1
<1> DEFINE H == [x \in X \X (1..n) |-> G[<<x[1], lo - 1 + x[2]>>]]
<1>1. n \in Nat /\ \A k \in 1..n : lo - 1 + k \in lo..hi
  OBVIOUS
<1>2. H \in [X \X (1..n) -> X]
  <2> HIDE DEF n
  <2> QED BY <1>1
<1>3. PICK h \in [0..n -> X] : Iterates(h, n, base, H)
  <2> HIDE DEF n, H
  <2> QED BY <1>1, <1>2, Recursion
<1> DEFINE f == [p \in (lo - 1)..hi |-> h[p - (lo - 1)]]
<1>4. f \in [(lo - 1)..hi -> X] /\ f[lo - 1] = base
  <2>1. h[0] = base
    BY <1>3 DEF Iterates
  <2>2. \A p \in (lo - 1)..hi : p - (lo - 1) \in 0..n
    OBVIOUS
  <2> QED BY <2>1, <2>2
<1>5. ASSUME NEW p \in lo..hi PROVE f[p] = G[<<f[p - 1], p>>]
  <2> DEFINE k == p - (lo - 1)
  <2>1. k \in 1..n /\ k - 1 = (p - 1) - (lo - 1) /\ k - 1 \in 0..n /\ lo - 1 + k = p
    OBVIOUS
  <2>2. h[k] = H[<<h[k - 1], k>>]
    BY <1>3, <2>1 DEF Iterates
  <2>3. h[k - 1] \in X
    BY <2>1
  <2>4. H[<<h[k - 1], k>>] = G[<<h[k - 1], lo - 1 + k>>]
    <3> HIDE DEF k, n
    <3> QED BY <2>1, <2>3
  <2>5. f[p] = h[k] /\ f[p - 1] = h[k - 1]
    BY <2>1
  <2> QED BY <2>1, <2>2, <2>4, <2>5
<1> QED BY <1>4, <1>5 DEF Walks

-----------------------------------------------------------------------------
(* Bands that are written.                                                    *)

\* What a band with the settings of b holds after a value is written.
Put(b, h) == Clamp(b.type, IF b.type.float THEN h ELSE rt_band_corrected_clamped_value(b, h))

\* The flag about all pixels is true.
Flagged(b) == b.isnodata => b.hasnodata /\ \A p \in DOMAIN b.data : b.data[p] = b.nodataval

\* What is read of a pixel that holds v.
Reads(b, v) == [value |-> v, nodata |-> rt_band_clamped_value_is_nodata(b, v) # 0]

\* Then the flag makes no difference to a reader.
LEMMA FlaggedReads ==
  ASSUME NEW b, Flagged(b), NEW p \in DOMAIN b.data
  PROVE  rt_band_get_pixel(b, p) = Reads(b, b.data[p])
<1>1. CASE b.isnodata
  <2>1. b.hasnodata /\ b.data[p] = b.nodataval
    BY <1>1 DEF Flagged
  <2>2. rt_band_clamped_value_is_nodata(b, b.data[p]) = 2
    BY <2>1 DEF rt_band_clamped_value_is_nodata
  <2>3. (rt_band_clamped_value_is_nodata(b, b.data[p]) # 0) = TRUE
    BY <2>2
  <2> QED BY <1>1, <2>1, <2>3, Zenon DEF rt_band_get_pixel, Reads
<1>2. CASE ~ b.isnodata
  BY <1>2, Zenon DEF rt_band_get_pixel, Reads
<1> QED BY <1>1, <1>2

\* Settings a new band keeps as they are.
Settled(set) == /\ set.hasnodata \in BOOLEAN /\ (~ set.hasnodata => set.nodataval = 0)
                /\ Clamp(set.type, set.nodataval) = set.nodataval

\* Bands with the settings and data in D, and a band with the settings over P.
BandsOf(set, P, D) == [type : {set.type}, hasnodata : {set.hasnodata}, nodataval : {set.nodataval},
                       isnodata : BOOLEAN, data : [P -> D]]

\* What the final band has at a pixel, given what the callback says.
Burned(set, c) == IF ~ c.nodata THEN Put(set, c.value)
                  ELSE IF set.hasnodata THEN set.nodataval ELSE Put(set, Lowest(set.type))

\* A pixel that is written changes its own value, and the flag stays true.
LEMMA SetPixel ==
  ASSUME NEW set, Settled(set), NEW P, NEW D, NEW b \in BandsOf(set, P, D), Flagged(b),
         NEW p \in P, NEW h, Put(set, h) \in D
  PROVE  LET new == rt_band_set_pixel(b, p, h)
         IN  /\ new \in BandsOf(set, P, D) /\ Flagged(new)
             /\ new.data = [b.data EXCEPT ![p] = Put(set, h)]
<1> DEFINE v == IF b.type.float THEN h ELSE rt_band_corrected_clamped_value(b, h)
<1> DEFINE new == rt_band_set_pixel(b, p, h)
<1>1. /\ b = [type |-> set.type, hasnodata |-> set.hasnodata, nodataval |-> set.nodataval,
              isnodata |-> b.isnodata, data |-> b.data]
      /\ b.type = set.type /\ b.hasnodata = set.hasnodata /\ b.nodataval = set.nodataval
      /\ b.isnodata \in BOOLEAN /\ b.data \in [P -> D]
  BY DEF BandsOf
<1>2. Clamp(b.type, v) = Put(set, h)
  BY <1>1 DEF Put, rt_band_corrected_clamped_value, rt_band_clamped_value_is_nodata
<1>3. rt_band_clamped_value_is_nodata(b, v) # 0 => b.hasnodata /\ Clamp(b.type, v) = b.nodataval
  <2> HIDE DEF v
  <2> QED BY <1>1 DEF rt_band_clamped_value_is_nodata, Settled
<1> DEFINE d == [b.data EXCEPT ![p] = Put(set, h)]
<1> DEFINE flag == b.isnodata /\ rt_band_clamped_value_is_nodata(b, v) # 0
<1>4. new = [b EXCEPT !.data[p] = Clamp(b.type, v), !.isnodata = flag]
  BY DEF rt_band_set_pixel
<1> HIDE DEF v, new
<1>5. new = [type |-> set.type, hasnodata |-> set.hasnodata, nodataval |-> set.nodataval,
             isnodata |-> flag, data |-> d]
  BY <1>1, <1>2, <1>4
<1>6. d \in [P -> D] /\ flag \in BOOLEAN
  BY <1>1
<1>7. flag => set.hasnodata /\ \A q \in P : d[q] = set.nodataval
  BY <1>1, <1>2, <1>3 DEF Flagged
<1>8. DOMAIN d = P
  BY <1>6
<1> HIDE DEF d, flag
<1>9. new \in BandsOf(set, P, D) /\ new.data = d
  BY <1>5, <1>6 DEF BandsOf
<1>10. Flagged(new)
  BY <1>5, <1>7, <1>8 DEF Flagged
<1> QED BY <1>9, <1>10 DEF d, new

\* A band that is made with settings s for the pixels P.
Made(b, s, P) == b \in BandsOf(s, P, {b.data[p] : p \in P}) /\ Flagged(b)

\* A new band is all NODATA, or all zeros.
LEMMA Canvas ==
  ASSUME NEW set, Settled(set), NEW P, NEW D, set.nodataval \in D
  PROVE  LET new == rt_raster_generate_new_band(P, set.type, set.nodataval, set.hasnodata, set.nodataval)
         IN  new \in BandsOf(set, P, D) /\ Flagged(new) /\ \A p \in P : new.data[p] = set.nodataval
<1> DEFINE new == rt_raster_generate_new_band(P, set.type, set.nodataval, set.hasnodata, set.nodataval)
<1>1. new = [type |-> set.type, hasnodata |-> set.hasnodata, nodataval |-> set.nodataval,
             isnodata |-> set.hasnodata, data |-> [p \in P |-> set.nodataval]]
  BY DEF rt_raster_generate_new_band, Settled
<1> HIDE DEF new
<1>2. set.hasnodata \in BOOLEAN
  BY DEF Settled
<1>3. [p \in P |-> set.nodataval] \in [P -> D]
  OBVIOUS
<1>4. new \in BandsOf(set, P, D)
  BY <1>1, <1>2, <1>3 DEF BandsOf
<1>5. Flagged(new) /\ \A p \in P : new.data[p] = set.nodataval
  BY <1>1 DEF Flagged
<1> QED BY <1>4, <1>5 DEF new

\* rt_raster_iterator: each pixel of the new raster gets what the callback says.
LEMMA Burning ==
  ASSUME NEW lo \in Int, NEW hi \in Int, lo <= hi, NEW set, Settled(set),
         NEW r0, NEW n0, NEW r1, NEW n1, NEW utype
  PROVE  LET new == rt_raster_iterator(r0, n0, r1, n1, lo..hi, set, utype)
             b   == new.bands[1]
         IN  /\ new = [ext |-> lo..hi, bands |-> <<b>>] /\ Made(b, set, lo..hi)
             /\ \A p \in lo..hi : b.data[p] = Burned(set, Callback(utype, Arg(r0, n0, p), Arg(r1, n1, p)))
<1> DEFINE P == lo..hi
<1> DEFINE C(p) == Callback(utype, Arg(r0, n0, p), Arg(r1, n1, p))
<1> DEFINE V(p) == Burned(set, C(p))
<1> DEFINE D == {set.nodataval} \cup {V(p) : p \in P}
<1> DEFINE X == {b \in BandsOf(set, P, D) : Flagged(b)}
<1> DEFINE new == rt_raster_generate_new_band(P, set.type, set.nodataval, set.hasnodata, set.nodataval)
<1> DEFINE Burn(b, p) == IF ~ C(p).nodata THEN rt_band_set_pixel(b, p, C(p).value)
                         ELSE IF ~ set.hasnodata THEN rt_band_set_pixel(b, p, Lowest(set.type)) ELSE b
<1> DEFINE G == [x \in X \X P |-> Burn(x[1], x[2])]
<1>1. new \in X /\ \A p \in P : new.data[p] = set.nodataval
  BY Canvas
<1>2. ASSUME NEW b \in X, NEW p \in P
      PROVE  Burn(b, p) \in X /\ \A q \in P : Burn(b, p).data[q] =
               IF q # p THEN b.data[q]
               ELSE IF C(p).nodata /\ set.hasnodata THEN b.data[p] ELSE V(p)
  <2>0. V(p) \in D /\ b \in BandsOf(set, P, D) /\ Flagged(b) /\ b.data \in [P -> D]
    BY DEF BandsOf
  <2>1. CASE C(p).nodata /\ set.hasnodata
    <3>1. Burn(b, p) = b
      BY <2>1
    <3> QED BY <2>1, <3>1
  <2>2. ASSUME NEW h, Put(set, h) = V(p), Burn(b, p) = rt_band_set_pixel(b, p, h),
               ~ (C(p).nodata /\ set.hasnodata)
        PROVE  Burn(b, p) \in X /\ \A q \in P : Burn(b, p).data[q] =
                 IF q # p THEN b.data[q]
                 ELSE IF C(p).nodata /\ set.hasnodata THEN b.data[p] ELSE V(p)
    <3> HIDE DEF D, C, V, Burn
    <3>1. Put(set, h) \in D
      BY <2>0, <2>2
    <3>2. /\ Burn(b, p) \in BandsOf(set, P, D) /\ Flagged(Burn(b, p))
          /\ Burn(b, p).data = [b.data EXCEPT ![p] = Put(set, h)]
      BY <2>0, <2>2, <3>1, SetPixel
    <3> QED BY <2>0, <2>2, <3>2
  <2>3. CASE ~ C(p).nodata
    <3>1. Put(set, C(p).value) = V(p) /\ Burn(b, p) = rt_band_set_pixel(b, p, C(p).value)
      BY <2>3 DEF Burned
    <3> QED BY <2>2, <2>3, <3>1
  <2>4. CASE C(p).nodata /\ ~ set.hasnodata
    <3>1. Put(set, Lowest(set.type)) = V(p) /\ Burn(b, p) = rt_band_set_pixel(b, p, Lowest(set.type))
      BY <2>4 DEF Burned
    <3> QED BY <2>2, <2>4, <3>1
  <2> QED BY <2>1, <2>3, <2>4
<1>3. ASSUME NEW p \in P, C(p).nodata, set.hasnodata PROVE V(p) = set.nodataval
  BY <1>3 DEF Burned
<1> DEFINE after == CHOOSE f : f = [p \in lo - 1..hi |-> IF p < lo THEN new ELSE Burn(f[p - 1], p)]
<1>4. rt_raster_iterator(r0, n0, r1, n1, P, set, utype) = [ext |-> P, bands |-> <<after[hi]>>]
  <2>1. Min(P) = lo /\ Max(P) = hi
    BY Ends
  <2> HIDE DEF P, C, new
  <2>2. rt_raster_iterator(r0, n0, r1, n1, P, set, utype) =
          [ext |-> P, bands |-> <<(CHOOSE f : f = [p \in Min(P) - 1..Max(P) |->
             IF p < Min(P) THEN new ELSE Burn(f[p - 1], p)])[Max(P)]>>]
    BY Zenon DEF rt_raster_iterator, C, new
  <2>3. \A f : [p \in Min(P) - 1..Max(P) |-> IF p < Min(P) THEN new ELSE Burn(f[p - 1], p)]
             = [p \in lo - 1..hi |-> IF p < lo THEN new ELSE Burn(f[p - 1], p)]
    BY <2>1
  <2> HIDE DEF Burn
  <2>4. (CHOOSE f : f = [p \in Min(P) - 1..Max(P) |-> IF p < Min(P) THEN new ELSE Burn(f[p - 1], p)]) = after
    BY <2>3, Zenon
  <2> HIDE DEF after
  <2> QED BY <2>1, <2>2, <2>4, Zenon
<1> HIDE DEF X, Burn, new, V, C
<1>5. PICK f \in [(lo - 1)..hi -> X] : Walks(f, lo, hi, new, G)
  <2>1. G \in [X \X (lo..hi) -> X]
    BY <1>2
  <2>2. new \in X
    BY <1>1
  <2> HIDE DEF G, P, D
  <2>3. \E f \in [(lo - 1)..hi -> X] : Walks(f, lo, hi, new, G)
    BY <2>1, <2>2, Walk
  <2> QED BY <2>3
<1>6. f = [p \in lo - 1..hi |-> IF p < lo THEN new ELSE Burn(f[p - 1], p)]
  <2>1. ASSUME NEW p \in lo..hi PROVE f[p] = Burn(f[p - 1], p)
    <3>1. p - 1 \in (lo - 1)..hi
      OBVIOUS
    <3>2. f[p - 1] \in X
      BY <3>1
    <3> QED BY <1>5, <3>2 DEF Walks
  <2>2. ASSUME NEW p \in lo - 1..hi PROVE f[p] = IF p < lo THEN new ELSE Burn(f[p - 1], p)
    BY <1>5, <2>1 DEF Walks
  <2> QED BY <2>2
<1>7. after = [p \in lo - 1..hi |-> IF p < lo THEN new ELSE Burn(after[p - 1], p)]
  BY <1>6, Zenon
<1> HIDE DEF after
<1> DEFINE S == {p \in lo - 1..hi : after[p] \in X /\ \A q \in P :
                   after[p].data[q] = IF q <= p THEN V(q) ELSE set.nodataval}
<1>8. lo - 1 \in S
  BY <1>1, <1>7
<1>9. ASSUME NEW p \in lo..hi, p - 1 \in S PROVE p \in S
  <2>1. after[p] = Burn(after[p - 1], p)
    BY <1>7
  <2>2. after[p - 1] \in X /\ p \in P /\ \A q \in P : after[p - 1].data[q] = IF q <= p - 1 THEN V(q) ELSE set.nodataval
    BY <1>9
  <2> DEFINE a == after[p - 1]
  <2>3. Burn(a, p) \in X /\ \A q \in P : Burn(a, p).data[q] =
               IF q # p THEN a.data[q]
               ELSE IF C(p).nodata /\ set.hasnodata THEN a.data[p] ELSE V(p)
    BY <1>2, <2>2
  <2>4. ASSUME NEW q \in P PROVE Burn(a, p).data[q] = IF q <= p THEN V(q) ELSE set.nodataval
    <3>1. CASE q # p
      <4>1. q <= p - 1 <=> q <= p
        BY <3>1
      <4> QED BY <2>2, <2>3, <3>1, <4>1
    <3>2. CASE q = p
      <4>1. ~ (q <= p - 1) /\ q <= p
        BY <3>2
      <4>2. a.data[p] = set.nodataval
        BY <2>2, <3>2, <4>1
      <4> QED BY <1>3, <2>3, <3>2, <4>1, <4>2
    <3> QED BY <3>1, <3>2
  <2> QED BY <2>1, <2>3, <2>4
<1>10. hi \in S
  <2>1. (lo - 1)..hi \subseteq S
    <3> HIDE DEF S
    <3> QED BY <1>8, <1>9, Along
  <2> QED BY <2>1
<1>11. after[hi] \in X /\ \A q \in P : after[hi].data[q] = V(q)
  BY <1>10
<1> DEFINE b == after[hi]
<1>12. Made(b, set, P)
  <2> HIDE DEF b, P
  <2>1. b \in X /\ \A q \in P : b.data[q] \in {b.data[p] : p \in P}
    BY <1>11 DEF b
  <2> QED BY <2>1 DEF Made, X, BandsOf
<1> QED BY <1>4, <1>11, <1>12 DEF V, C

\* A pixel that is copied: the flag goes.
LEMMA SetPixelLine ==
  ASSUME NEW set, NEW Q, NEW D, NEW b \in BandsOf(set, Q, D), Flagged(b), NEW p \in Q, NEW v \in D
  PROVE  LET new == rt_band_set_pixel_line(b, p, v)
         IN  new \in BandsOf(set, Q, D) /\ Flagged(new) /\ new.data = [b.data EXCEPT ![p] = v]
<1> DEFINE new == rt_band_set_pixel_line(b, p, v)
<1> DEFINE d == [b.data EXCEPT ![p] = v]
<1> DEFINE flag == b.isnodata /\ ~ b.hasnodata
<1>1. /\ b = [type |-> set.type, hasnodata |-> set.hasnodata, nodataval |-> set.nodataval,
              isnodata |-> b.isnodata, data |-> b.data]
      /\ b.type = set.type /\ b.hasnodata = set.hasnodata /\ b.nodataval = set.nodataval
      /\ b.isnodata \in BOOLEAN /\ b.data \in [Q -> D]
  BY DEF BandsOf
<1>2. ~ flag
  BY DEF Flagged
<1>3. new = [b EXCEPT !.data = d, !.isnodata = flag]
  BY <1>1 DEF rt_band_set_pixel_line
<1>4. d \in [Q -> D] /\ flag \in BOOLEAN
  BY <1>1
<1> HIDE DEF d, flag, new
<1>5. new = [type |-> set.type, hasnodata |-> set.hasnodata, nodataval |-> set.nodataval,
             isnodata |-> flag, data |-> d]
  BY <1>1, <1>3
<1>6. new \in BandsOf(set, Q, D) /\ new.data = d
  BY <1>4, <1>5 DEF BandsOf
<1>7. Flagged(new)
  BY <1>2, <1>5 DEF Flagged
<1> QED BY <1>6, <1>7 DEF d, new

\* rt_band_set_pixel_line for all pixels of a band: they have its values, the others keep theirs.
LEMMA Copying ==
  ASSUME NEW lo \in Int, NEW hi \in Int, lo <= hi, NEW set, NEW Q, NEW D,
         NEW b \in BandsOf(set, Q, D), Flagged(b), lo..hi \subseteq Q,
         NEW from, DOMAIN from.data = lo..hi, \A p \in lo..hi : from.data[p] \in D
  PROVE  LET new == Copied(b, from)
         IN  /\ new \in BandsOf(set, Q, D) /\ Flagged(new)
             /\ \A q \in Q : new.data[q] = IF q \in lo..hi THEN from.data[q] ELSE b.data[q]
<1> DEFINE X == {a \in BandsOf(set, Q, D) : Flagged(a)}
<1> DEFINE V(p) == from.data[p]
<1> DEFINE Step(a, p) == rt_band_set_pixel_line(a, p, V(p))
<1> DEFINE G == [x \in X \X (lo..hi) |-> Step(x[1], x[2])]
<1>1. b \in X
  OBVIOUS
<1>2. ASSUME NEW a \in X, NEW p \in lo..hi
      PROVE  Step(a, p) \in X /\ \A q \in Q : Step(a, p).data[q] = IF q = p THEN V(p) ELSE a.data[q]
  <2>1. a \in BandsOf(set, Q, D) /\ Flagged(a) /\ p \in Q /\ V(p) \in D /\ a.data \in [Q -> D]
    BY DEF BandsOf
  <2> HIDE DEF V
  <2>2. Step(a, p) \in BandsOf(set, Q, D) /\ Flagged(Step(a, p)) /\ Step(a, p).data = [a.data EXCEPT ![p] = V(p)]
    BY <2>1, SetPixelLine
  <2> HIDE DEF Step
  <2> QED BY <2>1, <2>2
<1> DEFINE after == CHOOSE f : f = [p \in lo - 1..hi |-> IF p < lo THEN b ELSE Step(f[p - 1], p)]
<1>3. Copied(b, from) = after[hi]
  <2> DEFINE P == DOMAIN from.data
  <2>1. Min(P) = lo /\ Max(P) = hi
    BY Ends
  <2> HIDE DEF P
  <2>2. Copied(b, from) = (CHOOSE f : f = [p \in Min(P) - 1..Max(P) |->
                             IF p < Min(P) THEN b ELSE Step(f[p - 1], p)])[Max(P)]
    BY Zenon DEF Copied, P
  <2>3. \A f : [p \in Min(P) - 1..Max(P) |-> IF p < Min(P) THEN b ELSE Step(f[p - 1], p)]
             = [p \in lo - 1..hi |-> IF p < lo THEN b ELSE Step(f[p - 1], p)]
    BY <2>1
  <2> HIDE DEF Step
  <2>4. (CHOOSE f : f = [p \in Min(P) - 1..Max(P) |-> IF p < Min(P) THEN b ELSE Step(f[p - 1], p)]) = after
    BY <2>3, Zenon
  <2> HIDE DEF after
  <2> QED BY <2>1, <2>2, <2>4, Zenon
<1> HIDE DEF X, Step, V
<1>4. PICK f \in [(lo - 1)..hi -> X] : Walks(f, lo, hi, b, G)
  <2>1. G \in [X \X (lo..hi) -> X]
    BY <1>2
  <2> HIDE DEF G
  <2> QED BY <1>1, <2>1, Walk
<1>5. f = [p \in lo - 1..hi |-> IF p < lo THEN b ELSE Step(f[p - 1], p)]
  <2>1. ASSUME NEW p \in lo..hi PROVE f[p] = Step(f[p - 1], p)
    <3>1. p - 1 \in (lo - 1)..hi
      OBVIOUS
    <3>2. f[p - 1] \in X
      BY <3>1
    <3> QED BY <1>4, <3>2 DEF Walks
  <2>2. ASSUME NEW p \in lo - 1..hi PROVE f[p] = IF p < lo THEN b ELSE Step(f[p - 1], p)
    BY <1>4, <2>1 DEF Walks
  <2> QED BY <2>2
<1>6. after = [p \in lo - 1..hi |-> IF p < lo THEN b ELSE Step(after[p - 1], p)]
  BY <1>5, Zenon
<1> HIDE DEF after
<1> DEFINE S == {p \in lo - 1..hi : after[p] \in X /\ \A q \in Q :
                   after[p].data[q] = IF q \in lo..p THEN V(q) ELSE b.data[q]}
<1>7. lo - 1 \in S
  BY <1>1, <1>6
<1>8. ASSUME NEW p \in lo..hi, p - 1 \in S PROVE p \in S
  <2>1. after[p] = Step(after[p - 1], p)
    BY <1>6
  <2> DEFINE a == after[p - 1]
  <2>2. a \in X /\ \A q \in Q : a.data[q] = IF q \in lo..p - 1 THEN V(q) ELSE b.data[q]
    BY <1>8
  <2> HIDE DEF a
  <2>3. Step(a, p) \in X /\ \A q \in Q : Step(a, p).data[q] = IF q = p THEN V(p) ELSE a.data[q]
    BY <1>2, <2>2
  <2>4. \A q : q \in lo..p <=> q = p \/ q \in lo..p - 1
    OBVIOUS
  <2>5. \A q \in Q : Step(a, p).data[q] = IF q \in lo..p THEN V(q) ELSE b.data[q]
    BY <2>2, <2>3, <2>4
  <2> QED BY <2>1, <2>3, <2>5 DEF a
<1>9. (lo - 1)..hi \subseteq S
  <2> HIDE DEF S
  <2> QED BY <1>7, <1>8, Along
<1>10. hi \in S
  BY <1>9
<1> QED BY <1>3, <1>10 DEF X, V

-----------------------------------------------------------------------------
(* Working rasters that are renewed.                                          *)

Interval(P) == \E lo, hi \in Int : lo <= hi /\ P = lo..hi

\* The hull of two intervals is one, and has both.
LEMMA HullInterval ==
  ASSUME NEW A, A = {} \/ Interval(A), NEW B, B = {} \/ Interval(B), A \cup B # {}
  PROVE  Interval(Hull(A \cup B)) /\ A \cup B \subseteq Hull(A \cup B)
<1>1. \E lo, hi \in Int : Spans(A \cup B, lo, hi)
  <2>0. ASSUME NEW P, Interval(P) PROVE \E lo, hi \in Int : Spans(P, lo, hi)
    BY <2>0 DEF Interval, Spans
  <2>1. CASE A = {}
    <3>1. A \cup B = B /\ Interval(B)
      BY <2>1
    <3> QED BY <2>0, <3>1
  <2>2. CASE B = {}
    <3>1. A \cup B = A /\ Interval(A)
      BY <2>2
    <3> QED BY <2>0, <3>1
  <2>3. CASE A # {} /\ B # {}
    <3>1. PICK a \in Int, b \in Int : a <= b /\ A = a..b
      BY <2>3 DEF Interval
    <3>2. PICK c \in Int, d \in Int : c <= d /\ B = c..d
      BY <2>3 DEF Interval
    <3> DEFINE lo == IF a <= c THEN a ELSE c
    <3> DEFINE hi == IF d <= b THEN b ELSE d
    <3>3. lo \in Int /\ hi \in Int /\ Spans(A \cup B, lo, hi)
      BY <3>1, <3>2 DEF Spans
    <3> QED BY <3>3
  <2> QED BY <2>1, <2>2, <2>3
<1>2. PICK lo \in Int, hi \in Int : Spans(A \cup B, lo, hi)
  BY <1>1
<1> DEFINE U == A \cup B
<1>3. Spans(U, lo, hi)
  BY <1>2
<1> HIDE DEF U
<1>4. Hull(U) = lo..hi
  BY <1>3, HullOfSpan
<1>5. lo <= hi /\ U \subseteq lo..hi
  BY <1>3 DEF Spans
<1> QED BY <1>4, <1>5 DEF Interval, U

\* A raster that may come, and its bands.
LEMMA TileBands ==
  ASSUME NEW r \in Tile, NEW n \in Nat \ {0}
  PROVE  /\ r = Null <=> r.ext = {}
         /\ r.ext = {} \/ Interval(r.ext)
         /\ HasBand(r, n) => r # Null /\ IsBand(r.bands[n], r.ext)
<1>1. /\ List(r.bands) /\ \A m \in DOMAIN r.bands : IsBand(r.bands[m], r.ext)
      /\ r # Null => r.ext \subseteq Int /\ \E lo, hi \in r.ext : r.ext = lo..hi
  BY UnionAssumption
<1>2. HasBand(r, n) => n \in DOMAIN r.bands
  BY <1>1, Lists DEF HasBand
<1>3. r = Null => r.ext = {} /\ ~ HasBand(r, n)
  BY DEF Null, HasBand
<1>4. CASE r # Null
  <2>1. PICK lo \in Int, hi \in Int : lo \in r.ext /\ hi \in r.ext /\ r.ext = lo..hi
    BY <1>1, <1>4
  <2>2. lo <= hi
    BY <2>1
  <2> QED BY <1>1, <1>2, <1>4, <2>1, <2>2 DEF Interval
<1> QED BY <1>1, <1>2, <1>3, <1>4

\* The settings of a band, and those for counts.
SetOf(b) == [type |-> b.type, hasnodata |-> b.hasnodata, nodataval |-> b.nodataval]
CountSet == [type |-> PT_32BUI, hasnodata |-> FALSE, nodataval |-> 0]

\* A working raster: it has the band or it has not. Only one of counts has no NODATA value.
Sheet(utype, w) ==
  /\ w = [ext |-> w.ext, bands |-> w.bands] /\ (w.ext = {} \/ Interval(w.ext))
  /\ w.bands = <<>> \/ \E b : /\ w.bands = <<b>> /\ w.ext # {}
                              /\ Made(b, SetOf(b), w.ext) /\ Settled(SetOf(b))
                              /\ utype = "COUNT" => SetOf(b) = CountSet
                              /\ utype # "COUNT" => b.hasnodata

\* The lowest number of a type is one of it.
LEMMA LowestHeld ==
  ASSUME NEW t, IsPixelType(t)
  PROVE  Lowest(t) \in Int /\ Clamp(t, Lowest(t)) = Lowest(t)
<1> DEFINE k == 0 - t.lo
<1>1. k \in Nat /\ t.lo = 0 - k /\ t.lo <= t.hi /\ t.hi \in Int
  BY DEF IsPixelType
<1>2. Lowest(t) = -2 * k /\ Lowest(t) \in Int /\ Highest(t) \in Int /\ ~ (Lowest(t) > Highest(t))
  BY <1>1 DEF Lowest, Highest
<1> HIDE DEF k
<1>3. (2 * k) \div 2 = k
  BY <1>1
<1>4. Truncated(Lowest(t)) = Lowest(t)
  <2>1. CASE k = 0
    <3>1. Lowest(t) = 2 * t.lo /\ t.lo = 0
      BY <1>1, <2>1 DEF Lowest
    <3>2. Lowest(t) = 0
      BY <3>1
    <3>3. 0 >= 0 /\ 2 * (0 \div 2) = 0
      OBVIOUS
    <3>4. Truncated(0) = 0
      BY <3>3 DEF Truncated
    <3> QED BY <3>2, <3>4, Zenon
  <2>2. CASE k # 0
    <3>1. -2 * k < 0 /\ -(-2 * k) = 2 * k
      BY <1>1, <2>2
    <3>2. Truncated(-2 * k) = -2 * ((-(-2 * k)) \div 2)
      BY <1>1, <3>1 DEF Truncated
    <3> QED BY <1>2, <1>3, <3>1, <3>2
  <2> QED BY <2>1, <2>2
<1> QED BY <1>2, <1>4 DEF Clamp

\* The settings of a working raster stay as they are, and new ones are such that a band keeps them.
LEMMA SettingsSettled ==
  ASSUME NEW utype, NEW w, Sheet(utype, w), NEW r \in Tile, NEW n \in Nat \ {0}
  PROVE  LET set == Settings(utype, w, r, n)
         IN  /\ Settled(set) /\ set = SetOf(set)
             /\ HasBand(w, 1) => set = SetOf(w.bands[1])
             /\ ~ HasBand(w, 1) /\ HasBand(r, n) /\ utype # "COUNT" =>
                  set = [type |-> r.bands[n].type, hasnodata |-> TRUE, nodataval |-> NodataOf(r.bands[n])]
             /\ ~ HasBand(w, 1) /\ ~ HasBand(r, n) /\ utype # "COUNT" =>
                  set = [type |-> PT_64BF, hasnodata |-> TRUE, nodataval |-> Lowest(PT_64BF)]
             /\ utype = "COUNT" => set = CountSet
             /\ utype # "COUNT" => set.hasnodata
<1> DEFINE set == Settings(utype, w, r, n)
<1>1. Clamp(PT_32BUI, 0) = 0
  <2>1. Lowest(PT_32BUI) = 0 /\ Highest(PT_32BUI) \in Int /\ Highest(PT_32BUI) >= 0
    BY UnionAssumption DEF PT_32BUI, Lowest, Highest
  <2>2. Truncated(0) = 0
    BY DEF Truncated
  <2> QED BY <2>1, <2>2 DEF Clamp, PT_32BUI
<1>2. Settled(CountSet) /\ CountSet = SetOf(CountSet)
  BY <1>1 DEF Settled, CountSet, SetOf
<1>3. CASE utype = "COUNT"
  <2>1. set = CountSet
    BY <1>3 DEF Settings, CountSet
  <2>2. HasBand(w, 1) => SetOf(w.bands[1]) = CountSet
    BY <1>3 DEF Sheet, HasBand
  <2> QED BY <1>2, <1>3, <2>1, <2>2
<1>4. CASE utype # "COUNT" /\ HasBand(w, 1)
  <2>1. PICK b : w.bands = <<b>> /\ Settled(SetOf(b)) /\ b.hasnodata
    BY <1>4 DEF Sheet, HasBand
  <2>2. b.hasnodata = TRUE
    BY <2>1 DEF Settled, SetOf
  <2>0. w.bands[1] = b
    BY <2>1
  <2>3. set = SetOf(b) /\ w.bands[1] = b
    <3>1. NodataOf(b) = b.nodataval
      BY <2>1 DEF NodataOf
    <3>2. set = [type |-> b.type, hasnodata |-> TRUE, nodataval |-> NodataOf(b)]
      BY <1>4, <2>0 DEF Settings
    <3> QED BY <2>0, <2>2, <3>1, <3>2 DEF SetOf
  <2>4. SetOf(b) = SetOf(SetOf(b)) /\ SetOf(b).hasnodata
    BY <2>1 DEF SetOf
  <2> QED BY <1>4, <2>1, <2>3, <2>4
<1>5. CASE utype # "COUNT" /\ ~ HasBand(w, 1) /\ HasBand(r, n)
  <2> DEFINE b == r.bands[n]
  <2>1. IsBand(b, r.ext)
    BY <1>5, TileBands
  <2>2. set = [type |-> b.type, hasnodata |-> TRUE, nodataval |-> NodataOf(b)]
    BY <1>5 DEF Settings
  <2> HIDE DEF b, set
  <2>3. Clamp(b.type, NodataOf(b)) = NodataOf(b)
    BY <2>1, LowestHeld DEF NodataOf, IsBand
  <2>4. Settled(set) /\ set = SetOf(set) /\ set.hasnodata
    BY <2>2, <2>3 DEF Settled, SetOf
  <2> QED BY <1>5, <2>2, <2>4 DEF b, set
<1>6. CASE utype # "COUNT" /\ ~ HasBand(w, 1) /\ ~ HasBand(r, n)
  <2>1. set = [type |-> PT_64BF, hasnodata |-> TRUE, nodataval |-> Lowest(PT_64BF)]
    BY <1>6 DEF Settings
  <2>2. Clamp(PT_64BF, Lowest(PT_64BF)) = Lowest(PT_64BF)
    BY DEF Clamp, PT_64BF
  <2> HIDE DEF set
  <2>3. Settled(set) /\ set = SetOf(set) /\ set.hasnodata
    BY <2>1, <2>2 DEF Settled, SetOf
  <2> QED BY <1>6, <2>1, <2>3 DEF set
<1> QED BY <1>3, <1>4, <1>5, <1>6

\* What pixel p of the new band b of a working raster holds: what the callback says, or,
\* where lines are copied, what was there.
Holds(b, utype, w, r, n, p) ==
  LET set == Settings(utype, w, r, n) IN
  \/ b.data[p] = Burned(set, Callback(utype, Arg(w, 1, p), Arg(r, n, p)))
  \/ p \notin r.ext /\ HasBand(w, 1)
     /\ b.data[p] = IF p \in w.ext THEN w.bands[1].data[p] ELSE set.nodataval

\* A working raster whose one band is b, of the settings for the raster that comes.
Renewed(new, b, utype, w, r, n) ==
  LET set == Settings(utype, w, r, n) IN
  /\ new = [ext |-> Hull(w.ext \cup r.ext), bands |-> <<b>>]
  /\ Made(b, set, Hull(w.ext \cup r.ext))
  /\ \A p \in Hull(w.ext \cup r.ext) : Holds(b, utype, w, r, n, p)

\* The pixel method computes them all.
LEMMA PixelMethodRenews ==
  ASSUME NEW utype, NEW w, Sheet(utype, w), NEW r \in Tile, NEW n \in Nat \ {0},
         w.ext \cup r.ext # {}
  PROVE  \E b : Renewed(PixelMethod(utype, w, r, n), b, utype, w, r, n)
<1> DEFINE set == Settings(utype, w, r, n)
<1> DEFINE ext == Hull(w.ext \cup r.ext)
<1>1. Settled(set)
  BY SettingsSettled
<1>2. PICK lo \in Int, hi \in Int : lo <= hi /\ ext = lo..hi
  <2>1. (w.ext = {} \/ Interval(w.ext)) /\ (r.ext = {} \/ Interval(r.ext))
    BY TileBands DEF Sheet
  <2>2. Interval(ext)
    BY <2>1, HullInterval
  <2> HIDE DEF ext
  <2> QED BY <2>2 DEF Interval
<1> DEFINE new == rt_raster_iterator(w, 1, r, n, ext, set, utype)
<1> DEFINE b == new.bands[1]
<1>3. PixelMethod(utype, w, r, n) = new
  BY DEF PixelMethod
<1> HIDE DEF ext, set
<1>4. /\ new = [ext |-> ext, bands |-> <<b>>] /\ Made(b, set, ext)
      /\ \A p \in ext : b.data[p] = Burned(set, Callback(utype, Arg(w, 1, p), Arg(r, n, p)))
  BY <1>1, <1>2, Burning
<1> HIDE DEF new, b
<1>5. Renewed(new, b, utype, w, r, n)
  BY <1>4 DEF Renewed, Holds, ext, set
<1> QED BY <1>3, <1>5

\* The line method computes those of the raster that comes and copies the others.
LEMMA LineMethodRenews ==
  ASSUME NEW utype, NEW w, Sheet(utype, w), NEW r \in Tile, NEW n \in Nat \ {0},
         HasBand(w, 1), HasBand(r, n)
  PROVE  \E b : Renewed(LineMethod(utype, w, r, n), b, utype, w, r, n)
<1> DEFINE set == Settings(utype, w, r, n)
<1> DEFINE ext == Hull(w.ext \cup r.ext)
<1> DEFINE old == w.bands[1]
<1> DEFINE canvas == rt_raster_generate_new_band(ext, set.type, set.nodataval, set.hasnodata, set.nodataval)
<1> DEFINE base == IF ext = w.ext THEN old ELSE Copied(canvas, old)
<1> DEFINE new == rt_raster_iterator(w, 1, r, n, r.ext, set, utype)
<1> DEFINE b == Copied(base, new.bands[1])
<1> DEFINE C(p) == Burned(set, Callback(utype, Arg(w, 1, p), Arg(r, n, p)))
<1> DEFINE D == {set.nodataval} \cup {old.data[p] : p \in w.ext} \cup {C(p) : p \in r.ext}
<1>1. Settled(set) /\ set = SetOf(old)
  BY SettingsSettled
<1>2. w.ext # {} /\ Made(old, set, w.ext) /\ Interval(w.ext)
  <2>1. PICK c : w.bands = <<c>> /\ w.ext # {} /\ Made(c, SetOf(c), w.ext)
    BY DEF Sheet, HasBand
  <2>2. old = c
    BY <2>1
  <2> QED BY <1>1, <2>1, <2>2 DEF Sheet
<1>3. Interval(r.ext) /\ Interval(ext) /\ w.ext \subseteq ext /\ r.ext \subseteq ext
  <2>1. Interval(r.ext)
    BY TileBands
  <2> QED BY <1>2, <2>1, HullInterval
<1>4. LineMethod(utype, w, r, n) = [ext |-> ext, bands |-> <<b>>]
  BY DEF LineMethod
<1> HIDE DEF ext, set, C, old
<1>5. /\ Made(new.bands[1], set, r.ext)
      /\ \A p \in r.ext : new.bands[1].data[p] = C(p)
  <2>1. PICK lo \in Int, hi \in Int : lo <= hi /\ r.ext = lo..hi
    BY <1>3 DEF Interval
  <2> HIDE DEF D, base
  <2>2. /\ new = [ext |-> r.ext, bands |-> <<new.bands[1]>>] /\ Made(new.bands[1], set, r.ext)
        /\ \A p \in r.ext : new.bands[1].data[p] = Burned(set, Callback(utype, Arg(w, 1, p), Arg(r, n, p)))
    BY <1>1, <2>1, Burning
  <2> QED BY <2>2 DEF C
<1> DEFINE from == new.bands[1]
<1> HIDE DEF new
<1>6. DOMAIN from.data = r.ext /\ DOMAIN old.data = w.ext
  BY <1>2, <1>5 DEF Made, BandsOf
<1>7. base \in BandsOf(set, ext, D) /\ Flagged(base)
      /\ \A p \in ext : base.data[p] = IF p \in w.ext THEN old.data[p] ELSE set.nodataval
  <2>1. old \in BandsOf(set, w.ext, D) /\ Flagged(old)
    <3>1. old \in BandsOf(set, w.ext, {old.data[p] : p \in w.ext})
      BY <1>2 DEF Made
    <3>2. {old.data[p] : p \in w.ext} \subseteq D
      OBVIOUS
    <3> HIDE DEF D
    <3> QED BY <1>2, <3>1, <3>2 DEF BandsOf, Made
  <2>2. CASE ext = w.ext
    BY <2>1, <2>2
  <2>3. CASE ext # w.ext
    <3>1. set.nodataval \in D /\ \A p \in w.ext : old.data[p] \in D
      OBVIOUS
    <3> HIDE DEF D
    <3>2. canvas \in BandsOf(set, ext, D) /\ Flagged(canvas) /\ \A p \in ext : canvas.data[p] = set.nodataval
      BY <1>1, <3>1, Canvas
    <3> HIDE DEF canvas
    <3>3. PICK lo \in Int, hi \in Int : lo <= hi /\ w.ext = lo..hi
      BY <1>2 DEF Interval
    <3>4. LET c == Copied(canvas, old)
          IN  /\ c \in BandsOf(set, ext, D) /\ Flagged(c)
              /\ \A q \in ext : c.data[q] = IF q \in w.ext THEN old.data[q] ELSE canvas.data[q]
      BY <1>3, <1>6, <3>1, <3>2, <3>3, Copying
    <3> QED BY <2>3, <3>2, <3>4
  <2> QED BY <2>2, <2>3
<1>8. /\ b \in BandsOf(set, ext, D) /\ Flagged(b)
      /\ \A p \in ext : b.data[p] = IF p \in r.ext THEN from.data[p] ELSE base.data[p]
  <2>1. PICK lo \in Int, hi \in Int : lo <= hi /\ r.ext = lo..hi
    BY <1>3 DEF Interval
  <2>2. \A p \in r.ext : from.data[p] \in D
    BY <1>5
  <2> HIDE DEF D, base
  <2> QED BY <1>3, <1>6, <1>7, <2>1, <2>2, Copying
<1> HIDE DEF b, base, from
<1>9. Made(b, set, ext)
  <2>1. b.data \in [ext -> D]
    BY <1>8 DEF BandsOf
  <2>2. b.data \in [ext -> {b.data[p] : p \in ext}]
    BY <2>1
  <2> HIDE DEF D
  <2> QED BY <1>8, <2>2 DEF Made, BandsOf
<1>10. ASSUME NEW p \in ext PROVE Holds(b, utype, w, r, n, p)
  <2>1. CASE p \in r.ext
    BY <1>5, <1>8, <2>1 DEF Holds, C, set, from
  <2>2. CASE p \notin r.ext
    <3>1. b.data[p] = IF p \in w.ext THEN old.data[p] ELSE set.nodataval
      BY <1>7, <1>8, <2>2
    <3> QED BY <2>2, <3>1 DEF Holds, set, old
  <2> QED BY <2>1, <2>2
<1>11. Renewed(LineMethod(utype, w, r, n), b, utype, w, r, n)
  BY <1>4, <1>9, <1>10 DEF Renewed, ext, set
<1> QED BY <1>11

\* Either way.
LEMMA UnitedRenews ==
  ASSUME NEW utype, NEW w, Sheet(utype, w), NEW r \in Tile, NEW n \in Nat \ {0},
         w # Null \/ r # Null
  PROVE  w.ext \cup r.ext # {} => \E b : Renewed(United(utype, w, r, n), b, utype, w, r, n)
<1>1. CASE HasBand(w, 1) /\ HasBand(r, n)
  <2>1. United(utype, w, r, n) = LineMethod(utype, w, r, n)
    BY <1>1 DEF United
  <2> QED BY <1>1, <2>1, LineMethodRenews
<1>2. CASE ~ (HasBand(w, 1) /\ HasBand(r, n))
  <2>1. United(utype, w, r, n) = PixelMethod(utype, w, r, n)
    BY <1>2 DEF United
  <2> QED BY <2>1, PixelMethodRenews
<1> QED BY <1>1, <1>2

-----------------------------------------------------------------------------
(* The values of the rasters that came.                                       *)

\* A value that is read is one the band's type holds, and not NODATA.
LEMMA ValueRead ==
  ASSUME NEW r \in Tile, NEW n \in Nat \ {0}, NEW p, ~ Arg(r, n, p).nodata
  PROVE  LET v == Arg(r, n, p).value
             b == r.bands[n]
         IN  /\ HasBand(r, n) /\ p \in r.ext /\ v \in Int /\ v > -2 * Large /\ Clamp(b.type, v) = v
             /\ b.hasnodata => v # b.nodataval
<1> DEFINE b == r.bands[n]
<1>1. HasBand(r, n) /\ p \in r.ext /\ Arg(r, n, p) = rt_band_get_pixel(b, p)
  BY DEF Arg
<1>2. IsBand(b, r.ext)
  BY <1>1, TileBands
<1> HIDE DEF b
<1>3. ~ b.isnodata
  BY <1>1 DEF rt_band_get_pixel
<1>4. Arg(r, n, p) = Reads(b, b.data[p])
  BY <1>1, <1>3, Zenon DEF rt_band_get_pixel, Reads
<1>5. Arg(r, n, p).value = b.data[p] /\ rt_band_clamped_value_is_nodata(b, b.data[p]) = 0
  <2> DEFINE x == rt_band_clamped_value_is_nodata(b, b.data[p])
  <2> DEFINE y == [value |-> b.data[p], nodata |-> (x # 0)]
  <2>0. Arg(r, n, p) = y
    BY <1>4, Zenon DEF Reads
  <2> HIDE DEF x
  <2>1. y.value = b.data[p] /\ y.nodata = (x # 0)
    BY Zenon
  <2>2. ~ (x # 0)
    BY <2>0, <2>1, Zenon
  <2> HIDE DEF y
  <2> QED BY <2>0, <2>1, <2>2 DEF x
<1>6. b.hasnodata => b.data[p] # b.nodataval
  BY <1>5 DEF rt_band_clamped_value_is_nodata
<1>7. b.data[p] \in Int /\ b.data[p] > -2 * Large /\ Clamp(b.type, b.data[p]) = b.data[p]
  BY <1>1, <1>2 DEF IsBand
<1> QED BY <1>1, <1>5, <1>6, <1>7 DEF b

\* The rasters with a value when one more has come.
LEMMA HavingAppend ==
  ASSUME NEW s \in Seq(Tile), NEW r \in Tile, NEW n \in Nat \ {0}, NEW p
  PROVE  LET t == Append(s, r)
             m == Len(s) + 1
         IN  /\ Len(t) = m /\ DOMAIN t = 1..m /\ t \in Seq(Tile)
             /\ Having(s, n, p) \subseteq 1..Len(s) /\ Len(s) \in Nat /\ m \notin Having(s, n, p)
             /\ Having(t, n, p) = Having(s, n, p) \cup (IF Arg(r, n, p).nodata THEN {} ELSE {m})
             /\ \A k \in Having(s, n, p) : ValueOf(t, n, p, k) = ValueOf(s, n, p, k)
             /\ ValueOf(t, n, p, m) = Arg(r, n, p).value
<1> DEFINE t == Append(s, r)
<1> DEFINE m == Len(s) + 1
<1>1. Len(s) \in Nat /\ DOMAIN s = 1..Len(s) /\ Len(t) = m /\ DOMAIN t = 1..m /\ t \in Seq(Tile)
  OBVIOUS
<1>2. t[m] = r /\ \A k \in 1..Len(s) : t[k] = s[k]
  BY <1>1
<1> HIDE DEF t
<1>3. Having(s, n, p) \subseteq 1..Len(s)
  BY <1>1 DEF Having
<1>4. Having(t, n, p) = Having(s, n, p) \cup (IF Arg(r, n, p).nodata THEN {} ELSE {m})
  <2>1. ASSUME NEW k \in 1..Len(s) PROVE k \in Having(t, n, p) <=> k \in Having(s, n, p)
    BY <1>1, <1>2 DEF Having
  <2>2. m \in Having(t, n, p) <=> ~ Arg(r, n, p).nodata
    BY <1>1, <1>2 DEF Having
  <2>3. Having(t, n, p) \subseteq 1..Len(s) \cup {m}
    BY <1>1 DEF Having
  <2> QED BY <1>3, <2>1, <2>2, <2>3
<1>5. /\ \A k \in Having(s, n, p) : ValueOf(t, n, p, k) = ValueOf(s, n, p, k)
      /\ ValueOf(t, n, p, m) = Arg(r, n, p).value
  BY <1>2, <1>3 DEF ValueOf
<1>6. m \notin Having(s, n, p)
  BY <1>1, <1>3
<1> QED BY <1>1, <1>3, <1>4, <1>5, <1>6 DEF t

\* Their number.
LEMMA HavingCounts ==
  ASSUME NEW s \in Seq(Tile), NEW r \in Tile, NEW n \in Nat \ {0}, NEW p
  PROVE  LET K == Having(s, n, p)
         IN  /\ IsFiniteSet(K) /\ Cardinality(K) \in Nat /\ Cardinality(K) <= Len(s) /\ (Cardinality(K) = 0 <=> K = {})
             /\ Cardinality(Having(Append(s, r), n, p)) =
                  Cardinality(K) + (IF Arg(r, n, p).nodata THEN 0 ELSE 1)
<1> DEFINE K == Having(s, n, p)
<1> DEFINE m == Len(s) + 1
<1>1. /\ K \subseteq 1..Len(s) /\ Len(s) \in Nat /\ m \notin K
      /\ Having(Append(s, r), n, p) = K \cup (IF Arg(r, n, p).nodata THEN {} ELSE {m})
  BY HavingAppend
<1> HIDE DEF K
<1>2. IsFiniteSet(1..Len(s)) /\ Cardinality(1..Len(s)) = Len(s)
  <2> DEFINE l == Len(s)
  <2>0. l \in Int /\ 1 \in Int
    BY <1>1
  <2> HIDE DEF l
  <2>1. IsFiniteSet(1..l) /\ Cardinality(1..l) = IF 1 > l THEN 0 ELSE l - 1 + 1
    BY <2>0, FS_Interval
  <2> USE DEF l
  <2> QED BY <1>1, <2>1
<1>3. IsFiniteSet(K) /\ Cardinality(K) <= Len(s)
  <2> DEFINE P == 1..Len(s)
  <2>1. K \subseteq P /\ IsFiniteSet(P) /\ Cardinality(P) = Len(s)
    BY <1>1, <1>2
  <2> HIDE DEF P
  <2>2. IsFiniteSet(K) /\ Cardinality(K) <= Cardinality(P)
    BY <2>1, FS_Subset
  <2> QED BY <2>1, <2>2
<1>4. Cardinality(K) \in Nat /\ (Cardinality(K) = 0 <=> K = {})
  BY <1>3, FS_CardinalityType, FS_EmptySet
<1>5. Cardinality(K \cup {m}) = Cardinality(K) + 1
  BY <1>1, <1>3, FS_AddElement
<1>6. Cardinality(Having(Append(s, r), n, p)) = Cardinality(K) + (IF Arg(r, n, p).nodata THEN 0 ELSE 1)
  <2>1. CASE Arg(r, n, p).nodata
    BY <1>1, <1>4, <2>1
  <2>2. CASE ~ Arg(r, n, p).nodata
    BY <1>1, <1>5, <2>2
  <2> QED BY <2>1, <2>2
<1> QED BY <1>3, <1>4, <1>6 DEF K

\* The sums are what their recursion says.
LEMMA SumsAre ==
  ASSUME NEW s \in Seq(Tile), NEW n \in Nat \ {0}, NEW p
  PROVE  /\ Sums(s, n, p) \in [0..Len(s) -> Int] /\ Sums(s, n, p)[0] = 0
         /\ \A k \in 1..Len(s) : Sums(s, n, p)[k] =
              Sums(s, n, p)[k - 1] + (IF k \in Having(s, n, p) THEN ValueOf(s, n, p, k) ELSE 0)
<1> DEFINE m == Len(s)
<1> DEFINE V(k) == IF k \in Having(s, n, p) THEN ValueOf(s, n, p, k) ELSE 0
<1> DEFINE X == Int
<1> DEFINE G == [x \in X \X (1..m) |-> x[1] + V(x[2])]
<1>1. m \in Nat
  OBVIOUS
<1>2. ASSUME NEW k \in 1..m PROVE V(k) \in Int
  <2>1. CASE k \in Having(s, n, p)
    <3>1. s[k] \in Tile /\ ~ Arg(s[k], n, p).nodata
      BY <2>1 DEF Having
    <3> QED BY <2>1, <3>1, ValueRead DEF ValueOf
  <2> QED BY <2>1
<1> DEFINE sum == CHOOSE f : f = [k \in 0..m |-> IF k = 0 THEN 0 ELSE f[k - 1] + V(k)]
<1>3. Sums(s, n, p) = sum
  BY Zenon DEF Sums
<1> HIDE DEF V, m
<1>4. PICK f \in [0..m -> X] : Iterates(f, m, 0, G)
  <2>1. G \in [X \X (1..m) -> X] /\ 0 \in X
    BY <1>2
  <2> HIDE DEF G, X
  <2> QED BY <1>1, <2>1, Recursion
<1>5. ASSUME NEW k \in 1..m PROVE f[k] = f[k - 1] + V(k)
  <2>1. k - 1 \in 0..m
    BY <1>1
  <2>2. f[k - 1] \in Int /\ f[k] = G[<<f[k - 1], k>>]
    BY <1>4, <2>1 DEF Iterates
  <2> QED BY <2>2
<1>6. f = [k \in 0..m |-> IF k = 0 THEN 0 ELSE f[k - 1] + V(k)]
  <2>1. ASSUME NEW k \in 0..m PROVE f[k] = IF k = 0 THEN 0 ELSE f[k - 1] + V(k)
    BY <1>1, <1>4, <1>5 DEF Iterates
  <2> QED BY <2>1
<1>7. sum = [k \in 0..m |-> IF k = 0 THEN 0 ELSE sum[k - 1] + V(k)]
  BY <1>6, Zenon
<1> HIDE DEF sum
<1> DEFINE S == {k \in 0..m : sum[k] \in Int}
<1>8. 0 \in S /\ sum[0] = 0
  BY <1>1, <1>7
<1>9. ASSUME NEW k \in 1..m PROVE sum[k] = sum[k - 1] + V(k)
  BY <1>1, <1>7
<1>10. 0..m \subseteq S
  <2>1. ASSUME NEW k \in 0..m, k < m, k \in S PROVE k + 1 \in S
    <3>1. k + 1 \in 1..m /\ (k + 1) - 1 = k
      BY <1>1, <2>1
    <3>2. sum[k + 1] = sum[k] + V(k + 1) /\ V(k + 1) \in Int
      BY <1>2, <1>9, <3>1
    <3> QED BY <2>1, <3>1, <3>2
  <2> HIDE DEF S
  <2> QED BY <1>1, <1>8, <2>1, UpTo
<1>11. sum \in [0..m -> Int]
  BY <1>7, <1>10
<1> QED BY <1>3, <1>8, <1>9, <1>11 DEF V, m

\* The sums when one more has come.
LEMMA SumsAppend ==
  ASSUME NEW s \in Seq(Tile), NEW r \in Tile, NEW n \in Nat \ {0}, NEW p
  PROVE  LET t == Append(s, r)
             old == Sums(s, n, p)
             new == Sums(t, n, p)
         IN  /\ \A k \in 0..Len(s) : new[k] = old[k] /\ old[k] \in Int
             /\ new[Len(t)] = old[Len(s)] + (IF Arg(r, n, p).nodata THEN 0 ELSE Arg(r, n, p).value)
<1> DEFINE t == Append(s, r)
<1> DEFINE m == Len(s)
<1> DEFINE old == Sums(s, n, p)
<1> DEFINE new == Sums(t, n, p)
<1>1. /\ Len(t) = m + 1 /\ t \in Seq(Tile) /\ Having(s, n, p) \subseteq 1..m /\ m \in Nat /\ m + 1 \notin Having(s, n, p)
      /\ Having(t, n, p) = Having(s, n, p) \cup (IF Arg(r, n, p).nodata THEN {} ELSE {m + 1})
      /\ \A k \in Having(s, n, p) : ValueOf(t, n, p, k) = ValueOf(s, n, p, k)
      /\ ValueOf(t, n, p, m + 1) = Arg(r, n, p).value
  BY HavingAppend
<1> HIDE DEF t
<1>2. /\ old \in [0..m -> Int] /\ old[0] = 0
      /\ \A k \in 1..m : old[k] = old[k - 1] + (IF k \in Having(s, n, p) THEN ValueOf(s, n, p, k) ELSE 0)
  BY SumsAre
<1>3. /\ new \in [0..m+1 -> Int] /\ new[0] = 0
      /\ \A k \in 1..m+1 : new[k] = new[k - 1] + (IF k \in Having(t, n, p) THEN ValueOf(t, n, p, k) ELSE 0)
  <2>1. /\ new \in [0..Len(t) -> Int] /\ new[0] = 0
        /\ \A k \in 1..Len(t) : new[k] = new[k - 1] + (IF k \in Having(t, n, p) THEN ValueOf(t, n, p, k) ELSE 0)
    BY <1>1, SumsAre
  <2> HIDE DEF new
  <2> QED BY <1>1, <2>1
<1> HIDE DEF old, new, m
<1> DEFINE S == {k \in 0..m : new[k] = old[k]}
<1>4. 0 \in S
  BY <1>1, <1>2, <1>3
<1>5. ASSUME NEW k \in 0..m, k < m, k \in S PROVE k + 1 \in S
  <2>1. k + 1 \in 1..m /\ k + 1 \in 1..m+1 /\ (k + 1) - 1 = k /\ k + 1 # m + 1
    BY <1>1, <1>5
  <2> DEFINE j == k + 1
  <2>2. j \in Having(t, n, p) <=> j \in Having(s, n, p)
    BY <1>1, <2>1
  <2>3. old[j] = old[k] + (IF j \in Having(s, n, p) THEN ValueOf(s, n, p, j) ELSE 0)
    BY <1>2, <2>1
  <2>4. new[j] = new[k] + (IF j \in Having(t, n, p) THEN ValueOf(t, n, p, j) ELSE 0)
    BY <1>3, <2>1
  <2>5. new[j] = old[j]
    BY <1>1, <1>5, <2>2, <2>3, <2>4
  <2> QED BY <2>1, <2>5
<1>6. 0..m \subseteq S
  <2> HIDE DEF S
  <2> QED BY <1>1, <1>4, <1>5, UpTo
<1>7. \A k \in 0..m : new[k] = old[k] /\ old[k] \in Int
  BY <1>2, <1>6
<1>8. new[m + 1] = old[m] + (IF Arg(r, n, p).nodata THEN 0 ELSE Arg(r, n, p).value)
  <2>1. m + 1 \in 1..m+1 /\ (m + 1) - 1 = m /\ m \in 0..m
    BY <1>1
  <2>2. new[m + 1] = new[m] + (IF m + 1 \in Having(t, n, p) THEN ValueOf(t, n, p, m + 1) ELSE 0)
    BY <1>3, <2>1
  <2>3. new[m] = old[m]
    BY <1>7, <2>1
  <2>4. m + 1 \in Having(t, n, p) <=> ~ Arg(r, n, p).nodata
    BY <1>1
  <2>5. CASE Arg(r, n, p).nodata
    BY <2>2, <2>3, <2>4, <2>5
  <2>6. CASE ~ Arg(r, n, p).nodata
    BY <1>1, <2>2, <2>3, <2>4, <2>6
  <2> QED BY <2>5, <2>6
<1> QED BY <1>1, <1>7, <1>8 DEF t, m, old, new

Chooser == {"FIRST", "LAST", "MIN", "MAX"}

\* v is what a union type chooses, or the sum.
Chosen(utype, s, n, p, v) ==
  LET K == Having(s, n, p) IN
  /\ utype = "FIRST" => \E k \in K : v = ValueOf(s, n, p, k) /\ \A j \in K : k <= j
  /\ utype = "LAST"  => \E k \in K : v = ValueOf(s, n, p, k) /\ \A j \in K : j <= k
  /\ utype = "MIN"   => (\E k \in K : v = ValueOf(s, n, p, k)) /\ \A j \in K : v <= ValueOf(s, n, p, j)
  /\ utype = "MAX"   => (\E k \in K : v = ValueOf(s, n, p, k)) /\ \A j \in K : ValueOf(s, n, p, j) <= v
  /\ utype = "SUM"   => v = Sums(s, n, p)[Len(s)]

\* Least and greatest elements are unique.
LEMMA Extremes ==
  /\ \A S, v : v \in S /\ S \subseteq Int /\ (\A y \in S : v <= y) => Min(S) = v
  /\ \A S, v : v \in S /\ S \subseteq Int /\ (\A y \in S : y <= v) => Max(S) = v
<1>1. ASSUME NEW S, NEW v \in S, S \subseteq Int, \A y \in S : v <= y PROVE Min(S) = v
  <2>1. \A x \in S : (\A y \in S : x <= y) => x = v
    BY <1>1
  <2> QED BY <1>1, <2>1, Zenon DEF Min
<1>2. ASSUME NEW S, NEW v \in S, S \subseteq Int, \A y \in S : y <= v PROVE Max(S) = v
  <2>1. (\A x \in S : (\A y \in S : x >= y) => x = v) /\ \A y \in S : v >= y
    BY <1>2
  <2> QED BY <1>2, <2>1, Zenon DEF Max
<1> QED BY <1>1, <1>2

\* Of two numbers.
LEMMA ExtremesOfTwo ==
  ASSUME NEW x \in Int, NEW y \in Int
  PROVE  /\ Min({x, y}) = IF x <= y THEN x ELSE y
         /\ Max({x, y}) = IF x <= y THEN y ELSE x
<1> DEFINE S == {x, y}
<1> DEFINE lo == IF x <= y THEN x ELSE y
<1> DEFINE hi == IF x <= y THEN y ELSE x
<1>1. S \subseteq Int /\ lo \in S /\ hi \in S /\ (\A z \in S : lo <= z) /\ \A z \in S : z <= hi
  OBVIOUS
<1> HIDE DEF S, lo, hi
<1>2. Min(S) = lo /\ Max(S) = hi
  BY <1>1, Extremes
<1> QED BY <1>2 DEF S, lo, hi

\* Values are numbers.
LEMMA ValuesAre ==
  ASSUME NEW s \in Seq(Tile), NEW n \in Nat \ {0}, NEW p
  PROVE  \A k \in Having(s, n, p) : ValueOf(s, n, p, k) \in Int
<1> SUFFICES ASSUME NEW k \in Having(s, n, p) PROVE ValueOf(s, n, p, k) \in Int
  OBVIOUS
<1>1. s[k] \in Tile /\ ~ Arg(s[k], n, p).nodata
  BY DEF Having
<1> QED BY <1>1, ValueRead DEF ValueOf

\* What is chosen is what the property says.
LEMMA ChosenIsSelected ==
  ASSUME NEW s \in Seq(Tile), NEW n \in Nat \ {0}, NEW p, NEW utype \in Chooser, NEW v,
         Chosen(utype, s, n, p, v)
  PROVE  Selected(utype, s, n, p) = v
<1> DEFINE K == Having(s, n, p)
<1> DEFINE V == ValuesOf(s, n, p)
<1>1. K \subseteq Int /\ V \subseteq Int
  <2>1. K \subseteq Int
    BY DEF Having
  <2> QED BY <2>1, ValuesAre DEF ValuesOf
<1>2. CASE utype = "FIRST"
  <2>1. PICK k \in K : v = ValueOf(s, n, p, k) /\ \A j \in K : k <= j
    BY <1>2 DEF Chosen
  <2> HIDE DEF K
  <2>2. Min(K) = k
    BY <1>1, <2>1, Extremes
  <2> QED BY <1>2, <2>1, <2>2 DEF Selected, K
<1>3. CASE utype = "LAST"
  <2>1. PICK k \in K : v = ValueOf(s, n, p, k) /\ \A j \in K : j <= k
    BY <1>3 DEF Chosen
  <2> HIDE DEF K
  <2>2. Max(K) = k
    BY <1>1, <2>1, Extremes
  <2> QED BY <1>3, <2>1, <2>2 DEF Selected, K
<1>4. CASE utype = "MIN"
  <2>1. v \in V /\ \A y \in V : v <= y
    BY <1>4 DEF Chosen, ValuesOf
  <2> HIDE DEF V
  <2>2. Min(V) = v
    BY <1>1, <2>1, Extremes
  <2> QED BY <1>4, <2>2 DEF Selected, V
<1>5. CASE utype = "MAX"
  <2>1. v \in V /\ \A y \in V : y <= v
    BY <1>5 DEF Chosen, ValuesOf
  <2> HIDE DEF V
  <2>2. Max(V) = v
    BY <1>1, <2>1, Extremes
  <2> QED BY <1>5, <2>2 DEF Selected, V
<1> QED BY <1>2, <1>3, <1>4, <1>5 DEF Chooser

\* What the callback makes of the value so far, v, and the one that comes, x.
Chooses(utype, v, x) == CASE utype = "FIRST" -> v
                          [] utype = "MIN"   -> Min({v, x})
                          [] utype = "MAX"   -> Max({v, x})
                          [] utype = "SUM"   -> v + x
                          [] OTHER           -> x

\* The first value, no value, and a value after others.
LEMMA ChosenAppend ==
  ASSUME NEW s \in Seq(Tile), NEW r \in Tile, NEW n \in Nat \ {0}, NEW p,
         NEW utype \in Chooser \cup {"SUM"}
  PROVE  LET t == Append(s, r)
             x == Arg(r, n, p)
         IN  /\ Having(s, n, p) = {} /\ ~ x.nodata => Chosen(utype, t, n, p, x.value)
             /\ x.nodata => \A v : Chosen(utype, s, n, p, v) => Chosen(utype, t, n, p, v)
             /\ ~ x.nodata => \A v \in Int : Chosen(utype, s, n, p, v) =>
                                Chosen(utype, t, n, p, Chooses(utype, v, x.value))
                                /\ Chooses(utype, v, x.value) \in Int
<1> DEFINE t == Append(s, r)
<1> DEFINE x == Arg(r, n, p)
<1> DEFINE m == Len(s) + 1
<1> DEFINE K == Having(s, n, p)
<1> DEFINE old == Sums(s, n, p)[Len(s)]
<1> DEFINE new == Sums(t, n, p)[Len(t)]
<1>1. /\ K \subseteq 1..Len(s) /\ Len(s) \in Nat /\ m \notin K
      /\ Having(t, n, p) = K \cup (IF x.nodata THEN {} ELSE {m})
      /\ \A k \in K : ValueOf(t, n, p, k) = ValueOf(s, n, p, k)
      /\ ValueOf(t, n, p, m) = x.value
  BY HavingAppend
<1>2. \A k \in K : k \in Int /\ k <= m /\ ~ (m <= k) /\ ValueOf(s, n, p, k) \in Int
  BY <1>1, ValuesAre
<1>3. ~ x.nodata => x.value \in Int
  BY ValueRead
<1>4. m \in Int /\ m <= m
  BY <1>1
<1>5. new = old + (IF x.nodata THEN 0 ELSE x.value) /\ old \in Int
  <2>1. Len(s) \in 0..Len(s)
    BY <1>1
  <2> QED BY <2>1, SumsAppend
<1>6. K = {} => old = 0
  <2> SUFFICES ASSUME K = {} PROVE old = 0
    OBVIOUS
  <2> DEFINE sum == Sums(s, n, p)
  <2> DEFINE S == {k \in 0..Len(s) : sum[k] = 0}
  <2>1. /\ sum \in [0..Len(s) -> Int] /\ sum[0] = 0
        /\ \A k \in 1..Len(s) : sum[k] = sum[k - 1] + (IF k \in K THEN ValueOf(s, n, p, k) ELSE 0)
    BY SumsAre
  <2> HIDE DEF sum
  <2>2. 0 \in S
    BY <1>1, <2>1
  <2>3. ASSUME NEW k \in 0..Len(s), k < Len(s), k \in S PROVE k + 1 \in S
    <3>1. k + 1 \in 1..Len(s) /\ (k + 1) - 1 = k /\ k + 1 \notin K
      BY <1>1, <2>3
    <3>2. sum[k + 1] = sum[k] + 0
      BY <2>1, <3>1
    <3> QED BY <2>3, <3>1, <3>2
  <2>4. 0..Len(s) \subseteq S
    <3> HIDE DEF S
    <3> QED BY <1>1, <2>2, <2>3, UpTo
  <2>5. Len(s) \in S
    BY <1>1, <2>4
  <2> QED BY <2>5 DEF sum
<1> HIDE DEF t, x, m, K, old, new
<1>7. ASSUME K = {}, ~ x.nodata PROVE Chosen(utype, t, n, p, x.value)
  <2>1. Having(t, n, p) = {m}
    BY <1>1, <1>7
  <2>2. x.value \in Int /\ new = x.value
    BY <1>3, <1>5, <1>6, <1>7
  <2> QED BY <1>1, <1>4, <2>1, <2>2 DEF Chosen, new
<1>8. ASSUME x.nodata, NEW v, Chosen(utype, s, n, p, v) PROVE Chosen(utype, t, n, p, v)
  <2>1. Having(t, n, p) = K /\ new = old
    BY <1>1, <1>5, <1>8
  <2> QED BY <1>1, <1>8, <2>1 DEF Chosen, new, old, K
<1>9. ASSUME ~ x.nodata, NEW v \in Int, Chosen(utype, s, n, p, v)
      PROVE  Chosen(utype, t, n, p, Chooses(utype, v, x.value)) /\ Chooses(utype, v, x.value) \in Int
  <2> DEFINE y == x.value
  <2>1. Having(t, n, p) = K \cup {m} /\ new = old + y /\ y \in Int
    BY <1>1, <1>3, <1>5, <1>9
  <2> HIDE DEF y
  <2>2. CASE utype = "FIRST"
    <3>1. Chooses(utype, v, y) = v
      BY <2>2 DEF Chooses
    <3>2. PICK k \in K : v = ValueOf(s, n, p, k) /\ \A j \in K : k <= j
      BY <1>9, <2>2 DEF Chosen, K
    <3>3. k \in Having(t, n, p) /\ v = ValueOf(t, n, p, k) /\ \A j \in Having(t, n, p) : k <= j
      BY <1>1, <1>2, <2>1, <3>2
    <3> QED BY <2>2, <3>1, <3>3 DEF Chosen, y
  <2>3. CASE utype = "LAST"
    <3>1. Chooses(utype, v, y) = y
      BY <2>3 DEF Chooses
    <3>2. m \in Having(t, n, p) /\ y = ValueOf(t, n, p, m) /\ \A j \in Having(t, n, p) : j <= m
      BY <1>1, <1>2, <1>4, <2>1 DEF y
    <3> QED BY <2>1, <2>3, <3>1, <3>2 DEF Chosen, y
  <2>4. CASE utype = "MIN"
    <3>1. Chooses(utype, v, y) = IF v <= y THEN v ELSE y
      BY <2>1, <2>4, ExtremesOfTwo DEF Chooses
    <3>2. PICK k \in K : v = ValueOf(s, n, p, k)
      BY <1>9, <2>4 DEF Chosen, K
    <3>3. \A j \in K : v <= ValueOf(s, n, p, j)
      BY <1>9, <2>4 DEF Chosen, K
    <3>4. y = ValueOf(t, n, p, m)
      BY <1>1 DEF y
    <3> DEFINE z == IF v <= y THEN v ELSE y
    <3>5. \E j \in K \cup {m} : z = ValueOf(t, n, p, j)
      BY <1>1, <3>2, <3>4
    <3>6. \A j \in K \cup {m} : z <= ValueOf(t, n, p, j)
      BY <1>1, <1>2, <2>1, <3>3, <3>4
    <3>7. Chosen(utype, t, n, p, z) /\ z \in Int
      BY <2>1, <2>4, <3>5, <3>6 DEF Chosen
    <3> QED BY <3>1, <3>7 DEF y
  <2>5. CASE utype = "MAX"
    <3>1. Chooses(utype, v, y) = IF v <= y THEN y ELSE v
      BY <2>1, <2>5, ExtremesOfTwo DEF Chooses
    <3>2. PICK k \in K : v = ValueOf(s, n, p, k)
      BY <1>9, <2>5 DEF Chosen, K
    <3>3. \A j \in K : ValueOf(s, n, p, j) <= v
      BY <1>9, <2>5 DEF Chosen, K
    <3>4. y = ValueOf(t, n, p, m)
      BY <1>1 DEF y
    <3> DEFINE z == IF v <= y THEN y ELSE v
    <3>5. \E j \in K \cup {m} : z = ValueOf(t, n, p, j)
      BY <1>1, <3>2, <3>4
    <3>6. \A j \in K \cup {m} : ValueOf(t, n, p, j) <= z
      BY <1>1, <1>2, <2>1, <3>3, <3>4
    <3>7. Chosen(utype, t, n, p, z) /\ z \in Int
      BY <2>1, <2>5, <3>5, <3>6 DEF Chosen
    <3> QED BY <3>1, <3>7 DEF y
  <2>6. CASE utype = "SUM"
    <3>1. Chooses(utype, v, y) = v + y
      BY <2>6 DEF Chooses
    <3>2. v = old /\ v + y = new /\ v + y \in Int
      BY <1>9, <2>1, <2>6 DEF Chosen, old
    <3> QED BY <2>6, <3>1, <3>2 DEF Chosen, new, y
  <2> QED BY <2>2, <2>3, <2>4, <2>5, <2>6 DEF Chooser, y
<1> QED BY <1>7, <1>8, <1>9 DEF t, x, K

\* A number a band with these settings stores as it is, and does not take for NODATA.
Holdable(set, v) == v \in Int /\ Clamp(set.type, v) = v /\ v # set.nodataval

\* It is read again.
LEMMA HoldableReads ==
  ASSUME NEW set, Settled(set), set.hasnodata, NEW v, Holdable(set, v)
  PROVE  Put(set, v) = v /\ Reads(set, v) = Is(v)
<1>1. rt_band_clamped_value_is_nodata(set, v) = 0
  BY DEF Holdable, Settled, rt_band_clamped_value_is_nodata
<1>2. rt_band_corrected_clamped_value(set, v) = v
  BY <1>1 DEF rt_band_corrected_clamped_value
<1>3. Put(set, v) = v
  BY <1>2 DEF Put, Holdable
<1>4. (rt_band_clamped_value_is_nodata(set, v) # 0) = FALSE
  BY <1>1
<1>5. Reads(set, v) = Is(v)
  BY <1>4, Zenon DEF Reads, Is
<1> QED BY <1>3, <1>5

\* The NODATA value is read as NODATA.
LEMMA NodataReads ==
  ASSUME NEW set, set.hasnodata
  PROVE  Reads(set, set.nodataval).nodata
<1> DEFINE x == rt_band_clamped_value_is_nodata(set, set.nodataval)
<1>1. x = 2
  BY DEF rt_band_clamped_value_is_nodata
<1> DEFINE y == [value |-> set.nodataval, nodata |-> (x # 0)]
<1>2. Reads(set, set.nodataval) = y
  BY Zenon DEF Reads
<1> HIDE DEF x
<1>3. y.nodata = (x # 0)
  BY Zenon
<1>4. x # 0
  BY <1>1
<1> HIDE DEF y
<1> QED BY <1>2, <1>3, <1>4, Zenon

\* A count is stored as it is as long as it is not too large, and never NODATA.
LEMMA CountHeld ==
  /\ \A v : Reads(CountSet, v) = Is(v)
  /\ \A k \in 0..Large : Put(CountSet, 2 * k) = 2 * k
<1>1. ASSUME NEW v PROVE rt_band_clamped_value_is_nodata(CountSet, v) = 0
  BY DEF rt_band_clamped_value_is_nodata, CountSet
<1>2. ASSUME NEW v PROVE Reads(CountSet, v) = Is(v)
  <2>1. (rt_band_clamped_value_is_nodata(CountSet, v) # 0) = FALSE
    BY <1>1
  <2> QED BY <2>1, Zenon DEF Reads, Is
<1>3. ASSUME NEW k \in 0..Large PROVE Put(CountSet, 2 * k) = 2 * k
  <2> DEFINE h == 2 * k
  <2>1. Large \in Nat
    BY UnionAssumption
  <2>2. rt_band_corrected_clamped_value(CountSet, h) = h
    BY <1>1 DEF rt_band_corrected_clamped_value
  <2>3. CountSet.type = PT_32BUI /\ ~ PT_32BUI.float
    BY DEF CountSet, PT_32BUI
  <2>4. Put(CountSet, h) = Clamp(PT_32BUI, h)
    BY <2>2, <2>3 DEF Put
  <2>5. Lowest(PT_32BUI) = 0 /\ Highest(PT_32BUI) = 2 * Large
    BY DEF Lowest, Highest, PT_32BUI
  <2>6. h >= 0 /\ ~ (h < 0) /\ ~ (h > 2 * Large) /\ h \div 2 = k
    BY <2>1
  <2>7. Clamp(PT_32BUI, h) = Truncated(h)
    <3> HIDE DEF h
    <3> QED BY <2>3, <2>5, <2>6 DEF Clamp
  <2>8. Truncated(h) = 2 * (h \div 2)
    <3> HIDE DEF h
    <3> QED BY <2>6 DEF Truncated
  <2> QED BY <2>4, <2>6, <2>7, <2>8
<1> QED BY <1>2, <1>3

\* What the callback gets of a working raster.
LEMMA WorkingArg ==
  ASSUME NEW w, NEW b, w.bands = <<b>>, NEW set, Made(b, set, w.ext), NEW p
  PROVE  /\ p \in w.ext => Arg(w, 1, p) = Reads(set, b.data[p])
         /\ p \notin w.ext => Arg(w, 1, p).nodata
<1>1. HasBand(w, 1) /\ w.bands[1] = b
  BY DEF HasBand
<1>2. b.type = set.type /\ b.hasnodata = set.hasnodata /\ b.nodataval = set.nodataval /\ DOMAIN b.data = w.ext
      /\ Flagged(b)
  BY DEF Made, BandsOf
<1>3. CASE p \in w.ext
  <2>1. Arg(w, 1, p) = rt_band_get_pixel(b, p)
    BY <1>1, <1>3 DEF Arg
  <2>2. rt_band_get_pixel(b, p) = Reads(b, b.data[p])
    BY <1>2, <1>3, FlaggedReads
  <2>3. rt_band_clamped_value_is_nodata(b, b.data[p]) = rt_band_clamped_value_is_nodata(set, b.data[p])
    BY <1>2 DEF rt_band_clamped_value_is_nodata
  <2>4. Reads(b, b.data[p]) = Reads(set, b.data[p])
    BY <2>3, Zenon DEF Reads
  <2> QED BY <1>3, <2>1, <2>2, <2>4
<1>4. CASE p \notin w.ext
  BY <1>4 DEF Arg
<1> QED BY <1>3, <1>4

\* What is read of a pixel before and after a raster came: nothing, the callback's value,
\* or the same.
Comes(set, utype, a, x, new) ==
  \/ a.nodata /\ x.nodata /\ (new.nodata \/ (set = CountSet /\ new = Is(0)))
  \/ new = Reads(set, Burned(set, Callback(utype, a, x)))
  \/ x.nodata /\ new = a

\* So it is for every pixel.
LEMMA PixelComes ==
  ASSUME NEW utype, NEW w, Sheet(utype, w), NEW r \in Tile, NEW n \in Nat \ {0},
         NEW new, NEW b, Renewed(new, b, utype, w, r, n), NEW p
  PROVE  Comes(Settings(utype, w, r, n), utype, Arg(w, 1, p), Arg(r, n, p), Arg(new, 1, p))
<1> DEFINE set == Settings(utype, w, r, n)
<1> DEFINE ext == Hull(w.ext \cup r.ext)
<1>0. /\ Settled(set) /\ (HasBand(w, 1) => set = SetOf(w.bands[1]))
      /\ (utype = "COUNT" => set = CountSet) /\ (utype # "COUNT" => set.hasnodata)
  BY SettingsSettled
<1>1. /\ new = [ext |-> ext, bands |-> <<b>>] /\ Made(b, set, ext)
      /\ \A q \in ext : Holds(b, utype, w, r, n, q)
  BY DEF Renewed
<1>2. p \in w.ext \cup r.ext => p \in ext
  <2>1. (w.ext = {} \/ Interval(w.ext)) /\ (r.ext = {} \/ Interval(r.ext))
    BY TileBands DEF Sheet
  <2> QED BY <2>1, HullInterval
<1>3. p \notin r.ext => Arg(r, n, p).nodata
  BY DEF Arg
<1>4. p \notin w.ext => Arg(w, 1, p).nodata
  BY DEF Arg
<1> HIDE DEF ext
<1>5. new.ext = ext /\ new.bands = <<b>>
  BY <1>1
<1>6. /\ p \in ext => Arg(new, 1, p) = Reads(set, b.data[p])
      /\ p \notin ext => Arg(new, 1, p).nodata
  BY <1>1, <1>5, WorkingArg
<1>7. CASE p \notin ext
  BY <1>2, <1>3, <1>4, <1>6, <1>7 DEF Comes
<1>8. CASE p \in ext
  <2>1. Arg(new, 1, p) = Reads(set, b.data[p]) /\ Holds(b, utype, w, r, n, p)
    BY <1>1, <1>6, <1>8
  <2>2. CASE b.data[p] = Burned(set, Callback(utype, Arg(w, 1, p), Arg(r, n, p)))
    BY <2>1, <2>2 DEF Comes
  <2>3. CASE /\ p \notin r.ext /\ HasBand(w, 1)
             /\ b.data[p] = IF p \in w.ext THEN w.bands[1].data[p] ELSE set.nodataval
    <3>1. PICK old : w.bands = <<old>> /\ Made(old, SetOf(old), w.ext)
      BY <2>3 DEF Sheet, HasBand
    <3>2. w.bands[1] = old /\ set = SetOf(old)
      BY <1>0, <2>3, <3>1
    <3>3. CASE p \in w.ext
      <4> HIDE DEF set
      <4>0. Made(old, set, w.ext)
        BY <3>1, <3>2
      <4>1. Arg(w, 1, p) = Reads(set, old.data[p])
        BY <3>1, <3>3, <4>0, WorkingArg
      <4> QED BY <1>3, <2>1, <2>3, <3>2, <3>3, <4>1 DEF Comes, set
    <3>4. CASE p \notin w.ext
      <4>1. b.data[p] = set.nodataval
        BY <2>3, <3>4
      <4>2. CASE utype # "COUNT"
        BY <1>0, <1>3, <1>4, <2>1, <2>3, <3>4, <4>1, <4>2, NodataReads DEF Comes
      <4>3. CASE utype = "COUNT"
        <5>1. set = CountSet /\ set.nodataval = 0
          BY <1>0, <4>3 DEF CountSet
        <5>2. Arg(new, 1, p) = Is(0)
          BY <2>1, <4>1, <5>1, CountHeld
        <5> QED BY <1>3, <1>4, <2>3, <3>4, <5>1, <5>2 DEF Comes
      <4> QED BY <4>2, <4>3
    <3> QED BY <3>3, <3>4
  <2> HIDE DEF set
  <2> QED BY <2>1, <2>2, <2>3 DEF Holds, set
<1> QED BY <1>7, <1>8

-----------------------------------------------------------------------------
(* What a working raster tells.                                               *)

\* What the callback gives for two pixels of a band that does not count.
LEMMA CallbackChooses ==
  ASSUME NEW utype \in Chooser \cup {"SUM"}, NEW a, NEW x
  PROVE  /\ a.nodata /\ x.nodata => Callback(utype, a, x) = NoData
         /\ ~ a.nodata /\ x.nodata => Callback(utype, a, x) = Is(a.value)
         /\ a.nodata /\ ~ x.nodata => Callback(utype, a, x) = Is(x.value)
         /\ ~ a.nodata /\ ~ x.nodata => Callback(utype, a, x) = Is(Chooses(utype, a.value, x.value))
<1>1. Callback(utype, a, x) = rtpg_union_callback(utype, a, x) /\ utype # "COUNT"
  BY DEF Callback, Chooser
<1>2. ~ a.nodata /\ ~ x.nodata => Callback(utype, a, x) = Is(Chooses(utype, a.value, x.value))
  BY <1>1, Zenon DEF rtpg_union_callback, Chooses
<1>3. a.nodata /\ x.nodata => Callback(utype, a, x) = NoData
  BY <1>1 DEF rtpg_union_callback
<1>4. ~ a.nodata /\ x.nodata => Callback(utype, a, x) = Is(a.value)
  BY <1>1 DEF rtpg_union_callback
<1>5. a.nodata /\ ~ x.nodata => Callback(utype, a, x) = Is(x.value)
  BY <1>1 DEF rtpg_union_callback
<1> QED BY <1>2, <1>3, <1>4, <1>5

\* The value so far at a pixel, for each union type of a working raster: what is defined.
Tells(utype, w, s, n, p) ==
  LET a == Arg(w, 1, p) IN
  /\ utype = "COUNT" => (IF a.nodata THEN 0 ELSE a.value) = 2 * Cardinality(Having(s, n, p))
  /\ utype # "COUNT" /\ Alike(s, n) =>
       IF Having(s, n, p) = {} THEN a.nodata
       ELSE (utype = "SUM" => SumsFit(w.bands[1], s, n, p)) =>
              \E v \in Int : a = Is(v) /\ Chosen(utype, s, n, p, v) /\ Holdable(SetOf(w.bands[1]), v)

\* A working raster without a band has met no raster with the band.
Bare(w, s, n) == w.bands = <<>> => \A k \in DOMAIN s : ~ HasBand(s[k], n)

\* The type of a working raster is that of a raster that came, or 64BF.
Typed(utype, w, s, n) ==
  w.bands # <<>> /\ utype # "COUNT" =>
    LET b == w.bands[1] IN
    \/ b.type = PT_64BF /\ b.nodataval = Lowest(PT_64BF)
    \/ \E k \in DOMAIN s : LET c == s[k].bands[n] IN
         HasBand(s[k], n) /\ b.type = c.type /\ (c.hasnodata => b.nodataval = c.nodataval)

\* A value that comes can be held, as long as the bands are alike.
LEMMA ComingHoldable ==
  ASSUME NEW utype, utype # "COUNT", NEW w, Sheet(utype, w), NEW s \in Seq(Tile), NEW r \in Tile,
         NEW n \in Nat \ {0}, Typed(utype, w, s, n), Alike(Append(s, r), n),
         NEW p, ~ Arg(r, n, p).nodata
  PROVE  Holdable(Settings(utype, w, r, n), Arg(r, n, p).value)
<1> DEFINE set == Settings(utype, w, r, n)
<1> DEFINE t == Append(s, r)
<1> DEFINE m == Len(s) + 1
<1> DEFINE v == Arg(r, n, p).value
<1> DEFINE c == r.bands[n]
<1>1. /\ HasBand(r, n) /\ v \in Int /\ v > -2 * Large /\ Clamp(c.type, v) = v
      /\ c.hasnodata => v # c.nodataval
  BY ValueRead
<1>2. t[m] = r /\ m \in DOMAIN t /\ \A k \in DOMAIN s : k \in DOMAIN t /\ t[k] = s[k]
  OBVIOUS
<1>3. c.hasnodata
  BY <1>1, <1>2 DEF Alike
<1>4. /\ HasBand(w, 1) => set = SetOf(w.bands[1])
      /\ ~ HasBand(w, 1) => set = [type |-> c.type, hasnodata |-> TRUE, nodataval |-> NodataOf(c)]
  BY <1>1, SettingsSettled
<1>5. CASE ~ HasBand(w, 1)
  <2>1. set.type = c.type /\ set.nodataval = c.nodataval
    BY <1>3, <1>4, <1>5 DEF NodataOf
  <2> QED BY <1>1, <1>3, <2>1 DEF Holdable
<1>6. CASE HasBand(w, 1)
  <2> DEFINE b == w.bands[1]
  <2>1. w.bands # <<>> /\ set.type = b.type /\ set.nodataval = b.nodataval
    BY <1>4, <1>6 DEF HasBand, SetOf
  <2>2. CASE b.type = PT_64BF /\ b.nodataval = Lowest(PT_64BF)
    <3>1. Clamp(PT_64BF, v) = v
      BY DEF Clamp, PT_64BF
    <3>2. Large \in Nat
      BY UnionAssumption
    <3>3. Lowest(PT_64BF) = 2 * (0 - Large)
      BY <3>2 DEF Lowest, PT_64BF
    <3>4. v # Lowest(PT_64BF)
      <4> HIDE DEF v
      <4> QED BY <1>1, <3>2, <3>3
    <3> QED BY <1>1, <2>1, <2>2, <3>1, <3>4 DEF Holdable
  <2>3. CASE ~(b.type = PT_64BF /\ b.nodataval = Lowest(PT_64BF))
    <3>1. PICK k \in DOMAIN s : /\ HasBand(s[k], n) /\ b.type = s[k].bands[n].type
                                /\ s[k].bands[n].hasnodata => b.nodataval = s[k].bands[n].nodataval
      BY <2>1, <2>3 DEF Typed
    <3>2. s[k].bands[n].type = c.type /\ s[k].bands[n].nodataval = c.nodataval /\ s[k].bands[n].hasnodata
      <4>0. HasBand(t[k], n) /\ HasBand(t[m], n) /\ k \in DOMAIN t /\ m \in DOMAIN t /\ t[k] = s[k] /\ t[m] = r
        <5>1. HasBand(s[k], n)
          BY <3>1
        <5>2. k \in DOMAIN t /\ t[k] = s[k]
          BY <1>2
        <5> HIDE DEF t, m
        <5> QED BY <1>1, <1>2, <5>1, <5>2
      <4> HIDE DEF t, m
      <4>1. /\ k \in {x \in DOMAIN t : HasBand(t[x], n)} /\ m \in {x \in DOMAIN t : HasBand(t[x], n)}
            /\ t[k] = s[k] /\ t[m] = r
        BY <4>0
      <4>2. Alike(t, n)
        BY DEF t
      <4> QED BY <4>1, <4>2 DEF Alike
    <3>3. set.type = c.type /\ set.nodataval = c.nodataval
      <4> HIDE DEF set
      <4>1. b.type = s[k].bands[n].type
        BY <3>1
      <4>2. b.nodataval = s[k].bands[n].nodataval
        BY <3>1, <3>2
      <4> QED BY <2>1, <3>2, <4>1, <4>2
    <3> HIDE DEF set, v, c
    <3>4. Holdable(set, v)
      BY <1>1, <1>3, <3>3 DEF Holdable
    <3> QED BY <3>4 DEF set, v
  <2> QED BY <2>2, <2>3
<1> QED BY <1>5, <1>6

\* A working raster that is renewed is one, and of a type that is known.
LEMMA SheetKept ==
  ASSUME NEW utype, NEW w, Sheet(utype, w), NEW s \in Seq(Tile), NEW r \in Tile, NEW n \in Nat \ {0},
         Typed(utype, w, s, n), w.ext \cup r.ext # {}, NEW new, NEW b, Renewed(new, b, utype, w, r, n)
  PROVE  /\ new.bands = <<b>> /\ new.bands # <<>> /\ new.bands[1] = b /\ SetOf(b) = Settings(utype, w, r, n)
         /\ new.ext = Hull(w.ext \cup r.ext) /\ Sheet(utype, new) /\ Typed(utype, new, Append(s, r), n)
<1> DEFINE set == Settings(utype, w, r, n)
<1> DEFINE ext == Hull(w.ext \cup r.ext)
<1>0. /\ Settled(set) /\ set = SetOf(set)
      /\ HasBand(w, 1) => set = SetOf(w.bands[1])
      /\ ~ HasBand(w, 1) /\ HasBand(r, n) /\ utype # "COUNT" =>
           set = [type |-> r.bands[n].type, hasnodata |-> TRUE, nodataval |-> NodataOf(r.bands[n])]
      /\ ~ HasBand(w, 1) /\ ~ HasBand(r, n) /\ utype # "COUNT" =>
           set = [type |-> PT_64BF, hasnodata |-> TRUE, nodataval |-> Lowest(PT_64BF)]
      /\ utype = "COUNT" => set = CountSet
      /\ utype # "COUNT" => set.hasnodata
  BY SettingsSettled
<1>1. Interval(ext) /\ ext # {}
  <2>1. (w.ext = {} \/ Interval(w.ext)) /\ (r.ext = {} \/ Interval(r.ext))
    BY TileBands DEF Sheet
  <2> QED BY <2>1, HullInterval
<1>2. new = [ext |-> ext, bands |-> <<b>>] /\ Made(b, set, ext)
  BY DEF Renewed
<1> HIDE DEF ext
<1>3. /\ new.ext = ext /\ new.bands = <<b>> /\ new.bands # <<>> /\ new.bands[1] = b
      /\ new = [ext |-> new.ext, bands |-> new.bands]
  BY <1>2
<1> HIDE DEF set
<1>4. b.type = set.type /\ b.hasnodata = set.hasnodata /\ b.nodataval = set.nodataval
  BY <1>2 DEF Made, BandsOf
<1>5. SetOf(b) = set
  BY <1>0, <1>4 DEF SetOf
<1>6. Sheet(utype, new)
  BY <1>0, <1>1, <1>2, <1>3, <1>4, <1>5 DEF Sheet
<1>7. Typed(utype, new, Append(s, r), n)
  <2> DEFINE t == Append(s, r)
  <2> SUFFICES ASSUME utype # "COUNT"
               PROVE \/ b.type = PT_64BF /\ b.nodataval = Lowest(PT_64BF)
                     \/ \E k \in DOMAIN t : /\ HasBand(t[k], n) /\ b.type = t[k].bands[n].type
                                            /\ t[k].bands[n].hasnodata => b.nodataval = t[k].bands[n].nodataval
    BY <1>3 DEF Typed
  <2>1. t[Len(s) + 1] = r /\ Len(s) + 1 \in DOMAIN t /\ \A k \in DOMAIN s : k \in DOMAIN t /\ t[k] = s[k]
    OBVIOUS
  <2> HIDE DEF t
  <2>2. CASE ~ HasBand(w, 1) /\ ~ HasBand(r, n)
    BY <1>0, <1>4, <2>2
  <2>3. CASE ~ HasBand(w, 1) /\ HasBand(r, n)
    <3>1. b.type = r.bands[n].type /\ b.nodataval = NodataOf(r.bands[n])
      BY <1>0, <1>4, <2>3
    <3> QED BY <2>1, <2>3, <3>1 DEF NodataOf
  <2>4. CASE HasBand(w, 1)
    <3>1. w.bands # <<>>
      BY <2>4 DEF HasBand
    <3>2. b.type = w.bands[1].type /\ b.nodataval = w.bands[1].nodataval
      BY <1>0, <1>4, <2>4 DEF SetOf
    <3>3. CASE w.bands[1].type = PT_64BF /\ w.bands[1].nodataval = Lowest(PT_64BF)
      BY <3>2, <3>3
    <3>4. CASE \E k \in DOMAIN s : /\ HasBand(s[k], n) /\ w.bands[1].type = s[k].bands[n].type
                                   /\ s[k].bands[n].hasnodata => w.bands[1].nodataval = s[k].bands[n].nodataval
      BY <2>1, <3>2, <3>4
    <3> QED BY <3>1, <3>3, <3>4 DEF Typed
  <2> QED BY <2>2, <2>3, <2>4
<1> QED BY <1>3, <1>5, <1>6, <1>7 DEF ext, set

\* What a counting raster tells when one more has come.
LEMMA CountKept ==
  ASSUME NEW s \in Seq(Tile), Len(s) < MaxTiles, NEW r \in Tile, NEW n \in Nat \ {0}, NEW p,
         NEW w, Tells("COUNT", w, s, n, p), NEW new,
         Comes(CountSet, "COUNT", Arg(w, 1, p), Arg(r, n, p), Arg(new, 1, p))
  PROVE  Tells("COUNT", new, Append(s, r), n, p)
<1> DEFINE a == Arg(w, 1, p)
<1> DEFINE x == Arg(r, n, p)
<1> DEFINE y == Arg(new, 1, p)
<1> DEFINE c == Cardinality(Having(s, n, p))
<1> DEFINE d == Cardinality(Having(Append(s, r), n, p))
<1>1. c \in Nat /\ c <= Len(s) /\ d = c + (IF x.nodata THEN 0 ELSE 1)
  BY HavingCounts
<1>2. (IF a.nodata THEN 0 ELSE a.value) = 2 * c
  BY DEF Tells
<1>3. Len(s) \in Nat /\ MaxTiles \in Nat /\ Large \in Nat /\ MaxTiles <= Large
  BY UnionAssumption
<1>4. d \in 0..Large
  BY <1>1, <1>3
<1>5. Comes(CountSet, "COUNT", a, x, y)
  OBVIOUS
<1> SUFFICES (IF y.nodata THEN 0 ELSE y.value) = 2 * d
  BY DEF Tells
<1> HIDE DEF a, x, y, c, d
<1>6. CASE a.nodata /\ x.nodata /\ (y.nodata \/ y = Is(0))
  <2>1. c = 0 /\ d = 0
    BY <1>1, <1>2, <1>6
  <2>2. Is(0).value = 0
    BY DEF Is
  <2> QED BY <1>6, <2>1, <2>2
<1>7. CASE y = Reads(CountSet, Burned(CountSet, Callback("COUNT", a, x)))
  <2>1. Callback("COUNT", a, x) = Is((IF a.nodata THEN 0 ELSE a.value) + (IF x.nodata THEN 0 ELSE 2))
    BY DEF Callback, rtpg_union_callback
  <2>2. 2 * c + (IF x.nodata THEN 0 ELSE 2) = 2 * d
    BY <1>1
  <2>3. Callback("COUNT", a, x) = Is(2 * d)
    BY <1>2, <2>1, <2>2
  <2>4. Burned(CountSet, Is(2 * d)) = 2 * d
    BY <1>4, CountHeld DEF Burned, Is
  <2>5. y = Is(2 * d)
    BY <1>7, <2>3, <2>4, CountHeld
  <2> QED BY <2>5 DEF Is
<1>8. CASE x.nodata /\ y = a
  BY <1>1, <1>2, <1>8
<1> QED BY <1>5, <1>6, <1>7, <1>8 DEF Comes

\* The rasters that came before are alike if all are, and sums on the way fit if all do.
LEMMA PrefixAlike ==
  ASSUME NEW s \in Seq(Tile), NEW r \in Tile, NEW n \in Nat \ {0}
  PROVE  /\ Alike(Append(s, r), n) => Alike(s, n)
         /\ \A b, c, p : SumsFit(b, Append(s, r), n, p) /\ b.type = c.type /\ b.nodataval = c.nodataval
                       => SumsFit(c, s, n, p)
<1> DEFINE t == Append(s, r)
<1>1. \A k \in DOMAIN s : k \in DOMAIN t /\ t[k] = s[k]
  OBVIOUS
<1>2. Alike(t, n) => Alike(s, n)
  <2> HIDE DEF t
  <2> SUFFICES ASSUME Alike(t, n), NEW k \in DOMAIN s, HasBand(s[k], n), NEW m \in DOMAIN s, HasBand(s[m], n)
               PROVE  LET b == s[k].bands[n]
                          c == s[m].bands[n]
                      IN b.hasnodata /\ b.type = c.type /\ b.nodataval = c.nodataval
    BY DEF Alike
  <2>1. k \in {x \in DOMAIN t : HasBand(t[x], n)} /\ m \in {x \in DOMAIN t : HasBand(t[x], n)}
        /\ t[k] = s[k] /\ t[m] = s[m]
    BY <1>1
  <2> QED BY <2>1 DEF Alike
<1>3. ASSUME NEW b, NEW c, NEW p, SumsFit(b, t, n, p), b.type = c.type, b.nodataval = c.nodataval
      PROVE  SumsFit(c, s, n, p)
  <2> SUFFICES ASSUME NEW k \in Having(s, n, p)
               PROVE  Clamp(c.type, Sums(s, n, p)[k]) = Sums(s, n, p)[k] /\ Sums(s, n, p)[k] # c.nodataval
    BY DEF SumsFit
  <2>1. k \in Having(t, n, p) /\ k \in 0..Len(s)
    BY HavingAppend
  <2>2. Sums(t, n, p)[k] = Sums(s, n, p)[k]
    BY <2>1, SumsAppend
  <2> HIDE DEF t
  <2>3. Clamp(b.type, Sums(t, n, p)[k]) = Sums(t, n, p)[k] /\ Sums(t, n, p)[k] # b.nodataval
    BY <1>3, <2>1 DEF SumsFit
  <2> QED BY <1>3, <2>2, <2>3
<1> QED BY <1>2, <1>3

\* What is chosen is held: one of the values, or a sum that fits.
LEMMA ChosenHeld ==
  ASSUME NEW utype \in Chooser \cup {"SUM"}, NEW set, NEW v \in Int, NEW x \in Int,
         Holdable(set, v), Holdable(set, x), utype = "SUM" => Holdable(set, v + x)
  PROVE  Holdable(set, Chooses(utype, v, x))
<1>1. Chooses(utype, v, x) \in {v, x} \/ (utype = "SUM" /\ Chooses(utype, v, x) = v + x)
  BY ExtremesOfTwo DEF Chooses, Chooser
<1> QED BY <1>1

\* What any other working raster tells when one more has come.
LEMMA ValueKept ==
  ASSUME NEW utype \in Chooser \cup {"SUM"}, NEW s \in Seq(Tile), NEW r \in Tile, NEW n \in Nat \ {0},
         NEW p, NEW w, Sheet(utype, w), Typed(utype, w, s, n), Bare(w, s, n), Tells(utype, w, s, n, p),
         NEW new, NEW b, new.bands[1] = b, SetOf(b) = Settings(utype, w, r, n),
         Comes(Settings(utype, w, r, n), utype, Arg(w, 1, p), Arg(r, n, p), Arg(new, 1, p))
  PROVE  Tells(utype, new, Append(s, r), n, p)
<1> DEFINE set == Settings(utype, w, r, n)
<1> DEFINE a == Arg(w, 1, p)
<1> DEFINE x == Arg(r, n, p)
<1> DEFINE y == Arg(new, 1, p)
<1> DEFINE t == Append(s, r)
<1>0. utype # "COUNT"
  BY DEF Chooser
<1> DEFINE Defined == Having(t, n, p) # {} /\ (utype = "SUM" => SumsFit(b, t, n, p))
<1> SUFFICES ASSUME Alike(t, n)
             PROVE  /\ Having(t, n, p) = {} => y.nodata
                    /\ Defined => \E v \in Int : y = Is(v) /\ Chosen(utype, t, n, p, v) /\ Holdable(set, v)
  BY <1>0 DEF Tells
<1>1. Settled(set) /\ set.hasnodata /\ (HasBand(w, 1) => set = SetOf(w.bands[1]))
  BY <1>0, SettingsSettled
<1>2. ~ x.nodata => Holdable(set, x.value) /\ HasBand(r, n)
  BY <1>0, ComingHoldable, ValueRead
<1>3. Alike(s, n)
  BY PrefixAlike
<1>4. /\ Having(t, n, p) = Having(s, n, p) \cup (IF x.nodata THEN {} ELSE {Len(s) + 1})
      /\ Having(s, n, p) \subseteq 1..Len(s)
  BY HavingAppend
<1>5. Comes(set, utype, a, x, y)
  OBVIOUS
<1>6. /\ a.nodata /\ x.nodata => Callback(utype, a, x) = NoData
      /\ ~ a.nodata /\ x.nodata => Callback(utype, a, x) = Is(a.value)
      /\ a.nodata /\ ~ x.nodata => Callback(utype, a, x) = Is(x.value)
      /\ ~ a.nodata /\ ~ x.nodata => Callback(utype, a, x) = Is(Chooses(utype, a.value, x.value))
  <2> HIDE DEF a, x
  <2> QED BY CallbackChooses
<1>7. ASSUME NEW v, Holdable(set, v) PROVE Reads(set, Burned(set, Is(v))) = Is(v)
  <2>1. Put(set, v) = v /\ Reads(set, v) = Is(v)
    BY <1>1, <1>7, HoldableReads
  <2>2. Burned(set, Is(v)) = Put(set, v)
    BY DEF Burned, Is
  <2> QED BY <2>1, <2>2
<1>8. Reads(set, Burned(set, NoData)).nodata
  <2>1. Burned(set, NoData) = set.nodataval
    BY <1>1 DEF Burned, NoData
  <2> QED BY <1>1, <2>1, NodataReads
<1>9. set # CountSet
  BY <1>1 DEF CountSet
<1>10. CASE Having(s, n, p) = {}
  <2>1. a.nodata
    BY <1>0, <1>3, <1>10 DEF Tells
  <2>2. CASE x.nodata
    <3>1. y.nodata
      <4>1. Callback(utype, a, x) = NoData
        BY <1>6, <2>1, <2>2
      <4> HIDE DEF set, a, x, y
      <4> QED BY <1>5, <1>8, <1>9, <2>1, <4>1 DEF Comes
    <3> QED BY <1>4, <1>10, <2>2, <3>1
  <2>3. CASE ~ x.nodata
    <3>1. y = Is(x.value)
      <4>1. Callback(utype, a, x) = Is(x.value)
        BY <1>6, <2>1, <2>3
      <4>2. Reads(set, Burned(set, Is(x.value))) = Is(x.value)
        BY <1>2, <1>7, <2>3
      <4> HIDE DEF set, a, x, y
      <4> QED BY <1>5, <2>3, <4>1, <4>2 DEF Comes
    <3>2. Chosen(utype, t, n, p, x.value) /\ Holdable(set, x.value) /\ x.value \in Int
      BY <1>2, <1>10, <2>3, ChosenAppend DEF Holdable
    <3>3. Having(t, n, p) # {}
      BY <1>4, <2>3
    <3> HIDE DEF set, x, y, t
    <3> QED BY <3>1, <3>2, <3>3
  <2> QED BY <2>2, <2>3
<1>11. CASE Having(s, n, p) # {}
  <2> SUFFICES ASSUME Defined
               PROVE  \E v \in Int : y = Is(v) /\ Chosen(utype, t, n, p, v) /\ Holdable(set, v)
    BY <1>4, <1>11
  <2>1. HasBand(w, 1)
    <3>1. w.bands = <<>> \/ \E old : w.bands = <<old>>
      BY DEF Sheet
    <3>2. PICK k \in DOMAIN s : ~ Arg(s[k], n, p).nodata
      BY <1>11 DEF Having
    <3>3. HasBand(s[k], n)
      BY <3>2 DEF Arg
    <3> QED BY <3>1, <3>3 DEF Bare, HasBand
  <2>2. set = SetOf(w.bands[1])
    BY <1>1, <2>1
  <2>3. utype = "SUM" => SumsFit(w.bands[1], s, n, p)
    <3>1. b.type = w.bands[1].type /\ b.nodataval = w.bands[1].nodataval
      BY <2>2 DEF SetOf
    <3> QED BY <3>1, PrefixAlike
  <2>4. PICK v \in Int : a = Is(v) /\ Chosen(utype, s, n, p, v) /\ Holdable(set, v)
    BY <1>0, <1>3, <1>11, <2>2, <2>3 DEF Tells
  <2>5. ~ a.nodata /\ a.value = v
    <3> HIDE DEF a
    <3> QED BY <2>4 DEF Is
  <2>6. CASE x.nodata
    <3>1. y = Is(v)
      <4>1. Callback(utype, a, x) = Is(v)
        BY <1>6, <2>5, <2>6
      <4>2. Reads(set, Burned(set, Is(v))) = Is(v)
        BY <1>7, <2>4
      <4> HIDE DEF set, a, x, y
      <4> QED BY <1>5, <2>4, <2>5, <4>1, <4>2 DEF Comes
    <3>2. Chosen(utype, t, n, p, v)
      BY <2>4, <2>6, ChosenAppend
    <3> QED BY <2>4, <3>1, <3>2
  <2>7. CASE ~ x.nodata
    <3> DEFINE u == Chooses(utype, v, x.value)
    <3>1. Chosen(utype, t, n, p, u) /\ u \in Int
      BY <2>4, <2>7, ChosenAppend
    <3>2. Holdable(set, u)
      <4>1. utype = "SUM" => Holdable(set, v + x.value)
        <5> SUFFICES ASSUME utype = "SUM" PROVE Holdable(set, v + x.value)
          OBVIOUS
        <5>1. u = v + x.value
          BY DEF Chooses
        <5>2. v + x.value = Sums(t, n, p)[Len(t)]
          BY <3>1, <5>1 DEF Chosen
        <5>3. Len(t) \in Having(t, n, p)
          BY <1>4, <2>7
        <5>4. SumsFit(b, t, n, p) /\ b.type = set.type /\ b.nodataval = set.nodataval
          BY DEF SetOf
        <5> QED BY <3>1, <5>1, <5>2, <5>3, <5>4 DEF SumsFit, Holdable
      <4>2. Holdable(set, x.value) /\ x.value \in Int
        BY <1>2, <2>7 DEF Holdable
      <4> HIDE DEF set
      <4> QED BY <2>4, <4>1, <4>2, ChosenHeld
    <3>3. y = Is(u)
      <4>1. Callback(utype, a, x) = Is(u)
        BY <1>6, <2>5, <2>7
      <4>2. Reads(set, Burned(set, Is(u))) = Is(u)
        BY <1>7, <3>2
      <4> HIDE DEF set, a, x, y, u
      <4> QED BY <1>5, <2>7, <4>1, <4>2 DEF Comes
    <3> QED BY <3>1, <3>2, <3>3
  <2> QED BY <2>6, <2>7
<1> QED BY <1>10, <1>11

\* What a working raster keeps of the rasters that came.
Keeps(utype, w, s, n) ==
  Sheet(utype, w) /\ Bare(w, s, n) /\ Typed(utype, w, s, n) /\ \A p : Tells(utype, w, s, n, p)

\* It has the extent of the raster that came, too, and a band.
Grown(new, w, r) ==
  /\ new.ext = IF w.ext \cup r.ext = {} THEN {} ELSE Hull(w.ext \cup r.ext)
  /\ new.ext # {} => new.bands # <<>>

\* A working raster keeps what it keeps when one more has come.
LEMMA UnitedKeeps ==
  ASSUME NEW utype \in Chooser \cup {"SUM", "COUNT"}, NEW s \in Seq(Tile), Len(s) < MaxTiles,
         NEW r \in Tile, NEW n \in Nat \ {0}, NEW w, Keeps(utype, w, s, n)
  PROVE  LET new == United(utype, w, r, n)
         IN  Keeps(utype, new, Append(s, r), n) /\ Grown(new, w, r)
<1> DEFINE new == United(utype, w, r, n)
<1> DEFINE t == Append(s, r)
<1>0. Sheet(utype, w) /\ Bare(w, s, n) /\ Typed(utype, w, s, n) /\ \A p : Tells(utype, w, s, n, p)
  BY DEF Keeps
<1>1. r = Null <=> r.ext = {}
  BY TileBands
<1>2. w = Null <=> w.ext = {}
  BY <1>0 DEF Sheet, Null
<1>3. CASE w.ext \cup r.ext = {}
  <2>1. w = Null /\ r = Null /\ new = Null
    BY <1>1, <1>2, <1>3 DEF United
  <2>2. Null.bands = <<>> /\ Null.ext = {}
    BY DEF Null
  <2>3. ~ HasBand(r, n)
    BY <2>1, TileBands
  <2>4. \A k \in DOMAIN t : ~ HasBand(t[k], n)
    <3> SUFFICES ASSUME NEW k \in DOMAIN t PROVE ~ HasBand(t[k], n)
      OBVIOUS
    <3>1. t[k] = r \/ (k \in DOMAIN s /\ t[k] = s[k])
      OBVIOUS
    <3> HIDE DEF t
    <3> QED BY <1>0, <2>1, <2>2, <2>3, <3>1 DEF Bare
  <2>5. Bare(Null, t, n) /\ Typed(utype, Null, t, n) /\ Sheet(utype, Null)
    BY <1>0, <2>1, <2>2, <2>4 DEF Bare, Typed
  <2>6. ASSUME NEW p PROVE Tells(utype, Null, t, n, p)
    <3>1. Arg(Null, 1, p).nodata
      BY <2>2 DEF Arg
    <3>2. Having(t, n, p) = {}
      <4> HIDE DEF t
      <4> QED BY <2>4 DEF Having, Arg
    <3>3. Cardinality(Having(t, n, p)) = 0
      BY <3>2, FS_EmptySet
    <3> HIDE DEF t
    <3> QED BY <3>1, <3>2, <3>3 DEF Tells
  <2> HIDE DEF new, t
  <2> QED BY <1>3, <2>1, <2>2, <2>5, <2>6 DEF Keeps, Grown, new, t
<1>4. CASE w.ext \cup r.ext # {}
  <2>1. w # Null \/ r # Null
    BY <1>1, <1>2, <1>4
  <2>2. PICK b : Renewed(new, b, utype, w, r, n)
    BY <1>0, <1>4, <2>1, UnitedRenews
  <2>3. /\ new.bands = <<b>> /\ new.bands # <<>> /\ new.bands[1] = b /\ SetOf(b) = Settings(utype, w, r, n)
        /\ new.ext = Hull(w.ext \cup r.ext) /\ Sheet(utype, new) /\ Typed(utype, new, t, n)
    <3> HIDE DEF new
    <3> QED BY <1>0, <1>4, <2>2, SheetKept
  <2>4. Bare(new, t, n)
    <3> HIDE DEF new, t
    <3> QED BY <2>3 DEF Bare
  <2>5. ASSUME NEW p PROVE Tells(utype, new, t, n, p)
    <3> HIDE DEF new
    <3>1. Comes(Settings(utype, w, r, n), utype, Arg(w, 1, p), Arg(r, n, p), Arg(new, 1, p))
      BY <1>0, <2>2, PixelComes
    <3>2. Tells(utype, w, s, n, p)
      BY <1>0
    <3>3. CASE utype = "COUNT"
      <4>1. Settings(utype, w, r, n) = CountSet
        BY <1>0, <3>3, SettingsSettled
      <4> QED BY <3>1, <3>2, <3>3, <4>1, CountKept
    <3>4. CASE utype # "COUNT"
      <4>1. utype \in Chooser \cup {"SUM"}
        BY <3>4
      <4> QED BY <1>0, <2>3, <3>1, <3>2, <4>1, ValueKept
    <3> QED BY <3>3, <3>4
  <2> HIDE DEF new, t
  <2> QED BY <1>4, <2>3, <2>4, <2>5 DEF Keeps, Grown, new, t
<1> QED BY <1>3, <1>4

-----------------------------------------------------------------------------
(* The bands of the state.                                                    *)

\* A working raster that has met no raster with the band keeps what there is: nothing.
LEMMA BareKeeps ==
  ASSUME NEW utype, NEW w, w = [ext |-> w.ext, bands |-> w.bands], w.bands = <<>>, w.ext = {} \/ Interval(w.ext),
         NEW s, NEW n, \A k \in DOMAIN s : ~ HasBand(s[k], n)
  PROVE  Keeps(utype, w, s, n)
<1>1. Sheet(utype, w) /\ Bare(w, s, n) /\ Typed(utype, w, s, n)
  BY DEF Sheet, Bare, Typed
<1>2. ASSUME NEW p PROVE Tells(utype, w, s, n, p)
  <2>1. Arg(w, 1, p).nodata
    BY DEF Arg, HasBand
  <2>2. Having(s, n, p) = {}
    BY DEF Having, Arg
  <2>3. Cardinality(Having(s, n, p)) = 0
    BY <2>2, FS_EmptySet
  <2> QED BY <2>1, <2>2, <2>3 DEF Tells
<1> QED BY <1>1, <1>2 DEF Keeps

\* A band of the result, and all of them.
BandTells(ba, s) ==
  /\ ba = [uniontype |-> ba.uniontype, nband |-> ba.nband, raster |-> ba.raster]
  /\ ba.uniontype \in UnionType /\ ba.nband \in Nat \ {0}
  /\ ba.raster = [j \in 1..Working(ba.uniontype) |-> ba.raster[j]]
  /\ \A j \in 1..Working(ba.uniontype) : /\ Keeps(Pass(ba.uniontype, j), ba.raster[j], s, ba.nband)
                                         /\ ba.raster[j].ext = ba.raster[1].ext

ArgsTell(args, s) == List(args) /\ \A i \in DOMAIN args : BandTells(args[i], s)

\* The bands that are not named are numbered, and there is one for each that any raster had.
Numbered(args, s) ==
  /\ call.form \in {"all", "text"} => /\ \A i \in DOMAIN args : args[i].nband = i
                                      /\ \A k \in DOMAIN s : Len(s[k].bands) <= Len(args)
  /\ call.form = "args" => args # <<>> \/ s = <<>> \/ call.args = <<>>

\* A band that is made.
LEMMA NewBandTells ==
  ASSUME NEW n \in Nat \ {0}, NEW uniontype \in UnionType, NEW w, w = [ext |-> w.ext, bands |-> w.bands],
         w.bands = <<>>, w.ext = {} \/ Interval(w.ext), NEW s, \A k \in DOMAIN s : ~ HasBand(s[k], n)
  PROVE  BandTells(NewBand(n, uniontype, w), s) /\ NewBand(n, uniontype, w).nband = n
<1> DEFINE ba == NewBand(n, uniontype, w)
<1>1. ba.uniontype = uniontype /\ ba.nband = n /\ ba.raster = [j \in 1..Working(uniontype) |-> w]
      /\ ba = [uniontype |-> ba.uniontype, nband |-> ba.nband, raster |-> ba.raster]
  BY DEF NewBand
<1> HIDE DEF ba
<1>2. ba.raster = [j \in 1..Working(uniontype) |-> ba.raster[j]]
  BY <1>1
<1>3. 1 \in 1..Working(uniontype)
  BY DEF Working
<1>4. ASSUME NEW j \in 1..Working(uniontype)
      PROVE  Keeps(Pass(uniontype, j), ba.raster[j], s, n) /\ ba.raster[j].ext = ba.raster[1].ext
  BY <1>1, <1>3, BareKeeps
<1> QED BY <1>1, <1>2, <1>4 DEF BandTells, ba

\* rtpg_union_noarg: bands are added, up to n.
LEMMA NewBandsTell ==
  ASSUME NEW s \in Seq(Tile), NEW args, ArgsTell(args, s), NEW n \in Nat, NEW uniontype \in UnionType,
         \A i \in DOMAIN args : args[i].nband = i, \A k \in DOMAIN s : Len(s[k].bands) <= Len(args)
  PROVE  LET new == NewBands(args, n, uniontype)
         IN  /\ ArgsTell(new, s) /\ \A i \in DOMAIN new : new[i].nband = i
             /\ Len(new) \in Nat /\ n <= Len(new) /\ Len(args) <= Len(new)
<1> DEFINE new == NewBands(args, n, uniontype)
<1> DEFINE r == IF args = <<>> THEN Null ELSE [args[1].raster[1] EXCEPT !.bands = <<>>]
<1>0. Len(args) \in Nat /\ DOMAIN args = 1..Len(args) /\ (args # <<>> <=> 1 \in DOMAIN args) /\ List(args)
  BY Lists DEF ArgsTell
<1>1. r = [ext |-> r.ext, bands |-> r.bands] /\ r.bands = <<>> /\ (r.ext = {} \/ Interval(r.ext))
  <2>1. CASE args = <<>>
    BY <2>1 DEF Null
  <2>2. CASE args # <<>>
    <3> DEFINE w == args[1].raster[1]
    <3>1. w = [ext |-> w.ext, bands |-> w.bands] /\ (w.ext = {} \/ Interval(w.ext))
      <4>1. BandTells(args[1], s)
        BY <1>0, <2>2 DEF ArgsTell
      <4>2. 1 \in 1..Working(args[1].uniontype)
        BY DEF Working
      <4> QED BY <4>1, <4>2 DEF BandTells, Keeps, Sheet
    <3>2. r = [w EXCEPT !.bands = <<>>]
      BY <2>2
    <3> HIDE DEF w, r
    <3>3. r = [ext |-> w.ext, bands |-> <<>>]
      BY <3>1, <3>2
    <3> QED BY <3>1, <3>3
  <2> QED BY <2>1, <2>2
<1>2. CASE n <= Len(args)
  BY <1>0, <1>2 DEF NewBands
<1>3. CASE n > Len(args)
  <2>1. new = [i \in 1..n |-> IF i <= Len(args) THEN args[i] ELSE NewBand(i, uniontype, r)]
    BY <1>0, <1>3 DEF NewBands
  <2> HIDE DEF new, r
  <2>2. new = [i \in 1..n |-> new[i]]
    BY <2>1
  <2>3. List(new) /\ DOMAIN new = 1..n /\ Len(new) = n
    BY <1>0, <1>3, <2>2, Lists
  <2>4. ASSUME NEW i \in 1..n PROVE BandTells(new[i], s) /\ new[i].nband = i
    <3>1. CASE i <= Len(args)
      BY <1>0, <2>1, <3>1 DEF ArgsTell
    <3>2. CASE i > Len(args)
      <4>1. ASSUME NEW k \in DOMAIN s PROVE ~ HasBand(s[k], i)
        <5>1. s[k] \in Tile
          OBVIOUS
        <5>2. Len(s[k].bands) \in Nat /\ Len(s[k].bands) <= Len(args)
          BY <5>1, UnionAssumption DEF List
        <5> QED BY <1>0, <3>2, <5>2 DEF HasBand
      <4>2. new[i] = NewBand(i, uniontype, r) /\ i \in Nat \ {0}
        BY <1>0, <2>1, <3>2
      <4> QED BY <1>1, <4>1, <4>2, NewBandTells
    <3> QED BY <1>0, <3>1, <3>2
  <2> QED BY <1>0, <1>3, <2>3, <2>4 DEF ArgsTell, new
<1> QED BY <1>0, <1>2, <1>3

\* One of the raster's bands or one band.
LEMMA MaxWithOne == \A n \in Nat : Max({n, 1}) \in Nat /\ n <= Max({n, 1})
<1> SUFFICES ASSUME NEW n \in Nat PROVE Max({n, 1}) \in Nat /\ n <= Max({n, 1})
  OBVIOUS
<1>1. Max({n, 1}) = IF n <= 1 THEN 1 ELSE n
  BY ExtremesOfTwo
<1> QED BY <1>1

\* AddBands: there is a band for each of the raster's.
LEMMA AddBandsTell ==
  ASSUME call \in Call, NEW s \in Seq(Tile), NEW args, ArgsTell(args, s), Numbered(args, s), NEW r \in Tile
  PROVE  LET new == AddBands(args, r)
         IN  ArgsTell(new, s) /\ Numbered(new, Append(s, r))
<1> DEFINE new == AddBands(args, r)
<1> DEFINE t == Append(s, r)
<1>1. /\ List(r.bands) /\ call.form \in {"all", "text", "args"} /\ List(call.args)
      /\ (call.form = "text" => call.args # <<>>)
      /\ \A i \in DOMAIN call.args : call.args[i].uniontype \in UnionType /\ call.args[i].nband \in Nat \ {0}
  BY UnionAssumption
<1>2. Len(r.bands) \in Nat /\ List(args) /\ Len(args) \in Nat
      /\ DOMAIN call.args = 1..Len(call.args) /\ Len(call.args) \in Nat /\ (call.args # <<>> <=> 1 \in DOMAIN call.args)
  BY <1>1, Lists DEF ArgsTell
<1>3. \A k \in DOMAIN t : t[k] = r \/ (k \in DOMAIN s /\ t[k] = s[k])
  OBVIOUS
<1>4. \A k \in DOMAIN s : Len(s[k].bands) \in Nat
  BY UnionAssumption DEF List
<1>5. ASSUME NEW n \in Nat, NEW uniontype \in UnionType, call.form \in {"all", "text"},
             new = NewBands(args, n, uniontype), Len(r.bands) <= n
      PROVE  ArgsTell(new, s) /\ Numbered(new, t)
  <2>1. /\ ArgsTell(new, s) /\ \A i \in DOMAIN new : new[i].nband = i
        /\ Len(new) \in Nat /\ n <= Len(new) /\ Len(args) <= Len(new)
    BY <1>5, NewBandsTell DEF Numbered
  <2>2. ASSUME NEW k \in DOMAIN t PROVE Len(t[k].bands) <= Len(new)
    <3> HIDE DEF t, new
    <3>1. CASE t[k] = r
      BY <1>2, <1>5, <2>1, <3>1
    <3>2. CASE k \in DOMAIN s /\ t[k] = s[k]
      <4>1. Len(s[k].bands) <= Len(args)
        BY <1>5, <3>2 DEF Numbered
      <4> QED BY <1>2, <1>4, <2>1, <3>2, <4>1
    <3> QED BY <1>3, <3>1, <3>2
  <2> HIDE DEF t, new
  <2> QED BY <1>5, <2>1, <2>2 DEF Numbered
<1>6. CASE call.form = "all"
  <2>1. new = NewBands(args, Len(r.bands), "LAST") /\ "LAST" \in UnionType
    BY <1>6 DEF AddBands, UnionType
  <2> HIDE DEF new, t
  <2> QED BY <1>2, <1>5, <1>6, <2>1 DEF new, t
<1>7. CASE call.form = "text"
  <2> DEFINE n == Max({Len(r.bands), 1})
  <2>1. n \in Nat /\ Len(r.bands) <= n
    BY <1>2, MaxWithOne
  <2>2. new = NewBands(args, n, call.args[1].uniontype) /\ call.args[1].uniontype \in UnionType
    BY <1>1, <1>2, <1>7 DEF AddBands
  <2> HIDE DEF n, new, t
  <2> QED BY <1>5, <1>7, <2>1, <2>2 DEF new, t
<1>8. CASE call.form = "args"
  <2>1. CASE args # <<>>
    <3>1. new = args
      BY <1>8, <2>1 DEF AddBands
    <3> HIDE DEF t
    <3> QED BY <1>8, <2>1, <3>1 DEF Numbered, t
  <2>2. CASE args = <<>>
    <3>1. new = [i \in DOMAIN call.args |-> NewBand(call.args[i].nband, call.args[i].uniontype, Null)]
      BY <1>8, <2>2 DEF AddBands
    <3> HIDE DEF new, t
    <3>2. new = [i \in 1..Len(call.args) |-> new[i]]
      BY <1>2, <3>1
    <3>3. List(new) /\ DOMAIN new = DOMAIN call.args /\ (new # <<>> <=> 1 \in DOMAIN new)
      BY <1>2, <3>1, <3>2, Lists
    <3>4. CASE call.args = <<>>
      BY <1>2, <1>8, <3>3, <3>4 DEF ArgsTell, Numbered, t, new
    <3>5. CASE call.args # <<>>
      <4>1. s = <<>> /\ DOMAIN s = {}
        BY <1>8, <2>2, <3>5 DEF Numbered
      <4>2. Null = [ext |-> Null.ext, bands |-> Null.bands] /\ Null.bands = <<>> /\ Null.ext = {}
        BY DEF Null
      <4>3. \A i \in DOMAIN new : BandTells(new[i], s)
        BY <1>1, <3>1, <3>3, <4>1, <4>2, NewBandTells
      <4> QED BY <1>2, <1>8, <3>3, <3>5, <4>3 DEF ArgsTell, Numbered, new, t
    <3> QED BY <3>4, <3>5
  <2> QED BY <2>1, <2>2
<1> QED BY <1>1, <1>6, <1>7, <1>8

\* Every working raster that has an extent has a band when a raster has come.
Full(args) == \A i \in DOMAIN args : \A j \in 1..Working(args[i].uniontype) :
                args[i].raster[j].ext # {} => args[i].raster[j].bands # <<>>

\* Each working raster of a band is united with the raster that comes.
LEMMA GatheredTells ==
  ASSUME NEW s \in Seq(Tile), Len(s) < MaxTiles, NEW ba, BandTells(ba, s), NEW r \in Tile
  PROVE  LET new == Gathered(ba, r)
         IN  /\ BandTells(new, Append(s, r)) /\ new.nband = ba.nband
             /\ \A j \in 1..Working(new.uniontype) : new.raster[j].ext # {} => new.raster[j].bands # <<>>
<1> DEFINE n == Working(ba.uniontype)
<1> DEFINE rs == [j \in 1..n |-> United(Pass(ba.uniontype, j), ba.raster[j], r, ba.nband)]
<1> DEFINE new == Gathered(ba, r)
<1> DEFINE t == Append(s, r)
<1>0. /\ ba = [uniontype |-> ba.uniontype, nband |-> ba.nband, raster |-> ba.raster]
      /\ ba.uniontype \in UnionType /\ ba.nband \in Nat \ {0}
      /\ ba.raster = [j \in 1..n |-> ba.raster[j]]
      /\ \A j \in 1..n : Keeps(Pass(ba.uniontype, j), ba.raster[j], s, ba.nband) /\ ba.raster[j].ext = ba.raster[1].ext
  BY DEF BandTells
<1>1. new = [uniontype |-> ba.uniontype, nband |-> ba.nband, raster |-> rs]
  <2>1. rs = [j \in DOMAIN ba.raster |-> United(Pass(ba.uniontype, j), ba.raster[j], r, ba.nband)]
    BY <1>0
  <2>2. new = [ba EXCEPT !.raster = rs]
    BY <2>1, Zenon DEF Gathered
  <2> HIDE DEF new, rs
  <2> QED BY <1>0, <2>2
<1>2. ASSUME NEW j \in 1..n
      PROVE  /\ Keeps(Pass(ba.uniontype, j), rs[j], t, ba.nband)
             /\ rs[j].ext = IF ba.raster[j].ext \cup r.ext = {} THEN {} ELSE Hull(ba.raster[j].ext \cup r.ext)
             /\ rs[j].ext # {} => rs[j].bands # <<>>
  <2>1. Pass(ba.uniontype, j) \in Chooser \cup {"SUM", "COUNT"}
    <3>1. CASE ba.uniontype \in {"MEAN", "RANGE"}
      <4>1. j = 1 \/ j = 2
        BY <3>1 DEF Working
      <4> QED BY <3>1, <4>1 DEF Pass, Chooser
    <3>2. CASE ba.uniontype \notin {"MEAN", "RANGE"}
      BY <1>0, <3>2 DEF Pass, Chooser, UnionType
    <3> QED BY <3>1, <3>2
  <2>2. rs[j] = United(Pass(ba.uniontype, j), ba.raster[j], r, ba.nband)
    OBVIOUS
  <2> DEFINE u == Pass(ba.uniontype, j)
  <2> DEFINE w == ba.raster[j]
  <2> DEFINE m == ba.nband
  <2>3. u \in Chooser \cup {"SUM", "COUNT"} /\ m \in Nat \ {0} /\ Keeps(u, w, s, m) /\ rs[j] = United(u, w, r, m)
    BY <1>0, <2>1, <2>2
  <2> HIDE DEF rs, u, w, m
  <2>4. /\ Keeps(u, rs[j], t, m)
        /\ rs[j].ext = IF w.ext \cup r.ext = {} THEN {} ELSE Hull(w.ext \cup r.ext)
        /\ rs[j].ext # {} => rs[j].bands # <<>>
    <3>1. Keeps(u, United(u, w, r, m), Append(s, r), m) /\ Grown(United(u, w, r, m), w, r)
      BY <2>3, UnitedKeeps
    <3> QED BY <2>3, <3>1 DEF Grown
  <2> QED BY <2>4 DEF u, w, m
<1>3. 1 \in 1..n
  BY DEF Working
<1>4. \A j \in 1..n : rs[j].ext = rs[1].ext
  <2> HIDE DEF rs
  <2> QED BY <1>0, <1>2, <1>3
<1>5. rs = [j \in 1..n |-> rs[j]]
  OBVIOUS
<1> HIDE DEF rs
<1>6. new.uniontype = ba.uniontype /\ new.nband = ba.nband /\ new.raster = rs
      /\ new = [uniontype |-> new.uniontype, nband |-> new.nband, raster |-> new.raster]
  BY <1>1
<1> HIDE DEF new, t
<1>7. BandTells(new, t)
  BY <1>0, <1>2, <1>4, <1>5, <1>6 DEF BandTells
<1> QED BY <1>2, <1>6, <1>7 DEF new, t

-----------------------------------------------------------------------------
(* The state.                                                                 *)

VInv == /\ call \in Call /\ seen \in Seq(Tile) /\ Len(seen) <= MaxTiles
        /\ ArgsTell(bandarg, seen) /\ Full(bandarg) /\ Numbered(bandarg, seen)

\* The aggregate starts with no raster and no band.
LEMMA InitVInv == Init => VInv
<1> SUFFICES ASSUME Init PROVE VInv
  OBVIOUS
<1>1. seen = <<>> /\ bandarg = <<>> /\ call \in Call
  BY DEF Init
<1>2. List(<<>>) /\ DOMAIN <<>> = {}
  BY DEF List
<1>3. seen \in Seq(Tile) /\ Len(seen) <= MaxTiles /\ DOMAIN seen = {}
  BY <1>1, UnionAssumption
<1> QED BY <1>1, <1>2, <1>3 DEF VInv, ArgsTell, Full, Numbered

\* A transition keeps the invariant.
LEMMA TransitionKeepsVInv == VInv /\ Transition => VInv'
<1> SUFFICES ASSUME VInv, Transition PROVE VInv'
  OBVIOUS
<1>1. PICK r \in Tile : /\ Len(seen) < MaxTiles /\ RASTER_union_transfn(r)
                        /\ seen' = Append(seen, r) /\ call' = call
  BY DEF Transition
<1> DEFINE args == AddBands(bandarg, r)
<1>2. ArgsTell(args, seen) /\ Numbered(args, Append(seen, r))
  BY AddBandsTell DEF VInv
<1>3. bandarg' = [i \in DOMAIN args |-> Gathered(args[i], r)]
  BY <1>1 DEF RASTER_union_transfn, Gathered
<1> HIDE DEF args
<1>4. List(args) /\ DOMAIN args = 1..Len(args) /\ Len(args) \in Nat /\ (args # <<>> <=> 1 \in DOMAIN args)
  BY <1>2, Lists DEF ArgsTell
<1>5. bandarg' = [i \in 1..Len(args) |-> bandarg'[i]] /\ DOMAIN bandarg' = DOMAIN args
  BY <1>3, <1>4
<1>6. List(bandarg') /\ Len(bandarg') = Len(args) /\ (bandarg' # <<>> <=> 1 \in DOMAIN bandarg')
  BY <1>4, <1>5, Lists
<1>7. ASSUME NEW i \in DOMAIN args
      PROVE  /\ BandTells(bandarg'[i], seen') /\ bandarg'[i].nband = args[i].nband
             /\ \A j \in 1..Working(bandarg'[i].uniontype) :
                  bandarg'[i].raster[j].ext # {} => bandarg'[i].raster[j].bands # <<>>
  <2>1. bandarg'[i] = Gathered(args[i], r) /\ BandTells(args[i], seen) /\ seen \in Seq(Tile)
    BY <1>2, <1>3 DEF ArgsTell, VInv
  <2> QED BY <1>1, <2>1, GatheredTells
<1>8. ArgsTell(bandarg', seen') /\ Full(bandarg')
  BY <1>5, <1>6, <1>7 DEF ArgsTell, Full
<1>9. Numbered(bandarg, seen)'
  <2>1. (args = <<>> <=> bandarg' = <<>>)
    BY <1>4, <1>5, <1>6
  <2>2. Numbered(args, seen')
    BY <1>1, <1>2
  <2> QED BY <1>1, <1>5, <1>6, <1>7, <2>1, <2>2 DEF Numbered
<1>10. seen' \in Seq(Tile) /\ Len(seen') <= MaxTiles
  BY <1>1, UnionAssumption DEF VInv
<1> QED BY <1>1, <1>8, <1>9, <1>10 DEF VInv, ArgsTell, Full

-----------------------------------------------------------------------------
(* The result.                                                                *)

\* A quotient of halves is that of the numbers.
LEMMA Quotients ==
  ASSUME NEW v \in Int, NEW c \in Nat \ {0}
  PROVE  (2 * v) \div (2 * c) = v \div c
<1> DEFINE q == v \div c
<1> DEFINE e == v % c
<1>1. q \in Int /\ e \in Int /\ v = c * q + e /\ 0 <= e /\ e < c
  OBVIOUS
<1>2. c * q \in Int
  BY <1>1
<1> DEFINE d == 2 * c
<1> DEFINE x == 2 * v
<1> DEFINE q2 == x \div d
<1> DEFINE e2 == x % d
<1>3. d \in Nat \ {0} /\ x \in Int
  OBVIOUS
<1>4. q2 \in Int /\ e2 \in Int /\ x = d * q2 + e2 /\ 0 <= e2 /\ e2 < d
  <2> HIDE DEF d, x
  <2> QED BY <1>3
<1> HIDE DEF q, e, q2, e2
<1>5. 2 * (c * q) = d * q /\ d * q2 = 2 * (c * q2) /\ c * q2 \in Int
  BY <1>1, <1>4
<1>6. 2 * (c * q) + 2 * e = 2 * (c * q2) + e2
  BY <1>1, <1>4, <1>5, <1>2
<1>7. c * (q - q2) = c * q - c * q2
  BY <1>1, <1>4
<1>8. ~(q - q2 >= 1)
  <2> SUFFICES ASSUME q - q2 >= 1 PROVE FALSE
    OBVIOUS
  <2>1. c * (q - q2) >= c
    BY <1>1, <1>4
  <2> QED BY <1>1, <1>2, <1>4, <1>5, <1>6, <1>7, <2>1
<1>9. ~(q - q2 <= -1)
  <2> SUFFICES ASSUME q - q2 <= -1 PROVE FALSE
    OBVIOUS
  <2>1. c * (q - q2) <= 0 - c
    BY <1>1, <1>4
  <2> QED BY <1>1, <1>2, <1>4, <1>5, <1>6, <1>7, <2>1
<1> QED BY <1>1, <1>4, <1>8, <1>9 DEF q, q2

\* What is read of a band, and of a value that is written to it.
LEMMA MadeReads ==
  ASSUME NEW set, Settled(set), NEW P, NEW b, Made(b, set, P), NEW p \in P
  PROVE  /\ rt_band_get_pixel(b, p) = Reads(set, b.data[p])
         /\ \A v : rt_band_get_pixel(rt_band_set_pixel(b, p, v), p) = Reads(set, Put(set, v))
<1>1. ASSUME NEW D, NEW a \in BandsOf(set, P, D), Flagged(a)
      PROVE  rt_band_get_pixel(a, p) = Reads(set, a.data[p])
  <2>1. a.type = set.type /\ a.hasnodata = set.hasnodata /\ a.nodataval = set.nodataval /\ DOMAIN a.data = P
    BY <1>1 DEF BandsOf
  <2>2. rt_band_get_pixel(a, p) = Reads(a, a.data[p])
    BY <1>1, <2>1, FlaggedReads
  <2>3. rt_band_clamped_value_is_nodata(a, a.data[p]) = rt_band_clamped_value_is_nodata(set, a.data[p])
    BY <2>1 DEF rt_band_clamped_value_is_nodata
  <2>4. Reads(a, a.data[p]) = Reads(set, a.data[p])
    BY <2>3, Zenon DEF Reads
  <2> QED BY <2>2, <2>4
<1>2. b \in BandsOf(set, P, {b.data[q] : q \in P}) /\ Flagged(b)
  BY DEF Made
<1>3. ASSUME NEW v PROVE rt_band_get_pixel(rt_band_set_pixel(b, p, v), p) = Reads(set, Put(set, v))
  <2> DEFINE D == {b.data[q] : q \in P} \cup {Put(set, v)}
  <2> DEFINE a == rt_band_set_pixel(b, p, v)
  <2>1. b \in BandsOf(set, P, D) /\ b.data \in [P -> D]
    BY <1>2 DEF BandsOf
  <2>2. Put(set, v) \in D
    OBVIOUS
  <2> HIDE DEF D
  <2>3. a \in BandsOf(set, P, D) /\ Flagged(a) /\ a.data = [b.data EXCEPT ![p] = Put(set, v)]
    BY <1>2, <2>1, <2>2, SetPixel
  <2>4. a.data[p] = Put(set, v)
    BY <2>1, <2>3
  <2> HIDE DEF a
  <2>5. rt_band_get_pixel(a, p) = Reads(set, a.data[p])
    BY <1>1, <2>3
  <2> QED BY <2>4, <2>5 DEF a
<1> QED BY <1>1, <1>2, <1>3

\* A working raster with pixels has a band, and what is read of it is what a callback gets.
LEMMA SheetReads ==
  ASSUME NEW utype, NEW w, Sheet(utype, w), w.ext # {}, w.bands # <<>>
  PROVE  LET b == w.bands[1]
         IN  /\ Interval(w.ext) /\ Settled(SetOf(b)) /\ HasBand(w, 1)
             /\ (utype # "COUNT" => SetOf(b).hasnodata) /\ (utype = "COUNT" => SetOf(b) = CountSet)
             /\ \A p \in w.ext : rt_band_get_pixel(b, p) = Arg(w, 1, p) /\ Arg(w, 1, p) = Reads(SetOf(b), b.data[p])
<1>1. PICK b : /\ w.bands = <<b>> /\ Made(b, SetOf(b), w.ext) /\ Settled(SetOf(b))
               /\ (utype = "COUNT" => SetOf(b) = CountSet) /\ (utype # "COUNT" => b.hasnodata)
  BY DEF Sheet
<1>2. w.bands[1] = b /\ Interval(w.ext) /\ HasBand(w, 1) /\ SetOf(b).hasnodata = b.hasnodata
  BY <1>1 DEF Sheet, HasBand, SetOf
<1>3. ASSUME NEW p \in w.ext
      PROVE  rt_band_get_pixel(b, p) = Arg(w, 1, p) /\ Arg(w, 1, p) = Reads(SetOf(b), b.data[p])
  <2>1. Arg(w, 1, p) = rt_band_get_pixel(b, p)
    BY <1>2 DEF Arg
  <2>2. Arg(w, 1, p) = Reads(SetOf(b), b.data[p])
    BY <1>1, WorkingArg
  <2> QED BY <2>1, <2>2
<1> QED BY <1>1, <1>2, <1>3

\* There are values if a raster has one.
LEMMA ValuesThere == \A s, n, p : ValuesOf(s, n, p) = {} <=> Having(s, n, p) = {}
BY DEF ValuesOf

\* What a working raster holds of a band that is selected or summed up.
LEMMA ToldValue ==
  ASSUME NEW utype \in Chooser \cup {"SUM"}, NEW w, NEW s \in Seq(Tile), NEW n \in Nat \ {0},
         Keeps(utype, w, s, n), Alike(s, n), NEW p, utype = "SUM" => SumsFit(w.bands[1], s, n, p)
  PROVE  /\ Having(s, n, p) = {} => Arg(w, 1, p).nodata
         /\ Having(s, n, p) # {} => \E v \in Int : Arg(w, 1, p) = Is(v) /\ Chosen(utype, s, n, p, v)
<1>1. Tells(utype, w, s, n, p) /\ utype # "COUNT"
  BY DEF Keeps, Chooser
<1> QED BY <1>1 DEF Tells

\* The sum of the values at a pixel.
Sum(s, n, p) == Sums(s, n, p)[Len(s)]

\* A band that is not computed at the end: the working raster is the result.
LEMMA PlainDefined ==
  ASSUME NEW s \in Seq(Tile), NEW ba, BandTells(ba, s), ba.uniontype \notin {"MEAN", "RANGE"},
         ba.raster[1].ext # {}, ba.raster[1].bands # <<>>, NEW p \in ba.raster[1].ext
  PROVE  LET y == rt_band_get_pixel(ba.raster[1].bands[1], p)
             n == ba.nband
             u == ba.uniontype
         IN  /\ u = "COUNT" => y = Is(2 * Cardinality(Having(s, n, p)))
             /\ u \in Chooser /\ Alike(s, n) =>
                  /\ Having(s, n, p) = {} => y.nodata
                  /\ Having(s, n, p) # {} => y = Is(Selected(u, s, n, p))
             /\ u = "SUM" /\ Alike(s, n) /\ SumsFit(ba.raster[1].bands[1], s, n, p) =>
                  /\ Having(s, n, p) = {} => y.nodata
                  /\ Having(s, n, p) # {} => y = Is(Sum(s, n, p))
<1> DEFINE w == ba.raster[1]
<1> DEFINE y == rt_band_get_pixel(w.bands[1], p)
<1> DEFINE n == ba.nband
<1> DEFINE u == ba.uniontype
<1>1. 1 \in 1..Working(u) /\ Pass(u, 1) = u
  BY DEF Working, Pass
<1>2. Keeps(u, w, s, n) /\ n \in Nat \ {0}
  BY <1>1 DEF BandTells
<1>3. Sheet(u, w) /\ Tells(u, w, s, n, p) /\ w.ext # {} /\ w.bands # <<>> /\ p \in w.ext
  BY <1>2 DEF Keeps
<1> HIDE DEF w, n, u
<1>4. /\ y = Arg(w, 1, p) /\ Arg(w, 1, p) = Reads(SetOf(w.bands[1]), w.bands[1].data[p])
      /\ u = "COUNT" => SetOf(w.bands[1]) = CountSet
  BY <1>3, SheetReads
<1>5. ASSUME u = "COUNT" PROVE y = Is(2 * Cardinality(Having(s, n, p)))
  <2>1. y = Is(w.bands[1].data[p]) /\ y = Arg(w, 1, p)
    BY <1>4, <1>5, CountHeld
  <2>2. (IF Arg(w, 1, p).nodata THEN 0 ELSE Arg(w, 1, p).value) = 2 * Cardinality(Having(s, n, p))
    BY <1>3, <1>5 DEF Tells
  <2> DEFINE d == w.bands[1].data[p]
  <2> HIDE DEF y, d
  <2>3. ~ Is(d).nodata /\ Is(d).value = d
    BY DEF Is
  <2>4. y = Is(d)
    BY <2>1 DEF d
  <2>5. d = 2 * Cardinality(Having(s, n, p))
    BY <2>1, <2>2, <2>3, <2>4
  <2> QED BY <2>4, <2>5
<1> HIDE DEF y
<1>6. ASSUME u \in Chooser, Alike(s, n)
      PROVE  (Having(s, n, p) = {} => y.nodata) /\ (Having(s, n, p) # {} => y = Is(Selected(u, s, n, p)))
  <2>1. u # "SUM" /\ u \in Chooser \cup {"SUM"}
    BY <1>6 DEF Chooser
  <2>2. /\ Having(s, n, p) = {} => Arg(w, 1, p).nodata
        /\ Having(s, n, p) # {} => \E v \in Int : Arg(w, 1, p) = Is(v) /\ Chosen(u, s, n, p, v)
    BY <1>2, <1>6, <2>1, ToldValue DEF w, n, u
  <2>3. \A v : Chosen(u, s, n, p, v) => Selected(u, s, n, p) = v
    BY <1>2, <1>6, ChosenIsSelected DEF n
  <2> QED BY <1>4, <2>2, <2>3
<1>7. ASSUME u = "SUM", Alike(s, n), SumsFit(w.bands[1], s, n, p)
      PROVE  (Having(s, n, p) = {} => y.nodata) /\ (Having(s, n, p) # {} => y = Is(Sum(s, n, p)))
  <2>1. u \in Chooser \cup {"SUM"}
    BY <1>7
  <2>2. /\ Having(s, n, p) = {} => Arg(w, 1, p).nodata
        /\ Having(s, n, p) # {} => \E v \in Int : Arg(w, 1, p) = Is(v) /\ Chosen(u, s, n, p, v)
    BY <1>2, <1>7, <2>1, ToldValue DEF w, n, u
  <2> QED BY <1>4, <1>7, <2>2 DEF Chosen, Sum
<1> QED BY <1>5, <1>6, <1>7 DEF w, n, u, y

\* A band that is computed at the end, from the two working rasters.
LEMMA FinishedReads ==
  ASSUME NEW s \in Seq(Tile), NEW ba, BandTells(ba, s), ba.uniontype \in {"MEAN", "RANGE"},
         \A j \in 1..2 : ba.raster[j].ext # {} /\ ba.raster[j].bands # <<>>,
         NEW p \in Finished(ba).ext
  PROVE  LET b == Finished(ba).bands[1]
             set == SetOf(ba.raster[2].bands[1])
             c == Callback(ba.uniontype, Arg(ba.raster[1], 1, p), Arg(ba.raster[2], 1, p))
         IN  /\ Keeps(Pass(ba.uniontype, 1), ba.raster[1], s, ba.nband)
             /\ Keeps(Pass(ba.uniontype, 2), ba.raster[2], s, ba.nband)
             /\ b.type = set.type /\ b.nodataval = set.nodataval
             /\ rt_band_get_pixel(b, p) = Reads(set, Burned(set, c))
             /\ Reads(set, Burned(set, NoData)).nodata
             /\ \A v : rt_band_get_pixel(rt_band_set_pixel(b, p, v), p) = Reads(set, Burned(set, Is(v)))
<1> DEFINE w1 == ba.raster[1]
<1> DEFINE w2 == ba.raster[2]
<1> DEFINE u == ba.uniontype
<1> DEFINE set == SetOf(w2.bands[1])
<1> DEFINE ext == Hull(w1.ext \cup w2.ext)
<1> DEFINE new == Finished(ba)
<1> DEFINE b == new.bands[1]
<1> DEFINE c == Callback(u, Arg(w1, 1, p), Arg(w2, 1, p))
<1>1. /\ Keeps(Pass(u, 1), w1, s, ba.nband) /\ Keeps(Pass(u, 2), w2, s, ba.nband)
      /\ w1.ext # {} /\ w2.ext # {} /\ w1.bands # <<>> /\ w2.bands # <<>>
  BY DEF BandTells, Working
<1>2. Sheet(Pass(u, 1), w1) /\ Sheet(Pass(u, 2), w2) /\ Pass(u, 2) # "COUNT"
  BY <1>1 DEF Keeps, Pass
<1>3. Interval(w1.ext) /\ Interval(w2.ext) /\ Settled(set) /\ set.hasnodata
  <2> HIDE DEF w1, w2, u
  <2> QED BY <1>1, <1>2, SheetReads
<1>4. PICK lo \in Int, hi \in Int : lo <= hi /\ ext = lo..hi
  <2>1. Interval(ext)
    <3> HIDE DEF w1, w2
    <3> QED BY <1>1, <1>3, HullInterval
  <2> HIDE DEF ext
  <2> QED BY <2>1 DEF Interval
<1>5. new = rt_raster_iterator(w1, 1, w2, 1, ext, set, u)
  BY DEF Finished, SetOf
<1>6. /\ new = [ext |-> lo..hi, bands |-> <<b>>] /\ Made(b, set, lo..hi)
      /\ \A q \in lo..hi : b.data[q] = Burned(set, Callback(u, Arg(w1, 1, q), Arg(w2, 1, q)))
  <2> HIDE DEF set, w1, w2, u, ext, new
  <2>1. new = rt_raster_iterator(w1, 1, w2, 1, lo..hi, set, u)
    BY <1>4, <1>5
  <2> QED BY <1>3, <1>4, <2>1, Burning
<1> HIDE DEF new
<1>7. p \in lo..hi
  <2>1. new.ext = lo..hi
    <3> HIDE DEF b
    <3> QED BY <1>6
  <2> QED BY <2>1 DEF new
<1> HIDE DEF b, set, w1, w2, u, ext
<1>8. b.type = set.type /\ b.nodataval = set.nodataval
  BY <1>6 DEF Made, BandsOf
<1>9. rt_band_get_pixel(b, p) = Reads(set, Burned(set, c))
      /\ \A v : rt_band_get_pixel(rt_band_set_pixel(b, p, v), p) = Reads(set, Put(set, v))
  BY <1>3, <1>6, <1>7, MadeReads
<1>10. \A v : Burned(set, Is(v)) = Put(set, v)
  BY DEF Burned, Is
<1>11. Reads(set, Burned(set, NoData)).nodata
  <2>1. Burned(set, NoData) = set.nodataval
    BY <1>3 DEF Burned, NoData
  <2> QED BY <1>3, <2>1, NodataReads
<1>12. \A v : rt_band_get_pixel(rt_band_set_pixel(b, p, v), p) = Reads(set, Burned(set, Is(v)))
  BY <1>9, <1>10
<1> QED BY <1>1, <1>8, <1>9, <1>11, <1>12 DEF b, new, set, w1, w2, u

\* How many rasters have a value.
LEMMA HavingNumber ==
  ASSUME NEW s \in Seq(Tile), NEW n \in Nat \ {0}, NEW p
  PROVE  LET c == Cardinality(Having(s, n, p)) IN c \in Nat /\ (c = 0 <=> Having(s, n, p) = {})
<1>1. CASE Having(s, n, p) = {}
  BY <1>1, FS_EmptySet
<1>2. CASE Having(s, n, p) # {}
  <2>1. PICK k : k \in Having(s, n, p)
    BY <1>2
  <2>2. k \in DOMAIN s
    BY <2>1 DEF Having
  <2>3. s[k] \in Tile
    BY <2>2
  <2> QED BY <2>3, HavingCounts
<1> QED BY <1>1, <1>2

\* MEAN: the quotient of the sum and the number, as a pixel can hold it.
LEMMA MeanDefined ==
  ASSUME NEW s \in Seq(Tile), NEW ba, BandTells(ba, s), ba.uniontype = "MEAN",
         \A j \in 1..2 : ba.raster[j].ext # {} /\ ba.raster[j].bands # <<>>,
         Alike(s, ba.nband), NEW p \in Finished(ba).ext,
         SumsFit(Finished(ba).bands[1], s, ba.nband, p)
  PROVE  LET b == Finished(ba).bands[1]
             K == Having(s, ba.nband, p)
         IN  /\ K = {} => rt_band_get_pixel(b, p).nodata
             /\ K # {} => rt_band_get_pixel(b, p) =
                  rt_band_get_pixel(rt_band_set_pixel(b, p, Sum(s, ba.nband, p) \div Cardinality(K)), p)
<1> DEFINE w1 == ba.raster[1]
<1> DEFINE w2 == ba.raster[2]
<1> DEFINE n == ba.nband
<1> DEFINE b == Finished(ba).bands[1]
<1> DEFINE set == SetOf(w2.bands[1])
<1> DEFINE K == Having(s, n, p)
<1> DEFINE a1 == Arg(w1, 1, p)
<1> DEFINE a2 == Arg(w2, 1, p)
<1> DEFINE c == Cardinality(K)
<1>0. n \in Nat \ {0} /\ Pass("MEAN", 1) = "COUNT" /\ Pass("MEAN", 2) = "SUM"
  BY DEF BandTells, Pass
<1>1. /\ Keeps("COUNT", w1, s, n) /\ Keeps("SUM", w2, s, n)
      /\ b.type = set.type /\ b.nodataval = set.nodataval
      /\ rt_band_get_pixel(b, p) = Reads(set, Burned(set, Callback("MEAN", a1, a2)))
      /\ Reads(set, Burned(set, NoData)).nodata
      /\ \A v : rt_band_get_pixel(rt_band_set_pixel(b, p, v), p) = Reads(set, Burned(set, Is(v)))
  BY <1>0, FinishedReads
<1>2. Callback("MEAN", a1, a2) = rtpg_union_mean_callback(a1, a2)
  BY DEF Callback
<1>3. (IF a1.nodata THEN 0 ELSE a1.value) = 2 * c
  BY <1>1 DEF Keeps, Tells
<1>4. c \in Nat /\ (c = 0 <=> K = {})
  BY <1>0, HavingNumber
<1>5. /\ K = {} => a2.nodata
      /\ K # {} => \E v \in Int : a2 = Is(v) /\ Chosen("SUM", s, n, p, v)
  <2>1. SumsFit(w2.bands[1], s, n, p)
    BY <1>1 DEF SumsFit, SetOf
  <2> HIDE DEF w2, n
  <2> QED BY <1>0, <1>1, <2>1, ToldValue DEF n
<1> HIDE DEF a1, a2, c, w1, w2, b, set
<1>6. CASE K = {}
  <2>1. Callback("MEAN", a1, a2) = NoData
    BY <1>2, <1>5, <1>6 DEF rtpg_union_mean_callback
  <2> QED BY <1>1, <1>6, <2>1 DEF b
<1>7. CASE K # {}
  <2>1. PICK v \in Int : a2 = Is(v) /\ v = Sum(s, n, p)
    BY <1>5, <1>7 DEF Chosen, Sum
  <2>2. c \in Nat \ {0} /\ ~ a1.nodata /\ a1.value = 2 * c /\ a1.value # 0
    BY <1>3, <1>4, <1>7
  <2>3. ~ a2.nodata /\ a2.value = v
    BY <2>1 DEF Is
  <2>4. Callback("MEAN", a1, a2) = Is((2 * v) \div (2 * c))
    BY <1>2, <2>2, <2>3 DEF rtpg_union_mean_callback
  <2>5. (2 * v) \div (2 * c) = v \div c
    BY <2>2, Quotients
  <2>6. rt_band_get_pixel(b, p) = rt_band_get_pixel(rt_band_set_pixel(b, p, v \div c), p)
    BY <1>1, <2>4, <2>5
  <2> QED BY <1>7, <2>1, <2>6 DEF b, c
<1> QED BY <1>6, <1>7

\* RANGE: the difference of the extremes, as a pixel can hold it.
LEMMA RangeDefined ==
  ASSUME NEW s \in Seq(Tile), NEW ba, BandTells(ba, s), ba.uniontype = "RANGE",
         \A j \in 1..2 : ba.raster[j].ext # {} /\ ba.raster[j].bands # <<>>,
         Alike(s, ba.nband), NEW p \in Finished(ba).ext
  PROVE  LET b == Finished(ba).bands[1]
             K == Having(s, ba.nband, p)
             vs == ValuesOf(s, ba.nband, p)
         IN  /\ K = {} => rt_band_get_pixel(b, p).nodata
             /\ K # {} => rt_band_get_pixel(b, p) =
                  rt_band_get_pixel(rt_band_set_pixel(b, p, Max(vs) - Min(vs)), p)
<1> DEFINE w1 == ba.raster[1]
<1> DEFINE w2 == ba.raster[2]
<1> DEFINE n == ba.nband
<1> DEFINE b == Finished(ba).bands[1]
<1> DEFINE set == SetOf(w2.bands[1])
<1> DEFINE K == Having(s, n, p)
<1> DEFINE vs == ValuesOf(s, n, p)
<1> DEFINE a1 == Arg(w1, 1, p)
<1> DEFINE a2 == Arg(w2, 1, p)
<1>0. n \in Nat \ {0} /\ Pass("RANGE", 1) = "MIN" /\ Pass("RANGE", 2) = "MAX"
  BY DEF BandTells, Pass
<1>1. /\ Keeps("MIN", w1, s, n) /\ Keeps("MAX", w2, s, n)
      /\ rt_band_get_pixel(b, p) = Reads(set, Burned(set, Callback("RANGE", a1, a2)))
      /\ Reads(set, Burned(set, NoData)).nodata
      /\ \A v : rt_band_get_pixel(rt_band_set_pixel(b, p, v), p) = Reads(set, Burned(set, Is(v)))
  BY <1>0, FinishedReads
<1>2. Callback("RANGE", a1, a2) = rtpg_union_range_callback(a1, a2)
  BY DEF Callback
<1>3. ASSUME NEW u \in {"MIN", "MAX"}, NEW w, Keeps(u, w, s, n)
      PROVE  /\ K = {} => Arg(w, 1, p).nodata
             /\ K # {} => Arg(w, 1, p) = Is(Selected(u, s, n, p))
  <2>1. u \in Chooser \cup {"SUM"} /\ u \in Chooser /\ u # "SUM"
    BY DEF Chooser
  <2> HIDE DEF n
  <2>2. /\ K = {} => Arg(w, 1, p).nodata
        /\ K # {} => \E v \in Int : Arg(w, 1, p) = Is(v) /\ Chosen(u, s, n, p, v)
    BY <1>0, <1>3, <2>1, ToldValue DEF n
  <2>3. \A v : Chosen(u, s, n, p, v) => Selected(u, s, n, p) = v
    BY <1>0, <2>1, ChosenIsSelected
  <2> QED BY <2>2, <2>3
<1>4. Selected("MIN", s, n, p) = Min(vs) /\ Selected("MAX", s, n, p) = Max(vs)
  BY DEF Selected
<1>5. (K = {} => a1.nodata) /\ (K # {} => a1 = Is(Min(vs)) /\ a2 = Is(Max(vs)))
  <2> HIDE DEF vs, n, w1, w2, K
  <2>1. (K = {} => a1.nodata) /\ (K # {} => a1 = Is(Selected("MIN", s, n, p)))
    BY <1>1, <1>3
  <2>2. K # {} => a2 = Is(Selected("MAX", s, n, p))
    BY <1>1, <1>3
  <2> QED BY <1>4, <2>1, <2>2
<1> HIDE DEF a1, a2, w1, w2, b, set, vs
<1>6. CASE K = {}
  <2>1. Callback("RANGE", a1, a2) = NoData
    BY <1>2, <1>5, <1>6 DEF rtpg_union_range_callback
  <2> QED BY <1>1, <1>6, <2>1 DEF b
<1>7. CASE K # {}
  <2>1. Callback("RANGE", a1, a2) = Is(Max(vs) - Min(vs))
    BY <1>2, <1>5, <1>7 DEF rtpg_union_range_callback, Is
  <2> QED BY <1>1, <1>7, <2>1 DEF b, vs
<1> QED BY <1>6, <1>7

\* The result is what the final function makes of each band, and no working raster is empty.
LEMMA ResultsAre ==
  ASSUME VInv, NEW i \in Results
  PROVE  LET ba == bandarg[i]
         IN  /\ BandTells(ba, seen) /\ seen \in Seq(Tile) /\ Result(bandarg)[i] = Finished(ba)
             /\ \A j \in 1..Working(ba.uniontype) : ba.raster[j].ext # {} /\ ba.raster[j].bands # <<>>
<1> DEFINE ba == bandarg[i]
<1>1. ~ (bandarg = <<>> \/ \E k \in DOMAIN bandarg : bandarg[k].raster[1] = Null)
  <2>1. SUFFICES ASSUME Result(bandarg) = <<>> PROVE FALSE
    BY DEF Result
  <2> QED BY <2>1 DEF Results
<1>2. Result(bandarg) = [k \in DOMAIN bandarg |-> Finished(bandarg[k])]
  BY <1>1 DEF Result
<1>3. i \in DOMAIN bandarg /\ Result(bandarg)[i] = Finished(ba)
  BY <1>2 DEF Results
<1>4. BandTells(ba, seen) /\ seen \in Seq(Tile) /\ ba.raster[1] # Null
  BY <1>1, <1>3 DEF VInv, ArgsTell
<1>5. ba.raster[1].ext # {}
  <2>1. 1 \in 1..Working(ba.uniontype)
    BY DEF Working
  <2>2. Sheet(Pass(ba.uniontype, 1), ba.raster[1])
    BY <1>4, <2>1 DEF BandTells, Keeps
  <2> QED BY <1>4, <2>2 DEF Sheet, Null
<1>6. ASSUME NEW j \in 1..Working(ba.uniontype) PROVE ba.raster[j].ext # {} /\ ba.raster[j].bands # <<>>
  BY <1>3, <1>4, <1>5 DEF BandTells, VInv, Full
<1> QED BY <1>3, <1>4, <1>6

\* The value of each pixel of the result is the one the union type defines.
LEMMA ResultsDefined == VInv => ValueIsDefined
<1> SUFFICES ASSUME VInv, NEW i \in Results, NEW p \in Result(bandarg)[i].ext
             PROVE  LET n == bandarg[i].nband
                        u == bandarg[i].uniontype
                        b == Result(bandarg)[i].bands[1]
                        y == At(i, p)
                        K == Having(seen, n, p)
                        vs == ValuesOf(seen, n, p)
                        Held(v) == rt_band_get_pixel(rt_band_set_pixel(b, p, v), p)
                    IN  /\ u = "COUNT" => y = Is(2 * Cardinality(K))
                        /\ Alike(seen, n) /\ u \in Chooser =>
                             IF K = {} THEN y.nodata ELSE y = Is(Selected(u, seen, n, p))
                        /\ Alike(seen, n) /\ u = "SUM" /\ SumsFit(b, seen, n, p) =>
                             IF vs = {} THEN y.nodata ELSE y = Is(Sum(seen, n, p))
                        /\ Alike(seen, n) /\ u = "MEAN" /\ SumsFit(b, seen, n, p) =>
                             IF vs = {} THEN y.nodata ELSE y = Held(Sum(seen, n, p) \div Cardinality(K))
                        /\ Alike(seen, n) /\ u = "RANGE" =>
                             IF vs = {} THEN y.nodata ELSE y = Held(Max(vs) - Min(vs))
  BY DEF ValueIsDefined, ValueIsSelected, CountIsExact, ArithmeticHolds, Chooser, Sum
<1> DEFINE ba == bandarg[i]
<1> DEFINE n == ba.nband
<1> DEFINE K == Having(seen, n, p)
<1> DEFINE vs == ValuesOf(seen, n, p)
<1>1. /\ BandTells(ba, seen) /\ seen \in Seq(Tile) /\ Result(bandarg)[i] = Finished(ba)
      /\ \A j \in 1..Working(ba.uniontype) : ba.raster[j].ext # {} /\ ba.raster[j].bands # <<>>
  BY ResultsAre
<1>2. vs = {} <=> K = {}
  BY ValuesThere
<1>3. At(i, p) = rt_band_get_pixel(Finished(ba).bands[1], p) /\ p \in Finished(ba).ext
  BY <1>1 DEF At
<1>4. CASE ba.uniontype \notin {"MEAN", "RANGE"}
  <2>1. Finished(ba) = ba.raster[1] /\ 1 \in 1..Working(ba.uniontype)
    BY <1>4 DEF Finished, Working
  <2>2. ba.raster[1].ext # {} /\ ba.raster[1].bands # <<>> /\ p \in ba.raster[1].ext
    BY <1>1, <1>3, <2>1
  <2> HIDE DEF ba
  <2>3. LET y == rt_band_get_pixel(ba.raster[1].bands[1], p)
            u == ba.uniontype
        IN  /\ u = "COUNT" => y = Is(2 * Cardinality(Having(seen, n, p)))
            /\ u \in Chooser /\ Alike(seen, n) =>
                 /\ Having(seen, n, p) = {} => y.nodata
                 /\ Having(seen, n, p) # {} => y = Is(Selected(u, seen, n, p))
            /\ u = "SUM" /\ Alike(seen, n) /\ SumsFit(ba.raster[1].bands[1], seen, n, p) =>
                 /\ Having(seen, n, p) = {} => y.nodata
                 /\ Having(seen, n, p) # {} => y = Is(Sum(seen, n, p))
    BY <1>1, <1>4, <2>2, PlainDefined
  <2> QED BY <1>1, <1>2, <1>3, <1>4, <2>1, <2>3 DEF ba
<1>5. CASE ba.uniontype = "MEAN"
  <2>1. \A j \in 1..2 : ba.raster[j].ext # {} /\ ba.raster[j].bands # <<>>
    BY <1>1, <1>5 DEF Working
  <2> SUFFICES ASSUME Alike(seen, n), SumsFit(Finished(ba).bands[1], seen, n, p)
               PROVE  LET b == Finished(ba).bands[1] IN
                      IF vs = {} THEN rt_band_get_pixel(b, p).nodata
                      ELSE rt_band_get_pixel(b, p) =
                             rt_band_get_pixel(rt_band_set_pixel(b, p, Sum(seen, n, p) \div Cardinality(K)), p)
    BY <1>1, <1>3, <1>5 DEF Chooser
  <2> HIDE DEF ba
  <2>2. LET b == Finished(ba).bands[1]
        IN  /\ K = {} => rt_band_get_pixel(b, p).nodata
            /\ K # {} => rt_band_get_pixel(b, p) =
                 rt_band_get_pixel(rt_band_set_pixel(b, p, Sum(seen, n, p) \div Cardinality(K)), p)
    BY <1>1, <1>3, <1>5, <2>1, MeanDefined
  <2> QED BY <1>2, <2>2
<1>6. CASE ba.uniontype = "RANGE"
  <2>1. \A j \in 1..2 : ba.raster[j].ext # {} /\ ba.raster[j].bands # <<>>
    BY <1>1, <1>6 DEF Working
  <2> SUFFICES ASSUME Alike(seen, n)
               PROVE  LET b == Finished(ba).bands[1] IN
                      IF vs = {} THEN rt_band_get_pixel(b, p).nodata
                      ELSE rt_band_get_pixel(b, p) =
                             rt_band_get_pixel(rt_band_set_pixel(b, p, Max(vs) - Min(vs)), p)
    BY <1>1, <1>3, <1>6 DEF Chooser
  <2> HIDE DEF ba
  <2>2. LET b == Finished(ba).bands[1]
        IN  /\ K = {} => rt_band_get_pixel(b, p).nodata
            /\ K # {} => rt_band_get_pixel(b, p) =
                 rt_band_get_pixel(rt_band_set_pixel(b, p, Max(vs) - Min(vs)), p)
    BY <1>1, <1>3, <1>6, <2>1, RangeDefined
  <2> QED BY <1>2, <2>2
<1> QED BY <1>4, <1>5, <1>6

\* ST_Union: the value at each pixel of the result is the one the union type defines: the first,
\* last, least or greatest value, the number of the values, their sum, mean or range, and
\* NODATA where there is none; for all rasters whose bands are alike, all forms of the
\* aggregate and numbers of rasters.  Counts need no likeness.
THEOREM ValueCorrect == Spec => []ValueIsDefined
<1>1. VInv /\ [Transition]_vars => VInv'
  <2>1. VInv /\ UNCHANGED vars => VInv'
    BY DEF VInv, vars, ArgsTell, Full, Numbered
  <2> QED BY <2>1, TransitionKeepsVInv
<1> QED BY InitVInv, <1>1, ResultsDefined, PTL DEF Spec

=============================================================================
