----------------------------- MODULE GeomCaches -----------------------------
(***************************************************************************)
(* The caches one function call site of a statement keeps between rows:    *)
(* the detoasted arguments (ToastCacheGetGeometry) and the geometries with *)
(* trees (GetGeomCache of src/libpgcommon/lwgeom_cache.c), which share     *)
(* reference counted copies (shared_gserialized.c).  Everything lives in   *)
(* the statement's memory context; a SHARED_GSERIALIZED made for one row   *)
(* lives in the row's context and is gone when the call returns.           *)
(*                                                                         *)
(* A Datum is what a row may bring as an argument.  Those in OnDisk are    *)
(* toasted to disk, so that valueid and toastrelid tell them apart; equal  *)
(* geometries may be stored in several of them.  heap is the memory of the *)
(* statement's context: an object whose count is 0 is free and may be      *)
(* handed out again.                                                       *)
(***************************************************************************)
EXTENDS Integers, FiniteSets, Sequences

CONSTANTS Datum,      \* arguments rows may bring
          Geometry,   \* the geometries they hold
          Value,      \* the geometry of each datum
          OnDisk,     \* the datums toasted to disk
          NoTree,     \* geometries no tree can be built for: empty or invalid
          Entry,      \* entries of GeomCache kind: PREP, ITREE, RECT, CIRC
          Uses,       \* <<entry, arguments>>: the ways the function asks for a tree
          None,       \* no datum, no geometry
          MaxObj      \* objects there is room for: one for each place that points to one

ASSUME CachesAssumption ==
  /\ Value \in [Datum -> Geometry]
  /\ OnDisk \subseteq Datum
  /\ NoTree \subseteq Geometry
  /\ Uses \subseteq Entry \X {<<1, 2>>, <<1, 0>>, <<0, 2>>, <<2, 0>>}
  /\ None \notin Datum \cup Geometry
  /\ MaxObj \in Nat

VARIABLES heap,     \* count and geometry of each object
          toast,    \* for each argument the datum cached (valueid) and its object
          cache,    \* for each entry argnum, geom1 and geom2, and the tree
          got       \* what the last call was given: its row, the arguments fetched
                    \* and those passed to which entry

vars == <<heap, toast, cache, got>>

Arg == 1..2
Obj == 1..MaxObj
Nil == 0                       \* the NULL pointer

\* The places that point to objects: a detoasted argument, a geometry of an entry.
Place == {<<"toast", a>> : a \in Arg} \cup {<<"cache", e, a>> : e \in Entry, a \in Arg}

ASSUME RoomAssumption == IsFiniteSet(Place) /\ MaxObj >= Cardinality(Place)

-----------------------------------------------------------------------------
(* Reference counts.  A SHARED_GSERIALIZED is given by its object, Nil when *)
(* it was made for this row, and its geometry.                             *)

Fresh(h) == CHOOSE o \in Obj : h[o].count = 0 /\ \A x \in Obj : h[x].count = 0 => o <= x

\* shared_gserialized_new_cached and the copy shared_gserialized_ref makes.
NewCached(h, g) == [h EXCEPT ![Fresh(h)] = [count |-> 1, geom |-> g]]

shared_gserialized_ref(h, s) ==
  IF s.obj = Nil THEN NewCached(h, s.geom) ELSE [h EXCEPT ![s.obj].count = @ + 1]

\* The object shared_gserialized_ref returns.
RefObj(h, s) == IF s.obj = Nil THEN Fresh(h) ELSE s.obj

\* The memory of an object whose count reaches 0 is freed, and what was there lost.
shared_gserialized_unref(h, o) ==
  IF o = Nil THEN h
  ELSE IF h[o].count = 1 THEN [h EXCEPT ![o] = [count |-> 0, geom |-> None]]
  ELSE [h EXCEPT ![o].count = @ - 1]

-----------------------------------------------------------------------------
(* ToastCacheGetGeometry, for argument a holding datum d: the memory, the  *)
(* cache and the SHARED_GSERIALIZED after it.                              *)

\* Faulty variant of ToastCacheGetGeometry: the object is replaced, its key is not.
ToastCacheKeepsKey(h, t, a, d) ==
  IF d \notin OnDisk THEN [heap |-> h, toast |-> t, shared |-> [obj |-> Nil, geom |-> Value[d]]]
  ELSE IF t[a].key = d
       THEN [heap |-> h, toast |-> t, shared |-> [obj |-> t[a].obj, geom |-> h[t[a].obj].geom]]
  ELSE LET free == shared_gserialized_unref(h, t[a].obj)
       IN  [heap |-> NewCached(free, Value[d]),
            toast |-> [t EXCEPT ![a] = [key |-> IF t[a].key = None THEN d ELSE t[a].key,
                                        obj |-> Fresh(free)]],
            shared |-> [obj |-> Fresh(free), geom |-> Value[d]]]

ToastCacheGetGeometry(h, t, a, d) ==
  IF d \notin OnDisk THEN [heap |-> h, toast |-> t, shared |-> [obj |-> Nil, geom |-> Value[d]]]
  ELSE IF t[a].key = d
       THEN [heap |-> h, toast |-> t, shared |-> [obj |-> t[a].obj, geom |-> h[t[a].obj].geom]]
  ELSE LET free == shared_gserialized_unref(h, t[a].obj)
       IN  [heap |-> NewCached(free, Value[d]),
            toast |-> [t EXCEPT ![a] = [key |-> d, obj |-> Fresh(free)]],
            shared |-> [obj |-> Fresh(free), geom |-> Value[d]]]

-----------------------------------------------------------------------------
(* GetGeomCache on entry c with arguments g (a sequence of two             *)
(* SHARED_GSERIALIZED, the second None when only one is passed).           *)

NoIndex == [obj |-> Nil, geom |-> None]

Matches(h, c, g, a) == g[a] # None /\ c.geom[a] # Nil /\ h[c.geom[a]].geom = g[a].geom

\* Faulty variant of Hit: the tree's argument is not asked for.
HitAny(h, c, g) == IF Matches(h, c, g, 1) THEN 1 ELSE IF Matches(h, c, g, 2) THEN 2 ELSE 0

\* cache_hit.
Hit(h, c, g) == IF c.argnum # 2 /\ Matches(h, c, g, 1) THEN 1
                ELSE IF c.argnum # 1 /\ Matches(h, c, g, 2) THEN 2 ELSE 0

\* Faulty variant of Replace: the object that was there is not released.
ReplaceUnreleased(st, a, s) ==
  IF s = None THEN st
  ELSE [heap |-> shared_gserialized_ref(st.heap, s),
        c |-> [st.c EXCEPT !.geom[a] = RefObj(st.heap, s)]]

\* The entry takes a reference to the argument in place of the one it has.
Replace(st, a, s) ==
  LET free == shared_gserialized_unref(st.heap, st.c.geom[a])
  IN  IF s = None THEN st
      ELSE [heap |-> shared_gserialized_ref(free, s),
            c |-> [st.c EXCEPT !.geom[a] = RefObj(free, s)]]

\* Faulty variant of Miss: the second argument is not taken when there is a first.
MissTakesFirst(h, c, g) ==
  LET st == [heap |-> h, c |-> [c EXCEPT !.argnum = 0, !.tree = NoIndex]]
  IN  IF g[1] # None THEN Replace(st, 1, g[1]) ELSE Replace(st, 2, g[2])

\* No hit: the tree is freed and both arguments are taken.
Miss(h, c, g) ==
  Replace(Replace([heap |-> h, c |-> [c EXCEPT !.argnum = 0, !.tree = NoIndex]], 1, g[1]), 2, g[2])

\* A hit without a tree: one is built over the entry's copy of the geometry.
Build(h, c, a) ==
  LET geom == h[c.geom[a]].geom
  IN  IF geom \in NoTree THEN c
      ELSE [c EXCEPT !.argnum = a, !.tree = [obj |-> c.geom[a], geom |-> geom]]

\* The memory and the entry afterwards.
GetGeomCache(h, c, g) ==
  LET hit == Hit(h, c, g)
  IN  IF hit = 0 THEN Miss(h, c, g)
      ELSE IF c.argnum = 0 THEN [heap |-> h, c |-> Build(h, c, hit)]
      ELSE [heap |-> h, c |-> c]

-----------------------------------------------------------------------------
(* One call of the function.                                               *)

\* What is passed to GetGeomCache as g1 and g2: 0 stands for NULL.
Passed(s, which) == [a \in Arg |-> IF which[a] = 0 THEN None ELSE s[which[a]]]

GeomOf(s) == IF s = None THEN None ELSE s.geom

\* The arguments are fetched for a row of datums d1 and d2, and the function may
\* return without asking for a tree (an empty argument, boxes that do not meet).
Fetched(d1, d2) ==
  LET one == ToastCacheGetGeometry(heap, toast, 1, d1)
      two == ToastCacheGetGeometry(one.heap, one.toast, 2, d2)
  IN  [heap |-> two.heap, toast |-> two.toast, shared |-> <<one.shared, two.shared>>]

ReturnEarly ==
  \E d1, d2 \in Datum :
    LET f == Fetched(d1, d2) IN
    /\ heap' = f.heap
    /\ toast' = f.toast
    /\ got' = [row |-> <<d1, d2>>, shared |-> f.shared, passed |-> <<None, None>>, entry |-> None]
    /\ UNCHANGED cache

AskForTree ==
  \E d1, d2 \in Datum : \E use \in Uses :
    LET f == Fetched(d1, d2)
        e == use[1]
        g == Passed(f.shared, use[2])
        after == GetGeomCache(f.heap, cache[e], g)
    IN
    /\ heap' = after.heap
    /\ toast' = f.toast
    /\ cache' = [cache EXCEPT ![e] = after.c]
    /\ got' = [row |-> <<d1, d2>>, shared |-> f.shared, passed |-> g, entry |-> e]

Init ==
  /\ heap = [o \in Obj |-> [count |-> 0, geom |-> None]]
  /\ toast = [a \in Arg |-> [key |-> None, obj |-> Nil]]
  /\ cache = [e \in Entry |-> [argnum |-> 0, geom |-> <<Nil, Nil>>, tree |-> NoIndex]]
  /\ got = [row |-> <<None, None>>, shared |-> <<NoIndex, NoIndex>>,
            passed |-> <<None, None>>, entry |-> None]

Next == ReturnEarly \/ AskForTree

Spec == Init /\ [][Next]_vars

-----------------------------------------------------------------------------
(* Properties.                                                             *)

TypeOK ==
  /\ heap \in [Obj -> [count : Nat, geom : Geometry \cup {None}]]
  /\ toast \in [Arg -> [key : OnDisk \cup {None}, obj : Obj \cup {Nil}]]
  /\ cache \in [Entry -> [argnum : 0..2, geom : [Arg -> Obj \cup {Nil}],
                          tree : [obj : Obj \cup {Nil}, geom : Geometry \cup {None}]]]

\* The count of every object is the number of places that point to it, over the
\* detoasted arguments and all entries: none is freed while something points to it,
\* and none stays when nothing does.
PointsTo(x) == IF x[1] = "toast" THEN toast[x[2]].obj ELSE cache[x[2]].geom[x[3]]
References(o) == {x \in Place : PointsTo(x) = o}

CountsAreReferences == \A o \in Obj : heap[o].count = Cardinality(References(o))

\* The function works on the geometries of its row, and goes on working on them
\* after the caches have changed: what it was handed is still allocated and holds
\* the row's geometry.
ArgumentsOfThisRow ==
  got.row[1] # None =>
    \A a \in Arg : LET s == got.shared[a] IN
      /\ s.geom = Value[got.row[a]]
      /\ s.obj # Nil => heap[s.obj].count > 0 /\ heap[s.obj].geom = s.geom

\* A tree handed to the function is a tree of the argument it is told, of this row.
TreeOfThisRow ==
  LET c == cache[got.entry] IN
  got.entry # None /\ c.argnum # 0 => /\ got.passed[c.argnum] # None
                                     /\ c.tree.geom = got.passed[c.argnum].geom

\* The nodes of a tree point into the entry's copy of the geometry: as long as there
\* is a tree its entry holds that copy, unchanged.
TreeOverLiveCopy ==
  \A e \in Entry : LET c == cache[e] IN
    IF c.argnum = 0 THEN c.tree = NoIndex
    ELSE /\ c.tree.obj = c.geom[c.argnum]
         /\ heap[c.tree.obj] = [count |-> heap[c.tree.obj].count, geom |-> c.tree.geom]
         /\ heap[c.tree.obj].count > 0

\* No tree of an earlier row and no tree over memory that is freed is ever used
\* (GetGeomCache and its builders).
TreesSound == TreeOfThisRow /\ TreeOverLiveCopy

\* Of two calls in a row that ask an entry for the same argument the second gets a
\* tree if the first got none: one miss is all that is needed to learn it, whatever
\* the caches held and the other argument is.  (An argument no tree can be built for
\* gets in the way: a hit on it leaves the other as it was.)
TreeOnTheSecondCall ==
  [][LET e == got.entry
         same(a) == got.passed[a] # None /\ GeomOf(got.passed[a]) = GeomOf(got'.passed[a])
         plain(g) == \A a \in Arg : GeomOf(g[a]) \notin NoTree
     IN  /\ e # None /\ got'.entry = e
         /\ \E a \in Arg : same(a)
         /\ plain(got.passed) /\ plain(got'.passed)
         => cache[e].argnum # 0 \/ cache'[e].argnum # 0]_vars
=============================================================================
