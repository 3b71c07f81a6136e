-------------------------- MODULE GeomCachesProofs --------------------------
(* Reference counts, arguments and trees of GeomCaches, for every set of      *)
(* datums, geometries and entries and every way a function asks for trees.    *)
(*                                                                            *)
(* The argument: each statement of the code that changes the memory either    *)
(* takes one reference away from one place or gives one to a place that has   *)
(* none (UnrefCounted, RefCounted), and leaves what any other place points    *)
(* to as it was. A call is a sequence of these.                               *)
EXTENDS GeomCaches, Integers, FiniteSets, FiniteSetTheorems, TLAPS

\* The numbers less than others are well founded.
LEMMA LessWellFounded == IsWellFoundedOn({ss \in Nat \X Nat : ss[1] < ss[2]}, Nat)
BY NatLessThanWellFounded DEF OpToRel

\* A set of numbers has a least one.
LEMMA Least ==
  ASSUME NEW S, S \subseteq Nat, S # {}
  PROVE  \E m \in S : \A k \in S : m <= k
<1> DEFINE R == {ss \in Nat \X Nat : ss[1] < ss[2]}
<1>1. IsWellFoundedOn(R, Nat)
  BY LessWellFounded
<1> HIDE DEF R
<1>2. PICK m \in S : \A k \in S : ~(<<k, m>> \in R)
  BY <1>1, WFMin
<1>3. ASSUME NEW k \in S PROVE m <= k
  <2>1. <<k, m>> \in Nat \X Nat
    OBVIOUS
  <2>2. ~(k < m)
    BY <1>2, <2>1 DEF R
  <2> QED BY <2>2
<1> QED BY <1>3

Memory == [Obj -> [count : Nat, geom : Geometry \cup {None}]]
Toasts == [Arg -> [key : OnDisk \cup {None}, obj : Obj \cup {Nil}]]
TreeType == [obj : Obj \cup {Nil}, geom : Geometry \cup {None}]
EntryType == [argnum : 0..2, geom : [Arg -> Obj \cup {Nil}], tree : TreeType]
Caches == [Entry -> EntryType]
Pointers == [Place -> Obj \cup {Nil}]
SharedType == [obj : Obj \cup {Nil}, geom : Geometry]

\* Where each place points to.
At(t, c) == [x \in Place |-> IF x[1] = "toast" THEN t[x[2]].obj ELSE c[x[2]].geom[x[3]]]

Held(at, o) == {x \in Place : at[x] = o}
Counted(h, at) == \A o \in Obj : h[o].count = Cardinality(Held(at, o))

\* What the places of S point to holds the same geometries in both memories.
Keeps(h, new, at, S) == \A x \in S : at[x] # Nil => new[at[x]].geom = h[at[x]].geom

\* The places of the detoasted arguments, and those of an entry.
ToastPlaces == {<<"toast", a>> : a \in Arg}
EntryPlaces(e) == {<<"cache", e, a>> : a \in Arg}

-----------------------------------------------------------------------------
\* The places that point to an object are counted by a number.
LEMMA HeldFinite ==
  ASSUME NEW at, NEW o
  PROVE  IsFiniteSet(Held(at, o)) /\ Cardinality(Held(at, o)) \in Nat
BY RoomAssumption, FS_Subset, FS_CardinalityType DEF Held

\* An object something points to has a count, and if that is 1 nothing else points to it.
LEMMA LiveCounted ==
  ASSUME NEW h \in Memory, NEW at \in Pointers, Counted(h, at), NEW x \in Place, at[x] # Nil
  PROVE  /\ at[x] \in Obj /\ h[at[x]].count \in Nat \ {0}
         /\ h[at[x]].count = 1 => \A y \in Place : at[y] = at[x] => y = x
<1> DEFINE o == at[x]
<1>1. o \in Obj
  BY DEF Pointers
<1>2. h[o].count = Cardinality(Held(at, o))
  BY <1>1 DEF Counted
<1>3. x \in Held(at, o)
  BY DEF Held
<1>4. Cardinality(Held(at, o)) \in Nat \ {0}
  BY <1>3, HeldFinite, FS_EmptySet
<1>5. ASSUME h[o].count = 1, NEW y \in Place, at[y] = o PROVE y = x
  <2>1. y \in Held(at, o)
    BY <1>5 DEF Held
  <2>2. PICK z : Held(at, o) = {z}
    BY <1>2, <1>5, HeldFinite, FS_Singleton
  <2> QED BY <1>3, <2>1, <2>2
<1> QED BY <1>1, <1>2, <1>4, <1>5

\* While a place points nowhere there is room for an object: shared_gserialized_new_cached
\* gets memory nothing points to.
LEMMA FreshFree ==
  ASSUME NEW h \in Memory, NEW at \in Pointers, Counted(h, at), NEW x \in Place, at[x] = Nil
  PROVE  Fresh(h) \in Obj /\ h[Fresh(h)].count = 0
<1> DEFINE Free == {o \in Obj : h[o].count = 0}
<1> DEFINE Others == Place \ {x}
<1>1. Free # {}
  <2>1. SUFFICES ASSUME Free = {} PROVE FALSE
    OBVIOUS
  <2>2. \A o \in Obj : \E y \in Others : at[y] = o
    <3>1. SUFFICES ASSUME NEW o \in Obj PROVE \E y \in Others : at[y] = o
      OBVIOUS
    <3>2. h[o].count # 0 /\ h[o].count = Cardinality(Held(at, o))
      BY <2>1 DEF Counted
    <3>3. Held(at, o) # {}
      BY <3>2, FS_EmptySet
    <3>4. PICK y \in Place : at[y] = o
      BY <3>3 DEF Held
    <3>5. y # x
      BY <3>4 DEF Obj, Nil
    <3> QED BY <3>4, <3>5
  <2> DEFINE place == [o \in Obj |-> CHOOSE y \in Others : at[y] = o]
  <2>3. place \in [Obj -> Others] /\ \A o \in Obj : at[place[o]] = o
    BY <2>2
  <2>4. place \in Injection(Obj, Others)
    BY <2>3 DEF Injection, IsInjective
  <2>5. IsFiniteSet(Others) /\ Cardinality(Others) = Cardinality(Place) - 1
    BY RoomAssumption, FS_RemoveElement
  <2>6. Cardinality(Obj) <= Cardinality(Others)
    BY <2>4, <2>5, FS_Injection
  <2>7. Cardinality(Obj) = MaxObj
    BY CachesAssumption, FS_Interval DEF Obj
  <2>8. Cardinality(Place) \in Nat
    BY RoomAssumption, FS_CardinalityType
  <2> QED BY <2>5, <2>6, <2>7, <2>8, RoomAssumption, CachesAssumption
<1>2. PICK m \in Free : \A o \in Free : m <= o
  <2>1. Free \subseteq Nat
    BY DEF Obj
  <2> HIDE DEF Free
  <2> QED BY <1>1, <2>1, Least
<1> QED BY <1>2 DEF Fresh

-----------------------------------------------------------------------------
\* shared_gserialized_unref takes one reference away: what the other places point to
\* stays, freed or not.
LEMMA UnrefCounted ==
  ASSUME NEW h \in Memory, NEW at \in Pointers, Counted(h, at), NEW x \in Place
  PROVE  LET new == shared_gserialized_unref(h, at[x])
             there == [at EXCEPT ![x] = Nil]
         IN  /\ new \in Memory /\ there \in Pointers
             /\ Counted(new, there)
             /\ Keeps(h, new, at, Place \ {x})
<1> DEFINE o == at[x]
<1> DEFINE new == shared_gserialized_unref(h, o)
<1> DEFINE there == [at EXCEPT ![x] = Nil]
<1>1. there \in Pointers
  BY DEF Pointers
<1>2. CASE o = Nil
  <2>1. new = h /\ there = at
    BY <1>2 DEF shared_gserialized_unref, Pointers
  <2> QED BY <2>1, <1>1 DEF Keeps
<1>3. CASE o # Nil
  <2>1. o \in Obj /\ h[o].count \in Nat \ {0}
    BY <1>3, LiveCounted
  <2>2. new \in Memory /\ new[o].count = h[o].count - 1
    BY <1>3, <2>1 DEF shared_gserialized_unref, Memory
  <2>3. \A q \in Obj \ {o} : new[q] = h[q]
    BY <1>3, <2>1 DEF shared_gserialized_unref, Memory
  <2>4. ASSUME NEW q \in Obj PROVE new[q].count = Cardinality(Held(there, q))
    <3>1. q # Nil
      BY DEF Obj, Nil
    <3>2. Held(there, q) = Held(at, q) \ {x}
      BY <3>1 DEF Held, Pointers
    <3>3. IsFiniteSet(Held(at, q)) /\ h[q].count = Cardinality(Held(at, q))
      BY HeldFinite DEF Counted
    <3>4. CASE q = o
      <4>1. x \in Held(at, q)
        BY <3>4 DEF Held
      <4>2. Cardinality(Held(there, q)) = Cardinality(Held(at, q)) - 1
        BY <3>2, <3>3, <4>1, FS_RemoveElement
      <4> QED BY <3>3, <3>4, <4>2, <2>2
    <3>5. CASE q # o
      <4>1. Held(there, q) = Held(at, q)
        BY <3>2, <3>5 DEF Held
      <4> QED BY <3>3, <3>5, <4>1, <2>3
    <3> QED BY <3>4, <3>5
  <2>5. ASSUME NEW y \in Place \ {x}, at[y] # Nil PROVE new[at[y]].geom = h[at[y]].geom
    <3>1. at[y] \in Obj
      BY <2>5 DEF Pointers
    <3>2. CASE at[y] = o
      <4>1. h[o].count # 1
        BY <3>2, <2>5, <1>3, LiveCounted
      <4> QED BY <3>2, <4>1, <1>3, <2>1 DEF shared_gserialized_unref, Memory
    <3> QED BY <3>1, <3>2, <2>3
  <2> QED BY <1>1, <2>2, <2>4, <2>5 DEF Counted, Keeps
<1> QED BY <1>2, <1>3

\* An object is given to a place that has none: the count of the object, when it goes up
\* by one, is right again.
LEMMA GivenCounted ==
  ASSUME NEW h \in Memory, NEW at \in Pointers, Counted(h, at), NEW x \in Place, at[x] = Nil,
         NEW o \in Obj, NEW new \in Memory, new[o].count = h[o].count + 1,
         \A q \in Obj \ {o} : new[q].count = h[q].count
  PROVE  [at EXCEPT ![x] = o] \in Pointers /\ Counted(new, [at EXCEPT ![x] = o])
<1> DEFINE there == [at EXCEPT ![x] = o]
<1>1. there \in Pointers
  BY DEF Pointers
<1>2. there = [at EXCEPT ![x] = o]
  OBVIOUS
<1> HIDE DEF there
<1>3. ASSUME NEW q \in Obj PROVE new[q].count = Cardinality(Held(there, q))
  <2>1. x \notin Held(at, q)
    BY DEF Held, Obj, Nil
  <2>2. IsFiniteSet(Held(at, q)) /\ h[q].count = Cardinality(Held(at, q))
    BY HeldFinite DEF Counted
  <2>3. CASE q = o
    <3>1. Held(there, q) = Held(at, q) \cup {x}
      BY <1>2, <2>3 DEF Held, Pointers
    <3>2. Cardinality(Held(there, q)) = Cardinality(Held(at, q)) + 1
      BY <2>1, <2>2, <3>1, FS_AddElement
    <3> QED BY <2>2, <2>3, <3>2
  <2>4. CASE q # o
    <3>1. Held(there, q) = Held(at, q)
      BY <1>2, <2>1, <2>4 DEF Held, Pointers
    <3> QED BY <2>2, <2>4, <3>1
  <2> QED BY <2>3, <2>4
<1> QED BY <1>1, <1>2, <1>3 DEF Counted

\* shared_gserialized_new_cached gives a place an object of its own.
LEMMA NewCounted ==
  ASSUME NEW h \in Memory, NEW at \in Pointers, Counted(h, at), NEW x \in Place, at[x] = Nil,
         NEW g \in Geometry
  PROVE  LET new == NewCached(h, g)
             there == [at EXCEPT ![x] = Fresh(h)]
         IN  /\ Fresh(h) \in Obj
             /\ new \in Memory /\ there \in Pointers
             /\ Counted(new, there)
             /\ new[Fresh(h)].geom = g
             /\ Keeps(h, new, at, Place)
<1> DEFINE o == Fresh(h)
<1> DEFINE new == NewCached(h, g)
<1>1. o \in Obj /\ h[o].count = 0
  BY FreshFree
<1>2. /\ new \in Memory /\ new[o].count = h[o].count + 1 /\ new[o].geom = g
      /\ \A q \in Obj \ {o} : new[q] = h[q]
  <2> HIDE DEF o
  <2>1. new = [h EXCEPT ![o] = [count |-> 1, geom |-> g]]
    BY DEF NewCached, o
  <2> HIDE DEF new
  <2> QED BY <1>1, <2>1 DEF Memory
<1>3. ASSUME NEW y \in Place, at[y] # Nil PROVE new[at[y]].geom = h[at[y]].geom
  <2>1. at[y] \in Obj /\ h[at[y]].count # 0
    BY <1>3, LiveCounted
  <2> QED BY <2>1, <1>1, <1>2
<1>4. [at EXCEPT ![x] = o] \in Pointers /\ Counted(new, [at EXCEPT ![x] = o])
  BY <1>1, <1>2, GivenCounted
<1> QED BY <1>1, <1>2, <1>3, <1>4 DEF Keeps

\* shared_gserialized_ref does it too, or shares the object of an argument that has one.
LEMMA RefCounted ==
  ASSUME NEW h \in Memory, NEW at \in Pointers, Counted(h, at), NEW x \in Place, at[x] = Nil,
         NEW s \in SharedType,
         s.obj # Nil => h[s.obj].geom = s.geom
  PROVE  LET new == shared_gserialized_ref(h, s)
             there == [at EXCEPT ![x] = RefObj(h, s)]
         IN  /\ RefObj(h, s) \in Obj
             /\ new \in Memory /\ there \in Pointers
             /\ Counted(new, there)
             /\ new[RefObj(h, s)].geom = s.geom
             /\ Keeps(h, new, at, Place)
<1>1. CASE s.obj = Nil
  <2>1. s.geom \in Geometry
    BY DEF SharedType
  <2> QED BY <1>1, <2>1, NewCounted DEF shared_gserialized_ref, RefObj
<1>2. CASE s.obj # Nil
  <2> DEFINE o == s.obj
  <2> DEFINE new == shared_gserialized_ref(h, s)
  <2>1. o \in Obj /\ RefObj(h, s) = o
    BY <1>2 DEF RefObj, SharedType
  <2>2. new = [h EXCEPT ![o].count = @ + 1]
    BY <1>2 DEF shared_gserialized_ref
  <2>3. /\ new \in Memory /\ new[o].count = h[o].count + 1
        /\ \A q \in Obj \ {o} : new[q] = h[q]
        /\ \A q \in Obj : new[q].geom = h[q].geom
    <3> HIDE DEF o, new
    <3> QED BY <2>1, <2>2 DEF Memory
  <2>4. [at EXCEPT ![x] = o] \in Pointers /\ Counted(new, [at EXCEPT ![x] = o])
    BY <2>1, <2>3, GivenCounted
  <2>5. Keeps(h, new, at, Place)
    BY <2>3 DEF Keeps, Pointers
  <2> QED BY <1>2, <2>1, <2>3, <2>4, <2>5
<1> QED BY <1>1, <1>2

\* A place gives up what it points to and takes an argument instead, in the order of
\* the code: the argument outlives this because a detoasted argument points to it too.
LEMMA Replaced ==
  ASSUME NEW h \in Memory, NEW at \in Pointers, Counted(h, at), NEW x \in Place,
         NEW s \in SharedType,
         s.obj # Nil => h[s.obj].geom = s.geom /\ \E y \in Place \ {x} : at[y] = s.obj
  PROVE  LET free == shared_gserialized_unref(h, at[x])
             new == shared_gserialized_ref(free, s)
             there == [at EXCEPT ![x] = RefObj(free, s)]
         IN  /\ RefObj(free, s) \in Obj
             /\ new \in Memory /\ there \in Pointers
             /\ Counted(new, there)
             /\ new[RefObj(free, s)].geom = s.geom
             /\ Keeps(h, new, at, Place \ {x})
<1> DEFINE free == shared_gserialized_unref(h, at[x])
<1> DEFINE between == [at EXCEPT ![x] = Nil]
<1> DEFINE new == shared_gserialized_ref(free, s)
<1> DEFINE o == RefObj(free, s)
<1>1. /\ free \in Memory /\ between \in Pointers
      /\ Counted(free, between) /\ Keeps(h, free, at, Place \ {x})
  BY UnrefCounted
<1>2. between[x] = Nil /\ \A y \in Place \ {x} : between[y] = at[y]
  BY DEF Pointers
<1>3. [between EXCEPT ![x] = o] = [at EXCEPT ![x] = o]
  BY DEF Pointers
<1>4. s.obj # Nil => free[s.obj].geom = s.geom
  BY <1>1 DEF Keeps
<1> HIDE DEF free, between
<1>5. /\ o \in Obj /\ new \in Memory /\ [between EXCEPT ![x] = o] \in Pointers
      /\ Counted(new, [between EXCEPT ![x] = o]) /\ new[o].geom = s.geom
      /\ Keeps(free, new, between, Place)
  BY <1>1, <1>2, <1>4, RefCounted
<1>6. Keeps(h, new, at, Place \ {x})
  BY <1>1, <1>2, <1>5 DEF Keeps
<1> QED BY <1>3, <1>5, <1>6 DEF free

-----------------------------------------------------------------------------
\* A detoasted argument is the datum it is kept for.
Keyed(h, t) ==
  \A a \in Arg : t[a].key # None => t[a].obj # Nil /\ h[t[a].obj].geom = Value[t[a].key]

Sound(h, t, c) ==
  /\ h \in Memory /\ t \in Toasts /\ c \in Caches
  /\ Counted(h, At(t, c))
  /\ Keyed(h, t)

\* The places of the two caches.
LEMMA Places ==
  ASSUME NEW t \in Toasts, NEW c \in Caches
  PROVE  /\ At(t, c) \in Pointers
         /\ \A a \in Arg : <<"toast", a>> \in Place /\ At(t, c)[<<"toast", a>>] = t[a].obj
         /\ \A e \in Entry, a \in Arg : /\ <<"cache", e, a>> \in Place
                                        /\ At(t, c)[<<"cache", e, a>>] = c[e].geom[a]
<1>1. \A a \in Arg : <<"toast", a>> \in Place /\ At(t, c)[<<"toast", a>>] = t[a].obj
  BY DEF Place, At
<1>2. \A e \in Entry, a \in Arg : /\ <<"cache", e, a>> \in Place
                                  /\ At(t, c)[<<"cache", e, a>>] = c[e].geom[a]
  BY DEF Place, At
<1>3. ASSUME NEW x \in Place PROVE At(t, c)[x] \in Obj \cup {Nil}
  <2>1. CASE \E a \in Arg : x = <<"toast", a>>
    BY <2>1, <1>1 DEF Toasts
  <2>2. CASE \E e \in Entry, a \in Arg : x = <<"cache", e, a>>
    BY <2>2, <1>2 DEF Caches, EntryType
  <2> QED BY <2>1, <2>2 DEF Place
<1> QED BY <1>1, <1>2, <1>3 DEF Pointers, At

\* A detoasted argument that is replaced moves one place.
LEMMA ToastMoves ==
  ASSUME NEW t \in Toasts, NEW c \in Caches, NEW a \in Arg, NEW k \in OnDisk \cup {None},
         NEW o \in Obj \cup {Nil}
  PROVE  At([t EXCEPT ![a] = [key |-> k, obj |-> o]], c) = [At(t, c) EXCEPT ![<<"toast", a>>] = o]
<1> DEFINE t2 == [t EXCEPT ![a] = [key |-> k, obj |-> o]]
<1>1. ASSUME NEW x \in Place PROVE At(t2, c)[x] = [At(t, c) EXCEPT ![<<"toast", a>>] = o][x]
  <2>1. CASE \E b \in Arg : x = <<"toast", b>>
    BY <2>1 DEF At, Toasts
  <2>2. CASE \E e \in Entry, b \in Arg : x = <<"cache", e, b>>
    BY <2>2 DEF At
  <2> QED BY <2>1, <2>2 DEF Place
<1> QED BY <1>1 DEF At

\* So does a geometry of an entry.
LEMMA CacheMoves ==
  ASSUME NEW t \in Toasts, NEW c \in Caches, NEW e \in Entry, NEW a \in Arg, NEW q,
         NEW o \in Obj \cup {Nil}, q.geom = [c[e].geom EXCEPT ![a] = o]
  PROVE  At(t, [c EXCEPT ![e] = q]) = [At(t, c) EXCEPT ![<<"cache", e, a>>] = o]
<1> DEFINE c2 == [c EXCEPT ![e] = q]
<1>1. ASSUME NEW x \in Place PROVE At(t, c2)[x] = [At(t, c) EXCEPT ![<<"cache", e, a>>] = o][x]
  <2>1. CASE \E b \in Arg : x = <<"toast", b>>
    BY <2>1 DEF At
  <2>2. CASE \E f \in Entry, b \in Arg : x = <<"cache", f, b>>
    BY <2>2 DEF At, Caches, EntryType
  <2> QED BY <2>1, <2>2 DEF Place
<1> QED BY <1>1 DEF At

\* An argument that was fetched: it is in its detoasted place, or it is the row's own.
Fetch(h, t, a, s) == /\ s \in SharedType
                     /\ s.obj # Nil => s.obj = t[a].obj /\ h[s.obj].geom = s.geom

\* ToastCacheGetGeometry hands out the geometry of its datum, and nothing but the
\* argument's own place changes.
LEMMA ToastSound ==
  ASSUME NEW h, NEW t, NEW c, Sound(h, t, c), NEW a \in Arg, NEW d \in Datum
  PROVE  LET r == ToastCacheGetGeometry(h, t, a, d)
         IN  /\ Sound(r.heap, r.toast, c)
             /\ \A b \in Arg \ {a} : r.toast[b] = t[b]
             /\ Keeps(h, r.heap, At(t, c), Place \ {<<"toast", a>>})
             /\ Fetch(r.heap, r.toast, a, r.shared) /\ r.shared.geom = Value[d]
<1> DEFINE r == ToastCacheGetGeometry(h, t, a, d)
<1> DEFINE x == <<"toast", a>>
<1>1. h \in Memory /\ t \in Toasts /\ c \in Caches /\ Counted(h, At(t, c)) /\ Keyed(h, t)
  BY DEF Sound
<1>2. At(t, c) \in Pointers /\ x \in Place /\ At(t, c)[x] = t[a].obj
  BY <1>1, Places
<1>3. Value[d] \in Geometry /\ (d \in OnDisk => d # None)
  BY CachesAssumption
<1>4. CASE d \notin OnDisk
  <2>1. r = [heap |-> h, toast |-> t, shared |-> [obj |-> Nil, geom |-> Value[d]]]
    BY <1>4 DEF ToastCacheGetGeometry
  <2> QED BY <2>1, <1>3 DEF Keeps, Fetch, SharedType
<1>5. CASE d \in OnDisk /\ t[a].key = d
  <2>1. r = [heap |-> h, toast |-> t, shared |-> [obj |-> t[a].obj, geom |-> h[t[a].obj].geom]]
    BY <1>5 DEF ToastCacheGetGeometry
  <2>2. t[a].obj \in Obj \cup {Nil} /\ h[t[a].obj].geom = Value[d]
    BY <1>1, <1>3, <1>5 DEF Toasts, Keyed
  <2> QED BY <2>1, <2>2, <1>3 DEF Keeps, Fetch, SharedType
<1>6. CASE d \in OnDisk /\ t[a].key # d
  <2> DEFINE free == shared_gserialized_unref(h, t[a].obj)
  <2> DEFINE o == Fresh(free)
  <2> DEFINE s == [obj |-> Nil, geom |-> Value[d]]
  <2>1. /\ r.heap = NewCached(free, Value[d])
        /\ r.toast = [t EXCEPT ![a] = [key |-> d, obj |-> o]]
        /\ r.shared = [obj |-> o, geom |-> Value[d]]
    BY <1>6 DEF ToastCacheGetGeometry
  <2>2. r.heap = shared_gserialized_ref(free, s) /\ o = RefObj(free, s)
    BY <2>1 DEF shared_gserialized_ref, RefObj
  <2>3. s \in SharedType
    BY <1>3 DEF SharedType
  <2>4. /\ o \in Obj /\ r.heap \in Memory /\ Counted(r.heap, [At(t, c) EXCEPT ![x] = o])
        /\ r.heap[o].geom = Value[d] /\ Keeps(h, r.heap, At(t, c), Place \ {x})
    <3> HIDE DEF x, o, s, r
    <3>1. s.obj = Nil /\ s.geom = Value[d]
      BY DEF s
    <3> QED BY <1>1, <1>2, <2>2, <2>3, <3>1, Replaced
  <2>5. At(r.toast, c) = [At(t, c) EXCEPT ![x] = o]
    <3> HIDE DEF o
    <3> QED BY <1>1, <1>6, <2>1, <2>4, ToastMoves
  <2>6. r.toast \in Toasts /\ r.toast[a] = [key |-> d, obj |-> o] /\ \A b \in Arg \ {a} : r.toast[b] = t[b]
    <3> HIDE DEF o, r
    <3> QED BY <1>1, <1>6, <2>1, <2>4 DEF Toasts
  <2> HIDE DEF r, o
  <2>7. Keyed(r.heap, r.toast)
    <3>1. SUFFICES ASSUME NEW b \in Arg, r.toast[b].key # None
                   PROVE r.toast[b].obj # Nil /\ r.heap[r.toast[b].obj].geom = Value[r.toast[b].key]
      BY DEF Keyed
    <3>2. CASE b = a
      BY <3>2, <2>4, <2>6 DEF Obj, Nil
    <3>3. CASE b # a
      <4>1. t[b].obj # Nil /\ h[t[b].obj].geom = Value[t[b].key]
        BY <3>1, <3>3, <2>6, <1>1 DEF Keyed
      <4>2. <<"toast", b>> \in Place \ {x} /\ At(t, c)[<<"toast", b>>] = t[b].obj
        BY <3>3, <1>1, Places
      <4>3. r.heap[t[b].obj].geom = h[t[b].obj].geom
        BY <2>4, <4>1, <4>2 DEF Keeps
      <4> QED BY <3>3, <4>1, <4>3, <2>6
    <3> QED BY <3>2, <3>3
  <2>8. Fetch(r.heap, r.toast, a, r.shared) /\ r.shared.geom = Value[d]
    BY <2>1, <2>4, <2>6, <1>3 DEF Fetch, SharedType
  <2> QED BY <1>1, <2>4, <2>5, <2>6, <2>7, <2>8 DEF Sound, r
<1> QED BY <1>4, <1>5, <1>6

\* What one entry does keeps the detoasted arguments as they are.
LEMMA FetchKept ==
  ASSUME NEW h, NEW t, NEW c, Sound(h, t, c), NEW new, NEW S, Keeps(h, new, At(t, c), S),
         NEW a \in Arg, <<"toast", a>> \in S, NEW s, Fetch(h, t, a, s)
  PROVE  Fetch(new, t, a, s)
<1>1. At(t, c)[<<"toast", a>>] = t[a].obj
  BY Places DEF Sound
<1> QED BY <1>1 DEF Fetch, Keeps

\* Both arguments are fetched, the second without harm to the first.
LEMMA FetchedSound ==
  ASSUME Sound(heap, toast, cache), NEW d1 \in Datum, NEW d2 \in Datum
  PROVE  LET f == Fetched(d1, d2)
         IN  /\ Sound(f.heap, f.toast, cache)
             /\ Keeps(heap, f.heap, At(toast, cache), Place \ ToastPlaces)
             /\ \A a \in Arg : /\ Fetch(f.heap, f.toast, a, f.shared[a])
                               /\ f.shared[a].geom = Value[<<d1, d2>>[a]]
<1> DEFINE one == ToastCacheGetGeometry(heap, toast, 1, d1)
<1> DEFINE two == ToastCacheGetGeometry(one.heap, one.toast, 2, d2)
<1> DEFINE f == Fetched(d1, d2)
<1>1. f = [heap |-> two.heap, toast |-> two.toast, shared |-> <<one.shared, two.shared>>]
  BY DEF Fetched
<1>2. /\ Sound(one.heap, one.toast, cache)
      /\ Keeps(heap, one.heap, At(toast, cache), Place \ {<<"toast", 1>>})
      /\ Fetch(one.heap, one.toast, 1, one.shared) /\ one.shared.geom = Value[d1]
      /\ one.toast[2] = toast[2]
  <2> HIDE DEF one
  <2>1. one = ToastCacheGetGeometry(heap, toast, 1, d1) /\ 1 \in Arg /\ 2 \in Arg \ {1}
    BY DEF one, Arg
  <2> QED BY <2>1, ToastSound
<1> HIDE DEF one
<1>3. /\ Sound(two.heap, two.toast, cache)
      /\ Keeps(one.heap, two.heap, At(one.toast, cache), Place \ {<<"toast", 2>>})
      /\ Fetch(two.heap, two.toast, 2, two.shared) /\ two.shared.geom = Value[d2]
      /\ two.toast[1] = one.toast[1]
  <2> HIDE DEF two
  <2>1. two = ToastCacheGetGeometry(one.heap, one.toast, 2, d2) /\ 2 \in Arg /\ 1 \in Arg \ {2}
    BY DEF two, Arg
  <2>2. Sound(one.heap, one.toast, cache)
    BY <1>2
  <2> DEFINE h == one.heap
  <2> DEFINE u == one.toast
  <2> DEFINE a == 2
  <2>3. two = ToastCacheGetGeometry(h, u, a, d2) /\ Sound(h, u, cache) /\ a \in Arg
    BY <2>1, <2>2
  <2> HIDE DEF h, u, a
  <2>4. /\ Sound(two.heap, two.toast, cache)
        /\ \A b \in Arg \ {a} : two.toast[b] = u[b]
        /\ Keeps(h, two.heap, At(u, cache), Place \ {<<"toast", a>>})
        /\ Fetch(two.heap, two.toast, a, two.shared) /\ two.shared.geom = Value[d2]
    BY <2>3, ToastSound
  <2> QED BY <2>1, <2>4 DEF h, u, a
<1> HIDE DEF two
<1>4. Fetch(two.heap, two.toast, 1, one.shared)
  <2>1. 1 \in Arg /\ <<"toast", 1>> \in Place \ {<<"toast", 2>>}
    BY DEF Arg, Place
  <2>2. Fetch(two.heap, one.toast, 1, one.shared)
    BY <1>2, <1>3, <2>1, FetchKept
  <2> QED BY <2>2, <1>3 DEF Fetch
<1>5. Keeps(heap, two.heap, At(toast, cache), Place \ ToastPlaces)
  <2>1. SUFFICES ASSUME NEW e \in Entry, NEW a \in Arg, cache[e].geom[a] # Nil
                 PROVE  two.heap[cache[e].geom[a]].geom = heap[cache[e].geom[a]].geom
    BY Places DEF Keeps, Sound, Place, ToastPlaces
  <2>2. <<"cache", e, a>> \in Place /\ <<"cache", e, a>> \notin {<<"toast", b>> : b \in Arg}
    BY DEF Place
  <2>3. At(toast, cache)[<<"cache", e, a>>] = cache[e].geom[a]
    BY Places DEF Sound
  <2>4. At(one.toast, cache)[<<"cache", e, a>>] = cache[e].geom[a]
    BY <1>2, Places DEF Sound
  <2>5. one.heap[cache[e].geom[a]].geom = heap[cache[e].geom[a]].geom
    BY <1>2, <2>1, <2>2, <2>3 DEF Keeps
  <2>6. two.heap[cache[e].geom[a]].geom = one.heap[cache[e].geom[a]].geom
    BY <1>3, <2>1, <2>2, <2>4 DEF Keeps
  <2> QED BY <2>5, <2>6
<1> HIDE DEF f
<1>6. ASSUME NEW a \in Arg PROVE /\ Fetch(f.heap, f.toast, a, f.shared[a])
                                 /\ f.shared[a].geom = Value[<<d1, d2>>[a]]
  <2>1. CASE a = 1
    BY <2>1, <1>1, <1>2, <1>4
  <2>2. CASE a = 2
    BY <2>2, <1>1, <1>3
  <2> QED BY <2>1, <2>2 DEF Arg
<1> QED BY <1>1, <1>3, <1>5, <1>6 DEF f

-----------------------------------------------------------------------------
\* An entry takes an argument in place of what it has: nothing else changes.
LEMMA ReplaceSound ==
  ASSUME NEW h, NEW t, NEW c, Sound(h, t, c), NEW e \in Entry, NEW a \in Arg,
         NEW s, s = None \/ \E b \in Arg : Fetch(h, t, b, s)
  PROVE  LET r == Replace([heap |-> h, c |-> c[e]], a, s)
         IN  /\ Sound(r.heap, t, [c EXCEPT ![e] = r.c])
             /\ r.c.argnum = c[e].argnum /\ r.c.tree = c[e].tree
             /\ Keeps(h, r.heap, At(t, c), Place \ {<<"cache", e, a>>})
             /\ s # None => r.c.geom[a] # Nil /\ r.heap[r.c.geom[a]].geom = s.geom
<1> DEFINE r == Replace([heap |-> h, c |-> c[e]], a, s)
<1> DEFINE x == <<"cache", e, a>>
<1>1. h \in Memory /\ t \in Toasts /\ c \in Caches /\ Counted(h, At(t, c)) /\ Keyed(h, t)
  BY DEF Sound
<1>2. At(t, c) \in Pointers /\ x \in Place /\ At(t, c)[x] = c[e].geom[a]
  BY <1>1, Places
<1>3. CASE s = None
  <2>1. r = [heap |-> h, c |-> c[e]]
    BY <1>3 DEF Replace
  <2>2. [c EXCEPT ![e] = c[e]] = c
    BY <1>1 DEF Caches, EntryType
  <2> QED BY <1>3, <2>1, <2>2 DEF Keeps
<1>4. CASE s # None
  <2> DEFINE free == shared_gserialized_unref(h, c[e].geom[a])
  <2> DEFINE o == RefObj(free, s)
  <2> DEFINE q == [c[e] EXCEPT !.geom[a] = o]
  <2>1. PICK b \in Arg : Fetch(h, t, b, s)
    BY <1>4
  <2>2. r = [heap |-> shared_gserialized_ref(free, s), c |-> q]
    BY <1>4 DEF Replace
  <2>3. s \in SharedType
    BY <2>1 DEF Fetch
  <2>4. s.obj # Nil => h[s.obj].geom = s.geom /\ \E y \in Place \ {x} : At(t, c)[y] = s.obj
    <3>1. <<"toast", b>> \in Place \ {x} /\ At(t, c)[<<"toast", b>>] = t[b].obj
      BY <1>1, Places
    <3> QED BY <2>1, <3>1 DEF Fetch
  <2>5. /\ o \in Obj /\ r.heap \in Memory /\ Counted(r.heap, [At(t, c) EXCEPT ![x] = o])
        /\ r.heap[o].geom = s.geom /\ Keeps(h, r.heap, At(t, c), Place \ {x})
    <3>1. r.heap = shared_gserialized_ref(shared_gserialized_unref(h, At(t, c)[x]), s)
      BY <1>2, <2>2
    <3>2. o = RefObj(shared_gserialized_unref(h, At(t, c)[x]), s)
      BY <1>2
    <3> DEFINE at == At(t, c)
    <3>3. /\ at \in Pointers /\ Counted(h, at)
          /\ s.obj # Nil => h[s.obj].geom = s.geom /\ \E y \in Place \ {x} : at[y] = s.obj
      BY <1>1, <1>2, <2>4
    <3>4. /\ r.heap = shared_gserialized_ref(shared_gserialized_unref(h, at[x]), s)
          /\ o = RefObj(shared_gserialized_unref(h, at[x]), s)
      BY <3>1, <3>2
    <3> HIDE DEF x, o, r, at
    <3>5. /\ o \in Obj /\ r.heap \in Memory /\ Counted(r.heap, [at EXCEPT ![x] = o])
          /\ r.heap[o].geom = s.geom /\ Keeps(h, r.heap, at, Place \ {x})
      BY <1>1, <1>2, <2>3, <3>3, <3>4, Replaced
    <3> QED BY <3>5 DEF at
  <2> HIDE DEF o
  <2>6. /\ q.geom = [c[e].geom EXCEPT ![a] = o] /\ q.argnum = c[e].argnum /\ q.tree = c[e].tree
        /\ [c EXCEPT ![e] = q] \in Caches
    BY <1>1, <2>5 DEF Caches, EntryType
  <2>7. r.c = q
    BY <2>2
  <2> HIDE DEF q, r
  <2>8. At(t, [c EXCEPT ![e] = q]) = [At(t, c) EXCEPT ![x] = o]
    BY <1>1, <2>5, <2>6, CacheMoves
  <2>9. Keyed(r.heap, t)
    <3>1. SUFFICES ASSUME NEW k \in Arg, t[k].key # None
                   PROVE t[k].obj # Nil /\ r.heap[t[k].obj].geom = Value[t[k].key]
      BY DEF Keyed
    <3>2. t[k].obj # Nil /\ h[t[k].obj].geom = Value[t[k].key]
      BY <3>1, <1>1 DEF Keyed
    <3>3. <<"toast", k>> \in Place \ {x} /\ At(t, c)[<<"toast", k>>] = t[k].obj
      BY <1>1, Places
    <3> QED BY <2>5, <3>2, <3>3 DEF Keeps
  <2>10. Sound(r.heap, t, [c EXCEPT ![e] = r.c])
    BY <1>1, <2>5, <2>6, <2>7, <2>8, <2>9 DEF Sound
  <2>11. r.c.geom[a] = o /\ o # Nil
    <3>1. c[e].geom \in [Arg -> Obj \cup {Nil}]
      BY <1>1 DEF Caches, EntryType
    <3> QED BY <2>5, <2>6, <2>7, <3>1 DEF Obj, Nil
  <2> QED BY <2>5, <2>6, <2>7, <2>10, <2>11 DEF r
<1> QED BY <1>3, <1>4

\* The other argument of the entry stays.
LEMMA ReplaceElsewhere ==
  ASSUME NEW h, NEW q \in EntryType, NEW a \in Arg, NEW s, NEW b \in Arg, b # a
  PROVE  Replace([heap |-> h, c |-> q], a, s).c.geom[b] = q.geom[b]
BY DEF Replace, EntryType

\* What GetGeomCache is given for an argument that is passed.
Given(h, t, g) == \A a \in Arg : g[a] = None \/ \E b \in Arg : Fetch(h, t, b, g[a])

\* An entry without its tree is an entry.
LEMMA WithoutTree ==
  ASSUME NEW q \in EntryType
  PROVE  LET bare == [q EXCEPT !.argnum = 0, !.tree = NoIndex]
         IN  /\ bare \in EntryType /\ bare.argnum = 0 /\ bare.tree = NoIndex
             /\ bare.geom = q.geom
<1>1. NoIndex \in TreeType /\ 0 \in 0..2
  BY DEF NoIndex, TreeType
<1> QED BY <1>1 DEF EntryType

\* What a miss of an entry leaves: no tree, and copies of what was passed.
Missed(h, t, c, e, g, r) ==
  /\ Sound(r.heap, t, [c EXCEPT ![e] = r.c])
  /\ r.c.argnum = 0 /\ r.c.tree = NoIndex
  /\ Keeps(h, r.heap, At(t, c), Place \ EntryPlaces(e))
  /\ \A a \in Arg : g[a] # None => /\ r.c.geom[a] # Nil
                                   /\ r.heap[r.c.geom[a]].geom = g[a].geom

\* A miss: the entry loses its tree and takes what it is passed.
LEMMA MissSound ==
  ASSUME NEW h, NEW t, NEW c, Sound(h, t, c), NEW e \in Entry, NEW g, Given(h, t, g)
  PROVE  Missed(h, t, c, e, g, Miss(h, c[e], g))
<1> DEFINE bare == [c[e] EXCEPT !.argnum = 0, !.tree = NoIndex]
<1> DEFINE c0 == [c EXCEPT ![e] = bare]
<1> DEFINE one == Replace([heap |-> h, c |-> bare], 1, g[1])
<1> DEFINE c1 == [c0 EXCEPT ![e] = one.c]
<1> DEFINE two == Replace([heap |-> one.heap, c |-> one.c], 2, g[2])
<1> DEFINE c2 == [c1 EXCEPT ![e] = two.c]
<1>1. h \in Memory /\ t \in Toasts /\ c \in Caches /\ Counted(h, At(t, c)) /\ Keyed(h, t)
  BY DEF Sound
<1>2. /\ c0 \in Caches /\ c0[e] = bare /\ bare.argnum = 0 /\ bare.tree = NoIndex
      /\ bare.geom = c[e].geom
  <2>1. c[e] \in EntryType
    BY <1>1 DEF Caches
  <2>2. /\ bare \in EntryType /\ bare.argnum = 0 /\ bare.tree = NoIndex
        /\ bare.geom = c[e].geom
    BY <2>1, WithoutTree
  <2> HIDE DEF bare
  <2> QED BY <1>1, <2>2 DEF Caches
<1>3. At(t, c0) = At(t, c)
  <2>1. ASSUME NEW y \in Place PROVE At(t, c0)[y] = At(t, c)[y]
    <3>1. CASE \E b \in Arg : y = <<"toast", b>>
      BY <3>1 DEF At
    <3>2. CASE \E f \in Entry, b \in Arg : y = <<"cache", f, b>>
      BY <3>2, <1>1, <1>2 DEF At, Caches, EntryType
    <3> QED BY <3>1, <3>2 DEF Place
  <2> QED BY <2>1 DEF At
<1>4. Sound(h, t, c0)
  BY <1>1, <1>2, <1>3 DEF Sound
<1> HIDE DEF bare, c0
<1>5. /\ Sound(one.heap, t, c1)
      /\ one.c.argnum = 0 /\ one.c.tree = NoIndex
      /\ Keeps(h, one.heap, At(t, c), Place \ {<<"cache", e, 1>>})
      /\ g[1] # None => one.c.geom[1] # Nil /\ one.heap[one.c.geom[1]].geom = g[1].geom
  <2> HIDE DEF one
  <2>1. one = Replace([heap |-> h, c |-> c0[e]], 1, g[1]) /\ 1 \in Arg
    BY <1>2 DEF one, Arg
  <2>2. g[1] = None \/ \E b \in Arg : Fetch(h, t, b, g[1])
    BY <2>1 DEF Given
  <2>3. /\ Sound(one.heap, t, [c0 EXCEPT ![e] = one.c])
        /\ one.c.argnum = c0[e].argnum /\ one.c.tree = c0[e].tree
        /\ Keeps(h, one.heap, At(t, c0), Place \ {<<"cache", e, 1>>})
        /\ g[1] # None => one.c.geom[1] # Nil /\ one.heap[one.c.geom[1]].geom = g[1].geom
    <3> DEFINE a == 1
    <3> DEFINE s == g[1]
    <3>1. one = Replace([heap |-> h, c |-> c0[e]], a, s) /\ a \in Arg
      BY <2>1
    <3>2. s = None \/ \E b \in Arg : Fetch(h, t, b, s)
      BY <2>2
    <3> HIDE DEF a, s
    <3>3. /\ Sound(one.heap, t, [c0 EXCEPT ![e] = one.c])
          /\ one.c.argnum = c0[e].argnum /\ one.c.tree = c0[e].tree
          /\ Keeps(h, one.heap, At(t, c0), Place \ {<<"cache", e, a>>})
          /\ s # None => one.c.geom[a] # Nil /\ one.heap[one.c.geom[a]].geom = s.geom
      BY <1>4, <3>1, <3>2, ReplaceSound
    <3> QED BY <3>3 DEF a, s
  <2> QED BY <1>2, <1>3, <2>3
<1> HIDE DEF one
<1>6. c1 \in Caches /\ c1[e] = one.c
  BY <1>2, <1>5 DEF Caches, EntryType, Sound
<1> HIDE DEF c1
<1>7. g[2] = None \/ \E b \in Arg : Fetch(one.heap, t, b, g[2])
  <2>1. SUFFICES ASSUME NEW b \in Arg, Fetch(h, t, b, g[2]) PROVE Fetch(one.heap, t, b, g[2])
    BY DEF Given, Arg
  <2>2. <<"toast", b>> \in Place \ {<<"cache", e, 1>>}
    BY DEF Place
  <2> QED BY <1>5, <2>1, <2>2, FetchKept
<1>8. /\ Sound(two.heap, t, c2)
      /\ two.c.argnum = 0 /\ two.c.tree = NoIndex
      /\ Keeps(one.heap, two.heap, At(t, c1), Place \ {<<"cache", e, 2>>})
      /\ two.c.geom[1] = one.c.geom[1]
      /\ g[2] # None => two.c.geom[2] # Nil /\ two.heap[two.c.geom[2]].geom = g[2].geom
  <2> HIDE DEF two
  <2>1. two = Replace([heap |-> one.heap, c |-> c1[e]], 2, g[2]) /\ 2 \in Arg /\ 1 \in Arg \ {2}
    BY <1>6 DEF two, Arg
  <2>2. Sound(one.heap, t, c1)
    BY <1>5
  <2>3. /\ Sound(two.heap, t, [c1 EXCEPT ![e] = two.c])
        /\ two.c.argnum = c1[e].argnum /\ two.c.tree = c1[e].tree
        /\ Keeps(one.heap, two.heap, At(t, c1), Place \ {<<"cache", e, 2>>})
        /\ two.c.geom[1] = c1[e].geom[1]
        /\ g[2] # None => two.c.geom[2] # Nil /\ two.heap[two.c.geom[2]].geom = g[2].geom
    <3> DEFINE h1 == one.heap
    <3> DEFINE a == 2
    <3> DEFINE s == g[2]
    <3>1. two = Replace([heap |-> h1, c |-> c1[e]], a, s) /\ Sound(h1, t, c1) /\ a \in Arg
      BY <2>1, <2>2
    <3>2. s = None \/ \E b \in Arg : Fetch(h1, t, b, s)
      BY <1>7
    <3> HIDE DEF h1, a, s
    <3>3. /\ Sound(two.heap, t, [c1 EXCEPT ![e] = two.c])
          /\ two.c.argnum = c1[e].argnum /\ two.c.tree = c1[e].tree
          /\ Keeps(h1, two.heap, At(t, c1), Place \ {<<"cache", e, a>>})
          /\ s # None => two.c.geom[a] # Nil /\ two.heap[two.c.geom[a]].geom = s.geom
      BY <3>1, <3>2, ReplaceSound
    <3>4. \A b \in Arg : b # a => two.c.geom[b] = c1[e].geom[b]
      <4>1. c1[e] \in EntryType
        BY <1>6 DEF Caches
      <4> QED BY <3>1, <4>1, ReplaceElsewhere
    <3> QED BY <2>1, <3>3, <3>4 DEF h1, a, s
  <2> QED BY <1>5, <1>6, <2>3
<1> HIDE DEF two
<1>9. Miss(h, c[e], g) = two
  <2>1. one = Replace([heap |-> h, c |-> bare], 1, g[1])
    BY DEF one
  <2>2. two = Replace(one, 2, g[2])
    <3>1. one = [heap |-> one.heap, c |-> one.c]
      BY <2>1 DEF Replace
    <3> QED BY <3>1 DEF two
  <2> QED BY <2>1, <2>2 DEF Miss, bare
<1>10. c2 = [c EXCEPT ![e] = two.c]
  BY <1>1 DEF c0, c1, Caches, EntryType
<1>11. Keeps(h, two.heap, At(t, c), Place \ EntryPlaces(e))
  <2>1. SUFFICES ASSUME NEW y \in Place \ EntryPlaces(e), At(t, c)[y] # Nil
                 PROVE  two.heap[At(t, c)[y]].geom = h[At(t, c)[y]].geom
    BY DEF Keeps
  <2>2. y \in Place \ {<<"cache", e, 1>>} /\ y \in Place \ {<<"cache", e, 2>>}
    BY DEF Arg, EntryPlaces
  <2>3. At(t, c1)[y] = At(t, c)[y]
    <3>1. CASE \E b \in Arg : y = <<"toast", b>>
      BY <3>1 DEF At
    <3>2. CASE \E f \in Entry, b \in Arg : y = <<"cache", f, b>>
      <4>1. PICK f \in Entry, b \in Arg : y = <<"cache", f, b>>
        BY <3>2
      <4>2. f # e
        BY <4>1 DEF EntryPlaces
      <4>3. c1[f] = c[f]
        BY <1>1, <4>2 DEF c1, c0, Caches, EntryType
      <4> QED BY <4>1, <4>3 DEF At
    <3> QED BY <3>1, <3>2 DEF Place
  <2> QED BY <1>5, <1>8, <2>1, <2>2, <2>3 DEF Keeps
<1>12. g[1] # None => two.c.geom[1] # Nil /\ two.heap[two.c.geom[1]].geom = g[1].geom
  <2>1. <<"cache", e, 1>> \in Place \ {<<"cache", e, 2>>}
    BY DEF Place, Arg
  <2>2. At(t, c1)[<<"cache", e, 1>>] = one.c.geom[1]
    <3>1. 1 \in Arg
      BY DEF Arg
    <3> QED BY <1>1, <1>6, <3>1, Places
  <2> QED BY <1>5, <1>8, <2>1, <2>2 DEF Keeps
<1>13. \A a \in Arg : a = 1 \/ a = 2
  BY DEF Arg
<1> QED BY <1>8, <1>9, <1>10, <1>11, <1>12, <1>13 DEF Missed

\* Every tree of an entry is one of the copy it holds of its argument.
TreeHeld(h, c) ==
  \A e \in Entry :
    LET q == c[e] IN
    IF q.argnum = 0 THEN q.tree = NoIndex
    ELSE /\ q.geom[q.argnum] # Nil
         /\ q.tree.obj = q.geom[q.argnum]
         /\ h[q.tree.obj].geom = q.tree.geom

\* The entry has copies of what it was passed.
Taken(h, q, g) == \A a \in Arg : g[a] # None => q.geom[a] # Nil /\ h[q.geom[a]].geom = g[a].geom

Plain(g) == \A a \in Arg : GeomOf(g[a]) \notin NoTree

\* A tree that does not change stays over a copy that does not change.
LEMMA OtherTreesHeld ==
  ASSUME NEW h, NEW t, NEW c, Sound(h, t, c), TreeHeld(h, c), NEW e \in Entry, NEW new, NEW q,
         Keeps(h, new, At(t, c), Place \ EntryPlaces(e)),
         NEW f \in Entry, f # e, c[f].argnum # 0
  PROVE  new[c[f].tree.obj].geom = c[f].tree.geom
<1>1. c \in Caches /\ t \in Toasts
  BY DEF Sound
<1>2. c[f].argnum \in Arg
  BY <1>1 DEF Caches, EntryType, Arg
<1>3. /\ c[f].geom[c[f].argnum] # Nil /\ c[f].tree.obj = c[f].geom[c[f].argnum]
      /\ h[c[f].tree.obj].geom = c[f].tree.geom
  BY DEF TreeHeld
<1>4. /\ <<"cache", f, c[f].argnum>> \in Place \ EntryPlaces(e)
      /\ At(t, c)[<<"cache", f, c[f].argnum>>] = c[f].tree.obj
  <2>1. <<"cache", f, c[f].argnum>> \notin EntryPlaces(e)
    BY DEF EntryPlaces
  <2> QED BY <1>1, <1>2, <1>3, <2>1, Places
<1> QED BY <1>3, <1>4 DEF Keeps

\* A hit is on an argument that is passed and held, and on that of the tree.
LEMMA HitMatches ==
  ASSUME NEW h, NEW q \in EntryType, NEW g, Hit(h, q, g) # 0
  PROVE  /\ Hit(h, q, g) \in Arg
         /\ Matches(h, q, g, Hit(h, q, g))
         /\ q.argnum # 0 => q.argnum = Hit(h, q, g)
BY DEF Hit, EntryType, Arg

\* What a call of GetGeomCache promises: the memory, the arguments and all trees stay
\* sound; a tree it hands out is of an argument it is given; if it hands out none the
\* entry has copies of its arguments, or was given one no tree can be built for; and an
\* entry that holds an argument and finds it again hands out a tree.
Answered(h, t, c, e, g, r) ==
  /\ Sound(r.heap, t, [c EXCEPT ![e] = r.c])
  /\ TreeHeld(r.heap, [c EXCEPT ![e] = r.c])
  /\ Keeps(h, r.heap, At(t, c), Place \ EntryPlaces(e))
  /\ r.c.argnum # 0 => g[r.c.argnum] # None /\ r.c.tree.geom = g[r.c.argnum].geom
  /\ r.c.argnum = 0 /\ Plain(g) => Taken(r.heap, r.c, g)
  /\ c[e].argnum = 0 /\ r.c.argnum = 0 /\ Plain(g) => \A a \in Arg : ~ Matches(h, c[e], g, a)

\* GetGeomCache does.
LEMMA GetSound ==
  ASSUME NEW h, NEW t, NEW c, Sound(h, t, c), TreeHeld(h, c), NEW e \in Entry, NEW g, Given(h, t, g)
  PROVE  Answered(h, t, c, e, g, GetGeomCache(h, c[e], g))
<1> DEFINE q == c[e]
<1> DEFINE hit == Hit(h, q, g)
<1> DEFINE r == GetGeomCache(h, q, g)
<1>1. h \in Memory /\ t \in Toasts /\ c \in Caches /\ q \in EntryType
  BY DEF Sound, Caches
<1>2. CASE hit = 0
  <2>1. r = Miss(h, q, g)
    BY <1>2 DEF GetGeomCache
  <2>2. /\ Sound(r.heap, t, [c EXCEPT ![e] = r.c])
        /\ r.c.argnum = 0 /\ r.c.tree = NoIndex
        /\ Keeps(h, r.heap, At(t, c), Place \ EntryPlaces(e))
        /\ Taken(r.heap, r.c, g)
    <3>1. /\ Sound(r.heap, t, [c EXCEPT ![e] = r.c])
          /\ r.c.argnum = 0 /\ r.c.tree = NoIndex
          /\ Keeps(h, r.heap, At(t, c), Place \ EntryPlaces(e))
          /\ \A a \in Arg : g[a] # None => /\ r.c.geom[a] # Nil
                                           /\ r.heap[r.c.geom[a]].geom = g[a].geom
      <4>1. Missed(h, t, c, e, g, r)
        BY <2>1, MissSound
      <4> HIDE DEF r
      <4> QED BY <4>1 DEF Missed
    <3> HIDE DEF r
    <3> QED BY <3>1 DEF Taken
  <2> HIDE DEF r
  <2>3. TreeHeld(r.heap, [c EXCEPT ![e] = r.c])
    <3>1. SUFFICES ASSUME NEW f \in Entry, f # e
                   PROVE  IF c[f].argnum = 0 THEN c[f].tree = NoIndex
                          ELSE /\ c[f].geom[c[f].argnum] # Nil
                               /\ c[f].tree.obj = c[f].geom[c[f].argnum]
                               /\ r.heap[c[f].tree.obj].geom = c[f].tree.geom
      BY <1>1, <2>2 DEF TreeHeld, Caches
    <3>2. c[f].argnum # 0 => r.heap[c[f].tree.obj].geom = c[f].tree.geom
      BY <2>2, <3>1, OtherTreesHeld
    <3> QED BY <3>2 DEF TreeHeld
  <2>4. q.argnum = 0 => \A a \in Arg : ~ Matches(h, q, g, a)
    BY <1>2 DEF Hit, Arg
  <2> QED BY <2>2, <2>3, <2>4 DEF r, Answered
<1>3. CASE hit # 0
  <2>1. hit \in Arg /\ Matches(h, q, g, hit) /\ (q.argnum # 0 => q.argnum = hit)
    BY <1>1, <1>3, HitMatches
  <2>2. /\ g[hit] # None /\ q.geom[hit] # Nil /\ h[q.geom[hit]].geom = g[hit].geom
    BY <2>1 DEF Matches
  <2>3. Keeps(h, h, At(t, c), Place \ EntryPlaces(e))
    BY DEF Keeps
  <2>4. CASE q.argnum # 0
    <3>1. r = [heap |-> h, c |-> q] /\ [c EXCEPT ![e] = q] = c
      BY <1>1, <1>3, <2>4 DEF GetGeomCache, Caches
    <3>2. q.tree.geom = g[q.argnum].geom
      BY <2>1, <2>2, <2>4 DEF TreeHeld
    <3> QED BY <2>1, <2>2, <2>3, <2>4, <3>1, <3>2 DEF Answered
  <2>5. CASE q.argnum = 0 /\ g[hit].geom \in NoTree
    <3>1. r = [heap |-> h, c |-> q] /\ [c EXCEPT ![e] = q] = c
      BY <1>1, <1>3, <2>2, <2>5 DEF GetGeomCache, Caches, Build
    <3>2. ~ Plain(g)
      BY <2>1, <2>2, <2>5 DEF Plain, GeomOf
    <3> QED BY <2>3, <2>5, <3>1, <3>2 DEF Answered
  <2>6. CASE q.argnum = 0 /\ g[hit].geom \notin NoTree
    <3> DEFINE tree == [obj |-> q.geom[hit], geom |-> g[hit].geom]
    <3> DEFINE built == [q EXCEPT !.argnum = hit, !.tree = tree]
    <3>1. r = [heap |-> h, c |-> built]
      BY <1>3, <2>2, <2>6 DEF GetGeomCache, Build
    <3>2. built \in EntryType /\ built.argnum = hit /\ built.tree = tree /\ built.geom = q.geom
      <4>1. tree \in TreeType
        <5>1. q.geom[hit] \in Obj
          BY <1>1, <2>1, <2>2 DEF EntryType
        <5>2. h[q.geom[hit]].geom \in Geometry \cup {None}
          BY <1>1, <5>1 DEF Memory
        <5> QED BY <2>2, <5>1, <5>2 DEF TreeType
      <4>2. hit \in 0..2
        BY <2>1 DEF Arg
      <4> HIDE DEF tree, hit, q
      <4> QED BY <1>1, <4>1, <4>2 DEF EntryType
    <3> HIDE DEF built, hit
    <3>3. At(t, [c EXCEPT ![e] = built]) = At(t, c)
      <4>1. SUFFICES ASSUME NEW y \in Place PROVE At(t, [c EXCEPT ![e] = built])[y] = At(t, c)[y]
        BY DEF At
      <4>2. CASE \E b \in Arg : y = <<"toast", b>>
        BY <4>2 DEF At
      <4>3. CASE \E f \in Entry, b \in Arg : y = <<"cache", f, b>>
        BY <4>3, <1>1, <3>2 DEF At, Caches
      <4> QED BY <4>2, <4>3 DEF Place
    <3>4. [c EXCEPT ![e] = built] \in Caches
      BY <1>1, <3>2 DEF Caches
    <3>5. Sound(h, t, [c EXCEPT ![e] = built])
      BY <3>3, <3>4 DEF Sound
    <3>6. TreeHeld(h, [c EXCEPT ![e] = built])
      <4>1. ASSUME NEW f \in Entry, f # e PROVE [c EXCEPT ![e] = built][f] = c[f]
        BY <1>1, <4>1 DEF Caches
      <4>2. [c EXCEPT ![e] = built][e] = built
        BY <1>1 DEF Caches
      <4>3. hit # 0 /\ built.argnum = hit
        BY <1>3, <3>2
      <4> QED BY <2>2, <3>2, <4>1, <4>2, <4>3 DEF TreeHeld
    <3> QED BY <1>3, <2>2, <2>3, <3>1, <3>2, <3>5, <3>6 DEF Answered
  <2> QED BY <2>4, <2>5, <2>6
<1> QED BY <1>2, <1>3

-----------------------------------------------------------------------------
\* What the function was handed for its row is still what it was.
RowHeld ==
  got.row[1] # None =>
    \A a \in Arg : got.shared[a].geom = Value[got.row[a]] /\ Fetch(heap, toast, a, got.shared[a])

\* The tree the function was handed is of an argument it passed; when it got none the
\* entry has copies of what was passed.
AnswerHeld ==
  got.entry # None =>
    LET q == cache[got.entry] IN
    /\ got.entry \in Entry
    /\ \A a \in Arg : got.passed[a] # None => got.passed[a].geom \in Geometry
    /\ q.argnum # 0 => got.passed[q.argnum] # None /\ q.tree.geom = got.passed[q.argnum].geom
    /\ q.argnum = 0 /\ Plain(got.passed) => Taken(heap, q, got.passed)

\* The inductive invariant.
IInv == Sound(heap, toast, cache) /\ TreeHeld(heap, cache) /\ RowHeld /\ AnswerHeld

\* Nothing points anywhere at the start.
LEMMA InitIInv == Init => IInv
<1> SUFFICES ASSUME Init PROVE IInv
  OBVIOUS
<1>1. heap \in Memory /\ toast \in Toasts /\ cache \in Caches
  BY DEF Init, Memory, Toasts, Caches, EntryType, TreeType, NoIndex, Arg
<1>2. Counted(heap, At(toast, cache))
  <2>1. SUFFICES ASSUME NEW o \in Obj PROVE heap[o].count = Cardinality(Held(At(toast, cache), o))
    BY DEF Counted
  <2>2. ASSUME NEW x \in Place PROVE At(toast, cache)[x] # o
    <3>1. o # Nil
      BY DEF Obj, Nil
    <3>2. CASE \E a \in Arg : x = <<"toast", a>>
      BY <3>1, <3>2 DEF At, Init
    <3>3. CASE \E e \in Entry, a \in Arg : x = <<"cache", e, a>>
      BY <3>1, <3>3 DEF At, Init, Arg
    <3> QED BY <3>2, <3>3 DEF Place
  <2>3. Held(At(toast, cache), o) = {}
    BY <2>2 DEF Held
  <2> QED BY <2>3, FS_EmptySet DEF Init
<1>3. Keyed(heap, toast) /\ TreeHeld(heap, cache) /\ RowHeld /\ AnswerHeld
  BY DEF Init, Keyed, TreeHeld, RowHeld, AnswerHeld
<1> QED BY <1>1, <1>2, <1>3 DEF IInv, Sound

\* Fetching the arguments of a row leaves the trees and copies of all entries.
LEMMA FetchedTrees ==
  ASSUME IInv, NEW d1 \in Datum, NEW d2 \in Datum
  PROVE  LET f == Fetched(d1, d2)
         IN  /\ TreeHeld(f.heap, cache)
             /\ \A e \in Entry : \A g : Taken(heap, cache[e], g) => Taken(f.heap, cache[e], g)
<1> DEFINE f == Fetched(d1, d2)
<1>1. Keeps(heap, f.heap, At(toast, cache), Place \ ToastPlaces)
  BY FetchedSound DEF IInv
<1> HIDE DEF f
<1>2. cache \in Caches /\ toast \in Toasts
  BY DEF IInv, Sound
<1>3. ASSUME NEW e \in Entry, NEW a \in Arg, cache[e].geom[a] # Nil
      PROVE  f.heap[cache[e].geom[a]].geom = heap[cache[e].geom[a]].geom
  <2>1. <<"cache", e, a>> \in Place \ ToastPlaces
    BY DEF Place, ToastPlaces
  <2>2. At(toast, cache)[<<"cache", e, a>>] = cache[e].geom[a]
    BY <1>2, Places
  <2> QED BY <1>1, <1>3, <2>1, <2>2 DEF Keeps
<1>4. TreeHeld(f.heap, cache)
  <2>1. \A e \in Entry : cache[e].argnum # 0 => cache[e].argnum \in Arg
    BY <1>2 DEF Caches, EntryType, Arg
  <2> QED BY <1>3, <2>1 DEF IInv, TreeHeld
<1>5. \A e \in Entry : \A g : Taken(heap, cache[e], g) => Taken(f.heap, cache[e], g)
  BY <1>3 DEF Taken
<1> QED BY <1>4, <1>5 DEF f

\* What is passed to GetGeomCache are arguments that were fetched.
LEMMA PassedGiven ==
  ASSUME NEW h, NEW t, NEW s, \A a \in Arg : Fetch(h, t, a, s[a]), NEW use \in Uses
  PROVE  use[1] \in Entry /\ Given(h, t, Passed(s, use[2]))
<1>1. use[1] \in Entry /\ use[2] \in {<<1, 2>>, <<1, 0>>, <<0, 2>>, <<2, 0>>}
  BY CachesAssumption
<1>2. \A a \in Arg : use[2][a] = 0 \/ use[2][a] \in Arg
  BY <1>1 DEF Arg
<1> QED BY <1>1, <1>2 DEF Given, Passed

\* A call that returns early keeps the invariant.
LEMMA ReturnEarlyKeeps == IInv /\ ReturnEarly => IInv'
<1> SUFFICES ASSUME IInv, ReturnEarly PROVE IInv'
  OBVIOUS
<1>1. PICK d1 \in Datum, d2 \in Datum :
        LET f == Fetched(d1, d2) IN
        /\ heap' = f.heap /\ toast' = f.toast /\ cache' = cache
        /\ got' = [row |-> <<d1, d2>>, shared |-> f.shared, passed |-> <<None, None>>, entry |-> None]
  BY DEF ReturnEarly
<1> DEFINE f == Fetched(d1, d2)
<1>2. /\ Sound(f.heap, f.toast, cache)
      /\ \A a \in Arg : /\ Fetch(f.heap, f.toast, a, f.shared[a])
                        /\ f.shared[a].geom = Value[<<d1, d2>>[a]]
  BY FetchedSound DEF IInv
<1>3. TreeHeld(f.heap, cache)
  BY FetchedTrees
<1> HIDE DEF f
<1>4. Sound(heap', toast', cache') /\ TreeHeld(heap', cache')
  BY <1>1, <1>2, <1>3 DEF f
<1>5. RowHeld' /\ AnswerHeld'
  BY <1>1, <1>2 DEF f, RowHeld, AnswerHeld
<1> QED BY <1>4, <1>5 DEF IInv

\* A call for the row of d1 and d2 asks the entry e for a tree of the arguments g, and r is
\* the answer.
Asks(d1, d2, e, g, r) ==
  LET f == Fetched(d1, d2) IN
  /\ heap' = r.heap /\ toast' = f.toast /\ cache' = [cache EXCEPT ![e] = r.c]
  /\ got' = [row |-> <<d1, d2>>, shared |-> f.shared, passed |-> g, entry |-> e]
  /\ Given(f.heap, f.toast, g)
  /\ Answered(f.heap, f.toast, cache, e, g, r)

\* A call that asks an entry for a tree, in the terms of GetSound.
LEMMA AskStep ==
  ASSUME IInv, AskForTree
  PROVE  \E d1, d2 \in Datum, e \in Entry : \E g, r : Asks(d1, d2, e, g, r)
<1>1. PICK d1 \in Datum, d2 \in Datum, use \in Uses :
        LET f == Fetched(d1, d2)
            r == GetGeomCache(f.heap, cache[use[1]], Passed(f.shared, use[2]))
        IN  /\ heap' = r.heap /\ toast' = f.toast /\ cache' = [cache EXCEPT ![use[1]] = r.c]
            /\ got' = [row |-> <<d1, d2>>, shared |-> f.shared, passed |-> Passed(f.shared, use[2]),
                       entry |-> use[1]]
  BY DEF AskForTree
<1> DEFINE f == Fetched(d1, d2)
<1> DEFINE e == use[1]
<1> DEFINE g == Passed(f.shared, use[2])
<1> DEFINE r == GetGeomCache(f.heap, cache[e], g)
<1>2. Sound(f.heap, f.toast, cache) /\ \A a \in Arg : Fetch(f.heap, f.toast, a, f.shared[a])
  BY FetchedSound DEF IInv
<1>3. TreeHeld(f.heap, cache)
  BY FetchedTrees
<1>4. e \in Entry /\ Given(f.heap, f.toast, g)
  <2> HIDE DEF f
  <2> QED BY <1>2, PassedGiven
<1>5. Answered(f.heap, f.toast, cache, e, g, r)
  <2> DEFINE h == f.heap
  <2> DEFINE t == f.toast
  <2>1. Sound(h, t, cache) /\ TreeHeld(h, cache) /\ e \in Entry /\ Given(h, t, g)
    BY <1>2, <1>3, <1>4
  <2> HIDE DEF e, g, h, t
  <2> QED BY <2>1, GetSound DEF h, t
<1>6. /\ heap' = r.heap /\ toast' = f.toast /\ cache' = [cache EXCEPT ![e] = r.c]
      /\ got' = [row |-> <<d1, d2>>, shared |-> f.shared, passed |-> g, entry |-> e]
  BY <1>1
<1> HIDE DEF e, g, r
<1>7. Asks(d1, d2, e, g, r)
  BY <1>4, <1>5, <1>6 DEF Asks
<1> QED BY <1>4, <1>7

\* Such a call keeps the invariant.
LEMMA AskForTreeKeeps == IInv /\ AskForTree => IInv'
<1> SUFFICES ASSUME IInv, AskForTree PROVE IInv'
  OBVIOUS
<1>0. PICK d1 \in Datum, d2 \in Datum, e \in Entry : \E g, r : Asks(d1, d2, e, g, r)
  BY AskStep
<1>a. PICK g, r : Asks(d1, d2, e, g, r)
  BY <1>0
<1>1. LET f == Fetched(d1, d2) IN
        /\ heap' = r.heap /\ toast' = f.toast /\ cache' = [cache EXCEPT ![e] = r.c]
        /\ got' = [row |-> <<d1, d2>>, shared |-> f.shared, passed |-> g, entry |-> e]
        /\ Given(f.heap, f.toast, g)
        /\ Answered(f.heap, f.toast, cache, e, g, r)
  BY <1>a DEF Asks
<1> DEFINE f == Fetched(d1, d2)
<1>2. /\ Sound(f.heap, f.toast, cache)
      /\ \A a \in Arg : /\ Fetch(f.heap, f.toast, a, f.shared[a])
                        /\ f.shared[a].geom = Value[<<d1, d2>>[a]]
  BY FetchedSound DEF IInv
<1>3. /\ heap' = r.heap /\ toast' = f.toast /\ cache' = [cache EXCEPT ![e] = r.c]
      /\ got' = [row |-> <<d1, d2>>, shared |-> f.shared, passed |-> g, entry |-> e]
      /\ Given(f.heap, f.toast, g)
      /\ Answered(f.heap, f.toast, cache, e, g, r)
  BY <1>1
<1> HIDE DEF f
<1>4. Sound(heap', toast', cache') /\ TreeHeld(heap', cache')
  BY <1>3 DEF Answered
<1>5. RowHeld'
  <2>1. SUFFICES ASSUME NEW a \in Arg
                 PROVE  /\ got'.shared[a].geom = Value[got'.row[a]]
                        /\ Fetch(heap', toast', a, got'.shared[a])
    BY DEF RowHeld
  <2>2. Fetch(r.heap, f.toast, a, f.shared[a])
    <3>1. <<"toast", a>> \in Place \ EntryPlaces(e)
      BY DEF Place, EntryPlaces
    <3>2. Keeps(f.heap, r.heap, At(f.toast, cache), Place \ EntryPlaces(e))
      BY <1>3 DEF Answered
    <3> DEFINE h == f.heap
    <3> DEFINE t == f.toast
    <3> DEFINE s == f.shared[a]
    <3>3. Sound(h, t, cache) /\ Keeps(h, r.heap, At(t, cache), Place \ EntryPlaces(e)) /\ Fetch(h, t, a, s)
      BY <1>2, <3>2
    <3> HIDE DEF h, t, s
    <3>4. Fetch(r.heap, t, a, s)
      BY <3>1, <3>3, FetchKept
    <3> QED BY <3>4 DEF t, s
  <2> QED BY <1>2, <1>3, <2>2
<1>6. AnswerHeld'
  <2>1. cache'[e] = r.c
    BY <1>3 DEF IInv, Sound, Caches
  <2>2. \A a \in Arg : g[a] # None => g[a].geom \in Geometry
    BY <1>3 DEF Given, Fetch, SharedType
  <2> QED BY <1>3, <2>1, <2>2 DEF AnswerHeld, Answered
<1> QED BY <1>4, <1>5, <1>6 DEF IInv

\* Every call keeps the invariant.
LEMMA NextIInv == IInv /\ [Next]_vars => IInv'
<1>1. IInv /\ UNCHANGED vars => IInv'
  BY DEF IInv, vars, RowHeld, AnswerHeld
<1> QED BY <1>1, ReturnEarlyKeeps, AskForTreeKeeps DEF Next

\* The invariant holds of every state of a statement.
LEMMA Inductive == Spec => []IInv
BY InitIInv, NextIInv, PTL DEF Spec

-----------------------------------------------------------------------------
\* The memory, the cached arguments and the entries of every statement are well typed.
THEOREM TypeCorrect == Spec => []TypeOK
<1>1. IInv => TypeOK
  BY DEF IInv, Sound, TypeOK, Memory, Toasts, Caches, EntryType, TreeType
<1> QED BY <1>1, Inductive, PTL

\* The count of a shared geometry is always the number of places that point to it: no
\* order of shared_gserialized_ref and unref over the rows of a statement frees a copy
\* in use or leaves one behind.
THEOREM CountsCorrect == Spec => []CountsAreReferences
<1>1. ASSUME NEW o PROVE References(o) = Held(At(toast, cache), o)
  BY DEF References, PointsTo, Held, At
<1>2. IInv => CountsAreReferences
  BY <1>1 DEF IInv, Sound, Counted, CountsAreReferences
<1> QED BY <1>2, Inductive, PTL

\* What ToastCacheGetGeometry hands out for a row is the row's geometry, and stays
\* allocated and unchanged while GetGeomCache replaces what its entries hold.
THEOREM ArgumentsCorrect == Spec => []ArgumentsOfThisRow
<1>1. ASSUME IInv PROVE ArgumentsOfThisRow
  <2>1. SUFFICES ASSUME got.row[1] # None, NEW a \in Arg
                 PROVE  LET s == got.shared[a] IN
                        /\ s.geom = Value[got.row[a]]
                        /\ s.obj # Nil => heap[s.obj].count > 0 /\ heap[s.obj].geom = s.geom
    BY DEF ArgumentsOfThisRow
  <2> DEFINE s == got.shared[a]
  <2>2. s.geom = Value[got.row[a]] /\ (s.obj # Nil => s.obj = toast[a].obj /\ heap[s.obj].geom = s.geom)
    BY <1>1, <2>1 DEF IInv, RowHeld, Fetch
  <2>3. ASSUME toast[a].obj # Nil PROVE heap[toast[a].obj].count > 0
    <3> DEFINE at == At(toast, cache)
    <3> DEFINE x == <<"toast", a>>
    <3>1. heap \in Memory /\ at \in Pointers /\ Counted(heap, at) /\ x \in Place /\ at[x] = toast[a].obj
      BY <1>1, Places DEF IInv, Sound
    <3> HIDE DEF at, x
    <3>2. heap[at[x]].count \in Nat \ {0}
      BY <3>1, <2>3, LiveCounted
    <3> QED BY <3>1, <3>2
  <2> QED BY <2>2, <2>3
<1> QED BY <1>1, Inductive, PTL

\* A tree handed out is of the argument it is said to be of, and every tree points into
\* a copy its entry holds, never into memory that GetGeomCache has freed or given away.
THEOREM TreesCorrect == Spec => []TreesSound
<1>1. IInv => TreeOfThisRow
  BY DEF IInv, AnswerHeld, TreeOfThisRow
<1>2. ASSUME IInv PROVE TreeOverLiveCopy
  <2>1. SUFFICES ASSUME NEW e \in Entry, cache[e].argnum # 0
                 PROVE  LET c == cache[e] IN
                        /\ c.tree.obj = c.geom[c.argnum]
                        /\ heap[c.tree.obj] = [count |-> heap[c.tree.obj].count, geom |-> c.tree.geom]
                        /\ heap[c.tree.obj].count > 0
    BY <1>2 DEF TreeOverLiveCopy, IInv, TreeHeld
  <2> DEFINE c == cache[e]
  <2>2. c.geom[c.argnum] # Nil /\ c.tree.obj = c.geom[c.argnum] /\ heap[c.tree.obj].geom = c.tree.geom
    BY <1>2, <2>1 DEF IInv, TreeHeld
  <2>3. c.argnum \in Arg
    BY <1>2, <2>1 DEF IInv, Sound, Caches, EntryType, Arg
  <2> DEFINE at == At(toast, cache)
  <2> DEFINE x == <<"cache", e, c.argnum>>
  <2>4. heap \in Memory /\ at \in Pointers /\ Counted(heap, at) /\ x \in Place /\ at[x] = c.tree.obj
    BY <1>2, <2>2, <2>3, Places DEF IInv, Sound
  <2> HIDE DEF at, x
  <2>5. c.tree.obj \in Obj /\ heap[c.tree.obj].count \in Nat \ {0}
    <3>1. at[x] # Nil
      BY <2>2, <2>4
    <3>2. at[x] \in Obj /\ heap[at[x]].count \in Nat \ {0}
      BY <2>4, <3>1, LiveCounted
    <3> QED BY <2>4, <3>2
  <2> QED BY <2>2, <2>4, <2>5 DEF Memory
<1> QED BY <1>1, <1>2, Inductive, PTL DEF TreesSound

\* An argument that comes again at the next call of an entry finds a tree or gets one
\* built: GetGeomCache took a copy of it at the first call, and its cache is not lost
\* while the arguments of the next row are fetched.
THEOREM SecondCallFindsTree == Spec => TreeOnTheSecondCall
<1> DEFINE Step ==
      LET e == got.entry
          same(a) == got.passed[a] # None /\ GeomOf(got.passed[a]) = GeomOf(got'.passed[a])
          plain(g) == \A a \in Arg : GeomOf(g[a]) \notin NoTree
      IN  /\ e # None /\ got'.entry = e
          /\ \E a \in Arg : same(a)
          /\ plain(got.passed) /\ plain(got'.passed)
          => cache[e].argnum # 0 \/ cache'[e].argnum # 0
<1>1. ASSUME IInv, ReturnEarly PROVE Step
  <2>1. got'.entry = None
    BY <1>1 DEF ReturnEarly
  <2> QED BY <2>1
<1>2. ASSUME IInv, AskForTree PROVE Step
  <2>0. PICK d1 \in Datum, d2 \in Datum, e \in Entry : \E g, r : Asks(d1, d2, e, g, r)
    BY <1>2, AskStep
  <2>a. PICK g, r : Asks(d1, d2, e, g, r)
    BY <2>0
  <2>1. LET f == Fetched(d1, d2) IN
          /\ heap' = r.heap /\ toast' = f.toast /\ cache' = [cache EXCEPT ![e] = r.c]
          /\ got' = [row |-> <<d1, d2>>, shared |-> f.shared, passed |-> g, entry |-> e]
          /\ Given(f.heap, f.toast, g)
          /\ Answered(f.heap, f.toast, cache, e, g, r)
    BY <2>a DEF Asks
  <2> DEFINE f == Fetched(d1, d2)
  <2>2. got'.entry = e /\ got'.passed = g /\ Answered(f.heap, f.toast, cache, e, g, r)
    BY <2>1
  <2>3. cache'[e] = r.c
    BY <1>2, <2>1 DEF IInv, Sound, Caches
  <2>4. SUFFICES ASSUME got.entry = e, e # None, NEW a \in Arg, got.passed[a] # None,
                        GeomOf(got.passed[a]) = GeomOf(g[a]), Plain(got.passed), Plain(g),
                        cache[e].argnum = 0, r.c.argnum = 0
                 PROVE  FALSE
    BY <2>2, <2>3 DEF Plain
  <2>5. Taken(heap, cache[e], got.passed) /\ got.passed[a].geom \in Geometry
    BY <1>2, <2>4 DEF IInv, AnswerHeld
  <2>6. Taken(f.heap, cache[e], got.passed)
    BY <1>2, <2>5, FetchedTrees
  <2>7. g[a] # None /\ g[a].geom = got.passed[a].geom
    BY <2>4, <2>5, CachesAssumption DEF GeomOf
  <2> HIDE DEF f
  <2>8. Matches(f.heap, cache[e], g, a)
    BY <2>4, <2>6, <2>7 DEF Taken, Matches
  <2> QED BY <2>2, <2>4, <2>8 DEF Answered
<1>3. IInv /\ [Next]_vars => [Step]_vars
  BY <1>1, <1>2 DEF Next
<1> HIDE DEF Step
<1>4. Spec => [][Step]_vars
  BY <1>3, Inductive, PTL DEF Spec
<1> USE DEF Step
<1> QED BY <1>4 DEF TreeOnTheSecondCall

=============================================================================
