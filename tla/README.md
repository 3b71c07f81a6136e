# PostGIS in TLA+

This directory is a verification development of PostGIS. Most of PostGIS is a library of geometric
functions that keep no state. What is modelled here is the part that does: the **topology** schema, whose
rows carry a long history of edits behind them, and the algorithms, caches, index summaries, raster bands
and aggregates in which one step relies on what many earlier steps left behind.

Paths are relative to the repository.

## 1. Inventory

| Component | State | Operations | Hard behaviour | Here |
|---|---|---|---|---|
| Topology editing engine (`liblwgeom/topo/lwgeom_topo.c`) | rows of `node`, `edge_data`, `face` | add, remove, split, heal, move; face splits and merges | each edit relinks a few edges from what is stored beside them, so one wrong column surfaces in a much later edit | `PlanarMap`, `Topology`: all edits but `ChangeEdgeGeom` |
| TopoGeometry maintenance (`topology/postgis_topology.c`, `topology/sql/topogeometry/`, `topology.sql.in`) | rows of `relation`, `layer` | checks before and row updates after an edit; `addElement`, `remElement`, `clearTopoGeom` | an edit must be refused or carried over to every object that uses the primitive | `TopoGeoms`, `TopoGeomSpec`: layers of level 0 |
| Backend callbacks (`postgis_topology.c`) | `data_changed`, error buffer, SPI snapshot | about forty callbacks | read-only SPI snapshots until something changed; reads without locks | what they read and write; not snapshots |
| Schema and management (`topology.sql.in`, `topology/sql/manage/`) | tables, sequences, foreign keys, triggers | CreateTopology, DropTopology, layers | cascades and triggers | the initial tables, sequences and foreign keys |
| Cleanup (`topology/sql/cleanup/RemoveUnusedPrimitives.sql.in`) | temporary tables of one call | deletes edges in bulk, mends the tables, removes and heals nodes | its own way of merging faces and links, without the callbacks; lists made before the loops that change what they name | `TopologyCleanup` |
| Loading with tolerance (`lwt_AddPoint`, `lwt_AddLine`, `lwt_AddPolygon`) | none of its own | snapping, splitting, then the edits above | order of splits while iterating over stale lists | not modelled |
| Polygonizer (`lwgeom_topo_polygonizer.c`, `lwt_Polygonize`) | edge-end stars, ring table during one call | registers all missing faces at once | must agree with one-by-one face splits | not modelled |
| Validation (`topology/sql/manage/ValidateTopology.sql.in`) | none | reports what is wrong with the tables | coordinates | not modelled |
| Geometry caches (`libpgcommon/lwgeom_cache.c`, `shared_gserialized.c`) | detoasted arguments, shared copies with a count, an entry per kind of tree | get, take a reference, build, replace | a tree points into a copy that others release; built on the second hit, for either argument | `GeomCaches` |
| Projection cache (`libpgcommon/lwgeom_transform.c`) | ring of projections by pair of SRIDs | get, add, replace the oldest | an external library | not modelled |
| BRIN operator classes (`postgis/brin_2d.c`, `brin_nd.c`, `postgis_brin.sql.in`) | the summary of a block range | `add_value`, `merge`, `mergeable` | a summarisation runs beside inserts; empty, padded and mixed boxes | `Brin` |
| GiST and SP-GiST classes (`postgis/gserialized_gist_*.c`, `*_spgist_*.c`) | index keys | union, consistent, same, picksplit | empty and unknown boxes | the box predicates, in `Brin` |
| Union-find (`liblwgeom/lwunionfind.c`) | parent, size and count | find, union, collapsed ids | three records of one partition; path compression | `UnionFind` |
| Clustering (`liblwgeom/lwgeom_geos_cluster.c`, `postgis/lwgeom_window.c`) | the union-find, core and cluster marks | DBSCAN, within a distance, by intersection | border points, order of candidates, pairs whose distance is not computed | `Clusters` |
| Simplification heap (`liblwgeom/effectivearea.c`) | linked points, min-heap with back indices | pop, update | areas change inside the heap | `EffectiveArea`, `Visvalingam` |
| Raster core (`raster/rt_core/rt_band.c`, `rt_mapalgebra.c`) | `hasnodata`, `isnodata`, pixels | set pixel, set NODATA, iterate over rasters | a flag that caches a fact about all pixels | `RasterCore`: in-memory bands |
| Raster SQL functions (`raster/rt_pg`) | stored rasters; the state of `ST_Union` | ST_SetValue(s), NODATA settings, ST_Tile, ST_Union | two ways to write the same pixels; rasters in any order with missing bands | `RasterBand`, `RasterUnion` |
| Aggregates (`lwgeom_accum.c`, `lwgeom_union.c`, `mvt.c`, ...) | transition states | transition, combine, serialise, finalise | parallel plans | not modelled |
| History tables (`extras/history_table`) | rules on a user's table | insert, update, delete | PostgreSQL's rewrite rules | not modelled |
| Geometry algorithms, interval trees, serialisation, geography, selectivity, loaders, SFCGAL, upgrade scripts, vendored code | none or floating point | pure functions, conversions | numeric | not modelled; reasons in PROJECT.json |

How they interact: an SQL function such as `ST_AddEdgeModFace` enters `postgis_topology.c`, which
loads the topology by name and calls `lwt_AddEdgeModFace`. That function reads and writes the tables
only through the `lwt_be_*` callbacks, each of which runs one SQL statement through SPI in the
caller's transaction. Before an edit removes a primitive it calls a `checkTopoGeom*` callback, and
after one that splits or merges a primitive an `updateTopoGeom*` callback. An error anywhere raises a
PostgreSQL error, which aborts the whole edit. `RemoveUnusedPrimitives` is SQL on top: it changes the tables
with statements of its own and then calls `ST_RemIsoNode` and `ST_ModEdgeHeal`. The clustering functions
are the users of the union-find; the tree caches share the copies of the argument cache; ST_Union, ST_Tile
and ST_SetValues are written over the pixel functions of the raster core, whose flag they all must keep true.

What makes each of them correct:

* the linking columns follow the curves: `next_left_edge` is the first edge clockwise at the end node,
  `next_right_edge` the same at the start node, so rings close; `left_face`, `right_face` and
  `containing_face` name the region really there, and faces are exactly the bounded regions; a node has a
  containing face exactly when it is isolated; an edit that is legal for the drawing is not refused;
* no row refers to a primitive that is gone, and an edit or a cleanup never changes what a TopoGeometry covers;
* clusters are those of the definition, whatever order the tree returns neighbours in;
* a cached geometry is not freed while something points to it, and a tree is of an argument of this row;
* a scan through a BRIN index finds what a scan of the table finds;
* a band that says it is all NODATA is, and pixels read as they were written;
* the union of rasters has the whole extent and the value its type defines, in any order;
* each point the heap eliminates is one of least effective area.

## 2. Modules

### PlanarMap — what the geometries say

Coordinates are replaced by the answers the C code computes from them. An edge `e` is walked in two
directions, the *darts* `e` and `-e`, which are the signed edge ids of the code.

* `cw` — the dart that follows clockwise around a node: the order of azimuths that
  `_lwt_FindAdjacentEdges` compares.
* `hole` — darts of the rings that are clockwise, which `_lwt_MakeRingShell` finds with `lwt_IsTopoRingCCW`.
* `region` — the region of the plane on the left of a dart; `isoRegion`, the region of an isolated point.

The drawing changes only as a planar drawing can: a curve is drawn in one region between two places
around its end nodes (`Places`), may split that region, and encloses any subset of the other pieces in
it (`Drawings` enumerates them: several drawings are possible for one edge, and the model tries them all).
Erasing, cutting and joining curves are determined. Nothing here reads the tables: it is the truth the
tables are compared with.

### Topology — the tables and the edits

| Code | Model |
|---|---|
| `edge_data.next_left_edge`, `next_right_edge` | `next[e]`, `next[-e]` |
| `left_face`, `right_face` | `side[e]`, `side[-e]` |
| `start_node`, `end_node` | `org[e]`, `org[-e]` |
| `node.containing_face` (NULL) | `containing[n]` (`None`) |
| `face` without the universe face 0 | `face` |
| the sequences of the three ids | `last` |
| `lwt_AddIsoNode`, `lwt_RemoveIsoNode` | `AddIsoNode`, `RemoveIsoNode` |
| `lwt_AddIsoEdge`, `lwt_RemIsoEdge` | `AddIsoEdge`, `RemIsoEdge` |
| `lwt_ModEdgeSplit`, `lwt_NewEdgesSplit` | `ModEdgeSplit`, `NewEdgesSplit` |
| `_lwt_HealEdges`, its four cases and two modes | `ModEdgeHeal`, `NewEdgeHeal` |
| `_lwt_AddEdge` with `_lwt_FindAdjacentEdges` and `_lwt_AddFaceSplit` | `AddEdgeModFace`, `AddEdgeNewFaces` |
| `_lwt_RemEdge` | `RemEdgeModFace`, `RemEdgeNewFace` |

One action is one call of an editing function, with all the statements it runs. A call runs in a
transaction of its own, so a call that raises an error leaves nothing: the action is simply not enabled
then (ids taken from a sequence by a failed call are lost in PostgreSQL and not in the model, where it
makes no difference which numbers are used). Where the order of statements inside a call matters the
action follows it: the second face split works on what the first left (`SplitModFace`), the columns are
read before they are written where the code does so. The code's own error conditions are guards: the
face conflicts of `_lwt_AddEdge` are `Accepted`, the end node checks of `lwt_AddIsoEdge` and
`lwt_RemIsoEdge`, the closed edges and shared node of `_lwt_HealEdges`. Checks of geometry alone (a curve
that crosses another or is not simple) hold by construction, because the model draws only legal curves.

### TopoGeoms — the relation table

`relation` holds the rows, `extent` the points, curves and areas that each object was last defined as,
carried along with the drawing and never read by the code's part of the model. The operators
`checkTopoGeom*` and `updateTopoGeom*` have the names of the callbacks, `TopoGeom_addElement`,
`TopoGeom_remElement` and `clearTopoGeom` those of the SQL functions. `Topology` calls them at the
places `lwgeom_topo.c` does.

### MCTopology, MCTopoGeoms

The two modules that give the constants their values for TLC: one without
TopoGeometry objects and one with objects of one layer.

### TopoGeomSpec — what a topology promises to its objects

An abstract specification without faces, rows, links or callbacks: points, lines, and what each object
covers of them. Marking a point, drawing, cutting, joining and erasing a line carries the cover over or is
refused, and only a redefinition changes it. `EditsCarryTopoGeoms` says that `Topology` implements it, with
`points <- Node`, `lines <- Edge` and `covers[tg]` the points, curves and sides of areas that the *rows* of
`tg` denote now (`DrawnAs`). It is the user's view of the callbacks: an edit that changes what any
object's rows denote, other than as the drawing itself changed, is no step of it.

### TopologyCleanup — RemoveUnusedPrimitives

| Code | Model |
|---|---|
| temporary tables `deleted_edges`, `merged_faces`; the loops' query results; `edgeMap` | `job.old`, `job.merged`, `job.todo`, `job.edgeMap` |
| the decision which edges go (`Unreferenced`, `BreakingMerges`), `merged_faces` | `RemoveUnusedPrimitives` |
| `DELETE FROM edge_data` | `DeleteEdge`, a row at a time |
| the two `LOOP`s that update `next_right_edge`, `next_left_edge` | `MendNextRight`, `MendNextLeft`, a turn at a time |
| the statements on faces, containing faces, relation rows, isolated nodes | `RelabelFaces` |
| the loop that calls `ST_RemIsoNode` | `CleanIsoNode` |
| the list of heals and the loop that calls `ST_ModEdgeHeal` | `ListHeals`, `CleanNode`, in any order |

The calls in the loops are the actions of `Topology`. The function runs in one transaction, so no edit
comes between its steps. Properties about the tables are asked when they are mended (`Mended`): before the
first call that relies on them and after.

### UnionFind, Clusters

The arrays of `UNIONFIND` are a record (`clusters`, `sizes`, `num`); `UF_find` compresses paths as the code
does. `Clusters` is one call of `union_dbscan` (both its loops, for `min_points` up to 1 and above) and the
numbering of the result; `qsort` is modelled by counting what comes before an element, because the order of equal roots
is of no consequence and the definition can then be reasoned about. A graph `near` stands for the distances, a graph `boxes` for what the STRtree
finds, and candidates come in any order. A step of the inner loop is an action, so the skipped pairs
(`Skipped`), the neighbours set aside until a point is known to be core (`held`) and the border points that
are taken (`union_if_available`) are all there.

### GeomCaches

One call site of a function with two geometry arguments. `heap` is the statement's memory with the counts of
the `SHARED_GSERIALIZED` copies, freed at 0 and handed out again at once; `toast` the cache of detoasted
arguments keyed by `(valueid, toastrelid)`; `cache` the entries of `GetGeomCache`. An action is one call for
one row: both arguments are fetched, then the function returns early or asks an entry for a tree, in one of
the ways ST_Intersects does.

### Brin

One block range, the rows in it, its summary, and the summarisation that runs beside inserts. The support
functions (`geom2d_brin_inclusion_*`, `gidx_brin_inclusion_*`) and the box operators are translated;
PostgreSQL's side of the contract (the placeholder tuple, `union_tuples`, `brin_inclusion_consistent`, what a
summary that is all null stores) is external and modelled from how it calls them. A box is a sequence of
intervals: one for X and Y, which the code always has and treats alike, one for Z, one for M. `Pad` is the
interval a geometry with M and no Z has for Z, `NaN` the 2D box of an EMPTY geometry. The columns of `MCBrin`
cover the 2D, 3D, 4D and geography classes.

### RasterCore, RasterBand, RasterUnion

`RasterCore` is a band and its pixel functions; numbers are counted in halves, so that fractions, values out of
a type's range and values that are *stored* as NODATA without being it are told apart. `RasterBand` is a stored band
under the SQL functions that write it, each call with all its pixels; `touched` records which those were. What NULL writes into a band
without NODATA value depends on the function: ST_SetValue refuses it, an array writes the type's lowest value (`ValueOf`), a point 0
(`PointValue`: the `nodataval` of `RASTER_setPixelValuesGeomval` stays 0), a mask the lowest value again, which `rt_raster_iterator` burns.
`RasterUnion` is the aggregate: `bandarg` is the state's array of bands with their working rasters,
`RASTER_union_transfn` burns the next raster in by the line method or, when one has no band, by the pixel
method, both through `rt_raster_iterator`. A raster without pixels and bands stands for SQL's NULL (`Null`). Pixels lie in one row: nothing in the code relates two rows.

### EffectiveArea, Visvalingam

`tune_areas`: the linked list (`prev`, `next`), the heap (`key_array`, and `treeindex`, where each point is in
it), one turn of the loop per action with its pop and its two updates. `Visvalingam` is the algorithm as it is published: no heap, no
stored areas, each step eliminates a point of least effective area. `EliminatesLeast` is the refinement, with
`line <- inpts`, `left <-` the points without a result yet and `effective <- res_arealist`.

### The proofs

`TopologyProofs`, `GeomCachesProofs`, `RasterBandProofs`, `RasterUnionProofs`, `EffectiveAreaProofs`, `BrinProofs` and
`ClustersProofs` each extend the module they are named after with its theorems; section 4 says what they show. `TopologyFacesProofs`
extends `TopologyProofs`, which has the links, the rows and the theory of planar maps, with the faces, Euler's formula, the objects and the
refinement of `TopoGeomSpec`. Those that need them begin with a few lemmas on numbers: a set of them has a least one (`Least`),
induction up to a number (`UpTo`), a function of a value and a number can be iterated (`Recursion`).

### Faulty variants

The operators whose comment says *faulty variant* are used by no action. Each is the definition after
it with one plausible mistake, and is there to be put in its place: the property the mistake should
break is then violated, which shows the property can fail.

## 3. What is checked

| Run | Bounds | Question |
|---|---|---|
| topology | 3 nodes, 3 edges and 2 faces, or 2 nodes, 4 edges and 3 faces (ever made) | do the columns agree with the drawing after any history of edits, are the tables sound by themselves, and is no legal edge refused? |
| areal | 2, 3, 3; two areal objects, 3 rows | do two objects that share faces keep their area through splits and merges? does `Topology` implement `TopoGeomSpec`? |
| collection | 3, 3, 1 (with a face no edit beyond 5 nodes and edges); an object of all types, 2 rows | the same for nodes, edges and faces together |
| cleanup | 2, 3, 2, or a third node with 1 face; a point, a line and an area object, 2 rows, or 1; a box only when there is no row | does RemoveUnusedPrimitives keep tables and objects, remove all it should, and return? |
| clusters | 5 geometries, `min_points` 1, 2, 3, 4, 6; every graph | are the clusters those of the definition in any order of candidates? |
| caches | 3 geometries in 4 datums, 6 objects, a prepared geometry and an interval tree | are copies and trees alive and of this row? |
| brin | five columns, 3 different rows | does the index find every row, and is it selective? |
| raster_band | 2 pixels; 1, 2 unsigned, 2 signed bits and 64BF | is the flag true, and do pixels read as written? |
| raster_union | 2 pixels, 4 rasters of 11, 13 forms of the call | extent and value of a union in any order |
| effective_area | lines of 3 to 5 points on 5 places, thresholds 0, 2, 5 | is the heap sound, and does it eliminate in the right order? |
| split_rows | 3, 3, 0; a lineal object | finding: `ST_NewEdgesSplit` |
| iso_edge_rows | 3, 3, 0; a lineal object | finding: `ST_RemIsoEdge` |

**topology.** The bounds count ids over the whole history, not at a time, so three edges are three *creations* of
an edge. `BoundedSpec` in `MCTopology` is `Spec` within both bounds, asked before a drawing is made and not after. They are the smallest in which every hard case occurs:

* two edges that share both ends, a closed edge, a closed edge with another at its node, a blind end;
* an edge split and healed back in every direction, a split of a closed edge;
* a face inside a face, a piece that is moved from one face to another by a split outside it, an isolated
  node on either side of a new edge;
* with four edges, a face with two edges on its border split by a third, and the removal of each of them.

`LinksFollowDrawing`, `NodesFollowDrawing`, `FacesFollowDrawing`, `IsolatedNodesBare` compare a column
with the drawing. The code never does so: it writes each column from other stored columns. `RingsClose`,
`ForeignKeysHold` and `FacesSound` (one shell per face, each ring in one face, Euler's formula) look at the
tables and, for the shells, at the orientation of rings. `LegalEdgesAccepted`: the errors "Side-location
conflict" and the like are internal consistency checks; they can only be raised if an earlier edit left a wrong face.

**areal, collection.** `RelationRefersToPrimitives`, `ExtentsPreserved` and the refinement
`EditsCarryTopoGeoms` are the point of the checks and updates of the relation table. An object with both of two merged
faces, with one of them, and two objects of which one has both and the other one only all occur. (In the areal run the
refinement includes what `ExtentsPreserved` says.) `GuardedSpec` is `Spec` without the one step of
the finding on ST_RemIsoEdge; the collection run uses it (as `BoundedGuardedSpec` of `MCTopoGeoms`) to show that nothing else goes wrong. The two objects
of the areal run can be exchanged, which is its symmetry. The row bounds (`Small`) limit what `addElement` adds; an edit may
add one row more, and that state is checked and its history ends.

**cleanup.** Every drawing the bounds allow is made by edits, objects are defined on it, then one cleanup runs. Three edges at once are the smallest case
in which a mended link steps over two deleted edges, and in which three faces are merged from two pairs. A third node only splits an edge
and ends the drawing: the ring of three edges around a face of an object keeps all its edges and is the smallest drawing in which a second heal
follows the first and names an edge that is no more, so that `edgeMap` is used.
`NothingUnusedLeft` is asked of calls without a box.

**clusters.** `min_points` 1 takes the simple loop, 2 to 4 the general one, 6 is more than there are geometries. 4 of 5 is the
least with a border point between two clusters; empty and NULL geometries come with the smaller ones.

**caches.** Two equal geometries in different datums, one on disk and one inline, exchanged arguments, and a geometry no
tree can be built for. Six objects are enough for all references at a time: two arguments and two entries of two.
The view identifies states that differ in addresses only.

**brin.** `RowsFound` compares the index with a scan of the table for every query of the column, in every state of a
summarisation. `IndexIsSelective` (the union is tight; a range is given up only for the documented reason) keeps a summary that
returns everything from passing for a sound one.

**raster_band, raster_union.** `PathsAgree` is asked of every list of two geometries, NULLs and overlaps among them, in every band. Two pixels tell a pixel that is written from one that is not; values lie in, between and
outside the values of each type. Four rasters are enough for a band that comes late, after one without it and before another.
`ValueIsDefined` is three statements: what is selected, what is counted, what is computed. `Large` is 999, beyond what sums reach.

**effective_area.** Five points give a heap of three levels with a left and a right child, and ties.

### Deadlock, fairness, liveness

`CHECK_DEADLOCK FALSE` stands where the system stops: ids come from sequences and a run stops when one is used up
(which in PostgreSQL takes 2^63 ids), a clustering or a simplification ends, a group has no more rasters.

Two things must happen eventually. `CleanupReturns`: the loops of RemoveUnusedPrimitives end. It assumes
`WF(CleanupStep)`: a statement of a running PL/pgSQL function is followed by the next one. Nothing forces a
user to edit or to call the function. `SummariesEnd`: a summarisation ends although inserts may change the placeholder each
time it looks. It assumes weak fairness of the summariser's own steps only (its scan reaches each
row it has to, it merges, it tries to finish), and none of inserts. Both were seen to fail when the loops do not make progress (faulty
variants `PastTurned`, `addValueReplaces`). An edit, a call of a cached function, a pixel write is one call that returns: there is nothing to wait for.

### Findings

1. `cb_updateTopoGeomEdgeSplit` with two new edges (`topology/postgis_topology.c:2389`) resets its buffer
   in the loop and never closes the parenthesis: `ST_NewEdgesSplit` raises an error for any edge that is an
   element of a TopoGeometry. Run `split_rows`.
2. `cb_checkTopoGeomRemIsoEdge` (`topology/postgis_topology.c:2718`) gives the edge id twice where its
   statement wants the id and its opposite: `ST_RemIsoEdge` removes an edge a TopoGeometry walks
   backward, and the row is left behind. Run `iso_edge_rows`.

### Further differences between code and documentation

Each is left out of the runs above by a condition that names it, and is reproduced by a configuration kept beside them
(`tlc -config X.cfg M`):

* `CleanupRows.cfg`, `MCCleanup` — `RemoveUnusedPrimitives.sql.in:433` deletes rows of areal *and mixed* layers by the
  id of a merged face without asking for the element's type, so a collection loses a node or an edge that has that id;
  the manual says that space occupation is maintained (`doc/extras_topology.xml:3696`).
* `BrinEmpty.cfg`, `MCBrin` — an EMPTY geometry has a 2D box of NaN, which `gserialized_datum_get_box2df_p` does not
  report as missing; when it is the first of a range the union is NaN and no query overlaps it (`brin_2d.c:43-49`).
* `RasterNodata.cfg`, `MCRasterBand` — the comments at `rt_band.c:1190` and `:2199` say that no value becomes NODATA by being clamped;
  a value two or more out of range, or a fraction next to NODATA 0, still does.
* `RasterPaths.cfg`, `MCRasterBand` — ST_SetValues "uses a shortcut" when all geometries are points (`reference_raster.xml:5495`), but for
  a NULL value and a band without NODATA the shortcut writes 0 (`rtpg_pixel.c:1405`, `nodataval` is replaced at `1468-1470` only if there
  is a NODATA value, and written at `1716`), and the way through masks writes the type's lowest value (`rt_mapalgebra.c:1409-1410`), as an array
  does (`rtpg_pixel.c:1212-1216`). For a signed or a floating-point type the pixel depends on whether a polygon is among the points. `PathsAgree`
  says what each of the two gives in this case, and that they agree in all others.
* `RasterUnionSum.cfg`, `MCRasterUnion` — a partial SUM that equals the NODATA value is taken for no value, and the sum starts
  again (`reference_raster.xml:12209` has the value defined by the union type).
* `RasterUnionWindow.cfg`, `MCRasterUnion` — as a window aggregate the final function destroys the working rasters
  (`rtpg_mapalgebra.c:3003`) that the comment after it (`3018-3021`) wants to leave to the context, and the next row goes on without them.

Smaller ones, seen in reading or by loosening a bound, and not kept as configurations: a range
that holds only EMPTY geometries stays all NULL in the n-D classes, and `IS NOT NULL` passes over it; `gidx_contains` passes over a padded dimension, so a range
of geometries with Z takes one with M and no Z for contained and keeps its Z out of the union, in the 4D class by `add_value`,
in the 3D class, which cuts off the M of the first geometry of a range, by `merge`; RemoveUnusedPrimitives
leaves unneeded nodes on a ring of three edges, because `edgeMap` follows one renaming only; `ST_Union(rast)` does not
count the extent of rasters without bands that come first; a band without NODATA gets its type's lowest value as one in the
result of ST_Union; MEAN keeps its sums in the type of the input.

## 4. What is proved

Forty-three theorems, each for every value of the constants that satisfies the named assumption of its module. The bounds
the modules have (`MaxNode`, `MaxObj`, `MaxRows`, `MaxGeoms`, `MaxTiles` and so on) are guards of the actions and any
natural number: no argument rests on them being small.

| Module | Theorems | of every |
|---|---|---|
| `TopologyProofs` | `TypeCorrect`, `LinksCorrect`, `RingsAlwaysClose`, `IsolationCorrect`, `NodesCorrect`, `RowsCorrect`, `RowsWithoutLinesCorrect` | number of nodes, edges, faces, set of objects, kinds of layers |
| `TopologyFacesProofs`, the tables | `FacesCorrect`, `ForeignKeysCorrect`, `LegalEdgesAlwaysAccepted`, `RingsInOneFaceCorrect`, `ShellsCorrect`, `EulerCorrect`, `FacesSoundCorrect` | the same |
| `TopologyFacesProofs`, the objects | `ExtentsCorrect`, `TopologyImplementsTopoGeomSpec`, `TopologyWithoutLinesImplementsTopoGeomSpec` | the same |
| `TopologyFacesProofs`, the cleanup | `CleanupCorrect` | the same, and every box |
| `GeomCachesProofs` | `CountsCorrect`, `ArgumentsCorrect`, `TreesCorrect`, `SecondCallFindsTree`, `TypeCorrect` | set of geometries, entries and ways to ask for a tree |
| `RasterBandProofs` | `FlagCorrect`, `WritesCorrect`, `OthersKept`, `TilesCorrect`, `PathsCorrect`, `TypeCorrect` | number of pixels, set of pixel types and of values |
| `RasterUnionProofs` | `ExtentCorrect`, `ValueCorrect` | set of rasters, form of the call, number of rasters |
| `EffectiveAreaProofs` | `HeapCorrect`, `LineCorrect`, `ResultCorrect`, `RefinesVisvalingam` | line, threshold, number of points to keep |
| `BrinProofs` | `RowsCorrect`, `SelectiveCorrect`, `TypeCorrect` | column, of any values and queries |
| `ClustersProofs` | `PartitionCorrect`, `OnlyGrow`, `IdsCorrect`, `ClustersCorrect`, `TypeCorrect` | number of geometries, `near` and `boxes`, `min_points`, order of candidates |

### Assumptions

* `FeatureTypeAssumption`: a layer has one of the four feature types. `BoundsAssumption`: bounds are natural numbers.
* `CachesAssumption` types the constants. `RoomAssumption`: there is an object for each place that points to
  one; it stands for an allocation that does not fail. `lwalloc` raises an error otherwise and the statement ends.
* `BandAssumption`: a pixel type is a range of numbers with 0 in it, and only 1BB has a single bit. Every type of
  `rt_pixtype` is so.
* `UnionAssumption`: a raster has an interval of pixels and a list of bands, or is NULL; the forms of the aggregate are the three
  that SQL declares. Bands hold what their pixel type holds, as the functions of `rt_band.c` leave them (`TypeCorrect` of
  `RasterBandProofs`). `Large` stands for the ends of 64BF and 32BUI: no pixel has `-DBL_MAX`, which a working raster that starts without
  the band takes for NODATA, and a group has at most as many rasters as 32BUI counts.
* `EffectiveAreaAssumption`: a line has three points or more (`lwline_set_effective_area` returns shorter ones as they are),
  coordinates are numbers, and no triangle reaches `FLT_MAX`, with which the code marks the ends.
* `BrinAssumption`: values are NULL, EMPTY or have a box, below `FLT_MAX` in X and Y; a query is one of the class.
* `ClustersAssumption`: there is a geometry (a window partition has a row), and `min_points` is a natural number. What `Init` says of the input is that
  the tree finds all that is near, that EMPTY and NULL geometries are near nothing, and that each of the others is near itself.

### Topology

The inductive invariant `IInv` is the conjunction of `TypeOK`, `LinksFollowDrawing`, `RingsClose` and
`IsolatedNodesBare`. None of the parts is inductive alone: whether an
edit keeps rings closed depends on the links being the clockwise order, whether they stay the clockwise
order depends on each link being in a closed ring of its node, and the first edge at a node is linked as
such exactly when the node was isolated.

`Star(cw, org)` says that the rotation permutes the darts and stays at a node. The links
follow the drawing and the rings close iff `next[d] = cw[-d]` and `Star` (`LinksAreStar`,
`StarGivesLinks`). Each edit is one of four operations on a rotation: insert a curve, drop one, cut one,
join two; `InsertEdgeStar`, `DropEdgeStar`, `CutLineStar` and `JoinLinesStar` show that each keeps `Star`.
What is left for an edit is a case distinction over the darts it writes, showing that the columns the
code computes are those of the new rotation (`LinkedValue` for AddEdge, `HealChoiceCases` for the four
cases of a heal). `NextInv` puts the actions together. `TurnsInv` adds that a node has one turn of the rotation only (`OneTurn`),
from which `NodesCorrect` follows.

**Faces.** Which regions a curve parts is decided by rings and pieces, so it cannot be known without planarity. `PlaneInv` says that
the drawing is `Planar`, that the columns are the drawing's regions (`FacesFollowDrawing`) and that every face is a region with a shell and
every region a face (`RegionsAreFaces`). `Planar` is stated with sets, not with walks: a set of darts is `Walked` if it is closed under next edges and
`Closed` if it is a union of pieces; a ring is in one region (`OneRegion`), is a hole or not as a whole (`HolesWhole`), a bounded region has one shell
(`OneShell`), a piece has one outer ring in its surroundings (`OneHole`, `HasHole`), and Jordan's curve theorem holds in this form (`Jordan`): a set of whole
edges that meets the border of every region an even number of times is all that leads from one side to the other, for some way to
put the nodes on two sides. It is the part that makes the rest inductive. When a curve joins two places of one ring, the ring falls
into two, and `_lwt_AddFaceSplit` is right because the new edge has a different one on each side; when an edge is removed that
has the same face on both sides, `_lwt_RemEdge` is right not to join faces because that edge is a bridge, and a bridge is exactly what `Jordan` lets
one recognise by the region on its sides. Each edit is a growth or a loss of one curve (`Grows`), of one of three kinds: the first at its nodes or a blind end, a bridge
between two pieces, and a curve that parts a ring; or a renaming, for splits and heals. Each is shown to keep each part of `Planar`, in both directions. Then the columns follow:
`LegalEdgesAlwaysAccepted` says that the face `_lwt_AddEdge` finds at one end is the face it finds at the other.

**Euler's formula.** `EulerInv` counts the components of the graph as a partition of the nodes that edges do not cross. A curve
that is drawn between two components joins them and parts no face; one within a component parts a face (`Jordan` again); cuts and joins add or take
one node and one edge. `Pieces` of darts and bare nodes are those components, which gives the formula as the run states it.

**Objects.** `RowsInv` strengthens `RelationRefersToPrimitives` by the types of layers: the callbacks that refuse a removal only look at objects whose layer may
have the element. That and what objects denote is proved for `GuardedSpec`, whose steps leave out the removal of an isolated edge that a row walks
backward (`BackwardRowsGuarded`); a run shows that the property is false with it. Without lineal layers and collections there is no such step, and the theorems hold of `Spec`
(`RowsWithoutLinesCorrect`, `TopologyWithoutLinesImplementsTopoGeomSpec`).

`StepCarries` is where the topology meets its objects: every step has one of seven shapes (`Carries`): a point is marked or unmarked, a line drawn,
taken out, cut or joined, an object redefined, and each of the five edits that change lines or faces brings with it what the rows denote (`CarriedOver`). Drawing and taking out a line need the
faces: a face that is split keeps its id on one side, and `updateTopoGeomFaceSplit` adds the other id wherever the first is a
row, so the darts of both are covered as those of the old region were; when two faces are joined, `checkTopoGeomRemEdge` has made sure that an object has
both or neither. With `ExtentsDrawn` (the history variable `extent` is what the rows denote) this makes `ObjectsInv`, the inductive invariant of
the whole module, from which `ExtentsCorrect` follows. The refinement needs no history variable: the shapes are, one by one, actions of `TopoGeomSpec` under the mapping
(`MarksPromised` to `RedefinesPromised`, `PromiseNext`).

**Cleanup.** RemoveUnusedPrimitives deletes all edges first and mends links and faces afterwards, in turns, so that `FacesInv`, the
conjunction of `IInv`, `TurnsInv` and `PlaneInv`, holds before and after only. Between, the tables are compared with those the call found (`Deleting`): with their rotation `c`, faces `s` and
ends `o`. The rows that are left have the faces and ends they had, and what they are the rows of is drawn and planar (`Erased`, from the lemmas about `_lwt_RemEdge`). Regions are named by a map
`mu` of the old faces, which gives the two faces of every edge deleted so far the lower name and tells no more faces apart than the deletions do (`Lowers`). A link
leads, clockwise around its node and past deleted darts only, to where it belongs (`Reaches`): each turn of a loop moves it one dart on, so that when a loop finds
nothing to update its links are right, and a turn of one loop does not undo the other (`MendingGoesOn`). `merged_faces` is a flood from face to face. `FloodIsLeast` says that it is the least set that is closed, by
counting the pairs each round adds; once all edges are gone `mu` gives a face the name that `merged_faces` keeps (`AllLowered`), a node that lost
its last edge is in the region that all its darts were in (`UncoveredIsThere`), and the relabelling writes `mu` into the columns (`RelabelRestores`).
The model names a region that two regions become by the lower name, so that the last deletion leaves the name `merged_faces` keeps; drawings have no names of their own.

### Geometry caches

`CountsAreReferences` is seen as a function `At` from places to objects: each step redirects one or two places, the count of
what was pointed to goes down and that of the new one up (`Counted`), and what other places point to keeps its geometry
(`Keeps`), because only an object of count 0 is ever handed out. Beside the counts the
invariant needs that a datum in the toast cache has its own geometry (`Keyed`), that a tree is of the copy its
entry holds (`TreeHeld`), that what the call fetched is still there (`RowHeld`), and that the tree it was
handed is of an argument it passed, or, when there was none, that the entry has copies of what it passed (`AnswerHeld`). The last is
what `SecondCallFindsTree` follows from.

### Raster bands and unions

The invariant is `Good`: the fields have their types, every value and the NODATA value are ones that
clamping leaves alone, and `isnodata` is true. Without the second part the third is not inductive: whether the flag survives
a write is decided by comparing clamped values. Each function that writes a band is shown to keep `Good` in turn, by induction
along the pixels or geometries of its call. `PathsCorrect` compares two such walks: for each pixel, the last geometry that covers it
decides in both, and they write the same (`BurntIs`) unless it brings NULL to a band without NODATA value, which is 0 in one and the
type's lowest value in the other (`NullIs`).

For a union the invariant is that every working raster of every band has the extent of all rasters that came, bands that are made late
included (`BandsWhole`, `Begun`); `HullJoins` says that hulls can be taken one after the other.

For the values it is `VInv`, whose core is `Keeps`: what a working raster tells of the rasters that came. It has its band as soon as one of them has (`Bare`), its type and NODATA
value are those of one that came or of 64BF (`Typed`), and at each pixel it holds the number of values, or the value its type selects, or their sum (`Tells`) as a
number that is read back (`Holdable`). The two loops that write pixels are walked along the row (`Burning`, `Copying`); after that the pixel method and the line
method leave a working raster alike (`Renewed`): each pixel has what the callback gives, or what it had where nothing came (`PixelComes`). Without
`Holdable` the step fails: what the callback gives might be clamped, moved aside or taken for NODATA when it is next read, as the finding about SUM shows of
sums. A band that is added late has met no raster with the band (`Numbered`), and the final pass of MEAN and RANGE reads two working rasters of which `Keeps` holds with the
passes they are of. Sums are a recursive function over the sequence of rasters, and appending a raster leaves the sums before it as they are (`SumsAppend`).

### Simplification

The heap is described apart from the line: `LowAt` and `HighAt` are heaps that are out of order at one place,
downward or upward, and `minheap_update` and the pop mend them. The top is least (`TopLeast`) because the first place with less area
would be below a place with less area. The rest of the invariant: the points linked by `prev` and `next` are those in the heap and the
ends (`Linked`); as long as no area was refused, the stored area of each is the one the published algorithm
would compute (`Weighed`); and a point stays out of the result until an area reaches the threshold, after which the result is fixed (`Reached`).
`Weighed` gives the refinement: the top of the heap is then a point of least effective area. `NoneBelowLast` is the code's own check,
the branch with the comment "Oh no, this is a bug": it is proved not to be taken.

### BRIN

`Placed`, `Complete` and `Tight` are the invariant. `Complete` says where a row's value is accounted for while a
summarisation runs: in the summary, in the one that is made, in the placeholder, or still to be scanned; what was seen
of the placeholder is in the new summary already. That is what makes the last step safe, which replaces the
placeholder only if it did not change since.

The theorems have hypotheses on the column, `Regular` and `NoEmpty`, because the properties are false without them, as section 3 says under the differences between code and documentation: `RowsCorrect` leaves out the 2D class with EMPTY values, or asked what is within EMPTY; an n-D class with EMPTY values that is
asked `IS NOT NULL`; and a column that has geometries with M and no Z beside others with Z (`Even`). `SelectiveCorrect` leaves out the
2D class with EMPTY values only. The run's columns are regular ones, so what TLC checks there is what is proved.

### Clustering

`Partition` says of the arrays that parents lead downhill (`Forest`: some rank falls at every step to a parent), that sizes are those of the
sets and that `num` is their number. `UF_find` keeps it with the same roots, whichever part of a path it
compresses, and `UF_union` makes one set of two (`Joined`). `OnlyGrow` follows from that alone.

`ClustersCorrect` needs the two directions of the definition. *Sound*: core points in one set are joined by a chain of
core points, border points are near a core point of their set, and points outside clusters are alone. *Met*: two core points
near each other are in one set once the later has met the earlier, and the neighbours of a core point are in some cluster. The second
is delicate at `union_if_available`, which may leave a border point where it is, and at `Skipped`, where the code does not compute
a distance: such a pair is in one set already. Chains are sets closed under steps (`Leads`), which is the same as the property's
bounded iteration `Connected` because that stops growing after as many steps as there are points. `HeldOK` counts the neighbours set aside:
a point is found to be core exactly when it has as many as it needs. The ids are shown to be the number of clusters
with a smaller root (`Below`), from which `IdsCorrect` follows.

### What stays with TLC, and why

* `CleanupKeepsExtents` and `NothingUnusedLeft`. Neither holds of every layer: a collection loses rows to a merged face's id (`CleanupRows.cfg`), and keeps an edge whose id
  is that of a face it has. Nor is `NothingUnusedLeft` true of larger drawings, where nodes of a ring may be left over (section 3). The run checks them on layers of one
  type. What the calls of the last two loops do to the objects is proved, as they are actions of `Topology`; what the bulk deletion does to them is not.
* `CleanupReturns` and `SummariesEnd`: liveness under fairness is out of the prover's reach, and so is ENABLED.

No module a theorem is in declares a RECURSIVE operator.

## 5. Not modelled

* Coordinates: crossing and simplicity checks, bounding boxes (`face.mbr` and the searches that use
  it), tolerances, point-in-polygon. Their answers are facts of the drawing. A wrong answer (numerical
  robustness) is outside the model; so are distances, areas and boxes of the other modules, which are inputs there.
* `lwt_ChangeEdgeGeom`, which moves a curve. `lwt_MoveIsoNode` moves a point within its face and changes no
  column the model has; `lwt_GetFaceEdges` only reads. `AddPoint`, `AddLine`, `AddPolygon` and the polygonizer.
* Hierarchical layers (level above 0), `CreateTopoGeom`, `toTopoGeom`, casts.
* Concurrent editing sessions and snapshots; widths of ids; wording of errors.
* In the caches: the SRS and SRID caches, the projection cache, an error half way through a builder.
* BRIN on box2df and gidx columns; union, picksplit and penalty of GiST and SP-GiST.
* `ST_ClusterRelate`, whose pattern need not be symmetric, and k-means, which is floating point.
* Offline bands, other map algebra (it evaluates expressions), resampling, GDAL; MEAN and RANGE over a group of NULL rasters only.
* The history tables: a sample script whose behaviour is that of PostgreSQL's rewrite rules.
* Everything PROJECT.json lists as `not_modelled`, with its reason: pure functions, byte formats, floating point,
  external libraries, text processing.

All hazards, with the line where each bites and the property that covers it, are in PROJECT.json.

## 6. Plan

1. *done* — `PlanarMap`, `TopoGeoms`, `Topology`, their runs and the first four theorems.
2. *done* — `TopoGeomSpec` and its refinement; `TopologyCleanup`; `UnionFind` and `Clusters`; `GeomCaches`; `Brin`;
   `RasterCore`, `RasterBand`, `RasterUnion`; `EffectiveArea` and `Visvalingam`.
3. *done* — the theorems of section 4: of the components outside topology, then the links, the nodes, the faces with planarity, Euler's
   formula, the rows, the extents and the refinement of `TopoGeomSpec`; the values of unions.
4. *done* — the theorem about the cleanup's tables. To come: that layers of one type keep their extents through a bulk
   deletion, on top of `ObjectsInv`.
5. Not begun: `TopologySessions`, two sessions whose edits are sequences of backend statements under READ
   COMMITTED, with `data_changed`, the row locks that UPDATE takes and none for reads; the polygonizer compared with
   one-by-one face splits; the parallel aggregate protocol; the projection cache.
