------------------------------ MODULE MCClusters ------------------------------
(* Every graph of nearness over five points without empty geometries for       *)
(* min_points 4, the least with a border point between two clusters; below     *)
(* that, over four points, any of which may be empty or NULL, with a fifth     *)
(* that is empty, and a tree that may find too much.                           *)
EXTENDS Clusters

MCInit == /\ Init
          /\ IF minPoints > 3 THEN empty = {} /\ boxes = near
             ELSE N - 1 \in empty

MCSpec == MCInit /\ [][Next]_vars
=============================================================================
