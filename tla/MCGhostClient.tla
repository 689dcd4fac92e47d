---------------------------- MODULE MCGhostClient ----------------------------
(***************************************************************************)
(* A wallet that receives d1 and makes one transfer with a change shard    *)
(* c1, while it syncs.                                                     *)
(***************************************************************************)
EXTENDS GhostClient

CONSTANTS d1, c1, t1, s1

OneChange == [t \in {t1} |-> {c1}]
=============================================================================
