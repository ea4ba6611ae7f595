---------------------------- MODULE MCChunkline ----------------------------
(***************************************************************************)
(* Three records, which are alike, under one collection.                   *)
(***************************************************************************)
EXTENDS Chunkline, TLC

CONSTANTS i1, i2, i3

Records == Permutations({i1, i2, i3})
=============================================================================
