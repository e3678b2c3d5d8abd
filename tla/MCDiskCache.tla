----------------------------- MODULE MCDiskCache -----------------------------
(***************************************************************************)
(* A small disk for DiskCache: fewer slots than blocks, so that every      *)
(* eviction happens, and two contents, so that a stale copy shows.         *)
(***************************************************************************)
EXTENDS DiskCache, TLC

CONSTANTS b1, b2, d1, d2

(* The superblock keeps its name; the other blocks and the contents are    *)
(* interchangeable.                                                        *)
Interchangeable == Permutations({b1, b2}) \cup Permutations({d1, d2})
=============================================================================
