----------------------------- MODULE MCDiskServer -----------------------------
(***************************************************************************)
(* Disks of one and two blocks for DiskServer, the latter of both shapes.  *)
(***************************************************************************)
EXTENDS DiskServer, TLC

CONSTANTS w1, w2

Disk(c, s) == [n_cylinders |-> c, n_sectors |-> s]

MCShape == {Disk(1, 1), Disk(1, 2), Disk(2, 1)}

Interchangeable == Permutations(Worker)
=============================================================================
