----------------------------- MODULE MCInodeFile -----------------------------
(***************************************************************************)
(* Small disks for InodeFile.  Two files on four blocks reach every way of *)
(* sharing the disk and of running out of it; one file with two pointers   *)
(* per indirect block goes through all four kinds of path.                 *)
(***************************************************************************)
EXTENDS InodeFile, TLC

Interchangeable == Permutations(File)
=============================================================================
