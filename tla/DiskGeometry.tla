---------------------------- MODULE DiskGeometry ----------------------------
(***************************************************************************)
(* Where a block is on the disk: src/fs/disk.c turns its number into a     *)
(* cylinder and a sector, and src/disk/BDS.c turns these into a range of   *)
(* bytes of the mapped file.  The server computes in int: HALF is 2^31     *)
(* there, and what overflows is taken to wrap around, as gcc compiles it.  *)
(***************************************************************************)
EXTENDS Integers

CONSTANTS HALF, sector_size, MaxSide

ASSUME GeometryAssumption ==
    HALF \in Nat \ {0} /\ sector_size \in Nat \ {0} /\ MaxSide \in Nat

(* main refuses a disk without cylinders or sectors.                       *)
Geometry == [n_cylinders : 1 .. MaxSide, n_sectors : 1 .. MaxSide]

AsInt(n) == ((n + HALF) % (2 * HALF)) - HALF

-----------------------------------------------------------------------------
(* The file server's side *)
NBlocks(g) == g.n_cylinders * g.n_sectors

Cylinder_Swapped(g, block) ==  \* mutant: divided by the other side
    block \div g.n_cylinders

Cylinder(g, block) == block \div g.n_sectors
Sector(g, block) == block % g.n_sectors

-----------------------------------------------------------------------------
(* The disk server's side *)
FileSize(g) == AsInt(g.n_cylinders * g.n_sectors * sector_size)

(* diskfile_init: a file of this size cannot be stretched or mapped.       *)
Starts(g) == FileSize(g) > 0

Accepts(g, cylinder, sector) ==
    /\ 0 <= cylinder /\ cylinder < g.n_cylinders
    /\ 0 <= sector /\ sector < g.n_sectors

Offset(g, cylinder, sector) == AsInt((cylinder * g.n_sectors + sector) * sector_size)

(* A write is also refused if it ends behind the file.                     *)
AcceptsWrite(g, cylinder, sector, size) ==
    /\ Accepts(g, cylinder, sector)
    /\ Offset(g, cylinder, sector) + size <= FileSize(g)

-----------------------------------------------------------------------------
(* The byte where the disk server puts a block of the file server.         *)
First(g, block) == Offset(g, Cylinder(g, block), Sector(g, block))

Countable(g) == NBlocks(g) * sector_size < HALF

(* As long as the disk has fewer bytes than an int can count, the disk     *)
(* server starts, accepts every block of the file server, and keeps them   *)
(* apart and inside its file (disk.c:disk_read_direct, disk_write_direct,  *)
(* BDS.c:diskfile_read, diskfile_write).                                   *)
BlocksKeepApart ==
    \A g \in Geometry : Countable(g) =>
        /\ Starts(g)
        /\ \A a \in 0 .. NBlocks(g) - 1 :
              /\ AcceptsWrite(g, Cylinder(g, a), Sector(g, a), sector_size)
              /\ 0 <= First(g, a) /\ First(g, a) + sector_size <= FileSize(g)
              /\ \A b \in 0 .. NBlocks(g) - 1 :
                    a < b => First(g, a) + sector_size <= First(g, b)
=============================================================================
