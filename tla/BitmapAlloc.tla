----------------------------- MODULE BitmapAlloc -----------------------------
(***************************************************************************)
(* Allocation of data blocks and of inodes in the block layer              *)
(* (src/fs/blocks.c): a bitmap spread over NBB disk blocks of BITS bits, a *)
(* count of free ids in the superblock, and the bitmap block where the     *)
(* next search starts.                                                     *)
(*                                                                         *)
(* The same code serves both kinds.  For data blocks Limit, the number of  *)
(* ids that exist, is n_blocks - DATA_BLOCKS_PTR and the bitmap is longer; *)
(* for inodes the bitmap has exactly Limit bits.  response_mutex keeps     *)
(* calls apart from each other, but not from the shutdown: the handler of  *)
(* SIGINT runs blocks_close without it (FS.c:99), in the middle of a call  *)
(* or before the next one.  A call is one step here, and a shutdown that   *)
(* meets one is disturbed (Disturb).  Callers return only what they were   *)
(* given; InodeFile shows a caller that does not.                          *)
(*                                                                         *)
(* The disk layer below is what WriteBackStore promises: each block is     *)
(* saved on its own at any time, a crash forgets what was not saved, and   *)
(* of a disturbed shutdown nothing is known.                               *)
(***************************************************************************)
EXTENDS Integers, FiniteSets

CONSTANTS BITS,  \* BLOCK_SIZE * 8
          NBB,   \* blocks in the bitmap
          Limit, \* ids that exist
          Garbage, \* bound: how large a count a disturbed shutdown may leave
          MaxCrashes \* bound: crashes, disturbed shutdowns, refused starts

ASSUME SizeAssumption ==
    /\ BITS \in Nat \ {0} /\ NBB \in Nat \ {0}
    /\ Limit \in Nat /\ Limit <= BITS * NBB
ASSUME CrashAssumption == MaxCrashes \in Nat
ASSUME GarbageAssumption == Garbage \in Nat

Id == 0 .. (BITS * NBB - 1)

(* Counts are unsigned; none comes near 2^32 here.                         *)
Superblock == [formatted : BOOLEAN, nfree : Nat]
Counting(n) == [formatted |-> TRUE, nfree |-> n]
NeverRead == [formatted |-> FALSE, nfree |-> 0]  \* the C global's zeros

VARIABLES
    bits,      \* the offsets whose bit is 1, as bitmap reads return them
    nfree,     \* superblock.n_free_*, in memory
    least,     \* least_*_bitmap_block, counted from the bitmap's start
    saved,     \* the superblock, as a read of its block returns it
    diskBits,  \* the bits on the disk server
    diskSaved, \* the superblock on the disk server
    phase,     \* "up", "closing" (inside blocks_close) or "down"
    quiet,     \* history: no request has overlapped this shutdown
    crashes,   \* crashes, disturbed shutdowns and refused starts so far
    raised,    \* history: a deallocation has moved the hint forward
    parted     \* history: a crash or a disturbed shutdown since the format

hints == <<least, raised>>
disk == <<diskBits, diskSaved>>
vars == <<bits, nfree, least, saved, diskBits, diskSaved, phase, quiet,
          crashes, raised, parted>>

TypeOK ==
    /\ bits \subseteq Id /\ diskBits \subseteq Id
    /\ nfree \in Nat
    /\ saved \in Superblock /\ diskSaved \in Superblock
    /\ least \in 0 .. (NBB - 1)
    /\ phase \in {"up", "closing", "down"}
    /\ crashes \in 0 .. MaxCrashes
    /\ quiet \in BOOLEAN /\ raised \in BOOLEAN /\ parted \in BOOLEAN

BitmapBlock(id) == id \div BITS

Zeros == Id \ bits

(* What find_first_zero_bit finds. *)
FirstZero(id) ==
    /\ id \in Zeros /\ BitmapBlock(id) >= least
    /\ \A j \in Zeros : BitmapBlock(j) >= least => id <= j

(* A formatted disk, all of it saved. *)
Init ==
    /\ bits = {} /\ diskBits = {}
    /\ nfree = Limit
    /\ saved = Counting(Limit) /\ diskSaved = Counting(Limit)
    /\ least = 0
    /\ phase = "up" /\ quiet = TRUE
    /\ crashes = 0
    /\ raised = FALSE /\ parted = FALSE

Cleared_KeepsCount ==  \* mutant
    /\ bits' = {}
    /\ saved' = Counting(Limit)
    /\ least' = 0
    /\ raised' = FALSE /\ parted' = FALSE
    /\ UNCHANGED nfree

Cleared_KeepsHint ==  \* mutant
    /\ bits' = {}
    /\ nfree' = Limit
    /\ saved' = Counting(Limit)
    /\ raised' = FALSE /\ parted' = FALSE
    /\ UNCHANGED least

(* Empty bitmaps and the superblock reach the cache, not yet the disk. *)
Cleared ==
    /\ bits' = {}
    /\ nfree' = Limit
    /\ saved' = Counting(Limit)
    /\ least' = 0
    /\ raised' = FALSE /\ parted' = FALSE

Format == phase = "up" /\ Cleared /\ UNCHANGED <<disk, phase, quiet, crashes>>

Allocate_HintsPast(id) ==  \* mutant: the next search starts one block on
    /\ nfree > 0
    /\ FirstZero(id)
    /\ bits' = bits \cup {id}
    /\ nfree' = nfree - 1
    /\ least' = BitmapBlock(id) + 1
    /\ UNCHANGED raised

(* With no free id left (DISK_FULL_ERROR), or no zero bit at or after the  *)
(* hint (DEFAULT_ERROR), the call fails and changes nothing.               *)
Allocate(id) ==
    /\ nfree > 0
    /\ FirstZero(id)
    /\ bits' = bits \cup {id}
    /\ nfree' = nfree - 1
    /\ least' = BitmapBlock(id)
    /\ UNCHANGED raised

Deallocate_KeepsHint(id) ==  \* mutant
    /\ id < Limit
    /\ bits' = bits \ {id}
    /\ nfree' = nfree + 1
    /\ UNCHANGED hints

(* An id that does not exist is refused (INVALID_ARG_ERROR); any other one *)
(* pulls the hint to its own bitmap block, forward as well as back.        *)
Deallocate(id) ==
    /\ id < Limit
    /\ bits' = bits \ {id}
    /\ nfree' = nfree + 1
    /\ least' = BitmapBlock(id)
    /\ raised' = (BitmapBlock(id) > 0 /\ (raised \/ BitmapBlock(id) > least))

Serve ==
    /\ phase = "up"
    /\ \/ \E id \in Id : Allocate(id)
       \/ \E id \in bits : Deallocate(id)
    /\ UNCHANGED <<saved, disk, phase, quiet, crashes, parted>>

(* The cache evicts one bitmap block, or the superblock; the shutdown      *)
(* flushes them all.                                                       *)
SaveBitmapBlock(b) ==
    /\ phase # "down"
    /\ diskBits' = {id \in Id : id \in IF BitmapBlock(id) = b THEN bits
                                                              ELSE diskBits}
    /\ UNCHANGED <<bits, nfree, hints, saved, diskSaved, phase, quiet, crashes,
                   parted>>

SaveSuperblock ==
    /\ phase # "down"
    /\ diskSaved' = saved
    /\ UNCHANGED <<bits, nfree, hints, saved, diskBits, phase, quiet, crashes,
                   parted>>

BeginClose_KeepsSuperblock ==  \* mutant
    /\ phase = "up"
    /\ phase' = "closing"
    /\ UNCHANGED <<bits, nfree, hints, saved, disk, quiet, crashes, parted>>

(* The superblock is written to the cache only now. *)
BeginClose ==
    /\ phase = "up"
    /\ phase' = "closing"
    /\ saved' = Counting(nfree)
    /\ UNCHANGED <<bits, nfree, hints, disk, quiet, crashes, parted>>

(* A worker goes on with the call that the shutdown met half way, between  *)
(* bit and count for instance, or begins another one.                      *)
Disturb ==
    /\ phase = "closing" /\ quiet
    /\ quiet' = FALSE
    /\ UNCHANGED <<bits, nfree, hints, saved, disk, phase, crashes, parted>>

(* The process is gone, and its memory with it. *)
Gone ==
    /\ phase' = "down" /\ quiet' = TRUE
    /\ nfree' = 0
    /\ least' = 0 /\ raised' = FALSE

(* The flush of an undisturbed shutdown has saved everything. *)
EndClose ==
    /\ phase = "closing" /\ quiet
    /\ diskBits = bits /\ diskSaved = saved
    /\ Gone
    /\ UNCHANGED <<bits, saved, disk, crashes, parted>>

(* The process has ended without having saved its cache: what the disk has *)
(* is what the next start reads.                                           *)
Lost ==
    /\ crashes < MaxCrashes
    /\ bits' = diskBits' /\ saved' = diskSaved'
    /\ Gone
    /\ crashes' = crashes + 1
    /\ parted' = TRUE

(* The process is killed, or it closes with the disk server out of reach.  *)
Crash ==
    /\ phase # "down" /\ quiet
    /\ UNCHANGED disk
    /\ Lost

(* A disturbed shutdown ends.  Blocks may have been saved under each       *)
(* other's numbers (DiskCache), so anything can stand on the disk.         *)
EndDisturbed ==
    /\ phase = "closing" /\ ~quiet
    /\ diskBits' \in SUBSET Id
    /\ diskSaved' \in [formatted : BOOLEAN, nfree : 0 .. Garbage]
    /\ Lost

Open ==
    /\ phase = "down" /\ saved.formatted
    /\ nfree' = saved.nfree
    /\ least' = 0
    /\ phase' = "up"
    /\ raised' = FALSE
    /\ UNCHANGED <<bits, saved, disk, quiet, crashes, parted>>

OpenUnformatted ==
    /\ phase = "down" /\ ~saved.formatted
    /\ Cleared
    /\ phase' = "up"
    /\ UNCHANGED <<disk, quiet, crashes>>

(* A disk of a size that is not supported is refused, but not before a     *)
(* superblock that was never read, all zeros, has been written to it.      *)
OpenRefused ==
    /\ phase = "down" /\ crashes < MaxCrashes
    /\ saved' = NeverRead /\ diskSaved' = NeverRead
    /\ crashes' = crashes + 1
    /\ UNCHANGED <<bits, nfree, hints, diskBits, phase, quiet, parted>>

Next ==
    \/ Serve
    \/ \E b \in 0 .. (NBB - 1) : SaveBitmapBlock(b)
    \/ SaveSuperblock
    \/ Format \/ BeginClose \/ Disturb \/ EndClose \/ Crash \/ EndDisturbed
    \/ Open \/ OpenUnformatted \/ OpenRefused

Spec == Init /\ [][Next]_vars

-----------------------------------------------------------------------------
(* The free count is what the bitmap leaves, across allocation, return,    *)
(* format, undisturbed shutdown, restart and the format that a refused     *)
(* start brings about, including ids past the end of the disk that were    *)
(* handed out by mistake.  A crash parts the two, and so does a shutdown   *)
(* that a request overlaps, until the next format                          *)
(* (blocks.c:allocate_block, deallocate_block, blocks_close, blocks_init). *)
FreeCountExact ==
    phase = "up" /\ ~parted => nfree = Limit - Cardinality(bits)

(* Whatever stands between count and bitmap stays exactly as it is through *)
(* serving, undisturbed shutdown and restart: only a crash, a disturbed    *)
(* shutdown, or a format, asked for or brought about by a refused start,   *)
(* makes it grow or heal (blocks.c:24, 64, 168, 213, 232).                 *)
Drift == (IF phase = "down" THEN saved.nfree ELSE nfree) + Cardinality(bits)

DriftStays ==
    [][Drift' = Drift \/ Crash \/ EndDisturbed \/ OpenRefused \/ Cleared]_vars

(* Bitmap blocks before the hint are full, whatever crashes and shutdowns  *)
(* have left, unless a deallocation moved the hint forward (blocks.c:214,  *)
(* 164, 58, 80).                                                           *)
HintSkipsNothing ==
    phase = "up" /\ ~raised => \A id \in Zeros : BitmapBlock(id) >= least

(* While the count says there is room, no deallocation has moved the hint  *)
(* forward and nothing has parted count and bitmap, the search finds an    *)
(* id, and it is one that exists: no spurious failure and no block beyond  *)
(* the end of the disk (blocks.c:find_first_zero_bit with allocate_block's *)
(* check).                                                                 *)
RoomIsFound ==
    phase = "up" /\ ~raised /\ ~parted /\ nfree > 0 =>
        \E id \in Id : id < Limit /\ FirstZero(id)
=============================================================================
