-------------------------- MODULE BitmapAllocProofs --------------------------
(***************************************************************************)
(* The allocator's count and search are right for every bitmap size and    *)
(* every disk size, as long as the hint was only ever moved back and no    *)
(* crash, nor a shutdown that overlaps a request, has parted the count     *)
(* from the bitmap; and nothing else widens or heals what those have left. *)
(***************************************************************************)
EXTENDS BitmapAlloc, FiniteSetTheorems, WellFoundedInduction, TLAPS

(* The bitmap block of an id is one of the bitmap's blocks, and it grows   *)
(* with the id.                                                            *)
LEMMA DivBound ==
    ASSUME NEW a \in Nat, NEW b \in Nat \ {0}, NEW n \in Nat, a < b * n
    PROVE  a \div b \in 0 .. (n - 1)
<1>1. PICK q \in Nat : q = a \div b /\ b * q <= a
  <2>1. a \div b \in Nat /\ b * (a \div b) <= a
    BY Z3
  <2> QED
    BY <2>1
<1>2. q < n
  <2>1. ASSUME q >= n PROVE FALSE
    <3>1. b * q >= b * n
      BY <2>1, Z3
    <3> QED
      BY <1>1, <3>1
  <2> QED
    BY <2>1
<1> QED
  BY <1>1, <1>2

(* Division by a positive number is monotone. *)
LEMMA DivMonotone ==
    ASSUME NEW a \in Nat, NEW c \in Nat, NEW b \in Nat \ {0}, a <= c
    PROVE  a \div b <= c \div b
  BY Z3

(* Every id lies in one of the blocks of the bitmap (blocks.c:91, 109). *)
LEMMA BlockOfId ==
    ASSUME NEW id \in Id
    PROVE  BitmapBlock(id) \in 0 .. (NBB - 1)
<1>1. id \in Nat /\ id < BITS * NBB
  BY SizeAssumption DEF Id
<1> QED
  BY <1>1, SizeAssumption, DivBound DEF BitmapBlock

(* A greater id never lies in an earlier bitmap block. *)
LEMMA BlockMonotone ==
    ASSUME NEW i \in Id, NEW j \in Id, i <= j
    PROVE  BitmapBlock(i) <= BitmapBlock(j)
<1>1. i \in Nat /\ j \in Nat
  BY DEF Id
<1> QED
  BY <1>1, SizeAssumption, DivMonotone DEF BitmapBlock

(* Every set of natural numbers has a least one. *)
LEMMA LeastNumber ==
    ASSUME NEW T \in SUBSET Nat, T # {}
    PROVE  \E x \in T : \A y \in T : x <= y
<1>1. PICK x \in T : \A y \in T : ~ (<<y, x>> \in OpToRel(<, Nat))
  BY NatLessThanWellFounded, WFMin, Zenon
<1>2. \A y \in T : ~(y < x)
  BY <1>1 DEF OpToRel
<1> QED
  BY <1>2

(* The hint that init and format set is a block of the bitmap. *)
LEMMA FirstBitmapBlock ==
    0 \in 0 .. (NBB - 1) /\ Limit \in Nat
<1>1. NBB \in Nat \ {0} /\ Limit \in Nat
  BY SizeAssumption
<1> QED
  BY <1>1

(* The bitmap is finite, so that its bits can be counted. *)
LEMMA FiniteBits == ASSUME TypeOK PROVE IsFiniteSet(bits)
<1>1. IsFiniteSet(Id)
  BY SizeAssumption, FS_Interval DEF Id
<1> QED
  BY <1>1, FS_Subset DEF TypeOK

-----------------------------------------------------------------------------
(* The count in use: in memory while the server runs, saved otherwise.     *)
(* Neither has to agree with the bitmap after a crash or a disturbed       *)
(* shutdown, and a disk that is not formatted has no count.                *)
CountKept ==
    /\ phase # "down" /\ ~parted =>
          nfree = Limit - Cardinality(bits)
    /\ phase = "down" /\ ~parted /\ saved.formatted =>
          saved.nfree = Limit - Cardinality(bits)
    /\ phase = "closing" /\ quiet => saved = Counting(nfree)

IInv == TypeOK /\ CountKept /\ HintSkipsNothing

(* What the code writes as a superblock is one. *)
LEMMA Superblocks ==
    NeverRead \in Superblock /\ \A n \in Nat : Counting(n) \in Superblock
  BY DEF Superblock, NeverRead, Counting

(* A disk just formatted or cleared satisfies the invariant                *)
(* (blocks.c:blocks_format).                                               *)
LEMMA InitIInv == Init => IInv
<1> SUFFICES ASSUME Init PROVE IInv
  OBVIOUS
<1>1. TypeOK
  <2>1. 0 \in 0 .. MaxCrashes
    BY CrashAssumption
  <2>2. saved \in Superblock /\ diskSaved \in Superblock /\ nfree \in Nat
    BY FirstBitmapBlock, Superblocks DEF Init
  <2> QED
    BY <2>1, <2>2, FirstBitmapBlock DEF Init, TypeOK
<1>2. CountKept
  BY SizeAssumption, FS_EmptySet DEF Init, CountKept
<1>3. HintSkipsNothing
  BY BlockOfId DEF Init, HintSkipsNothing, Zeros
<1> QED
  BY <1>1, <1>2, <1>3 DEF IInv

LEMMA ClearedIInv ==
    ASSUME IInv, Cleared, UNCHANGED <<disk, quiet, crashes>>, phase' = "up"
    PROVE  IInv'
<1>1. TypeOK'
  BY FirstBitmapBlock, Superblocks DEF Cleared, IInv, TypeOK, disk
<1>2. CountKept'
  BY SizeAssumption, FS_EmptySet DEF Cleared, CountKept
<1>3. HintSkipsNothing'
  BY BlockOfId DEF Cleared, HintSkipsNothing, Zeros
<1> QED
  BY <1>1, <1>2, <1>3 DEF IInv

(* What an allocation does to the count of bits (blocks.c:218).            *)
LEMMA AllocateCounts ==
    ASSUME TypeOK, NEW id \in Id, Allocate(id)
    PROVE  /\ Cardinality(bits') = Cardinality(bits) + 1
           /\ Cardinality(bits) \in Nat
<1>1. IsFiniteSet(bits) /\ id \notin bits
  BY FiniteBits DEF Allocate, FirstZero, Zeros
<1>2. bits' = bits \cup {id}
  BY DEF Allocate
<1> QED
  BY <1>1, <1>2, FS_AddElement, FS_CardinalityType

(* What the return of an allocated id does to it (blocks.c:205).           *)
LEMMA DeallocateCounts ==
    ASSUME TypeOK, NEW id \in bits, Deallocate(id)
    PROVE  /\ Cardinality(bits') = Cardinality(bits) - 1
           /\ Cardinality(bits) \in Nat
<1>1. bits' = bits \ {id}
  BY DEF Deallocate
<1> QED
  BY <1>1, FiniteBits, FS_RemoveElement, FS_CardinalityType

(* An allocation keeps count and hint right (blocks.c:168, 218). *)
LEMMA AllocateIInv ==
    ASSUME IInv, NEW id \in Id, Allocate(id), phase = "up",
           UNCHANGED <<saved, disk, phase, quiet, crashes, parted>>
    PROVE  IInv'
<1>1. BitmapBlock(id) \in 0 .. (NBB - 1)
  BY BlockOfId
<1>3. /\ Cardinality(bits') = Cardinality(bits) + 1
      /\ Cardinality(bits) \in Nat
  BY AllocateCounts DEF IInv
<1>4. TypeOK'
  BY <1>1 DEF IInv, TypeOK, Allocate, disk
<1>5. CountKept'
  BY <1>3, SizeAssumption DEF IInv, TypeOK, CountKept, Allocate
<1>6. ASSUME phase' = "up", ~raised', NEW j \in Zeros'
      PROVE  BitmapBlock(j) >= least'
  <2>1. j \in Zeros /\ j \in Id /\ BitmapBlock(j) >= least
    BY <1>6 DEF IInv, HintSkipsNothing, Allocate, Zeros
  <2>2. id <= j
    BY <2>1 DEF Allocate, FirstZero
  <2>3. BitmapBlock(j) \in 0 .. (NBB - 1)
    BY <2>1, BlockOfId
  <2> QED
    BY <1>1, <2>1, <2>2, <2>3, BlockMonotone DEF Allocate
<1> QED
  BY <1>4, <1>5, <1>6 DEF IInv, HintSkipsNothing

(* Returning an allocated id keeps count and hint right (blocks.c:155,     *)
(* 205).                                                                   *)
LEMMA DeallocateIInv ==
    ASSUME IInv, NEW id \in bits, Deallocate(id), phase = "up",
           UNCHANGED <<saved, disk, phase, quiet, crashes, parted>>
    PROVE  IInv'
<1>1. id \in Id /\ BitmapBlock(id) \in 0 .. (NBB - 1)
  BY BlockOfId DEF IInv, TypeOK
<1>2. /\ Cardinality(bits') = Cardinality(bits) - 1
      /\ Cardinality(bits) \in Nat
  BY DeallocateCounts DEF IInv
<1>3. TypeOK'
  BY <1>1 DEF IInv, TypeOK, Deallocate, disk
<1>4. CountKept'
  BY <1>2, SizeAssumption DEF IInv, TypeOK, CountKept, Deallocate
<1>5. ASSUME phase' = "up", ~raised', NEW j \in Zeros'
      PROVE  BitmapBlock(j) >= least'
  <2>1. j \in Id /\ BitmapBlock(j) \in 0 .. (NBB - 1)
    BY BlockOfId DEF Zeros
  <2>2. CASE BitmapBlock(id) = 0
    BY <2>1, <2>2 DEF Deallocate
  <2>3. CASE BitmapBlock(id) # 0
    <3>1. ~raised /\ BitmapBlock(id) <= least
      <4>1. raised' = (BitmapBlock(id) > 0 /\ (raised \/ BitmapBlock(id) > least))
        BY DEF Deallocate
      <4>2. BitmapBlock(id) > 0
        BY <1>1, <2>3
      <4>3. ~raised /\ ~(BitmapBlock(id) > least)
        BY <1>5, <4>1, <4>2, Zenon
      <4> QED
        BY <1>1, <4>3 DEF IInv, TypeOK, Deallocate
    <3>2. CASE j = id
      BY <1>1, <3>2 DEF Deallocate
    <3>3. CASE j # id
      <4>1. BitmapBlock(j) >= least
        BY <3>1, <3>3 DEF IInv, HintSkipsNothing, Zeros, Deallocate
      <4> QED
        BY <1>1, <2>1, <3>1, <4>1 DEF Deallocate, IInv, TypeOK
    <3> QED
      BY <3>2, <3>3
  <2> QED
    BY <2>2, <2>3
<1> QED
  BY <1>3, <1>4, <1>5 DEF IInv, HintSkipsNothing

(* Saving a block changes nothing that the allocator reads (disk.c:154).  *)
LEMMA SavedIInv ==
    ASSUME IInv, NEW b \in 0 .. (NBB - 1), SaveBitmapBlock(b) \/ SaveSuperblock
    PROVE  IInv'
<1>1. UNCHANGED <<bits, nfree, least, raised, saved, phase, quiet, crashes, parted>>
  BY DEF SaveBitmapBlock, SaveSuperblock, hints
<1>2. TypeOK'
  BY <1>1 DEF IInv, TypeOK, SaveBitmapBlock, SaveSuperblock
<1>3. CountKept' /\ HintSkipsNothing'
  BY <1>1 DEF IInv, CountKept, HintSkipsNothing, Zeros
<1> QED
  BY <1>2, <1>3 DEF IInv

(* A process that is gone without having saved its cache leaves whatever   *)
(* there is on the disk, and nothing is claimed of its count.              *)
LEMMA LostIInv ==
    ASSUME IInv, Lost, diskBits' \subseteq Id, diskSaved' \in Superblock
    PROVE  IInv'
<1>1. crashes + 1 \in 0 .. MaxCrashes
  BY CrashAssumption DEF Lost, IInv, TypeOK
<1>2. TypeOK'
  BY <1>1, FirstBitmapBlock DEF Lost, Gone, TypeOK
<1>3. CountKept' /\ HintSkipsNothing'
  BY DEF Lost, Gone, CountKept, HintSkipsNothing
<1> QED
  BY <1>2, <1>3 DEF IInv

(* A shutdown, until it ends undisturbed, keeps the count that it saves    *)
(* (blocks.c:24).                                                          *)
LEMMA CloseIInv ==
    ASSUME IInv, BeginClose \/ Disturb \/ EndClose PROVE IInv'
<1>1. CASE BeginClose
  <2>1. TypeOK'
    BY <1>1, Superblocks DEF BeginClose, hints, disk, IInv, TypeOK
  <2> QED
    BY <1>1, <2>1 DEF BeginClose, hints, disk, IInv, CountKept, HintSkipsNothing
<1>2. CASE Disturb
  <2>1. TypeOK'
    BY <1>2 DEF Disturb, hints, disk, IInv, TypeOK
  <2> QED
    BY <1>2, <2>1 DEF Disturb, hints, disk, IInv, CountKept, HintSkipsNothing
<1>3. CASE EndClose
  <2>1. TypeOK'
    BY <1>3, FirstBitmapBlock DEF EndClose, Gone, disk, IInv, TypeOK
  <2>2. saved = Counting(nfree) /\
        (~parted => nfree = Limit - Cardinality(bits))
    BY <1>3 DEF EndClose, IInv, CountKept
  <2>3. CountKept'
    BY <1>3, <2>2 DEF EndClose, Gone, IInv, TypeOK, CountKept, Counting
  <2> QED
    BY <1>3, <2>1, <2>3 DEF EndClose, Gone, IInv, HintSkipsNothing
<1> QED
  BY <1>1, <1>2, <1>3

(* Every step of the allocator preserves the invariant. *)
LEMMA NextIInv == IInv /\ [Next]_vars => IInv'
<1> SUFFICES ASSUME IInv, [Next]_vars PROVE IInv'
  OBVIOUS
<1>1. CASE Serve
  BY <1>1, AllocateIInv, DeallocateIInv DEF Serve
<1>2. CASE \E b \in 0 .. (NBB - 1) : SaveBitmapBlock(b)
  BY <1>2, SavedIInv
<1>3. CASE SaveSuperblock
  BY <1>3, FirstBitmapBlock, SavedIInv
<1>4. CASE Format
  BY <1>4, ClearedIInv DEF Format, IInv, TypeOK
<1>5. CASE BeginClose \/ Disturb \/ EndClose
  BY <1>5, CloseIInv
<1>6. CASE Crash
  BY <1>6, LostIInv DEF Crash, disk, IInv, TypeOK
<1>7. CASE EndDisturbed
  <2>1. diskSaved' \in Superblock
    BY <1>7, GarbageAssumption DEF EndDisturbed, Superblock
  <2> QED
    BY <1>7, <2>1, LostIInv DEF EndDisturbed
<1>8. CASE Open
  <2>1. saved.nfree \in Nat
    BY <1>8 DEF Open, IInv, TypeOK, Superblock
  <2>2. TypeOK'
    BY <1>8, <2>1, FirstBitmapBlock DEF Open, disk, IInv, TypeOK
  <2>3. CountKept'
    BY <1>8 DEF Open, IInv, CountKept
  <2>4. HintSkipsNothing'
    BY <1>8, BlockOfId DEF Open, HintSkipsNothing, Zeros
  <2> QED
    BY <2>2, <2>3, <2>4 DEF IInv
<1>9. CASE OpenUnformatted
  BY <1>9, ClearedIInv DEF OpenUnformatted
<1>10. CASE OpenRefused
  <2>1. TypeOK'
    BY <1>10, CrashAssumption, Superblocks DEF OpenRefused, hints, IInv, TypeOK
  <2> QED
    BY <1>10, <2>1
    DEF OpenRefused, hints, IInv, CountKept, HintSkipsNothing, NeverRead
<1>11. CASE UNCHANGED vars
  BY <1>11
  DEF vars, IInv, TypeOK, CountKept, HintSkipsNothing, Zeros
<1> QED
  BY <1>1, <1>2, <1>3, <1>4, <1>5, <1>6, <1>7, <1>8, <1>9, <1>10, <1>11 DEF Next

(* Serving moves count and bitmap by the same amount. *)
LEMMA NextDrift ==
    IInv /\ [Next]_vars =>
        [Drift' = Drift \/ Crash \/ EndDisturbed \/ OpenRefused \/ Cleared]_vars
<1> SUFFICES ASSUME IInv, Next,
                    ~Crash, ~EndDisturbed, ~OpenRefused, ~Cleared
             PROVE  Drift' = Drift
  BY Zenon
<1>1. ASSUME NEW id \in Id, Allocate(id), phase = "up", phase' = "up"
      PROVE  Drift' = Drift
  <2>1. nfree \in Nat /\ nfree' = nfree - 1
    BY <1>1 DEF IInv, TypeOK, Allocate
  <2>2. /\ Cardinality(bits') = Cardinality(bits) + 1
        /\ Cardinality(bits) \in Nat
    BY <1>1, AllocateCounts DEF IInv
  <2>3. Drift = nfree + Cardinality(bits) /\ Drift' = nfree' + Cardinality(bits')
    BY <1>1 DEF Drift
  <2> QED
    BY <2>1, <2>2, <2>3
<1>2. ASSUME NEW id \in bits, Deallocate(id), phase = "up", phase' = "up"
      PROVE  Drift' = Drift
  <2>1. nfree \in Nat /\ nfree' = nfree + 1
    BY <1>2 DEF IInv, TypeOK, Deallocate
  <2>2. /\ Cardinality(bits') = Cardinality(bits) - 1
        /\ Cardinality(bits) \in Nat
    BY <1>2, DeallocateCounts DEF IInv
  <2>3. Drift = nfree + Cardinality(bits) /\ Drift' = nfree' + Cardinality(bits')
    BY <1>2 DEF Drift
  <2> QED
    BY <2>1, <2>2, <2>3
<1>3. CASE Serve
  BY <1>1, <1>2, <1>3 DEF Serve
<1>4. CASE \E b \in 0 .. (NBB - 1) : SaveBitmapBlock(b)
  BY <1>4 DEF SaveBitmapBlock, Drift
<1>5. CASE SaveSuperblock
  BY <1>5 DEF SaveSuperblock, Drift
<1>6. CASE BeginClose \/ Disturb
  BY <1>6 DEF BeginClose, Disturb, Drift
<1>7. CASE EndClose
  BY <1>7 DEF EndClose, Gone, Drift, Counting, IInv, CountKept
<1>8. CASE Open
  BY <1>8 DEF Open, Drift
<1> QED
  BY <1>3, <1>4, <1>5, <1>6, <1>7, <1>8 DEF Next, Format, OpenUnformatted

(* The search finds what the count promises.  Fewer than Limit bits are    *)
(* set, so one below Limit is clear; nothing clear lies before the hint;   *)
(* so the least clear bit is at or after the hint and is below Limit.      *)
LEMMA IInvRoom == IInv => RoomIsFound
<1> SUFFICES ASSUME IInv, phase = "up", ~raised, ~parted, nfree > 0
             PROVE  \E id \in Id : id < Limit /\ FirstZero(id)
  BY DEF RoomIsFound
<1>1. PICK z \in 0 .. (Limit - 1) : z \in Zeros
  <2>1. SUFFICES ASSUME 0 .. (Limit - 1) \subseteq bits
                 PROVE  FALSE
    BY SizeAssumption DEF Zeros, Id
  <2>2. Cardinality(0 .. (Limit - 1)) = Limit
    BY SizeAssumption, FS_Interval
  <2>3. Limit <= Cardinality(bits) /\ Cardinality(bits) \in Nat
    BY <2>1, <2>2, FiniteBits, FS_Subset, FS_CardinalityType DEF IInv
  <2> QED
    BY <2>3, SizeAssumption DEF IInv, CountKept, TypeOK
<1>2. Zeros \in SUBSET Nat /\ Zeros # {}
  BY <1>1 DEF Zeros, Id
<1>3. PICK id \in Zeros : \A j \in Zeros : id <= j
  BY <1>2, LeastNumber
<1>4. id <= z /\ id \in Nat
  BY <1>1, <1>2, <1>3
<1>5. id < Limit
  BY <1>1, <1>4, SizeAssumption
<1>6. FirstZero(id)
  BY <1>3 DEF FirstZero, IInv, HintSkipsNothing
<1> QED
  BY <1>5, <1>6 DEF Zeros

(* The superblock's free count is exact in every running state that        *)
(* neither a crash nor a disturbed shutdown since the last format          *)
(* precedes, for every bitmap and disk size (blocks.c:allocate_*,          *)
(* deallocate_*, blocks_close, blocks_init).                               *)
THEOREM CountIsExact == Spec => []FreeCountExact
<1>1. IInv => FreeCountExact
  BY DEF IInv, CountKept, FreeCountExact
<1> QED
  BY <1>1, InitIInv, NextIInv, PTL DEF Spec

(* Counts, hint and bits stay in range, whatever a crash or a disturbed    *)
(* shutdown leaves (blocks.c:allocate_block, deallocate_block).            *)
THEOREM AllocatorTyped == Spec => []TypeOK
<1>1. IInv => TypeOK
  BY DEF IInv
<1> QED
  BY <1>1, InitIInv, NextIInv, PTL DEF Spec

(* No clear bit lies before the hint, unless a deallocation has moved it   *)
(* forward (blocks.c:find_first_zero_bit, deallocate_block).               *)
THEOREM HintIsSound == Spec => []HintSkipsNothing
<1>1. IInv => HintSkipsNothing
  BY DEF IInv
<1> QED
  BY <1>1, InitIInv, NextIInv, PTL DEF Spec

(* As long as no deallocation moved the hint forward, and neither a crash  *)
(* nor a disturbed shutdown parted count and bitmap, a positive count      *)
(* means that the search succeeds with an id that exists                   *)
(* (blocks.c:find_first_zero_bit, allocate_block, allocate_inode).         *)
THEOREM RoomIsAlwaysFound == Spec => []RoomIsFound
BY IInvRoom, InitIInv, NextIInv, PTL DEF Spec

(* Serving, undisturbed shutdowns and restarts neither widen nor heal what *)
(* stands between count and bitmap (blocks.c:24, 64, 168, 213, 232).       *)
THEOREM DriftIsKept == Spec => DriftStays
BY InitIInv, NextIInv, NextDrift, PTL DEF Spec, DriftStays
=============================================================================
