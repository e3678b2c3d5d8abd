--------------------------- MODULE InodeFileProofs ---------------------------
(***************************************************************************)
(* Inode files, for every number of files, of pointers per block and of    *)
(* blocks: types first; then paths and the pointers they go through; then  *)
(* what each step of a resize does to the pointers that files hold.        *)
(***************************************************************************)
EXTENDS InodeFile, FiniteSetTheorems, TLAPS

(* A bitmap block is one of the bitmap's blocks (blocks.c:BITMAP_BLOCK).    *)
LEMMA HintInRange ==
    ASSUME NEW id \in Alloc!Id
    PROVE  id \div BITS \in 0 .. (NBB - 1)
<1>1. BITS \in Nat \ {0} /\ NBB \in Nat \ {0}
  BY DiskAssumption
<1>2. id \in Nat /\ id < BITS * NBB
  BY <1>1 DEF Alloc!Id
<1>3. PICK q \in Nat : q = id \div BITS /\ BITS * q <= id
  <2>1. id \div BITS \in Nat /\ BITS * (id \div BITS) <= id
    BY <1>1, <1>2, Z3
  <2> QED
    BY <2>1
<1>4. q < NBB
  <2>1. ASSUME q >= NBB PROVE FALSE
    <3>1. BITS * q >= BITS * NBB
      BY <1>1, <2>1, Z3
    <3> QED
      BY <1>1, <1>2, <1>3, <3>1
  <2> QED
    BY <1>1, <2>1
<1> QED
  BY <1>1, <1>3, <1>4

(* What the allocator keeps, whatever it is asked (blocks.c:                *)
(* allocate_block, deallocate_block).                                      *)
LEMMA AllocatorTyped ==
    ASSUME Alloc!TypeOK, NEW id \in Alloc!Id, Alloc!Allocate(id) \/ Alloc!Deallocate(id)
    PROVE  Alloc!TypeOK'
<1>1. id \div BITS \in 0 .. (NBB - 1)
  BY HintInRange
<1>2. bits' \subseteq Alloc!Id /\ least' \in 0 .. (NBB - 1)
  BY <1>1 DEF Alloc!TypeOK, Alloc!Allocate, Alloc!Deallocate, Alloc!BitmapBlock
<1>3. nfree' \in Nat
  BY DEF Alloc!TypeOK, Alloc!Allocate, Alloc!Deallocate
<1>4. raised' \in BOOLEAN
  <2>1. CASE Alloc!Allocate(id)
    BY <2>1 DEF Alloc!TypeOK, Alloc!Allocate
  <2>2. CASE Alloc!Deallocate(id)
    BY <2>2 DEF Alloc!Deallocate
  <2> QED
    BY <2>1, <2>2
<1> QED
  BY <1>2, <1>3, <1>4 DEF Alloc!TypeOK

(* The part of TypeOK that is not the allocator's. *)
FilesTyped ==
    /\ table \in [DataBlock -> [Entry -> Pointer]]
    /\ live \subseteq File
    /\ inode \in [File -> Inode]
    /\ op = NoOp \/ op \in Resizing
    /\ result \in {"ok", "error"}
    /\ failed \subseteq {"grow", "shrink", "write", "empty", "gap"}

LEMMA TypeParts == TypeOK <=> Alloc!TypeOK /\ FilesTyped
BY DEF TypeOK, FilesTyped

(* What is no longer in use becomes Wild, which is a pointer like any      *)
(* other.                                                                  *)
LEMMA TrimTyped == \A ino \in Inode : Trim(ino) \in Inode
<1> SUFFICES ASSUME NEW ino \in Inode PROVE Trim(ino) \in Inode
  OBVIOUS
<1>1. Trim(ino).n \in 0 .. MaxBlocks
  BY DEF Trim, Inode
<1>2. [e \in 0 .. (NDirect - 1) |->
         IF e < ino.n THEN ino.direct[e] ELSE Wild]
        \in [0 .. (NDirect - 1) -> Pointer]
  BY DEF Inode, Pointer
<1>3. [k \in 1 .. 3 |->
         IF \E c \in Cells(ino) : c[2] = 0 /\ Path(c[1])[1] = k
         THEN ino.top[k] ELSE Wild] \in [1 .. 3 -> Pointer]
  BY DEF Inode, Pointer
<1> QED
  BY <1>1, <1>2, <1>3 DEF Trim, Inode

LEMMA SettleTyped ==
    ASSUME table \in [DataBlock -> [Entry -> Pointer]], NEW used, NEW inodes
    PROVE  Settle(used, inodes) \in [DataBlock -> [Entry -> Pointer]]
<1> DEFINE kept == UNION {Slots(inodes[f]) : f \in used}
<1>1. \A b \in DataBlock, i \in Entry :
        (IF <<b, i>> \in kept THEN table[b][i] ELSE Wild) \in Pointer
  BY DEF Pointer
<1> HIDE DEF kept
<1>2. [b \in DataBlock |->
         [i \in Entry |-> IF <<b, i>> \in kept THEN table[b][i] ELSE Wild]]
        \in [DataBlock -> [Entry -> Pointer]]
  BY <1>1
<1> QED
  BY <1>2 DEF Settle, kept

LEMMA LevelsTyped == \A b : Levels(b) \subseteq 0 .. 3
BY DEF Levels

LEMMA FailTyped ==
    ASSUME FilesTyped, Fail PROVE FilesTyped'
<1>1. table' \in [DataBlock -> [Entry -> Pointer]]
  BY SettleTyped DEF FilesTyped, Fail
<1>2. failed' \subseteq {"grow", "shrink", "write", "empty", "gap"}
  BY DEF FilesTyped, Fail
<1> QED
  BY <1>1, <1>2 DEF FilesTyped, Fail

(* One block taken: one pointer changes, in the inode or in a table.       *)
LEMMA GrowOneGoesOn ==
    ASSUME FilesTyped, NEW id \in Alloc!Id, GrowOne(id) PROVE op' \in Resizing
<1> DEFINE l == Min(op.todo)
           p == Path(op.block)
           done == [op EXCEPT !.todo = @ \ {l}]
<1>1. op \in Resizing /\ id \in Pointer
  BY DEF FilesTyped, GrowOne, Growing, Pointer
<1>2. done \in Resizing
  BY <1>1 DEF Resizing
<1>3. done.ino \in Inode
  BY <1>1 DEF Resizing
<1>4. [done EXCEPT !.ino.top[p[1]] = id] \in Resizing
  <2> HIDE DEF done, p
  <2> QED
    BY <1>1, <1>2, <1>3 DEF Resizing, Inode
<1>5. [done EXCEPT !.ino.direct[p[2]] = id] \in Resizing
  <2> HIDE DEF done, p
  <2> QED
    BY <1>1, <1>2, <1>3 DEF Resizing, Inode
<1> QED
  BY <1>2, <1>4, <1>5 DEF GrowOne

LEMMA GrowOneTyped ==
    ASSUME FilesTyped, NEW id \in Alloc!Id, GrowOne(id) PROVE FilesTyped'
<1>1. op' \in Resizing
  BY GrowOneGoesOn
<1>2. table' \in [DataBlock -> [Entry -> Pointer]]
  <2>1. CASE table' = table
    BY <2>1 DEF FilesTyped
  <2>2. ASSUME NEW h \in DataBlock, NEW i, table' = [table EXCEPT ![h][i] = id]
        PROVE  table' \in [DataBlock -> [Entry -> Pointer]]
    BY <2>2 DEF FilesTyped, Pointer
  <2> QED
    BY <2>1, <2>2 DEF GrowOne
<1> QED
  BY <1>1, <1>2 DEF GrowOne, FilesTyped

LEMMA FinishTyped ==
    ASSUME FilesTyped, Finish PROVE FilesTyped'
<1>1. op \in Resizing
  BY DEF FilesTyped, Finish
<1>2. WrittenBack \in Inode
  BY <1>1 DEF WrittenBack, Resizing, Inode
<1>3. Trim(WrittenBack) \in Inode
  BY <1>2, TrimTyped
<1>4. inode' \in [File -> Inode]
  BY <1>3 DEF Finish, FilesTyped
<1>5. table' \in [DataBlock -> [Entry -> Pointer]]
  BY SettleTyped DEF Finish, FilesTyped
<1>6. live' \subseteq File
  BY DEF Finish, LiveAfter, FilesTyped
<1> QED
  BY <1>4, <1>5, <1>6 DEF Finish, FilesTyped

(* Data put into a block is read as pointers no more, whatever block it is. *)
LEMMA WriteTyped ==
    ASSUME FilesTyped, NEW f \in File, NEW b \in Overwritten,
           Write(f, b) \/ EmptyWrite(f, b)
    PROVE  FilesTyped'
<1>1. Blank \in [Entry -> Pointer]
  BY DEF Blank, Pointer
<1>2. table' \in [DataBlock -> [Entry -> Pointer]]
  <2>1. CASE Write(f, b)
    BY <1>1, <2>1 DEF Write, FilesTyped
  <2>2. CASE EmptyWrite(f, b)
    BY <2>2 DEF EmptyWrite, FilesTyped
  <2> QED
    BY <2>1, <2>2
<1>3. /\ live' = live /\ inode' = inode /\ op' = op
      /\ result' \in {"ok", "error"}
      /\ failed' \subseteq {"grow", "shrink", "write", "empty", "gap"}
  BY DEF Write, EmptyWrite, FilesTyped
<1> QED
  BY <1>2, <1>3 DEF FilesTyped

LEMMA CreateTyped ==
    ASSUME FilesTyped, NEW f \in File, Create(f) PROVE FilesTyped'
<1>1. NewInode \in Inode
  BY BoundAssumption DEF NewInode, Inode, Pointer
<1> QED
  BY <1>1 DEF Create, FilesTyped

LEMMA ResizeStarts ==
    ASSUME FilesTyped, NEW f \in File, NEW n \in 0 .. MaxBlocks,
           NEW delete \in BOOLEAN, Resize(f, n, delete)
    PROVE  op' \in Resizing
<1>1. inode[f] \in Inode /\ inode[f].n \in Int
  BY DEF FilesTyped, Inode
<1>2. First(inode[f].n, n) \in Int
  BY <1>1 DEF First
<1> QED
  BY <1>1, <1>2, LevelsTyped DEF Resize, Resizing

LEMMA ResizeTyped ==
    ASSUME FilesTyped, NEW f \in File, NEW n \in 0 .. MaxBlocks,
           NEW delete \in BOOLEAN, Resize(f, n, delete)
    PROVE  FilesTyped'
BY ResizeStarts DEF Resize, FilesTyped

LEMMA StepGoesOn ==
    ASSUME FilesTyped, NextBlock \/ \E id \in DataBlock : ShrinkOne(id)
    PROVE  op' \in Resizing
<1>1. op \in Resizing
  BY DEF FilesTyped, NextBlock, ShrinkOne, Shrinking
<1>2. CASE NextBlock
  <2>1. PICK b \in Int : op' = [op EXCEPT !.block = b, !.todo = Levels(b)]
    <3>1. op.block + 1 \in Int /\ op.block - 1 \in Int
      BY <1>1 DEF Resizing
    <3> QED
      BY <1>2, <3>1 DEF NextBlock
  <2>2. Levels(b) \in SUBSET (0 .. 3)
    BY LevelsTyped
  <2> QED
    BY <1>1, <2>1, <2>2 DEF Resizing
<1>3. CASE \E id \in DataBlock : ShrinkOne(id)
  BY <1>1, <1>3 DEF ShrinkOne, Resizing
<1> QED
  BY <1>2, <1>3

LEMMA StepTyped ==
    ASSUME FilesTyped, NextBlock \/ \E id \in DataBlock : ShrinkOne(id)
    PROVE  FilesTyped'
BY StepGoesOn DEF FilesTyped, NextBlock, ShrinkOne

LEMMA InitTyped == Init => TypeOK
<1> SUFFICES ASSUME Init PROVE Alloc!TypeOK /\ FilesTyped
  BY TypeParts
<1>6. Limit \in Nat
  BY DiskAssumption
<1>1. bits \subseteq Alloc!Id /\ nfree \in Nat /\ raised \in BOOLEAN
  BY <1>6 DEF Init
<1>5. Saved \in Alloc!Superblock /\ least \in 0 .. (NBB - 1)
  BY DiskAssumption DEF Init, Saved, Alloc!Superblock
<1>2. NewInode \in Inode
  BY BoundAssumption DEF NewInode, Inode, Pointer
<1>3. Blank \in [Entry -> Pointer]
  BY DEF Blank, Pointer
<1>4. FilesTyped
  BY <1>2, <1>3 DEF Init, FilesTyped
<1> QED
  BY <1>1, <1>4, <1>5 DEF Alloc!TypeOK

LEMMA NextTyped == TypeOK /\ [Next]_vars => TypeOK'
<1> SUFFICES ASSUME Alloc!TypeOK, FilesTyped, [Next]_vars
             PROVE  Alloc!TypeOK' /\ FilesTyped'
  BY TypeParts, PTL
<1>1. ASSUME NEW f \in File, Create(f) PROVE Alloc!TypeOK' /\ FilesTyped'
  BY <1>1, CreateTyped DEF Create, alloc, Alloc!TypeOK
<1>2. ASSUME NEW f \in File, NEW n \in 0 .. MaxBlocks, NEW delete \in BOOLEAN,
             Resize(f, n, delete)
      PROVE  Alloc!TypeOK' /\ FilesTyped'
  BY <1>2, ResizeTyped DEF Resize, alloc, Alloc!TypeOK
<1>3. ASSUME NEW id \in Alloc!Id, GrowOne(id) PROVE Alloc!TypeOK' /\ FilesTyped'
  BY <1>3, GrowOneTyped, AllocatorTyped DEF GrowOne
<1>4. ASSUME NEW id \in DataBlock, ShrinkOne(id)
      PROVE  Alloc!TypeOK' /\ FilesTyped'
  <2>1. id \in Alloc!Id
    BY DiskAssumption DEF DataBlock, Alloc!Id
  <2> QED
    BY <1>4, <2>1, StepTyped, AllocatorTyped DEF ShrinkOne
<1>5. ASSUME GrowFull \/ Refused \/ SpuriousError
      PROVE  Alloc!TypeOK' /\ FilesTyped'
  <2>1. Fail /\ UNCHANGED alloc
    BY <1>5 DEF GrowFull, Refused, SpuriousError
  <2> QED
    BY <2>1, FailTyped DEF alloc, Alloc!TypeOK
<1>6. ASSUME NextBlock PROVE Alloc!TypeOK' /\ FilesTyped'
  BY <1>6, StepTyped DEF NextBlock, alloc, Alloc!TypeOK
<1>7. ASSUME Finish PROVE Alloc!TypeOK' /\ FilesTyped'
  BY <1>7, FinishTyped DEF Finish, alloc, Alloc!TypeOK
<1>8. ASSUME NEW f \in File, NEW b \in Overwritten,
             Write(f, b) \/ EmptyWrite(f, b)
      PROVE  Alloc!TypeOK' /\ FilesTyped'
  <2>1. FilesTyped'
    BY <1>8, WriteTyped
  <2>2. UNCHANGED alloc
    BY <1>8 DEF Write, EmptyWrite
  <2> QED
    BY <2>1, <2>2 DEF alloc, Alloc!TypeOK
<1>9. CASE UNCHANGED vars
  BY <1>9 DEF vars, FilesTyped, Alloc!TypeOK
<1> QED
  BY <1>1, <1>2, <1>3, <1>4, <1>5, <1>6, <1>7, <1>8, <1>9 DEF Next

(* Type correctness: inodes, pointers and the resize in progress keep      *)
(* their shape, and the allocator its own                                  *)
(* (inodes.c:inode_file_resize, inode_file_write, blocks.c).               *)
THEOREM InodeTypeCorrect == Spec => []TypeOK
BY InitTyped, NextTyped, PTL DEF Spec

-----------------------------------------------------------------------------
(* Paths: the arithmetic of the three regions.                             *)
LEMMA Shape ==
    /\ IB_N_ENTRIES \in Nat /\ IB_N_ENTRIES >= 2 /\ NDirect \in Nat /\ NDirect >= 2
    /\ IB_N_ENTRIES * IB_N_ENTRIES \in Nat
    /\ IB_N_ENTRIES <= IB_N_ENTRIES * IB_N_ENTRIES
    /\ SBLOCK_START \in Nat /\ DBLOCK_START \in Nat /\ TBLOCK_START \in Nat
    /\ SBLOCK_START < DBLOCK_START /\ DBLOCK_START < TBLOCK_START
<1>1. /\ IB_N_ENTRIES \in Nat /\ IB_N_ENTRIES >= 2
      /\ NDirect \in Nat /\ NDirect >= 2
  BY ShapeAssumption
<1>2. ASSUME NEW n \in Nat, n >= 2 PROVE n * n \in Nat /\ n <= n * n
  BY <1>2
<1> QED
  BY <1>1, <1>2 DEF SBLOCK_START, DBLOCK_START, TBLOCK_START

LEMMA Divided ==
    ASSUME NEW b \in Nat, NEW n \in Nat \ {0}
    PROVE  b \div n \in Nat /\ b % n \in 0 .. (n - 1) /\ (b \div n) * n + (b % n) = b
OBVIOUS

LEMMA Quotient ==
    ASSUME NEW n \in Nat \ {0}, NEW q \in Nat, NEW r \in 0 .. (n - 1)
    PROVE  (q * n + r) \div n = q /\ (q * n + r) % n = r
<1> PICK b \in Nat : b = q * n + r
  OBVIOUS
<1>1. PICK x \in Nat, y \in 0 .. (n - 1) :
         x = b \div n /\ y = b % n /\ x * n + y = b
  BY Divided
<1>2. x = q
  <2>1. ASSUME x >= q + 1 PROVE FALSE
    <3>1. x * n >= (q + 1) * n
      BY <2>1
    <3> QED
      BY <1>1, <3>1
  <2>2. ASSUME q >= x + 1 PROVE FALSE
    <3>1. q * n >= (x + 1) * n
      BY <2>2
    <3> QED
      BY <1>1, <3>1
  <2> QED
    BY <1>1, <2>1, <2>2
<1> QED
  BY <1>1, <1>2

LEMMA PathDirect ==
    ASSUME NEW b \in Int, b < SBLOCK_START PROVE Path(b) = <<0, b, 0, 0>>
BY Shape DEF Path

LEMMA PathSingle ==
    ASSUME NEW e \in Entry
    PROVE  /\ Path(SBLOCK_START + e) = <<1, e, 0, 0>>
           /\ SBLOCK_START + e \in SBLOCK_START .. (DBLOCK_START - 1)
<1> PICK b \in Nat : b = SBLOCK_START + e
  BY Shape DEF Entry
<1>1. b \in SBLOCK_START .. (DBLOCK_START - 1) /\ b - SBLOCK_START = e
  BY Shape DEF Entry, DBLOCK_START
<1>2. Path(b) = <<1, b - SBLOCK_START, 0, 0>>
  BY <1>1, Shape DEF Path
<1> QED
  BY <1>1, <1>2

LEMMA PathDouble ==
    ASSUME NEW e \in Entry, NEW f \in Entry
    PROVE  /\ Path(DBLOCK_START + e * IB_N_ENTRIES + f) = <<2, e, f, 0>>
           /\ DBLOCK_START + e * IB_N_ENTRIES + f \in DBLOCK_START .. (TBLOCK_START - 1)
<1> DEFINE N == IB_N_ENTRIES
<1>1. N \in Nat \ {0} /\ e \in Nat /\ f \in 0 .. (N - 1) /\ e <= N - 1
  BY Shape DEF Entry
<1>2. e * N \in Nat /\ e * N <= (N - 1) * N
  BY <1>1
<1>3. PICK x \in Nat : x = e * N + f /\ x \div N = e /\ x % N = f
  BY <1>1, <1>2, Quotient
<1>4. x < N * N
  BY <1>1, <1>2, <1>3
<1>5. DBLOCK_START + x \in DBLOCK_START .. (TBLOCK_START - 1)
  BY <1>4, Shape DEF TBLOCK_START
<1>6. Path(DBLOCK_START + x) = <<2, e, f, 0>>
  <2>1. DBLOCK_START + x - DBLOCK_START = x
    BY Shape
  <2> QED
    BY <1>3, <1>5, <2>1, Shape DEF Path
<1> QED
  BY <1>1, <1>2, <1>3, <1>5, <1>6, Shape

LEMMA PathTriple ==
    ASSUME NEW e \in Entry, NEW f \in Entry, NEW g \in Entry
    PROVE  LET b == TBLOCK_START + (e * IB_N_ENTRIES + f) * IB_N_ENTRIES + g IN
           Path(b) = <<3, e, f, g>> /\ b \in TBLOCK_START .. (TBLOCK_END - 1)
<1> DEFINE N == IB_N_ENTRIES
<1>1. /\ N \in Nat \ {0} /\ e \in Nat /\ f \in 0 .. (N - 1) /\ g \in 0 .. (N - 1)
      /\ e <= N - 1 /\ f <= N - 1
  BY Shape DEF Entry
<1>2. PICK y \in Nat : y = e * N + f /\ y \div N = e /\ y % N = f
  BY <1>1, Quotient
<1>3. PICK x \in Nat : x = y * N + g /\ x \div N = y /\ x % N = g
  <2>1. (y * N + g) \div N = y /\ (y * N + g) % N = g
    BY <1>1, Quotient
  <2>2. y * N + g \in Nat
    BY <1>1
  <2> QED
    BY <2>1, <2>2
<1>4. PICK z \in Nat : z = f * N + g
  BY <1>1
<1>5. z <= N * N - 1
  <2>1. f * N <= (N - 1) * N
    BY <1>1
  <2> QED
    BY <1>1, <1>4, <2>1
<1>6. PICK M \in Nat \ {0} : M = N * N
  BY <1>1
<1>7. x = e * M + z
  <2>1. x = (e * N + f) * N + g
    BY <1>2, <1>3
  <2>2. (e * N + f) * N = e * (N * N) + f * N
    BY <1>1
  <2> QED
    BY <1>1, <1>4, <1>6, <2>1, <2>2
<1>8. x \div M = e
  BY <1>1, <1>5, <1>6, <1>7, Quotient
<1>9. x < N * M
  <2>1. e * M <= (N - 1) * M
    BY <1>1, <1>6
  <2> QED
    BY <1>1, <1>5, <1>6, <1>7, <2>1
<1>10. TBLOCK_START + x \in TBLOCK_START .. (TBLOCK_END - 1)
  BY <1>1, <1>6, <1>9, Shape DEF TBLOCK_END
<1>11. Path(TBLOCK_START + x) = <<3, e, f, g>>
  <2>1. TBLOCK_START + x - TBLOCK_START = x /\ x \div (N * N) = e
    BY <1>6, <1>8, Shape
  <2> QED
    BY <1>2, <1>3, <1>10, <2>1, Shape DEF Path
<1> QED
  BY <1>1, <1>2, <1>3, <1>10, <1>11, Shape

(* Every block of a file has a path of one of four kinds.                  *)
LEMMA PathKinds ==
    ASSUME NEW b \in Nat, b < TBLOCK_END
    PROVE  \/ b < SBLOCK_START
           \/ \E e \in Entry : b = SBLOCK_START + e
           \/ \E e, f \in Entry : b = DBLOCK_START + e * IB_N_ENTRIES + f
           \/ \E e, f, g \in Entry :
                 b = TBLOCK_START + (e * IB_N_ENTRIES + f) * IB_N_ENTRIES + g
<1> DEFINE N == IB_N_ENTRIES
<1>1. N \in Nat \ {0}
  BY Shape
<1>2. CASE b >= SBLOCK_START /\ b < DBLOCK_START
  BY <1>2, Shape DEF Entry, DBLOCK_START
<1>3. CASE b >= DBLOCK_START /\ b < TBLOCK_START
  <2> PICK x \in Nat : x = b - DBLOCK_START
    BY <1>3, Shape
  <2>1. PICK e \in Nat, f \in 0 .. (N - 1) : e * N + f = x
    BY <1>1, Divided
  <2>2. e < N
    <3>1. ASSUME e >= N PROVE FALSE
      <4>1. e * N >= N * N
        BY <1>1, <3>1
      <4>2. x < N * N
        BY <1>1, <1>3, Shape DEF TBLOCK_START
      <4> QED
        BY <1>1, <2>1, <4>1, <4>2
    <3> QED
      BY <1>1, <3>1
  <2>3. e \in Entry /\ f \in Entry
    BY <1>1, <2>1, <2>2 DEF Entry
  <2> QED
    BY <1>1, <2>1, <2>3, Shape
<1>4. CASE b >= TBLOCK_START
  <2> PICK x \in Nat : x = b - TBLOCK_START
    BY <1>4, Shape
  <2>1. PICK y \in Nat, g \in 0 .. (N - 1) : y * N + g = x
    BY <1>1, Divided
  <2>2. PICK e \in Nat, f \in 0 .. (N - 1) : e * N + f = y
    BY <1>1, Divided
  <2>3. e < N
    <3>1. ASSUME e >= N PROVE FALSE
      <4>1. e * N >= N * N
        BY <1>1, <3>1
      <4>2. y >= N * N
        BY <1>1, <2>2, <4>1
      <4>3. y * N >= (N * N) * N
        BY <1>1, <4>2
      <4>4. x < N * (N * N)
        BY <1>1, <1>4, Shape DEF TBLOCK_END
      <4> QED
        BY <1>1, <2>1, <4>3, <4>4
    <3> QED
      BY <1>1, <3>1
  <2>4. e \in Entry /\ f \in Entry /\ g \in Entry
    BY <1>1, <2>1, <2>2, <2>3 DEF Entry
  <2>5. b = TBLOCK_START + (e * N + f) * N + g
    BY <1>1, <2>1, <2>2, Shape
  <2> QED
    BY <2>4, <2>5
<1> QED
  BY <1>2, <1>3, <1>4, Shape

(* The levels at which a path differs from the one before.                 *)
LEMMA LevelsDirect ==
    ASSUME NEW b \in Nat, b < SBLOCK_START PROVE Levels(b) = {1}
<1>1. Path(b) = <<0, b, 0, 0>> /\ Path(b - 1) = <<0, b - 1, 0, 0>>
  BY PathDirect, Shape
<1> QED
  BY <1>1 DEF Levels

LEMMA LevelsSingle ==
    ASSUME NEW e \in Entry
    PROVE  Levels(SBLOCK_START + e) = IF e = 0 THEN {0, 1} ELSE {1}
<1>1. e \in Nat
  BY DEF Entry
<1> PICK b \in Nat : b = SBLOCK_START + e
  BY <1>1, Shape
<1>2. Path(b) = <<1, e, 0, 0>>
  BY PathSingle
<1>3. CASE e = 0
  <2>1. Path(b - 1) = <<0, b - 1, 0, 0>>
    BY <1>3, PathDirect, Shape
  <2>2. b - 1 # 0
    BY <1>3, Shape DEF SBLOCK_START
  <2>3. Levels(b) = {0, 1}
    BY <1>2, <1>3, <2>1, <2>2 DEF Levels
  <2> QED
    BY <1>3, <2>3
<1>4. CASE e > 0
  <2>1. e - 1 \in Entry
    BY <1>4, Shape DEF Entry
  <2>2. Path(SBLOCK_START + (e - 1)) = <<1, e - 1, 0, 0>>
    BY <2>1, PathSingle
  <2>3. SBLOCK_START + (e - 1) = b - 1
    BY <1>1, Shape
  <2>4. Levels(b) = {1}
    BY <1>1, <1>2, <2>2, <2>3 DEF Levels
  <2> QED
    BY <1>4, <2>4
<1> QED
  BY <1>1, <1>3, <1>4

LEMMA LevelsDouble ==
    ASSUME NEW e \in Entry, NEW f \in Entry
    PROVE  Levels(DBLOCK_START + e * IB_N_ENTRIES + f) =
             IF f > 0 THEN {2} ELSE IF e > 0 THEN {1, 2} ELSE {0, 1}
<1> DEFINE N == IB_N_ENTRIES
<1>1. e \in Nat /\ f \in Nat /\ N - 1 \in Entry /\ N - 1 # 0 /\ N \in Nat
  BY Shape DEF Entry
<1> PICK b \in Nat : b = DBLOCK_START + e * N + f
  BY <1>1, Shape
<1>2. Path(b) = <<2, e, f, 0>>
  BY PathDouble
<1>3. CASE f > 0
  <2>1. f - 1 \in Entry
    BY <1>3, Shape DEF Entry
  <2>2. Path(DBLOCK_START + e * N + (f - 1)) = <<2, e, f - 1, 0>>
    BY <2>1, PathDouble
  <2>3. DBLOCK_START + e * N + (f - 1) = b - 1
    BY <1>1, Shape
  <2>4. Levels(b) = {2}
    BY <1>1, <1>2, <2>2, <2>3 DEF Levels
  <2> QED
    BY <1>3, <2>4
<1>4. CASE f = 0 /\ e > 0
  <2>1. e - 1 \in Entry
    BY <1>4, Shape DEF Entry
  <2>2. Path(DBLOCK_START + (e - 1) * N + (N - 1)) = <<2, e - 1, N - 1, 0>>
    BY <1>1, <2>1, PathDouble
  <2>3. DBLOCK_START + (e - 1) * N + (N - 1) = b - 1
    BY <1>1, <1>4, Shape
  <2>4. Levels(b) = {1, 2}
    BY <1>1, <1>2, <1>4, <2>2, <2>3 DEF Levels
  <2> QED
    BY <1>4, <2>4
<1>5. CASE f = 0 /\ e = 0
  <2>1. Path(SBLOCK_START + (N - 1)) = <<1, N - 1, 0, 0>>
    BY <1>1, PathSingle
  <2>2. SBLOCK_START + (N - 1) = b - 1
    BY <1>1, <1>5, Shape DEF DBLOCK_START
  <2>3. Levels(b) = {0, 1}
    BY <1>1, <1>2, <1>5, <2>1, <2>2 DEF Levels
  <2> QED
    BY <1>5, <2>3
<1> QED
  BY <1>1, <1>3, <1>4, <1>5

LEMMA LevelsTriple ==
    ASSUME NEW e \in Entry, NEW f \in Entry, NEW g \in Entry
    PROVE  Levels(TBLOCK_START + (e * IB_N_ENTRIES + f) * IB_N_ENTRIES + g) =
             IF g > 0 THEN {3} ELSE IF f > 0 THEN {2, 3}
             ELSE IF e > 0 THEN {1, 2, 3} ELSE {0, 1, 2}
<1> DEFINE N == IB_N_ENTRIES
<1>1. /\ e \in Nat /\ f \in Nat /\ g \in Nat
      /\ N - 1 \in Entry /\ N - 1 # 0 /\ N \in Nat
  BY Shape DEF Entry
<1> PICK y \in Nat : y = e * N + f
  BY <1>1
<1> PICK b \in Nat : b = TBLOCK_START + y * N + g
  BY <1>1, Shape
<1>2. Path(b) = <<3, e, f, g>>
  BY PathTriple
<1>3. CASE g > 0
  <2>1. g - 1 \in Entry
    BY <1>3, Shape DEF Entry
  <2>2. Path(TBLOCK_START + (e * N + f) * N + (g - 1)) = <<3, e, f, g - 1>>
    BY <2>1, PathTriple
  <2>3. TBLOCK_START + y * N + (g - 1) = b - 1
    BY <1>1, Shape
  <2>4. Levels(b) = {3}
    BY <1>1, <1>2, <2>2, <2>3 DEF Levels
  <2> QED
    BY <1>3, <2>4
<1>4. CASE g = 0 /\ f > 0
  <2>1. f - 1 \in Entry
    BY <1>4, Shape DEF Entry
  <2>2. Path(TBLOCK_START + (e * N + (f - 1)) * N + (N - 1)) = <<3, e, f - 1, N - 1>>
    BY <1>1, <2>1, PathTriple
  <2>3. e * N + (f - 1) = y - 1
    BY <1>1
  <2>4. (y - 1) * N = y * N - N
    BY <1>1
  <2>5. TBLOCK_START + (y - 1) * N + (N - 1) = b - 1
    BY <1>1, <1>4, <2>4, Shape
  <2>6. Path(b - 1) = <<3, e, f - 1, N - 1>>
    BY <2>2, <2>3, <2>5
  <2>7. Levels(b) = {2, 3}
    BY <1>1, <1>2, <1>4, <2>6 DEF Levels
  <2> QED
    BY <1>4, <2>7
<1>5. CASE g = 0 /\ f = 0 /\ e > 0
  <2>1. e - 1 \in Entry
    BY <1>5, Shape DEF Entry
  <2>2. Path(TBLOCK_START + ((e - 1) * N + (N - 1)) * N + (N - 1)) =
          <<3, e - 1, N - 1, N - 1>>
    BY <1>1, <2>1, PathTriple
  <2>3. (e - 1) * N + (N - 1) = y - 1
    BY <1>1, <1>5
  <2>4. (y - 1) * N = y * N - N
    BY <1>1
  <2>5. TBLOCK_START + (y - 1) * N + (N - 1) = b - 1
    BY <1>1, <1>5, <2>4, Shape
  <2>6. Path(b - 1) = <<3, e - 1, N - 1, N - 1>>
    BY <2>2, <2>3, <2>5
  <2>7. Levels(b) = {1, 2, 3}
    BY <1>1, <1>2, <1>5, <2>6 DEF Levels
  <2> QED
    BY <1>5, <2>7
<1>6. CASE g = 0 /\ f = 0 /\ e = 0
  <2>1. Path(DBLOCK_START + (N - 1) * N + (N - 1)) = <<2, N - 1, N - 1, 0>>
    BY <1>1, PathDouble
  <2>2. (N - 1) * N = N * N - N
    BY <1>1
  <2>3. y = 0 /\ b = TBLOCK_START
    BY <1>1, <1>6, Shape
  <2>4. DBLOCK_START + (N - 1) * N + (N - 1) = b - 1
    BY <1>1, <2>2, <2>3, Shape DEF TBLOCK_START
  <2>5. Levels(b) = {0, 1, 2}
    BY <1>1, <1>2, <1>6, <2>1, <2>4 DEF Levels
  <2> QED
    BY <1>6, <2>5
<1> QED
  BY <1>1, <1>3, <1>4, <1>5, <1>6

(* The four kinds of paths, and where each is new.                         *)
DirectKind(b) == b < SBLOCK_START /\ Path(b) = <<0, b, 0, 0>> /\ Levels(b) = {1}

SingleKind(b, e) ==
    /\ b = SBLOCK_START + e
    /\ Path(b) = <<1, e, 0, 0>>
    /\ Levels(b) = IF e = 0 THEN {0, 1} ELSE {1}

DoubleKind(b, e, f) ==
    /\ b = DBLOCK_START + e * IB_N_ENTRIES + f
    /\ Path(b) = <<2, e, f, 0>>
    /\ Levels(b) = IF f > 0 THEN {2} ELSE IF e > 0 THEN {1, 2} ELSE {0, 1}

TripleKind(b, e, f, g) ==
    /\ b = TBLOCK_START + (e * IB_N_ENTRIES + f) * IB_N_ENTRIES + g
    /\ Path(b) = <<3, e, f, g>>
    /\ Levels(b) = IF g > 0 THEN {3} ELSE IF f > 0 THEN {2, 3}
                   ELSE IF e > 0 THEN {1, 2, 3} ELSE {0, 1, 2}

LEMMA Kinds ==
    ASSUME NEW b \in Nat, b < TBLOCK_END
    PROVE  \/ DirectKind(b)
           \/ \E e \in Entry : SingleKind(b, e)
           \/ \E e, f \in Entry : DoubleKind(b, e, f)
           \/ \E e, f, g \in Entry : TripleKind(b, e, f, g)
<1>1. CASE b < SBLOCK_START
  BY <1>1, PathDirect, LevelsDirect DEF DirectKind
<1>2. ASSUME NEW e \in Entry, b = SBLOCK_START + e PROVE SingleKind(b, e)
  BY <1>2, PathSingle, LevelsSingle DEF SingleKind
<1>3. ASSUME NEW e \in Entry, NEW f \in Entry,
             b = DBLOCK_START + e * IB_N_ENTRIES + f
      PROVE  DoubleKind(b, e, f)
  BY <1>3, PathDouble, LevelsDouble DEF DoubleKind
<1>4. ASSUME NEW e \in Entry, NEW f \in Entry, NEW g \in Entry,
             b = TBLOCK_START + (e * IB_N_ENTRIES + f) * IB_N_ENTRIES + g
      PROVE  TripleKind(b, e, f, g)
  BY <1>4, PathTriple, LevelsTriple DEF TripleKind
<1> QED
  BY <1>1, <1>2, <1>3, <1>4, PathKinds

LEMMA EntryIsNat == Entry \subseteq Nat /\ 0 \in Entry /\ IB_N_ENTRIES \in Nat
BY Shape DEF Entry

(* Where each kind begins and ends.                                        *)
LEMMA KindsInOrder ==
    /\ \A b \in Nat, e, f \in Entry : DoubleKind(b, e, f) =>
          DBLOCK_START <= b /\ b < TBLOCK_START
    /\ \A b \in Nat, e \in Entry : SingleKind(b, e) =>
          SBLOCK_START <= b /\ b < DBLOCK_START
    /\ \A b \in Nat, e, f, g \in Entry : TripleKind(b, e, f, g) =>
          TBLOCK_START <= b
<1>1. \A e, f \in Entry :
        DBLOCK_START + e * IB_N_ENTRIES + f \in DBLOCK_START .. (TBLOCK_START - 1)
  BY PathDouble
<1>2. \A e \in Entry : SBLOCK_START + e \in SBLOCK_START .. (DBLOCK_START - 1)
  BY PathSingle
<1>3. \A e, f, g \in Entry :
        TBLOCK_START + (e * IB_N_ENTRIES + f) * IB_N_ENTRIES + g
          \in TBLOCK_START .. (TBLOCK_END - 1)
  BY PathTriple
<1>4. \A b \in Nat, e, f \in Entry : DoubleKind(b, e, f) =>
        DBLOCK_START <= b /\ b < TBLOCK_START
  BY <1>1, Shape DEF DoubleKind
<1>5. \A b \in Nat, e \in Entry : SingleKind(b, e) =>
        SBLOCK_START <= b /\ b < DBLOCK_START
  BY <1>2, Shape DEF SingleKind
<1>6. \A b \in Nat, e, f, g \in Entry : TripleKind(b, e, f, g) => TBLOCK_START <= b
  BY <1>3, Shape DEF TripleKind
<1> QED
  BY <1>4, <1>5, <1>6

(* visit_path_to_nth_block: a path belongs to one block.                   *)
LEMMA PathsDiffer ==
    ASSUME NEW a \in Nat, NEW b \in Nat, a < TBLOCK_END, b < TBLOCK_END,
           \A i \in 1 .. 4 : Path(a)[i] = Path(b)[i]
    PROVE  a = b
<1>0. Path(a)[1] = Path(b)[1] /\ Path(a)[2] = Path(b)[2]
      /\ Path(a)[3] = Path(b)[3] /\ Path(a)[4] = Path(b)[4]
  OBVIOUS
<1>1. CASE DirectKind(a)
  BY <1>0, <1>1, Kinds DEF DirectKind, SingleKind, DoubleKind, TripleKind
<1>2. ASSUME NEW e \in Entry, SingleKind(a, e) PROVE a = b
  BY <1>0, <1>2, Kinds DEF DirectKind, SingleKind, DoubleKind, TripleKind
<1>3. ASSUME NEW e \in Entry, NEW f \in Entry, DoubleKind(a, e, f) PROVE a = b
  BY <1>0, <1>3, Kinds DEF DirectKind, SingleKind, DoubleKind, TripleKind
<1>4. ASSUME NEW e \in Entry, NEW f \in Entry, NEW g \in Entry, TripleKind(a, e, f, g)
      PROVE  a = b
  BY <1>0, <1>4, Kinds DEF DirectKind, SingleKind, DoubleKind, TripleKind
<1> QED
  BY <1>1, <1>2, <1>3, <1>4, Kinds

LEMMA CellIsBlock ==
    ASSUME NEW c \in Cell
    PROVE  /\ c[1] \in Nat /\ c[1] < MaxBlocks /\ c[1] < TBLOCK_END
           /\ c[2] \in 0 .. 3 /\ c[2] \in Levels(c[1]) /\ c = <<c[1], c[2]>>
<1>1. TBLOCK_END \in Nat
  <2>1. IB_N_ENTRIES * (IB_N_ENTRIES * IB_N_ENTRIES) \in Nat
    BY Shape
  <2> QED
    BY <2>1, Shape DEF TBLOCK_END
<1>2. MaxBlocks \in Nat /\ MaxBlocks <= TBLOCK_END
  BY BoundAssumption
<1> QED
  BY <1>1, <1>2 DEF Cell

(* What a cell is, by its level and by the kind of its path.               *)
LEMMA CellFacts ==
    ASSUME NEW c \in Cell
    PROVE  /\ Path(c[1])[1] \in 0 .. 3
           /\ Path(c[1])[1] = 0 =>
                c[2] = 1 /\ Path(c[1])[2] = c[1] /\ c[1] \in 0 .. (NDirect - 1)
           /\ c[2] = 0 => Path(c[1])[1] > 0 /\ c[1] = Start(Path(c[1])[1])
           /\ Path(c[1])[1] > 0 =>
                /\ c[2] <= Path(c[1])[1] /\ Start(Path(c[1])[1]) <= c[1]
                /\ \A i \in 1 .. c[2] : Path(c[1])[i + 1] \in Entry
           /\ \A i \in 1 .. 4 : i > c[2] + 1 => Path(c[1])[i] = 0
<1> PICK b \in Nat, l \in 0 .. 3 : b = c[1] /\ l = c[2] /\ l \in Levels(b) /\ b < TBLOCK_END
  BY CellIsBlock
<1>1. CASE DirectKind(b)
  BY <1>1, Shape DEF DirectKind, SBLOCK_START
<1>2. ASSUME NEW e \in Entry, SingleKind(b, e)
      PROVE  /\ Path(b)[1] = 1 /\ l <= 1 /\ (l = 0 => b = SBLOCK_START)
             /\ SBLOCK_START <= b
             /\ \A i \in 1 .. l : Path(b)[i + 1] \in Entry
             /\ \A i \in 1 .. 4 : i > l + 1 => Path(b)[i] = 0
  BY <1>2, EntryIsNat, KindsInOrder, Shape DEF SingleKind
<1>3. ASSUME NEW e \in Entry, NEW f \in Entry, DoubleKind(b, e, f)
      PROVE  /\ Path(b)[1] = 2 /\ l <= 2 /\ (l = 0 => b = DBLOCK_START)
             /\ DBLOCK_START <= b
             /\ \A i \in 1 .. l : Path(b)[i + 1] \in Entry
             /\ \A i \in 1 .. 4 : i > l + 1 => Path(b)[i] = 0
  BY <1>3, EntryIsNat, KindsInOrder, Shape DEF DoubleKind
<1>4. ASSUME NEW e \in Entry, NEW f \in Entry, NEW g \in Entry, TripleKind(b, e, f, g)
      PROVE  /\ Path(b)[1] = 3 /\ l <= 3 /\ (l = 0 => b = TBLOCK_START)
             /\ TBLOCK_START <= b
             /\ \A i \in 1 .. l : Path(b)[i + 1] \in Entry
             /\ \A i \in 1 .. 4 : i > l + 1 => Path(b)[i] = 0
  <2>1. TBLOCK_START <= b
    BY <1>4, KindsInOrder
  <2>2. /\ Path(b) = <<3, e, f, g>>
        /\ l \in IF g > 0 THEN {3} ELSE IF f > 0 THEN {2, 3}
                 ELSE IF e > 0 THEN {1, 2, 3} ELSE {0, 1, 2}
    BY <1>4 DEF TripleKind
  <2>3. l = 0 => b = TBLOCK_START
    <3>1. l = 0 => e = 0 /\ f = 0 /\ g = 0
      BY <2>2, EntryIsNat
    <3> QED
      BY <1>4, <3>1, EntryIsNat, Shape DEF TripleKind
  <2> QED
    BY <2>1, <2>2, <2>3, EntryIsNat
<1>5. Start(1) = SBLOCK_START /\ Start(2) = DBLOCK_START /\ Start(3) = TBLOCK_START
  BY DEF Start
<1> QED
  BY <1>1, <1>2, <1>3, <1>4, <1>5, Kinds

(* Two cells are not one pointer.                                          *)
LEMMA CellsDiffer ==
    ASSUME NEW c \in Cell, NEW d \in Cell, c[2] = d[2],
           \A i \in 1 .. (c[2] + 1) : Path(c[1])[i] = Path(d[1])[i]
    PROVE  c = d
<1>1. \A i \in 1 .. 4 : Path(c[1])[i] = Path(d[1])[i]
  <2> TAKE i \in 1 .. 4
  <2>1. CASE i > c[2] + 1
    BY <2>1, CellFacts
  <2>2. CASE ~(i > c[2] + 1)
    BY <2>2, CellIsBlock
  <2> QED
    BY <2>1, <2>2
<1> QED
  BY <1>1, CellIsBlock, PathsDiffer

(* The pointer to the indirect block of an inner cell is a cell of the     *)
(* same block or of one before.                                            *)
LEMMA CellHasParent ==
    ASSUME NEW c \in Cell, Inner(c)
    PROVE  \E d \in Cell : Leads(d, c) /\ d[1] <= c[1]
<1> DEFINE N == IB_N_ENTRIES
<1> PICK b \in Nat, l \in 0 .. 3 :
       b = c[1] /\ l = c[2] /\ l \in Levels(b) /\ b < MaxBlocks /\ b < TBLOCK_END
  BY CellIsBlock
<1>1. SUFFICES ASSUME l > 0, Path(b)[1] > 0
               PROVE  \E a \in Nat : /\ a <= b /\ l - 1 \in Levels(a)
                                     /\ \A i \in 1 .. l : Path(a)[i] = Path(b)[i]
  <2>1. l > 0 /\ Path(b)[1] > 0
    BY DEF Inner
  <2>2. PICK a \in Nat : /\ a <= b /\ l - 1 \in Levels(a)
                         /\ \A i \in 1 .. l : Path(a)[i] = Path(b)[i]
    BY <1>1, <2>1
  <2>3. a \in 0 .. (MaxBlocks - 1) /\ l - 1 \in 0 .. 3
    BY <2>1, <2>2, BoundAssumption
  <2>4. <<a, l - 1>> \in Cell
    BY <2>2, <2>3 DEF Cell
  <2>5. Leads(<<a, l - 1>>, c)
    BY <2>2 DEF Leads
  <2> QED
    BY <2>2, <2>4, <2>5
<1>2. CASE DirectKind(b)
  BY <1>1, <1>2 DEF DirectKind
<1>3. ASSUME NEW e \in Entry, SingleKind(b, e)
      PROVE  \E a \in Nat : /\ a <= b /\ l - 1 \in Levels(a)
                            /\ \A i \in 1 .. l : Path(a)[i] = Path(b)[i]
  <2>1. l = 1
    BY <1>1, <1>3 DEF SingleKind
  <2>2. SingleKind(SBLOCK_START, 0)
    BY EntryIsNat, PathSingle, LevelsSingle, Shape DEF SingleKind
  <2>3. SBLOCK_START <= b
    BY <1>3, KindsInOrder
  <2> QED
    BY <1>3, <2>1, <2>2, <2>3, Shape DEF SingleKind
<1>4. ASSUME NEW e \in Entry, NEW f \in Entry, DoubleKind(b, e, f)
      PROVE  \E a \in Nat : /\ a <= b /\ l - 1 \in Levels(a)
                            /\ \A i \in 1 .. l : Path(a)[i] = Path(b)[i]
  <2>1. l \in {1, 2} /\ (l = 1 => f = 0)
    BY <1>1, <1>4, EntryIsNat DEF DoubleKind
  <2>2. ASSUME NEW h \in Entry, NEW a, a = DBLOCK_START + h * N + 0
        PROVE  DoubleKind(a, h, 0) /\ a \in Nat
    BY <2>2, EntryIsNat, PathDouble, LevelsDouble, Shape DEF DoubleKind
  <2>3. CASE l = 1
    <3> PICK a \in Nat : a = DBLOCK_START + 0 * N + 0 /\ DoubleKind(a, 0, 0)
      BY <2>2, EntryIsNat
    <3>1. a = DBLOCK_START
      BY EntryIsNat, Shape
    <3> QED
      BY <1>4, <2>3, <3>1, KindsInOrder DEF DoubleKind
  <2>4. CASE l = 2
    <3> PICK a \in Nat : a = DBLOCK_START + e * N + 0 /\ DoubleKind(a, e, 0)
      BY <2>2, EntryIsNat
    <3>1. a <= b
      BY <1>4, EntryIsNat, Shape DEF DoubleKind
    <3> QED
      BY <1>4, <2>4, <3>1, EntryIsNat DEF DoubleKind
  <2> QED
    BY <2>1, <2>3, <2>4
<1>5. ASSUME NEW e \in Entry, NEW f \in Entry, NEW g \in Entry, TripleKind(b, e, f, g)
      PROVE  \E a \in Nat : /\ a <= b /\ l - 1 \in Levels(a)
                            /\ \A i \in 1 .. l : Path(a)[i] = Path(b)[i]
  <2>1. l \in {1, 2, 3} /\ (l < 3 => g = 0) /\ (l = 1 => f = 0)
    BY <1>1, <1>5, EntryIsNat DEF TripleKind
  <2>2. ASSUME NEW h \in Entry, NEW k \in Entry, NEW a,
               a = TBLOCK_START + (h * N + k) * N + 0
        PROVE  TripleKind(a, h, k, 0) /\ a \in Nat
    <3>1. a \in Nat
      <4>1. h * N + k \in Nat
        BY EntryIsNat
      <4>2. (h * N + k) * N \in Nat
        BY <4>1, EntryIsNat
      <4> QED
        BY <2>2, <4>2, Shape
    <3>2. Path(a) = <<3, h, k, 0>>
      BY <2>2, EntryIsNat, PathTriple
    <3>3. Levels(a) = IF k > 0 THEN {2, 3} ELSE IF h > 0 THEN {1, 2, 3} ELSE {0, 1, 2}
      BY <2>2, EntryIsNat, LevelsTriple
    <3> QED
      BY <2>2, <3>1, <3>2, <3>3 DEF TripleKind
  <2>3. CASE l = 1
    <3> PICK a \in Nat : a = TBLOCK_START + (0 * N + 0) * N + 0 /\ TripleKind(a, 0, 0, 0)
      BY <2>2, EntryIsNat
    <3>1. a = TBLOCK_START
      BY EntryIsNat, Shape
    <3> QED
      BY <1>5, <2>3, <3>1, KindsInOrder DEF TripleKind
  <2>4. CASE l = 2
    <3> PICK a \in Nat : a = TBLOCK_START + (e * N + 0) * N + 0 /\ TripleKind(a, e, 0, 0)
      BY <2>2, EntryIsNat
    <3>1. (e * N + 0) * N <= (e * N + f) * N
      BY EntryIsNat, Shape
    <3>2. a <= b
      BY <1>5, <3>1, EntryIsNat, Shape DEF TripleKind
    <3> QED
      BY <1>5, <2>4, <3>2, EntryIsNat DEF TripleKind
  <2>5. CASE l = 3
    <3> PICK a \in Nat : a = TBLOCK_START + (e * N + f) * N + 0 /\ TripleKind(a, e, f, 0)
      BY <2>2, EntryIsNat
    <3>1. a <= b
      BY <1>5, EntryIsNat, Shape DEF TripleKind
    <3> QED
      BY <1>5, <2>5, <3>1, EntryIsNat DEF TripleKind
  <2> QED
    BY <2>1, <2>3, <2>4, <2>5
<1> QED
  BY <1>2, <1>3, <1>4, <1>5, Kinds

(* The data block of a block of a file is a cell, with two exceptions.     *)
LEMMA LeafIsCell ==
    ASSUME NEW b \in Nat, b < MaxBlocks, b \notin {DBLOCK_START, TBLOCK_START}
    PROVE  <<b, Leaf(Path(b))>> \in Cell
<1> DEFINE N == IB_N_ENTRIES
<1>1. b < TBLOCK_END
  <2>1. <<b, 0>>[1] = b
    OBVIOUS
  <2>2. IB_N_ENTRIES * (IB_N_ENTRIES * IB_N_ENTRIES) \in Nat
    BY Shape
  <2>3. TBLOCK_END \in Nat
    BY <2>2, Shape DEF TBLOCK_END
  <2> QED
    BY <2>3, BoundAssumption
<1>2. SUFFICES Leaf(Path(b)) \in Levels(b) /\ Leaf(Path(b)) \in 0 .. 3
  BY <1>2, BoundAssumption DEF Cell
<1>3. CASE DirectKind(b)
  BY <1>3 DEF DirectKind, Leaf
<1>4. ASSUME NEW e \in Entry, SingleKind(b, e)
      PROVE  Leaf(Path(b)) \in Levels(b) /\ Leaf(Path(b)) \in 0 .. 3
  BY <1>4 DEF SingleKind, Leaf
<1>5. ASSUME NEW e \in Entry, NEW f \in Entry, DoubleKind(b, e, f)
      PROVE  Leaf(Path(b)) \in Levels(b) /\ Leaf(Path(b)) \in 0 .. 3
  <2>1. e = 0 /\ f = 0 => b = DBLOCK_START
    BY <1>5, EntryIsNat, Shape DEF DoubleKind
  <2> QED
    BY <1>5, <2>1, EntryIsNat DEF DoubleKind, Leaf
<1>6. ASSUME NEW e \in Entry, NEW f \in Entry, NEW g \in Entry, TripleKind(b, e, f, g)
      PROVE  Leaf(Path(b)) \in Levels(b) /\ Leaf(Path(b)) \in 0 .. 3
  <2>1. e = 0 /\ f = 0 /\ g = 0 => b = TBLOCK_START
    BY <1>6, EntryIsNat, Shape DEF TripleKind
  <2> QED
    BY <1>6, <2>1, EntryIsNat DEF TripleKind, Leaf
<1> QED
  BY <1>1, <1>3, <1>4, <1>5, <1>6, Kinds

-----------------------------------------------------------------------------
(* Following pointers.                                                     *)
(* What is stored in a pointer depends on the path up to its level.        *)
LEMMA StoredPrefix ==
    ASSUME NEW t, NEW ino, NEW p, NEW q, NEW l \in 0 .. 3,
           \A i \in 1 .. (l + 1) : p[i] = q[i]
    PROVE  Stored(t, ino, p, l) = Stored(t, ino, q, l)
<1>1. CASE l = 0
  BY <1>1 DEF Stored
<1>2. CASE l = 1
  BY <1>2 DEF Stored
<1>3. CASE l = 2
  BY <1>3 DEF Stored
<1>4. CASE l = 3
  <2>1. p[1] = q[1] /\ p[2] = q[2] /\ p[3] = q[3] /\ p[4] = q[4]
    BY <1>4
  <2> QED
    BY <1>4, <2>1 DEF Stored
<1> QED
  BY <1>1, <1>2, <1>3, <1>4

LEMMA StoredBelow ==
    ASSUME NEW t, NEW ino, NEW p, NEW l \in 1 .. 3, p[1] # 0
    PROVE  Stored(t, ino, p, l) = t[Stored(t, ino, p, l - 1)][p[l + 1]]
<1>1. CASE l = 1
  BY <1>1 DEF Stored
<1>2. CASE l = 2
  BY <1>2 DEF Stored
<1>3. CASE l = 3
  BY <1>3 DEF Stored
<1> QED
  BY <1>1, <1>2, <1>3

LEMMA StoredInInode ==
    ASSUME NEW t, NEW ino, NEW p
    PROVE  /\ Stored(t, ino, p, 0) = ino.top[p[1]]
           /\ p[1] = 0 => Stored(t, ino, p, 1) = ino.direct[p[2]]
BY DEF Stored

(* Where all indirect blocks above exist, the code finds the block that     *)
(* holds a pointer, and what is stored in the pointer.                     *)
LEMMA FoundHolder ==
    ASSUME NEW ino, NEW p, NEW l \in 1 .. 3, p[1] # 0,
           \A m \in 0 .. (l - 2) : Stored(table, ino, p, m) \in DataBlock,
           Stored(table, ino, p, l - 1) # Wild
    PROVE  Holder(ino, p, l) = {Stored(table, ino, p, l - 1)}
<1> DEFINE s(m) == Stored(table, ino, p, m)
<1>1. Wild \notin DataBlock
  BY MarkerAssumption DEF DataBlock
<1>2. \A b \in DataBlock : \A i : table[b][i] # Wild => Read(b, i) = {table[b][i]}
  BY DEF Read, Follow
<1>3. Follow(ino.top[p[1]]) = {s(0)}
  <2>1. l = 1 \/ 0 \in 0 .. (l - 2)
    OBVIOUS
  <2>2. s(0) # Wild
    BY <1>1, <2>1
  <2> QED
    BY <2>2, StoredInInode DEF Follow
<1>4. ASSUME l > 1 PROVE UNION {Read(b, p[2]) : b \in {s(0)}} = {s(1)}
  <2>1. s(0) \in DataBlock /\ s(1) = table[s(0)][p[2]]
    BY <1>4, StoredBelow
  <2>2. l = 2 \/ 1 \in 0 .. (l - 2)
    BY <1>4
  <2>3. s(1) # Wild
    BY <1>1, <2>2
  <2> QED
    BY <1>2, <2>1, <2>3
<1>5. ASSUME l > 2 PROVE UNION {Read(b, p[3]) : b \in {s(1)}} = {s(2)}
  <2>1. l = 3
    BY <1>5
  <2>2. s(1) \in DataBlock /\ s(2) # Wild /\ s(2) = table[s(1)][p[3]]
    BY <2>1, StoredBelow
  <2> QED
    BY <1>2, <2>2
<1>6. CASE l = 1
  BY <1>3, <1>6 DEF Holder
<1>7. CASE l = 2
  BY <1>3, <1>4, <1>7 DEF Holder
<1>8. CASE l = 3
  BY <1>3, <1>4, <1>5, <1>8 DEF Holder
<1> QED
  BY <1>6, <1>7, <1>8

LEMMA Found ==
    ASSUME NEW ino, NEW p, NEW l \in 1 .. 3, p[1] # 0,
           \A m \in 0 .. (l - 1) : Stored(table, ino, p, m) \in DataBlock,
           Stored(table, ino, p, l) # Wild
    PROVE  Target(ino, p, l) = {Stored(table, ino, p, l)}
<1> DEFINE s(m) == Stored(table, ino, p, m)
<1>1. Wild \notin DataBlock
  BY MarkerAssumption DEF DataBlock
<1>2. Holder(ino, p, l) = {s(l - 1)}
  <2>1. \A m \in 0 .. (l - 2) : s(m) \in DataBlock
    OBVIOUS
  <2>2. s(l - 1) # Wild
    BY <1>1
  <2> QED
    BY <2>1, <2>2, FoundHolder
<1>3. s(l - 1) \in DataBlock /\ s(l) = table[s(l - 1)][p[l + 1]]
  BY StoredBelow
<1>4. Target(ino, p, l) = UNION {Read(b, p[l + 1]) : b \in {s(l - 1)}}
  BY <1>2 DEF Target
<1>5. Read(s(l - 1), p[l + 1]) = {s(l)}
  BY <1>3 DEF Read, Follow
<1> QED
  BY <1>4, <1>5

LEMMA FoundInInode ==
    ASSUME NEW ino, NEW p
    PROVE  /\ Stored(table, ino, p, 0) # Wild =>
                Target(ino, p, 0) = {Stored(table, ino, p, 0)}
           /\ p[1] = 0 /\ Stored(table, ino, p, 1) # Wild =>
                Target(ino, p, 1) = {Stored(table, ino, p, 1)}
BY StoredInInode DEF Target, Follow

-----------------------------------------------------------------------------
(* What files hold.                                                        *)
LEMMA SaneCell ==
    ASSUME NEW t, NEW used, NEW L, NEW I, NEW H, Sane(t, used, L, I, H),
           NEW f \in L, NEW c \in H[f]
    PROVE  /\ c \in Cell /\ At(t, I[f], c) \in used
           /\ Inner(c) => /\ \E d \in H[f] : Leads(d, c)
                          /\ Stored(t, I[f], Path(c[1]), c[2] - 1) \in DataBlock
BY DEF Sane

LEMMA SaneApart ==
    ASSUME NEW t, NEW used, NEW L, NEW I, NEW H, Sane(t, used, L, I, H),
           NEW f \in L, NEW c \in H[f], NEW g \in L, NEW d \in H[g],
           At(t, I[f], c) = At(t, I[g], d)
    PROVE  f = g /\ c = d
BY DEF Sane

LEMMA LedTo ==
    ASSUME NEW c \in Cell, Inner(c), NEW d \in Cell, Leads(d, c), NEW t, NEW ino
    PROVE  /\ Stored(t, ino, Path(c[1]), c[2] - 1) = At(t, ino, d)
           /\ Path(d[1])[1] = Path(c[1])[1] /\ d[2] = c[2] - 1
           /\ c[2] > 1 => Inner(d)
           /\ \A m \in 0 .. (c[2] - 1) :
                Stored(t, ino, Path(c[1]), m) = Stored(t, ino, Path(d[1]), m)
<1>1. c[2] \in 1 .. 3 /\ d[2] = c[2] - 1 /\ Path(c[1])[1] > 0
  BY CellIsBlock DEF Inner, Leads
<1>2. \A i \in 1 .. c[2] : Path(d[1])[i] = Path(c[1])[i]
  BY DEF Leads
<1>3. \A m \in 0 .. (c[2] - 1) :
        Stored(t, ino, Path(c[1]), m) = Stored(t, ino, Path(d[1]), m)
  <2> TAKE m \in 0 .. (c[2] - 1)
  <2>1. m \in 0 .. 3 /\ \A i \in 1 .. (m + 1) : Path(c[1])[i] = Path(d[1])[i]
    BY <1>1, <1>2
  <2> QED
    BY <2>1, StoredPrefix
<1>4. Path(d[1])[1] = Path(c[1])[1]
  BY <1>1, <1>2
<1> QED
  BY <1>1, <1>3, <1>4 DEF At, Inner

(* The indirect blocks above a cell exist.                                 *)
LEMMA BlocksAbove ==
    ASSUME NEW t, NEW used, NEW L, NEW I, NEW H, Sane(t, used, L, I, H),
           NEW f \in L, NEW c \in H[f], Inner(c)
    PROVE  \A m \in 0 .. (c[2] - 1) : Stored(t, I[f], Path(c[1]), m) \in DataBlock
<1> DEFINE Deep(x) == \A m \in 0 .. (x[2] - 1) :
                        Stored(t, I[f], Path(x[1]), m) \in DataBlock
<1>1. ASSUME NEW x \in H[f], Inner(x), x[2] = 1 PROVE Deep(x)
  BY <1>1, SaneCell
<1>2. ASSUME NEW x \in H[f], Inner(x), NEW d \in H[f], Leads(d, x), x[2] > 1, Deep(d)
      PROVE  Deep(x)
  <2>1. x \in Cell /\ d \in Cell /\ Stored(t, I[f], Path(x[1]), x[2] - 1) \in DataBlock
    BY <1>2, SaneCell
  <2>2. /\ d[2] = x[2] - 1
        /\ \A m \in 0 .. (x[2] - 1) :
             Stored(t, I[f], Path(x[1]), m) = Stored(t, I[f], Path(d[1]), m)
    BY <1>2, <2>1, LedTo
  <2>3. x[2] \in 0 .. 3
    BY <2>1, CellIsBlock
  <2> TAKE m \in 0 .. (x[2] - 1)
  <2>4. CASE m = x[2] - 1
    BY <2>1, <2>4
  <2>5. CASE m # x[2] - 1
    <3>1. m \in 0 .. (d[2] - 1)
      BY <2>2, <2>3, <2>5
    <3> QED
      BY <1>2, <2>2, <3>1
  <2> QED
    BY <2>4, <2>5
<1>3. ASSUME NEW x \in H[f], Inner(x), x[2] > 1
      PROVE  \E d \in H[f] : Leads(d, x) /\ Inner(d) /\ d[2] = x[2] - 1
  <2>1. x \in Cell
    BY SaneCell
  <2>2. PICK d \in H[f] : Leads(d, x)
    BY <1>3, SaneCell
  <2>3. d \in Cell
    BY SaneCell
  <2> QED
    BY <1>3, <2>1, <2>2, <2>3, LedTo
<1> HIDE DEF Deep
<1>4. ASSUME NEW x \in H[f], Inner(x), x[2] = 2 PROVE Deep(x)
  <2>1. PICK d \in H[f] : Leads(d, x) /\ Inner(d) /\ d[2] = x[2] - 1
    BY <1>3, <1>4
  <2> QED
    BY <1>1, <1>2, <1>4, <2>1
<1>5. ASSUME NEW x \in H[f], Inner(x), x[2] = 3 PROVE Deep(x)
  <2>1. PICK d \in H[f] : Leads(d, x) /\ Inner(d) /\ d[2] = x[2] - 1
    BY <1>3, <1>5
  <2> QED
    BY <1>2, <1>4, <1>5, <2>1
<1>6. c[2] \in 1 .. 3
  BY SaneCell, CellIsBlock DEF Inner
<1>7. Deep(c)
  BY <1>1, <1>4, <1>5, <1>6
<1> QED
  BY <1>7 DEF Deep

-----------------------------------------------------------------------------
(* A cell whose own pointer is where it was, and is the same.              *)
Same(t, i, t2, i2, c) ==
    /\ c[2] = 0 => i2.top[Path(c[1])[1]] = i.top[Path(c[1])[1]]
    /\ Path(c[1])[1] = 0 => i2.direct[Path(c[1])[2]] = i.direct[Path(c[1])[2]]
    /\ Inner(c) =>
         LET h == Stored(t, i, Path(c[1]), c[2] - 1)
             e == Path(c[1])[c[2] + 1]
         IN  t2[h][e] = t[h][e]

LEMMA SameStep ==
    ASSUME NEW t, NEW i, NEW t2, NEW i2, NEW c \in Cell, NEW d \in Cell,
           Inner(c), Leads(d, c), At(t2, i2, d) = At(t, i, d), Same(t, i, t2, i2, c)
    PROVE  /\ At(t2, i2, c) = At(t, i, c)
           /\ Stored(t2, i2, Path(c[1]), c[2] - 1) = Stored(t, i, Path(c[1]), c[2] - 1)
<1> DEFINE p == Path(c[1])
           l == c[2]
<1>1. l \in 1 .. 3 /\ p[1] # 0
  BY CellIsBlock, CellFacts DEF Inner
<1>2. Stored(t2, i2, p, l - 1) = Stored(t, i, p, l - 1)
  BY LedTo
<1>3. /\ Stored(t2, i2, p, l) = t2[Stored(t2, i2, p, l - 1)][p[l + 1]]
      /\ Stored(t, i, p, l) = t[Stored(t, i, p, l - 1)][p[l + 1]]
  BY <1>1, StoredBelow
<1>4. t2[Stored(t, i, p, l - 1)][p[l + 1]] = t[Stored(t, i, p, l - 1)][p[l + 1]]
  BY DEF Same
<1> QED
  BY <1>2, <1>3, <1>4 DEF At

(* Cells that are kept, with the cells that lead to them, and that no step *)
(* writes to, store what they stored.                                      *)
KeptCells(t, L, I, H, t2, used2, L2, I2, H2) ==
    \A f \in L2 : \A c \in H2[f] :
        /\ f \in L /\ c \in H[f]
        /\ Inner(c) => \E d \in H2[f] : Leads(d, c)
        /\ Same(t, I[f], t2, I2[f], c)
        /\ At(t, I[f], c) \in used2

LEMMA Kept ==
    ASSUME NEW t, NEW used, NEW L, NEW I, NEW H, Sane(t, used, L, I, H),
           NEW t2, NEW used2, NEW L2, NEW I2, NEW H2,
           KeptCells(t, L, I, H, t2, used2, L2, I2, H2)
    PROVE  /\ Sane(t2, used2, L2, I2, H2)
           /\ \A f \in L2 : \A c \in H2[f] : At(t2, I2[f], c) = At(t, I[f], c)
<1>0. \A f \in L2 : \A c \in H2[f] :
        /\ f \in L /\ c \in H[f]
        /\ Inner(c) => \E d \in H2[f] : Leads(d, c)
        /\ Same(t, I[f], t2, I2[f], c)
        /\ At(t, I[f], c) \in used2
  BY DEF KeptCells
<1> DEFINE Still(f, c) ==
             /\ At(t2, I2[f], c) = At(t, I[f], c)
             /\ Inner(c) => Stored(t2, I2[f], Path(c[1]), c[2] - 1)
                              = Stored(t, I[f], Path(c[1]), c[2] - 1)
<1>1. ASSUME NEW f \in L2, NEW c \in H2[f]
      PROVE  /\ c \in Cell /\ c[2] \in 0 .. 3 /\ Same(t, I[f], t2, I2[f], c)
             /\ Inner(c) <=> c[2] > 0 /\ Path(c[1])[1] # 0
             /\ Path(c[1])[1] = 0 => c[2] = 1
  <2>1. c \in Cell
    BY <1>0, SaneCell
  <2> QED
    BY <1>0, <2>1, CellIsBlock, CellFacts DEF Inner
<1>2. ASSUME NEW f \in L2, NEW c \in H2[f], ~Inner(c) PROVE Still(f, c)
  <2> DEFINE p == Path(c[1])
  <2>1. CASE c[2] = 0
    <3>1. I2[f].top[p[1]] = I[f].top[p[1]]
      BY <1>1, <2>1 DEF Same
    <3>2. Stored(t2, I2[f], p, 0) = Stored(t, I[f], p, 0)
      BY <3>1, StoredInInode
    <3> QED
      BY <1>2, <2>1, <3>2 DEF At
  <2>2. CASE c[2] # 0
    <3>1. p[1] = 0 /\ c[2] = 1
      BY <1>1, <1>2, <2>2
    <3>2. I2[f].direct[p[2]] = I[f].direct[p[2]]
      BY <1>1, <3>1 DEF Same
    <3>3. Stored(t2, I2[f], p, 1) = Stored(t, I[f], p, 1)
      BY <3>1, <3>2, StoredInInode
    <3> QED
      BY <1>2, <3>1, <3>3 DEF At
  <2> QED
    BY <2>1, <2>2
<1>3. ASSUME NEW f \in L2, NEW c \in H2[f], Inner(c), NEW d \in H2[f], Leads(d, c),
             Still(f, d)
      PROVE  Still(f, c)
  BY <1>1, <1>3, SameStep
<1>4. ASSUME NEW f \in L2, NEW c \in H2[f], Inner(c)
      PROVE  \E d \in H2[f] : Leads(d, c) /\ d[2] = c[2] - 1
  BY <1>0, <1>4 DEF Leads
<1> HIDE DEF Still
<1>5. ASSUME NEW f \in L2, NEW c \in H2[f], c[2] = 0 PROVE Still(f, c)
  <2>1. ~Inner(c)
    BY <1>1, <1>5
  <2> QED
    BY <1>2, <2>1
<1>6. ASSUME NEW f \in L2, NEW c \in H2[f], c[2] = 1 PROVE Still(f, c)
  <2>1. CASE ~Inner(c)
    BY <1>2, <2>1
  <2>2. CASE Inner(c)
    <3> PICK d \in H2[f] : Leads(d, c) /\ d[2] = 0
      BY <1>4, <1>6, <2>2
    <3> QED
      BY <1>3, <1>5, <2>2
  <2> QED
    BY <2>1, <2>2
<1>7. ASSUME NEW f \in L2, NEW c \in H2[f], c[2] = 2 PROVE Still(f, c)
  <2>1. CASE ~Inner(c)
    BY <1>2, <2>1
  <2>2. CASE Inner(c)
    <3> PICK d \in H2[f] : Leads(d, c) /\ d[2] = 1
      BY <1>4, <1>7, <2>2
    <3> QED
      BY <1>3, <1>6, <2>2
  <2> QED
    BY <2>1, <2>2
<1>8. ASSUME NEW f \in L2, NEW c \in H2[f], c[2] = 3 PROVE Still(f, c)
  <2>1. CASE ~Inner(c)
    BY <1>2, <2>1
  <2>2. CASE Inner(c)
    <3> PICK d \in H2[f] : Leads(d, c) /\ d[2] = 2
      BY <1>4, <1>8, <2>2
    <3> QED
      BY <1>3, <1>7, <2>2
  <2> QED
    BY <2>1, <2>2
<1>9. ASSUME NEW f \in L2, NEW c \in H2[f]
      PROVE  Still(f, c)
  <2>1. c[2] = 0 \/ c[2] = 1 \/ c[2] = 2 \/ c[2] = 3
    BY <1>1
  <2> QED
    BY <1>5, <1>6, <1>7, <1>8, <2>1
<1>10. \A f \in L2 : \A c \in H2[f] : At(t2, I2[f], c) = At(t, I[f], c)
  BY <1>9 DEF Still
<1>11. ASSUME NEW f \in L2, NEW c \in H2[f]
       PROVE  /\ c \in Cell /\ At(t2, I2[f], c) \in used2
              /\ Inner(c) => /\ \E d \in H2[f] : Leads(d, c)
                             /\ Stored(t2, I2[f], Path(c[1]), c[2] - 1) \in DataBlock
  <2>1. Inner(c) => Stored(t, I[f], Path(c[1]), c[2] - 1) \in DataBlock
    BY <1>0, SaneCell
  <2>2. Inner(c) => Stored(t2, I2[f], Path(c[1]), c[2] - 1)
                      = Stored(t, I[f], Path(c[1]), c[2] - 1)
    BY <1>9 DEF Still
  <2> QED
    BY <1>0, <1>1, <1>10, <2>1, <2>2
<1>12. ASSUME NEW f \in L2, NEW g \in L2, NEW c \in H2[f], NEW d \in H2[g],
              At(t2, I2[f], c) = At(t2, I2[g], d)
       PROVE  f = g /\ c = d
  <2>1. f \in L /\ g \in L /\ c \in H[f] /\ d \in H[g]
    BY <1>0
  <2>2. At(t, I[f], c) = At(t, I[g], d)
    BY <1>10, <1>12
  <2> QED
    BY <2>1, <2>2, SaneApart
<1>13. Sane(t2, used2, L2, I2, H2)
  BY <1>11, <1>12 DEF Sane
<1> QED
  BY <1>10, <1>13

(* One more cell, with a block that nobody has.                            *)
NewCell(t, used, L, I, H, f, c, id, H2) ==
    /\ id \notin used /\ At(t, I[f], c) = id
    /\ Inner(c) => /\ \E d \in H[f] : Leads(d, c)
                   /\ Stored(t, I[f], Path(c[1]), c[2] - 1) \in DataBlock
    /\ H2[f] = H[f] \cup {c} /\ \A g \in L \ {f} : H2[g] = H[g]

LEMMA OneMoreCell ==
    ASSUME NEW t, NEW used, NEW L, NEW I, NEW H, Sane(t, used, L, I, H),
           NEW f \in L, NEW c \in Cell, NEW id, NEW H2,
           NewCell(t, used, L, I, H, f, c, id, H2)
    PROVE  Sane(t, used \cup {id}, L, I, H2)
<1> USE DEF NewCell
<1>1. ASSUME NEW g \in L, NEW x \in H2[g]
      PROVE  x \in H[g] \/ (g = f /\ x = c)
  BY <1>1
<1>2. ASSUME NEW g \in L, NEW x \in H2[g]
      PROVE  /\ x \in Cell /\ At(t, I[g], x) \in used \cup {id}
             /\ Inner(x) => /\ \E d \in H2[g] : Leads(d, x)
                            /\ Stored(t, I[g], Path(x[1]), x[2] - 1) \in DataBlock
  <2>1. H[g] \subseteq H2[g]
    OBVIOUS
  <2>2. CASE x \in H[g]
    BY <2>1, <2>2, SaneCell
  <2>3. CASE g = f /\ x = c
    BY <2>1, <2>3
  <2> QED
    BY <1>1, <2>2, <2>3
<1>3. ASSUME NEW g \in L, NEW k \in L, NEW x \in H2[g], NEW y \in H2[k],
             At(t, I[g], x) = At(t, I[k], y)
      PROVE  g = k /\ x = y
  <2>1. CASE x \in H[g] /\ y \in H[k]
    BY <1>3, <2>1, SaneApart
  <2>2. CASE x \in H[g] /\ k = f /\ y = c
    <3>1. At(t, I[g], x) \in used
      BY <2>2, SaneCell
    <3> QED
      BY <1>3, <2>2, <3>1
  <2>3. CASE g = f /\ x = c /\ y \in H[k]
    <3>1. At(t, I[k], y) \in used
      BY <2>3, SaneCell
    <3> QED
      BY <1>3, <2>3, <3>1
  <2> QED
    BY <1>1, <2>1, <2>2, <2>3
<1> QED
  BY <1>2, <1>3 DEF Sane

LEMMA SaneOf ==
    ASSUME NEW t, NEW used, NEW L, NEW I, NEW H, Sane(t, used, L, I, H),
           NEW I2, NEW H2, \A f \in L : I2[f] = I[f] /\ H2[f] = H[f]
    PROVE  Sane(t, used, L, I2, H2)
BY DEF Sane

(* Of what a file holds, the code finds each pointer, and only it.         *)
LEMMA OwnedIs ==
    ASSUME NEW used, Wild \notin used, NEW L, NEW I, NEW H,
           Sane(table, used, L, I, H), NEW f \in L, NEW c \in H[f]
    PROVE  /\ Target(I[f], Path(c[1]), c[2]) = {At(table, I[f], c)}
           /\ Inner(c) => Holder(I[f], Path(c[1]), c[2])
                            = {Stored(table, I[f], Path(c[1]), c[2] - 1)}
<1> DEFINE p == Path(c[1])
<1>1. c \in Cell /\ At(table, I[f], c) # Wild
  BY SaneCell
<1>2. CASE Inner(c)
  <2>1. \A m \in 0 .. (c[2] - 1) : Stored(table, I[f], p, m) \in DataBlock
    BY <1>2, BlocksAbove
  <2>2. c[2] \in 1 .. 3 /\ p[1] # 0
    BY <1>1, <1>2, CellIsBlock, CellFacts DEF Inner
  <2>3. Stored(table, I[f], p, c[2] - 1) \in DataBlock
    BY <2>1, <2>2
  <2>4. \A m \in 0 .. (c[2] - 2) : Stored(table, I[f], p, m) \in DataBlock
    BY <2>1, <2>2
  <2>5. Stored(table, I[f], p, c[2] - 1) # Wild
    BY <2>3, MarkerAssumption DEF DataBlock
  <2> HIDE DEF p
  <2>6. Target(I[f], p, c[2]) = {Stored(table, I[f], p, c[2])}
    BY <1>1, <2>1, <2>2, Found DEF At, p
  <2>7. Holder(I[f], p, c[2]) = {Stored(table, I[f], p, c[2] - 1)}
    BY <2>2, <2>4, <2>5, FoundHolder
  <2> QED
    BY <2>6, <2>7 DEF At, p
<1>3. CASE ~Inner(c)
  <2>1. c[2] = 0 \/ (p[1] = 0 /\ c[2] = 1)
    BY <1>1, <1>3, CellIsBlock, CellFacts DEF Inner
  <2> QED
    BY <1>1, <1>3, <2>1, FoundInInode DEF At
<1> QED
  BY <1>2, <1>3

(* An indirect block is the file's before what it points to.               *)
LEMMA ParentBefore ==
    ASSUME NEW c \in Cell, Inner(c), NEW d \in Cell, Leads(d, c)
    PROVE  d[1] <= c[1]
<1>1. PICK y \in Cell : Leads(y, c) /\ y[1] <= c[1]
  BY CellHasParent
<1>2. d[2] = y[2] /\ d[2] \in 0 .. 3 /\ c[2] = d[2] + 1
  BY <1>1, CellIsBlock DEF Leads
<1>3. \A i \in 1 .. (d[2] + 1) : Path(d[1])[i] = Path(y[1])[i]
  BY <1>1, <1>2 DEF Leads
<1>4. d = y
  BY <1>2, <1>3, CellsDiffer
<1> QED
  BY <1>1, <1>4

(* The pointer to a file's own data leads to no indirect block.            *)
LEMMA LeafLeadsNowhere ==
    ASSUME NEW c \in Cell, Inner(c), NEW d \in Cell, Leads(d, c)
    PROVE  d[2] # Leaf(Path(d[1]))
<1>1. Path(d[1])[1] = Path(c[1])[1] /\ d[2] = c[2] - 1
  BY LedTo
<1>2. c[2] <= Path(c[1])[1] /\ Path(c[1])[1] \in 1 .. 3 /\ c[2] \in 1 .. 3
  BY CellFacts, CellIsBlock DEF Inner
<1> QED
  BY <1>1, <1>2 DEF Leaf

-----------------------------------------------------------------------------
(* GrowOne: a pointer is set, in the inode in hand or in an indirect block. *)
Puts(t, L, I, f, c, id, t2, I2) ==
    LET p == Path(c[1])
        h == Stored(t, I[f], p, c[2] - 1)
    IN
    /\ \A g \in L : g # f => I2[g] = I[g]
    /\ c[2] = 0 =>
         /\ t2 = t /\ I2[f].direct = I[f].direct
         /\ I2[f].top[p[1]] = id
         /\ \A k \in 1 .. 3 : k # p[1] => I2[f].top[k] = I[f].top[k]
    /\ p[1] = 0 =>
         /\ t2 = t /\ I2[f].top = I[f].top
         /\ I2[f].direct[p[2]] = id
         /\ \A e \in 0 .. (NDirect - 1) :
              e # p[2] => I2[f].direct[e] = I[f].direct[e]
    /\ Inner(c) =>
         /\ I2[f].top = I[f].top /\ I2[f].direct = I[f].direct
         /\ t2[h][p[c[2] + 1]] = id
         /\ \A b \in DataBlock, e \in Entry :
              <<b, e>> # <<h, p[c[2] + 1]>> => t2[b][e] = t[b][e]

(* The pointer that is set is none of those held: they are not disturbed.  *)
LEMMA Undisturbed ==
    ASSUME NEW t, NEW used, NEW L, NEW I, NEW H, Sane(t, used, L, I, H),
           NEW f \in L, NEW c \in Cell, c \notin H[f],
           NEW h, h = Stored(t, I[f], Path(c[1]), c[2] - 1),
           Inner(c) => \E d \in H[f] : Leads(d, c),
           NEW g \in L, NEW x \in H[g]
    PROVE  /\ g = f /\ x[2] = 0 /\ c[2] = 0 => Path(x[1])[1] # Path(c[1])[1]
           /\ g = f /\ Path(x[1])[1] = 0 /\ Path(c[1])[1] = 0 =>
                Path(x[1])[2] # Path(c[1])[2]
           /\ Inner(x) /\ Inner(c) =>
                <<Stored(t, I[g], Path(x[1]), x[2] - 1), Path(x[1])[x[2] + 1]>>
                  # <<h, Path(c[1])[c[2] + 1]>>
<1>1. x \in Cell
  BY SaneCell
<1>2. g = f => x # c
  OBVIOUS
<1>3. ASSUME g = f, x[2] = 0, c[2] = 0, Path(x[1])[1] = Path(c[1])[1] PROVE FALSE
  BY <1>1, <1>2, <1>3, CellsDiffer
<1>4. ASSUME g = f, Path(x[1])[1] = 0, Path(c[1])[1] = 0, Path(x[1])[2] = Path(c[1])[2]
      PROVE  FALSE
  <2>1. x[1] = c[1] /\ x[2] = 1 /\ c[2] = 1
    BY <1>1, <1>4, CellFacts
  <2>2. x = <<x[1], x[2]>> /\ c = <<c[1], c[2]>>
    BY <1>1, CellIsBlock
  <2> QED
    BY <1>2, <1>4, <2>1, <2>2
<1>5. ASSUME Inner(x), Inner(c), Stored(t, I[g], Path(x[1]), x[2] - 1) = h,
             Path(x[1])[x[2] + 1] = Path(c[1])[c[2] + 1]
      PROVE  FALSE
  <2>1. PICK y \in H[g] : Leads(y, x)
    BY <1>5, SaneCell
  <2>2. PICK d \in H[f] : Leads(d, c)
    BY <1>5
  <2>3. y \in Cell /\ d \in Cell
    BY SaneCell
  <2>4. At(t, I[g], y) = h /\ y[2] = x[2] - 1
    BY <1>1, <1>5, <2>1, <2>3, LedTo
  <2>5. At(t, I[f], d) = h /\ d[2] = c[2] - 1
    BY <1>5, <2>2, <2>3, LedTo
  <2>6. g = f /\ y = d
    BY <2>4, <2>5, SaneApart
  <2>7. x[2] \in 0 .. 3 /\ c[2] \in 0 .. 3
    BY <1>1, CellIsBlock
  <2>8. x[2] = c[2]
    BY <2>4, <2>5, <2>6, <2>7
  <2>9. \A i \in 1 .. c[2] : Path(x[1])[i] = Path(c[1])[i]
    BY <2>1, <2>2, <2>6, <2>8 DEF Leads
  <2>10. \A i \in 1 .. (c[2] + 1) : Path(x[1])[i] = Path(c[1])[i]
    <3> TAKE i \in 1 .. (c[2] + 1)
    <3>1. i \in 1 .. c[2] \/ i = c[2] + 1
      BY <2>7
    <3> QED
      BY <1>5, <2>8, <2>9, <3>1
  <2>11. x = c
    BY <1>1, <2>8, <2>10, CellsDiffer
  <2> QED
    BY <1>2, <2>6, <2>11
<1> QED
  BY <1>3, <1>4, <1>5

Grants(t, used, L, I, H, f, c, id, t2, I2, H2) ==
    /\ c \notin H[f] /\ id \notin used
    /\ Inner(c) => /\ \E d \in H[f] : Leads(d, c)
                   /\ Stored(t, I[f], Path(c[1]), c[2] - 1) \in DataBlock
    /\ Puts(t, L, I, f, c, id, t2, I2)
    /\ H2[f] = H[f] \cup {c} /\ \A g \in L \ {f} : H2[g] = H[g]

Granting(t, used, L, I, H, f, c, id, t2, I2, H2) ==
    /\ Sane(t2, used \cup {id}, L, I2, H2)
    /\ At(t2, I2[f], c) = id
    /\ \A g \in L : \A x \in H[g] : At(t2, I2[g], x) = At(t, I[g], x)

LEMMA Granted ==
    ASSUME NEW t, NEW used, NEW L, NEW I, NEW H, Sane(t, used, L, I, H),
           NEW f \in L, NEW c \in Cell, NEW id, NEW t2, NEW I2, NEW H2,
           Grants(t, used, L, I, H, f, c, id, t2, I2, H2)
    PROVE  Granting(t, used, L, I, H, f, c, id, t2, I2, H2)
<1> USE DEF Grants, Granting
<1> DEFINE p == Path(c[1])
           h == Stored(t, I[f], p, c[2] - 1)
<1>1. ASSUME NEW g \in L, NEW x \in H[g]
      PROVE  Same(t, I[g], t2, I2[g], x)
  <2> DEFINE q == Path(x[1])
             k == Stored(t, I[g], q, x[2] - 1)
  <2>1. /\ g = f /\ x[2] = 0 /\ c[2] = 0 => q[1] # p[1]
        /\ g = f /\ q[1] = 0 /\ p[1] = 0 => q[2] # p[2]
        /\ Inner(x) /\ Inner(c) => <<k, q[x[2] + 1]>> # <<h, p[c[2] + 1]>>
    BY Undisturbed
  <2>2. c[2] = 0 \/ p[1] = 0 \/ Inner(c)
    BY CellIsBlock, CellFacts DEF Inner
  <2>3. x \in Cell /\ x[2] \in 0 .. 3
    BY SaneCell, CellIsBlock
  <2>4. x[2] = 0 => I2[g].top[q[1]] = I[g].top[q[1]]
    <3>1. x[2] = 0 => q[1] \in 1 .. 3
      BY <2>3, CellFacts
    <3> QED
      BY <2>1, <2>2, <3>1 DEF Puts
  <2>5. q[1] = 0 => I2[g].direct[q[2]] = I[g].direct[q[2]]
    <3>1. q[1] = 0 => q[2] \in 0 .. (NDirect - 1)
      BY <2>3, CellFacts
    <3> QED
      BY <2>1, <2>2, <3>1 DEF Puts
  <2>6. Inner(x) => t2[k][q[x[2] + 1]] = t[k][q[x[2] + 1]]
    <3>1. Inner(x) => k \in DataBlock /\ q[x[2] + 1] \in Entry
      BY <2>3, SaneCell, CellFacts DEF Inner
    <3> QED
      BY <2>1, <2>2, <3>1 DEF Puts
  <2> QED
    BY <2>4, <2>5, <2>6 DEF Same
<1>2. ASSUME NEW g \in L, NEW x \in H[g]
      PROVE  /\ g \in L /\ x \in H[g]
             /\ Inner(x) => \E d \in H[g] : Leads(d, x)
             /\ Same(t, I[g], t2, I2[g], x)
             /\ At(t, I[g], x) \in used
  BY <1>1, SaneCell
<1>3. /\ Sane(t2, used, L, I2, H)
      /\ \A g \in L : \A x \in H[g] : At(t2, I2[g], x) = At(t, I[g], x)
  <2>1. KeptCells(t, L, I, H, t2, used, L, I2, H)
    BY <1>2 DEF KeptCells
  <2> QED
    BY <2>1, Kept
<1>4. ASSUME Inner(c)
      PROVE  /\ At(t2, I2[f], c) = id /\ \E d \in H[f] : Leads(d, c)
             /\ Stored(t2, I2[f], p, c[2] - 1) \in DataBlock
  <2>1. PICK d \in H[f] : Leads(d, c)
    BY <1>4
  <2>2. d \in Cell
    BY SaneCell
  <2>3. Stored(t2, I2[f], p, c[2] - 1) = h /\ h = At(t, I[f], d)
    BY <1>3, <1>4, <2>1, <2>2, LedTo
  <2>4. h \in DataBlock
    BY <1>4
  <2>5. c[2] \in 1 .. 3 /\ p[1] # 0
    BY <1>4, CellIsBlock, CellFacts DEF Inner
  <2>6. Stored(t2, I2[f], p, c[2]) = t2[h][p[c[2] + 1]]
    BY <2>3, <2>5, StoredBelow
  <2>7. At(t2, I2[f], c) = id
    BY <1>4, <2>6 DEF At, Puts
  <2> QED
    BY <1>4, <2>1, <2>3, <2>4, <2>7
<1>5. ASSUME ~Inner(c) PROVE At(t2, I2[f], c) = id
  <2>1. CASE c[2] = 0
    <3>1. I2[f].top[p[1]] = id
      BY <2>1 DEF Puts
    <3> QED
      BY <2>1, <3>1, StoredInInode DEF At
  <2>2. CASE p[1] = 0
    <3>1. I2[f].direct[p[2]] = id /\ c[2] = 1
      BY <2>2, CellFacts DEF Puts
    <3> QED
      BY <2>2, <3>1, StoredInInode DEF At
  <2>3. c[2] = 0 \/ p[1] = 0
    BY <1>5, CellIsBlock, CellFacts DEF Inner
  <2> QED
    BY <2>1, <2>2, <2>3
<1>6. /\ At(t2, I2[f], c) = id
      /\ Inner(c) => /\ \E d \in H[f] : Leads(d, c)
                     /\ Stored(t2, I2[f], p, c[2] - 1) \in DataBlock
  BY <1>4, <1>5
<1>7. Sane(t2, used \cup {id}, L, I2, H2)
  <2>1. NewCell(t2, used, L, I2, H, f, c, id, H2)
    BY <1>6 DEF NewCell
  <2> QED
    BY <1>3, <2>1, OneMoreCell
<1> QED
  BY <1>3, <1>6, <1>7

-----------------------------------------------------------------------------
LEMMA MinMax ==
    ASSUME NEW S \in SUBSET (0 .. 3), S # {}
    PROVE  /\ Min(S) \in S /\ \A x \in S : Min(S) <= x
           /\ Max(S) \in S /\ \A x \in S : Max(S) >= x
<1>1. \E x \in S : \A y \in S : x <= y
  <2>1. CASE 0 \in S
    BY <2>1
  <2>2. CASE 0 \notin S /\ 1 \in S
    BY <2>2
  <2>3. CASE 0 \notin S /\ 1 \notin S /\ 2 \in S
    BY <2>3
  <2>4. CASE 0 \notin S /\ 1 \notin S /\ 2 \notin S
    <3>1. \A x \in S : x = 3
      BY <2>4
    <3>2. 3 \in S
      BY <3>1
    <3> QED
      BY <3>1, <3>2
  <2> QED
    BY <2>1, <2>2, <2>3, <2>4
<1>2. \E x \in S : \A y \in S : x >= y
  <2>1. CASE 3 \in S
    BY <2>1
  <2>2. CASE 3 \notin S /\ 2 \in S
    BY <2>2
  <2>3. CASE 3 \notin S /\ 2 \notin S /\ 1 \in S
    BY <2>3
  <2>4. CASE 3 \notin S /\ 2 \notin S /\ 1 \notin S
    <3>1. \A x \in S : x = 0
      BY <2>4
    <3>2. 0 \in S
      BY <3>1
    <3> QED
      BY <3>1, <3>2
  <2> QED
    BY <2>1, <2>2, <2>3, <2>4
<1>3. Min(S) \in S /\ \A x \in S : Min(S) <= x
  BY <1>1 DEF Min
<1>4. Max(S) \in S /\ \A x \in S : Max(S) >= x
  BY <1>2 DEF Max
<1> QED
  BY <1>3, <1>4

LEMMA CellsAre == \A ino : Cells(ino) = {c \in Cell : c[1] < ino.n}
BY DEF Cells, Cell

(* What Trim drops is none of the file's pointers.                         *)
LEMMA Trimmed ==
    ASSUME NEW ino \in Inode, NEW c \in Cell, c[1] < ino.n
    PROVE  /\ c[2] = 0 => Trim(ino).top[Path(c[1])[1]] = ino.top[Path(c[1])[1]]
           /\ Path(c[1])[1] = 0 =>
                Trim(ino).direct[Path(c[1])[2]] = ino.direct[Path(c[1])[2]]
<1>1. ASSUME c[2] = 0
      PROVE  Trim(ino).top[Path(c[1])[1]] = ino.top[Path(c[1])[1]]
  <2>1. Path(c[1])[1] \in 1 .. 3
    BY <1>1, CellFacts
  <2>2. c \in Cells(ino)
    BY CellsAre
  <2> QED
    BY <1>1, <2>1, <2>2 DEF Trim
<1>2. ASSUME Path(c[1])[1] = 0
      PROVE  Trim(ino).direct[Path(c[1])[2]] = ino.direct[Path(c[1])[2]]
  <2>1. Path(c[1])[2] \in 0 .. (NDirect - 1) /\ Path(c[1])[2] < ino.n
    BY <1>2, CellFacts
  <2> QED
    BY <2>1 DEF Trim
<1> QED
  BY <1>1, <1>2

(* What is no longer a pointer of a file is none of those held.            *)
LEMMA Settled ==
    ASSUME NEW used, Wild \notin used, NEW L, NEW I, NEW H,
           Sane(table, used, L, I, H),
           \A f \in L : \A c \in H[f] : c[1] < I[f].n,
           NEW inodes, \A f \in L : inodes[f] = I[f]
    PROVE  /\ Sane(Settle(L, inodes), used, L, I, H)
           /\ \A f \in L : \A c \in H[f] :
                At(Settle(L, inodes), I[f], c) = At(table, I[f], c)
<1> DEFINE t2 == Settle(L, inodes)
<1>1. ASSUME NEW f \in L, NEW c \in H[f], Inner(c),
             NEW h, h = Stored(table, I[f], Path(c[1]), c[2] - 1),
             NEW e, e = Path(c[1])[c[2] + 1]
      PROVE  t2[h][e] = table[h][e]
  <2>1. c \in Cell /\ h \in DataBlock
    BY <1>1, SaneCell
  <2>2. e \in Entry
    BY <1>1, <2>1, CellFacts, CellIsBlock DEF Inner
  <2>3. c \in Cells(I[f])
    BY <2>1, CellsAre
  <2>4. Holder(I[f], Path(c[1]), c[2]) = {h}
    BY <1>1, OwnedIs
  <2>5. <<h, e>> \in Slots(I[f])
    <3>1. Path(c[1])[1] # 0 /\ c[2] # 0
      BY <1>1, <2>1, CellFacts, CellIsBlock DEF Inner
    <3>2. <<h, e>> \in Holder(I[f], Path(c[1]), c[2]) \X {Path(c[1])[c[2] + 1]}
      BY <1>1, <2>4
    <3> QED
      BY <2>3, <3>1, <3>2 DEF Slots
  <2>6. <<h, e>> \in UNION {Slots(inodes[g]) : g \in L}
    BY <2>5
  <2> QED
    BY <2>1, <2>2, <2>6 DEF Settle
<1>2. KeptCells(table, L, I, H, t2, used, L, I, H)
  <2> SUFFICES ASSUME NEW f \in L, NEW c \in H[f]
               PROVE  /\ Inner(c) => \E d \in H[f] : Leads(d, c)
                      /\ Same(table, I[f], t2, I[f], c)
                      /\ At(table, I[f], c) \in used
    BY DEF KeptCells
  <2> HIDE DEF t2
  <2> QED
    BY <1>1, SaneCell DEF Same
<1> QED
  BY <1>2, Kept

-----------------------------------------------------------------------------
(* The files of a state.                                                   *)
LEMMA FileOf ==
    /\ \A f \in live : Inos[f] = Ino(f) /\ Helds[f] = Held(f)
    /\ \A f \in live' : Inos'[f] = Ino(f)' /\ Helds'[f] = Held(f)'
BY DEF Inos, Helds

LEMMA HeldCell ==
    ASSUME FilesSane, NEW f \in live, NEW c \in Held(f)
    PROVE  /\ c \in Cell /\ At(table, Ino(f), c) \in bits
           /\ Inner(c) => \E d \in Held(f) : Leads(d, c)
BY SaneCell, FileOf DEF FilesSane

LEMMA HeldApart ==
    ASSUME FilesSane, NEW f \in live, NEW c \in Held(f), NEW g \in live, NEW d \in Held(g),
           At(table, Ino(f), c) = At(table, Ino(g), d)
    PROVE  f = g /\ c = d
BY SaneApart, FileOf DEF FilesSane

(* Cells that are held before and after a step store the same.             *)
Steady ==
    \A f \in live \cap live' : \A c \in Held(f) :
        c \in Held(f)' => At(table', Ino(f)', c) = At(table, Ino(f), c)

NoneNew == \A f \in live' : \A c \in Held(f)' : f \in live /\ c \in Held(f)

(* A step that only gives up cells.                                        *)
LEMMA KeptFiles ==
    ASSUME FilesSane,
           \A f \in live' : \A c \in Held(f)' :
              /\ f \in live /\ c \in Held(f)
              /\ Inner(c) => \E d \in Held(f)' : Leads(d, c)
              /\ Same(table, Ino(f), table', Ino(f)', c)
              /\ At(table, Ino(f), c) \in bits'
    PROVE  /\ FilesSane' /\ Steady /\ NoneNew
           /\ \A f \in live' : \A c \in Held(f)' :
                At(table', Ino(f)', c) = At(table, Ino(f), c)
<1>1. KeptCells(table, live, Inos, Helds, table', bits', live', Inos', Helds')
  BY FileOf DEF KeptCells
<1>2. /\ Sane(table', bits', live', Inos', Helds')
      /\ \A f \in live' : \A c \in Helds'[f] : At(table', Inos'[f], c) = At(table, Inos[f], c)
  BY <1>1, Kept DEF FilesSane
<1>3. \A f \in live' : \A c \in Held(f)' : f \in live
  OBVIOUS
<1> QED
  BY <1>2, <1>3, FileOf DEF FilesSane, Steady, NoneNew

(* A step that touches no file.                                            *)
LEMMA SameFiles ==
    ASSUME FilesSane, table' = table, bits' = bits, live' = live,
           \A f \in live : Ino(f)' = Ino(f) /\ Held(f)' = Held(f)
    PROVE  FilesSane' /\ Steady /\ NoneNew
<1>1. Sane(table, bits, live, Inos', Helds')
  BY SaneOf, FileOf DEF FilesSane
<1> QED
  BY <1>1 DEF FilesSane, Steady, NoneNew

LEMMA SameUsed ==
    ASSUME AllUsed, failed \subseteq failed', table' = table, bits' = bits, live' = live,
           \A f \in live : Ino(f)' = Ino(f) /\ Held(f)' = Held(f)
    PROVE  AllUsed'
BY DEF AllUsed

-----------------------------------------------------------------------------
(* What a resize that has begun has in hand.                               *)
LEMMA OpFields ==
    ASSUME FilesTyped, op \in Resizing
    PROVE  /\ op # NoOp /\ op.file \in File /\ op.ino \in Inode
           /\ op.block \in Int /\ op.target \in Nat /\ op.target <= MaxBlocks
           /\ op.todo \in SUBSET (0 .. 3)
           /\ inode[op.file] \in Inode /\ inode[op.file].n \in Nat
BY MarkerAssumption, BoundAssumption DEF FilesTyped, Resizing, Inode

LEMMA BitsAreIds ==
    ASSUME Alloc!TypeOK
    PROVE  Wild \notin bits /\ IsFiniteSet(bits) /\ Limit \in Nat /\ nfree \in Int
<1>1. IsFiniteSet(Alloc!Id)
  BY DiskAssumption, FS_Interval DEF Alloc!Id
<1>2. bits \subseteq Alloc!Id /\ bits \subseteq Int
  BY DEF Alloc!TypeOK, Alloc!Id
<1>3. nfree \in Int
  BY DEF Alloc!TypeOK
<1> QED
  BY <1>1, <1>2, <1>3, FS_Subset, MarkerAssumption, DiskAssumption

(* A file that is not being resized.                                       *)
LEMMA Idle ==
    ASSUME NEW f, op = NoOp \/ op.file # f
    PROVE  Ino(f) = inode[f] /\ Held(f) = {c \in Cell : c[1] < inode[f].n}
BY DEF Ino, Held

LEMMA Busy ==
    ASSUME op # NoOp
    PROVE  /\ Ino(op.file) = op.ino
           /\ Held(op.file) =
                {c \in Cell : \/ c[1] < op.block
                              \/ c[1] = op.block /\ (c[2] \in op.todo <=> Shrinking)}
BY DEF Ino, Held

(* create_inode: a file with no pointers.                                  *)
LEMMA CreateKeeps ==
    ASSUME FilesTyped, FilesSane, AllUsed, CountExact, NEW f \in File, Create(f)
    PROVE  InOrder' /\ FilesSane' /\ AllUsed' /\ CountExact' /\ Steady /\ NoneNew
<1>1. /\ op = NoOp /\ op' = NoOp /\ f \notin live /\ live' = live \cup {f}
      /\ inode' = [inode EXCEPT ![f] = NewInode] /\ table' = table /\ bits' = bits
      /\ nfree' = nfree /\ failed' = failed
  BY DEF Create, alloc
<1>2. ASSUME NEW g \in live PROVE Ino(g)' = Ino(g) /\ Held(g)' = Held(g)
  <2>1. inode'[g] = inode[g]
    BY <1>1 DEF FilesTyped
  <2> QED
    BY <1>1, <2>1 DEF Ino, Held
<1>3. Held(f)' = {}
  <2>1. inode'[f].n = 0
    BY <1>1 DEF FilesTyped, NewInode
  <2> QED
    BY <1>1, <2>1, CellIsBlock DEF Held
<1>4. \A g \in live' : \A c \in Held(g)' : g \in live /\ c \in Held(g)
  BY <1>1, <1>2, <1>3
<1>5. FilesSane' /\ Steady /\ NoneNew
  <2>1. \A g \in live' : \A c \in Held(g)' :
              /\ g \in live /\ c \in Held(g)
              /\ Inner(c) => \E d \in Held(g)' : Leads(d, c)
              /\ Same(table, Ino(g), table', Ino(g)', c)
              /\ At(table, Ino(g), c) \in bits'
    BY <1>1, <1>2, <1>4, HeldCell DEF Same
  <2> QED
    BY <2>1, KeptFiles
<1>6. AllUsed'
  BY <1>1, <1>2 DEF AllUsed
<1>7. InOrder' /\ CountExact'
  BY <1>1 DEF InOrder, CountExact, Intact
<1> QED
  BY <1>5, <1>6, <1>7

(* inode_file_resize begins: it holds what the file did.                   *)
LEMMA ResizeKeeps ==
    ASSUME FilesTyped, FilesSane, AllUsed, CountExact,
           NEW f \in File, NEW n \in 0 .. MaxBlocks, NEW delete \in BOOLEAN,
           Resize(f, n, delete)
    PROVE  InOrder' /\ FilesSane' /\ AllUsed' /\ CountExact' /\ Steady /\ NoneNew
<1> PICK cur \in Nat : cur = inode[f].n
  BY DEF FilesTyped, Inode
<1> n \in Nat /\ n <= MaxBlocks
  BY BoundAssumption
<1>1. /\ op = NoOp /\ op' \in Resizing /\ f \in live /\ live' = live
      /\ inode' = inode /\ table' = table /\ bits' = bits
      /\ nfree' = nfree /\ failed' = failed
      /\ op'.file = f /\ op'.ino = inode[f] /\ op'.block = First(cur, n)
      /\ op'.target = n /\ op'.delete = delete /\ (delete => n = 0)
      /\ op'.todo = IF cur = n THEN {} ELSE Levels(First(cur, n))
  BY ResizeStarts DEF Resize, alloc
<1>2. op' # NoOp
  BY <1>1, MarkerAssumption
<1>3. First(cur, n) = IF cur < n THEN cur ELSE cur - 1
  BY DEF First
<1>4. /\ Shrinking' <=> n < cur
      /\ Growing' <=> n >= cur
  BY <1>1, <1>2, <1>3 DEF Shrinking, Growing
<1>5. \A g \in live : Ino(g)' = Ino(g)
  BY <1>1 DEF Ino
<1>6. \A g \in live : g # f => Held(g)' = Held(g)
  BY <1>1 DEF Held
<1>7. Held(f)' = Held(f)
  <2>1. Held(f) = {c \in Cell : c[1] < cur}
    BY <1>1, Idle
  <2>2. Held(f)' = {c \in Cell : \/ c[1] < op'.block
                                 \/ c[1] = op'.block /\ (c[2] \in op'.todo <=> Shrinking')}
    BY <1>1, <1>2 DEF Held
  <2>3. ASSUME NEW c \in Cell
        PROVE  c \in Held(f)' <=> c[1] < cur
    <3>1. c[1] \in Nat /\ c[2] \in Levels(c[1])
      BY CellIsBlock
    <3>2. CASE cur = n
      BY <1>1, <1>3, <1>4, <2>2, <3>1, <3>2
    <3>3. CASE cur < n
      BY <1>1, <1>3, <1>4, <2>2, <3>1, <3>3
    <3>4. CASE n < cur
      BY <1>1, <1>3, <1>4, <2>2, <3>1, <3>4
    <3> QED
      BY <3>2, <3>3, <3>4
  <2>4. Held(f)' \subseteq Cell
    BY <2>2
  <2> QED
    BY <2>1, <2>3, <2>4
<1>8. FilesSane' /\ AllUsed' /\ Steady /\ NoneNew
  BY <1>1, <1>5, <1>6, <1>7, SameFiles, SameUsed
<1>9. InOrder'
  <2>1. inode'[f].n = cur /\ op'.ino.n = cur
    BY <1>1
  <2>2. op'.todo \subseteq Levels(op'.block)
    BY <1>1
  <2>3. \/ cur < n /\ op'.block \in cur .. (n - 1)
        \/ cur > n /\ op'.block \in n .. (cur - 1)
        \/ cur = n /\ op'.block = cur - 1 /\ op'.todo = {}
    BY <1>1, <1>3
  <2>4. Growing' => /\ Before(Levels(op'.block) \ op'.todo, op'.todo)
                    /\ Agree(op'.ino, inode'[f], cur)
    BY <1>1, <1>3, <1>4 DEF Before, Agree
  <2>5. Shrinking' => Before(op'.todo, Levels(op'.block) \ op'.todo)
    BY <1>1, <1>3, <1>4 DEF Before
  <2> QED
    BY <1>1, <2>1, <2>2, <2>3, <2>4, <2>5 DEF InOrder
<1>10. CountExact'
  BY <1>1 DEF CountExact, Intact
<1> QED
  BY <1>8, <1>9, <1>10

(* What a resize keeps in hand as it goes on.                              *)
Alike(r2, r) ==
    /\ r2.file = r.file /\ r2.block = r.block /\ r2.target = r.target
    /\ r2.delete = r.delete /\ r2.ino.n = r.ino.n

(* Fields of what is in hand.                                              *)
LEMMA TodoSet ==
    ASSUME NEW r \in Resizing, NEW S
    PROVE  /\ Alike([r EXCEPT !.todo = S], r) /\ [r EXCEPT !.todo = S].todo = S
           /\ [r EXCEPT !.todo = S].ino = r.ino
BY DEF Resizing, Alike

LEMMA TopSet ==
    ASSUME NEW r \in Resizing, NEW k, NEW id
    PROVE  LET r2 == [r EXCEPT !.ino.top[k] = id] IN
           /\ Alike(r2, r) /\ r2.todo = r.todo /\ r2.ino.direct = r.ino.direct
           /\ r2.ino.top = [r.ino.top EXCEPT ![k] = id]
<1>1. r.ino \in Inode
  BY DEF Resizing
<1> QED
  BY <1>1 DEF Resizing, Inode, Alike

LEMMA DirectSet ==
    ASSUME NEW r \in Resizing, NEW k, NEW id
    PROVE  LET r2 == [r EXCEPT !.ino.direct[k] = id] IN
           /\ Alike(r2, r) /\ r2.todo = r.todo /\ r2.ino.top = r.ino.top
           /\ r2.ino.direct = [r.ino.direct EXCEPT ![k] = id]
<1>1. r.ino \in Inode
  BY DEF Resizing
<1> QED
  BY <1>1 DEF Resizing, Inode, Alike

GrowSets(l, p, id) ==
    /\ Alike(op', op) /\ op'.todo = op.todo \ {l}
    /\ l = 0 => /\ table' = table /\ op'.ino.direct = op.ino.direct
                /\ op'.ino.top = [op.ino.top EXCEPT ![p[1]] = id]
    /\ l > 0 /\ p[1] = 0 =>
         /\ table' = table /\ op'.ino.top = op.ino.top
         /\ op'.ino.direct = [op.ino.direct EXCEPT ![p[2]] = id]
    /\ l # 0 /\ ~(l > 0 /\ p[1] = 0) =>
         /\ op'.ino = op.ino
         /\ \E h \in Holder(op.ino, p, l) \cap DataBlock :
              table' = [table EXCEPT ![h][p[l + 1]] = id]

(* The step as the code makes it.                                          *)
LEMMA GrowOneSets ==
    ASSUME FilesTyped, NEW id \in Alloc!Id, GrowOne(id),
           NEW l, l = Min(op.todo), NEW p, p = Path(op.block)
    PROVE  GrowSets(l, p, id)
<1> USE DEF GrowSets
<1> DEFINE done == [op EXCEPT !.todo = @ \ {l}]
<1>1. op \in Resizing
  BY DEF FilesTyped, GrowOne, Growing
<1>2. Alike(done, op) /\ done.todo = op.todo \ {l} /\ done.ino = op.ino
  BY <1>1, TodoSet
<1>3. done \in Resizing
  BY <1>1 DEF Resizing
<1>4. CASE l = 0 \/ (l > 0 /\ p[1] = 0) \/ (l # 0 /\ ~(l > 0 /\ p[1] = 0))
  <2>1. CASE l = 0
    <3>1. op' = [done EXCEPT !.ino.top[p[1]] = id] /\ table' = table
      BY <2>1 DEF GrowOne
    <3> HIDE DEF done
    <3>2. /\ Alike(op', done) /\ op'.todo = done.todo
          /\ op'.ino.direct = done.ino.direct
          /\ op'.ino.top = [done.ino.top EXCEPT ![p[1]] = id]
      BY <1>3, <3>1, TopSet
    <3> QED
      BY <1>2, <2>1, <3>1, <3>2 DEF Alike
  <2>2. CASE l > 0 /\ p[1] = 0
    <3>1. op' = [done EXCEPT !.ino.direct[p[2]] = id] /\ table' = table
      <4>1. l # 0
        BY <2>2
      <4> QED
        BY <2>2, <4>1 DEF GrowOne
    <3> HIDE DEF done
    <3>2. /\ Alike(op', done) /\ op'.todo = done.todo
          /\ op'.ino.top = done.ino.top
          /\ op'.ino.direct = [done.ino.direct EXCEPT ![p[2]] = id]
      BY <1>3, <3>1, DirectSet
    <3> QED
      BY <1>2, <2>2, <3>1, <3>2 DEF Alike
  <2>3. CASE l # 0 /\ ~(l > 0 /\ p[1] = 0)
    <3>1. /\ op' = done
          /\ \E h \in Holder(op.ino, p, l) \cap DataBlock :
               table' = [table EXCEPT ![h][p[l + 1]] = id]
      BY <2>3 DEF GrowOne
    <3> HIDE DEF done
    <3> QED
      BY <1>2, <2>3, <3>1 DEF Alike
  <2> QED
    BY <1>4, <2>1, <2>2, <2>3
<1> QED
  BY <1>4

(* What the resize in hand sets, and where.                                *)
LEMMA GrowOnePuts ==
    ASSUME FilesTyped, Alloc!TypeOK, FilesSane, InOrder, NEW id \in Alloc!Id, GrowOne(id),
           NEW f, f = op.file, NEW c, c = <<op.block, Min(op.todo)>>
    PROVE  /\ c \in Cell /\ f \in live /\ c \notin Held(f)
           /\ Inner(c) => /\ \E d \in Held(f) : Leads(d, c)
                          /\ Stored(table, Inos[f], Path(c[1]), c[2] - 1) \in DataBlock
           /\ Puts(table, live, Inos, f, c, id, table', Inos')
           /\ Held(f)' = Held(f) \cup {c}
           /\ \A g \in live : g # f => Held(g)' = Held(g)
           /\ Alike(op', op) /\ op'.todo = op.todo \ {Min(op.todo)}
           /\ op' \in Resizing /\ Growing'
<1> PICK l, p : l = Min(op.todo) /\ p = Path(op.block)
  OBVIOUS
<1> c = <<op.block, l>>
  OBVIOUS
<1>0. GrowSets(l, p, id)
  BY GrowOneSets
<1>1. /\ op \in Resizing /\ op.todo # {} /\ op.block < op.target /\ Growing
      /\ op' \in Resizing /\ live' = live /\ inode' = inode
  BY GrowOneGoesOn DEF FilesTyped, GrowOne, Growing
<1>2. /\ op # NoOp /\ op.block \in Nat /\ op.target \in Nat /\ op.target <= MaxBlocks
      /\ op.todo \in SUBSET (0 .. 3) /\ op.todo \subseteq Levels(op.block)
      /\ op.file = f /\ f \in live /\ op.ino \in Inode
      /\ Before(Levels(op.block) \ op.todo, op.todo)
  BY <1>1, OpFields DEF InOrder
<1>3. l \in op.todo /\ \A x \in op.todo : l <= x
  BY <1>1, <1>2, MinMax
<1>4. l \in 0 .. 3
  BY <1>2, <1>3
<1>5. c \in Cell /\ c[1] = op.block /\ c[2] = l
  BY <1>1, <1>2, <1>3, <1>4, BoundAssumption DEF Cell
<1>6. c \notin Held(f)
  BY <1>1, <1>2, <1>3, <1>5, Busy DEF Shrinking
<1>7. Inner(c) => \E d \in Held(f) : Leads(d, c)
  <2> SUFFICES ASSUME Inner(c) PROVE \E d \in Held(f) : Leads(d, c)
    OBVIOUS
  <2>1. PICK d \in Cell : Leads(d, c) /\ d[1] <= c[1]
    BY <1>5, CellHasParent
  <2>2. d[1] \in Nat /\ d[2] \in Levels(d[1]) /\ d[2] = l - 1
    BY <1>5, <2>1, CellIsBlock DEF Leads
  <2>3. d[1] = op.block => d[2] \notin op.todo
    BY <1>2, <1>3, <1>4, <2>2
  <2>4. ~Shrinking
    BY <1>1, <1>2 DEF Shrinking
  <2>5. d[1] < op.block \/ d[1] = op.block
    BY <1>2, <1>5, <2>1, <2>2
  <2>6. d \in Held(f)
    BY <1>2, <2>2, <2>3, <2>4, <2>5, Busy
  <2> QED
    BY <2>1, <2>6
<1>8. /\ op'.file = f /\ op'.block = op.block /\ op'.todo = op.todo \ {l}
      /\ op'.target = op.target
  BY <1>0 DEF GrowSets, Alike
<1>9. Held(f)' = Held(f) \cup {c}
  <2>1. op' # NoOp /\ op # NoOp
    BY <1>1, <1>2, MarkerAssumption
  <2>2. ~Shrinking /\ ~Shrinking'
    BY <1>1, <1>2, <1>8 DEF Shrinking
  <2>3. ASSUME NEW d \in Cell PROVE d \in Held(f)' <=> d \in Held(f) \/ d = c
    <3>1. d = <<d[1], d[2]>> /\ d[1] \in Nat
      BY CellIsBlock
    <3>2. d = c <=> d[1] = op.block /\ d[2] = l
      BY <3>1
    <3> QED
      BY <1>2, <1>3, <1>8, <2>1, <2>2, <3>1, <3>2 DEF Held
  <2>4. Held(f) \subseteq Cell /\ Held(f)' \subseteq Cell
    BY DEF Held
  <2> QED
    BY <1>5, <2>3, <2>4
<1>10. \A g \in live : g # f => Held(g)' = Held(g) /\ Ino(g)' = Ino(g)
  BY <1>1, <1>8 DEF Held, Ino
<1>11. Inos[f] = op.ino /\ Inos'[f] = op'.ino /\ Ino(f) = op.ino
  BY <1>1, <1>2, <1>8, FileOf, MarkerAssumption DEF Ino
<1> PICK h : h = Stored(table, op.ino, p, l - 1)
  OBVIOUS
<1>12. ASSUME Inner(c)
       PROVE  /\ op'.ino = op.ino /\ h \in DataBlock
              /\ table' = [table EXCEPT ![h][p[l + 1]] = id]
  <2>1. l \in 1 .. 3 /\ p[1] \in 1 .. 3 /\ p[l + 1] \in Entry
    BY <1>4, <1>5, <1>12, CellFacts DEF Inner
  <2>2. PICK d \in Held(f) : Leads(d, c)
    BY <1>7, <1>12
  <2>3. d \in Cell /\ At(table, op.ino, d) \in bits /\ h = At(table, op.ino, d)
    <3>1. op.ino = Ino(f)
      BY <1>2, Busy
    <3>2. d \in Cell /\ At(table, Ino(f), d) \in bits
      BY <1>2, <2>2, HeldCell
    <3> QED
      BY <1>5, <1>12, <2>2, <3>1, <3>2, LedTo
  <2>4. h # Wild
    BY <2>3, BitsAreIds
  <2>5. \A m \in 0 .. (l - 2) : Stored(table, op.ino, p, m) \in DataBlock
    <3>1. CASE l = 1
      BY <3>1
    <3>2. CASE l > 1
      <4>1. Inner(d) /\ d[2] = l - 1
        BY <1>5, <1>12, <2>2, <2>3, <3>2, LedTo
      <4>2. \A m \in 0 .. (d[2] - 1) : Stored(table, op.ino, Path(d[1]), m) \in DataBlock
        BY <1>2, <1>11, <2>2, <4>1, BlocksAbove, FileOf DEF FilesSane
      <4>3. \A m \in 0 .. (l - 1) : Stored(table, op.ino, p, m)
                                      = Stored(table, op.ino, Path(d[1]), m)
        BY <1>5, <1>12, <2>2, <2>3, LedTo
      <4> QED
        BY <2>1, <4>1, <4>2, <4>3
    <3> QED
      BY <2>1, <3>1, <3>2
  <2>6. Holder(op.ino, p, l) = {h}
    BY <2>1, <2>4, <2>5, FoundHolder
  <2>7. op'.ino = op.ino /\ h \in DataBlock
        /\ table' = [table EXCEPT ![h][p[l + 1]] = id]
    <3>1. l # 0 /\ ~(l > 0 /\ p[1] = 0)
      BY <2>1
    <3> QED
      BY <1>0, <2>6, <3>1 DEF GrowSets
  <2> QED
    BY <2>7
<1>13. Puts(table, live, Inos, f, c, id, table', Inos')
  <2>1. Inos[f] = op.ino /\ Inos'[f] = op'.ino
    BY <1>11
  <2>2. \A g \in live : g # f => Inos'[g] = Inos[g]
    BY <1>1, <1>10, FileOf
  <2>3. CASE l = 0
    <3>1. /\ op'.ino.direct = op.ino.direct /\ table' = table
          /\ op'.ino.top = [op.ino.top EXCEPT ![p[1]] = id]
      BY <1>0, <2>3 DEF GrowSets
    <3>2. p[1] \in 1 .. 3
      BY <1>5, <2>3, CellFacts
    <3>3. op.ino.top \in [1 .. 3 -> Pointer]
      BY <1>2 DEF Inode
    <3>4. c[2] = 0 /\ Path(c[1]) = p
      BY <1>5, <2>3
    <3>5. ~Inner(c) /\ p[1] # 0
      BY <3>2, <3>4 DEF Inner
    <3> QED
      BY <2>1, <2>2, <3>1, <3>2, <3>3, <3>4, <3>5 DEF Puts
  <2>4. CASE p[1] = 0
    <3>1. l = 1 /\ p[2] \in 0 .. (NDirect - 1)
      BY <1>5, <2>4, CellFacts
    <3>2. /\ op'.ino.top = op.ino.top /\ table' = table
          /\ op'.ino.direct = [op.ino.direct EXCEPT ![p[2]] = id]
      BY <1>0, <2>4, <3>1 DEF GrowSets
    <3>3. op.ino.direct \in [0 .. (NDirect - 1) -> Pointer]
      BY <1>2 DEF Inode
    <3>4. c[2] = 1 /\ Path(c[1]) = p
      BY <1>5, <3>1
    <3>5. ~Inner(c)
      BY <2>4, <3>4 DEF Inner
    <3>6. op'.ino.direct[p[2]] = id
      BY <3>1, <3>2, <3>3
    <3>7. \A e \in 0 .. (NDirect - 1) :
             e # p[2] => op'.ino.direct[e] = op.ino.direct[e]
      BY <3>1, <3>2, <3>3
    <3> QED
      BY <2>1, <2>2, <2>4, <3>2, <3>4, <3>5, <3>6, <3>7 DEF Puts
  <2>5. CASE Inner(c)
    <3>1. l \in 1 .. 3 /\ p[1] \in 1 .. 3 /\ p[l + 1] \in Entry
      BY <1>4, <1>5, <2>5, CellFacts DEF Inner
    <3>7. op'.ino = op.ino /\ h \in DataBlock /\ table' = [table EXCEPT ![h][p[l + 1]] = id]
      BY <1>12, <2>5
    <3>8. table \in [DataBlock -> [Entry -> Pointer]]
      BY DEF FilesTyped
    <3>9. c[2] = l /\ Path(c[1]) = p /\ l # 0 /\ p[1] # 0
      BY <1>5, <3>1
    <3>10. \A b \in DataBlock, e \in Entry :
              <<b, e>> # <<h, p[l + 1]>> => table'[b][e] = table[b][e]
      BY <3>1, <3>7, <3>8
    <3>11. table'[h][p[l + 1]] = id
      BY <3>1, <3>7, <3>8
    <3> QED
      BY <2>1, <2>2, <3>7, <3>9, <3>10, <3>11 DEF Puts
  <2>6. l = 0 \/ p[1] = 0 \/ Inner(c)
    BY <1>4, <1>5, CellFacts DEF Inner
  <2> QED
    BY <2>3, <2>4, <2>5, <2>6
<1>14. Inner(c) => Stored(table, Inos[f], Path(c[1]), c[2] - 1) \in DataBlock
  BY <1>5, <1>11, <1>12
<1>15. op' # NoOp /\ Growing'
  BY <1>1, <1>8, MarkerAssumption DEF Growing
<1>16. Alike(op', op) /\ op'.todo = op.todo \ {Min(op.todo)}
  BY <1>0 DEF GrowSets
<1> QED
  BY <1>1, <1>2, <1>5, <1>6, <1>7, <1>9, <1>10, <1>13, <1>14, <1>15, <1>16

(* ALLOCATE_BLOCK_ID: the file in hand has one pointer more, to a block    *)
(* that nobody had.                                                        *)
LEMMA GrowOneKeeps ==
    ASSUME FilesTyped, Alloc!TypeOK, InOrder, FilesSane, AllUsed, CountExact,
           NEW id \in Alloc!Id, GrowOne(id)
    PROVE  /\ InOrder' /\ FilesSane' /\ AllUsed' /\ CountExact' /\ Steady
           /\ \A f \in live : f = op.file =>
                At(table', Ino(f)', <<op.block, Min(op.todo)>>) = id
<1> PICK f, l, c : f = op.file /\ l = Min(op.todo) /\ c = <<op.block, l>>
  OBVIOUS
<1>1. /\ c \in Cell /\ f \in live /\ c \notin Held(f)
      /\ Inner(c) => /\ \E d \in Held(f) : Leads(d, c)
                     /\ Stored(table, Inos[f], Path(c[1]), c[2] - 1) \in DataBlock
      /\ Puts(table, live, Inos, f, c, id, table', Inos')
      /\ Held(f)' = Held(f) \cup {c}
      /\ \A g \in live : g # f => Held(g)' = Held(g)
      /\ Alike(op', op) /\ op'.todo = op.todo \ {l}
      /\ op' \in Resizing /\ Growing'
  BY GrowOnePuts
<1>2. /\ op \in Resizing /\ op.todo # {} /\ op.block < op.target /\ Growing
      /\ live' = live /\ inode' = inode /\ failed' = failed
      /\ bits' = bits \cup {id} /\ id \notin bits /\ nfree' = nfree - 1
  BY DEF FilesTyped, GrowOne, Growing, Alloc!Allocate, Alloc!FirstZero, Alloc!Zeros
<1>3. /\ op'.file = f /\ op'.block = op.block /\ op'.target = op.target
      /\ op'.delete = op.delete /\ op'.ino.n = op.ino.n
  BY <1>1 DEF Alike
<1>4. /\ Sane(table', bits', live', Inos', Helds')
      /\ At(table', Inos'[f], c) = id
      /\ \A g \in live : \A x \in Helds[g] : At(table', Inos'[g], x) = At(table, Inos[g], x)
  <2>1. Helds'[f] = Helds[f] \cup {c} /\ \A g \in live \ {f} : Helds'[g] = Helds[g]
    BY <1>1, <1>2, FileOf
  <2>2. c \notin Helds[f] /\ (Inner(c) => \E d \in Helds[f] : Leads(d, c))
    BY <1>1, FileOf
  <2>3. Sane(table, bits, live, Inos, Helds)
    BY DEF FilesSane
  <2>4. /\ Sane(table', bits \cup {id}, live, Inos', Helds')
        /\ At(table', Inos'[f], c) = id
        /\ \A g \in live : \A x \in Helds[g] : At(table', Inos'[g], x) = At(table, Inos[g], x)
    <3>1. Inner(c) => /\ \E d \in Helds[f] : Leads(d, c)
                      /\ Stored(table, Inos[f], Path(c[1]), c[2] - 1) \in DataBlock
      BY <1>1, <2>2
    <3>2. Grants(table, bits, live, Inos, Helds, f, c, id, table', Inos', Helds')
      BY <1>1, <1>2, <2>1, <2>2, <3>1 DEF Grants
    <3>3. c \in Cell /\ f \in live
      BY <1>1
    <3>4. Granting(table, bits, live, Inos, Helds, f, c, id, table', Inos', Helds')
      BY <2>3, <3>2, <3>3, Granted
    <3> QED
      BY <3>4 DEF Granting
  <2> QED
    BY <1>2, <2>4
<1>5. FilesSane' /\ Steady
  BY <1>2, <1>4, FileOf DEF FilesSane, Steady
<1>6. AllUsed'
  <2> SUFFICES ASSUME failed \subseteq {"write"}, NEW x \in bits'
               PROVE  \E g \in live' : \E d \in Held(g)' : At(table', Ino(g)', d) = x
    BY <1>2 DEF AllUsed
  <2>1. CASE x = id
    BY <1>1, <1>2, <1>4, <2>1, FileOf
  <2>2. CASE x \in bits
    <3> PICK g \in live : \E d \in Held(g) : At(table, Ino(g), d) = x
      BY <2>2 DEF AllUsed
    <3>1. PICK d \in Held(g) : At(table, Ino(g), d) = x
      OBVIOUS
    <3>2. d \in Held(g)'
      BY <1>1, <3>1
    <3>3. At(table', Ino(g)', d) = x
      BY <1>2, <1>4, <3>1, FileOf
    <3> QED
      BY <1>2, <3>2, <3>3
  <2> QED
    BY <1>2, <2>1, <2>2
<1>7. InOrder'
  <2>1. /\ op # NoOp /\ op.block \in Int /\ op.target \in Nat
        /\ op.todo \in SUBSET (0 .. 3) /\ inode[f].n \in Nat
        /\ op.ino \in Inode
    BY <1>2, OpFields
  <2>2. /\ op.ino.n = inode[f].n /\ op.todo \subseteq Levels(op.block)
        /\ op.delete => op.target = 0
        /\ \/ inode[f].n < op.target /\ op.block \in inode[f].n .. (op.target - 1)
           \/ inode[f].n > op.target /\ op.block \in op.target .. (inode[f].n - 1)
           \/ inode[f].n = op.target /\ op.block = inode[f].n - 1 /\ op.todo = {}
        /\ Before(Levels(op.block) \ op.todo, op.todo)
        /\ Agree(op.ino, inode[f], inode[f].n)
    BY <1>2, <2>1 DEF InOrder
  <2>3. l \in op.todo /\ \A x \in op.todo : l <= x
    BY <1>2, <2>1, MinMax
  <2>4. Before(Levels(op.block) \ op'.todo, op'.todo)
    <3> SUFFICES ASSUME NEW x \in Levels(op.block) \ op'.todo, NEW y \in op'.todo
                 PROVE  x < y
      BY DEF Before
    <3>1. y \in op.todo /\ y # l /\ y \in Int /\ l \in Int
      BY <1>1, <2>1, <2>3
    <3>2. CASE x = l
      BY <2>3, <3>1, <3>2
    <3>3. CASE x # l
      BY <1>1, <2>2, <3>1, <3>3 DEF Before
    <3> QED
      BY <3>2, <3>3
  <2>5. Agree(op'.ino, inode[f], inode[f].n)
    <3> PICK n \in Nat : n = inode[f].n
      BY <2>1
    <3>1. n <= op.block
      BY <1>2, <2>1, <2>2
    <3>2. op'.ino = Inos'[f] /\ op.ino = Inos[f]
      BY <1>1, <1>2, <1>3, <2>1, FileOf, MarkerAssumption DEF Ino
    <3>3. c[1] = op.block /\ c[2] = l /\ (c[2] = 0 \/ Path(c[1])[1] = 0 \/ Inner(c))
      BY <1>1, CellIsBlock, CellFacts DEF Inner
    <3>4. ASSUME NEW k \in 1 .. 3, Start(k) < n PROVE op'.ino.top[k] = op.ino.top[k]
      <4>1. c[2] = 0 => Start(Path(c[1])[1]) = c[1]
        BY <1>1, CellFacts
      <4>2. Start(k) \in Nat
        BY Shape DEF Start
      <4>3. c[2] = 0 => k # Path(c[1])[1]
        BY <2>1, <3>1, <3>3, <3>4, <4>1, <4>2
      <4> QED
        BY <1>1, <3>2, <3>3, <4>3 DEF Puts
    <3>5. ASSUME NEW e \in 0 .. (NDirect - 1), e < n
          PROVE  op'.ino.direct[e] = op.ino.direct[e]
      <4>1. Path(c[1])[1] = 0 => Path(c[1])[2] = c[1]
        BY <1>1, CellFacts
      <4>2. Path(c[1])[1] = 0 => e # Path(c[1])[2]
        BY <2>1, <3>1, <3>3, <3>5, <4>1, Shape
      <4> QED
        BY <1>1, <3>2, <3>3, <4>2 DEF Puts
    <3> QED
      BY <2>2, <3>4, <3>5 DEF Agree
  <2>6. ~Shrinking'
    BY <1>2, <1>3, <2>1 DEF Shrinking
  <2>7. op'.todo \subseteq Levels(op.block) /\ ~(inode[f].n = op.target)
    BY <1>1, <1>2, <2>1, <2>2
  <2> QED
    BY <1>1, <1>2, <1>3, <2>2, <2>4, <2>5, <2>6, <2>7 DEF InOrder
<1>8. CountExact'
  <2>1. IsFiniteSet(bits) /\ Limit \in Nat /\ nfree \in Int
    BY BitsAreIds
  <2>2. Cardinality(bits \cup {id}) = Cardinality(bits) + 1 /\ Cardinality(bits) \in Nat
    BY <1>2, <2>1, FS_AddElement, FS_CardinalityType
  <2> PICK m \in Nat : m = Cardinality(bits)
    BY <2>2
  <2>3. Cardinality(bits') = m + 1
    BY <1>2, <2>2
  <2> QED
    BY <1>2, <2>1, <2>3 DEF CountExact, Intact
<1>9. At(table', Ino(f)', c) = id
  <2>1. Inos'[f] = Ino(f)'
    BY <1>1, <1>2, FileOf
  <2> QED
    BY <1>4, <2>1
<1> QED
  BY <1>5, <1>6, <1>7, <1>8, <1>9

(* DEALLOCATE_BLOCK_ID: the file in hand has one pointer less, and none    *)
(* that goes through it.                                                   *)
LEMMA ShrinkOneGoesOn ==
    ASSUME FilesTyped, NEW id \in DataBlock, ShrinkOne(id)
    PROVE  table' = table /\ Shrinking'
<1>1. /\ op \in Resizing /\ Shrinking /\ table' = table
      /\ op' = [op EXCEPT !.todo = @ \ {Max(op.todo)}]
  BY DEF FilesTyped, ShrinkOne, Shrinking
<1>2. Alike(op', op) /\ op' \in Resizing
  BY <1>1, TodoSet, StepGoesOn
<1> QED
  BY <1>1, <1>2, MarkerAssumption DEF Shrinking, Alike

LEMMA ShrinkOneKeeps ==
    ASSUME FilesTyped, Alloc!TypeOK, InOrder, FilesSane, AllUsed, CountExact, Intact,
           NEW id \in DataBlock, ShrinkOne(id)
    PROVE  InOrder' /\ FilesSane' /\ AllUsed' /\ CountExact' /\ Steady /\ NoneNew
<1> PICK f, l, c : f = op.file /\ l = Max(op.todo) /\ c = <<op.block, l>>
  OBVIOUS
<1>1. /\ op \in Resizing /\ op.todo # {} /\ Shrinking
      /\ op' = [op EXCEPT !.todo = @ \ {l}]
      /\ table' = table /\ live' = live /\ inode' = inode /\ failed' = failed
      /\ bits' = bits \ {id} /\ nfree' = nfree + 1
      /\ id \in Target(op.ino, Path(op.block), l)
  BY DEF FilesTyped, ShrinkOne, Shrinking, Alloc!Deallocate
<1>2. /\ op # NoOp /\ op.block \in Int /\ op.target \in Nat /\ op.target <= MaxBlocks
      /\ op.todo \in SUBSET (0 .. 3) /\ inode[f].n \in Nat
  BY <1>1, OpFields
<1>3. /\ f \in live /\ op.ino.n = inode[f].n /\ op.todo \subseteq Levels(op.block)
      /\ op.delete => op.target = 0
      /\ inode[f].n > op.target /\ op.block \in op.target .. (inode[f].n - 1)
      /\ Before(op.todo, Levels(op.block) \ op.todo)
  BY <1>1, <1>2 DEF InOrder, Shrinking
<1>4. l \in op.todo /\ \A x \in op.todo : l >= x
  BY <1>1, <1>2, MinMax
<1>5. Alike(op', op) /\ op'.todo = op.todo \ {l} /\ op'.ino = op.ino /\ op' \in Resizing
  BY <1>1, TodoSet, StepGoesOn
<1>6. op' # NoOp /\ Shrinking' /\ op'.file = f /\ op'.block = op.block
  BY <1>1, <1>5, MarkerAssumption DEF Shrinking, Alike
<1>7. c \in Cell /\ c[1] = op.block /\ c[2] = l
  <2>1. op.block \in Nat /\ op.block < MaxBlocks
    <3>1. inode[f].n <= MaxBlocks
      <4>1. inode[f] \in Inode
        BY <1>1, OpFields
      <4> QED
        BY <4>1, BoundAssumption DEF Inode
    <3> QED
      BY <1>2, <1>3, <3>1, BoundAssumption
  <2> QED
    BY <1>2, <1>3, <1>4, <2>1, BoundAssumption DEF Cell
<1>8. c \in Held(f) /\ Ino(f) = op.ino
  BY <1>1, <1>2, <1>4, <1>7, Busy
<1>9. id = At(table, Ino(f), c) /\ id \in bits
  <2>1. At(table, Ino(f), c) \in bits
    BY <1>3, <1>8, HeldCell
  <2>2. Inos[f] = Ino(f) /\ c \in Helds[f] /\ Wild \notin bits
    BY <1>3, <1>8, FileOf, BitsAreIds
  <2>3. Target(Inos[f], Path(c[1]), c[2]) = {At(table, Inos[f], c)}
    BY <1>3, <2>2, OwnedIs DEF FilesSane
  <2>4. Target(op.ino, Path(op.block), l) = {At(table, Ino(f), c)}
    BY <1>7, <1>8, <2>2, <2>3
  <2> QED
    BY <1>1, <2>1, <2>4
<1>10. \A g \in live : Ino(g)' = Ino(g)
  BY <1>1, <1>2, <1>5, <1>6 DEF Ino
<1>11. \A g \in live : g # f => Held(g)' = Held(g)
  BY <1>1, <1>6 DEF Held
<1>12. Held(f)' = Held(f) \ {c}
  <2>1. ASSUME NEW d \in Cell PROVE d \in Held(f)' <=> d \in Held(f) /\ d # c
    <3>1. d = <<d[1], d[2]>> /\ d[1] \in Nat
      BY CellIsBlock
    <3>2. d = c <=> d[1] = op.block /\ d[2] = l
      BY <3>1
    <3> QED
      BY <1>1, <1>2, <1>4, <1>5, <1>6, <3>1, <3>2 DEF Held
  <2>2. Held(f) \subseteq Cell /\ Held(f)' \subseteq Cell
    BY DEF Held
  <2> QED
    BY <2>1, <2>2
<1>13. ASSUME NEW x \in Held(f), Inner(x), x # c PROVE ~Leads(c, x)
  <2> SUFFICES ASSUME Leads(c, x) PROVE FALSE
    OBVIOUS
  <2>1. x \in Cell /\ x[1] \in Nat /\ x[2] \in 0 .. 3
    BY <1>3, HeldCell, CellIsBlock
  <2>2. c[1] <= x[1] /\ l = x[2] - 1
    BY <1>7, <1>13, <2>1, ParentBefore DEF Leads
  <2>3. x[1] = op.block /\ x[2] \in op.todo
    <3>1. x[1] < op.block \/ (x[1] = op.block /\ (x[2] \in op.todo <=> Shrinking))
      BY <1>2, <1>13, Busy
    <3>2. ~(x[1] < op.block)
      BY <1>2, <1>7, <2>1, <2>2
    <3> QED
      BY <1>1, <3>1, <3>2
  <2> QED
    BY <1>2, <1>4, <2>1, <2>2, <2>3
<1>14. /\ FilesSane' /\ Steady /\ NoneNew
       /\ \A g \in live' : \A x \in Held(g)' :
            At(table', Ino(g)', x) = At(table, Ino(g), x)
  <2>1. \A g \in live' : \A x \in Held(g)' :
              /\ g \in live /\ x \in Held(g)
              /\ Inner(x) => \E d \in Held(g)' : Leads(d, x)
              /\ Same(table, Ino(g), table', Ino(g)', x)
              /\ At(table, Ino(g), x) \in bits'
    <3> SUFFICES ASSUME NEW g \in live, NEW x \in Held(g)'
                 PROVE  /\ x \in Held(g)
                        /\ Inner(x) => \E d \in Held(g)' : Leads(d, x)
                        /\ Same(table, Ino(g), table', Ino(g)', x)
                        /\ At(table, Ino(g), x) \in bits'
      BY <1>1
    <3>1. x \in Held(g) /\ (g = f => x # c)
      BY <1>11, <1>12
    <3>2. Inner(x) => \E d \in Held(g)' : Leads(d, x)
      BY <1>11, <1>12, <1>13, <3>1, HeldCell
    <3>3. Same(table, Ino(g), table', Ino(g)', x)
      BY <1>1, <1>10 DEF Same
    <3>4. At(table, Ino(g), x) \in bits'
      BY <1>1, <1>3, <1>8, <1>9, <3>1, HeldCell, HeldApart
    <3> QED
      BY <3>1, <3>2, <3>3, <3>4
  <2> QED
    BY <2>1, KeptFiles
<1>15. AllUsed'
  <2> SUFFICES ASSUME failed \subseteq {"write"}, NEW x \in bits'
               PROVE  \E g \in live' : \E d \in Held(g)' : At(table', Ino(g)', d) = x
    BY <1>1 DEF AllUsed
  <2> PICK g \in live : \E d \in Held(g) : At(table, Ino(g), d) = x
    BY <1>1 DEF AllUsed
  <2>1. PICK d \in Held(g) : At(table, Ino(g), d) = x
    OBVIOUS
  <2>2. ~(g = f /\ d = c)
    BY <1>1, <1>9, <2>1
  <2>3. d \in Held(g)'
    BY <1>11, <1>12, <2>2
  <2> QED
    BY <1>1, <1>14, <2>1, <2>3
<1>16. InOrder'
  <2>1. Before(op'.todo, Levels(op.block) \ op'.todo)
    <3> SUFFICES ASSUME NEW x \in op'.todo, NEW y \in Levels(op.block) \ op'.todo
                 PROVE  x < y
      BY DEF Before
    <3>1. x \in op.todo /\ x # l /\ x \in Int /\ l \in Int
      BY <1>2, <1>4, <1>5
    <3>2. CASE y = l
      BY <1>4, <3>1, <3>2
    <3>3. CASE y # l
      BY <1>3, <1>5, <3>1, <3>3 DEF Before
    <3> QED
      BY <3>2, <3>3
  <2>2. ~Growing'
    BY <1>2, <1>3, <1>5 DEF Growing, Alike
  <2>3. op'.todo \subseteq Levels(op.block)
    BY <1>3, <1>5
  <2> QED
    BY <1>1, <1>3, <1>5, <1>6, <2>1, <2>2, <2>3 DEF InOrder, Alike
<1>17. CountExact'
  <2>1. IsFiniteSet(bits) /\ Limit \in Nat /\ nfree \in Int
    BY BitsAreIds
  <2>2. Cardinality(bits \ {id}) = Cardinality(bits) - 1 /\ Cardinality(bits) \in Nat
    BY <1>9, <2>1, FS_RemoveElement, FS_CardinalityType
  <2> PICK m \in Nat : m = Cardinality(bits)
    BY <2>2
  <2>3. Cardinality(bits') = m - 1
    BY <1>1, <2>2
  <2> QED
    BY <1>1, <2>1, <2>3 DEF CountExact, Intact
<1> QED
  BY <1>14, <1>15, <1>16, <1>17

(* The loop of a resize comes to the next block, or the one before.        *)
LEMMA NextBlockKeeps ==
    ASSUME FilesTyped, InOrder, FilesSane, AllUsed, CountExact, NextBlock
    PROVE  /\ InOrder' /\ FilesSane' /\ AllUsed' /\ CountExact' /\ Steady /\ NoneNew
           /\ Shrinking => Shrinking'
           /\ \A f \in live : Held(f)' = Held(f)
<1> PICK f, b : f = op.file /\ b = IF Growing THEN op.block + 1 ELSE op.block - 1
  OBVIOUS
<1>1. /\ op \in Resizing /\ op.todo = {} /\ ~LoopDone
      /\ op' = [op EXCEPT !.block = b, !.todo = Levels(b)] /\ op' \in Resizing
      /\ table' = table /\ live' = live /\ inode' = inode /\ failed' = failed
      /\ bits' = bits /\ nfree' = nfree
  BY StepGoesOn DEF FilesTyped, NextBlock, alloc
<1>2. /\ op # NoOp /\ op.block \in Int /\ op.target \in Nat /\ op.target <= MaxBlocks
      /\ inode[f].n \in Nat
  BY <1>1, OpFields
<1>3. /\ f \in live /\ op.ino.n = inode[f].n
      /\ op.delete => op.target = 0
      /\ Growing => Agree(op.ino, inode[f], inode[f].n)
      /\ \/ inode[f].n < op.target /\ op.block \in inode[f].n .. (op.target - 1)
         \/ inode[f].n > op.target /\ op.block \in op.target .. (inode[f].n - 1)
  BY <1>1, <1>2 DEF InOrder, LoopDone
<1>4. /\ op'.file = f /\ op'.block = b /\ op'.target = op.target /\ op'.ino = op.ino
      /\ op'.todo = Levels(b) /\ op'.delete = op.delete /\ op' # NoOp
  BY <1>1, MarkerAssumption DEF Resizing
<1>5. \/ /\ Growing /\ ~Shrinking /\ Growing' /\ ~Shrinking' /\ b = op.block + 1
         /\ inode[f].n < op.target /\ b \in inode[f].n .. (op.target - 1)
      \/ /\ ~Growing /\ Shrinking /\ ~Growing' /\ Shrinking' /\ b = op.block - 1
         /\ inode[f].n > op.target /\ b \in op.target .. (inode[f].n - 1)
  BY <1>1, <1>2, <1>3, <1>4 DEF Growing, Shrinking, LoopDone
<1>6. \A g \in live : Ino(g)' = Ino(g)
  BY <1>1, <1>2, <1>4 DEF Ino
<1>7. \A g \in live : g # f => Held(g)' = Held(g)
  BY <1>1, <1>4 DEF Held
<1>8. Held(f)' = Held(f)
  <2>1. ASSUME NEW c \in Cell PROVE c \in Held(f)' <=> c \in Held(f)
    <3>1. c[1] \in Nat /\ c[2] \in Levels(c[1])
      BY CellIsBlock
    <3>2. c \in Held(f) <=> \/ c[1] < op.block
                            \/ c[1] = op.block /\ (c[2] \in op.todo <=> Shrinking)
      BY <1>2 DEF Held
    <3>3. c \in Held(f)' <=> \/ c[1] < b
                             \/ c[1] = b /\ (c[2] \in Levels(b) <=> Shrinking')
      BY <1>4 DEF Held
    <3>4. CASE Growing
      BY <1>1, <1>2, <1>5, <3>1, <3>2, <3>3, <3>4
    <3>5. CASE ~Growing
      BY <1>1, <1>2, <1>5, <3>1, <3>2, <3>3, <3>5
    <3> QED
      BY <3>4, <3>5
  <2>2. Held(f) \subseteq Cell /\ Held(f)' \subseteq Cell
    BY DEF Held
  <2> QED
    BY <2>1, <2>2
<1>9. FilesSane' /\ AllUsed' /\ Steady /\ NoneNew
  BY <1>1, <1>6, <1>7, <1>8, SameFiles, SameUsed
<1>10. InOrder'
  BY <1>1, <1>3, <1>4, <1>5 DEF InOrder, Before
<1>11. CountExact'
  BY <1>1 DEF CountExact, Intact
<1> QED
  BY <1>5, <1>7, <1>8, <1>9, <1>10, <1>11

(* Files that are left with fewer cells, and inodes that have kept them,   *)
(* when the code is through with an operation.                             *)
LEMMA Leaves ==
    ASSUME FilesTyped, FilesTyped', Alloc!TypeOK, FilesSane, op' = NoOp, bits' = bits,
           live' \subseteq live, table' = Settle(live', inode'),
           \A g \in live' : \A c \in Cell :
              c[1] < inode'[g].n => /\ c \in Held(g)
                                    /\ Same(table, Ino(g), table, inode'[g], c)
    PROVE  /\ FilesSane' /\ Steady /\ NoneNew
           /\ \A g \in live' : \A c \in Held(g)' :
                At(table', Ino(g)', c) = At(table, Ino(g), c)
           /\ \A b \in DataBlock \ bits : table'[b] = Blank
<1>1. \A g \in live' : Ino(g)' = inode'[g] /\ Held(g)' = {c \in Cell : c[1] < inode'[g].n}
  BY DEF Ino, Held
<1>2. \A g \in live' : Inos'[g] = inode'[g] /\ Helds'[g] = {c \in Cell : c[1] < inode'[g].n}
  BY <1>1, FileOf
<1>3. KeptCells(table, live, Inos, Helds, table, bits, live', Inos', Helds')
  <2> SUFFICES ASSUME NEW g \in live', NEW c \in Helds'[g]
               PROVE  /\ g \in live /\ c \in Helds[g]
                      /\ Inner(c) => \E d \in Helds'[g] : Leads(d, c)
                      /\ Same(table, Inos[g], table, Inos'[g], c)
                      /\ At(table, Inos[g], c) \in bits
    BY DEF KeptCells
  <2>1. c \in Cell /\ c[1] < inode'[g].n /\ g \in live
    BY <1>2
  <2>2. c \in Held(g) /\ Same(table, Ino(g), table, inode'[g], c)
    BY <2>1
  <2>3. Inner(c) => \E d \in Helds'[g] : Leads(d, c)
    <3> SUFFICES ASSUME Inner(c) PROVE \E d \in Helds'[g] : Leads(d, c)
      OBVIOUS
    <3>1. PICK d \in Cell : Leads(d, c) /\ d[1] <= c[1]
      BY <2>1, CellHasParent
    <3> PICK n \in Nat : n = inode'[g].n
      BY BoundAssumption DEF FilesTyped, Inode
    <3>2. d[1] \in Nat /\ c[1] \in Nat
      BY <2>1, CellIsBlock
    <3>3. d[1] < n
      BY <2>1, <3>1, <3>2
    <3> QED
      BY <1>2, <3>1, <3>3
  <2> QED
    BY <1>2, <2>1, <2>2, <2>3, FileOf, HeldCell
<1>4. /\ Sane(table, bits, live', Inos', Helds')
      /\ \A g \in live' : \A c \in Helds'[g] : At(table, Inos'[g], c) = At(table, Inos[g], c)
  BY <1>3, Kept DEF FilesSane
<1>5. /\ Sane(Settle(live', inode'), bits, live', Inos', Helds')
      /\ \A g \in live' : \A c \in Helds'[g] :
           At(Settle(live', inode'), Inos'[g], c) = At(table, Inos'[g], c)
  <2>1. \A g \in live' : \A c \in Helds'[g] : c[1] < Inos'[g].n
    BY <1>2
  <2>2. \A g \in live' : inode'[g] = Inos'[g]
    BY <1>2
  <2> QED
    BY <1>4, <2>1, <2>2, BitsAreIds, Settled
<1>6. ASSUME NEW b \in DataBlock \ bits PROVE table'[b] = Blank
  <2>1. ASSUME NEW i \in Entry, NEW g \in live', <<b, i>> \in Slots(inode'[g])
        PROVE  FALSE
    <3> PICK ino : ino = inode'[g]
      OBVIOUS
    <3> PICK c \in Cells(ino) :
              <<b, i>> \in IF Path(c[1])[1] = 0 \/ c[2] = 0 THEN {}
                           ELSE Holder(ino, Path(c[1]), c[2]) \X {Path(c[1])[c[2] + 1]}
      BY <2>1 DEF Slots
    <3>0. /\ Path(c[1])[1] # 0 /\ c[2] # 0
          /\ b \in Holder(inode'[g], Path(c[1]), c[2])
      OBVIOUS
    <3>1. c \in Helds'[g] /\ c \in Cell /\ Inos'[g] = inode'[g]
      BY <1>2, CellsAre
    <3>2. Inner(c)
      BY <3>0, <3>1, CellIsBlock, CellFacts DEF Inner
    <3>3. Holder(Inos'[g], Path(c[1]), c[2]) = {Stored(table, Inos'[g], Path(c[1]), c[2] - 1)}
      BY <1>4, <3>1, <3>2, BitsAreIds, OwnedIs
    <3>4. PICK d \in Helds'[g] : Leads(d, c)
      BY <1>4, <3>1, <3>2, SaneCell
    <3>5. d \in Cell /\ At(table, Inos'[g], d) \in bits
      BY <1>4, SaneCell
    <3>6. b = At(table, Inos'[g], d)
      BY <3>0, <3>1, <3>2, <3>3, <3>4, <3>5, LedTo
    <3> QED
      BY <3>5, <3>6
  <2>2. \A i \in Entry : ~(<<b, i>> \in UNION {Slots(inode'[g]) : g \in live'})
    BY <2>1
  <2> QED
    BY <2>2 DEF Settle, Blank
<1> QED
  BY <1>2, <1>4, <1>5, <1>6, FileOf DEF FilesSane, Steady, NoneNew

(* Of a file that does not shrink, the inode on disk has what is held.     *)
LEMMA OnDisk ==
    ASSUME FilesTyped, InOrder, NEW f \in live, ~(f = op.file /\ Shrinking),
           NEW c \in Cell, c[1] < inode[f].n
    PROVE  c \in Held(f) /\ Same(table, Ino(f), table, inode[f], c)
<1>1. CASE op = NoOp \/ op.file # f
  BY <1>1, Idle DEF Same
<1>2. CASE op # NoOp /\ op.file = f
  <2>1. /\ op \in Resizing /\ op.block \in Int /\ op.target \in Nat /\ inode[f].n \in Nat
    BY <1>2, OpFields DEF FilesTyped
  <2>2. Growing /\ ~Shrinking
    BY <1>2, <2>1 DEF Growing, Shrinking
  <2>3. /\ Agree(op.ino, inode[f], inode[f].n) /\ inode[f].n <= op.block + 1
        /\ inode[f].n = op.block + 1 => op.todo = {}
    BY <1>2, <2>1, <2>2 DEF InOrder, Growing
  <2>4. c[1] \in Nat /\ Ino(f) = op.ino
    BY <1>2, CellIsBlock, Busy
  <2>5. c \in Held(f)
    BY <1>2, <2>1, <2>2, <2>3, <2>4, Busy
  <2>6. c[2] = 0 => op.ino.top[Path(c[1])[1]] = inode[f].top[Path(c[1])[1]]
    <3>1. c[2] = 0 => Path(c[1])[1] \in 1 .. 3 /\ Start(Path(c[1])[1]) = c[1]
      BY CellFacts
    <3> QED
      BY <2>3, <3>1 DEF Agree
  <2>7. Path(c[1])[1] = 0 =>
          op.ino.direct[Path(c[1])[2]] = inode[f].direct[Path(c[1])[2]]
    <3>1. Path(c[1])[1] = 0 => /\ Path(c[1])[2] \in 0 .. (NDirect - 1)
                               /\ Path(c[1])[2] = c[1]
      BY CellFacts
    <3> QED
      BY <2>3, <3>1 DEF Agree
  <2> QED
    BY <2>4, <2>5, <2>6, <2>7 DEF Same
<1> QED
  BY <1>1, <1>2

(* A resize that grows the file gives up: the inode on disk has what it    *)
(* had.                                                                    *)
LEMMA FailKeeps ==
    ASSUME FilesTyped, FilesTyped', Alloc!TypeOK, InOrder, FilesSane, CountExact,
           Intact', Fail, UNCHANGED alloc
    PROVE  /\ InOrder' /\ FilesSane' /\ AllUsed' /\ CountExact' /\ Steady /\ NoneNew
           /\ \A b \in DataBlock \ bits' : table'[b] = Blank
<1> PICK f : f = op.file
  OBVIOUS
<1>1. /\ op' = NoOp /\ table' = Settle(live', inode') /\ live' = live
      /\ inode' = inode /\ bits' = bits /\ nfree' = nfree
      /\ Growing /\ failed' = failed \cup {"grow"}
  BY DEF Fail, Intact, alloc
<1>2. /\ op \in Resizing /\ op # NoOp /\ op.block \in Int /\ op.target \in Nat
      /\ inode[f].n \in Nat
  BY <1>1, OpFields DEF FilesTyped, Growing
<1>3. ~Shrinking
  BY <1>1, <1>2 DEF Shrinking, Growing
<1>4. FilesSane' /\ Steady /\ NoneNew /\ \A b \in DataBlock \ bits' : table'[b] = Blank
  <2>1. \A g \in live, c \in Cell : c[1] < inode[g].n =>
          c \in Held(g) /\ Same(table, Ino(g), table, inode[g], c)
    BY <1>3, OnDisk
  <2> QED
    BY <1>1, <2>1, Leaves
<1>5. InOrder' /\ AllUsed' /\ CountExact'
  <2>1. CountExact'
    BY <1>1 DEF CountExact, Intact
  <2>2. InOrder' /\ AllUsed'
    BY <1>1 DEF InOrder, AllUsed
  <2> QED
    BY <2>1, <2>2
<1> QED
  BY <1>4, <1>5

(* A resize completes, and delete_inode frees the inode.                   *)
LEMMA FinishKeeps ==
    ASSUME FilesTyped, FilesTyped', Alloc!TypeOK, InOrder, FilesSane, AllUsed, CountExact,
           Finish
    PROVE  /\ InOrder' /\ FilesSane' /\ AllUsed' /\ CountExact' /\ Steady /\ NoneNew
           /\ \A b \in DataBlock \ bits' : table'[b] = Blank
<1> PICK f, ino, n : f = op.file /\ ino = WrittenBack /\ n = op.target
  OBVIOUS
<1>1. /\ op \in Resizing /\ op # NoOp /\ op.todo = {} /\ LoopDone
      /\ op' = NoOp /\ live' = LiveAfter /\ table' = Settle(live', inode')
      /\ inode' = [inode EXCEPT ![f] = Trim(ino)] /\ bits' = bits /\ nfree' = nfree
      /\ failed' = failed
  BY DEF FilesTyped, Finish, alloc
<1>2. /\ op.block \in Int /\ n \in Nat /\ inode[f].n \in Nat /\ f \in File
      /\ op.ino \in Inode /\ n <= MaxBlocks
  BY <1>1, OpFields
<1>3. ino \in Inode /\ ino.n = n /\ ino.top = op.ino.top /\ ino.direct = op.ino.direct
  BY <1>2, BoundAssumption DEF WrittenBack, Inode
<1>4. f \in live /\ op.ino.n = inode[f].n /\ (op.delete => n = 0)
  BY <1>1 DEF InOrder
<1>5. \/ Shrinking /\ op.block = n
      \/ ~Shrinking /\ op.block = n - 1
  BY <1>1, <1>2, <1>4 DEF InOrder, LoopDone, Shrinking
<1>6. \A c \in Cell : c \in Held(f) <=> c[1] < n
  <2> TAKE c \in Cell
  <2>1. c[1] \in Nat
    BY CellIsBlock
  <2>2. c \in Held(f) <=> \/ c[1] < op.block
                          \/ c[1] = op.block /\ (c[2] \in op.todo <=> Shrinking)
    BY <1>1 DEF Held
  <2> QED
    BY <1>1, <1>2, <1>5, <2>1, <2>2
<1>7. live' \subseteq live /\ (\A g \in live : g # f => g \in live')
  BY <1>1 DEF LiveAfter
<1>8. inode'[f] = Trim(ino) /\ inode'[f].n = n /\ \A g \in live : g # f => inode'[g] = inode[g]
  BY <1>1, <1>2, <1>3, <1>4 DEF FilesTyped, Trim
<1>9. ASSUME NEW g \in live', NEW c \in Cell, c[1] < inode'[g].n
      PROVE  c \in Held(g) /\ Same(table, Ino(g), table, inode'[g], c)
  <2>1. CASE g # f
    BY <1>1, <1>7, <1>8, <1>9, <2>1, Idle DEF Same
  <2>2. CASE g = f
    <3>1. c \in Held(f) /\ Ino(f) = op.ino
      BY <1>1, <1>6, <1>8, <1>9, <2>2, Busy
    <3>2. c[1] < ino.n
      BY <1>3, <1>8, <1>9, <2>2
    <3> QED
      BY <1>3, <1>8, <2>2, <3>1, <3>2, Trimmed DEF Same
  <2> QED
    BY <2>1, <2>2
<1>10. /\ FilesSane' /\ Steady /\ NoneNew /\ \A b \in DataBlock \ bits' : table'[b] = Blank
       /\ \A g \in live' : \A c \in Held(g)' :
            At(table', Ino(g)', c) = At(table, Ino(g), c)
  BY <1>1, <1>7, <1>9, Leaves
<1>11. AllUsed'
  <2> SUFFICES ASSUME failed \subseteq {"write"}, NEW x \in bits
               PROVE  \E g \in live' : \E d \in Held(g)' : At(table', Ino(g)', d) = x
    BY <1>1 DEF AllUsed
  <2> PICK g \in live : \E d \in Held(g) : At(table, Ino(g), d) = x
    BY DEF AllUsed
  <2>1. PICK d \in Held(g) : At(table, Ino(g), d) = x
    OBVIOUS
  <2>2. d \in Cell /\ d[1] \in Nat
    BY CellIsBlock DEF Held
  <2>3. g \in live' /\ d \in Held(g)'
    <3>1. CASE g # f
      BY <1>1, <1>7, <1>8, <2>1, <2>2, <3>1 DEF Held
    <3>2. CASE g = f
      <4>1. d[1] < n
        BY <1>6, <2>1, <2>2, <3>2
      <4>2. f \in live'
        BY <1>1, <1>2, <1>4, <2>2, <4>1 DEF LiveAfter
      <4> QED
        BY <1>1, <1>8, <2>2, <3>2, <4>1, <4>2 DEF Held
    <3> QED
      BY <3>1, <3>2
  <2> QED
    BY <1>10, <2>1, <2>3
<1>12. InOrder' /\ CountExact'
  BY <1>1 DEF InOrder, CountExact, Intact
<1> QED
  BY <1>10, <1>11, <1>12

(* inode_file_write hits a block of the file's own data, which holds no    *)
(* pointer of any file.                                                    *)
LEMMA WriteKeeps ==
    ASSUME FilesTyped, Alloc!TypeOK, FilesSane, AllUsed, CountExact, Intact',
           NEW f \in File, NEW b \in Overwritten, Write(f, b)
    PROVE  InOrder' /\ FilesSane' /\ AllUsed' /\ CountExact' /\ Steady /\ NoneNew
<1> PICK c : c = <<b, Leaf(Path(b))>>
  OBVIOUS
<1>1. /\ op = NoOp /\ op' = NoOp /\ f \in live /\ live' = live /\ inode' = inode
      /\ b < inode[f].n /\ bits' = bits /\ nfree' = nfree /\ failed \subseteq failed'
  BY DEF Write, InFile, alloc
<1>2. ASSUME ~Gap(b)
      PROVE  c \in Cell /\ c \in Held(f) /\ c[1] = b /\ c[2] = Leaf(Path(b))
  <2>1. b \in Nat /\ Leaf(Path(b)) \in Levels(b) /\ Leaf(Path(b)) \in 0 .. 3
    BY <1>2, BoundAssumption, LevelsTyped DEF Gap
  <2>2. inode[f].n \in Nat /\ inode[f].n <= MaxBlocks
    BY BoundAssumption DEF FilesTyped, Inode
  <2>3. b < MaxBlocks
    BY <1>1, <2>1, <2>2, BoundAssumption
  <2>4. c \in Cell
    BY <2>1, <2>3, BoundAssumption DEF Cell
  <2> QED
    BY <1>1, <2>4, Idle
<1>3. \A g \in live : Ino(g)' = Ino(g) /\ Held(g)' = Held(g)
  BY <1>1 DEF Ino, Held
<1>4. ASSUME ~Gap(b) PROVE BlockId(inode[f], b) = {At(table, Ino(f), c)}
  <2>1. Inos[f] = inode[f] /\ Ino(f) = inode[f] /\ c \in Helds[f] /\ Wild \notin bits
    BY <1>1, <1>2, <1>4, FileOf, Idle, BitsAreIds
  <2>2. Target(Inos[f], Path(c[1]), c[2]) = {At(table, Inos[f], c)}
    BY <1>1, <2>1, OwnedIs DEF FilesSane
  <2> QED
    BY <1>2, <1>4, <2>1, <2>2 DEF BlockId
<1>5. CASE table' = table
  <2>1. FilesSane' /\ AllUsed' /\ Steady /\ NoneNew
    BY <1>1, <1>3, <1>5, SameFiles, SameUsed
  <2> QED
    BY <1>1, <2>1 DEF InOrder, CountExact, Intact
<1>6. ASSUME ~Gap(b), NEW id \in BlockId(inode[f], b), id \in DataBlock,
             table' = [table EXCEPT ![id] = Blank]
      PROVE  InOrder' /\ FilesSane' /\ AllUsed' /\ CountExact' /\ Steady /\ NoneNew
  <2>0. id = At(table, Ino(f), c) /\ c \in Held(f)
    BY <1>2, <1>4, <1>6
  <2>1. ASSUME NEW g \in live, NEW x \in Held(g), Inner(x),
               NEW h, h = Stored(table, Ino(g), Path(x[1]), x[2] - 1)
        PROVE  h \in DataBlock /\ h # id
    <3>1. h \in DataBlock
      BY <2>1, SaneCell, FileOf DEF FilesSane
    <3>2. PICK y \in Held(g) : Leads(y, x)
      BY <2>1, HeldCell
    <3>3. x \in Cell /\ y \in Cell
      BY HeldCell
    <3>4. h = At(table, Ino(g), y) /\ y[2] # Leaf(Path(y[1]))
      BY <2>1, <3>2, <3>3, LedTo, LeafLeadsNowhere
    <3>5. y # c
      BY <1>2, <1>6, <3>4
    <3> QED
      BY <1>1, <2>0, <3>1, <3>2, <3>4, <3>5, HeldApart
  <2>2. ASSUME NEW g \in live, NEW x \in Held(g)
        PROVE  Same(table, Ino(g), table', Ino(g)', x)
    <3>1. ASSUME Inner(x), NEW h, h = Stored(table, Ino(g), Path(x[1]), x[2] - 1),
                 NEW e, e = Path(x[1])[x[2] + 1]
          PROVE  table'[h][e] = table[h][e]
      <4>1. h \in DataBlock /\ h # id
        BY <2>1, <3>1
      <4> QED
        BY <1>6, <4>1 DEF FilesTyped
    <3> QED
      BY <1>3, <3>1 DEF Same
  <2>3. \A g \in live' : \A x \in Held(g)' :
              /\ g \in live /\ x \in Held(g)
              /\ Inner(x) => \E d \in Held(g)' : Leads(d, x)
              /\ Same(table, Ino(g), table', Ino(g)', x)
              /\ At(table, Ino(g), x) \in bits'
    BY <1>1, <1>3, <2>2, HeldCell
  <2>4. /\ FilesSane' /\ Steady /\ NoneNew
        /\ \A g \in live' : \A x \in Held(g)' :
             At(table', Ino(g)', x) = At(table, Ino(g), x)
    BY <2>3, KeptFiles
  <2>5. AllUsed'
    <3> SUFFICES ASSUME failed \subseteq {"write"}, NEW x \in bits
                 PROVE  \E g \in live : \E d \in Held(g)' : At(table', Ino(g)', d) = x
      BY <1>1 DEF AllUsed
    <3> PICK g \in live : \E d \in Held(g) : At(table, Ino(g), d) = x
      BY DEF AllUsed
    <3> PICK d \in Held(g) : At(table, Ino(g), d) = x
      OBVIOUS
    <3>1. d \in Held(g)' /\ g \in live'
      BY <1>1, <1>3
    <3> QED
      BY <2>4, <3>1
  <2> QED
    BY <1>1, <2>4, <2>5 DEF InOrder, CountExact, Intact
<1>7. Gap(b) => table' = table
  BY DEF Write, Intact
<1> QED
  BY <1>5, <1>6, <1>7 DEF Write

(* inode_file_write of no bytes: only one that fails is covered.           *)
LEMMA EmptyWriteKeeps ==
    ASSUME FilesTyped, FilesSane, AllUsed, CountExact, Intact',
           NEW f \in File, NEW b \in Overwritten, EmptyWrite(f, b)
    PROVE  InOrder' /\ FilesSane' /\ AllUsed' /\ CountExact' /\ Steady /\ NoneNew
<1>1. /\ op = NoOp /\ op' = NoOp /\ live' = live /\ inode' = inode
      /\ bits' = bits /\ nfree' = nfree /\ table' = table /\ failed \subseteq failed'
  BY DEF EmptyWrite, Intact, alloc
<1>2. \A g \in live : Ino(g)' = Ino(g) /\ Held(g)' = Held(g)
  BY <1>1 DEF Ino, Held
<1>3. FilesSane' /\ AllUsed' /\ Steady /\ NoneNew
  BY <1>1, <1>2, SameFiles, SameUsed
<1> QED
  BY <1>1, <1>3 DEF InOrder, CountExact, Intact

LEMMA StutterKeeps ==
    ASSUME InOrder, FilesSane, AllUsed, CountExact, UNCHANGED vars
    PROVE  InOrder' /\ FilesSane' /\ AllUsed' /\ CountExact' /\ Steady /\ NoneNew
<1>1. \A g \in live : Ino(g)' = Ino(g) /\ Held(g)' = Held(g)
  BY DEF vars, Ino, Held, Shrinking
<1>2. FilesSane' /\ AllUsed' /\ Steady /\ NoneNew
  BY <1>1, SameFiles, SameUsed DEF vars
<1>3. InOrder' /\ CountExact'
  BY DEF vars, InOrder, CountExact, Intact, Growing, Shrinking
<1> QED
  BY <1>2, <1>3

-----------------------------------------------------------------------------
(* The pointers that no resize sets.                                       *)
(* The pointer that the first block of a region would need is the first of *)
(* its block.                                                              *)
LEMMA HollowSlot ==
    ASSUME NEW d \in Cell, Hollow(d)
    PROVE  /\ d[2] \in 0 .. 2 /\ d[2] = Path(d[1])[1] - 1 /\ Path(d[1])[1] \in 1 .. 3
           /\ Path(d[1])[d[2] + 2] = 0 /\ 0 \in Entry
<1>1. Path(d[1])[1] \in 0 .. 3 /\ d[2] \in 0 .. 3
  BY CellFacts, CellIsBlock
<1>2. Path(d[1])[1] # 0
  BY CellFacts DEF Hollow, Leaf
<1>3. d[2] = Path(d[1])[1] - 1
  BY <1>2 DEF Hollow, Leaf
<1>4. d[2] + 2 \in 1 .. 4 /\ d[2] + 2 > d[2] + 1
  BY <1>1, <1>2, <1>3
<1>5. Path(d[1])[d[2] + 2] = 0
  BY <1>4, CellFacts
<1> QED
  BY <1>1, <1>2, <1>3, <1>5, EntryIsNat

(* No file sets it.                                                        *)
LEMMA HollowApart ==
    ASSUME NEW x \in Cell, Hollow(x), NEW c \in Cell, Inner(c), Leads(x, c)
    PROVE  Path(c[1])[c[2] + 1] # Path(x[1])[x[2] + 2]
<1> SUFFICES ASSUME Path(c[1])[c[2] + 1] = Path(x[1])[x[2] + 2] PROVE FALSE
  OBVIOUS
<1>1. /\ x[2] \in 0 .. 2 /\ c[2] = x[2] + 1 /\ c[2] = Path(x[1])[1]
      /\ \A i \in 1 .. c[2] : Path(x[1])[i] = Path(c[1])[i]
  <2>1. x[2] \in 0 .. 2 /\ x[2] = Path(x[1])[1] - 1 /\ Path(x[1])[1] \in 1 .. 3
    BY HollowSlot
  <2>2. x[2] = c[2] - 1 /\ c[2] \in 0 .. 3 /\ \A i \in 1 .. c[2] : Path(x[1])[i] = Path(c[1])[i]
    BY CellIsBlock DEF Leads
  <2> QED
    BY <2>1, <2>2
<1>2. \A i \in 1 .. 4 : Path(x[1])[i] = Path(c[1])[i]
  <2> TAKE i \in 1 .. 4
  <2>1. CASE i <= c[2]
    BY <1>1, <2>1
  <2>2. CASE i = c[2] + 1
    BY <1>1, <2>2
  <2>3. CASE i > c[2] + 1
    <3>1. i > x[2] + 1
      BY <1>1, <2>3
    <3> QED
      BY <2>3, <3>1, CellFacts
  <2> QED
    BY <1>1, <2>1, <2>2, <2>3
<1>3. x[1] = c[1]
  BY <1>2, CellIsBlock, PathsDiffer
<1>4. c[2] \in Levels(c[1]) /\ Leaf(Path(x[1])) \notin Levels(x[1])
  BY CellIsBlock DEF Hollow, Gap
<1> QED
  BY <1>1, <1>3, <1>4 DEF Leaf

(* A step that gives files no more cells, and sets no pointer.             *)
LEMMA GapsKept ==
    ASSUME FilesSane, GapsWild, Steady, NoneNew,
           \A b \in DataBlock, e \in Entry : table[b][e] = Wild => table'[b][e] = Wild,
           Shrinking' \/ \A b \in DataBlock \ bits' : table'[b] = Blank
    PROVE  FreeBlank' /\ GapsWild'
<1>1. FreeBlank'
  BY DEF FreeBlank
<1>2. GapsWild'
  <2> SUFFICES ASSUME NEW f \in live', NEW d \in Held(f)', Hollow(d),
                      NEW b, b = At(table', Ino(f)', d), b \in DataBlock
               PROVE  table'[b][Path(d[1])[d[2] + 2]] = Wild
    BY DEF GapsWild
  <2>1. f \in live /\ d \in Held(f) /\ b = At(table, Ino(f), d)
    BY DEF NoneNew, Steady
  <2>2. table[b][Path(d[1])[d[2] + 2]] = Wild
    BY <2>1 DEF GapsWild
  <2>3. Path(d[1])[d[2] + 2] \in Entry
    BY <2>1, HeldCell, HollowSlot
  <2> QED
    BY <2>2, <2>3
<1> QED
  BY <1>1, <1>2

(* A resize is over.                                                       *)
LEMMA GapsLeft ==
    ASSUME FilesSane, GapsWild, Steady, NoneNew, table' = Settle(live', inode'),
           \A b \in DataBlock \ bits' : table'[b] = Blank
    PROVE  FreeBlank' /\ GapsWild'
<1>1. \A b \in DataBlock, e \in Entry : table[b][e] = Wild => table'[b][e] = Wild
  BY DEF Settle
<1> QED
  BY <1>1, GapsKept

(* inode_file_write.                                                       *)
LEMMA GapsWritten ==
    ASSUME FilesTyped, FilesSane, FreeBlank, GapsWild, Steady, NoneNew,
           NEW f \in File, NEW b \in Overwritten, Write(f, b)
    PROVE  FreeBlank' /\ GapsWild'
<1>1. /\ \A h \in DataBlock : table'[h] = table[h] \/ table'[h] = Blank
      /\ op = NoOp /\ bits' = bits
  <2>1. op = NoOp /\ bits' = bits
    BY DEF Write, alloc
  <2>2. CASE table' = table
    BY <2>1, <2>2
  <2>3. ASSUME NEW id \in DataBlock, table' = [table EXCEPT ![id] = Blank]
        PROVE  \A h \in DataBlock : table'[h] = table[h] \/ table'[h] = Blank
    BY <2>3 DEF FilesTyped
  <2> QED
    BY <2>1, <2>2, <2>3 DEF Write
<1>2. \A h \in DataBlock, e \in Entry : table[h][e] = Wild => table'[h][e] = Wild
  BY <1>1 DEF Blank
<1>3. \A h \in DataBlock \ bits' : table'[h] = Blank
  BY <1>1 DEF FreeBlank, Shrinking
<1> QED
  BY <1>2, <1>3, GapsKept

(* The block that is allocated had no pointers in it.                      *)
LEMMA GapsGrown ==
    ASSUME FilesTyped, FilesTyped', Alloc!TypeOK, InOrder, FilesSane, AllUsed, CountExact,
           FreeBlank, GapsWild, NEW id \in Alloc!Id, GrowOne(id)
    PROVE  FreeBlank' /\ GapsWild'
<1> PICK f, c, p, h : /\ f = op.file /\ c = <<op.block, Min(op.todo)>> /\ p = Path(c[1])
                      /\ h = Stored(table, Inos[f], p, c[2] - 1)
  OBVIOUS
<1>1. /\ c \in Cell /\ f \in live
      /\ Inner(c) => \E d \in Held(f) : Leads(d, c)
      /\ Puts(table, live, Inos, f, c, id, table', Inos')
      /\ Held(f)' = Held(f) \cup {c}
      /\ \A g \in live : g # f => Held(g)' = Held(g)
  BY GrowOnePuts
<1>2. Steady /\ At(table', Ino(f)', c) = id
  BY <1>1, GrowOneKeeps
<1>3. bits' = bits \cup {id} /\ id \notin bits /\ live' = live /\ ~Shrinking
  <2>1. op.block \in Int /\ op.target \in Nat
    BY OpFields DEF FilesTyped, GrowOne, Growing
  <2> QED
    BY <2>1 DEF GrowOne, Growing, Shrinking, Alloc!Allocate, Alloc!FirstZero, Alloc!Zeros
<1>4. Inner(c) => \E y \in Held(f) : Leads(y, c) /\ h = At(table, Ino(f), y) /\ h \in bits
  <2> SUFFICES ASSUME Inner(c)
               PROVE  \E y \in Held(f) : Leads(y, c) /\ h = At(table, Ino(f), y) /\ h \in bits
    OBVIOUS
  <2> PICK y \in Held(f) : Leads(y, c)
    BY <1>1
  <2>1. y \in Cell /\ At(table, Ino(f), y) \in bits
    BY <1>1, HeldCell
  <2> QED
    BY <1>1, <2>1, LedTo, FileOf
<1>5. \A b \in DataBlock, e \in Entry :
        table'[b][e] = table[b][e] \/ (Inner(c) /\ b = h /\ e = p[c[2] + 1])
  <2>1. c[2] = 0 \/ p[1] = 0 \/ Inner(c)
    BY <1>1, CellIsBlock, CellFacts DEF Inner
  <2> QED
    BY <1>1, <2>1 DEF Puts
<1>6. ASSUME NEW b \in DataBlock, b \notin bits PROVE table'[b] = Blank
  <2>1. \A e \in Entry : table'[b][e] = Wild
    BY <1>3, <1>4, <1>5, <1>6 DEF FreeBlank, Blank
  <2>2. table'[b] \in [Entry -> Pointer]
    BY DEF FilesTyped
  <2> QED
    BY <2>1, <2>2 DEF Blank
<1>7. FreeBlank'
  BY <1>3, <1>6 DEF FreeBlank
<1>8. ASSUME NEW g \in live, NEW x \in Held(g)', Hollow(x),
             NEW b, b = At(table', Ino(g)', x), b \in DataBlock
      PROVE  table'[b][Path(x[1])[x[2] + 2]] = Wild
  <2>1. CASE g = f /\ x = c
    <3>1. Path(x[1])[x[2] + 2] \in Entry /\ table'[b] = Blank
      BY <1>1, <1>2, <1>3, <1>6, <1>8, <2>1, HollowSlot
    <3> QED
      BY <3>1 DEF Blank
  <2>2. CASE ~(g = f /\ x = c)
    <3>1. x \in Held(g)
      BY <1>1, <2>2
    <3>2. b = At(table, Ino(g), x) /\ x \in Cell
      BY <1>2, <1>3, <1>8, <3>1, HeldCell DEF Steady
    <3>3. table[b][Path(x[1])[x[2] + 2]] = Wild /\ Path(x[1])[x[2] + 2] \in Entry
      BY <1>8, <3>1, <3>2, HollowSlot DEF GapsWild
    <3>4. ASSUME Inner(c), b = h PROVE Path(x[1])[x[2] + 2] # p[c[2] + 1]
      <4> PICK y \in Held(f) : Leads(y, c) /\ h = At(table, Ino(f), y)
        BY <1>4, <3>4
      <4>1. x = y
        BY <1>1, <3>1, <3>2, <3>4, HeldApart
      <4> QED
        BY <1>1, <1>8, <3>2, <3>4, <4>1, HollowApart
    <3> QED
      BY <1>5, <1>8, <3>3, <3>4
  <2> QED
    BY <2>1, <2>2
<1>9. GapsWild'
  BY <1>3, <1>8 DEF GapsWild
<1> QED
  BY <1>7, <1>9

-----------------------------------------------------------------------------
(* All together.                                                           *)
LEMMA InitPointers == Init => PointersInv
<1> SUFFICES ASSUME Init
             PROVE  /\ InOrder /\ FilesSane /\ AllUsed /\ CountExact
                    /\ FreeBlank /\ GapsWild
  BY DEF PointersInv
<1>1. Cardinality(bits) = 0
  BY FS_EmptySet DEF Init
<1>2. Limit \in Nat
  BY DiskAssumption
<1>3. FreeBlank
  BY DEF Init, FreeBlank
<1>4. FilesSane /\ GapsWild
  BY DEF Init, FilesSane, Sane, GapsWild
<1>5. AllUsed
  BY DEF Init, AllUsed
<1> QED
  BY <1>1, <1>2, <1>3, <1>4, <1>5 DEF Init, InOrder, CountExact

(* What each step keeps.                                                   *)
LEMMA StepPointers ==
    ASSUME TypeOK, TypeOK', PointersInv, Intact', [Next]_vars
    PROVE  /\ Intact
           /\ InOrder' /\ FilesSane' /\ AllUsed' /\ CountExact'
           /\ FreeBlank' /\ GapsWild' /\ Steady
<1> DEFINE Keeps == /\ InOrder' /\ FilesSane' /\ AllUsed' /\ CountExact'
                    /\ FreeBlank' /\ GapsWild' /\ Steady
<1>1. /\ FilesTyped /\ Alloc!TypeOK /\ FilesTyped' /\ Alloc!TypeOK'
  BY TypeParts, PTL
<1>2. Intact
  <2>1. failed \subseteq failed'
    BY DEF Next, vars, Create, Resize, GrowOne, GrowFull, ShrinkOne, Refused, SpuriousError,
           Fail, NextBlock, Finish, Write, EmptyWrite
  <2> QED
    BY <2>1 DEF Intact
<1> SUFFICES Keeps
  BY <1>2
<1>3. InOrder /\ FilesSane /\ AllUsed /\ CountExact /\ FreeBlank /\ GapsWild
  BY <1>2 DEF PointersInv
<1> HIDE DEF PointersInv, TypeOK
<1>4. ASSUME NEW f \in File, Create(f) PROVE Keeps
  <2>1. InOrder' /\ FilesSane' /\ AllUsed' /\ CountExact' /\ Steady /\ NoneNew
    BY <1>1, <1>3, <1>4, CreateKeeps
  <2>2. table' = table /\ bits' = bits /\ ~Shrinking
    BY <1>4 DEF Create, Shrinking, alloc
  <2> QED
    BY <1>3, <2>1, <2>2, GapsKept DEF FreeBlank
<1>5. ASSUME NEW f \in File, NEW n \in 0 .. MaxBlocks, NEW delete \in BOOLEAN,
             Resize(f, n, delete)
      PROVE  Keeps
  <2>1. InOrder' /\ FilesSane' /\ AllUsed' /\ CountExact' /\ Steady /\ NoneNew
    BY <1>1, <1>3, <1>5, ResizeKeeps
  <2>2. table' = table /\ bits' = bits /\ ~Shrinking
    BY <1>5 DEF Resize, Shrinking, alloc
  <2> QED
    BY <1>3, <2>1, <2>2, GapsKept DEF FreeBlank
<1>6. ASSUME NEW id \in Alloc!Id, GrowOne(id) PROVE Keeps
  <2>1. InOrder' /\ FilesSane' /\ AllUsed' /\ CountExact' /\ Steady
    BY <1>1, <1>3, <1>6, GrowOneKeeps
  <2>2. FreeBlank' /\ GapsWild'
    BY <1>1, <1>3, <1>6, GapsGrown
  <2> QED
    BY <2>1, <2>2
<1>7. ASSUME NEW id \in DataBlock, ShrinkOne(id) PROVE Keeps
  <2>1. InOrder' /\ FilesSane' /\ AllUsed' /\ CountExact' /\ Steady /\ NoneNew
    BY <1>1, <1>2, <1>3, <1>7, ShrinkOneKeeps
  <2>2. table' = table /\ Shrinking'
    BY <1>1, <1>7, ShrinkOneGoesOn
  <2> QED
    BY <1>3, <2>1, <2>2, GapsKept
<1>8. ASSUME GrowFull \/ Refused \/ SpuriousError PROVE Keeps
  <2>1. Fail /\ UNCHANGED alloc
    BY <1>8 DEF GrowFull, Refused, SpuriousError
  <2>2. /\ InOrder' /\ FilesSane' /\ AllUsed' /\ CountExact' /\ Steady /\ NoneNew
        /\ \A b \in DataBlock \ bits' : table'[b] = Blank
    BY <1>1, <1>3, <2>1, FailKeeps
  <2>3. table' = Settle(live', inode')
    BY <2>1 DEF Fail
  <2> QED
    BY <1>3, <2>2, <2>3, GapsLeft
<1>9. ASSUME NextBlock PROVE Keeps
  <2>1. /\ InOrder' /\ FilesSane' /\ AllUsed' /\ CountExact' /\ Steady /\ NoneNew
        /\ Shrinking => Shrinking'
    BY <1>1, <1>3, <1>9, NextBlockKeeps
  <2>2. table' = table /\ bits' = bits
    BY <1>9 DEF NextBlock, alloc
  <2> QED
    BY <1>3, <2>1, <2>2, GapsKept DEF FreeBlank
<1>10. ASSUME Finish PROVE Keeps
  <2>1. /\ InOrder' /\ FilesSane' /\ AllUsed' /\ CountExact' /\ Steady /\ NoneNew
        /\ \A b \in DataBlock \ bits' : table'[b] = Blank
    BY <1>1, <1>3, <1>10, FinishKeeps
  <2>2. table' = Settle(live', inode')
    BY <1>10 DEF Finish
  <2> QED
    BY <1>3, <2>1, <2>2, GapsLeft
<1>11. ASSUME NEW f \in File, NEW b \in Overwritten, Write(f, b) PROVE Keeps
  <2>1. InOrder' /\ FilesSane' /\ AllUsed' /\ CountExact' /\ Steady /\ NoneNew
    BY <1>1, <1>3, <1>11, WriteKeeps
  <2> QED
    BY <1>1, <1>3, <1>11, <2>1, GapsWritten
<1>12. ASSUME NEW f \in File, NEW b \in Overwritten, EmptyWrite(f, b) PROVE Keeps
  <2>1. InOrder' /\ FilesSane' /\ AllUsed' /\ CountExact' /\ Steady /\ NoneNew
    BY <1>1, <1>3, <1>12, EmptyWriteKeeps
  <2>2. table' = table /\ bits' = bits /\ ~Shrinking
    BY <1>12 DEF EmptyWrite, Intact, Shrinking, alloc
  <2> QED
    BY <1>3, <2>1, <2>2, GapsKept DEF FreeBlank
<1>13. CASE UNCHANGED vars
  <2>1. InOrder' /\ FilesSane' /\ AllUsed' /\ CountExact' /\ Steady /\ NoneNew
    BY <1>3, <1>13, StutterKeeps
  <2>2. table' = table /\ bits' = bits /\ (Shrinking => Shrinking')
    BY <1>13 DEF vars, Shrinking
  <2>3. \A b \in DataBlock, e \in Entry : table[b][e] = Wild => table'[b][e] = Wild
    BY <2>2
  <2>4. Shrinking' \/ \A b \in DataBlock \ bits' : table'[b] = Blank
    BY <1>3, <2>2 DEF FreeBlank
  <2>5. FreeBlank' /\ GapsWild'
    BY <1>3, <2>1, <2>3, <2>4, GapsKept
  <2> QED
    BY <2>1, <2>5
<1> HIDE DEF Keeps
<1>14. ASSUME NEW f \in File, NEW b \in Overwritten, Write(f, b) \/ EmptyWrite(f, b)
       PROVE  Keeps
  BY <1>11, <1>12, <1>14
<1> QED
  BY <1>4, <1>5, <1>6, <1>7, <1>8, <1>9, <1>10, <1>13, <1>14 DEF Next

LEMMA NextPointers ==
    ASSUME TypeOK, TypeOK', PointersInv, [Next]_vars
    PROVE  PointersInv'
BY StepPointers DEF PointersInv

(* Why the theorems below hold: in the middle of a resize too, each file   *)
(* holds pointers of its own, in the order in which the loops of           *)
(* inodes.c:inode_file_resize go through them.                             *)
THEOREM PointersKept == Spec => []PointersInv
BY InodeTypeCorrect, InitPointers, NextPointers, PTL DEF Spec

(* Between operations.                                                     *)
LEMMA WhenIdle ==
    ASSUME TypeOK, PointersInv, op = NoOp, Intact
    PROVE  /\ \A f \in live : Cells(inode[f]) = Held(f)
           /\ \A f \in live : \A c \in Held(f) :
                /\ Owned(inode[f], c) = {At(table, inode[f], c)}
                /\ At(table, inode[f], c) \in bits
           /\ \A f, g \in live : \A c \in Held(f), d \in Held(g) :
                At(table, inode[f], c) = At(table, inode[g], d) => f = g /\ c = d
           /\ AllUsed /\ \A f \in live : Ino(f) = inode[f]
<1>1. FilesSane /\ AllUsed /\ Wild \notin bits
  BY TypeParts, BitsAreIds DEF PointersInv
<1>2. \A f \in live : Ino(f) = inode[f] /\ Cells(inode[f]) = Held(f)
  BY Idle, CellsAre
<1>3. ASSUME NEW f \in live, NEW c \in Held(f)
      PROVE  Owned(inode[f], c) = {At(table, inode[f], c)}
  BY <1>1, <1>2, FileOf, OwnedIs DEF FilesSane, Owned
<1> QED
  BY <1>1, <1>2, <1>3, HeldCell, HeldApart

(* Between operations no block serves two files, or two places of one file *)
(* (inodes.c:inode_file_resize, blocks.c:allocate_block).                  *)
THEOREM PointersLeadApart == Spec => []BlocksExclusive
<1>1. TypeOK /\ PointersInv => BlocksExclusive
  <2> SUFFICES ASSUME TypeOK, PointersInv, op = NoOp, Intact
               PROVE  /\ \A f \in live : \A c \in Cells(inode[f]) :
                           \E id \in bits : Owned(inode[f], c) = {id}
                      /\ \A f, g \in live :
                           \A c \in Cells(inode[f]), d \in Cells(inode[g]) :
                             <<f, c>> # <<g, d>> => Owned(inode[f], c) # Owned(inode[g], d)
    BY DEF BlocksExclusive
  <2>1. ASSUME NEW f \in live, NEW c \in Cells(inode[f])
        PROVE  \E id \in bits : Owned(inode[f], c) = {id}
    BY WhenIdle
  <2>2. ASSUME NEW f \in live, NEW g \in live, NEW c \in Cells(inode[f]),
               NEW d \in Cells(inode[g]), Owned(inode[f], c) = Owned(inode[g], d)
        PROVE  f = g /\ c = d
    <3>1. c \in Held(f) /\ d \in Held(g)
      BY WhenIdle
    <3>2. At(table, inode[f], c) = At(table, inode[g], d)
      BY <2>2, <3>1, WhenIdle
    <3> QED
      BY <3>1, <3>2, WhenIdle
  <2> QED
    BY <2>1, <2>2
<1> QED
  BY <1>1, InodeTypeCorrect, PointersKept, PTL

(* Every resize counts the blocks it takes and gives back, and frees none  *)
(* twice (blocks.c:allocate_block, deallocate_block).                      *)
THEOREM FreeCountExact == Spec => []CountExact
<1>1. PointersInv => CountExact
  BY DEF PointersInv, CountExact
<1> QED
  BY <1>1, PointersKept, PTL

(* Unless a resize failed, every allocated block is some file's: shrinking *)
(* and deleting give back all that growing took                            *)
(* (inodes.c:inode_file_resize, delete_inode).                             *)
THEOREM NothingLeaks == Spec => []NoLeak
<1>1. TypeOK /\ PointersInv => NoLeak
  <2> SUFFICES ASSUME TypeOK, PointersInv, op = NoOp, failed \subseteq {"write"}
               PROVE  bits = UNION {OwnedBlocks(inode[f]) : f \in live}
    BY DEF NoLeak
  <2>1. Intact
    BY DEF Intact
  <2>2. ASSUME NEW x \in bits PROVE x \in UNION {OwnedBlocks(inode[f]) : f \in live}
    <3> PICK f \in live : \E c \in Held(f) : At(table, Ino(f), c) = x
      BY <2>1, WhenIdle DEF AllUsed
    <3> PICK c \in Held(f) : At(table, inode[f], c) = x
      BY <2>1, WhenIdle
    <3>1. c \in Cells(inode[f]) /\ Owned(inode[f], c) = {x}
      BY <2>1, WhenIdle
    <3>2. x \in OwnedBlocks(inode[f])
      BY <3>1 DEF OwnedBlocks
    <3> QED
      BY <3>2
  <2>3. ASSUME NEW x \in UNION {OwnedBlocks(inode[f]) : f \in live} PROVE x \in bits
    <3> PICK f \in live : x \in OwnedBlocks(inode[f])
      BY <2>3
    <3> PICK c \in Cells(inode[f]) : x \in Owned(inode[f], c)
      BY DEF OwnedBlocks
    <3> QED
      BY <2>1, WhenIdle
  <2> QED
    BY <2>2, <2>3
<1> QED
  BY <1>1, InodeTypeCorrect, PointersKept, PTL

-----------------------------------------------------------------------------
(* The map of a file.                                                      *)
(* The first block of a region has the pointer above it.                   *)
LEMMA GapFacts ==
    ASSUME NEW b \in Nat, b < MaxBlocks, Gap(b)
    PROVE  /\ <<b, Leaf(Path(b)) - 1>> \in Cell
           /\ Leaf(Path(b)) \in 2 .. 3 /\ Leaf(Path(b)) = Path(b)[1]
<1>1. Leaf(Path(b)) \in 2 .. 3 /\ Leaf(Path(b)) = Path(b)[1] /\ Leaf(Path(b)) - 1 \in Levels(b)
  <2>1. 0 \in Entry /\ IB_N_ENTRIES \in Nat
    BY EntryIsNat
  <2>2. b = DBLOCK_START \/ b = TBLOCK_START
    <3>1. <<b, Leaf(Path(b))>> \notin Cell
      BY DEF Cell, Gap
    <3> QED
      BY <3>1, LeafIsCell
  <2>3. CASE b = DBLOCK_START
    <3>1. b = DBLOCK_START + 0 * IB_N_ENTRIES + 0
      BY <2>1, <2>3, Shape
    <3>2. Path(b) = <<2, 0, 0, 0>> /\ Levels(b) = {0, 1}
      BY <2>1, <3>1, PathDouble, LevelsDouble
    <3> QED
      BY <3>2 DEF Leaf
  <2>4. CASE b = TBLOCK_START
    <3>1. b = TBLOCK_START + (0 * IB_N_ENTRIES + 0) * IB_N_ENTRIES + 0
      BY <2>1, <2>4, Shape
    <3>2. Path(b) = <<3, 0, 0, 0>> /\ Levels(b) = {0, 1, 2}
      BY <2>1, <3>1, PathTriple, LevelsTriple
    <3> QED
      BY <3>2 DEF Leaf
  <2> QED
    BY <2>2, <2>3, <2>4
<1> QED
  BY <1>1, BoundAssumption DEF Cell

(* What the code finds for a block of a file.                              *)
Spot(b) == <<b, IF Gap(b) THEN Leaf(Path(b)) - 1 ELSE Leaf(Path(b))>>

FoundBy(b, v) ==
    IF Gap(b) THEN IF v \in DataBlock THEN 0 .. Limit ELSE {Limit} ELSE {v}

(* visit_path_to_block_id, for a file that does not shrink.                *)
LEMMA BlockIdIs ==
    ASSUME FilesTyped, Alloc!TypeOK, InOrder, FilesSane, GapsWild,
           NEW f \in live, ~(f = op.file /\ Shrinking),
           NEW b \in 0 .. (inode[f].n - 1)
    PROVE  /\ Spot(b) \in Held(f)
           /\ BlockId(inode[f], b) = FoundBy(b, At(table, Ino(f), Spot(b)))
<1> PICK I, H, c, p, l : /\ I = [g \in {f} |-> inode[f]]
                         /\ H = [g \in {f} |-> {d \in Cell : d[1] < inode[f].n}]
                         /\ c = Spot(b) /\ p = Path(b) /\ l = Leaf(Path(b))
  OBVIOUS
<1>1. inode[f].n \in Nat /\ inode[f].n <= MaxBlocks /\ b \in Nat /\ b < inode[f].n
  BY BoundAssumption DEF FilesTyped, Inode
<1>2. b < MaxBlocks
  BY <1>1, BoundAssumption
<1>3. /\ Sane(table, bits, {f}, I, H)
      /\ \A d \in H[f] : At(table, I[f], d) = At(table, Ino(f), d)
  <2>1. ASSUME NEW d \in H[f]
        PROVE  /\ d \in Held(f) /\ Same(table, Ino(f), table, inode[f], d)
               /\ Inner(d) => \E y \in H[f] : Leads(y, d)
               /\ At(table, Ino(f), d) \in bits
    <3>1. d \in Cell /\ d[1] < inode[f].n
      OBVIOUS
    <3>2. d \in Held(f) /\ Same(table, Ino(f), table, inode[f], d)
      BY <3>1, OnDisk
    <3>3. ASSUME Inner(d) PROVE \E y \in H[f] : Leads(y, d)
      <4>1. PICK y \in Cell : Leads(y, d) /\ y[1] <= d[1]
        BY <3>1, <3>3, CellHasParent
      <4>2. y[1] \in Nat /\ d[1] \in Nat
        BY <3>1, CellIsBlock
      <4>3. y[1] < inode[f].n
        BY <1>1, <3>1, <4>1, <4>2
      <4> QED
        BY <4>1, <4>3
    <3> QED
      BY <3>2, <3>3, HeldCell
  <2>2. KeptCells(table, live, Inos, Helds, table, bits, {f}, I, H)
    <3> SUFFICES ASSUME NEW d \in H[f]
                 PROVE  /\ d \in Helds[f]
                        /\ Inner(d) => \E y \in H[f] : Leads(y, d)
                        /\ Same(table, Inos[f], table, I[f], d)
                        /\ At(table, Inos[f], d) \in bits
      BY DEF KeptCells
    <3>1. Inos[f] = Ino(f) /\ Helds[f] = Held(f) /\ I[f] = inode[f]
      BY FileOf
    <3> QED
      BY <2>1, <3>1
  <2>3. Inos[f] = Ino(f)
    BY FileOf
  <2> QED
    BY <2>2, <2>3, Kept DEF FilesSane
<1>4. Wild \notin bits /\ I[f] = inode[f]
  BY BitsAreIds
<1>5. ASSUME ~Gap(b) PROVE c \in Cell /\ c[1] = b /\ c[2] = l
  <2>1. l \in Levels(b) /\ l \in 0 .. 3
    BY <1>5, LevelsTyped DEF Gap
  <2> QED
    BY <1>1, <1>2, <1>5, <2>1, BoundAssumption DEF Cell, Spot
<1>6. ASSUME Gap(b) PROVE /\ c \in Cell /\ c[1] = b /\ c[2] = l - 1 /\ l \in 2 .. 3
                          /\ l = p[1] /\ Hollow(c)
  <2>1. c = <<b, l - 1>>
    BY <1>6 DEF Spot
  <2> QED
    BY <1>1, <1>2, <1>6, <2>1, GapFacts DEF Hollow
<1>7. c \in H[f] /\ c \in Held(f)
  BY <1>1, <1>5, <1>6, OnDisk
<1>8. CASE ~Gap(b)
  <2>1. Target(I[f], Path(c[1]), c[2]) = {At(table, I[f], c)}
    BY <1>3, <1>4, <1>7, OwnedIs
  <2> QED
    BY <1>3, <1>4, <1>5, <1>7, <1>8, <2>1 DEF BlockId, FoundBy
<1>9. CASE Gap(b)
  <2> PICK v : v = At(table, Ino(f), c)
    OBVIOUS
  <2>1. v = Stored(table, inode[f], p, l - 1) /\ v \in bits
    <3>1. At(table, I[f], c) = Stored(table, I[f], Path(c[1]), c[2])
      BY DEF At
    <3> QED
      BY <1>3, <1>4, <1>6, <1>7, <1>9, <3>1, HeldCell
  <2>2. Inner(c)
    BY <1>6, <1>9 DEF Inner
  <2>3. \A m \in 0 .. (c[2] - 1) : Stored(table, I[f], Path(c[1]), m) \in DataBlock
    BY <1>3, <1>7, <2>2, BlocksAbove
  <2>4. \A m \in 0 .. (l - 2) : Stored(table, inode[f], p, m) \in DataBlock
    BY <1>4, <1>6, <1>9, <2>3
  <2>5. Holder(inode[f], p, l) = {v}
    <3>1. l \in 1 .. 3 /\ p[1] # 0
      BY <1>6, <1>9
    <3>2. Stored(table, inode[f], p, l - 1) # Wild
      BY <1>4, <2>1
    <3> QED
      BY <2>1, <2>4, <3>1, <3>2, FoundHolder
  <2>6. BlockId(inode[f], b) = Read(v, p[l + 1])
    <3>1. BlockId(inode[f], b) = UNION {Read(h, p[l + 1]) : h \in {v}}
      BY <1>6, <1>9, <2>5 DEF BlockId, Target
    <3> QED
      BY <3>1
  <2>7. v \in DataBlock => table[v][p[l + 1]] = Wild
    <3>1. c[2] + 2 = l + 1 /\ Path(c[1]) = p
      BY <1>6, <1>9
    <3> QED
      BY <1>6, <1>7, <1>9, <3>1 DEF GapsWild
  <2> QED
    BY <1>7, <1>9, <2>6, <2>7 DEF FoundBy, Read, Follow
<1> QED
  BY <1>7, <1>8, <1>9

FileMaps ==
    \A f \in live : \A ino : ino = inode[f] /\ ~(f = op.file /\ Shrinking) =>
        \A b \in 0 .. (ino.n - 1) :
            /\ Spot(b) \in Held(f)
            /\ BlockId(ino, b) = FoundBy(b, At(table, Ino(f), Spot(b)))

LEMMA MapsFound ==
    TypeOK /\ InOrder /\ FilesSane /\ GapsWild => FileMaps
BY TypeParts, BlockIdIs DEF FileMaps

LEMMA SameBlockId ==
    ASSUME table' = table
    PROVE  \A ino, b : BlockId(ino, b)' = BlockId(ino, b)
<1>1. \A h, i : Read(h, i)' = Read(h, i)
  BY DEF Read
<1>2. \A ino, p, l : Holder(ino, p, l)' = Holder(ino, p, l)
  BY <1>1 DEF Holder
<1>3. \A ino, p, l : Target(ino, p, l)' = Target(ino, p, l)
  BY <1>1, <1>2 DEF Target
<1> QED
  BY <1>3 DEF BlockId

(* Only the end of a resize changes the inode of a file in use.            *)
LEMMA InodeStays ==
    ASSUME FilesTyped, [Next]_vars, NEW f \in live, ~(Finish /\ f = op.file)
    PROVE  inode'[f] = inode[f]
<1>1. ASSUME NEW g \in File, Create(g) PROVE inode'[f] = inode[f]
  BY <1>1 DEF Create, FilesTyped
<1>2. CASE Finish
  BY <1>2 DEF Finish, FilesTyped
<1>3. CASE inode' = inode
  BY <1>3
<1>4. inode' = inode \/ Finish \/ \E g \in File : Create(g)
  BY DEF Next, vars, Resize, GrowOne, GrowFull, ShrinkOne, Refused, SpuriousError,
         Fail, NextBlock, Write, EmptyWrite
<1> QED
  BY <1>1, <1>2, <1>3, <1>4

(* While a file shrinks, the pointers that are freed are not touched.      *)
LEMMA TableStays ==
    ASSUME FilesTyped, Alloc!TypeOK, InOrder, FilesSane, Intact', [Next]_vars,
           Shrinking \/ Shrinking', ~(Finish /\ Shrinking)
    PROVE  table' = table
<1>1. ASSUME NEW id \in Alloc!Id, GrowOne(id) PROVE FALSE
  <2>1. Growing /\ Growing' /\ op \in Resizing /\ op' \in Resizing
    BY <1>1, GrowOnePuts DEF GrowOne, Growing, FilesTyped
  <2>2. op.block \in Int /\ op.target \in Nat /\ op'.block \in Int /\ op'.target \in Nat
    BY <2>1, BoundAssumption DEF Resizing
  <2> QED
    BY <2>1, <2>2 DEF Growing, Shrinking
<1>2. ASSUME Fail PROVE FALSE
  <2>1. op' = NoOp /\ Shrinking
    BY <1>2 DEF Fail, Shrinking
  <2>2. op \in Resizing
    BY <2>1 DEF FilesTyped, Shrinking
  <2>3. ~Growing
    BY <2>1, <2>2, OpFields DEF Growing, Shrinking
  <2> QED
    BY <1>2, <2>3 DEF Fail, Intact
<1>3. ASSUME op = NoOp, op' = NoOp PROVE FALSE
  BY <1>3 DEF Shrinking
<1>4. Finish => op' = NoOp
  BY DEF Finish
<1>5. ~Finish
  BY <1>4 DEF Shrinking
<1>6. \/ table' = table \/ Fail \/ Finish \/ (\E id \in Alloc!Id : GrowOne(id))
      \/ (op = NoOp /\ op' = NoOp)
  BY DEF Next, vars, Create, Resize, GrowFull, ShrinkOne, Refused, SpuriousError,
         NextBlock, Write, EmptyWrite
<1> QED
  BY <1>1, <1>2, <1>3, <1>5, <1>6

(* Pointers that are held before and after a step lead to the same blocks. *)
LEMMA MapKept ==
    ASSUME TypeOK, TypeOK', PointersInv, Intact', [Next]_vars,
           NEW f \in live, f \in live', ~(Finish /\ f = op.file)
    PROVE  Map(inode[f])' = Map(inode[f])
<1>1. /\ FilesTyped /\ Alloc!TypeOK /\ FilesTyped' /\ Alloc!TypeOK'
  BY TypeParts, PTL
<1>2. /\ InOrder /\ FilesSane /\ GapsWild /\ InOrder' /\ FilesSane' /\ GapsWild'
      /\ Steady /\ Intact
  <2>1. Intact /\ InOrder' /\ FilesSane' /\ GapsWild' /\ Steady
    BY StepPointers
  <2> QED
    BY <2>1 DEF PointersInv
<1>7. FileMaps /\ FileMaps'
  BY <1>2, MapsFound, PTL
<1> HIDE DEF TypeOK, PointersInv
<1> PICK ino : ino = inode[f]
  OBVIOUS
<1>3. inode'[f] = ino
  BY <1>1, InodeStays
<1>4. ASSUME NEW b \in 0 .. (ino.n - 1) PROVE BlockId(ino, b)' = BlockId(ino, b)
  <2>1. CASE table' = table
    BY <2>1, SameBlockId
  <2>2. ASSUME ~(f = op.file /\ Shrinking), ~(f = op'.file /\ Shrinking')
        PROVE  BlockId(ino, b)' = BlockId(ino, b)
    <3>1. /\ Spot(b) \in Held(f)
          /\ BlockId(ino, b) = FoundBy(b, At(table, Ino(f), Spot(b)))
      BY <2>2, <1>7 DEF FileMaps
    <3>2. /\ Spot(b) \in Held(f)'
          /\ BlockId(ino, b)' = FoundBy(b, At(table', Ino(f)', Spot(b)))
      BY <1>3, <1>7, <2>2 DEF FileMaps
    <3>3. At(table', Ino(f)', Spot(b)) = At(table, Ino(f), Spot(b))
      BY <1>2, <3>1, <3>2 DEF Steady
    <3> QED
      BY <3>1, <3>2, <3>3
  <2>3. ASSUME (f = op.file /\ Shrinking) \/ (f = op'.file /\ Shrinking')
        PROVE  table' = table
    <3>1. ~(Finish /\ Shrinking)
      <4>1. Finish => ~Shrinking'
        BY DEF Finish, Shrinking
      <4> QED
        BY <2>3, <4>1
    <3> QED
      BY <1>1, <1>2, <2>3, <3>1, TableStays
  <2> QED
    BY <2>1, <2>2, <2>3
<1> QED
  BY <1>3, <1>4 DEF Map

(* Which block holds which part of a file changes only when a resize of    *)
(* that file completes (inodes.c:inode_file_resize).                       *)
THEOREM MapsChangeAtTheEnd == Spec => MapsStable
<1>1. ASSUME TypeOK, TypeOK', PointersInv, [Next]_vars, Intact', NEW f \in live \cap live',
             Map(inode[f])' # Map(inode[f])
      PROVE  Finish /\ f = op.file
  BY <1>1, MapKept
<1>2. TypeOK /\ TypeOK' /\ PointersInv /\ [Next]_vars =>
        [Intact' =>
           \A f \in live \cap live' :
             Map(inode[f])' # Map(inode[f]) => Finish /\ f = op.file]_vars
  BY <1>1
<1> QED
  BY <1>2, InodeTypeCorrect, PointersKept, PTL DEF Spec, MapsStable
=============================================================================
