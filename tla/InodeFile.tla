------------------------------ MODULE InodeFile ------------------------------
(***************************************************************************)
(* Inode files (src/fs/inodes.c): the map from the blocks of a file to     *)
(* data blocks through direct, single, double and triple indirect          *)
(* pointers, and the resize that grows and shrinks it with the allocator   *)
(* of BitmapAlloc.                                                         *)
(*                                                                         *)
(* response_mutex lets one operation run at a time, but a resize allocates *)
(* and frees one block after another and can fail between any two, so it   *)
(* is a step per block.  It works on its own copy of the inode (op.ino)    *)
(* and directly on the indirect blocks; the inode on disk changes at the   *)
(* end.                                                                    *)
(*                                                                         *)
(* A file's size is counted in blocks: what matters of `size` here is      *)
(* n_blocks.  A data block is seen as the table of pointers it would be if *)
(* it were read as one.  Wild stands for any bytes at all: what nobody     *)
(* wrote as a pointer, file data, and pointers that no file owns any more  *)
(* (Settle), which the code leaves as they are.                            *)
(***************************************************************************)
EXTENDS Integers, FiniteSets, FiniteSetsExt

CONSTANTS
    File,
    NDirect,       \* BLOCK_END: direct pointers in an inode
    IB_N_ENTRIES,  \* pointers in an indirect block
    BITS, NBB, Limit,
    MaxBlocks,     \* bound: the largest file asked for
    Overwritten,   \* bound: the blocks of a file that are overwritten
    StopAfter,     \* bound: kinds of failure after which no file is resized
    Unset,         \* locals read before they are set that hold bad values
    Wild, NoOp

ASSUME ShapeAssumption ==
    NDirect \in Nat \ {0, 1} /\ IB_N_ENTRIES \in Nat \ {0, 1}
ASSUME DiskAssumption ==
    /\ BITS \in Nat \ {0} /\ NBB \in Nat \ {0}
    /\ Limit \in Nat /\ Limit <= BITS * NBB
ASSUME UnsetAssumption == Unset \subseteq {"result", "block_id"}

VARIABLES
    bits, nfree, least, raised, \* the allocator
    table,  \* each data block, read as pointers
    live,   \* the inodes in use
    inode,  \* the inode table on disk
    op,     \* the resize in progress
    result, \* of the last operation
    failed  \* history: the kinds of operation that have failed, and "empty"
            \* or "gap" for a write that stored a block it had no place for

(* The allocator of a server that neither ends nor starts. *)
Saved == [formatted |-> TRUE, nfree |-> Limit]
Alloc == INSTANCE BitmapAlloc WITH
             saved <- Saved, diskBits <- bits, diskSaved <- Saved,
             phase <- "up", quiet <- TRUE, crashes <- 0, parted <- FALSE,
             MaxCrashes <- 0, Garbage <- 0

alloc == <<bits, nfree, least, raised>>
vars == <<bits, nfree, least, raised, table, live, inode, op, result, failed>>

DataBlock == 0 .. (Limit - 1)
Entry == 0 .. (IB_N_ENTRIES - 1)
Pointer == Alloc!Id \cup {Wild}
Inode == [n : 0 .. MaxBlocks, direct : [0 .. (NDirect - 1) -> Pointer],
          top : [1 .. 3 -> Pointer]]
Blank == [e \in Entry |-> Wild]

(* What a resize has in hand.                                              *)
Resizing == [file : File, ino : Inode, block : Int, target : 0 .. MaxBlocks,
             todo : SUBSET (0 .. 3), delete : BOOLEAN]

ASSUME MarkerAssumption == Wild \notin Int /\ NoOp \notin Resizing

-----------------------------------------------------------------------------
(* Visit paths: <<visit_type, entry_1, entry_2, entry_3>>. *)

SBLOCK_START == NDirect
DBLOCK_START == SBLOCK_START + IB_N_ENTRIES
TBLOCK_START == DBLOCK_START + IB_N_ENTRIES * IB_N_ENTRIES
TBLOCK_END == TBLOCK_START + IB_N_ENTRIES * (IB_N_ENTRIES * IB_N_ENTRIES)

(* Beyond the triple region a path has no entry to go by.                  *)
ASSUME BoundAssumption ==
    /\ MaxBlocks \in Nat /\ MaxBlocks <= TBLOCK_END
    /\ Overwritten \subseteq Nat

Path_Swapped(b) ==  \* mutant: quotient and remainder exchanged
    LET N == IB_N_ENTRIES IN
    CASE b < SBLOCK_START -> <<0, b, 0, 0>>
      [] b \in SBLOCK_START .. (DBLOCK_START - 1) ->
           <<1, b - SBLOCK_START, 0, 0>>
      [] OTHER ->
           <<2, (b - DBLOCK_START) % N, ((b - DBLOCK_START) \div N) % N, 0>>

Path(b) ==
    LET N == IB_N_ENTRIES IN
    CASE b < SBLOCK_START -> <<0, b, 0, 0>>
      [] b \in SBLOCK_START .. (DBLOCK_START - 1) ->
           <<1, b - SBLOCK_START, 0, 0>>
      [] b \in DBLOCK_START .. (TBLOCK_START - 1) ->
           <<2, (b - DBLOCK_START) \div N, (b - DBLOCK_START) % N, 0>>
      [] OTHER ->
           <<3, (b - TBLOCK_START) \div (N * N),
                ((b - TBLOCK_START) \div N) % N, (b - TBLOCK_START) % N>>

(* The levels at which the path of a block differs from the one before: 0  *)
(* the top pointer, 1 to 3 the entries.  They are the pointers a resize    *)
(* sets or frees.                                                          *)
Levels(b) == {i \in 0 .. 3 : Path(b)[i + 1] # Path(b - 1)[i + 1]}

(* The level that holds a file's own data. *)
Leaf(p) == IF p[1] = 0 THEN 1 ELSE p[1]

(* The first block of the double region and of the triple: a resize sets   *)
(* no pointer for its data.                                                *)
Gap(b) == Leaf(Path(b)) \notin Levels(b)

(* Following a pointer: an unset one leads anywhere, or (Limit) to an id   *)
(* that read_block refuses.                                                *)
Follow(ptr) == IF ptr = Wild THEN 0 .. Limit ELSE {ptr}
Read(b, i) == IF b \in DataBlock THEN Follow(table[b][i]) ELSE {Limit}

(* The indirect block that holds the pointer of a level. *)
Holder(ino, p, l) ==
    LET h1 == Follow(ino.top[p[1]])
        h2 == UNION {Read(b, p[2]) : b \in h1}
        h3 == UNION {Read(b, p[3]) : b \in h2}
    IN  CASE l = 1 -> h1 [] l = 2 -> h2 [] l = 3 -> h3

(* What the pointer of a level leads to. *)
Target(ino, p, l) ==
    CASE l = 0    -> Follow(ino.top[p[1]])
      [] l > 0 /\ p[1] = 0 -> Follow(ino.direct[p[2]])
      [] OTHER    -> UNION {Read(b, p[l + 1]) : b \in Holder(ino, p, l)}

(* visit_path_to_block_id *)
BlockId(ino, b) == Target(ino, Path(b), Leaf(Path(b)))

(* The pointers a file owns: one for each level at which the path of one   *)
(* of its blocks differs from the path before it.                          *)
Cells(ino) ==
    {c \in (0 .. (MaxBlocks - 1)) \X (0 .. 3) :
        c[1] < ino.n /\ c[2] \in Levels(c[1])}

Owned(ino, c) == Target(ino, Path(c[1]), c[2])

(* The entries of indirect blocks among them. *)
Slots(ino) ==
    UNION {LET p == Path(c[1]) IN
           IF p[1] = 0 \/ c[2] = 0 THEN {}
           ELSE Holder(ino, p, c[2]) \X {p[c[2] + 1]} : c \in Cells(ino)}

(* What still matters of an inode, and of the data blocks, when no         *)
(* operation is running.                                                   *)
Trim(ino) ==
    [n |-> ino.n,
     direct |-> [e \in 0 .. (NDirect - 1) |->
                   IF e < ino.n THEN ino.direct[e] ELSE Wild],
     top |-> [k \in 1 .. 3 |->
                IF \E c \in Cells(ino) : c[2] = 0 /\ Path(c[1])[1] = k
                THEN ino.top[k] ELSE Wild]]

Settle(used, inodes) ==
    LET kept == UNION {Slots(inodes[f]) : f \in used}
    IN  [b \in DataBlock |->
           [i \in Entry |-> IF <<b, i>> \in kept THEN table[b][i] ELSE Wild]]

-----------------------------------------------------------------------------
TypeOK ==
    /\ Alloc!TypeOK
    /\ table \in [DataBlock -> [Entry -> Pointer]]
    /\ live \subseteq File
    /\ inode \in [File -> Inode]
    /\ op = NoOp \/ op \in Resizing
    /\ result \in {"ok", "error"}
    /\ failed \subseteq {"grow", "shrink", "write", "empty", "gap"}

(* create_inode sets no pointer. *)
NewInode == [n |-> 0, direct |-> [e \in 0 .. (NDirect - 1) |-> Wild],
             top |-> [k \in 1 .. 3 |-> Wild]]

Init ==
    /\ bits = {} /\ nfree = Limit /\ least = 0 /\ raised = FALSE
    /\ table = [b \in DataBlock |-> Blank]
    /\ live = {}
    /\ inode = [f \in File |-> NewInode]
    /\ op = NoOp
    /\ result = "ok"
    /\ failed = {}

Create(f) ==
    /\ op = NoOp /\ f \notin live
    /\ live' = live \cup {f}
    /\ inode' = [inode EXCEPT ![f] = NewInode]
    /\ result' = "ok"
    /\ UNCHANGED <<alloc, table, op, failed>>

Growing == op # NoOp /\ op.block < op.target
Shrinking == op # NoOp /\ op.block >= op.target

First_OffByOne(cur, n) == cur  \* mutant

(* Growth starts at the first new block, shrinking at the last old one. *)
First(cur, n) == IF cur < n THEN cur ELSE cur - 1

(* inode_file_resize to n blocks; delete_inode resizes to none first. *)
Resize(f, n, delete) ==
    /\ op = NoOp /\ f \in live
    /\ delete => n = 0
    /\ n # inode[f].n => failed \cap StopAfter = {}
    /\ LET cur == inode[f].n
           first == First(cur, n)
       IN  op' = [file |-> f, ino |-> inode[f], block |-> first, target |-> n,
                  todo |-> IF cur = n THEN {}
                           ELSE Levels(first),
                  delete |-> delete]
    /\ UNCHANGED <<alloc, table, live, inode, result, failed>>

Fail ==
    /\ op' = NoOp
    /\ result' = "error"
    /\ failed' = failed \cup {IF Growing THEN "grow" ELSE "shrink"}
    /\ table' = Settle(live, inode)
    /\ UNCHANGED <<live, inode>>

(* One ALLOCATE_BLOCK_ID, or the top pointer, outermost level first.       *)
GrowOne(id) ==
    LET p == Path(op.block)
        l == Min(op.todo)
        done == [op EXCEPT !.todo = @ \ {l}]
    IN  /\ Growing /\ op.todo # {}
        /\ Alloc!Allocate(id)
        /\ CASE l = 0 -> /\ op' = [done EXCEPT !.ino.top[p[1]] = id]
                         /\ table' = table
             [] l > 0 /\ p[1] = 0 ->
                         /\ op' = [done EXCEPT !.ino.direct[p[2]] = id]
                         /\ table' = table
             [] OTHER -> /\ op' = done
                         /\ \E h \in Holder(op.ino, p, l) \cap DataBlock :
                              table' = [table EXCEPT ![h][p[l + 1]] = id]
        /\ UNCHANGED <<live, inode, result, failed>>

(* No block left, or none that the search can see. *)
GrowFull ==
    /\ Growing /\ op.todo # {}
    /\ nfree = 0 \/ ~\E id \in Alloc!Id : Alloc!FirstZero(id)
    /\ Fail
    /\ UNCHANGED alloc

(* One DEALLOCATE_BLOCK_ID, or the top pointer, innermost level first. *)
ShrinkOne(id) ==
    LET l == Max(op.todo)
    IN  /\ Shrinking /\ op.todo # {}
        /\ id \in Target(op.ino, Path(op.block), l)
        /\ Alloc!Deallocate(id)
        /\ op' = [op EXCEPT !.todo = @ \ {l}]
        /\ UNCHANGED <<table, live, inode, result, failed>>

(* The pointer, or the indirect block that holds it, does not exist.       *)
Refused ==
    /\ op # NoOp /\ op.todo # {}
    /\ LET p == Path(op.block) IN
       \/ /\ Growing
          /\ Min(op.todo) > 0 /\ p[1] > 0
          /\ \E h \in Holder(op.ino, p, Min(op.todo)) : h >= Limit
       \/ /\ Shrinking
          /\ \E id \in Target(op.ino, p, Max(op.todo)) : id >= Limit
    /\ Fail
    /\ UNCHANGED alloc

(* manipulate_entry_1_block_id tests `result`, which it never sets on a    *)
(* direct path, before it touches the entry.                               *)
SpuriousError ==
    /\ "result" \in Unset
    /\ op # NoOp /\ op.todo # {} /\ Path(op.block)[1] = 0
    /\ Fail
    /\ UNCHANGED alloc

LoopDone_Early ==  \* mutant
    \/ op.ino.n = op.target
    \/ op.ino.n < op.target /\ op.block + 1 = op.target
    \/ op.ino.n > op.target /\ op.block <= op.target + 1

(* The block in hand is the last to grow, or to shrink. *)
LoopDone ==
    \/ op.ino.n = op.target
    \/ op.ino.n < op.target /\ op.block + 1 = op.target
    \/ op.ino.n > op.target /\ op.block = op.target

NextBlock ==
    LET b == IF Growing THEN op.block + 1 ELSE op.block - 1
    IN  /\ op # NoOp /\ op.todo = {} /\ ~LoopDone
        /\ op' = [op EXCEPT !.block = b, !.todo = Levels(b)]
        /\ UNCHANGED <<alloc, table, live, inode, result, failed>>

WrittenBack_SizeOnly == [inode[op.file] EXCEPT !.n = op.target]  \* mutant
WrittenBack_OneMore == [op.ino EXCEPT !.n = op.target + 1]       \* mutant

(* The inode that a resize leaves: its own copy, with the new size. *)
WrittenBack == [op.ino EXCEPT !.n = op.target]

(* delete_inode frees the inode once its file is empty. *)
LiveAfter == IF op.delete THEN live \ {op.file} ELSE live

(* The loop is over: the inode is written, and freed if it is deleted. *)
Finish ==
    /\ op # NoOp /\ op.todo = {} /\ LoopDone
    /\ inode' = [inode EXCEPT ![op.file] = Trim(WrittenBack)]
    /\ live' = LiveAfter
    /\ table' = Settle(live', inode')
    /\ op' = NoOp
    /\ result' = "ok"
    /\ UNCHANGED <<alloc, failed>>

InFile_OffByOne(f, b) == b <= inode[f].n  \* mutant

(* inode_file_write does not look at the size: its callers in fs.c resize  *)
(* the file first.                                                         *)
InFile(f, b) == b < inode[f].n

(* inode_file_write to one block: its bytes are no longer pointers.        *)
Write(f, b) ==
    /\ op = NoOp /\ f \in live /\ InFile(f, b)
    /\ \E id \in BlockId(inode[f], b) :
         \/ /\ id \in DataBlock
            /\ table' = [table EXCEPT ![id] = Blank]
            /\ result' = "ok"
            /\ failed' = IF Gap(b) THEN failed \cup {"gap"} ELSE failed
         \/ /\ id \notin DataBlock
            /\ result' = "error"
            /\ failed' = failed \cup {"write"}
            /\ UNCHANGED table
    /\ UNCHANGED <<alloc, live, inode, op>>

(* inode_file_write of no bytes, at any place: the loop that sets block_id *)
(* never runs, and the block read at `start` is written to whatever        *)
(* block_id holds.                                                         *)
EmptyWrite(f, b) ==
    /\ "block_id" \in Unset
    /\ op = NoOp /\ f \in live
    /\ \E src \in BlockId(inode[f], b), dst \in 0 .. Limit :
         \/ /\ {src, dst} \subseteq DataBlock
            /\ table' = [table EXCEPT ![dst] = table[src]]
            /\ result' = "ok"
            /\ failed' = failed \cup {"empty"}
         \/ /\ ~({src, dst} \subseteq DataBlock)
            /\ result' = "error"
            /\ failed' = failed \cup {"write"}
            /\ UNCHANGED table
    /\ UNCHANGED <<alloc, live, inode, op>>

Next ==
    \/ \E f \in File : Create(f)
    \/ \E f \in File, n \in 0 .. MaxBlocks, delete \in BOOLEAN :
         Resize(f, n, delete)
    \/ \E id \in Alloc!Id : GrowOne(id)
    \/ \E id \in DataBlock : ShrinkOne(id)
    \/ GrowFull \/ Refused \/ SpuriousError \/ NextBlock \/ Finish
    \/ \E f \in File, b \in Overwritten : Write(f, b) \/ EmptyWrite(f, b)

Spec == Init /\ [][Next]_vars

-----------------------------------------------------------------------------
OwnedBlocks(ino) == UNION {Owned(ino, c) : c \in Cells(ino)}

(* No shrink has stopped half way, with blocks freed that the inode on     *)
(* disk still points to, and no write has hit some block or other.         *)
Intact == failed \subseteq {"grow", "write"}

(* Between operations each pointer of each file leads to one allocated     *)
(* block of its own: no block serves two files, or two places of one file, *)
(* whatever growth and overwrites failed before                            *)
(* (inodes.c:inode_file_resize).                                           *)
BlocksExclusive ==
    op = NoOp /\ Intact =>
        /\ \A f \in live : \A c \in Cells(inode[f]) :
             \E id \in bits : Owned(inode[f], c) = {id}
        /\ \A f, g \in live : \A c \in Cells(inode[f]), d \in Cells(inode[g]) :
             <<f, c>> # <<g, d>> => Owned(inode[f], c) # Owned(inode[g], d)

(* Unless a resize failed, or a write hit a block at random, every         *)
(* allocated block is in use: shrinking and deleting give back all that    *)
(* growing took, indirect blocks included.                                 *)
NoLeak ==
    op = NoOp /\ failed \subseteq {"write"} =>
        bits = UNION {OwnedBlocks(inode[f]) : f \in live}

(* The free count stays exact through every sequence of resizes, failed    *)
(* growth included: nothing is freed twice.                                *)
CountExact == Intact => nfree = Limit - Cardinality(bits)

Map(ino) == [b \in 0 .. (ino.n - 1) |-> BlockId(ino, b)]

(* Which block holds which part of a file changes only when a resize of    *)
(* that file completes: growth that fails, a resize of another file, or an *)
(* overwrite, leaves it alone, although resizes write the indirect blocks  *)
(* as they go.                                                             *)
MapsStable ==
    [][Intact' =>
         \A f \in live \cap live' :
           Map(inode[f])' # Map(inode[f]) => Finish /\ f = op.file]_vars

(* "Resizing: Allocates/deallocates data blocks directly or indirectly     *)
(* pointed to by the inode" (Report.md, section 4.5): every block of a     *)
(* file is some allocated data block.                                      *)
DataBlocksAllocated ==
    op = NoOp => \A f \in live : \A b \in 0 .. (inode[f].n - 1) :
                   \E id \in bits : BlockId(inode[f], b) = {id}

-----------------------------------------------------------------------------
(* Why, in the middle of a resize too.  A cell is a pointer of a file: a   *)
(* block and a level at which its path is new.                             *)
Cell == {c \in (0 .. (MaxBlocks - 1)) \X (0 .. 3) : c[2] \in Levels(c[1])}

(* What is stored in the pointer of a level, if the blocks above exist.    *)
Stored(t, ino, p, l) ==
    LET v0 == ino.top[p[1]]
        v1 == IF p[1] = 0 THEN ino.direct[p[2]] ELSE t[v0][p[2]]
        v2 == t[v1][p[3]]
    IN  CASE l = 0 -> v0 [] l = 1 -> v1 [] l = 2 -> v2 [] l = 3 -> t[v2][p[4]]

At(t, ino, c) == Stored(t, ino, Path(c[1]), c[2])

(* A pointer in an indirect block, and the pointer to that block.          *)
Inner(c) == c[2] > 0 /\ Path(c[1])[1] > 0

Leads(d, c) ==
    d[2] = c[2] - 1 /\ \A i \in 1 .. c[2] : Path(d[1])[i] = Path(c[1])[i]

(* Files L with inodes I hold the cells H: each in a block that exists and *)
(* that the file holds too, each with an allocated block of its own.       *)
Sane(t, used, L, I, H) ==
    /\ \A f \in L : \A c \in H[f] :
          /\ c \in Cell
          /\ Inner(c) => /\ \E d \in H[f] : Leads(d, c)
                         /\ Stored(t, I[f], Path(c[1]), c[2] - 1) \in DataBlock
          /\ At(t, I[f], c) \in used
    /\ \A f, g \in L : \A c \in H[f], d \in H[g] :
          At(t, I[f], c) = At(t, I[g], d) => f = g /\ c = d

Ino(f) == IF op # NoOp /\ op.file = f THEN op.ino ELSE inode[f]

Held(f) ==
    {c \in Cell :
        IF op # NoOp /\ op.file = f
        THEN \/ c[1] < op.block
             \/ c[1] = op.block /\ (c[2] \in op.todo <=> Shrinking)
        ELSE c[1] < inode[f].n}

Inos == [f \in live |-> Ino(f)]
Helds == [f \in live |-> Held(f)]

FilesSane == Sane(table, bits, live, Inos, Helds)

(* The pointers that a file of n blocks has in its inode are the same.     *)
Start(k) == IF k = 1 THEN SBLOCK_START ELSE
            IF k = 2 THEN DBLOCK_START ELSE TBLOCK_START

Agree(i, j, n) ==
    /\ \A e \in 0 .. (NDirect - 1) : e < n => i.direct[e] = j.direct[e]
    /\ \A k \in 1 .. 3 : Start(k) < n => i.top[k] = j.top[k]

Before(S, T) == \A l \in S, m \in T : l < m

(* A resize goes through the blocks in order, and through the levels of    *)
(* each: growth outermost first, shrinking innermost first.                *)
InOrder ==
    op # NoOp =>
        LET n == inode[op.file].n
            b == op.block
            levels == Levels(b)
        IN
        /\ op.file \in live /\ op.ino.n = n /\ op.todo \subseteq levels
        /\ op.delete => op.target = 0
        /\ \/ n < op.target /\ b \in n .. (op.target - 1)
           \/ n > op.target /\ b \in op.target .. (n - 1)
           \/ n = op.target /\ b = n - 1 /\ op.todo = {}
        /\ Growing => /\ Before(levels \ op.todo, op.todo)
                      /\ Agree(op.ino, inode[op.file], n)
        /\ Shrinking => Before(op.todo, levels \ op.todo)

AllUsed ==
    failed \subseteq {"write"} =>
        \A id \in bits : \E f \in live : \E c \in Held(f) :
                               At(table, Ino(f), c) = id

(* What nobody owns is read as no pointer, but while a shrink goes on.     *)
FreeBlank == ~Shrinking => \A b \in DataBlock \ bits : table[b] = Blank

(* The pointer that the first block of a region would need stays unset: it *)
(* is in the block that this cell leads to.                                *)
Hollow(d) == Gap(d[1]) /\ d[2] = Leaf(Path(d[1])) - 1

GapsWild ==
    \A f \in live : \A d \in Held(f) :
        LET b == At(table, Ino(f), d) IN
        Hollow(d) /\ b \in DataBlock => table[b][Path(d[1])[d[2] + 2]] = Wild

PointersInv ==
    Intact => /\ InOrder /\ FilesSane /\ AllUsed /\ CountExact
              /\ FreeBlank /\ GapsWild
=============================================================================
