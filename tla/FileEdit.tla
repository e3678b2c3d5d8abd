------------------------------ MODULE FileEdit ------------------------------
(***************************************************************************)
(* What w, i and d do to the bytes of one file: the kernels of             *)
(* src/fs/fs.c in terms of inode_file_resize, _read and _write.  A file    *)
(* that grows shows whatever its blocks held before (Stale).               *)
(*                                                                         *)
(* Each of the three can fail.  Growth that fails changes nothing; a write *)
(* that fails has stored some of its blocks; a truncation that fails has   *)
(* freed blocks that the file still uses.  And a write of no bytes stores  *)
(* one block over any other.  So a call has a set of outcomes.             *)
(*                                                                         *)
(* Files end before the double indirect region, whose first block is never *)
(* allocated (InodeFile, DataBlocksAllocated).                             *)
(***************************************************************************)
EXTENDS Integers

CONSTANTS
    Byte,
    Junk,         \* bytes that blocks are left with
    BLOCK_SIZE,
    NDIRECT,      \* BLOCK_END: direct pointers in an inode
    IB_N_ENTRIES, \* pointers in the single indirect block
    INT_MAX,      \* the largest int
    MaxSize       \* bound on the size of a file

ASSUME EditAssumption ==
    /\ MaxSize \in Nat /\ INT_MAX \in Nat /\ Junk \subseteq Byte
    /\ BLOCK_SIZE \in Nat \ {0} /\ NDIRECT \in Nat /\ IB_N_ENTRIES \in Nat
    /\ MaxSize < (NDIRECT + IB_N_ENTRIES) * BLOCK_SIZE

(* A file as its inode's size and the bytes below it; positions count from 0. *)
File == UNION {[size : {n}, byte : [0 .. n - 1 -> Byte]] : n \in 0 .. MaxSize}

Empty == [size |-> 0, byte |-> [i \in {} |-> 0]]

(* Bytes left in the blocks that a growing file gets. *)
Stale == [0 .. 2 * MaxSize -> Junk]

VARIABLES
    file,    \* the bytes of one file
    edit,    \* the call of a kernel
    outcome \* of the last kernel: "ok" or "error" as it returned, or "broken"
            \* if blocks or pointers of the file may now be another's

fileVars == <<file, edit, outcome>>

Idle == [op |-> "none"]

Edit == [op : {"w"}, data : File] \cup [op : {"i"}, pos : Nat, data : File]
            \cup [op : {"d"}, pos : Nat, len : Nat]

(* n_blocks of inode_file_resize.                                          *)
Blocks(size) == IF size = 0 THEN 0 ELSE size \div BLOCK_SIZE + 1

-----------------------------------------------------------------------------
(* Outcomes.  A file that breaks may have any bytes from then on, whatever *)
(* the call returns; the empty file stands for it.                         *)
Done(f) == [file |-> f, is |-> "ok"]
Fails(f) == [file |-> f, is |-> "error"]
Broken == [file |-> Empty, is |-> "broken"]

(* Go on with K after a call that succeeded (RET_ERR_IF).                  *)
Then(outcomes, K(_)) ==
    UNION {IF o.is = "ok" THEN K(o.file) ELSE {o} : o \in outcomes}

Resized(f, size, stale) ==
    [size |-> size,
     byte |-> [i \in 0 .. size - 1 |-> IF i < f.size THEN f.byte[i] ELSE stale[i]]]

(* inode_file_resize writes the inode last, so growth that fails leaves    *)
(* the file as it was.                                                     *)
Resize(f, size) ==
    {Done(Resized(f, size, stale)) : stale \in Stale}
        \cup {IF Blocks(size) < Blocks(f.size) THEN Broken ELSE Fails(f)}

(* What inode_file_read puts into the buffer.                              *)
Read(f, start, size) ==
    [size |-> size, byte |-> [i \in 0 .. size - 1 |-> f.byte[start + i]]]

(* The first n bytes of the buffer stored.                                 *)
Stored(f, buffer, start, n) ==
    [size |-> f.size,
     byte |-> [i \in 0 .. f.size - 1 |->
                 IF start <= i /\ i < start + n THEN buffer.byte[i - start]
                                                ELSE f.byte[i]]]

(* Block k overwritten with the block that was read at `start`.            *)
Pasted(f, start, k, stale) ==
    LET from == BLOCK_SIZE * (start \div BLOCK_SIZE)
        Copy(i) == IF from + i < f.size THEN f.byte[from + i] ELSE stale[i]
    IN [size |-> f.size,
        byte |-> [i \in 0 .. f.size - 1 |->
                    IF i \div BLOCK_SIZE = k THEN Copy(i % BLOCK_SIZE)
                                             ELSE f.byte[i]]]

(* The loop that sets block_id does not run, and write_block takes         *)
(* whatever it holds: no block, one of the file's, its indirect block, or  *)
(* one outside of the file.                                                *)
EmptyWrite(f, start) ==
    LET after == {f} \cup {Pasted(f, start, k, stale) :
                              k \in 0 .. (Blocks(f.size) - 1), stale \in Stale}
    IN {Done(g) : g \in after} \cup {Fails(g) : g \in after}
           \cup {o \in {Broken} : Blocks(f.size) > NDIRECT}

(* A write stores block after block, and then the inode.                   *)
Write(f, buffer, start) ==
    LET stops == {n \in 0 .. buffer.size :
                    n \in {0, buffer.size} \/ (start + n) % BLOCK_SIZE = 0}
    IN IF buffer.size = 0
       THEN EmptyWrite(f, start)
       ELSE {Done(Stored(f, buffer, start, buffer.size))}
                \cup {Fails(Stored(f, buffer, start, n)) : n \in stops}

-----------------------------------------------------------------------------
(* The kernels of fs.c.                                                    *)
Least(a, b) == IF a < b THEN a ELSE b

WriteFile_KeepsLonger(f, data) ==  \* mutant: never shrinks
    Then(Resize(f, IF f.size > data.size THEN f.size ELSE data.size),
         LAMBDA g : Write(g, data, 0))

WriteFile(f, data) ==
    Then(Resize(f, data.size), LAMBDA g : Write(g, data, 0))

(* With the file grown: the rest from pos on is read, the data and then    *)
(* the rest are written.  malloc and the read can fail.                    *)
Shift(g, pos, data, rest) ==
    {Fails(g)} \cup Then(Write(g, data, pos),
                         LAMBDA h : Write(h, rest, pos + data.size))

InsertData_ReadsLate(f, position, data) ==  \* mutant: the rest is read last
    LET pos == Least(position, f.size)
        Late(h) == Write(h, Read(h, pos, f.size - pos), pos + data.size)
    IN Then(Resize(f, f.size + data.size),
            LAMBDA g : Then(Write(g, data, pos), Late))

InsertData(f, position, data) ==
    LET pos == Least(position, f.size)
    IN Then(Resize(f, f.size + data.size),
            LAMBDA g : Shift(g, pos, data, Read(g, pos, f.size - pos)))

DeleteData_KeepsLen(f, pos, len) ==  \* mutant: end is cut to the size, len is not
    LET end == Least(pos + len, f.size)
        rest == Read(f, end, f.size - end)
    IN {Fails(f)} \cup Then(Write(f, rest, pos), LAMBDA g : Resize(g, f.size - len))

(* end is cut to the size and pos is not: beyond the end of the file the   *)
(* new size is greater than the old, and "deleting" makes the file longer. *)
DeleteData(f, pos, len) ==
    LET end == Least(pos + len, f.size)
        rest == Read(f, end, f.size - end)
    IN {Fails(f)} \cup Then(Write(f, rest, pos),
                            LAMBDA g : Resize(g, f.size - (end - pos)))

-----------------------------------------------------------------------------
FileInit ==
    file = Empty /\ edit = Idle /\ outcome = "ok"

(* The parsed command calls its kernel.  A file grows up to MaxSize here   *)
(* and is edited no more once it is broken.  Left out are numbers that do  *)
(* not fit into an int, and whose sum does not (fs.c:637): what the code   *)
(* computes for them is undefined.                                         *)
CallKernel(e) ==
    /\ edit = Idle /\ outcome # "broken"
    /\ e.op = "i" => e.pos <= INT_MAX /\ file.size + e.data.size <= MaxSize
    /\ e.op = "d" => e.pos + e.len <= INT_MAX /\ e.pos <= MaxSize
    /\ edit' = e
    /\ UNCHANGED <<file, outcome>>

Return(outcomes) ==
    /\ \E o \in outcomes : file' = o.file /\ outcome' = o.is
    /\ edit' = Idle

write_file_kernel == edit.op = "w" /\ Return(WriteFile(file, edit.data))

insert_file_kernel ==
    edit.op = "i" /\ Return(InsertData(file, edit.pos, edit.data))

delete_in_file_kernel ==
    edit.op = "d" /\ Return(DeleteData(file, edit.pos, edit.len))

Kernel == write_file_kernel \/ insert_file_kernel \/ delete_in_file_kernel

FileNext == Kernel \/ \E e \in Edit : CallKernel(e)

FileSpec == FileInit /\ [][FileNext]_fileVars

-----------------------------------------------------------------------------
(* What the kernels promise of the file f that they are given and of their *)
(* outcome o.                                                              *)

(* The file is the data.  After an error it is as it was, or has the new   *)
(* size and in each place the new byte or the old one.  Only a truncation  *)
(* can break it.                                                           *)
Replaced(f, data, o) ==
    /\ o.is = "broken" => Blocks(data.size) < Blocks(f.size)
    /\ o.is = "ok" => o.file = data
    /\ o.is = "error" =>
         \/ o.file = f
         \/ /\ o.file.size = data.size
            /\ \A i \in 0 .. data.size - 1 :
                 \/ o.file.byte[i] = data.byte[i]
                 \/ i < f.size => o.file.byte[i] = f.byte[i]

(* The data stand before the byte that was at the position, or at the end, *)
(* and every other byte is kept, but for one block when the data or the    *)
(* rest after them is empty, and two when both are.  An error keeps the    *)
(* bytes before the position, with the same exception.                     *)
Spliced(f, position, data, o) ==
    LET pos == Least(position, f.size)
        size == f.size + data.size
        nothing == data.size = 0
        atEnd == pos = f.size
        Expected(i) ==
            CASE i < pos -> f.byte[i]
              [] pos <= i /\ i < pos + data.size -> data.byte[i - pos]
              [] OTHER -> f.byte[i - data.size]
    IN /\ o.is = "broken" => (nothing \/ atEnd) /\ Blocks(size) > NDIRECT
       /\ o.is # "broken" =>
            \E k, l \in 0 .. Blocks(size) :
              LET Kept(i, byte) ==
                      \/ o.file.byte[i] = byte
                      \/ nothing /\ i \div BLOCK_SIZE = k
                      \/ atEnd /\ i \div BLOCK_SIZE = l
              IN /\ o.is = "ok" =>
                      /\ o.file.size = size
                      /\ \A i \in 0 .. size - 1 : Kept(i, Expected(i))
                 /\ o.is = "error" =>
                      /\ o.file.size \in {f.size, size}
                      /\ \A i \in 0 .. pos - 1 : Kept(i, f.byte[i])

(* The bytes from the position on are gone and every other byte is kept,   *)
(* but for one block when nothing follows what is deleted.  An error keeps *)
(* the size and the bytes before the position.  Of a position beyond the   *)
(* end it is only said that the bytes of the file are kept in this way.    *)
CutOut(f, pos, len, o) ==
    LET end == Least(pos + len, f.size)
        cut == end - pos
        atEnd == end = f.size
    IN /\ o.is = "broken" =>
            \/ Blocks(f.size - cut) < Blocks(f.size)
            \/ atEnd /\ Blocks(f.size) > NDIRECT
       /\ o.is # "broken" =>
            \E k \in 0 .. Blocks(f.size) :
              LET Kept(i, byte) ==
                      \/ o.file.byte[i] = byte
                      \/ atEnd /\ i \div BLOCK_SIZE = k
              IN /\ \A i \in 0 .. Least(pos, f.size) - 1 : Kept(i, f.byte[i])
                 /\ o.is = "ok" /\ pos <= f.size =>
                      /\ o.file.size = f.size - cut
                      /\ \A i \in pos .. f.size - cut - 1 : Kept(i, f.byte[i + cut])
                 /\ o.is = "error" => o.file.size = f.size

Outcome == [file |-> file, is |-> outcome]

(* w that succeeds leaves the data, whatever the file was and whatever its *)
(* new blocks held; w that fails leaves in each place a byte of the data   *)
(* or of the file (fs.c:write_file_kernel).                                *)
WriteReplaces == [][edit.op = "w" => Replaced(file, edit.data, Outcome')]_fileVars

(* i that succeeds puts the data before the byte at the position, or at    *)
(* the end, and loses no byte but for the block that a write of no bytes   *)
(* hits, at the end of the file or with no data                            *)
(* (fs.c:insert_file_kernel, inodes.c:447).                                *)
InsertSplices ==
    [][edit.op = "i" => Spliced(file, edit.pos, edit.data, Outcome')]_fileVars

(* d takes out the bytes from the position on, as far as the file goes,    *)
(* and loses no other but for the block that a write of no bytes hits when *)
(* it deletes up to the end (fs.c:delete_in_file_kernel, inodes.c:447).    *)
DeleteCuts ==
    [][edit.op = "d" => CutOut(file, edit.pos, edit.len, Outcome')]_fileVars
=============================================================================
