------------------------------ MODULE DiskServer ------------------------------
(***************************************************************************)
(* The basic disk server (src/disk/BDS.c) under a file server that reads   *)
(* and writes whole blocks: workers that copy bytes to and from the mapped *)
(* file, one at a time under diskfile_mutex, and starts, each with a shape *)
(* of its own, on the file that earlier ones left.                         *)
(*                                                                         *)
(* Where the arm is only makes a request wait, and is left out.  Disks     *)
(* with more bytes than an int can count are left out as well: requests    *)
(* then lead outside the mapped file.                                      *)
(***************************************************************************)
EXTENDS DiskGeometry

CONSTANTS Worker, Byte, Shape

ASSUME ServerAssumption == 0 \in Byte /\ Shape \subseteq Geometry

VARIABLES
    up,        \* the disk server runs
    shape,     \* n_cylinders and n_sectors
    diskfile,  \* the bytes of the file; where it has not grown to, they are 0
    mutex,     \* the value of diskfile_mutex
    call,      \* what each worker is doing
    stored,    \* history: what was last written to each block
    torn,      \* history: blocks that were being written when the server ended
    cut        \* history: blocks whose last byte a start has overwritten since

history == <<stored, torn, cut>>
vars == <<up, shape, diskfile, mutex, call, history>>

Block == 0 .. (MaxSide * MaxSide - 1)
Contents == [0 .. sector_size - 1 -> Byte]
Zeros == [i \in 0 .. sector_size - 1 |-> 0]

(* at: how many bytes are copied; a worker that waits has not begun.       *)
NoCall == [op |-> "none"]
Waiting == -1
Call == [op : {"R", "W"}, block : Block, data : Contents, at : Waiting .. sector_size]

TypeOK ==
    /\ up \in BOOLEAN /\ shape \in Shape
    /\ diskfile \in [0 .. MaxSide * MaxSide * sector_size - 1 -> Byte]
    /\ mutex \in 0 .. 1
    /\ call \in [Worker -> Call \cup {NoCall}]
    /\ stored \in [Block -> Contents]
    /\ torn \subseteq Block /\ cut \subseteq Block

Copying(w) == call[w].op # "none" /\ call[w].at # Waiting

Writing(b) ==
    \E w \in Worker : Copying(w) /\ call[w].op = "W" /\ call[w].block = b

-----------------------------------------------------------------------------
Init ==
    /\ up = FALSE /\ shape \in Shape
    /\ diskfile = [p \in 0 .. MaxSide * MaxSide * sector_size - 1 |-> 0]
    /\ mutex = 1
    /\ call = [w \in Worker |-> NoCall]
    /\ stored = [b \in Block |-> Zeros]
    /\ torn = {} /\ cut = {}

Stretched_TooFar(g) ==  \* mutant: one byte behind the end
    [diskfile EXCEPT ![FileSize(g)] = 0]

(* diskfile_init: the file is stretched by writing a byte at its end, also *)
(* if it is as long already.                                               *)
Stretched(g) == [diskfile EXCEPT ![FileSize(g) - 1] = 0]

Start(g) ==
    /\ ~up /\ Countable(g) /\ Starts(g)
    /\ up' = TRUE /\ shape' = g
    /\ diskfile' = Stretched(g)
    /\ cut' = cut \cup {NBlocks(g) - 1}
    /\ UNCHANGED <<mutex, call, stored, torn>>

(* The server is killed, or leaves its accept loop: what is copied stays.  *)
Stop ==
    /\ up
    /\ up' = FALSE /\ mutex' = 1
    /\ call' = [w \in Worker |-> NoCall]
    /\ torn' = torn \cup {b \in Block : Writing(b)}
    /\ UNCHANGED <<shape, diskfile, stored, cut>>

-----------------------------------------------------------------------------
(* A request that is refused changes nothing.                              *)
Ask(w, op, b, data) ==
    /\ up /\ call[w] = NoCall
    /\ b < NBlocks(shape)
    /\ op = "R" => Accepts(shape, Cylinder(shape, b), Sector(shape, b)) /\ data = Zeros
    /\ op = "W" => AcceptsWrite(shape, Cylinder(shape, b), Sector(shape, b), sector_size)
    /\ call' = [call EXCEPT ![w] = [op |-> op, block |-> b, data |-> data,
                                    at |-> Waiting]]
    /\ UNCHANGED <<up, shape, diskfile, mutex, history>>

Enter_Unguarded(w) ==  \* mutant: no sem_wait
    /\ up /\ call[w].op # "none" /\ call[w].at = Waiting
    /\ mutex' = 0
    /\ call' = [call EXCEPT ![w].at = 0]
    /\ UNCHANGED <<up, shape, diskfile, history>>

(* sem_wait *)
Enter(w) ==
    /\ up /\ call[w].op # "none" /\ call[w].at = Waiting
    /\ mutex > 0
    /\ mutex' = mutex - 1
    /\ call' = [call EXCEPT ![w].at = 0]
    /\ UNCHANGED <<up, shape, diskfile, history>>

(* memcpy, byte by byte *)
Copy(w) ==
    LET i == call[w].at
        p == First(shape, call[w].block) + i
    IN
    /\ up /\ Copying(w) /\ i < sector_size
    /\ \/ /\ call[w].op = "R"
          /\ call' = [call EXCEPT ![w].at = i + 1, ![w].data[i] = diskfile[p]]
          /\ UNCHANGED diskfile
       \/ /\ call[w].op = "W"
          /\ call' = [call EXCEPT ![w].at = i + 1]
          /\ diskfile' = [diskfile EXCEPT ![p] = call[w].data[i]]
    /\ UNCHANGED <<up, shape, mutex, history>>

(* sem_post, and the answer.                                               *)
Answer(w) ==
    LET b == call[w].block IN
    /\ up /\ Copying(w) /\ call[w].at = sector_size
    /\ mutex' = mutex + 1
    /\ call' = [call EXCEPT ![w] = NoCall]
    /\ \/ call[w].op = "R" /\ UNCHANGED <<stored, torn, cut>>
       \/ /\ call[w].op = "W"
          /\ stored' = [stored EXCEPT ![b] = call[w].data]
          /\ torn' = torn \ {b} /\ cut' = cut \ {b}
    /\ UNCHANGED <<up, shape, diskfile>>

Next ==
    \/ Stop \/ \E g \in Shape : Start(g)
    \/ \E w \in Worker :
          \/ \E op \in {"R", "W"}, b \in Block, data \in Contents : Ask(w, op, b, data)
          \/ Enter(w) \/ Copy(w) \/ Answer(w)

Spec == Init /\ [][Next]_vars

-----------------------------------------------------------------------------
(* What may be read from a block: what was last written to it, but for the *)
(* last byte if a start has overwritten that.                              *)
Holds(b, i, byte) ==
    byte = IF b \in cut /\ i = sector_size - 1 THEN 0 ELSE stored[b][i]

(* A block that nobody is writing holds what was last written to it,       *)
(* through restarts with disks of other shapes, unless the server ended in *)
(* the middle of a write; a start harms the last byte of its own disk only *)
(* (BDS.c:diskfile_init, diskfile_write, disk.c:disk_write_direct).        *)
BlocksReadBack ==
    \A b \in Block \ torn : ~Writing(b) =>
        \A i \in 0 .. sector_size - 1 : Holds(b, i, diskfile[b * sector_size + i])

(* A read returns the whole of one write, whatever other workers write at  *)
(* the time (BDS.c:diskfile_read, diskfile_write).                         *)
ReadsAreWhole ==
    \A w \in Worker :
        Copying(w) /\ call[w].op = "R" /\ call[w].block \notin torn =>
            \A i \in 0 .. call[w].at - 1 : Holds(call[w].block, i, call[w].data[i])

-----------------------------------------------------------------------------
(* Why: one worker copies at a time, inside the disk of this start, and    *)
(* what it has copied so far is on the disk.                               *)
Serialized ==
    /\ up => Countable(shape)
    /\ \A w \in Worker : call[w] # NoCall => up /\ call[w].block < NBlocks(shape)
    /\ mutex = 1 => \A w \in Worker : ~Copying(w)
    /\ \A v, w \in Worker : Copying(v) /\ Copying(w) => v = w

HalfWritten ==
    \A w \in Worker : Copying(w) /\ call[w].op = "W" =>
        \A i \in 0 .. call[w].at - 1 :
            diskfile[call[w].block * sector_size + i] = call[w].data[i]

IInv == TypeOK /\ Serialized /\ HalfWritten /\ BlocksReadBack /\ ReadsAreWhole
=============================================================================
