# Verification of the network file system

TLA+ models of the file server in this repository, checked with TLC, with
theorems checked by the TLA+ proof system.

## 1. The system

The repository builds a small ext2-like file system that works over TCP.

| Part | Source | State | Operations |
|---|---|---|---|
| Disk layer | `fs/disk.c` | `ref`, `blocks`, `cache`, `victim` (a write-back cache of `CACHE_SIZE` blocks), the connection to the disk server | `disk_init`, `disk_read`, `disk_write`, `disk_close` |
| Block layer | `fs/blocks.c` | the two bitmaps and the superblock on disk, the superblock in memory, `least_*_bitmap_block` | format, init, close, allocate and deallocate blocks and inodes, read and write them |
| Inode layer | `fs/inodes.c` | inodes and indirect blocks on disk | create, resize, read, write, delete; `visit_path_t` |
| File tree | `fs/fs.c` | directories, the `passwd` file, a context (directory, uid, gid) per socket | the user commands, permission checks |
| File server | `fs/FS.c` | `contexts`, `response_mutex` | dispatch under the mutex, SIGINT shutdown |
| Socket server | `utils/server.c` | per-socket response functions, worker threads, the accept count | accept loop, one worker thread per connection |
| Messages | `utils/socket.c`, `utils/client.c` | the client's socket | length-prefixed send and receive, the SIGPIPE handler |
| Basic disk server | `disk/BDS.c` | the mapped disk file, the arm position, `diskfile_mutex` | `I`, `R`, `W` |
| Clients | `fs/FC.c`, `disk/BDC_*.c` | none of their own | terminal or random input |

A file client sends a command to the file server. A worker thread takes
`response_mutex`, runs the command in `fs.c`, which calls `inodes.c`, which
calls `blocks.c`, which calls `disk.c`, which on a miss exchanges messages with
the basic disk server, and releases the mutex. All worker threads share every
global variable below the mutex. The main thread shares them too, without the
mutex, when SIGINT arrives or the accept loop ends.

### What is hard, and what makes each part correct

* **Disk layer.** Eviction, refill and relabelling of a slot are separate steps
  with failing I/O between them; dirty data exists only in memory until
  `disk_close`; SIGINT enters the layer beside a request. Correct means: reads
  return the last write whatever was evicted, no block is cached twice, a
  failed call changes nothing visible, the disk receives only current contents,
  a clean shutdown loses nothing and a crash loses exactly what was dirty.
* **Block layer.** The free count and the search hint are kept apart from the
  bitmap they summarise; the bitmap can be longer than the disk. Correct means:
  the count agrees with the bitmap across restarts, the hint skips no zero bit,
  what is handed out exists, room that is counted is found, and what a crash
  leaves wrong gets no worse.
* **Inode layer.** A resize sets and frees pointers at up to four levels, block
  by block, any of which can fail; indirect blocks are written as it goes, the
  inode only at the end. Correct means: every pointer of every file leads to an
  allocated block of its own, nothing is leaked or freed twice, and a file's
  map changes only when its own resize completes.
* **File tree.** Commands change several inodes one after the other, and error
  codes become positive answers on the way up; a directory can go while a client
  is in it. Correct means: each inode in use has one name, unless a failure or
  the removal of its directory lost it; `.` and `..` lead back; clients come only
  where they may read; names are told apart; a uid means one account; an edit
  changes the bytes it is asked to.
* **Socket server.** Threads receive a pointer to a variable that the accept
  loop reuses; SIGPIPE can end a thread that holds `response_mutex`. Correct
  means: one worker per connection, the mutex is always released, each request
  is answered unless its client has gone.
* **Messages.** A failed header read is taken for an empty message. Correct
  means: what is received is what was sent, in order, until an error.
* **Basic disk server.** Offsets are computed in `int`; several workers copy to
  and from one mapping; the file is stretched at every start. Correct means: each
  request touches exactly the sector it names, reads see whole writes, and what
  was written is there after a restart.

`PROJECT.json` lists the hazards at their lines, each with the properties that
cover it.

## 2. Modules

| Module | Role |
|---|---|
| `WriteBackStore` | abstract: an array of blocks with a durable copy that lags behind |
| `DiskCache` | `disk.c` with both threads that run it; implements `WriteBackStore` |
| `DiskGeometry` | block numbers, sectors and bytes: `disk.c` against `BDS.c` |
| `DiskServer` | `BDS.c` with its workers, ended and started again |
| `MCDiskCache`, `MCDiskServer` | the instances that TLC checks, and their symmetry |
| `BitmapAlloc` | the allocators of `blocks.c` (checked directly) |
| `InodeFile` | `inodes.c` over the allocator of `BitmapAlloc` (`INSTANCE`) |
| `MCInodeFile` | symmetry for TLC |
| `FileTree` | directories, permissions, contexts, accounts and commands of `fs.c` |
| `FileEdit` | what the editing commands do to the bytes of a file |
| `Requests` | how requests and paths are taken apart |
| `Session` | a client that edits a file: `Requests` and `FileEdit` together |
| `MCFileTree`, `MCSession` | the instances that TLC checks |
| `FsServer` | accept loop, workers, messages, `response_mutex`, clients (checked directly) |
| `DiskCacheProofs`, `BitmapAllocProofs`, `InodeFileProofs`, `FsServerProofs`, `FileTreeProofs`, `FileEditProofs`, `SessionProofs` | theorems about the module of that name |
| `DiskServerProofs` | theorems about `DiskServer` and `DiskGeometry` |

`DiskGeometry` and `Requests` have no variables: they are pure computations of
the program as operators, used by `DiskServer` and `Session`.

A definition commented `mutant` is a plausible bug in the definition after it:
replacing the one by the other must break the property it is listed with in
`PROJECT.json`, which shows that the property depends on the code it is about.

### DiskCache

The variables `ref`, `blocks`, `cache` and `victim` are the C globals.
`platter` is the disk server's file and `link` the connection to it. `pc` says
where each of two threads is: `"worker"` is whichever client thread holds
`response_mutex` (`FS.c:91-97`), `"main"` is the thread that runs
`handle_sigint` or falls out of `simple_server` and calls `fs_close` with no
lock. `disk_read` and `disk_write` differ only in the last line of each branch,
so they share their steps:

| Code | Actions |
|---|---|
| the search loop, hit | `ReadHit`, `WriteHit` |
| the search loop, miss | `Miss` |
| `while (ref[victim] == 1)` | `Sweep`, one turn per step |
| `if (ref[victim] == 0) disk_write_direct` | `FoundEmpty`, `Evict`, `EvictUnconfirmed`, `EvictFail` |
| `disk_read_direct` into the slot | `Fill`, `FillFail` |
| relabel, copy, advance | `Install` |
| `disk_close` | `FlushSlot` per slot, `EndClose` |
| SIGINT, or the accept loop ending | `BeginClose` |
| a thread that never returns from an exchange | `Hang` |

A message exchange with the disk server is one step. It can work, fail before
the server acts, fail after it acted, or never return. `LoseLink` and `Crash`
can happen at any time; `Start` is `disk_init`, with any contents in the buffer
that `malloc` returns.

While a request and a shutdown overlap (`~quiet`) the two threads race on
`victim`, on the slots and on the answers that arrive on one socket. The
abstract store promises nothing then (`Overlap`), and run `cache_sigint` shows
what can go wrong. `EndClose` stands for `free(cache)`, closing the socket and
`exit`: a worker that touches the cache after `free` ends the process, which
is `Crash`.

`Implements` is the refinement of `WriteBackStore`. Its memory is `View`: for
each block the slot that holds it, if there is one that is not being refilled,
and the platter otherwise. The slot being refilled is excluded because between
`Fill` and `Install` it holds new bytes under its old label.

### DiskGeometry and DiskServer

`disk.c` divides a block number by the number of sectors per cylinder; `BDS.c`
checks the two parts and multiplies them out to a byte offset, in `int`
(`AsInt`). `BlocksKeepApart` says that together they give each block bytes of
its own inside the file, for disks whose bytes an `int` can count. Above that
(2 GB, although `Report.md:52` speaks of 8 GB) `diskfile_init` computes a wrong
file size, requests lead outside the mapped file, and nothing is modelled.

`DiskServer` has the mapped file as bytes, and the workers that copy them one
by one under `diskfile_mutex`.

| Code | Actions |
|---|---|
| `main`, `diskfile_init` | `Start`, with any shape |
| the process is killed, or its accept loop ends | `Stop` |
| `response`, the checks of `diskfile_read` and `diskfile_write` | `Ask` |
| `sem_wait`, `memcpy`, `sem_post` | `Enter`, `Copy` for each byte, `Answer` |

`stored`, `torn` and `cut` are history: what was last written to each block, the
blocks that were being written when the server ended, and the blocks whose last
byte a start has set to zero. The last is what `diskfile_init` does to stretch
the file, also when the file is long enough: each restart of the disk server
loses the last byte of the last block. `BlocksReadBack` says that it loses
nothing else. `DiskCache` sees one exchange with this server as one step, which
`ReadsAreWhole` justifies.

### BitmapAlloc

`bits` is the set of offsets whose bit is 1 and `saved` the count in the
superblock, both as `disk_read` returns them; `nfree` is the count in the
superblock in memory, and `least` the hint, counted from the first bitmap block.
The code for inodes and for blocks is the same; for inodes `Limit` is the
bitmap's length, for data blocks it is less. Each call is one step:
`response_mutex` keeps calls apart from each other, and failing disk calls are
left out.

It does not keep them apart from the shutdown. `handle_sigint` runs
`blocks_close` without the mutex, between a bit and its count for instance
(`blocks.c:227`). So the shutdown has steps of its own: `BeginClose` writes the
superblock, evictions and the flush save blocks one by one, and `EndClose` needs
everything saved. `Disturb` is a request that the shutdown met half way, or one
that begins during it; then nothing is known of what reaches the disk (run
`cache_sigint` shows blocks saved under each other's numbers), and `EndDisturbed`
leaves any bitmap there and any superblock. `Garbage` bounds its count.

`diskBits` and `diskSaved` are what the disk server has. The disk layer is taken
at the promise of `WriteBackStore`: `SaveBitmapBlock` and `SaveSuperblock` are
its `SaveBlock`, an eviction in `disk.c`, and `Crash` forgets what was not saved,
and the hint with the rest of the memory. The count reaches the superblock only
in `BeginClose`, so a crash brings back an old count with bitmap blocks of any
age. `OpenRefused` is the start on a disk of an
unsupported size: `blocks_close` runs before the superblock was read and writes
zeros over it, so that the next start formats the disk (`OpenUnformatted`).
`parted` is history: a crash or a disturbed shutdown since the last format.
`FreeCountExact` and `RoomIsFound` except it; `DriftStays` says what holds then,
that the difference between count and bitmap stays as it is through serving,
undisturbed shutdowns and restarts.

`raised` is history: a deallocation has moved the hint forward since it was
last at the start. Callers return only what they were given; `InodeFile` uses
the same allocator with callers that do not.

### InodeFile

A data block is the table of pointers it would be if read as one, and `Wild`
stands for bytes nobody wrote as a pointer; following one may lead anywhere, or
to an id that `read_block` refuses. `op` is the resize in progress with its own
copy of the inode. Each pointer that a resize sets or frees is a step
(`GrowOne`, `ShrinkOne`), because any of them can fail (`GrowFull`, `Refused`,
`SpuriousError`) and leaves the earlier ones done. `Levels` compares the visit
paths of neighbouring blocks as the code does. `Finish` writes the inode.
`Write` overwrites one block of a file, so that its bytes are no longer
pointers. A size is a number of blocks: `size / BLOCK_SIZE + 1`, or 0.

When no operation is running, `Settle` and `Trim` turn every entry that no file
owns into `Wild`. The code leaves old values there; `Wild` allows these and all
others, so the model has at least the code's behaviours and far fewer states.

`Unset` names the locals that the code reads before it sets them and that hold
a bad value: `result` in `manipulate_entry_1_block_id` on a direct path, and
`block_id` in `inode_file_write` of no bytes. `failed` records which kinds of
operation have failed, and the writes that stored a block at random: `"empty"`
for a write of no bytes, `"gap"` for a write to the first block of the double or
triple region, which has no data block (`Gap`, and run `double_boundary`).
`Intact` says that no shrink has stopped half way and no such write has happened.

### FileTree

`live` is the inode bitmap, `node` the inode table together with the entries of
each directory, `cwd` and `uid` the contexts of `fs.c`, `acc` the entries of
`passwd`. `lost` is history: inodes in use that no name leads to any more,
because a `mk` or `mkdir` failed after taking them or because the directory
that held their name was removed or is lost itself.

`Init` is the state after the first `f`, with the contexts as `main` leaves them:
the server makes no tree of its own (the call in `FS.c:112` is a comment), and on
a fresh disk the root inode gives nobody any right, so that every other command
is refused.

A name of exactly `MAX_NAME_LEN` (252) characters passes the check of its length
(`fs.c:220`, `fs.c:291`), but `buffer_to_str` has no room for it, and its result
is ignored: the entry is saved as `malloc` returned it. `Longest` are the requests
of that length, `Garbage` the names that memory may spell, and `unset` the inodes
whose entry was saved so. Such an entry can have a name that its directory holds
already, which `NamesApart` excepts.

All commands but `f` and `e` go through `fs_operation_wrapper`: check the
client's directory, load a copy of its entries, run the command on the copy,
save the copy. So every action ends in `Save`, whose conditions and order are
those of the wrapper.

| Code | Actions |
|---|---|
| `make_file`, `make_dir` | `Make`, with the name that is `Stored`; `MakeFails` if an error follows `create_inode` |
| `remove_file`, `remove_dir` | `RemoveEntry` |
| `change_dir` | `Cd`, by the directories on its way (`Ways`), field by field (`Onward`) |
| `chmod_file` | `Chmod` |
| `change_account` | `NewAccount`, `LoginAs` |
| `remove_account` | `RemoveAccount` |
| `fs_format`, a restart of the server | `Format`, `Restart` |

`response_mutex` makes a command one step. A command that is refused changes
nothing that the model has, and is no step, except `cd`, which leaves the
client where its path broke off: the wrapper has turned the error into an
answer, so the two comments `// roll back` in `change_dir` never come true.
`ArrivalsAllowed` says that it is at least a directory the client may read.
`ls` and `cat` change nothing; `w`, `i` and `d` change contents, which are in
`FileEdit`. `CanRun`, and the comment that heads the module, name the calls
that lead to undefined behaviour and are left out: removing `.` or `..`,
`chmod` of the bit that says directory, editing or removing `passwd`, saving a
directory of no entries, and formatting while a client stands in a directory
that the format forgets.

### FileEdit, Requests and Session

A file is a size and that many bytes. `Resize`, `Read` and `Write` are
`inode_file_resize`, `_read` and `_write` as the kernels of `fs.c` see them;
`stale` is what the blocks of a growing file held before. `edit` is the kernel
that the parsed command is about to call, and `write_file_kernel`,
`insert_file_kernel` and `delete_in_file_kernel` are steps.

Each of these calls can fail, so it has a set of outcomes: `Done`, `Fails` and
`Broken`. Growth that fails changes nothing; a write that fails has stored some
of its blocks; a truncation that fails has freed blocks that the file still uses
(`Broken`). `Then` goes on after a call that succeeded, as `RET_ERR_IF` does, and
`Return` leaves the file and the `outcome` of the kernel. A broken file is edited
no more in the model.

A write of no bytes is not nothing. `EmptyWrite` stores the block that was read at
`start` at whatever id the uninitialised `block_id` holds (`inodes.c:447`): outside
of the file, over one of its blocks (`Pasted`), or over its indirect block
(`Broken`). `w` of no data makes such a write, `i` with no data or at the end of a
file, and `d` up to the end. `InsertSplices` and `DeleteCuts` therefore except one
block for each write of no bytes, and promise every other byte.

The limits of these properties:

* Files end before the double indirect region: the first data block there is
  never allocated (run `double_boundary`), so from 76 blocks, 19456 bytes, on a
  file does not keep what is written to it. `EditAssumption` says so.
* `d` from a position beyond the end makes the file longer (`fs.c:639`), although
  `Report.md:200` has it delete "up to `len` bytes or until the end of the file".
  `CutOut` promises the bytes of the file in this case and nothing of its size.
* A position and a length whose sum is no `int` (`fs.c:637`) are left out: the
  overflow is undefined. `INT_MAX` is a constant of the model.
* Another file's blocks that a write of no bytes hits are a matter of `InodeFile`.

`Cut` is `cut_at_n_space`, which works in place; each command's arguments are a
series of cuts. `Field` is `buffer_get_first_field`, and `Fields` is how
`change_dir` takes a path apart with it.

In `Session` a client puts a request together from words of its own, numbers
that are missing or wrong included, and the server parses it (`write_file`,
`insert_file`, `delete_in_file`) or refuses it. `RequestsReadBack` says that what
the client puts in comes out again. For the last number of `d` and `chmod` the
copy of the request is not terminated (`fs.c:521`, `fs.c:677`), and `atoi` reads
on into `after`, whatever is on the heap.

### FsServer

A connection is the number of its descriptor, as in the arrays of `server.c`;
nobody closes a client's socket, so numbers are never used twice. `slot` is the
variable whose address `pthread_create` is given.

| Code | Actions |
|---|---|
| `simple_server`, one turn of its loop | `Accept`, `AcceptFails` |
| `simple_server_worker` reading its argument | `Begin` |
| `recv_message` | `Receive`; `ReceiveTorn` if two workers read one stream |
| `response_with_mutex` | `Enter`, `Answer` |
| a disk exchange that fails, `sigpipe_handler` | `Exchange` |
| `send_message` | `Reply` |
| clients and the link | `Ask`, `LeaveServer`, `LoseLink` |

The first write to a peer that has gone succeeds or fails, and the next one
raises SIGPIPE, which ends the thread: without harm in `Reply`, with the mutex
in hand in `Exchange` (`Orphans`). `sem_post` may wake any waiter. A worker whose
response is negative ends without an answer: `e`, and `f` when the disk server
fails, give one (`EndsWork`), and so does any command for which `malloc` has no
memory (`fs.c:127`, the one error that the wrapper does not turn into an answer).
Such a worker is `"starved"`. The SIGINT handler is in `DiskCache` and
`BitmapAlloc`.

## 3. Runs

Every passing run is exhaustive within its bounds.

| Run | Bounds | What it shows |
|---|---|---|
| `cache` | 2 slots, 3 blocks, 2 contents | `IInv`, `Implements` |
| `cache_live` | 2 slots, 3 blocks, 1 content | `CallsReturn`, `QuietCloseEnds` |
| `cache_sigint` | as `cache` | `PlatterGetsCurrentData` fails |
| `data_blocks` | 3 bitmap blocks of 2 bits, 3 blocks on disk, 2 crashes, disturbed shutdowns or refused starts | `TypeOK`, `FreeCountExact`, `HintSkipsNothing`, `RoomIsFound`, `DriftStays` |
| `shared_disk` | 2 files of up to 4 blocks, 4 blocks on disk, 2 bitmap blocks of 3 bits | `TypeOK`, `BlocksExclusive`, `CountExact`, `NoLeak`, `PointersInv`, `MapsStable` |
| `deep_file` | 1 file of up to 12 blocks, 18 on disk | `BlocksExclusive`, `NoLeak`, `PointersInv`, `MapsStable` |
| `double_boundary` | 1 file of up to 6 blocks | `DataBlocksAllocated` fails |
| `server` | 2 connections | `TypeOK`, `MutexConserved`, `OneAnswerEach`, `MutexComesBack`, `WorkersEnd`, `AskedIsAnswered` |
| `overtaken` | the same | `OneWorkerPerSocket` fails |
| `tree` | 2 clients, 4 inodes, 2 accounts, 6 names, one of them too long | `TypeOK`, `OneName`, `DotsLeadBack`, `NamesApart`, `AccountsApart`, `UidsKeepOwner`, `ArrivalsAllowed` |
| `session` | files of up to 3 bytes, in blocks of 2 with one direct pointer, data of up to 2, numbers of one digit, paths of up to 3 fields | `RequestsReadBack`, `PathsFieldByField`, `WriteReplaces`, `InsertSplices`, `DeleteCuts` |
| `disk_server` | 2 workers, disks of 1 and 2 blocks of 2 bytes | `TypeOK`, `BlocksReadBack`, `ReadsAreWhole` |

* Cache: two slots are the least with a clock that turns and a choice of
  victim; three blocks, one of them the superblock, make each slot's block
  evictable by each other. Two contents tell a stale copy from a current one;
  liveness does not depend on contents. Blocks other than the superblock, and
  contents, are interchangeable, and no property of the symmetric runs is a
  liveness property.
* Bitmap: several bits per bitmap block and several bitmap blocks, with the
  last existing block in the middle of one, so that ids beyond the disk share a
  bitmap block with ids that exist and also fill one of their own. Three bitmap
  blocks can be of three ages when the server crashes, and after a second crash
  the error of the first has been written by a clean shutdown in between. A
  disturbed shutdown leaves every bitmap, counts of 0 and 1, and a superblock
  that says unformatted or formatted. The proofs cover every size, the inode
  bitmap's included, and any number of crashes.
* Files: two direct pointers and two entries per indirect block are the least
  at which each level has a first and a later entry. In `shared_disk` the disk
  is too small for both files, so growth fails at every point; its bitmap is
  longer than the disk, so ids that do not exist are handed out and refused;
  and `Unset` gives the uninitialised locals bad values. `deep_file` reaches
  the fourth block of the triple region. `Overwritten` is all the blocks a file
  can have in both passing runs. `StopAfter` ends resizing after a shrink failed
  half way, or a write stored a block at random (`"empty"`, `"gap"`): later
  shrinks free blocks that are already free, the count grows without end, and
  the properties promise nothing any more.
* Server: two connections are enough for one worker to wait for another, to
  overtake it at `slot` and to share its stream. The limit on descriptors is
  reached, and with it the exit of the process. Clients leave and the link
  fails at any time.
* Tree: besides the root and `passwd` there are two inodes, so that a directory
  is made in a directory, an inode is used again after its directory was
  removed under a client, and the disk runs out of inodes. The names begin with
  one another (`h`, `home`), one is too long to be stored (`hh`) and its entry
  gets a name that the root holds already, paths lead up, down, through the root and nowhere,
  and one mode takes everybody's rights away but the owner's. One account can
  be created, removed and created again before the bound on accounts.
* Session: three bytes have a first, a last and one in the middle, so that data
  go in and come out at each kind of place; they lie in two blocks, the second
  of which needs the indirect block, so that writes stop between blocks, writes
  of no bytes hit a block or the pointers, and truncations fail; two digits tell a length of two from
  one; data contain spaces, and the heap a digit that a number can run on into.
* Disk server: two blocks are the least that can get into each other's way, and
  two bytes the least of which a reader can see one old and one new. A disk of
  one block, started on a file of two, ends in the middle of the file.

Deadlock is checked in every run.

**Fairness.** `cache_live`: weak fairness for the worker inside `disk.c`, and
for the main thread in a shutdown. A thread that can run is scheduled, and an
exchange with the disk server ends in one of its ways, `Hang` among them. No
request, failure or restart is ever required to happen. `server`: weak fairness
for each worker. It does not say which waiter gets the mutex, so a worker can
wait for ever while others serve again and again; the properties except this
case (`Contended`) and no other. Accepting, asking and leaving are never
required.

### What the failing runs show

1. `cache_sigint`: `handle_sigint` closes the file system without
   `response_mutex`. In the trace the cache is full and a worker reads a block
   that is not in it. While the worker writes back its victim and reads the new
   block into the victim's slot, the shutdown writes its superblock, which is a
   hit, and begins to flush. The flush comes to the slot before the worker labels
   it anew (`disk.c:192`), and writes the new block's bytes to the disk as the
   block that the slot held before. `Report.md:16` promises that mutex locks
   prevent such conflicts.
2. `double_boundary`: a level is allocated where it differs from the previous
   block's visit path. At the first block of the double region `entry_2` is 0
   before and after, so the data block itself is never allocated, and its
   pointer is whatever the new indirect block held. The triple region has the
   same gap. `Report.md:172-180` describes the intention.
3. `overtaken`: the accept loop overwrites the variable whose address it gave
   to the thread before. If that thread has not read it yet, two workers serve
   the second client and none the first, against `README.md:234` of the
   repository.

Met on the way, and stated by what the passing properties promise and except:

* `deallocate_block` sets the hint to its own bitmap block even when that is
  after the hint, and the search never wraps (`blocks.c:214`, against
  `Report.md:164`). With free blocks left behind the hint, the search fails, or
  finds a bit past the end of the disk, against `fsconfig.h:18`. `raised` marks
  the states after that.
* A write of no bytes stores a block at an uninitialised id (`inodes.c:447`).
  `insert_file_kernel` at the end of a file and `delete_in_file_kernel` up to the
  end make such writes (`fs.c:573`, `fs.c:649`). The properties of `FileEdit` except
  a block for each, and `Intact` excepts them in `InodeFile`.
* `d` from beyond the end makes a file longer (`fs.c:639`, against
  `Report.md:200`).
* A name of 252 characters is stored as something else (`fs.c:220`, `fs.c:291`).
  `unset` marks the entry.
* A command that finds no memory ends its worker, and its client is not answered
  (`fs.c:127`). `AskedIsAnswered` and `WorkersEnd` name it (`"starved"`).
* A shutdown that a request overlaps parts count and bitmap with no crash
  (`FS.c:99`, `blocks.c:227`). `parted` marks the states after it.
* A bad value in the uninitialised `result` (`inodes.c:93`) can stop a truncation
  with blocks freed that the file still uses. `Intact` again.
* `authorize` (`fs.c:74`) makes no exception for root, though `Report.md:251` says
  that root may change any file's mode.
* A failed `cd` leaves the client half way (`fs.c:397`).
* Every start of the disk server sets the last byte of the disk to zero
  (`BDS.c:33`). `cut` marks the block.

## 4. Proofs

All are checked by `tlapm` for every value of the constants, from the named
assumptions of the modules only: at least one slot, bitmap block and bit; a
superblock among the blocks; at least one content; markers that are not data;
at least one descriptor; the two inodes that the code knows by number; a
bitmap no shorter than the disk; at least two direct pointers and two per
indirect block, and files that end within the triple region; for edits, files
that end before the double region; paths of fields, modes of permissions, and
too long requests and garbage that are names; digits that are neither a space nor a "/", and data
that fit into a file. The bounds of the models (crashes, accounts, file sizes) are constants in the proofs
and can be any number.

* `DiskCacheProofs!TypeCorrect`: `Spec => [](TypeOK /\ Threads)`.
* `DiskCacheProofs!CacheCoherent`: `Spec => []IInv`. That no block is cached
  twice is not inductive alone. A slot may be relabelled because the block was
  absent when the search began and nobody loaded it since (`Loading`), which
  holds because only one thread is inside the layer (`OneInside`). The victim
  may be overwritten because its contents are already on the platter, and what
  the flush loop has passed is there too (`Flushed`). All of this is promised
  only while no request overlaps a shutdown (`Sound`), whereas typing and
  thread positions are proved without that condition. The proof has a lemma
  per action and a step per conjunct.
* `DiskCacheProofs!ImplementsStore`: `Spec => Implements`. `View` is defined by
  `CHOOSE` over slots; `ViewIs` says that under the invariant there is at most
  one, so it can be read off. Filling a slot shows nothing because the slot's
  old block is on the platter by then, and its new block appears in the view
  with what the platter had. A flush moves one block to the platter, `EndClose`
  finds all of them there, and steps of an overlap are `Overlap` steps.
* `DiskServerProofs!BlocksAreKeptApart`: a block number is its cylinder times
  the sectors plus its sector, so the offset multiplies out to the number times
  the sector size, and nothing overflows. `disk_server` relies on it for a few
  small disks, the theorem covers all.
* `DiskServerProofs!BlocksKeepContents`, `ReadsAreNotTorn`, `DiskTypeCorrect`: one
  inductive invariant (`IInv` of `DiskServer`). At most one worker is copying and
  the mutex counts the others out, and a call is for a block of the disk of this
  start (`Serialized`). The bytes a write has copied are on the disk
  (`HalfWritten`), which makes the block whole at `Answer`. Both places are
  `block * sector_size + i`, so the proof rests on blocks that lie in order, as
  in `BlocksAreKeptApart`.
* `BitmapAllocProofs!AllocatorTyped`, `CountIsExact`: the invariant adds that the
  superblock is exact while the server is down, unless it is unformatted or a
  crash or a disturbed shutdown came before, and that the superblock written
  in an undisturbed shutdown has the count of memory.
* `BitmapAllocProofs!HintIsSound`, `RoomIsAlwaysFound`: while the hint has not
  been moved forward nothing before it is zero; fewer than `Limit` bits are set,
  so some id below `Limit` is zero, and the least zero bit is at the hint or
  after it. The first part survives crashes, because a start resets the hint.
* `BitmapAllocProofs!DriftIsKept`: each action moves count and bitmap by the same
  amount, or is one of those named. Bitmaps are finite, so that bits can be
  counted; nothing is assumed about what a crash or a disturbed shutdown left.
* `FsServerProofs!MutexIsConserved`, `AnswersAreAwaited`: one inductive
  invariant. A socket lies below the next descriptor (`Fresh`); a thread has a
  socket exactly when it has begun (`Placed`); what is in an inbox was asked by a
  client that still waits, or has gone, and no worker has it too (`Unread`).
  That answers are awaited needs all three: two workers may share a socket, and
  only one of them can take the message.
  `ServerTypeCorrect` is a part of it.
* `FileTreeProofs!AccountsStayApart`, `UidsHaveOneOwner`: the list of accounts
  only grows, except in a format, and names in it never change.
* `FileTreeProofs!TreeTypeCorrect`, `NamesAreOne`, `DotsStay`, `NamesStayApart`: the
  tree is not inductive by what it says of itself, because clients go on working
  in directories that were removed under them. `TreeInv` of `FileTree` says what
  these hold: a name outside of the tree leads to a lost inode (`NamesLead`), and
  no two names anywhere lead to one inode (`NoTwoNames`). So removing a name
  there, or making one, takes nothing from the tree, and an inode that is used
  again has no old name. None of this depends on how an entry is called, so
  names that were stored unset do no harm to it. `OneName` counts names; it follows because each inode
  has a name (`AllNamed`) and no two.
* `FileTreeProofs!ArrivalsStayAllowed`: each directory on the way of `cd` was
  asked for the right to read, the root of an absolute path too, because
  `FixedInodes` keeps it open to all.
* `FileEditProofs!WriteIsExact`, `InsertIsExact`, `DeleteIsExact`: byte by byte, for
  every block size and number of pointers and all files that end before the
  double region, not for larger ones. Each outcome of a kernel is followed call
  by call; a write of no bytes is `Pasted` over one block, and the block it hits
  is the witness for the one that the property excepts. The invariant is that a
  file has a size and a call its arguments.
* `SessionProofs!RequestsAreReadBack`: words of every length. Where the words of a
  request lie (`Laid`) is built up word by word, since a request is joined that
  way (`JoinedLaid`). `PlacesCounted` numbers the spaces between words that hold
  none themselves, so the place that `cut_at_n_space` looks for is the only one
  (`OnlyPlace`); data come last and may hold spaces. A series of cuts leaves each
  word between two places that are known (`CuttingOn`), terminated by the zero
  that was put there, or not at all for the last (`TextIs`), which is why its
  number runs on. The invariant beneath is that a request consists of such words
  (`RequestsTyped`).
* `SessionProofs!PathsAreWalked`: paths of any number of fields. `FieldsFrom` says
  what is still to come at the beginning of each field (`FieldIsWord`), and
  `Collected` puts it together from the last field to the first.
* `SessionProofs!SessionEdits`: `Spec => FileSpec`, the session implements the
  specification of edits alone. Each call that parsing leads to has a file for
  data and natural numbers for places (`ParsedIsEdit`), whatever the numbers in
  the request were. `SessionsAreExact` carries the three theorems of
  `FileEditProofs` over, with the same limits.

The proofs about sequences need induction, for which the provers have no rule
that takes a predicate. `SessionProofs!Induction` takes a set instead: a set of
numbers that is not empty has a least element, which is well-foundedness of `<`
on `Nat` (`LeastNumber`). The recursive functions `Joined`, `Number` and `Fields`
are shown to exist that way (`StepByStep`) and then to satisfy their equations
(`JoinedDef`, `FieldsDef`).

* `InodeFileProofs!InodeTypeCorrect`: pointers are ids of the bitmap or `Wild`,
  whatever is freed or overwritten, and the allocator that `InodeFile` instantiates
  keeps its types also for callers that free what they were not given.
* `InodeFileProofs!PointersKept`: `Spec => []PointersInv`, in the middle of a
  resize too. A cell is a pointer of a file: a block, and a level at which its
  visit path is new. A file in a resize holds the cells that the loops have
  passed, and the others are free (`Held`). Each cell that is held lies in an
  indirect block that exists and that the same file holds, and has an allocated
  block of its own (`FilesSane`). This is kept because a resize goes through
  blocks and levels in order (`InOrder`): what leads to a pointer is set before
  it and freed after it. `Agree` ties the copy of the inode in memory to the one
  on disk, so that growth can be given up at any point. Underneath, the
  arithmetic of the three regions: a path determines its block (`PathsDiffer`),
  so two cells are two places (`CellsDiffer`), and above every inner cell there
  is one that leads to it (`CellHasParent`).
* `InodeFileProofs!PointersLeadApart`, `FreeCountExact`, `NothingLeaks`:
  `BlocksExclusive`, `CountExact` and `NoLeak` follow, the first two for states
  that are `Intact`, the last when besides no growth has failed. `NoLeak` uses `AllUsed`:
  each allocated block is in a cell that some file holds.
* `InodeFileProofs!MapsChangeAtTheEnd`: a step that changes which block holds
  which part of a file is the `Finish` of a resize of that file. The blocks of a
  file that does not resize are not touched, since no cell is shared. The gap of
  the double and triple region needs `FreeBlank` and `GapsWild`: the pointer that
  nobody sets there leads anywhere, before the step and after it.

Every safety property that a passing run checks is stated by a theorem. Only
model-checked are the liveness properties (`CallsReturn`, `QuietCloseEnds`,
`MutexComesBack`, `WorkersEnd`, `AskedIsAnswered`), because the temporal prover does
not handle fairness.

## 5. Not modelled

* The calls that `FileTree` leaves out, listed above: what follows depends on
  the bytes of directories, or on a block chosen at random.
* Failing disk calls inside `BitmapAlloc` and `InodeFile`, and in the middle of
  commands other than `mk`, `mkdir`, `w`, `i` and `d`; a format that fails half way. What a
  failing call does to the cache is in `DiskCache`.
* The bytes of files from 19456 bytes on, which are in the double region
  (`InodeFile` has their blocks); sums of `int` that overflow (`fs.c:637`); what is on
  the disk after a shutdown that a request overlaps, which is any disk in
  `BitmapAlloc` and nothing promised in `DiskCache`.
* A server with no tree, before the first `f`.
* A crash of the server as inodes, files and directories see it: `InodeFile` and
  `FileTree` assume that shutdowns are clean. After a crash an inode can hold a
  block whose bit is clear; nothing in the code looks for that.
* Short reads and writes inside a message; the text of the disk protocol; the
  arm of the disk server, which is a delay; writes of other sizes than a block's,
  which only `BDC_command.c` can send.
* `BDC_command.c`, `BDC_random.c` and the terminal part of `FC.c`: they keep no
  state. Buffers other than `cut_at_n_space` and `buffer_get_first_field`, and
  printing.
* Times, numbers of links and execute rights of inodes, and groups: nothing in
  the code depends on them, and every gid is 0.

## 6. Plan

`CrashRecovery`: `InodeFile` on a disk whose blocks are saved one by one, with
crashes in between.
