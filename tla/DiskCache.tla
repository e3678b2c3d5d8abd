------------------------------ MODULE DiskCache ------------------------------
(***************************************************************************)
(* The disk layer of the file server (src/fs/disk.c): a write-back cache   *)
(* of CACHE_SIZE blocks over the disk of the basic disk server, with       *)
(* second-chance replacement.                                              *)
(*                                                                         *)
(* Two threads run this code.  "worker" is whichever client thread holds   *)
(* response_mutex, so at most one request is inside the layer.  "main" is  *)
(* the thread that receives SIGINT: FS.c:handle_sigint takes no lock, so   *)
(* blocks_close, which writes the superblock and then flushes every slot,  *)
(* interleaves with the request in service.                                *)
(*                                                                         *)
(* The cache arrays keep the names of the C globals; platter is the        *)
(* contents of the disk server's file, one atomic read or write per        *)
(* message, and link is the TCP connection to it.                          *)
(***************************************************************************)
EXTENDS Integers

CONSTANTS
    Block,      \* disk block numbers
    Data,       \* contents of a block
    CACHE_SIZE, \* disk.h:6
    Super,      \* SUPERBLOCK_PTR, the block a shutdown writes
    NoBlock,    \* the -1 of blocks[]
    NoCall, Written, Failed

ASSUME CacheSizeAssumption == CACHE_SIZE \in Nat \ {0}
ASSUME BlockAssumption == Super \in Block /\ NoBlock \notin Block
ASSUME ReplyAssumption == Written \notin Data /\ Failed \notin Data
ASSUME DataAssumption == Data # {}

Slot == 0 .. (CACHE_SIZE - 1)
Thread == {"worker", "main"}
Request == [op : {"read", "write"}, blk : Block, val : Data]
ASSUME NoCallAssumption == NoCall \notin Request

VARIABLES
    ref,     \* -1 empty, 0 no second chance left, 1 recently used
    blocks,  \* the block each slot holds
    cache,   \* the contents of each slot
    victim,  \* the clock hand, shared by both threads
    platter, \* the disk server's file
    link,    \* "up" or "down": never re-established while the server runs
    phase,   \* "up", "closing" (inside fs_close) or "down"
    pc,      \* where each thread is in disk.c
    call,    \* the call each thread is making
    flush,   \* the loop counter of disk_close
    reply,   \* what the last call of the worker returned
    quiet    \* history: no request has overlapped this shutdown

slots == <<ref, blocks, cache, victim>>
vars == <<ref, blocks, cache, victim, platter, link, phase, pc, call, flush,
          reply, quiet>>

Pc == {"idle", "lookup", "sweep", "fill", "install", "flush", "dead"}

TypeOK ==
    /\ ref \in [Slot -> {-1, 0, 1}]
    /\ blocks \in [Slot -> Block \cup {NoBlock}]
    /\ cache \in [Slot -> Data]
    /\ victim \in Slot
    /\ platter \in [Block -> Data]
    /\ link \in {"up", "down"}
    /\ phase \in {"up", "closing", "down"}
    /\ pc \in [Thread -> Pc]
    /\ call \in [Thread -> Request \cup {NoCall}]
    /\ flush \in 0 .. CACHE_SIZE
    /\ reply \in Data \cup {Written, Failed}
    /\ quiet \in BOOLEAN

Init ==
    /\ ref = [s \in Slot |-> -1]
    /\ blocks = [s \in Slot |-> NoBlock]
    /\ cache \in [Slot -> Data]
    /\ victim = 0
    /\ platter \in [Block -> Data]
    /\ link = "up"
    /\ phase = "up"
    /\ pc = [t \in Thread |-> "idle"]
    /\ call = [t \in Thread |-> NoCall]
    /\ flush = 0
    /\ reply = Written
    /\ quiet = TRUE

-----------------------------------------------------------------------------
(* Leaving a call: the worker answers its client, blocks_close goes on to  *)
(* disk_close whatever the superblock write returned.                      *)

After(t) == IF t = "worker" THEN "idle" ELSE "flush"

Return(t, r) ==
    /\ pc' = [pc EXCEPT ![t] = After(t)]
    /\ call' = [call EXCEPT ![t] = NoCall]
    /\ reply' = IF t = "worker" THEN r ELSE reply

(* The two threads share one socket with no lock: while a request and the  *)
(* shutdown overlap, either can consume an answer meant for the other.     *)
Answered == link = "up"
Unanswered == link = "down" \/ ~quiet

Advance == victim' = (victim + 1) % CACHE_SIZE

FirstWith(b, s) == blocks[s] = b /\ \A i \in Slot : blocks[i] = b => s <= i

(* The superblock is read once, by blocks_init, into an empty cache and    *)
(* before the handler of SIGINT is set.                                    *)
FirstRead(r) == r # NoCall /\ r.op = "read" /\ r.blk = Super

(* A server that refuses its disk shuts down before anybody is served, and *)
(* has cached no other block than the superblock; so has one whose first   *)
(* request comes during the shutdown, which is left out with it.           *)
Served == \E s \in Slot : blocks[s] \notin {NoBlock, Super}

Call(r) ==
    /\ phase # "down" /\ pc["worker"] = "idle"
    /\ FirstRead(r) <=> \A s \in Slot : blocks[s] = NoBlock
    /\ phase = "closing" => Served
    /\ pc' = [pc EXCEPT !["worker"] = "lookup"]
    /\ call' = [call EXCEPT !["worker"] = r]
    /\ quiet' = (phase = "up")
    /\ UNCHANGED <<slots, platter, link, phase, flush, reply>>

ReadHit(t, s) ==
    /\ pc[t] = "lookup" /\ call[t].op = "read"
    /\ FirstWith(call[t].blk, s)
    /\ ref' = [ref EXCEPT ![s] = 1]
    /\ Return(t, cache[s])
    /\ UNCHANGED <<blocks, cache, victim, platter, link, phase, flush, quiet>>

WriteHit(t, s) ==
    /\ pc[t] = "lookup" /\ call[t].op = "write"
    /\ FirstWith(call[t].blk, s)
    /\ cache' = [cache EXCEPT ![s] = call[t].val]
    /\ ref' = [ref EXCEPT ![s] = 1]
    /\ Return(t, Written)
    /\ UNCHANGED <<blocks, victim, platter, link, phase, flush, quiet>>

Miss_Unchecked(t) ==  \* mutant: a write never looks for its block
    /\ pc[t] = "lookup"
    /\ call[t].op = "write" \/ \A s \in Slot : blocks[s] # call[t].blk
    /\ pc' = [pc EXCEPT ![t] = "sweep"]
    /\ UNCHANGED <<slots, platter, link, phase, call, flush, reply, quiet>>

Miss(t) ==
    /\ pc[t] = "lookup"
    /\ \A s \in Slot : blocks[s] # call[t].blk
    /\ pc' = [pc EXCEPT ![t] = "sweep"]
    /\ UNCHANGED <<slots, platter, link, phase, call, flush, reply, quiet>>

Sweep_KeepsChance(t) ==  \* mutant
    /\ pc[t] = "sweep" /\ ref[victim] = 1
    /\ Advance
    /\ UNCHANGED <<ref, blocks, cache, platter, link, phase, pc, call, flush,
                   reply, quiet>>

(* One turn of the clock: the slot loses its second chance. *)
Sweep(t) ==
    /\ pc[t] = "sweep" /\ ref[victim] = 1
    /\ ref' = [ref EXCEPT ![victim] = 0]
    /\ Advance
    /\ UNCHANGED <<blocks, cache, platter, link, phase, pc, call, flush,
                   reply, quiet>>

FoundEmpty_AnyVictim(t) ==  \* mutant: the victim is not written back
    /\ pc[t] = "sweep" /\ ref[victim] # 1
    /\ pc' = [pc EXCEPT ![t] = "fill"]
    /\ UNCHANGED <<slots, platter, link, phase, call, flush, reply, quiet>>

FoundEmpty(t) ==
    /\ pc[t] = "sweep" /\ ref[victim] = -1
    /\ pc' = [pc EXCEPT ![t] = "fill"]
    /\ UNCHANGED <<slots, platter, link, phase, call, flush, reply, quiet>>

(* disk_write_direct of the victim.                                        *)
Evict(t) ==
    /\ pc[t] = "sweep" /\ ref[victim] = 0
    /\ Answered
    /\ platter' = [platter EXCEPT ![blocks[victim]] = cache[victim]]
    /\ pc' = [pc EXCEPT ![t] = "fill"]
    /\ UNCHANGED <<slots, link, phase, call, flush, reply, quiet>>

(* The disk server wrote the block and its answer never came. *)
EvictUnconfirmed(t) ==
    /\ pc[t] = "sweep" /\ ref[victim] = 0
    /\ link = "up"
    /\ platter' = [platter EXCEPT ![blocks[victim]] = cache[victim]]
    /\ link' \in IF quiet THEN {"down"} ELSE {"up", "down"}
    /\ Return(t, Failed)
    /\ UNCHANGED <<slots, phase, flush, quiet>>

EvictFail(t) ==
    /\ pc[t] = "sweep" /\ ref[victim] = 0
    /\ link = "down"
    /\ Return(t, Failed)
    /\ UNCHANGED <<slots, platter, link, phase, flush, quiet>>

(* The block whose contents a thread may receive: its own, but while a     *)
(* request and the shutdown overlap also the one that the other is loading *)
(* (that it loaded in a call that has ended by now is left out).           *)
Sent(t) == IF quiet THEN {call[t].blk}
           ELSE {call[u].blk : u \in {v \in Thread : pc[v] \in {"fill", "install"}}}

(* disk_read_direct, straight into the victim's buffer and before the slot *)
(* is relabelled.                                                          *)
Fill(t) ==
    /\ pc[t] = "fill"
    /\ Answered
    /\ \E b \in Sent(t) : cache' = [cache EXCEPT ![victim] = platter[b]]
    /\ pc' = [pc EXCEPT ![t] = "install"]
    /\ UNCHANGED <<ref, blocks, victim, platter, link, phase, call, flush,
                   reply, quiet>>

FillFail(t) ==
    /\ pc[t] = "fill"
    /\ Unanswered
    /\ Return(t, Failed)
    /\ UNCHANGED <<slots, platter, link, phase, flush, quiet>>

(* The slot takes its new label, the caller's bytes are copied, and the    *)
(* hand moves on.                                                          *)
Install(t) ==
    /\ pc[t] = "install"
    /\ blocks' = [blocks EXCEPT ![victim] = call[t].blk]
    /\ ref' = [ref EXCEPT ![victim] = 1]
    /\ IF call[t].op = "write"
       THEN /\ cache' = [cache EXCEPT ![victim] = call[t].val]
            /\ Return(t, Written)
       ELSE /\ cache' = cache
            /\ Return(t, cache[victim])
    /\ Advance
    /\ UNCHANGED <<platter, link, phase, flush, quiet>>

(* A thread that never comes back from a message exchange: SIGPIPE ends it *)
(* (socket.c:sigpipe_handler), or its answer went to the other thread.     *)
Hang(t) ==
    /\ \/ pc[t] = "sweep" /\ ref[victim] = 0
       \/ pc[t] = "fill"
       \/ pc[t] = "flush" /\ flush < CACHE_SIZE /\ ref[flush] # -1
    /\ Unanswered
    /\ pc' = [pc EXCEPT ![t] = "dead"]
    /\ UNCHANGED <<slots, platter, link, phase, call, flush, reply, quiet>>

DiskCall(t) ==
    \/ \E s \in Slot : ReadHit(t, s) \/ WriteHit(t, s)
    \/ Miss(t) \/ Sweep(t) \/ FoundEmpty(t)
    \/ Evict(t) \/ EvictUnconfirmed(t) \/ EvictFail(t)
    \/ Fill(t) \/ FillFail(t) \/ Install(t) \/ Hang(t)

-----------------------------------------------------------------------------
(* Shutdown, failures and restart.                                         *)

(* SIGINT, or the accept loop running out of clients: fs_close, with the   *)
(* in-memory superblock d, and no look at response_mutex.                  *)
BeginClose(d) ==
    /\ phase = "up" /\ ~FirstRead(call["worker"])
    /\ phase' = "closing"
    /\ pc' = [pc EXCEPT !["main"] = "lookup"]
    /\ call' = [call EXCEPT !["main"] = [op |-> "write", blk |-> Super, val |-> d]]
    /\ quiet' = (pc["worker"] = "idle")
    /\ UNCHANGED <<slots, platter, link, flush, reply>>

FlushSlot_UsedOnly ==  \* mutant: the loop waits at an empty slot
    /\ pc["main"] = "flush" /\ flush < CACHE_SIZE
    /\ ref[flush] # -1
    /\ flush' = flush + 1
    /\ platter' = IF link = "up"
                  THEN [platter EXCEPT ![blocks[flush]] = cache[flush]]
                  ELSE platter
    /\ UNCHANGED <<slots, link, phase, pc, call, reply, quiet>>

(* One turn of disk_close's loop, which ignores what the write returns.    *)
FlushSlot ==
    /\ pc["main"] = "flush" /\ flush < CACHE_SIZE
    /\ flush' = flush + 1
    /\ platter' = IF ref[flush] # -1 /\ link = "up"
                  THEN [platter EXCEPT ![blocks[flush]] = cache[flush]]
                  ELSE platter
    /\ UNCHANGED <<slots, link, phase, pc, call, reply, quiet>>

(* The process is gone, and with it the cache and both threads. *)
Gone ==
    /\ phase' = "down"
    /\ pc' = [t \in Thread |-> "idle"]
    /\ call' = [t \in Thread |-> NoCall]
    /\ flush' = 0
    /\ quiet' = TRUE
    /\ UNCHANGED <<slots, platter, link, reply>>

EndClose == pc["main"] = "flush" /\ flush = CACHE_SIZE /\ Gone

Crash == phase # "down" /\ Gone

LoseLink ==
    /\ phase # "down" /\ link = "up"
    /\ link' = "down"
    /\ UNCHANGED <<slots, platter, phase, pc, call, flush, reply, quiet>>

(* disk_init; the cache buffer comes from malloc with whatever it held. *)
Start(c) ==
    /\ phase = "down"
    /\ phase' = "up"
    /\ link' = "up"
    /\ ref' = [s \in Slot |-> -1]
    /\ blocks' = [s \in Slot |-> NoBlock]
    /\ cache' = c
    /\ victim' = 0
    /\ UNCHANGED <<platter, pc, call, flush, reply, quiet>>

Next ==
    \/ \E r \in Request : Call(r)
    \/ \E t \in Thread : DiskCall(t)
    \/ \E d \in Data : BeginClose(d)
    \/ FlushSlot \/ EndClose \/ Crash \/ LoseLink
    \/ \E c \in [Slot -> Data] : Start(c)

(* A runnable thread runs, and the disk server answers while it is there.  *)
Fairness ==
    /\ WF_vars(DiskCall("worker"))
    /\ WF_vars(DiskCall("main") \/ FlushSlot \/ EndClose)

Spec == Init /\ [][Next]_vars
FairSpec == Spec /\ Fairness

-----------------------------------------------------------------------------
(* Why the cache is coherent.  Everything below is promised only while no  *)
(* request overlaps a shutdown.                                            *)

Sound == phase = "up" \/ (phase = "closing" /\ quiet)

(* The slot a thread has filled but not yet relabelled. *)
Filling(s) == s = victim /\ \E t \in Thread : pc[t] = "install"

Holds(s, b) == blocks[s] = b /\ ~Filling(s)

(* No block is cached twice, and none of those being loaded is cached.     *)
DistinctLabels ==
    \A s, i \in Slot : blocks[s] = blocks[i] /\ blocks[s] # NoBlock => s = i

EmptyUnused == \A s \in Slot : ref[s] = -1 <=> blocks[s] = NoBlock

Running(t) == pc[t] \in {"lookup", "sweep", "fill", "install"}

(* Only the main thread is inside the layer during a quiet shutdown, and   *)
(* before it flushes it writes the superblock.                             *)
OneInside ==
    phase = "closing" =>
        /\ pc["worker"] = "idle"
        /\ Running("main") => /\ call["main"].op = "write"
                              /\ call["main"].blk = Super

Loading ==
    \A t \in Thread :
        /\ pc[t] \in {"sweep", "fill", "install"} =>
             \A s \in Slot : blocks[s] # call[t].blk
        /\ pc[t] \in {"fill", "install"} => ref[victim] # 1
        /\ pc[t] = "fill" /\ ref[victim] = 0 =>
             platter[blocks[victim]] = cache[victim]
        /\ pc[t] = "install" => cache[victim] = platter[call[t].blk]

(* What disk_close has passed is on the platter. *)
Flushed ==
    /\ Running("main") => flush = 0
    /\ phase = "closing" /\ link = "up" =>
         \A s \in Slot : s < flush /\ blocks[s] # NoBlock =>
                            platter[blocks[s]] = cache[s]

Coherent == DistinctLabels /\ EmptyUnused /\ OneInside /\ Loading /\ Flushed

(* A thread is where its phase allows, and inside disk.c it has a call.    *)
Threads ==
    /\ phase # "closing" => quiet /\ pc["main"] = "idle" /\ flush = 0
    /\ phase = "closing" => pc["main"] # "idle"
    /\ phase = "down" => pc["worker"] = "idle"
    /\ pc["worker"] # "flush"
    /\ pc["worker"] = "idle" <=> call["worker"] = NoCall
    /\ \A t \in Thread : Running(t) => call[t] # NoCall

IInv == TypeOK /\ Threads /\ (Sound => Coherent)

-----------------------------------------------------------------------------
(* What a read of each block would return. *)
Copies(b) == {s \in Slot : phase # "down" /\ Holds(s, b)}
View ==
    [b \in Block |-> IF Copies(b) = {} THEN platter[b]
                      ELSE cache[CHOOSE s \in Copies(b) : TRUE]]

Store == INSTANCE WriteBackStore
             WITH mem <- View, stable <- platter, request <- call["worker"]

(* The layer behaves as an array of blocks with a durable copy behind it:  *)
(* a read returns the last write whatever was evicted in between, a call   *)
(* that fails changes nothing a caller can see, the disk never receives    *)
(* anything but current contents, a quiet shutdown loses nothing, and a    *)
(* crash loses exactly what was not yet written back                       *)
(* (disk.c:disk_read, disk_write, disk_close).                             *)
Implements == Store!Spec

(* Mutex locks prevent data conflicts (Report.md, section 1): whenever the *)
(* disk server's copy of a block other than the superblock changes, it     *)
(* becomes what a read of that block returns.  The shutdown takes no lock, *)
(* and can flush a slot under its old label when a request has refilled it *)
(* and not yet relabelled it (disk.c:192, 193).                            *)
PlatterGetsCurrentData ==
    [][\A b \in Block \ {Super} :
           platter'[b] # platter[b] => platter'[b] = View[b]]_vars

(* A request that entered the layer leaves it, however many slots have a   *)
(* second chance to lose and whether or not the disk server answers        *)
(* (disk.c:disk_read and disk_write, the while loop), unless its thread is *)
(* lost in a message exchange.                                             *)
CallsReturn ==
    (pc["worker"] = "lookup") ~> (pc["worker"] \in {"idle", "dead"})

(* A shutdown that no request disturbs ends, unless the main thread is     *)
(* lost in a message exchange (disk.c:disk_close).                         *)
QuietCloseEnds ==
    (phase = "closing") ~> (phase = "down" \/ ~quiet \/ pc["main"] = "dead")
=============================================================================
