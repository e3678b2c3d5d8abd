--------------------------- MODULE WriteBackStore ---------------------------
(***************************************************************************)
(* What the disk layer of the file server promises to the layers above it, *)
(* with no cache in sight: an array of blocks that reads return and writes *)
(* replace, behind which a durable array follows at its own pace.          *)
(*                                                                         *)
(*   mem     what a read of each block returns now                         *)
(*   stable  what survives when the server process disappears              *)
(*   quiet   no request has met the shutdown that is under way             *)
(*                                                                         *)
(* DiskCache implements this module (DiskCache!Implements).                *)
(***************************************************************************)
CONSTANTS Block, Data, Super, NoCall, Written, Failed

VARIABLES mem, stable, request, reply, phase, link, quiet

vars == <<mem, stable, request, reply, phase, link, quiet>>

Request == [op : {"read", "write"}, blk : Block, val : Data]
Reply == Data \cup {Written, Failed}

Init ==
    /\ mem \in [Block -> Data]
    /\ stable = mem
    /\ request = NoCall
    /\ reply = Written
    /\ phase = "up"
    /\ link = "up"
    /\ quiet = TRUE

(* A read or a write is accepted; one is in progress at a time.  One that  *)
(* arrives during a shutdown spoils it.                                    *)
Call(r) ==
    /\ phase # "down" /\ request = NoCall
    /\ request' = r
    /\ quiet' = (phase = "up")
    /\ UNCHANGED <<mem, stable, reply, phase, link>>

(* A read answers with the last value written, and changes nothing. *)
FinishRead ==
    /\ phase = "up" /\ request # NoCall /\ request.op = "read"
    /\ reply' = mem[request.blk]
    /\ request' = NoCall
    /\ UNCHANGED <<mem, stable, phase, link, quiet>>

(* A write replaces exactly its own block. *)
FinishWrite ==
    /\ phase = "up" /\ request # NoCall /\ request.op = "write"
    /\ mem' = [mem EXCEPT ![request.blk] = request.val]
    /\ reply' = Written
    /\ request' = NoCall
    /\ UNCHANGED <<stable, phase, link, quiet>>

(* A call that cannot reach the disk fails and changes no block a caller   *)
(* sees, although an older block may have been saved on the way.           *)
FailCall ==
    /\ phase = "up" /\ request # NoCall
    /\ reply' = Failed
    /\ request' = NoCall
    /\ \/ stable' = stable
       \/ \E b \in Block : stable' = [stable EXCEPT ![b] = mem[b]]
    /\ link' = "down"
    /\ UNCHANGED <<mem, phase, quiet>>

(* The durable array only ever receives current contents. *)
SaveBlock(b) ==
    /\ phase # "down" /\ quiet
    /\ stable' = [stable EXCEPT ![b] = mem[b]]
    /\ link' \in {link, "down"}
    /\ UNCHANGED <<mem, request, reply, phase, quiet>>

LoseLink ==
    /\ phase # "down" /\ link = "up"
    /\ link' = "down"
    /\ UNCHANGED <<mem, stable, request, reply, phase, quiet>>

BeginClose ==
    /\ phase = "up"
    /\ phase' = "closing"
    /\ quiet' = (request = NoCall)
    /\ UNCHANGED <<mem, stable, request, reply, link>>

(* A quiet shutdown writes one block of its own, the superblock. *)
CloseWrite(d) ==
    /\ phase = "closing" /\ quiet
    /\ mem' = [mem EXCEPT ![Super] = d]
    /\ UNCHANGED <<stable, request, reply, phase, link, quiet>>

(* Nothing is promised while a request and a shutdown overlap. *)
Overlap ==
    /\ phase = "closing" /\ ~quiet
    /\ mem' \in [Block -> Data]
    /\ stable' \in [Block -> Data]
    /\ request' \in {request, NoCall}
    /\ reply' \in Reply
    /\ link' \in {link, "down"}
    /\ UNCHANGED <<phase, quiet>>

(* A quiet shutdown that could reach the disk has lost nothing. *)
EndClose ==
    /\ phase = "closing"
    /\ quiet /\ link = "up" => stable = mem
    /\ phase' = "down"
    /\ mem' = stable
    /\ request' = NoCall
    /\ quiet' = TRUE
    /\ UNCHANGED <<stable, reply, link>>

(* A crash forgets exactly what was not saved. *)
Crash ==
    /\ phase # "down"
    /\ phase' = "down"
    /\ mem' = stable
    /\ request' = NoCall
    /\ quiet' = TRUE
    /\ UNCHANGED <<stable, reply, link>>

Start ==
    /\ phase = "down"
    /\ phase' = "up"
    /\ link' = "up"
    /\ UNCHANGED <<mem, stable, request, reply, quiet>>

Next ==
    \/ \E r \in Request : Call(r)
    \/ \E b \in Block : SaveBlock(b)
    \/ \E d \in Data : CloseWrite(d)
    \/ FinishRead \/ FinishWrite \/ FailCall
    \/ LoseLink \/ BeginClose \/ Overlap \/ EndClose \/ Crash \/ Start

Spec == Init /\ [][Next]_vars
=============================================================================
