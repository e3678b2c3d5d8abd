--------------------------- MODULE DiskCacheProofs ---------------------------
(***************************************************************************)
(* The disk layer is coherent for every number of slots, blocks and        *)
(* contents.                                                               *)
(***************************************************************************)
EXTENDS DiskCache, TLAPS

(* The remainder in the clock hand's step stays among the slots. *)
LEMMA HandStaysInRange ==
    ASSUME NEW v \in Slot
    PROVE  (v + 1) % CACHE_SIZE \in Slot
  BY CacheSizeAssumption, SMT DEF Slot

(* A server that starts has well-typed state and idle threads (disk_init). *)
LEMMA InitTyped == Init => TypeOK /\ Threads
  BY CacheSizeAssumption, SMT
  DEF Init, TypeOK, Threads, Slot, Thread, Pc, Running

(* Typing and thread positions do not depend on the shutdown being quiet.  *)
LEMMA NextTyped ==
    ASSUME TypeOK, Threads, [Next]_vars
    PROVE  TypeOK' /\ Threads'
<1> USE CacheSizeAssumption, BlockAssumption, NoCallAssumption
<1> USE DEF TypeOK, Threads, Thread, Pc, Running
<1>1. ASSUME NEW r \in Request, Call(r)
      PROVE  TypeOK' /\ Threads'
  BY <1>1 DEF Call, slots
<1>2. ASSUME NEW t \in Thread, DiskCall(t)
      PROVE  TypeOK' /\ Threads'
  <2>1. \A s \in Slot : cache[s] \in Data
    OBVIOUS
  <2>2. ASSUME NEW r \in Data \cup {Written, Failed}, Return(t, r)
        PROVE  /\ pc' \in [Thread -> Pc]
               /\ call' \in [Thread -> Request \cup {NoCall}]
               /\ reply' \in Data \cup {Written, Failed}
    BY <2>2 DEF Return, After
  <2>3. CASE \E s \in Slot : ReadHit(t, s)
    BY <2>1, <2>2, <2>3 DEF ReadHit, Return, After
  <2>4. CASE \E s \in Slot : WriteHit(t, s)
    <3>1. PICK s \in Slot : WriteHit(t, s)
      BY <2>4
    <3>2. call[t] \in Request /\ call[t].val \in Data
      BY <3>1 DEF WriteHit, Request
    <3>3. TypeOK'
      BY <2>2, <3>1, <3>2 DEF WriteHit
    <3> QED
      BY <3>1, <3>3 DEF WriteHit, Return, After
  <2>5. CASE Miss(t)
    BY <2>5 DEF Miss, slots
  <2>6. CASE Sweep(t)
    BY <2>6, HandStaysInRange DEF Sweep, Advance
  <2>7. CASE FoundEmpty(t)
    BY <2>7 DEF FoundEmpty, slots
  <2>8. CASE Evict(t)
    BY <2>1, <2>8 DEF Evict, slots
  <2>9. CASE EvictUnconfirmed(t)
    BY <2>1, <2>2, <2>9 DEF EvictUnconfirmed, slots, Return, After
  <2>10. CASE EvictFail(t)
    BY <2>2, <2>10 DEF EvictFail, slots, Return, After
  <2>11. CASE Fill(t)
    <3>1. ASSUME NEW u \in Thread, pc[u] \in {"fill", "install"}
          PROVE  call[u] \in Request /\ call[u].blk \in Block
      BY <3>1 DEF Request
    <3>2. Sent(t) \subseteq Block
      BY <2>11, <3>1 DEF Sent, Fill
    <3>3. PICK b \in Block : cache' = [cache EXCEPT ![victim] = platter[b]]
      BY <2>11, <3>2 DEF Fill
    <3> QED
      BY <2>11, <3>3 DEF Fill
  <2>12. CASE FillFail(t)
    BY <2>2, <2>12 DEF FillFail, slots, Return, After
  <2>13. CASE Install(t)
    <3>1. call[t] \in Request /\ call[t].blk \in Block /\ call[t].val \in Data
      BY <2>13 DEF Install, Request
    <3>2. TypeOK'
      BY <2>1, <2>2, <2>13, <3>1, HandStaysInRange DEF Install, Advance
    <3> QED
      BY <2>13, <3>2 DEF Install, Return, After
  <2>14. CASE Hang(t)
    BY <2>14 DEF Hang, slots
  <2> QED
    BY <1>2, <2>3, <2>4, <2>5, <2>6, <2>7, <2>8, <2>9, <2>10, <2>11, <2>12,
       <2>13, <2>14 DEF DiskCall
<1>3. ASSUME NEW d \in Data, BeginClose(d)
      PROVE  TypeOK' /\ Threads'
  <2>1. [op |-> "write", blk |-> Super, val |-> d] \in Request
    BY DEF Request
  <2> QED
    BY <1>3, <2>1 DEF BeginClose, slots
<1>4. CASE FlushSlot
  <2>1. flush \in Slot /\ flush + 1 \in 0 .. CACHE_SIZE
    BY <1>4 DEF FlushSlot, Slot
  <2> QED
    BY <1>4, <2>1 DEF FlushSlot, slots
<1>5. CASE EndClose
  BY <1>5 DEF EndClose, Gone, slots
<1>6. CASE Crash
  BY <1>6 DEF Crash, Gone, slots
<1>7. CASE LoseLink
  BY <1>7 DEF LoseLink, slots
<1>8. ASSUME NEW c \in [Slot -> Data], Start(c)
      PROVE  TypeOK' /\ Threads'
  <2>1. 0 \in Slot
    BY DEF Slot
  <2> QED
    BY <1>8, <2>1 DEF Start
<1>9. CASE UNCHANGED vars
  BY <1>9 DEF vars
<1> QED
  BY <1>1, <1>2, <1>3, <1>4, <1>5, <1>6, <1>7, <1>8, <1>9 DEF Next

(* Every state is well typed, and each thread is where the phase of the    *)
(* server lets it be: only the main thread flushes, only during a          *)
(* shutdown, and a thread inside disk.c carries a call (disk.c, FS.c).     *)
THEOREM TypeCorrect == Spec => [](TypeOK /\ Threads)
<1>1. Init => TypeOK /\ Threads
  BY InitTyped
<1>2. (TypeOK /\ Threads) /\ [Next]_vars => (TypeOK /\ Threads)'
  BY NextTyped
<1> QED
  BY <1>1, <1>2, PTL DEF Spec

-----------------------------------------------------------------------------
(* Coherence, one action at a time.                                        *)

(* An empty cache is coherent (disk.c:disk_init). *)
LEMMA InitCoherent == Init => Coherent
  BY CacheSizeAssumption, BlockAssumption, SMT
  DEF Init, Coherent, DistinctLabels, EmptyUnused, OneInside, Loading,
      Flushed, Running, Slot, Thread

(* Two threads are never inside the layer at once while it is sound. *)
LEMMA Alone ==
    ASSUME TypeOK, Threads, Sound, Coherent, NEW t \in Thread, Running(t)
    PROVE  \A u \in Thread : Running(u) => u = t
  BY DEF Sound, Coherent, OneInside, Running, Thread, Threads, TypeOK, Pc

(* A request that arrives while the server is up disturbs nothing. *)
LEMMA CallCoherent ==
    ASSUME TypeOK, Threads, Sound => Coherent, NEW r \in Request, Call(r), Sound'
    PROVE  Coherent'
<1>1. phase = "up" /\ Sound /\ pc["worker"] = "idle"
  BY DEF Sound, Call, Threads
<1> QED
  BY <1>1, NoCallAssumption
  DEF Call, Coherent, DistinctLabels, EmptyUnused, OneInside, Loading,
      Flushed, Running, Thread, TypeOK, Pc, slots, Threads

(* A hit changes one slot that is not being loaded (disk.c:137, 171). *)
LEMMA HitCoherent ==
    ASSUME TypeOK, Threads, Sound => Coherent, NEW t \in Thread,
           NEW s \in Slot, ReadHit(t, s) \/ WriteHit(t, s), Sound'
    PROVE  Coherent'
<1>1. /\ Sound /\ Coherent /\ pc[t] = "lookup" /\ phase' = phase /\ quiet' = quiet
      /\ blocks[s] = call[t].blk /\ blocks' = blocks /\ platter' = platter
      /\ flush' = flush /\ link' = link /\ victim' = victim
  BY DEF ReadHit, WriteHit, Sound, FirstWith
<1>2. /\ ref' = [ref EXCEPT ![s] = 1]
      /\ pc' = [pc EXCEPT ![t] = After(t)]
      /\ call' = [call EXCEPT ![t] = NoCall]
      /\ \A i \in Slot : i # s => cache'[i] = cache[i]
  BY DEF ReadHit, WriteHit, Return, TypeOK
<1>3. \A u \in Thread : u # t => ~Running(u)
  BY <1>1, Alone DEF Running
<1>4. \A u \in Thread : ~Running(u)'
  BY <1>2, <1>3 DEF Running, TypeOK, After
<1>5. call[t].blk \in Block
  BY <1>1 DEF Threads, Running, TypeOK, Request
<1>6. DistinctLabels' /\ EmptyUnused'
  BY <1>1, <1>2, <1>5, BlockAssumption
  DEF Coherent, DistinctLabels, EmptyUnused, TypeOK
<1>7. OneInside'
  BY <1>1, <1>2, <1>4
  DEF Coherent, OneInside, TypeOK, After, Thread, Threads, Running, Sound
<1>8. Loading'
  BY <1>4 DEF Loading, Running
<1>9. Flushed'
  <2>1. CASE phase = "closing"
    <3>1. t = "main" /\ flush = 0
      BY <1>1, <2>1 DEF Coherent, OneInside, Flushed, Thread, Running
    <3> QED
      BY <1>1, <3>1, <1>4 DEF Flushed, Slot
  <2>2. CASE phase # "closing"
    BY <1>1, <2>2, <1>4 DEF Flushed, Thread
  <2> QED
    BY <2>1, <2>2
<1> QED
  BY <1>6, <1>7, <1>8, <1>9 DEF Coherent

(* A step that only moves the thread, the hand or a second chance.         *)
LEMMA SearchCoherent ==
    ASSUME TypeOK, Threads, Sound => Coherent, NEW t \in Thread,
           Miss(t) \/ Sweep(t) \/ FoundEmpty(t), Sound'
    PROVE  Coherent'
<1>1. /\ Sound /\ Coherent /\ Running(t) /\ pc[t] # "install"
      /\ phase' = phase /\ quiet' = quiet /\ blocks' = blocks
      /\ cache' = cache /\ platter' = platter /\ link' = link
      /\ flush' = flush /\ call' = call
  BY DEF Miss, Sweep, FoundEmpty, Sound, Running, slots
<1>2. \A u \in Thread : Running(u) => u = t
  BY <1>1, Alone
<1>3. /\ \A u \in Thread : u # t => pc'[u] = pc[u]
      /\ Running(t)' /\ pc'[t] # "install"
  BY DEF Miss, Sweep, FoundEmpty, TypeOK, Running
<1>4. DistinctLabels' /\ OneInside' /\ Flushed'
  BY <1>1, <1>2, <1>3
  DEF Coherent, DistinctLabels, OneInside, Flushed, Thread, Running
<1>5. EmptyUnused'
  BY <1>1
  DEF Coherent, EmptyUnused, Miss, Sweep, FoundEmpty, slots, TypeOK
<1>6. Loading'
  <2>1. \A u \in Thread : u # t => pc'[u] \notin {"sweep", "fill", "install"}
    BY <1>2, <1>3 DEF Running
  <2>2. CASE Miss(t)
    BY <1>1, <2>1, <2>2 DEF Miss, Loading, slots, TypeOK
  <2>3. CASE Sweep(t)
    BY <1>1, <2>1, <2>3 DEF Sweep, Loading, Coherent, TypeOK
  <2>4. CASE FoundEmpty(t)
    BY <1>1, <2>1, <2>4 DEF FoundEmpty, Loading, Coherent, slots, TypeOK
  <2> QED
    BY <2>2, <2>3, <2>4
<1> QED
  BY <1>4, <1>5, <1>6 DEF Coherent

(* Writing the victim out makes the platter agree with the cache. *)
LEMMA EvictCoherent ==
    ASSUME TypeOK, Threads, Sound => Coherent, NEW t \in Thread,
           Evict(t) \/ EvictUnconfirmed(t), Sound'
    PROVE  Coherent'
<1>1. /\ Sound /\ Coherent /\ pc[t] = "sweep" /\ ref[victim] = 0
      /\ phase' = phase /\ quiet' = quiet /\ flush' = flush
      /\ blocks' = blocks /\ cache' = cache /\ ref' = ref /\ victim' = victim
      /\ platter' = [platter EXCEPT ![blocks[victim]] = cache[victim]]
  BY DEF Evict, EvictUnconfirmed, Sound, slots
<1>2. \A u \in Thread : u # t => ~Running(u)
  BY <1>1, Alone DEF Running
<1>3. \A u \in Thread : u # t => pc'[u] = pc[u] /\ call'[u] = call[u]
  BY DEF Evict, EvictUnconfirmed, Return, TypeOK
<1>4. \/ pc'[t] = "fill" /\ call' = call /\ link' = link
      \/ pc'[t] = After(t) /\ call'[t] = NoCall
  BY DEF Evict, EvictUnconfirmed, Return, TypeOK
<1>5. blocks[victim] \in Block
  BY <1>1 DEF Coherent, EmptyUnused, TypeOK
<1>6. DistinctLabels' /\ EmptyUnused'
  BY <1>1 DEF Coherent, DistinctLabels, EmptyUnused
<1>7. OneInside'
  BY <1>1, <1>2, <1>3, <1>4
  DEF Coherent, OneInside, Running, After, Thread, Threads, Sound
<1>8. Loading'
  <2>1. \A u \in Thread : u # t => ~Running(u)'
    BY <1>2, <1>3 DEF Running
  <2>2. CASE pc'[t] = "fill" /\ call' = call
    BY <1>1, <1>5, <2>1, <2>2 DEF Loading, Coherent, Running, TypeOK
  <2>3. CASE pc'[t] = After(t)
    BY <2>1, <2>3 DEF Loading, Running, After
  <2> QED
    BY <1>4, <2>2, <2>3
<1>9. Flushed'
  <2>1. CASE phase = "closing"
    <3>1. t = "main" /\ flush = 0
      BY <1>1, <2>1 DEF Coherent, OneInside, Flushed, Thread, Running
    <3> QED
      BY <1>1, <3>1 DEF Flushed, Slot
  <2>2. CASE phase # "closing"
    BY <1>1, <1>2, <1>3, <1>4, <2>2
    DEF Flushed, Coherent, OneInside, Running, Thread, Sound, After
  <2> QED
    BY <2>1, <2>2
<1> QED
  BY <1>6, <1>7, <1>8, <1>9 DEF Coherent

(* A call that gives up leaves the cache as it was. *)
LEMMA GiveUpCoherent ==
    ASSUME TypeOK, Threads, Sound => Coherent, NEW t \in Thread,
           EvictFail(t) \/ FillFail(t) \/ Hang(t), Sound'
    PROVE  Coherent'
<1>1. /\ Sound /\ Coherent /\ pc[t] \in {"sweep", "fill", "flush"}
      /\ phase' = phase /\ quiet' = quiet /\ flush' = flush
      /\ blocks' = blocks /\ cache' = cache /\ ref' = ref /\ victim' = victim
      /\ platter' = platter /\ link' = link
  BY DEF EvictFail, FillFail, Hang, Sound, slots
<1>2. \A u \in Thread : u # t => pc'[u] = pc[u] /\ call'[u] = call[u]
  BY DEF EvictFail, FillFail, Hang, Return, TypeOK
<1>3. pc'[t] \in {After(t), "dead"} /\ ~Running(t)'
  BY DEF EvictFail, FillFail, Hang, Return, TypeOK, Running, After
<1>4. DistinctLabels' /\ EmptyUnused'
  BY <1>1 DEF Coherent, DistinctLabels, EmptyUnused
<1>5. OneInside'
  BY <1>1, <1>2, <1>3
  DEF Coherent, OneInside, Running, After, Thread, Threads, Sound
<1>6. Loading'
  BY <1>1, <1>2, <1>3 DEF Loading, Coherent, Running
<1>7. Flushed'
  BY <1>1, <1>2, <1>3 DEF Flushed, Coherent, Running, Thread
<1> QED
  BY <1>4, <1>5, <1>6, <1>7 DEF Coherent

(* The buffer of the victim changes while its old label still stands; the  *)
(* old block was saved just before, so nothing is lost.                    *)
LEMMA FillCoherent ==
    ASSUME TypeOK, Threads, Sound => Coherent, NEW t \in Thread, Fill(t), Sound'
    PROVE  Coherent'
<1>1. /\ Sound /\ Coherent /\ pc[t] = "fill" /\ Running(t)
  BY DEF Fill, Sound, Running
<1>2. \A u \in Thread : u # t => ~Running(u) /\ ~Running(u)'
  BY <1>1, Alone DEF Running, Fill, TypeOK
<1>3. call[t].blk \in Block
  BY <1>1 DEF Threads, TypeOK, Request
<1>4. DistinctLabels' /\ EmptyUnused' /\ OneInside'
  BY <1>1, <1>2
  DEF Fill, Coherent, DistinctLabels, EmptyUnused, OneInside, TypeOK,
      Running, Thread
<1>7. cache' = [cache EXCEPT ![victim] = platter[call[t].blk]]
  BY <1>1 DEF Fill, Sent, Sound, Threads
<1>5. Loading'
  BY <1>1, <1>2, <1>3, <1>7 DEF Fill, Loading, Coherent, TypeOK, Running
<1>6. Flushed'
  <2>1. CASE phase = "closing"
    <3>1. t = "main" /\ flush = 0
      BY <1>1, <2>1 DEF Coherent, OneInside, Flushed, Thread, Running
    <3> QED
      BY <1>1, <3>1 DEF Fill, Flushed, Slot
  <2>2. CASE phase # "closing"
    BY <1>1, <1>2, <2>2
    DEF Fill, Flushed, Coherent, OneInside, Running, Thread, Sound, TypeOK
  <2> QED
    BY <2>1, <2>2
<1> QED
  BY <1>4, <1>5, <1>6 DEF Coherent

(* A new label is not a duplicate: the block was absent when the search    *)
(* began and nobody else has loaded it since (disk.c:159, 193).            *)
LEMMA InstallCoherent ==
    ASSUME TypeOK, Threads, Sound => Coherent, NEW t \in Thread, Install(t), Sound'
    PROVE  Coherent'
<1>1. /\ Sound /\ Coherent /\ pc[t] = "install" /\ Running(t)
      /\ phase' = phase /\ flush' = flush /\ platter' = platter /\ link' = link
      /\ blocks' = [blocks EXCEPT ![victim] = call[t].blk]
      /\ ref' = [ref EXCEPT ![victim] = 1]
  BY DEF Install, Sound, Running
<1>2. /\ pc'[t] = After(t) /\ call'[t] = NoCall
      /\ \A u \in Thread : u # t => pc'[u] = pc[u] /\ call'[u] = call[u]
  BY DEF Install, Return, TypeOK
<1>3. \A u \in Thread : ~Running(u)'
  BY <1>1, <1>2, Alone DEF Running, After
<1>4. call[t].blk \in Block
  BY <1>1 DEF Threads, TypeOK, Request
<1>5. \A s \in Slot : blocks[s] # call[t].blk
  BY <1>1 DEF Coherent, Loading
<1>6. DistinctLabels' /\ EmptyUnused'
  BY <1>1, <1>4, <1>5, BlockAssumption
  DEF Coherent, DistinctLabels, EmptyUnused, TypeOK
<1>7. OneInside'
  BY <1>1, <1>2, <1>3
  DEF Coherent, OneInside, Running, After, Thread, Threads, Sound
<1>8. Loading'
  BY <1>3 DEF Loading, Running
<1>9. Flushed'
  <2>1. CASE phase = "closing"
    <3>1. t = "main" /\ flush = 0
      BY <1>1, <2>1 DEF Coherent, OneInside, Flushed, Thread, Running
    <3> QED
      BY <1>1, <1>3, <3>1 DEF Flushed, Slot
  <2>2. CASE phase # "closing"
    BY <1>1, <1>3, <2>2 DEF Flushed, Thread
  <2> QED
    BY <2>1, <2>2
<1> QED
  BY <1>6, <1>7, <1>8, <1>9 DEF Coherent

(* A shutdown that starts while no request is in service finds the layer   *)
(* to itself (FS.c:handle_sigint).                                         *)
LEMMA BeginCloseCoherent ==
    ASSUME TypeOK, Threads, Sound => Coherent, NEW d \in Data, BeginClose(d),
           Sound'
    PROVE  Coherent'
<1>1. /\ Sound /\ Coherent /\ pc["worker"] = "idle" /\ pc["main"] = "idle"
      /\ pc'["main"] = "lookup" /\ pc'["worker"] = "idle"
      /\ call'["main"] = [op |-> "write", blk |-> Super, val |-> d]
  BY DEF BeginClose, Sound, Threads, TypeOK, Thread
<1>2. flush = 0
  BY <1>1 DEF BeginClose, Threads
<1> QED
  BY <1>1, <1>2
  DEF BeginClose, Coherent, DistinctLabels, EmptyUnused, OneInside, Loading,
      Flushed, Running, Thread, slots, Slot

(* One turn of the flush adds a slot to what is on the platter (disk.c:67). *)
LEMMA FlushCoherent ==
    ASSUME TypeOK, Threads, Sound => Coherent, FlushSlot, Sound'
    PROVE  Coherent'
<1>1. /\ Sound /\ Coherent /\ flush \in Slot /\ pc["main"] = "flush"
      /\ pc' = pc /\ UNCHANGED slots /\ call' = call /\ phase' = phase
      /\ link' = link /\ flush' = flush + 1
  BY CacheSizeAssumption DEF FlushSlot, Sound, TypeOK, Slot
<1>2. phase = "closing"
  BY <1>1 DEF Threads, Sound
<1>3. \A u \in Thread : ~Running(u)
  BY <1>1, <1>2 DEF Coherent, OneInside, Running, Thread
<1>4. DistinctLabels' /\ EmptyUnused' /\ OneInside' /\ Loading'
  BY <1>1, <1>3
  DEF Coherent, DistinctLabels, EmptyUnused, OneInside, Loading, Running, slots
<1>5. Flushed'
  <2> SUFFICES ASSUME link = "up", NEW s \in Slot, s < flush + 1,
                      blocks[s] # NoBlock
               PROVE  platter'[blocks[s]] = cache[s]
    BY <1>1, <1>3 DEF Flushed, slots, Running, Thread
  <2>1. blocks[s] \in Block
    BY DEF TypeOK
  <2>2. CASE s = flush
    BY <1>1, <2>1, <2>2 DEF FlushSlot, Coherent, EmptyUnused, TypeOK
  <2>3. CASE s # flush
    <3>1. s < flush
      BY <2>3, <1>1, CacheSizeAssumption DEF Slot
    <3>2. platter[blocks[s]] = cache[s] /\ blocks[s] # blocks[flush]
      BY <1>1, <1>2, <2>3, <3>1 DEF Coherent, Flushed, DistinctLabels
    <3> QED
      BY <2>1, <3>2 DEF FlushSlot, TypeOK
  <2> QED
    BY <2>2, <2>3
<1> QED
  BY <1>4, <1>5 DEF Coherent

(* Every step of the system preserves coherence, as long as it is promised. *)
LEMMA NextCoherent ==
    ASSUME TypeOK, Threads, Sound => Coherent, [Next]_vars
    PROVE  (Sound => Coherent)'
<1> SUFFICES ASSUME Sound'
             PROVE  Coherent'
  OBVIOUS
<1>1. ASSUME NEW t \in Thread, DiskCall(t)
      PROVE  Coherent'
  BY <1>1, HitCoherent, SearchCoherent, EvictCoherent, GiveUpCoherent,
     FillCoherent, InstallCoherent DEF DiskCall
<1>2. CASE EndClose \/ Crash
  BY <1>2 DEF EndClose, Crash, Gone, Sound
<1>3. CASE LoseLink
  BY <1>3
  DEF LoseLink, Sound, Coherent, DistinctLabels, EmptyUnused, OneInside,
      Loading, Flushed, Running, slots
<1>4. ASSUME NEW c \in [Slot -> Data], Start(c)
      PROVE  Coherent'
  BY <1>4, CacheSizeAssumption
  DEF Start, Coherent, DistinctLabels, EmptyUnused, OneInside, Loading,
      Flushed, Running, Slot, Thread, Threads
<1>5. CASE UNCHANGED vars
  BY <1>5
  DEF vars, Sound, Coherent, DistinctLabels, EmptyUnused, OneInside,
      Loading, Flushed, Running
<1> QED
  BY <1>1, <1>2, <1>3, <1>4, <1>5, CallCoherent, BeginCloseCoherent,
     FlushCoherent DEF Next

(* While no request overlaps a shutdown, no block is cached twice, a slot  *)
(* is labelled exactly when it is in use, a slot about to be overwritten   *)
(* has been saved, and everything disk_close has passed is on the platter  *)
(* (disk.c, all of it), for every number of slots, blocks and contents.    *)
THEOREM CacheCoherent == Spec => []IInv
<1>1. Init => IInv
  BY InitTyped, InitCoherent DEF IInv
<1>2. IInv /\ [Next]_vars => IInv'
  BY NextTyped, NextCoherent DEF IInv
<1> QED
  BY <1>1, <1>2, PTL DEF Spec

-----------------------------------------------------------------------------
(* The refinement: what a read of each block would return, step by step.   *)

ViewFacts ==
    /\ TypeOK => View \in [Block -> Data]
    /\ TypeOK /\ phase = "down" => View = platter
    /\ TypeOK /\ DistinctLabels /\ phase # "down" =>
         \A b \in Block, s \in Slot : Holds(s, b) => View[b] = cache[s]
    /\ \A b \in Block :
         (\A s \in Slot : ~Holds(s, b)) => View[b] = platter[b]

(* A read returns the one cached copy, or else what the disk has.          *)
LEMMA ViewIs == ViewFacts
<1>1. ASSUME TypeOK
      PROVE  View \in [Block -> Data]
  <2> SUFFICES ASSUME NEW b \in Block
               PROVE  (IF Copies(b) = {} THEN platter[b]
                       ELSE cache[CHOOSE s \in Copies(b) : TRUE]) \in Data
    BY DEF View
  <2>1. Copies(b) # {} => (CHOOSE s \in Copies(b) : TRUE) \in Copies(b)
    OBVIOUS
  <2>2. Copies(b) \subseteq Slot
    BY DEF Copies
  <2> QED
    BY <1>1, <2>1, <2>2 DEF TypeOK
<1>2. ASSUME TypeOK, phase = "down"
      PROVE  View = platter
  <2>1. \A b \in Block : Copies(b) = {}
    BY <1>2 DEF Copies
  <2> QED
    BY <1>2, <2>1 DEF View, TypeOK
<1>3. ASSUME TypeOK, DistinctLabels, phase # "down", NEW b \in Block,
             NEW s \in Slot, Holds(s, b)
      PROVE  View[b] = cache[s]
  <2>1. \A i \in Slot : Holds(i, b) => i = s
    BY <1>3, BlockAssumption DEF DistinctLabels, Holds
  <2>2. Copies(b) = {s}
    BY <1>3, <2>1 DEF Copies
  <2>3. (CHOOSE i \in Copies(b) : TRUE) = s
    BY <2>2
  <2> QED
    BY <2>2, <2>3 DEF View
<1>4. ASSUME NEW b \in Block, \A s \in Slot : ~Holds(s, b)
      PROVE  View[b] = platter[b]
  <2>1. Copies(b) = {}
    BY <1>4 DEF Copies
  <2> QED
    BY <2>1 DEF View
<1> QED
  BY <1>1, <1>2, <1>3, <1>4 DEF ViewFacts

LEMMA ViewWillBe == ViewFacts'
  BY ViewIs, PTL

(* A step that moves neither data nor labels shows readers what they saw.  *)
LEMMA SameView ==
    ASSUME blocks' = blocks, cache' = cache, platter' = platter,
           phase' # "down" <=> phase # "down",
           \A s \in Slot : Filling(s)' <=> Filling(s)
    PROVE  View' = View
<1> DEFINE Seen(S, c, p, b) == IF S = {} THEN p[b] ELSE c[CHOOSE s \in S : TRUE]
<1>1. View = [b \in Block |-> Seen(Copies(b), cache, platter, b)]
  BY DEF View
<1>2. View' = [b \in Block |-> Seen(Copies(b)', cache', platter', b)]
  BY DEF View
<1>3. \A b \in Block : Copies(b)' = Copies(b)
  BY DEF Copies, Holds
<1> HIDE DEF Seen
<1>4. \A b \in Block : Seen(Copies(b)', cache', platter', b)
                        = Seen(Copies(b), cache, platter, b)
  BY <1>3
<1> QED
  BY <1>1, <1>2, <1>4

Readable ==
    /\ View \in [Block -> Data]
    /\ \A b \in Block, s \in Slot : Holds(s, b) => View[b] = cache[s]
    /\ \A b \in Block :
         (\A s \in Slot : ~Holds(s, b)) => View[b] = platter[b]

LEMMA SoundReadable == IInv /\ Sound => Readable
  BY ViewIs DEF ViewFacts, Readable, IInv, Coherent, Sound

LEMMA SoundStaysReadable == IInv' /\ Sound' => Readable'
  BY SoundReadable, PTL

(* Where a thread that moves in a sound state is: the worker serves a      *)
(* request while the server is up, or the main thread closes it alone.     *)
LEMMA SoundThreads ==
    ASSUME IInv, Sound, NEW t \in Thread, Running(t)
    PROVE  /\ call[t] \in Request
           /\ quiet
           /\ \A u \in Thread : u # t => ~Running(u)
           /\ t = "worker" => phase = "up"
           /\ t = "main" => /\ phase = "closing"
                            /\ call["main"].op = "write"
                            /\ call["main"].blk = Super
<1>1. TypeOK /\ Threads /\ Coherent
  BY DEF IInv
<1> QED
  BY <1>1, Alone
  DEF Sound, Coherent, OneInside, Threads, TypeOK, Running, Thread, Pc

(* A hit answers with what readers see, or replaces one block of it.       *)
LEMMA HitImplements ==
    ASSUME IInv, IInv', Sound, NEW t \in Thread, NEW s \in Slot,
           ReadHit(t, s) \/ WriteHit(t, s)
    PROVE  [Store!Next]_(Store!vars)
<1>1. Running(t) /\ TypeOK /\ TypeOK' /\ pc[t] = "lookup"
  BY DEF ReadHit, WriteHit, Running, IInv
<1>2. /\ call[t] \in Request /\ quiet
      /\ \A u \in Thread : u # t => ~Running(u)
      /\ t = "worker" => phase = "up"
      /\ t = "main" => phase = "closing" /\ call[t].op = "write"
                       /\ call[t].blk = Super
  BY <1>1, SoundThreads
<1>3. call[t].blk \in Block /\ call[t].val \in Data /\ call[t] # NoCall
  BY <1>2, NoCallAssumption DEF Request
<1>4. /\ blocks' = blocks /\ victim' = victim /\ platter' = platter
      /\ link' = link /\ phase' = phase /\ quiet' = quiet /\ Sound'
  BY DEF ReadHit, WriteHit, Sound
<1>5. /\ \A u \in Thread : pc[u] # "install"
      /\ \A u \in Thread : pc'[u] # "install"
  BY <1>1, <1>2 DEF ReadHit, WriteHit, Return, After, Running, TypeOK
<1>6. \A i \in Slot : ~Filling(i) /\ ~Filling(i)'
  BY <1>5 DEF Filling
<1>7. /\ \A i \in Slot, b \in Block : Holds(i, b) <=> blocks[i] = b
      /\ \A i \in Slot, b \in Block : Holds(i, b)' <=> blocks[i] = b
  BY <1>4, <1>6 DEF Holds
<1>8. blocks[s] = call[t].blk
  BY DEF ReadHit, WriteHit, FirstWith
<1>9. CASE ReadHit(t, s)
  <2>1. View' = View
    BY <1>4, <1>6, <1>9, SameView DEF ReadHit
  <2>2. t = "worker"
    BY <1>2, <1>9 DEF ReadHit, Thread
  <2>3. View[call[t].blk] = cache[s]
    BY <1>3, <1>7, <1>8, SoundReadable DEF Readable
  <2>4. reply' = cache[s] /\ call'["worker"] = NoCall
    BY <1>1, <1>9, <2>2 DEF ReadHit, Return, TypeOK
  <2>5. Store!FinishRead
    BY <1>2, <1>3, <1>4, <1>9, <2>1, <2>2, <2>3, <2>4
    DEF Store!FinishRead, ReadHit
  <2> QED
    BY <2>5 DEF Store!Next
<1>10. CASE WriteHit(t, s)
  <2>1. /\ cache' = [cache EXCEPT ![s] = call[t].val]
        /\ cache \in [Slot -> Data]
    BY <1>1, <1>10 DEF WriteHit, TypeOK
  <2>2. View \in [Block -> Data] /\ View' \in [Block -> Data]
    BY <1>4, SoundReadable, SoundStaysReadable DEF Readable
  <2>3. View'[call[t].blk] = call[t].val
    BY <1>3, <1>4, <1>7, <1>8, <2>1, SoundStaysReadable DEF Readable
  <2>4. ASSUME NEW b \in Block, b # call[t].blk
        PROVE  View'[b] = View[b]
    <3>1. CASE \E i \in Slot : blocks[i] = b
      <4>1. PICK i \in Slot : blocks[i] = b
        BY <3>1
      <4>2. View[b] = cache[i]
        BY <1>7, <4>1, SoundReadable DEF Readable
      <4>3. View'[b] = cache'[i]
        BY <1>4, <1>7, <4>1, SoundStaysReadable DEF Readable
      <4> QED
        BY <1>8, <2>1, <2>4, <4>1, <4>2, <4>3
    <3>2. CASE \A i \in Slot : blocks[i] # b
      <4>1. View[b] = platter[b]
        BY <1>7, <3>2, SoundReadable DEF Readable
      <4>2. View'[b] = platter'[b]
        BY <1>4, <1>7, <3>2, SoundStaysReadable DEF Readable
      <4> QED
        BY <1>4, <4>1, <4>2
    <3> QED
      BY <3>1, <3>2
  <2>5. View' = [View EXCEPT ![call[t].blk] = call[t].val]
    BY <1>3, <2>2, <2>3, <2>4
  <2>6. CASE t = "worker"
    <3>1. reply' = Written /\ call'["worker"] = NoCall
      BY <1>1, <1>10, <2>6 DEF WriteHit, Return, TypeOK
    <3>2. Store!FinishWrite
      BY <1>2, <1>3, <1>4, <1>10, <2>5, <2>6, <3>1
      DEF Store!FinishWrite, WriteHit
    <3> QED
      BY <3>2 DEF Store!Next
  <2>7. CASE t = "main"
    <3>1. reply' = reply /\ call'["worker"] = call["worker"]
      BY <1>1, <1>10, <2>7 DEF WriteHit, Return, TypeOK, Thread
    <3>2. Store!CloseWrite(call[t].val)
      BY <1>2, <1>4, <2>5, <2>7, <3>1 DEF Store!CloseWrite
    <3> QED
      BY <1>3, <3>2 DEF Store!Next
  <2> QED
    BY <2>6, <2>7 DEF Thread
<1> QED
  BY <1>9, <1>10

(* A search, or a thread that is lost, shows nothing.                      *)
LEMMA SearchImplements ==
    ASSUME IInv, IInv', Sound, NEW t \in Thread,
           Miss(t) \/ Sweep(t) \/ FoundEmpty(t) \/ Hang(t)
    PROVE  UNCHANGED Store!vars
<1>1. TypeOK /\ TypeOK'
  BY DEF IInv
<1>2. /\ blocks' = blocks /\ cache' = cache /\ platter' = platter
      /\ link' = link /\ phase' = phase /\ quiet' = quiet /\ call' = call
      /\ reply' = reply
  BY DEF Miss, Sweep, FoundEmpty, Hang, slots
<1>3. pc[t] # "install" /\ pc'[t] # "install"
  BY <1>1 DEF Miss, Sweep, FoundEmpty, Hang, TypeOK
<1>4. \A u \in Thread : u # t => pc'[u] = pc[u]
  BY <1>1 DEF Miss, Sweep, FoundEmpty, Hang, TypeOK
<1>5. \A s \in Slot : Filling(s)' <=> Filling(s)
  <2>1. CASE Sweep(t)
    <3>1. Running(t) /\ pc' = pc
      BY <2>1 DEF Sweep, Running
    <3>2. \A u \in Thread : pc[u] # "install"
      BY <1>3, <3>1, SoundThreads DEF Running
    <3> QED
      BY <3>1, <3>2 DEF Filling
  <2>2. CASE ~Sweep(t)
    <3>1. victim' = victim
      BY <2>2 DEF Miss, FoundEmpty, Hang, slots
    <3> QED
      BY <1>3, <1>4, <3>1 DEF Filling
  <2> QED
    BY <2>1, <2>2
<1>6. View' = View
  BY <1>2, <1>5, SameView
<1> QED
  BY <1>2, <1>6 DEF Store!vars

(* A slot in use is written to the disk as readers see it: by an eviction  *)
(* (disk.c:144) or by the flush of a shutdown (disk.c:67).                 *)
LEMMA SaveShowsNothing ==
    ASSUME IInv, IInv', Sound, Sound', NEW s \in Slot, ref[s] # -1,
           \A u \in Thread : pc[u] # "install",
           \A u \in Thread : pc'[u] # "install",
           UNCHANGED slots,
           platter' = [platter EXCEPT ![blocks[s]] = cache[s]]
    PROVE  /\ blocks[s] \in Block
           /\ View' = View
           /\ platter' = [platter EXCEPT ![blocks[s]] = View[blocks[s]]]
<1>1. TypeOK /\ Coherent
  BY DEF IInv
<1>2. blocks[s] \in Block
  BY <1>1 DEF Coherent, EmptyUnused, TypeOK
<1>3. /\ \A i \in Slot, b \in Block : Holds(i, b) <=> blocks[i] = b
      /\ \A i \in Slot, b \in Block : Holds(i, b)' <=> blocks[i] = b
  BY DEF Holds, Filling, slots
<1>4. View[blocks[s]] = cache[s]
  BY <1>2, <1>3, SoundReadable DEF Readable
<1>5. ASSUME NEW b \in Block
      PROVE  View'[b] = View[b]
  <2>1. CASE \E i \in Slot : blocks[i] = b
    <3>1. PICK i \in Slot : blocks[i] = b
      BY <2>1
    <3>2. View[b] = cache[i]
      BY <1>3, <3>1, SoundReadable DEF Readable
    <3>3. View'[b] = cache'[i]
      BY <1>3, <3>1, SoundStaysReadable DEF Readable
    <3> QED
      BY <3>2, <3>3 DEF slots
  <2>2. CASE \A i \in Slot : blocks[i] # b
    <3>1. View[b] = platter[b]
      BY <1>3, <2>2, SoundReadable DEF Readable
    <3>2. View'[b] = platter'[b]
      BY <1>3, <2>2, SoundStaysReadable DEF Readable
    <3> QED
      BY <1>1, <1>2, <2>2, <3>1, <3>2 DEF TypeOK
  <2> QED
    BY <2>1, <2>2
<1>6. View \in [Block -> Data] /\ View' \in [Block -> Data]
  BY SoundReadable, SoundStaysReadable DEF Readable
<1> QED
  BY <1>2, <1>4, <1>5, <1>6

(* Evicting a block saves it; when the answer is lost the call fails.      *)
LEMMA EvictImplements ==
    ASSUME IInv, IInv', Sound, NEW t \in Thread,
           Evict(t) \/ EvictUnconfirmed(t)
    PROVE  [Store!Next]_(Store!vars)
<1>1. TypeOK /\ TypeOK' /\ Running(t) /\ ref[victim] = 0 /\ victim \in Slot
  BY DEF IInv, Evict, EvictUnconfirmed, Running, TypeOK
<1>2. /\ call[t] \in Request /\ call[t] # NoCall /\ quiet
      /\ \A u \in Thread : u # t => ~Running(u)
      /\ t = "worker" => phase = "up"
      /\ t = "main" => phase = "closing"
  BY <1>1, SoundThreads, NoCallAssumption
<1>3. /\ UNCHANGED slots /\ phase' = phase /\ quiet' = quiet /\ Sound'
      /\ platter' = [platter EXCEPT ![blocks[victim]] = cache[victim]]
  BY DEF Evict, EvictUnconfirmed, Sound
<1>4. /\ \A u \in Thread : pc[u] # "install"
      /\ \A u \in Thread : pc'[u] # "install"
  BY <1>1, <1>2
  DEF Evict, EvictUnconfirmed, Return, After, Running, TypeOK
<1>5. /\ blocks[victim] \in Block
      /\ View' = View
      /\ platter' = [platter EXCEPT ![blocks[victim]] = View[blocks[victim]]]
  <2>1. ref[victim] # -1
    BY <1>1
  <2> QED
    BY <1>1, <1>3, <1>4, <2>1, SaveShowsNothing DEF slots
<1>6. CASE Evict(t)
  <2>1. Store!SaveBlock(blocks[victim])
    BY <1>2, <1>3, <1>5, <1>6 DEF Store!SaveBlock, Evict, Thread
  <2> QED
    BY <1>5, <2>1 DEF Store!Next
<1>7. CASE EvictUnconfirmed(t)
  <2>1. link' = "down"
    BY <1>2, <1>7 DEF EvictUnconfirmed
  <2>2. CASE t = "worker"
    <3>1. reply' = Failed /\ call'["worker"] = NoCall
      BY <1>1, <1>7, <2>2 DEF EvictUnconfirmed, Return, TypeOK
    <3>2. Store!FailCall
      BY <1>2, <1>3, <1>5, <2>1, <2>2, <3>1 DEF Store!FailCall
    <3> QED
      BY <3>2 DEF Store!Next
  <2>3. CASE t = "main"
    <3>1. reply' = reply /\ call'["worker"] = call["worker"]
      BY <1>1, <1>7, <2>3 DEF EvictUnconfirmed, Return, TypeOK, Thread
    <3>2. Store!SaveBlock(blocks[victim])
      BY <1>2, <1>3, <1>5, <2>1, <2>3, <3>1 DEF Store!SaveBlock
    <3> QED
      BY <1>5, <3>2 DEF Store!Next
  <2> QED
    BY <2>2, <2>3 DEF Thread
<1> QED
  BY <1>6, <1>7

(* A call that gives up shows its caller the failure and nothing else.     *)
LEMMA GiveUpImplements ==
    ASSUME IInv, IInv', Sound, NEW t \in Thread, EvictFail(t) \/ FillFail(t)
    PROVE  [Store!Next]_(Store!vars)
<1>1. TypeOK /\ Running(t) /\ pc[t] # "install"
  BY DEF IInv, EvictFail, FillFail, Running
<1>2. /\ call[t] \in Request /\ call[t] # NoCall /\ quiet
      /\ t = "worker" => phase = "up"
  BY <1>1, SoundThreads, NoCallAssumption
<1>3. /\ UNCHANGED <<slots, platter, link, phase, flush, quiet>>
      /\ Return(t, Failed) /\ link = "down"
  BY <1>2 DEF EvictFail, FillFail, Unanswered
<1>4. \A u \in Thread : pc'[u] = "install" <=> pc[u] = "install"
  BY <1>1, <1>3 DEF Return, After, TypeOK
<1>5. View' = View
  BY <1>3, <1>4, SameView DEF slots, Filling
<1>6. CASE t = "worker"
  <2>1. reply' = Failed /\ call'["worker"] = NoCall
    BY <1>1, <1>3, <1>6 DEF Return, TypeOK
  <2>2. Store!FailCall
    BY <1>2, <1>3, <1>5, <1>6, <2>1 DEF Store!FailCall
  <2> QED
    BY <2>2 DEF Store!Next
<1>7. CASE t = "main"
  <2>1. reply' = reply /\ call'["worker"] = call["worker"]
    BY <1>1, <1>3, <1>7 DEF Return, TypeOK, Thread
  <2> QED
    BY <1>3, <1>5, <2>1 DEF Store!vars
<1> QED
  BY <1>6, <1>7 DEF Thread

(* The victim's buffer is overwritten while readers still have a use for   *)
(* its block: what it held is on the disk by then (disk.c:152).            *)
LEMMA FillImplements ==
    ASSUME IInv, IInv', Sound, NEW t \in Thread, Fill(t)
    PROVE  UNCHANGED Store!vars
<1>1. TypeOK /\ TypeOK' /\ Coherent /\ Running(t) /\ pc[t] = "fill"
  BY DEF IInv, Fill, Running
<1>2. /\ UNCHANGED <<ref, blocks, victim, platter, link, phase, call, flush,
                     reply, quiet>>
      /\ Sound' /\ \A i \in Slot : i # victim => cache'[i] = cache[i]
  BY <1>1 DEF Fill, Sound, TypeOK
<1>3. \A u \in Thread : pc[u] # "install"
  BY <1>1, SoundThreads DEF Running
<1>4. pc'[t] = "install"
  BY <1>1 DEF Fill, TypeOK
<1>5. /\ \A i \in Slot, b \in Block : Holds(i, b) <=> blocks[i] = b
      /\ \A i \in Slot, b \in Block :
           Holds(i, b)' <=> blocks[i] = b /\ i # victim
  BY <1>2, <1>3, <1>4 DEF Holds, Filling
<1>6. ASSUME NEW b \in Block
      PROVE  View'[b] = View[b]
  <2>1. CASE \E i \in Slot : i # victim /\ blocks[i] = b
    <3>1. PICK i \in Slot : i # victim /\ blocks[i] = b
      BY <2>1
    <3>2. View[b] = cache[i]
      BY <1>5, <3>1, SoundReadable DEF Readable
    <3>3. View'[b] = cache'[i]
      BY <1>2, <1>5, <3>1, SoundStaysReadable DEF Readable
    <3> QED
      BY <1>2, <3>1, <3>2, <3>3
  <2>2. CASE \A i \in Slot : i # victim => blocks[i] # b
    <3>1. View'[b] = platter[b]
      BY <1>2, <1>5, <2>2, SoundStaysReadable DEF Readable
    <3>2. CASE blocks[victim] = b
      <4>1. ref[victim] # -1 /\ ref[victim] # 1 /\ ref[victim] \in {-1, 0, 1}
        BY <1>1, <3>2, BlockAssumption
        DEF Coherent, EmptyUnused, Loading, TypeOK
      <4>2. ref[victim] = 0
        BY <4>1
      <4>3. platter[b] = cache[victim]
        BY <1>1, <3>2, <4>2 DEF Coherent, Loading
      <4>4. View[b] = cache[victim]
        BY <1>1, <1>5, <3>2, SoundReadable DEF Readable, TypeOK
      <4> QED
        BY <3>1, <4>3, <4>4
    <3>3. CASE blocks[victim] # b
      <4>1. View[b] = platter[b]
        BY <1>5, <2>2, <3>3, SoundReadable DEF Readable
      <4> QED
        BY <3>1, <4>1
    <3> QED
      BY <3>2, <3>3
  <2> QED
    BY <2>1, <2>2
<1>7. View \in [Block -> Data] /\ View' \in [Block -> Data]
  BY <1>2, SoundReadable, SoundStaysReadable DEF Readable
<1>8. View' = View
  BY <1>6, <1>7
<1> QED
  BY <1>2, <1>8 DEF Store!vars

(* The loaded block becomes readable with the bytes a read of it returned  *)
(* before, or with the caller's (disk.c:159, 193).                         *)
LEMMA InstallImplements ==
    ASSUME IInv, IInv', Sound, NEW t \in Thread, Install(t)
    PROVE  [Store!Next]_(Store!vars)
<1>1. /\ TypeOK /\ TypeOK' /\ Coherent /\ Running(t) /\ pc[t] = "install"
      /\ victim \in Slot
  BY DEF IInv, Install, Running, TypeOK
<1>2. /\ call[t] \in Request /\ quiet
      /\ \A u \in Thread : u # t => ~Running(u)
      /\ t = "worker" => phase = "up"
      /\ t = "main" => phase = "closing" /\ call[t].op = "write"
                       /\ call[t].blk = Super
  BY <1>1, SoundThreads
<1>3. /\ call[t].blk \in Block /\ call[t].val \in Data /\ call[t] # NoCall
      /\ call[t].op \in {"read", "write"}
  BY <1>2, NoCallAssumption DEF Request
<1>4. /\ platter' = platter /\ link' = link /\ phase' = phase
      /\ quiet' = quiet /\ Sound'
      /\ blocks' = [blocks EXCEPT ![victim] = call[t].blk]
  BY DEF Install, Sound
<1>5. \A u \in Thread : pc'[u] # "install"
  BY <1>1, <1>2 DEF Install, Return, After, Running, TypeOK
<1>6. /\ \A i \in Slot, b \in Block :
           Holds(i, b) <=> blocks[i] = b /\ i # victim
      /\ \A i \in Slot, b \in Block : Holds(i, b)' <=> blocks'[i] = b
  BY <1>1, <1>5 DEF Holds, Filling
<1>7. /\ \A i \in Slot : blocks[i] # call[t].blk
      /\ cache[victim] = platter[call[t].blk]
  BY <1>1 DEF Coherent, Loading
<1>8. blocks'[victim] = call[t].blk /\ \A i \in Slot : i # victim => blocks'[i] = blocks[i]
  BY <1>1, <1>4 DEF TypeOK
<1>9. \A i \in Slot : i # victim => cache'[i] = cache[i]
  BY <1>1 DEF Install, TypeOK
<1>10. View[call[t].blk] = cache[victim] /\ View'[call[t].blk] = cache'[victim]
  <2>1. View[call[t].blk] = platter[call[t].blk]
    BY <1>3, <1>6, <1>7, SoundReadable DEF Readable
  <2>2. View'[call[t].blk] = cache'[victim]
    BY <1>1, <1>3, <1>4, <1>6, <1>8, SoundStaysReadable DEF Readable
  <2> QED
    BY <1>7, <2>1, <2>2
<1>11. ASSUME NEW b \in Block, b # call[t].blk
       PROVE  View'[b] = View[b]
  <2>1. CASE \E i \in Slot : i # victim /\ blocks[i] = b
    <3>1. PICK i \in Slot : i # victim /\ blocks[i] = b
      BY <2>1
    <3>2. View[b] = cache[i]
      BY <1>6, <3>1, SoundReadable DEF Readable
    <3>3. View'[b] = cache'[i]
      BY <1>4, <1>6, <1>8, <3>1, SoundStaysReadable DEF Readable
    <3> QED
      BY <1>9, <3>1, <3>2, <3>3
  <2>2. CASE \A i \in Slot : i # victim => blocks[i] # b
    <3>1. View[b] = platter[b]
      BY <1>6, <2>2, SoundReadable DEF Readable
    <3>2. View'[b] = platter'[b]
      BY <1>4, <1>6, <1>8, <1>11, <2>2, SoundStaysReadable DEF Readable
    <3> QED
      BY <1>4, <3>1, <3>2
  <2> QED
    BY <2>1, <2>2
<1>12. View \in [Block -> Data] /\ View' \in [Block -> Data]
  BY <1>4, SoundReadable, SoundStaysReadable DEF Readable
<1>13. View' = [View EXCEPT ![call[t].blk] = cache'[victim]]
  BY <1>3, <1>10, <1>11, <1>12
<1>14. CASE call[t].op = "read"
  <2>1. t = "worker"
    BY <1>2, <1>14 DEF Thread
  <2>2. cache' = cache /\ reply' = cache[victim] /\ call'["worker"] = NoCall
    BY <1>1, <1>14, <2>1 DEF Install, Return, TypeOK
  <2>3. View' = View
    BY <1>3, <1>10, <1>12, <1>13, <2>2
  <2>4. Store!FinishRead
    BY <1>2, <1>3, <1>4, <1>10, <1>14, <2>1, <2>2, <2>3 DEF Store!FinishRead
  <2> QED
    BY <2>4 DEF Store!Next
<1>15. CASE call[t].op = "write"
  <2>1. cache'[victim] = call[t].val
    BY <1>1, <1>15 DEF Install, TypeOK
  <2>2. CASE t = "worker"
    <3>1. reply' = Written /\ call'["worker"] = NoCall
      BY <1>1, <1>15, <2>2 DEF Install, Return, TypeOK
    <3>2. Store!FinishWrite
      BY <1>2, <1>3, <1>4, <1>13, <1>15, <2>1, <2>2, <3>1 DEF Store!FinishWrite
    <3> QED
      BY <3>2 DEF Store!Next
  <2>3. CASE t = "main"
    <3>1. reply' = reply /\ call'["worker"] = call["worker"]
      BY <1>1, <1>15, <2>3 DEF Install, Return, TypeOK, Thread
    <3>2. Store!CloseWrite(call[t].val)
      BY <1>2, <1>4, <1>13, <2>1, <2>3, <3>1 DEF Store!CloseWrite
    <3> QED
      BY <1>3, <3>2 DEF Store!Next
  <2> QED
    BY <2>2, <2>3 DEF Thread
<1> QED
  BY <1>3, <1>14, <1>15

(* One turn of disk_close's loop saves a slot, or skips it. *)
LEMMA FlushImplements ==
    ASSUME IInv, IInv', Sound, FlushSlot
    PROVE  [Store!Next]_(Store!vars)
<1>1. /\ TypeOK /\ Threads /\ Coherent /\ flush \in Slot
      /\ pc["main"] = "flush" /\ phase = "closing" /\ quiet
  BY CacheSizeAssumption DEF IInv, FlushSlot, TypeOK, Slot, Threads, Sound
<1>2. /\ UNCHANGED <<slots, link, phase, pc, call, reply, quiet>>
      /\ Sound'
  BY DEF FlushSlot, Sound
<1>3. /\ \A u \in Thread : pc[u] # "install"
      /\ \A u \in Thread : pc'[u] # "install"
  BY <1>1, <1>2 DEF Coherent, OneInside, Thread
<1>4. CASE ref[flush] # -1 /\ link = "up"
  <2>1. platter' = [platter EXCEPT ![blocks[flush]] = cache[flush]]
    BY <1>4 DEF FlushSlot
  <2>2. /\ blocks[flush] \in Block
        /\ View' = View
        /\ platter' = [platter EXCEPT ![blocks[flush]] = View[blocks[flush]]]
    BY <1>1, <1>2, <1>3, <1>4, <2>1, SaveShowsNothing
  <2>3. Store!SaveBlock(blocks[flush])
    BY <1>1, <1>2, <2>2 DEF Store!SaveBlock
  <2> QED
    BY <2>2, <2>3 DEF Store!Next
<1>5. CASE ~(ref[flush] # -1 /\ link = "up")
  <2>1. platter' = platter
    BY <1>5 DEF FlushSlot
  <2>2. View' = View
    BY <1>2, <2>1, SameView DEF slots, Filling
  <2> QED
    BY <1>2, <2>1, <2>2 DEF Store!vars
<1> QED
  BY <1>4, <1>5

(* A quiet shutdown that could reach the disk ends with nothing lost: the  *)
(* loop has passed every slot (disk.c:disk_close).                         *)
LEMMA EndCloseImplements ==
    ASSUME IInv, IInv', EndClose
    PROVE  Store!EndClose
<1>1. TypeOK /\ TypeOK' /\ Threads /\ phase = "closing"
  BY DEF IInv, EndClose, Threads
<1>2. /\ phase' = "down" /\ call'["worker"] = NoCall /\ quiet' = TRUE
      /\ UNCHANGED <<platter, link, reply>>
  BY DEF EndClose, Gone, Thread
<1>3. View' = platter
  BY <1>1, <1>2, ViewWillBe DEF ViewFacts
<1>4. ASSUME quiet, link = "up"
      PROVE  platter = View
  <2>1. Sound /\ Coherent
    BY <1>1, <1>4 DEF IInv, Sound
  <2>2. \A u \in Thread : pc[u] # "install"
    BY <1>1, <2>1 DEF Coherent, OneInside, Thread, EndClose
  <2>3. \A i \in Slot, b \in Block : Holds(i, b) <=> blocks[i] = b
    BY <2>2 DEF Holds, Filling
  <2>4. ASSUME NEW b \in Block
        PROVE  View[b] = platter[b]
    <3>1. CASE \E i \in Slot : blocks[i] = b
      <4>1. PICK i \in Slot : blocks[i] = b
        BY <3>1
      <4>2. i < flush /\ b # NoBlock
        BY BlockAssumption, CacheSizeAssumption DEF EndClose, Slot
      <4>3. platter[b] = cache[i]
        BY <1>1, <1>4, <2>1, <4>1, <4>2 DEF Coherent, Flushed
      <4>4. View[b] = cache[i]
        BY <2>1, <2>3, <4>1, SoundReadable DEF Readable
      <4> QED
        BY <4>3, <4>4
    <3>2. CASE \A i \in Slot : blocks[i] # b
      BY <2>1, <2>3, <3>2, SoundReadable DEF Readable
    <3> QED
      BY <3>1, <3>2
  <2>5. View \in [Block -> Data]
    BY <2>1, SoundReadable DEF Readable
  <2> QED
    BY <1>1, <2>4, <2>5 DEF TypeOK
<1> QED
  BY <1>1, <1>2, <1>3, <1>4 DEF Store!EndClose

(* While a request and a shutdown overlap nothing is promised, but what    *)
(* the two threads do stays inside the layer.                              *)
LEMMA OverlapImplements ==
    ASSUME IInv, IInv', ~Sound,
           (\E t \in Thread : DiskCall(t)) \/ FlushSlot
    PROVE  Store!Overlap
<1>1. TypeOK /\ TypeOK' /\ Threads /\ phase = "closing" /\ ~quiet
  <2>1. TypeOK /\ TypeOK' /\ Threads
    BY DEF IInv
  <2>2. phase # "down"
    BY <2>1
    DEF Threads, Thread, DiskCall, ReadHit, WriteHit, Miss, Sweep, FoundEmpty,
        Evict, EvictUnconfirmed, EvictFail, Fill, FillFail, Install, Hang,
        FlushSlot, TypeOK
  <2> QED
    BY <2>1, <2>2 DEF Sound, TypeOK
<1>2. View' \in [Block -> Data] /\ platter' \in [Block -> Data]
  BY <1>1, ViewWillBe DEF ViewFacts, TypeOK
<1>3. phase' = phase /\ quiet' = quiet
  BY DEF DiskCall, ReadHit, WriteHit, Miss, Sweep, FoundEmpty, Evict,
         EvictUnconfirmed, EvictFail, Fill, FillFail, Install, Hang, FlushSlot
<1>4. link' \in {link, "down"}
  BY DEF DiskCall, ReadHit, WriteHit, Miss, Sweep, FoundEmpty, Evict,
         EvictUnconfirmed, EvictFail, Fill, FillFail, Install, Hang, FlushSlot
<1>5. call'["worker"] \in {call["worker"], NoCall}
  BY <1>1
  DEF DiskCall, ReadHit, WriteHit, Miss, Sweep, FoundEmpty, Evict,
      EvictUnconfirmed, EvictFail, Fill, FillFail, Install, Hang, FlushSlot,
      Return, TypeOK, Thread
<1>6. reply' \in Data \cup {Written, Failed}
  BY <1>1 DEF TypeOK
<1> QED
  BY <1>1, <1>2, <1>3, <1>4, <1>5, <1>6 DEF Store!Overlap, Store!Reply

(* Every step of the layer is one of the store, or invisible to it.        *)
LEMMA NextImplements ==
    ASSUME IInv, IInv', [Next]_vars
    PROVE  [Store!Next]_(Store!vars)
<1>1. TypeOK /\ TypeOK' /\ Threads /\ Threads'
  BY DEF IInv
<1>2. ASSUME NEW r \in Request, Call(r)
      PROVE  [Store!Next]_(Store!vars)
  <2>1. /\ UNCHANGED <<slots, platter, link, phase, flush, reply>>
        /\ call'["worker"] = r /\ call["worker"] = NoCall
        /\ quiet' = (phase = "up") /\ phase # "down"
    BY <1>1, <1>2 DEF Call, Threads, TypeOK, Thread
  <2>2. \A u \in Thread : pc'[u] = "install" <=> pc[u] = "install"
    BY <1>1, <1>2 DEF Call, TypeOK, Thread
  <2>3. View' = View
    BY <2>1, <2>2, SameView DEF slots, Filling
  <2>4. r \in Store!Request
    BY DEF Request, Store!Request
  <2> QED
    BY <2>1, <2>3, <2>4 DEF Store!Next, Store!Call
<1>3. ASSUME Sound, NEW t \in Thread, DiskCall(t)
      PROVE  [Store!Next]_(Store!vars)
  BY <1>3, HitImplements, SearchImplements, EvictImplements, GiveUpImplements,
     FillImplements, InstallImplements DEF DiskCall
<1>4. CASE FlushSlot /\ Sound
  BY <1>4, FlushImplements
<1>5. CASE ~Sound /\ ((\E t \in Thread : DiskCall(t)) \/ FlushSlot)
  BY <1>5, OverlapImplements DEF Store!Next
<1>6. ASSUME NEW d \in Data, BeginClose(d)
      PROVE  [Store!Next]_(Store!vars)
  <2>1. /\ UNCHANGED <<slots, platter, link, flush, reply>>
        /\ phase = "up" /\ phase' = "closing" /\ pc["main"] = "idle"
        /\ pc' = [pc EXCEPT !["main"] = "lookup"]
        /\ call'["worker"] = call["worker"]
    BY <1>1, <1>6 DEF BeginClose, Threads, TypeOK, Thread
  <2>2. quiet' = (call["worker"] = NoCall)
    BY <1>1, <1>6 DEF BeginClose, Threads
  <2>3. \A u \in Thread : pc'[u] = "install" <=> pc[u] = "install"
    BY <1>1, <2>1 DEF TypeOK, Thread
  <2>4. View' = View
    BY <2>1, <2>3, SameView DEF slots, Filling
  <2> QED
    BY <2>1, <2>2, <2>4 DEF Store!Next, Store!BeginClose
<1>7. CASE EndClose
  BY <1>7, EndCloseImplements DEF Store!Next
<1>8. CASE Crash
  <2>1. /\ phase # "down" /\ phase' = "down" /\ call'["worker"] = NoCall
        /\ quiet' = TRUE /\ UNCHANGED <<platter, link, reply>>
    BY <1>8 DEF Crash, Gone, Thread
  <2>2. View' = platter
    BY <1>1, <2>1, ViewWillBe DEF ViewFacts
  <2> QED
    BY <2>1, <2>2 DEF Store!Next, Store!Crash
<1>9. CASE LoseLink
  <2>1. View' = View
    BY <1>9, SameView DEF LoseLink, slots, Filling
  <2> QED
    BY <1>9, <2>1 DEF LoseLink, Store!Next, Store!LoseLink
<1>10. ASSUME NEW c \in [Slot -> Data], Start(c)
       PROVE  [Store!Next]_(Store!vars)
  <2>1. View = platter
    BY <1>1, <1>10, ViewIs DEF ViewFacts, Start
  <2>2. /\ \A s \in Slot, b \in Block : ~Holds(s, b)'
        /\ platter' = platter
    BY <1>10, BlockAssumption DEF Start, Holds
  <2>3. /\ View' \in [Block -> Data]
        /\ \A b \in Block : View'[b] = platter[b]
    BY <1>1, <2>2, ViewWillBe DEF ViewFacts
  <2>4. View' = View
    BY <1>1, <2>1, <2>3 DEF TypeOK
  <2> QED
    BY <1>10, <2>4 DEF Start, Store!Next, Store!Start
<1>11. CASE UNCHANGED vars
  <2>1. View' = View
    BY <1>11, SameView DEF vars, Filling
  <2> QED
    BY <1>11, <2>1 DEF vars, Store!vars
<1> QED
  BY <1>2, <1>3, <1>4, <1>5, <1>6, <1>7, <1>8, <1>9, <1>10, <1>11 DEF Next

(* The disk layer is an array of blocks with a durable copy behind it, for *)
(* every number of slots, blocks and contents: a read returns the last     *)
(* write, a call that fails shows nothing, the disk receives nothing but   *)
(* current contents, a quiet shutdown loses nothing and a crash loses      *)
(* exactly what was not yet saved (disk.c:disk_read, disk_write,           *)
(* disk_close; FS.c:handle_sigint).                                        *)
THEOREM ImplementsStore == Spec => Implements
<1>1. Init => Store!Init
  <2> SUFFICES ASSUME Init
               PROVE  Store!Init
    OBVIOUS
  <2>1. TypeOK
    BY InitTyped
  <2>2. \A b \in Block, s \in Slot : ~Holds(s, b)
    BY BlockAssumption DEF Init, Holds
  <2>3. View \in [Block -> Data] /\ \A b \in Block : View[b] = platter[b]
    BY <2>1, <2>2, ViewIs DEF ViewFacts
  <2>4. platter = View
    BY <2>1, <2>3 DEF TypeOK
  <2> QED
    BY <2>3, <2>4 DEF Init, Store!Init, Thread
<1>2. IInv /\ IInv' /\ [Next]_vars => [Store!Next]_(Store!vars)
  BY NextImplements
<1> QED
  BY <1>1, <1>2, CacheCoherent, PTL DEF Spec, Implements, Store!Spec
=============================================================================
