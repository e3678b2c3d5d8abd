--------------------------- MODULE FsServerProofs ---------------------------
(***************************************************************************)
(* Theorems about FsServer for every number of connections: response_mutex *)
(* is neither lost nor doubled, and every answer goes to a client that     *)
(* waits for it.                                                           *)
(***************************************************************************)
EXTENDS FsServer, FiniteSetTheorems, TLAPS

(* What the accept loop has not reached yet is untouched.                  *)
Fresh ==
    \A s \in Fd : s >= next =>
        worker[s] = "none" /\ client[s] = "out" /\ inbox[s] = "empty"

(* A thread has a socket once it has begun, and there is one to be had     *)
(* once a thread has been created.                                         *)
Placed ==
    \A k \in Fd :
        /\ worker[k] # "none" => slot \in Fd
        /\ worker[k] \notin {"none", "born"} => sock[k] \in Fd

(* A message that nobody has read has a client behind it, and nobody works *)
(* for that client while it waits.                                         *)
Unread ==
    \A s \in Fd : inbox[s] # "empty" =>
        \/ client[s] \in {"left", "reset"}
        \/ /\ client[s] = "asking"
           /\ \A k \in Fd : Working(k) => sock[k] # s

IInv == TypeOK /\ Fresh /\ Placed /\ Unread /\ OneAnswerEach /\ MutexConserved

-----------------------------------------------------------------------------
(* The descriptors are finitely many, and so are the threads.              *)
LEMMA FiniteThreads ==
    /\ IsFiniteSet(Fd)
    /\ \A S \in SUBSET Fd : IsFiniteSet(S) /\ Cardinality(S) \in Nat
<1>1. IsFiniteSet(Fd)
  BY FS_Interval, FdAssumption DEF Fd
<1> QED
  BY <1>1, FS_Subset, FS_CardinalityType

(* Whoever is inside a command holds the mutex (FS.c:response_with_mutex). *)
LEMMA HeldInside ==
    ASSUME TypeOK, MutexConserved, NEW k \in Serving
    PROVE  sem = 0
<1>1. Serving \in SUBSET Fd /\ Orphans \in SUBSET Fd
  BY DEF Serving, Orphans
<1>2. Cardinality(Serving) # 0
  BY <1>1, FiniteThreads, FS_EmptySet
<1> QED
  BY <1>1, <1>2, FiniteThreads DEF TypeOK, MutexConserved

(* Threads that neither enter nor leave a command leave the mutex alone.   *)
LEMMA MutexAlone ==
    ASSUME MutexConserved, sem' = sem, Serving' = Serving, Orphans' = Orphans
    PROVE  MutexConserved'
BY DEF MutexConserved

(* A server that starts satisfies the invariant (FS.c:main).               *)
LEMMA InitIInv == Init => IInv
<1> SUFFICES ASSUME Init PROVE IInv
  OBVIOUS
<1>1. TypeOK /\ Fresh /\ Placed /\ Unread /\ OneAnswerEach
  BY FdAssumption
  DEF Init, TypeOK, Fresh, Placed, Unread, OneAnswerEach, Working, Fd, Message
<1>2. Serving = {} /\ Orphans = {}
  BY DEF Init, Serving, Orphans
<1>3. MutexConserved
  BY <1>2, FS_EmptySet DEF Init, MutexConserved
<1> QED
  BY <1>1, <1>3 DEF IInv

(* The accept loop touches only the connection it accepts                  *)
(* (server.c:simple_server).                                               *)
LEMMA AcceptIInv == IInv /\ Accept => IInv'
<1> SUFFICES ASSUME IInv, Accept PROVE IInv'
  OBVIOUS
<1> USE FdAssumption DEF IInv, Accept
<1>1. next \in Fd /\ worker[next] = "none" /\ client[next] = "out"
  BY DEF TypeOK, Fd, Fresh
<1>2. TypeOK'
  BY <1>1 DEF TypeOK, Fd
<1>3. Fresh' /\ Placed'
  BY <1>1 DEF TypeOK, Fresh, Placed, Fd
<1>4. \A k \in Fd : Working(k)' <=> Working(k)
  BY <1>1 DEF TypeOK, Working
<1>5. Unread'
  BY <1>1, <1>4 DEF TypeOK, Unread, Fresh
<1>6. OneAnswerEach'
  BY <1>1, <1>4 DEF TypeOK, OneAnswerEach, Placed, Working
<1>7. MutexConserved'
  <2>1. Serving' = Serving /\ Orphans' = Orphans
    BY <1>1 DEF TypeOK, Serving, Orphans
  <2> QED
    BY <2>1, MutexAlone
<1> QED
  BY <1>2, <1>3, <1>5, <1>6, <1>7

(* The loss of the process, and of the link, takes no thread's place; a    *)
(* restart begins anew (server.c, FS.c:main).                              *)
LEMMA ProcessIInv == IInv /\ (AcceptFails \/ Restart \/ LoseLink) => IInv'
<1>1. ASSUME IInv, AcceptFails \/ LoseLink PROVE IInv'
  <2>1. /\ UNCHANGED <<slot, next, worker, sock, req, sem, client, inbox, torn>>
        /\ up' \in BOOLEAN /\ link' \in {"up", "lost", "reset"}
    BY <1>1 DEF IInv, AcceptFails, LoseLink, TypeOK
  <2>3. TypeOK' /\ Fresh' /\ Placed' /\ Unread' /\ OneAnswerEach'
    BY <1>1, <2>1
    DEF IInv, TypeOK, Fresh, Placed, Unread, OneAnswerEach, Working
  <2>2. MutexConserved'
    BY <1>1 DEF IInv, AcceptFails, LoseLink, MutexConserved, Serving, Orphans
  <2> QED
    BY <2>2, <2>3 DEF IInv
<1>2. ASSUME IInv, Restart PROVE IInv'
  <2>1. TypeOK' /\ Fresh' /\ Placed' /\ Unread' /\ OneAnswerEach'
    BY <1>2, FdAssumption
    DEF Restart, TypeOK, Fresh, Placed, Unread, OneAnswerEach, Working, Fd,
        Message
  <2>2. Serving' = {} /\ Orphans' = {}
    BY <1>2 DEF Restart, Serving, Orphans
  <2>3. MutexConserved'
    BY <1>2, <2>2, FS_EmptySet DEF Restart, MutexConserved
  <2> QED
    BY <2>1, <2>3 DEF IInv
<1> QED
  BY <1>1, <1>2

(* A client asks only when nobody works for it (client.c:simple_client).   *)
LEMMA ClientIInv ==
    ASSUME IInv, NEW s \in Fd,
           LeaveServer(s) \/ \E m \in Message : Ask(s, m)
    PROVE  IInv'
<1> USE FdAssumption DEF IInv
<1>1. client[s] # "out" /\ ~(s >= next)
  BY DEF LeaveServer, Ask, TypeOK, Fresh, Fd
<1>2. \A k \in Fd : Working(k)' <=> Working(k)
  BY DEF LeaveServer, Ask, Working
<1>3. MutexConserved'
  BY DEF LeaveServer, Ask, MutexConserved, Serving, Orphans
<1>4. CASE LeaveServer(s)
  BY <1>1, <1>2, <1>3, <1>4
  DEF LeaveServer, TypeOK, Fresh, Placed, Unread, OneAnswerEach, Fd
<1>5. ASSUME NEW m \in Message, Ask(s, m) PROVE IInv'
  <2>1. \A k \in Fd : Working(k) => sock[k] # s
    BY <1>5 DEF Ask, OneAnswerEach
  <2>2. TypeOK' /\ Fresh' /\ Placed'
    BY <1>1, <1>5 DEF Ask, TypeOK, Fresh, Placed, Fd, Message
  <2>3. Unread' /\ OneAnswerEach'
    BY <1>2, <1>5, <2>1
    DEF Ask, TypeOK, Unread, OneAnswerEach, Placed, Working
  <2> QED
    BY <1>3, <2>2, <2>3
<1> QED
  BY <1>4, <1>5

(* A thread takes its place at a socket, and waits for messages there      *)
(* (server.c:simple_server_worker, socket.c:recv_message).                 *)
LEMMA ReadingIInv ==
    ASSUME IInv, NEW k \in Fd, Begin(k) \/ Receive(k) \/ ReceiveTorn(k)
    PROVE  IInv'
<1> USE FdAssumption DEF IInv
<1>1. ~Working(k) /\ sem' = sem
  BY DEF Begin, Receive, ReceiveTorn, Working
<1>2. MutexConserved'
  <2>1. Serving' = Serving /\ Orphans' = Orphans
    BY DEF Begin, Receive, ReceiveTorn, TypeOK, Serving, Orphans
  <2> QED
    BY <1>1, <2>1, MutexAlone
<1>3. CASE Begin(k)
  <2>1. \A j \in Fd : Working(j)' <=> Working(j)
    BY <1>3 DEF Begin, TypeOK, Working
  <2>2. TypeOK' /\ Fresh' /\ Placed'
    BY <1>3 DEF Begin, TypeOK, Fresh, Placed
  <2>3. Unread' /\ OneAnswerEach'
    BY <1>1, <1>3, <2>1 DEF Begin, TypeOK, Unread, OneAnswerEach
  <2> QED
    BY <1>2, <2>2, <2>3
<1>4. CASE Receive(k)
  <2>1. sock[k] \in Fd
    BY <1>4 DEF Receive, Placed
  <2>2. TypeOK' /\ Fresh' /\ Placed'
    BY <1>4, <2>1 DEF Receive, TypeOK, Fresh, Placed, Message
  <2>3. Unread'
    BY <1>4, <2>1 DEF Receive, TypeOK, Unread, Working
  <2>4. OneAnswerEach'
    BY <1>4, <2>1 DEF Receive, TypeOK, Unread, OneAnswerEach, Working
  <2> QED
    BY <1>2, <2>2, <2>3, <2>4
<1>5. CASE ReceiveTorn(k)
  <2>1. sock[k] \in Fd
    BY <1>5 DEF ReceiveTorn, Placed
  <2>2. TypeOK' /\ Fresh' /\ Placed'
    BY <1>5, <2>1 DEF ReceiveTorn, TypeOK, Fresh, Placed, Message
  <2>3. \A j \in Fd : Working(j)' <=> Working(j)
    BY <1>5 DEF ReceiveTorn, TypeOK, Working
  <2>4. Unread' /\ OneAnswerEach'
    BY <1>5, <2>1, <2>3 DEF ReceiveTorn, TypeOK, Unread, OneAnswerEach
  <2> QED
    BY <1>2, <2>2, <2>4
<1> QED
  BY <1>3, <1>4, <1>5

(* The mutex changes hands with the thread that is inside a command, the   *)
(* thread that SIGPIPE ends there included (FS.c:response_with_mutex).     *)
LEMMA CommandMutex ==
    ASSUME IInv, NEW k \in Fd, Enter(k) \/ Exchange(k) \/ Answer(k)
    PROVE  MutexConserved' /\ sem' \in 0 .. 1
<1> USE DEF IInv
<1>1. /\ IsFiniteSet(Serving) /\ Cardinality(Serving) \in Nat
      /\ IsFiniteSet(Orphans) /\ Cardinality(Orphans) \in Nat
  BY FiniteThreads DEF Serving, Orphans
<1>2. CASE Enter(k)
  <2>1. /\ Serving' = Serving \cup {k} /\ k \notin Serving
        /\ Orphans' = Orphans /\ sem = 1 /\ sem' = 0
    BY <1>2 DEF Enter, TypeOK, Serving, Orphans
  <2>2. Cardinality(Serving') = Cardinality(Serving) + 1
    BY <1>1, <2>1, FS_AddElement
  <2> QED
    BY <1>1, <2>1, <2>2 DEF MutexConserved
<1>3. CASE Exchange(k) /\ link = "lost"
  <2>1. Serving' = Serving /\ Orphans' = Orphans /\ sem' = sem
    BY <1>3 DEF Exchange, Serving, Orphans
  <2> QED
    BY <2>1, MutexAlone DEF TypeOK
<1>4. CASE Exchange(k) /\ link = "reset"
  <2>1. /\ Serving' = Serving \ {k} /\ k \in Serving
        /\ Orphans' = Orphans \cup {k} /\ k \notin Orphans
        /\ sem' = sem
    BY <1>4 DEF Exchange, TypeOK, Serving, Orphans
  <2>2. /\ Cardinality(Serving') = Cardinality(Serving) - 1
        /\ Cardinality(Orphans') = Cardinality(Orphans) + 1
    BY <1>1, <2>1, FS_AddElement, FS_RemoveElement
  <2> QED
    BY <1>1, <2>1, <2>2 DEF MutexConserved, TypeOK
<1>5. CASE Answer(k)
  <2>1. /\ Serving' = Serving \ {k} /\ k \in Serving
        /\ Orphans' = Orphans /\ sem' = sem + 1
    BY <1>5 DEF Answer, TypeOK, Serving, Orphans
  <2>2. Cardinality(Serving') = Cardinality(Serving) - 1
    BY <1>1, <2>1, FS_RemoveElement
  <2>3. sem = 0
    BY <2>1, HeldInside
  <2> QED
    BY <1>1, <2>1, <2>2, <2>3 DEF MutexConserved
<1> QED
  BY <1>2, <1>3, <1>4, <1>5 DEF Exchange

(* Running a command touches no client (FS.c:response).                    *)
LEMMA CommandIInv ==
    ASSUME IInv, NEW k \in Fd, Enter(k) \/ Exchange(k) \/ Answer(k)
    PROVE  IInv'
<1> USE DEF IInv
<1>1. \A j \in Fd : Working(j)' => Working(j)
  BY DEF Enter, Exchange, Answer, TypeOK, Working
<1>2. TypeOK' /\ Fresh' /\ Placed'
  BY CommandMutex DEF Enter, Exchange, Answer, TypeOK, Fresh, Placed
<1>3. Unread' /\ OneAnswerEach'
  BY <1>1 DEF Enter, Exchange, Answer, Unread, OneAnswerEach
<1> QED
  BY <1>2, <1>3, CommandMutex

(* An answer goes to the client that waits for it and to no other          *)
(* (socket.c:send_message).                                                *)
LEMMA ReplyIInv ==
    ASSUME IInv, NEW k \in Fd, Reply(k)
    PROVE  IInv'
<1> USE DEF IInv, Reply
<1>1. /\ sock[k] \in Fd /\ Working(k)
      /\ \A j \in Fd : Working(j)' <=> Working(j) /\ j # k
  BY DEF TypeOK, Placed, Working
<1>2. client[sock[k]] \in {"asking", "left", "reset"} /\ ~(sock[k] >= next)
  BY <1>1, FdAssumption DEF OneAnswerEach, Fresh, TypeOK, Fd
<1>3. TypeOK' /\ Placed'
  BY <1>1 DEF TypeOK, Placed
<1>4. Fresh'
  BY <1>1, <1>2, FdAssumption DEF TypeOK, Fresh, Fd
<1>5. Unread'
  BY <1>1, <1>2 DEF TypeOK, Unread, OneAnswerEach
<1>6. OneAnswerEach'
  <2> SUFFICES ASSUME NEW j \in Fd, Working(j)'
               PROVE  \/ client'[sock[j]] \in {"left", "reset"}
                      \/ /\ client'[sock[j]] = "asking"
                         /\ inbox'[sock[j]] = "empty"
                         /\ \A i \in Fd \ {j} :
                              Working(i)' => sock[i] # sock[j]
    BY DEF OneAnswerEach
  <2>1. Working(j) /\ j # k /\ sock[j] \in Fd
    BY <1>1 DEF Placed, Working
  <2>2. CASE sock[j] = sock[k]
    <3>1. client[sock[k]] \in {"left", "reset"}
      BY <1>1, <2>1, <2>2 DEF OneAnswerEach
    <3> QED
      BY <1>1, <2>1, <2>2, <3>1 DEF TypeOK
  <2>3. CASE sock[j] # sock[k]
    <3>1. client'[sock[j]] = client[sock[j]] /\ inbox' = inbox
      BY <1>1, <2>1, <2>3 DEF TypeOK
    <3> QED
      BY <1>1, <2>1, <3>1 DEF OneAnswerEach
  <2> QED
    BY <2>2, <2>3
<1>7. Serving' = Serving /\ Orphans' = Orphans
  BY DEF TypeOK, Serving, Orphans
<1> QED
  BY <1>3, <1>4, <1>5, <1>6, <1>7, MutexAlone

(* Every step of the server and of its clients preserves the invariant.    *)
LEMMA NextIInv == IInv /\ [Next]_vars => IInv'
<1> SUFFICES ASSUME IInv, [Next]_vars PROVE IInv'
  OBVIOUS
<1>1. CASE UNCHANGED vars
  BY <1>1
  DEF vars, IInv, TypeOK, Fresh, Placed, Unread, OneAnswerEach, Working,
      MutexConserved, Serving, Orphans
<1>2. CASE Next
  BY <1>2, AcceptIInv, ProcessIInv, ClientIInv, ReadingIInv, CommandIInv,
     ReplyIInv
  DEF Next, Work
<1> QED
  BY <1>1, <1>2

(* At every moment response_mutex is free, or exactly one thread is inside *)
(* a command, or exactly one was ended inside one, for any number of       *)
(* clients (FS.c:response_with_mutex).                                     *)
THEOREM MutexIsConserved == Spec => []MutexConserved
<1>1. IInv => MutexConserved
  BY DEF IInv
<1> QED
  BY <1>1, InitIInv, NextIInv, PTL DEF Spec

(* No answer goes to a client that has not asked, even where two workers   *)
(* serve one socket, and state is well typed                               *)
(* (server.c:simple_server_worker).                                        *)
THEOREM AnswersAreAwaited == Spec => [](TypeOK /\ OneAnswerEach)
<1>1. IInv => TypeOK /\ OneAnswerEach
  BY DEF IInv
<1> QED
  BY <1>1, InitIInv, NextIInv, PTL DEF Spec

(* Threads, sockets, clients and their messages keep their shape through   *)
(* every connection, broken link and restart (server.c, FS.c).             *)
THEOREM ServerTypeCorrect == Spec => []TypeOK
<1>1. IInv => TypeOK
  BY DEF IInv
<1> QED
  BY <1>1, InitIInv, NextIInv, PTL DEF Spec
=============================================================================
