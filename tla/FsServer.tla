------------------------------ MODULE FsServer ------------------------------
(***************************************************************************)
(* The threads of the file server: the accept loop and the workers of      *)
(* src/utils/server.c, the messages of src/utils/socket.c, response_mutex  *)
(* of src/fs/FS.c, and the clients at the other end (src/utils/client.c).  *)
(*                                                                         *)
(* The accept loop keeps the socket it has just accepted in a variable on  *)
(* its stack and hands every new thread the address of that variable       *)
(* (slot).  A worker then serves one socket: it reads a message, waits for *)
(* the mutex, runs the command, which may exchange messages with the basic *)
(* disk server, releases the mutex and answers.  Nobody ever closes a      *)
(* client's socket, so descriptors are never used twice: a connection is   *)
(* the number of its descriptor.                                           *)
(*                                                                         *)
(* A message is a command, the request "f" to format the disk, the request *)
(* "e" to end the session, or nothing: recv_message ignores a failed read  *)
(* of the header, and takes a closed connection for an empty message.      *)
(* Contents are left out.                                                  *)
(***************************************************************************)
EXTENDS Naturals, FiniteSets

CONSTANTS
    FirstFd,      \* the first descriptor that accept can return
    FdLimit,      \* the process may have no descriptor from here on
    MAX_CLIENTS,  \* the length of the arrays that descriptors index
    NoFd

(* The usual limit on descriptors is FD_SETSIZE, which is MAX_CLIENTS, and *)
(* the lowest are taken by the standard streams, the link to the disk      *)
(* server and the listening socket.                                        *)
ASSUME FdAssumption ==
    /\ FirstFd \in Nat \ {0} /\ FdLimit \in Nat /\ MAX_CLIENTS \in Nat
    /\ FirstFd < FdLimit /\ FdLimit <= MAX_CLIENTS
    /\ NoFd \notin Nat

VARIABLES
    up,      \* the process runs
    slot,    \* client_sockfd, on the stack of the accept loop
    next,    \* the next descriptor; FirstFd + n_client_sockfds
    worker,  \* where the thread started for each connection is
    sock,    \* the socket it read from slot
    req,     \* the message it works on
    sem,     \* the value of response_mutex
    client,  \* the far end of each connection
    inbox,   \* what a client has sent and no worker has read
    torn,    \* sockets whose messages two workers have read in pieces
    link     \* the connection to the basic disk server

vars == <<up, slot, next, worker, sock, req, sem, client, inbox, torn, link>>

Fd == FirstFd .. (FdLimit - 1)

Message == {"command", "format", "e", "empty"}

Serving == {k \in Fd : worker[k] = "serving"}

(* Threads that SIGPIPE ended inside a disk exchange, mutex in hand. *)
Orphans == {k \in Fd : worker[k] = "orphan"}

TypeOK ==
    /\ up \in BOOLEAN
    /\ next \in FirstFd .. FdLimit
    /\ slot \in Fd \cup {NoFd}
    /\ worker \in [Fd -> {"none", "born", "reading", "waiting", "serving",
                          "replying", "gone", "orphan", "starved"}]
    /\ sock \in [Fd -> Fd \cup {NoFd}]
    /\ req \in [Fd -> Message]
    /\ sem \in 0 .. 1
    /\ client \in [Fd -> {"out", "idle", "asking", "left", "reset"}]
    /\ inbox \in [Fd -> Message]
    /\ torn \subseteq Fd
    /\ link \in {"up", "lost", "reset"}

Init ==
    /\ up = TRUE /\ slot = NoFd /\ next = FirstFd
    /\ worker = [k \in Fd |-> "none"]
    /\ sock = [k \in Fd |-> NoFd]
    /\ req = [k \in Fd |-> "empty"]
    /\ sem = 1
    /\ client = [s \in Fd |-> "out"]
    /\ inbox = [s \in Fd |-> "empty"]
    /\ torn = {}
    /\ link = "up"

-----------------------------------------------------------------------------
(* The accept loop: one turn.  The thread may run at once or much later.   *)
(* The bound of the loop is out of reach: descriptors run out first.       *)
Accept ==
    /\ up /\ next < FdLimit
    /\ next - FirstFd < MAX_CLIENTS
    /\ slot' = next
    /\ next' = next + 1
    /\ worker' = [worker EXCEPT ![next] = "born"]
    /\ client' = [client EXCEPT ![next] = "idle"]
    /\ UNCHANGED <<up, sock, req, sem, inbox, torn, link>>

(* accept finds no descriptor: EXIT_IF ends the process, cache and all.    *)
AcceptFails ==
    /\ up /\ next = FdLimit
    /\ up' = FALSE
    /\ UNCHANGED <<slot, next, worker, sock, req, sem, client, inbox, torn, link>>

(* The server is started again, with the disk server in reach. *)
Restart ==
    /\ ~up
    /\ up' = TRUE /\ slot' = NoFd /\ next' = FirstFd
    /\ worker' = [k \in Fd |-> "none"]
    /\ sock' = [k \in Fd |-> NoFd]
    /\ req' = [k \in Fd |-> "empty"]
    /\ sem' = 1
    /\ client' = [s \in Fd |-> "out"]
    /\ inbox' = [s \in Fd |-> "empty"]
    /\ torn' = {}
    /\ link' = "up"

-----------------------------------------------------------------------------
(* Clients: each waits for the answer before it asks again, and may leave  *)
(* at any time.                                                            *)
Ask(s, m) ==
    /\ client[s] = "idle"
    /\ m # "empty"
    /\ client' = [client EXCEPT ![s] = "asking"]
    /\ inbox' = [inbox EXCEPT ![s] = m]
    /\ UNCHANGED <<up, slot, next, worker, sock, req, sem, torn, link>>

LeaveServer(s) ==
    /\ client[s] \in {"idle", "asking"}
    /\ client' = [client EXCEPT ![s] = "left"]
    /\ UNCHANGED <<up, slot, next, worker, sock, req, sem, inbox, torn, link>>

LoseLink ==
    /\ link = "up"
    /\ link' = "lost"
    /\ UNCHANGED <<up, slot, next, worker, sock, req, sem, client, inbox, torn>>

-----------------------------------------------------------------------------
(* Workers. *)

(* A new thread reads its socket through the pointer it was given.         *)
Begin(k) ==
    /\ up /\ worker[k] = "born"
    /\ sock' = [sock EXCEPT ![k] = slot]
    /\ worker' = [worker EXCEPT ![k] = "reading"]
    /\ UNCHANGED <<up, slot, next, req, sem, client, inbox, torn, link>>

Shared(k) == \E j \in Fd \ {k} : sock[j] = sock[k] /\ worker[j] = "reading"

Receive_AlsoEmpty(k) ==  \* mutant: a failed header read is always ignored
    /\ up /\ worker[k] = "reading"
    /\ worker' = [worker EXCEPT ![k] = "waiting"]
    /\ req' = [req EXCEPT ![k] = inbox[sock[k]]]
    /\ inbox' = [inbox EXCEPT ![sock[k]] = "empty"]
    /\ UNCHANGED <<up, slot, next, sock, sem, client, torn, link>>

(* recv_message: the next message, or nothing once the client has gone.    *)
Receive(k) ==
    /\ up /\ worker[k] = "reading"
    /\ inbox[sock[k]] # "empty" \/ client[sock[k]] \in {"left", "reset"}
    /\ worker' = [worker EXCEPT ![k] = "waiting"]
    /\ req' = [req EXCEPT ![k] = inbox[sock[k]]]
    /\ inbox' = [inbox EXCEPT ![sock[k]] = "empty"]
    /\ UNCHANGED <<up, slot, next, sock, sem, client, torn, link>>

(* Two workers read one stream, and each gets some bytes of a message: a   *)
(* worker that takes text for a length gives up, and one that still waits  *)
(* for the rest goes on with bytes of the next message.                    *)
ReceiveTorn(k) ==
    /\ up /\ worker[k] = "reading"
    /\ Shared(k) \/ sock[k] \in torn
    /\ inbox[sock[k]] # "empty"
    /\ inbox' = [inbox EXCEPT ![sock[k]] = "empty"]
    /\ torn' = torn \cup {sock[k]}
    /\ \/ worker' = [worker EXCEPT ![k] = "gone"]
       \/ UNCHANGED worker
    /\ UNCHANGED <<up, slot, next, sock, req, sem, client, link>>

Enter_Unguarded(k) ==  \* mutant: sem_wait does not wait
    /\ up /\ worker[k] = "waiting"
    /\ sem' = 0
    /\ worker' = [worker EXCEPT ![k] = "serving"]
    /\ UNCHANGED <<up, slot, next, sock, req, client, inbox, torn, link>>

(* sem_wait *)
Enter(k) ==
    /\ up /\ worker[k] = "waiting"
    /\ sem > 0
    /\ sem' = sem - 1
    /\ worker' = [worker EXCEPT ![k] = "serving"]
    /\ UNCHANGED <<up, slot, next, sock, req, client, inbox, torn, link>>

(* A command that needs the disk server finds it gone.  The first request  *)
(* still goes out, and comes back as an error; the next one raises SIGPIPE *)
(* and the handler ends the thread on the spot.                            *)
Exchange(k) ==
    /\ up /\ worker[k] = "serving" /\ req[k] \in {"command", "format"}
    /\ \/ /\ link = "lost"
          /\ link' = "reset"
          /\ UNCHANGED worker
       \/ /\ link = "reset"
          /\ worker' = [worker EXCEPT ![k] = "orphan"]
          /\ UNCHANGED link
    /\ UNCHANGED <<up, slot, next, sock, req, sem, client, inbox, torn>>

(* The requests that the worker takes for the end of its work: "e", and    *)
(* "f" when an error of the disk comes through from fs_format.  The errors *)
(* of other commands have become answers in fs_operation_wrapper, all but  *)
(* one: see Answer.                                                        *)
EndsWork(k) == req[k] = "e" \/ (req[k] = "format" /\ link # "up")

Answer_KeepsMutex(k) ==  \* mutant: an error returns past sem_post
    /\ up /\ worker[k] = "serving"
    /\ \/ /\ req[k] # "e" /\ sem' = sem + 1
          /\ worker' = [worker EXCEPT ![k] = "replying"]
       \/ /\ EndsWork(k) /\ sem' = sem
          /\ worker' = [worker EXCEPT ![k] = "gone"]
    /\ UNCHANGED <<up, slot, next, sock, req, client, inbox, torn, link>>

Answer_PostsTwice(k) ==  \* mutant: the error path posts once more
    /\ up /\ worker[k] = "serving"
    /\ \/ /\ req[k] # "e" /\ sem' = sem + 1
          /\ worker' = [worker EXCEPT ![k] = "replying"]
       \/ /\ EndsWork(k) /\ sem' = sem + 2
          /\ worker' = [worker EXCEPT ![k] = "gone"]
    /\ UNCHANGED <<up, slot, next, sock, req, client, inbox, torn, link>>

Answer_ErrorsEnd(k) ==  \* mutant: errors of a command stay negative
    /\ up /\ worker[k] = "serving"
    /\ sem' = sem + 1
    /\ \/ req[k] # "e" /\ worker' = [worker EXCEPT ![k] = "replying"]
       \/ (req[k] = "e" \/ link # "up") /\ worker' = [worker EXCEPT ![k] = "gone"]
       \/ req[k] = "command" /\ worker' = [worker EXCEPT ![k] = "starved"]
    /\ UNCHANGED <<up, slot, next, sock, req, client, inbox, torn, link>>

(* The command is done: sem_post.  On an error the worker ends without an  *)
(* answer and without closing the socket; and so it does on any command    *)
(* that finds no memory for the entries of its directory, an error that    *)
(* fs_operation_wrapper hands on as it is ("starved").                     *)
Answer(k) ==
    /\ up /\ worker[k] = "serving"
    /\ sem' = sem + 1
    /\ \/ req[k] # "e" /\ worker' = [worker EXCEPT ![k] = "replying"]
       \/ EndsWork(k) /\ worker' = [worker EXCEPT ![k] = "gone"]
       \/ req[k] = "command" /\ worker' = [worker EXCEPT ![k] = "starved"]
    /\ UNCHANGED <<up, slot, next, sock, req, client, inbox, torn, link>>

\* mutant: create_socket's SIG_IGN stays and nobody looks at the result of
\* send_message, which is WRITE_ERROR then
Reply_IgnoresSigpipe(k) ==
    /\ up /\ worker[k] = "replying"
    /\ client' = [client EXCEPT ![sock[k]] =
                    CASE @ = "asking" -> "idle" [] @ = "left" -> "reset"
                      [] OTHER -> @]
    /\ worker' = [worker EXCEPT ![k] = "reading"]
    /\ UNCHANGED <<up, slot, next, sock, req, sem, inbox, torn, link>>

(* send_message.  The first answer to a client that has left may still go  *)
(* out; the connection is reset by it, and writing again raises SIGPIPE.   *)
Reply(k) ==
    /\ up /\ worker[k] = "replying"
    /\ \/ /\ client[sock[k]] # "reset"
          /\ client' = [client EXCEPT ![sock[k]] =
                          CASE @ = "asking" -> "idle" [] @ = "left" -> "reset"
                            [] OTHER -> @]
          /\ worker' = [worker EXCEPT ![k] = "reading"]
       \/ /\ client[sock[k]] \in {"left", "reset"}
          /\ worker' = [worker EXCEPT ![k] = "gone"]
          /\ UNCHANGED client
    /\ UNCHANGED <<up, slot, next, sock, req, sem, inbox, torn, link>>

Work(k) ==
    Begin(k) \/ Receive(k) \/ ReceiveTorn(k) \/ Enter(k) \/ Exchange(k)
        \/ Answer(k) \/ Reply(k)

Next ==
    \/ Accept \/ AcceptFails \/ Restart \/ LoseLink
    \/ \E s \in Fd : LeaveServer(s) \/ \E m \in Message : Ask(s, m)
    \/ \E k \in Fd : Work(k)

(* Every thread that can run is scheduled.  Which of the waiting threads   *)
(* sem_post wakes is not promised; nobody has to connect, ask or leave.    *)
Spec == Init /\ [][Next]_vars /\ \A k \in Fd : WF_vars(Work(k))

-----------------------------------------------------------------------------
(* response_mutex is neither lost nor doubled: it is free, or exactly one  *)
(* thread is inside a command, or exactly one was ended inside one         *)
(* (FS.c:response_with_mutex, socket.c:sigpipe_handler).                   *)
MutexConserved == sem + Cardinality(Serving) + Cardinality(Orphans) = 1

Working(k) == worker[k] \in {"waiting", "serving", "replying"}

(* A worker has something to answer only while its client waits for an     *)
(* answer or is gone, and no two workers answer one client: no answer is   *)
(* ever taken for the answer to a later question                           *)
(* (server.c:simple_server_worker, client.c:custom_client_response).       *)
OneAnswerEach ==
    \A k \in Fd : Working(k) =>
        \/ client[sock[k]] \in {"left", "reset"}
        \/ /\ client[sock[k]] = "asking"
           /\ inbox[sock[k]] = "empty"
           /\ \A j \in Fd \ {k} : Working(j) => sock[j] # sock[k]

(* "Two clients access the file system simultaneously" (README.md, section *)
(* 2.2): every connection has a worker to itself, once its thread has      *)
(* begun (server.c:simple_server).                                         *)
OneWorkerPerSocket ==
    \A j, k \in Fd : j # k /\ sock[j] # NoFd => sock[j] # sock[k]

(* Each command lets go of the mutex, unless SIGPIPE ended its thread      *)
(* (FS.c:response_with_mutex).                                             *)
MutexComesBack == (up /\ sem = 0) ~> (sem = 1 \/ Orphans # {} \/ ~up)

(* The server can still give service: it runs, and the mutex is not lost.  *)
InService == up /\ Orphans = {}

(* Others hold the mutex again and again: sem_post may wake any waiter.    *)
Contended(k) == []<>(\E j \in Fd \ {k} : worker[j] = "serving")

(* The thread of a client that has gone ends, although the end of its      *)
(* connection is read as one empty command after another                   *)
(* (socket.c:recv_message, sigpipe_handler).                               *)
WorkersEnd ==
    \A k \in Fd :
        \/ Contended(k)
        \/ (sock[k] # NoFd /\ client[sock[k]] \in {"left", "reset"})
             ~> (worker[k] \in {"none", "gone", "starved"} \/ ~InService)

(* Whoever asks for a command other than "f" is answered, whatever errors  *)
(* of the disk the command meets, with two exceptions: the accept loop     *)
(* gave the client's worker to another connection, or another worker to    *)
(* this one; or malloc had no memory for the entries of the directory, the *)
(* one error that becomes no answer                                        *)
(* (server.c:simple_server_worker, fs.c:fs_operation_wrapper).             *)
AskedIsAnswered ==
    \A k \in Fd :
        \/ Contended(k)
        \/ (sock[k] = k /\ client[k] = "asking" /\ inbox[k] = "command")
             ~> (\/ client[k] # "asking" \/ ~InService
                 \/ worker[k] = "starved"
                 \/ \E j \in Fd \ {k} : sock[j] = k)
=============================================================================
