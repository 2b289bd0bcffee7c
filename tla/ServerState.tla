---------------------------- MODULE ServerState -----------------------------
(***************************************************************************)
(* The state the server's process keeps and the state the kernel keeps for *)
(* it: the variables that the modules of client_conn/ and main.c share.    *)
(* The process is sequential, so pc says where it is: between two system   *)
(* calls nothing else happens, but the kernel, the peers and a signal may  *)
(* act before each of them.  One action is the code from one system call   *)
(* to the next.                                                            *)
(***************************************************************************)
EXTENDS Integers, HttpTypes

CONSTANTS
    Fds,               \* descriptors left for sockets and files at start-up
    ListenFd,          \* ListenFd[k], k < num_listeners: the listening sockets
    num_listeners,     \* 1 or 2, fixed by the start-up code
    NULL,              \* the null pointer, and "no descriptor"
    INITIAL_SIZE,      \* slots first allocated for pfds and clients
    INIT_CAP,          \* first capacity of in_buf
    MAX_REQUEST_SIZE,  \* ceiling on the bytes of a request
    TEMP_BUFFER,       \* most bytes one recv() takes
    Results,           \* what answering a complete request may produce
    StaleFclose,       \* what fclose() of a closed stream may do
    PeerActs,          \* what peers do: "send", "fin", "rst", "ack"
    RcvBuf, SndBuf,    \* bound: bytes the kernel buffers per direction
    MaxBacklog,        \* bound: connections waiting in a listener
    MaxScripts,        \* bound: scripts answered with 200
    MaxSignals,        \* bound: SIGTERM/SIGINT deliveries
    MaxFaults          \* bound: failing system calls and allocations

\* in_buf grows by doubling from INIT_CAP, and the ceiling is reached exactly
\* (1024 and 8192 in the code).
ASSUME CapacityAssumption ==
    /\ INIT_CAP \in Nat \ {0}
    /\ MAX_REQUEST_SIZE \in {INIT_CAP, 2 * INIT_CAP, 4 * INIT_CAP, 8 * INIT_CAP}
    /\ TEMP_BUFFER \in Nat \ {0}

\* The listeners fit in the first allocation and are no client descriptors; the
\* null pointer is no descriptor and no block.
ASSUME ListenerAssumption ==
    /\ num_listeners \in {1, 2}
    /\ INITIAL_SIZE \in Nat
    /\ INITIAL_SIZE >= num_listeners
    /\ \A k \in 0..(num_listeners - 1) : ListenFd[k] \notin Fds \cup {NULL}
    /\ \A j, k \in 0..(num_listeners - 1) : ListenFd[j] = ListenFd[k] => j = k
    /\ NULL \notin Fds \cup (Fds \X {"in", "out"})

\* A response: its code, the bytes queued in out_buf (0: out_buf is NULL),
\* whether c->file_ptr is left pointing at the stream that do_read() closed,
\* whether a stream is left open that nothing refers to any more, and whether
\* the buffer with a script's output is left allocated likewise.
ASSUME ResultsAssumption ==
    /\ Results \subseteq [resp : client_response, len : Nat,
                          stale : BOOLEAN, leak : BOOLEAN, lost : BOOLEAN]
    /\ StaleFclose \subseteq {"ebadf", "reuse", "abort"}
    /\ StaleFclose \cap {"ebadf", "abort"} # {}

\* The exploration bounds are numbers.
ASSUME BoundsAssumption ==
    /\ RcvBuf \in Nat /\ SndBuf \in Nat \ {0} /\ MaxBacklog \in Nat
    /\ MaxScripts \in Nat /\ MaxSignals \in Nat /\ MaxFaults \in Nat

VARIABLES
    pc,        \* where the process is
    i,         \* main()'s loop index
    running,   \* cleared by the signal handler
    fd_count, fd_size,
    pfds, clients,  \* the parallel arrays, over 0..fd_size-1
    open,      \* the process's open sockets
    heap,      \* blocks malloc() returned and nobody freed
    scripts,   \* history: scripts answered with 200
    leaked,    \* descriptors of open streams that nothing refers to
    backlog,   \* completed connections waiting in each listener
    sock,      \* the kernel's side of each accepted connection
    unseen,    \* history: clients poll() reported and the scan has not reached
    signals, faults

extent == <<fd_count, fd_size>>
table == <<fd_count, fd_size, pfds, clients>>
held == <<open, heap, scripts, leaked>>
kernel == <<backlog, sock>>
sig == <<running, signals>>
vars == <<pc, i, running, table, open, heap, scripts, leaked, kernel, unseen,
          signals, faults>>

Listeners == {ListenFd[k] : k \in 0..(num_listeners - 1)}

\* struct Client, without the fields no step of the loop reads.  has_end says
\* that strnstr() finds the end of the headers in the bytes received.
Client == [fd : Fds \cup {NULL}, state : client_state,
           in_buf : (Fds \X {"in"}) \cup {NULL},
           input_length : Nat, input_capacity : Nat, has_end : BOOLEAN,
           out_buf : (Fds \X {"out"}) \cup {NULL},
           output_length : Nat, output_sent : Nat,
           file_ptr : {"CLOSED", "NULL"},
           resp_val : client_response \cup {NUM_CLIENT_RESP}]

\* struct pollfd.  "ERR" stands for POLLERR, POLLHUP and POLLNVAL together.
Pollfd == [fd : Fds \cup Listeners \cup {NULL}, events : {"IN", "OUT"},
           revents : SUBSET {"IN", "OUT", "ERR"}]

\* The kernel's view of a connection: bytes received and not read, the
\* offset in them at which the request's headers end (0: they do not), the
\* peer's FIN and RST, bytes queued for sending, our own shutdown(SHUT_WR).
Socket == [rx : Nat, eoh : Nat, fin : BOOLEAN, rst : BOOLEAN, tx : Nat,
           shut : BOOLEAN]
FreshSocket == [rx |-> 0, eoh |-> 0, fin |-> FALSE, rst |-> FALSE, tx |-> 0,
                shut |-> FALSE]

\* Uninitialised memory from malloc() and realloc(): values that would do the
\* most harm if a step read them.
GarbageClient ==
    [fd |-> NULL, state |-> "CLOSING", in_buf |-> NULL,
     input_length |-> 1, input_capacity |-> 0, has_end |-> TRUE,
     out_buf |-> NULL, output_length |-> 1, output_sent |-> 1,
     file_ptr |-> "CLOSED", resp_val |-> NUM_CLIENT_RESP]
GarbagePollfd ==
    [fd |-> NULL, events |-> "OUT", revents |-> {"IN", "OUT", "ERR"}]

\* The two arrays themselves are heap blocks.
Arrays == {<<NULL, "pfds">>, <<NULL, "clients">>}

\* The buffer of the n-th script answered with 200.
ScriptBlock(n) == <<n, "cgi">>

AllBlocks == Arrays \cup (Fds \X {"in", "out"}) \cup (Nat \X {"cgi"})

AllPcs == {"check", "call_poll", "in_poll", "scan", "accept", "recv", "drained",
           "wtest", "send", "ctest", "shutdown", "exited", "failed"}
Terminated == pc \in {"exited", "failed"}

\* Descriptors accept() or fopen() can return.
Free == Fds \ (open \cup leaked)

Min2(a, b) == IF a < b THEN a ELSE b

\* The slots of main()'s arrays that hold a connection.
ClientSlots == num_listeners..(fd_count - 1)

\* One of the failures the model allows happens.
Fault == faults < MaxFaults /\ faults' = faults + 1

=============================================================================
