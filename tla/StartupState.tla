---------------------------- MODULE StartupState -----------------------------
(***************************************************************************)
(* The state of the process from main() to its poll() loop: the command    *)
(* line, the globals of flags/setFlags.c, the log's streams and the two    *)
(* listening sockets.  A word of the command line is known by what the     *)
(* code asks of it.                                                        *)
(***************************************************************************)
EXTENDS Integers, Sequences

CONSTANTS
    Words,          \* the words a command line is made of
    Dashed,         \* words that begin with '-'
    Directories,    \* words stat() finds to be directories
    Inet4, Inet6,   \* words inet_pton() takes for an address
    Writable,       \* words fopen() can open for appending
    Number,         \* Number[w]: the value of a word of digits, 0 of the empty one
    CommandLines,   \* the argv[1..argc-1] to start with
    INT_MODULUS,    \* 2^32, the width of an int
    LONG_MAX,       \* what strtol() yields for greater numbers
    PORT_MODULUS,   \* 2^16, the width of sin_port
    PRIVILEGED,     \* 1024: ports below it are root's
    DEFAULT_PORT,   \* 8080
    MaxSignals,     \* bound: SIGTERM/SIGINT deliveries
    MaxFaults       \* bound: failing system calls and allocations

Options == {"-c", "-v", "-bind4", "-bind6", "-l", "-p"}
Families == {"v4", "v6"}

ASSUME WordsAssumption ==
    /\ Options \subseteq Dashed /\ Dashed \subseteq Words
    /\ Directories \subseteq Words /\ Writable \subseteq Words
    /\ Inet4 \subseteq Words \ Dashed /\ Inet6 \subseteq Words \ Dashed
    /\ DOMAIN Number \subseteq Words \ Dashed
    /\ Number \in [DOMAIN Number -> Nat]
    /\ CommandLines \subseteq Seq(Words)
    /\ "NULL" \notin Words /\ "ANY" \notin Words

ASSUME WidthAssumption ==
    /\ INT_MODULUS \in Nat \ {0} /\ LONG_MAX \in Nat
    /\ PORT_MODULUS \in Nat \ {0} /\ INT_MODULUS % PORT_MODULUS = 0
    /\ PRIVILEGED \in Nat /\ DEFAULT_PORT \in PRIVILEGED..(PORT_MODULUS - 1)
    /\ MaxSignals \in Nat /\ MaxFaults \in Nat

VARIABLES
    pc,
    argv,        \* the command line
    root,        \* geteuid() = 0
    i,           \* setFlags()'s index
    app_flags,   \* subset of Flags
    port_addr,
    bind_addr,   \* bind_addr4 and bind_addr6
    cgi_addr,
    log_ptr,     \* NullLog, Stdout or <<w, k>>: file w opened for argv[k]
    logs,        \* log files that are open
    detached,    \* stdin, stdout and stderr are /dev/null
    sock,        \* sock[f]: the kernel's socket of family f
    listener,    \* listener_v4 and listener_v6: FALSE is -1
    slots,       \* the families in pfds[0 .. num_listeners - 1]
    allocated,   \* the two arrays and the libmagic database
    running,     \* cleared by the signal handler
    signals, faults

Flags == {"C_FLAG", "V_FLAG", "B4_FLAG", "B6_FLAG", "L_FLAG"}

settings == <<app_flags, port_addr, bind_addr, cgi_addr>>
log == <<log_ptr, logs>>
network == <<sock, listener, slots>>
sig == <<running, signals>>
vars == <<pc, argv, root, i, app_flags, port_addr, bind_addr, cgi_addr, log_ptr,
          logs, detached, sock, listener, slots, allocated, running, signals,
          faults>>

NullLog == <<"NULL", 0>>
Stdout == <<"stdout", 0>>

\* A socket: what was done to it, whether it blocks, and what it is bound to.
Socket == [state : {"none", "created", "bound", "listening"},
           nonblock : BOOLEAN, addr : Words \cup {"ANY"}, port : Nat]
NoSocket ==
    [state |-> "none", nonblock |-> FALSE, addr |-> "ANY", port |-> 0]

Resources == {"magic", "pfds", "clients"}

Stages == {"signals", "setFlags", "daemon", "magic", "malloc",
           "v4", "bind_v4", "listen_v4", "v6", "bind_v6", "listen_v6",
           "slots", "loop", "serving", "shutdown", "exited", "failed"}

\* exit(), return from main() or death by a signal; the kernel releases what
\* the process holds.
Stopped == pc \in {"exited", "failed"}

Fault == faults < MaxFaults /\ faults' = faults + 1

=============================================================================
