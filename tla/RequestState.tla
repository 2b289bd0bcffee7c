---------------------------- MODULE RequestState ----------------------------
(***************************************************************************)
(* The state of do_read() while it answers one complete request: the       *)
(* request line, struct Request, the fields of struct Client and struct    *)
(* ResolvedPath that the pipeline writes, the streams the process has open *)
(* for it, the CGI script's process and its pipe.  pc is the next call that*)
(* can fail or block.                                                      *)
(***************************************************************************)
EXTENDS Integers, HttpTypes

CONSTANTS
    PATH_MAX,       \* size of the path buffers
    MAX_REQUEST_SIZE, \* ceiling on the bytes of a request
    Lines,          \* the request lines that may arrive
    CGI_CAPACITY,   \* first allocation for a script's output
    AddrLengths,    \* the lengths of a peer's textual address
    IntLengths,     \* the lengths of a printed int
    PipeSize,       \* bound: bytes the kernel buffers in a pipe
    MaxOutput,      \* bound: bytes a script writes
    MaxSize,        \* bound: bytes in a file or in a listing's entries
    MaxFaults       \* bound: failing calls and files changed meanwhile

VARIABLES
    pc,
    line,      \* the request line as it arrived
    flags,     \* app_flags: subset of {"C_FLAG", "V_FLAG", "L_FLAG"}
    method,    \* req.method
    c,         \* the connection's struct Client
    rp,        \* do_read()'s struct ResolvedPath
    streams,   \* FILEs that fopen() returned and fclose() did not see
    reclosed,  \* history: streams given to fclose() when already closed
    found,     \* the filesystem entry that fopen() met
    pipe,      \* the script's pipe and the parent's ends of it
    child,     \* the script's process
    buffer,    \* cgi_response, while it is allocated: its capacity and length
    le,        \* the offset in do_read()'s LogEntry
    logged,    \* the status and the length in the log line
    faults

files == <<streams, reclosed, found>>
cgi == <<pipe, child, buffer>>
log == <<le, logged>>
input == <<line, flags>>
vars == <<pc, line, flags, method, c, rp, streams, reclosed, found, pipe,
          child, buffer, le, logged, faults>>

http_method == {"HTTP_GET", "HTTP_HEAD", "HTTP_POST", "HTTP_METHOD_UNKNOWN"}
http_version == {"HTTP_1_0", "HTTP_1_1", "HTTP_VERSION_UNSUPPORTED",
                 "HTTP_VERSION_UNKNOWN"}

\* The length of "/cgi-bin/".
CGI_BIN_LEN == 9

\* A request line by what the code asks of it: its length, whether it has
\* exactly three tokens, what method_from_token() and version_from_token() make
\* of the first and the third, and of the second its length, whether it starts
\* with a slash, contains "../", has a query, starts with "/cgi-bin/" and,
\* without its query, is "/".
Line ==
    {l \in [len : Nat, three_tokens : BOOLEAN, method : http_method,
            version : http_version, path_len : Nat \ {0}, slash : BOOLEAN,
            dotdot : BOOLEAN, query : BOOLEAN, cgi_bin : BOOLEAN,
            root : BOOLEAN] :
        /\ l.len + 4 <= MAX_REQUEST_SIZE
        /\ l.three_tokens => l.path_len + 4 <= l.len
        /\ l.root => l.slash /\ ~l.cgi_bin /\ (l.path_len = 1 <=> ~l.query)
        /\ l.cgi_bin => l.slash /\ l.path_len >= CGI_BIN_LEN}

\* The size of client_addr, and the length of "-2147483648".
INET6_ADDRSTRLEN == 46
INT_LEN == 11

ASSUME PipelineAssumption ==
    /\ PATH_MAX \in Nat /\ PATH_MAX > 2 /\ MAX_REQUEST_SIZE \in Nat
    /\ Lines \subseteq Line
    /\ AddrLengths \subseteq 1..(INET6_ADDRSTRLEN - 1)
    /\ IntLengths \subseteq 1..INT_LEN
    /\ CGI_CAPACITY \in Nat \ {0} /\ PipeSize \in Nat \ {0}
    /\ MaxOutput \in Nat /\ MaxSize \in Nat /\ MaxFaults \in Nat

\* The two streams resolve_path() can open: the path itself and an index file.
Stream == {"path", "index"}
Pointer == Stream \cup {"NULL"}

\* A response in out_buf: its status, its Content-Length and the bytes of body
\* behind the headers.
Status == {"200", "400", "403", "404", "414", "500", "501", "505"}
Response == [status : Status \cup {"none"}, content_length : Nat, body : Nat]
NoResponse == [status |-> "none", content_length |-> 0, body |-> 0]

Path_type == {"UNKNOWN", "IS_FILE", "IS_DIR", "IS_CGI"}

\* struct Client and struct ResolvedPath, without the fields no step reads.
Client == [resp_val : client_response \cup {NUM_CLIENT_RESP},
           file_ptr : Pointer, file_size : Nat, out : Response, body_len : Nat]
ResolvedPath == [file_ptr : Pointer, path_type : Path_type, file_size : Nat,
                 exact : BOOLEAN]

\* What fopen() met.
Entry == [kind : {"none", "file", "dir", "denied", "absent"}, size : Nat]

\* The script: not started, running with some of its two descriptors for the
\* pipe (dup2() leaves it both), ended and not waited for (ok: exit status 0),
\* or reaped.
Child == [state : {"none", "running", "ended", "reaped"},
          ends : SUBSET {"stdout", "pipe"}, wrote : Nat, ok : BOOLEAN]
NoChild == [state |-> "none", ends |-> {}, wrote |-> 0, ok |-> FALSE]
NewChild ==
    [state |-> "running", ends |-> {"stdout", "pipe"}, wrote |-> 0, ok |-> FALSE]

Pipe == [bytes : Nat, reader : BOOLEAN, writer : BOOLEAN]
NoPipe == [bytes |-> 0, reader |-> FALSE, writer |-> FALSE]

\* A buffer that malloc() returned has room; without one nothing is allocated.
Buffer == [capacity : Nat, len : Nat]
NoBuffer == [capacity |-> 0, len |-> 0]

\* The status and the length in a log line; nothing is logged yet.
LogLine == [status : Status \cup {"none"}, bytes : Nat]
NoEntry == [status |-> "none", bytes |-> 0]

Fault == faults < MaxFaults /\ faults' = faults + 1

\* The stages of the pipeline, by the call they are about to make.
Stages == {"parse_request", "fopen", "fstat", "fopen_index", "build_okay",
           "build_file", "build_dir", "cgi_fork", "cgi_read", "cgi_wait",
           "cgi_response", "build_error", "log", "sending", "closed"}

=============================================================================
