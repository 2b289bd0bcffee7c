--------------------------- MODULE RequestPipeline --------------------------
(***************************************************************************)
(* do_read() from the end of the headers on: one request is parsed,        *)
(* resolved, answered and logged, and what it opened is released, by       *)
(* do_read() and later by close_conn().                                    *)
(***************************************************************************)
EXTENDS ParseRequest, ResolvePath, BuildResponse, Logging

\* do_read() has found the end of the headers; req and rp are zeroed.
Init ==
    /\ pc = "parse_request"
    /\ line \in Lines
    /\ flags \in SUBSET {"C_FLAG", "V_FLAG"}
    /\ method = "HTTP_GET"
    /\ c = [resp_val |-> NUM_CLIENT_RESP, file_ptr |-> "NULL", file_size |-> 0,
            out |-> NoResponse, body_len |-> 0]
    /\ rp = [file_ptr |-> "NULL", path_type |-> "UNKNOWN", file_size |-> 0,
             exact |-> TRUE]
    /\ streams = {} /\ reclosed = {}
    /\ found = [kind |-> "none", size |-> 0]
    /\ pipe = NoPipe /\ child = NoChild /\ buffer = NoBuffer
    /\ le = 0 /\ logged = NoEntry /\ faults = 0

\* The line is logged, rp's stream is closed and the response is ready to send.
FinishRequest ==
    /\ pc = "log"
    /\ log_response
    /\ Fclose(rp.file_ptr)
    /\ rp' = [rp EXCEPT !.file_ptr = "NULL"]
    /\ pc' = "sending"
    /\ UNCHANGED <<input, method, c, found, cgi, faults>>

\* Mutant: out_buf is not freed.
ConnectionCloses_keeps_out_buf ==
    /\ pc = "sending"
    /\ Fclose(c.file_ptr)
    /\ c' = [c EXCEPT !.file_ptr = "NULL"]
    /\ pc' = "closed"
    /\ UNCHANGED <<input, method, rp, found, cgi, log, faults>>

\* The connection ends: close_conn() closes file_ptr, frees out_buf and gives up
\* the slot, the pointer with it.
ConnectionCloses ==
    /\ pc = "sending"
    /\ Fclose(c.file_ptr)
    /\ c' = [c EXCEPT !.out = NoResponse, !.file_ptr = "NULL"]
    /\ pc' = "closed"
    /\ UNCHANGED <<input, method, rp, found, cgi, log, faults>>

ServerStep ==
    \/ parse_request \/ ResolveStep \/ BuildStep \/ FinishRequest
    \/ ConnectionCloses

Closed == pc = "closed" /\ UNCHANGED vars

Next == ServerStep \/ ResolveFault \/ BuildFault \/ Script \/ Closed

Spec == Init /\ [][Next]_vars

\* The server runs whenever it does not block in read() or waitpid(), and a
\* script ends.
FairSpec == Spec /\ WF_vars(ServerStep) /\ WF_vars(Script)

-----------------------------------------------------------------------------
(* Safety.                                                                  *)

\* Every variable has its type.
TypeOK ==
    /\ pc \in Stages /\ line \in Lines
    /\ flags \subseteq {"C_FLAG", "V_FLAG", "L_FLAG"}
    /\ method \in http_method
    /\ c \in Client /\ rp \in ResolvedPath
    /\ streams \subseteq Stream /\ reclosed \subseteq Stream
    /\ found \in Entry /\ pipe \in Pipe /\ child \in Child
    /\ buffer \in Buffer /\ le \in Nat /\ logged \in LogLine
    /\ faults \in Nat

Answered == pc \in {"sending", "closed"}

\* What is wrong with a request, by the code that says so: no code is sent
\* without its reason, and 200 only when there is none.
Reasons ==
    [resp \in client_response |->
       CASE resp = "RESP_200" -> FALSE
         [] resp = "RESP_400" -> \/ ~line.three_tokens \/ ~line.slash
                                 \/ line.version = "HTTP_VERSION_UNKNOWN"
         [] resp = "RESP_403" -> line.dotdot \/ found.kind = "denied"
         [] resp = "RESP_404" -> found.kind = "absent"
         [] resp = "RESP_414" -> line.path_len >= PATH_MAX
         [] resp = "RESP_500" ->
              \/ faults > 0
              \/ rp.path_type = "IS_DIR" /\ (line.root \/ line.query)
              \/ rp.path_type = "IS_CGI" /\ child.state = "reaped" /\ ~child.ok
         [] resp = "RESP_501" -> \/ line.method \notin {"HTTP_GET", "HTTP_HEAD"}
                                 \/ line.cgi_bin /\ "C_FLAG" \notin flags
         [] resp = "RESP_505" -> line.version = "HTTP_VERSION_UNSUPPORTED"]

\* The status a request is answered with has its reason in the request, the
\* filesystem, the script or a failing call; nothing that is refused is
\* answered with 200, and what a 200 carries is what the path names, except for
\* a path of PATH_MAX - 1 bytes, which resolve_path() cuts by one.
StatusJustified ==
    Answered =>
        /\ c.resp_val \in client_response
        /\ IF c.resp_val = "RESP_200"
           THEN /\ \A resp \in client_response \ {"RESP_500"} : ~Reasons[resp]
                /\ rp.exact \/ line.path_len = PATH_MAX - 1
           ELSE Reasons[c.resp_val]

\* Nothing is staged before a builder succeeds: a builder that fails leaves
\* no out_buf for build_error_response() to overwrite or to free twice.
StagedOnce == pc \notin {"log", "sending", "closed"} => c.out = NoResponse

\* A script was run and its output is the answer.
ScriptServed == rp.path_type = "IS_CGI" /\ c.resp_val = "RESP_200"

\* A file is the answer, and has another size now than fstat() reported.
FileChanged ==
    /\ rp.path_type = "IS_FILE" /\ c.resp_val = "RESP_200"
    /\ found.size # rp.file_size

\* What goes out is complete: a response is missing only when a call failed, its
\* status line is that of resp_val, and the body has the announced length; it is
\* empty for HEAD unless it is a script's output (HeadersOnly is about that one).
\* Of a file that changed after fstat() all of the new contents are sent.
ResponseComplete ==
    pc = "sending" =>
        /\ c.out = NoResponse => faults > 0
        /\ c.out # NoResponse =>
              /\ c.out.status = resp_val_to_status_string(c.resp_val)
              /\ c.out.body =
                    IF method = "HTTP_HEAD" /\ ~ScriptServed THEN 0
                    ELSE IF FileChanged THEN found.size
                    ELSE c.out.content_length

\* The log tells what was sent: the status is that of the answer, also when it
\* became another one on the way, and the length is that of the body sent.  For
\* HEAD it is the announced length, or 0 for a listing.
LogTruthful ==
    pc = "sending" /\ LoggingOn =>
        /\ logged.status = resp_val_to_status_string(c.resp_val)
        /\ \/ logged.bytes = c.out.body
           \/ method = "HTTP_HEAD" /\ logged.bytes = c.out.content_length

\* No part of a log line is cut, so that the size given to vsnprintf() never
\* wraps: the longest request line, behind the longest address and before the
\* longest length, leaves room for the terminating NUL.
LogFits == le < LOG_BUF_SIZE

\* A script's output is sent whole: a 200 for a script carries every byte it
\* wrote, it had ended well, and it was waited for.
CgiOutputWhole ==
    Answered /\ rp.path_type = "IS_CGI" /\ c.resp_val = "RESP_200" =>
        /\ child.state = "reaped" /\ child.ok
        /\ buffer.len = child.wrote
        /\ pc = "sending" => c.out.body = child.wrote

\* resolve_path() itself gives up with a 500, as it does only when fstat() fails.
FstatFailed == rp.path_type = "UNKNOWN" /\ c.resp_val = "RESP_500"

\* When do_read() returns, of the streams it opened only that of a refused
\* script is open, do_read() has closed one twice exactly after a failing
\* fstat(), the pipe is closed, the buffer is left allocated exactly for a
\* script that is answered with 200, and the client points at a stream that is
\* already closed exactly when the path led to a file or a script: the leak,
\* lost and stale fields of the responses in DoRead.
ReleasedExact ==
    pc = "sending" =>
        /\ streams = IF /\ CgiRefused /\ found.kind \in {"file", "dir"}
                        /\ c.resp_val = "RESP_501"
                     THEN {"path"} ELSE {}
        /\ reclosed # {} <=> FstatFailed
        /\ ~pipe.reader /\ ~pipe.writer
        /\ buffer # NoBuffer <=> ScriptServed
        /\ c.file_ptr # "NULL" <=> rp.path_type \in {"IS_FILE", "IS_CGI"}

\* A script is left behind only when a call failed.
ChildReaped ==
    Answered /\ faults = 0 => child.state \in {"none", "reaped"}

-----------------------------------------------------------------------------
(* Liveness, under FairSpec.                                                *)

\* Every request is answered and its connection closed, if scripts end: no
\* stage waits for something that cannot happen.
RequestFinishes == <>(pc = "closed")

-----------------------------------------------------------------------------
(* What the repository says and the code does not do.                       *)

\* build_response.h: for HEAD only the headers are written.
HeadersOnly == pc = "sending" /\ method = "HTTP_HEAD" => c.out.body = 0

\* docs/mainpage.md: memory safety; a stream is closed once, although rp and
\* the client both point at it.
ClosedOnce == reclosed = {}

=============================================================================
