------------------------------- MODULE DoRead -------------------------------
(***************************************************************************)
(* client_conn/do_read.c.  pc = "recv" is the head of its loop, "drained"  *)
(* the code after it; main() goes on with its POLLOUT test ("wtest") when  *)
(* do_read() returns.  What parse_request(), resolve_path() and the build  *)
(* functions decide is the choice of a member of Results; RequestPipeline  *)
(* models how they decide it.                                              *)
(***************************************************************************)
EXTENDS ServerState

\* The new capacity of in_buf: append()'s doubling loop, which runs at most
\* three times between INIT_CAP and MAX_REQUEST_SIZE.
GrowTo(cap, need) ==
    LET base == IF cap = 0 THEN INIT_CAP ELSE 2 * cap
    IN  IF base >= need THEN base
        ELSE IF 2 * base >= need THEN 2 * base
        ELSE IF 4 * base >= need THEN 4 * base ELSE 8 * base

\* Mutant: all of the temporary buffer is appended, not what recv() returned.
Received_whole_buffer == TEMP_BUFFER

\* What one recv() takes.
Received == Min2(TEMP_BUFFER, sock[clients[i].fd].rx)

\* Mutant: the ceiling is off by one.
TooLong_off_by_one(c, n) == c.input_length + n > MAX_REQUEST_SIZE + 1

\* append() refuses bytes past MAX_REQUEST_SIZE.
TooLong(c, n) == c.input_length + n > MAX_REQUEST_SIZE
MustGrow(c, n) == c.input_length + n > c.input_capacity

\* append() when it succeeds; the terminator is in the buffer once its last
\* byte is.
Appended(c, n, end) ==
    [c EXCEPT !.in_buf = IF MustGrow(c, n) THEN <<c.fd, "in">> ELSE @,
              !.input_capacity =
                  IF MustGrow(c, n) THEN GrowTo(@, c.input_length + n) ELSE @,
              !.input_length = @ + n,
              !.has_end = IF end THEN TRUE ELSE @]

\* recv() takes n bytes out of the kernel's buffer.
Taken(s, n) ==
    [s EXCEPT !.rx = @ - n, !.eoh = IF @ > n THEN @ - n ELSE 0]

RecvReady == pc = "recv" /\ sock[clients[i].fd].rx > 0

\* recv() returns bytes and append() stores them: the loop goes on.
RecvData ==
    LET c == clients[i]
        s == sock[c.fd]
    IN  /\ RecvReady /\ ~TooLong(c, Received)
        /\ clients' = [clients EXCEPT ![i] =
               Appended(c, Received, s.eoh \in 1..Received)]
        /\ heap' = heap \cup {b \in {<<c.fd, "in">>} : MustGrow(c, Received)}
        /\ sock' = [sock EXCEPT ![c.fd] = Taken(s, Received)]
        /\ UNCHANGED <<pc, i, sig, extent, pfds, open, scripts, leaked, backlog,
                       unseen, faults>>

\* The request is too long: append() sets PROCESSING and do_read() returns.
RecvTooLong ==
    LET c == clients[i]
    IN  /\ RecvReady /\ TooLong(c, Received)
        /\ clients' = [clients EXCEPT ![i].state = "PROCESSING",
                                      ![i].resp_val = "RESP_414"]
        /\ sock' = [sock EXCEPT ![c.fd] = Taken(@, Received)]
        /\ pc' = "wtest"
        /\ UNCHANGED <<i, sig, extent, pfds, held, backlog, unseen, faults>>

\* realloc() of in_buf fails: CLOSING, and do_read() returns.
RecvReallocFails ==
    LET c == clients[i]
    IN  /\ RecvReady /\ ~TooLong(c, Received) /\ MustGrow(c, Received)
        /\ Fault
        /\ clients' = [clients EXCEPT ![i].state = "CLOSING"]
        /\ sock' = [sock EXCEPT ![c.fd] = Taken(@, Received)]
        /\ pc' = "wtest"
        /\ UNCHANGED <<i, sig, extent, pfds, held, backlog, unseen>>

\* recv() returns 0: CLOSING, and do_read() returns.
RecvEof ==
    /\ pc = "recv"
    /\ LET s == sock[clients[i].fd] IN s.rx = 0 /\ s.fin /\ ~s.rst
    /\ clients' = [clients EXCEPT ![i].state = "CLOSING"]
    /\ pc' = "wtest"
    /\ UNCHANGED <<i, sig, extent, pfds, held, kernel, unseen, faults>>

\* recv() fails: CLOSING, but the loop is left with break and the code after
\* it still runs.
RecvError ==
    /\ pc = "recv" /\ sock[clients[i].fd].rst
    /\ clients' = [clients EXCEPT ![i].state = "CLOSING"]
    /\ pc' = "drained"
    /\ UNCHANGED <<i, sig, extent, pfds, held, kernel, unseen, faults>>

\* EAGAIN: everything that arrived is in in_buf.
RecvAgain ==
    /\ pc = "recv"
    /\ LET s == sock[clients[i].fd] IN s.rx = 0 /\ ~s.fin /\ ~s.rst
    /\ pc' = "drained"
    /\ UNCHANGED <<i, sig, table, held, kernel, unseen, faults>>

HeadersComplete(c) == c.in_buf # NULL /\ c.input_length # 0 /\ c.has_end

\* No terminator yet: do_read() returns and main() waits for more.
ReadIncomplete ==
    /\ pc = "drained" /\ ~HeadersComplete(clients[i])
    /\ pc' = "wtest"
    /\ UNCHANGED <<i, sig, table, held, kernel, unseen, faults>>

\* The response r is parsed for, resolved, built, logged and queued.  Opening
\* a file takes a free descriptor, which is given back unless r leaks it; the
\* buffer of a script that is answered with 200 is not given back.
Answered(c, r) ==
    [c EXCEPT !.out_buf = IF r.len > 0 THEN <<c.fd, "out">> ELSE NULL,
              !.output_length = r.len,
              !.file_ptr = IF r.stale THEN "CLOSED" ELSE @,
              !.resp_val = r.resp,
              !.state = "SENDING_HEADER"]

ProcessRequest ==
    /\ pc = "drained" /\ HeadersComplete(clients[i])
    /\ \E r \in Results :
         /\ r.stale => Free # {}
         /\ \/ ~r.leak /\ leaked' = leaked
            \/ r.leak /\ \E f \in Free : leaked' = leaked \cup {f}
         /\ clients' = [clients EXCEPT ![i] = Answered(@, r)]
         /\ r.lost => scripts < MaxScripts
         /\ scripts' = IF r.lost THEN scripts + 1 ELSE scripts
         /\ heap' = heap \cup {b \in {<<clients[i].fd, "out">>} : r.len > 0}
                         \cup {b \in {ScriptBlock(scripts + 1)} : r.lost}
    /\ pfds' = [pfds EXCEPT ![i].events = "OUT"]
    /\ pc' = "wtest"
    /\ UNCHANGED <<i, sig, extent, open, kernel, unseen, faults>>

\* fstat() of the opened file fails: resolve_path() closes the stream,
\* close_resolve_path_ptr() closes it again, and the C library aborts.  When it
\* does not, the request is answered like any other.
RecloseAborts ==
    /\ pc = "drained" /\ HeadersComplete(clients[i]) /\ Free # {}
    /\ "abort" \in StaleFclose
    /\ Fault
    /\ pc' = "failed"
    /\ UNCHANGED <<i, sig, table, held, kernel, unseen>>

=============================================================================
