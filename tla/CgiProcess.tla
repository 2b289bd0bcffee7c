----------------------------- MODULE CgiProcess -----------------------------
(***************************************************************************)
(* build_response_cgi() of response/build_okay_response.c with the script  *)
(* it forks.  The parent blocks in read() and in waitpid(); the script runs*)
(* beside it.                                                              *)
(***************************************************************************)
EXTENDS RequestState

\* Mutant: a resp_val of RESP_200 is passed on.
BuilderFails_keeps_200(resp) ==
    /\ c' = [c EXCEPT !.resp_val = resp, !.body_len = 0, !.file_size = 0]
    /\ pc' = "build_error"

\* A builder returns -1 having set resp: build_okay_response() resets the
\* lengths and turns to build_error_response().  It frees out_buf if there is
\* one and keeps the pointer; StagedOnce says that there is none.
BuilderFails(resp) ==
    /\ c' = [c EXCEPT !.resp_val = IF resp = "RESP_200" THEN "RESP_500"
                                                        ELSE resp,
                      !.body_len = 0, !.file_size = 0]
    /\ pc' = "build_error"

\* Mutant: the parent keeps its writing end.
CgiStart_keeps_writer ==
    /\ pc = "cgi_fork"
    /\ pipe' = [bytes |-> 0, reader |-> TRUE, writer |-> TRUE]
    /\ child' = NewChild
    /\ buffer' = [capacity |-> CGI_CAPACITY, len |-> 0]
    /\ pc' = "cgi_read"
    /\ UNCHANGED <<input, method, c, rp, files, log, faults>>

\* pipe() and fork(), then the parent closes its writing end and allocates.
CgiStart ==
    /\ pc = "cgi_fork"
    /\ pipe' = [bytes |-> 0, reader |-> TRUE, writer |-> FALSE]
    /\ child' = NewChild
    /\ buffer' = [capacity |-> CGI_CAPACITY, len |-> 0]
    /\ pc' = "cgi_read"
    /\ UNCHANGED <<input, method, c, rp, files, log, faults>>

\* pipe() or fork() fails: no end of a pipe is left open.
CgiNotStarted ==
    /\ pc = "cgi_fork"
    /\ Fault
    /\ BuilderFails("RESP_500")
    /\ UNCHANGED <<input, method, rp, files, cgi, log>>

\* malloc() fails when the script is already running: it is not waited for.
CgiNoBuffer ==
    /\ pc = "cgi_fork"
    /\ Fault
    /\ child' = NewChild
    /\ BuilderFails("RESP_500")
    /\ UNCHANGED <<input, method, rp, files, pipe, buffer, log>>

\* The buffer doubles when it is full.
Capacity == IF buffer.len = buffer.capacity THEN 2 * buffer.capacity
                                            ELSE buffer.capacity

\* Mutant: the room in the buffer is added, not what read() returned.
ReadCount_room == Capacity - buffer.len

\* read() takes what fits.
ReadCount == IF pipe.bytes < Capacity - buffer.len THEN pipe.bytes
                                                   ELSE Capacity - buffer.len

CgiRead ==
    LET n == ReadCount
    IN  /\ pc = "cgi_read" /\ pipe.bytes > 0
        /\ buffer' = [capacity |-> Capacity, len |-> buffer.len + n]
        /\ pipe' = [pipe EXCEPT !.bytes = @ - n]
        /\ UNCHANGED <<pc, input, method, c, rp, files, child, log, faults>>

\* Mutant: the reading end stays open.
CgiEof_keeps_reader ==
    /\ pc = "cgi_read" /\ pipe.bytes = 0 /\ ~pipe.writer /\ child.ends = {}
    /\ pc' = "cgi_wait"
    /\ UNCHANGED <<input, method, c, rp, files, cgi, log, faults>>

\* Mutant: the output is answered without waiting for the script.
CgiEof_no_wait ==
    /\ pc = "cgi_read" /\ pipe.bytes = 0 /\ ~pipe.writer /\ child.ends = {}
    /\ pipe' = [pipe EXCEPT !.reader = FALSE]
    /\ pc' = "cgi_response"
    /\ UNCHANGED <<input, method, c, rp, files, child, buffer, log, faults>>

\* read() returns 0 when the pipe is empty and nobody can write to it.
CgiEof ==
    /\ pc = "cgi_read" /\ pipe.bytes = 0 /\ ~pipe.writer /\ child.ends = {}
    /\ pipe' = [pipe EXCEPT !.reader = FALSE]
    /\ pc' = "cgi_wait"
    /\ UNCHANGED <<input, method, c, rp, files, child, buffer, log, faults>>

\* read() fails, or realloc() does: the script is not waited for.
CgiReadFails ==
    /\ pc = "cgi_read"
    /\ Fault
    /\ buffer' = NoBuffer
    /\ pipe' = NoPipe
    /\ BuilderFails("RESP_500")
    /\ UNCHANGED <<input, method, rp, files, child, log>>

\* Mutant: the exit status is not looked at.
CgiReap_any_status ==
    /\ pc = "cgi_wait" /\ child.state = "ended"
    /\ child' = [child EXCEPT !.state = "reaped"]
    /\ pc' = "cgi_response"
    /\ UNCHANGED <<input, method, c, rp, files, pipe, buffer, log, faults>>

\* waitpid() reaps the script; a status other than 0 is a failure.
CgiReap ==
    /\ pc = "cgi_wait" /\ child.state = "ended"
    /\ child' = [child EXCEPT !.state = "reaped"]
    /\ \/ child.ok /\ pc' = "cgi_response" /\ UNCHANGED <<c, buffer>>
       \/ ~child.ok /\ BuilderFails("RESP_500") /\ buffer' = NoBuffer
    /\ UNCHANGED <<input, method, rp, files, pipe, log, faults>>

\* waitpid() is interrupted by SIGTERM or SIGINT.
CgiWaitFails ==
    /\ pc = "cgi_wait"
    /\ Fault
    /\ buffer' = NoBuffer
    /\ BuilderFails("RESP_500")
    /\ UNCHANGED <<input, method, rp, files, pipe, child, log>>

\* The headers and all of the output, whatever the method is.  The buffer it was
\* read into is not freed, and nothing refers to it any more.
CgiResponse ==
    /\ pc = "cgi_response"
    /\ c' = [c EXCEPT !.out = [status |-> "200",
                               content_length |-> buffer.len,
                               body |-> buffer.len],
                      !.body_len = buffer.len]
    /\ pc' = "log"
    /\ UNCHANGED <<input, method, rp, files, cgi, log, faults>>

\* malloc() of out_buf fails.
CgiNoResponse ==
    /\ pc = "cgi_response"
    /\ Fault
    /\ buffer' = NoBuffer
    /\ BuilderFails("RESP_500")
    /\ UNCHANGED <<input, method, rp, files, pipe, child, log>>

-----------------------------------------------------------------------------
(* The script.                                                              *)

server_side == <<pc, input, method, c, rp, files, buffer, log, faults>>

ScriptWrites ==
    /\ child.state = "running" /\ "stdout" \in child.ends /\ pipe.reader
    /\ pipe.bytes < PipeSize /\ child.wrote < MaxOutput
    /\ child' = [child EXCEPT !.wrote = @ + 1]
    /\ pipe' = [pipe EXCEPT !.bytes = @ + 1]
    /\ UNCHANGED server_side

\* It closes its standard output, or the other descriptor, and goes on.
ScriptCloses ==
    /\ child.state = "running"
    /\ \E e \in child.ends : child' = [child EXCEPT !.ends = @ \ {e}]
    /\ UNCHANGED <<pipe, server_side>>

\* It exits, is killed (by SIGPIPE too), or execvp() failed.
ScriptEnds ==
    /\ child.state = "running"
    /\ \E ok \in BOOLEAN :
          child' = [child EXCEPT !.state = "ended", !.ends = {}, !.ok = ok]
    /\ UNCHANGED <<pipe, server_side>>

CgiStep ==
    \/ CgiStart \/ CgiRead \/ CgiEof \/ CgiReap \/ CgiResponse

CgiFault ==
    \/ CgiNotStarted \/ CgiNoBuffer \/ CgiReadFails \/ CgiWaitFails
    \/ CgiNoResponse

Script == ScriptWrites \/ ScriptCloses \/ ScriptEnds

=============================================================================
