------------------------------ MODULE DoWrite -------------------------------
(***************************************************************************)
(* client_conn/do_write.c.  pc = "wtest" is main()'s test for calling it,  *)
(* "send" the head of its loop.                                            *)
(***************************************************************************)
EXTENDS ServerState

\* Mutant: the loop calls do_write() in SENDING_BODY only.
WriteWanted_body_only ==
    "OUT" \in pfds[i].revents /\ clients[i].state = "SENDING_BODY"

\* main()'s condition for calling do_write().
WriteWanted == "OUT" \in pfds[i].revents /\ clients[i].state \in Sending

WriteTest ==
    /\ pc = "wtest"
    /\ LET c == clients[i]
           empty == c.out_buf = NULL \/ c.output_length = 0
       IN  /\ pc' = IF WriteWanted /\ ~empty THEN "send" ELSE "ctest"
           /\ clients' = IF WriteWanted /\ empty
                         THEN [clients EXCEPT ![i].state = "CLOSING"]
                         ELSE clients
    /\ UNCHANGED <<i, sig, extent, pfds, held, kernel, unseen, faults>>

\* Bytes of the response that send() was not given yet.
Unsent(c) == c.output_length - c.output_sent

\* send() queues what fits.
SendSome ==
    LET c == clients[i]
        s == sock[c.fd]
        n == Min2(SndBuf - s.tx, Unsent(c))
    IN  /\ pc = "send" /\ Unsent(c) > 0
        /\ s.tx < SndBuf /\ ~s.rst
        /\ clients' = [clients EXCEPT ![i].output_sent = @ + n]
        /\ sock' = [sock EXCEPT ![c.fd].tx = @ + n]
        /\ UNCHANGED <<pc, i, sig, extent, pfds, held, backlog, unseen, faults>>

\* send() fails, for lack of room too: exit(EXIT_FAILURE), or SIGPIPE.
SendFails ==
    LET c == clients[i]
        s == sock[c.fd]
    IN  /\ pc = "send" /\ Unsent(c) > 0
        /\ s.tx >= SndBuf \/ s.rst
        /\ pc' = "failed"
        /\ UNCHANGED <<i, sig, table, held, kernel, unseen, faults>>

\* Mutant: the last byte is forgotten.
SendDone_one_short ==
    /\ pc = "send" /\ Unsent(clients[i]) <= 1
    /\ clients' = [clients EXCEPT ![i].state = "CLOSING"]
    /\ sock' = [sock EXCEPT ![clients[i].fd].shut = TRUE]
    /\ pc' = "ctest"
    /\ UNCHANGED <<i, sig, extent, pfds, held, backlog, unseen, faults>>

\* Everything is queued: shutdown(SHUT_WR) and CLOSING.
SendDone ==
    /\ pc = "send" /\ Unsent(clients[i]) <= 0
    /\ clients' = [clients EXCEPT ![i].state = "CLOSING"]
    /\ sock' = [sock EXCEPT ![clients[i].fd].shut = TRUE]
    /\ pc' = "ctest"
    /\ UNCHANGED <<i, sig, extent, pfds, held, backlog, unseen, faults>>

=============================================================================
