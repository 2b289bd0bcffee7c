--------------------------- MODULE AcceptNewConn ----------------------------
(***************************************************************************)
(* client_conn/accept_new_conn.c.  pc = "accept" is the head of its loop,  *)
(* which main() enters for a listener in slot i.                           *)
(***************************************************************************)
EXTENDS Connections

\* accept() succeeds and the socket is registered.  Bytes the peer sent while
\* it waited in the backlog count as sent after this step.
AcceptOne ==
    /\ pc = "accept" /\ backlog[pfds[i].fd] > 0
    /\ backlog' = [backlog EXCEPT ![pfds[i].fd] = @ - 1]
    /\ \E f \in Free : open' = open \cup {f} /\ add_to_lists(f)
    /\ UNCHANGED <<pc, i, sig, heap, scripts, leaked, sock, unseen, faults>>

\* EAGAIN: the backlog is drained.
AcceptAgain ==
    /\ pc = "accept" /\ backlog[pfds[i].fd] = 0
    /\ pc' = "scan" /\ i' = i + 1
    /\ UNCHANGED <<sig, table, held, kernel, unseen, faults>>

\* EMFILE: the connection stays in the backlog and the loop is left.
AcceptNoDescriptor ==
    /\ pc = "accept" /\ backlog[pfds[i].fd] > 0 /\ Free = {}
    /\ pc' = "scan" /\ i' = i + 1
    /\ UNCHANGED <<sig, table, held, kernel, unseen, faults>>

\* ECONNABORTED: the connection is gone and the loop is left.
AcceptAborted ==
    /\ pc = "accept" /\ backlog[pfds[i].fd] > 0
    /\ Fault
    /\ backlog' = [backlog EXCEPT ![pfds[i].fd] = @ - 1]
    /\ pc' = "scan" /\ i' = i + 1
    /\ UNCHANGED <<sig, table, held, sock, unseen>>

\* fcntl() fails: the new descriptor is closed and the loop continues.
AcceptFcntlFails ==
    /\ pc = "accept" /\ backlog[pfds[i].fd] > 0 /\ Free # {}
    /\ Fault
    /\ backlog' = [backlog EXCEPT ![pfds[i].fd] = @ - 1]
    /\ UNCHANGED <<pc, i, sig, table, held, sock, unseen>>

\* The arrays are full and realloc() fails: exit(EXIT_FAILURE).
AcceptReallocFails ==
    /\ pc = "accept" /\ backlog[pfds[i].fd] > 0 /\ Free # {}
    /\ fd_count = fd_size
    /\ Fault
    /\ pc' = "failed"
    /\ UNCHANGED <<i, sig, table, held, kernel, unseen>>

=============================================================================
