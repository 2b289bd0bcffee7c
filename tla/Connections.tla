---------------------------- MODULE Connections -----------------------------
(***************************************************************************)
(* client_conn/connections.c: the table of connections.                    *)
(***************************************************************************)
EXTENDS ServerState

\* add_to_lists(): both arrays double when full; every field of the new slot
\* is set.  A failing realloc() is the action AcceptReallocFails.
NewClient(f) ==
    [fd |-> f, state |-> "READING", in_buf |-> NULL, input_length |-> 0,
     input_capacity |-> 0, has_end |-> FALSE, out_buf |-> NULL,
     output_length |-> 0, output_sent |-> 0, file_ptr |-> "NULL",
     resp_val |-> NUM_CLIENT_RESP]

NewPollfd(f) == [fd |-> f, events |-> "IN", revents |-> {}]

\* Mutant: the test for a full table comes one connection late.
NewSize_one_late == IF fd_count > fd_size THEN 2 * fd_size ELSE fd_size

NewSize == IF fd_count = fd_size THEN 2 * fd_size ELSE fd_size

\* The array with the new element behind its end, in its new allocation.
Extended(array, new, garbage) ==
    [k \in 0..(NewSize - 1) |->
        IF k = fd_count THEN new ELSE IF k < fd_size THEN array[k] ELSE garbage]

add_to_lists(f) ==
    /\ fd_size' = NewSize
    /\ pfds' = Extended(pfds, NewPollfd(f), GarbagePollfd)
    /\ clients' = Extended(clients, NewClient(f), GarbageClient)
    /\ fd_count' = fd_count + 1

\* Mutant: out_buf is not freed.
Blocks_in_buf_only(c) == {c.in_buf} \ {NULL}

\* What free() of the slot's two buffers gives back.
Blocks(c) == {c.in_buf, c.out_buf} \ {NULL}

\* Mutant: the last slot is dropped without moving into the hole.
Compacted_without_move(array, k, garbage) ==
    [array EXCEPT ![fd_count - 1] = garbage]

\* Mutant: the slot before the last moves into the hole.
Compacted_off_by_one(array, k, garbage) ==
    [array EXCEPT ![k] = array[fd_count - 2], ![fd_count - 1] = garbage]

\* The compaction: the last active slot moves into the hole.  What is left in
\* the slot behind the new end counts as uninitialised memory again.
Compacted(array, k, garbage) ==
    [array EXCEPT ![k] = array[fd_count - 1], ![fd_count - 1] = garbage]

\* close_conn(k), refused for slot 0.  fclose() of a stream that do_read()
\* already closed fails with EBADF, or closes the stream that took its place
\* in the FILE table; that it aborts the process is StaleFcloseAborts.
close_conn(k) ==
    IF k = 0
    THEN UNCHANGED <<table, held, sock>>
    ELSE LET c == clients[k]
         IN  /\ open' = open \ {c.fd}
             /\ sock' = [sock EXCEPT ![c.fd] = FreshSocket]
             /\ \/ /\ c.file_ptr = "NULL" \/ "ebadf" \in StaleFclose
                   /\ leaked' = leaked
                \/ /\ c.file_ptr # "NULL" /\ "reuse" \in StaleFclose
                   /\ \E f \in leaked : leaked' = leaked \ {f}
             /\ heap' = heap \ Blocks(c) /\ scripts' = scripts
             /\ pfds' = Compacted(pfds, k, GarbagePollfd)
             /\ clients' = Compacted(clients, k, GarbageClient)
             /\ fd_count' = fd_count - 1
             /\ UNCHANGED fd_size

=============================================================================
