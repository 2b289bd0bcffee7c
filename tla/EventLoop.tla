----------------------------- MODULE EventLoop ------------------------------
(***************************************************************************)
(* main.c: the poll() event loop, its signal handler and the shutdown,     *)
(* with the accept loop, the reader and the writer it calls, and the       *)
(* environment.                                                            *)
(***************************************************************************)
EXTENDS AcceptNewConn, DoRead, DoWrite

(* Start-up: main() up to the loop, with num_listeners listening sockets.   *)

Init ==
    /\ pc = "check" /\ i = 0 /\ running = TRUE
    /\ fd_count = num_listeners
    /\ fd_size = INITIAL_SIZE
    /\ pfds = [k \in 0..(INITIAL_SIZE - 1) |->
                  IF k < num_listeners
                  THEN [fd |-> ListenFd[k], events |-> "IN", revents |-> {}]
                  ELSE GarbagePollfd]
    /\ clients = [k \in 0..(INITIAL_SIZE - 1) |-> GarbageClient]
    /\ open = Listeners
    /\ heap = Arrays /\ scripts = 0
    /\ leaked = {}
    /\ backlog = [l \in Listeners |-> 0]
    /\ sock = [f \in Fds |-> FreshSocket]
    /\ unseen = {}
    /\ signals = 0 /\ faults = 0

-----------------------------------------------------------------------------
(* main(): the loop around poll().                                          *)

\* Mutant: the loop does not test running.
LoopTest_forever ==
    /\ pc = "check"
    /\ pc' = "call_poll" /\ i' = i
    /\ UNCHANGED <<sig, table, held, kernel, unseen, faults>>

\* while (running)
LoopTest ==
    /\ pc = "check"
    /\ IF running THEN pc' = "call_poll" /\ i' = i
                  ELSE pc' = "shutdown" /\ i' = num_listeners
    /\ UNCHANGED <<sig, table, held, kernel, unseen, faults>>

\* The process enters poll(): from here on a signal makes it return EINTR.
EnterPoll ==
    /\ pc = "call_poll"
    /\ pc' = "in_poll"
    /\ UNCHANGED <<i, sig, table, held, kernel, unseen, faults>>

\* What poll() would report for a slot.  RST is POLLERR or POLLHUP and makes
\* the socket readable and writable.
Ready(p) ==
    IF p.fd \in Listeners
    THEN {r \in {"IN"} : backlog[p.fd] > 0}
    ELSE LET s == sock[p.fd]
         IN  {r \in {"IN", "OUT", "ERR"} :
                 \/ r = "ERR" /\ s.rst
                 \/ r = "IN" /\ p.events = "IN" /\ (s.rx > 0 \/ s.fin \/ s.rst)
                 \/ r = "OUT" /\ p.events = "OUT" /\ (s.tx < SndBuf \/ s.rst)}

\* poll() returns; the scan starts at slot 0.
PollReturns ==
    /\ pc = "in_poll"
    /\ \E k \in 0..(fd_count - 1) : Ready(pfds[k]) # {}
    /\ pfds' = [k \in 0..(fd_size - 1) |->
                   IF k < fd_count
                   THEN [pfds[k] EXCEPT !.revents = Ready(pfds[k])]
                   ELSE pfds[k]]
    /\ unseen' = {pfds[k].fd : k \in {j \in num_listeners..(fd_count - 1) :
                                         Ready(pfds[j]) # {}}}
    /\ pc' = "scan" /\ i' = 0
    /\ UNCHANGED <<sig, extent, clients, held, kernel, faults>>

\* The for loop ends; the log is flushed and while tests running again.
ScanEnd ==
    /\ pc = "scan" /\ i >= fd_count
    /\ pc' = "check"
    /\ UNCHANGED <<i, sig, table, held, kernel, unseen, faults>>

\* Mutant: connections are taken from the first listener only.
ScanListener_first_only ==
    /\ pc = "scan" /\ i < fd_count /\ i < num_listeners
    /\ IF i = 0 /\ "IN" \in pfds[i].revents
       THEN pc' = "accept" /\ i' = i
       ELSE pc' = "scan" /\ i' = i + 1
    /\ UNCHANGED <<sig, table, held, kernel, unseen, faults>>

\* A listener with connections waiting: accept_new_conn() is called.
ScanListener ==
    /\ pc = "scan" /\ i < fd_count /\ i < num_listeners
    /\ IF "IN" \in pfds[i].revents THEN pc' = "accept" /\ i' = i
                                   ELSE pc' = "scan" /\ i' = i + 1
    /\ UNCHANGED <<sig, table, held, kernel, unseen, faults>>

\* The scan is at an active client slot.
AtClient == pc = "scan" /\ num_listeners <= i /\ i < fd_count

ScanIdle ==
    /\ AtClient /\ pfds[i].revents = {}
    /\ i' = i + 1
    /\ UNCHANGED <<pc, sig, table, held, kernel, unseen, faults>>

\* Mutant: the loop goes on to the next slot after removing one.
ScanError_advances ==
    /\ AtClient /\ "ERR" \in pfds[i].revents
    /\ unseen' = unseen \ {pfds[i].fd}
    /\ close_conn(i)
    /\ i' = i + 1
    /\ UNCHANGED <<pc, sig, backlog, faults>>

\* The slot the last connection moved into is examined next: i stays.
ScanError ==
    /\ AtClient /\ "ERR" \in pfds[i].revents
    /\ unseen' = unseen \ {pfds[i].fd}
    /\ close_conn(i)
    /\ UNCHANGED <<pc, i, sig, backlog, faults>>

\* An event and no error: do_read() is called, or skipped.
ScanEvent ==
    /\ AtClient /\ pfds[i].revents # {} /\ "ERR" \notin pfds[i].revents
    /\ unseen' = unseen \ {pfds[i].fd}
    /\ pc' = IF "IN" \in pfds[i].revents /\ clients[i].state = "READING"
             THEN "recv" ELSE "wtest"
    /\ UNCHANGED <<i, sig, table, held, kernel, faults>>

\* Mutant: the removal is tested only when the socket was writable.
CloseTest_after_write ==
    /\ pc = "ctest"
    /\ pc' = "scan"
    /\ IF clients[i].state = "CLOSING" /\ "OUT" \in pfds[i].revents
       THEN close_conn(i) /\ i' = i
       ELSE i' = i + 1 /\ UNCHANGED <<table, held, sock>>
    /\ UNCHANGED <<sig, backlog, unseen, faults>>

\* The last test of the loop body: a CLOSING connection is removed.
CloseTest ==
    /\ pc = "ctest"
    /\ pc' = "scan"
    /\ IF clients[i].state = "CLOSING"
       THEN close_conn(i) /\ i' = i
       ELSE i' = i + 1 /\ UNCHANGED <<table, held, sock>>
    /\ UNCHANGED <<sig, backlog, unseen, faults>>

\* Mutant: a for loop over slots that close_conn() moves.
ShutdownClient_advances ==
    /\ pc = "shutdown" /\ i < fd_count
    /\ close_conn(i)
    /\ i' = i + 1
    /\ UNCHANGED <<pc, sig, backlog, unseen, faults>>

\* After the loop: every client is closed, then the listeners and the arrays.
ShutdownClient ==
    /\ pc = "shutdown" /\ i < fd_count
    /\ close_conn(i)
    /\ UNCHANGED <<pc, i, sig, backlog, unseen, faults>>

ShutdownDone ==
    /\ pc = "shutdown" /\ i >= fd_count
    /\ open' = open \ Listeners
    /\ heap' = heap \ Arrays
    /\ pc' = "exited"
    /\ UNCHANGED <<i, sig, table, scripts, leaked, kernel, unseen, faults>>

\* close_conn() meets a stale file_ptr and the C library aborts.
StaleFcloseAborts ==
    /\ \/ AtClient /\ "ERR" \in pfds[i].revents
       \/ pc = "ctest" /\ clients[i].state = "CLOSING"
       \/ pc = "shutdown" /\ i < fd_count
    /\ clients[i].file_ptr # "NULL" /\ "abort" \in StaleFclose
    /\ pc' = "failed"
    /\ UNCHANGED <<i, sig, table, held, kernel, unseen, faults>>

-----------------------------------------------------------------------------
(* The kernel and the peers, and the signal handler.                        *)

Alive == ~Terminated
server == <<table, held, unseen>>

\* The process is at a call that looks at the network.  What a peer does at any
\* other moment shows first at the next such call, so it is taken to happen
\* there.
AtSystemCall == pc \in {"in_poll", "accept", "recv", "send"}

Connect(l) ==
    /\ AtSystemCall /\ backlog[l] < MaxBacklog
    /\ backlog' = [backlog EXCEPT ![l] = @ + 1]
    /\ UNCHANGED <<pc, i, sig, server, sock, faults>>

\* n bytes arrive; the first terminator among them ends at byte e (0: none).
\* A terminator behind a NUL byte is one strnstr() never sees, hence none.
PeerSend(f) ==
    LET s == sock[f]
    IN  /\ "send" \in PeerActs /\ AtSystemCall /\ f \in open /\ ~s.fin /\ ~s.rst
        /\ \E n \in 1..(RcvBuf - s.rx) : \E e \in 0..n :
              sock' = [sock EXCEPT ![f].rx = @ + n,
                                   ![f].eoh = IF @ = 0 /\ e > 0
                                              THEN s.rx + e ELSE @]
        /\ UNCHANGED <<pc, i, sig, server, backlog, faults>>

PeerShutdown(f) ==
    /\ "fin" \in PeerActs /\ AtSystemCall
    /\ f \in open /\ ~sock[f].fin /\ ~sock[f].rst
    /\ sock' = [sock EXCEPT ![f].fin = TRUE]
    /\ UNCHANGED <<pc, i, sig, server, backlog, faults>>

\* RST: what was buffered in either direction is dropped.
PeerReset(f) ==
    /\ "rst" \in PeerActs /\ AtSystemCall /\ f \in open /\ ~sock[f].rst
    /\ sock' = [sock EXCEPT ![f] = [FreshSocket EXCEPT !.rst = TRUE]]
    /\ UNCHANGED <<pc, i, sig, server, backlog, faults>>

\* The peer acknowledges a byte.
PeerRead(f) ==
    /\ "ack" \in PeerActs /\ AtSystemCall /\ f \in open /\ sock[f].tx > 0
    /\ sock' = [sock EXCEPT ![f].tx = @ - 1]
    /\ UNCHANGED <<pc, i, sig, server, backlog, faults>>

\* shutdown_server(): a blocked poll() returns EINTR and is retried through
\* the while test; anywhere else only the flag changes.
Signal ==
    /\ Alive /\ signals < MaxSignals
    /\ signals' = signals + 1
    /\ running' = FALSE
    /\ pc' = IF pc = "in_poll" THEN "check" ELSE pc
    /\ UNCHANGED <<i, server, kernel, faults>>

\* poll() fails with anything but EINTR: exit(EXIT_FAILURE).
PollFails ==
    /\ pc = "in_poll"
    /\ Fault
    /\ pc' = "failed"
    /\ UNCHANGED <<i, sig, server, kernel>>

-----------------------------------------------------------------------------

MainStep ==
    \/ LoopTest \/ EnterPoll \/ PollReturns
    \/ ScanEnd \/ ScanListener \/ ScanIdle \/ ScanError \/ ScanEvent
    \/ CloseTest \/ ShutdownClient \/ ShutdownDone \/ StaleFcloseAborts
AcceptStep == AcceptOne \/ AcceptAgain \/ AcceptNoDescriptor
ReadStep ==
    \/ RecvData \/ RecvTooLong \/ RecvEof \/ RecvError \/ RecvAgain
    \/ ReadIncomplete \/ ProcessRequest
WriteStep == WriteTest \/ SendSome \/ SendFails \/ SendDone

\* A step the process takes by itself.
ServerStep == MainStep \/ AcceptStep \/ ReadStep \/ WriteStep

\* A step in which a system call or an allocation fails: never owed.
FaultStep ==
    \/ AcceptAborted \/ AcceptFcntlFails \/ AcceptReallocFails
    \/ RecvReallocFails \/ RecloseAborts \/ PollFails

\* A step of the environment.
EnvStep ==
    \/ \E l \in Listeners : Connect(l)
    \/ \E f \in Fds : \/ PeerSend(f) \/ PeerShutdown(f) \/ PeerReset(f)
                      \/ PeerRead(f)
    \/ Signal

\* The process is gone.
Stopped == Terminated /\ UNCHANGED vars

Next == ServerStep \/ FaultStep \/ EnvStep \/ Stopped

Spec == Init /\ [][Next]_vars

\* The process runs whenever it is not blocked in poll(); the environment and
\* the failures owe nothing.
FairSpec == Spec /\ WF_vars(ServerStep)

-----------------------------------------------------------------------------
(* Safety.                                                                  *)

\* Every variable has its type.
TypeOK ==
    /\ pc \in AllPcs /\ i \in Nat /\ running \in BOOLEAN
    /\ fd_count \in Nat /\ fd_size \in Nat
    /\ pfds \in [0..(fd_size - 1) -> Pollfd]
    /\ clients \in [0..(fd_size - 1) -> Client]
    /\ open \subseteq Fds \cup Listeners
    /\ heap \subseteq AllBlocks /\ scripts \in Nat
    /\ leaked \subseteq Fds
    /\ backlog \in [Listeners -> Nat]
    /\ sock \in [Fds -> Socket]
    /\ unseen \subseteq Fds
    /\ signals \in Nat /\ faults \in Nat

\* The connection table stays a table whatever is accepted and closed, also in
\* the middle of a scan: the arrays are within their allocation, the listeners
\* keep the first slots, pfds[k] and clients[k] are the same connection, and
\* no connection has two slots ("pfds[i] always corresponds to clients[i]",
\* connections.h).
TableInv ==
    /\ num_listeners <= fd_count /\ fd_count <= fd_size
    /\ \A k \in 0..(num_listeners - 1) :
          pfds[k].fd = ListenFd[k] /\ pfds[k].events = "IN"
    /\ \A k \in ClientSlots : pfds[k].fd \in Fds /\ clients[k].fd = pfds[k].fd
    /\ \A j, k \in ClientSlots : pfds[j].fd = pfds[k].fd => j = k

\* The open sockets are exactly the ones in the table: close_conn() closes the
\* socket it drops and no other, accept_new_conn() registers what it accepts.
OpenExact ==
    pc # "exited" =>
        open = Listeners \cup {pfds[k].fd : k \in ClientSlots}

\* Slots the scan still has to look at.
Pending ==
    IF pc \in {"scan", "accept"} THEN {k \in ClientSlots : k >= i}
    ELSE IF pc \in {"recv", "drained", "wtest", "send", "ctest"}
    THEN {k \in ClientSlots : k > i}
    ELSE {}

\* A scan looks at every connection poll() reported exactly once, although
\* close_conn() moves slots and accept_new_conn() adds some while it runs: the
\* reported connections not seen yet are those in the slots still to come, and
\* a slot still to come that poll() did not report has no events.
ScanExact ==
    Alive => unseen = {pfds[k].fd :
                          k \in {j \in Pending : pfds[j].revents # {}}}

\* The buffers of the scripts answered with 200, which nothing refers to.
Forgotten == {ScriptBlock(n) : n \in 1..scripts}

\* in_buf and out_buf never leak and are freed once: the heap holds what the
\* table refers to, and one forgotten buffer for each script answered with 200.
HeapExact ==
    pc # "exited" =>
        heap = Arrays \cup Forgotten
                   \cup UNION {Blocks(clients[k]) : k \in ClientSlots}

\* When the process blocks in poll(), each connection waits for the event its
\* state needs, and none is left CLOSING, which no event would finish.
WaitsForItsEvent ==
    pc = "in_poll" =>
        \A k \in ClientSlots :
            /\ clients[k].state # "CLOSING"
            /\ pfds[k].events =
                   IF clients[k].state \in Sending THEN "OUT" ELSE "IN"

\* The buffers: append() never writes past in_buf nor lets it grow past the
\* ceiling, and do_write() never reads past out_buf.
BufferBounds ==
    \A k \in ClientSlots :
        /\ clients[k].input_length <= clients[k].input_capacity
        /\ clients[k].input_capacity <= MAX_REQUEST_SIZE
        /\ clients[k].output_sent <= clients[k].output_length
        /\ clients[k].in_buf = NULL <=> clients[k].input_capacity = 0

\* A clean shutdown leaves no socket open, and allocated only the forgotten
\* buffers of scripts.
CleanExit == pc = "exited" => open = {} /\ heap = Forgotten

-----------------------------------------------------------------------------
(* Liveness, under FairSpec.                                                *)

InState(f, S) ==
    \E k \in ClientSlots : clients[k].fd = f /\ clients[k].state \in S

\* A connection that has the end of a request waiting is served: its socket is
\* closed (after the answer, as the refinement shows) unless the request is
\* refused as too long or the process ends.
RequestServed ==
    \A f \in Fds :
        (f \in open /\ sock[f].eoh > 0)
            ~> (f \notin open \/ InState(f, {"PROCESSING"}) \/ Terminated)

\* A connection waiting in either listener is accepted while there is a
\* descriptor for it, however busy the other listener and the clients are.
BacklogDrained ==
    \A l \in Listeners :
        backlog[l] > 0 ~> (backlog[l] = 0 \/ Free = {} \/ Terminated)

\* A signal that arrives anywhere but between the while test and poll() ends
\* the process.
SignalStops ==
    (~running /\ pc \notin {"call_poll", "in_poll"}) ~> Terminated

-----------------------------------------------------------------------------
(* What the repository says and the code does not do.                       *)

\* main.c and the README: a signal stops the server.
ShutdownCompletes == ~running ~> Terminated

\* README.md: the event loop exits cleanly and frees all allocations.
AllFreed == pc = "exited" => heap = {}

\* do_read.c: a request past MAX_REQUEST_SIZE is answered and the connection
\* closed.
OversizeAnswered ==
    \A f \in Fds : InState(f, {"PROCESSING"})
                      ~> (~InState(f, {"PROCESSING"}) \/ Terminated)

\* connections.h: CLOSING is "done; pending removal": a connection leaves it
\* only by being removed.
ClosingIsFinal ==
    [][\A f \in Fds : InState(f, {"CLOSING"})
                          => (InState(f, {"CLOSING"}) \/ f \notin open)']_vars

=============================================================================
