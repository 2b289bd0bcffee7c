-------------------------- MODULE LifecycleProofs --------------------------
(***************************************************************************)
(* The event loop implements ConnLifecycle, for any number of descriptors, *)
(* any answers and any bounds.                                             *)
(***************************************************************************)
EXTENDS ClientProofs, EventLoopRefinement

-----------------------------------------------------------------------------
(* The invariant: when a connection may be given up.                        *)

\* After its loop do_read() finds the state it entered with, or the CLOSING of
\* a failing recv().
DrainedInv == pc = "drained" => clients[i].state \in {"READING", "CLOSING"}

\* An error that poll() reported is still there: only close_conn() ends it.
ReportInv ==
    \A k \in ClientSlots : "ERR" \in pfds[k].revents => sock[pfds[k].fd].rst

\* main() closes its clients after a signal only.
StopInv == pc = "shutdown" => ~running

\* do_write() finds no buffer only when there is nothing to send.
QueueInv ==
    \A k \in ClientSlots :
        clients[k].out_buf = NULL => clients[k].output_length = 0

LInv == DrainedInv /\ ReportInv /\ StopInv /\ QueueInv

LEMMA InitLInv == Init => LInv
BY ListenerAssumption
DEF Init, LInv, DrainedInv, ReportInv, StopInv, QueueInv, ClientSlots

-----------------------------------------------------------------------------
(* The shapes of steps.                                                     *)

\* A reset is remembered.
RstKept == \A f \in Fds : sock[f].rst => sock'[f].rst

\* What poll() reported is remembered.
ReportKept ==
    \A k \in ClientSlots :
        pfds'[k].fd = pfds[k].fd /\ pfds'[k].revents = pfds[k].revents

\* A step that changes no client.
LEMMA LinesKept ==
    ASSUME TableInv, LInv, UNCHANGED <<fd_count, clients>>, ReportKept, RstKept,
           DrainedInv', StopInv'
    PROVE  LInv'
<1>1. ClientSlots' = ClientSlots BY DEF ClientSlots
<1>2. \A k \in ClientSlots : pfds[k].fd \in Fds BY DEF TableInv
<1>3. ReportInv' BY <1>1, <1>2 DEF LInv, ReportInv, ReportKept, RstKept
<1>4. QueueInv' BY <1>1 DEF LInv, QueueInv
<1> QED BY <1>3, <1>4 DEF LInv

\* A step that leaves client c in slot i.
LEMMA LineServed ==
    ASSUME IInv, LInv, Serving, NEW c, fd_count' = fd_count,
           clients' = [clients EXCEPT ![i] = c], ReportKept, RstKept,
           c.out_buf = NULL => c.output_length = 0,
           DrainedInv', StopInv'
    PROVE  LInv'
<1>1. ClientSlots' = ClientSlots BY DEF ClientSlots
<1>2. /\ \A k \in ClientSlots : pfds[k].fd \in Fds /\ k \in 0..(fd_size - 1)
      /\ clients \in [0..(fd_size - 1) -> Client] /\ i \in ClientSlots
  BY ServingSlot, ListenerAssumption DEF TableInv, TableType, ClientSlots
<1>3. ReportInv' BY <1>1, <1>2 DEF LInv, ReportInv, ReportKept, RstKept
<1>4. \A k \in ClientSlots : clients'[k] = IF k = i THEN c ELSE clients[k]
  BY <1>2
<1>5. QueueInv' BY <1>1, <1>4 DEF LInv, QueueInv
<1> QED BY <1>3, <1>5 DEF LInv

\* close_conn(k): the slots that stay move with what is known of them, and no
\* other connection's socket is touched.
LEMMA LineClosed ==
    ASSUME TableType, TableInv, LInv, NEW k \in ClientSlots, close_conn(k),
           pc' # "drained", StopInv'
    PROVE  LInv'
<1>1. /\ \A n \in ClientSlots' :
            /\ MovedFrom(n, k) \in ClientSlots /\ MovedFrom(n, k) # k
            /\ pfds'[n] = pfds[MovedFrom(n, k)]
            /\ clients'[n] = clients[MovedFrom(n, k)]
  BY CloseConnMoves
<1>2. k # 0 BY ListenerAssumption DEF ClientSlots
<1>3. sock' = [sock EXCEPT ![clients[k].fd] = FreshSocket]
  BY <1>2 DEF close_conn
<1>4. \A j \in ClientSlots : j # k => sock'[pfds[j].fd] = sock[pfds[j].fd]
  BY <1>3 DEF TableInv, TableType
<1>5. ReportInv' BY <1>1, <1>4 DEF LInv, ReportInv
<1>6. QueueInv' BY <1>1 DEF LInv, QueueInv
<1> QED BY <1>5, <1>6 DEF LInv, DrainedInv

\* add_to_lists(): the new slot is behind the others, which do not move.
LEMMA SlotAdded ==
    ASSUME TableType, TableInv, NEW f \in Fds, add_to_lists(f)
    PROVE  /\ ClientSlots' = ClientSlots \cup {fd_count}
           /\ fd_count \notin ClientSlots
           /\ pfds'[fd_count] = NewPollfd(f)
           /\ clients'[fd_count] = NewClient(f)
           /\ \A k \in ClientSlots :
                 pfds'[k] = pfds[k] /\ clients'[k] = clients[k]
<1>1. /\ num_listeners \in Nat \ {0} /\ fd_count \in 0..fd_size
      /\ fd_size \in Nat \ {0} /\ num_listeners <= fd_count
  BY ListenerAssumption DEF TableType, TableInv
<1>2. NewSize \in Nat /\ fd_size <= NewSize /\ fd_count + 1 <= NewSize
  BY <1>1 DEF NewSize
<1>3. /\ pfds' = [k \in 0..(NewSize - 1) |->
                     IF k = fd_count THEN NewPollfd(f)
                     ELSE IF k < fd_size THEN pfds[k] ELSE GarbagePollfd]
      /\ clients' = [k \in 0..(NewSize - 1) |->
                     IF k = fd_count THEN NewClient(f)
                     ELSE IF k < fd_size THEN clients[k] ELSE GarbageClient]
  BY DEF add_to_lists, Extended
<1>4. fd_count' = fd_count + 1 BY DEF add_to_lists
<1> QED BY <1>1, <1>2, <1>3, <1>4 DEF ClientSlots

-----------------------------------------------------------------------------
(* The steps.                                                               *)

LEMMA MainLInv == IInv /\ LInv /\ MainStep => LInv'
<1> SUFFICES ASSUME IInv, LInv, MainStep PROVE LInv' OBVIOUS
<1>1. /\ TableType /\ TableInv /\ IndexInv
      /\ num_listeners \in Nat \ {0} /\ i \in Nat /\ fd_count \in Nat
  BY TypeParts, ListenerAssumption DEF IInv, RestType, TableType, TableInv
<1> USE DEF table, extent, held, kernel, sig
<1>2. CASE \/ LoopTest \/ EnterPoll \/ ScanEnd \/ ScanListener \/ ScanIdle
           \/ ScanEvent \/ ShutdownDone \/ StaleFcloseAborts
  <2>1. /\ UNCHANGED <<fd_count, clients, pfds, sock>> /\ pc' # "drained"
        /\ pc' = "shutdown" => ~running'
    BY <1>2
    DEF LoopTest, EnterPoll, ScanEnd, ScanListener, ScanIdle, ScanEvent,
        ShutdownDone, StaleFcloseAborts, AtClient
  <2> QED BY <1>1, <2>1, LinesKept
          DEF ReportKept, RstKept, DrainedInv, StopInv
<1>3. CASE PollReturns
  <2>1. UNCHANGED <<fd_count, clients, sock>> /\ pc' = "scan"
    BY <1>3 DEF PollReturns
  <2>2. ClientSlots' = ClientSlots BY <2>1 DEF ClientSlots
  <2>3. ASSUME NEW k \in ClientSlots
        PROVE  /\ pfds'[k].fd = pfds[k].fd
               /\ pfds'[k].revents = Ready(pfds[k])
    <3>1. k \in 0..(fd_size - 1) /\ k < fd_count /\ pfds[k] \in Pollfd
      BY <1>1 DEF ClientSlots, TableInv, TableType
    <3>2. pfds'[k] = [pfds[k] EXCEPT !.revents = Ready(pfds[k])]
      BY <1>3, <3>1 DEF PollReturns
    <3> QED BY <3>1, <3>2 DEF Pollfd
  <2>4. ASSUME NEW k \in ClientSlots, "ERR" \in Ready(pfds[k])
        PROVE  sock[pfds[k].fd].rst
    <3>1. pfds[k].fd \in Fds BY <1>1 DEF TableInv
    <3>2. pfds[k].fd \notin Listeners
      BY <3>1, ListenerAssumption DEF Listeners
    <3> QED BY <2>4, <3>2 DEF Ready
  <2>5. ReportInv' BY <2>1, <2>2, <2>3, <2>4 DEF ReportInv
  <2>6. QueueInv' BY <2>1, <2>2 DEF LInv, QueueInv
  <2> QED BY <2>1, <2>5, <2>6 DEF LInv, DrainedInv, StopInv
<1>4. CASE ScanError \/ ShutdownClient
  <2>1. /\ i \in ClientSlots /\ close_conn(i) /\ pc' # "drained"
        /\ UNCHANGED <<pc, running>>
    BY <1>1, <1>4
    DEF ScanError, ShutdownClient, AtClient, ClientSlots, IndexInv
  <2>2. StopInv' BY <2>1 DEF LInv, StopInv
  <2> QED BY <1>1, <2>1, <2>2, LineClosed
<1>5. CASE CloseTest
  <2>1. i \in ClientSlots /\ pc' = "scan"
    BY <1>1, <1>5 DEF CloseTest, IndexInv, ClientSlots
  <2>2. CASE close_conn(i) BY <1>1, <2>1, <2>2, LineClosed DEF StopInv
  <2>3. CASE UNCHANGED <<table, held, sock>>
    BY <1>1, <2>1, <2>3, LinesKept DEF ReportKept, RstKept, DrainedInv, StopInv
  <2> QED BY <1>5, <2>2, <2>3 DEF CloseTest
<1> QED BY <1>2, <1>3, <1>4, <1>5 DEF MainStep

LEMMA AcceptLInv ==
    /\ IInv /\ LInv
    /\ AcceptStep \/ AcceptAborted \/ AcceptFcntlFails \/ AcceptReallocFails
    => LInv'
<1> SUFFICES ASSUME IInv, LInv,
                    AcceptStep \/ AcceptAborted \/ AcceptFcntlFails
                               \/ AcceptReallocFails
             PROVE  LInv'
  OBVIOUS
<1>1. /\ TableType /\ TableInv
      /\ num_listeners \in Nat \ {0} /\ fd_count \in 0..fd_size
      /\ fd_size \in Nat \ {0} /\ num_listeners <= fd_count
  BY TypeParts, ListenerAssumption DEF IInv, TableType, TableInv
<1>2. CASE AcceptOne
  <2>1. PICK f \in Free : add_to_lists(f) BY <1>2 DEF AcceptOne
  <2>2. f \in Fds /\ sock' = sock /\ pc' = "accept"
    BY <1>2 DEF AcceptOne, Free
  <2>3. /\ ClientSlots' = ClientSlots \cup {fd_count}
        /\ pfds'[fd_count] = NewPollfd(f) /\ clients'[fd_count] = NewClient(f)
        /\ \A k \in ClientSlots : pfds'[k] = pfds[k] /\ clients'[k] = clients[k]
    BY <1>1, <2>1, <2>2, SlotAdded
  <2>4. ReportInv' BY <2>2, <2>3 DEF LInv, ReportInv, NewPollfd
  <2>5. QueueInv' BY <2>2, <2>3 DEF LInv, QueueInv, NewClient
  <2> QED BY <2>2, <2>4, <2>5 DEF LInv, DrainedInv, StopInv
<1>3. CASE \/ AcceptAgain \/ AcceptNoDescriptor \/ AcceptAborted
           \/ AcceptFcntlFails \/ AcceptReallocFails
  <2>1. /\ UNCHANGED <<fd_count, clients, pfds, sock>>
        /\ pc' \in {"scan", "accept", "failed"}
    BY <1>3
    DEF AcceptAgain, AcceptNoDescriptor, AcceptAborted, AcceptFcntlFails,
        AcceptReallocFails, table, kernel
  <2> QED BY <1>1, <2>1, LinesKept DEF ReportKept, RstKept, DrainedInv, StopInv
<1> QED BY <1>2, <1>3 DEF AcceptStep

-----------------------------------------------------------------------------
(* do_read() and do_write().                                                *)

\* recv() does not undo a reset.
LEMMA TakenRst ==
    ASSUME NEW s \in Socket, NEW n
    PROVE  Taken(s, n).rst = s.rst
BY DEF Taken, Socket

\* What is done to the socket being served leaves its reset, and every other
\* socket, alone.
LEMMA ServedRst ==
    ASSUME IInv, Serving, NEW s, s.rst = sock[clients[i].fd].rst,
           sock' = [sock EXCEPT ![clients[i].fd] = s]
    PROVE  \A f \in Fds : sock'[f].rst = sock[f].rst
<1>1. clients[i].fd \in Fds /\ sock \in [Fds -> Socket]
  BY ServingSlot DEF TableType
<1> QED BY <1>1

\* What a step of do_read() or do_write() leaves alone.
ServesOne ==
    /\ Serving /\ UNCHANGED <<i, running, fd_count, open>> /\ ReportKept
    /\ \A f \in Fds : sock'[f].rst = sock[f].rst

\* Client c takes the place of the one being served.
Becomes(c) ==
    /\ clients' = [clients EXCEPT ![i] = c]
    /\ c.fd = clients[i].fd
    /\ c.out_buf = NULL => c.output_length = 0

\* The client in slot i, with another state or none of its fields changed.
LEMMA StateEdited ==
    ASSUME IInv, LInv, Serving, NEW st
    PROVE  LET c == [clients[i] EXCEPT !.state = st]
           IN  /\ clients' = [clients EXCEPT ![i] = c] => Becomes(c)
               /\ c.state = st
<1>1. clients[i] \in Client /\ i \in ClientSlots BY ServingSlot
<1>2. clients[i].out_buf = NULL => clients[i].output_length = 0
  BY <1>1 DEF LInv, QueueInv
<1> DEFINE c == [clients[i] EXCEPT !.state = st]
<1>3. /\ c.state = st /\ c.fd = clients[i].fd /\ c.out_buf = clients[i].out_buf
      /\ c.output_length = clients[i].output_length
  BY <1>1 DEF Client
<1> HIDE DEF c
<1>4. clients' = [clients EXCEPT ![i] = c] => Becomes(c)
  BY <1>2, <1>3 DEF Becomes
<1> QED BY <1>3, <1>4 DEF c

LEMMA StateKept ==
    ASSUME IInv, LInv, Serving, clients' = clients
    PROVE  Becomes(clients[i])
<1>1. /\ clients \in [0..(fd_size - 1) -> Client] /\ i \in 0..(fd_size - 1)
      /\ i \in ClientSlots
  BY ServingSlot DEF TableType
<1>2. clients = [clients EXCEPT ![i] = clients[i]] BY <1>1
<1> QED BY <1>1, <1>2 DEF Becomes, LInv, QueueInv

\* What do_read() can make of the client it reads for.
ReadOutcome(c) ==
    /\ Becomes(c)
    /\ c.state \in {"READING", "PROCESSING", "CLOSING", "SENDING_HEADER"}
    /\ c.state = "SENDING_HEADER" => Unsent(c) \in Nat
    /\ pc' = "recv" => c.state = "READING"
    /\ pc' = "drained" => c.state \in {"READING", "CLOSING"}

LEMMA ReadShape ==
    ASSUME IInv, CInv, LInv, ReadStep \/ RecvReallocFails \/ RecloseAborts
    PROVE  /\ ServesOne /\ pc \in {"recv", "drained"}
           /\ pc' \in {"recv", "drained", "wtest", "failed"}
           /\ \E c : ReadOutcome(c)
<1>1. Serving /\ pc \in {"recv", "drained"}
  BY DEF Serving, ReadStep, RecvReallocFails, RecloseAborts, RecvData,
     RecvTooLong, RecvEof, RecvError, RecvAgain, ReadIncomplete,
     ProcessRequest, RecvReady
<1> USE DEF table, extent, held, kernel, sig
<1>2. /\ UNCHANGED <<i, running, fd_count, open>> /\ ReportKept
      /\ pc' \in {"recv", "drained", "wtest", "failed"}
  <2>1. CASE ProcessRequest
    <3>1. \A k \in ClientSlots : k \in 0..(fd_size - 1) /\ pfds[k] \in Pollfd
      BY <1>1, ServingSlot, ListenerAssumption
      DEF ClientSlots, TableInv, TableType
    <3>2. /\ pfds' = [pfds EXCEPT ![i].events = "OUT"]
          /\ UNCHANGED <<i, running, fd_count, open>> /\ pc' = "wtest"
      BY <2>1 DEF ProcessRequest
    <3>3. pfds \in [0..(fd_size - 1) -> Pollfd]
      BY <1>1, ServingSlot DEF TableType
    <3>4. ReportKept BY <3>1, <3>2, <3>3 DEF ReportKept, Pollfd
    <3> QED BY <3>2, <3>4
  <2>2. CASE ~ProcessRequest
    BY <1>1, <2>2
    DEF ReadStep, RecvReallocFails, RecloseAborts, RecvData, RecvTooLong,
        RecvEof, RecvError, RecvAgain, ReadIncomplete, ReportKept
  <2> QED BY <2>1, <2>2
<1>3. \A f \in Fds : sock'[f].rst = sock[f].rst
  <2>1. sock[clients[i].fd] \in Socket BY <1>1, ServingSlot
  <2>2. CASE RecvData \/ RecvTooLong \/ RecvReallocFails
    <3>1. sock' = [sock EXCEPT ![clients[i].fd] =
                      Taken(sock[clients[i].fd], Received)]
      BY <2>2 DEF RecvData, RecvTooLong, RecvReallocFails
    <3> QED BY <1>1, <2>1, <3>1, TakenRst, ServedRst
  <2>3. CASE ~(RecvData \/ RecvTooLong \/ RecvReallocFails)
    <3>1. sock' = sock
      BY <2>3 DEF ReadStep, RecloseAborts, RecvEof, RecvError, RecvAgain,
                  ReadIncomplete, ProcessRequest
    <3> QED BY <3>1
  <2> QED BY <2>2, <2>3
<1>4. /\ clients[i] \in Client /\ clients[i].fd \in Fds /\ i \in ClientSlots
      /\ pc = "recv" => clients[i].state = "READING"
      /\ pc = "drained" => clients[i].state \in {"READING", "CLOSING"}
      /\ clients[i].output_sent = 0
      /\ clients[i].out_buf = NULL => clients[i].output_length = 0
  BY <1>1, ServingSlot DEF CInv, ServedState, LInv, DrainedInv, QueueInv
<1>5. CASE RecvData
  <2> DEFINE e == sock[clients[i].fd].eoh \in 1..Received
             c == Appended(clients[i], Received, e)
  <2>1. clients' = [clients EXCEPT ![i] = c] /\ pc' = "recv" /\ pc = "recv"
    BY <1>5 DEF RecvData, RecvReady
  <2>2. /\ c.fd = clients[i].fd /\ c.out_buf = clients[i].out_buf
        /\ c.output_length = clients[i].output_length
        /\ c.state = clients[i].state
    BY <1>4 DEF Appended, Client
  <2> HIDE DEF c
  <2> QED BY <1>1, <1>2, <1>3, <1>4, <2>1, <2>2
          DEF ServesOne, ReadOutcome, Becomes
<1>6. CASE RecvTooLong
  <2> DEFINE c == [clients[i] EXCEPT !.state = "PROCESSING",
                                     !.resp_val = "RESP_414"]
  <2>1. clients' = [clients EXCEPT ![i] = c] /\ pc' = "wtest"
    BY <1>6 DEF RecvTooLong
  <2>2. /\ c.fd = clients[i].fd /\ c.out_buf = clients[i].out_buf
        /\ c.output_length = clients[i].output_length
        /\ c.state = "PROCESSING"
    BY <1>4 DEF Client
  <2> HIDE DEF c
  <2> QED BY <1>1, <1>2, <1>3, <1>4, <2>1, <2>2
          DEF ServesOne, ReadOutcome, Becomes
<1>7. CASE RecvEof \/ RecvError \/ RecvReallocFails
  <2> DEFINE c == [clients[i] EXCEPT !.state = "CLOSING"]
  <2>1. clients' = [clients EXCEPT ![i] = c] /\ pc' \in {"wtest", "drained"}
    BY <1>7 DEF RecvEof, RecvError, RecvReallocFails
  <2>2. Becomes(c) /\ c.state = "CLOSING" BY <1>1, <2>1, StateEdited
  <2> HIDE DEF c
  <2> QED BY <1>1, <1>2, <1>3, <2>1, <2>2 DEF ServesOne, ReadOutcome
<1>8. CASE RecvAgain \/ ReadIncomplete \/ RecloseAborts
  <2>1. clients' = clients /\ pc' \in {"drained", "wtest", "failed"}
    BY <1>8 DEF RecvAgain, ReadIncomplete, RecloseAborts
  <2>2. Becomes(clients[i]) BY <1>1, <2>1, StateKept
  <2> QED BY <1>1, <1>2, <1>3, <1>4, <2>1, <2>2 DEF ServesOne, ReadOutcome
<1>9. CASE ProcessRequest
  <2>1. PICK r \in Results :
           clients' = [clients EXCEPT ![i] = Answered(clients[i], r)]
    BY <1>9 DEF ProcessRequest
  <2> DEFINE c == Answered(clients[i], r)
  <2>2. r.len \in Nat BY ResultsAssumption
  <2>3. /\ c.fd = clients[i].fd /\ c.output_length = r.len
        /\ c.out_buf = IF r.len > 0 THEN <<clients[i].fd, "out">> ELSE NULL
        /\ c.output_sent = clients[i].output_sent /\ c.state = "SENDING_HEADER"
    BY <1>4 DEF Answered, Client
  <2>4. <<clients[i].fd, "out">> # NULL BY <1>4, ListenerAssumption
  <2>5. c.out_buf = NULL => c.output_length = 0 BY <2>2, <2>3, <2>4
  <2>6. Unsent(c) \in Nat BY <1>4, <2>2, <2>3 DEF Unsent
  <2>7. pc' = "wtest" BY <1>9 DEF ProcessRequest
  <2>8. clients' = [clients EXCEPT ![i] = c] BY <2>1
  <2> HIDE DEF c
  <2> QED BY <1>1, <1>2, <1>3, <2>3, <2>5, <2>6, <2>7, <2>8
          DEF ServesOne, ReadOutcome, Becomes
<1> QED BY <1>5, <1>6, <1>7, <1>8, <1>9 DEF ReadStep

\* What do_write() can make of the client it writes to: nothing, some bytes
\* less to send, or the end when there are none.
WriteOutcome(c) ==
    /\ Becomes(c)
    /\ \/ c = clients[i]
       \/ /\ clients[i].state \in Sending /\ c.state = clients[i].state
          /\ \E n \in 1..Unsent(clients[i]) :
                Unsent(c) = Unsent(clients[i]) - n
       \/ /\ clients[i].state \in Sending /\ c.state = "CLOSING"
          /\ Unsent(clients[i]) = 0

LEMMA WriteShape ==
    ASSUME IInv, CInv, LInv, WriteStep
    PROVE  /\ ServesOne /\ pc \in {"wtest", "send"}
           /\ pc' \in {"send", "ctest", "failed"}
           /\ \E c : WriteOutcome(c)
<1>1. Serving /\ pc \in {"wtest", "send"}
  BY DEF Serving, WriteStep, WriteTest, SendSome, SendFails, SendDone
<1> USE DEF table, extent, held, kernel, sig
<1>2. /\ UNCHANGED <<i, running, fd_count, open>> /\ ReportKept
      /\ pc' \in {"send", "ctest", "failed"}
  BY <1>1 DEF WriteStep, WriteTest, SendSome, SendFails, SendDone, ReportKept
<1>3. \A f \in Fds : sock'[f].rst = sock[f].rst
  <2> DEFINE s == sock[clients[i].fd]
  <2>1. s \in Socket BY <1>1, ServingSlot
  <2>2. CASE SendSome
    <3>1. PICK n : sock' = [sock EXCEPT ![clients[i].fd] =
                               [s EXCEPT !.tx = s.tx + n]]
      BY <2>2 DEF SendSome
    <3>2. [s EXCEPT !.tx = s.tx + n].rst = s.rst BY <2>1 DEF Socket
    <3> QED BY <1>1, <3>1, <3>2, ServedRst
  <2>3. CASE SendDone
    <3>1. sock' = [sock EXCEPT ![clients[i].fd] = [s EXCEPT !.shut = TRUE]]
      BY <2>3 DEF SendDone
    <3>2. [s EXCEPT !.shut = TRUE].rst = s.rst BY <2>1 DEF Socket
    <3> QED BY <1>1, <3>1, <3>2, ServedRst
  <2>4. CASE WriteTest \/ SendFails
    BY <2>4 DEF WriteTest, SendFails
  <2> QED BY <2>2, <2>3, <2>4 DEF WriteStep
<1>4. /\ clients[i] \in Client /\ i \in ClientSlots
      /\ pc = "send" => clients[i].state \in Sending
      /\ clients[i].output_sent \in Nat /\ clients[i].output_length \in Nat
      /\ clients[i].output_sent <= clients[i].output_length
      /\ clients[i].out_buf = NULL => clients[i].output_length = 0
  BY <1>1, ServingSlot
  DEF CInv, SlotInv, SoundBuffers, ServedState, LInv, QueueInv, Client
<1>5. CASE SendFails \/ (WriteTest /\ clients' = clients)
  <2>1. clients' = clients BY <1>5 DEF SendFails
  <2>2. Becomes(clients[i]) BY <1>1, <2>1, StateKept
  <2> QED BY <1>1, <1>2, <1>3, <2>2 DEF ServesOne, WriteOutcome
<1>6. CASE SendDone \/ (WriteTest /\ clients' # clients)
  <2> DEFINE c == [clients[i] EXCEPT !.state = "CLOSING"]
  <2>1. /\ clients' = [clients EXCEPT ![i] = c] /\ clients[i].state \in Sending
        /\ \/ Unsent(clients[i]) <= 0
           \/ clients[i].out_buf = NULL \/ clients[i].output_length = 0
    BY <1>4, <1>6 DEF SendDone, WriteTest, WriteWanted
  <2>2. Unsent(clients[i]) = 0 BY <1>4, <2>1 DEF Unsent
  <2>3. Becomes(c) /\ c.state = "CLOSING" BY <1>1, <2>1, StateEdited
  <2> HIDE DEF c
  <2> QED BY <1>1, <1>2, <1>3, <2>1, <2>2, <2>3 DEF ServesOne, WriteOutcome
<1>7. CASE SendSome
  <2> DEFINE u == Unsent(clients[i])
             n == Min2(SndBuf - sock[clients[i].fd].tx, u)
             c == [clients[i] EXCEPT !.output_sent = clients[i].output_sent + n]
  <2>1. /\ clients' = [clients EXCEPT ![i] = c] /\ pc = "send" /\ u > 0
        /\ sock[clients[i].fd].tx < SndBuf
    BY <1>7 DEF SendSome
  <2>2. u \in Nat BY <1>4 DEF Unsent
  <2>3. sock[clients[i].fd].tx \in Nat BY <1>1, ServingSlot DEF Socket
  <2>4. n \in 1..u BY <2>1, <2>2, <2>3, BoundsAssumption DEF Min2
  <2> HIDE DEF n
  <2>5. /\ c.fd = clients[i].fd /\ c.out_buf = clients[i].out_buf
        /\ c.output_length = clients[i].output_length
        /\ c.output_sent = clients[i].output_sent + n
        /\ c.state = clients[i].state
    BY <1>4 DEF Client
  <2>6. Unsent(c) = u - n BY <1>4, <2>4, <2>5 DEF Unsent
  <2> HIDE DEF c
  <2>7. Becomes(c) BY <1>4, <2>1, <2>5 DEF Becomes
  <2>8. \E m \in 1..Unsent(clients[i]) : Unsent(c) = Unsent(clients[i]) - m
    BY <2>4, <2>6
  <2> QED BY <1>1, <1>2, <1>3, <1>4, <2>1, <2>5, <2>7, <2>8
          DEF ServesOne, WriteOutcome
<1> QED BY <1>5, <1>6, <1>7 DEF WriteStep

LEMMA ServeLInv ==
    /\ IInv /\ CInv /\ LInv
    /\ ReadStep \/ RecvReallocFails \/ RecloseAborts \/ WriteStep
    => LInv'
<1> SUFFICES ASSUME IInv, CInv, LInv,
                    ReadStep \/ RecvReallocFails \/ RecloseAborts \/ WriteStep
             PROVE  LInv'
  OBVIOUS
<1>1. /\ ServesOne /\ pc' # "shutdown"
      /\ \E c : /\ Becomes(c)
                /\ pc' = "drained" => c.state \in {"READING", "CLOSING"}
  BY ReadShape, WriteShape DEF ReadOutcome, WriteOutcome
<1>2. PICK c : /\ Becomes(c)
               /\ pc' = "drained" => c.state \in {"READING", "CLOSING"}
  BY <1>1
<1>3. /\ Serving /\ i' = i /\ fd_count' = fd_count /\ ReportKept /\ RstKept
      /\ clients' = [clients EXCEPT ![i] = c]
      /\ c.out_buf = NULL => c.output_length = 0
  BY <1>1, <1>2 DEF ServesOne, RstKept, Becomes
<1>4. clients'[i] = c
  BY <1>3, ServingSlot DEF TableType
<1>5. DrainedInv' /\ StopInv' BY <1>1, <1>2, <1>3, <1>4 DEF DrainedInv, StopInv
<1> QED BY <1>3, <1>5, LineServed

\* What the kernel and the peers do leaves the process alone; a reset is the
\* one thing of theirs that the life of a connection knows.
LEMMA EnvShape ==
    ASSUME IInv, EnvStep \/ PollFails
    PROVE  /\ UNCHANGED <<i, fd_count, clients, pfds, open>>
           /\ pc' = "drained" <=> pc = "drained"
           /\ pc' = "shutdown" <=> pc = "shutdown"
           /\ pc' # "exited"
           /\ \/ /\ running' = running
                 /\ \A f \in Fds : sock'[f].rst = sock[f].rst
              \/ /\ running' = FALSE /\ sock' = sock
              \/ /\ running' = running
                 /\ \E f \in Fds : /\ f \in open /\ sock'[f].rst
                                   /\ \A g \in Fds \ {f} : sock'[g] = sock[g]
<1> USE DEF server, table, held, kernel, sig
<1>1. /\ UNCHANGED <<i, fd_count, clients, pfds, open>>
      /\ pc' = "drained" <=> pc = "drained"
      /\ pc' = "shutdown" <=> pc = "shutdown"
      /\ pc' # "exited"
  BY DEF EnvStep, PollFails, Connect, PeerSend, PeerShutdown, PeerReset,
     PeerRead, Signal, Alive, Terminated, AtSystemCall
<1>2. sock \in [Fds -> Socket] BY DEF IInv, TypeOK
<1>3. CASE Signal BY <1>1, <1>3 DEF Signal
<1>4. CASE PollFails \/ \E l \in Listeners : Connect(l)
  BY <1>1, <1>4 DEF PollFails, Connect
<1>5. ASSUME NEW f \in Fds, PeerSend(f)
      PROVE  running' = running /\ \A g \in Fds : sock'[g].rst = sock[g].rst
  <2>1. PICK x, y : sock' = [sock EXCEPT ![f] =
                                [sock[f] EXCEPT !.rx = x, !.eoh = y]]
    BY <1>5 DEF PeerSend
  <2>2. [sock[f] EXCEPT !.rx = x, !.eoh = y].rst = sock[f].rst
    BY <1>2 DEF Socket
  <2>3. running' = running BY <1>5 DEF PeerSend
  <2> QED BY <1>2, <2>1, <2>2, <2>3
<1>6. ASSUME NEW f \in Fds, PeerShutdown(f)
      PROVE  running' = running /\ \A g \in Fds : sock'[g].rst = sock[g].rst
  BY <1>2, <1>6 DEF PeerShutdown, Socket
<1>7. ASSUME NEW f \in Fds, PeerRead(f)
      PROVE  running' = running /\ \A g \in Fds : sock'[g].rst = sock[g].rst
  BY <1>2, <1>7 DEF PeerRead, Socket
<1>8. ASSUME NEW f \in Fds, PeerReset(f)
      PROVE  /\ running' = running /\ f \in open /\ sock'[f].rst
             /\ \A g \in Fds \ {f} : sock'[g] = sock[g]
  <2>1. [FreshSocket EXCEPT !.rst = TRUE].rst = TRUE BY DEF FreshSocket
  <2> QED BY <1>2, <1>8, <2>1 DEF PeerReset
<1> QED BY <1>1, <1>3, <1>4, <1>5, <1>6, <1>7, <1>8 DEF EnvStep

LEMMA EnvLInv == IInv /\ LInv /\ (EnvStep \/ PollFails) => LInv'
<1> SUFFICES ASSUME IInv, LInv, EnvStep \/ PollFails PROVE LInv' OBVIOUS
<1>1. UNCHANGED <<i, fd_count, clients, pfds>> /\ RstKept
  BY EnvShape DEF RstKept
<1>2. /\ pc' = "drained" <=> pc = "drained"
      /\ pc' = "shutdown" <=> pc = "shutdown"
      /\ running' = running \/ running' = FALSE
  BY EnvShape
<1>3. DrainedInv' BY <1>1, <1>2 DEF LInv, DrainedInv
<1>4. StopInv' BY <1>2, Zenon DEF LInv, StopInv
<1> QED BY <1>1, <1>3, <1>4, LinesKept DEF ReportKept, IInv

LEMMA NextLInv == IInv /\ CInv /\ LInv /\ [Next]_vars => LInv'
<1> SUFFICES ASSUME IInv, CInv, LInv, [Next]_vars PROVE LInv' OBVIOUS
<1>1. CASE UNCHANGED vars
  BY <1>1 DEF vars, table, kernel, LInv, DrainedInv, ReportInv, StopInv,
              QueueInv, ClientSlots
<1>2. CASE Next
  BY <1>1, <1>2, MainLInv, AcceptLInv, ServeLInv, EnvLInv
  DEF Next, ServerStep, FaultStep, Stopped
<1> QED BY <1>1, <1>2

-----------------------------------------------------------------------------
(* The mapping.                                                             *)

\* The bytes still due for the connection in slot k.
DueOf(k) == IF PhaseOf(k) = "sending" THEN Unsent(clients[k]) ELSE 0

\* A connection is found in its slot.
LEMMA SlotMaps ==
    IInv /\ pc # "exited" =>
        /\ \A k \in ClientSlots :
              /\ clients[k].fd \in Fds /\ clients[k].fd \in open
              /\ SlotOf(clients[k].fd) = k
        /\ \A f \in Fds : f \in open => \E k \in ClientSlots : clients[k].fd = f
<1> SUFFICES ASSUME IInv, pc # "exited"
             PROVE  /\ \A k \in ClientSlots :
                          /\ clients[k].fd \in Fds /\ clients[k].fd \in open
                          /\ SlotOf(clients[k].fd) = k
                    /\ \A f \in Fds :
                          f \in open => \E k \in ClientSlots : clients[k].fd = f
  OBVIOUS
<1>1. /\ \A k \in ClientSlots : pfds[k].fd \in Fds /\ clients[k].fd = pfds[k].fd
      /\ \A j, k \in ClientSlots : clients[j].fd = clients[k].fd => j = k
  BY DEF IInv, TableInv
<1>2. open = Listeners \cup {pfds[k].fd : k \in ClientSlots}
  BY DEF IInv, OpenExact
<1>3. \A f \in Fds : f \notin Listeners BY ListenerAssumption DEF Listeners
<1>4. \A k \in ClientSlots : SlotOf(clients[k].fd) = k
  BY <1>1, Zenon DEF SlotOf
<1> QED BY <1>1, <1>2, <1>3, <1>4

\* The abstract state, slot by slot.
Mapped ==
    /\ \A k \in ClientSlots : /\ phase[clients[k].fd] = PhaseOf(k)
                              /\ due[clients[k].fd] = DueOf(k)
    /\ \A f \in Fds \ open : phase[f] = "closed" /\ due[f] = 0

LEMMA PhaseMaps == IInv /\ pc # "exited" => Mapped
<1> SUFFICES ASSUME IInv, pc # "exited" PROVE Mapped OBVIOUS
<1>1. \A k \in ClientSlots :
         /\ clients[k].fd \in Fds /\ clients[k].fd \in open
         /\ SlotOf(clients[k].fd) = k
  BY SlotMaps
<1>2. \A k \in ClientSlots : phase[clients[k].fd] = PhaseOf(k)
  BY <1>1 DEF phase
<1>3. \A k \in ClientSlots : due[clients[k].fd] = DueOf(k)
  BY <1>1, <1>2 DEF due, DueOf
<1>4. \A f \in Fds \ open : phase[f] = "closed" BY DEF phase
<1>5. \A f \in Fds \ open : due[f] = 0 BY <1>4 DEF due
<1> QED BY <1>2, <1>3, <1>4, <1>5 DEF Mapped

\* A connection in the table is not closed.
LEMMA PhaseOpen ==
    ASSUME IInv, NEW k \in ClientSlots
    PROVE  PhaseOf(k) \in {"reading", "refused", "sending", "closing"}
<1>1. clients[k].state \in client_state
  BY ListenerAssumption DEF IInv, TypeOK, TableInv, ClientSlots, Client
<1> QED BY <1>1 DEF PhaseOf, StatePhase, client_state, Sending

\* The abstract state is a function of the descriptors.
LEMMA PhaseFunction ==
    /\ phase = [f \in Fds |-> phase[f]] /\ due = [f \in Fds |-> due[f]]
    /\ phase' = [f \in Fds |-> phase'[f]] /\ due' = [f \in Fds |-> due'[f]]
<1>1. phase = [f \in Fds |-> phase[f]] /\ phase' = [f \in Fds |-> phase'[f]]
  BY DEF phase
<1>2. due = [f \in Fds |-> due[f]] /\ due' = [f \in Fds |-> due'[f]]
  BY DEF due
<1> QED BY <1>1, <1>2

\* Nothing happens to a connection.
LEMMA NothingMaps ==
    ASSUME UNCHANGED <<fd_count, clients>>,
           \A f \in Fds : f \in open' <=> f \in open,
           pc' = "drained" <=> pc = "drained",
           pc = "drained" => i' = i
    PROVE  phase' = phase /\ due' = due
<1>1. ClientSlots' = ClientSlots BY DEF ClientSlots
<1>2. \A f : SlotOf(f)' = SlotOf(f) BY <1>1 DEF SlotOf
<1>3. ASSUME NEW k PROVE PhaseOf(k)' = PhaseOf(k)
  <2>1. (pc' = "drained" /\ k = i') <=> (pc = "drained" /\ k = i) OBVIOUS
  <2>2. CASE pc = "drained" /\ k = i BY <2>1, <2>2 DEF PhaseOf
  <2>3. CASE ~(pc = "drained" /\ k = i) BY <2>1, <2>3 DEF PhaseOf
  <2> QED BY <2>2, <2>3
<1>4. phase' = phase BY <1>2, <1>3 DEF phase
<1>5. due' = due BY <1>2, <1>4 DEF due, Unsent
<1> QED BY <1>4, <1>5

\* The connection being served changes, and no other one.
LEMMA ServedMaps ==
    ASSUME IInv, IInv', ServesOne, NEW c, Becomes(c), pc' # "exited"
    PROVE  LET f == clients[i].fd
           IN  /\ f \in Fds /\ phase[f] = PhaseOf(i) /\ due[f] = DueOf(i)
               /\ phase' = [phase EXCEPT ![f] = PhaseOf(i)']
               /\ due' = [due EXCEPT ![f] = DueOf(i)']
               /\ broken' = broken /\ clients'[i] = c
<1> DEFINE f == clients[i].fd
<1>1. /\ Serving /\ i \in ClientSlots /\ i' = i /\ open' = open
      /\ ClientSlots' = ClientSlots /\ pc # "exited"
      /\ \A k \in ClientSlots : k \in 0..(fd_size - 1)
      /\ clients \in [0..(fd_size - 1) -> Client]
  BY ServingSlot, ListenerAssumption
  DEF ServesOne, Serving, ClientSlots, TableInv, TableType
<1>2. /\ clients'[i] = c /\ c.fd = f
      /\ \A k \in ClientSlots : k # i => clients'[k] = clients[k]
  BY <1>1 DEF Becomes
<1>3. \A k \in ClientSlots : k # i => /\ PhaseOf(k)' = PhaseOf(k)
                                      /\ DueOf(k)' = DueOf(k)
  <2>1. \A k \in ClientSlots : k # i => PhaseOf(k)' = PhaseOf(k)
    BY <1>1, <1>2 DEF PhaseOf
  <2> QED BY <1>2, <2>1 DEF DueOf, Unsent
<1>4. /\ \A k \in ClientSlots : clients[k].fd \in Fds /\ clients[k].fd \in open
      /\ \A g \in Fds : g \in open => \E k \in ClientSlots : clients[k].fd = g
  BY <1>1, SlotMaps
<1>5. /\ \A k \in ClientSlots : /\ phase[clients[k].fd] = PhaseOf(k)
                                /\ due[clients[k].fd] = DueOf(k)
      /\ \A g \in Fds \ open : phase[g] = "closed" /\ due[g] = 0
  BY <1>1, PhaseMaps DEF Mapped
<1>6. /\ \A k \in ClientSlots : /\ phase'[clients'[k].fd] = PhaseOf(k)'
                                /\ due'[clients'[k].fd] = DueOf(k)'
      /\ \A g \in Fds \ open : phase'[g] = "closed" /\ due'[g] = 0
  <2>1. (pc # "exited")' OBVIOUS
  <2>2. Mapped' BY <2>1, PhaseMaps, PTL
  <2> QED BY <1>1, <2>2 DEF Mapped
<1>7. phase'[f] = PhaseOf(i)' /\ due'[f] = DueOf(i)'
  BY <1>1, <1>2, <1>6
<1>8. ASSUME NEW g \in Fds, g # f PROVE phase'[g] = phase[g] /\ due'[g] = due[g]
  <2>1. CASE g \notin open BY <1>1, <1>5, <1>6, <2>1
  <2>2. CASE g \in open
    <3>1. PICK k \in ClientSlots : clients[k].fd = g BY <1>4, <2>2
    <3>2. k # i /\ clients'[k].fd = g BY <1>2, <1>8, <3>1
    <3>3. phase[g] = PhaseOf(k) /\ due[g] = DueOf(k) BY <1>5, <3>1
    <3>4. phase'[g] = PhaseOf(k)' /\ due'[g] = DueOf(k)'
      BY <1>1, <1>6, <3>2
    <3> QED BY <1>3, <3>2, <3>3, <3>4
  <2> QED BY <2>1, <2>2
<1>9. f \in Fds BY <1>1, <1>4
<1>10. broken' = broken BY DEF broken, ServesOne
<1>11. phase[f] = PhaseOf(i) /\ due[f] = DueOf(i) BY <1>1, <1>5
<1> HIDE DEF f
<1>12. phase' = [phase EXCEPT ![f] = PhaseOf(i)']
  <2> DEFINE x == PhaseOf(i)'
  <2>1. phase'[f] = x BY <1>7
  <2> HIDE DEF x
  <2>2. phase' = [phase EXCEPT ![f] = x] BY <1>8, <1>9, <2>1, PhaseFunction
  <2> QED BY <2>2 DEF x
<1>13. due' = [due EXCEPT ![f] = DueOf(i)']
  <2> DEFINE x == DueOf(i)'
  <2>1. due'[f] = x BY <1>7
  <2> HIDE DEF x
  <2>2. due' = [due EXCEPT ![f] = x] BY <1>8, <1>9, <2>1, PhaseFunction
  <2> QED BY <2>2 DEF x
<1> QED BY <1>2, <1>9, <1>10, <1>11, <1>12, <1>13 DEF f

\* close_conn(k) closes the connection in slot k; the one that moves into the
\* hole lives on.
LEMMA ClosedMaps ==
    ASSUME IInv, IInv', NEW k \in ClientSlots, close_conn(k),
           pc \notin {"exited", "drained"}, pc' \notin {"exited", "drained"},
           running' = running,
           \/ PhaseOf(k) = "closing" \/ sock[clients[k].fd].rst \/ ~running
    PROVE  Lifecycle!Close(clients[k].fd)
<1> DEFINE f == clients[k].fd
<1>1. /\ \A n \in ClientSlots' :
            /\ MovedFrom(n, k) \in ClientSlots /\ MovedFrom(n, k) # k
            /\ clients'[n] = clients[MovedFrom(n, k)]
      /\ \A j \in ClientSlots :
            j # k => \E n \in ClientSlots' : MovedFrom(n, k) = j
  BY TypeParts, CloseConnMoves DEF IInv
<1>2. k # 0 BY ListenerAssumption DEF ClientSlots
<1>3. /\ sock' = [sock EXCEPT ![f] = FreshSocket] /\ open' = open \ {f}
  BY <1>2 DEF close_conn
<1>4. /\ f \in Fds /\ f \in open
      /\ \A g \in Fds : g \in open => \E j \in ClientSlots : clients[j].fd = g
  BY SlotMaps
<1>5. Mapped BY PhaseMaps
<1>6. Mapped'
  <2>1. (pc # "exited")' OBVIOUS
  <2> QED BY <2>1, PhaseMaps, PTL
<1>7. phase'[f] = "closed" /\ due'[f] = 0 BY <1>3, <1>4, <1>6 DEF Mapped
<1>8. ASSUME NEW g \in Fds, g # f PROVE phase'[g] = phase[g] /\ due'[g] = due[g]
  <2>1. CASE g \notin open BY <1>3, <1>5, <1>6, <2>1 DEF Mapped
  <2>2. CASE g \in open
    <3>1. PICK j \in ClientSlots : clients[j].fd = g BY <1>4, <2>2
    <3>2. j # k BY <1>8, <3>1
    <3>3. PICK n \in ClientSlots' : MovedFrom(n, k) = j BY <1>1, <3>2
    <3>4. clients'[n] = clients[j] BY <1>1, <3>3
    <3>5. PhaseOf(n)' = PhaseOf(j) BY <3>4 DEF PhaseOf
    <3>6. DueOf(n)' = DueOf(j) BY <3>4, <3>5 DEF DueOf, Unsent
    <3>7. phase[g] = PhaseOf(j) /\ due[g] = DueOf(j) BY <1>5, <3>1 DEF Mapped
    <3>8. phase'[g] = PhaseOf(n)' /\ due'[g] = DueOf(n)'
      BY <1>6, <3>1, <3>4 DEF Mapped
    <3> QED BY <3>5, <3>6, <3>7, <3>8
  <2> QED BY <2>1, <2>2
<1>9. phase[f] = PhaseOf(k) BY <1>5 DEF Mapped
<1>10. phase[f] # "closed" BY <1>9, PhaseOpen
<1>11. broken' = broken \ {f}
  <2>1. sock \in [Fds -> Socket] BY DEF IInv, TypeOK
  <2>2. ~FreshSocket.rst BY DEF FreshSocket
  <2> QED BY <1>3, <1>4, <2>1, <2>2 DEF broken
<1>12. phase[f] = "closing" \/ f \in broken \/ ~running
  BY <1>4, <1>9 DEF broken
<1> HIDE DEF f
<1>13. /\ phase' = [phase EXCEPT ![f] = "closed"]
       /\ due' = [due EXCEPT ![f] = 0]
  BY <1>4, <1>7, <1>8, PhaseFunction
<1>14. (~running)' = ~running OBVIOUS
<1> QED BY <1>10, <1>11, <1>12, <1>13, <1>14 DEF Lifecycle!Close, f

\* add_to_lists() opens a connection.
LEMMA AddedMaps ==
    ASSUME IInv, IInv', NEW f \in Free, add_to_lists(f), open' = open \cup {f},
           pc \notin {"exited", "drained"}, pc' \notin {"exited", "drained"},
           UNCHANGED <<sock, running>>
    PROVE  Lifecycle!Open(f)
<1>1. /\ ClientSlots' = ClientSlots \cup {fd_count}
      /\ clients'[fd_count] = NewClient(f)
      /\ \A k \in ClientSlots : clients'[k] = clients[k]
      /\ f \in Fds /\ f \notin open
  BY TypeParts, SlotAdded DEF IInv, Free
<1>2. \A g \in Fds : g \in open => \E k \in ClientSlots : clients[k].fd = g
  BY SlotMaps
<1>3. Mapped BY PhaseMaps
<1>4. Mapped'
  <2>1. (pc # "exited")' OBVIOUS
  <2> QED BY <2>1, PhaseMaps, PTL
<1>5. phase[f] = "closed" /\ due[f] = 0 BY <1>1, <1>3 DEF Mapped
<1>6. phase'[f] = "reading" /\ due'[f] = 0
  <2>1. NewClient(f).fd = f /\ NewClient(f).state = "READING" BY DEF NewClient
  <2>2. \A k : k = fd_count => PhaseOf(k)' = "reading" /\ DueOf(k)' = 0
    BY <1>1, <2>1 DEF PhaseOf, StatePhase, DueOf, Sending
  <2>3. \A k : k = fd_count => /\ phase'[clients'[k].fd] = PhaseOf(k)'
                               /\ due'[clients'[k].fd] = DueOf(k)'
    BY <1>1, <1>4 DEF Mapped
  <2> QED BY <1>1, <2>1, <2>2, <2>3
<1>7. ASSUME NEW g \in Fds, g # f PROVE phase'[g] = phase[g] /\ due'[g] = due[g]
  <2>1. CASE g \notin open BY <1>3, <1>4, <1>7, <2>1 DEF Mapped
  <2>2. CASE g \in open
    <3>1. PICK k \in ClientSlots : clients[k].fd = g BY <1>2, <2>2
    <3>2. clients'[k] = clients[k] /\ k \in ClientSlots' BY <1>1
    <3>3. PhaseOf(k)' = PhaseOf(k) BY <3>2 DEF PhaseOf
    <3>4. DueOf(k)' = DueOf(k) BY <3>2, <3>3 DEF DueOf, Unsent
    <3>5. phase[g] = PhaseOf(k) /\ due[g] = DueOf(k) BY <1>3, <3>1 DEF Mapped
    <3>6. phase'[g] = PhaseOf(k)' /\ due'[g] = DueOf(k)'
      BY <1>4, <3>1, <3>2 DEF Mapped
    <3> QED BY <3>3, <3>4, <3>5, <3>6
  <2> QED BY <2>1, <2>2
<1>8. /\ phase' = [phase EXCEPT ![f] = "reading"] /\ due' = due
  BY <1>1, <1>5, <1>6, <1>7, PhaseFunction
<1>9. broken' = broken BY DEF broken
<1> QED BY <1>5, <1>8, <1>9 DEF Lifecycle!Open, Lifecycle!Move

-----------------------------------------------------------------------------
(* The refinement.                                                          *)

AbstractStep == [Lifecycle!Next]_(Lifecycle!vars)

\* Nothing of the abstract state changes.
LEMMA Stutters ==
    ASSUME UNCHANGED <<phase, due, broken, running>>
    PROVE  AbstractStep
BY DEF AbstractStep, Lifecycle!vars

LEMMA InitMaps == Init => Lifecycle!Init
<1> SUFFICES ASSUME Init PROVE Lifecycle!Init OBVIOUS
<1>1. \A f \in Fds : f \notin open
  BY ListenerAssumption DEF Init, Listeners
<1>2. phase = [f \in Fds |-> "closed"] BY <1>1 DEF phase
<1>3. due = [f \in Fds |-> 0] BY <1>2 DEF due
<1>4. broken = {} BY DEF Init, broken, FreshSocket
<1>5. (~running) = FALSE BY DEF Init
<1> QED BY <1>2, <1>3, <1>4, <1>5 DEF Lifecycle!Init

LEMMA MainMaps == IInv /\ IInv' /\ LInv /\ MainStep => AbstractStep
<1> SUFFICES ASSUME IInv, IInv', LInv, MainStep PROVE AbstractStep OBVIOUS
<1>1. /\ IndexInv /\ num_listeners \in Nat \ {0} /\ i \in Nat
      /\ fd_count \in Nat
  BY ListenerAssumption DEF IInv, TypeOK
<1> USE DEF table, extent, held, kernel, sig
<1>2. CASE \/ LoopTest \/ EnterPoll \/ PollReturns \/ ScanEnd \/ ScanListener
           \/ ScanIdle \/ ScanEvent \/ ShutdownDone \/ StaleFcloseAborts
           \/ (CloseTest /\ UNCHANGED <<table, held, sock>>)
  <2>1. /\ UNCHANGED <<fd_count, clients, sock, running>>
        /\ pc # "drained" /\ pc' # "drained"
        /\ open' = open \/ open' = open \ Listeners
    BY <1>2
    DEF LoopTest, EnterPoll, PollReturns, ScanEnd, ScanListener, ScanIdle,
        ScanEvent, ShutdownDone, StaleFcloseAborts, CloseTest, AtClient
  <2>2. \A f \in Fds : f \notin Listeners BY ListenerAssumption DEF Listeners
  <2>3. phase' = phase /\ due' = due BY <2>1, <2>2, NothingMaps
  <2>4. broken' = broken BY <2>1 DEF broken
  <2> QED BY <2>1, <2>3, <2>4, Stutters
<1>3. CASE ScanError \/ ShutdownClient
  <2>1. /\ i \in ClientSlots /\ close_conn(i) /\ UNCHANGED <<pc, running>>
        /\ pc \in {"scan", "shutdown"}
        /\ pc = "scan" => "ERR" \in pfds[i].revents
    BY <1>1, <1>3
    DEF ScanError, ShutdownClient, AtClient, ClientSlots, IndexInv
  <2>2. clients[i].fd \in Fds /\ clients[i].fd = pfds[i].fd
    BY <2>1 DEF IInv, TableInv
  <2>3. sock[clients[i].fd].rst \/ ~running
    BY <2>1, <2>2 DEF LInv, ReportInv, StopInv
  <2>4. Lifecycle!Close(clients[i].fd) BY <2>1, <2>3, ClosedMaps
  <2> QED BY <2>2, <2>4 DEF AbstractStep, Lifecycle!Next
<1>4. CASE CloseTest /\ ~UNCHANGED <<table, held, sock>>
  <2>1. /\ i \in ClientSlots /\ close_conn(i) /\ pc = "ctest" /\ pc' = "scan"
        /\ clients[i].state = "CLOSING" /\ running' = running
    BY <1>1, <1>4 DEF CloseTest, IndexInv, ClientSlots
  <2>2. PhaseOf(i) = "closing" BY <2>1 DEF PhaseOf, StatePhase, Sending
  <2>3. clients[i].fd \in Fds BY <2>1 DEF IInv, TableInv
  <2>4. Lifecycle!Close(clients[i].fd) BY <2>1, <2>2, ClosedMaps
  <2> QED BY <2>3, <2>4 DEF AbstractStep, Lifecycle!Next
<1> QED BY <1>2, <1>3, <1>4 DEF MainStep

LEMMA AcceptMaps ==
    /\ IInv /\ IInv'
    /\ AcceptStep \/ AcceptAborted \/ AcceptFcntlFails \/ AcceptReallocFails
    => AbstractStep
<1> SUFFICES ASSUME IInv, IInv',
                    AcceptStep \/ AcceptAborted \/ AcceptFcntlFails
                               \/ AcceptReallocFails
             PROVE  AbstractStep
  OBVIOUS
<1> USE DEF table, extent, held, kernel, sig
<1>1. CASE AcceptOne
  <2>1. PICK f \in Free : open' = open \cup {f} /\ add_to_lists(f)
    BY <1>1 DEF AcceptOne
  <2>2. /\ pc = "accept" /\ pc' = "accept" /\ UNCHANGED <<sock, running>>
        /\ f \in Fds
    BY <1>1 DEF AcceptOne, Free
  <2>3. Lifecycle!Open(f) BY <2>1, <2>2, AddedMaps
  <2> QED BY <2>2, <2>3 DEF AbstractStep, Lifecycle!Next
<1>2. CASE \/ AcceptAgain \/ AcceptNoDescriptor \/ AcceptAborted
           \/ AcceptFcntlFails \/ AcceptReallocFails
  <2>1. /\ UNCHANGED <<fd_count, clients, sock, running, open>>
        /\ pc # "drained" /\ pc' # "drained"
    BY <1>2
    DEF AcceptAgain, AcceptNoDescriptor, AcceptAborted, AcceptFcntlFails,
        AcceptReallocFails
  <2>2. phase' = phase /\ due' = due BY <2>1, NothingMaps
  <2>3. broken' = broken BY <2>1 DEF broken
  <2> QED BY <2>1, <2>2, <2>3, Stutters
<1> QED BY <1>1, <1>2 DEF AcceptStep

\* do_read(): the request is refused, given up or answered, or not yet there.
LEMMA ReadMaps ==
    /\ IInv /\ IInv' /\ CInv /\ LInv
    /\ ReadStep \/ RecvReallocFails \/ RecloseAborts
    => AbstractStep
<1> SUFFICES ASSUME IInv, IInv', CInv, LInv,
                    ReadStep \/ RecvReallocFails \/ RecloseAborts
             PROVE  AbstractStep
  OBVIOUS
<1>1. /\ ServesOne /\ pc \in {"recv", "drained"} /\ pc' # "exited"
      /\ \E c : ReadOutcome(c)
  BY ReadShape
<1>2. PICK c : ReadOutcome(c) BY <1>1
<1> DEFINE f == clients[i].fd
           q == PhaseOf(i)'
           d == DueOf(i)'
<1>3. /\ f \in Fds /\ phase[f] = PhaseOf(i) /\ due[f] = DueOf(i)
      /\ phase' = [phase EXCEPT ![f] = q] /\ due' = [due EXCEPT ![f] = d]
      /\ broken' = broken /\ clients'[i] = c
  BY <1>1, <1>2, ServedMaps DEF ReadOutcome
<1>4. i' = i /\ running' = running BY <1>1 DEF ServesOne
<1>5. phase[f] = "reading" /\ due[f] = 0
  <2>1. pc = "recv" => clients[i].state = "READING" BY DEF CInv, ServedState
  <2>2. StatePhase("READING") = "reading" BY DEF StatePhase, Sending
  <2>3. PhaseOf(i) = "reading" BY <1>1, <2>1, <2>2 DEF PhaseOf
  <2> QED BY <1>3, <2>3 DEF DueOf
<1>6. /\ q = IF pc' = "drained" THEN "reading" ELSE StatePhase(c.state)
      /\ d = IF q = "sending" THEN Unsent(c) ELSE 0
  BY <1>3, <1>4 DEF PhaseOf, DueOf
<1>7. /\ q \in {"reading", "refused", "closing", "sending"}
      /\ q = "sending" => d \in Nat
      /\ q # "sending" => d = 0
  BY <1>2, <1>6 DEF ReadOutcome, StatePhase, Sending
<1> HIDE DEF q, d, f
<1>8. due[f] = d => due' = due BY <1>3, PhaseFunction
<1>9. phase[f] = q => phase' = phase BY <1>3, PhaseFunction
<1>10. CASE q = "reading"
  BY <1>3, <1>4, <1>5, <1>7, <1>8, <1>9, <1>10, Stutters
<1>11. CASE q = "refused"
  <2>1. Lifecycle!Refuse(f)
    BY <1>3, <1>4, <1>5, <1>7, <1>8, <1>11 DEF Lifecycle!Refuse, Lifecycle!Move
  <2> QED BY <1>3, <2>1 DEF AbstractStep, Lifecycle!Next
<1>12. CASE q = "closing"
  <2>1. Lifecycle!GiveUp(f)
    BY <1>3, <1>4, <1>5, <1>7, <1>8, <1>12 DEF Lifecycle!GiveUp, Lifecycle!Move
  <2> QED BY <1>3, <2>1 DEF AbstractStep, Lifecycle!Next
<1>13. CASE q = "sending"
  <2>1. due'[f] = d BY <1>3, PhaseFunction
  <2>2. Lifecycle!Respond(f)
    BY <1>3, <1>4, <1>5, <1>7, <1>13, <2>1
    DEF Lifecycle!Respond, Lifecycle!Move
  <2> QED BY <1>3, <2>2 DEF AbstractStep, Lifecycle!Next
<1> QED BY <1>7, <1>10, <1>11, <1>12, <1>13

\* do_write(): bytes are handed over, and the end comes when none is left.
LEMMA WriteMaps == IInv /\ IInv' /\ CInv /\ LInv /\ WriteStep => AbstractStep
<1> SUFFICES ASSUME IInv, IInv', CInv, LInv, WriteStep PROVE AbstractStep
  OBVIOUS
<1>1. /\ ServesOne /\ pc \in {"wtest", "send"}
      /\ pc' \in {"send", "ctest", "failed"} /\ \E c : WriteOutcome(c)
  BY WriteShape
<1>2. PICK c : WriteOutcome(c) BY <1>1
<1> DEFINE f == clients[i].fd
           q == PhaseOf(i)'
           d == DueOf(i)'
<1>3. /\ f \in Fds /\ phase[f] = PhaseOf(i) /\ due[f] = DueOf(i)
      /\ phase' = [phase EXCEPT ![f] = q] /\ due' = [due EXCEPT ![f] = d]
      /\ broken' = broken /\ clients'[i] = c
  BY <1>1, <1>2, ServedMaps DEF WriteOutcome
<1>4. i' = i /\ running' = running BY <1>1 DEF ServesOne
<1>5. /\ phase[f] = StatePhase(clients[i].state)
      /\ due[f] = IF phase[f] = "sending" THEN Unsent(clients[i]) ELSE 0
      /\ q = StatePhase(c.state)
      /\ d = IF q = "sending" THEN Unsent(c) ELSE 0
  BY <1>1, <1>3, <1>4 DEF PhaseOf, DueOf
<1>6. /\ \A st \in Sending : StatePhase(st) = "sending"
      /\ StatePhase("CLOSING") = "closing"
  BY DEF StatePhase, Sending
<1> HIDE DEF q, d, f
<1>7. due[f] = d => due' = due BY <1>3, PhaseFunction
<1>8. phase[f] = q => phase' = phase BY <1>3, PhaseFunction
<1>9. CASE c = clients[i]
  BY <1>3, <1>4, <1>5, <1>7, <1>8, <1>9, Stutters
<1>10. CASE /\ clients[i].state \in Sending /\ c.state = clients[i].state
            /\ \E n \in 1..Unsent(clients[i]) :
                  Unsent(c) = Unsent(clients[i]) - n
  <2>1. PICK n \in 1..Unsent(clients[i]) : Unsent(c) = Unsent(clients[i]) - n
    BY <1>10
  <2>2. phase[f] = "sending" /\ q = "sending" BY <1>5, <1>6, <1>10
  <2>3. n \in 1..due[f] /\ d = due[f] - n BY <1>5, <2>1, <2>2
  <2>4. due' = [due EXCEPT ![f] = due[f] - n] BY <1>3, <2>3
  <2>5. phase' = phase BY <1>8, <2>2
  <2>6. \E m \in 1..due[f] : due' = [due EXCEPT ![f] = due[f] - m]
    BY <2>3, <2>4
  <2>7. Lifecycle!Send(f)
    BY <1>3, <1>4, <2>2, <2>5, <2>6 DEF Lifecycle!Send
  <2> QED BY <1>3, <2>7 DEF AbstractStep, Lifecycle!Next
<1>11. CASE /\ clients[i].state \in Sending /\ c.state = "CLOSING"
            /\ Unsent(clients[i]) = 0
  <2>1. phase[f] = "sending" /\ q = "closing" /\ due[f] = 0 /\ d = 0
    BY <1>5, <1>6, <1>11
  <2>2. Lifecycle!Finish(f)
    BY <1>3, <1>4, <1>7, <2>1 DEF Lifecycle!Finish, Lifecycle!Move
  <2> QED BY <1>3, <2>2 DEF AbstractStep, Lifecycle!Next
<1> QED BY <1>2, <1>9, <1>10, <1>11 DEF WriteOutcome

\* A reset breaks a connection and a signal stops the server.
LEMMA EnvMaps == IInv /\ (EnvStep \/ PollFails) => AbstractStep
<1> SUFFICES ASSUME IInv, EnvStep \/ PollFails PROVE AbstractStep OBVIOUS
<1>1. phase' = phase /\ due' = due
  <2>1. /\ UNCHANGED <<i, fd_count, clients, open>>
        /\ pc' = "drained" <=> pc = "drained"
    BY EnvShape
  <2> QED BY <2>1, NothingMaps
<1>2. CASE running' = running /\ \A f \in Fds : sock'[f].rst = sock[f].rst
  <2>1. broken' = broken BY <1>2 DEF broken
  <2> QED BY <1>1, <1>2, <2>1, Stutters
<1>3. CASE running' = FALSE /\ sock' = sock
  <2>1. broken' = broken BY <1>3 DEF broken
  <2>2. (~running)' = TRUE BY <1>3
  <2> QED BY <1>1, <2>1, <2>2
          DEF AbstractStep, Lifecycle!Next, Lifecycle!Stop
<1>4. CASE /\ running' = running
           /\ \E f \in Fds : /\ f \in open /\ sock'[f].rst
                             /\ \A g \in Fds \ {f} : sock'[g] = sock[g]
  <2>1. PICK f \in Fds : /\ f \in open /\ sock'[f].rst
                         /\ \A g \in Fds \ {f} : sock'[g] = sock[g]
    BY <1>4
  <2>2. broken' = broken \cup {f} BY <2>1 DEF broken
  <2>3. phase[f] # "closed"
    <3>1. pc # "exited"
      BY DEF EnvStep, PollFails, Connect, PeerSend, PeerShutdown, PeerReset,
         PeerRead, Signal, Alive, Terminated, AtSystemCall
    <3>2. PICK k \in ClientSlots : clients[k].fd = f BY <2>1, <3>1, SlotMaps
    <3>3. phase[f] = PhaseOf(k) BY <3>1, <3>2, PhaseMaps DEF Mapped
    <3> QED BY <3>3, PhaseOpen
  <2>4. Lifecycle!Break(f)
    BY <1>1, <1>4, <2>2, <2>3 DEF Lifecycle!Break
  <2> QED BY <2>4 DEF AbstractStep, Lifecycle!Next
<1> QED BY <1>2, <1>3, <1>4, EnvShape

\* Every step of the event loop is a step of the life cycle or leaves it alone.
LEMMA StepMaps ==
    IInv /\ IInv' /\ CInv /\ LInv /\ [Next]_vars => AbstractStep
<1> SUFFICES ASSUME IInv, IInv', CInv, LInv, [Next]_vars PROVE AbstractStep
  OBVIOUS
<1>1. CASE UNCHANGED vars
  <2>1. UNCHANGED <<pc, i, fd_count, clients, open, sock, running>>
    BY <1>1 DEF vars, table, kernel
  <2>2. phase' = phase /\ due' = due BY <2>1, NothingMaps
  <2>3. broken' = broken BY <2>1 DEF broken
  <2> QED BY <2>1, <2>2, <2>3, Stutters
<1>2. CASE Next
  BY <1>1, <1>2, MainMaps, AcceptMaps, ReadMaps, WriteMaps, EnvMaps
  DEF Next, ServerStep, FaultStep, Stopped
<1> QED BY <1>1, <1>2

\* Whatever connections come, go and fail, and whatever slots they move
\* through: one request, at most one response, and the close only after all of
\* it was handed to send(), unless the peer reset the connection or the server
\* stops.
THEOREM LoopImplementsLifecycle == Spec => ImplementsLifecycle
<1>1. Init => Lifecycle!Init BY InitMaps
<1>2. IInv /\ IInv' /\ CInv /\ LInv /\ [Next]_vars
         => [Lifecycle!Next]_(Lifecycle!vars)
  BY StepMaps DEF AbstractStep
<1>3. Spec => []LInv
  BY InitLInv, NextLInv, SpecIInv, SpecCInv, PTL DEF Spec
<1> QED BY <1>1, <1>2, <1>3, SpecIInv, SpecCInv, PTL
        DEF Spec, ImplementsLifecycle, Lifecycle!Spec

=============================================================================
