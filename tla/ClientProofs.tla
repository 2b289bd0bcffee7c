---------------------------- MODULE ClientProofs ----------------------------
(***************************************************************************)
(* What holds of each connection by itself: its buffers are large enough   *)
(* and it waits for the event its state needs, for any number of           *)
(* descriptors and any bounds.                                             *)
(***************************************************************************)
EXTENDS EventLoopProofs

\* The capacities append()'s doubling goes through.
Capacities == {0, INIT_CAP, 2 * INIT_CAP, 4 * INIT_CAP, 8 * INIT_CAP}

\* The buffers of a client, with what keeps them so: the capacity is one of the
\* doubling, and nothing is sent while the request is read.
SoundBuffers(c) ==
    /\ c.input_length <= c.input_capacity
    /\ c.input_capacity <= MAX_REQUEST_SIZE
    /\ c.input_capacity \in Capacities
    /\ c.in_buf = NULL <=> c.input_capacity = 0
    /\ c.output_sent <= c.output_length
    /\ c.state = "READING" => c.output_sent = 0

\* The event the poll set asks for is the one the client's state needs.
Awaited(c, p) == p.events = IF c.state \in Sending THEN "OUT" ELSE "IN"

\* A client that is CLOSING is the one being served.
SlotInv ==
    \A k \in ClientSlots :
        /\ SoundBuffers(clients[k])
        /\ clients[k].state # "CLOSING" => Awaited(clients[k], pfds[k])
        /\ clients[k].state = "CLOSING" => (Serving /\ k = i) \/ pc = "failed"

\* do_read() works on a client to which nothing was sent, and receives in the
\* READING state; do_write() sends in a sending state.
ServedState ==
    /\ pc \in {"recv", "drained"} => clients[i].output_sent = 0
    /\ pc = "recv" => clients[i].state = "READING"
    /\ pc = "send" => clients[i].state \in Sending

CInv == SlotInv /\ ServedState

-----------------------------------------------------------------------------
(* append() and send().                                                     *)

\* append()'s doubling ends at a capacity that is enough and within the
\* ceiling, whatever the bytes that arrive at once.
LEMMA GrowToBounds ==
    ASSUME NEW cap \in Capacities, NEW need \in Nat,
           cap < need, need <= MAX_REQUEST_SIZE
    PROVE  /\ GrowTo(cap, need) \in Capacities \ {0}
           /\ need <= GrowTo(cap, need)
           /\ GrowTo(cap, need) <= MAX_REQUEST_SIZE
<1>1. INIT_CAP \in Nat \ {0}
  BY CapacityAssumption
<1>2. CASE cap = 0
  BY <1>1, <1>2, CapacityAssumption DEF GrowTo, Capacities
<1>3. CASE cap = INIT_CAP
  BY <1>1, <1>3, CapacityAssumption DEF GrowTo, Capacities
<1>4. CASE cap = 2 * INIT_CAP
  BY <1>1, <1>4, CapacityAssumption DEF GrowTo, Capacities
<1>5. CASE cap = 4 * INIT_CAP
  BY <1>1, <1>5, CapacityAssumption DEF GrowTo, Capacities
<1>6. CASE cap = 8 * INIT_CAP
  BY <1>1, <1>6, CapacityAssumption DEF GrowTo, Capacities
<1> QED
  BY <1>2, <1>3, <1>4, <1>5, <1>6 DEF Capacities

\* append() keeps the buffers sound.
LEMMA AppendedSound ==
    ASSUME NEW c \in Client, c.fd \in Fds, SoundBuffers(c), NEW n \in Nat,
           NEW end \in BOOLEAN, ~TooLong(c, n)
    PROVE  SoundBuffers(Appended(c, n, end))
<1> DEFINE new == Appended(c, n, end)
           need == c.input_length + n
<1>1. /\ c.input_length \in Nat /\ c.input_capacity \in Capacities
      /\ c.input_capacity \in Nat /\ need \in Nat /\ need <= MAX_REQUEST_SIZE
  BY CapacityAssumption DEF Client, SoundBuffers, TooLong
<1>2. /\ new.input_length = need
      /\ new.input_capacity = IF MustGrow(c, n)
                              THEN GrowTo(c.input_capacity, need)
                              ELSE c.input_capacity
      /\ new.in_buf = IF MustGrow(c, n) THEN <<c.fd, "in">> ELSE c.in_buf
      /\ new.output_sent = c.output_sent
      /\ new.output_length = c.output_length /\ new.state = c.state
  BY DEF Appended, Client
<1> HIDE DEF new
<1>3. CASE MustGrow(c, n)
  <2>1. c.input_capacity < need
    BY <1>1, <1>3 DEF MustGrow
  <2>2. /\ GrowTo(c.input_capacity, need) \in Capacities \ {0}
        /\ need <= GrowTo(c.input_capacity, need)
        /\ GrowTo(c.input_capacity, need) <= MAX_REQUEST_SIZE
    BY <1>1, <2>1, GrowToBounds
  <2>3. <<c.fd, "in">> # NULL
    BY ListenerAssumption
  <2>4. /\ new.input_length <= new.input_capacity
        /\ new.input_capacity <= MAX_REQUEST_SIZE
        /\ new.input_capacity \in Capacities
    BY <1>2, <1>3, <2>2
  <2>5. new.in_buf # NULL /\ new.input_capacity # 0
    BY <1>2, <1>3, <2>2, <2>3
  <2>6. /\ new.output_sent <= new.output_length
        /\ new.state = "READING" => new.output_sent = 0
    BY <1>2 DEF SoundBuffers
  <2> QED
    BY <2>4, <2>5, <2>6 DEF SoundBuffers, new
<1>4. CASE ~MustGrow(c, n)
  <2>1. need <= c.input_capacity
    BY <1>1, <1>4 DEF MustGrow
  <2>2. /\ new.input_length = need /\ new.input_capacity = c.input_capacity
        /\ new.in_buf = c.in_buf
    BY <1>2, <1>4
  <2> HIDE DEF need
  <2> QED
    BY <1>2, <2>1, <2>2 DEF SoundBuffers, new
<1> QED
  BY <1>3, <1>4 DEF new

-----------------------------------------------------------------------------
(* The shapes of steps.                                                     *)

\* No connection is there at first.
LEMMA InitCInv == Init => CInv
BY ListenerAssumption DEF Init, CInv, SlotInv, ServedState, ClientSlots

\* A step that changes neither a client nor what it waits for.  It does not
\* leave the slot it serves, unless the client there is not CLOSING.
LEMMA ClientsKept ==
    ASSUME CInv, UNCHANGED <<fd_count, clients>>,
           \A k \in ClientSlots : pfds'[k].events = pfds[k].events,
           \/ Serving' /\ i' = i
           \/ pc' = "failed"
           \/ \A k \in ClientSlots : clients[k].state # "CLOSING",
           pc # "failed", ServedState'
    PROVE  CInv'
<1>1. ClientSlots' = ClientSlots
  BY DEF ClientSlots
<1>2. \A k \in ClientSlots : clients[k].state = "CLOSING" =>
         (Serving' /\ k = i') \/ pc' = "failed"
  BY DEF CInv, SlotInv, Serving
<1>3. SlotInv'
  BY <1>1, <1>2 DEF CInv, SlotInv, SoundBuffers, Awaited
<1> QED
  BY <1>3 DEF CInv

\* A step that serves slot i and leaves a client c there.
LEMMA ClientServed ==
    ASSUME IInv, CInv, Serving, NEW c, fd_count' = fd_count, i' = i,
           clients' = [clients EXCEPT ![i] = c],
           \A k \in ClientSlots : k # i => pfds'[k].events = pfds[k].events,
           SoundBuffers(c), c.state # "CLOSING" => Awaited(c, pfds'[i]),
           Serving',
           pc' \in {"recv", "drained"} => c.output_sent = 0,
           pc' = "recv" => c.state = "READING",
           pc' = "send" => c.state \in Sending
    PROVE  CInv'
<1>1. /\ i \in ClientSlots /\ ClientSlots' = ClientSlots
      /\ \A k \in ClientSlots : k \in 0..(fd_size - 1)
  BY ServingSlot, ListenerAssumption DEF ClientSlots, TableInv, TableType
<1>2. /\ clients'[i] = c
      /\ \A k \in ClientSlots : k # i => clients'[k] = clients[k]
  BY <1>1, ServingSlot DEF TableType
<1>3. ASSUME NEW k \in ClientSlots, k # i
      PROVE  /\ SoundBuffers(clients[k]) /\ clients[k].state # "CLOSING"
             /\ Awaited(clients[k], pfds[k])
  BY <1>3 DEF CInv, SlotInv, Serving
<1>4. SlotInv'
  BY <1>1, <1>2, <1>3 DEF SlotInv, SoundBuffers, Awaited
<1> QED
  BY <1>2, <1>4 DEF CInv, ServedState

\* close_conn(k), if no other client is CLOSING.
LEMMA ClientClosed ==
    ASSUME TableType, TableInv, CInv, NEW k \in ClientSlots, close_conn(k),
           \A j \in ClientSlots : j # k => clients[j].state # "CLOSING",
           pc' \notin {"recv", "drained", "send"}
    PROVE  CInv'
<1>1. \A n \in ClientSlots' :
         /\ MovedFrom(n, k) \in ClientSlots /\ MovedFrom(n, k) # k
         /\ pfds'[n] = pfds[MovedFrom(n, k)]
         /\ clients'[n] = clients[MovedFrom(n, k)]
  BY CloseConnMoves
<1>2. SlotInv'
  BY <1>1 DEF CInv, SlotInv, SoundBuffers, Awaited
<1> QED
  BY <1>2 DEF CInv, ServedState

-----------------------------------------------------------------------------
(* The steps.                                                               *)

\* The steps of main()'s own code.
LEMMA MainCInv == IInv /\ CInv /\ MainStep => CInv'
<1> SUFFICES ASSUME IInv, CInv, MainStep PROVE CInv'
  OBVIOUS
<1>1. /\ TableType /\ TableInv /\ IndexInv
      /\ num_listeners \in Nat \ {0} /\ i \in Nat /\ fd_count \in Nat
  BY TypeParts, ListenerAssumption DEF IInv, RestType, TableType, TableInv
<1>2. pc # "failed"
  BY DEF MainStep, LoopTest, EnterPoll, PollReturns, ScanEnd, ScanListener,
     ScanIdle, ScanError, ScanEvent, CloseTest, ShutdownClient, ShutdownDone,
     StaleFcloseAborts, AtClient
<1>3. ~Serving => \A k \in ClientSlots : clients[k].state # "CLOSING"
  BY <1>2 DEF CInv, SlotInv
<1>4. CASE \/ LoopTest \/ EnterPoll \/ ScanEnd \/ ScanListener \/ ScanIdle
           \/ ShutdownDone
  <2>1. /\ ~Serving /\ UNCHANGED <<fd_count, clients, pfds>>
        /\ pc' \notin {"recv", "drained", "send"}
    BY <1>4
    DEF LoopTest, EnterPoll, ScanEnd, ScanListener, ScanIdle, ShutdownDone,
        AtClient, Serving, table
  <2> QED
    BY <1>2, <1>3, <2>1, ClientsKept DEF ServedState
<1>5. CASE StaleFcloseAborts
  <2>1. UNCHANGED <<fd_count, clients, pfds>> /\ pc' = "failed"
    BY <1>5 DEF StaleFcloseAborts, table
  <2> QED
    BY <1>2, <2>1, ClientsKept DEF ServedState
<1>6. CASE PollReturns
  <2>1. /\ ~Serving /\ UNCHANGED <<fd_count, clients>> /\ pc' = "scan"
    BY <1>6 DEF PollReturns, Serving, extent
  <2>2. \A k \in ClientSlots : pfds'[k].events = pfds[k].events
    <3>1. \A k \in ClientSlots : pfds[k] \in Pollfd
      BY <1>1 DEF TableType, TableInv, ClientSlots
    <3>2. \A k \in ClientSlots :
             pfds'[k] = [pfds[k] EXCEPT !.revents = Ready(pfds[k])]
      BY <1>1, <1>6 DEF PollReturns, ClientSlots, TableInv, TableType
    <3> QED
      BY <3>1, <3>2 DEF Pollfd
  <2> QED
    BY <1>2, <1>3, <2>1, <2>2, ClientsKept DEF ServedState
<1>7. CASE ScanEvent
  <2>1. /\ ~Serving /\ UNCHANGED <<fd_count, clients, pfds, i>>
        /\ i \in ClientSlots /\ pc' \in {"recv", "wtest"}
        /\ pc' = "recv" => clients[i].state = "READING"
    BY <1>1, <1>7 DEF ScanEvent, AtClient, Serving, ClientSlots, table
  <2>2. ServedState'
    BY <2>1 DEF ServedState, CInv, SlotInv, SoundBuffers
  <2> QED
    BY <1>2, <1>3, <2>1, <2>2, ClientsKept
<1>8. CASE ScanError \/ ShutdownClient
  <2>1. /\ i \in ClientSlots /\ close_conn(i) /\ ~Serving
        /\ pc' \notin {"recv", "drained", "send"}
    BY <1>1, <1>8
    DEF ScanError, ShutdownClient, AtClient, ClientSlots, IndexInv, Serving
  <2> QED
    BY <1>1, <1>3, <2>1, ClientClosed
<1>9. CASE CloseTest
  <2>1. i \in ClientSlots /\ pc' = "scan" /\ Serving
    BY <1>1, <1>9 DEF CloseTest, IndexInv, ClientSlots, Serving
  <2>2. \A j \in ClientSlots : j # i => clients[j].state # "CLOSING"
    BY <1>2 DEF CInv, SlotInv
  <2>3. CASE close_conn(i)
    BY <1>1, <2>1, <2>2, <2>3, ClientClosed
  <2>4. CASE clients[i].state # "CLOSING" /\ UNCHANGED table
    BY <1>2, <2>1, <2>2, <2>4, ClientsKept DEF ServedState, table
  <2> QED
    BY <1>9, <2>3, <2>4 DEF CloseTest
<1> QED
  BY <1>4, <1>5, <1>6, <1>7, <1>8, <1>9 DEF MainStep

\* The steps of accept_new_conn().
LEMMA AcceptCInv ==
    /\ IInv /\ CInv
    /\ AcceptStep \/ AcceptAborted \/ AcceptFcntlFails \/ AcceptReallocFails
    => CInv'
<1> SUFFICES ASSUME IInv, CInv,
                    AcceptStep \/ AcceptAborted \/ AcceptFcntlFails
                               \/ AcceptReallocFails
             PROVE  CInv'
  OBVIOUS
<1>1. /\ TableType /\ TableInv
      /\ num_listeners \in Nat \ {0} /\ fd_count \in 0..fd_size
      /\ fd_size \in Nat \ {0} /\ num_listeners <= fd_count
  BY TypeParts, ListenerAssumption DEF IInv, TableType, TableInv
<1>2. pc = "accept"
  BY DEF AcceptStep, AcceptOne, AcceptAgain, AcceptNoDescriptor,
     AcceptAborted, AcceptFcntlFails, AcceptReallocFails
<1>3. \A k \in ClientSlots : clients[k].state # "CLOSING"
  BY <1>2 DEF CInv, SlotInv, Serving
<1>4. CASE AcceptOne
  <2>1. PICK f \in Free : add_to_lists(f)
    BY <1>4 DEF AcceptOne
  <2>2. ClientSlots' = ClientSlots \cup {fd_count}
    BY <1>1, <2>1 DEF add_to_lists, ClientSlots
  <2>3. /\ pfds'[fd_count] = NewPollfd(f) /\ clients'[fd_count] = NewClient(f)
        /\ \A k \in ClientSlots : pfds'[k] = pfds[k] /\ clients'[k] = clients[k]
    <3>1. NewSize \in Nat /\ fd_size <= NewSize /\ fd_count + 1 <= NewSize
      BY <1>1 DEF NewSize
    <3>2. /\ pfds' = [k \in 0..(NewSize - 1) |->
                      IF k = fd_count THEN NewPollfd(f)
                      ELSE IF k < fd_size THEN pfds[k] ELSE GarbagePollfd]
          /\ clients' = [k \in 0..(NewSize - 1) |->
                      IF k = fd_count THEN NewClient(f)
                      ELSE IF k < fd_size THEN clients[k] ELSE GarbageClient]
      BY <2>1 DEF add_to_lists, Extended
    <3> QED
      BY <1>1, <3>1, <3>2 DEF ClientSlots
  <2>4. /\ SoundBuffers(NewClient(f)) /\ NewClient(f).state # "CLOSING"
        /\ Awaited(NewClient(f), NewPollfd(f))
    BY CapacityAssumption
    DEF NewClient, NewPollfd, SoundBuffers, Capacities, Awaited, Sending
  <2>5. SlotInv'
    BY <1>3, <2>2, <2>3, <2>4 DEF CInv, SlotInv, SoundBuffers, Awaited
  <2> QED
    BY <1>2, <1>4, <2>5 DEF AcceptOne, CInv, ServedState
<1>5. CASE \/ AcceptAgain \/ AcceptNoDescriptor \/ AcceptAborted
           \/ AcceptFcntlFails \/ AcceptReallocFails
  <2>1. /\ UNCHANGED <<fd_count, clients, pfds>>
        /\ pc' \in {"scan", "accept", "failed"}
    BY <1>2, <1>5
    DEF AcceptAgain, AcceptNoDescriptor, AcceptAborted, AcceptFcntlFails,
        AcceptReallocFails, table
  <2> QED
    BY <1>2, <1>3, <2>1, ClientsKept DEF ServedState
<1> QED
  BY <1>4, <1>5 DEF AcceptStep

\* The client being served becomes CLOSING.
LEMMA ClientDone ==
    ASSUME IInv, CInv, Serving, fd_count' = fd_count, i' = i,
           clients' = [clients EXCEPT ![i] =
                          [clients[i] EXCEPT !.state = "CLOSING"]],
           pfds' = pfds, Serving', pc' \notin {"recv", "send"},
           pc' = "drained" => pc \in {"recv", "drained"}
    PROVE  CInv'
<1> DEFINE new == [clients[i] EXCEPT !.state = "CLOSING"]
<1>1. clients[i] \in Client /\ i \in ClientSlots
  BY ServingSlot
<1>2. /\ new.state = "CLOSING" /\ new.output_sent = clients[i].output_sent
      /\ new.input_length = clients[i].input_length
      /\ new.input_capacity = clients[i].input_capacity
      /\ new.in_buf = clients[i].in_buf
      /\ new.output_length = clients[i].output_length
  BY <1>1 DEF Client
<1>3. clients' = [clients EXCEPT ![i] = new]
  OBVIOUS
<1> HIDE DEF new
<1>4. SoundBuffers(new)
  BY <1>1, <1>2 DEF CInv, SlotInv, SoundBuffers
<1>5. pc' \in {"recv", "drained"} => new.output_sent = 0
  BY <1>2 DEF CInv, ServedState
<1> QED
  BY <1>2, <1>3, <1>4, <1>5, ClientServed

\* The steps of do_read().
LEMMA ReadCInv ==
    IInv /\ CInv /\ (ReadStep \/ RecvReallocFails \/ RecloseAborts) => CInv'
<1> SUFFICES ASSUME IInv, CInv, ReadStep \/ RecvReallocFails \/ RecloseAborts
             PROVE  CInv'
  OBVIOUS
<1> DEFINE c == clients[i]
<1>1. pc \in {"recv", "drained"} /\ Serving
  BY DEF Serving, ReadStep, RecvReallocFails, RecloseAborts, RecvData,
     RecvTooLong, RecvEof, RecvError, RecvAgain, ReadIncomplete,
     ProcessRequest, RecvReady
<1>2. /\ c \in Client /\ c.fd \in Fds /\ i \in ClientSlots /\ TableType
      /\ SoundBuffers(c) /\ c.output_sent = 0
      /\ c.state # "CLOSING" => Awaited(c, pfds[i])
      /\ pc = "recv" => c.state = "READING" /\ pfds[i].events = "IN"
  BY <1>1, ServingSlot DEF CInv, SlotInv, ServedState, Awaited, Sending
<1>3. CASE RecvData
  <2> DEFINE end == sock[c.fd].eoh \in 1..Received
             new == Appended(c, Received, end)
  <2>1. /\ clients' = [clients EXCEPT ![i] = new] /\ pc = "recv"
        /\ UNCHANGED <<fd_count, pc, i, pfds>> /\ ~TooLong(c, Received)
    BY <1>3 DEF RecvData, RecvReady, extent
  <2>2. end \in BOOLEAN /\ Received \in Nat
    BY <1>1, ReceivedBounds
  <2> HIDE DEF end
  <2>3. SoundBuffers(new)
    BY <1>2, <2>1, <2>2, AppendedSound
  <2>4. new.state = "READING" /\ new.output_sent = 0
    BY <1>2, <2>1 DEF Appended, Client
  <2> HIDE DEF new
  <2>5. Awaited(new, pfds'[i]) /\ Serving'
    BY <1>1, <1>2, <2>1, <2>4 DEF Awaited, Sending, Serving
  <2> QED
    BY <1>1, <2>1, <2>3, <2>4, <2>5, ClientServed
<1>4. CASE RecvTooLong
  <2> DEFINE new == [c EXCEPT !.state = "PROCESSING", !.resp_val = "RESP_414"]
  <2>1. /\ clients' = [clients EXCEPT ![i] = new]
        /\ pc = "recv" /\ pc' = "wtest"
        /\ UNCHANGED <<fd_count, i, pfds>>
    BY <1>4 DEF RecvTooLong, RecvReady, extent
  <2>2. /\ new.state = "PROCESSING" /\ new.output_sent = c.output_sent
        /\ new.input_length = c.input_length
        /\ new.input_capacity = c.input_capacity /\ new.in_buf = c.in_buf
        /\ new.output_length = c.output_length
    BY <1>2 DEF Client
  <2> HIDE DEF new
  <2>3. SoundBuffers(new)
    BY <1>2, <2>2 DEF SoundBuffers
  <2>4. Awaited(new, pfds'[i]) /\ Serving'
    BY <1>2, <2>1, <2>2 DEF Awaited, Sending, Serving
  <2> QED
    BY <1>1, <2>1, <2>3, <2>4, ClientServed
<1>5. CASE RecvEof \/ RecvError \/ RecvReallocFails
  <2>1. /\ clients' = [clients EXCEPT ![i] = [c EXCEPT !.state = "CLOSING"]]
        /\ UNCHANGED <<fd_count, i, pfds>> /\ pc' \in {"wtest", "drained"}
    BY <1>5 DEF RecvEof, RecvError, RecvReallocFails, extent
  <2>2. Serving' /\ pc' \notin {"recv", "send"}
    BY <2>1 DEF Serving
  <2> QED
    BY <1>1, <2>1, <2>2, ClientDone
<1>6. CASE RecvAgain \/ ReadIncomplete \/ RecloseAborts
  <2>1. /\ UNCHANGED <<fd_count, clients, pfds, i>>
        /\ pc' \in {"wtest", "drained", "failed"}
    BY <1>6 DEF RecvAgain, ReadIncomplete, RecloseAborts, table
  <2>2. ServedState' /\ pc # "failed" /\ (Serving' \/ pc' = "failed")
    BY <1>1, <1>2, <2>1 DEF ServedState, Serving
  <2> QED
    BY <2>1, <2>2, ClientsKept
<1>7. CASE ProcessRequest
  <2>1. PICK r \in Results : clients' = [clients EXCEPT ![i] = Answered(c, r)]
    BY <1>7 DEF ProcessRequest
  <2> DEFINE new == Answered(c, r)
  <2>2. /\ new.state = "SENDING_HEADER" /\ new.output_sent = 0
        /\ new.input_length = c.input_length
        /\ new.input_capacity = c.input_capacity /\ new.in_buf = c.in_buf
        /\ new.output_length = r.len /\ r.len \in Nat
    BY <1>2, ResultsAssumption DEF Answered, Client
  <2>3. clients' = [clients EXCEPT ![i] = new]
    BY <2>1
  <2> HIDE DEF new
  <2>4. SoundBuffers(new)
    BY <1>2, <2>2 DEF SoundBuffers
  <2>5. /\ pfds' = [pfds EXCEPT ![i].events = "OUT"] /\ pc' = "wtest"
        /\ UNCHANGED <<fd_count, i>>
    BY <1>7 DEF ProcessRequest, extent
  <2>6. /\ pfds'[i].events = "OUT"
        /\ \A k \in ClientSlots : k # i => pfds'[k] = pfds[k]
    <3>1. \A k \in ClientSlots : k \in 0..(fd_size - 1)
      BY <1>1, ServingSlot, ListenerAssumption
      DEF ClientSlots, TableInv, TableType
    <3>2. pfds \in [0..(fd_size - 1) -> Pollfd] /\ i \in 0..(fd_size - 1)
      BY <1>2, <3>1 DEF TableType
    <3> QED
      BY <2>5, <3>1, <3>2 DEF Pollfd
  <2>7. Awaited(new, pfds'[i]) /\ Serving'
    BY <2>2, <2>5, <2>6 DEF Awaited, Sending, Serving
  <2> QED
    BY <1>1, <2>3, <2>4, <2>5, <2>6, <2>7, ClientServed
<1> QED
  BY <1>3, <1>4, <1>5, <1>6, <1>7 DEF ReadStep

\* The steps of do_write().
LEMMA WriteCInv == IInv /\ CInv /\ WriteStep => CInv'
<1> SUFFICES ASSUME IInv, CInv, WriteStep PROVE CInv'
  OBVIOUS
<1> DEFINE c == clients[i]
<1>1. pc \in {"wtest", "send"} /\ Serving
  BY DEF Serving, WriteStep, WriteTest, SendSome, SendFails, SendDone
<1>2. /\ c \in Client /\ sock[c.fd] \in Socket /\ SoundBuffers(c)
      /\ c.state # "CLOSING" => Awaited(c, pfds[i])
      /\ pc = "send" => c.state \in Sending
  BY <1>1, ServingSlot DEF CInv, SlotInv, ServedState
<1>3. CASE WriteTest
  <2>1. /\ UNCHANGED <<fd_count, pfds, i>> /\ pc' \in {"send", "ctest"}
        /\ \/ /\ clients' = clients
              /\ pc' = "send" => c.state \in Sending
           \/ /\ clients' =
                    [clients EXCEPT ![i] = [c EXCEPT !.state = "CLOSING"]]
              /\ pc' = "ctest"
    BY <1>3 DEF WriteTest, WriteWanted, extent
  <2>2. Serving'
    BY <2>1 DEF Serving
  <2>3. CASE clients' = clients /\ (pc' = "send" => c.state \in Sending)
    <3>1. ServedState'
      BY <2>1, <2>3 DEF ServedState
    <3> QED
      BY <1>1, <2>1, <2>2, <2>3, <3>1, ClientsKept
  <2>4. CASE /\ clients' =
                  [clients EXCEPT ![i] = [c EXCEPT !.state = "CLOSING"]]
             /\ pc' = "ctest"
    BY <1>1, <2>1, <2>2, <2>4, ClientDone
  <2> QED
    BY <2>1, <2>3, <2>4
<1>4. CASE SendSome
  <2> DEFINE n == Min2(SndBuf - sock[c.fd].tx, Unsent(c))
             new == [c EXCEPT !.output_sent = @ + n]
  <2>1. n \in Nat /\ n > 0 /\ c.output_sent + n <= c.output_length
    BY <1>2, <1>4, BoundsAssumption DEF SendSome, Min2, Unsent, Socket, Client
  <2>2. /\ clients' = [clients EXCEPT ![i] = new] /\ pc = "send"
        /\ UNCHANGED <<fd_count, pfds, pc, i>>
    BY <1>4 DEF SendSome, extent
  <2> HIDE DEF n
  <2>3. /\ new.state = c.state /\ new.output_sent = c.output_sent + n
        /\ new.input_length = c.input_length
        /\ new.input_capacity = c.input_capacity /\ new.in_buf = c.in_buf
        /\ new.output_length = c.output_length
    BY <1>2 DEF Client
  <2> HIDE DEF new
  <2>4. SoundBuffers(new)
    BY <1>2, <2>1, <2>2, <2>3 DEF SoundBuffers, Sending
  <2>5. Serving' /\ (new.state # "CLOSING" => Awaited(new, pfds'[i]))
    BY <1>2, <2>2, <2>3 DEF Awaited, Serving
  <2>6. new.state \in Sending
    BY <1>2, <2>2, <2>3
  <2> QED
    BY <1>1, <2>2, <2>4, <2>5, <2>6, ClientServed
<1>5. CASE SendFails
  <2>1. UNCHANGED <<fd_count, clients, pfds>> /\ pc' = "failed"
    BY <1>5 DEF SendFails, table
  <2> QED
    BY <1>1, <2>1, ClientsKept DEF ServedState
<1>6. CASE SendDone
  <2>1. /\ clients' = [clients EXCEPT ![i] = [c EXCEPT !.state = "CLOSING"]]
        /\ UNCHANGED <<fd_count, pfds, i>> /\ pc' = "ctest"
    BY <1>6 DEF SendDone, extent
  <2>2. Serving'
    BY <2>1 DEF Serving
  <2> QED
    BY <1>1, <2>1, <2>2, ClientDone
<1> QED
  BY <1>3, <1>4, <1>5, <1>6 DEF WriteStep

\* Peers, signals and a failing poll() touch no client.
LEMMA EnvCInv == CInv /\ (EnvStep \/ PollFails) => CInv'
<1> SUFFICES ASSUME CInv, EnvStep \/ PollFails PROVE CInv'
  OBVIOUS
<1>1. UNCHANGED <<fd_count, clients, pfds, i>>
  BY DEF EnvStep, PollFails, Connect, PeerSend, PeerShutdown, PeerReset,
     PeerRead, Signal, server, table
<1>2. /\ pc # "failed"
      /\ \/ pc' = pc
         \/ pc = "in_poll" /\ pc' \in {"check", "failed"}
  BY DEF EnvStep, PollFails, Connect, PeerSend, PeerShutdown, PeerReset,
     PeerRead, Signal, AtSystemCall, Alive, Terminated
<1>3. ServedState'
  BY <1>1, <1>2 DEF CInv, ServedState
<1>4. ~Serving => \A k \in ClientSlots : clients[k].state # "CLOSING"
  BY <1>2 DEF CInv, SlotInv
<1>5. Serving => Serving'
  BY <1>2 DEF Serving
<1> QED
  BY <1>1, <1>2, <1>3, <1>4, <1>5, ClientsKept

\* Every step keeps CInv.
LEMMA NextCInv == IInv /\ CInv /\ [Next]_vars => CInv'
<1> SUFFICES ASSUME IInv, CInv, [Next]_vars PROVE CInv'
  OBVIOUS
<1>1. CASE UNCHANGED vars
  BY <1>1
  DEF vars, table, CInv, SlotInv, ServedState, ClientSlots, SoundBuffers,
      Awaited, Serving
<1>2. CASE Next
  BY <1>1, <1>2, MainCInv, AcceptCInv, ReadCInv, WriteCInv, EnvCInv
  DEF Next, ServerStep, FaultStep, Stopped
<1> QED
  BY <1>1, <1>2

\* CInv holds in every state the server reaches.
LEMMA SpecCInv == Spec => []CInv
BY SpecIInv, InitCInv, NextCInv, PTL DEF Spec

\* append() never writes past in_buf and never lets it grow past
\* MAX_REQUEST_SIZE, and do_write() never reads past out_buf, for requests that
\* arrive in any portions and responses that leave in any.
THEOREM BuffersCorrect == Spec => []BufferBounds
<1>1. CInv => BufferBounds
  BY DEF CInv, SlotInv, SoundBuffers, BufferBounds
<1> QED
  BY SpecCInv, <1>1, PTL

\* Whenever the process blocks in poll(), every connection waits for the event
\* its state needs, and none is left CLOSING in the table.
THEOREM EventsCorrect == Spec => []WaitsForItsEvent
<1>1. CInv => WaitsForItsEvent
  BY DEF CInv, SlotInv, Awaited, Serving, WaitsForItsEvent
<1> QED
  BY SpecCInv, <1>1, PTL

=============================================================================
