-------------------------- MODULE EventLoopProofs --------------------------
(***************************************************************************)
(* The connection table of the event loop, for any number of descriptors   *)
(* and any bounds.                                                         *)
(***************************************************************************)
EXTENDS EventLoop, TLAPS

\* Where the loop index may be: at a listener while accepting, at a client
\* while serving one, and never past the end of the table during a scan.
IndexInv ==
    /\ pc = "scan" => i <= fd_count
    /\ pc = "accept" => i < num_listeners
    /\ pc \in {"recv", "drained", "wtest", "send", "ctest"} =>
          num_listeners <= i /\ i < fd_count
    /\ pc = "shutdown" => num_listeners <= i

IInv == TypeOK /\ TableInv /\ OpenExact /\ IndexInv

-----------------------------------------------------------------------------
(* The records the steps store have their types.                            *)

\* The contents the model gives to uninitialised slots have the types of slots.
LEMMA GarbageType == GarbageClient \in Client /\ GarbagePollfd \in Pollfd
BY DEF GarbageClient, GarbagePollfd, Client, Pollfd, client_state,
       NUM_CLIENT_RESP

\* add_to_lists() fills a slot with values of its type.
LEMMA NewSlotType ==
    ASSUME NEW f \in Fds
    PROVE  NewClient(f) \in Client /\ NewPollfd(f) \in Pollfd
BY DEF NewClient, NewPollfd, Client, Pollfd, client_state, NUM_CLIENT_RESP

\* What poll() reports is a set of events.
LEMMA ReadyType ==
    ASSUME NEW p \in Pollfd
    PROVE  Ready(p) \in SUBSET {"IN", "OUT", "ERR"}
BY DEF Ready, Pollfd

\* append()'s new capacity is a number.
LEMMA GrowToNat ==
    ASSUME NEW cap \in Nat, NEW need \in Nat
    PROVE  GrowTo(cap, need) \in Nat
BY CapacityAssumption DEF GrowTo

\* append() leaves a well-typed client.
LEMMA AppendedType ==
    ASSUME NEW c \in Client, c.fd \in Fds, NEW n \in Nat, NEW end \in BOOLEAN
    PROVE  Appended(c, n, end) \in Client
<1> DEFINE cap == IF MustGrow(c, n)
                  THEN GrowTo(c.input_capacity, c.input_length + n)
                  ELSE c.input_capacity
           buf == IF MustGrow(c, n) THEN <<c.fd, "in">> ELSE c.in_buf
           fin == IF end THEN TRUE ELSE c.has_end
<1>1. c.input_length \in Nat /\ c.input_capacity \in Nat
  BY DEF Client
<1>2. c.input_length + n \in Nat
  BY <1>1
<1>2a. GrowTo(c.input_capacity, c.input_length + n) \in Nat
  BY <1>1, <1>2, GrowToNat
<1>2b. cap \in Nat
  BY <1>1, <1>2a
<1>3. buf \in (Fds \X {"in"}) \cup {NULL}
  BY DEF Client
<1>4. fin \in BOOLEAN
  BY DEF Client
<1>5. Appended(c, n, end) =
        [c EXCEPT !.in_buf = buf, !.input_capacity = cap,
                  !.input_length = c.input_length + n, !.has_end = fin]
  BY DEF Appended
<1> HIDE DEF cap, buf, fin
<1> QED
  BY <1>2, <1>2b, <1>3, <1>4, <1>5 DEF Client

\* Queuing a response leaves a well-typed client.
LEMMA AnsweredType ==
    ASSUME NEW c \in Client, c.fd \in Fds, NEW r \in Results
    PROVE  Answered(c, r) \in Client
BY ResultsAssumption DEF Answered, Client, client_state

\* recv() leaves a well-typed socket.
LEMMA TakenType ==
    ASSUME NEW s \in Socket, NEW n \in Nat, n <= s.rx
    PROVE  Taken(s, n) \in Socket
<1> DEFINE left == IF s.eoh > n THEN s.eoh - n ELSE 0
<1>1. s.rx - n \in Nat /\ left \in Nat
  BY DEF Socket
<1>2. Taken(s, n) = [s EXCEPT !.rx = s.rx - n, !.eoh = left]
  BY DEF Taken
<1> HIDE DEF left
<1> QED
  BY <1>1, <1>2 DEF Socket

-----------------------------------------------------------------------------

\* The state in which main() enters its loop satisfies the invariant.
LEMMA InitIInv == Init => IInv
<1> SUFFICES ASSUME Init PROVE IInv
  OBVIOUS
<1>1. \A k \in 0..(num_listeners - 1) : ListenFd[k] \in Listeners
  BY DEF Listeners
<1>2. TypeOK
  BY <1>1, GarbageType, ListenerAssumption
  DEF AllBlocks, Init, TypeOK, AllPcs, Pollfd, Socket, FreshSocket
<1>3. TableInv
  BY ListenerAssumption DEF Init, TableInv, ClientSlots
<1>4. OpenExact
  BY ListenerAssumption DEF Init, OpenExact, ClientSlots
<1>5. IndexInv
  BY DEF Init, IndexInv
<1> QED
  BY <1>2, <1>3, <1>4, <1>5 DEF IInv

-----------------------------------------------------------------------------
(* What close_conn() and add_to_lists() do to the table.                    *)

\* The part of TypeOK and of the table invariants that a step on the table
\* re-establishes, whatever it does with pc and i.
TableType ==
    /\ fd_count \in Nat /\ fd_size \in Nat
    /\ pfds \in [0..(fd_size - 1) -> Pollfd]
    /\ clients \in [0..(fd_size - 1) -> Client]
    /\ open \subseteq Fds \cup Listeners
    /\ heap \subseteq AllBlocks /\ scripts \in Nat
    /\ leaked \subseteq Fds
    /\ sock \in [Fds -> Socket]

OpenTable == open = Listeners \cup {pfds[k].fd : k \in ClientSlots}

\* The slot whose contents slot n has after close_conn(k).
MovedFrom(n, k) == IF n = k THEN fd_count - 1 ELSE n

\* close_conn(k) leaves the slots it found without k: the last one moves into
\* the hole and no other one moves.
LEMMA CloseConnMoves ==
    ASSUME TableType, TableInv, NEW k \in ClientSlots, close_conn(k)
    PROVE  /\ fd_count' = fd_count - 1 /\ fd_size' = fd_size
           /\ \A j : j \in ClientSlots' <=>
                       j \in ClientSlots /\ j # fd_count - 1
           /\ \A n \in ClientSlots' :
                 /\ MovedFrom(n, k) \in ClientSlots /\ MovedFrom(n, k) # k
                 /\ pfds'[n] = pfds[MovedFrom(n, k)]
                 /\ clients'[n] = clients[MovedFrom(n, k)]
           /\ \A m, n \in ClientSlots' :
                 MovedFrom(m, k) = MovedFrom(n, k) => m = n
           /\ \A j \in ClientSlots :
                 j # k => \E n \in ClientSlots' : MovedFrom(n, k) = j
<1> DEFINE last == fd_count - 1
<1>1. /\ k \in Nat /\ k # 0 /\ k <= last /\ last \in 0..(fd_size - 1)
      /\ k \in 0..(fd_size - 1) /\ last \in ClientSlots
  BY ListenerAssumption DEF TableType, TableInv, ClientSlots
<1>2. /\ fd_count' = last /\ fd_size' = fd_size
      /\ pfds' = [pfds EXCEPT ![k] = pfds[last], ![last] = GarbagePollfd]
      /\ clients' =
            [clients EXCEPT ![k] = clients[last], ![last] = GarbageClient]
  BY <1>1 DEF close_conn, Compacted
<1>3. /\ \A j \in 0..(fd_size - 1) : j # k /\ j # last =>
             pfds'[j] = pfds[j] /\ clients'[j] = clients[j]
      /\ k # last => pfds'[k] = pfds[last] /\ clients'[k] = clients[last]
  BY <1>1, <1>2 DEF TableType
<1>4. \A j : j \in ClientSlots' <=> j \in ClientSlots /\ j # last
  <2>1. fd_count' = last /\ fd_count \in Nat /\ num_listeners \in Nat
    BY <1>2, ListenerAssumption DEF TableType
  <2> QED
    BY <1>1, <2>1 DEF ClientSlots
<1>5. ASSUME NEW n \in ClientSlots'
      PROVE  /\ MovedFrom(n, k) \in ClientSlots /\ MovedFrom(n, k) # k
             /\ pfds'[n] = pfds[MovedFrom(n, k)]
             /\ clients'[n] = clients[MovedFrom(n, k)]
  <2>1. n \in ClientSlots /\ n # last
    BY <1>4
  <2>2. n \in 0..(fd_size - 1)
    BY <2>1, ListenerAssumption DEF ClientSlots, TableInv, TableType
  <2>3. CASE n = k
    BY <1>1, <1>3, <2>1, <2>3 DEF MovedFrom
  <2>4. CASE n # k
    BY <1>3, <2>1, <2>2, <2>4 DEF MovedFrom
  <2> QED
    BY <2>3, <2>4
<1>6. /\ \A m, n \in ClientSlots' : MovedFrom(m, k) = MovedFrom(n, k) => m = n
      /\ \A j \in ClientSlots :
            j # k => \E n \in ClientSlots' : MovedFrom(n, k) = j
  BY <1>1, <1>4 DEF MovedFrom
<1> QED
  BY <1>2, <1>4, <1>5, <1>6

\* close_conn() of a client's slot keeps the table well formed.
LEMMA CloseConnTable ==
    ASSUME TableType, TableInv, OpenTable, NEW k \in ClientSlots, close_conn(k)
    PROVE  TableType' /\ TableInv' /\ OpenTable' /\ fd_count' = fd_count - 1
<1> DEFINE last == fd_count - 1
<1>1. /\ k \in Nat /\ k # 0 /\ k <= last /\ last \in 0..(fd_size - 1)
      /\ k \in 0..(fd_size - 1) /\ last \in ClientSlots
      /\ num_listeners \in Nat /\ num_listeners <= k
  BY ListenerAssumption DEF TableType, TableInv, ClientSlots
<1>2. /\ fd_count' = last /\ fd_size' = fd_size
      /\ pfds' = [pfds EXCEPT ![k] = pfds[last], ![last] = GarbagePollfd]
      /\ clients' =
            [clients EXCEPT ![k] = clients[last], ![last] = GarbageClient]
      /\ open' = open \ {clients[k].fd}
      /\ sock' = [sock EXCEPT ![clients[k].fd] = FreshSocket]
      /\ heap' \subseteq heap /\ scripts' = scripts /\ leaked' \subseteq leaked
  BY <1>1 DEF close_conn, Compacted
<1>3. \A j \in 0..(fd_size - 1) : j # k /\ j # last => pfds'[j] = pfds[j]
  BY <1>1, <1>2 DEF TableType
<1>4. TableType'
  <2>1. pfds' \in [0..(fd_size - 1) -> Pollfd]
    BY <1>1, <1>2, GarbageType DEF TableType
  <2>2. clients' \in [0..(fd_size - 1) -> Client]
    BY <1>1, <1>2, GarbageType DEF TableType
  <2>3. sock' \in [Fds -> Socket]
    BY <1>2 DEF TableType, FreshSocket, Socket
  <2> QED
    BY <1>1, <1>2, <2>1, <2>2, <2>3 DEF TableType
<1> DEFINE from(n) == MovedFrom(n, k)
<1>6. \A n \in ClientSlots' :
         /\ from(n) \in ClientSlots /\ from(n) # k
         /\ pfds'[n] = pfds[from(n)] /\ clients'[n] = clients[from(n)]
  BY CloseConnMoves
<1>7. /\ \A m, n \in ClientSlots' : from(m) = from(n) => m = n
      /\ \A j \in ClientSlots : j # k => \E n \in ClientSlots' : from(n) = j
  BY CloseConnMoves
<1> HIDE DEF from
<1>8. TableInv'
  <2>1. num_listeners <= fd_count' /\ fd_count' <= fd_size'
    BY <1>1, <1>2 DEF TableInv, TableType
  <2>2. ASSUME NEW j \in 0..(num_listeners - 1)
        PROVE  pfds'[j].fd = ListenFd[j] /\ pfds'[j].events = "IN"
    BY <1>1, <1>3 DEF TableInv, TableType
  <2>3. ASSUME NEW j \in ClientSlots'
        PROVE  pfds'[j].fd \in Fds /\ clients'[j].fd = pfds'[j].fd
    BY <1>6 DEF TableInv
  <2>4. ASSUME NEW j \in ClientSlots', NEW m \in ClientSlots',
               pfds'[j].fd = pfds'[m].fd
        PROVE  j = m
    BY <1>6, <1>7, <2>4 DEF TableInv
  <2> QED
    BY <2>1, <2>2, <2>3, <2>4 DEF TableInv
<1>9. OpenTable'
  <2>1. {pfds'[j].fd : j \in ClientSlots'} =
            {pfds[j].fd : j \in ClientSlots} \ {pfds[k].fd}
    <3>1. \A j \in ClientSlots : pfds[j].fd = pfds[k].fd => j = k
      BY DEF TableInv
    <3> QED
      BY <1>6, <1>7, <3>1
  <2>2. clients[k].fd = pfds[k].fd /\ pfds[k].fd \notin Listeners
    BY ListenerAssumption DEF TableInv, Listeners
  <2> QED
    BY <1>2, <2>1, <2>2 DEF OpenTable, Listeners
<1> QED
  BY <1>2, <1>4, <1>8, <1>9

\* add_to_lists() of a new descriptor keeps the table well formed, whether or
\* not the arrays grow.
LEMMA AddToListsTable ==
    ASSUME TableType, TableInv, OpenTable, NEW f \in Free, add_to_lists(f),
           open' = open \cup {f}, UNCHANGED <<heap, scripts, leaked, sock>>
    PROVE  TableType' /\ TableInv' /\ OpenTable' /\ fd_count' = fd_count + 1
<1>1. /\ num_listeners \in Nat \ {0} /\ fd_count \in 0..fd_size
      /\ fd_size \in Nat \ {0} /\ num_listeners <= fd_count
      /\ f \in Fds /\ f \notin open
  BY ListenerAssumption DEF TableType, TableInv, Free
<1>2. /\ fd_count' = fd_count + 1
      /\ fd_size' = NewSize
      /\ pfds' = [k \in 0..(NewSize - 1) |->
                      IF k = fd_count THEN NewPollfd(f)
                      ELSE IF k < fd_size THEN pfds[k] ELSE GarbagePollfd]
      /\ clients' = [k \in 0..(NewSize - 1) |->
                      IF k = fd_count THEN NewClient(f)
                      ELSE IF k < fd_size THEN clients[k] ELSE GarbageClient]
  BY <1>1 DEF add_to_lists, Extended
<1>2a. NewSize \in Nat /\ fd_size <= NewSize /\ fd_count + 1 <= NewSize
  BY <1>1 DEF NewSize
<1>3. /\ pfds'[fd_count] = NewPollfd(f) /\ clients'[fd_count] = NewClient(f)
      /\ \A k \in 0..(fd_count - 1) :
            pfds'[k] = pfds[k] /\ clients'[k] = clients[k]
  BY <1>1, <1>2, <1>2a
<1>4. TableType'
  <2>1. pfds' \in [0..(NewSize - 1) -> Pollfd]
    BY <1>1, <1>2, <1>2a, GarbageType, NewSlotType DEF TableType
  <2>2. clients' \in [0..(NewSize - 1) -> Client]
    BY <1>1, <1>2, <1>2a, GarbageType, NewSlotType DEF TableType
  <2> QED
    BY <1>1, <1>2, <1>2a, <2>1, <2>2 DEF TableType
<1>5. ClientSlots' = ClientSlots \cup {fd_count}
  BY <1>1, <1>2 DEF ClientSlots
<1>6. NewPollfd(f).fd = f /\ NewClient(f).fd = f
  BY DEF NewPollfd, NewClient
<1>7. \A k \in ClientSlots : k \in 0..(fd_count - 1) /\ pfds[k].fd \in open
  BY <1>1 DEF OpenTable, ClientSlots
<1>8. TableInv'
  <2>1. num_listeners <= fd_count' /\ fd_count' <= fd_size'
    BY <1>1, <1>2, <1>2a
  <2>2. ASSUME NEW j \in 0..(num_listeners - 1)
        PROVE  pfds'[j].fd = ListenFd[j] /\ pfds'[j].events = "IN"
    BY <1>1, <1>3 DEF TableInv
  <2>3. ASSUME NEW j \in ClientSlots'
        PROVE  pfds'[j].fd \in Fds /\ clients'[j].fd = pfds'[j].fd
    BY <1>1, <1>3, <1>5, <1>6, <1>7 DEF TableInv
  <2>4. ASSUME NEW j \in ClientSlots', NEW m \in ClientSlots',
               pfds'[j].fd = pfds'[m].fd
        PROVE  j = m
    BY <1>1, <1>3, <1>5, <1>6, <1>7, <2>4 DEF TableInv
  <2> QED
    BY <2>1, <2>2, <2>3, <2>4 DEF TableInv
<1>9. OpenTable'
  <2>1. {pfds'[j].fd : j \in ClientSlots'} =
            {pfds[j].fd : j \in ClientSlots} \cup {f}
    BY <1>3, <1>5, <1>6, <1>7
  <2> QED
    BY <2>1 DEF OpenTable, Listeners
<1> QED
  BY <1>2, <1>4, <1>8, <1>9

\* A step that changes neither which connection a slot holds nor which sockets
\* are open.
LEMMA EditTable ==
    ASSUME TableType, TableInv, OpenTable, UNCHANGED <<extent, open>>,
           \A k \in 0..(fd_size - 1) :
               pfds'[k].fd = pfds[k].fd /\ clients'[k].fd = clients[k].fd,
           \A k \in 0..(num_listeners - 1) : pfds'[k].events = pfds[k].events
    PROVE  TableInv' /\ OpenTable'
<1>1. ClientSlots' = ClientSlots
  BY DEF ClientSlots, extent
<1>2. /\ \A k \in ClientSlots : k \in 0..(fd_size - 1)
      /\ \A k \in 0..(num_listeners - 1) : k \in 0..(fd_size - 1)
  BY ListenerAssumption DEF ClientSlots, TableInv, TableType
<1>3. TableInv'
  BY <1>1, <1>2 DEF TableInv, extent
<1>4. OpenTable'
  <2>1. {pfds'[k].fd : k \in ClientSlots'} = {pfds[k].fd : k \in ClientSlots}
    BY <1>1, <1>2
  <2> QED
    BY <2>1 DEF OpenTable, Listeners
<1> QED
  BY <1>3, <1>4

\* The rest of TypeOK.
RestType ==
    /\ pc \in AllPcs /\ i \in Nat /\ running \in BOOLEAN
    /\ backlog \in [Listeners -> Nat]
    /\ unseen \subseteq Fds
    /\ signals \in Nat /\ faults \in Nat

\* TypeOK is the type of the table and the type of the rest, before and after
\* a step.
LEMMA TypeParts ==
    /\ TypeOK <=> TableType /\ RestType
    /\ TypeOK' <=> TableType' /\ RestType'
BY DEF TypeOK, TableType, RestType

\* Every step of main()'s own code keeps the invariant.
LEMMA MainIInv == IInv /\ MainStep => IInv'
<1> SUFFICES ASSUME IInv, MainStep PROVE IInv'
  OBVIOUS
<1>1. TableType /\ RestType /\ TableInv /\ OpenExact /\ IndexInv
  BY TypeParts DEF IInv
<1>2. pc # "exited" /\ OpenTable
  BY <1>1, ListenerAssumption
  DEF MainStep, LoopTest, EnterPoll, PollReturns, ScanEnd, ScanListener,
      ScanIdle, ScanError, ScanEvent, CloseTest, ShutdownClient,
     ShutdownDone, StaleFcloseAborts, AtClient, OpenExact, OpenTable
<1>3. ASSUME UNCHANGED <<table, held, sock>>, RestType', IndexInv'
      PROVE  IInv'
  <2>1. TableType' /\ TableInv' /\ OpenTable'
    BY <1>1, <1>2, <1>3
    DEF table, held, TableType, TableInv, OpenTable, ClientSlots
  <2> QED
    BY <1>3, <2>1, TypeParts DEF IInv, OpenExact, OpenTable
<1>4. ASSUME NEW k \in ClientSlots, close_conn(k), RestType', IndexInv'
      PROVE  IInv'
  <2>1. TableType' /\ TableInv' /\ OpenTable'
    BY <1>1, <1>2, <1>4, CloseConnTable
  <2> QED
    BY <1>4, <2>1, TypeParts DEF IInv, OpenExact, OpenTable
<1>5. CASE LoopTest
  <2>1. RestType' /\ IndexInv'
    BY <1>1, <1>5, ListenerAssumption
    DEF LoopTest, RestType, IndexInv, AllPcs, sig, kernel
  <2> QED
    BY <1>3, <1>5, <2>1 DEF LoopTest, kernel
<1>6. CASE EnterPoll
  <2>1. RestType' /\ IndexInv'
    BY <1>1, <1>6 DEF EnterPoll, RestType, IndexInv, AllPcs, sig, kernel
  <2> QED
    BY <1>3, <1>6, <2>1 DEF EnterPoll, kernel
<1>7. CASE PollReturns
  <2>1. \A k \in 0..(fd_size - 1) :
           /\ pfds'[k] \in Pollfd /\ pfds'[k].fd = pfds[k].fd
           /\ pfds'[k].events = pfds[k].events
    <3>1. \A k \in 0..(fd_size - 1) : pfds[k] \in Pollfd
      BY <1>1 DEF TableType
    <3>2. \A k \in 0..(fd_size - 1) :
             [pfds[k] EXCEPT !.revents = Ready(pfds[k])] \in Pollfd
      BY <3>1, ReadyType DEF Pollfd
    <3> QED
      BY <1>7, <3>1, <3>2 DEF PollReturns, Pollfd
  <2>2. TableType'
    BY <1>1, <1>7, <2>1 DEF PollReturns, TableType, extent, held, kernel
  <2>3. TableInv' /\ OpenTable'
    <3>1. /\ UNCHANGED <<extent, open>>
          /\ \A k \in 0..(fd_size - 1) :
                pfds'[k].fd = pfds[k].fd /\ clients'[k].fd = clients[k].fd
          /\ \A k \in 0..(num_listeners - 1) : pfds'[k].events = pfds[k].events
      BY <1>1, <1>7, <2>1, ListenerAssumption
      DEF PollReturns, extent, held, TableInv, TableType
    <3> QED
      BY <1>1, <1>2, <3>1, EditTable
  <2>4. RestType' /\ IndexInv'
    BY <1>1, <1>7
    DEF PollReturns, RestType, IndexInv, AllPcs, sig, kernel, extent, TableInv,
        TableType, ClientSlots
  <2> QED
    BY <2>2, <2>3, <2>4, TypeParts DEF IInv, OpenExact, OpenTable
<1>8. CASE ScanEnd
  <2>1. RestType' /\ IndexInv'
    BY <1>1, <1>8 DEF ScanEnd, RestType, IndexInv, AllPcs, sig, kernel
  <2> QED
    BY <1>3, <1>8, <2>1 DEF ScanEnd, kernel
<1>9. CASE ScanListener
  <2>1. RestType' /\ IndexInv'
    BY <1>1, <1>9, ListenerAssumption
    DEF ScanListener, RestType, IndexInv, AllPcs, sig, kernel, table, TableType
  <2> QED
    BY <1>3, <1>9, <2>1 DEF ScanListener, kernel
<1>10. CASE ScanIdle
  <2>1. RestType' /\ IndexInv'
    BY <1>1, <1>10
    DEF ScanIdle, AtClient, RestType, IndexInv, AllPcs, sig, kernel, table,
        TableType
  <2> QED
    BY <1>3, <1>10, <2>1 DEF ScanIdle, kernel
<1>11. CASE ScanError
  <2>1. i \in ClientSlots /\ close_conn(i)
    BY <1>1, <1>11, ListenerAssumption
    DEF ScanError, AtClient, ClientSlots, RestType, IndexInv, TableInv,
        TableType
  <2>2. fd_count' = fd_count - 1
    BY <1>1, <1>2, <2>1, CloseConnTable
  <2>3. RestType' /\ IndexInv'
    BY <1>1, <1>11, <2>1, <2>2
    DEF ScanError, AtClient, ClientSlots, RestType, IndexInv, sig, TableType
  <2> QED
    BY <1>4, <2>1, <2>3
<1>12. CASE ScanEvent
  <2>1. RestType' /\ IndexInv'
    BY <1>1, <1>12
    DEF ScanEvent, AtClient, RestType, IndexInv, AllPcs, sig, kernel, table,
        TableType
  <2> QED
    BY <1>3, <1>12, <2>1 DEF ScanEvent, kernel
<1>13. CASE CloseTest
  <2>1. i \in ClientSlots /\ i < fd_count
    BY <1>1, <1>13, ListenerAssumption
    DEF CloseTest, ClientSlots, RestType, IndexInv, TableType
  <2>2. CASE close_conn(i) /\ i' = i
    <3>1. fd_count' = fd_count - 1
      BY <1>1, <1>2, <2>1, <2>2, CloseConnTable
    <3>2. RestType' /\ IndexInv'
      BY <1>1, <1>13, <2>1, <2>2, <3>1
      DEF CloseTest, RestType, IndexInv, AllPcs, sig, TableType
    <3> QED
      BY <1>4, <2>1, <2>2, <3>2
  <2>3. CASE i' = i + 1 /\ UNCHANGED <<table, held, sock>>
    <3>1. RestType' /\ IndexInv'
      BY <1>1, <1>13, <2>1, <2>3
      DEF CloseTest, RestType, IndexInv, AllPcs, sig, table, TableType
    <3> QED
      BY <1>3, <2>3, <3>1
  <2> QED
    BY <1>13, <2>2, <2>3 DEF CloseTest
<1>14. CASE ShutdownClient
  <2>1. i \in ClientSlots /\ close_conn(i)
    BY <1>1, <1>14, ListenerAssumption
    DEF ShutdownClient, ClientSlots, RestType, IndexInv, TableInv, TableType
  <2>2. fd_count' = fd_count - 1
    BY <1>1, <1>2, <2>1, CloseConnTable
  <2>3. RestType' /\ IndexInv'
    BY <1>1, <1>14, <2>1, <2>2
    DEF ShutdownClient, ClientSlots, RestType, IndexInv, sig, TableType
  <2> QED
    BY <1>4, <2>1, <2>3
<1>15. CASE ShutdownDone
  <2>1. TableType'
    BY <1>1, <1>15 DEF ShutdownDone, TableType, table, kernel
  <2>2. TableInv'
    BY <1>1, <1>15 DEF ShutdownDone, TableInv, table, ClientSlots
  <2>3. RestType' /\ IndexInv' /\ pc' = "exited"
    BY <1>1, <1>15 DEF ShutdownDone, RestType, IndexInv, AllPcs, sig, kernel
  <2> QED
    BY <2>1, <2>2, <2>3, TypeParts DEF IInv, OpenExact
<1>16. CASE StaleFcloseAborts
  <2>1. RestType' /\ IndexInv'
    BY <1>1, <1>16
    DEF StaleFcloseAborts, RestType, IndexInv, AllPcs, sig, kernel
  <2> QED
    BY <1>3, <1>16, <2>1 DEF StaleFcloseAborts, kernel
<1> QED
  BY <1>5, <1>6, <1>7, <1>8, <1>9, <1>10, <1>11, <1>12, <1>13, <1>14, <1>15,
     <1>16 DEF MainStep

-----------------------------------------------------------------------------
(* accept_new_conn()                                                        *)

\* Every step of accept_new_conn(), its failures included, keeps the invariant.
LEMMA AcceptIInv ==
    /\ IInv
    /\ AcceptStep \/ AcceptAborted \/ AcceptFcntlFails \/ AcceptReallocFails
    => IInv'
<1> SUFFICES ASSUME IInv, AcceptStep \/ AcceptAborted \/ AcceptFcntlFails
                                    \/ AcceptReallocFails
             PROVE  IInv'
  OBVIOUS
<1>1. TableType /\ RestType /\ TableInv /\ OpenExact /\ IndexInv
  BY TypeParts DEF IInv
<1>2. pc = "accept" /\ OpenTable
  BY <1>1 DEF AcceptStep, AcceptOne, AcceptAgain, AcceptNoDescriptor,
     AcceptAborted, AcceptFcntlFails, AcceptReallocFails, OpenExact, OpenTable
<1>3. i < num_listeners /\ i < fd_count /\ i \in Nat /\ num_listeners \in Nat
  BY <1>1, <1>2, ListenerAssumption DEF IndexInv, RestType, TableInv, TableType
<1>4. ASSUME UNCHANGED <<table, held, sock>>, RestType', IndexInv'
      PROVE  IInv'
  <2>1. TableType' /\ TableInv' /\ OpenTable'
    BY <1>1, <1>2, <1>4
    DEF table, held, TableType, TableInv, OpenTable, ClientSlots
  <2> QED
    BY <1>4, <2>1, TypeParts DEF IInv, OpenExact, OpenTable
<1>5. CASE AcceptOne
  <2>1. PICK f \in Free : open' = open \cup {f} /\ add_to_lists(f)
    BY <1>5 DEF AcceptOne
  <2>2. TableType' /\ TableInv' /\ OpenTable' /\ fd_count' = fd_count + 1
    BY <1>1, <1>2, <1>5, <2>1, AddToListsTable DEF AcceptOne
  <2>3. RestType'
    <3>1. /\ backlog' = [backlog EXCEPT ![pfds[i].fd] = @ - 1]
          /\ backlog[pfds[i].fd] > 0
          /\ UNCHANGED <<pc, i, running, unseen, signals, faults>>
      BY <1>5 DEF AcceptOne, sig
    <3>2. pfds[i].fd \in Listeners
      BY <1>1, <1>3 DEF TableInv, Listeners
    <3>3. backlog[pfds[i].fd] - 1 \in Nat
      BY <1>1, <3>1, <3>2 DEF RestType
    <3>4. backlog' \in [Listeners -> Nat]
      BY <1>1, <3>1, <3>2, <3>3 DEF RestType
    <3> QED
      BY <1>1, <3>1, <3>4 DEF RestType
  <2>4. IndexInv'
    BY <1>2, <1>3, <1>5 DEF AcceptOne, IndexInv
  <2> QED
    BY <2>2, <2>3, <2>4, TypeParts DEF IInv, OpenExact, OpenTable
<1>6. CASE AcceptAgain \/ AcceptNoDescriptor
  <2>1. RestType' /\ IndexInv' /\ UNCHANGED <<table, held, sock>>
    BY <1>1, <1>3, <1>6
    DEF AcceptAgain, AcceptNoDescriptor, RestType, IndexInv, AllPcs, sig,
        kernel, table, TableType
  <2> QED
    BY <1>4, <2>1
<1>7. CASE AcceptAborted \/ AcceptFcntlFails
  <2>1. RestType' /\ IndexInv' /\ UNCHANGED <<table, held, sock>>
    BY <1>1, <1>2, <1>3, <1>7
    DEF AcceptAborted, AcceptFcntlFails, Fault, RestType, IndexInv, AllPcs,
        sig, table, TableType
  <2> QED
    BY <1>4, <2>1
<1>8. CASE AcceptReallocFails
  <2>1. RestType' /\ IndexInv' /\ UNCHANGED <<table, held, sock>>
    BY <1>1, <1>8
    DEF AcceptReallocFails, Fault, RestType, IndexInv, AllPcs, sig, kernel
  <2> QED
    BY <1>4, <2>1
<1> QED
  BY <1>5, <1>6, <1>7, <1>8 DEF AcceptStep

-----------------------------------------------------------------------------
(* do_read() and do_write() work on the client in slot i.                   *)

Serving == pc \in {"recv", "drained", "wtest", "send", "ctest"}

\* While do_read() or do_write() runs, slot i holds a client.
LEMMA ServingSlot ==
    ASSUME IInv, Serving
    PROVE  /\ TableType /\ RestType /\ TableInv /\ OpenTable
           /\ i \in Nat /\ num_listeners <= i /\ i < fd_count
           /\ i \in ClientSlots /\ i \in 0..(fd_size - 1)
           /\ clients[i] \in Client /\ clients[i].fd \in Fds
           /\ sock[clients[i].fd] \in Socket
<1>1. TableType /\ RestType /\ TableInv /\ OpenTable
  BY TypeParts DEF IInv, OpenExact, OpenTable, Serving
<1>2. i \in Nat /\ num_listeners <= i /\ i < fd_count
  BY DEF IInv, IndexInv, Serving, TypeOK
<1>3. i \in ClientSlots /\ i \in 0..(fd_size - 1)
  BY <1>1, <1>2, ListenerAssumption DEF ClientSlots, TableInv, TableType
<1>4. clients[i] \in Client /\ clients[i].fd \in Fds
  BY <1>1, <1>3 DEF TableInv, TableType
<1> QED
  BY <1>1, <1>2, <1>3, <1>4 DEF TableType

\* A step that replaces client i, keeping its descriptor.
LEMMA EditClient ==
    ASSUME IInv, Serving, NEW c \in Client, c.fd = clients[i].fd,
           clients' = [clients EXCEPT ![i] = c],
           UNCHANGED <<extent, pfds, open>>,
           heap' \subseteq AllBlocks, scripts' \in Nat,
           leaked' \subseteq Fds, sock' \in [Fds -> Socket]
    PROVE  TableType' /\ TableInv' /\ OpenTable'
<1>1. TableType'
  BY ServingSlot DEF TableType, extent
<1>2. \A k \in 0..(fd_size - 1) :
         pfds'[k].fd = pfds[k].fd /\ clients'[k].fd = clients[k].fd
  BY ServingSlot DEF TableType
<1> QED
  BY <1>1, <1>2, ServingSlot, EditTable

\* A step of do_read() or do_write() keeps IInv once the parts it may disturb
\* are known to be kept.
LEMMA ServeStep ==
    ASSUME IInv, Serving, TableType', TableInv', OpenTable', RestType', i' = i,
           fd_count' = fd_count, Serving' \/ pc' = "failed"
    PROVE  IInv'
<1>1. IndexInv'
  BY ServingSlot DEF IndexInv, Serving
<1> QED
  BY <1>1, TypeParts DEF IInv, OpenExact, OpenTable

\* A new state or response code for client i.
LEMMA EditedState ==
    ASSUME IInv, Serving, NEW st \in client_state, NEW rv \in client_response
    PROVE  /\ [clients[i] EXCEPT !.state = st] \in Client
           /\ [clients[i] EXCEPT !.state = st].fd = clients[i].fd
           /\ [clients[i] EXCEPT !.state = st, !.resp_val = rv] \in Client
           /\ [clients[i] EXCEPT !.state = st, !.resp_val = rv].fd =
                  clients[i].fd
<1>1. clients[i] \in Client
  BY ServingSlot
<1> QED
  BY <1>1 DEF Client

\* One recv() takes no more than the kernel has.
LEMMA ReceivedBounds ==
    ASSUME IInv, Serving
    PROVE  Received \in Nat /\ Received <= sock[clients[i].fd].rx
<1>1. sock[clients[i].fd].rx \in Nat
  BY ServingSlot DEF Socket
<1> QED
  BY <1>1, CapacityAssumption DEF Received, Min2

\* Every step of do_read(), its failures included, keeps the invariant.
LEMMA ReadIInv ==
    IInv /\ (ReadStep \/ RecvReallocFails \/ RecloseAborts) => IInv'
<1> SUFFICES ASSUME IInv, ReadStep \/ RecvReallocFails \/ RecloseAborts
             PROVE  IInv'
  OBVIOUS
<1>1. Serving
  BY DEF Serving, ReadStep, RecvReallocFails, RecloseAborts, RecvData,
     RecvTooLong, RecvEof, RecvError, RecvAgain, ReadIncomplete,
     ProcessRequest, RecvReady
<1> DEFINE c == clients[i]
           taken == Taken(sock[c.fd], Received)
<1>2. /\ TableType /\ RestType /\ TableInv /\ OpenTable
      /\ c \in Client /\ c.fd \in Fds /\ sock[c.fd] \in Socket
      /\ i \in 0..(fd_size - 1) /\ i \in Nat /\ num_listeners <= i
  BY <1>1, ServingSlot
<1>3. taken \in Socket
  BY <1>1, <1>2, ReceivedBounds, TakenType
<1>4. [sock EXCEPT ![c.fd] = taken] \in [Fds -> Socket]
  BY <1>2, <1>3 DEF TableType
<1>5. CASE RecvData
  <2> DEFINE end == sock[c.fd].eoh \in 1..Received
             new == Appended(c, Received, end)
  <2>0. end \in BOOLEAN /\ Received \in Nat
    BY <1>1, ReceivedBounds
  <2>1. new \in Client
    <3> HIDE DEF end
    <3> QED
      BY <1>2, <2>0, AppendedType
  <2>2. new.fd = c.fd
    BY <1>2 DEF Appended, Client
  <2>3. /\ clients' = [clients EXCEPT ![i] = new]
        /\ UNCHANGED <<extent, pfds, open, scripts, leaked, pc, i>>
        /\ sock' = [sock EXCEPT ![c.fd] = taken]
        /\ heap' \subseteq heap \cup {<<c.fd, "in">>}
    BY <1>5 DEF RecvData
  <2>4. /\ heap' \subseteq AllBlocks /\ scripts' \in Nat
        /\ leaked' \subseteq Fds
    BY <1>2, <2>3 DEF TableType, AllBlocks
  <2> HIDE DEF new, taken, end
  <2>5. TableType' /\ TableInv' /\ OpenTable'
    BY <1>1, <1>4, <2>1, <2>2, <2>3, <2>4, EditClient
  <2>6. RestType'
    BY <1>2, <1>5 DEF RecvData, RestType, sig
  <2> QED
    BY <1>1, <2>3, <2>5, <2>6, ServeStep DEF Serving, extent
<1>6. CASE RecvTooLong
  <2> DEFINE new == [c EXCEPT !.state = "PROCESSING", !.resp_val = "RESP_414"]
  <2>1. new \in Client /\ new.fd = c.fd
    BY <1>1, EditedState DEF client_state, client_response
  <2>2. /\ clients' = [clients EXCEPT ![i] = new]
        /\ UNCHANGED <<extent, pfds, open, heap, scripts, leaked, i>>
        /\ pc' = "wtest"
        /\ sock' = [sock EXCEPT ![c.fd] = taken]
    BY <1>6 DEF RecvTooLong, held
  <2> HIDE DEF new, taken
  <2>3. TableType' /\ TableInv' /\ OpenTable'
    BY <1>1, <1>2, <1>4, <2>1, <2>2, EditClient DEF TableType
  <2>4. RestType'
    BY <1>2, <1>6 DEF RecvTooLong, RestType, sig, AllPcs
  <2> QED
    BY <1>1, <2>2, <2>3, <2>4, ServeStep DEF Serving, extent
<1>7. CASE RecvReallocFails
  <2> DEFINE new == [c EXCEPT !.state = "CLOSING"]
  <2>1. new \in Client /\ new.fd = c.fd
    BY <1>1, EditedState DEF client_state, client_response
  <2>2. /\ clients' = [clients EXCEPT ![i] = new]
        /\ UNCHANGED <<extent, pfds, open, heap, scripts, leaked, i>>
        /\ pc' = "wtest"
        /\ sock' = [sock EXCEPT ![c.fd] = taken]
    BY <1>7 DEF RecvReallocFails, held
  <2> HIDE DEF new, taken
  <2>3. TableType' /\ TableInv' /\ OpenTable'
    BY <1>1, <1>2, <1>4, <2>1, <2>2, EditClient DEF TableType
  <2>4. RestType'
    BY <1>2, <1>7 DEF RecvReallocFails, Fault, RestType, sig, AllPcs
  <2> QED
    BY <1>1, <2>2, <2>3, <2>4, ServeStep DEF Serving, extent
<1>8. CASE RecvEof \/ RecvError
  <2> DEFINE new == [c EXCEPT !.state = "CLOSING"]
  <2>1. new \in Client /\ new.fd = c.fd
    BY <1>1, EditedState DEF client_state, client_response
  <2>2. /\ clients' = [clients EXCEPT ![i] = new]
        /\ UNCHANGED <<extent, pfds, open, heap, scripts, leaked, i, sock>>
        /\ pc' \in {"wtest", "drained"}
    BY <1>8 DEF RecvEof, RecvError, held, kernel
  <2> HIDE DEF new
  <2>3. TableType' /\ TableInv' /\ OpenTable'
    BY <1>1, <1>2, <2>1, <2>2, EditClient DEF TableType
  <2>4. RestType'
    BY <1>2, <1>8 DEF RecvEof, RecvError, RestType, sig, AllPcs, kernel
  <2> QED
    BY <1>1, <2>2, <2>3, <2>4, ServeStep DEF Serving, extent
<1>9. CASE RecvAgain \/ ReadIncomplete
  <2>1. /\ UNCHANGED <<table, held, sock, i>> /\ pc' \in {"wtest", "drained"}
    BY <1>9 DEF RecvAgain, ReadIncomplete, kernel
  <2>2. TableType' /\ TableInv' /\ OpenTable'
    BY <1>2, <2>1 DEF table, held, TableType, TableInv, OpenTable, ClientSlots
  <2>3. RestType'
    BY <1>2, <1>9 DEF RecvAgain, ReadIncomplete, RestType, sig, AllPcs, kernel
  <2> QED
    BY <1>1, <2>1, <2>2, <2>3, ServeStep DEF Serving, table
<1>10. CASE ProcessRequest
  <2>1. PICK r \in Results :
          /\ leaked' \subseteq leaked \cup Fds
          /\ clients' = [clients EXCEPT ![i] = Answered(c, r)]
          /\ heap' \subseteq heap \cup {<<c.fd, "out">>, ScriptBlock(scripts + 1)}
          /\ scripts' \in {scripts, scripts + 1}
    BY <1>10 DEF ProcessRequest, Free
  <2> DEFINE new == Answered(c, r)
  <2>2. new \in Client
    BY <1>2, AnsweredType
  <2>3. new.fd = c.fd
    BY <1>2 DEF Answered, Client
  <2>4. /\ pfds' = [pfds EXCEPT ![i].events = "OUT"] /\ pc' = "wtest"
        /\ UNCHANGED <<extent, open, sock, i>>
    BY <1>10 DEF ProcessRequest, kernel
  <2>5. /\ \A k \in 0..(fd_size - 1) :
              pfds'[k] \in Pollfd /\ pfds'[k].fd = pfds[k].fd
        /\ \A k \in 0..(fd_size - 1) : k # i => pfds'[k] = pfds[k]
        /\ pfds' \in [0..(fd_size - 1) -> Pollfd]
    BY <1>2, <2>4 DEF TableType, Pollfd
  <2> HIDE DEF new
  <2>6. TableType'
    <3>1. heap' \subseteq AllBlocks /\ scripts' \in Nat
      BY <1>2, <2>1 DEF TableType, AllBlocks, ScriptBlock
    <3> QED
      BY <1>2, <2>1, <2>2, <2>4, <2>5, <3>1 DEF TableType, extent, new
  <2>7. TableInv' /\ OpenTable'
    <3>1. \A k \in 0..(fd_size - 1) :
             pfds'[k].fd = pfds[k].fd /\ clients'[k].fd = clients[k].fd
      BY <1>2, <2>1, <2>3, <2>5 DEF TableType, new
    <3>2. \A k \in 0..(num_listeners - 1) : pfds'[k].events = pfds[k].events
      BY <1>2, <2>5, ListenerAssumption DEF TableInv, TableType
    <3> QED
      BY <1>2, <2>4, <3>1, <3>2, EditTable
  <2>8. RestType'
    BY <1>2, <1>10 DEF ProcessRequest, RestType, sig, AllPcs, kernel
  <2> QED
    BY <1>1, <2>4, <2>6, <2>7, <2>8, ServeStep DEF Serving, extent
<1>11. CASE RecloseAborts
  <2>1. UNCHANGED <<table, held, sock, i>> /\ pc' = "failed"
    BY <1>11 DEF RecloseAborts, kernel
  <2>2. TableType' /\ TableInv' /\ OpenTable'
    BY <1>2, <2>1 DEF table, held, TableType, TableInv, OpenTable, ClientSlots
  <2>3. RestType'
    BY <1>2, <1>11 DEF RecloseAborts, Fault, RestType, sig, AllPcs, kernel
  <2> QED
    BY <1>1, <2>1, <2>2, <2>3, ServeStep DEF table
<1> QED
  BY <1>5, <1>6, <1>7, <1>8, <1>9, <1>10, <1>11 DEF ReadStep

\* Every step of do_write() keeps the invariant.
LEMMA WriteIInv == IInv /\ WriteStep => IInv'
<1> SUFFICES ASSUME IInv, WriteStep PROVE IInv'
  OBVIOUS
<1>1. Serving
  BY DEF Serving, WriteStep, WriteTest, SendSome, SendFails, SendDone
<1> DEFINE c == clients[i]
           s == sock[c.fd]
<1>2. /\ TableType /\ RestType /\ TableInv /\ OpenTable
      /\ c \in Client /\ c.fd \in Fds /\ s \in Socket
  BY <1>1, ServingSlot
<1>3. /\ [c EXCEPT !.state = "CLOSING"] \in Client
      /\ [c EXCEPT !.state = "CLOSING"].fd = c.fd
  BY <1>1, EditedState DEF client_state, client_response
<1>4. CASE WriteTest
  <2>1. /\ UNCHANGED <<extent, pfds, open, heap, scripts, leaked, i, sock>>
        /\ pc' \in {"send", "ctest"}
        /\ \/ clients' = clients
           \/ clients' = [clients EXCEPT ![i] = [c EXCEPT !.state = "CLOSING"]]
    BY <1>4 DEF WriteTest, held, kernel
  <2>2. TableType' /\ TableInv' /\ OpenTable'
    <3>1. CASE clients' = clients
      BY <1>2, <2>1, <3>1
      DEF extent, TableType, TableInv, OpenTable, ClientSlots
    <3>2. CASE clients' = [clients EXCEPT ![i] = [c EXCEPT !.state = "CLOSING"]]
      BY <1>1, <1>2, <1>3, <2>1, <3>2, EditClient DEF TableType
    <3> QED
      BY <2>1, <3>1, <3>2
  <2>3. RestType'
    BY <1>2, <1>4 DEF WriteTest, RestType, sig, AllPcs, kernel
  <2> QED
    BY <1>1, <2>1, <2>2, <2>3, ServeStep DEF Serving, extent
<1>5. CASE SendSome
  <2> DEFINE n == Min2(SndBuf - s.tx, Unsent(c))
             new == [c EXCEPT !.output_sent = @ + n]
  <2>1. n \in Nat
    BY <1>2, <1>5, BoundsAssumption DEF SendSome, Min2, Unsent, Socket, Client
  <2>2. clients' = [clients EXCEPT ![i] = new]
    BY <1>5 DEF SendSome
  <2>3. /\ sock' = [sock EXCEPT ![c.fd] = [s EXCEPT !.tx = @ + n]]
        /\ UNCHANGED <<extent, pfds, open, heap, scripts, leaked, pc, i>>
    BY <1>5 DEF SendSome, held
  <2> HIDE DEF n
  <2>4. new \in Client /\ new.fd = c.fd
    BY <1>2, <2>1 DEF Client
  <2>5. sock' \in [Fds -> Socket]
    <3>1. [s EXCEPT !.tx = @ + n] \in Socket
      BY <1>2, <2>1 DEF Socket
    <3> QED
      BY <1>2, <2>3, <3>1 DEF TableType
  <2> HIDE DEF new
  <2>6. TableType' /\ TableInv' /\ OpenTable'
    BY <1>1, <1>2, <2>2, <2>3, <2>4, <2>5, EditClient DEF TableType
  <2>7. RestType'
    BY <1>2, <1>5 DEF SendSome, RestType, sig
  <2> QED
    BY <1>1, <2>3, <2>6, <2>7, ServeStep DEF Serving, extent
<1>6. CASE SendFails
  <2>1. UNCHANGED <<table, held, sock, i>> /\ pc' = "failed"
    BY <1>6 DEF SendFails, kernel
  <2>2. TableType' /\ TableInv' /\ OpenTable'
    BY <1>2, <2>1 DEF table, held, TableType, TableInv, OpenTable, ClientSlots
  <2>3. RestType'
    BY <1>2, <1>6 DEF SendFails, RestType, sig, AllPcs, kernel
  <2> QED
    BY <1>1, <2>1, <2>2, <2>3, ServeStep DEF table
<1>7. CASE SendDone
  <2>1. /\ clients' = [clients EXCEPT ![i] = [c EXCEPT !.state = "CLOSING"]]
        /\ sock' = [sock EXCEPT ![c.fd] = [s EXCEPT !.shut = TRUE]]
        /\ UNCHANGED <<extent, pfds, open, heap, scripts, leaked, i>>
        /\ pc' = "ctest"
    BY <1>7 DEF SendDone, held
  <2>2. sock' \in [Fds -> Socket]
    <3>1. [s EXCEPT !.shut = TRUE] \in Socket
      BY <1>2 DEF Socket
    <3> QED
      BY <1>2, <2>1, <3>1 DEF TableType
  <2>3. TableType' /\ TableInv' /\ OpenTable'
    BY <1>1, <1>2, <1>3, <2>1, <2>2, EditClient DEF TableType
  <2>4. RestType'
    BY <1>2, <1>7 DEF SendDone, RestType, sig, AllPcs
  <2> QED
    BY <1>1, <2>1, <2>3, <2>4, ServeStep DEF Serving, extent
<1> QED
  BY <1>4, <1>5, <1>6, <1>7 DEF WriteStep

-----------------------------------------------------------------------------
(* The environment never touches the table.                                 *)

\* Peers, signals and a failing poll() keep the invariant.
LEMMA EnvIInv == IInv /\ (EnvStep \/ PollFails) => IInv'
<1> SUFFICES ASSUME IInv, EnvStep \/ PollFails PROVE IInv'
  OBVIOUS
<1>1. TableType /\ RestType /\ TableInv /\ OpenExact /\ IndexInv
  BY TypeParts DEF IInv
<1>2. UNCHANGED <<table, open, heap, scripts, leaked, i>>
  BY DEF EnvStep, PollFails, Connect, PeerSend, PeerShutdown, PeerReset,
     PeerRead, Signal, server, held
<1>3. sock' \in [Fds -> Socket]
  <2>1. ASSUME NEW f \in Fds, NEW s \in Socket, sock' = [sock EXCEPT ![f] = s]
        PROVE  sock' \in [Fds -> Socket]
    BY <1>1, <2>1 DEF TableType
  <2>2. ASSUME NEW f \in Fds, PeerSend(f) PROVE sock' \in [Fds -> Socket]
    <3>0. PICK n \in 1..(RcvBuf - sock[f].rx) : \E e \in 0..n :
            sock' = [sock EXCEPT ![f].rx = @ + n,
                                 ![f].eoh = IF @ = 0 /\ e > 0
                                            THEN sock[f].rx + e ELSE @]
      BY <2>2 DEF PeerSend
    <3>1. PICK e \in 0..n :
            sock' = [sock EXCEPT ![f].rx = @ + n,
                                 ![f].eoh = IF @ = 0 /\ e > 0
                                            THEN sock[f].rx + e ELSE @]
      BY <3>0
    <3> DEFINE off == IF sock[f].eoh = 0 /\ e > 0
                      THEN sock[f].rx + e ELSE sock[f].eoh
               s == [sock[f] EXCEPT !.rx = @ + n, !.eoh = off]
    <3>2. sock[f] \in Socket
      BY <1>1 DEF TableType
    <3>3. sock[f].rx + n \in Nat /\ off \in Nat
      BY <3>2, BoundsAssumption DEF Socket
    <3>4. sock' = [sock EXCEPT ![f] = s]
      BY <3>1
    <3> HIDE DEF off
    <3>5. s \in Socket
      BY <3>2, <3>3 DEF Socket
    <3> HIDE DEF s
    <3> QED
      BY <2>1, <3>4, <3>5
  <2>3. ASSUME NEW f \in Fds, PeerShutdown(f) \/ PeerReset(f) \/ PeerRead(f)
        PROVE  sock' \in [Fds -> Socket]
    <3>1. sock[f] \in Socket /\ FreshSocket \in Socket
      BY <1>1 DEF TableType, FreshSocket, Socket
    <3>3. CASE PeerShutdown(f)
      <4>1. [sock[f] EXCEPT !.fin = TRUE] \in Socket
        BY <3>1 DEF Socket
      <4> QED
        BY <2>1, <3>3, <4>1 DEF PeerShutdown
    <3>4. CASE PeerReset(f)
      <4>1. [FreshSocket EXCEPT !.rst = TRUE] \in Socket
        BY <3>1 DEF Socket
      <4> QED
        BY <2>1, <3>4, <4>1 DEF PeerReset
    <3>5. CASE PeerRead(f)
      <4>1. sock[f].tx - 1 \in Nat
        BY <3>1, <3>5 DEF PeerRead, Socket
      <4>2. [sock[f] EXCEPT !.tx = sock[f].tx - 1] \in Socket
        BY <3>1, <4>1 DEF Socket
      <4> QED
        BY <2>1, <3>5, <4>2 DEF PeerRead
    <3> QED
      BY <2>3, <3>3, <3>4, <3>5
  <2>4. CASE Signal \/ PollFails \/ \E l \in Listeners : Connect(l)
    BY <1>1, <2>4 DEF Signal, PollFails, Connect, kernel, TableType
  <2> QED
    BY <2>2, <2>3, <2>4 DEF EnvStep
<1>4. TableType' /\ TableInv' /\ (OpenTable => OpenTable')
  BY <1>1, <1>2, <1>3
  DEF table, TableType, TableInv, OpenTable, ClientSlots
<1>5. /\ pc' \in AllPcs /\ running' \in BOOLEAN /\ unseen' = unseen
      /\ signals' \in Nat /\ faults' \in Nat
      /\ pc # "exited" /\ pc' # "exited"
      /\ pc' = pc \/ pc' \in {"check", "failed"}
  <2>1. CASE UNCHANGED <<pc, sig, server, faults>> /\ AtSystemCall
    BY <1>1, <2>1 DEF sig, server, RestType, AtSystemCall
  <2>2. CASE Signal
    <3>1. pc' \in {pc, "check"} /\ running' = FALSE /\ unseen' = unseen
      BY <2>2 DEF Signal, server
    <3>2. signals' \in Nat /\ faults' \in Nat
      BY <1>1, <2>2 DEF Signal, RestType
    <3>3. pc # "exited"
      BY <2>2 DEF Signal, Alive, Terminated
    <3> QED
      BY <1>1, <3>1, <3>2, <3>3 DEF RestType, AllPcs
  <2>3. CASE PollFails
    BY <1>1, <2>3 DEF PollFails, Fault, sig, server, RestType, AllPcs
  <2> QED
    BY <2>1, <2>2, <2>3
    DEF EnvStep, Connect, PeerSend, PeerShutdown, PeerReset, PeerRead
<1>6. backlog' \in [Listeners -> Nat]
  <2>1. ASSUME NEW l \in Listeners, Connect(l)
        PROVE  backlog' \in [Listeners -> Nat]
    BY <1>1, <2>1 DEF Connect, RestType
  <2>2. ASSUME UNCHANGED backlog PROVE backlog' \in [Listeners -> Nat]
    BY <1>1, <2>2 DEF RestType
  <2> QED
    BY <2>1, <2>2
    DEF EnvStep, PollFails, PeerSend, PeerShutdown, PeerReset, PeerRead, Signal,
        kernel
<1>7. RestType' /\ IndexInv'
  BY <1>1, <1>2, <1>5, <1>6 DEF RestType, IndexInv, table
<1> QED
  BY <1>1, <1>4, <1>5, <1>7, TypeParts DEF IInv, OpenExact, OpenTable

-----------------------------------------------------------------------------

\* The invariant is inductive.
LEMMA NextIInv == IInv /\ [Next]_vars => IInv'
<1> SUFFICES ASSUME IInv, [Next]_vars PROVE IInv'
  OBVIOUS
<1>1. CASE UNCHANGED vars
  BY <1>1
  DEF vars, table, kernel, IInv, TypeOK, TableInv, OpenExact, IndexInv,
      ClientSlots
<1>2. CASE Next
  BY <1>1, <1>2, MainIInv, AcceptIInv, ReadIInv, WriteIInv, EnvIInv
  DEF Next, ServerStep, FaultStep, Stopped
<1> QED
  BY <1>1, <1>2

\* The invariant holds in every state the server reaches.
LEMMA SpecIInv == Spec => []IInv
BY InitIInv, NextIInv, PTL DEF Spec

\* Type correctness of the event loop, for every number of descriptors.
THEOREM TypeCorrect == Spec => []TypeOK
<1>1. IInv => TypeOK
  BY DEF IInv
<1> QED
  BY SpecIInv, <1>1, PTL

\* The table of connections stays well formed: add_to_lists() and close_conn()
\* keep pfds and clients parallel, dense, within their allocation and free of
\* duplicates, whatever connections come, go and fail during a scan.
THEOREM TableCorrect == Spec => []TableInv
<1>1. IInv => TableInv
  BY DEF IInv
<1> QED
  BY SpecIInv, <1>1, PTL

\* The process never holds a socket its table has forgotten, and never polls
\* one it has closed.
THEOREM OpenCorrect == Spec => []OpenExact
<1>1. IInv => OpenExact
  BY DEF IInv
<1> QED
  BY SpecIInv, <1>1, PTL

=============================================================================
