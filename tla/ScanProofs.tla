----------------------------- MODULE ScanProofs -----------------------------
(***************************************************************************)
(* A scan looks at every reported connection exactly once, for any number  *)
(* of descriptors and any bounds.                                          *)
(***************************************************************************)
EXTENDS EventLoopProofs

\* The slots still to come that poll() reported.
Todo == {k \in Pending : pfds[k].revents # {}}

\* The stages outside a scan, in which nothing is pending.
Quiet == pc \in {"check", "call_poll", "in_poll", "shutdown"}

\* Outside a scan no reported connection is left.
LEMMA QuietTodo == /\ Quiet => Todo = {}
                   /\ Quiet' => Todo' = {}
BY DEF Quiet, Todo, Pending

\* What ScanExact says, before and after a step, in terms of Todo.
LEMMA ScanParts ==
    /\ ScanExact <=> (Alive => unseen = {pfds[k].fd : k \in Todo})
    /\ ScanExact' <=> (Alive' => unseen' = {pfds'[k].fd : k \in Todo'})
BY DEF ScanExact, Todo

\* A step after which the process is gone owes nothing.
LEMMA ScanGone == (pc' \in {"exited", "failed"}) => ScanExact'
BY DEF ScanExact, Alive, Terminated

\* A step that leaves the reported slots as they are.
LEMMA ScanKept ==
    ASSUME ScanExact, Alive, unseen' = unseen, Todo' = Todo,
           \A k \in Todo : pfds'[k].fd = pfds[k].fd
    PROVE  ScanExact'
<1>1. unseen = {pfds[k].fd : k \in Todo}
  BY ScanParts
<1>2. {pfds'[k].fd : k \in Todo'} = {pfds[k].fd : k \in Todo}
  OBVIOUS
<1> QED
  BY <1>1, <1>2, ScanParts

\* A step between two stages outside a scan.
LEMMA ScanQuiet ==
    ASSUME ScanExact, Quiet, Quiet', unseen' = unseen
    PROVE  ScanExact'
<1>1. Alive
  BY DEF Quiet, Alive, Terminated
<1> QED
  BY <1>1, QuietTodo, ScanKept

\* The scan leaves slot i, with whatever it reported, behind: the other slots
\* still to come hold other connections.
LEMMA SlotSeen ==
    ASSUME TableInv, NEW k \in ClientSlots, NEW S \in SUBSET ClientSlots,
           k \notin S
    PROVE  {pfds[j].fd : j \in S \cup {k}} \ {pfds[k].fd} =
               {pfds[j].fd : j \in S}
<1>1. \A j \in S : pfds[j].fd # pfds[k].fd
  BY DEF TableInv
<1> QED
  BY <1>1

\* close_conn(i) and the scan that goes on at i: the connections still to come
\* are those that were in the slots behind i, wherever they are now.
LEMMA ClosedTodo ==
    ASSUME TableType, TableInv, i \in Nat, i \in ClientSlots, close_conn(i),
           pc' = "scan", i' = i
    PROVE  {pfds'[k].fd : k \in Todo'} =
               {pfds[k].fd : k \in {j \in ClientSlots :
                                       j > i /\ pfds[j].revents # {}}}
<1> DEFINE from(n) == MovedFrom(n, i)
           later == {j \in ClientSlots : j > i /\ pfds[j].revents # {}}
<1>0. \A n : n \in Todo' <=>
         n \in ClientSlots' /\ n >= i /\ pfds'[n].revents # {}
  BY DEF Todo, Pending
<1>1. /\ \A j : j \in ClientSlots' <=> j \in ClientSlots /\ j # fd_count - 1
      /\ \A n \in ClientSlots' :
            from(n) \in ClientSlots /\ from(n) # i /\ pfds'[n] = pfds[from(n)]
      /\ \A j \in ClientSlots : j # i => \E n \in ClientSlots' : from(n) = j
  BY CloseConnMoves
<1>2. \A n \in ClientSlots' : n >= i <=> from(n) > i
  <2>1. \A n \in ClientSlots : n \in Nat /\ n <= fd_count - 1
    BY ListenerAssumption DEF ClientSlots, TableType
  <2> SUFFICES ASSUME NEW n \in ClientSlots' PROVE n >= i <=> from(n) > i
    OBVIOUS
  <2>2. n \in Nat /\ n <= fd_count - 1 /\ n # fd_count - 1 /\ fd_count \in Nat
    BY <1>1, <2>1 DEF TableType
  <2>3. CASE n = i
    BY <2>2, <2>3 DEF MovedFrom
  <2>4. CASE n # i
    BY <2>2, <2>4 DEF MovedFrom
  <2> QED
    BY <2>3, <2>4
<1> HIDE DEF from
<1>3. \A n \in Todo' : from(n) \in later /\ pfds'[n] = pfds[from(n)]
  BY <1>0, <1>1, <1>2
<1>4. \A j \in later : \E n \in Todo' : from(n) = j /\ pfds'[n] = pfds[j]
  <2> SUFFICES ASSUME NEW j \in later
               PROVE  \E n \in Todo' : from(n) = j /\ pfds'[n] = pfds[j]
    OBVIOUS
  <2>1. j \in ClientSlots /\ j > i /\ pfds[j].revents # {} /\ j # i
    OBVIOUS
  <2>2. PICK n \in ClientSlots' : from(n) = j
    BY <1>1, <2>1
  <2> QED
    BY <1>0, <1>1, <1>2, <2>1, <2>2
<1> HIDE DEF later
<1>5. {pfds'[k].fd : k \in Todo'} = {pfds[k].fd : k \in later}
  BY <1>3, <1>4
<1> QED
  BY <1>5 DEF later

-----------------------------------------------------------------------------

\* Nothing is reported before the first poll().
LEMMA InitScan == Init => ScanExact
<1> SUFFICES ASSUME Init PROVE ScanExact
  OBVIOUS
<1>1. Quiet /\ unseen = {}
  BY DEF Init, Quiet
<1> QED
  BY <1>1, QuietTodo, ScanParts

\* The steps of main()'s own code.
LEMMA MainScan == IInv /\ ScanExact /\ MainStep => ScanExact'
<1> SUFFICES ASSUME IInv, ScanExact, MainStep PROVE ScanExact'
  OBVIOUS
<1>1. /\ TableType /\ RestType /\ TableInv /\ IndexInv
      /\ num_listeners \in Nat \ {0} /\ i \in Nat /\ fd_count \in Nat
      /\ num_listeners <= fd_count /\ fd_count <= fd_size
  BY TypeParts, ListenerAssumption DEF IInv, RestType, TableType, TableInv
<1>2. /\ \A k \in ClientSlots : /\ k \in Nat /\ num_listeners <= k
                                /\ k < fd_count /\ k \in 0..(fd_size - 1)
      /\ \A k \in Nat : num_listeners <= k /\ k < fd_count => k \in ClientSlots
  BY <1>1 DEF ClientSlots, TableType
<1>3. ASSUME UNCHANGED <<table, unseen>>, Pending' = Pending, Alive
      PROVE  ScanExact'
  <2>1. Todo' = Todo /\ pfds' = pfds /\ unseen' = unseen
    BY <1>3 DEF Todo, table
  <2> QED
    BY <1>3, <2>1, ScanKept
<1>4. CASE LoopTest \/ EnterPoll
  BY <1>4, ScanQuiet DEF LoopTest, EnterPoll, Quiet
<1>5. CASE PollReturns
  <2>1. \A k \in ClientSlots :
           pfds'[k].fd = pfds[k].fd /\ pfds'[k].revents = Ready(pfds[k])
    <3>1. \A k \in ClientSlots : pfds[k] \in Pollfd
      BY <1>1, <1>2 DEF TableType
    <3>2. \A k \in ClientSlots :
             pfds'[k] = [pfds[k] EXCEPT !.revents = Ready(pfds[k])]
      BY <1>2, <1>5 DEF PollReturns
    <3> QED
      BY <3>1, <3>2 DEF Pollfd
  <2>2. \A k : k \in Todo' <=> k \in ClientSlots /\ Ready(pfds[k]) # {}
    <3>1. ClientSlots' = ClientSlots /\ Pending' = ClientSlots
      BY <1>2, <1>5 DEF PollReturns, extent, ClientSlots, Pending
    <3> QED
      BY <2>1, <3>1 DEF Todo
  <2>3. unseen' = {pfds[k].fd : k \in {j \in ClientSlots : Ready(pfds[j]) # {}}}
    BY <1>5 DEF PollReturns, ClientSlots
  <2>4. unseen' = {pfds'[k].fd : k \in Todo'}
    BY <2>1, <2>2, <2>3
  <2> QED
    BY <2>4, ScanParts
<1>6. CASE ScanEnd
  <2>1. Pending = {} /\ Alive
    BY <1>1, <1>2, <1>6 DEF ScanEnd, Pending, Alive, Terminated
  <2>2. Pending' = {}
    BY <1>6 DEF ScanEnd, Pending
  <2> QED
    BY <1>3, <1>6, <2>1, <2>2 DEF ScanEnd
<1>7. CASE ScanListener
  <2>1. Pending = ClientSlots /\ Alive
    BY <1>1, <1>2, <1>7 DEF ScanListener, Pending, Alive, Terminated
  <2>2. ClientSlots' = ClientSlots /\ i' \in Nat /\ i' <= num_listeners
        /\ pc' \in {"scan", "accept"}
    BY <1>1, <1>7 DEF ScanListener, ClientSlots, table
  <2>3. Pending' = ClientSlots
    BY <1>1, <1>2, <2>2 DEF Pending
  <2> QED
    BY <1>3, <1>7, <2>1, <2>3 DEF ScanListener
<1>8. CASE ScanIdle
  <2>1. i \in ClientSlots /\ pfds[i].revents = {} /\ Alive
    BY <1>1, <1>2, <1>8 DEF ScanIdle, AtClient, Alive, Terminated
  <2>2. /\ pc = "scan" /\ pc' = "scan" /\ i' = i + 1 /\ pfds' = pfds
        /\ ClientSlots' = ClientSlots /\ unseen' = unseen
    BY <1>8 DEF ScanIdle, AtClient, ClientSlots, table
  <2>3. \A k \in ClientSlots : k # i => (k >= i <=> k >= i + 1)
    BY <1>1, <1>2
  <2>4. Todo' = Todo
    BY <1>1, <2>1, <2>2, <2>3 DEF Todo, Pending
  <2> QED
    BY <2>1, <2>2, <2>4, ScanKept
<1>9. CASE ScanError \/ ScanEvent
  <2>1. i \in ClientSlots /\ pfds[i].revents # {} /\ Alive /\ pc = "scan"
    BY <1>1, <1>2, <1>9
    DEF ScanError, ScanEvent, AtClient, Alive, Terminated
  <2> DEFINE later == {j \in ClientSlots : j > i /\ pfds[j].revents # {}}
  <2>2. Todo = later \cup {i} /\ i \notin later /\ later \subseteq ClientSlots
    <3>1. \A k \in ClientSlots : k >= i <=> k > i \/ k = i
      BY <1>1, <1>2
    <3>2. ~(i > i)
      BY <1>1
    <3> QED
      BY <2>1, <3>1, <3>2 DEF Todo, Pending
  <2>3. unseen' = unseen \ {pfds[i].fd}
    BY <1>9 DEF ScanError, ScanEvent
  <2> HIDE DEF later
  <2>4. unseen' = {pfds[k].fd : k \in later}
    <3>1. unseen = {pfds[k].fd : k \in later \cup {i}}
      BY <2>1, <2>2, ScanParts
    <3> QED
      BY <1>1, <2>1, <2>2, <2>3, <3>1, SlotSeen
  <2>5. CASE ScanError
    <3>1. {pfds'[k].fd : k \in Todo'} = {pfds[k].fd : k \in later}
      BY <1>1, <2>1, <2>5, ClosedTodo DEF ScanError, later
    <3> QED
      BY <2>4, <3>1, ScanParts
  <2>6. CASE ScanEvent
    <3>1. /\ pfds' = pfds /\ ClientSlots' = ClientSlots /\ i' = i
          /\ pc' \in {"recv", "wtest"}
      BY <2>6 DEF ScanEvent, table, ClientSlots
    <3>2. Todo' = later
      BY <3>1 DEF Todo, Pending, later
    <3> QED
      BY <2>4, <3>1, <3>2, ScanParts
  <2> QED
    BY <1>9, <2>5, <2>6
<1>10. CASE CloseTest
  <2> DEFINE later == {j \in ClientSlots : j > i /\ pfds[j].revents # {}}
  <2>1. i \in ClientSlots /\ Alive
    BY <1>1, <1>2, <1>10 DEF CloseTest, IndexInv, Alive, Terminated
  <2>2. Todo = later
    BY <1>10 DEF CloseTest, Todo, Pending
  <2> HIDE DEF later
  <2>3. unseen = {pfds[k].fd : k \in later} /\ unseen' = unseen /\ pc' = "scan"
    BY <1>10, <2>1, <2>2, ScanParts DEF CloseTest
  <2>4. CASE close_conn(i) /\ i' = i
    <3>1. {pfds'[k].fd : k \in Todo'} = {pfds[k].fd : k \in later}
      BY <1>1, <2>1, <2>3, <2>4, ClosedTodo DEF later
    <3> QED
      BY <2>3, <3>1, ScanParts
  <2>5. CASE i' = i + 1 /\ UNCHANGED table
    <3>1. pfds' = pfds /\ ClientSlots' = ClientSlots
      BY <2>5 DEF table, ClientSlots
    <3>2. \A k \in ClientSlots : k > i <=> k >= i + 1
      BY <1>1, <1>2
    <3>3. Todo' = later
      BY <2>3, <2>5, <3>1, <3>2 DEF Todo, Pending, later
    <3> QED
      BY <2>3, <3>1, <3>3, ScanParts
  <2> QED
    BY <1>10, <2>4, <2>5 DEF CloseTest
<1>11. CASE ShutdownClient
  BY <1>11, ScanQuiet DEF ShutdownClient, Quiet
<1>12. CASE ShutdownDone \/ StaleFcloseAborts
  BY <1>12, ScanGone DEF ShutdownDone, StaleFcloseAborts
<1> QED
  BY <1>4, <1>5, <1>6, <1>7, <1>8, <1>9, <1>10, <1>11, <1>12 DEF MainStep

-----------------------------------------------------------------------------

\* accept_new_conn() runs at a listener: the slots it appends were not reported.
LEMMA AcceptScan ==
    /\ IInv /\ ScanExact
    /\ AcceptStep \/ AcceptAborted \/ AcceptFcntlFails \/ AcceptReallocFails
    => ScanExact'
<1> SUFFICES ASSUME IInv, ScanExact,
                    AcceptStep \/ AcceptAborted \/ AcceptFcntlFails
                               \/ AcceptReallocFails
             PROVE  ScanExact'
  OBVIOUS
<1>1. /\ TableType /\ TableInv
      /\ num_listeners \in Nat \ {0} /\ i \in Nat /\ fd_count \in Nat
      /\ num_listeners <= fd_count /\ fd_count <= fd_size /\ fd_size \in Nat
  BY TypeParts, ListenerAssumption DEF IInv, RestType, TableType, TableInv
<1>2. pc = "accept" /\ i < num_listeners /\ Alive
  BY DEF AcceptStep, AcceptOne, AcceptAgain, AcceptNoDescriptor,
     AcceptAborted, AcceptFcntlFails, AcceptReallocFails, IInv, IndexInv,
     Alive, Terminated
<1>3. \A k \in ClientSlots : k \in Nat /\ num_listeners <= k /\ k < fd_count
  BY <1>1 DEF ClientSlots
<1>4. Pending = ClientSlots
  BY <1>1, <1>2, <1>3 DEF Pending
<1>5. CASE AcceptOne
  <2>1. PICK f \in Free : add_to_lists(f)
    BY <1>5 DEF AcceptOne
  <2>2. ClientSlots' = ClientSlots \cup {fd_count}
    BY <1>1, <2>1 DEF add_to_lists, ClientSlots
  <2>3. /\ pfds'[fd_count] = NewPollfd(f)
        /\ \A k \in ClientSlots : pfds'[k] = pfds[k]
    <3>1. NewSize \in Nat /\ fd_size <= NewSize /\ fd_count + 1 <= NewSize
      BY <1>1 DEF NewSize
    <3>2. pfds' = [k \in 0..(NewSize - 1) |->
                      IF k = fd_count THEN NewPollfd(f)
                      ELSE IF k < fd_size THEN pfds[k] ELSE GarbagePollfd]
      BY <2>1 DEF add_to_lists, Extended
    <3> QED
      BY <1>1, <1>3, <3>1, <3>2
  <2>4. pc' = "accept" /\ i' = i /\ unseen' = unseen
    BY <1>2, <1>5 DEF AcceptOne
  <2>5. Pending' = ClientSlots \cup {fd_count}
    BY <1>1, <1>2, <1>3, <2>2, <2>4 DEF Pending
  <2>6. NewPollfd(f).revents = {}
    BY DEF NewPollfd
  <2>7. Todo' = Todo
    BY <1>4, <2>3, <2>5, <2>6 DEF Todo
  <2> QED
    BY <1>2, <1>4, <2>3, <2>4, <2>7, ScanKept DEF Todo
<1>6. CASE \/ AcceptAgain \/ AcceptNoDescriptor \/ AcceptAborted
           \/ AcceptFcntlFails
  <2>1. /\ pc' \in {"scan", "accept"} /\ i' \in {i, i + 1}
        /\ pfds' = pfds /\ ClientSlots' = ClientSlots /\ unseen' = unseen
    BY <1>2, <1>6
    DEF AcceptAgain, AcceptNoDescriptor, AcceptAborted, AcceptFcntlFails, table,
        ClientSlots
  <2>2. Pending' = ClientSlots
    BY <1>1, <1>2, <1>3, <2>1 DEF Pending
  <2>3. Todo' = Todo
    BY <1>4, <2>1, <2>2 DEF Todo
  <2> QED
    BY <1>2, <2>1, <2>3, ScanKept
<1>7. CASE AcceptReallocFails
  BY <1>7, ScanGone DEF AcceptReallocFails
<1> QED
  BY <1>5, <1>6, <1>7 DEF AcceptStep

\* do_read() and do_write() keep i and what poll() reported of the other slots.
LEMMA ServeScan ==
    ASSUME IInv, ScanExact, Serving, Serving', i' = i, unseen' = unseen,
           fd_count' = fd_count,
           \A k \in 0..(fd_size - 1) : k # i => pfds'[k] = pfds[k]
    PROVE  ScanExact'
<1>1. /\ i \in Nat /\ Alive /\ ClientSlots' = ClientSlots
      /\ \A k \in ClientSlots : k \in 0..(fd_size - 1)
  BY ServingSlot, ListenerAssumption
  DEF ClientSlots, TableInv, TableType, Serving, Alive, Terminated
<1>2. /\ \A k : k \in Pending <=> k \in ClientSlots /\ k > i
      /\ \A k : k \in Pending' <=> k \in ClientSlots /\ k > i
  BY <1>1 DEF Pending, Serving
<1>3. \A k \in Pending : pfds'[k] = pfds[k]
  BY <1>1, <1>2
<1>4. Todo' = Todo
  BY <1>2, <1>3 DEF Todo
<1> QED
  BY <1>1, <1>3, <1>4, ScanKept DEF Todo

\* The steps of do_read() and do_write().
LEMMA ReadWriteScan ==
    /\ IInv /\ ScanExact
    /\ ReadStep \/ WriteStep \/ RecvReallocFails \/ RecloseAborts
    => ScanExact'
<1> SUFFICES ASSUME IInv, ScanExact,
                    ReadStep \/ WriteStep \/ RecvReallocFails \/ RecloseAborts
             PROVE  ScanExact'
  OBVIOUS
<1>1. CASE SendFails \/ RecloseAborts
  BY <1>1, ScanGone DEF SendFails, RecloseAborts
<1>2. CASE ProcessRequest
  <2>1. /\ Serving /\ Serving' /\ i' = i /\ unseen' = unseen
        /\ fd_count' = fd_count /\ pfds' = [pfds EXCEPT ![i].events = "OUT"]
    BY <1>2 DEF ProcessRequest, Serving, extent
  <2>2. \A k \in 0..(fd_size - 1) : k # i => pfds'[k] = pfds[k]
    BY <2>1, ServingSlot DEF TableType
  <2> QED
    BY <2>1, <2>2, ServeScan
<1>3. CASE \/ RecvData \/ RecvTooLong \/ RecvEof \/ RecvError \/ RecvAgain
           \/ ReadIncomplete \/ RecvReallocFails
           \/ WriteTest \/ SendSome \/ SendDone
  <2>1. /\ Serving /\ Serving' /\ i' = i /\ unseen' = unseen
        /\ fd_count' = fd_count /\ pfds' = pfds
    BY <1>3
    DEF RecvData, RecvTooLong, RecvEof, RecvError, RecvAgain, ReadIncomplete,
        RecvReallocFails, RecvReady, WriteTest, SendSome, SendDone, Serving,
        extent, table
  <2> QED
    BY <2>1, ServeScan
<1> QED
  BY <1>1, <1>2, <1>3 DEF ReadStep, WriteStep

\* The environment changes nothing the scan looks at.
LEMMA EnvScan == ScanExact /\ (EnvStep \/ PollFails) => ScanExact'
<1> SUFFICES ASSUME ScanExact, EnvStep \/ PollFails PROVE ScanExact'
  OBVIOUS
<1>1. CASE PollFails
  BY <1>1, ScanGone DEF PollFails
<1>2. CASE EnvStep
  <2>1. UNCHANGED <<table, i, unseen>> /\ Alive
    BY <1>2
    DEF EnvStep, Connect, PeerSend, PeerShutdown, PeerReset, PeerRead, Signal,
        server, AtSystemCall, Alive, Terminated
  <2>2. pc' = pc \/ (pc = "in_poll" /\ pc' = "check")
    BY <1>2
    DEF EnvStep, Connect, PeerSend, PeerShutdown, PeerReset, PeerRead, Signal
  <2>3. Todo' = Todo
    BY <2>1, <2>2 DEF Todo, Pending, ClientSlots, table
  <2> QED
    BY <2>1, <2>3, ScanKept DEF table
<1> QED
  BY <1>1, <1>2

\* Every step keeps ScanExact.
LEMMA NextScan == IInv /\ ScanExact /\ [Next]_vars => ScanExact'
<1> SUFFICES ASSUME IInv, ScanExact, [Next]_vars PROVE ScanExact'
  OBVIOUS
<1>1. CASE UNCHANGED vars
  BY <1>1
  DEF vars, table, ScanExact, Pending, ClientSlots, Alive, Terminated
<1>2. CASE Next
  BY <1>1, <1>2, MainScan, AcceptScan, ReadWriteScan, EnvScan
  DEF Next, ServerStep, FaultStep, Stopped
<1> QED
  BY <1>1, <1>2

\* A scan serves every connection poll() reported exactly once, and no other:
\* close_conn()'s moves and accept_new_conn()'s new slots lose and repeat none.
THEOREM ScanCorrect == Spec => []ScanExact
BY SpecIInv, InitScan, NextScan, PTL DEF Spec

=============================================================================
