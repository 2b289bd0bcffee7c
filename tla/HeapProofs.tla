----------------------------- MODULE HeapProofs -----------------------------
(***************************************************************************)
(* No in_buf or out_buf leaks or is freed twice, and a clean shutdown gives*)
(* everything back but the forgotten buffers of scripts, for any number of *)
(* descriptors and any bounds.                                             *)
(***************************************************************************)
EXTENDS EventLoopProofs

\* A connection owns its own buffers only, and has no response while it reads.
OwnBuffers ==
    \A k \in ClientSlots :
        /\ clients[k].in_buf \in {NULL, <<clients[k].fd, "in">>}
        /\ clients[k].out_buf \in {NULL, <<clients[k].fd, "out">>}
        /\ clients[k].state = "READING" => clients[k].out_buf = NULL

\* do_read() works on a connection without a response.
ReadClean == pc \in {"recv", "drained"} => clients[i].out_buf = NULL

\* The shutdown loop closes the first client slot until there is none.
ShutdownIndex == pc = "shutdown" => i = num_listeners

HInv == HeapExact /\ OwnBuffers /\ ReadClean /\ ShutdownIndex /\ CleanExit

\* The blocks the table refers to.
Referred == UNION {Blocks(clients[k]) : k \in ClientSlots}

\* The blocks that no connection owns.
Unowned == Arrays \cup Forgotten

\* Another script is answered with 200, or none.
LEMMA ForgottenGrows ==
    ASSUME scripts \in Nat
    PROVE  /\ scripts' = scripts => Unowned' = Unowned
           /\ scripts' = scripts + 1 =>
                 Unowned' = Unowned \cup {ScriptBlock(scripts + 1)}
<1>1. 1..(scripts + 1) = (1..scripts) \cup {scripts + 1} OBVIOUS
<1> QED BY <1>1 DEF Unowned, Forgotten

-----------------------------------------------------------------------------
(* What the operations on the table do to the heap.                         *)

\* The blocks of two connections are different, and none is an array or a
\* forgotten buffer.
LEMMA BlocksApart ==
    ASSUME TableInv, OwnBuffers
    PROVE  /\ \A j, k \in ClientSlots :
                 j # k => Blocks(clients[j]) \cap Blocks(clients[k]) = {}
           /\ \A k \in ClientSlots : Blocks(clients[k]) \cap Unowned = {}
<1>1. \A k \in ClientSlots : \A b \in Blocks(clients[k]) :
         b \in {<<clients[k].fd, "in">>, <<clients[k].fd, "out">>}
  BY DEF OwnBuffers, Blocks
<1>2. \A j, k \in ClientSlots : j # k => clients[j].fd # clients[k].fd
  BY DEF TableInv
<1> QED
  BY <1>1, <1>2 DEF Unowned, Arrays, Forgotten, ScriptBlock

\* close_conn(k) frees the blocks of slot k, and the others keep theirs.
LEMMA CloseConnHeap ==
    ASSUME TableType, TableInv, OwnBuffers, heap = Unowned \cup Referred,
           NEW k \in ClientSlots, close_conn(k)
    PROVE  heap' = Unowned' \cup Referred' /\ OwnBuffers'
<1> DEFINE from(n) == MovedFrom(n, k)
<1>1. /\ \A n \in ClientSlots' :
            /\ from(n) \in ClientSlots /\ from(n) # k
            /\ clients'[n] = clients[from(n)]
      /\ \A j \in ClientSlots : j # k => \E n \in ClientSlots' : from(n) = j
  BY CloseConnMoves
<1> HIDE DEF from
<1>2. heap' = heap \ Blocks(clients[k]) /\ Unowned' = Unowned
  BY ListenerAssumption, ForgottenGrows DEF TableType, close_conn, ClientSlots
<1>3. \A b : b \in Referred' <=>
                 \E j \in ClientSlots : j # k /\ b \in Blocks(clients[j])
  <2>1. \A b : b \in Referred' <=>
                   \E n \in ClientSlots' : b \in Blocks(clients'[n])
    BY DEF Referred, Blocks
  <2>2. \A n \in ClientSlots' : Blocks(clients'[n]) = Blocks(clients[from(n)])
    BY <1>1
  <2> QED
    BY <1>1, <2>1, <2>2
<1>4. \A b : b \in Referred <=> \E j \in ClientSlots : b \in Blocks(clients[j])
  BY DEF Referred
<1>5. heap' = Unowned' \cup Referred'
  BY <1>2, <1>3, <1>4, BlocksApart
<1>6. OwnBuffers'
  BY <1>1 DEF OwnBuffers
<1> QED
  BY <1>5, <1>6

\* add_to_lists() registers a connection that has no blocks yet.
LEMMA AddToListsHeap ==
    ASSUME TableType, TableInv, OwnBuffers, heap = Unowned \cup Referred,
           NEW f \in Free, add_to_lists(f), UNCHANGED <<heap, scripts>>
    PROVE  heap' = Unowned' \cup Referred' /\ OwnBuffers'
<1>1. /\ num_listeners \in Nat \ {0} /\ fd_count \in 0..fd_size
      /\ fd_size \in Nat \ {0} /\ num_listeners <= fd_count
  BY ListenerAssumption DEF TableType, TableInv
<1>2. NewSize \in Nat /\ fd_size <= NewSize /\ fd_count + 1 <= NewSize
  BY <1>1 DEF NewSize
<1>3. /\ fd_count' = fd_count + 1
      /\ clients' = [k \in 0..(NewSize - 1) |->
                      IF k = fd_count THEN NewClient(f)
                      ELSE IF k < fd_size THEN clients[k] ELSE GarbageClient]
  BY DEF add_to_lists, Extended
<1>4. /\ clients'[fd_count] = NewClient(f)
      /\ \A k \in ClientSlots : clients'[k] = clients[k]
  BY <1>1, <1>2, <1>3 DEF ClientSlots
<1>5. ClientSlots' = ClientSlots \cup {fd_count}
  BY <1>1, <1>3 DEF ClientSlots
<1>6. /\ NewClient(f).in_buf = NULL /\ NewClient(f).out_buf = NULL
      /\ Blocks(NewClient(f)) = {}
  BY DEF NewClient, Blocks
<1>7. Referred' = Referred
  <2>1. \A b : b \in Referred' <=>
                   \E n \in ClientSlots' : b \in Blocks(clients'[n])
    BY DEF Referred, Blocks
  <2>2. \A b : b \in Referred <=>
                   \E j \in ClientSlots : b \in Blocks(clients[j])
    BY DEF Referred
  <2> QED
    BY <1>4, <1>5, <1>6, <2>1, <2>2
<1>8. OwnBuffers'
  BY <1>4, <1>5, <1>6 DEF OwnBuffers
<1>9. Unowned' = Unowned
  BY ForgottenGrows DEF TableType
<1> QED
  BY <1>7, <1>8, <1>9

\* A step that gives client i new blocks N, forgets others, L, and frees none.
LEMMA EditHeap ==
    ASSUME IInv, HInv, Serving, NEW c, NEW N, NEW L, fd_count' = fd_count,
           clients' = [clients EXCEPT ![i] = c], heap' = heap \cup N \cup L,
           Unowned' = Unowned \cup L,
           Blocks(c) = Blocks(clients[i]) \cup N,
           c.in_buf \in {NULL, <<c.fd, "in">>},
           c.out_buf \in {NULL, <<c.fd, "out">>},
           c.state = "READING" => c.out_buf = NULL
    PROVE  heap' = Unowned' \cup Referred' /\ OwnBuffers'
<1>1. /\ i \in ClientSlots /\ ClientSlots' = ClientSlots
      /\ \A k \in ClientSlots : k \in 0..(fd_size - 1)
  BY ServingSlot, ListenerAssumption DEF ClientSlots, TableInv, TableType
<1>2. /\ clients'[i] = c
      /\ \A k \in ClientSlots : k # i => clients'[k] = clients[k]
  BY <1>1, ServingSlot DEF TableType
<1>3. heap = Unowned \cup Referred
  BY DEF HInv, HeapExact, Referred, Unowned, Serving
<1>4. /\ \A b : b \in Referred' <=>
                    \E n \in ClientSlots : b \in Blocks(clients'[n])
      /\ \A b : b \in Referred <=>
                    \E j \in ClientSlots : b \in Blocks(clients[j])
  BY <1>1 DEF Referred, Blocks
<1>5. Referred' = Referred \cup N
  BY <1>1, <1>2, <1>4
<1>6. OwnBuffers'
  BY <1>1, <1>2 DEF HInv, OwnBuffers
<1> QED
  BY <1>3, <1>5, <1>6

-----------------------------------------------------------------------------
(* The steps.                                                               *)

\* HInv from what a step that does not end the process establishes.
LEMMA HeapParts ==
    ASSUME heap' = Unowned' \cup Referred', OwnBuffers', ReadClean',
           ShutdownIndex', pc' # "exited"
    PROVE  HInv'
BY DEF HInv, HeapExact, CleanExit, Referred, Unowned

\* The heap holds the two arrays before the first connection.
LEMMA InitHInv == Init => HInv
<1> SUFFICES ASSUME Init PROVE HInv
  OBVIOUS
<1>1. /\ ClientSlots = {} /\ heap = Arrays /\ pc = "check"
      /\ Forgotten = {}
  BY ListenerAssumption DEF Init, ClientSlots, Forgotten
<1>2. HeapExact
  BY <1>1 DEF HeapExact
<1> QED
  BY <1>1, <1>2 DEF HInv, OwnBuffers, ReadClean, ShutdownIndex, CleanExit

\* A step that leaves the clients and the heap alone.
LEMMA HeapKept ==
    ASSUME HInv, UNCHANGED <<fd_count, clients, heap, scripts>>, pc # "exited",
           pc' # "exited", ReadClean', ShutdownIndex'
    PROVE  HInv'
<1>1. OwnBuffers' /\ Referred' = Referred
  BY DEF HInv, OwnBuffers, ClientSlots, Referred, Blocks
<1>2. heap = Unowned \cup Referred /\ Unowned' = Unowned
  BY DEF HInv, HeapExact, Referred, Unowned, Forgotten
<1> QED
  BY <1>1, <1>2, HeapParts

\* The steps of main()'s own code.
LEMMA MainHInv == IInv /\ HInv /\ MainStep => HInv'
<1> SUFFICES ASSUME IInv, HInv, MainStep PROVE HInv'
  OBVIOUS
<1>1. /\ TableType /\ TableInv /\ IndexInv /\ OpenExact /\ OwnBuffers
      /\ num_listeners \in Nat \ {0} /\ i \in Nat /\ fd_count \in Nat
      /\ num_listeners <= fd_count
  BY TypeParts, ListenerAssumption DEF IInv, HInv, RestType, TableType, TableInv
<1>2. pc # "exited" /\ heap = Unowned \cup Referred
  BY DEF MainStep, LoopTest, EnterPoll, PollReturns, ScanEnd, ScanListener,
     ScanIdle, ScanError, ScanEvent, CloseTest, ShutdownClient, ShutdownDone,
     StaleFcloseAborts, AtClient, HInv, HeapExact, Referred, Unowned
<1>3. CASE LoopTest \/ EnterPoll \/ PollReturns \/ ScanEnd \/ ScanListener
           \/ ScanIdle \/ StaleFcloseAborts
  <2>1. /\ UNCHANGED <<fd_count, clients, heap, scripts>>
        /\ pc' \notin {"exited", "recv", "drained"}
        /\ pc' = "shutdown" => i' = num_listeners
    BY <1>3
    DEF LoopTest, EnterPoll, PollReturns, ScanEnd, ScanListener, ScanIdle,
        StaleFcloseAborts, AtClient, table, held, extent
  <2> QED
    BY <1>2, <2>1, HeapKept DEF ReadClean, ShutdownIndex
<1>4. CASE ScanEvent
  <2>1. /\ UNCHANGED <<fd_count, clients, heap, scripts, i>> /\ i \in ClientSlots
        /\ pc' \in {"recv", "wtest"}
        /\ pc' = "recv" => clients[i].state = "READING"
    BY <1>1, <1>4 DEF ScanEvent, AtClient, ClientSlots, table, held
  <2>2. ReadClean' /\ ShutdownIndex'
    BY <1>1, <2>1 DEF ReadClean, ShutdownIndex, OwnBuffers
  <2> QED
    BY <1>2, <2>1, <2>2, HeapKept
<1>5. ASSUME i \in ClientSlots, close_conn(i),
             pc' = "scan" \/ (pc' = "shutdown" /\ i' = num_listeners)
      PROVE  HInv'
  <2>1. heap' = Unowned' \cup Referred' /\ OwnBuffers'
    BY <1>1, <1>2, <1>5, CloseConnHeap
  <2> QED
    BY <1>5, <2>1, HeapParts DEF ReadClean, ShutdownIndex
<1>6. CASE ScanError
  <2>1. i \in ClientSlots /\ close_conn(i) /\ pc' = "scan"
    BY <1>1, <1>6 DEF ScanError, AtClient, ClientSlots
  <2> QED
    BY <1>5, <2>1
<1>7. CASE CloseTest
  <2>1. i \in ClientSlots /\ pc' = "scan" /\ pc = "ctest"
    BY <1>1, <1>7 DEF CloseTest, IndexInv, ClientSlots
  <2>2. CASE close_conn(i)
    BY <1>5, <2>1, <2>2
  <2>3. CASE UNCHANGED <<table, held, sock>>
    <3>1. UNCHANGED <<fd_count, clients, heap, scripts>>
      BY <2>3 DEF table, held
    <3> QED
      BY <1>2, <2>1, <3>1, HeapKept DEF ReadClean, ShutdownIndex
  <2> QED
    BY <1>7, <2>2, <2>3 DEF CloseTest
<1>8. CASE ShutdownClient
  <2>1. /\ i \in ClientSlots /\ close_conn(i)
        /\ pc' = "shutdown" /\ i' = num_listeners
    BY <1>1, <1>8
    DEF ShutdownClient, HInv, ShutdownIndex, ClientSlots
  <2> QED
    BY <1>5, <2>1
<1>9. CASE ShutdownDone
  <2>1. ClientSlots = {}
    BY <1>1, <1>9 DEF ShutdownDone, HInv, ShutdownIndex, ClientSlots
  <2>2. heap = Unowned /\ heap \ Arrays = Forgotten
    BY <1>2, <2>1 DEF Referred, Unowned, Arrays, Forgotten, ScriptBlock
  <2>3. open = Listeners
    BY <1>1, <1>2, <2>1 DEF OpenExact
  <2>4. /\ pc' = "exited" /\ open' = {} /\ heap' = Forgotten'
        /\ UNCHANGED table
    BY <1>9, <2>2, <2>3 DEF ShutdownDone, Forgotten
  <2>5. OwnBuffers'
    BY <1>1, <2>4 DEF OwnBuffers, ClientSlots, table
  <2> QED
    BY <2>4, <2>5 DEF HInv, HeapExact, ReadClean, ShutdownIndex, CleanExit
<1> QED
  BY <1>3, <1>4, <1>6, <1>7, <1>8, <1>9 DEF MainStep

\* The steps of accept_new_conn().
LEMMA AcceptHInv ==
    /\ IInv /\ HInv
    /\ AcceptStep \/ AcceptAborted \/ AcceptFcntlFails \/ AcceptReallocFails
    => HInv'
<1> SUFFICES ASSUME IInv, HInv,
                    AcceptStep \/ AcceptAborted \/ AcceptFcntlFails
                               \/ AcceptReallocFails
             PROVE  HInv'
  OBVIOUS
<1>1. TableType /\ TableInv /\ OwnBuffers
  BY TypeParts DEF IInv, HInv
<1>2. pc = "accept"
  BY DEF AcceptStep, AcceptOne, AcceptAgain, AcceptNoDescriptor,
     AcceptAborted, AcceptFcntlFails, AcceptReallocFails
<1>3. CASE AcceptOne
  <2>1. PICK f \in Free : add_to_lists(f)
    BY <1>3 DEF AcceptOne
  <2>2. /\ heap = Unowned \cup Referred /\ UNCHANGED <<heap, scripts>>
        /\ pc' = "accept"
    BY <1>2, <1>3 DEF AcceptOne, HInv, HeapExact, Referred, Unowned
  <2>3. heap' = Unowned' \cup Referred' /\ OwnBuffers'
    BY <1>1, <2>1, <2>2, AddToListsHeap
  <2> QED
    BY <2>2, <2>3, HeapParts DEF ReadClean, ShutdownIndex
<1>4. CASE \/ AcceptAgain \/ AcceptNoDescriptor \/ AcceptAborted
           \/ AcceptFcntlFails \/ AcceptReallocFails
  <2>1. /\ UNCHANGED <<fd_count, clients, heap, scripts>>
        /\ pc' \in {"scan", "accept", "failed"}
    BY <1>2, <1>4
    DEF AcceptAgain, AcceptNoDescriptor, AcceptAborted, AcceptFcntlFails,
        AcceptReallocFails, table, held
  <2> QED
    BY <1>2, <2>1, HeapKept DEF ReadClean, ShutdownIndex
<1> QED
  BY <1>3, <1>4 DEF AcceptStep

\* Client i changes fields other than its buffers.
LEMMA EditFields ==
    ASSUME IInv, HInv, Serving, NEW c \in Client, fd_count' = fd_count,
           clients' = [clients EXCEPT ![i] = c], UNCHANGED <<heap, scripts>>,
           c.fd = clients[i].fd, c.in_buf = clients[i].in_buf,
           c.out_buf = clients[i].out_buf,
           c.state = "READING" => clients[i].state = "READING",
           \/ pc' \notin {"recv", "drained"}
           \/ pc \in {"recv", "drained"} /\ i' = i,
           pc' \notin {"shutdown", "exited"}
    PROVE  HInv'
<1>1. /\ Blocks(c) = Blocks(clients[i]) \cup {}
      /\ heap' = heap \cup {} \cup {} /\ Unowned' = Unowned \cup {}
  BY DEF Blocks, Unowned, Forgotten
<1>2. /\ i \in ClientSlots /\ OwnBuffers
      /\ clients'[i] = c
  BY ServingSlot DEF HInv, TableType
<1>3. heap' = Unowned' \cup Referred' /\ OwnBuffers'
  BY <1>1, <1>2, EditHeap DEF OwnBuffers
<1>4. ReadClean' /\ ShutdownIndex'
  BY <1>2 DEF HInv, ReadClean, ShutdownIndex
<1> QED
  BY <1>3, <1>4, HeapParts

\* The steps of do_read().
LEMMA ReadHInv ==
    IInv /\ HInv /\ (ReadStep \/ RecvReallocFails \/ RecloseAborts) => HInv'
<1> SUFFICES ASSUME IInv, HInv, ReadStep \/ RecvReallocFails \/ RecloseAborts
             PROVE  HInv'
  OBVIOUS
<1> DEFINE c == clients[i]
<1>1. pc \in {"recv", "drained"} /\ Serving
  BY DEF Serving, ReadStep, RecvReallocFails, RecloseAborts, RecvData,
     RecvTooLong, RecvEof, RecvError, RecvAgain, ReadIncomplete,
     ProcessRequest, RecvReady
<1>2. /\ c \in Client /\ c.fd \in Fds /\ i \in ClientSlots /\ TableType
      /\ i \in 0..(fd_size - 1)
      /\ c.in_buf \in {NULL, <<c.fd, "in">>} /\ c.out_buf = NULL
  BY <1>1, ServingSlot DEF HInv, OwnBuffers, ReadClean
<1>3. <<c.fd, "in">> # NULL /\ <<c.fd, "out">> # NULL
  BY <1>2, ListenerAssumption
<1>4. CASE RecvData
  <2> DEFINE end == sock[c.fd].eoh \in 1..Received
             new == Appended(c, Received, end)
             N == {b \in {<<c.fd, "in">>} : MustGrow(c, Received)}
  <2>1. /\ clients' = [clients EXCEPT ![i] = new]
        /\ heap' = heap \cup N \cup {} /\ Unowned' = Unowned \cup {}
        /\ UNCHANGED <<fd_count, pc, i>>
    BY <1>4 DEF RecvData, extent, Unowned, Forgotten
  <2>2. /\ new.fd = c.fd /\ new.out_buf = NULL /\ new.state = c.state
        /\ new.in_buf = IF MustGrow(c, Received) THEN <<c.fd, "in">>
                        ELSE c.in_buf
    BY <1>2 DEF Appended, Client
  <2> HIDE DEF new
  <2>3. Blocks(new) = Blocks(c) \cup N
    BY <1>2, <1>3, <2>2 DEF Blocks
  <2> HIDE DEF N
  <2>4. new.in_buf \in {NULL, <<new.fd, "in">>}
    BY <1>2, <2>2
  <2>5. heap' = Unowned' \cup Referred' /\ OwnBuffers'
    BY <1>1, <2>1, <2>2, <2>3, <2>4, EditHeap
  <2>6. clients'[i'].out_buf = NULL
    BY <1>2, <2>1, <2>2 DEF TableType
  <2> QED
    BY <1>1, <2>1, <2>5, <2>6, HeapParts DEF ReadClean, ShutdownIndex
<1>5. CASE RecvTooLong
  <2> DEFINE new == [c EXCEPT !.state = "PROCESSING", !.resp_val = "RESP_414"]
  <2>1. /\ clients' = [clients EXCEPT ![i] = new]
        /\ UNCHANGED <<heap, scripts>>
        /\ fd_count' = fd_count /\ pc' = "wtest"
    BY <1>5 DEF RecvTooLong, extent, held
  <2>2. /\ new \in Client /\ new.fd = c.fd /\ new.in_buf = c.in_buf
        /\ new.out_buf = c.out_buf /\ new.state # "READING"
    BY <1>2 DEF Client, client_state, client_response
  <2> HIDE DEF new
  <2> QED
    BY <1>1, <2>1, <2>2, EditFields
<1>6. CASE RecvEof \/ RecvError \/ RecvReallocFails
  <2> DEFINE new == [c EXCEPT !.state = "CLOSING"]
  <2>1. /\ clients' = [clients EXCEPT ![i] = new]
        /\ UNCHANGED <<heap, scripts>>
        /\ UNCHANGED <<fd_count, i>> /\ pc' \in {"wtest", "drained"}
    BY <1>6 DEF RecvEof, RecvError, RecvReallocFails, extent, held
  <2>2. /\ new \in Client /\ new.fd = c.fd /\ new.in_buf = c.in_buf
        /\ new.out_buf = c.out_buf /\ new.state # "READING"
    BY <1>2 DEF Client, client_state
  <2> HIDE DEF new
  <2> QED
    BY <1>1, <2>1, <2>2, EditFields
<1>7. CASE RecvAgain \/ ReadIncomplete \/ RecloseAborts
  <2>1. /\ UNCHANGED <<fd_count, clients, heap, scripts, i>>
        /\ pc' \in {"wtest", "drained", "failed"}
    BY <1>7 DEF RecvAgain, ReadIncomplete, RecloseAborts, table, held
  <2> QED
    BY <1>1, <1>2, <2>1, HeapKept DEF ReadClean, ShutdownIndex
<1>8. CASE ProcessRequest
  <2>1. PICK r \in Results :
          /\ clients' = [clients EXCEPT ![i] = Answered(c, r)]
          /\ scripts' = IF r.lost THEN scripts + 1 ELSE scripts
          /\ heap' = heap \cup {b \in {<<c.fd, "out">>} : r.len > 0}
                          \cup {b \in {ScriptBlock(scripts + 1)} : r.lost}
    BY <1>8 DEF ProcessRequest
  <2> DEFINE new == Answered(c, r)
             N == {b \in {<<c.fd, "out">>} : r.len > 0}
             L == {b \in {ScriptBlock(scripts + 1)} : r.lost}
  <2>2. /\ new.fd = c.fd /\ new.in_buf = c.in_buf
        /\ new.out_buf = (IF r.len > 0 THEN <<c.fd, "out">> ELSE NULL)
        /\ new.state = "SENDING_HEADER"
    BY <1>2 DEF Answered, Client
  <2>3. clients' = [clients EXCEPT ![i] = new] /\ heap' = heap \cup N \cup L
    BY <2>1
  <2>3a. Unowned' = Unowned \cup L
    <3>1. scripts \in Nat BY <1>2 DEF TableType
    <3>2. CASE r.lost BY <2>1, <3>1, <3>2, ForgottenGrows
    <3>3. CASE ~r.lost BY <2>1, <3>1, <3>3, ForgottenGrows
    <3> QED BY <3>2, <3>3
  <2> HIDE DEF new
  <2>4. Blocks(new) = Blocks(c) \cup N
    BY <1>2, <1>3, <2>2 DEF Blocks
  <2> HIDE DEF N, L
  <2>5. /\ new.in_buf \in {NULL, <<new.fd, "in">>}
        /\ new.out_buf \in {NULL, <<new.fd, "out">>}
        /\ new.state # "READING"
    BY <1>2, <2>2
  <2>6. fd_count' = fd_count /\ pc' = "wtest"
    BY <1>8 DEF ProcessRequest, extent
  <2>7. heap' = Unowned' \cup Referred' /\ OwnBuffers'
    BY <1>1, <2>3, <2>3a, <2>4, <2>5, <2>6, EditHeap
  <2> QED
    BY <2>6, <2>7, HeapParts DEF ReadClean, ShutdownIndex
<1> QED
  BY <1>4, <1>5, <1>6, <1>7, <1>8 DEF ReadStep

\* The steps of do_write().
LEMMA WriteHInv == IInv /\ HInv /\ WriteStep => HInv'
<1> SUFFICES ASSUME IInv, HInv, WriteStep PROVE HInv'
  OBVIOUS
<1> DEFINE c == clients[i]
<1>1. pc \in {"wtest", "send"} /\ Serving
  BY DEF Serving, WriteStep, WriteTest, SendSome, SendFails, SendDone
<1>2. /\ c \in Client /\ c.fd \in Fds /\ sock[c.fd] \in Socket
  BY <1>1, ServingSlot
<1>3. ASSUME clients' = [clients EXCEPT ![i] = [c EXCEPT !.state = "CLOSING"]],
             UNCHANGED <<fd_count, heap, scripts>>, pc' = "ctest" \/ pc' = "send"
      PROVE  HInv'
  <2> DEFINE new == [c EXCEPT !.state = "CLOSING"]
  <2>1. /\ new \in Client /\ new.fd = c.fd /\ new.in_buf = c.in_buf
        /\ new.out_buf = c.out_buf /\ new.state # "READING"
    BY <1>2 DEF Client, client_state
  <2>2. clients' = [clients EXCEPT ![i] = new]
    BY <1>3
  <2> HIDE DEF new
  <2> QED
    BY <1>1, <1>3, <2>1, <2>2, EditFields
<1>4. CASE WriteTest
  <2>1. /\ UNCHANGED <<fd_count, heap, scripts>> /\ pc' \in {"send", "ctest"}
        /\ \/ clients' = clients
           \/ clients' = [clients EXCEPT ![i] = [c EXCEPT !.state = "CLOSING"]]
    BY <1>4 DEF WriteTest, extent, held
  <2>2. CASE clients' = clients
    BY <1>1, <2>1, <2>2, HeapKept DEF ReadClean, ShutdownIndex
  <2> QED
    BY <1>3, <2>1, <2>2
<1>5. CASE SendSome
  <2> DEFINE n == Min2(SndBuf - sock[c.fd].tx, Unsent(c))
             new == [c EXCEPT !.output_sent = @ + n]
  <2>1. n \in Nat
    BY <1>2, <1>5, BoundsAssumption DEF SendSome, Min2, Unsent, Socket, Client
  <2>2. /\ clients' = [clients EXCEPT ![i] = new]
        /\ UNCHANGED <<fd_count, heap, scripts, pc>>
    BY <1>5 DEF SendSome, extent, held
  <2> HIDE DEF n
  <2>3. /\ new \in Client /\ new.fd = c.fd /\ new.in_buf = c.in_buf
        /\ new.out_buf = c.out_buf /\ new.state = c.state
    BY <1>2, <2>1 DEF Client
  <2> HIDE DEF new
  <2> QED
    BY <1>1, <2>2, <2>3, EditFields
<1>6. CASE SendFails
  <2>1. UNCHANGED <<fd_count, clients, heap, scripts>> /\ pc' = "failed"
    BY <1>6 DEF SendFails, table, held
  <2> QED
    BY <1>1, <2>1, HeapKept DEF ReadClean, ShutdownIndex
<1>7. CASE SendDone
  <2>1. /\ clients' = [clients EXCEPT ![i] = [c EXCEPT !.state = "CLOSING"]]
        /\ UNCHANGED <<fd_count, heap, scripts>> /\ pc' = "ctest"
    BY <1>7 DEF SendDone, extent, held
  <2> QED
    BY <1>3, <2>1
<1> QED
  BY <1>4, <1>5, <1>6, <1>7 DEF WriteStep

\* Peers, signals and a failing poll() touch neither the clients nor the heap.
LEMMA EnvHInv == HInv /\ (EnvStep \/ PollFails) => HInv'
<1> SUFFICES ASSUME HInv, EnvStep \/ PollFails PROVE HInv'
  OBVIOUS
<1>1. UNCHANGED <<fd_count, clients, heap, scripts, i>>
  BY DEF EnvStep, PollFails, Connect, PeerSend, PeerShutdown, PeerReset,
     PeerRead, Signal, server, table, held
<1>2. /\ pc # "exited" /\ pc' # "exited"
      /\ pc' = pc \/ pc' \in {"check", "failed"}
  BY DEF EnvStep, PollFails, Connect, PeerSend, PeerShutdown, PeerReset,
     PeerRead, Signal, AtSystemCall, Alive, Terminated
<1>3. ReadClean' /\ ShutdownIndex'
  BY <1>1, <1>2 DEF HInv, ReadClean, ShutdownIndex
<1> QED
  BY <1>1, <1>2, <1>3, HeapKept

\* Every step keeps HInv.
LEMMA NextHInv == IInv /\ HInv /\ [Next]_vars => HInv'
<1> SUFFICES ASSUME IInv, HInv, [Next]_vars PROVE HInv'
  OBVIOUS
<1>1. CASE UNCHANGED vars
  BY <1>1
  DEF vars, table, HInv, HeapExact, OwnBuffers, ReadClean, ShutdownIndex,
      CleanExit, ClientSlots, Blocks, Forgotten
<1>2. CASE Next
  BY <1>1, <1>2, MainHInv, AcceptHInv, ReadHInv, WriteHInv, EnvHInv
  DEF Next, ServerStep, FaultStep, Stopped
<1> QED
  BY <1>1, <1>2

\* HInv holds in every state the server reaches.
LEMMA SpecHInv == Spec => []HInv
BY SpecIInv, InitHInv, NextHInv, PTL DEF Spec

\* The heap holds exactly the arrays, the buffers the table refers to, and one
\* forgotten buffer for each script answered with 200: whichever way a
\* connection ends, close_conn() frees its two buffers and no others, once, and
\* never the one with the script's output.
THEOREM HeapCorrect == Spec => []HeapExact
<1>1. HInv => HeapExact
  BY DEF HInv
<1> QED
  BY SpecHInv, <1>1, PTL

\* After a shutdown by signal no socket is open and only the forgotten buffers
\* of scripts are allocated, whatever connections were open and in whatever
\* states: without a script everything is freed, with one it is not.
THEOREM CleanExitCorrect == Spec => []CleanExit
<1>1. HInv => CleanExit
  BY DEF HInv
<1> QED
  BY SpecHInv, <1>1, PTL

=============================================================================
