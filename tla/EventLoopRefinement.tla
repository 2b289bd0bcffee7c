------------------------- MODULE EventLoopRefinement -------------------------
(***************************************************************************)
(* EventLoop implements ConnLifecycle.                                     *)
(***************************************************************************)
EXTENDS EventLoop

SlotOf(f) == CHOOSE k \in ClientSlots : clients[k].fd = f

StatePhase(state) ==
    CASE state = "READING" -> "reading"
      [] state = "PROCESSING" -> "refused"
      [] state \in Sending -> "sending"
      [] state = "CLOSING" -> "closing"

\* The phase of an open connection.  Between a failing recv() and the end of
\* do_read() the CLOSING state is not decided yet: do_read() may overwrite it.
PhaseOf(k) == IF pc = "drained" /\ k = i THEN "reading"
                                         ELSE StatePhase(clients[k].state)

phase == [f \in Fds |-> IF f \in open THEN PhaseOf(SlotOf(f)) ELSE "closed"]
due == [f \in Fds |-> IF phase[f] = "sending"
                      THEN Unsent(clients[SlotOf(f)]) ELSE 0]
broken == {f \in Fds : sock[f].rst}

Lifecycle == INSTANCE ConnLifecycle WITH stopping <- ~running

\* Every connection of the event loop lives as ConnLifecycle says: one request,
\* at most one response, closed only after all of it was handed to send(),
\* unless the peer reset the connection or the server stops.
ImplementsLifecycle == Lifecycle!Spec

=============================================================================
