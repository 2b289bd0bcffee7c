--------------------------- MODULE ConnLifecycle ---------------------------
(***************************************************************************)
(* What the server promises about one connection, without poll(), slots,   *)
(* buffers or descriptors tables: a connection is opened, one request is   *)
(* read, at most one response is handed to the network, all of it, and     *)
(* only then is the connection closed.  A connection is closed earlier     *)
(* only when its peer reset it or the server is stopping.                  *)
(***************************************************************************)
EXTENDS Integers

CONSTANT Fds

VARIABLES
    phase,     \* phase[f]: where connection f is in its life
    due,       \* due[f]: bytes of the response still to be handed over
    broken,    \* connections the peer has reset
    stopping   \* a shutdown was requested

vars == <<phase, due, broken, stopping>>

Phases == {"closed", "reading", "refused", "sending", "closing"}

TypeOK ==
    /\ phase \in [Fds -> Phases]
    /\ due \in [Fds -> Nat]
    /\ broken \subseteq Fds
    /\ stopping \in BOOLEAN

Init ==
    /\ phase = [f \in Fds |-> "closed"]
    /\ due = [f \in Fds |-> 0]
    /\ broken = {}
    /\ stopping = FALSE

\* Connection f goes from phase p to phase q.
Move(f, p, q) == phase[f] = p /\ phase' = [phase EXCEPT ![f] = q]

Open(f) == Move(f, "closed", "reading") /\ UNCHANGED <<due, broken, stopping>>

\* The request is longer than the server accepts.
Refuse(f) ==
    Move(f, "reading", "refused") /\ UNCHANGED <<due, broken, stopping>>

\* The peer is gone, or there is no memory for its request.
GiveUp(f) ==
    Move(f, "reading", "closing") /\ UNCHANGED <<due, broken, stopping>>

\* The request is complete and a response of any length is ready.
Respond(f) ==
    /\ Move(f, "reading", "sending")
    /\ due'[f] \in Nat /\ due' = [due EXCEPT ![f] = due'[f]]
    /\ UNCHANGED <<broken, stopping>>

\* Some of the response is handed to the network.
Send(f) ==
    /\ phase[f] = "sending"
    /\ \E n \in 1..due[f] : due' = [due EXCEPT ![f] = @ - n]
    /\ UNCHANGED <<phase, broken, stopping>>

\* The response is out.
Finish(f) ==
    /\ Move(f, "sending", "closing") /\ due[f] = 0
    /\ UNCHANGED <<due, broken, stopping>>

Close(f) ==
    /\ phase[f] # "closed"
    /\ phase[f] = "closing" \/ f \in broken \/ stopping
    /\ phase' = [phase EXCEPT ![f] = "closed"]
    /\ due' = [due EXCEPT ![f] = 0]
    /\ broken' = broken \ {f}
    /\ UNCHANGED stopping

Break(f) ==
    /\ phase[f] # "closed"
    /\ broken' = broken \cup {f}
    /\ UNCHANGED <<phase, due, stopping>>

Stop == stopping' = TRUE /\ UNCHANGED <<phase, due, broken>>

Next ==
    \/ Stop
    \/ \E f \in Fds : \/ Open(f) \/ Refuse(f) \/ GiveUp(f) \/ Respond(f)
                      \/ Send(f) \/ Finish(f) \/ Close(f) \/ Break(f)

Spec == Init /\ [][Next]_vars

=============================================================================
