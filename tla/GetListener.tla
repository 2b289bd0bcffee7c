----------------------------- MODULE GetListener -----------------------------
(***************************************************************************)
(* sockets/get_listener_v4.c and get_listener_v6.c, which differ in the    *)
(* address family only.  main() calls them at pc = "v4" and pc = "v6".     *)
(***************************************************************************)
EXTENDS StartupState

BindFlag(f) == IF f = "v4" THEN "B4_FLAG" ELSE "B6_FLAG"

\* The stage behind get_listener_v4() and behind get_listener_v6().
After(f) == IF f = "v4" THEN "v6" ELSE "slots"
Binding(f) == IF f = "v4" THEN "bind_v4" ELSE "bind_v6"
Listening(f) == IF f = "v4" THEN "listen_v4" ELSE "listen_v6"

process == <<argv, root, i, settings, log, detached, slots, allocated, sig>>

\* Mutant: one bind option leaves the other family enabled.
Used_both(f) == TRUE

\* use_v4 and use_v6: a family is left out when only the other one was given
\* an address.
Used(f) ==
    BindFlag(f) \in app_flags \/ app_flags \cap {"B4_FLAG", "B6_FLAG"} = {}

SkipFamily(f) ==
    /\ pc = f /\ ~Used(f)
    /\ pc' = After(f)
    /\ UNCHANGED <<sock, listener, process, faults>>

\* inet_pton() in get_listener: of the address setFlags() has stored.
AddressParses(f) ==
    BindFlag(f) \in app_flags =>
        bind_addr[f] \in (IF f = "v4" THEN Inet4 ELSE Inet6)

\* socket(), its options and O_NONBLOCK; then the address is filled in.  If it
\* does not parse the function returns -1 and leaves the socket open.
OpenSocket(f) ==
    /\ pc = f /\ Used(f)
    /\ sock' = [sock EXCEPT ![f].state = "created", ![f].nonblock = TRUE]
    /\ pc' = IF AddressParses(f) THEN Binding(f) ELSE After(f)
    /\ UNCHANGED <<listener, process, faults>>

\* htons() of port_addr.
Port == port_addr % PORT_MODULUS

\* The kernel keeps the low ports for root; for port 0 it chooses one.
PortAllowed == root \/ Port = 0 \/ Port >= PRIVILEGED

\* bind() and getsockname().
BindSocket(f) ==
    /\ pc = Binding(f) /\ PortAllowed
    /\ sock' = [sock EXCEPT ![f].state = "bound",
                            ![f].addr = IF BindFlag(f) \in app_flags
                                        THEN bind_addr[f] ELSE "ANY",
                            ![f].port = Port]
    /\ pc' = Listening(f)
    /\ UNCHANGED <<listener, process, faults>>

BindRefused(f) ==
    /\ pc = Binding(f) /\ ~PortAllowed
    /\ pc' = "failed"
    /\ UNCHANGED <<sock, listener, process, faults>>

ListenSocket(f) ==
    /\ pc = Listening(f)
    /\ sock' = [sock EXCEPT ![f].state = "listening"]
    /\ listener' = [listener EXCEPT ![f] = TRUE]
    /\ pc' = After(f)
    /\ UNCHANGED <<process, faults>>

\* A failing call ends the process with exit(EXIT_FAILURE), also when the other
\* family has its listener already.
Exits == Fault /\ pc' = "failed" /\ UNCHANGED <<sock, listener, process>>

\* socket() or fcntl().
SocketFails(f) == pc = f /\ Used(f) /\ Exits

\* bind(), of an address in use or of no local interface, or getsockname().
BindFails(f) == pc = Binding(f) /\ PortAllowed /\ Exits

ListenFails(f) == pc = Listening(f) /\ Exits

ListenerFails(f) == SocketFails(f) \/ BindFails(f) \/ ListenFails(f)

GetListenerStep ==
    \E f \in Families :
        \/ SkipFamily(f) \/ OpenSocket(f) \/ BindSocket(f) \/ BindRefused(f)
        \/ ListenSocket(f)

=============================================================================
