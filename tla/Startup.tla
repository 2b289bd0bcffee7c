------------------------------- MODULE Startup -------------------------------
(***************************************************************************)
(* main.c without its loop: from the first line to the first poll(), and   *)
(* from the last to exit().  EventLoop models what happens while           *)
(* pc = "serving".                                                         *)
(***************************************************************************)
EXTENDS SetFlags, GetListener, FiniteSetsExt

Init ==
    /\ pc = "signals"
    /\ argv \in CommandLines /\ root \in BOOLEAN
    /\ i = 1 /\ app_flags = {} /\ port_addr = DEFAULT_PORT
    /\ bind_addr = [f \in Families |-> "NULL"] /\ cgi_addr = "NULL"
    /\ log_ptr = NullLog /\ logs = {}
    /\ detached = FALSE
    /\ sock = [f \in Families |-> NoSocket]
    /\ listener = [f \in Families |-> FALSE]
    /\ slots = <<>> /\ allocated = {}
    /\ running = TRUE /\ signals = 0 /\ faults = 0

\* A step of main() that changes pc and nothing of what others keep.
input == <<argv, root, i, settings>>

\* setup_signal_handler().
InstallHandlers ==
    /\ pc = "signals"
    /\ pc' = "setFlags"
    /\ UNCHANGED <<input, log, detached, network, allocated, sig, faults>>

\* daemon(), unless -v is the last word on the log.
Daemonize ==
    /\ pc = "daemon"
    /\ detached' = ("V_FLAG" \notin app_flags)
    /\ pc' = "magic"
    /\ UNCHANGED <<input, log, network, allocated, sig, faults>>

\* daemon() fails and nobody looks: the process stays in the foreground.
DaemonFails ==
    /\ pc = "daemon" /\ "V_FLAG" \notin app_flags
    /\ Fault
    /\ pc' = "magic"
    /\ UNCHANGED <<input, log, detached, network, allocated, sig>>

\* magic_open() and magic_load().
LoadMagic ==
    /\ pc = "magic"
    /\ allocated' = allocated \cup {"magic"}
    /\ pc' = "malloc"
    /\ UNCHANGED <<input, log, detached, network, sig, faults>>

\* The two arrays.
AllocateArrays ==
    /\ pc = "malloc"
    /\ allocated' = allocated \cup {"pfds", "clients"}
    /\ pc' = "v4"
    /\ UNCHANGED <<input, log, detached, network, sig, faults>>

\* sigaction(), magic_load() or malloc() fails: the process ends.
SetupFails ==
    /\ pc \in {"signals", "magic", "malloc"}
    /\ Fault
    /\ pc' = "failed"
    /\ UNCHANGED <<input, log, detached, network, allocated, sig>>

\* The slot of a listener that exists.
Slot(f) == IF listener[f] THEN <<f>> ELSE <<>>

\* The listeners that exist get the first slots of pfds; without any the
\* process ends.
FillSlots ==
    /\ pc = "slots"
    /\ slots' = Slot("v4") \o Slot("v6")
    /\ pc' = IF slots' = <<>> THEN "failed" ELSE "loop"
    /\ UNCHANGED <<input, log, detached, sock, listener, allocated, sig, faults>>

\* Mutant: the loop is entered before running is tested.
EnterLoop_do_while ==
    /\ pc = "loop"
    /\ pc' = "serving"
    /\ UNCHANGED <<input, log, detached, network, allocated, sig, faults>>

\* while (running), the first time.
EnterLoop ==
    /\ pc = "loop"
    /\ pc' = IF running THEN "serving" ELSE "shutdown"
    /\ UNCHANGED <<input, log, detached, network, allocated, sig, faults>>

\* The loop is left; EventLoop says when.
LeaveLoop ==
    /\ pc = "serving" /\ ~running
    /\ pc' = "shutdown"
    /\ UNCHANGED <<input, log, detached, network, allocated, sig, faults>>

\* Mutant: only the IPv4 listener is closed.
ClosedBy_v4_only(f) == f = "v4" /\ listener[f]

\* close(listener_v4) and close(listener_v6): close(-1) closes nothing.
ClosedBy(f) == listener[f]

\* The code behind the loop.
Shutdown ==
    /\ pc = "shutdown"
    /\ sock' = [f \in Families |-> IF ClosedBy(f) THEN NoSocket ELSE sock[f]]
    /\ allocated' = {}
    /\ logs' = logs \ {log_ptr}
    /\ pc' = "exited"
    /\ UNCHANGED <<input, log_ptr, detached, listener, slots, sig, faults>>

\* SIGTERM or SIGINT: fatal before the handler is installed.
Signal ==
    /\ ~Stopped /\ signals < MaxSignals
    /\ signals' = signals + 1
    /\ IF pc = "signals" THEN pc' = "failed" /\ running' = running
                         ELSE pc' = pc /\ running' = FALSE
    /\ UNCHANGED <<input, log, detached, network, allocated, faults>>

\* The steps that wait for nobody.
StartStep ==
    \/ InstallHandlers \/ SetFlagsStep \/ Daemonize \/ LoadMagic
    \/ AllocateArrays \/ GetListenerStep \/ FillSlots \/ EnterLoop \/ Shutdown

FaultStep ==
    \/ SetupFails \/ DaemonFails \/ \E f \in Families : ListenerFails(f)

Gone == Stopped /\ UNCHANGED vars

\* The server waits for connections.
Serves == pc = "serving" /\ running /\ UNCHANGED vars

Next == StartStep \/ LeaveLoop \/ FaultStep \/ Signal \/ Serves \/ Gone

Spec == Init /\ [][Next]_vars

\* Nothing in the start-up or in the shutdown waits for anybody.  When the loop
\* is left is EventLoop's question, so nothing is assumed of LeaveLoop.
FairSpec == Spec /\ WF_vars(StartStep)

-----------------------------------------------------------------------------
(* What a command line means, without the loop of setFlags().               *)

\* Word k is an option, not the argument of the one before it.
IsOption[k \in 0..Len(argv)] ==
    /\ k > 0
    /\ argv[k] \in Dashed
    /\ ~(IsOption[k - 1] /\ argv[k - 1] \in Options \ {"-v"})

\* The places of the options in W, and the last of them.
Places(W) == {k \in 1..Len(argv) : IsOption[k] /\ argv[k] \in W}
Given(w) == Places({w}) # {}
Last(W) == Max(Places(W))

\* The last of several options counts; -v and -l revoke each other.
AskedLog ==
    IF Places({"-v", "-l"}) = {} THEN NullLog
    ELSE LET k == Last({"-v", "-l"})
         IN  IF argv[k] = "-v" THEN Stdout ELSE <<argv[k + 1], k>>
AskedPort == IF Given("-p") THEN Number[argv[Last({"-p"}) + 1]]
                            ELSE DEFAULT_PORT
Asked(f) == Given(IF f = "v4" THEN "-bind4" ELSE "-bind6")
AskedAddress(f) ==
    IF Asked(f) THEN argv[Last({IF f = "v4" THEN "-bind4" ELSE "-bind6"}) + 1]
                ELSE "ANY"

\* Both families, or the ones an address was given for.
AskedFamilies ==
    IF \E f \in Families : Asked(f) THEN {f \in Families : Asked(f)}
                                    ELSE Families

-----------------------------------------------------------------------------
(* Safety.                                                                  *)

LogStream == (Words \X Nat) \cup {NullLog, Stdout}

\* Every variable has its type.
TypeOK ==
    /\ pc \in Stages /\ argv \in Seq(Words) /\ root \in BOOLEAN
    /\ i \in Nat /\ app_flags \subseteq Flags
    /\ port_addr \in 0..(INT_MODULUS - 1)
    /\ bind_addr \in [Families -> Words \cup {"NULL"}]
    /\ cgi_addr \in Words \cup {"NULL"}
    /\ log_ptr \in LogStream /\ logs \subseteq LogStream
    /\ detached \in BOOLEAN
    /\ sock \in [Families -> Socket] /\ listener \in [Families -> BOOLEAN]
    /\ slots \in Seq(Families) /\ allocated \subseteq Resources
    /\ running \in BOOLEAN /\ signals \in Nat /\ faults \in Nat

\* What setFlags() leaves in the globals, one word after the other, is what the
\* command line means as a whole: an argument is never taken for an option, and
\* of several options of a kind the last one counts.
SettingsAsAsked ==
    pc \notin {"signals", "setFlags", "failed"} =>
        /\ "C_FLAG" \in app_flags <=> Given("-c")
        /\ Given("-c") => cgi_addr = argv[Last({"-c"}) + 1]
        /\ log_ptr = AskedLog
        /\ \A f \in Families : BindFlag(f) \in app_flags <=> Asked(f)
        /\ AskedPort <= LONG_MAX => Port = AskedPort % PORT_MODULUS

\* One log at a time: whatever the order of -v and -l, the flags that make
\* do_read() log a request are set exactly when log_ptr can be written to, and
\* no other log file is open.
OneLog ==
    ~Stopped =>
        /\ "V_FLAG" \in app_flags <=> log_ptr = Stdout
        /\ "L_FLAG" \in app_flags <=> log_ptr \notin {NullLog, Stdout}
        /\ logs = {log_ptr} \ {NullLog, Stdout}

\* The event loop starts with the listeners the command line asks for and no
\* other socket: each in one of the first slots, listening, not blocking, at
\* the address given and on the port given, cut to 16 bits.  This is what
\* ServerState assumes of num_listeners and ListenFd.
ListenersAsAsked ==
    pc \in {"loop", "serving"} =>
        /\ {slots[k] : k \in DOMAIN slots} = AskedFamilies
        /\ Len(slots) = Cardinality(AskedFamilies)
        /\ \A f \in Families :
              sock[f] = IF f \in AskedFamilies
                        THEN [state |-> "listening", nonblock |-> TRUE,
                              addr |-> AskedAddress(f), port |-> Port]
                        ELSE NoSocket

\* An error in the command line is reported while there is a terminal to report
\* it to: a process that has detached fails without a word only because a call
\* failed, or because the port, cut to 16 bits, is one of root's.
SilentFailureHasCause ==
    pc = "failed" /\ detached => faults > 0 \/ ~PortAllowed

\* A start that a signal overtakes ends like any other run: every socket and
\* the log file closed, the arrays freed.
CleanStop ==
    pc = "exited" =>
        /\ \A f \in Families : sock[f] = NoSocket
        /\ logs = {} /\ allocated = {}

-----------------------------------------------------------------------------
(* Liveness, under FairSpec.                                                *)

\* A signal before the loop stops the server without its ever serving.
EarlySignalStops == (~running /\ pc # "serving") ~> Stopped

-----------------------------------------------------------------------------
(* What the repository says and the code does not do.                       *)

\* flags.h: without -bind4 the IPv4 listener binds to INADDR_ANY, without
\* -bind6 the IPv6 listener to in6addr_any.
EveryFamilyListens ==
    pc = "serving" => \A f \in Families : sock[f].state = "listening"

=============================================================================
