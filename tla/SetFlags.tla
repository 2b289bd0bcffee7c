------------------------------ MODULE SetFlags ------------------------------
(***************************************************************************)
(* flags/setFlags.c.  One action is one turn of the loop over argv; i is   *)
(* the index at the head of the loop.  Every error calls exit().           *)
(***************************************************************************)
EXTENDS StartupState

\* argv[i] is the option w.
At(w) == pc = "setFlags" /\ i <= Len(argv) /\ argv[i] = w

\* argv[i + 1] exists.
HasArgument == i < Len(argv)
Argument == argv[i + 1]

environment == <<argv, root, detached, network, allocated, sig, faults>>

\* A complaint and exit(EXIT_FAILURE).
Reject ==
    /\ pc' = "failed"
    /\ UNCHANGED <<i, settings, log, environment>>

\* A word that is no option and no option's argument is passed over.
SkipWord ==
    /\ pc = "setFlags" /\ i <= Len(argv) /\ argv[i] \notin Dashed
    /\ i' = i + 1
    /\ UNCHANGED <<pc, settings, log, environment>>

\* Mutant: the argument of -c is looked at again.
FlagC_argument_again ==
    /\ At("-c")
    /\ IF HasArgument /\ Argument \in Directories
       THEN /\ app_flags' = app_flags \cup {"C_FLAG"}
            /\ cgi_addr' = Argument
            /\ i' = i + 1
            /\ UNCHANGED <<pc, port_addr, bind_addr, log, environment>>
       ELSE Reject

\* -c: the argument may begin with '-'.
FlagC ==
    /\ At("-c")
    /\ IF HasArgument /\ Argument \in Directories
       THEN /\ app_flags' = app_flags \cup {"C_FLAG"}
            /\ cgi_addr' = Argument
            /\ i' = i + 2
            /\ UNCHANGED <<pc, port_addr, bind_addr, log, environment>>
       ELSE Reject

\* -v: an open log file is closed, standard output takes its place.
FlagV ==
    /\ At("-v")
    /\ app_flags' = (app_flags \ {"L_FLAG"}) \cup {"V_FLAG"}
    /\ logs' = logs \ {log_ptr}
    /\ log_ptr' = Stdout
    /\ i' = i + 1
    /\ UNCHANGED <<pc, port_addr, bind_addr, cgi_addr, environment>>

\* Mutant: the address is taken as it is.
ValidAddress_any(f, w) == w \notin Dashed

\* inet_pton() accepts the word, which does not begin with '-'.
ValidAddress(f, w) ==
    w \notin Dashed /\ w \in (IF f = "v4" THEN Inet4 ELSE Inet6)

\* -bind4 and -bind6.
FlagBind(f, option, flag) ==
    /\ At(option)
    /\ IF HasArgument /\ ValidAddress(f, Argument)
       THEN /\ app_flags' = app_flags \cup {flag}
            /\ bind_addr' = [bind_addr EXCEPT ![f] = Argument]
            /\ i' = i + 2
            /\ UNCHANGED <<pc, port_addr, cgi_addr, log, environment>>
       ELSE Reject

\* Mutant: the stream of an earlier -l stays open.
LogsAfter_kept == logs

\* The log file that was open is closed.
LogsAfter == logs \ {log_ptr}

\* -l: the old log file is closed, then the new one opened.
FlagL ==
    /\ At("-l")
    /\ IF HasArgument /\ Argument \notin Dashed /\ Argument \in Writable
       THEN /\ app_flags' = (app_flags \ {"V_FLAG"}) \cup {"L_FLAG"}
            /\ log_ptr' = <<Argument, i>>
            /\ logs' = LogsAfter \cup {<<Argument, i>>}
            /\ i' = i + 2
            /\ UNCHANGED <<pc, port_addr, bind_addr, cgi_addr, environment>>
       ELSE Reject

\* atoi(): strtol() cut to an int.
Atoi(n) ==
    LET half == INT_MODULUS \div 2
        long == IF n > LONG_MAX THEN LONG_MAX ELSE n
    IN  ((long + half) % INT_MODULUS) - half

\* Mutant: the sign is kept.
StoredPort_signed(n) == Atoi(n)

\* The int becomes the uint32_t port_addr.
StoredPort(n) == Atoi(n) % INT_MODULUS

\* Digits only, or nothing at all.
checkPortNumber(w) == w \in DOMAIN Number

\* -p: ports up to 1024 only for root.
FlagP ==
    /\ At("-p")
    /\ IF /\ HasArgument /\ checkPortNumber(Argument)
          /\ Atoi(Number[Argument]) <= PRIVILEGED => root
       THEN /\ port_addr' = StoredPort(Number[Argument])
            /\ i' = i + 2
            /\ UNCHANGED <<pc, app_flags, bind_addr, cgi_addr, log, environment>>
       ELSE Reject

\* print_flag_error() ends the process too.
FlagUnknown ==
    /\ pc = "setFlags" /\ i <= Len(argv) /\ argv[i] \in Dashed \ Options
    /\ Reject

FlagsDone ==
    /\ pc = "setFlags" /\ i > Len(argv)
    /\ pc' = "daemon"
    /\ UNCHANGED <<i, settings, log, environment>>

SetFlagsStep ==
    \/ SkipWord \/ FlagC \/ FlagV
    \/ FlagBind("v4", "-bind4", "B4_FLAG")
    \/ FlagBind("v6", "-bind6", "B6_FLAG")
    \/ FlagL \/ FlagP \/ FlagUnknown \/ FlagsDone

=============================================================================
