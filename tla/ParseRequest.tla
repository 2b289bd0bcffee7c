---------------------------- MODULE ParseRequest ----------------------------
(***************************************************************************)
(* requests/parse_request.c.                                               *)
(***************************************************************************)
EXTENDS Logging, Sequences, FiniteSetsExt

\* The tests in the order of the code, each with the code it determines.  That
\* the end of the headers is in the buffer do_read() made sure of.
Tests(l) ==
    << <<l.three_tokens, "RESP_400">>,
       <<l.path_len < PATH_MAX, "RESP_414">>,
       <<l.slash, "RESP_400">>,
       <<l.version # "HTTP_VERSION_UNKNOWN", "RESP_400">>,
       <<l.version # "HTTP_VERSION_UNSUPPORTED", "RESP_505">>,
       <<~l.dotdot, "RESP_403">>,
       <<l.method # "HTTP_METHOD_UNKNOWN", "RESP_501">>,
       <<l.method # "HTTP_POST", "RESP_501">> >>

FailedTests(l) == {k \in DOMAIN Tests(l) : ~Tests(l)[k][1]}

\* A 400 forgets the method, so that its response is never taken for HEAD's.
ParsedMethod(l) ==
    IF FailedTests(l) # {} /\ Tests(l)[Min(FailedTests(l))][2] = "RESP_400"
    THEN "HTTP_METHOD_UNKNOWN" ELSE l.method

\* do_read() goes on with resolve_path() or with build_error_response().
parse_request ==
    /\ pc = "parse_request"
    /\ method' = ParsedMethod(line)
    /\ IF FailedTests(line) = {}
       THEN pc' = "fopen" /\ c' = c
       ELSE /\ pc' = "build_error"
            /\ c' = [c EXCEPT !.resp_val =
                        Tests(line)[Min(FailedTests(line))][2]]
    /\ log_request
    /\ UNCHANGED <<input, rp, files, cgi, logged, faults>>

=============================================================================
