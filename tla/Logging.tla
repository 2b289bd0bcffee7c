------------------------------ MODULE Logging -------------------------------
(***************************************************************************)
(* logging/logging.c and the calls made to it: how long a log line grows,  *)
(* and the status code and the length in it.                               *)
(***************************************************************************)
EXTENDS RequestState

\* do_read() writes a line with -v and with -l.
LoggingOn == flags \cap {"V_FLAG", "L_FLAG"} # {}

resp_val_to_status_string(resp) ==
    CASE resp = "RESP_200" -> "200"
      [] resp = "RESP_400" -> "400"
      [] resp = "RESP_403" -> "403"
      [] resp = "RESP_404" -> "404"
      [] resp = "RESP_414" -> "414"
      [] resp = "RESP_500" -> "500"
      [] resp = "RESP_501" -> "501"
      [] resp = "RESP_505" -> "505"
      [] OTHER -> "000"

\* Mutant: no room but for the request line.
LOG_BUF_SIZE_bare == MAX_REQUEST_SIZE

\* The line, with room for what is put around it.
LOG_BUF_SIZE == MAX_REQUEST_SIZE + 128

\* "2026-01-31T12:00:00Z"
TIME_LEN == 20

\* vsnprintf() returns n whether or not n characters fit, and the offset grows
\* by n: LogFits says that they do.
log_append(n) == le' = le + n

\* do_read() has appended the peer's address, parse_request() appends the time
\* and the request line in quotes.
log_request ==
    IF LoggingOn
    THEN \E n \in AddrLengths :
            log_append(n + 1 + TIME_LEN + 2 + line.len + 2)
    ELSE le' = le

\* The status and the length of the body, then do_logging() of the line.
log_response ==
    IF LoggingOn
    THEN /\ \E n \in IntLengths : log_append(3 + 1 + n + 1)
         /\ logged' = [status |-> resp_val_to_status_string(c.resp_val),
                       bytes |-> c.body_len]
    ELSE UNCHANGED log

=============================================================================
