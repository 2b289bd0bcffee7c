------------------------- MODULE MCRequestPipeline --------------------------
(***************************************************************************)
(* Small instances of RequestPipeline for TLC.                             *)
(***************************************************************************)
EXTENDS PipelineRefinement

\* A GET or HEAD of HTTP/1.0 for a path of 12 bytes.
Plain(m) ==
    [len |-> 28, three_tokens |-> TRUE, method |-> m, version |-> "HTTP_1_0",
     path_len |-> 12, slash |-> TRUE, dotdot |-> FALSE, query |-> FALSE,
     cgi_bin |-> FALSE, root |-> FALSE]
Methods == {"HTTP_GET", "HTTP_HEAD"}

\* Requests that parse: plain, with a query, for a script, for "/" and
\* "/cgi-bin/", and of the greatest length (PATH_MAX is 16).
GoodLines ==
    {[Plain(m) EXCEPT !.query = q, !.cgi_bin = s, !.path_len = n] :
        m \in Methods, q \in BOOLEAN, s \in BOOLEAN, n \in {12, 15}}
    \cup {[Plain(m) EXCEPT !.root = TRUE, !.path_len = 1] : m \in Methods}
    \cup {[Plain(m) EXCEPT !.root = TRUE, !.query = TRUE] : m \in Methods}
    \cup {[Plain(m) EXCEPT !.cgi_bin = TRUE, !.path_len = CGI_BIN_LEN] :
             m \in Methods}

\* Every combination of the tests parse_request() makes, in lines of the
\* greatest length.
AllLines ==
    GoodLines \cup
    {[len |-> MAX_REQUEST_SIZE - 4, three_tokens |-> t, method |-> m, version |-> v, path_len |-> n,
      slash |-> s, dotdot |-> d, query |-> FALSE, cgi_bin |-> FALSE,
      root |-> FALSE] :
        t \in BOOLEAN, m \in http_method, v \in http_version,
        n \in {12, 15, 16, 17}, s \in BOOLEAN, d \in BOOLEAN}

=============================================================================
