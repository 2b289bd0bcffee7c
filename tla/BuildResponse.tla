--------------------------- MODULE BuildResponse ----------------------------
(***************************************************************************)
(* response/build_okay_response.c, the files and the listings, and         *)
(* response/build_error_response.c.                                        *)
(***************************************************************************)
EXTENDS CgiProcess

\* The table error_responses: the status in the status line and the length of
\* the body, one unit for the two codes that have a page.
error_responses ==
    [RESP_400 |-> <<"400", 0>>, RESP_403 |-> <<"403", 0>>,
     RESP_404 |-> <<"404", 1>>, RESP_414 |-> <<"414", 0>>,
     RESP_500 |-> <<"500", 0>>, RESP_501 |-> <<"501", 1>>,
     RESP_505 |-> <<"505", 0>>]

\* START_HTML_STRING with END_HTML_STRING, and EMPTY_DIR_HTML, as units.
HTML_STRING_LEN == 2
EMPTY_DIR_LEN == 1

\* A complete response of n announced bytes, of which HEAD sends none.
Staged(status, n, sent) ==
    [status |-> status, content_length |-> n,
     body |-> IF method = "HTTP_HEAD" THEN 0 ELSE sent]

\* build_okay_response() dispatches on what resolve_path() found.
BuildOkay ==
    /\ pc = "build_okay"
    /\ c' = [c EXCEPT !.resp_val = "RESP_200"]
    /\ pc' = CASE rp.path_type = "IS_CGI" -> "cgi_fork"
               [] rp.path_type = "IS_DIR" -> "build_dir"
               [] rp.path_type = "IS_FILE" -> "build_file"
    /\ UNCHANGED <<input, method, rp, files, cgi, log, faults>>

\* Mutant: the length logged is the announced one.
BuildFile_announced ==
    /\ pc = "build_file"
    /\ c' = [c EXCEPT !.out = Staged("200", rp.file_size, found.size),
                      !.body_len = rp.file_size]
    /\ pc' = "log"
    /\ UNCHANGED <<input, method, rp, files, cgi, log, faults>>

\* build_response_file(): the length is fstat()'s, the body what fread() gets.
BuildFile ==
    /\ pc = "build_file"
    /\ c' = [c EXCEPT
                !.out = Staged("200", rp.file_size, found.size),
                !.body_len = IF method = "HTTP_HEAD" THEN c.file_size
                                                     ELSE found.size]
    /\ pc' = "log"
    /\ UNCHANGED <<input, method, rp, files, cgi, log, faults>>

\* Mutant: it fails with the headers already written.
BuildFileFails_staged ==
    /\ pc = "build_file"
    /\ Fault
    /\ c' = [c EXCEPT !.resp_val = "RESP_500",
                      !.out = Staged("200", rp.file_size, 0)]
    /\ pc' = "build_error"
    /\ UNCHANGED <<input, method, rp, files, cgi, log>>

\* gmtime() or open_memstream() fails; the latter leaves RESP_200 in resp_val.
BuildFileFails ==
    /\ pc = "build_file"
    /\ Fault
    /\ \E resp \in {"RESP_500", "RESP_200"} : BuilderFails(resp)
    /\ UNCHANGED <<input, method, rp, files, cgi, log>>

\* opendir() is given req->path behind its first slash, query included.
DirNamed == ~line.root /\ ~line.query

\* Mutant: the text for an empty directory is not counted.
ListingLength_entries_only(n) == n + HTML_STRING_LEN

\* local_body_len, computed before anything is written.
ListingLength(n) ==
    IF n > 0 THEN n + HTML_STRING_LEN ELSE HTML_STRING_LEN + EMPTY_DIR_LEN

\* What is then written: the start, the entries or the text for none, the end.
ListingBody(n) == HTML_STRING_LEN + IF n = 0 THEN EMPTY_DIR_LEN ELSE n

\* build_response_dir(): n is what the entries take in the listing.
BuildDir ==
    /\ pc = "build_dir" /\ DirNamed
    /\ \E n \in 0..MaxSize :
          c' = [c EXCEPT
                   !.out = Staged("200", ListingLength(n), ListingBody(n)),
                   !.body_len = IF method = "HTTP_HEAD" THEN @
                                                        ELSE ListingBody(n)]
    /\ pc' = "log"
    /\ UNCHANGED <<input, method, rp, files, cgi, log, faults>>

\* opendir() does not find the directory under that name.
BuildDirUnnamed ==
    /\ pc = "build_dir" /\ ~DirNamed
    /\ BuilderFails("RESP_500")
    /\ UNCHANGED <<input, method, rp, files, cgi, log, faults>>

\* opendir(), open_memstream() or gmtime() fails: everything opened is closed.
BuildDirFails ==
    /\ pc = "build_dir" /\ DirNamed
    /\ Fault
    /\ BuilderFails("RESP_500")
    /\ UNCHANGED <<input, method, rp, files, cgi, log>>

\* build_error_response(), which refuses a resp_val that is no error.
build_error_response ==
    /\ pc = "build_error"
    /\ c' = IF c.resp_val \in DOMAIN error_responses
            THEN LET row == error_responses[c.resp_val]
                 IN  [c EXCEPT !.out = Staged(row[1], row[2], row[2]),
                               !.body_len = row[2]]
            ELSE c
    /\ pc' = "log"
    /\ UNCHANGED <<input, method, rp, files, cgi, log, faults>>

\* open_memstream() fails: there is nothing to send.
ErrorNotBuilt ==
    /\ pc = "build_error"
    /\ Fault
    /\ pc' = "log"
    /\ UNCHANGED <<input, method, c, rp, files, cgi, log>>

BuildStep ==
    \/ BuildOkay \/ BuildFile \/ BuildDir \/ BuildDirUnnamed
    \/ build_error_response \/ CgiStep

BuildFault == BuildFileFails \/ BuildDirFails \/ ErrorNotBuilt \/ CgiFault

=============================================================================
