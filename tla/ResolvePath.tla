---------------------------- MODULE ResolvePath -----------------------------
(***************************************************************************)
(* requests/resolve_path.c and close_resolve_path.c.  The filesystem is the*)
(* environment: which entry a lookup meets is a choice.                    *)
(***************************************************************************)
EXTENDS RequestState

\* fclose(p): a stream closed a second time is remembered in reclosed.
Fclose(p) ==
    /\ streams' = streams \ {p}
    /\ reclosed' = reclosed \cup ({p} \ (streams \cup {"NULL"}))

\* path_buffer has room for "." and PATH_MAX - 2 characters of req->path.
LocalPathLen == IF line.path_len > PATH_MAX - 2 THEN PATH_MAX - 2
                                                ELSE line.path_len

\* "/" and "/cgi-bin/" can only be directories.
NamesDirectory == line.root \/ (line.cgi_bin /\ line.path_len = CGI_BIN_LEN)

\* fopen() of the local path succeeds, on a file or on a directory.
PathOpened ==
    /\ pc = "fopen"
    /\ \E kind \in {"file", "dir"}, n \in 0..MaxSize :
          /\ NamesDirectory => kind = "dir"
          /\ found' = [kind |-> kind, size |-> n]
    /\ streams' = streams \cup {"path"}
    /\ rp' = [rp EXCEPT !.file_ptr = "path",
                        !.exact = LocalPathLen = line.path_len]
    /\ pc' = "fstat"
    /\ UNCHANGED <<input, method, c, reclosed, cgi, log, faults>>

\* fopen() fails; without a descriptor left (EMFILE) it is a 404 as well.
PathNotOpened ==
    /\ pc = "fopen"
    /\ \E kind \in {"denied", "absent"} :
          /\ found' = [kind |-> kind, size |-> 0]
          /\ c' = [c EXCEPT !.resp_val =
                      IF kind = "denied" THEN "RESP_403" ELSE "RESP_404"]
    /\ pc' = "build_error"
    /\ UNCHANGED <<input, method, rp, streams, reclosed, cgi, log, faults>>

\* fstat() fails: the stream is closed and rp->file_ptr still points at it.
FstatFails ==
    /\ pc = "fstat"
    /\ Fault
    /\ Fclose(rp.file_ptr)
    /\ c' = [c EXCEPT !.resp_val = "RESP_500"]
    /\ pc' = "build_error"
    /\ UNCHANGED <<input, method, rp, found, cgi, log>>

\* Mutant: scripts run whether or not -c was given.
CgiRefused_never == FALSE

\* A path under cgi-bin, and the server was started without -c.
CgiRefused == line.cgi_bin /\ "C_FLAG" \notin flags

\* Under cgi-bin without -c: the pointer is dropped, the stream is not closed.
CgiDisabled ==
    /\ pc = "fstat" /\ CgiRefused
    /\ rp' = [rp EXCEPT !.file_ptr = "NULL", !.path_type = "UNKNOWN"]
    /\ c' = [c EXCEPT !.resp_val = "RESP_501"]
    /\ pc' = "build_error"
    /\ UNCHANGED <<input, method, files, cgi, log, faults>>

\* A regular file, or a script: the client and rp share the stream.
RegularFile ==
    /\ pc = "fstat" /\ ~CgiRefused /\ found.kind = "file"
    /\ rp' = [rp EXCEPT !.path_type = IF line.cgi_bin THEN "IS_CGI"
                                                      ELSE "IS_FILE",
                        !.file_size = found.size]
    /\ c' = [c EXCEPT !.file_ptr = rp.file_ptr, !.file_size = found.size]
    /\ pc' = "build_okay"
    /\ UNCHANGED <<input, method, files, cgi, log, faults>>

Directory ==
    /\ pc = "fstat" /\ ~CgiRefused /\ found.kind = "dir"
    /\ pc' = "fopen_index"
    /\ UNCHANGED <<input, method, c, rp, files, cgi, log, faults>>

\* index.htm or else index.html is there: it takes the directory's place.
IndexOpened ==
    /\ pc = "fopen_index"
    /\ \E n \in 0..MaxSize :
          /\ found' = [kind |-> "file", size |-> n]
          /\ rp' = [rp EXCEPT !.file_ptr = "index", !.path_type = "IS_FILE",
                              !.file_size = n]
          /\ c' = [c EXCEPT !.file_ptr = "index", !.file_size = n]
    /\ streams' = (streams \ {"path"}) \cup {"index"}
    /\ pc' = "build_okay"
    /\ UNCHANGED <<input, method, reclosed, cgi, log, faults>>

\* fstat() of the index fails: HANDLE_DIR_INDEX closes both streams and leaves
\* rp->file_ptr pointing at the second.
IndexFstatFails ==
    /\ pc = "fopen_index"
    /\ Fault
    /\ streams' = streams \ {"path"}
    /\ rp' = [rp EXCEPT !.file_ptr = "index"]
    /\ c' = [c EXCEPT !.resp_val = "RESP_500"]
    /\ pc' = "build_error"
    /\ UNCHANGED <<input, method, reclosed, found, cgi, log>>

\* No index: the directory will be listed.
NoIndex ==
    /\ pc = "fopen_index"
    /\ Fclose("path")
    /\ rp' = [rp EXCEPT !.file_ptr = "NULL", !.path_type = "IS_DIR"]
    /\ pc' = "build_okay"
    /\ UNCHANGED <<input, method, c, found, cgi, log, faults>>

\* Another process changes the size of the file that is being served.
FileChanges ==
    /\ "file" = found.kind /\ pc \in {"fstat", "build_okay", "build_file"}
    /\ Fault
    /\ \E n \in (0..MaxSize) \ {found.size} :
          found' = [found EXCEPT !.size = n]
    /\ UNCHANGED <<pc, input, method, c, rp, streams, reclosed, cgi, log>>

ResolveStep ==
    \/ PathOpened \/ PathNotOpened \/ CgiDisabled \/ RegularFile \/ Directory
    \/ IndexOpened \/ NoIndex

ResolveFault == FstatFails \/ IndexFstatFails \/ FileChanges

=============================================================================
