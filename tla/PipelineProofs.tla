--------------------------- MODULE PipelineProofs ---------------------------
(***************************************************************************)
(* Theorems about RequestPipeline.                                         *)
(***************************************************************************)
EXTENDS PipelineRefinement, TLAPS

-----------------------------------------------------------------------------
(* The inductive invariant: what holds at each stage.                       *)

Early == {"parse_request", "fopen"}
Opened == {"fstat", "fopen_index"}
Building == {"build_okay", "build_file", "build_dir", "cgi_fork", "cgi_read",
             "cgi_wait", "cgi_response"}
Late == {"log", "sending", "closed"}

\* What the path led to, and that the client has a stream exactly for a file or
\* a script, until the connection is closed.
PathInv ==
    /\ pc \in Early \cup Opened => rp.path_type = "UNKNOWN"
    /\ pc \in Early => found.kind = "none"
    /\ pc \in Building => rp.path_type # "UNKNOWN"
    /\ pc \in Building \cup {"fopen_index"} => ~CgiRefused
    /\ pc \in Opened \cup Building => found.kind \in {"file", "dir"}
    /\ pc # "closed" =>
          (c.file_ptr # "NULL" <=> rp.path_type \in {"IS_FILE", "IS_CGI"})

\* The code: none before the builders, 200 inside them, and a failure that comes
\* from a builder is a 500.  Nothing is staged before a builder has succeeded.
CodeInv ==
    /\ pc \in Early \cup Opened \cup {"build_okay"} =>
          c.resp_val = NUM_CLIENT_RESP
    /\ pc \in Building \ {"build_okay"} => c.resp_val = "RESP_200"
    /\ pc = "build_error" => c.resp_val \in client_response \ {"RESP_200"}
    /\ pc \in Late => c.resp_val \in client_response
    /\ pc \in Late \cup {"build_error"} =>
          /\ rp.path_type # "UNKNOWN" => c.resp_val \in {"RESP_200", "RESP_500"}
          /\ c.resp_val = "RESP_200" => rp.path_type # "UNKNOWN"
    /\ pc \in {"log", "sending"} /\ c.resp_val = "RESP_200" =>
          c.out # NoResponse
    /\ pc \notin Late => c.out = NoResponse /\ c.body_len = 0

\* The request whose stream is forgotten.
Leaks ==
    /\ CgiRefused /\ found.kind \in {"file", "dir"}
    /\ c.resp_val = "RESP_501"

\* The streams that are open, and who points at them; the ends of the pipe.
StreamInv ==
    /\ pc \in Early => streams = {} /\ rp.file_ptr = "NULL"
    /\ pc \in Opened => streams = {"path"} /\ rp.file_ptr = "path"
    /\ pc \in Building =>
          streams = {rp.file_ptr} \ {"NULL"} /\ c.file_ptr = rp.file_ptr
    /\ pc \in {"build_error", "log"} =>
          IF Leaks THEN streams = {"path"} /\ rp.file_ptr = "NULL"
                   ELSE streams \subseteq {rp.file_ptr}
    /\ pc = "sending" => streams = IF Leaks THEN {"path"} ELSE {}
    /\ pc \notin {"sending", "closed"} => reclosed = {}
    /\ pc \in {"build_error", "log"} =>
          (rp.file_ptr # "NULL" /\ streams = {} <=> FstatFailed)
    /\ pc = "sending" => (reclosed # {} <=> FstatFailed)
    /\ ~pipe.writer
    /\ pc # "cgi_read" => ~pipe.reader

\* read() is never given a negative size.
RoomInv == buffer.len <= buffer.capacity

PInv == TypeOK /\ PathInv /\ CodeInv /\ StreamInv /\ RoomInv

-----------------------------------------------------------------------------
(* The parser's tests.                                                      *)

\* A set of places in the list of tests that is not empty has a least member.
LEMMA LeastTest ==
    ASSUME NEW S \in SUBSET (1..8), S # {}
    PROVE  Min(S) \in S /\ \A k \in S : Min(S) <= k
<1>1. \E x \in S : \A y \in S : x <= y
  <2>1. ASSUME NEW n \in 1..8, n \in S, \A k \in 1..(n - 1) : k \notin S
        PROVE  \E x \in S : \A y \in S : x <= y
    <3>1. \A y \in S : n <= y BY <2>1
    <3> QED BY <2>1, <3>1
  <2>2. \E n \in 1..8 : n \in S /\ \A k \in 1..(n - 1) : k \notin S
    <3>1. CASE 1 \in S \/ 2 \in S \/ 3 \in S \/ 4 \in S
      BY <3>1
    <3>2. CASE 1 \notin S /\ 2 \notin S /\ 3 \notin S /\ 4 \notin S
      <4>1. 5 \in S \/ 6 \in S \/ 7 \in S \/ 8 \in S
        <5>1. PICK x \in S : TRUE OBVIOUS
        <5>2. x \in {1, 2, 3, 4, 5, 6, 7, 8} OBVIOUS
        <5> QED BY <3>2, <5>2
      <4> QED BY <3>2, <4>1
    <3> QED BY <3>1, <3>2
  <2> QED BY <2>1, <2>2
<1> QED BY <1>1, Zenon DEF Min

\* Each test determines a code of its own.
LEMMA TestCodes ==
    ASSUME NEW l \in Line
    PROVE  /\ DOMAIN Tests(l) = 1..8
           /\ FailedTests(l) \in SUBSET (1..8)
           /\ \A k \in 1..8 : Tests(l)[k][2]
                                \in client_response \ {"RESP_200", "RESP_500"}
<1>1. DOMAIN Tests(l) = 1..8 BY DEF Tests
<1>2. ASSUME NEW k \in 1..8
      PROVE  Tests(l)[k][2] \in client_response \ {"RESP_200", "RESP_500"}
  <2>1. k = 1 \/ k = 2 \/ k = 3 \/ k = 4 \/ k = 5 \/ k = 6 \/ k = 7 \/ k = 8
    OBVIOUS
  <2> QED BY <2>1 DEF Tests, client_response
<1> QED BY <1>1, <1>2 DEF FailedTests

\* The code of a request that fails a test.
LEMMA RefusalCode ==
    ASSUME NEW l \in Line, FailedTests(l) # {}
    PROVE  /\ Min(FailedTests(l)) \in FailedTests(l)
           /\ Tests(l)[Min(FailedTests(l))][2]
                 \in client_response \ {"RESP_200", "RESP_500"}
BY TestCodes, LeastTest

-----------------------------------------------------------------------------
(* Types.                                                                   *)

\* The initial state has its types.
LEMMA InitTypeOK == Init => TypeOK
BY PipelineAssumption
   DEF Init, TypeOK, Stages, http_method, Pointer, Path_type, Client, Response,
       ResolvedPath, Entry, Pipe, Child, Buffer, LogLine, NoResponse, NoPipe,
       NoChild, NoBuffer, NoEntry

\* A builder that fails leaves the types.
LEMMA BuilderFailsType ==
    ASSUME TypeOK, NEW resp \in {"RESP_200", "RESP_500"}, BuilderFails(resp)
    PROVE  c' \in Client /\ pc' \in Stages
BY DEF TypeOK, BuilderFails, Client, client_response, Stages

\* Every step keeps the types.
LEMMA NextTypeOK ==
    ASSUME TypeOK, PathInv, CodeInv, RoomInv, [Next]_vars
    PROVE  TypeOK'
<1> USE PipelineAssumption
<1>0. line \in Line BY DEF TypeOK
<1>1. CASE parse_request
  <2>1. method' \in http_method
    BY <1>0, <1>1 DEF parse_request, ParsedMethod, Line, http_method
  <2>2. c' \in Client
    BY <1>0, <1>1, RefusalCode DEF TypeOK, parse_request, Client
  <2>3. le' \in Nat
    BY <1>0, <1>1 DEF TypeOK, parse_request, log_request, log_append, Line,
         INET6_ADDRSTRLEN, TIME_LEN
  <2> QED BY <1>1, <2>1, <2>2, <2>3
          DEF TypeOK, Stages, parse_request, input, files, cgi
<1>2. CASE PathOpened
  <2>1. rp' \in ResolvedPath
    BY <1>2 DEF TypeOK, PathOpened, ResolvedPath, Pointer, Stream
  <2>2. found' \in Entry
    BY <1>2 DEF TypeOK, PathOpened, Entry
  <2> QED BY <1>2, <2>1, <2>2
          DEF TypeOK, Stages, PathOpened, Stream, input, cgi, log
<1>3. CASE PathNotOpened
  BY <1>3 DEF TypeOK, PathNotOpened, input, cgi, log, Stages, Entry, Client,
      client_response
<1>4. CASE CgiDisabled
  BY <1>4 DEF TypeOK, CgiDisabled, input, files, cgi, log, Stages,
      ResolvedPath, Pointer, Path_type, Client, client_response
<1>5. CASE RegularFile
  BY <1>5 DEF TypeOK, RegularFile, input, files, cgi, log, Stages,
      ResolvedPath, Path_type, Client, Entry
<1>6. CASE Directory
  BY <1>6 DEF TypeOK, Directory, input, files, cgi, log, Stages
<1>7. CASE IndexOpened
  <2>0. PICK n \in 0..MaxSize :
          /\ found' = [kind |-> "file", size |-> n]
          /\ rp' = [rp EXCEPT !.file_ptr = "index", !.path_type = "IS_FILE",
                              !.file_size = n]
          /\ c' = [c EXCEPT !.file_ptr = "index", !.file_size = n]
    BY <1>7 DEF IndexOpened
  <2>n. n \in Nat OBVIOUS
  <2>1. rp' \in ResolvedPath
    BY <2>0, <2>n DEF TypeOK, ResolvedPath, Pointer, Stream, Path_type
  <2>2. c' \in Client
    BY <2>0, <2>n DEF TypeOK, Client, Pointer, Stream
  <2>3. found' \in Entry
    BY <2>0 DEF Entry
  <2> QED BY <1>7, <2>1, <2>2, <2>3
          DEF TypeOK, Stages, IndexOpened, Stream, input, cgi, log
<1>8. CASE NoIndex
  <2>1. rp' \in ResolvedPath
    BY <1>8 DEF TypeOK, NoIndex, ResolvedPath, Pointer, Path_type
  <2> QED BY <1>8, <2>1
          DEF TypeOK, Stages, NoIndex, Fclose, Stream, input, cgi, log
<1>9. CASE FstatFails
  BY <1>9 DEF TypeOK, FstatFails, Fclose, Fault, input, cgi, log, Stages,
      Pointer, Stream, Client, ResolvedPath, client_response
<1>10. CASE IndexFstatFails
  BY <1>10 DEF TypeOK, IndexFstatFails, Fault, input, cgi, log, Stages,
      Pointer, Stream, Client, ResolvedPath, client_response
<1>11. CASE FileChanges
  BY <1>11 DEF TypeOK, FileChanges, Fault, input, cgi, log, Entry
<1>12. CASE BuildOkay
  <2>1. c' \in Client
    BY <1>12 DEF TypeOK, BuildOkay, Client, client_response
  <2>2. pc' \in Stages
    BY <1>12 DEF TypeOK, PathInv, Building, BuildOkay, ResolvedPath, Path_type,
         Stages
  <2> QED BY <1>12, <2>1, <2>2
          DEF TypeOK, BuildOkay, input, files, cgi, log
<1>13. CASE BuildFile
  <2>1. \A n, k \in Nat : Staged("200", n, k) \in Response
    BY DEF Staged, Response, Status
  <2>2. c' \in Client
    BY <1>13, <2>1 DEF TypeOK, BuildFile, Client, ResolvedPath, Entry
  <2> QED BY <1>13, <2>2
          DEF TypeOK, Stages, BuildFile, input, files, cgi, log
<1>14. CASE BuildDir
  <2>1. \A n, k \in Nat : Staged("200", n, k) \in Response
    BY DEF Staged, Response, Status
  <2>2. \A n \in Nat : ListingLength(n) \in Nat /\ ListingBody(n) \in Nat
    BY DEF ListingLength, ListingBody, HTML_STRING_LEN, EMPTY_DIR_LEN
  <2>3. PICK n \in 0..MaxSize :
          c' = [c EXCEPT
                   !.out = Staged("200", ListingLength(n), ListingBody(n)),
                   !.body_len = IF method = "HTTP_HEAD" THEN @
                                                        ELSE ListingBody(n)]
    BY <1>14 DEF BuildDir
  <2>n. n \in Nat OBVIOUS
  <2>4. c' \in Client
    <3> DEFINE out == Staged("200", ListingLength(n), ListingBody(n))
    <3>1. out \in Response /\ ListingBody(n) \in Nat BY <2>1, <2>2, <2>n
    <3>2. c' = [c EXCEPT !.out = out,
                         !.body_len = IF method = "HTTP_HEAD" THEN @
                                      ELSE ListingBody(n)]
      BY <2>3
    <3> HIDE DEF out
    <3> QED BY <3>1, <3>2 DEF TypeOK, Client
  <2> QED BY <1>14, <2>4
          DEF TypeOK, Stages, BuildDir, input, files, cgi, log
<1>15. CASE BuildDirUnnamed
  <2>1. c' \in Client /\ pc' \in Stages
    BY <1>15, BuilderFailsType DEF BuildDirUnnamed
  <2> QED BY <1>15, <2>1 DEF TypeOK, BuildDirUnnamed, input, files, cgi, log
<1>16. CASE build_error_response
  <2>1. \A resp \in DOMAIN error_responses :
           LET row == error_responses[resp]
           IN  row[2] \in Nat /\ Staged(row[1], row[2], row[2]) \in Response
    BY DEF error_responses, Staged, Response, Status
  <2>2. c' \in Client
    BY <1>16, <2>1 DEF TypeOK, build_error_response, Client
  <2> QED BY <1>16, <2>2
          DEF TypeOK, Stages, build_error_response, input, files, cgi, log
<1>17. CASE CgiStart
  BY <1>17 DEF TypeOK, CgiStart, NewChild, input, files, log, Stages, Pipe,
      Child, Buffer
<1>18. CASE CgiRead
  <2>1. ReadCount \in 0..pipe.bytes /\ Capacity \in Nat
    BY <1>18 DEF TypeOK, RoomInv, CgiRead, ReadCount, Capacity, Pipe, Buffer
  <2>2. buffer' \in Buffer /\ pipe' \in Pipe
    BY <1>18, <2>1 DEF TypeOK, CgiRead, Pipe, Buffer
  <2> QED BY <1>18, <2>2 DEF TypeOK, CgiRead, input, files, log
<1>19. CASE CgiEof
  BY <1>19 DEF TypeOK, CgiEof, input, files, log, Stages, Pipe
<1>20. CASE CgiReap
  <2>1. c' \in Client /\ pc' \in Stages
    BY <1>20, BuilderFailsType DEF TypeOK, CgiReap, Stages
  <2>2. child' \in Child BY <1>20 DEF TypeOK, CgiReap, Child
  <2>3. buffer' \in Buffer
    BY <1>20 DEF TypeOK, CgiReap, NoBuffer, Buffer
  <2> QED BY <1>20, <2>1, <2>2, <2>3 DEF TypeOK, CgiReap, input, files, log
<1>21. CASE CgiResponse
  <2>1. c' \in Client
    BY <1>21 DEF TypeOK, CgiResponse, Client, Response, Status, Buffer
  <2> QED BY <1>21, <2>1
          DEF TypeOK, Stages, CgiResponse, input, files, cgi, log
<1>22. CASE BuildFileFails
  <2>1. c' \in Client /\ pc' \in Stages
    BY <1>22, BuilderFailsType DEF BuildFileFails
  <2> QED BY <1>22, <2>1
          DEF TypeOK, BuildFileFails, Fault, input, files, cgi, log
<1>23. CASE BuildDirFails
  <2>1. c' \in Client /\ pc' \in Stages
    BY <1>23, BuilderFailsType DEF BuildDirFails
  <2> QED BY <1>23, <2>1
          DEF TypeOK, BuildDirFails, Fault, input, files, cgi, log
<1>24. CASE ErrorNotBuilt
  BY <1>24 DEF TypeOK, ErrorNotBuilt, Fault, input, files, cgi, log, Stages
<1>25. CASE CgiNotStarted
  <2>1. c' \in Client /\ pc' \in Stages
    BY <1>25, BuilderFailsType DEF CgiNotStarted
  <2> QED BY <1>25, <2>1
          DEF TypeOK, CgiNotStarted, Fault, input, files, cgi, log
<1>26. CASE CgiNoBuffer
  <2>1. c' \in Client /\ pc' \in Stages
    BY <1>26, BuilderFailsType DEF CgiNoBuffer
  <2> QED BY <1>26, <2>1
          DEF TypeOK, CgiNoBuffer, Fault, NewChild, Child, input, files, log
<1>27. CASE CgiReadFails
  <2>1. c' \in Client /\ pc' \in Stages
    BY <1>27, BuilderFailsType DEF CgiReadFails
  <2> QED BY <1>27, <2>1
          DEF TypeOK, CgiReadFails, Fault, NoPipe, Pipe, NoBuffer, Buffer, input,
              files, log
<1>28. CASE CgiWaitFails
  <2>1. c' \in Client /\ pc' \in Stages
    BY <1>28, BuilderFailsType DEF CgiWaitFails
  <2> QED BY <1>28, <2>1
          DEF TypeOK, CgiWaitFails, Fault, NoBuffer, Buffer, input, files, log
<1>29. CASE CgiNoResponse
  <2>1. c' \in Client /\ pc' \in Stages
    BY <1>29, BuilderFailsType DEF CgiNoResponse
  <2> QED BY <1>29, <2>1
          DEF TypeOK, CgiNoResponse, Fault, NoBuffer, Buffer, input, files, log
<1>30. CASE FinishRequest
  <2>1. logged' \in LogLine
    BY <1>30 DEF TypeOK, CodeInv, Late, FinishRequest, log_response, LogLine,
         Status, Client, resp_val_to_status_string, client_response, log
  <2>2. le' \in Nat
    BY <1>30 DEF TypeOK, FinishRequest, log_response, log_append, log, INT_LEN
  <2>3. rp' \in ResolvedPath
    BY <1>30 DEF TypeOK, FinishRequest, ResolvedPath, Pointer
  <2>4. streams' \subseteq Stream /\ reclosed' \subseteq Stream
    BY <1>30 DEF TypeOK, FinishRequest, Fclose, ResolvedPath, Pointer
  <2> QED BY <1>30, <2>1, <2>2, <2>3, <2>4
          DEF TypeOK, Stages, FinishRequest, input, cgi
<1>31. CASE ConnectionCloses
  BY <1>31 DEF TypeOK, ConnectionCloses, Fclose, NoResponse, input, cgi, log,
      Stages, Pointer, Stream, Client, Response
<1>32. CASE ScriptWrites
  BY <1>32 DEF TypeOK, ScriptWrites, server_side, input, files, log, Child,
      Pipe
<1>33. CASE ScriptCloses
  BY <1>33 DEF TypeOK, ScriptCloses, server_side, input, files, log, Child
<1>34. CASE ScriptEnds
  <2>1. child' \in Child BY <1>34 DEF TypeOK, ScriptEnds, Child
  <2> QED BY <1>34, <2>1 DEF TypeOK, ScriptEnds, server_side, input, files, log
<1>35. CASE UNCHANGED vars
  BY <1>35 DEF TypeOK, vars, input
<1> QED BY <1>1, <1>2, <1>3, <1>4, <1>5, <1>6, <1>7, <1>8, <1>9, <1>10, <1>11,
    <1>12, <1>13, <1>14, <1>15, <1>16, <1>17, <1>18, <1>19, <1>20, <1>21,
    <1>22, <1>23, <1>24, <1>25, <1>26, <1>27, <1>28, <1>29, <1>30, <1>31,
    <1>32, <1>33, <1>34, <1>35 DEF Next, ServerStep, ResolveStep,
    ResolveFault, BuildStep, BuildFault, CgiStep, CgiFault, Script, Closed

-----------------------------------------------------------------------------
(* The stages.                                                              *)

\* The initial state satisfies the invariant.
LEMMA InitPInv == Init => PInv
<1> SUFFICES ASSUME Init PROVE PInv OBVIOUS
<1>1. TypeOK BY InitTypeOK
<1>2. PathInv BY DEF Init, PathInv, Early, Opened, Building
<1>3. CodeInv BY DEF Init, CodeInv, Early, Opened, Building, Late
<1>4. StreamInv BY DEF Init, StreamInv, Early, Opened, Building, NoPipe
<1>5. RoomInv BY DEF Init, RoomInv, NoBuffer
<1> QED BY <1>1, <1>2, <1>3, <1>4, <1>5 DEF PInv

\* build_okay_response() turns to the builder for what was found.
LEMMA BuilderChosen ==
    ASSUME TypeOK, PathInv, BuildOkay
    PROVE  /\ pc' \in {"cgi_fork", "build_dir", "build_file"}
           /\ pc' = "cgi_fork" <=> rp.path_type = "IS_CGI"
           /\ pc' = "build_dir" <=> rp.path_type = "IS_DIR"
           /\ pc' = "build_file" <=> rp.path_type = "IS_FILE"
<1>1. rp.path_type \in {"IS_CGI", "IS_DIR", "IS_FILE"}
  BY DEF TypeOK, PathInv, BuildOkay, Building, ResolvedPath, Path_type
<1>2. CASE rp.path_type = "IS_CGI" BY <1>2 DEF BuildOkay
<1>3. CASE rp.path_type = "IS_DIR" BY <1>3 DEF BuildOkay
<1>4. CASE rp.path_type = "IS_FILE" BY <1>4 DEF BuildOkay
<1> QED BY <1>1, <1>2, <1>3, <1>4

\* A request is refused by the parser or goes on to be resolved.
LEMMA ParserDecides ==
    ASSUME parse_request
    PROVE  /\ pc = "parse_request" /\ pc' \in {"fopen", "build_error"}
           /\ UNCHANGED <<rp, streams, found, pipe, buffer>>
BY DEF parse_request, files, cgi

\* What the path led to.
LEMMA NextPathInv ==
    ASSUME TypeOK, PathInv, StreamInv, [Next]_vars
    PROVE  PathInv'
<1>1. CASE parse_request
  BY <1>1 DEF TypeOK, PathInv, Early, Opened, Building, parse_request,
      log_request, log_append, LoggingOn, input, files, cgi, CgiRefused,
      Client
<1>2. CASE PathOpened
  BY <1>2 DEF TypeOK, PathInv, Early, Opened, Building, PathOpened, input,
      cgi, log, ResolvedPath, CgiRefused
<1>3. CASE PathNotOpened
  BY <1>3 DEF TypeOK, PathInv, Early, Opened, Building, PathNotOpened, input,
      cgi, log, Client, CgiRefused
<1>4. CASE CgiDisabled
  BY <1>4 DEF TypeOK, PathInv, Early, Opened, Building, CgiDisabled, input,
      files, cgi, log, Client, ResolvedPath, CgiRefused
<1>5. CASE RegularFile
  BY <1>5 DEF TypeOK, PathInv, Early, Opened, Building, RegularFile, input,
      files, cgi, log, StreamInv, Client, ResolvedPath, CgiRefused
<1>6. CASE Directory
  BY <1>6 DEF TypeOK, PathInv, Early, Opened, Building, Directory, input,
      files, cgi, log, CgiRefused, Client
<1>7. CASE IndexOpened
  BY <1>7 DEF TypeOK, PathInv, Early, Opened, Building, IndexOpened, input,
      cgi, log, Client, ResolvedPath, CgiRefused
<1>8. CASE NoIndex
  BY <1>8 DEF TypeOK, PathInv, Early, Opened, Building, NoIndex, Fclose,
      input, cgi, log, ResolvedPath, CgiRefused
<1>9. CASE FstatFails
  BY <1>9 DEF TypeOK, PathInv, Early, Opened, Building, FstatFails, Fclose,
      Fault, input, cgi, log, CgiRefused, Client
<1>10. CASE IndexFstatFails
  BY <1>10 DEF TypeOK, PathInv, Early, Opened, Building, IndexFstatFails,
      Fault, input, cgi, log, Client, ResolvedPath, CgiRefused
<1>11. CASE FileChanges
  BY <1>11 DEF TypeOK, PathInv, Early, Opened, Building, FileChanges, Fault,
      input, cgi, log, Entry, CgiRefused
<1>12. CASE BuildOkay
  BY <1>12, BuilderChosen DEF TypeOK, PathInv, Early, Opened, Building,
      BuildOkay, input, files, cgi, log, CgiRefused, Client
<1>13. CASE BuildFile
  BY <1>13 DEF TypeOK, PathInv, Early, Opened, Building, BuildFile, Staged,
      input, files, cgi, log, CgiRefused, Client
<1>14. CASE BuildDir
  BY <1>14 DEF TypeOK, PathInv, Early, Opened, Building, BuildDir, Staged,
      ListingLength, ListingBody, HTML_STRING_LEN, EMPTY_DIR_LEN, input,
      files, cgi, log, CgiRefused, Client
<1>15. CASE BuildDirUnnamed
  BY <1>15 DEF TypeOK, PathInv, Early, Opened, Building, BuildDirUnnamed,
      BuilderFails, input, files, cgi, log, CgiRefused, Client
<1>16. CASE build_error_response
  BY <1>16 DEF TypeOK, PathInv, Early, Opened, Building, build_error_response,
      error_responses, Staged, input, files, cgi, log, CgiRefused, Client
<1>17. CASE CgiStart
  BY <1>17 DEF TypeOK, PathInv, Early, Opened, Building, CgiStart, NewChild,
      input, files, log, CgiRefused, Client
<1>18. CASE CgiRead
  BY <1>18 DEF TypeOK, PathInv, Early, Opened, Building, CgiRead, ReadCount,
      Capacity, input, files, log, CgiRefused, Client
<1>19. CASE CgiEof
  BY <1>19 DEF TypeOK, PathInv, Early, Opened, Building, CgiEof, input, files,
      log, CgiRefused, Client
<1>20. CASE CgiReap
  BY <1>20 DEF TypeOK, PathInv, Early, Opened, Building, CgiReap,
      BuilderFails, input, files, log, CgiRefused, Client
<1>21. CASE CgiResponse
  BY <1>21 DEF TypeOK, PathInv, Early, Opened, Building, CgiResponse, input,
      files, cgi, log, CgiRefused, Client
<1>22. CASE BuildFileFails
  BY <1>22 DEF TypeOK, PathInv, Early, Opened, Building, BuildFileFails,
      BuilderFails, Fault, input, files, cgi, log, CgiRefused, Client
<1>23. CASE BuildDirFails
  BY <1>23 DEF TypeOK, PathInv, Early, Opened, Building, BuildDirFails,
      BuilderFails, Fault, input, files, cgi, log, CgiRefused, Client
<1>24. CASE ErrorNotBuilt
  BY <1>24 DEF TypeOK, PathInv, Early, Opened, Building, ErrorNotBuilt, Fault,
      input, files, cgi, log, CgiRefused, Client
<1>25. CASE CgiNotStarted
  BY <1>25 DEF TypeOK, PathInv, Early, Opened, Building, CgiNotStarted,
      BuilderFails, Fault, input, files, cgi, log, CgiRefused, Client
<1>26. CASE CgiNoBuffer
  BY <1>26 DEF TypeOK, PathInv, Early, Opened, Building, CgiNoBuffer,
      NewChild, BuilderFails, Fault, input, files, log, CgiRefused, Client
<1>27. CASE CgiReadFails
  BY <1>27 DEF TypeOK, PathInv, Early, Opened, Building, CgiReadFails, NoPipe,
      BuilderFails, Fault, input, files, log, CgiRefused, Client
<1>28. CASE CgiWaitFails
  BY <1>28 DEF TypeOK, PathInv, Early, Opened, Building, CgiWaitFails,
      BuilderFails, Fault, input, files, cgi, log, CgiRefused, Client
<1>29. CASE CgiNoResponse
  BY <1>29 DEF TypeOK, PathInv, Early, Opened, Building, CgiNoResponse,
      BuilderFails, Fault, input, files, cgi, log, CgiRefused, Client
<1>30. CASE FinishRequest
  BY <1>30 DEF TypeOK, PathInv, Early, Opened, Building, FinishRequest,
      log_response, log_append, LoggingOn, Fclose, input, cgi, log,
      ResolvedPath, CgiRefused
<1>31. CASE ConnectionCloses
  BY <1>31 DEF TypeOK, PathInv, Early, Opened, Building, ConnectionCloses,
      Fclose, NoResponse, input, cgi, log, CgiRefused, Client
<1>32. CASE ScriptWrites
  BY <1>32 DEF TypeOK, PathInv, Early, Opened, Building, ScriptWrites,
      server_side, input, files, log, CgiRefused, Client
<1>33. CASE ScriptCloses
  BY <1>33 DEF TypeOK, PathInv, Early, Opened, Building, ScriptCloses,
      server_side, input, files, log, CgiRefused, Client
<1>34. CASE ScriptEnds
  BY <1>34 DEF TypeOK, PathInv, Early, Opened, Building, ScriptEnds,
      server_side, input, files, log, CgiRefused, Client
<1>35. CASE UNCHANGED vars
  BY <1>35 DEF TypeOK, PathInv, Early, Opened, Building, vars, CgiRefused,
      input, files
<1> QED BY <1>1, <1>2, <1>3, <1>4, <1>5, <1>6, <1>7, <1>8, <1>9, <1>10, <1>11,
    <1>12, <1>13, <1>14, <1>15, <1>16, <1>17, <1>18, <1>19, <1>20, <1>21,
    <1>22, <1>23, <1>24, <1>25, <1>26, <1>27, <1>28, <1>29, <1>30, <1>31,
    <1>32, <1>33, <1>34, <1>35 DEF Next, ServerStep, ResolveStep,
    ResolveFault, BuildStep, BuildFault, CgiStep, CgiFault, Script, Closed

\* The code of the answer.
LEMMA NextCodeInv ==
    ASSUME TypeOK, PathInv, CodeInv, [Next]_vars
    PROVE  CodeInv'
<1>0. line \in Line BY PipelineAssumption DEF TypeOK
<1>1. CASE parse_request
  BY <1>1, <1>0, RefusalCode DEF TypeOK, CodeInv, Early, Opened, Building,
      Late, parse_request, log_request, log_append, LoggingOn, input, files,
      cgi, PathInv, Client
<1>2. CASE PathOpened
  BY <1>2 DEF TypeOK, CodeInv, Early, Opened, Building, Late, PathOpened,
      input, cgi, log, ResolvedPath
<1>3. CASE PathNotOpened
  BY <1>3 DEF TypeOK, CodeInv, Early, Opened, Building, Late, PathNotOpened,
      input, cgi, log, PathInv, Client, client_response, Response, NoResponse
<1>4. CASE CgiDisabled
  BY <1>4 DEF TypeOK, CodeInv, Early, Opened, Building, Late, CgiDisabled,
      input, files, cgi, log, PathInv, Client, client_response, Response,
      NoResponse
<1>5. CASE RegularFile
  BY <1>5 DEF TypeOK, CodeInv, Early, Opened, Building, Late, RegularFile,
      input, files, cgi, log, PathInv, Client, client_response, Response,
      NoResponse
<1>6. CASE Directory
  BY <1>6 DEF TypeOK, CodeInv, Early, Opened, Building, Late, Directory,
      input, files, cgi, log
<1>7. CASE IndexOpened
  BY <1>7 DEF TypeOK, CodeInv, Early, Opened, Building, Late, IndexOpened,
      input, cgi, log, PathInv, Client, client_response, Response, NoResponse
<1>8. CASE NoIndex
  BY <1>8 DEF TypeOK, CodeInv, Early, Opened, Building, Late, NoIndex, Fclose,
      input, cgi, log, ResolvedPath
<1>9. CASE FstatFails
  BY <1>9 DEF TypeOK, CodeInv, Early, Opened, Building, Late, FstatFails,
      Fclose, Fault, input, cgi, log, PathInv, Client, client_response,
      Response, NoResponse
<1>10. CASE IndexFstatFails
  BY <1>10 DEF TypeOK, CodeInv, Early, Opened, Building, Late,
      IndexFstatFails, Fault, input, cgi, log, PathInv, Client,
      client_response, Response, NoResponse
<1>11. CASE FileChanges
  BY <1>11 DEF TypeOK, CodeInv, Early, Opened, Building, Late, FileChanges,
      Fault, input, cgi, log
<1>12. CASE BuildOkay
  BY <1>12, BuilderChosen DEF TypeOK, CodeInv, Early, Opened, Building, Late,
      BuildOkay, input, files, cgi, log, PathInv, Client
<1>13. CASE BuildFile
  BY <1>13 DEF TypeOK, CodeInv, Early, Opened, Building, Late, BuildFile,
      Staged, input, files, cgi, log, PathInv, Client, client_response,
      Response, NoResponse
<1>14. CASE BuildDir
  BY <1>14 DEF TypeOK, CodeInv, Early, Opened, Building, Late, BuildDir,
      Staged, ListingLength, ListingBody, HTML_STRING_LEN, EMPTY_DIR_LEN,
      input, files, cgi, log, PathInv, Client, client_response, Response,
      NoResponse
<1>15. CASE BuildDirUnnamed
  BY <1>15 DEF TypeOK, CodeInv, Early, Opened, Building, Late,
      BuildDirUnnamed, BuilderFails, input, files, cgi, log, PathInv, Client,
      client_response, Response, NoResponse
<1>16. CASE build_error_response
  BY <1>16 DEF TypeOK, CodeInv, Early, Opened, Building, Late,
      build_error_response, error_responses, Staged, input, files, cgi, log,
      PathInv, Client, client_response, Response, NoResponse
<1>17. CASE CgiStart
  BY <1>17 DEF TypeOK, CodeInv, Early, Opened, Building, Late, CgiStart,
      NewChild, input, files, log
<1>18. CASE CgiRead
  BY <1>18 DEF TypeOK, CodeInv, Early, Opened, Building, Late, CgiRead,
      ReadCount, Capacity, input, files, log
<1>19. CASE CgiEof
  BY <1>19 DEF TypeOK, CodeInv, Early, Opened, Building, Late, CgiEof, input,
      files, log
<1>20. CASE CgiReap
  BY <1>20 DEF TypeOK, CodeInv, Early, Opened, Building, Late, CgiReap,
      BuilderFails, input, files, log, PathInv, Client, client_response,
      Response, NoResponse
<1>21. CASE CgiResponse
  BY <1>21 DEF TypeOK, CodeInv, Early, Opened, Building, Late, CgiResponse,
      input, files, cgi, log, PathInv, Client, client_response, Response,
      NoResponse
<1>22. CASE BuildFileFails
  BY <1>22 DEF TypeOK, CodeInv, Early, Opened, Building, Late, BuildFileFails,
      BuilderFails, Fault, input, files, cgi, log, PathInv, Client,
      client_response, Response, NoResponse
<1>23. CASE BuildDirFails
  BY <1>23 DEF TypeOK, CodeInv, Early, Opened, Building, Late, BuildDirFails,
      BuilderFails, Fault, input, files, cgi, log, PathInv, Client,
      client_response, Response, NoResponse
<1>24. CASE ErrorNotBuilt
  BY <1>24 DEF TypeOK, CodeInv, Early, Opened, Building, Late, ErrorNotBuilt,
      Fault, input, files, cgi, log, PathInv, Client, client_response,
      Response, NoResponse
<1>25. CASE CgiNotStarted
  BY <1>25 DEF TypeOK, CodeInv, Early, Opened, Building, Late, CgiNotStarted,
      BuilderFails, Fault, input, files, cgi, log, PathInv, Client,
      client_response, Response, NoResponse
<1>26. CASE CgiNoBuffer
  BY <1>26 DEF TypeOK, CodeInv, Early, Opened, Building, Late, CgiNoBuffer,
      NewChild, BuilderFails, Fault, input, files, log, PathInv, Client,
      client_response, Response, NoResponse
<1>27. CASE CgiReadFails
  BY <1>27 DEF TypeOK, CodeInv, Early, Opened, Building, Late, CgiReadFails,
      NoPipe, BuilderFails, Fault, input, files, log, PathInv, Client,
      client_response, Response, NoResponse
<1>28. CASE CgiWaitFails
  BY <1>28 DEF TypeOK, CodeInv, Early, Opened, Building, Late, CgiWaitFails,
      BuilderFails, Fault, input, files, cgi, log, PathInv, Client,
      client_response, Response, NoResponse
<1>29. CASE CgiNoResponse
  BY <1>29 DEF TypeOK, CodeInv, Early, Opened, Building, Late, CgiNoResponse,
      BuilderFails, Fault, input, files, cgi, log, PathInv, Client,
      client_response, Response, NoResponse
<1>30. CASE FinishRequest
  BY <1>30 DEF TypeOK, CodeInv, Early, Opened, Building, Late, FinishRequest,
      log_response, log_append, LoggingOn, Fclose, input, cgi, log,
      ResolvedPath
<1>31. CASE ConnectionCloses
  BY <1>31 DEF TypeOK, CodeInv, Early, Opened, Building, Late,
      ConnectionCloses, Fclose, NoResponse, input, cgi, log, PathInv, Client,
      client_response, Response, NoResponse
<1>32. CASE ScriptWrites
  BY <1>32 DEF TypeOK, CodeInv, Early, Opened, Building, Late, ScriptWrites,
      server_side, input, files, log
<1>33. CASE ScriptCloses
  BY <1>33 DEF TypeOK, CodeInv, Early, Opened, Building, Late, ScriptCloses,
      server_side, input, files, log
<1>34. CASE ScriptEnds
  BY <1>34 DEF TypeOK, CodeInv, Early, Opened, Building, Late, ScriptEnds,
      server_side, input, files, log
<1>35. CASE UNCHANGED vars
  BY <1>35 DEF TypeOK, CodeInv, Early, Opened, Building, Late, vars
<1> QED BY <1>1, <1>2, <1>3, <1>4, <1>5, <1>6, <1>7, <1>8, <1>9, <1>10, <1>11,
    <1>12, <1>13, <1>14, <1>15, <1>16, <1>17, <1>18, <1>19, <1>20, <1>21,
    <1>22, <1>23, <1>24, <1>25, <1>26, <1>27, <1>28, <1>29, <1>30, <1>31,
    <1>32, <1>33, <1>34, <1>35 DEF Next, ServerStep, ResolveStep,
    ResolveFault, BuildStep, BuildFault, CgiStep, CgiFault, Script, Closed

\* The streams and the pipe.
LEMMA NextStreamInv ==
    ASSUME TypeOK, PathInv, CodeInv, StreamInv, [Next]_vars
    PROVE  StreamInv'
<1>1. CASE parse_request
  <2>1. UNCHANGED reclosed BY <1>1 DEF parse_request, files
  <2>2. pc' = "build_error" => c'.resp_val # "RESP_500"
    <3>1. line \in Line BY PipelineAssumption DEF TypeOK
    <3> QED BY <1>1, <3>1, RefusalCode DEF parse_request, TypeOK, Client
  <2> QED BY <1>1, <2>1, <2>2, ParserDecides
          DEF StreamInv, PathInv, Leaks, FstatFailed, Early, Opened, Building
<1>2. CASE PathOpened
  BY <1>2 DEF TypeOK, StreamInv, Leaks, FstatFailed, CgiRefused, Early, Opened, Building,
      PathOpened, input, cgi, log, PathInv, CodeInv, Late, Client,
      ResolvedPath
<1>3. CASE PathNotOpened
  BY <1>3 DEF TypeOK, StreamInv, Leaks, FstatFailed, CgiRefused, Early, Opened, Building,
      PathNotOpened, input, cgi, log, PathInv, CodeInv, Late, Client,
      ResolvedPath
<1>4. CASE CgiDisabled
  BY <1>4 DEF TypeOK, StreamInv, Leaks, FstatFailed, CgiRefused, Early, Opened, Building,
      CgiDisabled, input, files, cgi, log, PathInv, CodeInv, Late, Client,
      ResolvedPath
<1>5. CASE RegularFile
  BY <1>5 DEF TypeOK, StreamInv, Leaks, FstatFailed, CgiRefused, Early, Opened, Building,
      RegularFile, input, files, cgi, log, PathInv, CodeInv, Late, Client,
      ResolvedPath
<1>6. CASE Directory
  BY <1>6 DEF TypeOK, StreamInv, Leaks, FstatFailed, CgiRefused, Early, Opened, Building,
      Directory, input, files, cgi, log, PathInv, CodeInv, Late, Client,
      ResolvedPath
<1>7. CASE IndexOpened
  BY <1>7 DEF TypeOK, StreamInv, Leaks, FstatFailed, CgiRefused, Early, Opened, Building,
      IndexOpened, input, cgi, log, PathInv, CodeInv, Late, Client,
      ResolvedPath
<1>8. CASE NoIndex
  BY <1>8 DEF TypeOK, StreamInv, Leaks, FstatFailed, CgiRefused, Early, Opened, Building,
      NoIndex, Fclose, input, cgi, log, PathInv, CodeInv, Late, Client,
      ResolvedPath
<1>9. CASE FstatFails
  BY <1>9 DEF TypeOK, StreamInv, Leaks, FstatFailed, CgiRefused, Early, Opened, Building,
      FstatFails, Fclose, Fault, input, cgi, log, PathInv, CodeInv, Late,
      Client, ResolvedPath
<1>10. CASE IndexFstatFails
  BY <1>10 DEF TypeOK, StreamInv, Leaks, FstatFailed, CgiRefused, Early, Opened, Building,
      IndexFstatFails, Fault, input, cgi, log, PathInv, CodeInv, Late, Client,
      ResolvedPath
<1>11. CASE FileChanges
  BY <1>11 DEF TypeOK, StreamInv, Leaks, FstatFailed, CgiRefused, Early, Opened, Building,
      FileChanges, Fault, input, cgi, log, Entry
<1>12. CASE BuildOkay
  BY <1>12, BuilderChosen DEF TypeOK, StreamInv, Leaks, FstatFailed, CgiRefused, Early,
      Opened, Building, BuildOkay, input, files, cgi, log, PathInv, CodeInv,
      Client
<1>13. CASE BuildFile
  BY <1>13 DEF TypeOK, StreamInv, Leaks, FstatFailed, CgiRefused, Early, Opened, Building,
      BuildFile, Staged, input, files, cgi, log, PathInv, CodeInv, Late,
      Client, ResolvedPath
<1>14. CASE BuildDir
  BY <1>14 DEF TypeOK, StreamInv, Leaks, FstatFailed, CgiRefused, Early, Opened, Building,
      BuildDir, Staged, ListingLength, ListingBody, HTML_STRING_LEN,
      EMPTY_DIR_LEN, input, files, cgi, log, PathInv, CodeInv, Late, Client,
      ResolvedPath
<1>15. CASE BuildDirUnnamed
  BY <1>15 DEF TypeOK, StreamInv, Leaks, FstatFailed, CgiRefused, Early, Opened, Building,
      BuildDirUnnamed, BuilderFails, input, files, cgi, log, PathInv, CodeInv,
      Late, Client, ResolvedPath
<1>16. CASE build_error_response
  BY <1>16 DEF TypeOK, StreamInv, Leaks, FstatFailed, CgiRefused, Early, Opened, Building,
      build_error_response, error_responses, Staged, input, files, cgi, log,
      PathInv, CodeInv, Late, Client, ResolvedPath
<1>17. CASE CgiStart
  BY <1>17 DEF TypeOK, StreamInv, Leaks, FstatFailed, CgiRefused, Early, Opened, Building,
      CgiStart, NewChild, input, files, log, PathInv, CodeInv, Late, Client,
      ResolvedPath, Pipe
<1>18. CASE CgiRead
  BY <1>18 DEF TypeOK, StreamInv, Leaks, FstatFailed, CgiRefused, Early, Opened, Building,
      CgiRead, ReadCount, Capacity, input, files, log, PathInv, CodeInv, Late,
      Client, ResolvedPath, Pipe
<1>19. CASE CgiEof
  BY <1>19 DEF TypeOK, StreamInv, Leaks, FstatFailed, CgiRefused, Early, Opened, Building,
      CgiEof, input, files, log, PathInv, CodeInv, Late, Client, ResolvedPath,
      Pipe
<1>20. CASE CgiReap
  BY <1>20 DEF TypeOK, StreamInv, Leaks, FstatFailed, CgiRefused, Early, Opened, Building,
      CgiReap, BuilderFails, input, files, log, PathInv, CodeInv, Late,
      Client, ResolvedPath, Pipe
<1>21. CASE CgiResponse
  BY <1>21 DEF TypeOK, StreamInv, Leaks, FstatFailed, CgiRefused, Early, Opened, Building,
      CgiResponse, input, files, cgi, log, PathInv, CodeInv, Late, Client,
      ResolvedPath, Pipe
<1>22. CASE BuildFileFails
  BY <1>22 DEF TypeOK, StreamInv, Leaks, FstatFailed, CgiRefused, Early, Opened, Building,
      BuildFileFails, BuilderFails, Fault, input, files, cgi, log, PathInv,
      CodeInv, Late, Client, ResolvedPath
<1>23. CASE BuildDirFails
  BY <1>23 DEF TypeOK, StreamInv, Leaks, FstatFailed, CgiRefused, Early, Opened, Building,
      BuildDirFails, BuilderFails, Fault, input, files, cgi, log, PathInv,
      CodeInv, Late, Client, ResolvedPath
<1>24. CASE ErrorNotBuilt
  BY <1>24 DEF TypeOK, StreamInv, Leaks, FstatFailed, CgiRefused, Early, Opened, Building,
      ErrorNotBuilt, Fault, input, files, cgi, log, PathInv, CodeInv, Late,
      Client, ResolvedPath
<1>25. CASE CgiNotStarted
  BY <1>25 DEF TypeOK, StreamInv, Leaks, FstatFailed, CgiRefused, Early, Opened, Building,
      CgiNotStarted, BuilderFails, Fault, input, files, cgi, log, PathInv,
      CodeInv, Late, Client, ResolvedPath, Pipe
<1>26. CASE CgiNoBuffer
  BY <1>26 DEF TypeOK, StreamInv, Leaks, FstatFailed, CgiRefused, Early, Opened, Building,
      CgiNoBuffer, NewChild, BuilderFails, Fault, input, files, log, PathInv,
      CodeInv, Late, Client, ResolvedPath, Pipe
<1>27. CASE CgiReadFails
  BY <1>27 DEF TypeOK, StreamInv, Leaks, FstatFailed, CgiRefused, Early, Opened, Building,
      CgiReadFails, NoPipe, BuilderFails, Fault, input, files, log, PathInv,
      CodeInv, Late, Client, ResolvedPath, Pipe
<1>28. CASE CgiWaitFails
  BY <1>28 DEF TypeOK, StreamInv, Leaks, FstatFailed, CgiRefused, Early, Opened, Building,
      CgiWaitFails, BuilderFails, Fault, input, files, cgi, log, PathInv,
      CodeInv, Late, Client, ResolvedPath, Pipe
<1>29. CASE CgiNoResponse
  BY <1>29 DEF TypeOK, StreamInv, Leaks, FstatFailed, CgiRefused, Early, Opened, Building,
      CgiNoResponse, BuilderFails, Fault, input, files, cgi, log, PathInv,
      CodeInv, Late, Client, ResolvedPath, Pipe
<1>30. CASE FinishRequest
  BY <1>30 DEF TypeOK, StreamInv, Leaks, FstatFailed, CgiRefused, Early, Opened, Building,
      FinishRequest, log_response, log_append, LoggingOn, Fclose, input, cgi,
      log, PathInv, CodeInv, Late, Client, ResolvedPath
<1>31. CASE ConnectionCloses
  BY <1>31 DEF TypeOK, StreamInv, Leaks, FstatFailed, CgiRefused, Early, Opened, Building,
      ConnectionCloses, Fclose, NoResponse, input, cgi, log, PathInv, CodeInv,
      Late, Client, ResolvedPath
<1>32. CASE ScriptWrites
  BY <1>32 DEF TypeOK, StreamInv, Leaks, FstatFailed, CgiRefused, Early, Opened, Building,
      ScriptWrites, server_side, input, files, log, Pipe
<1>33. CASE ScriptCloses
  BY <1>33 DEF TypeOK, StreamInv, Leaks, FstatFailed, CgiRefused, Early, Opened, Building,
      ScriptCloses, server_side, input, files, log
<1>34. CASE ScriptEnds
  BY <1>34 DEF TypeOK, StreamInv, Leaks, FstatFailed, CgiRefused, Early, Opened, Building,
      ScriptEnds, server_side, input, files, log
<1>35. CASE UNCHANGED vars
  BY <1>35 DEF TypeOK, StreamInv, Leaks, FstatFailed, CgiRefused, Early, Opened, Building,
      vars, input, files, cgi
<1> QED BY <1>1, <1>2, <1>3, <1>4, <1>5, <1>6, <1>7, <1>8, <1>9, <1>10, <1>11,
    <1>12, <1>13, <1>14, <1>15, <1>16, <1>17, <1>18, <1>19, <1>20, <1>21,
    <1>22, <1>23, <1>24, <1>25, <1>26, <1>27, <1>28, <1>29, <1>30, <1>31,
    <1>32, <1>33, <1>34, <1>35 DEF Next, ServerStep, ResolveStep,
    ResolveFault, BuildStep, BuildFault, CgiStep, CgiFault, Script, Closed

\* The room in the buffer for the script's output.
LEMMA NextRoomInv ==
    ASSUME TypeOK, RoomInv, [Next]_vars
    PROVE  RoomInv'
<1>1. CASE CgiRead
  BY <1>1 DEF TypeOK, RoomInv, CgiRead, ReadCount, Capacity, Pipe, Buffer
<1>2. CASE CgiStart
  BY <1>2, PipelineAssumption DEF RoomInv, CgiStart
<1>3. CASE buffer' = buffer
  BY <1>3 DEF RoomInv
<1>4. CASE buffer' = NoBuffer
  BY <1>4 DEF RoomInv, NoBuffer
<1>5. CgiRead \/ CgiStart \/ buffer' = buffer \/ buffer' = NoBuffer
  BY DEF Next, ServerStep, ResolveStep, ResolveFault, BuildStep, BuildFault,
       CgiStep, CgiFault, Script, Closed, vars, cgi, server_side,
       parse_request, PathOpened, PathNotOpened, CgiDisabled, RegularFile,
       Directory, IndexOpened, NoIndex, FstatFails, IndexFstatFails,
       FileChanges, BuildOkay, BuildFile, BuildDir, BuildDirUnnamed,
       build_error_response, CgiEof, CgiReap, CgiResponse, BuildFileFails,
       BuildDirFails, ErrorNotBuilt, CgiNotStarted, CgiNoBuffer, CgiReadFails,
       CgiWaitFails, CgiNoResponse, FinishRequest, ConnectionCloses,
       ScriptWrites, ScriptCloses, ScriptEnds
<1> QED BY <1>1, <1>2, <1>3, <1>4, <1>5

\* The invariant is inductive.
LEMMA NextPInv == PInv /\ [Next]_vars => PInv'
BY NextTypeOK, NextPathInv, NextCodeInv, NextStreamInv, NextRoomInv DEF PInv

\* Every variable of the pipeline keeps its type, for every set of request
\* lines, every length and any number of failing calls.
THEOREM PipelineTypeCorrect == Spec => []TypeOK
<1>1. PInv => TypeOK BY DEF PInv
<1> QED BY <1>1, InitPInv, NextPInv, PTL DEF Spec

\* Nothing is staged before a builder has succeeded: no failing builder leaves
\* an out_buf behind.
THEOREM PipelineStagedOnce == Spec => []StagedOnce
<1>1. PInv => StagedOnce BY DEF PInv, CodeInv, StagedOnce, Late
<1> QED BY <1>1, InitPInv, NextPInv, PTL DEF Spec

=============================================================================
