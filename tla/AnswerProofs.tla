---------------------------- MODULE AnswerProofs ----------------------------
(***************************************************************************)
(* Theorems about what RequestPipeline answers: the log line, the script   *)
(* and its output, the response, its status and the contract with the event*)
(* loop.  Each rests on an invariant of its own beside PInv.               *)
(***************************************************************************)
EXTENDS PipelineProofs

\* Which builder runs for what was found.
BuilderInv ==
    /\ pc = "build_file" => rp.path_type = "IS_FILE"
    /\ pc = "build_dir" => rp.path_type = "IS_DIR"
    /\ pc \in {"cgi_fork", "cgi_read", "cgi_wait", "cgi_response"} =>
          rp.path_type = "IS_CGI"

\* The longest log line so far.
LogInv ==
    /\ pc = "parse_request" => le = 0
    /\ pc \notin {"sending", "closed"} => le <= MAX_REQUEST_SIZE + 66
    /\ le <= MAX_REQUEST_SIZE + 82

\* A script that nobody waits for, without a failing call.
ChildInv ==
    faults = 0 => \/ pc \in {"cgi_read", "cgi_wait"}
                  \/ child.state \in {"none", "reaped"}

\* The bytes of the script's output are in the buffer or in the pipe.
OutputInv ==
    /\ pc = "cgi_read" => buffer.len + pipe.bytes = child.wrote
    /\ pc \in {"cgi_wait", "cgi_response"} => buffer.len = child.wrote
    /\ pc = "cgi_response" => child.state = "reaped" /\ child.ok
    /\ pc \in Late /\ rp.path_type = "IS_CGI" /\ c.resp_val = "RESP_200" =>
          /\ child.state = "reaped" /\ child.ok /\ buffer.len = child.wrote
          /\ pc # "closed" => c.out.body = child.wrote

\* The stages between the allocation of the buffer and its end.
Collecting == {"cgi_read", "cgi_wait", "cgi_response"}

\* The buffer is allocated while a script is read, and stays allocated exactly
\* behind a script that is answered with 200.
HeldInv ==
    /\ pc \in Collecting => buffer.capacity > 0
    /\ pc \in Late => (buffer # NoBuffer <=> ScriptServed)
    /\ pc \notin Late \cup Collecting => buffer = NoBuffer

\* What is staged has the lengths of what was found.
SizeInv ==
    /\ pc \in {"build_okay", "build_file"} /\ rp.path_type = "IS_FILE" =>
          c.file_size = rp.file_size
    /\ pc \in {"log", "sending"} =>
          /\ c.out = NoResponse => faults > 0
          /\ c.out # NoResponse =>
                /\ c.out.status = resp_val_to_status_string(c.resp_val)
                /\ c.out.body =
                      IF method = "HTTP_HEAD" /\ ~ScriptServed THEN 0
                      ELSE IF FileChanged THEN found.size
                      ELSE c.out.content_length
          /\ \/ c.body_len = c.out.body
             \/ method = "HTTP_HEAD" /\ c.body_len = c.out.content_length
    /\ pc = "sending" /\ LoggingOn =>
          /\ logged.status = resp_val_to_status_string(c.resp_val)
          /\ logged.bytes = c.body_len

\* The request has passed the parser's tests, or there is a reason for its code.
ReasonInv ==
    /\ pc \in {"fopen"} \cup Opened \cup Building => FailedTests(line) = {}
    /\ pc \in Opened \cup Building =>
          rp.exact \/ line.path_len = PATH_MAX - 1
    /\ pc = "build_error" => Reasons[c.resp_val]
    /\ pc \in Late =>
          IF c.resp_val = "RESP_200"
          THEN /\ FailedTests(line) = {} /\ ~CgiRefused
               /\ found.kind \in {"file", "dir"}
               /\ rp.exact \/ line.path_len = PATH_MAX - 1
          ELSE Reasons[c.resp_val]

AInv ==
    /\ PInv /\ BuilderInv /\ LogInv /\ ChildInv /\ OutputInv /\ HeldInv
    /\ SizeInv /\ ReasonInv

-----------------------------------------------------------------------------
(* The builders and the log line.                                           *)

\* The builder that runs.
LEMMA NextBuilderInv ==
    ASSUME PInv, BuilderInv, [Next]_vars
    PROVE  BuilderInv'
<1> USE DEF PInv
<1>1. CASE parse_request
  BY <1>1 DEF BuilderInv, parse_request, log_request, log_append, LoggingOn,
      input, files, cgi
<1>2. CASE PathOpened
  BY <1>2 DEF BuilderInv, PathOpened, input, cgi, log, TypeOK, ResolvedPath
<1>3. CASE PathNotOpened
  BY <1>3 DEF BuilderInv, PathNotOpened, input, cgi, log
<1>4. CASE CgiDisabled
  BY <1>4 DEF BuilderInv, CgiDisabled, input, files, cgi, log, TypeOK,
      ResolvedPath
<1>5. CASE RegularFile
  BY <1>5 DEF BuilderInv, RegularFile, input, files, cgi, log, TypeOK,
      ResolvedPath
<1>6. CASE Directory
  BY <1>6 DEF BuilderInv, Directory, input, files, cgi, log
<1>7. CASE IndexOpened
  BY <1>7 DEF BuilderInv, IndexOpened, input, cgi, log, TypeOK, ResolvedPath
<1>8. CASE NoIndex
  BY <1>8 DEF BuilderInv, NoIndex, Fclose, input, cgi, log, TypeOK,
      ResolvedPath
<1>9. CASE FstatFails
  BY <1>9 DEF BuilderInv, FstatFails, Fclose, Fault, input, cgi, log
<1>10. CASE IndexFstatFails
  BY <1>10 DEF BuilderInv, IndexFstatFails, Fault, input, cgi, log, TypeOK,
      ResolvedPath
<1>11. CASE FileChanges
  BY <1>11 DEF BuilderInv, FileChanges, Fault, input, cgi, log
<1>12. CASE BuildOkay
  BY <1>12, BuilderChosen DEF BuilderInv, BuildOkay, input, files, cgi, log
<1>13. CASE BuildFile
  BY <1>13 DEF BuilderInv, BuildFile, Staged, input, files, cgi, log
<1>14. CASE BuildDir
  BY <1>14 DEF BuilderInv, BuildDir, Staged, ListingLength, ListingBody,
      HTML_STRING_LEN, EMPTY_DIR_LEN, input, files, cgi, log
<1>15. CASE BuildDirUnnamed
  BY <1>15 DEF BuilderInv, BuildDirUnnamed, BuilderFails, input, files, cgi,
      log
<1>16. CASE build_error_response
  BY <1>16 DEF BuilderInv, build_error_response, error_responses, Staged,
      input, files, cgi, log
<1>17. CASE CgiStart
  BY <1>17 DEF BuilderInv, CgiStart, NewChild, input, files, log
<1>18. CASE CgiRead
  BY <1>18 DEF BuilderInv, CgiRead, ReadCount, Capacity, input, files, log
<1>19. CASE CgiEof
  BY <1>19 DEF BuilderInv, CgiEof, input, files, log
<1>20. CASE CgiReap
  BY <1>20 DEF BuilderInv, CgiReap, BuilderFails, input, files, log
<1>21. CASE CgiResponse
  BY <1>21 DEF BuilderInv, CgiResponse, input, files, cgi, log
<1>22. CASE BuildFileFails
  BY <1>22 DEF BuilderInv, BuildFileFails, BuilderFails, Fault, input, files,
      cgi, log
<1>23. CASE BuildDirFails
  BY <1>23 DEF BuilderInv, BuildDirFails, BuilderFails, Fault, input, files,
      cgi, log
<1>24. CASE ErrorNotBuilt
  BY <1>24 DEF BuilderInv, ErrorNotBuilt, Fault, input, files, cgi, log
<1>25. CASE CgiNotStarted
  BY <1>25 DEF BuilderInv, CgiNotStarted, BuilderFails, Fault, input, files,
      cgi, log
<1>26. CASE CgiNoBuffer
  BY <1>26 DEF BuilderInv, CgiNoBuffer, NewChild, BuilderFails, Fault, input,
      files, log
<1>27. CASE CgiReadFails
  BY <1>27 DEF BuilderInv, CgiReadFails, NoPipe, BuilderFails, Fault, input,
      files, log
<1>28. CASE CgiWaitFails
  BY <1>28 DEF BuilderInv, CgiWaitFails, BuilderFails, Fault, input, files,
      cgi, log
<1>29. CASE CgiNoResponse
  BY <1>29 DEF BuilderInv, CgiNoResponse, BuilderFails, Fault, input, files,
      cgi, log
<1>30. CASE FinishRequest
  BY <1>30 DEF BuilderInv, FinishRequest, log_response, log_append, LoggingOn,
      Fclose, input, cgi, log, TypeOK, ResolvedPath
<1>31. CASE ConnectionCloses
  BY <1>31 DEF BuilderInv, ConnectionCloses, Fclose, NoResponse, input, cgi,
      log
<1>32. CASE ScriptWrites
  BY <1>32 DEF BuilderInv, ScriptWrites, server_side, input, files, log
<1>33. CASE ScriptCloses
  BY <1>33 DEF BuilderInv, ScriptCloses, server_side, input, files, log
<1>34. CASE ScriptEnds
  BY <1>34 DEF BuilderInv, ScriptEnds, server_side, input, files, log
<1>35. CASE UNCHANGED vars
  BY <1>35 DEF BuilderInv, vars, input, files, cgi
<1> QED BY <1>1, <1>2, <1>3, <1>4, <1>5, <1>6, <1>7, <1>8, <1>9, <1>10, <1>11,
    <1>12, <1>13, <1>14, <1>15, <1>16, <1>17, <1>18, <1>19, <1>20, <1>21,
    <1>22, <1>23, <1>24, <1>25, <1>26, <1>27, <1>28, <1>29, <1>30, <1>31,
    <1>32, <1>33, <1>34, <1>35 DEF Next, ServerStep, ResolveStep,
    ResolveFault, BuildStep, BuildFault, CgiStep, CgiFault, Script, Closed

\* The length of the log line.
LEMMA NextLogInv ==
    ASSUME TypeOK, PathInv, LogInv, [Next]_vars
    PROVE  LogInv'
<1> USE PipelineAssumption
<1>0. line \in Line BY DEF TypeOK
<1>1. CASE parse_request
  BY <1>1, <1>0 DEF TypeOK, LogInv, parse_request, log_request, log_append,
      LoggingOn, input, files, cgi, Line, INET6_ADDRSTRLEN, TIME_LEN
<1>2. CASE PathOpened
  BY <1>2 DEF TypeOK, LogInv, PathOpened, input, cgi, log
<1>3. CASE PathNotOpened
  BY <1>3 DEF TypeOK, LogInv, PathNotOpened, input, cgi, log
<1>4. CASE CgiDisabled
  BY <1>4 DEF TypeOK, LogInv, CgiDisabled, input, files, cgi, log
<1>5. CASE RegularFile
  BY <1>5 DEF TypeOK, LogInv, RegularFile, input, files, cgi, log
<1>6. CASE Directory
  BY <1>6 DEF TypeOK, LogInv, Directory, input, files, cgi, log
<1>7. CASE IndexOpened
  BY <1>7 DEF TypeOK, LogInv, IndexOpened, input, cgi, log
<1>8. CASE NoIndex
  BY <1>8 DEF TypeOK, LogInv, NoIndex, Fclose, input, cgi, log
<1>9. CASE FstatFails
  BY <1>9 DEF TypeOK, LogInv, FstatFails, Fclose, Fault, input, cgi, log
<1>10. CASE IndexFstatFails
  BY <1>10 DEF TypeOK, LogInv, IndexFstatFails, Fault, input, cgi, log
<1>11. CASE FileChanges
  BY <1>11 DEF TypeOK, LogInv, FileChanges, Fault, input, cgi, log
<1>12. CASE BuildOkay
  BY <1>12, BuilderChosen DEF TypeOK, LogInv, BuildOkay, input, files, cgi,
      log
<1>13. CASE BuildFile
  BY <1>13 DEF TypeOK, LogInv, BuildFile, Staged, input, files, cgi, log
<1>14. CASE BuildDir
  BY <1>14 DEF TypeOK, LogInv, BuildDir, Staged, ListingLength, ListingBody,
      HTML_STRING_LEN, EMPTY_DIR_LEN, input, files, cgi, log
<1>15. CASE BuildDirUnnamed
  BY <1>15 DEF TypeOK, LogInv, BuildDirUnnamed, BuilderFails, input, files,
      cgi, log
<1>16. CASE build_error_response
  BY <1>16 DEF TypeOK, LogInv, build_error_response, error_responses, Staged,
      input, files, cgi, log
<1>17. CASE CgiStart
  BY <1>17 DEF TypeOK, LogInv, CgiStart, NewChild, input, files, log
<1>18. CASE CgiRead
  BY <1>18 DEF TypeOK, LogInv, CgiRead, ReadCount, Capacity, input, files, log
<1>19. CASE CgiEof
  BY <1>19 DEF TypeOK, LogInv, CgiEof, input, files, log
<1>20. CASE CgiReap
  BY <1>20 DEF TypeOK, LogInv, CgiReap, BuilderFails, input, files, log
<1>21. CASE CgiResponse
  BY <1>21 DEF TypeOK, LogInv, CgiResponse, input, files, cgi, log
<1>22. CASE BuildFileFails
  BY <1>22 DEF TypeOK, LogInv, BuildFileFails, BuilderFails, Fault, input,
      files, cgi, log
<1>23. CASE BuildDirFails
  BY <1>23 DEF TypeOK, LogInv, BuildDirFails, BuilderFails, Fault, input,
      files, cgi, log
<1>24. CASE ErrorNotBuilt
  BY <1>24 DEF TypeOK, LogInv, ErrorNotBuilt, Fault, input, files, cgi, log
<1>25. CASE CgiNotStarted
  BY <1>25 DEF TypeOK, LogInv, CgiNotStarted, BuilderFails, Fault, input,
      files, cgi, log
<1>26. CASE CgiNoBuffer
  BY <1>26 DEF TypeOK, LogInv, CgiNoBuffer, NewChild, BuilderFails, Fault,
      input, files, log
<1>27. CASE CgiReadFails
  BY <1>27 DEF TypeOK, LogInv, CgiReadFails, NoPipe, BuilderFails, Fault,
      input, files, log
<1>28. CASE CgiWaitFails
  BY <1>28 DEF TypeOK, LogInv, CgiWaitFails, BuilderFails, Fault, input,
      files, cgi, log
<1>29. CASE CgiNoResponse
  BY <1>29 DEF TypeOK, LogInv, CgiNoResponse, BuilderFails, Fault, input,
      files, cgi, log
<1>30. CASE FinishRequest
  BY <1>30 DEF TypeOK, LogInv, FinishRequest, log_response, log_append,
      LoggingOn, Fclose, input, cgi, log, INT_LEN
<1>31. CASE ConnectionCloses
  BY <1>31 DEF TypeOK, LogInv, ConnectionCloses, Fclose, NoResponse, input,
      cgi, log
<1>32. CASE ScriptWrites
  BY <1>32 DEF TypeOK, LogInv, ScriptWrites, server_side, input, files, log
<1>33. CASE ScriptCloses
  BY <1>33 DEF TypeOK, LogInv, ScriptCloses, server_side, input, files, log
<1>34. CASE ScriptEnds
  BY <1>34 DEF TypeOK, LogInv, ScriptEnds, server_side, input, files, log
<1>35. CASE UNCHANGED vars
  BY <1>35 DEF TypeOK, LogInv, vars, log
<1> QED BY <1>1, <1>2, <1>3, <1>4, <1>5, <1>6, <1>7, <1>8, <1>9, <1>10, <1>11,
    <1>12, <1>13, <1>14, <1>15, <1>16, <1>17, <1>18, <1>19, <1>20, <1>21,
    <1>22, <1>23, <1>24, <1>25, <1>26, <1>27, <1>28, <1>29, <1>30, <1>31,
    <1>32, <1>33, <1>34, <1>35 DEF Next, ServerStep, ResolveStep,
    ResolveFault, BuildStep, BuildFault, CgiStep, CgiFault, Script, Closed

\* The script that is not waited for.
LEMMA NextChildInv ==
    ASSUME TypeOK, ChildInv, [Next]_vars
    PROVE  ChildInv'
<1>1. CASE parse_request
  BY <1>1 DEF TypeOK, ChildInv, parse_request, log_request, log_append,
      LoggingOn, input, files, cgi
<1>2. CASE PathOpened
  BY <1>2 DEF TypeOK, ChildInv, PathOpened, input, cgi, log
<1>3. CASE PathNotOpened
  BY <1>3 DEF TypeOK, ChildInv, PathNotOpened, input, cgi, log
<1>4. CASE CgiDisabled
  BY <1>4 DEF TypeOK, ChildInv, CgiDisabled, input, files, cgi, log
<1>5. CASE RegularFile
  BY <1>5 DEF TypeOK, ChildInv, RegularFile, input, files, cgi, log
<1>6. CASE Directory
  BY <1>6 DEF TypeOK, ChildInv, Directory, input, files, cgi, log
<1>7. CASE IndexOpened
  BY <1>7 DEF TypeOK, ChildInv, IndexOpened, input, cgi, log
<1>8. CASE NoIndex
  BY <1>8 DEF TypeOK, ChildInv, NoIndex, Fclose, input, cgi, log
<1>9. CASE FstatFails
  BY <1>9 DEF TypeOK, ChildInv, FstatFails, Fclose, Fault, input, cgi, log
<1>10. CASE IndexFstatFails
  BY <1>10 DEF TypeOK, ChildInv, IndexFstatFails, Fault, input, cgi, log
<1>11. CASE FileChanges
  BY <1>11 DEF TypeOK, ChildInv, FileChanges, Fault, input, cgi, log
<1>12. CASE BuildOkay
  BY <1>12 DEF TypeOK, ChildInv, BuildOkay, input, files, cgi, log
<1>13. CASE BuildFile
  BY <1>13 DEF TypeOK, ChildInv, BuildFile, Staged, input, files, cgi, log
<1>14. CASE BuildDir
  BY <1>14 DEF TypeOK, ChildInv, BuildDir, Staged, ListingLength, ListingBody,
      HTML_STRING_LEN, EMPTY_DIR_LEN, input, files, cgi, log
<1>15. CASE BuildDirUnnamed
  BY <1>15 DEF TypeOK, ChildInv, BuildDirUnnamed, BuilderFails, input, files,
      cgi, log
<1>16. CASE build_error_response
  BY <1>16 DEF TypeOK, ChildInv, build_error_response, error_responses,
      Staged, input, files, cgi, log
<1>17. CASE CgiStart
  BY <1>17 DEF TypeOK, ChildInv, CgiStart, NewChild, input, files, log
<1>18. CASE CgiRead
  BY <1>18 DEF TypeOK, ChildInv, CgiRead, ReadCount, Capacity, input, files,
      log
<1>19. CASE CgiEof
  BY <1>19 DEF TypeOK, ChildInv, CgiEof, input, files, log
<1>20. CASE CgiReap
  BY <1>20 DEF TypeOK, ChildInv, CgiReap, BuilderFails, input, files, log,
      Child
<1>21. CASE CgiResponse
  BY <1>21 DEF TypeOK, ChildInv, CgiResponse, input, files, cgi, log
<1>22. CASE BuildFileFails
  BY <1>22 DEF TypeOK, ChildInv, BuildFileFails, BuilderFails, Fault, input,
      files, cgi, log
<1>23. CASE BuildDirFails
  BY <1>23 DEF TypeOK, ChildInv, BuildDirFails, BuilderFails, Fault, input,
      files, cgi, log
<1>24. CASE ErrorNotBuilt
  BY <1>24 DEF TypeOK, ChildInv, ErrorNotBuilt, Fault, input, files, cgi, log
<1>25. CASE CgiNotStarted
  BY <1>25 DEF TypeOK, ChildInv, CgiNotStarted, BuilderFails, Fault, input,
      files, cgi, log
<1>26. CASE CgiNoBuffer
  BY <1>26 DEF TypeOK, ChildInv, CgiNoBuffer, NewChild, BuilderFails, Fault,
      input, files, log
<1>27. CASE CgiReadFails
  BY <1>27 DEF TypeOK, ChildInv, CgiReadFails, NoPipe, BuilderFails, Fault,
      input, files, log
<1>28. CASE CgiWaitFails
  BY <1>28 DEF TypeOK, ChildInv, CgiWaitFails, BuilderFails, Fault, input,
      files, cgi, log
<1>29. CASE CgiNoResponse
  BY <1>29 DEF TypeOK, ChildInv, CgiNoResponse, BuilderFails, Fault, input,
      files, cgi, log
<1>30. CASE FinishRequest
  BY <1>30 DEF TypeOK, ChildInv, FinishRequest, log_response, log_append,
      LoggingOn, Fclose, input, cgi, log
<1>31. CASE ConnectionCloses
  BY <1>31 DEF TypeOK, ChildInv, ConnectionCloses, Fclose, NoResponse, input,
      cgi, log
<1>32. CASE ScriptWrites
  BY <1>32 DEF TypeOK, ChildInv, ScriptWrites, server_side, input, files, log,
      Child
<1>33. CASE ScriptCloses
  BY <1>33 DEF TypeOK, ChildInv, ScriptCloses, server_side, input, files, log,
      Child
<1>34. CASE ScriptEnds
  BY <1>34 DEF TypeOK, ChildInv, ScriptEnds, server_side, input, files, log,
      Child
<1>35. CASE UNCHANGED vars
  BY <1>35 DEF TypeOK, ChildInv, vars, cgi
<1> QED BY <1>1, <1>2, <1>3, <1>4, <1>5, <1>6, <1>7, <1>8, <1>9, <1>10, <1>11,
    <1>12, <1>13, <1>14, <1>15, <1>16, <1>17, <1>18, <1>19, <1>20, <1>21,
    <1>22, <1>23, <1>24, <1>25, <1>26, <1>27, <1>28, <1>29, <1>30, <1>31,
    <1>32, <1>33, <1>34, <1>35 DEF Next, ServerStep, ResolveStep,
    ResolveFault, BuildStep, BuildFault, CgiStep, CgiFault, Script, Closed

-----------------------------------------------------------------------------
(* The script's output.                                                     *)

\* Nothing of what the script wrote is lost on its way into the buffer.
LEMMA NextOutputInv ==
    ASSUME PInv, BuilderInv, OutputInv, [Next]_vars
    PROVE  OutputInv'
<1> USE DEF PInv
<1>1. CASE parse_request
  BY <1>1, ParserDecides DEF OutputInv, Late
<1>2. CASE PathOpened
  BY <1>2 DEF OutputInv, Late, PathOpened, input, cgi, log
<1>3. CASE PathNotOpened
  BY <1>3 DEF OutputInv, Late, PathNotOpened, input, cgi, log
<1>4. CASE CgiDisabled
  BY <1>4 DEF OutputInv, Late, CgiDisabled, input, files, cgi, log
<1>5. CASE RegularFile
  BY <1>5 DEF OutputInv, Late, RegularFile, input, files, cgi, log
<1>6. CASE Directory
  BY <1>6 DEF OutputInv, Late, Directory, input, files, cgi, log
<1>7. CASE IndexOpened
  BY <1>7 DEF OutputInv, Late, IndexOpened, input, cgi, log
<1>8. CASE NoIndex
  BY <1>8 DEF OutputInv, Late, NoIndex, Fclose, input, cgi, log
<1>9. CASE FstatFails
  BY <1>9 DEF OutputInv, Late, FstatFails, Fclose, Fault, input, cgi, log
<1>10. CASE IndexFstatFails
  BY <1>10 DEF OutputInv, Late, IndexFstatFails, Fault, input, cgi, log
<1>11. CASE FileChanges
  BY <1>11 DEF OutputInv, Late, FileChanges, Fault, input, cgi, log
<1>12. CASE BuildOkay
  BY <1>12, BuilderChosen DEF OutputInv, Late, BuildOkay, input, files, cgi,
      log
<1>13. CASE BuildFile
  BY <1>13 DEF OutputInv, Late, BuildFile, Staged, input, files, cgi, log,
      BuilderInv
<1>14. CASE BuildDir
  BY <1>14 DEF OutputInv, Late, BuildDir, Staged, ListingLength, ListingBody,
      HTML_STRING_LEN, EMPTY_DIR_LEN, input, files, cgi, log, BuilderInv
<1>15. CASE BuildDirUnnamed
  BY <1>15 DEF OutputInv, Late, BuildDirUnnamed, BuilderFails, input, files,
      cgi, log
<1>16. CASE build_error_response
  BY <1>16 DEF OutputInv, Late, build_error_response, error_responses, Staged,
      input, files, cgi, log, CodeInv, Client, TypeOK
<1>17. CASE CgiStart
  BY <1>17 DEF OutputInv, Late, CgiStart, NewChild, input, files, log, TypeOK,
      Buffer
<1>18. CASE CgiRead
  BY <1>18 DEF OutputInv, Late, CgiRead, ReadCount, Capacity, input, files,
      log, TypeOK, RoomInv, Pipe, Buffer, Child
<1>19. CASE CgiEof
  BY <1>19 DEF OutputInv, Late, CgiEof, input, files, log, TypeOK, Pipe,
      Buffer, Child
<1>20. CASE CgiReap
  BY <1>20 DEF OutputInv, Late, CgiReap, BuilderFails, input, files, log,
      TypeOK, Child, Client
<1>21. CASE CgiResponse
  BY <1>21 DEF OutputInv, Late, CgiResponse, input, files, cgi, log, TypeOK,
      Client, Child, Buffer
<1>22. CASE BuildFileFails
  BY <1>22 DEF OutputInv, Late, BuildFileFails, BuilderFails, Fault, input,
      files, cgi, log
<1>23. CASE BuildDirFails
  BY <1>23 DEF OutputInv, Late, BuildDirFails, BuilderFails, Fault, input,
      files, cgi, log
<1>24. CASE ErrorNotBuilt
  BY <1>24 DEF OutputInv, Late, ErrorNotBuilt, Fault, input, files, cgi, log,
      CodeInv, Client, TypeOK
<1>25. CASE CgiNotStarted
  BY <1>25 DEF OutputInv, Late, CgiNotStarted, BuilderFails, Fault, input,
      files, cgi, log
<1>26. CASE CgiNoBuffer
  BY <1>26 DEF OutputInv, Late, CgiNoBuffer, NewChild, BuilderFails, Fault,
      input, files, log
<1>27. CASE CgiReadFails
  BY <1>27 DEF OutputInv, Late, CgiReadFails, NoPipe, BuilderFails, Fault,
      input, files, log
<1>28. CASE CgiWaitFails
  BY <1>28 DEF OutputInv, Late, CgiWaitFails, BuilderFails, Fault, input,
      files, cgi, log
<1>29. CASE CgiNoResponse
  BY <1>29 DEF OutputInv, Late, CgiNoResponse, BuilderFails, Fault, input,
      files, cgi, log
<1>30. CASE FinishRequest
  BY <1>30 DEF OutputInv, Late, FinishRequest, log_response, log_append,
      LoggingOn, Fclose, input, cgi, log, TypeOK, ResolvedPath
<1>31. CASE ConnectionCloses
  BY <1>31 DEF OutputInv, Late, ConnectionCloses, Fclose, NoResponse, input,
      cgi, log, TypeOK, Client
<1>32. CASE ScriptWrites
  BY <1>32 DEF OutputInv, Late, ScriptWrites, server_side, input, files, log,
      TypeOK, StreamInv, Child, Pipe, Buffer
<1>33. CASE ScriptCloses
  BY <1>33 DEF OutputInv, Late, ScriptCloses, server_side, input, files, log,
      TypeOK, StreamInv, Child, Pipe, Buffer
<1>34. CASE ScriptEnds
  BY <1>34 DEF OutputInv, Late, ScriptEnds, server_side, input, files, log,
      TypeOK, StreamInv, Child, Pipe, Buffer
<1>35. CASE UNCHANGED vars
  BY <1>35 DEF OutputInv, Late, vars, cgi
<1> QED BY <1>1, <1>2, <1>3, <1>4, <1>5, <1>6, <1>7, <1>8, <1>9, <1>10, <1>11,
    <1>12, <1>13, <1>14, <1>15, <1>16, <1>17, <1>18, <1>19, <1>20, <1>21,
    <1>22, <1>23, <1>24, <1>25, <1>26, <1>27, <1>28, <1>29, <1>30, <1>31,
    <1>32, <1>33, <1>34, <1>35 DEF Next, ServerStep, ResolveStep,
    ResolveFault, BuildStep, BuildFault, CgiStep, CgiFault, Script, Closed

\* The buffer is freed on every path but that of a 200.
LEMMA NextHeldInv ==
    ASSUME PInv, BuilderInv, HeldInv, [Next]_vars
    PROVE  HeldInv'
<1> USE DEF PInv, Collecting, ScriptServed
<1>1. CASE parse_request
  BY <1>1, ParserDecides DEF HeldInv, Late
<1>2. CASE PathOpened
  BY <1>2 DEF HeldInv, Late, PathOpened, input, cgi, log
<1>3. CASE PathNotOpened
  BY <1>3 DEF HeldInv, Late, PathNotOpened, input, cgi, log
<1>4. CASE CgiDisabled
  BY <1>4 DEF HeldInv, Late, CgiDisabled, input, files, cgi, log
<1>5. CASE RegularFile
  BY <1>5 DEF HeldInv, Late, RegularFile, input, files, cgi, log
<1>6. CASE Directory
  BY <1>6 DEF HeldInv, Late, Directory, input, files, cgi, log
<1>7. CASE IndexOpened
  BY <1>7 DEF HeldInv, Late, IndexOpened, input, cgi, log
<1>8. CASE NoIndex
  BY <1>8 DEF HeldInv, Late, NoIndex, Fclose, input, cgi, log
<1>9. CASE FstatFails
  BY <1>9 DEF HeldInv, Late, FstatFails, Fclose, Fault, input, cgi, log
<1>10. CASE IndexFstatFails
  BY <1>10 DEF HeldInv, Late, IndexFstatFails, Fault, input, cgi, log
<1>11. CASE FileChanges
  BY <1>11 DEF HeldInv, Late, FileChanges, Fault, input, cgi, log
<1>12. CASE BuildOkay
  BY <1>12, BuilderChosen DEF HeldInv, Late, BuildOkay, input, files, cgi,
      log
<1>13. CASE BuildFile
  BY <1>13 DEF HeldInv, Late, BuildFile, Staged, input, files, cgi, log,
      BuilderInv
<1>14. CASE BuildDir
  BY <1>14 DEF HeldInv, Late, BuildDir, Staged, ListingLength, ListingBody,
      HTML_STRING_LEN, EMPTY_DIR_LEN, input, files, cgi, log, BuilderInv
<1>15. CASE BuildDirUnnamed
  BY <1>15 DEF HeldInv, Late, BuildDirUnnamed, BuilderFails, input, files,
      cgi, log
<1>16. CASE build_error_response
  BY <1>16 DEF HeldInv, Late, build_error_response, error_responses, Staged,
      input, files, cgi, log, CodeInv, Client, TypeOK
<1>17. CASE CgiStart
  BY <1>17, PipelineAssumption DEF HeldInv, Late, CgiStart, NewChild, input, files, log, TypeOK,
      Buffer
<1>18. CASE CgiRead
  BY <1>18 DEF HeldInv, Late, CgiRead, ReadCount, Capacity, input, files,
      log, TypeOK, RoomInv, Pipe, Buffer, Child
<1>19. CASE CgiEof
  BY <1>19 DEF HeldInv, Late, CgiEof, input, files, log, TypeOK, Pipe,
      Buffer, Child
<1>20. CASE CgiReap
  BY <1>20 DEF HeldInv, Late, CgiReap, BuilderFails, input, files, log,
      TypeOK, Child, Client
<1>21. CASE CgiResponse
  BY <1>21 DEF HeldInv, Late, CgiResponse, NoBuffer, cgi, TypeOK, Client,
      BuilderInv, CodeInv, Building
<1>22. CASE BuildFileFails
  BY <1>22 DEF HeldInv, Late, BuildFileFails, BuilderFails, Fault, input,
      files, cgi, log
<1>23. CASE BuildDirFails
  BY <1>23 DEF HeldInv, Late, BuildDirFails, BuilderFails, Fault, input,
      files, cgi, log
<1>24. CASE ErrorNotBuilt
  BY <1>24 DEF HeldInv, Late, ErrorNotBuilt, Fault, input, files, cgi, log,
      CodeInv, Client, TypeOK
<1>25. CASE CgiNotStarted
  BY <1>25 DEF HeldInv, Late, CgiNotStarted, BuilderFails, Fault, input,
      files, cgi, log
<1>26. CASE CgiNoBuffer
  BY <1>26 DEF HeldInv, Late, CgiNoBuffer, NewChild, BuilderFails, Fault,
      input, files, log
<1>27. CASE CgiReadFails
  BY <1>27 DEF HeldInv, Late, CgiReadFails, NoPipe, BuilderFails, Fault,
      input, files, log
<1>28. CASE CgiWaitFails
  BY <1>28 DEF HeldInv, Late, CgiWaitFails, BuilderFails, Fault, input,
      files, cgi, log
<1>29. CASE CgiNoResponse
  BY <1>29 DEF HeldInv, Late, CgiNoResponse, BuilderFails, Fault, input,
      files, cgi, log
<1>30. CASE FinishRequest
  BY <1>30 DEF HeldInv, Late, FinishRequest, log_response, log_append,
      LoggingOn, Fclose, input, cgi, log, TypeOK, ResolvedPath
<1>31. CASE ConnectionCloses
  BY <1>31 DEF HeldInv, Late, ConnectionCloses, Fclose, NoResponse, input,
      cgi, log, TypeOK, Client
<1>32. CASE ScriptWrites
  BY <1>32 DEF HeldInv, Late, ScriptWrites, server_side, input, files, log,
      TypeOK, StreamInv, Child, Pipe, Buffer
<1>33. CASE ScriptCloses
  BY <1>33 DEF HeldInv, Late, ScriptCloses, server_side, input, files, log,
      TypeOK, StreamInv, Child, Pipe, Buffer
<1>34. CASE ScriptEnds
  BY <1>34 DEF HeldInv, Late, ScriptEnds, server_side, input, files, log,
      TypeOK, StreamInv, Child, Pipe, Buffer
<1>35. CASE UNCHANGED vars
  BY <1>35 DEF HeldInv, Late, vars, cgi
<1> QED BY <1>1, <1>2, <1>3, <1>4, <1>5, <1>6, <1>7, <1>8, <1>9, <1>10, <1>11,
    <1>12, <1>13, <1>14, <1>15, <1>16, <1>17, <1>18, <1>19, <1>20, <1>21,
    <1>22, <1>23, <1>24, <1>25, <1>26, <1>27, <1>28, <1>29, <1>30, <1>31,
    <1>32, <1>33, <1>34, <1>35 DEF Next, ServerStep, ResolveStep,
    ResolveFault, BuildStep, BuildFault, CgiStep, CgiFault, Script, Closed

------------------------------------------------------------------------

-----------------------------------------------------------------------------
(* The response.                                                            *)

\* Every error has a row in the table, and the row has its status.
LEMMA ErrorRow ==
    ASSUME NEW resp \in client_response \ {"RESP_200"}
    PROVE  /\ resp \in DOMAIN error_responses
           /\ error_responses[resp][1] = resp_val_to_status_string(resp)
           /\ error_responses[resp][2] \in Nat
           /\ error_responses[resp][1] # "none"
BY DEF client_response, error_responses, resp_val_to_status_string

\* What is staged, and what is logged of it.
LEMMA NextSizeInv ==
    ASSUME PInv, BuilderInv, SizeInv, [Next]_vars
    PROVE  SizeInv'
<1> USE DEF PInv, ScriptServed, FileChanged
<1>1. CASE parse_request
  BY <1>1, ParserDecides DEF SizeInv
<1>2. CASE PathOpened
  BY <1>2 DEF SizeInv, PathOpened, input, cgi, log, TypeOK, Client,
      ResolvedPath, Entry
<1>3. CASE PathNotOpened
  BY <1>3 DEF SizeInv, PathNotOpened, input, cgi, log
<1>4. CASE CgiDisabled
  BY <1>4 DEF SizeInv, CgiDisabled, input, files, cgi, log, TypeOK, Client,
      ResolvedPath, Entry
<1>5. CASE RegularFile
  BY <1>5 DEF SizeInv, RegularFile, input, files, cgi, log, TypeOK, Client,
      ResolvedPath, Entry
<1>6. CASE Directory
  BY <1>6 DEF SizeInv, Directory, input, files, cgi, log
<1>7. CASE IndexOpened
  BY <1>7 DEF SizeInv, IndexOpened, input, cgi, log, TypeOK, Client,
      ResolvedPath, Entry
<1>8. CASE NoIndex
  BY <1>8 DEF SizeInv, NoIndex, Fclose, input, cgi, log, TypeOK, Client,
      ResolvedPath, Entry
<1>9. CASE FstatFails
  BY <1>9 DEF SizeInv, FstatFails, Fclose, Fault, input, cgi, log
<1>10. CASE IndexFstatFails
  BY <1>10 DEF SizeInv, IndexFstatFails, Fault, input, cgi, log, TypeOK,
      Client, ResolvedPath, Entry
<1>11. CASE FileChanges
  BY <1>11 DEF SizeInv, FileChanges, Fault, input, cgi, log, TypeOK, Client,
      ResolvedPath, Entry
<1>12. CASE BuildOkay
  BY <1>12, BuilderChosen DEF SizeInv, BuildOkay, input, files, cgi, log,
      TypeOK, Client
<1>13. CASE BuildFile
  BY <1>13 DEF SizeInv, BuildFile, Staged, input, files, cgi, log, TypeOK,
      Client, ResolvedPath, Entry, BuilderInv, CodeInv, Building, NoResponse,
      resp_val_to_status_string
<1>14. CASE BuildDir
  <2>1. PICK n \in 0..MaxSize :
           c' = [c EXCEPT
                   !.out = Staged("200", ListingLength(n), ListingBody(n)),
                   !.body_len = IF method = "HTTP_HEAD" THEN @
                                                        ELSE ListingBody(n)]
    BY <1>14 DEF BuildDir
  <2>2. ListingLength(n) = ListingBody(n) /\ ListingBody(n) \in Nat
    BY PipelineAssumption
       DEF ListingLength, ListingBody, HTML_STRING_LEN, EMPTY_DIR_LEN
  <2>3. /\ c'.resp_val = "RESP_200" /\ rp'.path_type = "IS_DIR"
        /\ c'.out.status = "200" /\ c'.out.content_length = ListingBody(n)
        /\ c'.out.body = IF method = "HTTP_HEAD" THEN 0 ELSE ListingBody(n)
        /\ c'.body_len = IF method = "HTTP_HEAD" THEN 0 ELSE ListingBody(n)
    BY <1>14, <2>1, <2>2
       DEF TypeOK, Client, CodeInv, Building, Late, BuildDir, Staged, BuilderInv
  <2> QED BY <1>14, <2>3
          DEF SizeInv, BuildDir, NoResponse, resp_val_to_status_string
<1>15. CASE BuildDirUnnamed
  BY <1>15 DEF SizeInv, BuildDirUnnamed, BuilderFails, input, files, cgi, log
<1>16. CASE build_error_response
  BY <1>16, ErrorRow DEF SizeInv, build_error_response, error_responses,
      Staged, input, files, cgi, log, TypeOK, Client, CodeInv, NoResponse
<1>17. CASE CgiStart
  BY <1>17 DEF SizeInv, CgiStart, NewChild, input, files, log
<1>18. CASE CgiRead
  BY <1>18 DEF SizeInv, CgiRead, ReadCount, Capacity, input, files, log
<1>19. CASE CgiEof
  BY <1>19 DEF SizeInv, CgiEof, input, files, log
<1>20. CASE CgiReap
  BY <1>20 DEF SizeInv, CgiReap, BuilderFails, input, files, log
<1>21. CASE CgiResponse
  BY <1>21 DEF SizeInv, CgiResponse, input, files, cgi, log, TypeOK, Client,
      Buffer, BuilderInv, CodeInv, Building, NoResponse,
      resp_val_to_status_string
<1>22. CASE BuildFileFails
  BY <1>22 DEF SizeInv, BuildFileFails, BuilderFails, Fault, input, files,
      cgi, log
<1>23. CASE BuildDirFails
  BY <1>23 DEF SizeInv, BuildDirFails, BuilderFails, Fault, input, files, cgi,
      log
<1>24. CASE ErrorNotBuilt
  BY <1>24 DEF SizeInv, ErrorNotBuilt, Fault, input, files, cgi, log, TypeOK,
      CodeInv, Late, NoResponse
<1>25. CASE CgiNotStarted
  BY <1>25 DEF SizeInv, CgiNotStarted, BuilderFails, Fault, input, files, cgi,
      log
<1>26. CASE CgiNoBuffer
  BY <1>26 DEF SizeInv, CgiNoBuffer, NewChild, BuilderFails, Fault, input,
      files, log
<1>27. CASE CgiReadFails
  BY <1>27 DEF SizeInv, CgiReadFails, NoPipe, BuilderFails, Fault, input,
      files, log
<1>28. CASE CgiWaitFails
  BY <1>28 DEF SizeInv, CgiWaitFails, BuilderFails, Fault, input, files, cgi,
      log
<1>29. CASE CgiNoResponse
  BY <1>29 DEF SizeInv, CgiNoResponse, BuilderFails, Fault, input, files, cgi,
      log
<1>30. CASE FinishRequest
  BY <1>30 DEF SizeInv, FinishRequest, log_response, log_append, LoggingOn,
      Fclose, input, cgi, log, TypeOK, ResolvedPath
<1>31. CASE ConnectionCloses
  BY <1>31 DEF SizeInv, ConnectionCloses, Fclose, NoResponse, input, cgi, log
<1>32. CASE ScriptWrites
  BY <1>32 DEF SizeInv, ScriptWrites, server_side, input, files, log,
      LoggingOn
<1>33. CASE ScriptCloses
  BY <1>33 DEF SizeInv, ScriptCloses, server_side, input, files, log,
      LoggingOn
<1>34. CASE ScriptEnds
  BY <1>34 DEF SizeInv, ScriptEnds, server_side, input, files, log, LoggingOn
<1>35. CASE UNCHANGED vars
  BY <1>35 DEF SizeInv, vars, input, files, log, LoggingOn
<1> QED BY <1>1, <1>2, <1>3, <1>4, <1>5, <1>6, <1>7, <1>8, <1>9, <1>10, <1>11,
    <1>12, <1>13, <1>14, <1>15, <1>16, <1>17, <1>18, <1>19, <1>20, <1>21,
    <1>22, <1>23, <1>24, <1>25, <1>26, <1>27, <1>28, <1>29, <1>30, <1>31,
    <1>32, <1>33, <1>34, <1>35 DEF Next, ServerStep, ResolveStep,
    ResolveFault, BuildStep, BuildFault, CgiStep, CgiFault, Script, Closed

-----------------------------------------------------------------------------
(* The status.                                                              *)

\* What a request satisfies that fails no test.
LEMMA Passed ==
    ASSUME NEW l \in Line, FailedTests(l) = {}
    PROVE  /\ l.three_tokens /\ l.path_len < PATH_MAX /\ l.slash /\ ~l.dotdot
           /\ l.version \notin {"HTTP_VERSION_UNKNOWN",
                                "HTTP_VERSION_UNSUPPORTED"}
           /\ l.method \notin {"HTTP_METHOD_UNKNOWN", "HTTP_POST"}
<1>1. \A k \in 1..8 : Tests(l)[k][1] BY TestCodes DEF FailedTests
<1>2. /\ Tests(l)[1][1] /\ Tests(l)[2][1] /\ Tests(l)[3][1] /\ Tests(l)[4][1]
      /\ Tests(l)[5][1] /\ Tests(l)[6][1] /\ Tests(l)[7][1] /\ Tests(l)[8][1]
  BY <1>1
<1> QED BY <1>2 DEF Tests

\* The code of a test that fails has its reason.
LEMMA RefusalReason ==
    ASSUME line \in Line, NEW k \in FailedTests(line)
    PROVE  Reasons[Tests(line)[k][2]]
<1>1. k \in 1..8 /\ ~Tests(line)[k][1] BY TestCodes DEF FailedTests
<1>2. k = 1 \/ k = 2 \/ k = 3 \/ k = 4 \/ k = 5 \/ k = 6 \/ k = 7 \/ k = 8
  BY <1>1
<1>3. CASE k = 1 BY <1>1, <1>3 DEF Tests, Reasons, client_response
<1>4. CASE k = 2
  <2>1. line.path_len \in Nat BY DEF Line
  <2>2. ~(line.path_len < PATH_MAX) BY <1>1, <1>4 DEF Tests
  <2>3. line.path_len >= PATH_MAX BY <2>1, <2>2, PipelineAssumption
  <2>4. Tests(line)[k][2] = "RESP_414" BY <1>4 DEF Tests
  <2> QED BY <2>3, <2>4 DEF Reasons, client_response
<1>5. CASE k = 3 BY <1>1, <1>5 DEF Tests, Reasons, client_response
<1>6. CASE k = 4 BY <1>1, <1>6 DEF Tests, Reasons, client_response
<1>7. CASE k = 5 BY <1>1, <1>7 DEF Tests, Reasons, client_response
<1>8. CASE k = 6 BY <1>1, <1>8 DEF Tests, Reasons, client_response
<1>9. CASE k = 7 BY <1>1, <1>9 DEF Tests, Reasons, client_response
<1>10. CASE k = 8 BY <1>1, <1>10 DEF Tests, Reasons, client_response
<1> QED BY <1>2, <1>3, <1>4, <1>5, <1>6, <1>7, <1>8, <1>9, <1>10

\* A call that fails is the reason for a 500.
LEMMA FailedCall ==
    ASSUME pc' = "build_error", c'.resp_val = "RESP_500", faults' > 0
    PROVE  ReasonInv'
BY DEF ReasonInv, Opened, Building, Late, Reasons, client_response

\* A reason does not go away: what it is about stays, once the request is
\* answered or refused.
LEMMA ReasonStays ==
    ASSUME TypeOK, NEW resp \in client_response, Reasons[resp],
           UNCHANGED <<line, flags, found>>, rp'.path_type = rp.path_type,
           faults' \in Nat, faults' >= faults,
           child' = child \/ child.state # "reaped"
    PROVE  Reasons'[resp]
BY DEF TypeOK, Reasons, client_response

\* So a request that is answered or refused stays so with its reason.
LEMMA ReasonKept ==
    ASSUME TypeOK, CodeInv, ReasonInv,
           \/ pc' = pc
           \/ pc \in Late \cup {"build_error"} /\ pc' \in Late,
           UNCHANGED <<line, flags, found>>, c'.resp_val = c.resp_val,
           rp'.path_type = rp.path_type, rp'.exact = rp.exact,
           faults' \in Nat, faults' >= faults,
           child' = child \/ child.state # "reaped"
    PROVE  ReasonInv'
<1>1. pc \in Late \cup {"build_error"} => c.resp_val \in client_response
  BY DEF CodeInv
<1>2. pc \in Late \cup {"build_error"} /\ c.resp_val # "RESP_200" =>
         Reasons'[c.resp_val]
  BY <1>1, ReasonStays DEF ReasonInv
<1>3. pc = "build_error" => c.resp_val # "RESP_200" BY DEF CodeInv
<1>4. FailedTests(line)' = FailedTests(line) /\ CgiRefused' = CgiRefused
  BY DEF FailedTests, CgiRefused
<1> HIDE DEF Reasons
<1> QED BY <1>2, <1>3, <1>4 DEF ReasonInv, Early, Opened, Building, Late

\* A request for which a builder runs, or has succeeded.
LEMMA BuilderRuns ==
    ASSUME PathInv, ReasonInv,
           pc \in Building, pc' \in Building \/ pc' = "log",
           pc' = "log" => c'.resp_val = "RESP_200",
           UNCHANGED <<line, flags, rp>>, found'.kind = found.kind
    PROVE  ReasonInv'
<1>1. FailedTests(line)' = FailedTests(line) /\ CgiRefused' = CgiRefused
  BY DEF FailedTests, CgiRefused
<1> QED BY <1>1 DEF PathInv, ReasonInv, Early, Opened, Building, Late

\* The code and its reason.
LEMMA NextReasonInv ==
    ASSUME PInv, BuilderInv, ReasonInv, [Next]_vars
    PROVE  ReasonInv'
<1> USE DEF PInv
<1>0. line \in Line BY PipelineAssumption DEF TypeOK
<1>00. faults' \in Nat BY NextTypeOK DEF TypeOK
<1>1. CASE parse_request
  <2>1. line' = line /\ pc = "parse_request" BY <1>1 DEF parse_request, input
  <2>2. CASE FailedTests(line) = {}
    BY <1>1, <2>1, <2>2 DEF parse_request, ReasonInv, Opened, Building, Late
  <2>3. CASE FailedTests(line) # {}
    <3>1. Reasons[Tests(line)[Min(FailedTests(line))][2]]
      BY <1>0, <2>3, RefusalCode, RefusalReason
    <3>2. /\ pc' = "build_error"
          /\ c'.resp_val = Tests(line)[Min(FailedTests(line))][2]
      BY <1>1, <2>3 DEF TypeOK, parse_request, Client
    <3>3. Reasons'[c'.resp_val]
      BY <1>0, <1>00, <1>1, <2>3, <3>1, <3>2, RefusalCode, ReasonStays
         DEF TypeOK, parse_request, input, files, cgi
    <3> QED BY <3>2, <3>3 DEF ReasonInv, Opened, Building, Late
  <2> QED BY <2>2, <2>3
<1>2. CASE PathOpened
  <2>1. rp'.exact \/ line.path_len = PATH_MAX - 1
    <3>1. FailedTests(line) = {} BY <1>2 DEF ReasonInv, PathOpened
    <3>2. line.path_len \in Nat /\ line.path_len < PATH_MAX
      BY <1>0, <3>1, Passed DEF Line
    <3>3. rp'.exact = (LocalPathLen = line.path_len)
      BY <1>2 DEF TypeOK, PathOpened, ResolvedPath
    <3>4. line.path_len <= PATH_MAX - 2 => LocalPathLen = line.path_len
      BY <3>2, PipelineAssumption DEF LocalPathLen
    <3>5. line.path_len <= PATH_MAX - 2 \/ line.path_len = PATH_MAX - 1
      BY <3>2, PipelineAssumption
    <3> QED BY <3>3, <3>4, <3>5, Zenon
  <2> QED BY <1>2, <2>1 DEF ReasonInv, Opened, Building, Late, PathOpened, input
<1>3. CASE PathNotOpened
  <2>1. PICK kind \in {"denied", "absent"} :
           /\ found'.kind = kind
           /\ c'.resp_val = IF kind = "denied" THEN "RESP_403" ELSE "RESP_404"
    BY <1>3 DEF TypeOK, PathNotOpened, Client
  <2>2. Reasons'[c'.resp_val] BY <2>1 DEF Reasons, client_response
  <2> QED BY <1>3, <2>2 DEF ReasonInv, Opened, Building, Late, PathNotOpened
<1>4. CASE CgiDisabled
  <2>1. c'.resp_val = "RESP_501" BY <1>4 DEF TypeOK, CgiDisabled, Client
  <2>2. line'.cgi_bin /\ "C_FLAG" \notin flags'
    BY <1>4 DEF CgiDisabled, CgiRefused, input
  <2>3. Reasons'["RESP_501"] BY <2>2 DEF Reasons, client_response
  <2> QED BY <1>4, <2>1, <2>3 DEF ReasonInv, Opened, Building, Late, CgiDisabled
<1>5. CASE RegularFile
  BY <1>5 DEF ReasonInv, Early, Opened, Building, Late, RegularFile, input,
      files, cgi, log
<1>6. CASE Directory
  BY <1>6 DEF ReasonInv, Early, Opened, Building, Late, Directory, input,
      files, cgi, log
<1>7. CASE IndexOpened
  BY <1>7 DEF ReasonInv, Early, Opened, Building, Late, IndexOpened, input,
      cgi, log
<1>8. CASE NoIndex
  BY <1>8 DEF ReasonInv, Early, Opened, Building, Late, NoIndex, Fclose,
      input, cgi, log
<1>9. CASE FstatFails
  BY <1>9, FailedCall DEF TypeOK, FstatFails, BuilderFails, Fault, Client
<1>10. CASE IndexFstatFails
  BY <1>10, FailedCall DEF TypeOK, IndexFstatFails, BuilderFails, Fault, Client
<1>11. CASE FileChanges
  BY <1>11 DEF ReasonInv, Early, Opened, Building, Late, FileChanges, Fault,
      input, cgi, log
<1>12. CASE BuildOkay
  BY <1>12, BuilderRuns, BuilderChosen DEF BuildOkay, Building, input, files
<1>13. CASE BuildFile
  BY <1>13, BuilderRuns DEF BuildFile, Building, TypeOK, CodeInv, Client, input,
      files
<1>14. CASE BuildDir
  BY <1>14, BuilderRuns DEF BuildDir, Building, TypeOK, CodeInv, Client, input,
      files
<1>15. CASE BuildDirUnnamed
  <2>1. c'.resp_val = "RESP_500"
    BY <1>15 DEF TypeOK, BuildDirUnnamed, BuilderFails, Client
  <2>2. rp'.path_type = "IS_DIR" /\ (line'.root \/ line'.query)
    BY <1>15 DEF BuilderInv, BuildDirUnnamed, DirNamed, input
  <2>3. Reasons'["RESP_500"] BY <2>2 DEF Reasons, client_response
  <2> QED BY <1>15, <2>1, <2>3
          DEF ReasonInv, Opened, Building, Late, BuildDirUnnamed, BuilderFails
<1>16. CASE build_error_response
  BY <1>16, ReasonKept, <1>00 DEF TypeOK, build_error_response, Late, Client,
      input, files, cgi
<1>17. CASE CgiStart
  BY <1>17, BuilderRuns DEF CgiStart, Building, TypeOK, input, files
<1>18. CASE CgiRead
  BY <1>18, BuilderRuns DEF CgiRead, Building, TypeOK, input, files
<1>19. CASE CgiEof
  BY <1>19, BuilderRuns DEF CgiEof, Building, TypeOK, input, files
<1>20. CASE CgiReap
  <2>1. CASE child.ok
    BY <1>20, <2>1, BuilderRuns DEF CgiReap, Building, input, files
  <2>2. CASE ~child.ok
    <3>1. c'.resp_val = "RESP_500"
      BY <1>20, <2>2 DEF TypeOK, CgiReap, BuilderFails, Client
    <3>2. rp'.path_type = "IS_CGI" /\ child'.state = "reaped" /\ ~child'.ok
      BY <1>20, <2>2 DEF TypeOK, BuilderInv, CgiReap, Child
    <3>3. Reasons'["RESP_500"] BY <3>2 DEF Reasons, client_response
    <3> QED BY <1>20, <2>2, <3>1, <3>3
            DEF ReasonInv, Opened, Building, Late, CgiReap, BuilderFails
  <2> QED BY <2>1, <2>2
<1>21. CASE CgiResponse
  BY <1>21, BuilderRuns DEF CgiResponse, Building, TypeOK, CodeInv, Client,
      input, files
<1>22. CASE BuildFileFails
  BY <1>22, FailedCall DEF TypeOK, BuildFileFails, BuilderFails, Fault, Client
<1>23. CASE BuildDirFails
  BY <1>23, FailedCall DEF TypeOK, BuildDirFails, BuilderFails, Fault, Client
<1>24. CASE ErrorNotBuilt
  BY <1>24, ReasonKept, <1>00 DEF TypeOK, ErrorNotBuilt, Late, Fault, input,
      files, cgi
<1>25. CASE CgiNotStarted
  BY <1>25, FailedCall DEF TypeOK, CgiNotStarted, BuilderFails, Fault, Client
<1>26. CASE CgiNoBuffer
  BY <1>26, FailedCall DEF TypeOK, CgiNoBuffer, BuilderFails, Fault, Client
<1>27. CASE CgiReadFails
  BY <1>27, FailedCall DEF TypeOK, CgiReadFails, BuilderFails, Fault, Client
<1>28. CASE CgiWaitFails
  BY <1>28, FailedCall DEF TypeOK, CgiWaitFails, BuilderFails, Fault, Client
<1>29. CASE CgiNoResponse
  BY <1>29, FailedCall DEF TypeOK, CgiNoResponse, BuilderFails, Fault, Client
<1>30. CASE FinishRequest
  BY <1>30, ReasonKept, <1>00 DEF TypeOK, FinishRequest, Late, ResolvedPath,
      input, cgi
<1>31. CASE ConnectionCloses
  BY <1>31, ReasonKept, <1>00 DEF TypeOK, ConnectionCloses, Late, Client, input,
      cgi
<1>32. CASE ScriptWrites
  BY <1>32, ReasonKept, <1>00 DEF TypeOK, ScriptWrites, Late, server_side,
      input, files
<1>33. CASE ScriptCloses
  BY <1>33, ReasonKept, <1>00 DEF TypeOK, ScriptCloses, Late, server_side,
      input, files
<1>34. CASE ScriptEnds
  BY <1>34, ReasonKept, <1>00 DEF TypeOK, ScriptEnds, Late, server_side, input,
      files
<1>35. CASE UNCHANGED vars
  BY <1>35, <1>00, ReasonKept DEF TypeOK, vars, input, files, cgi
<1> QED BY <1>1, <1>2, <1>3, <1>4, <1>5, <1>6, <1>7, <1>8, <1>9, <1>10, <1>11,
    <1>12, <1>13, <1>14, <1>15, <1>16, <1>17, <1>18, <1>19, <1>20, <1>21,
    <1>22, <1>23, <1>24, <1>25, <1>26, <1>27, <1>28, <1>29, <1>30, <1>31,
    <1>32, <1>33, <1>34, <1>35 DEF Next, ServerStep, ResolveStep,
    ResolveFault, BuildStep, BuildFault, CgiStep, CgiFault, Script, Closed

-----------------------------------------------------------------------------
(* The invariant, and what follows from it.                                 *)

\* The initial state satisfies the invariant.
LEMMA InitAInv == Init => AInv
<1> SUFFICES ASSUME Init PROVE AInv OBVIOUS
<1>1. PInv BY InitPInv
<1>2. BuilderInv /\ LogInv /\ ChildInv
  BY PipelineAssumption DEF Init, BuilderInv, LogInv, ChildInv, NoChild
<1>3. OutputInv /\ HeldInv /\ SizeInv /\ ReasonInv
  BY DEF Init, OutputInv, HeldInv, Collecting, SizeInv, ReasonInv, Opened,
         Building, Late
<1> QED BY <1>1, <1>2, <1>3 DEF AInv

\* The invariant is inductive.
LEMMA NextAInv == AInv /\ [Next]_vars => AInv'
<1> SUFFICES ASSUME AInv, [Next]_vars PROVE AInv' OBVIOUS
<1>1. TypeOK /\ PathInv BY DEF AInv, PInv
<1>2. PInv' BY NextPInv DEF AInv
<1>3. BuilderInv' /\ LogInv' /\ ChildInv'
  BY <1>1, NextBuilderInv, NextLogInv, NextChildInv DEF AInv
<1>4. OutputInv' /\ HeldInv' /\ SizeInv' /\ ReasonInv'
  BY NextOutputInv, NextHeldInv, NextSizeInv, NextReasonInv DEF AInv
<1> QED BY <1>2, <1>3, <1>4 DEF AInv

\* No part of a log line is ever cut, whatever the ceiling on a request is.
THEOREM PipelineLogFits == Spec => []LogFits
<1>1. AInv => LogFits
  BY PipelineAssumption DEF AInv, PInv, TypeOK, LogInv, LogFits, LOG_BUF_SIZE
<1> QED BY <1>1, InitAInv, NextAInv, PTL DEF Spec

\* A script is left behind only when a call failed.
THEOREM PipelineChildReaped == Spec => []ChildReaped
<1>1. AInv => ChildReaped BY DEF AInv, ChildInv, ChildReaped, Answered
<1> QED BY <1>1, InitAInv, NextAInv, PTL DEF Spec

\* A 200 for a script carries every byte it wrote, however much it writes and
\* however small the pipe and the buffer are.
THEOREM PipelineCgiOutputWhole == Spec => []CgiOutputWhole
<1>1. AInv => CgiOutputWhole
  BY DEF AInv, OutputInv, CgiOutputWhole, Answered, Late
<1> QED BY <1>1, InitAInv, NextAInv, PTL DEF Spec

\* When do_read() returns, exactly the stream of a refused script is open, one was
\* closed twice exactly after a failing fstat(), the pipe is closed, exactly the buffer of a script answered with 200 is allocated,
\* and the client's pointer is stale exactly after a file or a script.
THEOREM PipelineReleasedExact == Spec => []ReleasedExact
<1>1. AInv => ReleasedExact
  BY DEF AInv, PInv, PathInv, StreamInv, Leaks, HeldInv, Late, ReleasedExact
<1> QED BY <1>1, InitAInv, NextAInv, PTL DEF Spec

\* A response has the status of its code and the body it announces, none for
\* HEAD unless a script wrote it, and all of a file that changed.
THEOREM PipelineResponseComplete == Spec => []ResponseComplete
<1>1. AInv => ResponseComplete BY DEF AInv, SizeInv, ResponseComplete
<1> QED BY <1>1, InitAInv, NextAInv, PTL DEF Spec

\* The log line tells the status and the length of what was sent.
THEOREM PipelineLogTruthful == Spec => []LogTruthful
<1>1. AInv => LogTruthful BY DEF AInv, SizeInv, LogTruthful
<1> QED BY <1>1, InitAInv, NextAInv, PTL DEF Spec

\* Every answer has its reason, for every set of request lines.
THEOREM PipelineStatusJustified == Spec => []StatusJustified
<1>1. ASSUME AInv, Answered PROVE StatusJustified
  <2>0. line \in Line BY <1>1, PipelineAssumption DEF AInv, PInv, TypeOK
  <2>1. c.resp_val \in client_response
    BY <1>1 DEF AInv, PInv, CodeInv, Late, Answered
  <2>2. CASE c.resp_val = "RESP_200"
    <3>1. /\ FailedTests(line) = {} /\ ~CgiRefused
          /\ found.kind \in {"file", "dir"}
          /\ rp.exact \/ line.path_len = PATH_MAX - 1
      BY <1>1, <2>2 DEF AInv, ReasonInv, Late, Answered
    <3>2. \A resp \in client_response \ {"RESP_500"} : ~Reasons[resp]
      <4>1. ~(line.path_len >= PATH_MAX)
        BY <2>0, <3>1, Passed, PipelineAssumption DEF Line
      <4>2. line.method \in {"HTTP_GET", "HTTP_HEAD"}
        BY <2>0, <3>1, Passed DEF Line, http_method
      <4>3. line.three_tokens /\ line.slash /\ ~line.dotdot
        BY <2>0, <3>1, Passed
      <4>4. line.version \notin {"HTTP_VERSION_UNKNOWN",
                                 "HTTP_VERSION_UNSUPPORTED"}
        BY <2>0, <3>1, Passed
      <4> QED BY <3>1, <4>1, <4>2, <4>3, <4>4
              DEF Reasons, client_response, CgiRefused
    <3> QED BY <2>1, <2>2, <3>1, <3>2 DEF StatusJustified
  <2>3. CASE c.resp_val # "RESP_200"
    <3>1. Reasons[c.resp_val]
      BY <1>1, <2>3 DEF AInv, ReasonInv, Late, Answered
    <3> QED BY <2>1, <2>3, <3>1 DEF StatusJustified
  <2> QED BY <2>2, <2>3
<1>2. AInv => StatusJustified BY <1>1 DEF StatusJustified
<1> QED BY <1>2, InitAInv, NextAInv, PTL DEF Spec

-----------------------------------------------------------------------------
(* The contract with the event loop.                                        *)

\* The contract's copies of the shared sets are the sets themselves.
LEMMA ContractSets ==
    /\ Contract!NUM_CLIENT_RESP = NUM_CLIENT_RESP
    /\ Contract!Answers = Answers
BY DEF Contract!NUM_CLIENT_RESP, NUM_CLIENT_RESP, Contract!Answers, Answers,
       Contract!client_response, client_response

\* Before it is answered a request maps to the waiting phase.
LEMMA WaitingMaps ==
    pc \notin {"sending", "closed"} =>
        phase = "waiting" /\ answer = Contract!NoAnswer
BY ContractSets DEF phase, answer, Answered, Contract!NoAnswer

\* What is answered is one of the Answers.
LEMMA SendingMaps ==
    AInv /\ pc = "sending" => phase = "answered" /\ answer \in Answers
<1> SUFFICES ASSUME AInv, pc = "sending"
             PROVE  phase = "answered" /\ answer \in Answers
  OBVIOUS
<1>1. c \in Client /\ c.resp_val \in client_response
  BY DEF AInv, PInv, TypeOK, CodeInv, Late
<1>2. phase = "answered" BY DEF phase
<1>3. answer = [resp |-> c.resp_val, len |-> QueuedLen,
                stale |-> c.file_ptr # "NULL", leak |-> streams # {},
                lost |-> buffer # NoBuffer]
  BY DEF answer, Answered
<1>4. QueuedLen \in Nat
  BY <1>1 DEF QueuedLen, Client, Response
<1>5. c.file_ptr # "NULL" => c.resp_val \in {"RESP_200", "RESP_500"}
  BY DEF AInv, PInv, PathInv, CodeInv, Late
<1>6. streams # {} => c.resp_val = "RESP_501"
  BY DEF AInv, PInv, StreamInv, Leaks
<1>7. c.resp_val = "RESP_200" => QueuedLen > 0
  BY <1>1 DEF AInv, PInv, CodeInv, QueuedLen, Client, Response
<1>8. answer \in [resp : client_response, len : Nat, stale : BOOLEAN,
                  leak : BOOLEAN, lost : BOOLEAN]
  BY <1>1, <1>3, <1>4
<1>9. /\ answer.resp = c.resp_val /\ answer.len = QueuedLen
      /\ answer.stale = (c.file_ptr # "NULL") /\ answer.leak = (streams # {})
      /\ answer.lost = (buffer # NoBuffer)
  BY <1>3
<1>10. buffer # NoBuffer => c.resp_val = "RESP_200" /\ c.file_ptr # "NULL"
  BY DEF AInv, PInv, PathInv, HeldInv, Late, ScriptServed
<1> QED BY <1>2, <1>5, <1>6, <1>7, <1>8, <1>9, <1>10 DEF Answers

\* The close of a connection closes what the client still points at; a stream
\* that is open then is one that nothing points at.
LEMMA LeakSurvives ==
    ASSUME AInv, ConnectionCloses
    PROVE  streams' # {} <=> streams # {}
<1>1. pc = "sending" /\ streams' = streams \ {c.file_ptr}
  BY DEF ConnectionCloses, Fclose
<1>2. CASE streams # {}
  <2>1. streams = {"path"} /\ c.resp_val = "RESP_501"
    BY <1>1, <1>2 DEF AInv, PInv, StreamInv, Leaks
  <2>2. c.file_ptr = "NULL"
    BY <1>1, <2>1 DEF AInv, PInv, PathInv, CodeInv, Late
  <2> QED BY <1>1, <2>1, <2>2
<1>3. CASE streams = {} BY <1>1, <1>3
<1> QED BY <1>2, <1>3

\* Every step of the pipeline is a step of the contract or leaves it alone.
LEMMA StepMaps == AInv /\ [Next]_vars => [Contract!Next]_(Contract!vars)
<1> SUFFICES ASSUME AInv, [Next]_vars PROVE [Contract!Next]_(Contract!vars)
  OBVIOUS
<1>1. CASE FinishRequest
  <2>1. pc \notin {"sending", "closed"} /\ (pc = "sending")'
    BY <1>1 DEF FinishRequest
  <2>2. phase = "waiting" BY <2>1, WaitingMaps
  <2>3. AInv' BY NextAInv
  <2>4. (phase = "answered")' /\ (answer \in Answers)'
    BY <2>1, <2>3, SendingMaps, PTL
  <2>5. phase' = "answered" /\ answer' \in Contract!Answers
    BY <2>4, ContractSets
  <2> QED BY <2>2, <2>5 DEF Contract!Next, Contract!Answer
<1>2. CASE ConnectionCloses
  <2>1. pc = "sending" /\ pc' = "closed" BY <1>2 DEF ConnectionCloses
  <2>2. phase = "answered" /\ phase' = "closed" BY <2>1 DEF phase
  <2> DEFINE leak == streams # {}
             lost == buffer # NoBuffer
             stale == c.file_ptr # "NULL"
             no == FALSE
  <2>3. answer = [resp |-> c.resp_val, len |-> QueuedLen, stale |-> stale,
                  leak |-> leak, lost |-> lost]
    BY <2>1 DEF answer, Answered
  <2>4. c' = [c EXCEPT !.out = NoResponse, !.file_ptr = "NULL"]
        /\ buffer' = buffer
    BY <1>2 DEF ConnectionCloses, cgi
  <2>5. c'.resp_val = c.resp_val /\ QueuedLen' = 0 /\ c'.file_ptr = "NULL"
    BY <2>4 DEF AInv, PInv, TypeOK, Client, QueuedLen
  <2>6. leak' = leak BY <1>2, LeakSurvives
  <2>7. answer' = [resp |-> c.resp_val, len |-> 0, stale |-> no,
                   leak |-> leak, lost |-> lost]
    BY <2>1, <2>4, <2>5, <2>6 DEF answer, Answered
  <2> HIDE DEF leak, lost, stale, no
  <2>8. /\ answer.resp = c.resp_val
        /\ answer.leak = leak /\ answer.lost = lost
    BY <2>3
  <2> QED BY <2>2, <2>7, <2>8, Zenon DEF Contract!Next, Contract!Close, no
<1>3. CASE ~FinishRequest /\ ~ConnectionCloses
  <2>0. BuildOkay => /\ pc = "build_okay"
                     /\ pc' \in {"cgi_fork", "build_dir", "build_file"}
    BY BuilderChosen DEF AInv, PInv, BuildOkay
  <2>1. \/ pc \notin {"sending", "closed"} /\ (pc \notin {"sending", "closed"})'
        \/ UNCHANGED <<pc, c, streams, buffer>>
    BY <1>3, <2>0 DEF Next, ServerStep, ResolveStep, ResolveFault, BuildStep,
        BuildFault,
       CgiStep, CgiFault, Script, Closed, vars, server_side, files, cgi,
       BuilderFails, parse_request, PathOpened, PathNotOpened, CgiDisabled,
       RegularFile, Directory, IndexOpened, NoIndex, FstatFails,
       IndexFstatFails, FileChanges, BuildFile, BuildDir, BuildDirUnnamed,
       build_error_response, CgiStart, CgiRead, CgiEof, CgiReap, CgiResponse,
       BuildFileFails, BuildDirFails, ErrorNotBuilt, CgiNotStarted,
       CgiNoBuffer, CgiReadFails, CgiWaitFails, CgiNoResponse, ScriptWrites,
       ScriptCloses, ScriptEnds
  <2>2. CASE pc \notin {"sending", "closed"} /\ (pc \notin {"sending", "closed"})'
    <3>1. phase = "waiting" /\ answer = Contract!NoAnswer BY <2>2, WaitingMaps
    <3>2. (phase = "waiting")' /\ (answer = Contract!NoAnswer)'
      BY <2>2, WaitingMaps, PTL
    <3>3. (Contract!NoAnswer)' = Contract!NoAnswer BY DEF Contract!NoAnswer
    <3> QED BY <3>1, <3>2, <3>3 DEF Contract!vars
  <2>3. CASE UNCHANGED <<pc, c, streams, buffer>>
    BY <2>3 DEF phase, answer, QueuedLen, Answered, Contract!vars
  <2> QED BY <2>1, <2>2, <2>3
<1> QED BY <1>1, <1>2, <1>3

\* do_read() keeps its promise to the event loop: one answer, among those the
\* loop is built for; the close frees the response and leaves a forgotten stream
\* or block where it is.
THEOREM PipelineImplementsAnswer == Spec => ImplementsAnswer
<1>1. Init => Contract!Init
  BY WaitingMaps DEF Init, Contract!Init
<1>2. AInv /\ [Next]_vars => [Contract!Next]_(Contract!vars) BY StepMaps
<1> QED BY <1>1, <1>2, InitAInv, NextAInv, PTL
        DEF Spec, ImplementsAnswer, Contract!Spec

=============================================================================
