---------------------------- MODULE MCEventLoop ----------------------------
(***************************************************************************)
(* Small instances of EventLoop for TLC.                                   *)
(***************************************************************************)
EXTENDS EventLoopRefinement, TLC

CONSTANTS f1, f2, f3, v4, v6

\* The event loop is checked with answers that the request pipeline gives.
ASSUME ResultsAreAnswers == Results \subseteq Answers

OneListener == 0 :> v4
TwoListeners == 0 :> v4 @@ 1 :> v6

Result(resp, len, stale, leak, lost) ==
    [resp |-> resp, len |-> len, stale |-> stale, leak |-> leak, lost |-> lost]

\* A short error, a file that fits in the send buffer and one that does not, the
\* output of a script, a response that could not be built, and the disabled-CGI
\* answer that leaves a stream open.
NotFound == Result("RESP_404", 1, FALSE, FALSE, FALSE)
ShortFile == Result("RESP_200", 1, TRUE, FALSE, FALSE)
LongFile == Result("RESP_200", 2, TRUE, FALSE, FALSE)
ScriptOutput == Result("RESP_200", 1, TRUE, FALSE, TRUE)
NotBuilt == Result("RESP_500", 0, FALSE, FALSE, FALSE)
NoCgi == Result("RESP_501", 1, FALSE, TRUE, FALSE)

AllResults == {NotFound, LongFile, ScriptOutput, NotBuilt, NoCgi}
FileResults == {NotFound, ShortFile}
ScriptResults == {NotFound, ScriptOutput}
OneResult == {NotFound}

\* Client descriptors are interchangeable.
FdSymmetry == Permutations(Fds)

=============================================================================
