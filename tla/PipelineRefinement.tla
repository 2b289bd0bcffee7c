------------------------- MODULE PipelineRefinement -------------------------
(***************************************************************************)
(* RequestPipeline implements AnswerContract.                              *)
(***************************************************************************)
EXTENDS RequestPipeline

phase == CASE pc = "sending" -> "answered"
           [] pc = "closed" -> "closed"
           [] OTHER -> "waiting"

\* The headers of a response count as one byte more than its body.
QueuedLen == IF c.out = NoResponse THEN 0 ELSE 1 + c.out.body

answer ==
    [resp |-> IF Answered THEN c.resp_val ELSE NUM_CLIENT_RESP,
     len |-> IF Answered THEN QueuedLen ELSE 0,
     stale |-> Answered /\ c.file_ptr # "NULL",
     leak |-> Answered /\ streams # {},
     lost |-> Answered /\ buffer # NoBuffer]

Contract == INSTANCE AnswerContract

\* do_read() answers a request once, with one of the combinations of code,
\* length, stale stream, forgotten stream and forgotten block that the event
\* loop is built for, whichever calls fail on the way; after that close_conn()
\* frees the response, and a forgotten stream or block is there for good.
ImplementsAnswer == Contract!Spec

=============================================================================
