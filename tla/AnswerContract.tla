--------------------------- MODULE AnswerContract ---------------------------
(***************************************************************************)
(* What do_read() promises to the event loop once the headers of a request *)
(* are complete: the request is answered once, with one of the Answers; the*)
(* close of the connection releases the response and the pointer to the    *)
(* stream, and changes nothing else.  This is all that EventLoop assumes   *)
(* of the pipeline behind ProcessRequest, whose Results are Answers.       *)
(***************************************************************************)
EXTENDS HttpTypes

VARIABLES
    phase,   \* "waiting", "answered", "closed"
    answer   \* what was answered, as far as the process still holds it

vars == <<phase, answer>>

NoAnswer ==
    [resp |-> NUM_CLIENT_RESP, len |-> 0, stale |-> FALSE, leak |-> FALSE,
     lost |-> FALSE]

Init == phase = "waiting" /\ answer = NoAnswer

\* Whatever failed on the way, there is a code, and it is not changed later.
Answer ==
    /\ phase = "waiting" /\ phase' = "answered"
    /\ answer' \in Answers

\* A stream and a block that nobody refers to stay.
Close ==
    /\ phase = "answered" /\ phase' = "closed"
    /\ answer' = [resp |-> answer.resp, len |-> 0, stale |-> FALSE,
                  leak |-> answer.leak, lost |-> answer.lost]

Next == Answer \/ Close

Spec == Init /\ [][Next]_vars

=============================================================================
