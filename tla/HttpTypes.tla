----------------------------- MODULE HttpTypes -----------------------------
(***************************************************************************)
(* The enumerations the server's modules share, with the names of the C    *)
(* source (client_conn/connections.h).                                     *)
(***************************************************************************)
EXTENDS Naturals

\* enum client_state without its NUM_CLIENT_STATE sentinel.
client_state ==
    {"READING", "PROCESSING", "SENDING_HEADER", "SENDING_BODY", "CLOSING"}

\* The sentinel add_to_lists() stores before a response code is known.
NUM_CLIENT_RESP == "NUM_CLIENT_RESP"

\* enum client_response without the sentinel: the codes the server can send.
client_response ==
    {"RESP_200", "RESP_400", "RESP_403", "RESP_404", "RESP_414", "RESP_500",
     "RESP_501", "RESP_505"}

\* What answering a request can produce: the code, the bytes queued in out_buf
\* (0: out_buf is NULL), whether c->file_ptr is left pointing at the stream that
\* do_read() closed, whether a stream is left open that nothing refers to any
\* more, and whether the output of a script is left allocated that nothing refers
\* to.  Only what was opened as a file can be stale, only a refused script leaks
\* a stream, only one that was run and answered with 200 a block, and a 200 has a
\* response.
Answers ==
    {r \in [resp : client_response, len : Nat,
            stale : BOOLEAN, leak : BOOLEAN, lost : BOOLEAN] :
        /\ r.stale => r.resp \in {"RESP_200", "RESP_500"}
        /\ r.leak => r.resp = "RESP_501"
        /\ r.lost => r.resp = "RESP_200" /\ r.stale
        /\ r.resp = "RESP_200" => r.len > 0}

\* The two states in which main()'s loop calls do_write().
Sending == {"SENDING_HEADER", "SENDING_BODY"}

=============================================================================
