------------------------- MODULE MCRecordTransport -------------------------
(* A small instance of RecordTransport for TLC.                            *)
EXTENDS RecordTransport

Array == Value("array", "none", "none", "items")
Request == Value("object", "none", "none", "request")
Response(status) == Value("object", status, "other", "model")
Output == Value("object", "completed", "other", "output")

\* What gateways may store: an object of any status, or no object at all,
\* with and without input, request, authorization and time.
SomeRecords ==
    [response : {Response(s) : s \in {"queued", "in_progress", "cancelled", "none"}}
                \cup {Null, Array},
     input : {<<>>, <<Request>>},
     pending_upstream_request : {{}, {Request}, {Null}},
     upstream_authorization : {{}, {"token"}},
     enqueued_at : {{}, {0}}]

Queued == CHOOSE r \in SomeRecords :
    /\ r.response = Response("queued") /\ r.input = <<Request>>
    /\ r.pending_upstream_request = {Request}
    /\ r.upstream_authorization = {"token"} /\ r.enqueued_at = {0}

\* Messages the Rust client does not send.
SomeForeign ==
    LET good == core_to_proto(Queued) IN
    {[good EXCEPT !.response_id = ""],
     [good EXCEPT !.response_json = Malformed],
     [good EXCEPT !.response_json = EmptyText],
     [good EXCEPT !.input_json = <<Malformed>>],
     [good EXCEPT !.pending_upstream_request_json = {EmptyText}],
     [good EXCEPT !.pending_upstream_request_json = {Malformed}]}

SomeOutputs == {to_string(v) : v \in {Output, Array, Null}} \cup {Malformed, EmptyText}

\* A key may hold a null request, or a record that was never enqueued.
SomePreloaded ==
    {Serialize(rec) : rec \in
        {Queued,
         [Queued EXCEPT !.pending_upstream_request = {Null}],
         [Queued EXCEPT !.enqueued_at = {}, !.upstream_authorization = {}]}}
=============================================================================
