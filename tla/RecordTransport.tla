-------------------------- MODULE RecordTransport --------------------------
(***************************************************************************)
(* The conversions a record goes through on its way from a client to Redis *)
(* and back: the Rust client (crates/client/src/lib.rs), the service's     *)
(* protobuf conversions (crates/server/src/convert.rs) and the JSON of the *)
(* key (StoredResponse in crates/core/src/model.rs).                       *)
(*                                                                         *)
(* One response and one RPC at a time; ResponseStore has the interleavings *)
(* inside RPCs.  An Option, and the result of a conversion that may fail,  *)
(* is a set with at most one element.                                      *)
(***************************************************************************)
EXTENDS Integers, Sequences

CONSTANTS
    Records,    \* records that gateways hand to the Rust client
    Foreign,    \* protobuf records that other clients send
    Outputs,    \* JSON texts that workers send as a result
    Preloaded,  \* JSON objects that keys held before the run
    ServerNow,  \* the server's unix time
    StaleSeconds

VARIABLES
    key,        \* the JSON object under the response's key; at most one
    want,       \* the record readers should see; at most one
    reply,      \* what the last RPC answered, as its client decodes it
    panicked    \* the last handler panicked

vars == <<key, want, reply, panicked>>

-----------------------------------------------------------------------------
(* JSON                                                                    *)

\* Of a value the code looks at its kind and, in an object, at "status" and
\* "id"; body stands for the rest.  "key" is the response's own id.
Value(kind, status, id, body) ==
    [kind |-> kind, status |-> status, id |-> id, body |-> body]

Null == Value("null", "none", "none", "none")

\* An object of the server's making.
Envelope(status) == Value("object", status, "key", "none")

\* What serde_json writes, and a text that it does not read.
to_string(v) == [form |-> "json", value |-> v]
EmptyText == [form |-> "empty", value |-> Null]
Malformed == [form |-> "malformed", value |-> Null]

from_str(text) == IF text.form = "json" THEN {text.value} ELSE {}

\* Every text of a sequence, or none.
from_strs(texts) ==
    {[i \in DOMAIN texts |-> texts[i].value] :
        all \in {TRUE} \cap {\A i \in DOMAIN texts : from_str(texts[i]) # {}}}

-----------------------------------------------------------------------------
(* Protobuf                                                                *)

\* An empty text stands for no request, as an absent field does.
pending_from_proto(json) ==
    IF \E t \in json : t.form # "empty"
    THEN {{v} : v \in UNION {from_str(t) : t \in json}}
    ELSE {{}}

\* Mutant: enqueued_at is left to the server.
proto_to_core_undated(record) ==
    {[response |-> v, input |-> vs, pending_upstream_request |-> pending,
      upstream_authorization |-> record.upstream_authorization, enqueued_at |-> {}] :
        v \in from_str(record.response_json),
        vs \in from_strs(record.input_json),
        pending \in pending_from_proto(record.pending_upstream_request_json)}

\* The record of a protobuf message, if its texts are JSON.
proto_to_core(record) ==
    {[response |-> v, input |-> vs, pending_upstream_request |-> pending,
      upstream_authorization |-> record.upstream_authorization,
      enqueued_at |-> record.enqueued_at] :
        v \in from_str(record.response_json),
        vs \in from_strs(record.input_json),
        pending \in pending_from_proto(record.pending_upstream_request_json)}

core_to_proto(rec) ==
    [response_id |-> "key",
     response_json |-> to_string(rec.response),
     input_json |-> [i \in DOMAIN rec.input |-> to_string(rec.input[i])],
     pending_upstream_request_json |->
         {to_string(v) : v \in rec.pending_upstream_request},
     upstream_authorization |-> rec.upstream_authorization,
     enqueued_at |-> rec.enqueued_at]

\* The Rust client has conversions of its own, with the same rules.
to_proto_record(rec) == core_to_proto(rec)
from_proto_record(record) == proto_to_core(record)

-----------------------------------------------------------------------------
(* The JSON of a key                                                       *)

Optional == {"pending_upstream_request", "upstream_authorization", "enqueued_at"}

\* The members of the JSON object.  None is left out, Some(null) is not.
Serialize(rec) ==
    [m \in {f \in DOMAIN rec : f \in Optional => rec[f] # {}} |->
        IF m \in Optional THEN CHOOSE v \in rec[m] : TRUE ELSE rec[m]]

Member(json, m) == IF m \in DOMAIN json THEN {json[m]} ELSE {}

\* Mutant: a request that is null is a request.
DeserializeNull(json) ==
    [response |-> json.response,
     input |-> json.input,
     pending_upstream_request |-> Member(json, "pending_upstream_request"),
     upstream_authorization |-> Member(json, "upstream_authorization"),
     enqueued_at |-> Member(json, "enqueued_at")]

\* A member that is missing, or null, reads as None.
Deserialize(json) ==
    [response |-> json.response,
     input |-> json.input,
     pending_upstream_request |-> Member(json, "pending_upstream_request") \ {Null},
     upstream_authorization |-> Member(json, "upstream_authorization"),
     enqueued_at |-> Member(json, "enqueued_at")]

Loaded == {Deserialize(json) : json \in key}

-----------------------------------------------------------------------------
(* Background transitions, as far as they build JSON                       *)

stored_response_status(rec) == rec.response.status

Live(rec) == stored_response_status(rec) # "deleted"

Terminal(rec) ==
    stored_response_status(rec) \in {"deleted", "cancelled", "completed", "failed"}

\* Mutant: a queued response is claimable without a request.
ClaimableQueued(rec) == stored_response_status(rec) = "queued"

Claimable(rec) ==
    rec.pending_upstream_request # {} /\ stored_response_status(rec) = "queued"

InFlight(rec) ==
    \/ rec.pending_upstream_request # {}
    \/ stored_response_status(rec) \in {"queued", "in_progress"}

Stale(rec) ==
    /\ InFlight(rec) /\ stored_response_status(rec) = "queued"
    /\ \E t \in rec.enqueued_at : ServerNow - t >= StaleSeconds

\* value["..."] = ... panics unless value is an object or null.
Assignable(value) == value.kind \in {"object", "null"}

\* The members that such assignments set.
Stamped(value, status) == Value("object", status, "key", value.body)

WithoutPayload(rec, response) ==
    [response |-> response, input |-> rec.input, pending_upstream_request |-> {},
     upstream_authorization |-> {}, enqueued_at |-> rec.enqueued_at]

\* Mutant: any JSON is taken for a result.
is_object_unchecked(v) == TRUE

is_object(v) == v.kind = "object"

-----------------------------------------------------------------------------
(* What the constants may be                                               *)

AtMostOne(S) == \A x, y \in S : x = y

\* value["status"] of a value that is no object is not a text.
IsValue(v) ==
    /\ v = Value(v.kind, v.status, v.id, v.body)
    /\ v.kind # "object" => v.status = "none"

IsText(t) == t \in {EmptyText, Malformed} \/ (t = to_string(t.value) /\ IsValue(t.value))

\* A StoredResponse: its options hold at most one value.
IsRecord(rec) ==
    /\ rec = [response |-> rec.response, input |-> rec.input,
              pending_upstream_request |-> rec.pending_upstream_request,
              upstream_authorization |-> rec.upstream_authorization,
              enqueued_at |-> rec.enqueued_at]
    /\ IsValue(rec.response)
    /\ rec.input = [i \in DOMAIN rec.input |-> rec.input[i]]
    /\ \A v \in rec.pending_upstream_request : IsValue(v)
    /\ AtMostOne(rec.pending_upstream_request)
    /\ AtMostOne(rec.upstream_authorization)
    /\ AtMostOne(rec.enqueued_at)

\* A protobuf StoredResponse, whose texts may be anything.
IsMessage(m) ==
    /\ IsText(m.response_json)
    /\ AtMostOne(m.pending_upstream_request_json)
    /\ \A t \in m.pending_upstream_request_json : IsText(t)
    /\ AtMostOne(m.upstream_authorization)
    /\ AtMostOne(m.enqueued_at)

ASSUME RecordsAssumption == \A rec \in Records : IsRecord(rec)
ASSUME ForeignAssumption == \A m \in Foreign : IsMessage(m)
ASSUME PreloadedAssumption == \A json \in Preloaded : IsRecord(Deserialize(json))

-----------------------------------------------------------------------------
(* RPCs                                                                    *)

\* granted is the payload of a claim that was answered OK; at most one.
Reply(code, recs, granted) ==
    reply' = [code |-> code, record |-> recs, granted |-> granted]

\* The answer carries rec, through core_to_proto and the client.
ReplyRecord(rec, granted) ==
    \E got \in from_proto_record(core_to_proto(rec)) : Reply("ok", {got}, granted)

Refuse(code) == Reply(code, {}, {}) /\ UNCHANGED <<key, want, panicked>>

\* What a protobuf record says, whoever wrote it.
Meaning(record) ==
    [response |-> record.response_json.value,
     input |-> [i \in DOMAIN record.input_json |-> record.input_json[i].value],
     pending_upstream_request |->
         {t.value : t \in record.pending_upstream_request_json} \ {Null},
     upstream_authorization |-> record.upstream_authorization,
     enqueued_at |-> record.enqueued_at]

require_record(record) == record.response_id # ""

\* Records reach the service from the Rust client or from elsewhere.
Sent == {to_proto_record(rec) : rec \in Records} \cup Foreign

Put(rec, meaning) ==
    /\ key' = {Serialize(rec)}
    /\ want' = {meaning}
    /\ Reply("ok", {}, {})
    /\ UNCHANGED panicked

StoreResponse(record) ==
    \/ /\ require_record(record)
       /\ \E core \in proto_to_core(record) : Put(core, Meaning(record))
    \/ /\ ~require_record(record) \/ proto_to_core(record) = {}
       /\ Refuse("invalid_argument")

UpdateResponse(record) ==
    \/ /\ require_record(record)
       /\ \E core \in proto_to_core(record) :
             \/ /\ \E rec \in Loaded : Live(rec)
                /\ Put(core, Meaning(record))
             \/ /\ \A rec \in Loaded : ~Live(rec)
                /\ Refuse("not_found")
    \/ /\ ~require_record(record) \/ proto_to_core(record) = {}
       /\ Refuse("invalid_argument")

\* Whatever time the caller put in, the server's is stored.
EnqueueBackgroundJob(record) ==
    \/ /\ require_record(record)
       /\ \E core \in proto_to_core(record) :
             Put([core EXCEPT !.enqueued_at = {ServerNow}],
                 [Meaning(record) EXCEPT !.enqueued_at = {ServerNow}])
    \/ /\ ~require_record(record) \/ proto_to_core(record) = {}
       /\ Refuse("invalid_argument")

GetResponse ==
    \/ \E rec \in Loaded :
          Live(rec) /\ ReplyRecord(rec, {}) /\ UNCHANGED <<key, want, panicked>>
    \/ (\A rec \in Loaded : ~Live(rec)) /\ Refuse("not_found")

DeleteResponse ==
    /\ \/ \E rec \in Loaded :
             /\ Live(rec) /\ InFlight(rec)
             /\ key' = {Serialize(WithoutPayload(rec, Envelope("deleted")))}
       \/ /\ \A rec \in Loaded : ~(Live(rec) /\ InFlight(rec))
          /\ key' = {}
    /\ want' = {}
    /\ Reply("ok", {}, {})
    /\ UNCHANGED panicked

\* The record of a job that ClaimBackgroundJobs answers (core_job_to_proto).
ClaimBackgroundJob ==
    \E rec \in Loaded : ReplyRecord(rec, {}) /\ UNCHANGED <<key, want, panicked>>

\* The handler wrote rec and answers with it, or panicked building it.
Transition(built, rec, granted) ==
    /\ panicked' = ~built
    /\ key' = IF built THEN {Serialize(rec)} ELSE key
    /\ IF built THEN ReplyRecord(rec, granted) ELSE Reply("unknown", {}, {})

\* What the claim of rec hands to the worker, through JSON of its own.
ClaimBackgroundPayload(rec) ==
    [pending_upstream_request |->
         UNION {from_str(to_string(v)) : v \in rec.pending_upstream_request},
     upstream_authorization |-> rec.upstream_authorization]

\* prepare_claim_background expects a request, and assigns members of the
\* response.
ClaimBackgroundResponse ==
    \/ \E rec \in Loaded :
          /\ Claimable(rec)
          /\ Transition(
                 rec.pending_upstream_request # {} /\ Assignable(rec.response),
                 [rec EXCEPT !.response = Stamped(@, "in_progress")],
                 {ClaimBackgroundPayload(rec)})
          /\ want' = {[w EXCEPT !.response = Stamped(@, "in_progress")] : w \in want}
    \/ \E rec \in Loaded : ~Claimable(rec) /\ Refuse("failed_precondition")
    \/ Loaded = {} /\ Refuse("not_found")

\* The handler asks for an object before the store is called, and so does
\* prepare_complete_background.
CompleteBackgroundResponse(text) ==
    \/ /\ \A v \in from_str(text) : ~is_object(v)
       /\ Refuse("invalid_argument")
    \/ \E v \in from_str(text) :
          /\ is_object(v)
          /\ \/ Loaded = {} /\ Refuse("not_found")
             \/ \E rec \in Loaded :
                   /\ stored_response_status(rec) # "in_progress"
                   /\ Refuse("failed_precondition")
             \/ \E rec \in Loaded :
                   /\ stored_response_status(rec) = "in_progress"
                   /\ Transition(Assignable(v),
                                 WithoutPayload(rec, Stamped(v, "completed")), {})
                   /\ want' = {WithoutPayload(w, Stamped(v, "completed")) : w \in want}

FailBackgroundResponse ==
    \/ \E rec \in Loaded :
          /\ ~Terminal(rec)
          /\ Claimable(rec) \/ stored_response_status(rec) = "in_progress"
          /\ Transition(TRUE, WithoutPayload(rec, Envelope("failed")), {})
          /\ want' = {WithoutPayload(w, Envelope("failed")) : w \in want}
    \/ \E rec \in Loaded :
          /\ ~Claimable(rec) /\ stored_response_status(rec) # "in_progress"
          /\ Refuse("failed_precondition")
    \/ Loaded = {} /\ Refuse("not_found")

ReconcileStaleResponse ==
    \/ \E rec \in Loaded :
          /\ Stale(rec)
          /\ Transition(TRUE, WithoutPayload(rec, Envelope("failed")), {})
          /\ want' = {WithoutPayload(w, Envelope("failed")) : w \in want}
    \/ \E rec \in Loaded :
          /\ Live(rec) /\ ~Stale(rec)
          /\ ReplyRecord(rec, {}) /\ UNCHANGED <<key, want, panicked>>
    \/ (\A rec \in Loaded : ~Live(rec)) /\ Refuse("not_found")

-----------------------------------------------------------------------------
Init ==
    /\ key \in {{}} \cup {{json} : json \in Preloaded}
    /\ want = Loaded
    /\ reply = [code |-> "none", record |-> {}, granted |-> {}]
    /\ panicked = FALSE

Next ==
    \/ \E record \in Sent :
          StoreResponse(record) \/ UpdateResponse(record) \/ EnqueueBackgroundJob(record)
    \/ GetResponse \/ DeleteResponse \/ ClaimBackgroundJob
    \/ ClaimBackgroundResponse \/ FailBackgroundResponse \/ ReconcileStaleResponse
    \/ \E text \in Outputs : CompleteBackgroundResponse(text)

Spec == Init /\ [][Next]_vars

-----------------------------------------------------------------------------
(* Properties                                                              *)

\* Whatever client reads a record, by GetResponse, with a job or from a
\* transition, gets what was written: no conversion drops, invents or
\* confuses a field, and a request that is null or "" counts as none.
ReadersSeeWhatWasWritten ==
    \A rec \in reply.record :
        rec \in want \/ (want = {} /\ stored_response_status(rec) = "deleted")

\* A claim that is answered OK hands over a request to run, with its
\* authorization: the one that the gateway gave, and that the record in the
\* answer and the one under the key keep for a retry (store.rs:517-532,
\* service.rs:320-338).  No claim is granted on a deleted response.
ClaimCarriesTheRequest ==
    \A payload \in reply.granted :
        /\ payload.pending_upstream_request \notin {{}, {Null}}
        /\ want # {}
        /\ \A rec \in want \cup reply.record \cup Loaded :
              /\ rec.pending_upstream_request = payload.pending_upstream_request
              /\ rec.upstream_authorization = payload.upstream_authorization

\* No handler panics on what a client sent or Redis holds: not the expect of
\* the claim (store.rs:523), nor an assignment to a member of a value that
\* is no object (store.rs:528-530, 558-560).
NoHandlerPanics == ~panicked
=============================================================================
