----------------------- MODULE RecordTransportProofs -----------------------
(***************************************************************************)
(* Records survive the protobuf and JSON conversions, for any records,     *)
(* messages, results and contents of the key that the assumptions of       *)
(* RecordTransport describe.                                               *)
(***************************************************************************)
EXTENDS RecordTransport, TLAPS

-----------------------------------------------------------------------------
(* The conversions                                                         *)

\* A sequence of values comes back from its texts.
LEMMA InputRoundTrip ==
    ASSUME NEW vs, vs = [i \in DOMAIN vs |-> vs[i]]
    PROVE  from_strs([i \in DOMAIN vs |-> to_string(vs[i])]) = {vs}
<1> DEFINE texts == [i \in DOMAIN vs |-> to_string(vs[i])]
<1>1. DOMAIN texts = DOMAIN vs
  OBVIOUS
<1>2. ASSUME NEW i \in DOMAIN vs
      PROVE  texts[i].value = vs[i] /\ from_str(texts[i]) = {vs[i]}
  <2>1. texts[i] = [form |-> "json", value |-> vs[i]]
    BY DEF to_string
  <2> HIDE DEF texts
  <2> QED BY <2>1 DEF from_str
<1> HIDE DEF texts
<1>3. \A i \in DOMAIN texts : from_str(texts[i]) # {}
  BY <1>1, <1>2
<1>4. {TRUE} \cap {\A i \in DOMAIN texts : from_str(texts[i]) # {}} = {TRUE}
  BY <1>3
<1>5. [i \in DOMAIN texts |-> texts[i].value] = [i \in DOMAIN vs |-> vs[i]]
  BY <1>1, <1>2
<1>6. from_strs(texts) = {vs}
  BY <1>4, <1>5 DEF from_strs
<1> QED BY <1>6 DEF texts

\* A record comes back from core_to_proto (convert.rs) as it was.
LEMMA ProtoRoundTrip ==
    ASSUME NEW rec, IsRecord(rec)
    PROVE  from_proto_record(core_to_proto(rec)) = {rec}
<1> DEFINE m == core_to_proto(rec)
<1>1. from_str(m.response_json) = {rec.response}
  BY DEF core_to_proto, from_str, to_string
<1>2. from_strs(m.input_json) = {rec.input}
  BY InputRoundTrip DEF core_to_proto, IsRecord
<1>3. pending_from_proto(m.pending_upstream_request_json) = {rec.pending_upstream_request}
  <2>1. m.pending_upstream_request_json =
            {[form |-> "json", value |-> v] : v \in rec.pending_upstream_request}
    BY DEF core_to_proto, to_string
  <2>2. CASE rec.pending_upstream_request = {}
    BY <2>1, <2>2 DEF pending_from_proto
  <2>3. CASE rec.pending_upstream_request # {}
    <3>1. PICK v : rec.pending_upstream_request = {v}
      BY <2>3 DEF IsRecord, AtMostOne
    <3>2. m.pending_upstream_request_json = {[form |-> "json", value |-> v]}
      BY <2>1, <3>1
    <3> HIDE DEF m
    <3>3. UNION {from_str(t) : t \in m.pending_upstream_request_json} = {v}
      BY <3>2 DEF from_str
    <3> QED BY <3>1, <3>2, <3>3 DEF pending_from_proto
  <2> QED BY <2>2, <2>3
<1>4. m.upstream_authorization = rec.upstream_authorization /\ m.enqueued_at = rec.enqueued_at
  BY DEF core_to_proto
<1> HIDE DEF m
<1>5. proto_to_core(m) =
        {[response |-> rec.response, input |-> rec.input,
          pending_upstream_request |-> rec.pending_upstream_request,
          upstream_authorization |-> rec.upstream_authorization,
          enqueued_at |-> rec.enqueued_at]}
  BY <1>1, <1>2, <1>3, <1>4 DEF proto_to_core
<1> QED BY <1>5 DEF IsRecord, from_proto_record, m

\* A record that was serialized under its key reads back as it was, only
\* that a request that is null reads as none (model.rs).
LEMMA KeyRoundTrip ==
    ASSUME NEW rec, IsRecord(rec)
    PROVE  /\ Deserialize(Serialize(rec)) =
                [rec EXCEPT !.pending_upstream_request = @ \ {Null}]
           /\ IsRecord(Deserialize(Serialize(rec)))
<1> DEFINE json == Serialize(rec)
<1>1. DOMAIN rec = {"response", "input", "pending_upstream_request",
                    "upstream_authorization", "enqueued_at"}
  BY DEF IsRecord
<1>2. json.response = rec.response /\ json.input = rec.input
  BY <1>1 DEF Serialize, Optional
<1>3. ASSUME NEW f \in Optional, AtMostOne(rec[f])
      PROVE  Member(json, f) = rec[f]
  <2>1. CASE rec[f] = {}
    BY <1>1, <2>1 DEF Serialize, Optional, Member
  <2>2. CASE rec[f] # {}
    <3>1. PICK v : rec[f] = {v}
      BY <1>3, <2>2 DEF AtMostOne
    <3>2. f \in DOMAIN json /\ json[f] = CHOOSE x \in rec[f] : TRUE
      BY <1>1, <2>2 DEF Serialize, Optional
    <3> QED BY <3>1, <3>2 DEF Member
  <2> QED BY <2>1, <2>2
<1>4. /\ Member(json, "pending_upstream_request") = rec.pending_upstream_request
      /\ Member(json, "upstream_authorization") = rec.upstream_authorization
      /\ Member(json, "enqueued_at") = rec.enqueued_at
  BY <1>3 DEF IsRecord, Optional
<1> HIDE DEF json
<1>5. Deserialize(json) =
        [response |-> rec.response, input |-> rec.input,
         pending_upstream_request |-> rec.pending_upstream_request \ {Null},
         upstream_authorization |-> rec.upstream_authorization,
         enqueued_at |-> rec.enqueued_at]
  BY <1>2, <1>4 DEF Deserialize
<1> QED BY <1>5 DEF IsRecord, AtMostOne, json

\* What the service makes of a message it accepts, once it was under the
\* key, is what the message says, whether the Rust client or another wrote
\* it (convert.rs, proto_to_core).
LEMMA AcceptedMeaning ==
    ASSUME NEW m, IsMessage(m), NEW core \in proto_to_core(m)
    PROVE  /\ IsRecord(core)
           /\ Deserialize(Serialize(core)) = Meaning(m)
<1>1. PICK v \in from_str(m.response_json), vs \in from_strs(m.input_json),
           pending \in pending_from_proto(m.pending_upstream_request_json) :
        core = [response |-> v, input |-> vs, pending_upstream_request |-> pending,
                upstream_authorization |-> m.upstream_authorization,
                enqueued_at |-> m.enqueued_at]
  BY DEF proto_to_core
<1>2. v = m.response_json.value /\ IsValue(v)
  <2>1. m.response_json.form = "json" /\ v = m.response_json.value
    BY <1>1 DEF from_str
  <2> QED BY <2>1 DEF IsMessage, IsText, EmptyText, Malformed
<1>3. vs = [i \in DOMAIN m.input_json |-> m.input_json[i].value]
  BY <1>1 DEF from_strs
<1>4. vs = [i \in DOMAIN vs |-> vs[i]]
  BY <1>3
<1>5. /\ AtMostOne(pending) /\ \A x \in pending : IsValue(x)
      /\ pending \ {Null} = {t.value : t \in m.pending_upstream_request_json} \ {Null}
  <2>1. CASE \E t \in m.pending_upstream_request_json : t.form # "empty"
    <3>1. PICK t \in m.pending_upstream_request_json : t.form # "empty"
      BY <2>1
    <3>2. m.pending_upstream_request_json = {t}
      BY <3>1 DEF IsMessage, AtMostOne
    <3>3. pending \in {{x} : x \in from_str(t)}
      BY <1>1, <2>1, <3>2 DEF pending_from_proto
    <3>4. pending = {t.value} /\ t.form = "json"
      BY <3>3 DEF from_str
    <3>5. IsValue(t.value)
      BY <3>4 DEF IsMessage, IsText, EmptyText, Malformed
    <3> QED BY <3>2, <3>4, <3>5 DEF AtMostOne
  <2>2. CASE \A t \in m.pending_upstream_request_json : t.form = "empty"
    <3>1. pending = {}
      BY <1>1, <2>2 DEF pending_from_proto
    <3>2. \A t \in m.pending_upstream_request_json : t.value = Null
      BY <2>2 DEF IsMessage, IsText, EmptyText, Malformed, to_string
    <3> QED BY <3>1, <3>2 DEF AtMostOne
  <2> QED BY <2>1, <2>2
<1>6. IsRecord(core)
  BY <1>1, <1>2, <1>4, <1>5 DEF IsRecord, IsMessage
<1>7. Deserialize(Serialize(core)) = [core EXCEPT !.pending_upstream_request = @ \ {Null}]
  BY <1>6, KeyRoundTrip
<1>8. [core EXCEPT !.pending_upstream_request = @ \ {Null}] =
        [response |-> v, input |-> vs, pending_upstream_request |-> pending \ {Null},
         upstream_authorization |-> m.upstream_authorization,
         enqueued_at |-> m.enqueued_at]
  BY <1>1
<1> QED BY <1>2, <1>3, <1>5, <1>6, <1>7, <1>8 DEF Meaning

\* The Rust client's messages are messages.
LEMMA SentIsMessage == \A m \in Sent : IsMessage(m)
<1>1. ASSUME NEW rec, IsRecord(rec)
      PROVE  IsMessage(to_proto_record(rec))
  <2> DEFINE m == to_proto_record(rec)
  <2>1. /\ m.response_json = to_string(rec.response)
        /\ m.pending_upstream_request_json = {to_string(v) : v \in rec.pending_upstream_request}
        /\ m.upstream_authorization = rec.upstream_authorization
        /\ m.enqueued_at = rec.enqueued_at
    BY DEF to_proto_record, core_to_proto
  <2> HIDE DEF m
  <2>2. \A v : IsValue(v) => IsText(to_string(v))
    BY DEF IsText, to_string
  <2>3. AtMostOne(m.pending_upstream_request_json)
    BY <1>1, <2>1 DEF IsRecord, AtMostOne
  <2> QED BY <1>1, <2>1, <2>2, <2>3 DEF IsMessage, IsRecord, m
<1> QED BY <1>1, RecordsAssumption, ForeignAssumption DEF Sent

-----------------------------------------------------------------------------
(* The invariant                                                           *)

\* What a reader finds under the key: at most one record, well formed, with
\* no request that is null.
KeyInv ==
    /\ AtMostOne(key)
    /\ \A rec \in Loaded : IsRecord(rec) /\ Null \notin rec.pending_upstream_request

\* It is what was written, or a tombstone of it.
WantInv ==
    \/ want = Loaded
    \/ want = {} /\ \A rec \in Loaded : stored_response_status(rec) = "deleted"

TransportInv ==
    /\ KeyInv /\ WantInv
    /\ ReadersSeeWhatWasWritten /\ ClaimCarriesTheRequest /\ NoHandlerPanics

\* There is no other record than the one that was loaded.
LEMMA LoadedOnce ==
    ASSUME KeyInv, NEW rec \in Loaded
    PROVE  Loaded = {rec} /\ key # {}
BY DEF KeyInv, AtMostOne, Loaded

\* A refusal changes nothing and carries nothing.
LEMMA RefuseKeeps ==
    ASSUME TransportInv, NEW code, Refuse(code)
    PROVE  TransportInv'
<1>1. Loaded' = Loaded /\ UNCHANGED <<key, want, panicked>>
  BY DEF Refuse, Loaded
<1>2. reply'.record = {} /\ reply'.granted = {}
  BY DEF Refuse, Reply
<1> QED BY <1>1, <1>2 DEF TransportInv, KeyInv, WantInv, ReadersSeeWhatWasWritten,
           ClaimCarriesTheRequest, NoHandlerPanics

\* An answer with the record that is stored.
LEMMA ReadKeeps ==
    ASSUME TransportInv, NEW rec \in Loaded, ReplyRecord(rec, {}),
           UNCHANGED <<key, want, panicked>>
    PROVE  TransportInv'
<1>1. Loaded' = Loaded
  BY DEF Loaded
<1>2. reply'.record = {rec} /\ reply'.granted = {}
  <2>1. from_proto_record(core_to_proto(rec)) = {rec}
    BY ProtoRoundTrip DEF TransportInv, KeyInv
  <2> QED BY <2>1 DEF ReplyRecord, Reply
<1> QED BY <1>1, <1>2 DEF TransportInv, KeyInv, WantInv, ReadersSeeWhatWasWritten,
           ClaimCarriesTheRequest, NoHandlerPanics

\* A write of a whole record.
LEMMA PutKeeps ==
    ASSUME TransportInv, NEW core, IsRecord(core), NEW meaning,
           Deserialize(Serialize(core)) = meaning, Put(core, meaning)
    PROVE  TransportInv'
<1>1. key' = {Serialize(core)} /\ Loaded' = {meaning} /\ want' = {meaning}
  BY DEF Put, Loaded
<1>2. IsRecord(meaning) /\ Null \notin meaning.pending_upstream_request
  <2>1. IsRecord(meaning) /\ meaning = [core EXCEPT !.pending_upstream_request = @ \ {Null}]
    BY KeyRoundTrip
  <2>2. meaning.pending_upstream_request = core.pending_upstream_request \ {Null}
    BY <2>1 DEF IsRecord
  <2> QED BY <2>1, <2>2
<1>3. reply'.record = {} /\ reply'.granted = {} /\ panicked' = panicked
  BY DEF Put, Reply
<1> QED BY <1>1, <1>2, <1>3 DEF TransportInv, KeyInv, WantInv, AtMostOne,
           ReadersSeeWhatWasWritten, ClaimCarriesTheRequest, NoHandlerPanics

\* A background transition that writes rec and answers with it.
LEMMA TransitionKeeps ==
    ASSUME TransportInv, NEW rec, IsRecord(rec), NEW granted,
           Null \notin rec.pending_upstream_request,
           \A payload \in granted :
              /\ payload.pending_upstream_request = rec.pending_upstream_request
              /\ payload.upstream_authorization = rec.upstream_authorization
              /\ rec.pending_upstream_request # {},
           Transition(TRUE, rec, granted), want' = {rec}
    PROVE  TransportInv'
<1>1. Deserialize(Serialize(rec)) = rec
  <2>1. Deserialize(Serialize(rec)) = [rec EXCEPT !.pending_upstream_request = @ \ {Null}]
    BY KeyRoundTrip
  <2>2. rec.pending_upstream_request \ {Null} = rec.pending_upstream_request
    OBVIOUS
  <2> QED BY <2>1, <2>2 DEF IsRecord
<1>2. key' = {Serialize(rec)} /\ Loaded' = {rec} /\ panicked' = FALSE
  BY <1>1 DEF Transition, Loaded
<1>3. reply'.record = {rec} /\ reply'.granted = granted
  <2>1. from_proto_record(core_to_proto(rec)) = {rec}
    BY ProtoRoundTrip
  <2> QED BY <2>1 DEF Transition, ReplyRecord, Reply
<1> QED BY <1>2, <1>3 DEF TransportInv, KeyInv, WantInv, AtMostOne,
           ReadersSeeWhatWasWritten, ClaimCarriesTheRequest, NoHandlerPanics

\* The records that transitions build are records.
LEMMA BuiltIsRecord ==
    ASSUME NEW rec, IsRecord(rec), NEW status, NEW v
    PROVE  /\ IsRecord([rec EXCEPT !.response = Stamped(@, status)])
           /\ IsRecord(WithoutPayload(rec, Stamped(v, status)))
           /\ IsRecord(WithoutPayload(rec, Envelope(status)))
           /\ WithoutPayload(rec, v).pending_upstream_request = {}
           /\ [rec EXCEPT !.response = Stamped(@, status)].pending_upstream_request
              = rec.pending_upstream_request
           /\ [rec EXCEPT !.response = Stamped(@, status)].upstream_authorization
              = rec.upstream_authorization
           /\ stored_response_status(WithoutPayload(rec, Envelope(status))) = status
<1>1. IsValue(Stamped(v, status)) /\ IsValue(Envelope(status))
      /\ IsValue(Stamped(rec.response, status))
  BY DEF IsValue, Stamped, Envelope, Value
<1>2. ASSUME NEW x, IsValue(x)
      PROVE  /\ IsRecord(WithoutPayload(rec, x))
             /\ WithoutPayload(rec, x).response = x
  <2> DEFINE y == WithoutPayload(rec, x)
  <2>1. y = [response |-> x, input |-> rec.input, pending_upstream_request |-> {},
             upstream_authorization |-> {}, enqueued_at |-> rec.enqueued_at]
    BY DEF WithoutPayload
  <2> HIDE DEF y
  <2>2. /\ y.response = x /\ y.input = rec.input /\ y.enqueued_at = rec.enqueued_at
        /\ y.pending_upstream_request = {} /\ y.upstream_authorization = {}
    BY <2>1
  <2>3. rec.input = [i \in DOMAIN rec.input |-> rec.input[i]] /\ AtMostOne(rec.enqueued_at)
    BY DEF IsRecord
  <2>4. AtMostOne({})
    BY DEF AtMostOne
  <2>5. y.input = [i \in DOMAIN y.input |-> y.input[i]]
    BY <2>2, <2>3
  <2>6. IsRecord(y)
    BY <1>2, <2>1, <2>2, <2>3, <2>4, <2>5 DEF IsRecord
  <2> QED BY <2>2, <2>6 DEF y
<1>3. WithoutPayload(rec, v).pending_upstream_request = {}
  BY DEF WithoutPayload
<1>4. /\ IsRecord([rec EXCEPT !.response = Stamped(@, status)])
      /\ [rec EXCEPT !.response = Stamped(@, status)].pending_upstream_request
         = rec.pending_upstream_request
      /\ [rec EXCEPT !.response = Stamped(@, status)].upstream_authorization
         = rec.upstream_authorization
  BY <1>1 DEF IsRecord
<1>5. Envelope(status).status = status
  BY DEF Envelope, Value
<1> QED BY <1>1, <1>2, <1>3, <1>4, <1>5 DEF stored_response_status

\* A live record is the one that was written.
LEMMA LiveIsWanted ==
    ASSUME TransportInv, NEW rec \in Loaded, Live(rec)
    PROVE  want = {rec}
BY LoadedOnce DEF TransportInv, WantInv, Live

\* The RPCs that write a record.
LEMMA WriteActions ==
    ASSUME TransportInv, NEW m \in Sent,
           StoreResponse(m) \/ UpdateResponse(m) \/ EnqueueBackgroundJob(m)
    PROVE  TransportInv'
<1>1. IsMessage(m)
  BY SentIsMessage
<1>2. ASSUME NEW core \in proto_to_core(m), Put(core, Meaning(m))
      PROVE  TransportInv'
  BY <1>1, <1>2, AcceptedMeaning, PutKeeps
<1>3. ASSUME NEW core \in proto_to_core(m),
             Put([core EXCEPT !.enqueued_at = {ServerNow}],
                 [Meaning(m) EXCEPT !.enqueued_at = {ServerNow}])
      PROVE  TransportInv'
  <2> DEFINE dated == [core EXCEPT !.enqueued_at = {ServerNow}]
  <2>1. IsRecord(core) /\ Deserialize(Serialize(core)) = Meaning(m)
    BY <1>1, AcceptedMeaning
  <2>2. IsRecord(dated)
    BY <2>1 DEF IsRecord, AtMostOne
  <2>3. Deserialize(Serialize(dated)) =
          [dated EXCEPT !.pending_upstream_request = @ \ {Null}]
    BY <2>2, KeyRoundTrip
  <2>4. Meaning(m) = [core EXCEPT !.pending_upstream_request = @ \ {Null}]
    BY <2>1, KeyRoundTrip
  <2>5. [dated EXCEPT !.pending_upstream_request = @ \ {Null}]
        = [Meaning(m) EXCEPT !.enqueued_at = {ServerNow}]
    BY <2>1, <2>4 DEF IsRecord
  <2> HIDE DEF dated
  <2>6. Deserialize(Serialize(dated)) = [Meaning(m) EXCEPT !.enqueued_at = {ServerNow}]
    BY <2>3, <2>5
  <2>7. Put(dated, [Meaning(m) EXCEPT !.enqueued_at = {ServerNow}])
    BY <1>3 DEF dated
  <2> QED BY <2>2, <2>6, <2>7, PutKeeps
<1> QED BY <1>2, <1>3, RefuseKeeps DEF StoreResponse, UpdateResponse, EnqueueBackgroundJob

\* DeleteResponse leaves nothing, or a tombstone.
LEMMA DeleteAction ==
    ASSUME TransportInv, DeleteResponse
    PROVE  TransportInv'
<1>1. reply'.record = {} /\ reply'.granted = {} /\ panicked' = panicked /\ want' = {}
  BY DEF DeleteResponse, Reply
<1>2. CASE key' = {}
  <2>1. Loaded' = {}
    BY <1>2 DEF Loaded
  <2> QED BY <1>1, <1>2, <2>1 DEF TransportInv, KeyInv, WantInv, AtMostOne,
             ReadersSeeWhatWasWritten, ClaimCarriesTheRequest, NoHandlerPanics
<1>3. ASSUME NEW rec \in Loaded,
             key' = {Serialize(WithoutPayload(rec, Envelope("deleted")))}
      PROVE  TransportInv'
  <2> DEFINE tombstone == WithoutPayload(rec, Envelope("deleted"))
  <2>1. /\ IsRecord(tombstone) /\ tombstone.pending_upstream_request = {}
        /\ stored_response_status(tombstone) = "deleted"
    BY BuiltIsRecord DEF TransportInv, KeyInv
  <2> HIDE DEF tombstone
  <2>2. Deserialize(Serialize(tombstone)) = tombstone
    <3>1. Deserialize(Serialize(tombstone))
          = [tombstone EXCEPT !.pending_upstream_request = @ \ {Null}]
      BY <2>1, KeyRoundTrip
    <3> QED BY <2>1, <3>1 DEF IsRecord
  <2>3. key' = {Serialize(tombstone)} /\ Loaded' = {tombstone}
    BY <1>3, <2>2 DEF tombstone, Loaded
  <2> QED BY <1>1, <2>1, <2>3 DEF TransportInv, KeyInv, WantInv, AtMostOne,
             ReadersSeeWhatWasWritten, ClaimCarriesTheRequest, NoHandlerPanics
<1> QED BY <1>2, <1>3 DEF DeleteResponse

\* The background transitions.  A record with a status is an object, so that
\* the assignments of the claim do not panic.
LEMMA TransitionActions ==
    ASSUME TransportInv,
           \/ ClaimBackgroundResponse \/ FailBackgroundResponse \/ ReconcileStaleResponse
           \/ \E text \in Outputs : CompleteBackgroundResponse(text)
    PROVE  TransportInv'
<1>1. \A rec \in Loaded : IsRecord(rec) /\ Null \notin rec.pending_upstream_request
  BY DEF TransportInv, KeyInv
<1>2. ASSUME NEW rec \in Loaded, NEW status, Live(rec),
             Transition(TRUE, WithoutPayload(rec, Envelope(status)), {}),
             want' = {WithoutPayload(w, Envelope(status)) : w \in want}
      PROVE  TransportInv'
  <2> DEFINE ended == WithoutPayload(rec, Envelope(status))
  <2>1. IsRecord(ended) /\ ended.pending_upstream_request = {}
    BY <1>1, BuiltIsRecord
  <2>2. want' = {ended}
    BY <1>2, LiveIsWanted
  <2> QED BY <1>2, <2>1, <2>2, TransitionKeeps
<1>3. CASE ClaimBackgroundResponse
  <2>1. ASSUME NEW rec \in Loaded, Claimable(rec),
               Transition(
                   rec.pending_upstream_request # {} /\ Assignable(rec.response),
                   [rec EXCEPT !.response = Stamped(@, "in_progress")],
                   {ClaimBackgroundPayload(rec)}),
               want' = {[w EXCEPT !.response = Stamped(@, "in_progress")] : w \in want}
        PROVE  TransportInv'
    <3> DEFINE claimed == [rec EXCEPT !.response = Stamped(@, "in_progress")]
    <3>1. (rec.pending_upstream_request # {} /\ Assignable(rec.response)) = TRUE
      BY <1>1, <2>1 DEF IsRecord, IsValue, Claimable, stored_response_status, Assignable
    <3>2. /\ IsRecord(claimed)
          /\ claimed.pending_upstream_request = rec.pending_upstream_request
          /\ claimed.upstream_authorization = rec.upstream_authorization
      BY <1>1, BuiltIsRecord
    <3>3. want' = {claimed}
      BY <2>1, LiveIsWanted DEF Live, Claimable
    <3>4. Transition(TRUE, claimed, {ClaimBackgroundPayload(rec)})
      BY <2>1, <3>1
    <3>5. /\ ClaimBackgroundPayload(rec).pending_upstream_request = rec.pending_upstream_request
          /\ ClaimBackgroundPayload(rec).upstream_authorization = rec.upstream_authorization
      <4>1. \A v : from_str(to_string(v)) = {v}
        BY DEF from_str, to_string
      <4>2. UNION {from_str(to_string(v)) : v \in rec.pending_upstream_request}
            = rec.pending_upstream_request
        BY <4>1
      <4> QED BY <4>2 DEF ClaimBackgroundPayload
    <3>6. rec.pending_upstream_request # {}
      BY <2>1 DEF Claimable
    <3> HIDE DEF claimed
    <3>7. Null \notin claimed.pending_upstream_request
      BY <1>1, <3>2
    <3>8. \A payload \in {ClaimBackgroundPayload(rec)} :
             /\ payload.pending_upstream_request = claimed.pending_upstream_request
             /\ payload.upstream_authorization = claimed.upstream_authorization
             /\ claimed.pending_upstream_request # {}
      BY <3>2, <3>5, <3>6
    <3> QED BY <3>2, <3>3, <3>4, <3>7, <3>8, TransitionKeeps, Zenon
  <2> QED BY <1>3, <2>1, RefuseKeeps DEF ClaimBackgroundResponse
<1>4. CASE FailBackgroundResponse
  BY <1>2, <1>4, RefuseKeeps DEF FailBackgroundResponse, Live, Terminal
<1>5. CASE ReconcileStaleResponse
  <2>1. \A rec \in Loaded : Stale(rec) => Live(rec)
    BY DEF Stale, Live
  <2> QED BY <1>2, <1>5, <2>1, ReadKeeps, RefuseKeeps DEF ReconcileStaleResponse
<1>6. ASSUME NEW text \in Outputs, CompleteBackgroundResponse(text)
      PROVE  TransportInv'
  <2>1. ASSUME NEW v, is_object(v), NEW rec \in Loaded,
               stored_response_status(rec) = "in_progress",
               Transition(Assignable(v), WithoutPayload(rec, Stamped(v, "completed")), {}),
               want' = {WithoutPayload(w, Stamped(v, "completed")) : w \in want}
        PROVE  TransportInv'
    <3> DEFINE ended == WithoutPayload(rec, Stamped(v, "completed"))
    <3>1. IsRecord(ended) /\ ended.pending_upstream_request = {}
      BY <1>1, BuiltIsRecord
    <3>2. want' = {ended}
      BY <2>1, LiveIsWanted DEF Live
    <3>3. Assignable(v) = TRUE
      BY <2>1 DEF Assignable, is_object
    <3>4. Transition(TRUE, ended, {})
      BY <2>1, <3>3
    <3> HIDE DEF ended
    <3> QED BY <3>1, <3>2, <3>4, TransitionKeeps
  <2> QED BY <1>6, <2>1, RefuseKeeps DEF CompleteBackgroundResponse
<1> QED BY <1>3, <1>4, <1>5, <1>6

\* Every RPC keeps the invariant.
LEMMA TransportStep == TransportInv /\ [Next]_vars => TransportInv'
<1> SUFFICES ASSUME TransportInv, [Next]_vars PROVE TransportInv'
  OBVIOUS
<1>1. CASE GetResponse \/ ClaimBackgroundJob
  BY <1>1, ReadKeeps, RefuseKeeps DEF GetResponse, ClaimBackgroundJob
<1>2. CASE UNCHANGED vars
  BY <1>2 DEF vars, TransportInv, KeyInv, WantInv, Loaded, ReadersSeeWhatWasWritten,
     ClaimCarriesTheRequest, NoHandlerPanics
<1> QED BY <1>1, <1>2, WriteActions, DeleteAction, TransitionActions DEF Next

LEMMA TransportInit == Init => TransportInv
<1> SUFFICES ASSUME Init PROVE TransportInv
  OBVIOUS
<1>1. AtMostOne(key)
  BY DEF Init, AtMostOne
<1>2. ASSUME NEW rec \in Loaded
      PROVE  IsRecord(rec) /\ Null \notin rec.pending_upstream_request
  <2>1. PICK json \in Preloaded : rec = Deserialize(json)
    BY DEF Init, Loaded
  <2> QED BY <2>1, PreloadedAssumption DEF Deserialize
<1>3. reply.record = {} /\ reply.granted = {} /\ ~panicked /\ want = Loaded
  BY DEF Init
<1> QED BY <1>1, <1>2, <1>3 DEF TransportInv, KeyInv, WantInv,
           ReadersSeeWhatWasWritten, ClaimCarriesTheRequest, NoHandlerPanics

\* The three properties follow from one invariant.
LEMMA Invariant == Spec => []TransportInv
BY TransportInit, TransportStep, PTL DEF Spec

\* What a client reads is what was written, whatever records, messages and
\* keys there are: neither convert.rs, nor the client's conversions, nor the
\* serde attributes of StoredResponse lose, invent or confuse a field.
THEOREM ReadsAreWrites == Spec => []ReadersSeeWhatWasWritten
<1>1. TransportInv => ReadersSeeWhatWasWritten
  BY DEF TransportInv
<1> QED BY <1>1, Invariant, PTL

\* A ClaimBackgroundResponse that is answered OK, whatever was stored before,
\* hands over a request that is not null, the one the gateway gave, with its
\* authorization; the record keeps both (store.rs:517-532).
THEOREM ClaimsCarryRequests == Spec => []ClaimCarriesTheRequest
<1>1. TransportInv => ClaimCarriesTheRequest
  BY DEF TransportInv
<1> QED BY <1>1, Invariant, PTL

\* No handler panics: whatever JSON clients store and workers send, a claim
\* that gets to the expect has a request (store.rs:523), and the values whose
\* members are assigned are objects (store.rs:528-530, 558-560).
THEOREM HandlersDoNotPanic == Spec => []NoHandlerPanics
<1>1. TransportInv => NoHandlerPanics
  BY DEF TransportInv
<1> QED BY <1>1, Invariant, PTL
=============================================================================
