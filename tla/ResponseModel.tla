--------------------------- MODULE ResponseModel ---------------------------
(***************************************************************************)
(* The stored response record and the pure functions on it                 *)
(* (crates/core/src/model.rs and the prepare functions of                  *)
(* crates/core/src/store.rs).                                              *)
(*                                                                         *)
(* Of a record the model keeps what the code branches on: the "status" and *)
(* "background" members of the response JSON, whether the pending upstream *)
(* request and the upstream authorization are present, and enqueued_at.    *)
(* An Option is a set with at most one element.                            *)
(***************************************************************************)
EXTENDS Integers

\* "none" stands for a response without a status string, or with one that
\* the code does not recognise.
Statuses == {"none", "queued", "in_progress", "completed", "failed",
             "cancelled", "deleted"}

StoredResponse ==
    [status : Statuses,
     background : BOOLEAN,
     pending_upstream_request : BOOLEAN,
     upstream_authorization : BOOLEAN,
     enqueued_at : SUBSET Int]

\* A key that is not in Redis.  It has the fields of a record, so that
\* the predicates below need no guard, and a status no record has.
Absent ==
    [status |-> "absent",
     background |-> FALSE,
     pending_upstream_request |-> FALSE,
     upstream_authorization |-> FALSE,
     enqueued_at |-> {}]

-----------------------------------------------------------------------------
(* Predicates of model.rs                                                  *)

is_deleted_tombstone(stored) == stored.status = "deleted"

is_terminal_background_status(stored) ==
    \/ is_deleted_tombstone(stored)
    \/ stored.status \in {"cancelled", "completed", "failed"}

is_claimable_background(stored) ==
    stored.pending_upstream_request /\ stored.status = "queued"

is_in_progress_background(stored) == stored.status = "in_progress"

is_in_flight_background(stored) ==
    \/ stored.pending_upstream_request
    \/ stored.status \in {"queued", "in_progress"}

\* Mutant: a record that a worker could still claim is left alone.
should_reconcile_stale_unclaimable(stored) ==
    stored.status = "queued" /\ ~is_claimable_background(stored)

should_reconcile_stale(stored) ==
    is_in_flight_background(stored) /\ stored.status = "queued"

is_stale_enqueued(enqueued_at, now, stale_seconds) ==
    \E t \in enqueued_at : now - t >= stale_seconds

-----------------------------------------------------------------------------
(* When each background transition is allowed, and the record it writes    *)

\* A background record without its upstream payload.
Ended(stored, status) ==
    [status |-> status,
     background |-> TRUE,
     pending_upstream_request |-> FALSE,
     upstream_authorization |-> FALSE,
     enqueued_at |-> stored.enqueued_at]

can_claim(stored) ==
    /\ ~is_terminal_background_status(stored)
    /\ ~is_in_progress_background(stored)
    /\ is_claimable_background(stored)

\* Mutant: the payload moves to the worker.
prepare_claim_background_taking(stored) == Ended(stored, "in_progress")

\* The record keeps its pending request and authorization.
prepare_claim_background(stored) ==
    [status |-> "in_progress",
     background |-> TRUE,
     pending_upstream_request |-> stored.pending_upstream_request,
     upstream_authorization |-> stored.upstream_authorization,
     enqueued_at |-> stored.enqueued_at]

\* Mutant: only a deletion or a cancellation refuses a result.
can_complete_again(stored) == stored.status \in {"in_progress", "completed"}

can_complete(stored) ==
    /\ ~is_terminal_background_status(stored)
    /\ is_in_progress_background(stored)

\* Whatever status the worker's JSON carries, "completed" is stored.
prepare_complete_background(stored) == Ended(stored, "completed")

can_fail(stored) ==
    /\ ~is_terminal_background_status(stored)
    /\ is_claimable_background(stored) \/ is_in_progress_background(stored)

prepare_fail_background(stored) == Ended(stored, "failed")

can_reconcile_stale(stored, now, stale_seconds) ==
    /\ should_reconcile_stale(stored)
    /\ is_stale_enqueued(stored.enqueued_at, now, stale_seconds)

\* Mutant: the failure envelope carries no status.
apply_stale_failure_unlabelled(stored) == Ended(stored, "none")

apply_stale_failure(stored) == Ended(stored, "failed")

tombstone_deleted_background(stored) == Ended(stored, "deleted")

-----------------------------------------------------------------------------
(* Lifetimes                                                               *)

\* Mutant: the 0 of a key's last second is passed on to SETEX.
reconcile_write_ttl_unchecked(redis_ttl, default_ttl_seconds) ==
    IF redis_ttl >= 0 THEN redis_ttl ELSE default_ttl_seconds

\* Mutant: every transition starts the default lifetime.
reconcile_write_ttl_default(redis_ttl, default_ttl_seconds) ==
    default_ttl_seconds

\* The seconds a transition re-arms on the key, from Redis' TTL reply: -2
\* for a missing key, -1 for a key without expiry, 0 for one about to go.
reconcile_write_ttl(redis_ttl, default_ttl_seconds) ==
    IF redis_ttl = 0 THEN 1
    ELSE IF redis_ttl > 0 THEN redis_ttl
    ELSE default_ttl_seconds
=============================================================================
