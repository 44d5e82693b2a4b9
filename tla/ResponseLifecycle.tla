------------------------- MODULE ResponseLifecycle -------------------------
(***************************************************************************)
(* What the response store promises about a record, with every RPC         *)
(* reduced to the one instant at which it takes effect.                    *)
(*                                                                         *)
(* The background transitions (claim, complete, fail, reconcile) read and  *)
(* replace the record in one step, and only when the record they replace   *)
(* allows them.  StoreResponse and UpdateResponse overwrite, DeleteResponse*)
(* removes or leaves a tombstone, and Redis drops keys as time passes.     *)
(***************************************************************************)
EXTENDS ResponseModel

CONSTANTS
    Ids,         \* the response ids
    Writable,    \* the records StoreResponse and UpdateResponse write
    Thresholds   \* the stale_seconds a reconcile may be asked with

VARIABLES
    now,         \* unix time, in seconds
    db           \* db[id] is the record under id's key, or Absent

-----------------------------------------------------------------------------
Claim(before, after) ==
    can_claim(before) /\ after = prepare_claim_background(before)

Complete(before, after) ==
    can_complete(before) /\ after = prepare_complete_background(before)

Fail(before, after) ==
    can_fail(before) /\ after = prepare_fail_background(before)

ReconcileStale(before, after, clock) ==
    /\ \E s \in Thresholds : can_reconcile_stale(before, clock, s)
    /\ after = apply_stale_failure(before)

\* The change of one record that a background RPC may make when the clock
\* shows `clock'.
Transition(before, after, clock) ==
    \/ Claim(before, after)
    \/ Complete(before, after)
    \/ Fail(before, after)
    \/ ReconcileStale(before, after, clock)

\* What DeleteResponse leaves of an in-flight record.
IsTombstone(r) ==
    /\ r.status = "deleted"
    /\ r.background
    /\ ~r.pending_upstream_request
    /\ ~r.upstream_authorization

-----------------------------------------------------------------------------
LInit ==
    /\ now \in Nat
    /\ db \in [Ids -> Writable \cup {Absent}]

\* Only the record of id changes.
Changes(id) == db' = [db EXCEPT ![id] = db'[id]] /\ UNCHANGED now

Transit(id) == Changes(id) /\ Transition(db[id], db'[id], now)

Overwrite(id) ==
    /\ Changes(id)
    /\ db'[id] \in Writable \cup {Absent} \/ IsTombstone(db'[id])

Elapse ==
    /\ now' = now + 1
    /\ \E gone \in SUBSET Ids :
          db' = [id \in Ids |-> IF id \in gone THEN Absent ELSE db[id]]

LNext ==
    \/ \E id \in Ids : Transit(id) \/ Overwrite(id)
    \/ Elapse

LSpec == LInit /\ [][LNext]_<<now, db>>
=============================================================================
