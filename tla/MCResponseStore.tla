-------------------------- MODULE MCResponseStore --------------------------
(* Small instances of ResponseStore for TLC.                               *)
EXTENDS ResponseStore, TLC

CONSTANTS r1, r2, t1, t2, t3, s1, s2, c1, c2, c3

\* A background response as a gateway enqueues it at time 0, and what it
\* writes to cancel it (build_upstream_request, build_cancelled_response).
Queued ==
    [status |-> "queued", background |-> TRUE,
     pending_upstream_request |-> TRUE, upstream_authorization |-> TRUE,
     enqueued_at |-> {0}]

Cancelled ==
    [status |-> "cancelled", background |-> TRUE,
     pending_upstream_request |-> FALSE, upstream_authorization |-> FALSE,
     enqueued_at |-> {0}]

InProgress == [Queued EXCEPT !.status = "in_progress"]

Rpc(op, s, id) ==
    [op |-> op, server |-> s, id |-> id, valid |-> TRUE, rec |-> Queued,
     ttl |-> 0, reconcile_stale |-> FALSE, stale_seconds |-> 0]

Rpcs(ops, id) == {Rpc(op, s, id) : op \in ops, s \in Servers}
With(rs, rec, seconds) == {[r EXCEPT !.rec = rec, !.ttl = seconds] : r \in rs}

StaleGets(id) ==
    {[r EXCEPT !.reconcile_stale = TRUE] : r \in Rpcs({"get"}, id)}

Reconciles(id) ==
    {[r EXCEPT !.stale_seconds = 1] : r \in Rpcs({"reconcile"}, id)}

Invalid == {[r EXCEPT !.valid = FALSE] : r \in Rpcs({"fail"}, r1)}

\* Everything the servers can be asked about one response.  It is stored for
\* longer than the default, and updated with the default.
AllRequests ==
    Rpcs({"claim", "complete", "fail", "delete", "get"}, r1)
    \cup With(Rpcs({"store"}, r1), Queued, 3)
    \cup With(Rpcs({"update"}, r1), Cancelled, 0)
    \cup StaleGets(r1) \cup Reconciles(r1) \cup Invalid

\* Enough RPCs to break, hold or poison the shared connection.
LivenessRequests ==
    Rpcs({"claim"}, r1) \cup Rpcs({"claim"}, r2) \cup StaleGets(r1)

\* A gateway deletes what a reader or another gateway looks at.
DeleteRequests == Rpcs({"delete"}, r1) \cup StaleGets(r1)

\* A gateway deletes what a client reads and another gateway updates.
DeleteUpdateRequests ==
    Rpcs({"delete", "get"}, r1) \cup StaleGets(r1)
    \cup With(Rpcs({"update"}, r1), Cancelled, 1)

RacePreloaded == {Queued, InProgress}
LivenessPreloaded == {Queued}

Symmetry == Permutations(Tasks) \cup Permutations(Conns) \cup Permutations(Servers)
=============================================================================
