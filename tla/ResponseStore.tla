--------------------------- MODULE ResponseStore ---------------------------
(***************************************************************************)
(* The response store (crates/core/src/store.rs) under the record RPCs of  *)
(* the gRPC service (crates/server/src/service.rs).                        *)
(*                                                                         *)
(* A task is one RPC.  It takes one step per Redis command, so that other  *)
(* tasks, of this server process or another, run between any two commands. *)
(* Plain commands go over a shared multiplexed connection; the transitions *)
(* take turns on one dedicated connection per server, guarded by a mutex,  *)
(* and use WATCH / GET / TTL / MULTI / SETEX / EXEC on it.                 *)
(*                                                                         *)
(* Redis is modelled by what these commands do: the keys with their        *)
(* expiry, and per connection the watched keys, whether one of them was    *)
(* touched, and how far its transaction is.  A command may fail before or  *)
(* after Redis ran it, an abandoned connection may still deliver its EXEC, *)
(* and a caller may drop an RPC at any await.                              *)
(***************************************************************************)
EXTENDS ResponseModel

CONSTANTS
    Ids,            \* response ids
    Tasks,          \* the RPCs of the run
    Servers,        \* server processes sharing the Redis
    Conns,          \* Redis connections used for transactions
    Requests,       \* the requests an RPC may carry
    Preloaded,      \* records that were stored before the run
    Lifetimes,      \* the seconds such a record may have left
    DefaultTtl,     \* RESPONSE_ID_STORE_TTL_SECONDS
    StaleSeconds,   \* BACKGROUND_RESPONSE_STALE_SECONDS
    MaxAttempts,    \* MAX_ATTEMPTS, 16 in the code
    MaxNow          \* bound: the clock stops here

Ops == {"store", "get", "update", "delete",
        "claim", "complete", "fail", "reconcile"}

\* valid is FALSE for a request the handler refuses without touching Redis;
\* ttl and stale_seconds are 0 when the caller leaves them out.
Request ==
    [op : Ops, server : Servers, id : Ids, valid : BOOLEAN,
     rec : StoredResponse, ttl : Nat,
     reconcile_stale : BOOLEAN, stale_seconds : Nat]

ASSUME RequestsAssumption == Requests \subseteq Request
ASSUME PreloadedAssumption ==
    Preloaded \subseteq StoredResponse /\ Lifetimes \subseteq Nat \ {0}
ASSUME ConfigAssumption ==
    /\ DefaultTtl \in Nat \ {0}
    /\ StaleSeconds \in Nat \ {0}
    /\ MaxAttempts \in Nat \ {0}
    /\ MaxNow \in Nat

VARIABLES
    now,        \* unix time, in seconds
    db,         \* db[id] is the record under id's key, or Absent
    expires,    \* expires[id] is the second in which the key goes
    watched,    \* watched[c] is the set of keys connection c watches
    dirty,      \* dirty[c]: a key watched by c was touched
    stage,      \* stage[c]: how far the transaction on c is
    queued,     \* queued[c] is the SETEX queued between MULTI and EXEC
    txConn,     \* txConn[s] is the dedicated connection of server s
    pc,         \* pc[t] is the Redis command task t is about to send
    req,        \* req[t] is the request of task t
    at,         \* at[t] is the time a reconcile measures staleness at
    att,        \* att[t] is the number of finished transaction attempts
    upd,        \* upd[t] is the record t is about to write, or answers with
    ttl,        \* ttl[t] is the lifetime t re-arms with its SETEX
    res         \* res[t] is the gRPC status t answered with

redisVars == <<now, db, expires>>
connVars == <<watched, dirty, stage, queued, txConn>>
taskVars == <<pc, req, at, att, upd, ttl, res>>
vars == <<redisVars, connVars, taskVars>>

Steps == {"idle", "load", "write", "del", "acquire", "watch", "get", "ttl",
          "multi", "setex", "exec", "reset", "reload", "done"}

\* "free": no MULTI open; "exec": EXEC sent, not run yet; "ok" and "nil":
\* EXEC ran and its reply is on the way.
Stages == {"free", "multi", "exec", "ok", "nil"}

Results == {"none", "ok", "not_found", "invalid_argument",
            "failed_precondition", "unavailable", "cancelled"}

Records == StoredResponse \cup {Absent}

\* Redis refuses a SETEX with a lifetime of 0.
Write == [id : Ids, rec : Records, ttl : Nat \ {0}]

RedisTypeOK ==
    /\ now \in Nat
    /\ db \in [Ids -> Records]
    /\ expires \in [Ids -> Nat]

ConnTypeOK ==
    /\ watched \in [Conns -> SUBSET Ids]
    /\ dirty \in [Conns -> BOOLEAN]
    /\ stage \in [Conns -> Stages]
    /\ queued \in [Conns -> SUBSET Write]
    /\ txConn \in [Servers -> Conns]

TaskTypeOK ==
    /\ pc \in [Tasks -> Steps]
    /\ req \in [Tasks -> Requests]
    /\ at \in [Tasks -> Nat]
    /\ att \in [Tasks -> Nat]
    /\ upd \in [Tasks -> Records]
    /\ ttl \in [Tasks -> Nat]
    /\ \A t \in Tasks : pc[t] \in {"multi", "setex"} => ttl[t] # 0
    /\ res \in [Tasks -> Results]

\* Every variable has its type.  In particular a transition re-arms a
\* lifetime that SETEX accepts, whatever TTL answered (store.rs:611-618).
TypeOK == RedisTypeOK /\ ConnTypeOK /\ TaskTypeOK

-----------------------------------------------------------------------------
(* What a request asks for                                                 *)

ttl_from_request(r) == IF r.ttl = 0 THEN DefaultTtl ELSE r.ttl

\* A tombstone is stored with the default lifetime.
WriteTtl(r) == IF r.op = "delete" THEN DefaultTtl ELSE ttl_from_request(r)

stale_seconds(r) ==
    IF r.op = "reconcile" /\ r.stale_seconds > 0
    THEN r.stale_seconds ELSE StaleSeconds

wants_reconcile(r) == r.op = "reconcile" \/ (r.op = "get" /\ r.reconcile_stale)

Thresholds == {stale_seconds(r) : r \in Requests}

\* Mutant: a reconcile relies on the record it loaded before the WATCH.
AllowedAsLoaded(r, stored, clock) ==
    \/ r.op = "claim" /\ can_claim(stored)
    \/ r.op = "complete" /\ can_complete(stored)
    \/ r.op = "fail" /\ can_fail(stored)
    \/ wants_reconcile(r)

\* Whether the prepare function of the request accepts the stored record.
Allowed(r, stored, clock) ==
    \/ r.op = "claim" /\ can_claim(stored)
    \/ r.op = "complete" /\ can_complete(stored)
    \/ r.op = "fail" /\ can_fail(stored)
    \/ /\ wants_reconcile(r)
       /\ can_reconcile_stale(stored, clock, stale_seconds(r))

Prepared(r, stored) ==
    IF r.op = "claim" THEN prepare_claim_background(stored)
    ELSE IF r.op = "complete" THEN prepare_complete_background(stored)
    ELSE IF r.op = "fail" THEN prepare_fail_background(stored)
    ELSE apply_stale_failure(stored)

-----------------------------------------------------------------------------
(* Redis                                                                   *)

\* Every connection that watches one of ids learns that it was touched.
Touched(ids) == [c \in Conns |-> dirty[c] \/ watched[c] \cap ids # {}]

SetEx(id, rec, seconds) ==
    /\ db' = [db EXCEPT ![id] = rec]
    /\ expires' = [expires EXCEPT ![id] = now + seconds]

\* TTL answers whole seconds, so the last one may read as none.
TtlReplies(id) ==
    IF db[id] = Absent THEN {-2} ELSE {expires[id] - now, expires[id] - now - 1}

DelKey(id) ==
    /\ db' = [db EXCEPT ![id] = Absent]
    /\ expires' = [expires EXCEPT ![id] = 0]

\* The connections in cs lose their watched keys and their transaction.
Clean(cs) ==
    /\ watched' = [c \in Conns |-> IF c \in cs THEN {} ELSE watched[c]]
    /\ dirty' = [c \in Conns |-> dirty[c] /\ c \notin cs]
    /\ stage' = [c \in Conns |-> IF c \in cs THEN "free" ELSE stage[c]]
    /\ queued' = [c \in Conns |-> IF c \in cs THEN {} ELSE queued[c]]

\* Keys that are due go away, as a write would to those who watch them.
Tick ==
    /\ now < MaxNow
    /\ now' = now + 1
    /\ LET due == {id \in Ids : db[id] # Absent /\ expires[id] <= now + 1}
       IN /\ db' = [id \in Ids |-> IF id \in due THEN Absent ELSE db[id]]
          /\ expires' = [id \in Ids |-> IF id \in due THEN 0 ELSE expires[id]]
          /\ dirty' = Touched(due)
    /\ UNCHANGED <<watched, stage, queued, txConn, taskVars>>

\* Redis runs the EXEC of connection c: nothing if a watched key was
\* touched, otherwise the queued SETEX.  Either way the watches are gone.
RedisExec(c) ==
    /\ stage[c] = "exec"
    /\ watched' = [watched EXCEPT ![c] = {}]
    /\ queued' = [queued EXCEPT ![c] = {}]
    /\ \/ /\ dirty[c]
          /\ stage' = [stage EXCEPT ![c] = "nil"]
          /\ dirty' = [dirty EXCEPT ![c] = FALSE]
          /\ UNCHANGED <<db, expires>>
       \/ /\ ~dirty[c]
          /\ stage' = [stage EXCEPT ![c] = "ok"]
          /\ \E w \in queued[c] :
                /\ SetEx(w.id, w.rec, w.ttl)
                /\ dirty' = [Touched({w.id}) EXCEPT ![c] = FALSE]
    /\ UNCHANGED <<now, txConn, taskVars>>

-----------------------------------------------------------------------------
(* Steps of a task.  Each ends before the next await.                      *)

Goto(t, step) == pc' = [pc EXCEPT ![t] = step]

\* Task t answers with code, and with rec where the reply carries a record.
Answer(t, code, rec) ==
    /\ Goto(t, "done")
    /\ res' = [res EXCEPT ![t] = code]
    /\ upd' = [upd EXCEPT ![t] = rec]
    /\ at' = [at EXCEPT ![t] = 0]
    /\ att' = [att EXCEPT ![t] = 0]
    /\ ttl' = [ttl EXCEPT ![t] = 0]
    /\ UNCHANGED req

\* Task t goes on with rec as the record it will write.
Continue(t, step, rec) ==
    /\ Goto(t, step)
    /\ upd' = [upd EXCEPT ![t] = rec]
    /\ UNCHANGED <<req, at, att, ttl, res>>

Begin(t) ==
    /\ pc[t] = "idle"
    /\ LET r == req[t] IN
       \/ ~r.valid /\ Answer(t, "invalid_argument", Absent)
       \/ r.valid /\ r.op = "store" /\ Continue(t, "write", r.rec)
       \/ /\ r.valid /\ r.op \in {"get", "update", "delete", "reconcile"}
          /\ Continue(t, "load", Absent)
       \/ /\ r.valid /\ r.op \in {"claim", "complete", "fail"}
          /\ Continue(t, "acquire", Absent)
    /\ UNCHANGED <<redisVars, connVars>>

\* A GET that the service takes for the response, or for NOT_FOUND.
Found(stored) == stored # Absent /\ ~is_deleted_tombstone(stored)

\* GetResponse and ReconcileStaleResponse: only a record that looks stale
\* goes on to a transaction.
LoadGet(t) ==
    /\ pc[t] = "load" /\ req[t].op \in {"get", "reconcile"}
    /\ LET r == req[t]
           stored == db[r.id]
           stale == /\ wants_reconcile(r)
                    /\ can_reconcile_stale(stored, now, stale_seconds(r))
       IN \/ ~Found(stored) /\ Answer(t, "not_found", Absent)
          \/ Found(stored) /\ ~stale /\ Answer(t, "ok", stored)
          \/ /\ Found(stored) /\ stale
             /\ Goto(t, "acquire")
             /\ at' = [at EXCEPT ![t] = now]
             /\ UNCHANGED <<req, att, upd, ttl, res>>
    /\ UNCHANGED <<redisVars, connVars>>

LoadUpdate(t) ==
    /\ pc[t] = "load" /\ req[t].op = "update"
    /\ IF Found(db[req[t].id]) THEN Continue(t, "write", req[t].rec)
                               ELSE Answer(t, "not_found", Absent)
    /\ UNCHANGED <<redisVars, connVars>>

\* DeleteResponse: anything but an in-flight record is removed.
LoadDelete(t) ==
    /\ pc[t] = "load" /\ req[t].op = "delete"
    /\ LET stored == db[req[t].id] IN
       IF Found(stored) /\ is_in_flight_background(stored)
       THEN Continue(t, "write", tombstone_deleted_background(stored))
       ELSE Continue(t, "del", Absent)
    /\ UNCHANGED <<redisVars, connVars>>

\* The GET fails.  DeleteResponse goes on as if there were no record.
LoadFails(t) ==
    /\ pc[t] \in {"load", "reload"}
    /\ IF req[t].op = "delete" THEN Continue(t, "del", Absent)
                               ELSE Answer(t, "unavailable", Absent)
    /\ UNCHANGED <<redisVars, connVars>>

\* SETEX of a store, an update or a tombstone, whatever the key holds by
\* now.  The reply may be lost, or the caller may have left.
PlainWrite(t) ==
    /\ pc[t] = "write"
    /\ SetEx(req[t].id, upd[t], WriteTtl(req[t]))
    /\ dirty' = Touched({req[t].id})
    /\ \E code \in {"ok", "unavailable"} : Answer(t, code, Absent)
    /\ UNCHANGED <<now, watched, stage, queued, txConn>>

PlainDelete(t) ==
    /\ pc[t] = "del"
    /\ DelKey(req[t].id)
    /\ dirty' = IF db[req[t].id] = Absent THEN dirty ELSE Touched({req[t].id})
    /\ \E code \in {"ok", "unavailable"} : Answer(t, code, Absent)
    /\ UNCHANGED <<now, watched, stage, queued, txConn>>

\* The command never reaches Redis.
PlainFails(t) ==
    /\ pc[t] \in {"write", "del"}
    /\ Answer(t, "unavailable", Absent)
    /\ UNCHANGED <<redisVars, connVars>>

-----------------------------------------------------------------------------
(* The optimistic transaction on the dedicated connection                  *)

Conn(t) == txConn[req[t].server]

\* Mutant: the guard is still alive while the connection is reset.
HoldsLockInReset(t) ==
    pc[t] \in {"watch", "get", "ttl", "multi", "setex", "exec", "reset"}

\* Task t holds the mutex of its server's dedicated connection.
HoldsLock(t) == pc[t] \in {"watch", "get", "ttl", "multi", "setex", "exec"}

LockFree(s) == \A t \in Tasks : req[t].server = s => ~HoldsLock(t)

\* A connection that nobody uses and that owes Redis no EXEC.
Fresh(c) == stage[c] # "exec" /\ \A s \in Servers : txConn[s] # c

\* Server s gets a new connection.  The old one is closed, but the EXEC it
\* has sent may still arrive.
Replace(s) ==
    \E c \in Conns :
        /\ Fresh(c)
        /\ txConn' = [txConn EXCEPT ![s] = c]
        /\ Clean({k \in {c, txConn[s]} : stage[k] # "exec"})

\* Lock, then DISCARD.  Redis runs it after an EXEC that is still on the
\* way.  Outside MULTI it is an ignored error and removes no watch.
Acquire(t) ==
    /\ pc[t] = "acquire"
    /\ LockFree(req[t].server)
    /\ stage[Conn(t)] # "exec"
    /\ IF stage[Conn(t)] = "multi"
       THEN Clean({Conn(t)})
       ELSE /\ stage' = [stage EXCEPT ![Conn(t)] = "free"]
            /\ UNCHANGED <<watched, dirty, queued>>
    /\ Goto(t, "watch")
    /\ UNCHANGED <<redisVars, txConn, req, at, att, upd, ttl, res>>

\* The connection had dropped: the DISCARD fails, its error is ignored,
\* and the connection manager has connected anew.
AcquireReconnected(t) ==
    /\ pc[t] = "acquire"
    /\ LockFree(req[t].server)
    /\ Replace(req[t].server)
    /\ Goto(t, "watch")
    /\ UNCHANGED <<redisVars, req, at, att, upd, ttl, res>>

\* Mutant: no WATCH is sent.
WatchNothing(t) ==
    /\ pc[t] = "watch"
    /\ Goto(t, "get")
    /\ UNCHANGED <<redisVars, connVars, req, at, att, upd, ttl, res>>

Watch(t) ==
    /\ pc[t] = "watch"
    /\ watched' = [watched EXCEPT ![Conn(t)] = @ \cup {req[t].id}]
    /\ Goto(t, "get")
    /\ UNCHANGED <<redisVars, dirty, stage, queued, txConn,
                   req, at, att, upd, ttl, res>>

\* UNWATCH, whose error is ignored.
Unwatch(t) == (Clean({Conn(t)}) \/ UNCHANGED <<watched, dirty, stage, queued>>)
              /\ UNCHANGED txConn

\* GET on the dedicated connection, and the prepare function.
ReadRecord(t) ==
    /\ pc[t] = "get"
    /\ LET r == req[t]
           stored == db[r.id]
       IN \/ /\ stored = Absent
             /\ Answer(t, "not_found", Absent) /\ Unwatch(t)
          \/ /\ stored # Absent /\ ~Allowed(r, stored, at[t])
             /\ IF wants_reconcile(r) THEN Answer(t, "ok", stored)
                ELSE Answer(t, "failed_precondition", Absent)
             /\ Unwatch(t)
          \/ /\ stored # Absent /\ Allowed(r, stored, at[t])
             /\ Continue(t, "ttl", Prepared(r, stored))
             /\ UNCHANGED connVars
    /\ UNCHANGED redisVars

ReadTtl(t) ==
    /\ pc[t] = "ttl"
    /\ \E reply \in TtlReplies(req[t].id) :
          ttl' = [ttl EXCEPT ![t] = reconcile_write_ttl(reply, DefaultTtl)]
    /\ Goto(t, "multi")
    /\ UNCHANGED <<redisVars, connVars, req, at, att, upd, res>>

Multi(t) ==
    /\ pc[t] = "multi"
    /\ stage' = [stage EXCEPT ![Conn(t)] = "multi"]
    /\ Goto(t, "setex")
    /\ UNCHANGED <<redisVars, watched, dirty, queued, txConn,
                   req, at, att, upd, ttl, res>>

\* SETEX is queued, and EXEC sent behind it.
SendExec(t) ==
    /\ pc[t] = "setex"
    /\ queued' = [queued EXCEPT ![Conn(t)] =
                     {[id |-> req[t].id, rec |-> upd[t], ttl |-> ttl[t]]}]
    /\ stage' = [stage EXCEPT ![Conn(t)] = "exec"]
    /\ Goto(t, "exec")
    /\ UNCHANGED <<redisVars, watched, dirty, txConn,
                   req, at, att, upd, ttl, res>>

\* After an attempt that wrote nothing, task t goes to step.
NextAttempt(t, step) ==
    /\ Goto(t, step)
    /\ att' = [att EXCEPT ![t] = @ + 1]
    /\ upd' = [upd EXCEPT ![t] = Absent]
    /\ ttl' = [ttl EXCEPT ![t] = 0]
    /\ UNCHANGED <<req, at, res>>

\* Mutant: a nil reply of EXEC is taken for success.
ExecReplyUnchecked(t) ==
    /\ pc[t] = "exec"
    /\ stage[Conn(t)] \in {"ok", "nil"}
    /\ Answer(t, "ok", upd[t])
    /\ stage' = [stage EXCEPT ![Conn(t)] = "free"]
    /\ UNCHANGED <<redisVars, watched, dirty, queued, txConn>>

\* EXEC's reply.  When the attempts run out a transition gives up, and a
\* reconcile answers with whatever it finds.
ExecReply(t) ==
    /\ pc[t] = "exec"
    /\ LET last == att[t] + 1 = MaxAttempts IN
       \/ stage[Conn(t)] = "ok" /\ Answer(t, "ok", upd[t])
       \/ stage[Conn(t)] = "nil" /\ ~last /\ NextAttempt(t, "acquire")
       \/ /\ stage[Conn(t)] = "nil" /\ last /\ wants_reconcile(req[t])
          /\ NextAttempt(t, "reload")
       \/ /\ stage[Conn(t)] = "nil" /\ last /\ ~wants_reconcile(req[t])
          /\ Answer(t, "unavailable", Absent)
    /\ stage' = [stage EXCEPT ![Conn(t)] = "free"]
    /\ UNCHANGED <<redisVars, watched, dirty, queued, txConn>>

\* A command on the dedicated connection fails.  The connection keeps its
\* state (a timeout) or is gone, in which case a sent EXEC may be lost.
AttemptFails(t) ==
    /\ HoldsLock(t)
    /\ NextAttempt(t, "reset")
    /\ Clean({Conn(t)}) \/ UNCHANGED <<watched, dirty, stage, queued>>
    /\ UNCHANGED <<redisVars, txConn>>

\* reset_transaction_connection, which waits for the mutex.
Reset(t) ==
    /\ pc[t] = "reset"
    /\ LockFree(req[t].server)
    /\ Replace(req[t].server)
    /\ IF att[t] = MaxAttempts
       THEN Answer(t, "unavailable", Absent)
       ELSE Continue(t, "acquire", Absent)
    /\ UNCHANGED redisVars

ResetFails(t) ==
    /\ pc[t] = "reset"
    /\ Answer(t, "unavailable", Absent)
    /\ UNCHANGED <<redisVars, connVars>>

Reload(t) ==
    /\ pc[t] = "reload"
    /\ IF db[req[t].id] = Absent
       THEN Answer(t, "not_found", Absent)
       ELSE Answer(t, "ok", db[req[t].id])
    /\ UNCHANGED <<redisVars, connVars>>

\* The caller drops the RPC: the mutex is released, the connection stays
\* as it is, with an EXEC that was sent still on its way.
Cancel(t) ==
    /\ pc[t] \notin {"idle", "done"}
    /\ Answer(t, "cancelled", Absent)
    /\ UNCHANGED <<redisVars, connVars>>

-----------------------------------------------------------------------------
Init ==
    /\ now = 0
    /\ db \in [Ids -> Preloaded \cup {Absent}]
    /\ expires \in [Ids -> Lifetimes \cup {0}]
    /\ \A id \in Ids : db[id] = Absent <=> expires[id] = 0
    /\ watched = [c \in Conns |-> {}]
    /\ dirty = [c \in Conns |-> FALSE]
    /\ stage = [c \in Conns |-> "free"]
    /\ queued = [c \in Conns |-> {}]
    /\ txConn \in [Servers -> Conns]
    /\ \A s1, s2 \in Servers : txConn[s1] = txConn[s2] => s1 = s2
    /\ pc = [t \in Tasks |-> "idle"]
    /\ req \in [Tasks -> Requests]
    /\ at = [t \in Tasks |-> 0]
    /\ att = [t \in Tasks |-> 0]
    /\ upd = [t \in Tasks |-> Absent]
    /\ ttl = [t \in Tasks |-> 0]
    /\ res = [t \in Tasks |-> "none"]

\* What task t does when nothing goes wrong.
Proceed(t) ==
    \/ LoadGet(t) \/ LoadUpdate(t) \/ LoadDelete(t)
    \/ PlainWrite(t) \/ PlainDelete(t)
    \/ Acquire(t) \/ Watch(t) \/ ReadRecord(t) \/ ReadTtl(t)
    \/ Multi(t) \/ SendExec(t) \/ ExecReply(t)
    \/ Reset(t) \/ Reload(t)

Fault(t) ==
    \/ LoadFails(t) \/ PlainFails(t) \/ AcquireReconnected(t)
    \/ AttemptFails(t) \/ ResetFails(t) \/ Cancel(t)

\* Every RPC of the run has been answered.
Finished == (\A t \in Tasks : pc[t] = "done") /\ UNCHANGED vars

Next ==
    \/ \E t \in Tasks : Begin(t) \/ Proceed(t) \/ Fault(t)
    \/ \E c \in Conns : RedisExec(c)
    \/ Tick
    \/ Finished

Spec == Init /\ [][Next]_vars

\* Redis answers what it was sent, and the runtime keeps polling a task
\* that can go on.  Callers need not call and nothing need fail.
FairSpec ==
    /\ Spec
    /\ \A t \in Tasks : WF_vars(Proceed(t))
    /\ \A c \in Conns : WF_vars(RedisExec(c))

-----------------------------------------------------------------------------
(* Safety                                                                  *)

Lifecycle == INSTANCE ResponseLifecycle WITH
    Writable <- Preloaded \cup {r.rec : r \in Requests}

\* The retry loops implement atomic transitions: seen from the keys alone,
\* every step of every server, fault, late EXEC and expiry included, is one
\* lawful change of one record or the passing of time.
ImplementsLifecycle == Lifecycle!LSpec

\* WATCH before GET (store.rs:364-370) protects the read: as long as no
\* watched key was touched, what a task has prepared, or what an EXEC on
\* its way will write, is a lawful transition of the record as it is now.
WatchedReadIsCurrent ==
    /\ \A t \in Tasks :
          pc[t] \in {"ttl", "multi", "setex"} /\ ~dirty[Conn(t)]
          => Lifecycle!Transition(db[req[t].id], upd[t], now)
    /\ \A c \in Conns :
          stage[c] = "exec" /\ ~dirty[c]
          => \A w \in queued[c] : Lifecycle!Transition(db[w.id], w.rec, now)

-----------------------------------------------------------------------------
(* The inductive invariant behind WatchedReadIsCurrent                     *)

\* Servers do not share a dedicated connection.
ConnsApart == \A s, z \in Servers : txConn[s] = txConn[z] => s = z

\* At most one RPC of a server is inside a transaction.
MutexHeld ==
    \A t, u \in Tasks :
        HoldsLock(t) /\ HoldsLock(u) /\ req[t].server = req[u].server => t = u

\* What a client may put under a key.
Overwriting(rec) ==
    rec \in Preloaded \cup {r.rec : r \in Requests} \/ Lifecycle!IsTombstone(rec)

\* The connection of a task in a transaction is its own and watches the key
\* since before the task read it; the clock has not been turned back.
TaskInv(t) ==
    /\ at[t] <= now
    /\ pc[t] = "write" => Overwriting(upd[t])
    /\ pc[t] \in {"watch", "get", "ttl", "multi", "setex"} => stage[Conn(t)] # "exec"
    /\ pc[t] \in {"get", "ttl", "multi", "setex"} => req[t].id \in watched[Conn(t)]
    /\ pc[t] \in {"ttl", "multi", "setex"} /\ ~dirty[Conn(t)]
       => Lifecycle!Transition(db[req[t].id], upd[t], now)

\* An EXEC on its way, even one its server has given up, carries one write
\* to a watched key.
ConnInv(c) ==
    stage[c] = "exec" =>
        \E w \in queued[c] :
            /\ queued[c] = {w} /\ w.id \in watched[c]
            /\ ~dirty[c] => Lifecycle!Transition(db[w.id], w.rec, now)

IndInv ==
    /\ TypeOK /\ ConnsApart /\ MutexHeld
    /\ \A t \in Tasks : TaskInv(t)
    /\ \A c \in Conns : ConnInv(c)

-----------------------------------------------------------------------------
(* What no step does                                                       *)

\* A step in which a client's own write or delete reaches Redis.
ClientWrites(id) ==
    \E t \in Tasks :
        req[t].id = id /\ pc[t] \in {"write", "del"} /\ pc'[t] = "done"

\* A response that is cancelled, completed, failed or deleted stays so: no
\* background transition, however delayed or retried, revives it
\* (is_terminal_background_status, store.rs:502, 545, 572).
TerminalIsFinal ==
    [][\A id \in Ids :
         is_terminal_background_status(db[id]) /\ db'[id] # db[id]
         => db'[id] = Absent \/ ClientWrites(id)]_vars

\* The upstream request stays with the record until it is completed or
\* failed, and is gone as soon as it is (store.rs:527-532, 561-562, 597-598).
PayloadKeptUntilDone ==
    [][\A id \in Ids :
         /\ db[id].pending_upstream_request
         /\ db'[id] # db[id] /\ db'[id] # Absent
         /\ ~ClientWrites(id)
         => db'[id].pending_upstream_request
            <=> db'[id].status \notin {"completed", "failed"}]_vars

\* A transition never costs a record more than the second that TTL rounds
\* away: the lifetime it re-arms was read from the record it replaces
\* (reconcile_write_ttl, store.rs:382-383, 611-618).
LifetimeKept ==
    [][\A id \in Ids :
         db'[id] # db[id] /\ db'[id] # Absent /\ ~ClientWrites(id)
         => expires'[id] >= expires[id] - 1]_vars

\* A queued response is handed to one worker: two ClaimBackgroundResponse
\* calls for it do not both succeed unless a client has stored it anew.
ClaimGrantedOnce ==
    \A t, u \in Tasks :
        /\ t # u
        /\ req[t].op = "claim" /\ res[t] = "ok"
        /\ req[u].op = "claim" /\ res[u] = "ok"
        /\ req[t].id = req[u].id
        => \E v \in Tasks :
              /\ req[v].id = req[t].id /\ req[v].op \in {"store", "update"}
              /\ pc[v] # "idle"

-----------------------------------------------------------------------------
(* Liveness                                                                *)

\* Every RPC that a server has begun is answered: no fault, cancelled call
\* or broken connection leaves the mutex held or a task waiting for ever.
RpcTerminates == \A t \in Tasks : pc[t] # "idle" ~> pc[t] = "done"

-----------------------------------------------------------------------------
(* What the documentation says, and the code does not keep                 *)

\* README.md:50, "Missing or deleted responses: GetResponse returns gRPC
\* NOT_FOUND": a GetResponse answered OK carries no tombstone, and one that
\* loads the record after a DeleteResponse was answered is not answered OK
\* while nobody stores the response anew.  A tombstone written after the load
\* of a stale read breaks the first (store.rs:448-453), an update that had
\* loaded the record before the deletion the second (store.rs:134-140).
DeletedIsNotFound ==
    [][\A t \in Tasks :
         req[t].op = "get" /\ pc[t] # "done" /\ pc'[t] = "done" /\ res'[t] = "ok"
         => /\ ~is_deleted_tombstone(upd'[t])
            /\ pc[t] = "load" /\ (\A u \in Tasks : req[u].op # "store")
               => ~\E d \in Tasks : /\ req[d].op = "delete" /\ res[d] = "ok"
                                    /\ req[d].id = req[t].id]_vars

\* README.md:12, "Tombstone in-flight background deletions instead of
\* hard-deleting active jobs".
InFlightIsTombstoned ==
    [][\A t \in Tasks :
         pc[t] = "del" /\ is_in_flight_background(db[req[t].id])
         => db'[req[t].id] # Absent \/ pc'[t] = "del"]_vars
=============================================================================
