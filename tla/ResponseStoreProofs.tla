------------------------ MODULE ResponseStoreProofs ------------------------
(***************************************************************************)
(* Proofs about ResponseStore, for any number of ids, RPCs, servers and    *)
(* connections, and any configuration.                                     *)
(***************************************************************************)
EXTENDS ResponseStore, TLAPS

-----------------------------------------------------------------------------
(* The operators                                                           *)

\* The parts of a request have their types.
LEMMA RequestParts ==
    ASSUME NEW r \in Requests
    PROVE  /\ r.op \in Ops /\ r.server \in Servers /\ r.id \in Ids
           /\ r.valid \in BOOLEAN /\ r.rec \in StoredResponse
           /\ r.ttl \in Nat /\ r.stale_seconds \in Nat
           /\ ttl_from_request(r) \in Nat /\ WriteTtl(r) \in Nat
           /\ stale_seconds(r) \in Nat
BY RequestsAssumption, ConfigAssumption
   DEF Request, ttl_from_request, WriteTtl, stale_seconds

\* Every prepare function (store.rs:498-601, 681-694) and the tombstone
\* (store.rs:259-275) turn a record into a record.
LEMMA PreparedIsRecord ==
    ASSUME NEW r, NEW stored \in StoredResponse
    PROVE  /\ Prepared(r, stored) \in StoredResponse
           /\ tombstone_deleted_background(stored) \in StoredResponse
BY DEF Prepared, prepare_claim_background, prepare_complete_background,
       prepare_fail_background, apply_stale_failure,
       tombstone_deleted_background, Ended, StoredResponse, Statuses

\* The lifetime a transition re-arms is a number of seconds that SETEX
\* accepts, whatever TTL replied (store.rs:611-618).
LEMMA WriteTtlIsNat ==
    ASSUME NEW reply \in Int
    PROVE  /\ reconcile_write_ttl(reply, DefaultTtl) \in Nat
           /\ reconcile_write_ttl(reply, DefaultTtl) > 0
BY ConfigAssumption DEF reconcile_write_ttl

\* No record has the status of a missing key.
LEMMA AbsentIsNoRecord == Absent \notin StoredResponse
BY DEF Absent, StoredResponse, Statuses

-----------------------------------------------------------------------------
(* Type correctness                                                        *)

\* Answering, going on and starting over keep the types of a task.
LEMMA AnswerType ==
    ASSUME TaskTypeOK, NEW t \in Tasks, NEW code \in Results, NEW rec \in Records,
           Answer(t, code, rec)
    PROVE  TaskTypeOK'
BY DEF TaskTypeOK, Answer, Goto, Steps

LEMMA ContinueType ==
    ASSUME TaskTypeOK, NEW t \in Tasks, NEW step \in Steps \ {"multi", "setex"},
           NEW rec \in Records, Continue(t, step, rec)
    PROVE  TaskTypeOK'
BY DEF TaskTypeOK, Continue, Goto

LEMMA NextAttemptType ==
    ASSUME TaskTypeOK, NEW t \in Tasks, NEW step \in Steps \ {"multi", "setex"},
           NextAttempt(t, step)
    PROVE  TaskTypeOK'
BY DEF TaskTypeOK, NextAttempt, Goto, Records

LEMMA GotoType ==
    ASSUME TaskTypeOK, NEW t \in Tasks, NEW step \in Steps, Goto(t, step),
           step \in {"multi", "setex"} => ttl[t] # 0,
           UNCHANGED <<req, at, att, upd, ttl, res>>
    PROVE  TaskTypeOK'
BY DEF TaskTypeOK, Goto

\* Closing connections keeps the types of connections.
LEMMA CleanType ==
    ASSUME ConnTypeOK, NEW cs, Clean(cs), txConn' \in [Servers -> Conns]
    PROVE  ConnTypeOK'
BY DEF ConnTypeOK, Clean, Stages

LEMMA ReplaceType ==
    ASSUME ConnTypeOK, NEW s \in Servers, Replace(s)
    PROVE  ConnTypeOK'
<1>1. txConn' \in [Servers -> Conns]
  BY DEF ConnTypeOK, Replace
<1>2. \E cs : Clean(cs)
  BY DEF Replace
<1> QED BY <1>1, <1>2, CleanType

\* Every step keeps the types: one case per action.
LEMMA TypeStep == TypeOK /\ [Next]_vars => TypeOK'
<1> SUFFICES ASSUME TypeOK, [Next]_vars PROVE TypeOK'
  OBVIOUS
<1> USE DEF TypeOK
<1>a. \A t \in Tasks : req[t] \in Requests /\ upd[t] \in Records
  BY DEF TaskTypeOK
<1>b. Absent \in Records /\ StoredResponse \subseteq Records
  BY DEF Records
<1>c. \A t \in Tasks : db[req[t].id] \in Records
  BY <1>a, RequestParts DEF RedisTypeOK
<1>d. \A r \in Requests : r.rec \in Records
  BY <1>b, RequestParts
<1>e. UNCHANGED redisVars => RedisTypeOK'
  BY DEF redisVars, RedisTypeOK
<1>f. UNCHANGED connVars => ConnTypeOK'
  BY DEF connVars, ConnTypeOK
<1> USE DEF Steps, Results
<1>1. ASSUME NEW t \in Tasks, Begin(t) PROVE TypeOK'
  BY <1>1, <1>e, <1>f, <1>a, <1>b, <1>d, AnswerType, ContinueType DEF Begin
<1>2. ASSUME NEW t \in Tasks, LoadUpdate(t) PROVE TypeOK'
  BY <1>2, <1>e, <1>f, <1>a, <1>b, <1>d, AnswerType, ContinueType DEF LoadUpdate
<1>3. ASSUME NEW t \in Tasks, LoadFails(t) PROVE TypeOK'
  BY <1>3, <1>e, <1>f, <1>b, AnswerType, ContinueType DEF LoadFails
<1>4. ASSUME NEW t \in Tasks, PlainFails(t) PROVE TypeOK'
  BY <1>4, <1>e, <1>f, <1>b, AnswerType DEF PlainFails
<1>5. ASSUME NEW t \in Tasks, ResetFails(t) PROVE TypeOK'
  BY <1>5, <1>e, <1>f, <1>b, AnswerType DEF ResetFails
<1>6. ASSUME NEW t \in Tasks, Cancel(t) PROVE TypeOK'
  BY <1>6, <1>e, <1>f, <1>b, AnswerType DEF Cancel
<1>7. ASSUME NEW t \in Tasks, Reload(t) PROVE TypeOK'
  BY <1>7, <1>e, <1>f, <1>b, <1>c, AnswerType DEF Reload
<1>8. ASSUME NEW t \in Tasks, LoadGet(t) PROVE TypeOK'
  <2>1. CASE pc'[t] = "acquire"
    BY <1>8, <2>1, <1>e, <1>f DEF LoadGet, Answer, Goto, TaskTypeOK, RedisTypeOK
  <2>2. CASE pc'[t] # "acquire"
    <3>1. \E code \in Results, rec \in Records : Answer(t, code, rec)
      BY <1>8, <2>2, <1>b, <1>c DEF LoadGet, Goto, TaskTypeOK
    <3> QED BY <1>8, <3>1, <1>e, <1>f, AnswerType DEF LoadGet
  <2> QED BY <2>1, <2>2
<1>9. ASSUME NEW t \in Tasks, LoadDelete(t) PROVE TypeOK'
  <2>1. Found(db[req[t].id]) => tombstone_deleted_background(db[req[t].id]) \in Records
    BY <1>b, <1>c, PreparedIsRecord DEF Found, Records
  <2> QED BY <1>9, <2>1, <1>b, <1>e, <1>f, ContinueType DEF LoadDelete
<1>10. ASSUME NEW t \in Tasks, PlainWrite(t) PROVE TypeOK'
  <2>1. TaskTypeOK'
    BY <1>10, <1>b, AnswerType DEF PlainWrite
  <2>2. RedisTypeOK'
    BY <1>10, <1>a, RequestParts DEF PlainWrite, SetEx, RedisTypeOK
  <2>3. ConnTypeOK'
    BY <1>10 DEF PlainWrite, Touched, ConnTypeOK
  <2> QED BY <2>1, <2>2, <2>3
<1>11. ASSUME NEW t \in Tasks, PlainDelete(t) PROVE TypeOK'
  <2>1. TaskTypeOK'
    BY <1>11, <1>b, AnswerType DEF PlainDelete
  <2>2. RedisTypeOK'
    BY <1>11, <1>a, <1>b, RequestParts DEF PlainDelete, DelKey, RedisTypeOK
  <2>3. ConnTypeOK'
    BY <1>11 DEF PlainDelete, Touched, ConnTypeOK
  <2> QED BY <2>1, <2>2, <2>3
<1>12. ASSUME NEW t \in Tasks, Acquire(t) PROVE TypeOK'
  <2>1. TaskTypeOK'
    BY <1>12, GotoType DEF Acquire
  <2>2. ConnTypeOK'
    <3>1. CASE stage[Conn(t)] = "multi"
      BY <1>12, <3>1, CleanType DEF Acquire, ConnTypeOK
    <3>2. CASE stage[Conn(t)] # "multi"
      BY <1>12, <3>2 DEF Acquire, ConnTypeOK, Stages
    <3> QED BY <3>1, <3>2
  <2> QED BY <1>12, <2>1, <2>2, <1>e DEF Acquire
<1>13. ASSUME NEW t \in Tasks, AcquireReconnected(t) PROVE TypeOK'
  BY <1>13, <1>a, <1>e, RequestParts, GotoType, ReplaceType DEF AcquireReconnected
<1>14. ASSUME NEW t \in Tasks, Watch(t) PROVE TypeOK'
  <2>1. ConnTypeOK'
    BY <1>14, <1>a, RequestParts DEF Watch, ConnTypeOK
  <2> QED BY <1>14, <2>1, <1>e, GotoType DEF Watch
<1>15. ASSUME NEW t \in Tasks, ReadRecord(t) PROVE TypeOK'
  <2>1. ConnTypeOK'
    BY <1>15, <1>f, CleanType DEF ReadRecord, Unwatch, ConnTypeOK, connVars
  <2>2. db[req[t].id] # Absent => Prepared(req[t], db[req[t].id]) \in Records
    BY <1>b, <1>c, PreparedIsRecord DEF Records
  <2>3. TaskTypeOK'
    BY <1>15, <2>2, <1>b, <1>c, AnswerType, ContinueType DEF ReadRecord
  <2> QED BY <1>15, <2>1, <2>3, <1>e DEF ReadRecord
<1>16. ASSUME NEW t \in Tasks, ReadTtl(t) PROVE TypeOK'
  <2>1. TtlReplies(req[t].id) \subseteq Int
    <3>1. -2 \in Int
      OBVIOUS
    <3>2. req[t].id \in Ids
      BY <1>a, RequestParts
    <3> QED BY <3>1, <3>2 DEF TtlReplies, RedisTypeOK
  <2>2. PICK reply \in Int :
          ttl' = [ttl EXCEPT ![t] = reconcile_write_ttl(reply, DefaultTtl)]
    BY <1>16, <2>1 DEF ReadTtl
  <2>3. TaskTypeOK'
    BY <1>16, <2>2, WriteTtlIsNat DEF ReadTtl, Goto, TaskTypeOK
  <2> QED BY <1>16, <2>3, <1>e, <1>f DEF ReadTtl
<1>17. ASSUME NEW t \in Tasks, Multi(t) PROVE TypeOK'
  <2>1. ConnTypeOK'
    BY <1>17 DEF Multi, ConnTypeOK, Stages
  <2>2. ttl[t] # 0
    BY <1>17 DEF Multi, TaskTypeOK
  <2> QED BY <1>17, <2>1, <2>2, <1>e, GotoType DEF Multi
<1>18. ASSUME NEW t \in Tasks, SendExec(t) PROVE TypeOK'
  <2>1. [id |-> req[t].id, rec |-> upd[t], ttl |-> ttl[t]] \in Write
    BY <1>18, <1>a, RequestParts DEF SendExec, TaskTypeOK, Write
  <2>2. ConnTypeOK'
    BY <1>18, <2>1 DEF SendExec, ConnTypeOK, Stages
  <2> QED BY <1>18, <2>2, <1>e, GotoType DEF SendExec
<1>19. ASSUME NEW t \in Tasks, ExecReply(t) PROVE TypeOK'
  <2>1. ConnTypeOK'
    BY <1>19 DEF ExecReply, ConnTypeOK, Stages
  <2>2. TaskTypeOK'
    BY <1>19, <1>a, <1>b, AnswerType, NextAttemptType DEF ExecReply
  <2> QED BY <1>19, <2>1, <2>2, <1>e DEF ExecReply
<1>20. ASSUME NEW t \in Tasks, AttemptFails(t) PROVE TypeOK'
  <2>1. ConnTypeOK'
    BY <1>20, <1>f, CleanType DEF AttemptFails, ConnTypeOK, connVars
  <2> QED BY <1>20, <2>1, <1>e, NextAttemptType DEF AttemptFails
<1>21. ASSUME NEW t \in Tasks, Reset(t) PROVE TypeOK'
  <2>1. ConnTypeOK'
    BY <1>21, <1>a, RequestParts, ReplaceType DEF Reset
  <2>2. TaskTypeOK'
    BY <1>21, <1>b, AnswerType, ContinueType DEF Reset
  <2> QED BY <1>21, <2>1, <2>2, <1>e DEF Reset
<1>22. ASSUME NEW c \in Conns, RedisExec(c) PROVE TypeOK'
  <2>1. TaskTypeOK'
    BY <1>22 DEF RedisExec, taskVars, TaskTypeOK
  <2>2. ConnTypeOK'
    BY <1>22 DEF RedisExec, Touched, ConnTypeOK, Stages
  <2>3. RedisTypeOK'
    <3>1. \A w \in queued[c] : w.id \in Ids /\ w.rec \in Records /\ w.ttl \in Nat
      BY DEF ConnTypeOK, Write
    <3>2. CASE dirty[c]
      BY <1>22, <3>2 DEF RedisExec, RedisTypeOK
    <3>3. CASE ~dirty[c]
      <4>1. PICK w \in queued[c] : SetEx(w.id, w.rec, w.ttl)
        BY <1>22, <3>3 DEF RedisExec
      <4>2. now' = now
        BY <1>22 DEF RedisExec
      <4> QED BY <3>1, <4>1, <4>2 DEF SetEx, RedisTypeOK
    <3> QED BY <3>2, <3>3
  <2> QED BY <2>1, <2>2, <2>3
<1>23. CASE Tick
  <2>1. TaskTypeOK'
    BY <1>23 DEF Tick, taskVars, TaskTypeOK
  <2>2. ConnTypeOK'
    BY <1>23 DEF Tick, Touched, ConnTypeOK
  <2>3. RedisTypeOK'
    BY <1>23, <1>b DEF Tick, RedisTypeOK
  <2> QED BY <2>1, <2>2, <2>3
<1>24. CASE UNCHANGED vars
  BY <1>24, <1>e, <1>f DEF vars, taskVars, TaskTypeOK
<1> QED BY <1>1, <1>2, <1>3, <1>4, <1>5, <1>6, <1>7, <1>8, <1>9, <1>10, <1>11, <1>12, <1>13, <1>14, <1>15, <1>16, <1>17, <1>18, <1>19, <1>20, <1>21, <1>22, <1>23, <1>24
        DEF Next, Proceed, Fault, Finished

LEMMA TypeInit == Init => TypeOK
<1> SUFFICES ASSUME Init PROVE TypeOK
  OBVIOUS
<1>1. RedisTypeOK
  <2>1. now \in Nat /\ db \in [Ids -> Records]
    BY PreloadedAssumption DEF Init, Records
  <2>2. expires \in [Ids -> Nat]
    <3>1. Lifetimes \cup {0} \subseteq Nat
      BY PreloadedAssumption
    <3>2. expires \in [Ids -> Lifetimes \cup {0}]
      BY DEF Init
    <3> QED BY <3>1, <3>2
  <2> QED BY <2>1, <2>2 DEF RedisTypeOK
<1>2. ConnTypeOK
  BY DEF Init, ConnTypeOK, Stages
<1>3. TaskTypeOK
  BY DEF Init, TaskTypeOK, Steps, Results, Records
<1> QED BY <1>1, <1>2, <1>3 DEF TypeOK

\* Every variable of the store keeps its type.  In particular a lifetime
\* handed to SETEX is positive, although TTL may answer 0, -1 or -2.
THEOREM TypeCorrect == Spec => []TypeOK
<1> QED BY TypeInit, TypeStep, PTL DEF Spec

-----------------------------------------------------------------------------
(* Transitions                                                             *)

\* ResponseLifecycle's copy of the record functions is this module's.
LEMMA SameRecordFunctions ==
    ASSUME NEW x, NEW clock, NEW seconds
    PROVE  /\ Lifecycle!can_claim(x) <=> can_claim(x)
           /\ Lifecycle!can_complete(x) <=> can_complete(x)
           /\ Lifecycle!can_fail(x) <=> can_fail(x)
           /\ Lifecycle!can_reconcile_stale(x, clock, seconds)
              <=> can_reconcile_stale(x, clock, seconds)
           /\ Lifecycle!prepare_claim_background(x) = prepare_claim_background(x)
           /\ Lifecycle!prepare_complete_background(x) = prepare_complete_background(x)
           /\ Lifecycle!prepare_fail_background(x) = prepare_fail_background(x)
           /\ Lifecycle!apply_stale_failure(x) = apply_stale_failure(x)
           /\ Lifecycle!Absent = Absent
BY DEF is_deleted_tombstone, Lifecycle!is_deleted_tombstone,
       is_terminal_background_status,
       Lifecycle!is_terminal_background_status, is_claimable_background,
       Lifecycle!is_claimable_background, is_in_progress_background,
       Lifecycle!is_in_progress_background, is_in_flight_background,
       Lifecycle!is_in_flight_background, should_reconcile_stale,
       Lifecycle!should_reconcile_stale, is_stale_enqueued,
       Lifecycle!is_stale_enqueued, can_claim, Lifecycle!can_claim,
       can_complete, Lifecycle!can_complete, can_fail, Lifecycle!can_fail,
       can_reconcile_stale, Lifecycle!can_reconcile_stale,
       prepare_claim_background, Lifecycle!prepare_claim_background,
       prepare_complete_background, Lifecycle!prepare_complete_background,
       prepare_fail_background, Lifecycle!prepare_fail_background,
       apply_stale_failure, Lifecycle!apply_stale_failure, Ended,
       Lifecycle!Ended, Absent, Lifecycle!Absent

\* The transitions in terms of this module's record functions.
LEMMA TransitionCases ==
    ASSUME NEW before, NEW after, NEW clock
    PROVE  Lifecycle!Transition(before, after, clock) <=>
           \/ can_claim(before) /\ after = prepare_claim_background(before)
           \/ can_complete(before) /\ after = prepare_complete_background(before)
           \/ can_fail(before) /\ after = prepare_fail_background(before)
           \/ /\ \E s \in Thresholds : can_reconcile_stale(before, clock, s)
              /\ after = apply_stale_failure(before)
BY SameRecordFunctions DEF Lifecycle!Transition, Lifecycle!Claim,
   Lifecycle!Complete, Lifecycle!Fail, Lifecycle!ReconcileStale

\* What a prepare function accepts and makes of the record is a lawful
\* transition of it.
LEMMA AllowedIsTransition ==
    ASSUME NEW r \in Requests, NEW stored, NEW clock, Allowed(r, stored, clock)
    PROVE  Lifecycle!Transition(stored, Prepared(r, stored), clock)
<1>1. stale_seconds(r) \in Thresholds
  BY DEF Thresholds
<1> QED BY <1>1, TransitionCases DEF Allowed, Prepared, wants_reconcile

\* A transition that is lawful stays so while time passes.
LEMMA TransitionLater ==
    ASSUME NEW before \in Records, NEW after, NEW m \in Nat, NEW n \in Nat, m <= n,
           Lifecycle!Transition(before, after, m)
    PROVE  Lifecycle!Transition(before, after, n)
<1>1. \A x \in before.enqueued_at : x \in Int
  BY DEF Records, StoredResponse, Absent
<1>2. \A x \in Thresholds : x \in Nat
  BY RequestParts DEF Thresholds
<1>3. ASSUME NEW x \in Thresholds, can_reconcile_stale(before, m, x)
      PROVE  can_reconcile_stale(before, n, x)
  <2>1. is_stale_enqueued(before.enqueued_at, n, x)
    BY <1>1, <1>2, <1>3 DEF can_reconcile_stale, is_stale_enqueued
  <2> QED BY <1>3, <2>1 DEF can_reconcile_stale
<1> QED BY <1>3, TransitionCases

\* No transition starts from a missing key or a terminal record.
LEMMA TransitionNotFromTerminal ==
    ASSUME NEW before, NEW after, NEW clock, Lifecycle!Transition(before, after, clock)
    PROVE  before # Absent /\ ~is_terminal_background_status(before)
<1>1. \/ can_claim(before) \/ can_complete(before) \/ can_fail(before)
      \/ should_reconcile_stale(before)
  BY TransitionCases DEF can_reconcile_stale
<1>2. should_reconcile_stale(before) => before.status = "queued"
  BY DEF should_reconcile_stale
<1> QED BY <1>1, <1>2 DEF can_claim, can_complete, can_fail,
           is_terminal_background_status, is_deleted_tombstone,
           is_in_progress_background, is_claimable_background, Absent

-----------------------------------------------------------------------------
(* The inductive invariant.  A step leaves the transactions of the other   *)
(* tasks alone: it touches at most the connection of the acting task, and  *)
(* a change of a watched key makes the connection dirty.                   *)

\* A step after which the transaction on c is as good as before, or dirty.
Undisturbed(c) ==
    /\ watched'[c] = watched[c] /\ stage'[c] = stage[c] /\ queued'[c] = queued[c]
    /\ ~dirty'[c] => ~dirty[c] /\ \A id \in watched[c] : db'[id] = db[id]

\* A step in which task u does nothing.
Resting(u) == pc'[u] = pc[u] /\ upd'[u] = upd[u] /\ at'[u] = at[u]

LEMMA ConnFrame ==
    ASSUME IndInv, TypeOK', now <= now', NEW c \in Conns, Undisturbed(c)
    PROVE  ConnInv(c)'
<1> SUFFICES ASSUME stage'[c] = "exec"
             PROVE  \E w \in queued'[c] :
                      /\ queued'[c] = {w} /\ w.id \in watched'[c]
                      /\ ~dirty'[c] => Lifecycle!Transition(db'[w.id], w.rec, now')
  BY DEF ConnInv
<1>1. PICK w \in queued[c] :
        /\ queued[c] = {w} /\ w.id \in watched[c]
        /\ ~dirty[c] => Lifecycle!Transition(db[w.id], w.rec, now)
  BY DEF IndInv, ConnInv, Undisturbed
<1>2. w.id \in Ids
  BY <1>1 DEF IndInv, TypeOK, ConnTypeOK
<1>3. db[w.id] \in Records /\ now \in Nat /\ now' \in Nat
  BY <1>2 DEF IndInv, TypeOK, RedisTypeOK
<1>4. ASSUME ~dirty'[c] PROVE Lifecycle!Transition(db'[w.id], w.rec, now')
  <2>1. db'[w.id] = db[w.id] /\ Lifecycle!Transition(db[w.id], w.rec, now)
    BY <1>1, <1>4 DEF Undisturbed
  <2> QED BY <2>1, <1>3, TransitionLater
<1> QED BY <1>1, <1>4 DEF Undisturbed

LEMMA TaskFrame ==
    ASSUME IndInv, TypeOK', now <= now', req' = req, NEW u \in Tasks, Resting(u),
           HoldsLock(u) => txConn'[req[u].server] = txConn[req[u].server]
                           /\ Undisturbed(Conn(u))
    PROVE  TaskInv(u)'
<1> DEFINE s == req[u].server
<1>1. TaskInv(u) /\ req[u] \in Requests /\ now \in Nat /\ now' \in Nat /\ at[u] \in Nat
  BY DEF IndInv, TypeOK, TaskTypeOK, RedisTypeOK
<1>2. req[u].id \in Ids /\ s \in Servers
  BY <1>1, RequestParts
<1>3. db[req[u].id] \in Records
  BY <1>2 DEF IndInv, TypeOK, RedisTypeOK
<1>4. at'[u] <= now'
  BY <1>1 DEF TaskInv, Resting
<1>5. pc'[u] = "write" => Overwriting(upd'[u])
  BY <1>1 DEF TaskInv, Resting
<1>6. CASE HoldsLock(u)
  <2>1. Conn(u)' = Conn(u) /\ Undisturbed(Conn(u))
    BY <1>6 DEF Conn
  <2>2. /\ watched'[Conn(u)'] = watched[Conn(u)]
        /\ stage'[Conn(u)'] = stage[Conn(u)]
        /\ ~dirty'[Conn(u)'] => /\ ~dirty[Conn(u)]
                                /\ \A id \in watched[Conn(u)] : db'[id] = db[id]
    BY <2>1 DEF Undisturbed
  <2>3. ASSUME pc[u] \in {"ttl", "multi", "setex"}, ~dirty'[Conn(u)']
        PROVE  Lifecycle!Transition(db'[req[u].id], upd'[u], now')
    <3>1. /\ db'[req[u].id] = db[req[u].id] /\ upd'[u] = upd[u]
          /\ Lifecycle!Transition(db[req[u].id], upd[u], now)
      BY <1>1, <2>2, <2>3 DEF TaskInv, Resting
    <3> QED BY <3>1, <1>1, <1>3, TransitionLater
  <2> QED BY <1>1, <1>4, <1>5, <2>2, <2>3 DEF TaskInv, Resting
<1>7. CASE ~HoldsLock(u)
  BY <1>4, <1>5, <1>7 DEF TaskInv, Resting, HoldsLock
<1> QED BY <1>6, <1>7

\* What answering, going on and starting over do to the tasks.
LEMMA Moves ==
    ASSUME TypeOK, NEW t \in Tasks, NEW step, NEW rec, NEW code
    PROVE  /\ Answer(t, code, rec) =>
              /\ \A u \in Tasks \ {t} : Resting(u)
              /\ req' = req /\ pc'[t] = "done" /\ at'[t] = 0
           /\ Continue(t, step, rec) =>
              /\ \A u \in Tasks \ {t} : Resting(u)
              /\ req' = req /\ pc'[t] = step /\ at'[t] = at[t] /\ upd'[t] = rec
           /\ NextAttempt(t, step) =>
              /\ \A u \in Tasks \ {t} : Resting(u)
              /\ req' = req /\ pc'[t] = step /\ at'[t] = at[t]
           /\ Goto(t, step) /\ upd' = upd /\ at' = at =>
              /\ \A u \in Tasks \ {t} : Resting(u)
              /\ pc'[t] = step /\ at'[t] = at[t] /\ upd'[t] = upd[t]
BY DEF TypeOK, TaskTypeOK, Answer, Continue, NextAttempt, Goto, Resting

\* A step of task t that leaves the other tasks' transactions alone, and
\* enters the mutex only when it is free, keeps the invariant.
LEMMA StepFrame ==
    ASSUME IndInv, TypeOK', now <= now', req' = req, NEW t \in Tasks,
           \A u \in Tasks \ {t} :
              /\ Resting(u)
              /\ HoldsLock(u) => /\ txConn'[req[u].server] = txConn[req[u].server]
                                 /\ Undisturbed(Conn(u)),
           HoldsLock(t)' => HoldsLock(t) \/ LockFree(req[t].server),
           ConnsApart', TaskInv(t)', \A c \in Conns : ConnInv(c)'
    PROVE  IndInv'
<1>1. \A u \in Tasks : TaskInv(u)'
  BY TaskFrame
<1>2. \A u \in Tasks \ {t} : HoldsLock(u)' <=> HoldsLock(u)
  BY DEF HoldsLock, Resting
<1>3. MutexHeld'
  BY <1>2 DEF MutexHeld, IndInv, LockFree
<1> QED BY <1>1, <1>3 DEF IndInv

\* A step of t that disturbs no connection and leaves t outside the mutex.
LEMMA QuietStep ==
    ASSUME IndInv, TypeOK', UNCHANGED <<now, txConn, req>>, NEW t \in Tasks,
           \A c \in Conns : Undisturbed(c),
           \A u \in Tasks \ {t} : Resting(u),
           ~HoldsLock(t)', at'[t] <= now, pc'[t] = "write" => Overwriting(upd'[t])
    PROVE  IndInv'
<1>1. \A u \in Tasks : Conn(u) \in Conns
  BY RequestParts DEF IndInv, TypeOK, TaskTypeOK, ConnTypeOK, Conn
<1>2. now' = now /\ req' = req /\ txConn' = txConn /\ now \in Nat
  BY DEF IndInv, TypeOK, RedisTypeOK
<1>3. \A c \in Conns : ConnInv(c)'
  BY <1>2, ConnFrame
<1>4. TaskInv(t)'
  BY <1>2 DEF TaskInv, HoldsLock
<1>5. ConnsApart'
  BY <1>2 DEF IndInv, ConnsApart
<1> QED BY <1>1, <1>2, <1>3, <1>4, <1>5, StepFrame

\* Doing nothing to Redis disturbs no connection; nor does touching every
\* key that changes.
LEMMA Calm ==
    /\ UNCHANGED <<redisVars, connVars>> => \A c \in Conns : Undisturbed(c)
    /\ \A ids : /\ UNCHANGED <<watched, stage, queued>> /\ dirty' = Touched(ids)
                /\ \A id \in Ids \ ids : db'[id] = db[id]
                /\ ConnTypeOK
                => \A c \in Conns : Undisturbed(c)
BY DEF Undisturbed, Touched, redisVars, connVars, ConnTypeOK

\* A step of t that touches no connection but its own, which it holds or
\* may take, and no key.
LEMMA OwnConnStep ==
    ASSUME IndInv, TypeOK', UNCHANGED <<redisVars, txConn, req>>, NEW t \in Tasks,
           \A u \in Tasks \ {t} : Resting(u),
           HoldsLock(t) \/ LockFree(req[t].server),
           \A c \in Conns \ {Conn(t)} : Undisturbed(c),
           TaskInv(t)', ConnInv(Conn(t))'
    PROVE  IndInv'
<1>1. \A u \in Tasks : Conn(u) \in Conns /\ req[u].server \in Servers
  BY RequestParts DEF IndInv, TypeOK, TaskTypeOK, ConnTypeOK, Conn
<1>2. now' = now /\ req' = req /\ txConn' = txConn /\ now \in Nat
  BY DEF redisVars, IndInv, TypeOK, RedisTypeOK
<1>3. ASSUME NEW c \in Conns PROVE ConnInv(c)'
  <2>1. CASE c # Conn(t)
    BY <2>1, <1>2, ConnFrame
  <2>2. CASE c = Conn(t)
    <3>1. c = Conn(t)'
      BY <2>2, <1>2 DEF Conn
    <3> QED BY <3>1
  <2> QED BY <2>1, <2>2
<1>4. \A u \in Tasks \ {t} : HoldsLock(u) => Conn(u) # Conn(t)
  BY <1>1 DEF IndInv, MutexHeld, LockFree, ConnsApart, Conn
<1>5. ConnsApart'
  BY <1>2 DEF IndInv, ConnsApart
<1> QED BY <1>1, <1>2, <1>3, <1>4, <1>5, StepFrame

\* A step of t that gives its server a new connection while nobody holds
\* the mutex.
LEMMA ReplaceStep ==
    ASSUME IndInv, TypeOK', UNCHANGED <<redisVars, req>>, NEW t \in Tasks,
           \A u \in Tasks \ {t} : Resting(u),
           LockFree(req[t].server), Replace(req[t].server),
           pc'[t] \in {"watch", "acquire", "done"}, at'[t] <= now
    PROVE  IndInv'
<1> DEFINE s == req[t].server
<1>1. PICK c \in Conns :
        /\ Fresh(c) /\ txConn' = [txConn EXCEPT ![s] = c]
        /\ Clean({k \in {c, txConn[s]} : stage[k] # "exec"})
  BY DEF Replace
<1>2. \A u \in Tasks : Conn(u) \in Conns /\ req[u].server \in Servers
  BY RequestParts DEF IndInv, TypeOK, TaskTypeOK, ConnTypeOK, Conn
<1>3. now' = now /\ req' = req /\ db' = db /\ now \in Nat /\ txConn \in [Servers -> Conns]
  BY DEF redisVars, IndInv, TypeOK, RedisTypeOK, ConnTypeOK
<1>4. \A k \in Conns : stage[k] = "exec" \/ k \notin {c, txConn[s]} => Undisturbed(k)
  BY <1>1, <1>3 DEF Clean, Undisturbed
<1>5. \A k \in Conns : stage[k] # "exec" /\ k \in {c, txConn[s]} => stage'[k] = "free"
  BY <1>1 DEF Clean
<1>6. \A k \in Conns : ConnInv(k)'
  <2> SUFFICES ASSUME NEW k \in Conns PROVE ConnInv(k)'
    OBVIOUS
  <2>1. CASE Undisturbed(k)
    BY <2>1, <1>3, ConnFrame
  <2>2. CASE stage'[k] = "free"
    BY <2>2 DEF ConnInv
  <2> QED BY <2>1, <2>2, <1>4, <1>5
<1>7. ConnsApart'
  <2>1. \A z \in Servers : txConn[z] # c
    BY <1>1 DEF Fresh
  <2> QED BY <1>1, <1>2, <1>3, <2>1 DEF IndInv, ConnsApart
<1>8. Conn(t)' = c /\ stage'[c] = "free"
  <2>1. stage[c] # "exec"
    BY <1>1 DEF Fresh
  <2> QED BY <1>1, <1>2, <1>3, <1>5, <2>1 DEF Conn
<1>9. TaskInv(t)'
  BY <1>3, <1>8 DEF TaskInv
<1>10. ASSUME NEW u \in Tasks \ {t}, HoldsLock(u)
       PROVE  txConn'[req[u].server] = txConn[req[u].server] /\ Undisturbed(Conn(u))
  <2>1. req[u].server # s
    BY <1>10 DEF LockFree
  <2>2. Conn(u) # c /\ Conn(u) # txConn[s]
    BY <1>1, <1>2, <2>1 DEF Fresh, Conn, IndInv, ConnsApart
  <2> QED BY <1>1, <1>2, <1>3, <1>4, <2>1, <2>2
<1> QED BY <1>3, <1>6, <1>7, <1>9, <1>10, StepFrame

\* A tombstone written by DeleteResponse is one for the lifecycle, too.
LEMMA TombstoneOverwrites ==
    ASSUME NEW stored
    PROVE  Overwriting(tombstone_deleted_background(stored))
BY DEF Overwriting, Lifecycle!IsTombstone, tombstone_deleted_background, Ended

LEMMA QuietActions ==
    ASSUME IndInv, TypeOK', NEW t \in Tasks,
           \/ Begin(t) \/ LoadGet(t) \/ LoadUpdate(t) \/ LoadDelete(t) \/ LoadFails(t)
           \/ PlainFails(t) \/ ResetFails(t) \/ Cancel(t) \/ Reload(t)
    PROVE  IndInv'
<1> DEFINE Good == /\ \A u \in Tasks \ {t} : Resting(u)
                   /\ req' = req /\ ~HoldsLock(t)' /\ at'[t] <= now
                   /\ pc'[t] = "write" => Overwriting(upd'[t])
<1>1. TypeOK /\ now \in Nat /\ at[t] <= now /\ req[t] \in Requests /\ 0 <= now
  BY DEF IndInv, TypeOK, RedisTypeOK, TaskTypeOK, TaskInv
<1>2. \A code, rec : Answer(t, code, rec) => Good
  BY <1>1, Moves DEF HoldsLock
<1>3. \A step, rec : /\ Continue(t, step, rec)
                     /\ step \in {"load", "del", "acquire", "write"}
                     /\ step = "write" => Overwriting(rec)
                     => Good
  BY <1>1, Moves DEF HoldsLock
<1>4. Overwriting(req[t].rec)
  BY <1>1 DEF Overwriting
<1>5. Overwriting(tombstone_deleted_background(db[req[t].id]))
  BY TombstoneOverwrites
<1>6. Good
  <2>1. Begin(t) => Good
    BY <1>2, <1>3, <1>4 DEF Begin
  <2>2. LoadGet(t) => Good
    <3> SUFFICES ASSUME LoadGet(t), Goto(t, "acquire"), at' = [at EXCEPT ![t] = now],
                        UNCHANGED <<req, att, upd, ttl, res>>
                 PROVE  Good
      BY <1>2 DEF LoadGet
    <3> QED BY <1>1 DEF Goto, HoldsLock, Resting, TypeOK, TaskTypeOK
  <2>3. LoadUpdate(t) => Good
    BY <1>2, <1>3, <1>4 DEF LoadUpdate
  <2>4. LoadDelete(t) => Good
    BY <1>3, <1>5 DEF LoadDelete
  <2>5. LoadFails(t) => Good
    BY <1>2, <1>3 DEF LoadFails
  <2>6. PlainFails(t) \/ ResetFails(t) \/ Cancel(t) \/ Reload(t) => Good
    BY <1>2 DEF PlainFails, ResetFails, Cancel, Reload
  <2> QED BY <2>1, <2>2, <2>3, <2>4, <2>5, <2>6
<1>7. UNCHANGED <<redisVars, connVars>>
  BY DEF Begin, LoadGet, LoadUpdate, LoadDelete, LoadFails, PlainFails, ResetFails,
         Cancel, Reload
<1>8. \A c \in Conns : Undisturbed(c)
  BY <1>7, Calm
<1>9. UNCHANGED <<now, txConn>>
  BY <1>7 DEF redisVars, connVars
<1> QED BY <1>6, <1>8, <1>9, QuietStep

\* A client's write or delete makes every connection that watches the key
\* dirty.
LEMMA PlainActions ==
    ASSUME IndInv, TypeOK', NEW t \in Tasks, PlainWrite(t) \/ PlainDelete(t)
    PROVE  IndInv'
<1>1. TypeOK /\ ConnTypeOK /\ now \in Nat /\ 0 <= now /\ db \in [Ids -> Records]
      /\ req[t].id \in Ids
  BY RequestParts DEF IndInv, TypeOK, RedisTypeOK, TaskTypeOK
<1>2. /\ UNCHANGED <<now, txConn, watched, stage, queued>>
      /\ \E code \in {"ok", "unavailable"} : Answer(t, code, Absent)
      /\ \A id \in Ids \ {req[t].id} : db'[id] = db[id]
  BY <1>1 DEF PlainWrite, PlainDelete, SetEx, DelKey
<1>3. /\ \A u \in Tasks \ {t} : Resting(u)
      /\ req' = req /\ pc'[t] = "done" /\ at'[t] = 0
  BY <1>1, <1>2, Moves
<1>4. \A c \in Conns : Undisturbed(c)
  <2>1. CASE dirty' = Touched({req[t].id})
    BY <1>1, <1>2, <2>1, Calm
  <2>2. CASE dirty' = dirty /\ db' = db
    BY <1>2, <2>2 DEF Undisturbed
  <2>3. PlainDelete(t) /\ db[req[t].id] = Absent => dirty' = dirty /\ db' = db
    BY <1>1 DEF PlainDelete, DelKey
  <2> QED BY <2>1, <2>2, <2>3 DEF PlainWrite, PlainDelete
<1> QED BY <1>1, <1>2, <1>3, <1>4, QuietStep DEF HoldsLock

\* Redis runs an EXEC: its own connection is done, the others are told.
LEMMA ExecAction ==
    ASSUME IndInv, TypeOK', NEW c \in Conns, RedisExec(c)
    PROVE  IndInv'
<1>1. UNCHANGED <<now, txConn, pc, req, at, upd>>
  BY DEF RedisExec, taskVars
<1>2. now \in Nat /\ ConnTypeOK /\ db \in [Ids -> Records]
  BY DEF IndInv, TypeOK, RedisTypeOK
<1>3. stage[c] = "exec" /\ stage'[c] # "exec"
  BY <1>2 DEF RedisExec, ConnTypeOK
<1>4. \A k \in Conns \ {c} : Undisturbed(k)
  <2>1. CASE dirty[c]
    BY <1>2, <2>1 DEF RedisExec, Undisturbed, ConnTypeOK
  <2>2. CASE ~dirty[c]
    <3>1. PICK w \in queued[c] : /\ SetEx(w.id, w.rec, w.ttl)
                                 /\ dirty' = [Touched({w.id}) EXCEPT ![c] = FALSE]
      BY <2>2 DEF RedisExec
    <3>2. \A id \in Ids \ {w.id} : db'[id] = db[id]
      BY <1>2, <3>1 DEF SetEx
    <3>3. \A k \in Conns \ {c} :
            watched'[k] = watched[k] /\ stage'[k] = stage[k] /\ queued'[k] = queued[k]
      BY <1>2, <2>2 DEF RedisExec, ConnTypeOK
    <3>4. \A k \in Conns \ {c} :
            ~dirty'[k] => ~dirty[k] /\ w.id \notin watched[k]
      BY <3>1 DEF Touched
    <3> QED BY <1>2, <3>2, <3>3, <3>4 DEF Undisturbed, ConnTypeOK
  <2> QED BY <2>1, <2>2
<1>5. \A k \in Conns : ConnInv(k)'
  <2>1. \A k \in Conns \ {c} : ConnInv(k)'
    BY <1>1, <1>2, <1>4, ConnFrame
  <2>2. ConnInv(c)'
    BY <1>3 DEF ConnInv
  <2> QED BY <2>1, <2>2
<1>6. ASSUME NEW u \in Tasks PROVE TaskInv(u)'
  <2>1. Resting(u) /\ Conn(u) \in Conns
    BY <1>1, RequestParts DEF Resting, Conn, IndInv, TypeOK, TaskTypeOK, ConnTypeOK
  <2>2. CASE Conn(u) # c
    BY <1>1, <1>2, <1>4, <2>1, <2>2, TaskFrame
  <2>3. CASE Conn(u) = c
    <3>1. pc[u] \notin {"watch", "get", "ttl", "multi", "setex"}
      BY <1>3, <2>3 DEF IndInv, TaskInv
    <3>2. at[u] <= now /\ (pc[u] = "write" => Overwriting(upd[u]))
      BY DEF IndInv, TaskInv
    <3> QED BY <1>1, <3>1, <3>2 DEF TaskInv
  <2> QED BY <2>2, <2>3
<1>7. ConnsApart' /\ MutexHeld'
  BY <1>1 DEF IndInv, ConnsApart, MutexHeld, HoldsLock
<1> QED BY <1>5, <1>6, <1>7 DEF IndInv

\* Time passes: the keys that go are touched.
LEMMA TickAction ==
    ASSUME IndInv, TypeOK', Tick
    PROVE  IndInv'
<1>1. /\ UNCHANGED <<txConn, pc, req, at, upd, watched, stage, queued>>
      /\ now' = now + 1 /\ now \in Nat /\ ConnTypeOK
  BY DEF Tick, taskVars, IndInv, TypeOK, RedisTypeOK
<1> DEFINE due == {id \in Ids : db[id] # Absent /\ expires[id] <= now + 1}
<1>2. dirty' = Touched(due) /\ \A id \in Ids \ due : db'[id] = db[id]
  BY DEF Tick
<1> HIDE DEF due
<1>3. \A c \in Conns : Undisturbed(c)
  BY <1>1, <1>2, Calm
<1>4. now <= now'
  BY <1>1
<1>5. \A c \in Conns : ConnInv(c)'
  BY <1>3, <1>4, ConnFrame
<1>6. ASSUME NEW u \in Tasks PROVE TaskInv(u)'
  <2>1. Resting(u) /\ Conn(u) \in Conns
    BY <1>1, RequestParts DEF Resting, Conn, IndInv, TypeOK, TaskTypeOK, ConnTypeOK
  <2> QED BY <1>1, <1>3, <1>4, <2>1, TaskFrame
<1>7. ConnsApart' /\ MutexHeld'
  BY <1>1 DEF IndInv, ConnsApart, MutexHeld, HoldsLock
<1> QED BY <1>5, <1>6, <1>7 DEF IndInv

\* A new connection, on acquiring the mutex and after a failed attempt.
LEMMA ReplaceActions ==
    ASSUME IndInv, TypeOK', NEW t \in Tasks, AcquireReconnected(t) \/ Reset(t)
    PROVE  IndInv'
<1>1. TypeOK /\ now \in Nat /\ 0 <= now /\ at[t] <= now
  BY DEF IndInv, TypeOK, RedisTypeOK, TaskInv
<1>2. CASE AcquireReconnected(t)
  <2>1. Goto(t, "watch") /\ upd' = upd /\ at' = at /\ req' = req
    BY <1>2 DEF AcquireReconnected
  <2>2. (\A u \in Tasks \ {t} : Resting(u)) /\ pc'[t] = "watch" /\ at'[t] = at[t]
    BY <1>1, <2>1, Moves
  <2>3. LockFree(req[t].server) /\ Replace(req[t].server) /\ UNCHANGED redisVars
    BY <1>2 DEF AcquireReconnected
  <2> QED BY <1>1, <2>1, <2>2, <2>3, ReplaceStep
<1>3. CASE Reset(t)
  <2>1. Answer(t, "unavailable", Absent) \/ Continue(t, "acquire", Absent)
    BY <1>3 DEF Reset
  <2>2. /\ \A u \in Tasks \ {t} : Resting(u)
        /\ req' = req /\ pc'[t] \in {"acquire", "done"} /\ at'[t] <= now
    BY <1>1, <2>1, Moves
  <2>3. LockFree(req[t].server) /\ Replace(req[t].server) /\ UNCHANGED redisVars
    BY <1>3 DEF Reset
  <2> QED BY <2>2, <2>3, ReplaceStep
<1> QED BY <1>2, <1>3

\* The steps of a transaction: each concerns the connection of the task
\* that holds the mutex, or takes it.
LEMMA OwnConnActions ==
    ASSUME IndInv, TypeOK', NEW t \in Tasks,
           \/ Acquire(t) \/ Watch(t) \/ ReadRecord(t) \/ ReadTtl(t) \/ Multi(t)
           \/ SendExec(t) \/ ExecReply(t) \/ AttemptFails(t)
    PROVE  IndInv'
<1>0. PICK k \in Conns : k = Conn(t)
  BY RequestParts DEF IndInv, TypeOK, TaskTypeOK, ConnTypeOK, Conn
<1>1. TypeOK /\ now \in Nat /\ 0 <= now /\ TaskInv(t) /\ ConnInv(k)
      /\ req[t] \in Requests /\ at[t] \in Nat /\ db[req[t].id] \in Records
  BY RequestParts
     DEF IndInv, TypeOK, RedisTypeOK, TaskTypeOK, ConnTypeOK, Conn
<1>2. at[t] <= now
  BY <1>1 DEF TaskInv
<1>3. HoldsLock(t) \/ LockFree(req[t].server)
  BY DEF Acquire, Watch, ReadRecord, ReadTtl, Multi, SendExec, ExecReply,
         AttemptFails, HoldsLock
<1>4. UNCHANGED <<redisVars, txConn>>
  BY DEF Acquire, Watch, ReadRecord, ReadTtl, Multi, SendExec, ExecReply,
         AttemptFails, Unwatch, connVars
<1>5. now' = now /\ db' = db
  BY <1>4 DEF redisVars
<1>6. \A code, rec : Answer(t, code, rec) =>
        /\ \A u \in Tasks \ {t} : Resting(u)
        /\ req' = req /\ TaskInv(t)'
  BY <1>1, <1>5, Moves DEF TaskInv
<1>7. \A step : NextAttempt(t, step) /\ step \in {"acquire", "reload", "reset"} =>
        /\ \A u \in Tasks \ {t} : Resting(u)
        /\ req' = req /\ TaskInv(t)'
  BY <1>1, <1>2, <1>5, Moves DEF TaskInv
<1>8. req' = req => Conn(t)' = k
  BY <1>0, <1>4 DEF Conn
<1>9. \A c \in Conns \ {k} : Undisturbed(c)
  <2>1. Clean({k}) => \A c \in Conns \ {k} : Undisturbed(c)
    BY <1>5 DEF Clean, Undisturbed
  <2>2. /\ \A c \in Conns \ {k} : /\ watched'[c] = watched[c] /\ dirty'[c] = dirty[c]
                                  /\ stage'[c] = stage[c] /\ queued'[c] = queued[c]
        => \A c \in Conns \ {k} : Undisturbed(c)
    BY <1>5 DEF Undisturbed
  <2>3. UNCHANGED <<watched, dirty, stage, queued>>
        => \A c \in Conns \ {k} : Undisturbed(c)
    BY <2>2
  <2>4. CASE Acquire(t)
    BY <1>1, <2>1, <2>2, <1>0, <2>4 DEF Acquire, TypeOK, ConnTypeOK
  <2>5. CASE ReadRecord(t) \/ AttemptFails(t) \/ ReadTtl(t)
    BY <2>1, <2>3, <1>0, <2>5 DEF ReadRecord, AttemptFails, ReadTtl, Unwatch, connVars
  <2>6. CASE Watch(t) \/ Multi(t) \/ SendExec(t) \/ ExecReply(t)
    BY <1>1, <2>2, <1>0, <2>6 DEF Watch, Multi, SendExec, ExecReply, TypeOK, ConnTypeOK
  <2> QED BY <2>4, <2>5, <2>6
<1>10. ASSUME req' = req, \A u \in Tasks \ {t} : Resting(u), TaskInv(t)', ConnInv(k)'
       PROVE  IndInv'
  <2>1. ConnInv(Conn(t))'
    BY <1>8, <1>10
  <2> QED BY <1>0, <1>3, <1>4, <1>9, <1>10, <2>1, OwnConnStep
<1>11. stage'[k] # "exec" => ConnInv(k)'
  BY DEF ConnInv
<1>12. Clean({k}) => stage'[k] = "free"
  BY <1>1 DEF Clean
<1>13. UNCHANGED <<watched, dirty, stage, queued>> => ConnInv(k)'
  BY <1>1, <1>5 DEF ConnInv
<1>14. Goto(t, pc'[t]) /\ UNCHANGED <<req, at, upd>> =>
         /\ \A u \in Tasks \ {t} : Resting(u)
         /\ at'[t] = at[t] /\ upd'[t] = upd[t] /\ Conn(t)' = k
  BY <1>1, <1>8, Moves
<1>20. CASE Acquire(t)
  <2>1. pc'[t] = "watch" /\ Goto(t, "watch") /\ UNCHANGED <<req, at, upd>>
    BY <1>1, <1>20 DEF Acquire, Goto, TypeOK, TaskTypeOK
  <2>2. stage'[k] # "exec"
    BY <1>0, <1>1, <1>12, <1>20 DEF Acquire, TypeOK, ConnTypeOK
  <2>3. TaskInv(t)'
    BY <1>2, <1>5, <1>14, <2>1, <2>2 DEF TaskInv
  <2> QED BY <1>10, <1>11, <1>14, <2>1, <2>2, <2>3
<1>21. CASE Watch(t)
  <2>1. pc'[t] = "get" /\ Goto(t, "get") /\ UNCHANGED <<req, at, upd, stage>>
    BY <1>1, <1>21 DEF Watch, Goto, TypeOK, TaskTypeOK
  <2>2. stage'[k] # "exec" /\ req[t].id \in watched'[k]
    BY <1>0, <1>1, <1>21, <2>1 DEF Watch, TypeOK, ConnTypeOK, TaskInv
  <2>3. TaskInv(t)'
    BY <1>2, <1>5, <1>14, <2>1, <2>2 DEF TaskInv
  <2> QED BY <1>10, <1>11, <1>14, <2>1, <2>2, <2>3
<1>22. CASE ReadRecord(t)
  <2>1. stage[k] # "exec" /\ req[t].id \in watched[k]
    BY <1>0, <1>1, <1>22 DEF ReadRecord, TaskInv
  <2>2. CASE \E code, rec : Answer(t, code, rec) /\ Unwatch(t)
    <3>1. stage'[k] # "exec"
      BY <1>0, <1>12, <2>1, <2>2 DEF Unwatch
    <3> QED BY <1>6, <1>10, <1>11, <2>2, <3>1
  <2>3. CASE /\ Allowed(req[t], db[req[t].id], at[t])
             /\ Continue(t, "ttl", Prepared(req[t], db[req[t].id]))
             /\ UNCHANGED connVars
    <3>1. /\ \A u \in Tasks \ {t} : Resting(u)
          /\ req' = req /\ pc'[t] = "ttl" /\ at'[t] = at[t]
          /\ upd'[t] = Prepared(req[t], db[req[t].id])
      BY <1>1, <2>3, Moves
    <3>2. UNCHANGED <<watched, dirty, stage, queued>>
      BY <2>3 DEF connVars
    <3>3. Lifecycle!Transition(db[req[t].id], Prepared(req[t], db[req[t].id]), at[t])
      BY <1>1, <2>3, AllowedIsTransition
    <3>4. Lifecycle!Transition(db[req[t].id], upd'[t], now)
      BY <1>1, <1>2, <3>1, <3>3, TransitionLater
    <3>5. TaskInv(t)'
      BY <1>2, <1>5, <1>8, <2>1, <3>1, <3>2, <3>4 DEF TaskInv
    <3> QED BY <1>10, <1>13, <3>1, <3>2, <3>5
  <2> QED BY <1>22, <2>2, <2>3 DEF ReadRecord
<1>23. CASE ReadTtl(t)
  <2>1. /\ pc'[t] = "multi" /\ Goto(t, "multi")
        /\ UNCHANGED <<req, at, upd, watched, dirty, stage, queued>>
    BY <1>1, <1>23 DEF ReadTtl, Goto, TypeOK, TaskTypeOK, connVars
  <2>2. pc[t] = "ttl"
    BY <1>23 DEF ReadTtl
  <2>3. TaskInv(t)'
    BY <1>0, <1>1, <1>5, <1>14, <2>1, <2>2 DEF TaskInv
  <2> QED BY <1>10, <1>13, <1>14, <2>1, <2>3
<1>24. CASE Multi(t)
  <2>1. /\ pc'[t] = "setex" /\ Goto(t, "setex") /\ pc[t] = "multi"
        /\ UNCHANGED <<req, at, upd, watched, dirty, queued>>
    BY <1>1, <1>24 DEF Multi, Goto, TypeOK, TaskTypeOK
  <2>2. stage'[k] # "exec"
    BY <1>0, <1>1, <1>24 DEF Multi, TypeOK, ConnTypeOK
  <2>3. TaskInv(t)'
    BY <1>0, <1>1, <1>5, <1>14, <2>1, <2>2 DEF TaskInv
  <2> QED BY <1>10, <1>11, <1>14, <2>1, <2>2, <2>3
<1>25. CASE SendExec(t)
  <2>1. /\ pc'[t] = "exec" /\ Goto(t, "exec") /\ pc[t] = "setex"
        /\ UNCHANGED <<req, at, upd, watched, dirty>>
    BY <1>1, <1>25 DEF SendExec, Goto, TypeOK, TaskTypeOK
  <2> DEFINE w == [id |-> req[t].id, rec |-> upd[t], ttl |-> ttl[t]]
  <2>2. queued'[k] = {w}
    BY <1>0, <1>1, <1>25 DEF SendExec, TypeOK, ConnTypeOK
  <2>3. w.id \in watched'[k]
    BY <1>0, <1>1, <2>1 DEF TaskInv
  <2>4. ~dirty'[k] => Lifecycle!Transition(db'[w.id], w.rec, now')
    BY <1>0, <1>1, <1>5, <2>1 DEF TaskInv
  <2>5. ConnInv(k)'
    BY <2>2, <2>3, <2>4 DEF ConnInv
  <2>6. TaskInv(t)'
    BY <1>2, <1>5, <1>14, <2>1 DEF TaskInv
  <2> QED BY <1>10, <1>14, <2>1, <2>5, <2>6
<1>26. CASE ExecReply(t)
  <2>1. stage'[k] # "exec"
    BY <1>0, <1>1, <1>26 DEF ExecReply, TypeOK, ConnTypeOK
  <2>2. /\ \A u \in Tasks \ {t} : Resting(u)
        /\ req' = req /\ TaskInv(t)'
    BY <1>6, <1>7, <1>26 DEF ExecReply
  <2> QED BY <1>10, <1>11, <2>1, <2>2
<1>27. CASE AttemptFails(t)
  <2>1. NextAttempt(t, "reset")
    BY <1>27 DEF AttemptFails
  <2>2. ConnInv(k)'
    <3>1. Clean({k}) \/ UNCHANGED <<watched, dirty, stage, queued>>
      BY <1>0, <1>27 DEF AttemptFails
    <3> QED BY <1>11, <1>12, <1>13, <3>1
  <2> QED BY <1>7, <1>10, <2>1, <2>2
<1> QED BY <1>20, <1>21, <1>22, <1>23, <1>24, <1>25, <1>26, <1>27

LEMMA IndInit == Init => IndInv
<1> SUFFICES ASSUME Init PROVE IndInv
  OBVIOUS
<1>1. TypeOK
  BY TypeInit
<1>2. ConnsApart /\ MutexHeld
  BY DEF Init, ConnsApart, MutexHeld, HoldsLock
<1>3. \A t \in Tasks : TaskInv(t)
  BY DEF Init, TaskInv
<1>4. \A c \in Conns : ConnInv(c)
  BY DEF Init, ConnInv
<1> QED BY <1>1, <1>2, <1>3, <1>4 DEF IndInv

LEMMA IndStep == IndInv /\ [Next]_vars => IndInv'
<1> SUFFICES ASSUME IndInv, [Next]_vars PROVE IndInv'
  OBVIOUS
<1>1. TypeOK'
  BY TypeStep DEF IndInv
<1>2. ASSUME NEW t \in Tasks, Begin(t) \/ Proceed(t) \/ Fault(t) PROVE IndInv'
  BY <1>1, <1>2, QuietActions, PlainActions, OwnConnActions, ReplaceActions
     DEF Proceed, Fault
<1>3. ASSUME NEW c \in Conns, RedisExec(c) PROVE IndInv'
  BY <1>1, <1>3, ExecAction
<1>4. CASE Tick
  BY <1>1, <1>4, TickAction
<1>5. CASE UNCHANGED vars
  BY <1>5 DEF vars, redisVars, connVars, taskVars, IndInv, TypeOK, RedisTypeOK,
     ConnTypeOK, TaskTypeOK, ConnsApart, MutexHeld, HoldsLock, TaskInv, ConnInv, Conn
<1> QED BY <1>2, <1>3, <1>4, <1>5 DEF Next, Finished

\* The inductive invariant: the mutex excludes, servers share no
\* connection, every transaction watches the key it read, and a clean
\* connection's write is still a lawful transition.
THEOREM Invariant == Spec => []IndInv
<1> QED BY IndInit, IndStep, PTL DEF Spec

\* WATCH protects the read (store.rs:364-413): unless the connection is
\* dirty, what a transaction prepared, and what a sent EXEC will write even
\* after its server gave it up, is a lawful transition of the current record.
THEOREM WatchedReads == Spec => []WatchedReadIsCurrent
<1>1. IndInv => WatchedReadIsCurrent
  BY DEF IndInv, TaskInv, ConnInv, WatchedReadIsCurrent
<1> QED BY <1>1, Invariant, PTL

-----------------------------------------------------------------------------
(* The store implements the lifecycle                                      *)

\* How one step of the store looks to somebody who sees only the keys.
LEMMA KeyStep ==
    ASSUME IndInv, [Next]_vars
    PROVE  \/ UNCHANGED <<now, db>>
           \/ \E t \in Tasks :
                 /\ pc[t] \in {"write", "del"} /\ pc'[t] = "done" /\ now' = now
                 /\ db' = [db EXCEPT ![req[t].id] = db'[req[t].id]]
                 /\ db'[req[t].id] = Absent \/ Overwriting(db'[req[t].id])
           \/ \E id \in Ids :
                 /\ db' = [db EXCEPT ![id] = db'[id]] /\ now' = now
                 /\ Lifecycle!Transition(db[id], db'[id], now)
           \/ /\ now' = now + 1
              /\ \E gone \in SUBSET Ids :
                    db' = [id \in Ids |-> IF id \in gone THEN Absent ELSE db[id]]
<1>1. TypeOK /\ db \in [Ids -> Records]
  BY DEF IndInv, TypeOK, RedisTypeOK
<1>2. ASSUME NEW t \in Tasks, PlainWrite(t) \/ PlainDelete(t)
      PROVE  /\ pc[t] \in {"write", "del"} /\ pc'[t] = "done" /\ now' = now
             /\ db' = [db EXCEPT ![req[t].id] = db'[req[t].id]]
             /\ db'[req[t].id] = Absent \/ Overwriting(db'[req[t].id])
  <2>1. req[t].id \in Ids /\ TaskInv(t)
    BY RequestParts DEF IndInv, TypeOK, TaskTypeOK
  <2>2. pc'[t] = "done" /\ now' = now /\ pc[t] \in {"write", "del"}
    BY <1>1, <1>2, Moves DEF PlainWrite, PlainDelete
  <2>3. PlainWrite(t) => Overwriting(upd[t]) /\ db' = [db EXCEPT ![req[t].id] = upd[t]]
    BY <2>1 DEF PlainWrite, SetEx, TaskInv
  <2>4. PlainDelete(t) => db' = [db EXCEPT ![req[t].id] = Absent]
    BY DEF PlainDelete, DelKey
  <2> QED BY <1>1, <1>2, <2>1, <2>2, <2>3, <2>4
<1>3. ASSUME NEW c \in Conns, RedisExec(c)
      PROVE  \/ UNCHANGED <<now, db>>
             \/ \E id \in Ids :
                   /\ db' = [db EXCEPT ![id] = db'[id]] /\ now' = now
                   /\ Lifecycle!Transition(db[id], db'[id], now)
  <2>1. CASE dirty[c]
    BY <1>3, <2>1 DEF RedisExec
  <2>2. CASE ~dirty[c]
    <3>1. PICK w \in queued[c] : db' = [db EXCEPT ![w.id] = w.rec] /\ now' = now
      BY <1>3, <2>2 DEF RedisExec, SetEx
    <3>2. w.id \in Ids /\ Lifecycle!Transition(db[w.id], w.rec, now)
      BY <1>3, <2>2 DEF RedisExec, IndInv, ConnInv, TypeOK, ConnTypeOK, Write
    <3> QED BY <1>1, <3>1, <3>2
  <2> QED BY <2>1, <2>2
<1>4. ASSUME Tick
      PROVE  /\ now' = now + 1
             /\ \E gone \in SUBSET Ids :
                   db' = [id \in Ids |-> IF id \in gone THEN Absent ELSE db[id]]
  BY <1>4 DEF Tick
<1>5. ASSUME NEW t \in Tasks, Begin(t) \/ Proceed(t) \/ Fault(t),
             ~PlainWrite(t), ~PlainDelete(t)
      PROVE  UNCHANGED <<now, db>>
  <2>1. UNCHANGED redisVars
    BY <1>5 DEF Proceed, Fault, Begin, LoadGet, LoadUpdate, LoadDelete, LoadFails,
       PlainFails, Acquire, AcquireReconnected, Watch, ReadRecord, ReadTtl, Multi,
       SendExec, ExecReply, AttemptFails, Reset, ResetFails, Reload, Cancel
  <2> QED BY <2>1 DEF redisVars
<1>6. CASE UNCHANGED vars
  BY <1>6 DEF vars, redisVars
<1> QED BY <1>2, <1>3, <1>4, <1>5, <1>6 DEF Next, Finished

\* Records that cannot change any more stay, for every step of the store.
LEMMA TerminalStep ==
    ASSUME IndInv, [Next]_vars, NEW id \in Ids,
           is_terminal_background_status(db[id]), db'[id] # db[id]
    PROVE  db'[id] = Absent \/ ClientWrites(id)
<1>1. db \in [Ids -> Records]
  BY DEF IndInv, TypeOK, RedisTypeOK
<1>2. ASSUME NEW x \in Ids, db' = [db EXCEPT ![x] = db'[x]],
             Lifecycle!Transition(db[x], db'[x], now)
      PROVE  FALSE
  BY <1>1, <1>2, TransitionNotFromTerminal
<1>3. ASSUME NEW t \in Tasks, pc[t] \in {"write", "del"}, pc'[t] = "done",
             db' = [db EXCEPT ![req[t].id] = db'[req[t].id]]
      PROVE  ClientWrites(id)
  BY <1>1, <1>3 DEF ClientWrites
<1> QED BY <1>2, <1>3, KeyStep

\* No delayed, retried or abandoned background transition revives a
\* response that was cancelled, completed, failed or deleted.
THEOREM TerminalStays == Spec => TerminalIsFinal
<1>1. IndInv /\ [Next]_vars =>
      [\A id \in Ids :
         is_terminal_background_status(db[id]) /\ db'[id] # db[id]
         => db'[id] = Absent \/ ClientWrites(id)]_vars
  BY TerminalStep
<1> QED BY <1>1, Invariant, PTL DEF Spec, TerminalIsFinal

\* A transition keeps the payload of a claimed record and drops that of a
\* completed or failed one.
LEMMA TransitionPayload ==
    ASSUME NEW before \in Records, NEW after, NEW clock,
           Lifecycle!Transition(before, after, clock), before.pending_upstream_request
    PROVE  after.pending_upstream_request <=> after.status \notin {"completed", "failed"}
BY TransitionCases DEF prepare_claim_background, prepare_complete_background,
   prepare_fail_background, apply_stale_failure, Ended

\* The upstream request stays with a record, through every retry and fault,
\* until the record is completed or failed, and goes with that.
THEOREM PayloadStays == Spec => PayloadKeptUntilDone
<1>1. ASSUME IndInv, [Next]_vars, NEW id \in Ids, db[id].pending_upstream_request,
             db'[id] # db[id], db'[id] # Absent, ~ClientWrites(id)
      PROVE  db'[id].pending_upstream_request
             <=> db'[id].status \notin {"completed", "failed"}
  <2>1. db \in [Ids -> Records]
    BY <1>1 DEF IndInv, TypeOK, RedisTypeOK
  <2>2. ASSUME NEW x \in Ids, db' = [db EXCEPT ![x] = db'[x]],
               Lifecycle!Transition(db[x], db'[x], now)
        PROVE  x = id
    BY <1>1, <2>1, <2>2
  <2>3. ASSUME NEW t \in Tasks, pc[t] \in {"write", "del"}, pc'[t] = "done",
               db' = [db EXCEPT ![req[t].id] = db'[req[t].id]]
        PROVE  FALSE
    BY <1>1, <2>1, <2>3 DEF ClientWrites
  <2>4. Lifecycle!Transition(db[id], db'[id], now)
    BY <1>1, <2>2, <2>3, KeyStep
  <2> QED BY <1>1, <2>1, <2>4, TransitionPayload
<1>2. IndInv /\ [Next]_vars =>
      [\A id \in Ids :
         /\ db[id].pending_upstream_request
         /\ db'[id] # db[id] /\ db'[id] # Absent
         /\ ~ClientWrites(id)
         => db'[id].pending_upstream_request
            <=> db'[id].status \notin {"completed", "failed"}]_vars
  BY <1>1
<1> QED BY <1>2, Invariant, PTL DEF Spec, PayloadKeptUntilDone

LEMMA LifecycleInit == Init => Lifecycle!LInit
<1> SUFFICES ASSUME Init PROVE Lifecycle!LInit
  OBVIOUS
<1>1. Lifecycle!Absent = Absent
  BY SameRecordFunctions
<1>2. now \in Nat /\ db \in [Ids -> Preloaded \cup {Absent}]
  BY DEF Init
<1> QED BY <1>1, <1>2 DEF Lifecycle!LInit

LEMMA LifecycleStep == IndInv /\ [Next]_vars => [Lifecycle!LNext]_<<now, db>>
<1> SUFFICES ASSUME IndInv, [Next]_vars, ~UNCHANGED <<now, db>>
             PROVE  Lifecycle!LNext
  OBVIOUS
<1>1. Lifecycle!Absent = Absent
  BY SameRecordFunctions
<1>2. \A t \in Tasks : req[t].id \in Ids
  BY RequestParts DEF IndInv, TypeOK, TaskTypeOK
<1>3. ASSUME NEW t \in Tasks, now' = now,
             db' = [db EXCEPT ![req[t].id] = db'[req[t].id]],
             db'[req[t].id] = Absent \/ Overwriting(db'[req[t].id])
      PROVE  Lifecycle!Overwrite(req[t].id)
  BY <1>1, <1>3 DEF Lifecycle!Overwrite, Lifecycle!Changes, Overwriting
<1>4. ASSUME NEW id \in Ids, now' = now, db' = [db EXCEPT ![id] = db'[id]],
             Lifecycle!Transition(db[id], db'[id], now)
      PROVE  Lifecycle!Transit(id)
  BY <1>4 DEF Lifecycle!Transit, Lifecycle!Changes
<1>5. ASSUME now' = now + 1, NEW gone \in SUBSET Ids,
             db' = [id \in Ids |-> IF id \in gone THEN Absent ELSE db[id]]
      PROVE  Lifecycle!Elapse
  BY <1>1, <1>5 DEF Lifecycle!Elapse
<1> QED BY <1>2, <1>3, <1>4, <1>5, KeyStep DEF Lifecycle!LNext

\* The store implements ResponseLifecycle: every step of every server, with
\* its faults, retries and late EXECs, is one lawful change of one record,
\* the passing of time, or nothing to somebody who sees only the keys.
THEOREM Refinement == Spec => ImplementsLifecycle
<1> QED BY LifecycleInit, LifecycleStep, Invariant, PTL
        DEF Spec, ImplementsLifecycle, Lifecycle!LSpec
=============================================================================
