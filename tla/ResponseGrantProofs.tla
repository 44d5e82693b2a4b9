------------------------ MODULE ResponseGrantProofs ------------------------
(***************************************************************************)
(* What the transactions of ResponseStore grant: one claim per stored      *)
(* response, and no lifetime cut short.  Both rest on IndInv, proved in    *)
(* ResponseStoreProofs, and on a closer look at what a step leaves alone.  *)
(***************************************************************************)
EXTENDS ResponseStoreProofs

-----------------------------------------------------------------------------
(* What a step leaves alone                                                *)

\* Keys that are gone have no expiry left; the others have a future one.
ExpiryInv ==
    \A id \in Ids : /\ db[id] = Absent => expires[id] = 0
                    /\ db[id] # Absent => expires[id] > now

\* A step after which the transaction on c is as good as before, or dirty,
\* the lifetimes of its keys included.
Untouched(c) ==
    /\ watched'[c] = watched[c] /\ stage'[c] = stage[c] /\ queued'[c] = queued[c]
    /\ ~dirty'[c] => /\ ~dirty[c]
                     /\ \A id \in watched[c] : db'[id] = db[id] /\ expires'[id] = expires[id]

\* A step in which task u does nothing.
Still(u) == /\ pc'[u] = pc[u] /\ upd'[u] = upd[u] /\ ttl'[u] = ttl[u]
            /\ res'[u] = res[u]

\* A step of task t concerns no other task, and no transaction of another
\* task that holds the mutex; an EXEC that is on its way stays what it is.
Apart(t) ==
    /\ req' = req /\ now' = now
    /\ \A u \in Tasks \ {t} :
          /\ Still(u)
          /\ HoldsLock(u) => Conn(u)' = Conn(u) /\ Untouched(Conn(u))
    /\ \A c \in Conns : \/ Untouched(c) \/ stage'[c] # "exec"
                        \/ SendExec(t) /\ c = Conn(t)

\* The conjuncts that the lemmas below need of IndInv.
LEMMA IndParts ==
    ASSUME IndInv
    PROVE  /\ TypeOK /\ RedisTypeOK /\ ConnTypeOK /\ TaskTypeOK
           /\ ConnsApart /\ MutexHeld
           /\ \A t \in Tasks : /\ TaskInv(t) /\ req[t] \in Requests
                               /\ req[t].id \in Ids /\ req[t].server \in Servers
                               /\ Conn(t) \in Conns
           /\ \A c \in Conns : ConnInv(c)
<1>1. \A t \in Tasks : req[t] \in Requests
  BY DEF IndInv, TypeOK, TaskTypeOK
<1>2. \A t \in Tasks : req[t].id \in Ids /\ req[t].server \in Servers
  BY <1>1, RequestParts
<1> QED BY <1>1, <1>2 DEF IndInv, TypeOK, ConnTypeOK, Conn

\* How the operators of a step move the tasks.
LEMMA TaskMoves ==
    ASSUME TaskTypeOK, NEW t \in Tasks, NEW step, NEW rec, NEW code
    PROVE  /\ Answer(t, code, rec) =>
              /\ \A u \in Tasks \ {t} : Still(u)
              /\ req' = req /\ pc'[t] = "done" /\ res'[t] = code
           /\ Continue(t, step, rec) =>
              /\ \A u \in Tasks \ {t} : Still(u)
              /\ req' = req /\ pc'[t] = step /\ res'[t] = res[t] /\ upd'[t] = rec
           /\ NextAttempt(t, step) =>
              /\ \A u \in Tasks \ {t} : Still(u)
              /\ req' = req /\ pc'[t] = step /\ res'[t] = res[t]
           /\ Goto(t, step) /\ UNCHANGED <<req, upd, ttl, res>> =>
              /\ \A u \in Tasks \ {t} : Still(u)
              /\ req' = req /\ pc'[t] = step /\ res'[t] = res[t]
              /\ upd'[t] = upd[t] /\ ttl'[t] = ttl[t]
BY DEF TaskTypeOK, Answer, Continue, NextAttempt, Goto, Still

\* Every step of a task moves no other task.
LEMMA OthersStill ==
    ASSUME IndInv, NEW t \in Tasks, Begin(t) \/ Proceed(t) \/ Fault(t)
    PROVE  req' = req /\ \A u \in Tasks \ {t} : Still(u)
<1>1. TaskTypeOK
  BY IndParts
<1> DEFINE Good == req' = req /\ \A u \in Tasks \ {t} : Still(u)
<1>2. \A code, rec : Answer(t, code, rec) => Good
  BY <1>1, TaskMoves
<1>3. \A step, rec : Continue(t, step, rec) => Good
  BY <1>1, TaskMoves
<1>4. \A step : NextAttempt(t, step) => Good
  BY <1>1, TaskMoves
<1>5. \A step : Goto(t, step) /\ UNCHANGED <<req, upd, res>>
                /\ (\A u \in Tasks \ {t} : ttl'[u] = ttl[u]) => Good
  BY <1>1 DEF TaskTypeOK, Goto, Still
<1>6. Good
  <2>1. Begin(t) \/ LoadUpdate(t) \/ LoadDelete(t) \/ LoadFails(t) => Good
    BY <1>2, <1>3 DEF Begin, LoadUpdate, LoadDelete, LoadFails
  <2>2. PlainWrite(t) \/ PlainDelete(t) \/ PlainFails(t) \/ ResetFails(t) \/ Reload(t)
        \/ Cancel(t) => Good
    BY <1>2 DEF PlainWrite, PlainDelete, PlainFails, ResetFails, Reload, Cancel
  <2>3. LoadGet(t) => Good
    BY <1>2, <1>5 DEF LoadGet
  <2>4. Acquire(t) \/ AcquireReconnected(t) \/ Watch(t) \/ Multi(t) \/ SendExec(t) => Good
    BY <1>5 DEF Acquire, AcquireReconnected, Watch, Multi, SendExec
  <2>5. ReadTtl(t) => Good
    <3>1. ReadTtl(t) => \A u \in Tasks \ {t} : ttl'[u] = ttl[u]
      BY <1>1 DEF ReadTtl, TaskTypeOK
    <3> QED BY <3>1, <1>5 DEF ReadTtl
  <2>6. ReadRecord(t) \/ ExecReply(t) \/ AttemptFails(t) \/ Reset(t) => Good
    BY <1>2, <1>3, <1>4 DEF ReadRecord, ExecReply, AttemptFails, Reset
  <2> QED BY <2>1, <2>2, <2>3, <2>4, <2>5, <2>6 DEF Proceed, Fault
<1> QED BY <1>6

\* A step that leaves Redis and the connections alone.
LEMMA UntouchedByNothing ==
    UNCHANGED <<redisVars, connVars>> => \A c \in Conns : Untouched(c)
BY DEF Untouched, redisVars, connVars

\* A change of one key touches the connections that watch it; removing a
\* key that is not there changes nothing.
LEMMA PlainApart ==
    ASSUME IndInv, ExpiryInv, NEW t \in Tasks, PlainWrite(t) \/ PlainDelete(t)
    PROVE  \A c \in Conns : Untouched(c)
<1> DEFINE id == req[t].id
<1>1. id \in Ids /\ db \in [Ids -> Records] /\ expires \in [Ids -> Nat] /\ ConnTypeOK
  BY IndParts DEF RedisTypeOK
<1>2. UNCHANGED <<watched, stage, queued>>
      /\ \A x \in Ids \ {id} : db'[x] = db[x] /\ expires'[x] = expires[x]
  BY <1>1 DEF PlainWrite, PlainDelete, SetEx, DelKey
<1>3. CASE dirty' = Touched({id})
  BY <1>1, <1>2, <1>3 DEF Touched, Untouched, ConnTypeOK
<1>4. CASE PlainDelete(t) /\ db[id] = Absent
  <2>1. db' = db /\ expires' = expires /\ dirty' = dirty
    BY <1>1, <1>4 DEF PlainDelete, DelKey, ExpiryInv
  <2> QED BY <1>2, <2>1 DEF Untouched
<1> QED BY <1>3, <1>4 DEF PlainWrite, PlainDelete

\* A transaction's steps touch only its own connection.
LEMMA OwnConnApart ==
    ASSUME IndInv, NEW t \in Tasks,
           \/ Acquire(t) \/ Watch(t) \/ ReadRecord(t) \/ ReadTtl(t) \/ Multi(t)
           \/ SendExec(t) \/ ExecReply(t) \/ AttemptFails(t)
    PROVE  /\ UNCHANGED <<redisVars, txConn>>
           /\ HoldsLock(t) \/ LockFree(req[t].server)
           /\ \A c \in Conns \ {Conn(t)} : Untouched(c)
           /\ \/ Untouched(Conn(t)) \/ stage'[Conn(t)] # "exec" \/ SendExec(t)
<1>0. PICK k \in Conns : k = Conn(t)
  BY IndParts
<1>1. ConnTypeOK /\ TaskInv(t)
  BY IndParts
<1>2. UNCHANGED <<redisVars, txConn>>
  BY DEF Acquire, Watch, ReadRecord, ReadTtl, Multi, SendExec, ExecReply,
         AttemptFails, Unwatch, connVars
<1>3. db' = db /\ expires' = expires
  BY <1>2 DEF redisVars
<1>4. HoldsLock(t) \/ LockFree(req[t].server)
  BY DEF Acquire, Watch, ReadRecord, ReadTtl, Multi, SendExec, ExecReply,
         AttemptFails, HoldsLock
<1>5. Clean({k}) => /\ \A c \in Conns \ {k} : Untouched(c)
                    /\ stage'[k] = "free"
  BY <1>3 DEF Clean, Untouched
<1>6. UNCHANGED <<watched, dirty, stage, queued>> => \A c \in Conns : Untouched(c)
  BY <1>3 DEF Untouched
<1>7. (\A c \in Conns \ {k} : /\ watched'[c] = watched[c] /\ dirty'[c] = dirty[c]
                              /\ stage'[c] = stage[c] /\ queued'[c] = queued[c])
      => \A c \in Conns \ {k} : Untouched(c)
  BY <1>3 DEF Untouched
<1>8. (\A c \in Conns \ {k} : Untouched(c))
      /\ (Untouched(k) \/ stage'[k] # "exec" \/ SendExec(t))
  <2>1. CASE Acquire(t)
    BY <1>0, <1>1, <1>5, <1>7, <2>1 DEF Acquire, ConnTypeOK
  <2>2. CASE ReadRecord(t) \/ AttemptFails(t) \/ ReadTtl(t)
    BY <1>0, <1>5, <1>6, <2>2 DEF ReadRecord, AttemptFails, ReadTtl, Unwatch, connVars
  <2>3. CASE Watch(t)
    <3>1. \A c \in Conns \ {k} : Untouched(c)
      BY <1>0, <1>1, <1>7, <2>3 DEF Watch, ConnTypeOK
    <3>2. stage'[k] # "exec"
      BY <1>0, <1>1, <2>3 DEF Watch, TaskInv
    <3> QED BY <3>1, <3>2
  <2>4. CASE Multi(t) \/ SendExec(t) \/ ExecReply(t)
    BY <1>0, <1>1, <1>7, <2>4 DEF Multi, SendExec, ExecReply, ConnTypeOK
  <2> QED BY <2>1, <2>2, <2>3, <2>4
<1> QED BY <1>0, <1>2, <1>4, <1>8

\* A new connection is nobody else's, and an EXEC that the old one has sent
\* stays on its way.
LEMMA ReplaceApart ==
    ASSUME IndInv, NEW t \in Tasks, AcquireReconnected(t) \/ Reset(t)
    PROVE  /\ UNCHANGED redisVars
           /\ \A c \in Conns : Untouched(c) \/ stage'[c] # "exec"
           /\ \A u \in Tasks \ {t} :
                 HoldsLock(u) => /\ txConn'[req[u].server] = txConn[req[u].server]
                                 /\ Untouched(Conn(u))
<1> DEFINE s == req[t].server
<1>1. LockFree(s) /\ Replace(s) /\ UNCHANGED redisVars
  BY DEF AcquireReconnected, Reset
<1>2. PICK c \in Conns :
        /\ Fresh(c) /\ txConn' = [txConn EXCEPT ![s] = c]
        /\ Clean({k \in {c, txConn[s]} : stage[k] # "exec"})
  BY <1>1 DEF Replace
<1>3. db' = db /\ expires' = expires /\ txConn \in [Servers -> Conns] /\ s \in Servers
      /\ \A u \in Tasks : Conn(u) \in Conns /\ req[u].server \in Servers
  BY <1>1, IndParts DEF redisVars, ConnTypeOK
<1>4. \A k \in Conns : stage[k] = "exec" \/ k \notin {c, txConn[s]} => Untouched(k)
  BY <1>2, <1>3 DEF Clean, Untouched
<1>5. \A k \in Conns : stage[k] # "exec" /\ k \in {c, txConn[s]} => stage'[k] = "free"
  BY <1>2 DEF Clean
<1>6. ASSUME NEW u \in Tasks \ {t}, HoldsLock(u)
      PROVE  txConn'[req[u].server] = txConn[req[u].server] /\ Untouched(Conn(u))
  <2>1. req[u].server # s
    BY <1>1, <1>6 DEF LockFree
  <2>2. Conn(u) # c /\ Conn(u) # txConn[s]
    BY <1>2, <1>3, <2>1 DEF Fresh, Conn, IndInv, ConnsApart
  <2> QED BY <1>2, <1>3, <1>4, <2>1, <2>2
<1>7. \A k \in Conns : Untouched(k) \/ stage'[k] # "exec"
  BY <1>4, <1>5
<1> QED BY <1>1, <1>6, <1>7

\* The steps of one task leave the transactions of the others alone.
LEMMA StepApart ==
    ASSUME IndInv, ExpiryInv, NEW t \in Tasks, Begin(t) \/ Proceed(t) \/ Fault(t)
    PROVE  Apart(t)
<1>1. req' = req /\ \A u \in Tasks \ {t} : Still(u)
  BY OthersStill
<1>2. ASSUME now' = now, \A c \in Conns : Untouched(c), txConn' = txConn
      PROVE  Apart(t)
  <2>1. \A u \in Tasks : Conn(u)' = Conn(u) /\ Conn(u) \in Conns
    BY <1>1, <1>2, IndParts DEF Conn
  <2> QED BY <1>1, <1>2, <2>1 DEF Apart
<1>3. CASE \/ Begin(t) \/ LoadGet(t) \/ LoadUpdate(t) \/ LoadDelete(t) \/ LoadFails(t)
           \/ PlainFails(t) \/ ResetFails(t) \/ Cancel(t) \/ Reload(t)
  <2>1. UNCHANGED <<redisVars, connVars>>
    BY <1>3 DEF Begin, LoadGet, LoadUpdate, LoadDelete, LoadFails, PlainFails,
                ResetFails, Cancel, Reload
  <2>2. now' = now /\ txConn' = txConn
    BY <2>1 DEF redisVars, connVars
  <2> QED BY <1>2, <2>1, <2>2, UntouchedByNothing
<1>4. CASE PlainWrite(t) \/ PlainDelete(t)
  <2>1. now' = now /\ txConn' = txConn
    BY <1>4 DEF PlainWrite, PlainDelete
  <2> QED BY <1>2, <1>4, <2>1, PlainApart
<1>5. CASE AcquireReconnected(t) \/ Reset(t)
  <2>1. now' = now
    BY <1>5, ReplaceApart DEF redisVars
  <2>2. \A u \in Tasks \ {t} : HoldsLock(u) => Conn(u)' = Conn(u) /\ Untouched(Conn(u))
    BY <1>1, <1>5, ReplaceApart DEF Conn
  <2>3. \A c \in Conns : Untouched(c) \/ stage'[c] # "exec"
    BY <1>5, ReplaceApart
  <2> QED BY <1>1, <2>1, <2>2, <2>3 DEF Apart
<1>6. CASE \/ Acquire(t) \/ Watch(t) \/ ReadRecord(t) \/ ReadTtl(t) \/ Multi(t)
           \/ SendExec(t) \/ ExecReply(t) \/ AttemptFails(t)
  <2>1. /\ UNCHANGED <<redisVars, txConn>>
        /\ HoldsLock(t) \/ LockFree(req[t].server)
        /\ \A c \in Conns \ {Conn(t)} : Untouched(c)
        /\ \/ Untouched(Conn(t)) \/ stage'[Conn(t)] # "exec" \/ SendExec(t)
    BY <1>6, OwnConnApart
  <2>2. now' = now /\ \A u \in Tasks : Conn(u)' = Conn(u)
    BY <1>1, <2>1 DEF redisVars, Conn
  <2>3. \A u \in Tasks \ {t} : HoldsLock(u) => Conn(u) \in Conns /\ Conn(u) # Conn(t)
    BY <2>1, IndParts DEF MutexHeld, LockFree, ConnsApart, Conn
  <2>4. \A u \in Tasks \ {t} : HoldsLock(u) => Conn(u)' = Conn(u) /\ Untouched(Conn(u))
    BY <2>1, <2>2, <2>3
  <2>5. \A c \in Conns : Untouched(c) \/ stage'[c] # "exec" \/ (SendExec(t) /\ c = Conn(t))
    BY <2>1
  <2> QED BY <1>1, <2>2, <2>4, <2>5 DEF Apart
<1> QED BY <1>3, <1>4, <1>5, <1>6 DEF Proceed, Fault

\* Redis' own steps move no task and touch what they change.
LEMMA RedisApart ==
    ASSUME IndInv
    PROVE  /\ Tick => /\ \A c \in Conns : Untouched(c)
                      /\ UNCHANGED <<txConn, taskVars, stage, queued>> /\ now' = now + 1
           /\ \A k \in Conns : RedisExec(k) =>
                 /\ \A c \in Conns \ {k} : Untouched(c)
                 /\ stage'[k] \in {"ok", "nil"} /\ stage[k] = "exec"
                 /\ UNCHANGED <<now, txConn, taskVars>>
<1>1. ConnTypeOK /\ RedisTypeOK
  BY IndParts
<1>2. ASSUME Tick
      PROVE  /\ \A c \in Conns : Untouched(c)
             /\ UNCHANGED <<txConn, taskVars, stage, queued>> /\ now' = now + 1
  <2> DEFINE due == {id \in Ids : db[id] # Absent /\ expires[id] <= now + 1}
  <2>1. /\ dirty' = Touched(due)
        /\ \A id \in Ids \ due : db'[id] = db[id] /\ expires'[id] = expires[id]
    BY <1>2 DEF Tick
  <2> HIDE DEF due
  <2>2. UNCHANGED <<watched, txConn, taskVars, stage, queued>> /\ now' = now + 1
    BY <1>2 DEF Tick
  <2>3. \A c \in Conns : ~dirty'[c] => ~dirty[c] /\ watched[c] \cap due = {}
    BY <2>1 DEF Touched
  <2>4. \A c \in Conns : watched[c] \subseteq Ids
    BY <1>1 DEF ConnTypeOK
  <2> QED BY <2>1, <2>2, <2>3, <2>4 DEF Untouched
<1>3. ASSUME NEW k \in Conns, RedisExec(k)
      PROVE  /\ \A c \in Conns \ {k} : Untouched(c)
             /\ stage'[k] \in {"ok", "nil"} /\ stage[k] = "exec"
             /\ UNCHANGED <<now, txConn, taskVars>>
  <2>1. /\ stage'[k] \in {"ok", "nil"} /\ stage[k] = "exec"
        /\ UNCHANGED <<now, txConn, taskVars>>
        /\ \A c \in Conns \ {k} :
              watched'[c] = watched[c] /\ stage'[c] = stage[c] /\ queued'[c] = queued[c]
    BY <1>1, <1>3 DEF RedisExec, ConnTypeOK
  <2>2. CASE dirty[k]
    BY <1>1, <1>3, <2>1, <2>2 DEF RedisExec, Untouched, ConnTypeOK
  <2>3. CASE ~dirty[k]
    <3>1. PICK w \in queued[k] : /\ SetEx(w.id, w.rec, w.ttl)
                                 /\ dirty' = [Touched({w.id}) EXCEPT ![k] = FALSE]
      BY <1>3, <2>3 DEF RedisExec
    <3>2. \A id \in Ids \ {w.id} : db'[id] = db[id] /\ expires'[id] = expires[id]
      BY <1>1, <3>1 DEF SetEx, RedisTypeOK
    <3>3. \A c \in Conns \ {k} : ~dirty'[c] => ~dirty[c] /\ w.id \notin watched[c]
      BY <3>1 DEF Touched
    <3>4. \A c \in Conns \ {k} : Untouched(c)
      BY <1>1, <2>1, <3>2, <3>3 DEF Untouched, ConnTypeOK
    <3> QED BY <2>1, <3>4
  <2> QED BY <2>1, <2>2, <2>3
<1> QED BY <1>2, <1>3

-----------------------------------------------------------------------------
(* Lifetimes                                                               *)

\* A write now, with so many seconds, costs the key at most one second.
Keeps(id, seconds) == now + seconds >= expires[id] - 1

\* The lifetime a task has read is the key's, unless the key was touched.
TaskLife(t) ==
    pc[t] \in {"multi", "setex"} =>
        /\ ttl[t] > 0
        /\ ~dirty[Conn(t)] => Keeps(req[t].id, ttl[t])

\* So is the one in an EXEC that is on its way.
ConnLife(c) ==
    stage[c] = "exec" =>
        \A w \in queued[c] : w.ttl > 0 /\ (~dirty[c] => Keeps(w.id, w.ttl))

LifeInv ==
    /\ ExpiryInv
    /\ \A t \in Tasks : TaskLife(t)
    /\ \A c \in Conns : ConnLife(c)

\* A transition and a client's write leave a record.
LEMMA WritesRecords ==
    /\ \A before, after, clock : Lifecycle!Transition(before, after, clock) => after # Absent
    /\ \A rec : Overwriting(rec) => rec # Absent
<1>1. ASSUME NEW before, NEW after, NEW clock, Lifecycle!Transition(before, after, clock)
      PROVE  after # Absent
  <2>1. after.status \in {"in_progress", "completed", "failed"}
    BY <1>1, TransitionCases DEF prepare_claim_background, prepare_complete_background,
       prepare_fail_background, apply_stale_failure, Ended
  <2> QED BY <2>1 DEF Absent
<1>2. ASSUME NEW rec, Overwriting(rec) PROVE rec # Absent
  <2>1. Lifecycle!IsTombstone(rec) => rec # Absent
    BY DEF Lifecycle!IsTombstone, Absent
  <2>2. rec \in Preloaded \cup {r.rec : r \in Requests} => rec \in StoredResponse
    BY RequestParts, PreloadedAssumption
  <2> QED BY <1>2, <2>1, <2>2, AbsentIsNoRecord DEF Overwriting
<1> QED BY <1>1, <1>2

\* Keys with a record expire in the future, keys without one not at all.
LEMMA ExpiryStep ==
    ASSUME IndInv, LifeInv, [Next]_vars
    PROVE  ExpiryInv'
<1>1. /\ db \in [Ids -> Records] /\ expires \in [Ids -> Nat] /\ now \in Nat
      /\ ConnTypeOK /\ ExpiryInv
  BY IndParts DEF RedisTypeOK, LifeInv
<1>2. ASSUME NEW id \in Ids, NEW rec, rec # Absent, NEW seconds \in Nat, seconds > 0,
             SetEx(id, rec, seconds), now' = now
      PROVE  ExpiryInv'
  BY <1>1, <1>2 DEF SetEx, ExpiryInv
<1>3. ASSUME UNCHANGED redisVars PROVE ExpiryInv'
  BY <1>1, <1>3 DEF redisVars, ExpiryInv
<1>4. ASSUME NEW t \in Tasks, PlainWrite(t) PROVE ExpiryInv'
  <2>1. req[t] \in Requests /\ req[t].id \in Ids /\ upd[t] # Absent
    BY <1>4, IndParts, WritesRecords DEF PlainWrite, TaskInv
  <2>2. WriteTtl(req[t]) \in Nat /\ WriteTtl(req[t]) > 0
    BY <2>1, RequestParts, ConfigAssumption DEF WriteTtl, ttl_from_request
  <2> QED BY <1>2, <1>4, <2>1, <2>2 DEF PlainWrite
<1>5. ASSUME NEW t \in Tasks, PlainDelete(t) PROVE ExpiryInv'
  <2>1. req[t].id \in Ids
    BY IndParts
  <2> QED BY <1>1, <1>5, <2>1 DEF PlainDelete, DelKey, ExpiryInv
<1>6. ASSUME NEW c \in Conns, RedisExec(c) PROVE ExpiryInv'
  <2>1. CASE dirty[c]
    BY <1>1, <1>6, <2>1 DEF RedisExec, ExpiryInv
  <2>2. CASE ~dirty[c]
    <3>1. PICK w \in queued[c] : SetEx(w.id, w.rec, w.ttl) /\ now' = now
      BY <1>6, <2>2 DEF RedisExec
    <3>2. w.id \in Ids /\ w.ttl \in Nat
      BY <1>1 DEF ConnTypeOK, Write
    <3>3. w.ttl > 0 /\ w.rec # Absent
      BY <1>6, <2>2, IndParts, WritesRecords
         DEF RedisExec, LifeInv, ConnLife, ConnInv
    <3> QED BY <1>2, <3>1, <3>2, <3>3
  <2> QED BY <2>1, <2>2
<1>7. ASSUME Tick PROVE ExpiryInv'
  BY <1>1, <1>7 DEF Tick, ExpiryInv
<1>8. ASSUME NEW t \in Tasks, Begin(t) \/ Proceed(t) \/ Fault(t),
             ~PlainWrite(t), ~PlainDelete(t)
      PROVE  UNCHANGED redisVars
  BY <1>8 DEF Proceed, Fault, Begin, LoadGet, LoadUpdate, LoadDelete, LoadFails,
     PlainFails, Acquire, AcquireReconnected, Watch, ReadRecord, ReadTtl, Multi,
     SendExec, ExecReply, AttemptFails, Reset, ResetFails, Reload, Cancel
<1>9. CASE UNCHANGED vars
  BY <1>3, <1>9 DEF vars
<1> QED BY <1>3, <1>4, <1>5, <1>6, <1>7, <1>8, <1>9 DEF Next, Finished

\* While time passes and its key is not touched, what a write costs does
\* not grow.
LEMMA LifeFrame ==
    ASSUME IndInv, LifeInv, now' \in Nat, now <= now', req' = req
    PROVE  /\ \A c \in Conns : Untouched(c) => ConnLife(c)'
           /\ \A u \in Tasks : /\ Still(u)
                               /\ HoldsLock(u) => Conn(u)' = Conn(u) /\ Untouched(Conn(u))
                               => TaskLife(u)'
<1>1. /\ expires \in [Ids -> Nat] /\ now \in Nat /\ ConnTypeOK /\ TaskTypeOK
  BY IndParts DEF RedisTypeOK
<1>2. ASSUME NEW id \in Ids, NEW seconds \in Nat, expires'[id] = expires[id],
             Keeps(id, seconds)
      PROVE  now' + seconds >= expires'[id] - 1
  BY <1>1, <1>2 DEF Keeps
<1>3. ASSUME NEW c \in Conns, Untouched(c) PROVE ConnLife(c)'
  <2> SUFFICES ASSUME stage'[c] = "exec", NEW w \in queued'[c]
               PROVE  /\ w.ttl > 0
                      /\ ~dirty'[c] => now' + w.ttl >= expires'[w.id] - 1
    BY DEF ConnLife, Keeps
  <2>1. stage[c] = "exec" /\ w \in queued[c]
    BY <1>3 DEF Untouched
  <2>2. w.id \in watched[c] /\ w.id \in Ids /\ w.ttl \in Nat
    BY <1>1, <2>1, IndParts DEF ConnInv, ConnTypeOK, Write
  <2>3. w.ttl > 0 /\ (~dirty[c] => Keeps(w.id, w.ttl))
    BY <2>1 DEF LifeInv, ConnLife
  <2> QED BY <1>2, <1>3, <2>2, <2>3 DEF Untouched
<1>4. ASSUME NEW u \in Tasks, Still(u),
             HoldsLock(u) => Conn(u)' = Conn(u) /\ Untouched(Conn(u))
      PROVE  TaskLife(u)'
  <2> SUFFICES ASSUME pc'[u] \in {"multi", "setex"}
               PROVE  /\ ttl'[u] > 0
                      /\ ~dirty'[Conn(u)'] => now' + ttl'[u] >= expires'[req[u].id] - 1
    BY DEF TaskLife, Keeps
  <2>1. pc[u] \in {"multi", "setex"} /\ ttl'[u] = ttl[u]
    BY <1>4 DEF Still
  <2>2. Conn(u)' = Conn(u) /\ Untouched(Conn(u))
    BY <1>4, <2>1 DEF HoldsLock
  <2>3. req[u].id \in watched[Conn(u)] /\ req[u].id \in Ids /\ ttl[u] \in Nat
    BY <1>1, <2>1, IndParts DEF TaskInv, TaskTypeOK
  <2>4. ttl[u] > 0 /\ (~dirty[Conn(u)] => Keeps(req[u].id, ttl[u]))
    BY <2>1 DEF LifeInv, TaskLife
  <2>5. ASSUME ~dirty'[Conn(u)'] PROVE now' + ttl[u] >= expires'[req[u].id] - 1
    <3>1. expires'[req[u].id] = expires[req[u].id] /\ Keeps(req[u].id, ttl[u])
      BY <2>2, <2>3, <2>4, <2>5 DEF Untouched
    <3> QED BY <1>2, <2>3, <3>1
  <2> QED BY <2>1, <2>4, <2>5
<1> QED BY <1>3, <1>4

\* Only TTL and MULTI bring a task to the steps that know a lifetime.
LEMMA LifetimeSteps ==
    ASSUME IndInv, NEW t \in Tasks, Begin(t) \/ Proceed(t) \/ Fault(t),
           pc'[t] \in {"multi", "setex"}
    PROVE  ReadTtl(t) \/ Multi(t)
<1>1. TaskTypeOK /\ pc \in [Tasks -> Steps]
  BY IndParts DEF TaskTypeOK
<1>2. \A code, rec : ~Answer(t, code, rec)
  BY <1>1, TaskMoves
<1>3. \A step, rec : Continue(t, step, rec) => step \in {"multi", "setex"}
  BY <1>1, TaskMoves
<1>4. \A step : NextAttempt(t, step) \/ Goto(t, step) => step \in {"multi", "setex"}
  BY <1>1 DEF NextAttempt, Goto
<1>5. ~(Begin(t) \/ LoadUpdate(t) \/ LoadDelete(t) \/ LoadFails(t))
  BY <1>2, <1>3 DEF Begin, LoadUpdate, LoadDelete, LoadFails
<1>6. ~(PlainWrite(t) \/ PlainDelete(t) \/ PlainFails(t) \/ ResetFails(t) \/ Reload(t)
        \/ Cancel(t))
  BY <1>2 DEF PlainWrite, PlainDelete, PlainFails, ResetFails, Reload, Cancel
<1>7. ~(LoadGet(t) \/ Acquire(t) \/ AcquireReconnected(t) \/ Watch(t) \/ SendExec(t))
  BY <1>2, <1>4 DEF LoadGet, Acquire, AcquireReconnected, Watch, SendExec
<1>8. ~(ReadRecord(t) \/ ExecReply(t) \/ AttemptFails(t) \/ Reset(t))
  BY <1>2, <1>3, <1>4 DEF ReadRecord, ExecReply, AttemptFails, Reset
<1> QED BY <1>5, <1>6, <1>7, <1>8 DEF Proceed, Fault

\* TTL reads the lifetime of the record that the task has prepared on.
LEMMA ReadTtlLife ==
    ASSUME IndInv, LifeInv, NEW t \in Tasks, ReadTtl(t)
    PROVE  TaskLife(t)'
<1> DEFINE id == req[t].id
<1>1. /\ id \in Ids /\ expires \in [Ids -> Nat] /\ now \in Nat /\ TaskTypeOK /\ TaskInv(t)
  BY IndParts DEF RedisTypeOK
<1>2. PICK reply \in TtlReplies(id) :
        ttl' = [ttl EXCEPT ![t] = reconcile_write_ttl(reply, DefaultTtl)]
  BY DEF ReadTtl
<1>3. /\ pc[t] = "ttl" /\ UNCHANGED <<req, now, expires, dirty, txConn>>
      /\ ttl'[t] = reconcile_write_ttl(reply, DefaultTtl)
  BY <1>1, <1>2 DEF ReadTtl, TaskTypeOK, redisVars, connVars
<1>4. reply \in Int
  <2>1. -2 \in Int
    OBVIOUS
  <2> QED BY <1>1, <1>2, <2>1 DEF TtlReplies
<1>5. ttl'[t] > 0
  BY <1>3, <1>4, WriteTtlIsNat
<1>6. ASSUME ~dirty[Conn(t)] PROVE now + ttl'[t] >= expires[id] - 1
  <2>1. Lifecycle!Transition(db[id], upd[t], now)
    BY <1>1, <1>3, <1>6 DEF TaskInv
  <2>2. db[id] # Absent
    BY <2>1, TransitionNotFromTerminal
  <2>3. expires[id] > now /\ reply \in {expires[id] - now, expires[id] - now - 1}
    BY <1>1, <1>2, <2>2 DEF TtlReplies, LifeInv, ExpiryInv
  <2>4. expires[id] \in Nat
    BY <1>1
  <2> HIDE DEF id
  <2>5. reply = 0 => expires[id] = now + 1
    BY <1>1, <2>3, <2>4
  <2>6. reply >= 0 /\ now + reply >= expires[id] - 1
    BY <1>1, <2>3, <2>4
  <2> QED BY <1>1, <1>3, <1>4, <2>4, <2>5, <2>6 DEF reconcile_write_ttl
<1>7. Conn(t)' = Conn(t)
  BY <1>3 DEF Conn
<1> QED BY <1>3, <1>5, <1>6, <1>7 DEF TaskLife, Keeps

\* EXEC carries the lifetime that the task has read.
LEMMA SendExecLife ==
    ASSUME IndInv, LifeInv, NEW t \in Tasks, SendExec(t)
    PROVE  /\ queued'[Conn(t)] = {[id |-> req[t].id, rec |-> upd[t], ttl |-> ttl[t]]}
           /\ stage'[Conn(t)] = "exec" /\ pc'[t] = "exec"
           /\ ConnLife(Conn(t))'
<1>0. PICK k \in Conns : k = Conn(t)
  BY IndParts
<1>1. ConnTypeOK /\ TaskTypeOK
  BY IndParts
<1> DEFINE w == [id |-> req[t].id, rec |-> upd[t], ttl |-> ttl[t]]
<1>2. /\ queued'[k] = {w} /\ stage'[k] = "exec" /\ pc'[t] = "exec"
      /\ UNCHANGED <<now, expires, dirty, txConn, req>>
  BY <1>0, <1>1 DEF SendExec, Goto, ConnTypeOK, TaskTypeOK, redisVars
<1>3. ttl[t] > 0 /\ (~dirty[k] => Keeps(req[t].id, ttl[t]))
  BY <1>0 DEF SendExec, LifeInv, TaskLife
<1>4. w.id = req[t].id /\ w.ttl = ttl[t]
  OBVIOUS
<1> HIDE DEF w
<1>5. ConnLife(k)'
  BY <1>2, <1>3, <1>4 DEF ConnLife, Keeps
<1>6. Conn(t)' = k
  BY <1>0, <1>2 DEF Conn
<1> QED BY <1>0, <1>2, <1>5, <1>6 DEF w

\* Every step keeps the lifetimes.
LEMMA LifeStep == IndInv /\ LifeInv /\ [Next]_vars => LifeInv'
<1> SUFFICES ASSUME IndInv, LifeInv, [Next]_vars PROVE LifeInv'
  OBVIOUS
<1>1. ExpiryInv' /\ ExpiryInv
  BY ExpiryStep DEF LifeInv
<1>2. now \in Nat /\ now' \in Nat /\ TaskTypeOK
  <2>1. TypeOK'
    BY TypeStep DEF IndInv
  <2> QED BY <2>1, IndParts DEF TypeOK, RedisTypeOK
<1>3. ASSUME NEW t \in Tasks, Begin(t) \/ Proceed(t) \/ Fault(t)
      PROVE  (\A u \in Tasks : TaskLife(u)') /\ (\A c \in Conns : ConnLife(c)')
  <2>1. Apart(t)
    BY <1>1, <1>3, StepApart
  <2>2. now <= now' /\ req' = req
    BY <1>2, <2>1 DEF Apart
  <2>3. \A u \in Tasks \ {t} : TaskLife(u)'
    BY <1>2, <2>1, <2>2, LifeFrame DEF Apart
  <2>4. TaskLife(t)'
    <3>1. CASE pc'[t] \notin {"multi", "setex"}
      BY <3>1 DEF TaskLife
    <3>2. CASE ReadTtl(t)
      BY <3>2, ReadTtlLife
    <3>3. CASE Multi(t)
      <4>1. pc[t] = "multi" /\ UNCHANGED <<req, now, expires, dirty, txConn, ttl>>
        BY <3>3 DEF Multi, redisVars
      <4>2. Conn(t)' = Conn(t)
        BY <4>1 DEF Conn
      <4>3. ttl[t] > 0 /\ (~dirty[Conn(t)] => Keeps(req[t].id, ttl[t]))
        BY <4>1 DEF LifeInv, TaskLife
      <4> QED BY <4>1, <4>2, <4>3 DEF TaskLife, Keeps
    <3> QED BY <1>3, <3>1, <3>2, <3>3, LifetimeSteps
  <2>5. ASSUME NEW c \in Conns PROVE ConnLife(c)'
    <3>1. CASE Untouched(c)
      BY <1>2, <2>2, <3>1, LifeFrame
    <3>2. CASE stage'[c] # "exec"
      BY <3>2 DEF ConnLife
    <3>3. CASE SendExec(t) /\ c = Conn(t)
      <4>1. Conn(t)' = Conn(t)
        BY <3>3 DEF SendExec, Conn
      <4>2. ConnLife(Conn(t))'
        BY <3>3, SendExecLife
      <4> QED BY <3>3, <4>1, <4>2 DEF ConnLife
    <3> QED BY <2>1, <3>1, <3>2, <3>3 DEF Apart
  <2> QED BY <2>3, <2>4, <2>5
<1>4. ASSUME NEW k \in Conns, RedisExec(k)
      PROVE  (\A u \in Tasks : TaskLife(u)') /\ (\A c \in Conns : ConnLife(c)')
  <2>1. /\ \A c \in Conns \ {k} : Untouched(c)
        /\ stage'[k] \in {"ok", "nil"} /\ stage[k] = "exec"
        /\ UNCHANGED <<now, txConn, taskVars>>
    BY <1>4, RedisApart
  <2>2. UNCHANGED <<req, pc>> /\ now <= now' /\ \A u \in Tasks : Still(u)
    BY <1>2, <2>1 DEF taskVars, Still
  <2>3. \A c \in Conns : ConnLife(c)'
    <3>1. ConnLife(k)'
      BY <2>1 DEF ConnLife
    <3> QED BY <1>2, <2>1, <2>2, <3>1, LifeFrame
  <2>4. ASSUME NEW u \in Tasks PROVE TaskLife(u)'
    <3>1. CASE pc[u] \in {"multi", "setex"}
      <4>1. Conn(u) \in Conns /\ Conn(u) # k
        BY <2>1, <3>1, IndParts DEF TaskInv
      <4>2. Conn(u)' = Conn(u) /\ Untouched(Conn(u))
        BY <2>1, <2>2, <4>1 DEF Conn
      <4> QED BY <1>2, <2>2, <4>2, LifeFrame
    <3>2. CASE pc[u] \notin {"multi", "setex"}
      BY <2>2, <3>2 DEF TaskLife
    <3> QED BY <3>1, <3>2
  <2> QED BY <2>3, <2>4
<1>5. ASSUME Tick
      PROVE  (\A u \in Tasks : TaskLife(u)') /\ (\A c \in Conns : ConnLife(c)')
  <2>1. /\ \A c \in Conns : Untouched(c)
        /\ UNCHANGED <<txConn, taskVars>> /\ now' = now + 1
    BY <1>5, RedisApart
  <2>2. req' = req /\ now <= now' /\ \A u \in Tasks : Still(u)
    BY <1>2, <2>1 DEF taskVars, Still
  <2>3. \A u \in Tasks : Conn(u)' = Conn(u) /\ Untouched(Conn(u))
    BY <2>1, <2>2, IndParts DEF Conn
  <2> QED BY <1>2, <2>1, <2>2, <2>3, LifeFrame
<1>6. ASSUME UNCHANGED vars
      PROVE  (\A u \in Tasks : TaskLife(u)') /\ (\A c \in Conns : ConnLife(c)')
  BY <1>6 DEF vars, redisVars, connVars, taskVars, LifeInv, TaskLife, ConnLife, Keeps, Conn
<1>7. (\A u \in Tasks : TaskLife(u)') /\ (\A c \in Conns : ConnLife(c)')
  BY <1>3, <1>4, <1>5, <1>6 DEF Next, Finished
<1> QED BY <1>1, <1>7 DEF LifeInv

\* Initially no transaction is open, and every record has a lifetime left.
LEMMA LifeInit == Init => LifeInv
<1> SUFFICES ASSUME Init PROVE LifeInv
  OBVIOUS
<1>1. ASSUME NEW id \in Ids, db[id] # Absent PROVE expires[id] > now
  <2>1. expires[id] \in Lifetimes /\ now = 0
    BY <1>1 DEF Init
  <2>2. expires[id] \in Nat \ {0}
    BY <2>1, PreloadedAssumption
  <2> QED BY <2>1, <2>2
<1>2. ExpiryInv
  BY <1>1 DEF Init, ExpiryInv
<1> QED BY <1>2 DEF Init, LifeInv, TaskLife, ConnLife

\* No claim, completion, failure or reconciliation, however often retried or
\* however late its EXEC, costs a record more than the second that Redis'
\* TTL rounds away (store.rs:382-383, 611-618).
THEOREM LifetimesStay == Spec => LifetimeKept
<1>1. ASSUME IndInv, LifeInv, [Next]_vars, NEW id \in Ids, db'[id] # db[id],
             db'[id] # Absent, ~ClientWrites(id)
      PROVE  expires'[id] >= expires[id] - 1
  <2>1. db \in [Ids -> Records] /\ expires \in [Ids -> Nat] /\ now \in Nat /\ TaskTypeOK
    BY <1>1, IndParts DEF RedisTypeOK
  <2>2. ASSUME NEW t \in Tasks, Begin(t) \/ Proceed(t) \/ Fault(t)
        PROVE  FALSE
    <3>1. ASSUME PlainWrite(t) \/ PlainDelete(t) PROVE FALSE
      <4>1. pc[t] \in {"write", "del"} /\ pc'[t] = "done"
        BY <2>1, <3>1, TaskMoves DEF PlainWrite, PlainDelete
      <4>2. req[t].id # id
        BY <1>1, <4>1 DEF ClientWrites
      <4>3. db'[id] = db[id]
        BY <2>1, <3>1, <4>2 DEF PlainWrite, PlainDelete, SetEx, DelKey
      <4> QED BY <1>1, <4>3
    <3>2. ASSUME ~PlainWrite(t), ~PlainDelete(t) PROVE FALSE
      <4>1. UNCHANGED redisVars
        BY <2>2, <3>2 DEF Proceed, Fault, Begin, LoadGet, LoadUpdate, LoadDelete,
           LoadFails, PlainFails, Acquire, AcquireReconnected, Watch, ReadRecord,
           ReadTtl, Multi, SendExec, ExecReply, AttemptFails, Reset, ResetFails,
           Reload, Cancel
      <4> QED BY <1>1, <4>1 DEF redisVars
    <3> QED BY <3>1, <3>2
  <2>3. ASSUME NEW c \in Conns, RedisExec(c)
        PROVE  expires'[id] >= expires[id] - 1
    <3>1. ~dirty[c] /\ stage[c] = "exec"
      BY <1>1, <2>3 DEF RedisExec
    <3>2. PICK w \in queued[c] : SetEx(w.id, w.rec, w.ttl)
      BY <2>3, <3>1 DEF RedisExec
    <3>3. w.id = id
      BY <1>1, <2>1, <3>2 DEF SetEx
    <3>4. expires'[id] = now + w.ttl
      BY <2>1, <3>2, <3>3 DEF SetEx
    <3>5. Keeps(id, w.ttl)
      BY <1>1, <3>1, <3>3 DEF LifeInv, ConnLife
    <3> QED BY <3>4, <3>5 DEF Keeps
  <2>4. ASSUME Tick PROVE FALSE
    BY <1>1, <2>4 DEF Tick
  <2>5. ~UNCHANGED vars
    BY <1>1 DEF vars, redisVars
  <2> QED BY <1>1, <2>2, <2>3, <2>4, <2>5 DEF Next, Finished
<1>2. IndInv /\ LifeInv /\ [Next]_vars =>
      [\A id \in Ids :
         db'[id] # db[id] /\ db'[id] # Absent /\ ~ClientWrites(id)
         => expires'[id] >= expires[id] - 1]_vars
  BY <1>1
<1> QED BY <1>2, Invariant, LifeInit, LifeStep, PTL DEF Spec, LifetimeKept

-----------------------------------------------------------------------------
(* Claims                                                                  *)

\* A client has begun to store the response anew.
Stored(id) ==
    \E v \in Tasks :
        req[v].id = id /\ req[v].op \in {"store", "update"} /\ pc[v] # "idle"

\* The claim of task t has succeeded, or its EXEC has and the reply is on
\* the way.
Granted(t) ==
    /\ req[t].op = "claim"
    /\ res[t] = "ok" \/ (pc[t] = "exec" /\ stage[Conn(t)] = "ok")

\* The steps an operation takes, and what it is about to write in them.
StepsOf(t) ==
    /\ pc[t] = "write" => req[t].op \in {"store", "update", "delete"}
    /\ req[t].op = "claim" => pc[t] \notin {"load", "write", "del", "reload"}
    /\ pc[t] = "write" /\ req[t].op = "delete" => is_deleted_tombstone(upd[t])
    /\ req[t].op = "claim" /\ pc[t] \in {"ttl", "multi", "setex"}
       => is_in_progress_background(upd[t])
    /\ req[t].op = "claim" /\ pc[t] = "exec" /\ stage[Conn(t)] = "exec"
       => \A w \in queued[Conn(t)] :
             w.id = req[t].id /\ is_in_progress_background(w.rec)

\* After a granted claim the record is not queued again, and no other claim
\* is granted, until a client stores it anew.
GrantInv ==
    /\ \A t \in Tasks : StepsOf(t)
    /\ \A t \in Tasks :
          Granted(t) => Stored(req[t].id) \/ db[req[t].id].status # "queued"
    /\ \A t, u \in Tasks :
          Granted(t) /\ Granted(u) /\ req[t].id = req[u].id
          => t = u \/ Stored(req[t].id)

\* A task that acts keeps to the steps of its operation.
LEMMA ActingSteps ==
    ASSUME IndInv, GrantInv, LifeInv, NEW t \in Tasks, Begin(t) \/ Proceed(t) \/ Fault(t)
    PROVE  StepsOf(t)' /\ pc'[t] # "idle"
<1> DEFINE Good == StepsOf(t)' /\ pc'[t] # "idle"
<1>0. Conn(t) \in Conns /\ TaskTypeOK /\ ConnTypeOK /\ StepsOf(t)
  BY IndParts DEF GrantInv
<1>1. req' = req
  BY OthersStill
<1>2. pc'[t] \in {"done", "acquire", "reset", "watch", "get"} => Good
  BY DEF StepsOf
<1>3. \A code, rec : Answer(t, code, rec) => Good
  BY <1>0, <1>2, TaskMoves
<1>4. \A step, rec : Continue(t, step, rec) => pc'[t] = step /\ upd'[t] = rec
  BY <1>0, TaskMoves
<1>5. \A step : Goto(t, step) \/ NextAttempt(t, step) => pc'[t] = step
  BY <1>0 DEF NextAttempt, Goto, TaskTypeOK
<1>6. Begin(t) => Good
  BY <1>1, <1>2, <1>3, <1>4 DEF Begin, StepsOf
<1>7. LoadGet(t) => Good
  BY <1>2, <1>3, <1>5 DEF LoadGet
<1>8. LoadUpdate(t) => Good
  BY <1>1, <1>3, <1>4 DEF LoadUpdate, StepsOf
<1>9. LoadDelete(t) \/ LoadFails(t) => Good
  <2>1. \A x : is_deleted_tombstone(tombstone_deleted_background(x))
    BY DEF is_deleted_tombstone, tombstone_deleted_background, Ended
  <2> QED BY <1>1, <1>3, <1>4, <2>1 DEF LoadDelete, LoadFails, StepsOf
<1>10. PlainWrite(t) \/ PlainDelete(t) \/ PlainFails(t) \/ ResetFails(t) \/ Reload(t)
       \/ Cancel(t) => Good
  BY <1>3 DEF PlainWrite, PlainDelete, PlainFails, ResetFails, Reload, Cancel
<1>11. Acquire(t) \/ AcquireReconnected(t) \/ Watch(t) \/ AttemptFails(t) => Good
  BY <1>2, <1>5 DEF Acquire, AcquireReconnected, Watch, AttemptFails
<1>12. Reset(t) => Good
  BY <1>2, <1>3, <1>4 DEF Reset
<1>13. ReadRecord(t) => Good
  <2>1. \A x : req[t].op = "claim" => is_in_progress_background(Prepared(req[t], x))
    BY DEF Prepared, prepare_claim_background, is_in_progress_background
  <2> QED BY <1>1, <1>3, <1>4, <2>1 DEF ReadRecord, StepsOf
<1>14. ReadTtl(t) \/ Multi(t) => Good
  <2>1. ReadTtl(t) \/ Multi(t) =>
          /\ pc[t] \in {"ttl", "multi"} /\ pc'[t] \in {"multi", "setex"} /\ upd' = upd
    BY <1>5 DEF ReadTtl, Multi
  <2> QED BY <1>0, <1>1, <2>1 DEF StepsOf
<1>15. SendExec(t) => Good
  <2> SUFFICES ASSUME SendExec(t) PROVE Good
    OBVIOUS
  <2>1. /\ queued'[Conn(t)] = {[id |-> req[t].id, rec |-> upd[t], ttl |-> ttl[t]]}
        /\ pc'[t] = "exec"
    BY SendExecLife
  <2>2. Conn(t)' = Conn(t) /\ pc[t] = "setex"
    BY DEF SendExec, Conn
  <2>3. req[t].op = "claim" => is_in_progress_background(upd[t])
    BY <1>0, <2>2 DEF StepsOf
  <2> QED BY <1>1, <2>1, <2>2, <2>3 DEF StepsOf
<1>16. ExecReply(t) => Good
  <2>1. wants_reconcile(req[t]) => req[t].op # "claim"
    BY DEF wants_reconcile
  <2>2. pc'[t] = "reload" /\ wants_reconcile(req[t]) => Good
    BY <1>1, <2>1 DEF StepsOf
  <2> QED BY <1>2, <1>3, <1>5, <2>2 DEF ExecReply
<1>17. Good
  BY <1>6, <1>7, <1>8, <1>9, <1>10, <1>11, <1>12, <1>13, <1>14, <1>15, <1>16
     DEF Proceed, Fault
<1> QED BY <1>17

\* A task that rests does so too.
LEMMA RestingSteps ==
    ASSUME IndInv, GrantInv, req' = req, NEW u \in Tasks, Still(u),
           HoldsLock(u) => Conn(u)' = Conn(u) /\ Untouched(Conn(u))
    PROVE  StepsOf(u)' /\ (Granted(u)' => Granted(u))
<1>1. StepsOf(u)
  BY DEF GrantInv
<1>2. CASE pc[u] = "exec"
  BY <1>1, <1>2 DEF StepsOf, Still, HoldsLock, Untouched, Granted
<1>3. CASE pc[u] # "exec"
  BY <1>1, <1>3 DEF StepsOf, Still, Granted
<1> QED BY <1>2, <1>3

\* A task is granted its claim by the EXEC that runs on its connection.
LEMMA ActingGrant ==
    ASSUME IndInv, GrantInv, LifeInv, NEW t \in Tasks, Begin(t) \/ Proceed(t) \/ Fault(t),
           Granted(t)'
    PROVE  Granted(t)
<1>0. TaskTypeOK /\ ConnTypeOK /\ StepsOf(t)
  BY IndParts DEF GrantInv
<1>1. req' = req /\ req[t].op = "claim"
  BY OthersStill DEF Granted
<1>2. pc[t] \notin {"load", "write", "del", "reload"}
  BY <1>0, <1>1 DEF StepsOf
<1> SUFFICES ASSUME res[t] # "ok" PROVE Granted(t)
  BY <1>1 DEF Granted
<1>3. \A code, rec : Answer(t, code, rec) => code = "ok"
  BY <1>0, TaskMoves DEF Granted
<1>4. res'[t] = res[t] => pc'[t] = "exec" /\ stage'[Conn(t)'] = "ok"
  BY DEF Granted
<1>5. \A step, rec : ~(Continue(t, step, rec) /\ step # "exec")
  BY <1>0, <1>4, TaskMoves
<1>6. \A step : ~(((Goto(t, step) /\ UNCHANGED res) \/ NextAttempt(t, step)) /\ step # "exec")
  BY <1>0, <1>4 DEF NextAttempt, Goto, TaskTypeOK
<1>7. ~Begin(t)
  BY <1>3, <1>5 DEF Begin
<1>8. ~(LoadGet(t) \/ LoadUpdate(t) \/ LoadDelete(t) \/ LoadFails(t) \/ PlainWrite(t)
        \/ PlainDelete(t) \/ PlainFails(t) \/ Reload(t))
  BY <1>2 DEF LoadGet, LoadUpdate, LoadDelete, LoadFails, PlainWrite, PlainDelete,
              PlainFails, Reload
<1>9. ~(ResetFails(t) \/ Cancel(t) \/ Reset(t))
  BY <1>3, <1>5 DEF ResetFails, Cancel, Reset
<1>10. ~(Acquire(t) \/ AcquireReconnected(t) \/ Watch(t) \/ AttemptFails(t) \/ ReadTtl(t)
         \/ Multi(t))
  BY <1>6 DEF Acquire, AcquireReconnected, Watch, AttemptFails, ReadTtl, Multi
<1>11. ~ReadRecord(t)
  <2>1. ~wants_reconcile(req[t])
    BY <1>1 DEF wants_reconcile
  <2> QED BY <1>3, <1>5, <2>1 DEF ReadRecord
<1>12. ~SendExec(t)
  <2> SUFFICES ASSUME SendExec(t) PROVE FALSE
    OBVIOUS
  <2>1. stage'[Conn(t)] = "exec"
    BY SendExecLife
  <2>2. Conn(t)' = Conn(t) /\ res' = res
    BY DEF SendExec, Conn
  <2> QED BY <1>4, <2>1, <2>2
<1>13. ExecReply(t) => Granted(t)
  BY <1>1, <1>3, <1>6 DEF ExecReply, Granted
<1> QED BY <1>7, <1>8, <1>9, <1>10, <1>11, <1>12, <1>13 DEF Proceed, Fault

\* Once begun, a request does not become one that was never begun.
LEMMA StoredStays ==
    ASSUME IndInv, GrantInv, LifeInv, [Next]_vars, NEW id, Stored(id)
    PROVE  Stored(id)'
<1>1. PICK v \in Tasks :
        req[v].id = id /\ req[v].op \in {"store", "update"} /\ pc[v] # "idle"
  BY DEF Stored
<1>2. req' = req /\ pc'[v] # "idle"
  <2>1. ASSUME NEW t \in Tasks, Begin(t) \/ Proceed(t) \/ Fault(t)
        PROVE  req' = req /\ pc'[v] # "idle"
    BY <1>1, <2>1, OthersStill, ActingSteps DEF Still
  <2>2. ASSUME NEW c \in Conns, RedisExec(c) PROVE req' = req /\ pc' = pc
    BY <2>2 DEF RedisExec, taskVars
  <2>3. Tick \/ UNCHANGED vars => req' = req /\ pc' = pc
    BY DEF Tick, vars, taskVars
  <2> QED BY <1>1, <2>1, <2>2, <2>3 DEF Next, Finished
<1> QED BY <1>1, <1>2 DEF Stored

\* A transition leaves a record that is not queued; a claim starts from one
\* that is.
LEMMA TransitionStatus ==
    ASSUME NEW before, NEW after, NEW clock, Lifecycle!Transition(before, after, clock)
    PROVE  /\ after.status # "queued"
           /\ is_in_progress_background(after) => before.status = "queued"
<1>1. /\ prepare_claim_background(before).status = "in_progress"
      /\ prepare_complete_background(before).status = "completed"
      /\ prepare_fail_background(before).status = "failed"
      /\ apply_stale_failure(before).status = "failed"
  BY DEF prepare_claim_background, prepare_complete_background,
         prepare_fail_background, apply_stale_failure, Ended
<1>2. can_claim(before) => before.status = "queued"
  BY DEF can_claim, is_claimable_background
<1> QED BY <1>1, <1>2, TransitionCases DEF is_in_progress_background

\* Only a client that stores the record makes it queued again: not a
\* deletion, a transition or the passing of time.
LEMMA QueuedByClients ==
    ASSUME IndInv, GrantInv, [Next]_vars, NEW id \in Ids,
           db[id].status # "queued", db'[id].status = "queued"
    PROVE  Stored(id)
<1>1. db \in [Ids -> Records] /\ Absent.status # "queued"
  BY IndParts DEF RedisTypeOK, Absent
<1>2. ASSUME NEW t \in Tasks, PlainWrite(t) PROVE Stored(id)
  <2>1. pc[t] = "write" /\ db' = [db EXCEPT ![req[t].id] = upd[t]]
    BY <1>2 DEF PlainWrite, SetEx
  <2>2. req[t].id = id /\ upd[t].status = "queued"
    BY <1>1, <2>1
  <2>3. req[t].op \in {"store", "update"}
    BY <2>1, <2>2 DEF GrantInv, StepsOf, is_deleted_tombstone
  <2> QED BY <2>1, <2>2, <2>3 DEF Stored
<1>3. ASSUME NEW t \in Tasks, PlainDelete(t) PROVE FALSE
  <2>1. db' = [db EXCEPT ![req[t].id] = Absent] /\ req[t].id \in Ids
    BY <1>3, IndParts DEF PlainDelete, DelKey
  <2> QED BY <1>1, <2>1
<1>4. ASSUME NEW c \in Conns, RedisExec(c) PROVE FALSE
  <2>1. CASE dirty[c]
    BY <1>4, <2>1 DEF RedisExec
  <2>2. CASE ~dirty[c]
    <3>1. PICK w \in queued[c] : db' = [db EXCEPT ![w.id] = w.rec]
      BY <1>4, <2>2 DEF RedisExec, SetEx
    <3>2. Lifecycle!Transition(db[w.id], w.rec, now)
      BY <1>4, <2>2, IndParts DEF RedisExec, ConnInv
    <3>3. w.rec.status # "queued"
      BY <3>2, TransitionStatus
    <3> QED BY <1>1, <3>1, <3>3
  <2> QED BY <2>1, <2>2
<1>5. ASSUME Tick PROVE FALSE
  BY <1>1, <1>5 DEF Tick
<1>6. ASSUME NEW t \in Tasks, Begin(t) \/ Proceed(t) \/ Fault(t),
             ~PlainWrite(t), ~PlainDelete(t)
      PROVE  FALSE
  <2>1. UNCHANGED redisVars
    BY <1>6 DEF Proceed, Fault, Begin, LoadGet, LoadUpdate, LoadDelete, LoadFails,
       PlainFails, Acquire, AcquireReconnected, Watch, ReadRecord, ReadTtl, Multi,
       SendExec, ExecReply, AttemptFails, Reset, ResetFails, Reload, Cancel
  <2> QED BY <2>1 DEF redisVars
<1>7. ~UNCHANGED vars
  BY DEF vars, redisVars
<1> QED BY <1>2, <1>3, <1>4, <1>5, <1>6, <1>7 DEF Next, Finished

\* The EXEC that grants a claim finds a queued record and leaves none, and
\* no two tasks wait for the same EXEC.
LEMMA ExecGrant ==
    ASSUME IndInv, GrantInv, NEW k \in Conns, RedisExec(k)
    PROVE  /\ \A u \in Tasks : StepsOf(u)'
           /\ \A u \in Tasks : Granted(u)' /\ ~Granted(u) =>
                 /\ Conn(u) = k /\ pc[u] = "exec"
                 /\ db[req[u].id].status = "queued"
                 /\ db'[req[u].id].status # "queued"
<1>1. /\ \A c \in Conns \ {k} : Untouched(c)
      /\ stage'[k] \in {"ok", "nil"} /\ stage[k] = "exec"
      /\ UNCHANGED <<now, txConn, taskVars>>
  BY RedisApart
<1>2. UNCHANGED <<req, pc, upd, ttl, res>> /\ \A u \in Tasks : Still(u) /\ Conn(u)' = Conn(u)
  BY <1>1 DEF taskVars, Still, Conn
<1>3. ASSUME NEW u \in Tasks, Conn(u) # k
      PROVE  StepsOf(u)' /\ (Granted(u)' => Granted(u))
  <2>1. Conn(u)' = Conn(u) /\ Untouched(Conn(u))
    BY <1>1, <1>2, <1>3, IndParts
  <2> QED BY <1>2, <2>1, RestingSteps
<1>4. ASSUME NEW u \in Tasks, Conn(u) = k
      PROVE  /\ StepsOf(u)'
             /\ Granted(u)' /\ ~Granted(u) =>
                   /\ pc[u] = "exec" /\ db[req[u].id].status = "queued"
                   /\ db'[req[u].id].status # "queued"
  <2>1. StepsOf(u)'
    BY <1>1, <1>2, <1>4 DEF GrantInv, StepsOf
  <2>2. ASSUME Granted(u)', ~Granted(u)
        PROVE  /\ pc[u] = "exec" /\ db[req[u].id].status = "queued"
               /\ db'[req[u].id].status # "queued"
    <3>1. req[u].op = "claim" /\ pc[u] = "exec" /\ stage'[k] = "ok"
      BY <1>2, <1>4, <2>2 DEF Granted
    <3>2. ~dirty[k]
      BY <3>1, IndParts DEF RedisExec, ConnTypeOK
    <3>3. PICK w \in queued[k] : db' = [db EXCEPT ![w.id] = w.rec]
      BY <3>2 DEF RedisExec, SetEx
    <3>4. w.id = req[u].id /\ is_in_progress_background(w.rec)
      BY <1>1, <1>4, <3>1 DEF GrantInv, StepsOf
    <3>5. Lifecycle!Transition(db[w.id], w.rec, now)
      BY <1>1, <3>2, IndParts DEF ConnInv
    <3>6. w.id \in Ids /\ db \in [Ids -> Records]
      BY <3>4, IndParts DEF RedisTypeOK
    <3> QED BY <3>1, <3>3, <3>4, <3>5, <3>6, TransitionStatus
  <2> QED BY <2>1, <2>2
<1> QED BY <1>3, <1>4

\* Where claims come from, for every step.
LEMMA GrantSource ==
    ASSUME IndInv, GrantInv, LifeInv, [Next]_vars
    PROVE  /\ req' = req
           /\ \A u \in Tasks : StepsOf(u)'
           /\ \A t, u \in Tasks : Granted(t)' /\ ~Granted(t) =>
                 /\ db[req[t].id].status = "queued"
                 /\ db'[req[t].id].status # "queued"
                 /\ Granted(u)' /\ ~Granted(u) => u = t
<1>1. ASSUME NEW t \in Tasks, Begin(t) \/ Proceed(t) \/ Fault(t)
      PROVE  /\ req' = req
             /\ \A u \in Tasks : StepsOf(u)' /\ (Granted(u)' => Granted(u))
  <2>1. Apart(t)
    BY <1>1, StepApart DEF LifeInv
  <2>2. \A u \in Tasks \ {t} : StepsOf(u)' /\ (Granted(u)' => Granted(u))
    BY <2>1, RestingSteps DEF Apart
  <2>3. StepsOf(t)' /\ (Granted(t)' => Granted(t))
    BY <1>1, ActingSteps, ActingGrant
  <2> QED BY <2>1, <2>2, <2>3 DEF Apart
<1>2. ASSUME Tick
      PROVE  /\ req' = req
             /\ \A u \in Tasks : StepsOf(u)' /\ (Granted(u)' => Granted(u))
  <2>1. (\A c \in Conns : Untouched(c)) /\ UNCHANGED <<txConn, taskVars>>
    BY <1>2, RedisApart
  <2>2. req' = req /\ \A u \in Tasks : Still(u) /\ Conn(u)' = Conn(u) /\ Conn(u) \in Conns
    BY <2>1, IndParts DEF taskVars, Still, Conn
  <2> QED BY <2>1, <2>2, RestingSteps
<1>3. ASSUME UNCHANGED vars
      PROVE  /\ req' = req
             /\ \A u \in Tasks : StepsOf(u)' /\ (Granted(u)' => Granted(u))
  BY <1>3 DEF vars, redisVars, connVars, taskVars, GrantInv, StepsOf, Granted, Conn
<1>4. ASSUME NEW k \in Conns, RedisExec(k)
      PROVE  /\ req' = req
             /\ \A u \in Tasks : StepsOf(u)'
             /\ \A t, u \in Tasks : Granted(t)' /\ ~Granted(t) =>
                   /\ db[req[t].id].status = "queued"
                   /\ db'[req[t].id].status # "queued"
                   /\ Granted(u)' /\ ~Granted(u) => u = t
  <2>1. req' = req
    BY <1>4 DEF RedisExec, taskVars
  <2>2. ASSUME NEW t \in Tasks, NEW u \in Tasks,
               Conn(t) = k /\ pc[t] = "exec", Conn(u) = k /\ pc[u] = "exec"
        PROVE  u = t
    BY <2>2, IndParts DEF MutexHeld, ConnsApart, HoldsLock, Conn
  <2> QED BY <1>4, <2>1, <2>2, ExecGrant
<1> QED BY <1>1, <1>2, <1>3, <1>4 DEF Next, Finished

\* Every step keeps the invariant of the claims.
LEMMA GrantStep == IndInv /\ LifeInv /\ GrantInv /\ [Next]_vars => GrantInv'
<1> SUFFICES ASSUME IndInv, LifeInv, GrantInv, [Next]_vars PROVE GrantInv'
  OBVIOUS
<1>1. req' = req /\ \A t \in Tasks : StepsOf(t)' /\ req[t].id \in Ids
  BY GrantSource, IndParts
<1>2. ASSUME NEW t \in Tasks, Granted(t)', ~Stored(req[t].id)'
      PROVE  db'[req[t].id].status # "queued"
  <2>1. ~Stored(req[t].id)
    BY <1>1, <1>2, StoredStays
  <2>2. CASE Granted(t)
    <3>1. db[req[t].id].status # "queued"
      BY <2>1, <2>2 DEF GrantInv
    <3> QED BY <1>1, <2>1, <3>1, QueuedByClients
  <2>3. CASE ~Granted(t)
    BY <1>2, <2>3, GrantSource
  <2> QED BY <2>2, <2>3
<1>3. ASSUME NEW t \in Tasks, NEW u \in Tasks, Granted(t)', Granted(u)',
             req[t].id = req[u].id, ~Stored(req[t].id)', t # u
      PROVE  FALSE
  <2>1. ~Stored(req[t].id)
    BY <1>1, <1>3, StoredStays
  <2>2. CASE Granted(t) /\ Granted(u)
    BY <1>3, <2>1, <2>2 DEF GrantInv
  <2>3. CASE Granted(t) /\ ~Granted(u)
    <3>1. db[req[u].id].status = "queued"
      BY <1>3, <2>3, GrantSource
    <3> QED BY <1>3, <2>1, <2>3, <3>1 DEF GrantInv
  <2>4. CASE ~Granted(t) /\ Granted(u)
    <3>1. db[req[t].id].status = "queued"
      BY <1>3, <2>4, GrantSource
    <3> QED BY <1>3, <2>1, <2>4, <3>1 DEF GrantInv
  <2>5. CASE ~Granted(t) /\ ~Granted(u)
    BY <1>3, <2>5, GrantSource
  <2> QED BY <2>2, <2>3, <2>4, <2>5
<1> QED BY <1>1, <1>2, <1>3 DEF GrantInv

\* Initially nothing is granted.
LEMMA GrantInit == Init => GrantInv
BY DEF Init, GrantInv, StepsOf, Granted

\* A queued response is handed to one worker, whatever number of workers,
\* servers, retries, lost replies and late EXECs there is, unless a client
\* stores it anew (store.rs:498-533).
THEOREM ClaimsAreUnique == Spec => []ClaimGrantedOnce
<1>1. GrantInv => ClaimGrantedOnce
  <2> SUFFICES ASSUME GrantInv, NEW t \in Tasks, NEW u \in Tasks, t # u,
                      req[t].op = "claim", res[t] = "ok",
                      req[u].op = "claim", res[u] = "ok", req[t].id = req[u].id
               PROVE  \E v \in Tasks :
                        /\ req[v].id = req[t].id /\ req[v].op \in {"store", "update"}
                        /\ pc[v] # "idle"
    BY DEF ClaimGrantedOnce
  <2>1. Stored(req[t].id)
    BY DEF GrantInv, Granted
  <2> QED BY <2>1 DEF Stored
<1> QED BY <1>1, Invariant, LifeInit, LifeStep, GrantInit, GrantStep, PTL DEF Spec
=============================================================================
