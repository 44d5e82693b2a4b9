-------------------------- MODULE BackgroundQueue --------------------------
(***************************************************************************)
(* The background job queue (crates/core/src/queue.rs) under the queue     *)
(* RPCs of the service: gateways enqueue, workers claim and acknowledge.   *)
(*                                                                         *)
(* The queue is a Redis stream with one consumer group.  Entry n of the    *)
(* stream is the n-th XADD.  Of the response store only whether a record   *)
(* can be loaded matters here.  Every Redis command is a step; a command   *)
(* may fail before or after Redis ran it, and a worker may vanish at any   *)
(* moment.                                                                 *)
(***************************************************************************)
EXTENDS Integers, FiniteSets

CONSTANTS
    Ids,          \* response ids
    Expiring,     \* those whose record may go away
    Gateways,     \* EnqueueBackgroundJob calls of the run
    Workers,      \* consumers of the group
    MaxLen,       \* BACKGROUND_QUEUE_STREAM_MAXLEN, 0 for no trimming
    Counts,       \* the counts workers ask for, after clamping
    AutoclaimModes, \* whether workers set autoclaim_min_idle_ms
    StartIds,     \* the start ids of EnsureConsumerGroup, 0 for "0-0"
    MaxFaults     \* bound: failed commands and lost workers

NoOne == "no one"
NoJob == "no job"
NoOptions == [count |-> 0, autoclaim |-> FALSE]

\* Names that stand for no worker and no response.
ASSUME NamesAssumption ==
    /\ Workers \cap {NoOne, "unpublished", "waiting", "done", "gone"} = {}
    /\ NoJob \notin Ids
ASSUME BoundsAssumption ==
    /\ Expiring \subseteq Ids
    /\ MaxLen \in Nat /\ MaxFaults \in Nat /\ IsFiniteSet(Gateways)
    /\ Counts \subseteq Nat \ {0} /\ StartIds \subseteq Nat
    /\ AutoclaimModes \subseteq BOOLEAN

\* The ids of the stream entries: one XADD per call at most.
Entries == 1..Cardinality(Gateways)

VARIABLES
    present,    \* response ids whose record can be loaded
    gone,       \* response ids whose record has expired or was deleted
    lastId,     \* id of the last entry added to the stream
    jobOf,      \* jobOf[n] is the response id of entry n
    stream,     \* entries in the stream
    group,      \* whether the consumer group exists
    delivered,  \* last entry XREADGROUP delivered to the group
    owner,      \* owner[n] is the consumer whose PEL holds n, or NoOne
    idle,       \* entries idle for longer than autoclaim_min_idle_ms
    cursor,     \* the autoclaim cursor kept in Redis, 0 for "0-0"
    gpc,        \* gpc[g] is the step of enqueue call g
    gid,        \* gid[g] is the response id it enqueues
    gentry,     \* gentry[g] is the entry it added, or 0
    gres,       \* gres[g] is the status it answered with
    wpc,        \* wpc[w] is the step of worker w's ClaimBackgroundJobs
    opt,        \* opt[w] are the options of that call
    cur,        \* cur[w] is its copy of the cursor
    todo,       \* todo[w] are entries claimed and not hydrated yet
    jobs,       \* jobs[w] are the entries it will answer as jobs
    pending,    \* pending[w] are those it will answer as pending_jobs
    failed,     \* failed[w]: w's last call answered UNAVAILABLE
    held,       \* held[w] are the entries w has been told of
    acked,      \* entries a worker has acknowledged
    faults      \* number of faults so far

storeVars == <<present, gone>>
streamVars == <<lastId, jobOf, stream, group, delivered, owner, idle>>
gatewayVars == <<gpc, gid, gentry, gres>>
claimVars == <<wpc, opt, cur, todo, jobs, pending, failed>>
workerVars == <<held, acked>>
vars == <<storeVars, streamVars, cursor, gatewayVars, claimVars, workerVars, faults>>

Pel == {n \in Entries : owner[n] # NoOne}
Undelivered == {n \in stream : n > delivered}

TypeOK ==
    /\ present \subseteq Ids /\ gone \subseteq Ids
    /\ lastId \in Entries \cup {0}
    /\ jobOf \in [Entries -> Ids \cup {NoJob}]
    /\ stream \subseteq 1..lastId
    /\ group \in BOOLEAN
    /\ delivered \in Nat
    /\ owner \in [Entries -> Workers \cup {NoOne}]
    /\ idle \subseteq Pel
    /\ cursor \in Entries \cup {0}
    /\ gpc \in [Gateways -> {"store", "xadd", "done"}]
    /\ gid \in [Gateways -> Ids]
    /\ gentry \in [Gateways -> Entries \cup {0}]
    /\ gres \in [Gateways -> {"none", "ok", "unavailable"}]
    /\ wpc \in [Workers -> {"idle", "autoclaim", "hydrate_auto", "ack_auto",
                            "hydrate_read", "ack_read"}]
    /\ opt \in [Workers -> [count : Counts \cup {0}, autoclaim : BOOLEAN]]
    /\ cur \in [Workers -> Entries \cup {0}]
    /\ todo \in [Workers -> SUBSET Entries]
    /\ jobs \in [Workers -> SUBSET Entries]
    /\ pending \in [Workers -> SUBSET Entries]
    /\ failed \in [Workers -> BOOLEAN]
    /\ held \in [Workers -> SUBSET Entries]
    /\ acked \subseteq Entries
    /\ faults \in 0..MaxFaults

-----------------------------------------------------------------------------
(* Redis                                                                   *)

\* The k smallest members of S.
First(S, k) == {n \in S : Cardinality({m \in S : m < n}) < k}

\* The smallest member of S, 0 if there is none.
Least(S) == IF S = {} THEN 0 ELSE CHOOSE n \in S : \A m \in S : n <= m

Greatest(S) == CHOOSE n \in S : \A m \in S : m <= n

\* Mutant: trimming leaves one entry too few.
XAddShort(id) ==
    /\ lastId' = lastId + 1
    /\ jobOf' = [jobOf EXCEPT ![lastId + 1] = id]
    /\ \E oldest \in 1..(lastId + 1) :
          /\ stream' = {n \in stream \cup {lastId + 1} : n >= oldest}
          /\ oldest > 1 => MaxLen > 0 /\ Cardinality(stream') >= MaxLen - 1
    /\ UNCHANGED <<group, delivered, owner, idle>>

\* XADD MAXLEN ~: the oldest entries may go, MaxLen of them stay.
XAdd(id) ==
    /\ lastId' = lastId + 1
    /\ jobOf' = [jobOf EXCEPT ![lastId + 1] = id]
    /\ \E oldest \in 1..(lastId + 1) :
          /\ stream' = {n \in stream \cup {lastId + 1} : n >= oldest}
          /\ oldest > 1 => MaxLen > 0 /\ Cardinality(stream') >= MaxLen
    /\ UNCHANGED <<group, delivered, owner, idle>>

XGroupCreate(start) ==
    /\ group' = TRUE
    /\ delivered' = IF group THEN delivered ELSE start
    /\ UNCHANGED <<lastId, jobOf, stream, owner, idle>>

\* What XAUTOCLAIM of k entries from cursor c looks at: idle entries of the
\* PEL.  Those no longer in the stream are dropped from the PEL.
Examined(c, k) == First({n \in idle : n >= c}, k)

XAutoClaim(w, c, k) ==
    /\ owner' = [n \in Entries |->
                   CASE n \in Examined(c, k) \cap stream -> w
                     [] n \in Examined(c, k) \ stream -> NoOne
                     [] OTHER -> owner[n]]
    /\ idle' = idle \ Examined(c, k)
    /\ UNCHANGED <<lastId, jobOf, stream, group, delivered>>

\* The cursor XAUTOCLAIM answers: the next entry of the PEL, 0 at its end.
NextCursor(c, k) ==
    LET S == Examined(c, k) IN
    IF Cardinality(S) < k THEN 0 ELSE Least({n \in Pel : n > Greatest(S)})

\* What XREADGROUP > of k entries delivers.
Readable(k) == First(Undelivered, k)

XReadGroup(w, k) ==
    /\ owner' = [n \in Entries |-> IF n \in Readable(k) THEN w ELSE owner[n]]
    /\ delivered' = IF Readable(k) = {} THEN delivered ELSE Greatest(Readable(k))
    /\ UNCHANGED <<lastId, jobOf, stream, group, idle>>

XAck(n) ==
    /\ owner' = [owner EXCEPT ![n] = NoOne]
    /\ idle' = idle \ {n}
    /\ UNCHANGED <<lastId, jobOf, stream, group, delivered>>

\* A record expires, or DeleteResponse removes it.
Vanish(id) ==
    /\ id \in present
    /\ present' = present \ {id}
    /\ gone' = gone \cup {id}
    /\ UNCHANGED <<streamVars, cursor, gatewayVars, claimVars, workerVars, faults>>

\* An entry stays unacknowledged for autoclaim_min_idle_ms.
GoIdle(n) ==
    /\ n \in Pel \ idle
    /\ idle' = idle \cup {n}
    /\ UNCHANGED <<storeVars, lastId, jobOf, stream, group, delivered, owner,
                   cursor, gatewayVars, claimVars, workerVars, faults>>

-----------------------------------------------------------------------------
(* EnqueueBackgroundJob: store the record, then add the stream entry       *)

\* A fault is spent.
Faulty == faults < MaxFaults /\ faults' = faults + 1

EnqueueAnswer(g, code) ==
    /\ gpc' = [gpc EXCEPT ![g] = "done"]
    /\ gres' = [gres EXCEPT ![g] = code]

EnqueueStore(g) ==
    /\ gpc[g] = "store"
    /\ present' = present \cup {gid[g]}
    /\ gpc' = [gpc EXCEPT ![g] = "xadd"]
    /\ UNCHANGED <<gone, streamVars, cursor, gid, gentry, gres,
                   claimVars, workerVars, faults>>

EnqueueXAdd(g) ==
    /\ gpc[g] = "xadd"
    /\ XAdd(gid[g])
    /\ gentry' = [gentry EXCEPT ![g] = lastId + 1]
    /\ EnqueueAnswer(g, "ok")
    /\ UNCHANGED <<storeVars, cursor, gid, claimVars, workerVars, faults>>

\* Either command fails, before or after Redis ran it.
EnqueueFails(g) ==
    /\ Faulty
    /\ \/ /\ gpc[g] = "store"
          /\ present' \in {present, present \cup {gid[g]}}
          /\ UNCHANGED streamVars
       \/ /\ gpc[g] = "xadd"
          /\ XAdd(gid[g]) \/ UNCHANGED streamVars
          /\ UNCHANGED present
    /\ EnqueueAnswer(g, "unavailable")
    /\ UNCHANGED <<gone, cursor, gid, gentry, claimVars, workerVars>>

\* BUSYGROUP, when the group exists, is not an error.
EnsureConsumerGroup ==
    /\ \E start \in StartIds : XGroupCreate(start)
    /\ UNCHANGED <<storeVars, cursor, gatewayVars, claimVars, workerVars, faults>>

-----------------------------------------------------------------------------
(* ClaimBackgroundJobs                                                     *)

\* GET of the cursor.  Without autoclaim the call goes straight to reading.
ClaimBegin(w) ==
    /\ wpc[w] = "idle"
    /\ \E k \in Counts, auto \in AutoclaimModes :
          /\ opt' = [opt EXCEPT ![w] = [count |-> k, autoclaim |-> auto]]
          /\ wpc' = [wpc EXCEPT ![w] = IF auto THEN "autoclaim" ELSE "hydrate_auto"]
    /\ cur' = [cur EXCEPT ![w] = cursor]
    /\ failed' = [failed EXCEPT ![w] = FALSE]
    /\ UNCHANGED <<storeVars, streamVars, cursor, gatewayVars, todo, jobs,
                   pending, workerVars, faults>>

\* The call ends, and the worker learns of the entries it is answered with.
ClaimAnswer(w, code) ==
    /\ wpc' = [wpc EXCEPT ![w] = "idle"]
    /\ failed' = [failed EXCEPT ![w] = (code = "unavailable")]
    /\ held' = [held EXCEPT ![w] = IF code = "ok" THEN @ \cup jobs[w] ELSE @]
    /\ cur' = [cur EXCEPT ![w] = 0]
    /\ todo' = [todo EXCEPT ![w] = {}]
    /\ jobs' = [jobs EXCEPT ![w] = {}]
    /\ pending' = [pending EXCEPT ![w] = {}]
    /\ opt' = [opt EXCEPT ![w] = NoOptions]

Autoclaim(w) ==
    /\ wpc[w] = "autoclaim" /\ group
    /\ LET k == opt[w].count IN
       /\ XAutoClaim(w, cur[w], k)
       /\ todo' = [todo EXCEPT ![w] = Examined(cur[w], k) \cap stream]
       /\ cur' = [cur EXCEPT ![w] = NextCursor(cur[w], k)]
    /\ wpc' = [wpc EXCEPT ![w] = "hydrate_auto"]
    /\ UNCHANGED <<storeVars, cursor, gatewayVars, opt, jobs, pending, failed,
                   workerVars, faults>>

\* The entry being hydrated: entries are taken in stream order.
Entry(w) == Least(todo[w])

Hydrating(w) == wpc[w] \in {"hydrate_auto", "hydrate_read"} /\ todo[w] # {}

\* GET of the entry's record: a job, or an entry to acknowledge away.
LoadRecord(w) ==
    /\ Hydrating(w)
    /\ IF jobOf[Entry(w)] \in present
       THEN /\ jobs' = [jobs EXCEPT ![w] = @ \cup {Entry(w)}]
            /\ todo' = [todo EXCEPT ![w] = @ \ {Entry(w)}]
            /\ UNCHANGED wpc
       ELSE /\ wpc' = [wpc EXCEPT ![w] =
                         IF @ = "hydrate_auto" THEN "ack_auto" ELSE "ack_read"]
            /\ UNCHANGED <<jobs, todo>>
    /\ UNCHANGED <<storeVars, streamVars, cursor, gatewayVars, opt, cur,
                   pending, failed, workerVars, faults>>

\* Mutant: an entry whose record cannot be read is taken for one without.
LoadFailsAsMissing(w) ==
    /\ Hydrating(w)
    /\ Faulty
    /\ wpc' = [wpc EXCEPT ![w] =
                 IF @ = "hydrate_auto" THEN "ack_auto" ELSE "ack_read"]
    /\ UNCHANGED <<storeVars, streamVars, cursor, gatewayVars, opt, cur, todo,
                   jobs, pending, failed, workerVars>>

\* Every retry of the load fails: the entry stays unacknowledged.
LoadFails(w) ==
    /\ Hydrating(w)
    /\ Faulty
    /\ pending' = [pending EXCEPT ![w] = @ \cup {Entry(w)}]
    /\ todo' = [todo EXCEPT ![w] = @ \ {Entry(w)}]
    /\ UNCHANGED <<storeVars, streamVars, cursor, gatewayVars, wpc, opt, cur,
                   jobs, failed, workerVars>>

\* XACK of an entry without a record.  Its failure is ignored.
AckMissing(w) ==
    /\ wpc[w] \in {"ack_auto", "ack_read"}
    /\ \/ XAck(Entry(w)) /\ UNCHANGED faults
       \/ Faulty /\ UNCHANGED streamVars
    /\ wpc' = [wpc EXCEPT ![w] =
                 IF @ = "ack_auto" THEN "hydrate_auto" ELSE "hydrate_read"]
    /\ todo' = [todo EXCEPT ![w] = @ \ {Entry(w)}]
    /\ UNCHANGED <<storeVars, cursor, gatewayVars, opt, cur, jobs, pending,
                   failed, workerVars>>

has_claimed_entries(w) == jobs[w] \cup pending[w] # {}

\* Mutant: what autoclaim has found is not counted.
RemainingUncounted(w) == opt[w].count

\* How many entries the call may still claim.
Remaining(w) == opt[w].count - Cardinality(jobs[w]) - Cardinality(pending[w])

ReadDue(w) == wpc[w] = "hydrate_auto" /\ todo[w] = {} /\ Remaining(w) > 0

\* XREADGROUP, which may also time out with nothing.
ReadGroup(w) ==
    /\ ReadDue(w) /\ group
    /\ XReadGroup(w, Remaining(w))
    /\ todo' = [todo EXCEPT ![w] = Readable(Remaining(w))]
    /\ wpc' = [wpc EXCEPT ![w] = "hydrate_read"]
    /\ UNCHANGED <<storeVars, cursor, gatewayVars, opt, cur, jobs, pending,
                   failed, workerVars, faults>>

\* Mutant: a failed read fails the call.
ReadGroupFailsAlways(w) ==
    /\ ReadDue(w)
    /\ Faulty
    /\ (group /\ XReadGroup(w, Remaining(w))) \/ UNCHANGED streamVars
    /\ ClaimAnswer(w, "unavailable")
    /\ UNCHANGED <<storeVars, cursor, gatewayVars, acked>>

\* A failed read ends the batch, and fails the call only if it is empty.
ReadGroupFails(w) ==
    /\ ReadDue(w)
    /\ Faulty
    /\ (group /\ XReadGroup(w, Remaining(w))) \/ UNCHANGED streamVars
    /\ \/ /\ has_claimed_entries(w)
          /\ wpc' = [wpc EXCEPT ![w] = "hydrate_read"]
          /\ UNCHANGED <<opt, cur, todo, jobs, pending, failed, held>>
       \/ ~has_claimed_entries(w) /\ ClaimAnswer(w, "unavailable")
    /\ UNCHANGED <<storeVars, cursor, gatewayVars, acked>>

\* The cursor's GET or XAUTOCLAIM fails, or there is no group yet: NOGROUP,
\* on the first command that names it.
ClaimFails(w) ==
    /\ \/ wpc[w] = "idle" /\ Faulty /\ UNCHANGED streamVars
       \/ /\ wpc[w] = "autoclaim" /\ Faulty
          /\ (group /\ XAutoClaim(w, cur[w], opt[w].count)) \/ UNCHANGED streamVars
       \/ /\ wpc[w] = "autoclaim" \/ (ReadDue(w) /\ ~has_claimed_entries(w))
          /\ ~group /\ UNCHANGED <<streamVars, faults>>
    /\ ClaimAnswer(w, "unavailable")
    /\ UNCHANGED <<storeVars, cursor, gatewayVars, acked>>

CursorDue(w) ==
    /\ todo[w] = {}
    /\ \/ wpc[w] = "hydrate_auto" /\ Remaining(w) <= 0
       \/ wpc[w] = "hydrate_read"

\* Mutant: the cursor only ever grows.
AUTOCLAIM_CURSOR_SCRIPT_growing(old, new) == IF new > old THEN new ELSE old

\* Mutant: the entry after the cursor is saved.
AUTOCLAIM_CURSOR_SCRIPT_after(old, new) == IF new > old THEN new + 1 ELSE new

\* The Lua script: "0-0" starts over, otherwise the cursor only grows.
AUTOCLAIM_CURSOR_SCRIPT(old, new) == IF new = 0 \/ new > old THEN new ELSE old

\* The cursor is saved, or that fails and is ignored, and the call answers.
SetCursor(w) ==
    /\ CursorDue(w)
    /\ \/ cursor' = AUTOCLAIM_CURSOR_SCRIPT(cursor, cur[w]) /\ UNCHANGED faults
       \/ Faulty /\ UNCHANGED cursor
    /\ ClaimAnswer(w, "ok")
    /\ UNCHANGED <<storeVars, streamVars, gatewayVars, acked>>

-----------------------------------------------------------------------------
(* AcknowledgeBackgroundJob, and workers that vanish                       *)

\* An entry that is not in the PEL any more is an INVALID_ARGUMENT.
Acknowledge(w) ==
    /\ \E n \in held[w] :
          /\ held' = [held EXCEPT ![w] = @ \ {n}]
          /\ IF n \in Pel THEN XAck(n) /\ acked' = acked \cup {n}
                          ELSE UNCHANGED <<streamVars, acked>>
    /\ UNCHANGED <<storeVars, cursor, gatewayVars, claimVars, faults>>

\* XACK fails, before or after Redis ran it, and the worker may try again.
AcknowledgeFails(w) ==
    /\ Faulty
    /\ \E n \in held[w] \cap Pel :
          \/ XAck(n) /\ acked' = acked \cup {n}
          \/ UNCHANGED <<streamVars, acked>>
    /\ UNCHANGED <<storeVars, cursor, gatewayVars, claimVars, held>>

\* The worker dies, or drops its call and forgets.
WorkerLost(w) ==
    /\ Faulty
    /\ wpc[w] # "idle" \/ held[w] # {}
    /\ wpc' = [wpc EXCEPT ![w] = "idle"]
    /\ failed' = [failed EXCEPT ![w] = FALSE]
    /\ cur' = [cur EXCEPT ![w] = 0]
    /\ todo' = [todo EXCEPT ![w] = {}]
    /\ jobs' = [jobs EXCEPT ![w] = {}]
    /\ pending' = [pending EXCEPT ![w] = {}]
    /\ opt' = [opt EXCEPT ![w] = NoOptions]
    /\ held' = [held EXCEPT ![w] = {}]
    /\ UNCHANGED <<storeVars, streamVars, cursor, gatewayVars, acked>>

-----------------------------------------------------------------------------
Init ==
    /\ present = {} /\ gone = {}
    /\ lastId = 0
    /\ jobOf = [n \in Entries |-> NoJob]
    /\ stream = {}
    /\ group = FALSE
    /\ delivered = 0
    /\ owner = [n \in Entries |-> NoOne]
    /\ idle = {}
    /\ cursor = 0
    /\ gpc = [g \in Gateways |-> "store"]
    /\ gid \in [Gateways -> Ids]
    /\ gentry = [g \in Gateways |-> 0]
    /\ gres = [g \in Gateways |-> "none"]
    /\ wpc = [w \in Workers |-> "idle"]
    /\ opt = [w \in Workers |-> NoOptions]
    /\ cur = [w \in Workers |-> 0]
    /\ todo = [w \in Workers |-> {}]
    /\ jobs = [w \in Workers |-> {}]
    /\ pending = [w \in Workers |-> {}]
    /\ failed = [w \in Workers |-> FALSE]
    /\ held = [w \in Workers |-> {}]
    /\ acked = {}
    /\ faults = 0

\* What a claim call does once begun, unless it fails.
ClaimStep(w) ==
    \/ Autoclaim(w) \/ LoadRecord(w) \/ AckMissing(w) \/ ReadGroup(w)
    \/ SetCursor(w) \/ ClaimFails(w)

Next ==
    \/ \E g \in Gateways : EnqueueStore(g) \/ EnqueueXAdd(g) \/ EnqueueFails(g)
    \/ EnsureConsumerGroup
    \/ \E w \in Workers :
          \/ ClaimBegin(w) \/ ClaimStep(w) \/ LoadFails(w) \/ ReadGroupFails(w)
          \/ Acknowledge(w) \/ AcknowledgeFails(w) \/ WorkerLost(w)
    \/ \E id \in Expiring : Vanish(id)
    \/ \E n \in Entries : GoIdle(n)

Spec == Init /\ [][Next]_vars

\* Somebody creates the group, and workers keep polling with autoclaim and
\* acknowledge what they are given.
FairSpec ==
    /\ Spec
    /\ WF_vars(EnsureConsumerGroup)
    /\ \A w \in Workers : /\ WF_vars(ClaimBegin(w) \/ ClaimStep(w))
                          /\ WF_vars(Acknowledge(w))
    /\ \A n \in Entries : WF_vars(GoIdle(n))

-----------------------------------------------------------------------------
(* Safety                                                                  *)

\* Entry n may have been trimmed: MaxLen newer ones have been added.
Trimmable(n) == MaxLen > 0 /\ n + MaxLen <= lastId

\* A job whose enqueue was answered OK stays within reach of the workers:
\* it waits in the stream or in a PEL until a worker has acknowledged it,
\* unless its record is gone or the stream has outgrown its bound
\* (store before XADD, service.rs:170-177; acknowledge only what is
\* missing, queue.rs:529-560).
EnqueuedJobIsReachable ==
    \A g \in Gateways :
        gres[g] = "ok" =>
            \/ gentry[g] \in Undelivered \cup Pel \cup acked
            \/ gid[g] \in gone
            \/ Trimmable(gentry[g])

\* A call never claims more than it was asked for, autoclaimed and newly
\* read entries together (queue.rs:167-168).
BatchWithinCount ==
    \A w \in Workers :
        wpc[w] # "idle" =>
            Cardinality(todo[w] \cup jobs[w] \cup pending[w]) <= opt[w].count

\* A call that fails has found nothing: entries it has already claimed are
\* answered, not left to wait for the next autoclaim (queue.rs:185-192).
ClaimedIsReported ==
    [][\A w \in Workers :
         ~failed[w] /\ failed'[w]
         => jobs[w] \cup pending[w] \cup todo[w] = {}]_vars

\* Where entry n is, seen from outside.
PlaceOf(n) ==
    IF n > lastId THEN "unpublished"
    ELSE IF owner[n] # NoOne THEN owner[n]
    ELSE IF n \in Undelivered THEN "waiting"
    ELSE IF n \in acked THEN "done" ELSE "gone"

Delivery == INSTANCE JobDelivery WITH
    place <- [n \in Entries |-> PlaceOf(n)],
    vanished <- {n \in Entries : jobOf[n] \in gone}

\* The queue delivers at least once and in order: batches, autoclaim with
\* its shared cursor, hydration, lost replies and lost workers amount to
\* jobs handed out, taken over, acknowledged, or given up for a reason.
ImplementsDelivery == Delivery!JSpec

-----------------------------------------------------------------------------
(* Liveness                                                                *)

\* Every enqueued job is acknowledged by a worker in the end, whichever
\* workers die on the way, unless its record is gone or it was trimmed.
JobIsHandled ==
    \A g \in Gateways :
        gres[g] = "ok" ~> \/ gentry[g] \in acked
                          \/ gid[g] \in gone
                          \/ Trimmable(gentry[g])
=============================================================================
