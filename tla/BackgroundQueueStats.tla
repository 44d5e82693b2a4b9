------------------------ MODULE BackgroundQueueStats ------------------------
(***************************************************************************)
(* The queue statistics (stats in crates/core/src/queue.rs) behind         *)
(* GetBackgroundQueueStats and the metrics endpoints                       *)
(* (crates/server/src/metrics.rs).                                         *)
(*                                                                         *)
(* A call sends EXISTS, XINFO GROUPS, perhaps XGROUP CREATE, then pages    *)
(* through XRANGE and XPENDING.  Enqueues, deliveries, acknowledgements,   *)
(* trimming and the loss of all data go on between any two commands.       *)
(* Stream ids are pairs of milliseconds and sequence number.               *)
(***************************************************************************)
EXTENDS Integers, FiniteSets, Sequences

CONSTANTS
    Groups,        \* names of consumer groups
    WorkerGroups,  \* those that workers create and read
    RpcCalls,      \* GetBackgroundQueueStats calls of the run
    HttpCalls,     \* requests to the metrics endpoints
    StreamIds,     \* ids XADD may give
    MaxLen,        \* BACKGROUND_QUEUE_STREAM_MAXLEN, 0 for no trimming
    PendingPage,   \* PAGE_SIZE of count_pending_fallback, 1000 in the code
    PelPage,       \* PAGE_SIZE of count_processable_in_progress, 100
    Versions,      \* what INFO may say: the numbers before and after the dot
    MaxLosses      \* bound: how often Redis loses its data

Calls == RpcCalls \cup HttpCalls
Origin == <<0, 0>>
NoGroup == ""

ASSUME IdsAssumption == StreamIds \subseteq (Nat \X Nat) \ {Origin}
ASSUME PagesAssumption ==
    /\ PendingPage \in Nat \ {0} /\ PelPage \in Nat \ {0}
    /\ MaxLen \in Nat /\ MaxLosses \in Nat
ASSUME GroupsAssumption == WorkerGroups \subseteq Groups /\ NoGroup \notin Groups

VARIABLES
    version,    \* the version of the Redis server, as parsed
    caps,       \* REDIS_CAPABILITIES: nothing until the first INFO
    exists,     \* whether the stream key exists
    stream,     \* the ids in the stream
    lastId,     \* the last id XADD gave
    groups,     \* the consumer groups of the stream
    delivered,  \* delivered[g] is last-delivered-id of group g
    pel,        \* pel[g] are its pending entries
    losses,     \* how often the data was lost
    pc,         \* pc[c] is the command call c is about to send
    grp,        \* grp[c] is its consumer_group
    lag,        \* lag[c] is the group's lag as XINFO gave it
    start,      \* start[c] is where its next page starts
    min_id,     \* min_id[c] is the oldest id of the stream, if any
    pending,    \* pending[c] counts the jobs waiting
    in_progress,\* in_progress[c] counts the jobs claimed
    code,       \* code[c] is the status it answered with
    kept,       \* history: jobs outstanding ever since its XINFO
    seen,       \* history: ids in the stream at some time since then
    quiet       \* history: nothing has changed since then

redisVars == <<version, exists, stream, lastId, groups, delivered, pel, losses>>
localVars == <<grp, lag, start, min_id, pending, in_progress>>
callVars == <<caps, pc, localVars, code>>
history == <<kept, seen, quiet>>
vars == <<redisVars, callVars, history>>

-----------------------------------------------------------------------------
(* Stream ids                                                              *)

\* How Redis orders ids.
Earlier(a, b) == a[1] < b[1] \/ (a[1] = b[1] /\ a[2] < b[2])

FirstIds(S, k) == {n \in S : Cardinality({m \in S : Earlier(m, n)}) < k}

LatestId(S) == CHOOSE n \in S : \A m \in S : ~Earlier(n, m)

\* Mutant: the page starts with the entry the last one ended with.
stream_id_after_same(id) == id

\* Mutant: the sequence number is counted down.
stream_id_after_down(id) == <<id[1], id[2] - 1>>

stream_id_after(id) == <<id[1], id[2] + 1>>

\* The start "-" of a range.
FromStart == [id |-> Origin, exclusive |-> FALSE]

Start == [id : Nat \X Nat, exclusive : BOOLEAN]

stream_range_start_after(id, exclusive_range_supported, after_delivered) ==
    IF ~after_delivered /\ id = Origin
    THEN FromStart
    ELSE IF exclusive_range_supported
         THEN [id |-> id, exclusive |-> TRUE]
         ELSE [id |-> stream_id_after(id), exclusive |-> FALSE]

stream_id_less_than(left, right) ==
    left[1] < right[1] \/ (left[1] = right[1] /\ left[2] < right[2])

\* Mutant: what was trimmed from the stream is counted.
is_tombstoned_pel_entry_never(entry_id, min_stream_id) == FALSE

\* Mutant: the oldest entry itself counts as trimmed.
is_tombstoned_pel_entry_oldest(entry_id, min_stream_id) ==
    \A id \in min_stream_id : ~stream_id_less_than(id, entry_id)

\* A pending entry that the stream has trimmed: the stream is trimmed from
\* its old end only.
is_tombstoned_pel_entry(entry_id, min_stream_id) ==
    \A id \in min_stream_id : stream_id_less_than(entry_id, id)

-----------------------------------------------------------------------------
(* Redis versions                                                          *)

\* A version is the sequence of its leading numbers, at most two.
redis_version_at_least(v, min_major, min_minor) ==
    \/ Len(v) >= 1 /\ v[1] > min_major
    \/ Len(v) >= 2 /\ v[1] = min_major /\ v[2] >= min_minor

RedisCapabilities ==
    [lag_supported |-> redis_version_at_least(version, 7, 0),
     exclusive_range_supported |-> redis_version_at_least(version, 6, 2)]

-----------------------------------------------------------------------------
(* The stream and its groups                                               *)

Waiting(g) == {n \in stream : Earlier(delivered[g], n)}

\* What group g still has to do.
Outstanding(g) == IF g \in groups THEN Waiting(g) \cup (pel[g] \cap stream) ELSE {}

\* The commands that page, and those before them that count already.
Counting == {"capabilities", "range", "min", "pel"}

\* The calls that are counting see the stream change.
Changed ==
    /\ kept' = [c \in Calls |-> IF pc[c] \in Counting
                                THEN kept[c] \cap Outstanding(grp[c])' ELSE kept[c]]
    /\ seen' = [c \in Calls |-> IF pc[c] \in Counting
                                THEN seen[c] \cup stream' ELSE seen[c]]
    /\ quiet' = [c \in Calls |-> quiet[c] /\ pc[c] \notin Counting]

\* XADD MAXLEN ~, as EnqueueBackgroundJob sends it.
Enqueue ==
    /\ \E id \in StreamIds :
          /\ Earlier(lastId, id)
          /\ lastId' = id
          /\ \E oldest \in stream \cup {id} :
                /\ stream' = {n \in stream \cup {id} : ~Earlier(n, oldest)}
                /\ stream' # stream \cup {id}
                   => MaxLen > 0 /\ Cardinality(stream') >= MaxLen
    /\ exists' = TRUE
    /\ UNCHANGED <<version, groups, delivered, pel, losses, callVars>>
    /\ Changed

\* XGROUP CREATE MKSTREAM; BUSYGROUP leaves the group as it is.
XGroupCreate(g, id) ==
    /\ exists' = TRUE
    /\ groups' = groups \cup {g}
    /\ delivered' = IF g \in groups THEN delivered ELSE [delivered EXCEPT ![g] = id]
    /\ UNCHANGED <<version, stream, lastId, pel, losses>>

\* A worker starts, with start id "0-0" or "$".
EnsureConsumerGroup(g) ==
    /\ g \in WorkerGroups \ groups
    /\ \E id \in {Origin, lastId} : XGroupCreate(g, id)
    /\ UNCHANGED callVars
    /\ Changed

\* XREADGROUP gives a worker of g the next entry.
Deliver(g) ==
    /\ g \in groups \cap WorkerGroups
    /\ \E n \in FirstIds(Waiting(g), 1) :
          /\ pel' = [pel EXCEPT ![g] = @ \cup {n}]
          /\ delivered' = [delivered EXCEPT ![g] = n]
    /\ UNCHANGED <<version, exists, stream, lastId, groups, losses, callVars>>
    /\ Changed

\* XACK, or XAUTOCLAIM drops an entry that is not in the stream any more.
Settle(g) ==
    /\ \E n \in pel[g] : pel' = [pel EXCEPT ![g] = @ \ {n}]
    /\ UNCHANGED <<version, exists, stream, lastId, groups, delivered, losses, callVars>>
    /\ Changed

\* Redis restarts without persistence.
LoseData ==
    /\ losses < MaxLosses /\ exists
    /\ losses' = losses + 1
    /\ exists' = FALSE /\ stream' = {} /\ groups' = {}
    /\ delivered' = [g \in Groups |-> Origin]
    /\ pel' = [g \in Groups |-> {}]
    /\ UNCHANGED <<version, lastId, callVars>>
    /\ Changed

\* The lag of a group: Redis 7 knows it, unless it has lost track.
LagReplies(g) ==
    {{}} \cup (IF Len(version) > 0 /\ version[1] >= 7
               THEN {{Cardinality(Waiting(g))}} ELSE {})

InRange(n, from) == IF from.exclusive THEN Earlier(from.id, n) ELSE ~Earlier(n, from.id)

\* A page of k ids of S.
Page(S, from, k) == FirstIds({n \in S : InRange(n, from)}, k)

-----------------------------------------------------------------------------
(* stats                                                                   *)

Goto(c, step) == pc' = [pc EXCEPT ![c] = step]

\* StatsQueryError::from_store
from_store(error) ==
    CASE error = "not_found" -> "404"
      [] error = "invalid_argument" -> "400"
      [] error = "unavailable" -> "503"
      [] error = "failed_precondition" -> "409"

Status(c, answer) ==
    IF c \in RpcCalls THEN answer ELSE IF answer = "ok" THEN "200" ELSE from_store(answer)

Succeeded(c) == code[c] \in {"ok", "200"}

\* Call c answers; only a success carries counts.
Answer(c, answer) ==
    /\ Goto(c, "done")
    /\ code' = [code EXCEPT ![c] = Status(c, answer)]
    /\ lag' = [lag EXCEPT ![c] = {}]
    /\ start' = [start EXCEPT ![c] = FromStart]
    /\ min_id' = [min_id EXCEPT ![c] = {}]
    /\ UNCHANGED grp

Refuse(c, answer) ==
    /\ Answer(c, answer)
    /\ pending' = [pending EXCEPT ![c] = 0]
    /\ in_progress' = [in_progress EXCEPT ![c] = 0]

Begin(c) ==
    /\ pc[c] = "idle"
    /\ \/ \E g \in Groups : /\ grp' = [grp EXCEPT ![c] = g]
                            /\ Goto(c, "exists")
                            /\ UNCHANGED <<lag, start, min_id, pending, in_progress, code>>
       \/ Refuse(c, "invalid_argument")
    /\ UNCHANGED <<redisVars, caps, history>>

stream_exists(c) ==
    /\ pc[c] = "exists"
    /\ \/ exists /\ Goto(c, "groups") /\ UNCHANGED <<localVars, code>>
       \/ ~exists /\ Refuse(c, "ok")
    /\ UNCHANGED <<redisVars, caps, history>>

\* Only a stream without any group gets one.
load_stream_groups(c) ==
    /\ pc[c] \in {"groups", "groups_again"}
    /\ LET g == grp[c] IN
       \/ /\ g \in groups
          /\ \E l \in LagReplies(g) : lag' = [lag EXCEPT ![c] = l]
          /\ start' = [start EXCEPT ![c].id = delivered[g]]
          /\ Goto(c, "capabilities")
          /\ kept' = [kept EXCEPT ![c] = Outstanding(g)]
          /\ seen' = [seen EXCEPT ![c] = stream]
          /\ quiet' = [quiet EXCEPT ![c] = TRUE]
          /\ UNCHANGED <<grp, min_id, pending, in_progress, code>>
       \/ /\ groups = {} /\ pc[c] = "groups"
          /\ Goto(c, "create")
          /\ UNCHANGED <<localVars, code, history>>
       \/ /\ g \notin groups /\ (groups # {} \/ pc[c] = "groups_again")
          /\ Refuse(c, "not_found")
          /\ UNCHANGED history
    /\ UNCHANGED <<redisVars, caps>>

CreateGroup(c) ==
    /\ pc[c] = "create"
    /\ XGroupCreate(grp[c], Origin)
    /\ Goto(c, "groups_again")
    /\ UNCHANGED <<caps, localVars, code>>
    /\ Changed

\* INFO, unless this process has its answer already.  A lag that XINFO gave
\* makes paging for the pending count unnecessary.
load_redis_capabilities(c) ==
    /\ pc[c] = "capabilities"
    /\ caps' = IF caps = {} THEN {RedisCapabilities} ELSE caps
    /\ \/ /\ lag[c] = {}
          /\ \E k \in caps' :
                start' = [start EXCEPT ![c] =
                            stream_range_start_after(@.id, k.exclusive_range_supported, FALSE)]
          /\ Goto(c, "range")
          /\ UNCHANGED pending
       \/ /\ \E l \in lag[c] : pending' = [pending EXCEPT ![c] = l]
          /\ start' = [start EXCEPT ![c] = FromStart]
          /\ Goto(c, "min")
    /\ lag' = [lag EXCEPT ![c] = {}]
    /\ UNCHANGED <<redisVars, grp, min_id, in_progress, code, history>>

\* Where the page after `page' starts.
NextStart(page) ==
    LET k == CHOOSE k \in caps : TRUE IN
    stream_range_start_after(LatestId(page), k.exclusive_range_supported, TRUE)

\* A short page is the last one.
count_pending_fallback(c) ==
    /\ pc[c] = "range"
    /\ LET page == Page(stream, start[c], PendingPage) IN
       /\ pending' = [pending EXCEPT ![c] = @ + Cardinality(page)]
       /\ IF Cardinality(page) < PendingPage
          THEN Goto(c, "min") /\ start' = [start EXCEPT ![c] = FromStart]
          ELSE start' = [start EXCEPT ![c] = NextStart(page)] /\ UNCHANGED pc
    /\ UNCHANGED <<redisVars, caps, grp, lag, min_id, in_progress, code, history>>

get_stream_min_id(c) ==
    /\ pc[c] = "min"
    /\ min_id' = [min_id EXCEPT ![c] = FirstIds(stream, 1)]
    /\ Goto(c, "pel")
    /\ UNCHANGED <<redisVars, caps, grp, lag, start, pending, in_progress, code, history>>

count_processable_in_progress(c) ==
    /\ pc[c] = "pel" /\ grp[c] \in groups
    /\ LET page == Page(pel[grp[c]], start[c], PelPage) IN
       /\ in_progress' = [in_progress EXCEPT ![c] = @ +
             Cardinality({n \in page : ~is_tombstoned_pel_entry(n, min_id[c])})]
       /\ IF Cardinality(page) < PelPage
          THEN Answer(c, "ok")
          ELSE /\ start' = [start EXCEPT ![c] = NextStart(page)]
               /\ UNCHANGED <<pc, grp, lag, min_id, code>>
    /\ UNCHANGED <<redisVars, caps, pending, history>>

\* A command fails; XGROUP CREATE perhaps after Redis ran it.
CommandFails(c) ==
    /\ pc[c] \notin {"idle", "done"}
    /\ Refuse(c, "unavailable")
    /\ \/ UNCHANGED <<redisVars, history>>
       \/ pc[c] = "create" /\ XGroupCreate(grp[c], Origin) /\ Changed
    /\ UNCHANGED caps

\* XPENDING for a group that is gone: NOGROUP.
GroupLost(c) ==
    /\ pc[c] = "pel" /\ grp[c] \notin groups
    /\ Refuse(c, "unavailable")
    /\ UNCHANGED <<redisVars, caps, history>>

-----------------------------------------------------------------------------
Init ==
    /\ version \in Versions
    /\ caps = {}
    /\ exists = FALSE /\ stream = {} /\ lastId = Origin
    /\ groups = {}
    /\ delivered = [g \in Groups |-> Origin]
    /\ pel = [g \in Groups |-> {}]
    /\ losses = 0
    /\ pc = [c \in Calls |-> "idle"]
    /\ grp = [c \in Calls |-> NoGroup]
    /\ lag = [c \in Calls |-> {}]
    /\ start = [c \in Calls |-> FromStart]
    /\ min_id = [c \in Calls |-> {}]
    /\ pending = [c \in Calls |-> 0]
    /\ in_progress = [c \in Calls |-> 0]
    /\ code = [c \in Calls |-> "none"]
    /\ kept = [c \in Calls |-> {}]
    /\ seen = [c \in Calls |-> {}]
    /\ quiet = [c \in Calls |-> FALSE]

\* What call c does once begun, unless a command fails.
StatsStep(c) ==
    \/ stream_exists(c) \/ load_stream_groups(c) \/ CreateGroup(c)
    \/ load_redis_capabilities(c) \/ count_pending_fallback(c)
    \/ get_stream_min_id(c) \/ count_processable_in_progress(c) \/ GroupLost(c)

Finished == (\A c \in Calls : pc[c] = "done") /\ UNCHANGED vars

Next ==
    \/ \E c \in Calls : Begin(c) \/ StatsStep(c) \/ CommandFails(c)
    \/ Enqueue \/ LoseData
    \/ \E g \in Groups : EnsureConsumerGroup(g) \/ Deliver(g) \/ Settle(g)
    \/ Finished

Spec == Init /\ [][Next]_vars

\* Redis answers and the runtime polls the call.
FairSpec == Spec /\ \A c \in Calls : WF_vars(StatsStep(c))

-----------------------------------------------------------------------------
TypeOK ==
    /\ version \in Versions /\ Cardinality(caps) <= 1
    /\ exists \in BOOLEAN
    /\ stream \subseteq StreamIds /\ lastId \in StreamIds \cup {Origin}
    /\ groups \subseteq Groups
    /\ delivered \in [Groups -> StreamIds \cup {Origin}]
    /\ pel \in [Groups -> SUBSET StreamIds]
    /\ losses \in 0..MaxLosses
    /\ pc \in [Calls -> Counting \cup {"idle", "exists", "groups", "create",
                                       "groups_again", "done"}]
    /\ grp \in [Calls -> Groups \cup {NoGroup}]
    /\ lag \in [Calls -> SUBSET Nat]
    /\ start \in [Calls -> Start]
    /\ min_id \in [Calls -> SUBSET StreamIds]
    /\ pending \in [Calls -> Nat] /\ in_progress \in [Calls -> Nat]
    /\ code \in [Calls -> {"none", "ok", "not_found", "invalid_argument",
                           "unavailable", "200", "400", "404", "503"}]
    /\ kept \in [Calls -> SUBSET StreamIds] /\ seen \in [Calls -> SUBSET StreamIds]
    /\ quiet \in [Calls -> BOOLEAN]

workload(c) == pending[c] + in_progress[c]

\* The scale signal misses no job: one that was outstanding from XINFO on is
\* counted as pending or as in progress, although the two counts are taken
\* at different times and page by page (queue.rs:277-385).
WorkloadCoversOutstanding ==
    \A c \in Calls : Succeeded(c) => workload(c) >= Cardinality(kept[c])

\* No count exceeds the entries there were while it was taken: paging over
\* a changing stream counts an entry at most once, with and without
\* exclusive ranges (stream_range_start_after, queue.rs:615-633).
CountedOnce ==
    \A c \in Calls :
        pending[c] <= Cardinality(seen[c]) /\ in_progress[c] <= Cardinality(seen[c])

\* If nothing changes while it counts, a call answers exactly the jobs
\* waiting and the jobs claimed that the stream still has, whatever the
\* page size, the Redis version and the trimming (README.md:88-98).
QuietStatsAreExact ==
    [][\A c \in Calls :
         /\ quiet[c] /\ pc[c] = "pel"
         /\ pc'[c] = "done" /\ Succeeded(c)'
         => /\ pending'[c] = Cardinality(Waiting(grp[c]))
            /\ in_progress'[c] = Cardinality(pel[grp[c]] \cap stream)]_vars

\* Every call is answered: each page moves on, so that paging ends once
\* enqueues stop.
StatsAnswered == \A c \in Calls : pc[c] # "idle" ~> pc[c] = "done"

\* README.md:90, "A mistyped `consumer_group` while other groups already
\* exist returns not-found rather than creating an orphan group".
NoOrphanGroup ==
    [][\A c \in Calls :
         pc[c] = "create" /\ pc'[c] # "create" /\ groups # {}
         => groups' = groups]_vars
=============================================================================
