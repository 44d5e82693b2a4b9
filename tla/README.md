# A TLA+ model of the Responses API store

The repository is a gRPC service, `responses-api-store`, that keeps LLM
responses in Redis (or Valkey) for a gateway, and a queue of background jobs
for workers that run those responses later. This directory specifies it in
TLA+, from the commands of a transaction to a background response's whole way,
checks small instances with TLC, and proves the central results for every
instance with TLAPS.

- [The system](#the-system)
- [Modules](#modules)
- [Runs](#runs)
- [Proofs](#proofs)
- [Where code and documentation disagree](#where-code-and-documentation-disagree)
- [Limits](#limits)
- [Plan](#plan)

## The system

| Component | Source | State | Operations |
|---|---|---|---|
| Record model | `crates/core/src/model.rs` | none | predicates on a stored response: terminal, claimable, in flight, stale, tombstone |
| Response store | `crates/core/src/store.rs` | one Redis key per response, with an expiry; per server one dedicated connection behind a `tokio::sync::Mutex` | `store`, `get`, `update`, `delete`, `tombstone_deleted_background`; the transitions claim, complete, fail and reconcile, each an optimistic WATCH / GET / TTL / MULTI / SETEX / EXEC in a loop of 16 attempts |
| Background queue | `crates/core/src/queue.rs` | one Redis stream, one consumer group with its pending entries list (PEL), the autoclaim cursor | `enqueue`, `ensure_consumer_group`, `claim_jobs`, `acknowledge`, `stats` |
| Service | `crates/server/src/service.rs`, `convert.rs` | none of its own | one handler per RPC: validation, defaults, calls into store and queue, mapping of errors to gRPC status |
| Metrics | `crates/server/src/metrics.rs` | none | queue statistics over HTTP |
| Process | `crates/server/src/main.rs`, `crates/core/src/config.rs` | the configuration; the capabilities of Redis, read once per process | start, metrics task, `Health` |
| Probe | `crates/probe` | none | calls `Health` and exits with 0 or 1 |
| Rust client | `crates/client` | none | one call per RPC, with its own conversion of records |
| Go client, proto, charts | `sdk/go`, `proto`, `charts` | none | one call per RPC; generated code; deployment |

**How they interact.** Several server processes share one Redis and do not know
of each other. A gateway stores a record and adds a job (`EnqueueBackgroundJob`:
SETEX, then XADD). A worker takes jobs (`ClaimBackgroundJobs`), claims the
response (`ClaimBackgroundResponse`), runs it, completes or fails it, and
acknowledges the job. Meanwhile the gateway may cancel (`UpdateResponse`),
delete, or read with `reconcile_stale`, which fails a response that has been
queued for too long. All of it meets on the same keys.

**What is hard.**

- Every handler is a sequence of Redis commands with awaits between them, and
  any other handler, on this server or another, may run in between.
- Inside a server all transitions share one connection. WATCH and MULTI are
  state of the connection, so whatever one RPC leaves behind, after an error or
  because its caller left and the future was dropped, the next one inherits.
- A command may fail after Redis ran it. An abandoned connection may still
  deliver an EXEC, possibly while the retry is under way on the new connection.
- Keys expire between any two commands, and TTL answers -2, -1 or 0.
- A worker may die holding jobs. Only `XAUTOCLAIM`, driven by a cursor that all
  workers share and write out of order, brings them back.
- The store and the queue are written one after the other. A record may have no
  job, a job no record, and a job may be run by two workers.
- The statistics are put together from five commands and two paging loops over a
  stream that changes meanwhile.
- A record is converted four times on its way from a client to Redis and back,
  and an absent, an empty and a null request must mean the same everywhere.

**What makes each part correct.**

- Store: a transition replaces exactly the record it read, and only one that
  allows it; a terminal record is not revived; a response is claimed once; the
  upstream payload is there until the response is done; a transition does not
  shorten a record's life; every RPC ends.
- Queue: a job that was accepted is never out of the workers' reach; a batch is
  no larger than asked for; a claim that has found jobs answers them even if its
  follow-up read fails; every job is handled in the end.
- Statistics: no outstanding job is missed, none appears twice within a count, the
  call ends.
- Background responses: accepted work can be done again until the response has
  ended, its result is stored once, and every response ends.
- Transport: a reader gets what a writer wrote, and no handler panics on it.
- Process: it serves only with a valid configuration, and readiness follows
  Redis.

The hazards, each with its line and the properties that cover it, are in
`PROJECT.json`.

## Modules

```
ResponseModel          the record and the pure functions on it
  ResponseLifecycle    abstract: every RPC takes effect in one step
  ResponseStore        detailed: one step per Redis command
    MCResponseStore       instances for TLC
    ResponseStoreProofs   theorems: the transactions, the refinement
    ResponseGrantProofs   theorems: lifetimes and claims
JobDelivery            abstract: an at-least-once queue of jobs
BackgroundQueue        detailed: stream, consumer group, claims, cursor
  MCBackgroundQueue
  BackgroundQueueProofs
BackgroundJobs         composes ResponseLifecycle and JobDelivery with
  MCBackgroundJobs     gateways and workers
  BackgroundJobsProofs
BackgroundQueueStats   statistics over a changing stream
  MCBackgroundQueueStats
  BackgroundQueueStatsProofs
RecordTransport        conversions of a record, client to Redis and back
  MCRecordTransport
  RecordTransportProofs
ServerProcess          configuration, start, health and probe
  MCServerProcess
  ServerProcessProofs
```

`ResponseStore` implements `ResponseLifecycle` (proved), `BackgroundQueue`
implements `JobDelivery` (proved too), and `BackgroundJobs` is built on the
two abstract specifications, so that the composition stays small.

### ResponseModel

Of a record it keeps what the code branches on: the status and background
members of the response JSON, whether the upstream request and the
authorization are present, and `enqueued_at`. An `Option<i64>` is a set with at
most one element. `Absent` stands for a key that is not there. `can_claim` and
`prepare_claim_background` together are the Rust function of that name, and
likewise for complete, fail and reconcile; `reconcile_write_ttl` keeps the
code's three cases.

### ResponseLifecycle

What the store promises. A record changes by a lawful transition
(`Transit`), by a client's write or delete (`Overwrite`), or by expiry
(`Elapse`), one record at a time. `Transition(before, after, clock)` is the
relation the background RPCs must respect.

### ResponseStore

A *task* is one RPC. Its request is chosen initially; it may start at any time
and takes one step per Redis command.

| Variable | In the code |
|---|---|
| `db`, `expires`, `now` | the keys, their expiry, the clock |
| `watched`, `dirty`, `stage`, `queued` | what Redis keeps per connection: watched keys, whether one was touched, the open transaction and its SETEX |
| `txConn` | `transaction_connection` of each server |
| `pc`, `req` | the next command of a task, and its request |
| `at`, `att`, `upd`, `ttl`, `res` | locals: `now` of a reconcile, `attempt`, `updated`, `ttl`, and the answer |

| Action | Code |
|---|---|
| `Begin` | validation in the handlers of `service.rs` |
| `LoadGet`, `LoadUpdate`, `LoadDelete`, `LoadFails` | the first `load` of each RPC and the decision on it |
| `PlainWrite`, `PlainDelete`, `PlainFails` | `store`, `delete` on the shared connection |
| `Acquire`, `AcquireReconnected` | lock and `discard_open_transaction` |
| `Watch`, `ReadRecord`, `ReadTtl`, `Multi`, `SendExec`, `ExecReply` | `transition_attempt` and `reconcile_stale_transaction_attempt` |
| `AttemptFails`, `Reset`, `ResetFails` | a storage error, then `reset_transaction_connection`, which takes the mutex again |
| `Reload` | the last load of `reconcile_stale_atomic` |
| `Cancel` | the caller leaves; the handler's future is dropped at an await |
| `RedisExec` | Redis runs an EXEC that was sent, even one of a connection that was given up |
| `Tick` | a second passes and keys expire |

The mutex is not a variable: a task holds it exactly while its `pc` is inside
the block of store.rs:320-325 (`HoldsLock`). A crash of a server process is a
`Cancel` of all its tasks; the restarted process begins with a new connection,
as in `AcquireReconnected`. A plain write that reaches Redis late is the same as
a task that takes its step late, and `"unavailable"` after `PlainWrite` is also
the answer of a caller who is not there any more. `SendExec` queues the SETEX
and sends EXEC in one step: between the two nothing on the connection can
change but `dirty`, and a task that stops there is one that stopped before. The
clock of a reconcile is read with its load; a later reading would only make a
record stale that the load one tick later finds stale too.

### BackgroundQueue

Entry *n* is the *n*-th XADD, a PEL is the set of entries with an `owner`, and
`idle` says which of them have waited for `autoclaim_min_idle_ms`. Of the
records only presence matters here. `EnqueueStore` and `EnqueueXAdd` are the two
halves of EnqueueBackgroundJob. A claim goes through `ClaimBegin` (read the
cursor), `Autoclaim`, hydration of each entry (`LoadRecord`, `LoadFails`,
`AckMissing`), `ReadGroup` for the rest of the batch, hydration again, and
`SetCursor`, which runs the Lua script and answers. `ClaimFails` and
`ReadGroupFails` are the two ways it can fail, `AcknowledgeFails` an XACK whose
reply is lost, `WorkerLost` a worker that dies or drops its call. XAUTOCLAIM
removes entries from the PEL that the stream has trimmed, as Redis 7 does.

### JobDelivery

What the queue promises. `place` says where each job is: unpublished, waiting,
with a worker, done or gone. Jobs are handed out oldest first (`HandOut`), may be
taken over (`TakeOver`), and leave by a worker's `Acknowledge`, by `GiveUp` when
their record has been gone (`Vanish` is the step in which it goes), or by trimming
once `MaxLen` newer ones exist.
`PlaceOf` in `BackgroundQueue` is the refinement mapping. It is for groups that
start at "0-0": one created at "$" skips what was enqueued before it, which
EnsureConsumerGroup's caller asked for.

### BackgroundJobs

A background response from enqueue to result. EnqueueBackgroundJob is two steps
(`EnqueueStore`, `EnqueueXAdd`), each of which may fail before or after Redis ran
it; UpdateResponse and DeleteResponse are two as well (`ClientLoads`,
`ClientWrites`), since what they decide on may be out of date when they write.
`Poll` is a reader's reconcile. A worker goes through `ReceiveJob`, `LoadJob`,
`ClaimResponse`, `WriteResult` and `Acknowledge`, and may be lost anywhere
(`WorkerLost`). Workers are not in this repository; the model follows what
README.md:52-54 expects of them: claim the response, and when that is refused
because it is in progress, run it with the payload that came with the job;
acknowledge last.

### BackgroundQueueStats

`stats` command by command: `stream_exists`, `load_stream_groups`, perhaps
`CreateGroup` and the groups again, `load_redis_capabilities`,
`count_pending_fallback`, `get_stream_min_id`, `count_processable_in_progress`.
Stream ids are pairs, as paging computes with them; page sizes are constants.
`Enqueue`, `Deliver`, `Settle`, `EnsureConsumerGroup` and `LoseData` change the
stream in between. An RPC and a metrics request differ in the status they answer
with only; `stats` makes the latter, `stats_orphan` the former. Three history variables say what was there to count: `kept` (jobs
outstanding ever since XINFO), `seen` (ids in the stream since then) and `quiet`.

### RecordTransport

One record, with JSON values reduced to kind, status, id and a body, goes through
`to_proto_record` (client), `proto_to_core` (service), `Serialize` (key),
`Deserialize`, `core_to_proto` and `from_proto_record`. `want` is the record a
reader should see, kept beside the key without any conversion. RPCs are single
steps here; `ResponseStore` has their interleavings. `Foreign` are protobuf
records that only other clients send: an empty or malformed text, no id.
A handler panics in one of two ways: the `expect` of a claim on a record without
a request (store.rs:523), or the assignment of a member to JSON that takes none.
`granted` of a reply is the payload of a claim that was answered OK. The two
checks that a result is an object (service.rs:360, store.rs:540) see the same
value and are one, `is_object`.

### ServerProcess

`Configure`, `Connect`, `StartMetrics` and `Serve` are the steps of `main`, each
with the ways in which it ends the process. A variable of the environment is
unset, a number or another text. `Probe`, `Ping`, `Info` and `Report` are the
probe's call of `Health`; `caps` is the `OnceCell` of store.rs:627. `alive` says
whether the store's connection is intact: the command that finds it broken fails
and has redis-rs make a new one.

## Runs

Bounds are the smallest at which the interesting cases happen; each is a
constant in a `.cfg`.

| Run | Instance | Checks |
|---|---|---|
| `race` | 2 RPCs of every kind, 2 servers, 1 response, lifetimes 1 to 3, clock to 2 | `TypeOK`; `WatchedReadIsCurrent`; `ClaimGrantedOnce`; `ImplementsLifecycle`; `LifetimeKept`; `TerminalIsFinal`; `PayloadKeptUntilDone` |
| `liveness` | 2 RPCs, 1 server, 2 responses | `WatchedReadIsCurrent`; `RpcTerminates` |
| `queue_safety` | 2 enqueues, 2 workers, batches of 2, autoclaim on and off, 1 fault, an expiring record | `EnqueuedJobIsReachable`; `ClaimedIsReported`; `ImplementsDelivery` |
| `queue_limits` | 3 enqueues, MAXLEN 2, 1 worker, batches of 1 and 2, 1 fault | `TypeOK`; `EnqueuedJobIsReachable`; `BatchWithinCount`; `ImplementsDelivery` |
| `queue_liveness` | 2 enqueues, 2 workers, 1 fault | `JobIsHandled` |
| `stats` | 1 request, 2 groups, 4 ids in 2 milliseconds, pages of 2 and 1, MAXLEN 2, three versions, data lost once | `TypeOK`; `WorkloadCoversOutstanding`; `CountedOnce`; `QuietStatsAreExact`; `StatsAnswered` |
| `jobs` | 2 responses, 2 workers, a client, expiry, MAXLEN 1, 1 fault | `TypeOK`; `AcceptedWorkIsRecoverable`; `OneResult`; `ResponseEnds` |
| `transport` | every RPC on records with each kind of JSON in each field | `ReadersSeeWhatWasWritten`; `ClaimCarriesTheRequest`; `NoHandlerPanics` |
| `process` | each variable unset, text, -1, 0 and 1, Redis with three versions | `TypeOK`; `ServingConfigIsValid`; `ReadinessFollowsRedis` |
| `deleted`, `hard_delete`, `stats_orphan` | small | each one sentence of the documentation, refuted |

What they show:

- `WatchedReadIsCurrent`: as long as a transaction's connection is clean, what
  it prepared is a lawful transition of the record as it is *now*, although the
  record was read several steps ago; and so is what an abandoned EXEC carries.
- `ImplementsLifecycle`: seen from the keys, all of it is `ResponseLifecycle`.
- `LifetimeKept`: a transition re-arms the TTL it read. It may lose the second
  that TTL rounds away, never more. Records that expire within the run make TTL
  answer 0 or -2; that SETEX, which rejects 0, is given a positive number all the
  same is part of `TypeOK`.
- `TerminalIsFinal`, `ClaimGrantedOnce`, `PayloadKeptUntilDone`: what gateways
  and workers rely on. Client writes are excepted: UpdateResponse overwrites
  whatever it finds.
- `RpcTerminates`: the mutex, the reset that takes it again, and connections
  left in a bad state never block an RPC for ever.
- `EnqueuedJobIsReachable`: an accepted job is undelivered, in a PEL, or was
  acknowledged by a worker; or its record is gone, or MAXLEN newer jobs exist.
- `JobIsHandled`: with workers that keep polling, it does get acknowledged.
- `ImplementsDelivery`: seen from where each job is, the queue with its batches,
  hydration, retries and shared cursor is `JobDelivery`.
- `WorkloadCoversOutstanding`: a job outstanding since XINFO is counted as waiting
  or as claimed, although it may move from one to the other between the two
  counts (it may then be counted in both: `workload` errs upwards).
  `CountedOnce`: within a count, never twice. `QuietStatsAreExact`: if nothing
  happens meanwhile, both numbers are exact.
- `AcceptedWorkIsRecoverable`: while a response is open, its record has the
  request and a job of it is in reach, whoever died where; trimming is the one
  exception. `OneResult`: a takeover may run a response twice, but one completion
  is answered OK. `ResponseEnds`: also the response whose job was never published;
  only one in progress whose job was trimmed may stay as it is.
- `ReadersSeeWhatWasWritten`: whichever client and RPC. A request of `null` is
  stored as `null` and read back as none, and a record with it is therefore never
  claimable. `ClaimCarriesTheRequest`: a claim answered OK hands over a request and
  the authorization, both as they were given and as the key keeps them.
  `NoHandlerPanics`: neither its `expect` nor the assignment of a member fails.
- `ReadinessFollowsRedis`: the probe settles on failure when Redis or the process
  stays away and on success when both stay, whatever connections broke before.

**Bounds.** `MaxAttempts` is 2 instead of 16: one retry and the exhausted loop
both occur. Pages of one or two entries instead of 1000 and 100 put a page
boundary between any two ids, in one millisecond and across two. `MaxNow` of
`jobs` lets every record that is enqueued become stale, and its MAXLEN of 1 makes
each enqueue trim the one before. Three connections let a server replace its
connection while the old one still owes an EXEC. In the store `MaxNow` is 2,
enough for staleness and expiry to fall between any two commands; two RPCs are
enough for every pair of transitions to race; the theorems hold for any number.
`MaxFaults` is 1 for the queue and the jobs, so that a fault may fall anywhere but
two never do; the store's faults are not bounded, since an RPC fails at most
`MaxAttempts` times.

**Fairness.** `FairSpec` of the store: a task that can go on does (the tokio
runtime polls it), and Redis runs what it was sent. Nothing is said of faults,
of time or of callers. Weak fairness is enough for the mutex because only
finitely many RPCs compete for it; the code's FIFO mutex gives more. `FairSpec`
of the queue adds what the deployment must do: somebody creates the consumer
group, workers poll with autoclaim and acknowledge what they are given, and an
entry that is left alone becomes idle. Enqueues and faults need not happen. In
`jobs`, workers keep claiming and finish what they have, clients keep
polling, and time passes; nothing makes a gateway publish the job of a record it
has stored. A statistics call goes on once begun. In `process` the
probe is called over and over (the chart's probes are periodic) and a process
that has begun to start goes on; Redis need not come back, nor the process be
restarted. Runs with a liveness property use no symmetry.

**Deadlock** is checked in every run. `Finished` lets the store stutter when
every RPC was answered, and likewise in `stats` and `jobs`. The
queue never stops, since workers poll.

## Proofs

| Module | Theorem | States |
|---|---|---|
| `ResponseStoreProofs` | `TypeCorrect` | `Spec => []TypeOK` |
| | `Invariant` | `Spec => []IndInv` |
| | `WatchedReads` | `Spec => []WatchedReadIsCurrent` |
| | `TerminalStays` | `Spec => TerminalIsFinal` |
| | `PayloadStays` | `Spec => PayloadKeptUntilDone` |
| | `Refinement` | `Spec => ImplementsLifecycle` |
| `ResponseGrantProofs` | `LifetimesStay` | `Spec => LifetimeKept` |
| | `ClaimsAreUnique` | `Spec => []ClaimGrantedOnce` |
| `BackgroundQueueProofs` | `TypeCorrect` | `Spec => []TypeOK` |
| | `BatchBounded` | `Spec => []BatchWithinCount` |
| | `FailuresClaimNothing` | `Spec => ClaimedIsReported` |
| | `JobsStayReachable` | `Spec => []EnqueuedJobIsReachable`, for groups that start at 0-0 |
| | `QueueImplementsDelivery` | `Spec => ImplementsDelivery`, for groups that start at 0-0 |
| `BackgroundJobsProofs` | `CompletedAtMostOnce` | `Spec => []OneResult` |
| | `JobsTypeCorrect` | `Spec => []TypeOK` |
| | `AcceptedWorkRecovers` | `Spec => []AcceptedWorkIsRecoverable` |
| `BackgroundQueueStatsProofs` | `StatsTypeCorrect` | `Spec => []TypeOK` |
| | `CountInvariant` | `Spec => []CountInv` |
| | `WorkloadCovers` | `Spec => []WorkloadCoversOutstanding` |
| | `EntriesCountedOnce` | `Spec => []CountedOnce` |
| | `QuietCountsAreExact` | `Spec => QuietStatsAreExact` |
| `RecordTransportProofs` | `ReadsAreWrites` | `Spec => []ReadersSeeWhatWasWritten` |
| | `ClaimsCarryRequests` | `Spec => []ClaimCarriesTheRequest` |
| | `HandlersDoNotPanic` | `Spec => []NoHandlerPanics` |
| `ServerProcessProofs` | `ServesValidConfig` | `Spec => []ServingConfigIsValid` |
| | `TypeCorrect` | `Spec => []TypeOK` |

### The store

Everything is proved for every set of ids, RPCs, servers, connections and
requests, and every configuration, from three assumptions: requests and
preloaded records have their types, and the configured TTL and staleness are
positive, as `StoreConfig::validate` (config.rs:42-50) demands.

`WatchedReadIsCurrent` is not inductive. It says nothing of a task that has not
read yet, nor of why the connection would notice a change. `IndInv` adds that

- servers share no dedicated connection (`ConnsApart`), and at most one RPC of a
  server is in a transaction (`MutexHeld`);
- from its GET on, a task's connection watches its key, and no EXEC is pending
  on it (`TaskInv`);
- a pending EXEC carries one write, to a key its connection watches (`ConnInv`);
- what a client is about to write is a client's record or a tombstone.

The proof splits a step into what it does to the acting task and what it leaves
alone. `Undisturbed(c)` says that a step left connection `c` as it was, or made
it dirty when it changed a watched key; `ConnFrame` and `TaskFrame` show that
this preserves the invariant of a connection and of a resting task, the latter
because a lawful transition stays lawful as time passes (`TransitionLater`).
`QuietStep`, `OwnConnStep` and `ReplaceStep` then cover three kinds of steps:
those that disturb no connection, those on the task's own, and those that
replace it; `ExecAction` and `TickAction` cover Redis. `KeyStep` reads off the
invariant what a step looks like from the keys. The refinement,
`TerminalStays` and `PayloadStays` follow from it.

`ResponseGrantProofs` builds on `IndInv`. A lifetime is kept because the TTL a
transaction read stays a lower bound, but for the rounded second, as long as its
connection is clean: `LifeInv` says so of every task that has read it
(`TaskLife`) and of every EXEC on its way (`ConnLife`), together with
`ExpiryInv`, that a key which exists has a moment to expire in the future. A
claim is granted once because the first grant takes the record out of "queued",
where no transition brings it back: `GrantInv` relates the answers to the
record, and `StepsOf` says what a task's position implies of its operation and
of the EXEC it waits for. Both need the same frame, that a step of one task or
of Redis leaves every other task's transaction as it was or makes it dirty, here
with the lifetimes of the watched keys (`Apart`, `Untouched`).

### The queue

`BackgroundQueueProofs` holds for any finite set of enqueue calls, any workers,
counts, MAXLEN and faults. `NamesAssumption` only keeps worker names apart from
the names of places, and the absence of a job apart from ids. `JobsStayReachable` and
`QueueImplementsDelivery` assume that groups are created at "0-0", as they are
when EnsureConsumerGroup is called without a start id (service.rs:277-284).
Without it they are false: a group created at "$" skips what was there.

- Types need a fact about numbers: there are no more entries than calls that
  have answered (`EntriesFromCalls`), so that XADD never runs out of ids.
- `BatchInv` adds that a claim begins with nothing in hand; what XAUTOCLAIM and
  XREADGROUP may return is bounded by what they are asked for (`RedisPicks`).
- `PlaceInv` says where entries are: what is pending or acknowledged was
  delivered, and nothing is both; an entry outside the stream was trimmed
  (`StreamInv`); an entry's record was stored before it, so an entry found
  without one had a record that is gone (`RecordInv`); every published entry is
  within reach or gone for a reason (`ReachInv`). The refinement then maps
  each action to one of `JobDelivery` or to a stutter.

`BackgroundJobsProofs` proves its theorems for any number of responses, workers,
faults and takeovers, and any trimming. A count of
results is not inductive by itself; `ResultInv` adds that a response with a result
is not open, and that nothing was written before its enqueue, so that no write
still to come opens it again: transitions need an open record, and clients write
only records that are over. `RecoverInv` ties jobs to responses: an accepted
response, and one in progress, has a job; the job of an open response waits,
is with a worker, or has been outgrown; a worker that is about to acknowledge
has a response that is over.

### The statistics

`BackgroundQueueStatsProofs` assumes only that page sizes are not zero, that ids
are pairs of numbers later than 0-0 and that the empty name is no group: it
holds for any stream, any number of groups and calls, every Redis version and
every moment at which data is lost. It rests on one fact about paging (`Pages`):
a page is the beginning of what is still to come, the next one starts behind it
and skips nothing, with an exclusive start and with the incremented sequence
number alike. `FirstIdsIsPrefix` and `RangesGoOn` are its two halves, and its
counting is done with `Parts` and `Cover`, on finite sets; that the stream, the
pending entries and the histories are finite is part of `TypeInv`.

What a call has counted says little by itself, since stream and pending entries
change from one page to the next. `CountInv` relates it to the next page's start:

- `IdsInv`: ids grow, and a pending entry as late as one of the stream is in the
  stream. This is why comparing with the oldest id tells trimmed entries
  (`MinIdTells`); it needs that trimming takes the oldest first.
- `UpperInv`: what is counted is at most what is behind the next start and has
  been in the stream (`CountedOnce`).
- `LowerInv`: there is an id d, the last one delivered at XINFO, such that the
  jobs kept that are later than d and behind the next start of XRANGE have been
  counted as waiting, and those not later than d and behind the next start of
  XPENDING as claimed. A job that is delivered while the call counts is later than
  d and so not needed among the claimed ones: delivery goes forward and only a
  loss, after which nothing is kept, takes it back (`RedisEffect`).
- `ExactInv`: as long as nothing has changed, both are equalities.

### Transport and process

`RecordTransportProofs` assumes that the clients' records, the foreign messages
and what is preloaded under the key are well formed (`IsRecord`, `IsMessage`: an
optional field holds at most one value, and JSON that is no object has no
status); of their contents nothing. `ProtoRoundTrip` and `KeyRoundTrip` are what the
conversions preserve, `AcceptedMeaning` what a message of either client means once it has
been through the key. The invariant `TransportInv` says that the key holds at
most one record, without a null request (`KeyInv`), and that it is what was
written, or a tombstone of it (`WantInv`).

`ServerProcessProofs` holds for every set of environments whose variables are
unset, integers or text. The
invariant `ConfigInv` says that once `main` is past its first step there is a
valid configuration; `FromEnvIsValid` and `BytesAreValid` show that the parsing
and the checks leave no other. `TypeCorrect` also covers what `Info` caches and
what `Health` answers, at most one each. `ConfigInv` is the third assumption of the store's proofs,
so these rest on the code and not on the operator.

### Model-checked only

The liveness properties `RpcTerminates`, `JobIsHandled`, `StatsAnswered`,
`ResponseEnds` and `ReadinessFollowsRedis`, since fairness is out of the prover's
reach. Every safety property of a passing run is proved.

## Where code and documentation disagree

1. `deleted`. README.md:50 says GetResponse answers NOT_FOUND for a deleted
   response. UpdateResponse checks for a tombstone and then writes blindly
   (store.rs:134-140); a deletion in between is undone, and GetResponse returns
   the response although its deletion was answered OK. Without updates the same
   property fails in another way: a deletion between the load of a
   GetResponse with `reconcile_stale` and its transaction makes it answer OK with
   the tombstone, since store.rs:448-453 returns the record it finds, and so does
   the reload in lines 216-220.
2. `hard_delete`. README.md:12 says in-flight responses are tombstoned, not
   removed. service.rs:144 ignores a failed load and goes on to DEL.
3. `stats_orphan`. README.md:90 says a mistyped group creates no orphan while
   other groups exist. queue.rs:227 creates the group after an XINFO that saw
   none; a worker may have created one meanwhile.

Two more were met while modelling and need no run to be seen:

- client/src/error.rs:22 says DeleteResponse surfaces a missing record as
  NOT_FOUND. It answers OK (service.rs:144-154).
- store.proto:210 says `background_queue_lag_supported` is true when the server exposes the lag
  field. It is what the first Redis this process asked exposed; store.rs:630
  never asks again.

## Limits

Abstractions and assumptions:

- Corrupted records, and with them INTERNAL, are left out: every key holds JSON
  that the store wrote. `upstream`, a string that is passed on, is too.
- XAUTOCLAIM looks at no more than ten entries per one it may claim; the small
  instances do not reach that limit.
- In `ResponseStore` and `BackgroundQueue` Redis does not lose data; in
  `BackgroundQueueStats` it may.
- XINFO's lag is exact or missing, as Redis documents it.
- Paging ends because enqueues do: a stream that grows faster than it is paged
  through keeps a statistics call busy.
- Message sizes are abstracted. A reply of ClaimBackgroundJobs that exceeds
  GRPC_MAX_MESSAGE_BYTES is lost like any other reply; that its retry is lost in
  the same way is not modelled.
- When MAXLEN trims the job of a response in progress whose worker is lost, the
  response stays in progress until its record expires: reconcile ends queued
  responses only. `ResponseEnds` and `AcceptedWorkIsRecoverable` except exactly
  this case.

Not modelled:

- The `reconciled` flag of ReconcileStaleResponse (service.rs:429). It tells
  whether the answer differs from the first load, whoever changed the record;
  no document says what it should tell.
- Text: Prometheus output, error messages, key names, URLs, `resp_` ids, the
  probe's dial address.
- The Go client, which passes protobuf messages on, the generated code, charts,
  scripts and images.

## Plan

Modelled: every component with state or control of its own. Proved: every safety
property that a run checks. What could still be added: the exception of groups
that start at `$` stated as a theorem of its own (jobs enqueued after the group
was created stay reachable), and the status `ReconcileStaleResponse` reports, once
a document says what it should tell.
