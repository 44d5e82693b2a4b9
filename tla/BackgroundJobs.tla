--------------------------- MODULE BackgroundJobs ---------------------------
(***************************************************************************)
(* A background response from its enqueue to its result: the response      *)
(* store, the background queue, the gateways that enqueue, cancel, delete  *)
(* and poll, and the workers that run jobs.                                *)
(*                                                                         *)
(* Records change as ResponseLifecycle allows, which ResponseStore is      *)
(* shown to implement, and jobs move as JobDelivery allows, which          *)
(* BackgroundQueue is shown to implement.  Each RPC is a step, or two      *)
(* where it touches the store and the queue one after the other, or reads  *)
(* a record and then writes it blindly.                                    *)
(*                                                                         *)
(* Workers are not part of the repository.  They follow the README: claim  *)
(* a job, claim its response, run it, write the result, and acknowledge    *)
(* only then; a job that comes back after a crash carries its payload and  *)
(* is run again.                                                           *)
(***************************************************************************)
EXTENDS ResponseModel, FiniteSets

CONSTANTS
    Ids,           \* response ids, each enqueued once
    Expiring,      \* those whose record may expire
    Clients,       \* those that a client may cancel or delete
    Workers,       \* background workers
    MaxLen,        \* BACKGROUND_QUEUE_STREAM_MAXLEN, 0 for no trimming
    StaleSeconds,  \* BACKGROUND_RESPONSE_STALE_SECONDS
    MaxNow,        \* bound: the clock stops here
    MaxFaults      \* bound: failed commands and lost workers

NoJob == "no job"

\* Names that stand for no worker and no response.
ASSUME JobNamesAssumption ==
    /\ Workers \cap {"unpublished", "waiting", "done", "gone"} = {}
    /\ NoJob \notin Ids
ASSUME JobsAssumption ==
    /\ IsFiniteSet(Ids) /\ Expiring \subseteq Ids /\ Clients \subseteq Ids
    /\ MaxLen \in Nat /\ StaleSeconds \in Nat \ {0}
    /\ MaxNow \in Nat /\ MaxFaults \in Nat

Entries == 1..Cardinality(Ids)

VARIABLES
    now,       \* unix time, in seconds
    db,        \* db[id] is the stored record, or Absent
    place,     \* place[n] is where job n is (JobDelivery)
    vanished,  \* the jobs whose record has been gone at some time
    jobOf,     \* jobOf[n] is the response id of job n
    gpc,       \* gpc[id] is the step of the enqueue of id
    cpc,       \* cpc[id] is the write a client is about to make
    wpc,       \* wpc[w] is the step of worker w
    job,       \* job[w] is the job it works on, or 0
    results,   \* results[id] is how many completions were answered OK
    faults     \* number of faults so far

storeVars == <<now, db>>
queueVars == <<place, vanished, jobOf>>
workerVars == <<wpc, job, results>>
vars == <<storeVars, queueVars, gpc, cpc, workerVars, faults>>

Thresholds == {StaleSeconds}

Lifecycle == INSTANCE ResponseLifecycle WITH Writable <- {}
Delivery == INSTANCE JobDelivery

Queued(t) ==
    [status |-> "queued", background |-> TRUE, pending_upstream_request |-> TRUE,
     upstream_authorization |-> TRUE, enqueued_at |-> {t}]

\* What a gateway writes to cancel: build_cancelled_response changes the
\* response and leaves the upstream request.
Cancelled(stored) == [stored EXCEPT !.status = "cancelled", !.background = TRUE]

Faulty == faults < MaxFaults /\ faults' = faults + 1

\* The record of id is gone, and so is what its jobs refer to.
Forget(id) ==
    /\ db' = [db EXCEPT ![id] = Absent]
    /\ vanished' = vanished \cup {n \in Entries : jobOf[n] = id}
    /\ UNCHANGED <<place, jobOf>>

Put(id, rec) == db' = [db EXCEPT ![id] = rec]

-----------------------------------------------------------------------------
(* EnqueueBackgroundJob: the record, then the job                          *)

\* Bound: late enough records could not become stale before MaxNow.
EnqueueStore(id) ==
    /\ gpc[id] = "store" /\ now + StaleSeconds <= MaxNow
    /\ Put(id, Queued(now))
    /\ gpc' = [gpc EXCEPT ![id] = "xadd"]
    /\ UNCHANGED <<now, queueVars, cpc, workerVars, faults>>

Publish(id) ==
    \E n \in Entries :
        /\ Delivery!Publish(n)
        /\ jobOf' = [jobOf EXCEPT ![n] = id]
        /\ vanished' = IF db[id] = Absent THEN vanished \cup {n} ELSE vanished

EnqueueXAdd(id) ==
    /\ gpc[id] = "xadd"
    /\ Publish(id)
    /\ gpc' = [gpc EXCEPT ![id] = "accepted"]
    /\ UNCHANGED <<storeVars, cpc, workerVars, faults>>

\* Either command fails, before or after Redis ran it.  The record that was
\* stored stays.
EnqueueFails(id) ==
    /\ Faulty
    /\ \/ /\ gpc[id] = "store" /\ now + StaleSeconds <= MaxNow
          /\ Put(id, Queued(now)) \/ UNCHANGED db
          /\ UNCHANGED queueVars
       \/ /\ gpc[id] = "xadd"
          /\ Publish(id) \/ UNCHANGED queueVars
          /\ UNCHANGED db
    /\ gpc' = [gpc EXCEPT ![id] = "refused"]
    /\ UNCHANGED <<now, cpc, workerVars>>

-----------------------------------------------------------------------------
(* Gateways on behalf of their clients                                     *)

\* The load of UpdateResponse or DeleteResponse, and what it decides.
ClientLoads(id) ==
    /\ id \in Clients /\ cpc[id] = "none" /\ gpc[id] # "store"
    /\ \/ /\ db[id] # Absent /\ ~is_deleted_tombstone(db[id])
          /\ cpc' = [cpc EXCEPT ![id] = "cancel"]
       \/ /\ is_in_flight_background(db[id])
          /\ cpc' = [cpc EXCEPT ![id] = "tombstone"]
       \/ /\ ~is_in_flight_background(db[id])
          /\ cpc' = [cpc EXCEPT ![id] = "del"]
    /\ UNCHANGED <<storeVars, queueVars, gpc, workerVars, faults>>

\* The write, whatever the key holds by now.
ClientWrites(id) ==
    /\ \/ /\ cpc[id] = "cancel" /\ Put(id, Cancelled(Queued(0)))
          /\ UNCHANGED queueVars
       \/ /\ cpc[id] = "tombstone" /\ Put(id, tombstone_deleted_background(Queued(0)))
          /\ UNCHANGED queueVars
       \/ cpc[id] = "del" /\ Forget(id)
    /\ cpc' = [cpc EXCEPT ![id] = "done"]
    /\ UNCHANGED <<now, gpc, workerVars, faults>>

\* GetResponse with reconcile_stale, or ReconcileStaleResponse.
Poll(id) ==
    /\ Lifecycle!ReconcileStale(db[id], apply_stale_failure(db[id]), now)
    /\ Put(id, apply_stale_failure(db[id]))
    /\ UNCHANGED <<now, queueVars, gpc, cpc, workerVars, faults>>

-----------------------------------------------------------------------------
(* Workers                                                                 *)

Response(w) == jobOf[job[w]]

Work(w, step) == wpc' = [wpc EXCEPT ![w] = step]

\* ClaimBackgroundJobs gets job n for worker w: the oldest one that waits,
\* or one that is idle with any worker.
ReceiveJob(w, n) ==
    /\ wpc[w] = "idle"
    /\ \/ Delivery!HandOut(w) /\ place[n] = "waiting"
       \/ Delivery!TakeOver(w) /\ place[n] \in Workers
    /\ Delivery!Move({n}, w)
    /\ job' = [job EXCEPT ![w] = n]
    /\ Work(w, "load")
    /\ UNCHANGED <<storeVars, vanished, jobOf, gpc, cpc, results, faults>>

\* It takes over a job that is no longer in the stream.
ReceiveTrimmed(w, n) ==
    /\ wpc[w] = "idle"
    /\ n \in Delivery!Taken /\ Delivery!Outgrown(n, Delivery!Published)
    /\ Delivery!Move({n}, "gone")
    /\ UNCHANGED <<storeVars, vanished, jobOf, gpc, cpc, workerVars, faults>>

\* It loads the record: the job is answered with its payload, or there is
\* no record and the job is acknowledged away.
LoadJob(w) ==
    /\ wpc[w] = "load"
    /\ \/ /\ db[Response(w)] # Absent
          /\ Work(w, "claim")
          /\ UNCHANGED <<job, place>>
       \/ /\ db[Response(w)] = Absent
          /\ Work(w, "idle")
          /\ job' = [job EXCEPT ![w] = 0]
          /\ \/ Delivery!GiveUp(job[w])
             \/ job[w] \notin Delivery!Taken /\ UNCHANGED place
    /\ UNCHANGED <<storeVars, vanished, jobOf, gpc, cpc, results, faults>>

\* ClaimBackgroundResponse.  Refused, the worker looks at the record: one
\* that is in progress lost its worker, or has a slow one; any other is
\* settled.
ClaimResponse(w) ==
    /\ wpc[w] = "claim"
    /\ LET stored == db[Response(w)] IN
       \/ /\ Lifecycle!Claim(stored, prepare_claim_background(stored))
          /\ Put(Response(w), prepare_claim_background(stored))
          /\ Work(w, "run")
       \/ /\ ~can_claim(stored)
          /\ Work(w, IF is_in_progress_background(stored) THEN "run" ELSE "ack")
          /\ UNCHANGED db
    /\ UNCHANGED <<now, queueVars, gpc, cpc, job, results, faults>>

\* CompleteBackgroundResponse or FailBackgroundResponse; refused, there is
\* nothing left to write.
WriteResult(w) ==
    /\ wpc[w] = "run"
    /\ LET id == Response(w)
           stored == db[id]
       IN \/ /\ Lifecycle!Complete(stored, prepare_complete_background(stored))
             /\ Put(id, prepare_complete_background(stored))
             /\ results' = [results EXCEPT ![id] = @ + 1]
          \/ /\ Lifecycle!Fail(stored, prepare_fail_background(stored))
             /\ Put(id, prepare_fail_background(stored))
             /\ UNCHANGED results
          \/ /\ ~can_complete(stored) /\ ~can_fail(stored)
             /\ UNCHANGED <<db, results>>
    /\ Work(w, "ack")
    /\ UNCHANGED <<now, queueVars, gpc, cpc, job, faults>>

\* AcknowledgeBackgroundJob; a job somebody else has acknowledged is an
\* INVALID_ARGUMENT that the worker ignores.
Acknowledge(w) ==
    /\ wpc[w] = "ack"
    /\ \/ Delivery!Acknowledge(job[w])
       \/ job[w] \notin Delivery!Taken /\ UNCHANGED place
    /\ Work(w, "idle")
    /\ job' = [job EXCEPT ![w] = 0]
    /\ UNCHANGED <<storeVars, vanished, jobOf, gpc, cpc, results, faults>>

\* The worker dies, or an RPC fails for it after Redis ran it.
WorkerLost(w) ==
    /\ Faulty
    /\ wpc[w] # "idle"
    /\ Work(w, "idle")
    /\ job' = [job EXCEPT ![w] = 0]
    /\ UNCHANGED <<storeVars, queueVars, gpc, cpc, results>>

-----------------------------------------------------------------------------
Tick ==
    /\ now < MaxNow
    /\ now' = now + 1
    /\ UNCHANGED <<db, queueVars, gpc, cpc, workerVars, faults>>

Expire(id) ==
    /\ db[id] # Absent
    /\ Forget(id)
    /\ UNCHANGED <<now, gpc, cpc, workerVars, faults>>

Init ==
    /\ now = 0
    /\ db = [id \in Ids |-> Absent]
    /\ Delivery!JInit
    /\ jobOf = [n \in Entries |-> NoJob]
    /\ gpc = [id \in Ids |-> "store"]
    /\ cpc = [id \in Ids |-> "none"]
    /\ wpc = [w \in Workers |-> "idle"]
    /\ job = [w \in Workers |-> 0]
    /\ results = [id \in Ids |-> 0]
    /\ faults = 0

ClaimJobs(w) == \E n \in Entries : ReceiveJob(w, n) \/ ReceiveTrimmed(w, n)

\* What worker w does with the job it has.
Proceed(w) == LoadJob(w) \/ ClaimResponse(w) \/ WriteResult(w) \/ Acknowledge(w)

\* The stream is drained and the clock has stopped.
Finished ==
    /\ now = MaxNow /\ \A w \in Workers : wpc[w] = "idle"
    /\ UNCHANGED vars

Next ==
    \/ \E id \in Ids : \/ EnqueueStore(id) \/ EnqueueXAdd(id) \/ EnqueueFails(id)
                       \/ ClientLoads(id) \/ ClientWrites(id) \/ Poll(id)
    \/ \E w \in Workers : ClaimJobs(w) \/ Proceed(w) \/ WorkerLost(w)
    \/ \E id \in Expiring : Expire(id)
    \/ Tick
    \/ Finished

Spec == Init /\ [][Next]_vars

\* Workers keep claiming and finish what they have, and clients keep polling.
\* Nothing makes a gateway publish the job of a record it has stored.
FairSpec ==
    /\ Spec
    /\ WF_vars(Tick)
    /\ \A id \in Ids : WF_vars(Poll(id))
    /\ \A w \in Workers : WF_vars(ClaimJobs(w)) /\ WF_vars(Proceed(w))

-----------------------------------------------------------------------------
(* Properties                                                              *)

Clock == 0..MaxNow

\* Every variable has its type.
TypeOK ==
    /\ now \in Clock
    /\ \A id \in Ids :
          /\ db[id] = Absent
             \/ /\ db[id].status \in Statuses \ {"none"}
                /\ db[id].enqueued_at \subseteq Clock
          /\ gpc[id] \in {"store", "xadd", "accepted", "refused"}
          /\ cpc[id] \in {"none", "cancel", "tombstone", "del", "done"}
          /\ results[id] \in Nat
    /\ place \in [Entries -> Delivery!Places]
    /\ vanished \subseteq Entries
    /\ jobOf \in [Entries -> Ids \cup {NoJob}]
    /\ wpc \in [Workers -> {"idle", "load", "claim", "run", "ack"}]
    /\ job \in [Workers -> Entries \cup {0}]
    /\ faults \in 0..MaxFaults

\* Work that was accepted or begun can be done again whatever worker is
\* lost: until the response has ended, its record holds the upstream request
\* (store.rs:527-532 keeps it through the claim) and a job of it waits or is
\* in a pending entries list (queue.rs:529-544 acknowledges only jobs
\* without a record), unless the stream was trimmed.
AcceptedWorkIsRecoverable ==
    \A id \in Ids :
        \/ db[id].status = "in_progress"
        \/ db[id].status = "queued" /\ gpc[id] = "accepted"
        => /\ db[id].pending_upstream_request
           /\ \E n \in Entries :
                 /\ jobOf[n] = id
                 /\ \/ place[n] \in {"waiting"} \cup Workers
                    \/ Delivery!Outgrown(n, Delivery!Published)

\* A job that was taken over runs twice, yet only one of the workers gets
\* its result stored (can_complete, store.rs:544-556): a response is
\* completed at most once.
OneResult == \A id \in Ids : results[id] <= 1

\* The stream has trimmed the job of id.
Trimmed(id) ==
    \E n \in Entries : jobOf[n] = id /\ Delivery!Outgrown(n, Delivery!Published)

\* Every enqueued response ends and stays ended, be it that its XADD failed
\* after the record was stored (service.rs:168-177), that its gateway died
\* between the two, or that the worker with the job did: a worker finishes
\* it, or a reader fails it as stale.  Only a response in progress whose job
\* was trimmed may stay as it is.
ResponseEnds ==
    \A id \in Ids :
        gpc[id] # "store"
        ~> [](\/ db[id] = Absent \/ is_terminal_background_status(db[id])
              \/ is_in_progress_background(db[id]) /\ Trimmed(id))
=============================================================================
