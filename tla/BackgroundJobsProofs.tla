------------------------ MODULE BackgroundJobsProofs ------------------------
(***************************************************************************)
(* A response is completed at most once, and until it has ended its work   *)
(* can be done again, for any number of responses, workers, faults and     *)
(* takeovers.                                                              *)
(***************************************************************************)
EXTENDS BackgroundJobs, TLAPS

Open(stored) == stored.status \in {"queued", "in_progress"}

\* A response that has its result is not open any more, and it was enqueued,
\* so no write to come opens it again: an enqueue writes before anybody else
\* does, and clients write only what is over.
ResultInv ==
    /\ results \in [Ids -> {0, 1}]
    /\ gpc \in [Ids -> {"store", "xadd", "accepted", "refused"}]
    /\ cpc \in [Ids -> {"none", "cancel", "tombstone", "del", "done"}]
    /\ DOMAIN db = Ids /\ db = [id \in Ids |-> db[id]]
    /\ \A id \in Ids :
          /\ results[id] = 1 => ~Open(db[id])
          /\ gpc[id] = "store" =>
                results[id] = 0 /\ ~Open(db[id]) /\ cpc[id] = "none"

\* The lifecycle asks what the store's prepare functions ask.
LEMMA LifecycleGuards ==
    ASSUME NEW before, NEW after
    PROVE  /\ Lifecycle!Complete(before, after) => can_complete(before)
           /\ Lifecycle!Claim(before, after) => can_claim(before)
BY DEF Lifecycle!Complete, Lifecycle!can_complete, can_complete,
       Lifecycle!Claim, Lifecycle!can_claim, can_claim,
       Lifecycle!is_terminal_background_status, is_terminal_background_status,
       Lifecycle!is_deleted_tombstone, is_deleted_tombstone,
       Lifecycle!is_in_progress_background, is_in_progress_background,
       Lifecycle!is_claimable_background, is_claimable_background

\* The records that transitions and clients write are not open.
LEMMA EndedIsNotOpen ==
    ASSUME NEW stored, NEW status \in {"completed", "failed", "cancelled", "deleted"}
    PROVE  ~Open(Ended(stored, status))
BY DEF Open, Ended

LEMMA CancelledIsNotOpen == ~Open(Cancelled(Queued(0)))
BY DEF Open, Cancelled, Queued

LEMMA AbsentIsNotOpen == ~Open(Absent)
BY DEF Open, Absent

\* The first write of an enqueue opens the record, and nothing else did.
LEMMA EnqueueKeeps ==
    ASSUME ResultInv, NEW id \in Ids,
           EnqueueStore(id) \/ EnqueueXAdd(id) \/ EnqueueFails(id)
    PROVE  ResultInv'
<1>1. results' = results /\ cpc' = cpc
  BY DEF EnqueueStore, EnqueueXAdd, EnqueueFails, workerVars
<1>2. /\ gpc' \in [Ids -> {"store", "xadd", "accepted", "refused"}]
      /\ gpc'[id] # "store"
      /\ \A i \in Ids \ {id} : gpc'[i] = gpc[i]
  BY DEF ResultInv, EnqueueStore, EnqueueXAdd, EnqueueFails
<1>3. \/ db' = db
      \/ gpc[id] = "store" /\ \E rec : db' = [db EXCEPT ![id] = rec]
  BY DEF EnqueueStore, EnqueueXAdd, EnqueueFails, Put, storeVars
<1> QED BY <1>1, <1>2, <1>3 DEF ResultInv

\* A write that leaves a record which is not open.
LEMMA ClosingWriteKeeps ==
    ASSUME ResultInv, NEW id, NEW rec, ~Open(rec),
           db' = [db EXCEPT ![id] = rec],
           UNCHANGED <<results, gpc, cpc>>
    PROVE  ResultInv'
BY DEF ResultInv

\* A transition of a record that was open.
LEMMA TransitionKeeps ==
    ASSUME ResultInv, NEW id, NEW rec, Open(db[id]),
           db' = [db EXCEPT ![id] = rec],
           UNCHANGED <<results, gpc, cpc>>
    PROVE  ResultInv'
BY DEF ResultInv

LEMMA ClientKeeps ==
    ASSUME ResultInv, NEW id \in Ids, ClientLoads(id) \/ ClientWrites(id) \/ Poll(id)
    PROVE  ResultInv'
<1>1. CASE ClientLoads(id)
  BY <1>1 DEF ClientLoads, ResultInv, storeVars, workerVars
<1>2. CASE ClientWrites(id)
  <2>1. PICK rec : ~Open(rec) /\ db' = [db EXCEPT ![id] = rec]
    BY <1>2, EndedIsNotOpen, CancelledIsNotOpen, AbsentIsNotOpen
       DEF ClientWrites, Put, Forget, tombstone_deleted_background
  <2>2. /\ UNCHANGED <<results, gpc>> /\ gpc[id] # "store"
        /\ cpc' = [cpc EXCEPT ![id] = "done"]
    BY <1>2 DEF ClientWrites, ResultInv, workerVars
  <2> QED BY <2>1, <2>2 DEF ResultInv
<1>3. CASE Poll(id)
  BY <1>3, EndedIsNotOpen, ClosingWriteKeeps
     DEF Poll, Put, apply_stale_failure, workerVars
<1> QED BY <1>1, <1>2, <1>3

\* Only a record in progress takes a result, so it has none yet.
LEMMA WriteResultKeeps ==
    ASSUME ResultInv, NEW w \in Workers, WriteResult(w)
    PROVE  ResultInv'
<1> DEFINE id == Response(w)
<1>0. gpc' = gpc /\ cpc' = cpc
  BY DEF WriteResult
<1>1. CASE /\ can_complete(db[id])
           /\ db' = [db EXCEPT ![id] = prepare_complete_background(db[id])]
           /\ results' = [results EXCEPT ![id] = @ + 1]
  <2>1. Open(db[id])
    BY <1>1 DEF can_complete, is_in_progress_background, Open
  <2>2. ~Open(prepare_complete_background(db[id]))
    BY EndedIsNotOpen DEF prepare_complete_background
  <2>3. id \in Ids => results[id] = 0 /\ gpc[id] # "store"
    BY <2>1 DEF ResultInv
  <2>4. results' \in [Ids -> {0, 1}]
    <3>1. CASE id \in Ids
      <4>1. results[id] + 1 = 1
        BY <2>3, <3>1
      <4>2. results' = [results EXCEPT ![id] = 1]
        BY <1>1, <4>1, Zenon
      <4> QED BY <4>2 DEF ResultInv
    <3>2. CASE id \notin Ids
      BY <1>1, <3>2 DEF ResultInv
    <3> QED BY <3>1, <3>2
  <2> QED BY <1>0, <1>1, <2>2, <2>3, <2>4 DEF ResultInv
<1>2. CASE /\ db' = [db EXCEPT ![id] = prepare_fail_background(db[id])]
           /\ results' = results
  <2>1. ~Open(prepare_fail_background(db[id]))
    BY EndedIsNotOpen DEF prepare_fail_background
  <2> QED BY <1>0, <1>2, <2>1, ClosingWriteKeeps
<1>3. CASE db' = db /\ results' = results
  BY <1>0, <1>3 DEF ResultInv
<1> QED BY <1>1, <1>2, <1>3, LifecycleGuards DEF WriteResult, Put

LEMMA WorkerKeeps ==
    ASSUME ResultInv, NEW w \in Workers, ClaimJobs(w) \/ Proceed(w) \/ WorkerLost(w)
    PROVE  ResultInv'
<1>1. CASE ClaimJobs(w) \/ LoadJob(w) \/ Acknowledge(w) \/ WorkerLost(w)
  <2>1. UNCHANGED <<db, results, gpc, cpc>>
    BY <1>1 DEF ClaimJobs, ReceiveJob, ReceiveTrimmed, LoadJob, Acknowledge,
                WorkerLost, storeVars, workerVars
  <2> QED BY <2>1 DEF ResultInv
<1>2. CASE ClaimResponse(w)
  <2> DEFINE id == Response(w)
  <2>0. UNCHANGED <<results, gpc, cpc>>
    BY <1>2 DEF ClaimResponse
  <2>1. CASE /\ can_claim(db[id])
             /\ db' = [db EXCEPT ![id] = prepare_claim_background(db[id])]
    <3>1. Open(db[id])
      BY <2>1 DEF can_claim, is_claimable_background, Open
    <3> QED BY <2>0, <2>1, <3>1, TransitionKeeps
  <2>2. CASE db' = db
    BY <2>0, <2>2 DEF ResultInv
  <2> QED BY <1>2, <2>1, <2>2, LifecycleGuards DEF ClaimResponse, Put
<1>3. CASE WriteResult(w)
  BY <1>3, WriteResultKeeps
<1> QED BY <1>1, <1>2, <1>3 DEF Proceed

LEMMA ResultInvKept == ResultInv /\ [Next]_vars => ResultInv'
<1> SUFFICES ASSUME ResultInv, [Next]_vars PROVE ResultInv'
  OBVIOUS
<1>1. ASSUME NEW id \in Ids, EnqueueStore(id) \/ EnqueueXAdd(id) \/ EnqueueFails(id)
      PROVE  ResultInv'
  BY <1>1, EnqueueKeeps
<1>2. ASSUME NEW id \in Ids, ClientLoads(id) \/ ClientWrites(id) \/ Poll(id)
      PROVE  ResultInv'
  BY <1>2, ClientKeeps
<1>3. ASSUME NEW w \in Workers, ClaimJobs(w) \/ Proceed(w) \/ WorkerLost(w)
      PROVE  ResultInv'
  BY <1>3, WorkerKeeps
<1>4. ASSUME NEW id \in Expiring, Expire(id)
      PROVE  ResultInv'
  BY <1>4, AbsentIsNotOpen, ClosingWriteKeeps DEF Expire, Forget, workerVars
<1>5. CASE Tick \/ Finished \/ UNCHANGED vars
  BY <1>5 DEF ResultInv, Tick, Finished, vars, storeVars, workerVars
<1> QED BY <1>1, <1>2, <1>3, <1>4, <1>5 DEF Next

\* However often a job is handed out again, a response is completed at most
\* once (prepare_complete_background, store.rs:535-565).
THEOREM CompletedAtMostOnce == Spec => []OneResult
<1>1. Init => ResultInv
  BY AbsentIsNotOpen DEF Init, ResultInv
<1>2. ResultInv => OneResult
  BY DEF ResultInv, OneResult
<1> QED BY <1>1, <1>2, ResultInvKept, PTL DEF Spec

-----------------------------------------------------------------------------
(* Accepted work can be done again                                         *)

\* The jobs of a response: published by its enqueue, and never lost while
\* the response is open.
RecoverInv ==
    /\ \A n \in Entries :
          /\ place[n] = "unpublished" <=> jobOf[n] = NoJob
          /\ jobOf[n] \in Ids => gpc[jobOf[n]] \in {"accepted", "refused"}
          /\ jobOf[n] \in Ids /\ Open(db[jobOf[n]]) =>
                \/ place[n] \in {"waiting"} \cup Workers
                \/ Delivery!Outgrown(n, Delivery!Published)
    /\ \A id \in Ids :
          /\ gpc[id] = "accepted" \/ db[id].status = "in_progress" =>
                \E n \in Entries : jobOf[n] = id
          /\ Open(db[id]) => db[id].pending_upstream_request
    /\ \A w \in Workers :
          /\ wpc[w] # "idle" => job[w] \in Entries /\ jobOf[job[w]] \in Ids
          /\ wpc[w] = "ack" => ~Open(db[Response(w)])

\* What db holds under an id.
Storable(rec) ==
    \/ rec = Absent
    \/ rec.status \in Statuses \ {"none"} /\ rec.enqueued_at \subseteq Clock

JobsInv == TypeOK /\ ResultInv /\ RecoverInv

LEMMA StorableRecords ==
    /\ \A rec : Storable(rec) => rec.enqueued_at \subseteq Clock
    /\ \A rec, status :
          Storable(rec) /\ status \in {"completed", "failed", "cancelled", "deleted"}
          => Storable(Ended(rec, status))
    /\ \A rec : Storable(rec) => Storable(prepare_claim_background(rec))
    /\ \A t \in Clock : Storable(Queued(t)) /\ Queued(t).enqueued_at \subseteq Clock
    /\ \A t \in Clock : Storable(Cancelled(Queued(t)))
    /\ 0 \in Clock
    /\ Storable(Absent)
<1>1. \A rec : Storable(rec) => rec.enqueued_at \subseteq Clock
  BY DEF Storable, Absent
<1>2. \A rec, status :
          Storable(rec) /\ status \in {"completed", "failed", "cancelled", "deleted"}
          => Storable(Ended(rec, status))
  BY <1>1 DEF Storable, Ended, Statuses
<1>3. \A rec : Storable(rec) => Storable(prepare_claim_background(rec))
  BY <1>1 DEF Storable, prepare_claim_background, Statuses
<1>4. \A t \in Clock : Storable(Queued(t)) /\ Queued(t).enqueued_at \subseteq Clock
  BY DEF Storable, Queued, Statuses
<1>5. \A t \in Clock : Storable(Cancelled(Queued(t)))
  BY DEF Storable, Cancelled, Queued, Statuses
<1>6. 0 \in Clock /\ Storable(Absent)
  BY JobsAssumption DEF Clock, Storable
<1> QED
  BY <1>1, <1>2, <1>3, <1>4, <1>5, <1>6

\* The record a step writes, if it writes one.  It opens a response only as
\* its enqueue does, before any job of it, and begins one that has a job.
RecordWrite(id, rec) ==
    /\ db' = [db EXCEPT ![id] = rec] /\ Storable(rec)
    /\ \/ ~Open(rec)
       \/ /\ gpc[id] = "store" /\ rec.status = "queued"
          /\ rec.pending_upstream_request
       \/ /\ Open(db[id]) /\ rec.status = "in_progress"
          /\ rec.pending_upstream_request = db[id].pending_upstream_request
          /\ \E n \in Entries : jobOf[n] = id

RecordEffect == db' = db \/ \E id \in Ids : \E rec : RecordWrite(id, rec)

LEMMA RecordSteps ==
    ASSUME JobsInv, [Next]_vars
    PROVE  RecordEffect
<1>0. /\ now \in Clock
      /\ \A id \in Ids : Storable(db[id])
      /\ \A w \in Workers : wpc[w] # "idle" => /\ job[w] \in Entries
                                               /\ Response(w) \in Ids
  BY DEF JobsInv, TypeOK, RecoverInv, Storable, Response
<1>1. ASSUME NEW id \in Ids, EnqueueStore(id) \/ EnqueueXAdd(id) \/ EnqueueFails(id)
      PROVE  RecordEffect
  <2>1. db' = db \/ (gpc[id] = "store" /\ db' = [db EXCEPT ![id] = Queued(now)])
    BY <1>1 DEF EnqueueStore, EnqueueXAdd, EnqueueFails, Put, storeVars
  <2>2. /\ Storable(Queued(now)) /\ Queued(now).status = "queued"
        /\ Queued(now).pending_upstream_request
    BY <1>0, StorableRecords DEF Queued
  <2> QED
    BY <2>1, <2>2 DEF RecordEffect, RecordWrite
<1>2. ASSUME NEW id \in Ids, ClientLoads(id) \/ ClientWrites(id) \/ Poll(id)
      PROVE  RecordEffect
  <2>1. CASE ClientLoads(id)
    BY <2>1 DEF ClientLoads, storeVars, RecordEffect, RecordWrite
  <2>2. CASE ClientWrites(id)
    <3>1. \E rec \in {Cancelled(Queued(0)), tombstone_deleted_background(Queued(0)),
                      Absent} : db' = [db EXCEPT ![id] = rec]
      BY <2>2 DEF ClientWrites, Put, Forget
    <3>2. \A rec \in {Cancelled(Queued(0)), tombstone_deleted_background(Queued(0)),
                      Absent} : Storable(rec) /\ ~Open(rec)
      BY StorableRecords, EndedIsNotOpen, CancelledIsNotOpen, AbsentIsNotOpen
      DEF tombstone_deleted_background
    <3> QED
      BY <3>1, <3>2 DEF RecordEffect, RecordWrite
  <2>3. CASE Poll(id)
    <3>1. db' = [db EXCEPT ![id] = apply_stale_failure(db[id])]
      BY <2>3 DEF Poll, Put
    <3>2. Storable(apply_stale_failure(db[id])) /\ ~Open(apply_stale_failure(db[id]))
      BY <1>0, StorableRecords, EndedIsNotOpen DEF apply_stale_failure
    <3> QED
      BY <3>1, <3>2 DEF RecordEffect, RecordWrite
  <2> QED
    BY <1>2, <2>1, <2>2, <2>3
<1>3. ASSUME NEW w \in Workers, ClaimJobs(w) \/ Proceed(w) \/ WorkerLost(w)
      PROVE  RecordEffect
  <2>1. CASE ClaimJobs(w) \/ LoadJob(w) \/ Acknowledge(w) \/ WorkerLost(w)
    BY <2>1 DEF ClaimJobs, ReceiveJob, ReceiveTrimmed, LoadJob, Acknowledge,
                WorkerLost, storeVars, RecordEffect, RecordWrite
  <2> DEFINE id == Response(w)
  <2>2. CASE ClaimResponse(w)
    <3>0. id \in Ids /\ \E n \in Entries : jobOf[n] = id
      BY <1>0, <2>2 DEF ClaimResponse, Response
    <3>1. CASE db' = db
      BY <3>1 DEF RecordEffect, RecordWrite
    <3>2. CASE /\ can_claim(db[id])
               /\ db' = [db EXCEPT ![id] = prepare_claim_background(db[id])]
      <4>1. Open(db[id])
        BY <3>2 DEF can_claim, is_claimable_background, Open
      <4>2. /\ Storable(prepare_claim_background(db[id]))
            /\ prepare_claim_background(db[id]).status = "in_progress"
            /\ prepare_claim_background(db[id]).pending_upstream_request
                   = db[id].pending_upstream_request
        BY <1>0, <3>0, StorableRecords DEF prepare_claim_background
      <4> QED
        BY <3>0, <3>2, <4>1, <4>2 DEF RecordEffect, RecordWrite
    <3> QED
      BY <2>2, <3>1, <3>2, LifecycleGuards DEF ClaimResponse, Put
  <2>3. CASE WriteResult(w)
    <3>0. id \in Ids
      BY <1>0, <2>3 DEF WriteResult
    <3>1. \/ db' = db
          \/ \E rec \in {prepare_complete_background(db[id]),
                         prepare_fail_background(db[id])} :
                db' = [db EXCEPT ![id] = rec]
      BY <2>3 DEF WriteResult, Put
    <3>2. \A rec \in {prepare_complete_background(db[id]),
                      prepare_fail_background(db[id])} : Storable(rec) /\ ~Open(rec)
      BY <1>0, <3>0, StorableRecords, EndedIsNotOpen
      DEF prepare_complete_background, prepare_fail_background
    <3> QED
      BY <3>0, <3>1, <3>2 DEF RecordEffect, RecordWrite
  <2> QED
    BY <1>3, <2>1, <2>2, <2>3 DEF Proceed
<1>4. ASSUME NEW id \in Expiring, Expire(id)
      PROVE  RecordEffect
  BY <1>4, StorableRecords, AbsentIsNotOpen, JobsAssumption
  DEF Expire, Forget, RecordEffect, RecordWrite
<1>5. CASE Tick \/ Finished \/ UNCHANGED vars
  BY <1>5 DEF Tick, Finished, vars, storeVars, RecordEffect, RecordWrite
<1> QED
  BY <1>1, <1>2, <1>3, <1>4, <1>5 DEF Next

\* A response with a job is never opened again, an open one keeps its
\* request, and one in progress has a job.
LEMMA RecordFacts ==
    ASSUME JobsInv, RecordEffect, NEW id \in Ids
    PROVE  /\ \A n \in Entries : jobOf[n] = id /\ Open(db'[id]) => Open(db[id])
           /\ Open(db'[id]) => db'[id].pending_upstream_request
           /\ db'[id].status = "in_progress" => \E n \in Entries : jobOf[n] = id
           /\ Storable(db'[id])
<1>0. /\ \A n \in Entries : jobOf[n] = id => gpc[id] # "store"
      /\ Open(db[id]) => db[id].pending_upstream_request
      /\ db[id].status = "in_progress" => \E n \in Entries : jobOf[n] = id
      /\ Storable(db[id])
  BY DEF JobsInv, RecoverInv, TypeOK, Storable
<1>1. CASE db'[id] = db[id]
  BY <1>0, <1>1
<1>2. CASE db'[id] # db[id]
  <2>0. PICK i \in Ids : \E rec : RecordWrite(i, rec)
    BY <1>2 DEF RecordEffect, RecordWrite
  <2>1. PICK rec : RecordWrite(i, rec)
    BY <2>0
  <2> USE DEF RecordWrite
  <2>2. i = id /\ db'[id] = rec
    BY <1>2, <2>1 DEF JobsInv, ResultInv
  <2>3. CASE ~Open(rec)
    BY <2>1, <2>2, <2>3 DEF Open
  <2>4. CASE gpc[i] = "store" /\ rec.status = "queued" /\ rec.pending_upstream_request
    BY <1>0, <2>1, <2>2, <2>4
  <2>5. CASE /\ Open(db[i]) /\ rec.status = "in_progress"
             /\ rec.pending_upstream_request = db[i].pending_upstream_request
             /\ \E n \in Entries : jobOf[n] = i
    BY <1>0, <2>1, <2>2, <2>5
  <2> QED
    BY <2>1, <2>3, <2>4, <2>5
<1> QED
  BY <1>1, <1>2

\* The steps of an enqueue only go forward.
EnqueueEffect ==
    \A id \in Ids :
        \/ gpc'[id] = gpc[id]
        \/ gpc[id] \in {"store", "xadd"} /\ gpc'[id] \in {"xadd", "refused"}

\* What a worker has in hand is a job.
HandsInv ==
    \A w \in Workers :
        /\ wpc[w] # "idle" => job[w] \in Entries /\ jobOf[job[w]] \in Ids
        /\ wpc[w] = "ack" => ~Open(db[Response(w)])

\* A step that publishes nothing, moves only jobs of ended responses to
\* an end, and leaves every worker with a job.
LEMMA StepRecovers ==
    ASSUME JobsInv, RecordEffect, EnqueueEffect, jobOf' = jobOf, HandsInv',
           place' \in [Entries -> Delivery!Places],
           \A n \in Entries :
              \/ place'[n] = place[n]
              \/ /\ place[n] # "unpublished" /\ place'[n] # "unpublished"
                 /\ \/ place'[n] \in Workers
                    \/ ~Open(db[jobOf[n]])
                    \/ Delivery!Outgrown(n, Delivery!Published)
    PROVE  RecoverInv'
<1>1. Delivery!Published \subseteq Delivery!Published'
  BY DEF Delivery!Published
<1>2. \A n \in Entries : Delivery!Outgrown(n, Delivery!Published)
                         => Delivery!Outgrown(n, Delivery!Published)'
  BY <1>1 DEF Delivery!Outgrown
<1>3. ASSUME NEW n \in Entries
      PROVE  /\ place'[n] = "unpublished" <=> jobOf'[n] = NoJob
             /\ jobOf'[n] \in Ids => gpc'[jobOf'[n]] \in {"accepted", "refused"}
             /\ jobOf'[n] \in Ids /\ Open(db'[jobOf'[n]]) =>
                   \/ place'[n] \in {"waiting"} \cup Workers
                   \/ Delivery!Outgrown(n, Delivery!Published)'
  <2>1. /\ place[n] = "unpublished" <=> jobOf[n] = NoJob
        /\ jobOf[n] \in Ids => gpc[jobOf[n]] \in {"accepted", "refused"}
        /\ jobOf[n] \in Ids /\ Open(db[jobOf[n]]) =>
              \/ place[n] \in {"waiting"} \cup Workers
              \/ Delivery!Outgrown(n, Delivery!Published)
    BY DEF JobsInv, RecoverInv
  <2>2. jobOf[n] \in Ids /\ Open(db'[jobOf[n]]) => Open(db[jobOf[n]])
    BY RecordFacts
  <2>3. jobOf[n] \in Ids => gpc'[jobOf[n]] \in {"accepted", "refused"}
    BY <2>1 DEF EnqueueEffect
  <2> QED
    BY <1>2, <2>1, <2>2, <2>3
<1>4. ASSUME NEW id \in Ids
      PROVE  /\ gpc'[id] = "accepted" \/ db'[id].status = "in_progress" =>
                   \E n \in Entries : jobOf'[n] = id
             /\ Open(db'[id]) => db'[id].pending_upstream_request
  <2>1. gpc'[id] = "accepted" => gpc[id] = "accepted"
    BY DEF EnqueueEffect
  <2> QED
    BY <2>1, RecordFacts DEF JobsInv, RecoverInv
<1> QED
  BY <1>3, <1>4 DEF RecoverInv, HandsInv

\* A published job waits, and only jobs the stream has outgrown leave it.
LEMMA PublishRecovers ==
    ASSUME JobsInv, NEW id \in Ids, Publish(id), gpc[id] = "xadd",
           gpc' \in {[gpc EXCEPT ![id] = "accepted"], [gpc EXCEPT ![id] = "refused"]},
           UNCHANGED <<db, wpc, job>>
    PROVE  RecoverInv' /\ place' \in [Entries -> Delivery!Places]
           /\ jobOf' \in [Entries -> Ids \cup {NoJob}]
<1>0. PICK n \in Entries : /\ Delivery!Publish(n)
                           /\ jobOf' = [jobOf EXCEPT ![n] = id]
  BY DEF Publish
<1>1. /\ place[n] = "unpublished" /\ jobOf[n] = NoJob /\ jobOf'[n] = id
      /\ \A m \in Entries : m # n => jobOf'[m] = jobOf[m]
      /\ jobOf' \in [Entries -> Ids \cup {NoJob}]
  <2>1. place[n] = "unpublished"
    BY <1>0 DEF Delivery!Publish, Delivery!Published
  <2>2. jobOf[n] = NoJob
    BY <2>1 DEF JobsInv, RecoverInv
  <2>3. jobOf \in [Entries -> Ids \cup {NoJob}]
    BY DEF JobsInv, TypeOK
  <2> QED
    BY <1>0, <2>1, <2>2, <2>3
<1>2. PICK S \in SUBSET Delivery!WaitingJobs :
          /\ \A m \in S : Delivery!Outgrown(m, Delivery!Published \cup {n})
          /\ place' = [m \in Entries |-> IF m = n THEN "waiting"
                                         ELSE IF m \in S THEN "gone" ELSE place[m]]
  BY <1>0 DEF Delivery!Publish
<1>3. place' \in [Entries -> Delivery!Places]
  BY <1>2 DEF JobsInv, TypeOK, Delivery!Places
<1>4. /\ \A m \in Entries : place'[m] = "unpublished" <=> m # n /\ place[m] = "unpublished"
      /\ Delivery!Published' = Delivery!Published \cup {n}
  BY <1>2 DEF Delivery!Published, Delivery!WaitingJobs
<1>5. \A m \in Entries :
          /\ Delivery!Outgrown(m, Delivery!Published)
             => Delivery!Outgrown(m, Delivery!Published)'
          /\ m \in S => Delivery!Outgrown(m, Delivery!Published)'
  BY <1>2, <1>4 DEF Delivery!Outgrown
<1>6. ASSUME NEW m \in Entries
      PROVE  /\ place'[m] = "unpublished" <=> jobOf'[m] = NoJob
             /\ jobOf'[m] \in Ids => gpc'[jobOf'[m]] \in {"accepted", "refused"}
             /\ jobOf'[m] \in Ids /\ Open(db'[jobOf'[m]]) =>
                   \/ place'[m] \in {"waiting"} \cup Workers
                   \/ Delivery!Outgrown(m, Delivery!Published)'
  <2>1. CASE m = n
    BY <1>1, <1>2, <2>1, JobNamesAssumption DEF JobsInv, ResultInv
  <2>2. CASE m # n
    <3>1. /\ place[m] = "unpublished" <=> jobOf[m] = NoJob
          /\ jobOf[m] \in Ids => gpc[jobOf[m]] \in {"accepted", "refused"}
          /\ jobOf[m] \in Ids /\ Open(db[jobOf[m]]) =>
                \/ place[m] \in {"waiting"} \cup Workers
                \/ Delivery!Outgrown(m, Delivery!Published)
      BY DEF JobsInv, RecoverInv
    <3>2. jobOf'[m] \in Ids => gpc'[jobOf'[m]] \in {"accepted", "refused"}
      BY <1>1, <2>2, <3>1 DEF JobsInv, ResultInv
    <3> QED
      BY <1>1, <1>2, <1>4, <1>5, <2>2, <3>1, <3>2
  <2> QED
    BY <2>1, <2>2
<1>7. ASSUME NEW i \in Ids
      PROVE  /\ gpc'[i] = "accepted" \/ db'[i].status = "in_progress" =>
                   \E m \in Entries : jobOf'[m] = i
             /\ Open(db'[i]) => db'[i].pending_upstream_request
  <2>1. CASE i = id
    BY <1>1, <2>1 DEF JobsInv, RecoverInv
  <2>2. CASE i # id
    <3>1. gpc'[i] = gpc[i]
      BY <2>2 DEF JobsInv, ResultInv
    <3>2. \A m \in Entries : jobOf[m] = i => jobOf'[m] = i
      BY <1>1, <2>2, JobNamesAssumption
    <3> QED
      BY <3>1, <3>2 DEF JobsInv, RecoverInv
  <2> QED
    BY <2>1, <2>2
<1>8. HandsInv'
  <2> SUFFICES ASSUME NEW w \in Workers, wpc[w] # "idle"
               PROVE  /\ job[w] \in Entries /\ jobOf'[job[w]] \in Ids
                      /\ wpc[w] = "ack" => ~Open(db[Response(w)'])
    BY DEF HandsInv
  <2>1. job[w] \in Entries /\ jobOf[job[w]] \in Ids /\ job[w] # n
    BY <1>1, JobNamesAssumption DEF JobsInv, RecoverInv
  <2>2. Response(w)' = Response(w)
    BY <1>1, <2>1 DEF Response
  <2> QED
    BY <1>1, <2>1, <2>2 DEF JobsInv, RecoverInv
<1> QED
  BY <1>1, <1>3, <1>6, <1>7, <1>8 DEF RecoverInv, HandsInv

\* Another worker's step leaves what this one has in hand: a response that
\* has ended stays ended.
LEMMA OtherHands ==
    ASSUME JobsInv, RecordEffect, jobOf' = jobOf, NEW v \in Workers,
           wpc'[v] = wpc[v], job'[v] = job[v]
    PROVE  /\ wpc'[v] # "idle" => job'[v] \in Entries /\ jobOf'[job'[v]] \in Ids
           /\ wpc'[v] = "ack" => ~Open(db'[Response(v)'])
<1>1. /\ wpc[v] # "idle" => job[v] \in Entries /\ jobOf[job[v]] \in Ids
      /\ wpc[v] = "ack" => ~Open(db[Response(v)])
  BY DEF JobsInv, RecoverInv
<1>2. Response(v)' = jobOf[job[v]] /\ Response(v) = jobOf[job[v]]
  BY DEF Response
<1> QED
  BY <1>1, <1>2, RecordFacts

\* The jobs worker w moves and the one it has in hand, in each of its steps.
LEMMA WorkerRecovers ==
    ASSUME JobsInv, NEW w \in Workers, ClaimJobs(w) \/ Proceed(w) \/ WorkerLost(w),
           RecordEffect
    PROVE  /\ RecoverInv'
           /\ place' \in [Entries -> Delivery!Places]
           /\ wpc' \in [Workers -> {"idle", "load", "claim", "run", "ack"}]
           /\ job' \in [Workers -> Entries \cup {0}]
<1>0. /\ place \in [Entries -> Delivery!Places]
      /\ wpc \in [Workers -> {"idle", "load", "claim", "run", "ack"}]
      /\ job \in [Workers -> Entries \cup {0}]
  BY DEF JobsInv, TypeOK
<1>1. jobOf' = jobOf /\ EnqueueEffect
  BY DEF ClaimJobs, ReceiveJob, ReceiveTrimmed, Proceed, LoadJob, ClaimResponse,
         WriteResult, Acknowledge, WorkerLost, queueVars, EnqueueEffect
<1>2. /\ wpc[w] # "idle" => job[w] \in Entries /\ jobOf[job[w]] \in Ids
      /\ wpc[w] = "ack" => ~Open(db[Response(w)])
      /\ \A n \in Entries : place[n] # "unpublished" => jobOf[n] \in Ids
  BY DEF JobsInv, RecoverInv, TypeOK
<1>3. \A id \in Ids : Open(db[id]) => db[id].pending_upstream_request
  BY DEF JobsInv, RecoverInv
\* One job moves, if any.
<1> DEFINE Moves ==
        \/ place' = place
        \/ \E n \in Entries, p \in Workers \cup {"done", "gone"} :
              /\ place' = [m \in Entries |-> IF m \in {n} THEN p ELSE place[m]]
              /\ place[n] # "unpublished"
              /\ \/ p \in Workers
                 \/ ~Open(db[jobOf[n]])
                 \/ Delivery!Outgrown(n, Delivery!Published)
           Hands ==
        /\ wpc' \in [Workers -> {"idle", "load", "claim", "run", "ack"}]
        /\ job' \in [Workers -> Entries \cup {0}]
        /\ \A v \in Workers : v # w => wpc'[v] = wpc[v] /\ job'[v] = job[v]
        /\ wpc'[w] # "idle" => job'[w] \in Entries /\ jobOf[job'[w]] \in Ids
        /\ wpc'[w] = "ack" => ~Open(db'[jobOf[job'[w]]])
<1>4. CASE Moves /\ Hands
  <2>1. HandsInv'
    <3> SUFFICES ASSUME NEW v \in Workers
                 PROVE  /\ wpc'[v] # "idle" => job'[v] \in Entries /\ jobOf'[job'[v]] \in Ids
                        /\ wpc'[v] = "ack" => ~Open(db'[Response(v)'])
      BY DEF HandsInv
    <3>1. CASE v = w
      BY <1>1, <1>4, <3>1 DEF Response
    <3>2. CASE v # w
      BY <1>1, <1>4, <3>2, OtherHands
    <3> QED
      BY <3>1, <3>2
  <2>2. place' \in [Entries -> Delivery!Places]
    BY <1>0, <1>4 DEF Delivery!Places
  <2>3. \A n \in Entries :
              \/ place'[n] = place[n]
              \/ /\ place[n] # "unpublished" /\ place'[n] # "unpublished"
                 /\ \/ place'[n] \in Workers
                    \/ ~Open(db[jobOf[n]])
                    \/ Delivery!Outgrown(n, Delivery!Published)
    BY <1>0, <1>4, JobNamesAssumption
  <2>4. RecoverInv'
    BY <1>1, <2>1, <2>2, <2>3, StepRecovers
  <2> QED
    BY <1>4, <2>2, <2>4
<1>5. ASSUME NEW n \in Entries, ReceiveJob(w, n) PROVE Moves /\ Hands
  <2>1. place[n] \in {"waiting"} \cup Workers
    BY <1>5 DEF ReceiveJob
  <2>2. place[n] # "unpublished" /\ jobOf[n] \in Ids
    BY <1>2, <2>1, JobNamesAssumption
  <2>3. place' = [m \in Entries |-> IF m \in {n} THEN w ELSE place[m]]
    BY <1>5 DEF ReceiveJob, Delivery!Move
  <2>4. Moves
    BY <2>2, <2>3
  <2>5. Hands
    BY <1>0, <1>5, <2>2 DEF ReceiveJob, Work
  <2> QED
    BY <2>4, <2>5
<1>6. ASSUME NEW n \in Entries, ReceiveTrimmed(w, n) PROVE Moves /\ Hands
  <2>1. place[n] \in Workers /\ Delivery!Outgrown(n, Delivery!Published)
        /\ place' = [m \in Entries |-> IF m \in {n} THEN "gone" ELSE place[m]]
    BY <1>6 DEF ReceiveTrimmed, Delivery!Taken, Delivery!Move
  <2>2. Moves
    BY <2>1, JobNamesAssumption
  <2>3. Hands
    BY <1>0, <1>6 DEF ReceiveTrimmed, workerVars
  <2> QED
    BY <2>2, <2>3
<1>7. ASSUME LoadJob(w) PROVE Moves /\ Hands
  <2>0. job[w] \in Entries /\ jobOf[job[w]] \in Ids /\ db' = db
    BY <1>2, <1>7 DEF LoadJob, storeVars
  <2>1. CASE db[Response(w)] # Absent
    BY <1>0, <1>7, <2>0, <2>1 DEF LoadJob, Work
  <2>2. CASE db[Response(w)] = Absent
    <3>1. Hands
      BY <1>0, <1>7, <2>2 DEF LoadJob, Work
    <3>2. CASE place' = place
      BY <3>1, <3>2
    <3>3. CASE Delivery!GiveUp(job[w])
      <4>1. place[job[w]] \in Workers
            /\ place' = [m \in Entries |-> IF m \in {job[w]} THEN "gone" ELSE place[m]]
        BY <3>3 DEF Delivery!GiveUp, Delivery!Taken, Delivery!Move
      <4>2. ~Open(db[jobOf[job[w]]])
        BY <2>2, AbsentIsNotOpen DEF Response
      <4> QED
        BY <2>0, <3>1, <4>1, <4>2, JobNamesAssumption
    <3> QED
      BY <1>7, <2>2, <3>2, <3>3 DEF LoadJob
  <2> QED
    BY <2>1, <2>2
<1>8. ASSUME Acknowledge(w) PROVE Moves /\ Hands
  <2>0. job[w] \in Entries /\ ~Open(db[jobOf[job[w]]])
    BY <1>2, <1>8 DEF Acknowledge, Response
  <2>1. Hands
    BY <1>0, <1>8 DEF Acknowledge, Work
  <2>2. CASE place' = place
    BY <2>1, <2>2
  <2>3. CASE Delivery!Acknowledge(job[w])
    <3>1. place[job[w]] \in Workers
          /\ place' = [m \in Entries |-> IF m \in {job[w]} THEN "done" ELSE place[m]]
      BY <2>3 DEF Delivery!Acknowledge, Delivery!Taken, Delivery!Move
    <3> QED
      BY <2>0, <2>1, <3>1, JobNamesAssumption
  <2> QED
    BY <1>8, <2>2, <2>3 DEF Acknowledge
<1>9. ASSUME ClaimResponse(w) PROVE Moves /\ Hands
  <2> DEFINE id == jobOf[job[w]]
  <2>0. /\ job[w] \in Entries /\ id \in Ids /\ Response(w) = id
        /\ place' = place /\ job' = job
    BY <1>2, <1>9 DEF ClaimResponse, Response, queueVars
  <2>1. CASE Work(w, "run")
    BY <1>0, <2>0, <2>1 DEF Work
  <2>2. CASE /\ ~can_claim(db[id]) /\ ~is_in_progress_background(db[id])
             /\ Work(w, "ack") /\ db' = db
    <3>1. ~Open(db[id])
      BY <1>3, <2>0, <2>2 DEF can_claim, is_in_progress_background,
         is_claimable_background, is_terminal_background_status,
         is_deleted_tombstone, Open
    <3> QED
      BY <1>0, <2>0, <2>2, <3>1 DEF Work
  <2> QED
    BY <1>9, <2>0, <2>1, <2>2 DEF ClaimResponse
<1>10. ASSUME WriteResult(w) PROVE Moves /\ Hands
  <2> DEFINE id == jobOf[job[w]]
  <2>0. /\ job[w] \in Entries /\ id \in Ids /\ Response(w) = id
        /\ place' = place /\ job' = job /\ Work(w, "ack")
    BY <1>2, <1>10 DEF WriteResult, Response, queueVars
  <2>1. ~Open(db'[id])
    <3>0. DOMAIN db = Ids
      BY DEF JobsInv, ResultInv
    <3>1. CASE \E rec \in {prepare_complete_background(db[id]),
                           prepare_fail_background(db[id])} :
                  db' = [db EXCEPT ![id] = rec]
      <4>1. \A rec \in {prepare_complete_background(db[id]),
                        prepare_fail_background(db[id])} : ~Open(rec)
        BY EndedIsNotOpen DEF prepare_complete_background, prepare_fail_background
      <4> QED
        BY <2>0, <3>0, <3>1, <4>1 DEF JobsInv, ResultInv
    <3>2. CASE ~can_complete(db[id]) /\ db' = db /\ ~can_fail(db[id])
      BY <1>3, <2>0, <3>2 DEF can_complete, can_fail, is_in_progress_background,
         is_claimable_background, is_terminal_background_status,
         is_deleted_tombstone, Open
    <3> QED
      BY <1>10, <2>0, <3>1, <3>2 DEF WriteResult, Put
  <2> QED
    BY <1>0, <2>0, <2>1 DEF Work
<1>11. ASSUME WorkerLost(w) PROVE Moves /\ Hands
  BY <1>0, <1>11 DEF WorkerLost, Work, queueVars
<1> HIDE DEF Moves, Hands
<1> QED
  BY <1>4, <1>5, <1>6, <1>7, <1>8, <1>9, <1>10, <1>11 DEF ClaimJobs, Proceed

\* The types of what no worker moves.
LEMMA TypesKept ==
    ASSUME JobsInv, [Next]_vars, ResultInv', RecordEffect,
           place' \in [Entries -> Delivery!Places],
           jobOf' \in [Entries -> Ids \cup {NoJob}],
           wpc' \in [Workers -> {"idle", "load", "claim", "run", "ack"}],
           job' \in [Workers -> Entries \cup {0}]
    PROVE  TypeOK'
<1>1. now' \in Clock
  <2>1. now' = now \/ (now < MaxNow /\ now' = now + 1)
    BY DEF Next, EnqueueStore, EnqueueXAdd, EnqueueFails, ClientLoads, ClientWrites,
           Poll, ClaimJobs, ReceiveJob, ReceiveTrimmed, Proceed, LoadJob,
           ClaimResponse, WriteResult, Acknowledge, WorkerLost, Expire, Tick,
           Finished, vars, storeVars
  <2> QED
    BY <2>1, JobsAssumption DEF JobsInv, TypeOK, Clock
<1>2. faults' \in 0..MaxFaults
  <2>1. faults' = faults \/ (faults < MaxFaults /\ faults' = faults + 1)
    BY DEF Next, EnqueueStore, EnqueueXAdd, EnqueueFails, ClientLoads, ClientWrites,
           Poll, ClaimJobs, ReceiveJob, ReceiveTrimmed, Proceed, LoadJob,
           ClaimResponse, WriteResult, Acknowledge, WorkerLost, Expire, Tick,
           Finished, vars, Faulty
  <2> QED
    BY <2>1, JobsAssumption DEF JobsInv, TypeOK
<1>3. vanished' \subseteq Entries
  <2>1. vanished \subseteq Entries
    BY DEF JobsInv, TypeOK
  <2>2. ASSUME NEW id \in Ids, Forget(id) \/ Publish(id) PROVE vanished' \subseteq Entries
    BY <2>1, <2>2 DEF Forget, Publish
  <2>a. ASSUME NEW id \in Ids,
               EnqueueStore(id) \/ EnqueueXAdd(id) \/ EnqueueFails(id)
               \/ ClientLoads(id) \/ ClientWrites(id) \/ Poll(id)
        PROVE  vanished' = vanished \/ Forget(id) \/ Publish(id)
    BY <2>a DEF EnqueueStore, EnqueueXAdd, EnqueueFails, ClientLoads, ClientWrites, Poll,
                queueVars
  <2>b. ASSUME NEW w \in Workers, ClaimJobs(w) \/ Proceed(w) \/ WorkerLost(w)
        PROVE  vanished' = vanished
    BY <2>b DEF ClaimJobs, ReceiveJob, ReceiveTrimmed, Proceed, LoadJob, ClaimResponse,
                WriteResult, Acknowledge, WorkerLost, queueVars
  <2>c. Tick \/ Finished \/ UNCHANGED vars => vanished' = vanished
    BY DEF Tick, Finished, vars, queueVars
  <2>3. vanished' = vanished \/ \E id \in Ids : Forget(id) \/ Publish(id)
    BY <2>a, <2>b, <2>c, JobsAssumption DEF Next, Expire
  <2> QED
    BY <2>1, <2>2, <2>3
<1>4. \A id \in Ids : Storable(db'[id])
  BY RecordFacts
<1>5. \A id \in Ids :
          /\ gpc'[id] \in {"store", "xadd", "accepted", "refused"}
          /\ cpc'[id] \in {"none", "cancel", "tombstone", "del", "done"}
          /\ results'[id] \in Nat
  BY DEF ResultInv
<1> QED
  BY <1>1, <1>2, <1>3, <1>4, <1>5 DEF TypeOK, Storable

LEMMA JobsInvKept == JobsInv /\ [Next]_vars => JobsInv'
<1> SUFFICES ASSUME JobsInv, [Next]_vars
             PROVE  JobsInv'
  OBVIOUS
<1>0. /\ ResultInv' /\ RecordEffect
      /\ place \in [Entries -> Delivery!Places]
      /\ jobOf \in [Entries -> Ids \cup {NoJob}]
      /\ wpc \in [Workers -> {"idle", "load", "claim", "run", "ack"}]
      /\ job \in [Workers -> Entries \cup {0}]
  BY ResultInvKept, RecordSteps DEF JobsInv, TypeOK
\* Nothing but records and the steps of enqueues changes.
<1>1. ASSUME UNCHANGED <<place, jobOf, wpc, job>>, EnqueueEffect
      PROVE  JobsInv'
  <2>1. HandsInv'
    BY <1>0, <1>1, OtherHands DEF HandsInv
  <2>2. RecoverInv'
    BY <1>0, <1>1, <2>1, StepRecovers
  <2> QED
    BY <1>0, <1>1, <2>2, TypesKept DEF JobsInv
<1>2. ASSUME NEW id \in Ids, EnqueueStore(id) \/ EnqueueXAdd(id) \/ EnqueueFails(id)
      PROVE  JobsInv'
  <2>1. CASE Publish(id) /\ gpc[id] = "xadd"
    <3>1. /\ UNCHANGED <<db, wpc, job>>
          /\ gpc' \in {[gpc EXCEPT ![id] = "accepted"], [gpc EXCEPT ![id] = "refused"]}
      BY <1>2, <2>1 DEF EnqueueStore, EnqueueXAdd, EnqueueFails, storeVars, workerVars
    <3> QED
      BY <1>0, <2>1, <3>1, PublishRecovers, TypesKept DEF JobsInv
  <2>2. CASE UNCHANGED queueVars /\ ~EnqueueXAdd(id)
    <3>1. /\ UNCHANGED <<place, jobOf, wpc, job>>
          /\ gpc[id] \in {"store", "xadd"}
          /\ gpc' \in {[gpc EXCEPT ![id] = "xadd"], [gpc EXCEPT ![id] = "refused"]}
      BY <1>2, <2>2 DEF EnqueueStore, EnqueueFails, queueVars, workerVars
    <3>2. EnqueueEffect
      BY <3>1 DEF EnqueueEffect, JobsInv, ResultInv
    <3> QED
      BY <1>1, <3>1, <3>2
  <2> QED
    BY <1>2, <2>1, <2>2 DEF EnqueueStore, EnqueueXAdd, EnqueueFails
<1>3. ASSUME NEW w \in Workers, ClaimJobs(w) \/ Proceed(w) \/ WorkerLost(w)
      PROVE  JobsInv'
  <2>1. jobOf' = jobOf
    BY <1>3 DEF ClaimJobs, ReceiveJob, ReceiveTrimmed, Proceed, LoadJob,
         ClaimResponse, WriteResult, Acknowledge, WorkerLost, queueVars
  <2> QED
    BY <1>0, <1>3, <2>1, WorkerRecovers, TypesKept DEF JobsInv
<1>4. ASSUME NEW id \in Ids, ClientLoads(id) \/ ClientWrites(id) \/ Poll(id)
      PROVE  JobsInv'
  BY <1>1, <1>4 DEF ClientLoads, ClientWrites, Forget, Poll, queueVars, workerVars,
     EnqueueEffect
<1>5. ASSUME NEW id \in Expiring, Expire(id)
      PROVE  JobsInv'
  BY <1>1, <1>5 DEF Expire, Forget, workerVars, EnqueueEffect
<1>6. CASE Tick \/ Finished \/ UNCHANGED vars
  BY <1>1, <1>6 DEF Tick, Finished, vars, queueVars, workerVars, EnqueueEffect
<1> QED
  BY <1>2, <1>3, <1>4, <1>5, <1>6 DEF Next

LEMMA JobsInvInit == Init => JobsInv
<1> SUFFICES ASSUME Init
             PROVE  JobsInv
  OBVIOUS
<1>1. ResultInv
  BY AbsentIsNotOpen DEF Init, ResultInv
<1>2. TypeOK
  BY JobsAssumption DEF Init, Delivery!JInit, Delivery!Places, TypeOK, Clock
<1>3. RecoverInv
  BY AbsentIsNotOpen, JobNamesAssumption DEF Init, Delivery!JInit, RecoverInv, Absent
<1> QED
  BY <1>1, <1>2, <1>3 DEF JobsInv

\* Every value has its type: a record is absent or has a known status and an
\* enqueue time of the run, and a worker's job is an entry of the stream.
THEOREM JobsTypeCorrect == Spec => []TypeOK
<1>1. JobsInv => TypeOK
  BY DEF JobsInv
<1> QED
  BY <1>1, JobsInvInit, JobsInvKept, PTL DEF Spec

\* Whichever workers are lost, a response that was accepted or begun and has
\* not ended keeps its upstream request, and a job of it waits or is with a
\* worker, unless the stream was trimmed: a job is acknowledged only when
\* its response has ended, and given up only when its record is gone.
THEOREM AcceptedWorkRecovers == Spec => []AcceptedWorkIsRecoverable
<1>1. JobsInv => AcceptedWorkIsRecoverable
  <2> SUFFICES ASSUME JobsInv, NEW id \in Ids,
                      \/ db[id].status = "in_progress"
                      \/ db[id].status = "queued" /\ gpc[id] = "accepted"
               PROVE  /\ db[id].pending_upstream_request
                      /\ \E n \in Entries :
                            /\ jobOf[n] = id
                            /\ \/ place[n] \in {"waiting"} \cup Workers
                               \/ Delivery!Outgrown(n, Delivery!Published)
    BY DEF AcceptedWorkIsRecoverable
  <2>1. Open(db[id])
    BY DEF Open
  <2>2. PICK n \in Entries : jobOf[n] = id
    BY DEF JobsInv, RecoverInv
  <2> QED
    BY <2>1, <2>2 DEF JobsInv, RecoverInv
<1> QED
  BY <1>1, JobsInvInit, JobsInvKept, PTL DEF Spec
=============================================================================
