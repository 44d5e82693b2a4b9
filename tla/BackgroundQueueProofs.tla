------------------------ MODULE BackgroundQueueProofs ------------------------
(***************************************************************************)
(* The background queue for any number of responses, gateways, workers and *)
(* faults, any stream bound and any batch sizes: types, the size of a      *)
(* batch, what a failing call may have claimed, the reachability of every  *)
(* enqueued job, and the refinement of JobDelivery.                        *)
(***************************************************************************)
EXTENDS BackgroundQueue, FiniteSetTheorems, WellFoundedInduction, TLAPS

-----------------------------------------------------------------------------
(* Finite sets of naturals                                                 *)

\* Zero, too, is a natural.
LEMMA OrZero ==
    ASSUME NEW S, S \subseteq Nat, NEW x \in S \cup {0}
    PROVE  x \in Nat
OBVIOUS

\* A nonempty set of naturals has a least member.
LEMMA HasLeast ==
    ASSUME NEW S, S \subseteq Nat, S # {}
    PROVE  \E n \in S : \A m \in S : n <= m
<1>1. PICK n \in S : \A m \in S : ~(<<m, n>> \in OpToRel(<, Nat))
  BY NatLessThanWellFounded, WFMin
<1>2. \A m \in S : <<m, n>> \in Nat \X Nat
  OBVIOUS
<1>3. \A m \in S : ~(m < n)
  BY <1>1, <1>2 DEF OpToRel
<1> QED
  BY <1>3

\* Entries are naturals, and finitely many.
LEMMA EntriesAreNaturals ==
    /\ Cardinality(Gateways) \in Nat
    /\ Entries \subseteq Nat
    /\ \A S : S \subseteq Entries => IsFiniteSet(S) /\ Cardinality(S) \in Nat
<1>1. Cardinality(Gateways) \in Nat
  BY BoundsAssumption, FS_CardinalityType
<1>2. IsFiniteSet(Entries)
  BY <1>1, FS_Interval DEF Entries
<1>3. \A S : S \subseteq Entries => IsFiniteSet(S) /\ Cardinality(S) \in Nat
  BY <1>2, FS_Subset, FS_CardinalityType
<1> QED
  BY <1>1, <1>3 DEF Entries

\* A nonempty set of entries has a greatest member.
LEMMA HasGreatest ==
    ASSUME NEW S, S \subseteq Entries, S # {}
    PROVE  \E n \in S : \A m \in S : m <= n
<1> DEFINE b == Cardinality(Gateways)
<1>1. b \in Nat /\ \A m \in S : m \in Nat /\ m <= b
  BY EntriesAreNaturals DEF Entries
<1> HIDE DEF b
<1> DEFINE T == {b - m : m \in S}
<1>2. T \subseteq Nat /\ T # {}
  BY <1>1
<1>3. PICK t \in T : \A u \in T : t <= u
  BY <1>2, HasLeast
<1>4. PICK n \in S : t = b - n
  BY <1>3
<1>5. \A m \in S : b - m \in T
  OBVIOUS
<1>6. \A m \in S : b - n <= b - m
  BY <1>3, <1>4, <1>5
<1> QED
  BY <1>6, <1>1

\* Least and Greatest are members and bounds.
LEMMA LeastIsLeast ==
    ASSUME NEW S, S \subseteq Entries, S # {}
    PROVE  Least(S) \in S /\ \A m \in S : Least(S) <= m
BY HasLeast, EntriesAreNaturals DEF Least

LEMMA GreatestIsGreatest ==
    ASSUME NEW S, S \subseteq Entries, S # {}
    PROVE  Greatest(S) \in S /\ \A m \in S : m <= Greatest(S)
BY HasGreatest DEF Greatest

\* First(S, k) is the beginning of S, of at most k members.
LEMMA FirstIsPrefix ==
    ASSUME NEW S, S \subseteq Entries, NEW k \in Nat
    PROVE  /\ First(S, k) \subseteq S
           /\ IsFiniteSet(First(S, k))
           /\ \A n \in First(S, k), m \in S : m < n => m \in First(S, k)
           /\ Cardinality(First(S, k)) <= k
<1> DEFINE F == First(S, k)
           Below(n) == {m \in S : m < n}
<1>0. S \subseteq Nat /\ IsFiniteSet(S)
  BY EntriesAreNaturals
<1>1. F \subseteq S
  BY DEF First
<1>2. IsFiniteSet(F)
  BY <1>0, <1>1, FS_Subset
<1>3. \A n \in Nat : IsFiniteSet(Below(n)) /\ Cardinality(Below(n)) \in Nat
  <2>1. \A n \in Nat : Below(n) \subseteq S
    OBVIOUS
  <2> QED
    BY <1>0, <2>1, FS_Subset, FS_CardinalityType
<1>4. ASSUME NEW n \in F, NEW m \in S, m < n
      PROVE  m \in F
  <2>0. m \in Nat /\ n \in Nat
    BY <1>0, <1>1, <1>4
  <2>1. Below(m) \subseteq Below(n)
    <3> SUFFICES ASSUME NEW x \in S, x < m PROVE x < n
      OBVIOUS
    <3>1. x \in Nat
      BY <1>0
    <3> QED
      BY <3>1, <2>0, <1>4
  <2>2. Cardinality(Below(m)) <= Cardinality(Below(n))
    BY <2>0, <2>1, <1>3, FS_Subset
  <2>3. Cardinality(Below(n)) < k
    BY <1>4 DEF First
  <2>4. Cardinality(Below(m)) < k
    BY <2>0, <2>2, <2>3, <1>3
  <2> QED
    BY <2>4, <1>4 DEF First
<1>5. Cardinality(F) <= k
  <2>1. CASE F = {}
    BY <2>1, FS_EmptySet
  <2>2. CASE F # {}
    <3>1. PICK g \in F : \A m \in F : m <= g
      BY <1>1, <1>2, <2>2, HasGreatest
    <3>a. g \in Nat
      BY <1>0, <1>1, <3>1
    <3>b. ~(g < g)
      BY <3>a
    <3>2. g \in Nat /\ g \notin Below(g)
      BY <3>a, <3>b
    <3>3. F \subseteq Below(g) \cup {g}
      <4> SUFFICES ASSUME NEW m \in F, m # g PROVE m \in Below(g)
        OBVIOUS
      <4> QED
        BY <1>0, <1>1, <3>1, <3>2
    <3>4. /\ IsFiniteSet(Below(g) \cup {g})
          /\ Cardinality(Below(g) \cup {g}) = Cardinality(Below(g)) + 1
      BY <1>3, <3>2, FS_AddElement
    <3>5. Cardinality(F) <= Cardinality(Below(g) \cup {g})
      BY <3>3, <3>4, FS_Subset
    <3>6. Cardinality(Below(g)) < k
      BY <3>1 DEF First
    <3> QED
      BY <3>4, <3>5, <3>6, <1>2, <1>3, <3>2, FS_CardinalityType
  <2> QED
    BY <2>1, <2>2
<1> QED
  BY <1>1, <1>2, <1>4, <1>5

-----------------------------------------------------------------------------
(* Types                                                                   *)

\* Each stream entry was added by an enqueue call that has answered.
EntriesFromCalls ==
    lastId <= Cardinality({g \in Gateways : gpc[g] = "done"})

TypeInv == TypeOK /\ EntriesFromCalls

\* The entries XAUTOCLAIM looks at are idle, those XREADGROUP delivers are
\* undelivered, and neither are more than were asked for.
LEMMA RedisPicks ==
    ASSUME TypeOK, NEW c \in Nat, NEW k \in Nat
    PROVE  /\ Examined(c, k) \subseteq idle /\ Examined(c, k) \subseteq Entries
           /\ IsFiniteSet(Examined(c, k)) /\ Cardinality(Examined(c, k)) <= k
           /\ Readable(k) \subseteq Undelivered /\ Readable(k) \subseteq Entries
           /\ IsFiniteSet(Readable(k)) /\ Cardinality(Readable(k)) <= k
           /\ \A n \in Readable(k), m \in Undelivered : m < n => m \in Readable(k)
           /\ NextCursor(c, k) \in Entries \cup {0}
<1>1. idle \subseteq Entries
  BY DEF TypeOK, Pel
<1>2. stream \subseteq Entries
  BY EntriesAreNaturals DEF TypeOK, Entries
<1>3. {n \in idle : n >= c} \subseteq Entries /\ Undelivered \subseteq Entries
  BY <1>1, <1>2 DEF Undelivered
<1>4. /\ Examined(c, k) \subseteq {n \in idle : n >= c}
      /\ IsFiniteSet(Examined(c, k)) /\ Cardinality(Examined(c, k)) <= k
  BY <1>3, FirstIsPrefix DEF Examined
<1>5. /\ Readable(k) \subseteq Undelivered
      /\ IsFiniteSet(Readable(k)) /\ Cardinality(Readable(k)) <= k
      /\ \A n \in Readable(k), m \in Undelivered : m < n => m \in Readable(k)
  BY <1>3, FirstIsPrefix DEF Readable
<1>6. NextCursor(c, k) \in Entries \cup {0}
  <2> DEFINE T == {n \in Pel : n > Greatest(Examined(c, k))}
  <2>1. T \subseteq Entries
    BY DEF Pel
  <2>2. Least(T) \in Entries \cup {0}
    BY <2>1, LeastIsLeast DEF Least
  <2> QED
    BY <2>2 DEF NextCursor
<1> QED
  BY <1>1, <1>3, <1>4, <1>5, <1>6

\* The entry a worker hydrates is one of those it has yet to hydrate.
LEMMA EntryIsTodo ==
    ASSUME TypeOK, NEW w \in Workers, todo[w] # {}
    PROVE  Entry(w) \in todo[w] /\ Entry(w) \in Entries
<1>1. todo[w] \subseteq Entries
  BY DEF TypeOK
<1> QED
  BY <1>1, LeastIsLeast DEF Entry

\* The numbers a call passes to Redis are naturals.
LEMMA CallNumbers ==
    ASSUME TypeOK, NEW w \in Workers
    PROVE  /\ opt[w].count \in Nat /\ cur[w] \in Nat
           /\ Cardinality(jobs[w]) \in Nat /\ Cardinality(pending[w]) \in Nat
           /\ Remaining(w) \in Int
           /\ Remaining(w) > 0 => Remaining(w) \in Nat
<1>1. opt[w].count \in Nat /\ cur[w] \in Nat
  <2>1. opt[w] \in [count : Counts \cup {0}, autoclaim : BOOLEAN]
    BY DEF TypeOK
  <2>2. cur[w] \in Entries \cup {0}
    BY DEF TypeOK
  <2>3. opt[w].count \in Counts \cup {0}
    BY <2>1
  <2>4. Counts \subseteq Nat
    BY BoundsAssumption
  <2>5. cur[w] \in Nat
    BY <2>2, EntriesAreNaturals, OrZero
  <2> QED
    BY <2>3, <2>4, <2>5, OrZero
<1>2. jobs[w] \subseteq Entries /\ pending[w] \subseteq Entries
  BY DEF TypeOK
<1>3. Cardinality(jobs[w]) \in Nat /\ Cardinality(pending[w]) \in Nat
  BY <1>2, EntriesAreNaturals
<1> QED
  BY <1>1, <1>3 DEF Remaining

\* While a call has yet to add its entry there is an id for the entry.
LEMMA NextIdIsEntry ==
    ASSUME TypeInv, NEW g \in Gateways, gpc[g] # "done"
    PROVE  lastId + 1 \in Entries
<1> DEFINE D == {h \in Gateways : gpc[h] = "done"}
<1>1. IsFiniteSet(Gateways) /\ D \subseteq Gateways \ {g}
  BY BoundsAssumption
<1>2. /\ IsFiniteSet(Gateways \ {g})
      /\ Cardinality(Gateways \ {g}) = Cardinality(Gateways) - 1
  BY <1>1, FS_RemoveElement
<1>3. Cardinality(D) <= Cardinality(Gateways) - 1 /\ Cardinality(D) \in Nat
  BY <1>1, <1>2, FS_Subset, FS_CardinalityType
<1>4. lastId \in Nat /\ lastId <= Cardinality(D)
  BY EntriesAreNaturals DEF TypeInv, TypeOK, EntriesFromCalls
<1> QED
  BY <1>3, <1>4, EntriesAreNaturals DEF Entries

\* An enqueue call that answers is one more that has answered.
LEMMA AnswerCounts ==
    ASSUME TypeInv, NEW g \in Gateways, NEW code, gpc[g] # "done",
           EnqueueAnswer(g, code)
    PROVE  Cardinality({h \in Gateways : gpc'[h] = "done"}) =
               Cardinality({h \in Gateways : gpc[h] = "done"}) + 1
<1> DEFINE D == {h \in Gateways : gpc[h] = "done"}
           E == {h \in Gateways : gpc'[h] = "done"}
<1>1. E = D \cup {g} /\ g \notin D
  BY DEF TypeInv, TypeOK, EnqueueAnswer
<1>2. IsFiniteSet(D)
  <2>1. IsFiniteSet(Gateways) /\ D \subseteq Gateways
    BY BoundsAssumption
  <2> QED
    BY <2>1, FS_Subset
<1> QED
  BY <1>1, <1>2, FS_AddElement

LEMMA EnqueueTypes ==
    ASSUME TypeInv, NEW g \in Gateways,
           EnqueueStore(g) \/ EnqueueXAdd(g) \/ EnqueueFails(g)
    PROVE  TypeInv'
<1>1. ASSUME XAdd(gid[g]), gpc[g] # "done"
      PROVE  /\ lastId' \in Entries /\ lastId' = lastId + 1
             /\ jobOf' \in [Entries -> Ids \cup {NoJob}]
             /\ stream' \subseteq 1..lastId'
             /\ UNCHANGED <<group, delivered, owner, idle>>
  <2>1. lastId + 1 \in Entries /\ lastId \in Nat
    BY <1>1, NextIdIsEntry, EntriesAreNaturals DEF TypeInv, TypeOK
  <2>2. stream \subseteq 1..lastId
    BY DEF TypeInv, TypeOK
  <2>3. stream' \subseteq 1..lastId'
    <3>1. PICK oldest \in 1..(lastId + 1) :
              stream' = {n \in stream \cup {lastId + 1} : n >= oldest}
      BY <1>1 DEF XAdd
    <3>2. stream' \subseteq stream \cup {lastId + 1} /\ lastId' = lastId + 1
      BY <1>1, <3>1 DEF XAdd
    <3> QED
      BY <2>1, <2>2, <3>2
  <2> QED
    BY <1>1, <2>1, <2>3 DEF XAdd, TypeInv, TypeOK
<1>5. ASSUME NEW code, gpc[g] # "done", EnqueueAnswer(g, code)
      PROVE  /\ Cardinality({h \in Gateways : gpc'[h] = "done"}) \in Nat
             /\ lastId + 1 <= Cardinality({h \in Gateways : gpc'[h] = "done"})
  <2>1. Cardinality({h \in Gateways : gpc'[h] = "done"}) =
            Cardinality({h \in Gateways : gpc[h] = "done"}) + 1
    BY <1>5, AnswerCounts
  <2>2. IsFiniteSet({h \in Gateways : gpc[h] = "done"})
    <3>1. IsFiniteSet(Gateways)
      BY BoundsAssumption
    <3> QED
      BY <3>1, FS_Subset
  <2>3. lastId \in Nat /\ lastId <= Cardinality({h \in Gateways : gpc[h] = "done"})
    BY EntriesAreNaturals DEF TypeInv, TypeOK, EntriesFromCalls
  <2> QED
    BY <2>1, <2>2, <2>3, FS_CardinalityType
<1>2. CASE EnqueueStore(g)
  <2>1. {h \in Gateways : gpc'[h] = "done"} = {h \in Gateways : gpc[h] = "done"}
    BY <1>2 DEF TypeInv, TypeOK, EnqueueStore
  <2>2. TypeOK'
    BY <1>2 DEF TypeInv, TypeOK, Pel, Entries, EnqueueStore, streamVars, claimVars, workerVars
  <2> QED
    BY <1>2, <2>1, <2>2 DEF TypeInv, EntriesFromCalls, EnqueueStore, streamVars
<1>3. CASE EnqueueXAdd(g)
  <2>1. TypeOK'
    BY <1>1, <1>3 DEF TypeInv, TypeOK, Pel, EnqueueXAdd, EnqueueAnswer, storeVars,
          claimVars, workerVars
  <2> QED
    BY <1>1, <1>3, <2>1, <1>5 DEF TypeInv, EntriesFromCalls, EnqueueXAdd
<1>4. CASE EnqueueFails(g)
  <2>1. \/ UNCHANGED streamVars
        \/ XAdd(gid[g])
    BY <1>4 DEF EnqueueFails
  <2>2. /\ gpc[g] # "done" /\ EnqueueAnswer(g, "unavailable")
        /\ present' \subseteq Ids
        /\ faults' \in 0..MaxFaults
        /\ UNCHANGED <<gone, cursor, gid, gentry, claimVars, workerVars>>
    BY <1>4, BoundsAssumption DEF TypeInv, TypeOK, EnqueueFails, Faulty
  <2>3. lastId' <= lastId + 1 /\ lastId \in Nat /\ lastId' \in Entries \cup {0}
    BY <2>1, <2>2, <1>1, EntriesAreNaturals DEF TypeInv, TypeOK, streamVars
  <2>4. TypeOK'
    <3>1. CASE UNCHANGED streamVars
      BY <2>2, <3>1 DEF TypeInv, TypeOK, Pel, EnqueueAnswer, streamVars,
            claimVars, workerVars
    <3>2. CASE XAdd(gid[g])
      BY <1>1, <2>2, <3>2 DEF TypeInv, TypeOK, Pel, EnqueueAnswer,
            claimVars, workerVars
    <3> QED
      BY <2>1, <3>1, <3>2
  <2>5. EntriesFromCalls'
    <3>1. lastId' \in Nat
      BY <2>3, EntriesAreNaturals
    <3> QED
      BY <1>5, <2>2, <2>3, <3>1 DEF EntriesFromCalls
  <2> QED
    BY <2>4, <2>5 DEF TypeInv
<1> QED
  BY <1>2, <1>3, <1>4

\* What Redis does to the stream and the PEL keeps their types.
StreamTypes ==
    /\ lastId \in Entries \cup {0}
    /\ jobOf \in [Entries -> Ids \cup {NoJob}]
    /\ stream \subseteq 1..lastId
    /\ group \in BOOLEAN
    /\ delivered \in Nat
    /\ owner \in [Entries -> Workers \cup {NoOne}]
    /\ idle \subseteq Pel

LEMMA RedisTypes ==
    ASSUME TypeOK, NEW w \in Workers
    PROVE  /\ \A c, k \in Nat : XAutoClaim(w, c, k) => StreamTypes'
           /\ \A k \in Nat : XReadGroup(w, k) => StreamTypes'
           /\ \A n : XAck(n) => StreamTypes'
           /\ UNCHANGED streamVars => StreamTypes'
<1> USE DEF StreamTypes
<1>0. NoOne \notin Workers
  BY NamesAssumption
<1>1. ASSUME NEW c \in Nat, NEW k \in Nat, XAutoClaim(w, c, k)
      PROVE  StreamTypes'
  <2>1. owner' \in [Entries -> Workers \cup {NoOne}]
    BY <1>1 DEF XAutoClaim, TypeOK
  <2>2. \A n \in idle' : n \in Entries /\ n \in idle /\ owner'[n] = owner[n]
    BY <1>1 DEF XAutoClaim, TypeOK, Pel
  <2>3. idle' \subseteq Pel'
    BY <2>2, EntriesAreNaturals DEF TypeOK, Pel
  <2> QED
    BY <1>1, <2>1, <2>3 DEF XAutoClaim, TypeOK
<1>2. ASSUME NEW k \in Nat, XReadGroup(w, k)
      PROVE  StreamTypes'
  <2>0. Readable(k) \subseteq Entries
    BY RedisPicks
  <2>1. owner' \in [Entries -> Workers \cup {NoOne}]
    BY <1>2 DEF XReadGroup, TypeOK
  <2>2. idle' \subseteq Pel'
    BY <1>0, <1>2 DEF XReadGroup, TypeOK, Pel
  <2>3. delivered' \in Nat
    BY <1>2, <2>0, GreatestIsGreatest, EntriesAreNaturals DEF XReadGroup, TypeOK
  <2> QED
    BY <1>2, <2>1, <2>2, <2>3 DEF XReadGroup, TypeOK
<1>3. ASSUME NEW n, XAck(n)
      PROVE  StreamTypes'
  BY <1>3 DEF XAck, TypeOK, Pel
<1>4. ASSUME UNCHANGED streamVars
      PROVE  StreamTypes'
  BY <1>4 DEF streamVars, TypeOK, Pel
<1> QED
  BY <1>1, <1>2, <1>3, <1>4

ClaimTypes ==
    /\ wpc \in [Workers -> {"idle", "autoclaim", "hydrate_auto", "ack_auto",
                            "hydrate_read", "ack_read"}]
    /\ opt \in [Workers -> [count : Counts \cup {0}, autoclaim : BOOLEAN]]
    /\ cur \in [Workers -> Entries \cup {0}]
    /\ todo \in [Workers -> SUBSET Entries]
    /\ jobs \in [Workers -> SUBSET Entries]
    /\ pending \in [Workers -> SUBSET Entries]
    /\ failed \in [Workers -> BOOLEAN]
    /\ held \in [Workers -> SUBSET Entries]

\* The end of a call leaves the worker idle.
LEMMA AnswerTypes ==
    ASSUME TypeOK, NEW w \in Workers, NEW code, ClaimAnswer(w, code)
    PROVE  ClaimTypes'
BY DEF TypeOK, ClaimAnswer, ClaimTypes, NoOptions

\* The rest of TypeOK, which a worker's steps touch one by one.
OtherTypes ==
    /\ present \subseteq Ids /\ gone \subseteq Ids
    /\ cursor \in Entries \cup {0}
    /\ gpc \in [Gateways -> {"store", "xadd", "done"}]
    /\ gid \in [Gateways -> Ids]
    /\ gentry \in [Gateways -> Entries \cup {0}]
    /\ gres \in [Gateways -> {"none", "ok", "unavailable"}]
    /\ acked \subseteq Entries
    /\ faults \in 0..MaxFaults

LEMMA TypeParts == TypeOK <=> StreamTypes /\ ClaimTypes /\ OtherTypes
BY DEF TypeOK, StreamTypes, ClaimTypes, OtherTypes

\* A fault stays within the bound.
LEMMA FaultTypes ==
    ASSUME faults \in 0..MaxFaults, Faulty
    PROVE  faults' \in 0..MaxFaults
BY BoundsAssumption DEF Faulty

\* Every step of a worker.
WorkerStep(w) ==
    \/ ClaimBegin(w) \/ ClaimStep(w) \/ LoadFails(w) \/ ReadGroupFails(w)
    \/ Acknowledge(w) \/ AcknowledgeFails(w) \/ WorkerLost(w)

\* Worker steps leave the calls of the gateways and the published entries.
LEMMA WorkerFrame ==
    ASSUME NEW w \in Workers, WorkerStep(w)
    PROVE  UNCHANGED <<present, gone, lastId, jobOf, stream, group, gatewayVars>>
BY DEF WorkerStep, ClaimStep, ClaimBegin, LoadFails, ReadGroupFails,
       Acknowledge, AcknowledgeFails, WorkerLost, Autoclaim, LoadRecord,
       AckMissing, ReadGroup, SetCursor, ClaimFails, XAutoClaim, XReadGroup,
       XAck, storeVars, streamVars

LEMMA WorkerStreamTypes ==
    ASSUME TypeOK, NEW w \in Workers, WorkerStep(w)
    PROVE  StreamTypes'
<1>0. /\ opt[w].count \in Nat /\ cur[w] \in Nat
      /\ Remaining(w) > 0 => Remaining(w) \in Nat
  BY CallNumbers
<1>1. \/ \E c, k \in Nat : XAutoClaim(w, c, k)
      \/ \E k \in Nat : XReadGroup(w, k)
      \/ \E n : XAck(n)
      \/ UNCHANGED streamVars
  <2>1. CASE Autoclaim(w) \/ ClaimFails(w)
    BY <1>0, <2>1 DEF Autoclaim, ClaimFails
  <2>2. CASE ReadGroup(w) \/ ReadGroupFails(w)
    BY <1>0, <2>2 DEF ReadGroup, ReadGroupFails, ReadDue
  <2>3. CASE AckMissing(w) \/ Acknowledge(w) \/ AcknowledgeFails(w)
    BY <2>3 DEF AckMissing, Acknowledge, AcknowledgeFails
  <2>4. CASE ClaimBegin(w) \/ LoadRecord(w) \/ LoadFails(w) \/ SetCursor(w)
             \/ WorkerLost(w)
    BY <2>4 DEF ClaimBegin, LoadRecord, LoadFails, SetCursor, WorkerLost
  <2> QED
    BY <2>1, <2>2, <2>3, <2>4 DEF WorkerStep, ClaimStep
<1> QED
  BY <1>1, RedisTypes

LEMMA WorkerClaimTypes ==
    ASSUME TypeOK, NEW w \in Workers, WorkerStep(w)
    PROVE  ClaimTypes'
<1>0. /\ opt[w].count \in Nat /\ cur[w] \in Nat
      /\ Remaining(w) > 0 => Remaining(w) \in Nat
  BY CallNumbers
<1>1. CASE ClaimBegin(w)
  BY <1>1, BoundsAssumption DEF ClaimBegin, ClaimTypes, TypeOK, workerVars
<1>2. CASE Autoclaim(w)
  <2>1. /\ Examined(cur[w], opt[w].count) \subseteq Entries
        /\ NextCursor(cur[w], opt[w].count) \in Entries \cup {0}
    BY <1>0, RedisPicks
  <2> QED
    BY <1>2, <2>1 DEF Autoclaim, ClaimTypes, TypeOK, workerVars
<1>3. CASE LoadRecord(w) \/ LoadFails(w)
  <2>1. Entry(w) \in Entries
    BY <1>3, EntryIsTodo DEF LoadRecord, LoadFails, Hydrating
  <2>2. CASE LoadRecord(w)
    <3>1. CASE jobOf[Entry(w)] \in present
      <4>1. /\ jobs' = [jobs EXCEPT ![w] = @ \cup {Entry(w)}]
            /\ todo' = [todo EXCEPT ![w] = @ \ {Entry(w)}]
            /\ UNCHANGED <<wpc, opt, cur, pending, failed, held>>
        BY <2>2, <3>1 DEF LoadRecord, workerVars
      <4>2. /\ jobs' \in [Workers -> SUBSET Entries]
            /\ todo' \in [Workers -> SUBSET Entries]
        BY <2>1, <4>1 DEF TypeOK
      <4> QED
        BY <4>1, <4>2 DEF ClaimTypes, TypeOK
    <3>2. CASE jobOf[Entry(w)] \notin present
      BY <2>1, <2>2, <3>2 DEF LoadRecord, ClaimTypes, TypeOK, workerVars
    <3> QED
      BY <3>1, <3>2
  <2>3. CASE LoadFails(w)
    BY <2>1, <2>3 DEF LoadFails, ClaimTypes, TypeOK, workerVars
  <2> QED
    BY <1>3, <2>2, <2>3
<1>4. CASE AckMissing(w)
  BY <1>4 DEF AckMissing, ClaimTypes, TypeOK, workerVars
<1>5. CASE ReadGroup(w)
  <2>1. Readable(Remaining(w)) \subseteq Entries
    BY <1>0, <1>5, RedisPicks DEF ReadGroup, ReadDue
  <2> QED
    BY <1>5, <2>1 DEF ReadGroup, ClaimTypes, TypeOK, workerVars
<1>6. CASE SetCursor(w) \/ ClaimFails(w)
  BY <1>6, AnswerTypes DEF SetCursor, ClaimFails
<1>7. CASE ReadGroupFails(w)
  <2>1. CASE ClaimAnswer(w, "unavailable")
    BY <2>1, AnswerTypes
  <2>2. CASE /\ wpc' = [wpc EXCEPT ![w] = "hydrate_read"]
             /\ UNCHANGED <<opt, cur, todo, jobs, pending, failed, held>>
    BY <2>2 DEF ClaimTypes, TypeOK
  <2> QED
    BY <1>7, <2>1, <2>2 DEF ReadGroupFails
<1>8. CASE Acknowledge(w) \/ AcknowledgeFails(w)
  BY <1>8 DEF Acknowledge, AcknowledgeFails, ClaimTypes, TypeOK, claimVars
<1>9. CASE WorkerLost(w)
  BY <1>9 DEF WorkerLost, ClaimTypes, TypeOK, NoOptions
<1> QED
  BY <1>1, <1>2, <1>3, <1>4, <1>5, <1>6, <1>7, <1>8, <1>9
  DEF WorkerStep, ClaimStep

LEMMA WorkerOtherTypes ==
    ASSUME TypeOK, NEW w \in Workers, WorkerStep(w)
    PROVE  OtherTypes'
<1>1. faults' \in 0..MaxFaults
  <2>1. UNCHANGED faults \/ Faulty
    BY DEF WorkerStep, ClaimStep, ClaimBegin, LoadFails, ReadGroupFails,
           Acknowledge, AcknowledgeFails, WorkerLost, Autoclaim, LoadRecord,
           AckMissing, ReadGroup, SetCursor, ClaimFails
  <2> QED
    BY <2>1, FaultTypes DEF TypeOK
<1>2. acked' \subseteq Entries
  <2>1. held[w] \subseteq Entries
    BY DEF TypeOK
  <2> QED
    BY <2>1 DEF TypeOK, WorkerStep, ClaimStep, ClaimBegin, LoadFails, ReadGroupFails,
         Acknowledge, AcknowledgeFails, WorkerLost, Autoclaim, LoadRecord,
         AckMissing, ReadGroup, SetCursor, ClaimFails, workerVars
<1>3. cursor' \in Entries \cup {0}
  <2>1. cur[w] \in Entries \cup {0}
    BY DEF TypeOK
  <2> QED
    BY <2>1 DEF TypeOK, WorkerStep, ClaimStep, ClaimBegin, LoadFails, ReadGroupFails,
         Acknowledge, AcknowledgeFails, WorkerLost, Autoclaim, LoadRecord,
         AckMissing, ReadGroup, SetCursor, ClaimFails, AUTOCLAIM_CURSOR_SCRIPT
<1> QED
  BY <1>1, <1>2, <1>3, WorkerFrame DEF TypeOK, OtherTypes, gatewayVars

LEMMA TypeStep == TypeInv /\ [Next]_vars => TypeInv'
<1> SUFFICES ASSUME TypeInv, [Next]_vars
             PROVE  TypeInv'
  OBVIOUS
<1>1. ASSUME NEW g \in Gateways,
             EnqueueStore(g) \/ EnqueueXAdd(g) \/ EnqueueFails(g)
      PROVE  TypeInv'
  BY <1>1, EnqueueTypes
<1>2. CASE EnsureConsumerGroup
  <2>1. TypeOK'
    BY <1>2, BoundsAssumption DEF EnsureConsumerGroup, XGroupCreate, TypeInv,
       TypeOK, Pel, storeVars, gatewayVars, claimVars, workerVars
  <2> QED
    BY <1>2, <2>1 DEF EnsureConsumerGroup, XGroupCreate, TypeInv,
       EntriesFromCalls, gatewayVars
<1>3. ASSUME NEW w \in Workers, WorkerStep(w)
      PROVE  TypeInv'
  <2>1. TypeOK'
    <3>1. StreamTypes' /\ ClaimTypes' /\ OtherTypes'
      BY <1>3, WorkerStreamTypes, WorkerClaimTypes, WorkerOtherTypes DEF TypeInv
    <3> QED
      BY <3>1 DEF TypeOK, StreamTypes, ClaimTypes, OtherTypes
  <2> QED
    BY <1>3, <2>1, WorkerFrame DEF TypeInv, EntriesFromCalls, gatewayVars
<1>4. ASSUME NEW id \in Expiring, Vanish(id)
      PROVE  TypeInv'
  <2>1. id \in Ids
    BY BoundsAssumption
  <2> QED
    BY <1>4, <2>1 DEF Vanish, TypeInv, TypeOK, EntriesFromCalls, Pel, streamVars,
       gatewayVars, claimVars, workerVars
<1>5. ASSUME NEW n \in Entries, GoIdle(n)
      PROVE  TypeInv'
  BY <1>5 DEF GoIdle, TypeInv, TypeOK, EntriesFromCalls, Pel, storeVars,
     gatewayVars, claimVars, workerVars
<1>6. CASE UNCHANGED vars
  BY <1>6 DEF vars, TypeInv, TypeOK, EntriesFromCalls, Pel, storeVars, streamVars,
     gatewayVars, claimVars, workerVars
<1> QED
  BY <1>1, <1>2, <1>3, <1>4, <1>5, <1>6 DEF Next, WorkerStep

LEMMA TypeInit == Init => TypeInv
<1> SUFFICES ASSUME Init
             PROVE  TypeInv
  OBVIOUS
<1>1. TypeOK
  <2>1. StreamTypes
    BY DEF Init, StreamTypes, Pel
  <2>2. ClaimTypes
    BY DEF Init, ClaimTypes, NoOptions
  <2>3. OtherTypes
    BY BoundsAssumption DEF Init, OtherTypes
  <2> QED
    BY <2>1, <2>2, <2>3, TypeParts
<1>2. {g \in Gateways : gpc[g] = "done"} = {}
  BY DEF Init
<1>3. Cardinality({g \in Gateways : gpc[g] = "done"}) = 0
  BY <1>2, FS_EmptySet
<1> QED
  BY <1>1, <1>3 DEF TypeInv, EntriesFromCalls, Init

\* Every value has its type: in particular the stream holds at most one
\* entry per enqueue call, and only entries of the PEL go idle.
THEOREM TypeCorrect == Spec => []TypeOK
<1>1. TypeInv => TypeOK
  BY DEF TypeInv
<1> QED
  BY <1>1, TypeInit, TypeStep, PTL DEF Spec

-----------------------------------------------------------------------------
(* Batches                                                                 *)

\* A call that has claimed nothing yet has nothing to hydrate or to answer.
ClaimsAreOpen ==
    \A w \in Workers :
        wpc[w] \in {"idle", "autoclaim"} =>
            todo[w] = {} /\ jobs[w] = {} /\ pending[w] = {}

BatchInv == ClaimsAreOpen /\ BatchWithinCount

\* A worker's step is about its own call.
LEMMA OtherCalls ==
    ASSUME TypeOK, NEW w \in Workers, WorkerStep(w), NEW v \in Workers, v # w
    PROVE  /\ wpc'[v] = wpc[v] /\ opt'[v] = opt[v] /\ todo'[v] = todo[v]
           /\ jobs'[v] = jobs[v] /\ pending'[v] = pending[v]
           /\ failed'[v] = failed[v] /\ held'[v] = held[v]
<1>1. CASE \E code : ClaimAnswer(w, code)
  BY <1>1 DEF ClaimAnswer, TypeOK
<1>2. CASE ClaimBegin(w) \/ Autoclaim(w)
  BY <1>2 DEF ClaimBegin, Autoclaim, TypeOK, workerVars
<1>3. CASE LoadRecord(w)
  BY <1>3 DEF LoadRecord, TypeOK, workerVars
<1>4. CASE LoadFails(w) \/ AckMissing(w) \/ ReadGroup(w)
  BY <1>4 DEF LoadFails, AckMissing, ReadGroup, TypeOK, workerVars
<1>5. CASE /\ wpc' = [wpc EXCEPT ![w] = "hydrate_read"]
           /\ UNCHANGED <<opt, cur, todo, jobs, pending, failed, held>>
  BY <1>5 DEF TypeOK
<1>6. CASE Acknowledge(w) \/ AcknowledgeFails(w) \/ WorkerLost(w)
  BY <1>6 DEF Acknowledge, AcknowledgeFails, WorkerLost, TypeOK, claimVars
<1>7. CASE ReadGroupFails(w)
  BY <1>1, <1>5, <1>7 DEF ReadGroupFails
<1>8. CASE SetCursor(w) \/ ClaimFails(w)
  BY <1>1, <1>8 DEF SetCursor, ClaimFails
<1> QED
  BY <1>2, <1>3, <1>4, <1>6, <1>7, <1>8 DEF WorkerStep, ClaimStep

\* The entries of one call, and their number.
Batch(w) == todo[w] \cup jobs[w] \cup pending[w]

LEMMA BatchIsFinite ==
    ASSUME TypeOK, NEW w \in Workers
    PROVE  IsFiniteSet(Batch(w)) /\ Cardinality(Batch(w)) \in Nat
<1>1. Batch(w) \subseteq Entries
  BY DEF TypeOK, Batch
<1> QED
  BY <1>1, EntriesAreNaturals

\* Of a batch that only shrinks nothing has to be asked.
LEMMA SmallerBatch ==
    ASSUME TypeOK, BatchInv, NEW w \in Workers, wpc[w] # "idle",
           NEW S, S \subseteq Batch(w)
    PROVE  Cardinality(S) <= opt[w].count
<1>1. IsFiniteSet(Batch(w)) /\ Cardinality(Batch(w)) \in Nat
  BY BatchIsFinite
<1>2. IsFiniteSet(S) /\ Cardinality(S) \in Nat /\ Cardinality(S) <= Cardinality(Batch(w))
  BY <1>1, FS_Subset, FS_CardinalityType
<1>3. Cardinality(Batch(w)) <= opt[w].count /\ opt[w].count \in Nat
  BY CallNumbers DEF BatchInv, BatchWithinCount, Batch
<1> QED
  BY <1>1, <1>2, <1>3

\* What is read fills up what the call has, to at most its count.
LEMMA ReadFillsUp ==
    ASSUME TypeOK, NEW w \in Workers, Remaining(w) > 0
    PROVE  Cardinality(Readable(Remaining(w)) \cup jobs[w] \cup pending[w])
               <= opt[w].count
<1> DEFINE R == Readable(Remaining(w))
           J == jobs[w]
           P == pending[w]
<1>1. /\ opt[w].count \in Nat /\ Remaining(w) \in Nat
      /\ Cardinality(J) \in Nat /\ Cardinality(P) \in Nat
  BY CallNumbers
<1>2. R \subseteq Entries /\ J \subseteq Entries /\ P \subseteq Entries
  BY <1>1, RedisPicks DEF TypeOK
<1>3. Cardinality(R) <= Remaining(w)
  BY <1>1, RedisPicks
<1>4. \A S, T : S \subseteq Entries /\ T \subseteq Entries =>
          Cardinality(S \cup T) <= Cardinality(S) + Cardinality(T)
  <2> SUFFICES ASSUME NEW S, NEW T, S \subseteq Entries, T \subseteq Entries
               PROVE  Cardinality(S \cup T) <= Cardinality(S) + Cardinality(T)
    OBVIOUS
  <2>1. IsFiniteSet(S) /\ IsFiniteSet(T)
    BY EntriesAreNaturals
  <2>2. S \cap T \subseteq Entries
    OBVIOUS
  <2>3. /\ Cardinality(S) \in Nat /\ Cardinality(T) \in Nat
        /\ Cardinality(S \cap T) \in Nat
    BY <2>2, EntriesAreNaturals
  <2>4. Cardinality(S \cup T) =
            Cardinality(S) + Cardinality(T) - Cardinality(S \cap T)
    BY <2>1, FS_Union
  <2> QED
    BY <2>3, <2>4
<1>5. R \cup J \subseteq Entries /\ (R \cup J) \cup P \subseteq Entries
  BY <1>2
<1>6. Cardinality((R \cup J) \cup P) <= Cardinality(R \cup J) + Cardinality(P)
  BY <1>2, <1>4, <1>5
<1>7. Cardinality(R \cup J) <= Cardinality(R) + Cardinality(J)
  BY <1>2, <1>4
<1>8. /\ Cardinality(R) \in Nat /\ Cardinality(R \cup J) \in Nat
      /\ Cardinality((R \cup J) \cup P) \in Nat
  BY <1>2, <1>5, EntriesAreNaturals
<1>9. Remaining(w) = opt[w].count - Cardinality(J) - Cardinality(P)
  BY DEF Remaining
<1> HIDE DEF R, J, P
<1>10. Cardinality((R \cup J) \cup P) <= opt[w].count
  BY <1>1, <1>3, <1>6, <1>7, <1>8, <1>9
<1> QED
  BY <1>10 DEF R, J, P

\* What a call may hold is what its worker's steps leave it.
BatchOf(w) ==
    /\ wpc[w] \in {"idle", "autoclaim"} =>
          todo[w] = {} /\ jobs[w] = {} /\ pending[w] = {}
    /\ wpc[w] # "idle" =>
          Cardinality(todo[w] \cup jobs[w] \cup pending[w]) <= opt[w].count

LEMMA WorkerBatch ==
    ASSUME TypeOK, BatchInv, NEW w \in Workers, WorkerStep(w)
    PROVE  BatchOf(w)'
<1>0. BatchOf(w) /\ opt[w].count \in Nat
  BY CallNumbers DEF BatchInv, ClaimsAreOpen, BatchWithinCount, BatchOf
<1>1. CASE (\E code : ClaimAnswer(w, code)) \/ WorkerLost(w)
  BY <1>1 DEF ClaimAnswer, WorkerLost, TypeOK, BatchOf
<1>2. CASE ClaimBegin(w)
  <2>1. /\ wpc'[w] \in {"autoclaim", "hydrate_auto"}
        /\ todo'[w] = {} /\ jobs'[w] = {} /\ pending'[w] = {}
        /\ opt'[w].count \in Counts
    BY <1>0, <1>2 DEF ClaimBegin, TypeOK, BatchOf
  <2>2. Cardinality({}) = 0
    BY FS_EmptySet
  <2>3. 0 <= opt'[w].count
    <3>1. Counts \subseteq Nat
      BY BoundsAssumption
    <3>2. opt'[w].count \in Nat
      BY <2>1, <3>1
    <3> QED
      BY <3>2
  <2>4. todo'[w] \cup jobs'[w] \cup pending'[w] = {}
    BY <2>1
  <2> QED
    BY <2>1, <2>2, <2>3, <2>4 DEF BatchOf
<1>3. CASE Autoclaim(w)
  <2> DEFINE X == Examined(cur[w], opt[w].count)
  <2>1. /\ wpc'[w] = "hydrate_auto" /\ opt'[w] = opt[w]
        /\ todo'[w] = X \cap stream /\ jobs'[w] = {} /\ pending'[w] = {}
    BY <1>0, <1>3 DEF Autoclaim, TypeOK, BatchOf
  <2>2. IsFiniteSet(X) /\ Cardinality(X) <= opt[w].count
    BY CallNumbers, RedisPicks
  <2>3. Cardinality(X) \in Nat
    BY <2>2, FS_CardinalityType
  <2> HIDE DEF X
  <2>4. IsFiniteSet(X \cap stream) /\ Cardinality(X \cap stream) <= Cardinality(X)
    BY <2>2, FS_Subset
  <2>5. Cardinality(X \cap stream) \in Nat
    BY <2>4, FS_CardinalityType
  <2>6. todo'[w] \cup jobs'[w] \cup pending'[w] = X \cap stream
    BY <2>1
  <2>7. Cardinality(X \cap stream) <= opt[w].count
    BY <1>0, <2>2, <2>3, <2>4, <2>5
  <2> QED
    BY <2>1, <2>6, <2>7 DEF BatchOf
<1>4. CASE LoadRecord(w) \/ LoadFails(w) \/ AckMissing(w)
  <2>1. /\ wpc[w] \notin {"idle", "autoclaim"} /\ wpc'[w] \notin {"idle", "autoclaim"}
        /\ opt'[w] = opt[w]
    BY <1>4 DEF LoadRecord, LoadFails, AckMissing, Hydrating, TypeOK
  <2>2. todo'[w] \cup jobs'[w] \cup pending'[w] \subseteq Batch(w)
    <3>1. CASE LoadRecord(w)
      <4>1. Entry(w) \in todo[w]
        BY <3>1, EntryIsTodo DEF LoadRecord, Hydrating
      <4> QED
        BY <3>1, <4>1 DEF LoadRecord, TypeOK, Batch
    <3>2. CASE LoadFails(w)
      <4>1. Entry(w) \in todo[w]
        BY <3>2, EntryIsTodo DEF LoadFails, Hydrating
      <4> QED
        BY <3>2, <4>1 DEF LoadFails, TypeOK, Batch
    <3>3. CASE AckMissing(w)
      BY <3>3 DEF AckMissing, TypeOK, Batch
    <3> QED
      BY <1>4, <3>1, <3>2, <3>3
  <2>3. Cardinality(todo'[w] \cup jobs'[w] \cup pending'[w]) <= opt[w].count
    BY <2>1, <2>2, SmallerBatch
  <2> QED
    BY <2>1, <2>3 DEF BatchOf
<1>5. CASE ReadGroup(w)
  <2>1. Remaining(w) > 0
    BY <1>5 DEF ReadGroup, ReadDue
  <2>2. /\ wpc'[w] = "hydrate_read" /\ opt'[w] = opt[w]
        /\ todo'[w] = Readable(Remaining(w)) /\ jobs'[w] = jobs[w]
        /\ pending'[w] = pending[w]
    BY <1>5 DEF ReadGroup, TypeOK
  <2> QED
    BY <2>1, <2>2, ReadFillsUp DEF BatchOf
<1>6. CASE ReadGroupFails(w)
  <2>1. wpc[w] = "hydrate_auto"
    BY <1>6 DEF ReadGroupFails, ReadDue
  <2>2. CASE /\ wpc' = [wpc EXCEPT ![w] = "hydrate_read"]
             /\ UNCHANGED <<opt, cur, todo, jobs, pending, failed, held>>
    BY <1>0, <2>1, <2>2 DEF BatchOf, TypeOK
  <2> QED
    BY <1>1, <1>6, <2>2 DEF ReadGroupFails
<1>7. CASE Acknowledge(w) \/ AcknowledgeFails(w)
  BY <1>0, <1>7 DEF Acknowledge, AcknowledgeFails, claimVars, BatchOf
<1>8. CASE SetCursor(w) \/ ClaimFails(w)
  BY <1>1, <1>8 DEF SetCursor, ClaimFails
<1> QED
  BY <1>1, <1>2, <1>3, <1>4, <1>5, <1>6, <1>7, <1>8 DEF WorkerStep, ClaimStep

\* Everybody else leaves the calls of the workers alone.
LEMMA ClaimFrame ==
    ASSUME [Next]_vars, ~ \E w \in Workers : WorkerStep(w)
    PROVE  UNCHANGED <<claimVars, workerVars>>
BY DEF Next, WorkerStep, EnqueueStore, EnqueueXAdd, EnqueueFails,
       EnsureConsumerGroup, Vanish, GoIdle, vars

LEMMA BatchStep == TypeInv /\ BatchInv /\ [Next]_vars => BatchInv'
<1> SUFFICES ASSUME TypeInv, BatchInv, [Next]_vars
             PROVE  BatchInv'
  OBVIOUS
<1>1. CASE ~ \E w \in Workers : WorkerStep(w)
  BY <1>1, ClaimFrame DEF BatchInv, ClaimsAreOpen, BatchWithinCount, claimVars
<1>2. ASSUME NEW w \in Workers, WorkerStep(w)
      PROVE  BatchInv'
  <2>1. BatchOf(w)'
    BY <1>2, WorkerBatch DEF TypeInv
  <2>2. \A v \in Workers : BatchOf(v)'
    <3> SUFFICES ASSUME NEW v \in Workers, v # w
                 PROVE  BatchOf(v)'
      BY <2>1
    <3>1. BatchOf(v)
      BY DEF BatchInv, ClaimsAreOpen, BatchWithinCount, BatchOf
    <3> QED
      BY <1>2, <3>1, OtherCalls DEF BatchOf, TypeInv
  <2> QED
    BY <2>2 DEF BatchInv, ClaimsAreOpen, BatchWithinCount, BatchOf
<1> QED
  BY <1>1, <1>2

LEMMA BatchInit == Init => BatchInv
BY DEF Init, BatchInv, ClaimsAreOpen, BatchWithinCount

\* A call never claims more than it was asked for, however the entries it
\* took over and the ones it read add up (queue.rs:167-168).
THEOREM BatchBounded == Spec => []BatchWithinCount
<1>1. BatchInv => BatchWithinCount
  BY DEF BatchInv
<1> QED
  BY <1>1, TypeInit, TypeStep, BatchInit, BatchStep, PTL DEF Spec

\* A call that fails leaves nothing it has claimed unreported
\* (queue.rs:185-192).
THEOREM FailuresClaimNothing == Spec => ClaimedIsReported
<1>1. TypeInv /\ BatchInv /\ [Next]_vars =>
          [\A w \in Workers :
             ~failed[w] /\ failed'[w]
             => jobs[w] \cup pending[w] \cup todo[w] = {}]_vars
  <2> SUFFICES ASSUME TypeInv, BatchInv, [Next]_vars, NEW v \in Workers,
                      ~failed[v], failed'[v]
               PROVE  jobs[v] \cup pending[v] \cup todo[v] = {}
    OBVIOUS
  <2>1. PICK w \in Workers : WorkerStep(w)
    BY ClaimFrame DEF claimVars
  <2>2. v = w
    BY <2>1, OtherCalls DEF TypeInv
  <2>3. failed \in [Workers -> BOOLEAN]
    BY DEF TypeInv, TypeOK
  <2>4. ClaimFails(w) \/ (ReadGroupFails(w) /\ ~has_claimed_entries(w))
    <3>1. CASE ClaimBegin(w) \/ WorkerLost(w) \/ SetCursor(w)
      BY <2>2, <2>3, <3>1 DEF ClaimBegin, WorkerLost, SetCursor, ClaimAnswer
    <3>2. CASE Autoclaim(w) \/ LoadRecord(w) \/ LoadFails(w) \/ AckMissing(w)
               \/ ReadGroup(w)
      BY <2>2, <3>2 DEF Autoclaim, LoadRecord, LoadFails, AckMissing, ReadGroup
    <3>3. CASE Acknowledge(w) \/ AcknowledgeFails(w)
      BY <2>2, <3>3 DEF Acknowledge, AcknowledgeFails, claimVars
    <3>4. CASE ReadGroupFails(w)
      BY <2>2, <3>4 DEF ReadGroupFails
    <3> QED
      BY <2>1, <3>1, <3>2, <3>3, <3>4 DEF WorkerStep, ClaimStep
  <2>5. CASE ReadGroupFails(w) /\ ~has_claimed_entries(w)
    BY <2>2, <2>5 DEF ReadGroupFails, ReadDue, has_claimed_entries
  <2>6. CASE ClaimFails(w)
    <3>1. \/ wpc[w] \in {"idle", "autoclaim"}
          \/ todo[w] = {} /\ ~has_claimed_entries(w)
      BY <2>6 DEF ClaimFails, ReadDue
    <3> QED
      BY <2>2, <3>1 DEF BatchInv, ClaimsAreOpen, has_claimed_entries
  <2> QED
    BY <2>4, <2>5, <2>6
<1> QED
  BY <1>1, TypeInit, TypeStep, BatchInit, BatchStep, PTL
  DEF Spec, ClaimedIsReported

-----------------------------------------------------------------------------
(* Positions in the stream, for groups that read it from its beginning     *)

\* Entries are published in order, the group reads them in order, and an
\* entry leaves the stream by trimming only.
StreamInv ==
    /\ \A n \in Entries : n > lastId => jobOf[n] = NoJob
    /\ Pel \subseteq 1..delivered /\ acked \subseteq 1..delivered
    /\ delivered <= lastId
    /\ Pel \cap acked = {}
    /\ ~group => delivered = 0
    /\ \A n \in 1..lastId : n \in stream \/ Trimmable(n)

\* The record of an entry was stored before it, so an entry found without
\* a record is one whose record has gone.
RecordInv ==
    /\ \A g \in Gateways : gpc[g] = "xadd" => gid[g] \in present \cup gone
    /\ \A n \in 1..lastId : jobOf[n] \in present \cup gone
    /\ \A w \in Workers :
          /\ todo[w] \subseteq 1..lastId
          /\ wpc[w] \in {"ack_auto", "ack_read"} =>
                todo[w] # {} /\ jobOf[Entry(w)] \in gone
    /\ \A g \in Gateways :
          gres[g] = "ok" => gentry[g] \in 1..lastId /\ jobOf[gentry[g]] = gid[g]

\* Every published entry is within reach, or has gone for a reason.
ReachInv ==
    \A n \in 1..lastId :
        n \in Undelivered \cup Pel \cup acked \/ jobOf[n] \in gone \/ Trimmable(n)

PlaceInv == StreamInv /\ RecordInv /\ ReachInv

\* The numbers that place entries.
LEMMA Positions ==
    ASSUME TypeOK
    PROVE  /\ lastId \in Nat /\ delivered \in Nat /\ MaxLen \in Nat
           /\ 1..lastId \subseteq Entries
           /\ stream \subseteq 1..lastId
<1>1. lastId \in Nat
  BY EntriesAreNaturals, OrZero DEF TypeOK
<1>2. lastId <= Cardinality(Gateways)
  BY EntriesAreNaturals DEF TypeOK, Entries
<1> QED
  BY <1>1, <1>2, EntriesAreNaturals, BoundsAssumption DEF TypeOK, Entries

\* XADD publishes the next entry, and what it trims MaxLen newer ones follow.
LEMMA AddedAndTrimmed ==
    ASSUME TypeOK, NEW id, XAdd(id)
    PROVE  /\ lastId' = lastId + 1
           /\ lastId + 1 \in stream'
           /\ stream' \subseteq stream \cup {lastId + 1}
           /\ \A n \in stream : n \in stream' \/ Trimmable(n)'
           /\ \A n \in 1..lastId : Trimmable(n) => Trimmable(n)'
<1>0. lastId \in Nat /\ MaxLen \in Nat /\ stream \subseteq 1..lastId
  BY Positions
<1>1. PICK oldest \in 1..(lastId + 1) :
          /\ stream' = {n \in stream \cup {lastId + 1} : n >= oldest}
          /\ oldest > 1 => MaxLen > 0 /\ Cardinality(stream') >= MaxLen
  BY DEF XAdd
<1>2. lastId' = lastId + 1
  BY DEF XAdd
<1>3. oldest \in Nat /\ oldest >= 1 /\ oldest <= lastId + 1
  BY <1>0, <1>1
<1>4. lastId + 1 \in stream' /\ stream' \subseteq stream \cup {lastId + 1}
  BY <1>0, <1>1, <1>3
<1>5. stream' \subseteq oldest..(lastId + 1)
  <2> SUFFICES ASSUME NEW n \in stream'
               PROVE  n \in oldest..(lastId + 1)
    OBVIOUS
  <2>1. n \in stream \cup {lastId + 1} /\ n >= oldest
    BY <1>1
  <2>2. n \in Nat /\ n <= lastId + 1
    BY <1>0, <2>1
  <2> QED
    BY <1>3, <2>1, <2>2
<1>6. /\ IsFiniteSet(oldest..(lastId + 1))
      /\ Cardinality(oldest..(lastId + 1)) = lastId + 2 - oldest
  BY <1>0, <1>3, FS_Interval
<1>a. IsFiniteSet(stream') /\ Cardinality(stream') <= Cardinality(oldest..(lastId + 1))
  BY <1>5, <1>6, FS_Subset
<1>7. Cardinality(stream') \in Nat /\ Cardinality(stream') <= lastId + 2 - oldest
  BY <1>a, <1>6, FS_CardinalityType
<1>8. ASSUME NEW n \in stream, n \notin stream'
      PROVE  Trimmable(n)'
  <2>1. n \in Nat /\ n >= 1 /\ n <= lastId
    BY <1>0
  <2>2. n < oldest
    BY <1>1, <1>3, <1>8, <2>1
  <2>3. MaxLen > 0 /\ Cardinality(stream') >= MaxLen
    BY <1>1, <1>3, <2>1, <2>2
  <2>4. n + MaxLen <= lastId + 1
    BY <1>0, <1>3, <1>7, <2>1, <2>2, <2>3
  <2> QED
    BY <1>2, <2>3, <2>4 DEF Trimmable
<1>9. ASSUME NEW n \in 1..lastId, Trimmable(n)
      PROVE  Trimmable(n)'
  BY <1>0, <1>2, <1>9 DEF Trimmable
<1> QED
  BY <1>2, <1>4, <1>8, <1>9

\* The effect of a worker's step on the stream, the PEL and what is acked.
LEMMA WorkerEffect ==
    ASSUME TypeOK, NEW w \in Workers, WorkerStep(w)
    PROVE  \/ /\ acked' = acked
              /\ \E c, k \in Nat : XAutoClaim(w, c, k)
           \/ /\ acked' = acked /\ group
              /\ \E k \in Nat : XReadGroup(w, k)
           \/ \E n \in Pel : acked' = acked \cup {n} /\ XAck(n)
           \/ /\ acked' = acked /\ wpc[w] \in {"ack_auto", "ack_read"}
              /\ XAck(Entry(w))
           \/ UNCHANGED <<streamVars, acked>>
<1>0. /\ opt[w].count \in Nat /\ cur[w] \in Nat
      /\ Remaining(w) > 0 => Remaining(w) \in Nat
  BY CallNumbers
<1>1. CASE Autoclaim(w) \/ ClaimFails(w)
  BY <1>0, <1>1 DEF Autoclaim, ClaimFails, workerVars
<1>2. CASE ReadGroup(w) \/ ReadGroupFails(w)
  BY <1>0, <1>2 DEF ReadGroup, ReadGroupFails, ReadDue, workerVars
<1>3. CASE AckMissing(w)
  BY <1>3 DEF AckMissing, workerVars
<1>4. CASE Acknowledge(w) \/ AcknowledgeFails(w)
  BY <1>4 DEF Acknowledge, AcknowledgeFails
<1>5. CASE ClaimBegin(w) \/ LoadRecord(w) \/ LoadFails(w) \/ SetCursor(w)
           \/ WorkerLost(w)
  BY <1>5 DEF ClaimBegin, LoadRecord, LoadFails, SetCursor, WorkerLost, workerVars
<1> QED
  BY <1>1, <1>2, <1>3, <1>4, <1>5 DEF WorkerStep, ClaimStep

\* XREADGROUP moves the group on, over exactly the entries it delivers.
LEMMA ReadAdvances ==
    ASSUME TypeOK, NEW w \in Workers, NEW k \in Nat, XReadGroup(w, k)
    PROVE  /\ delivered' \in Nat /\ delivered <= delivered'
           /\ delivered <= lastId => delivered' <= lastId
           /\ Readable(k) \subseteq Undelivered
           /\ \A n \in Undelivered : n \in Readable(k) <=> n <= delivered'
           /\ Undelivered' = Undelivered \ Readable(k)
<1>0. /\ delivered \in Nat /\ lastId \in Nat /\ stream \subseteq 1..lastId
      /\ Undelivered \subseteq Nat /\ Undelivered \subseteq stream
  <2>1. delivered \in Nat /\ lastId \in Nat /\ stream \subseteq 1..lastId
    BY Positions
  <2>2. Undelivered \subseteq stream
    BY DEF Undelivered
  <2>3. 1..lastId \subseteq Nat
    BY <2>1
  <2> QED
    BY <2>1, <2>2, <2>3
<1>1. /\ Readable(k) \subseteq Undelivered /\ Readable(k) \subseteq Entries
      /\ \A n \in Readable(k), m \in Undelivered : m < n => m \in Readable(k)
  BY RedisPicks
<1>2. stream' = stream
  BY DEF XReadGroup
<1>3. CASE Readable(k) = {}
  <2>1. delivered' = delivered
    BY <1>3 DEF XReadGroup
  <2>2. \A n \in Undelivered : n \in Nat /\ n > delivered
    BY <1>0 DEF Undelivered
  <2>3. Undelivered' = Undelivered
    BY <1>2, <2>1 DEF Undelivered
  <2> QED
    BY <1>0, <1>3, <2>1, <2>2, <2>3
<1>4. CASE Readable(k) # {}
  <2> DEFINE d == Greatest(Readable(k))
  <2>1. d \in Readable(k) /\ \A m \in Readable(k) : m <= d
    BY <1>1, <1>4, GreatestIsGreatest
  <2>2. delivered' = d
    BY <1>4 DEF XReadGroup
  <2> HIDE DEF d
  <2>3. d \in Undelivered /\ d \in Nat /\ d > delivered /\ d <= lastId
    BY <1>0, <1>1, <2>1 DEF Undelivered
  <2>4. \A n \in Undelivered : n \in Readable(k) <=> n <= d
    <3> SUFFICES ASSUME NEW n \in Undelivered
                 PROVE  n \in Readable(k) <=> n <= d
      OBVIOUS
    <3>1. n \in Nat
      BY <1>0
    <3>2. n \in Readable(k) => n <= d
      BY <2>1
    <3>3. n < d => n \in Readable(k)
      BY <1>1, <2>1
    <3>4. n = d => n \in Readable(k)
      BY <2>1
    <3> QED
      BY <2>3, <3>1, <3>2, <3>3, <3>4
  <2>5. Undelivered' = {n \in stream : n > d}
    BY <1>2, <2>2 DEF Undelivered
  <2>6. \A n \in stream : n > d <=> n \in Undelivered /\ ~(n <= d)
    <3> SUFFICES ASSUME NEW n \in stream
                 PROVE  n > d <=> n > delivered /\ ~(n <= d)
      BY DEF Undelivered
    <3>1. n \in Nat
      BY <1>0
    <3> QED
      BY <1>0, <2>3, <3>1
  <2>7. Undelivered' = Undelivered \ Readable(k)
    BY <1>0, <2>4, <2>5, <2>6
  <2> QED
    BY <1>0, <1>1, <2>2, <2>3, <2>4, <2>7
<1> QED
  BY <1>3, <1>4

\* The commands of the workers keep entries where StreamInv has them.
LEMMA WorkerStream ==
    ASSUME TypeOK, StreamInv, NEW w \in Workers, WorkerStep(w)
    PROVE  StreamInv'
<1>0. delivered \in Nat /\ lastId \in Nat /\ 1..lastId \subseteq Entries
  BY Positions
<1>1. /\ lastId' = lastId /\ jobOf' = jobOf /\ stream' = stream /\ group' = group
  BY WorkerFrame
<1>2. /\ \A n \in Entries : n > lastId => jobOf[n] = NoJob
      /\ \A n \in 1..lastId : n \in stream \/ Trimmable(n)
      /\ Pel \subseteq 1..delivered /\ acked \subseteq 1..delivered
      /\ delivered <= lastId /\ Pel \cap acked = {} /\ (~group => delivered = 0)
  BY DEF StreamInv
<1>3. /\ (\A n \in Entries : n > lastId => jobOf[n] = NoJob)'
      /\ (\A n \in 1..lastId : n \in stream \/ Trimmable(n))'
  BY <1>1, <1>2 DEF Trimmable
<1>4. SUFFICES /\ Pel' \subseteq 1..delivered' /\ acked' \subseteq 1..delivered'
               /\ delivered' <= lastId /\ Pel' \cap acked' = {}
               /\ ~group => delivered' = 0
  BY <1>1, <1>3 DEF StreamInv
<1>5. CASE Pel' \subseteq Pel /\ acked' = acked /\ delivered' = delivered
  BY <1>2, <1>5
<1>6. ASSUME NEW c \in Nat, NEW k \in Nat, XAutoClaim(w, c, k)
      PROVE  Pel' \subseteq Pel /\ delivered' = delivered
  <2>1. Examined(c, k) \subseteq Pel
    BY RedisPicks DEF TypeOK
  <2>2. delivered' = delivered
    BY <1>6 DEF XAutoClaim
  <2> SUFFICES ASSUME NEW n \in Entries, owner'[n] # NoOne, n \notin Examined(c, k)
               PROVE  owner[n] # NoOne
    BY <2>1, <2>2 DEF Pel
  <2> QED
    BY <1>6 DEF XAutoClaim
<1>7. ASSUME NEW n, XAck(n)
      PROVE  Pel' \subseteq Pel \ {n} /\ delivered' = delivered
  BY <1>7 DEF XAck, Pel, TypeOK
<1>8. ASSUME NEW n \in Pel, acked' = acked \cup {n}, XAck(n)
      PROVE  /\ Pel' \subseteq 1..delivered' /\ acked' \subseteq 1..delivered'
             /\ delivered' <= lastId /\ Pel' \cap acked' = {}
             /\ ~group => delivered' = 0
  BY <1>2, <1>7, <1>8
<1>9. ASSUME NEW k \in Nat, XReadGroup(w, k), group, acked' = acked
      PROVE  /\ Pel' \subseteq 1..delivered' /\ acked' \subseteq 1..delivered'
             /\ delivered' <= lastId /\ Pel' \cap acked' = {}
             /\ ~group => delivered' = 0
  <2>1. /\ delivered' \in Nat /\ delivered <= delivered' /\ delivered' <= lastId
        /\ Readable(k) \subseteq Undelivered
        /\ \A n \in Undelivered : n \in Readable(k) <=> n <= delivered'
    BY <1>2, <1>9, ReadAdvances
  <2>2. Pel' \subseteq Pel \cup Readable(k)
    BY <1>9 DEF XReadGroup, Pel
  <2>3. Readable(k) \subseteq 1..delivered' /\ Readable(k) \cap 1..delivered = {}
    <3> SUFFICES ASSUME NEW n \in Readable(k)
                 PROVE  n \in 1..delivered' /\ n \notin 1..delivered
      OBVIOUS
    <3>1. n \in stream /\ n > delivered /\ n <= delivered'
      BY <2>1 DEF Undelivered
    <3>2. n \in Nat /\ n >= 1
      BY <3>1, <1>0 DEF TypeOK
    <3> QED
      BY <1>0, <2>1, <3>1, <3>2
  <2>4. 1..delivered \subseteq 1..delivered'
    BY <1>0, <2>1
  <2> QED
    BY <1>2, <1>9, <2>1, <2>2, <2>3, <2>4
<1>10. CASE UNCHANGED <<streamVars, acked>>
  BY <1>5, <1>10 DEF streamVars, Pel
<1> QED
  BY <1>5, <1>6, <1>7, <1>8, <1>9, <1>10, WorkerEffect

\* The effect of an enqueue call's step on the records and the stream.
LEMMA EnqueueEffect ==
    ASSUME TypeInv, NEW g \in Gateways,
           EnqueueStore(g) \/ EnqueueXAdd(g) \/ EnqueueFails(g)
    PROVE  /\ UNCHANGED <<gone, gid, claimVars, workerVars>>
           /\ gpc[g] # "done"
           /\ present \subseteq present'
           /\ \/ UNCHANGED streamVars
              \/ gpc[g] = "xadd" /\ XAdd(gid[g])
BY DEF EnqueueStore, EnqueueXAdd, EnqueueFails, streamVars, storeVars

LEMMA EnqueueStream ==
    ASSUME TypeInv, StreamInv, NEW g \in Gateways,
           EnqueueStore(g) \/ EnqueueXAdd(g) \/ EnqueueFails(g)
    PROVE  StreamInv'
<1>1. CASE UNCHANGED streamVars
  BY <1>1, EnqueueEffect DEF StreamInv, streamVars, workerVars, Pel, Trimmable
<1>2. CASE XAdd(gid[g])
  <2>1. TypeOK /\ lastId + 1 \in Entries
    BY EnqueueEffect, NextIdIsEntry DEF TypeInv
  <2>2. /\ lastId \in Nat /\ stream \subseteq 1..lastId /\ delivered \in Nat
        /\ 1..lastId \subseteq Entries
    BY <2>1, Positions
  <2>3. /\ lastId' = lastId + 1 /\ lastId + 1 \in stream'
        /\ \A n \in stream : n \in stream' \/ Trimmable(n)'
        /\ \A n \in 1..lastId : Trimmable(n) => Trimmable(n)'
    BY <1>2, <2>1, AddedAndTrimmed
  <2>4. /\ delivered' = delivered /\ owner' = owner /\ group' = group /\ acked' = acked
        /\ jobOf' = [jobOf EXCEPT ![lastId + 1] = gid[g]]
    BY <1>2, EnqueueEffect DEF XAdd, workerVars
  <2>5. \A n \in Entries : n > lastId' => jobOf'[n] = NoJob
    <3> SUFFICES ASSUME NEW n \in Entries, n > lastId + 1
                 PROVE  jobOf'[n] = NoJob
      BY <2>3
    <3>1. n \in Nat /\ n > lastId /\ n # lastId + 1
      BY <2>2, EntriesAreNaturals
    <3> QED
      BY <2>1, <2>4, <3>1 DEF StreamInv, TypeOK
  <2>6. \A n \in 1..lastId' : n \in stream' \/ Trimmable(n)'
    <3> SUFFICES ASSUME NEW n \in 1..(lastId + 1)
                 PROVE  n \in stream' \/ Trimmable(n)'
      BY <2>3
    <3>1. n = lastId + 1 \/ n \in 1..lastId
      BY <2>2
    <3> QED
      BY <2>3, <3>1 DEF StreamInv
  <2>7. delivered' <= lastId'
    BY <2>2, <2>3, <2>4 DEF StreamInv
  <2>8. /\ Pel' \subseteq 1..delivered' /\ acked' \subseteq 1..delivered'
        /\ Pel' \cap acked' = {} /\ (~group' => delivered' = 0)
    BY <2>4 DEF StreamInv, Pel
  <2> QED
    BY <2>5, <2>6, <2>7, <2>8 DEF StreamInv
<1> QED
  BY <1>1, <1>2, EnqueueEffect

LEMMA EnqueueRecord ==
    ASSUME TypeInv, RecordInv, NEW g \in Gateways,
           EnqueueStore(g) \/ EnqueueXAdd(g) \/ EnqueueFails(g)
    PROVE  RecordInv'
<1>0. /\ TypeOK /\ lastId \in Nat /\ 1..lastId \subseteq Entries
      /\ lastId + 1 \in Entries
  BY EnqueueEffect, NextIdIsEntry, Positions DEF TypeInv
<1>1. /\ UNCHANGED <<gone, gid, todo, wpc>> /\ present \subseteq present'
  BY EnqueueEffect DEF claimVars
<1>2. /\ \A n \in 1..lastId : jobOf'[n] = jobOf[n]
      /\ \/ lastId' = lastId
         \/ /\ lastId' = lastId + 1 /\ gpc[g] = "xadd"
            /\ jobOf'[lastId + 1] = gid[g]
  <2>1. CASE UNCHANGED streamVars
    BY <2>1 DEF streamVars
  <2>2. CASE gpc[g] = "xadd" /\ XAdd(gid[g])
    <3>1. \A n \in 1..lastId : n # lastId + 1
      BY <1>0
    <3> QED
      BY <1>0, <2>2, <3>1 DEF XAdd, TypeOK
  <2> QED
    BY <2>1, <2>2, EnqueueEffect
<1>3. 1..lastId \subseteq 1..lastId'
  BY <1>0, <1>2
<1>4. \A h \in Gateways : gpc'[h] = "xadd" => gid[h] \in present' \cup gone
  <2> SUFFICES ASSUME NEW h \in Gateways, gpc'[h] = "xadd"
               PROVE  gid[h] \in present' \cup gone
    OBVIOUS
  <2>1. CASE h = g
    BY <1>0, <2>1 DEF EnqueueStore, EnqueueXAdd, EnqueueFails, EnqueueAnswer, TypeOK
  <2>2. CASE h # g
    <3>1. gpc'[h] = gpc[h]
      BY <1>0, <2>2 DEF EnqueueStore, EnqueueXAdd, EnqueueFails, EnqueueAnswer, TypeOK
    <3> QED
      BY <1>1, <3>1 DEF RecordInv
  <2> QED
    BY <2>1, <2>2
<1>5. \A n \in 1..lastId' : jobOf'[n] \in present' \cup gone
  <2> SUFFICES ASSUME NEW n \in 1..lastId'
               PROVE  jobOf'[n] \in present' \cup gone
    OBVIOUS
  <2>1. CASE n \in 1..lastId
    BY <1>1, <1>2, <2>1 DEF RecordInv
  <2>2. CASE n \notin 1..lastId
    <3>1. n = lastId + 1 /\ lastId' = lastId + 1
      BY <1>0, <1>2, <2>2
    <3> QED
      BY <1>0, <1>1, <1>2, <3>1 DEF RecordInv
  <2> QED
    BY <2>1, <2>2
<1>6. ASSUME NEW w \in Workers
      PROVE  /\ todo'[w] \subseteq 1..lastId'
             /\ wpc'[w] \in {"ack_auto", "ack_read"} =>
                   todo'[w] # {} /\ jobOf'[Entry(w)'] \in gone
  <2>1. todo[w] \subseteq 1..lastId
    BY DEF RecordInv
  <2>2. Entry(w)' = Entry(w)
    BY <1>1 DEF Entry
  <2>3. todo[w] # {} => Entry(w) \in todo[w]
    BY <1>0, EntryIsTodo
  <2> QED
    BY <1>1, <1>2, <1>3, <2>1, <2>2, <2>3 DEF RecordInv
<1>7. ASSUME NEW h \in Gateways, gres'[h] = "ok"
      PROVE  gentry'[h] \in 1..lastId' /\ jobOf'[gentry'[h]] = gid[h]
  <2>1. CASE gres[h] = "ok" /\ gentry'[h] = gentry[h]
    BY <1>2, <1>3, <2>1 DEF RecordInv
  <2>2. CASE EnqueueXAdd(g) /\ h = g
    <3>1. gentry'[h] = lastId + 1 /\ lastId' = lastId + 1
      BY <1>0, <2>2 DEF EnqueueXAdd, XAdd, TypeOK
    <3> QED
      BY <1>0, <1>2, <2>2, <3>1
  <2>3. \/ gres[h] = "ok" /\ gentry'[h] = gentry[h]
        \/ EnqueueXAdd(g) /\ h = g
    BY <1>0, <1>7 DEF EnqueueStore, EnqueueXAdd, EnqueueFails, EnqueueAnswer, TypeOK
  <2> QED
    BY <2>1, <2>2, <2>3
<1> QED
  BY <1>1, <1>4, <1>5, <1>6, <1>7 DEF RecordInv

LEMMA EnqueueReach ==
    ASSUME TypeInv, StreamInv, ReachInv, NEW g \in Gateways,
           EnqueueStore(g) \/ EnqueueXAdd(g) \/ EnqueueFails(g)
    PROVE  ReachInv'
<1>0. TypeOK /\ lastId \in Nat /\ stream \subseteq 1..lastId /\ delivered \in Nat
      /\ lastId + 1 \in Entries /\ delivered <= lastId
  BY EnqueueEffect, NextIdIsEntry, Positions DEF TypeInv, StreamInv
<1>1. CASE UNCHANGED streamVars
  BY <1>1, EnqueueEffect
  DEF ReachInv, streamVars, workerVars, Pel, Undelivered, Trimmable
<1>2. CASE XAdd(gid[g])
  <2>1. /\ lastId' = lastId + 1 /\ lastId + 1 \in stream'
        /\ \A n \in stream : n \in stream' \/ Trimmable(n)'
        /\ \A n \in 1..lastId : Trimmable(n) => Trimmable(n)'
    BY <1>0, <1>2, AddedAndTrimmed
  <2>2. /\ delivered' = delivered /\ owner' = owner /\ acked' = acked /\ gone' = gone
        /\ jobOf' = [jobOf EXCEPT ![lastId + 1] = gid[g]]
    BY <1>2, EnqueueEffect DEF XAdd, workerVars
  <2> SUFFICES ASSUME NEW n \in 1..lastId'
               PROVE  \/ n \in Undelivered' \cup Pel' \cup acked'
                      \/ jobOf'[n] \in gone' \/ Trimmable(n)'
    BY DEF ReachInv
  <2>3. CASE n = lastId + 1
    <3>1. n > delivered
      BY <1>0, <2>3
    <3> QED
      BY <2>1, <2>2, <2>3, <3>1 DEF Undelivered
  <2>4. CASE n \in 1..lastId
    <3>1. n # lastId + 1 /\ jobOf'[n] = jobOf[n]
      BY <1>0, <2>2, <2>4 DEF TypeOK
    <3>2. n \in Undelivered => n \in Undelivered' \/ Trimmable(n)'
      BY <2>1, <2>2 DEF Undelivered
    <3>3. Pel' = Pel
      BY <2>2 DEF Pel
    <3> QED
      BY <2>1, <2>2, <2>4, <3>1, <3>2, <3>3 DEF ReachInv
  <2> QED
    BY <1>0, <2>1, <2>3, <2>4
<1> QED
  BY <1>1, <1>2, EnqueueEffect

LEMMA WorkerRecord ==
    ASSUME TypeOK, RecordInv, NEW w \in Workers, WorkerStep(w)
    PROVE  RecordInv'
<1>0. /\ present' = present /\ gone' = gone /\ lastId' = lastId /\ jobOf' = jobOf
      /\ gpc' = gpc /\ gid' = gid /\ gentry' = gentry /\ gres' = gres
  BY WorkerFrame DEF gatewayVars
<1> DEFINE P(v) ==
        /\ todo[v] \subseteq 1..lastId
        /\ wpc[v] \in {"ack_auto", "ack_read"} =>
              todo[v] # {} /\ jobOf[Entry(v)] \in gone
<1>1. \A v \in Workers : P(v)
  BY DEF RecordInv
<1>2. ASSUME NEW v \in Workers, v # w
      PROVE  P(v)'
  <2>1. wpc'[v] = wpc[v] /\ todo'[v] = todo[v]
    BY <1>2, OtherCalls
  <2> QED
    BY <1>0, <1>1, <2>1 DEF Entry
<1>3. todo'[w] \subseteq todo[w] \cup stream
  <2>1. /\ opt[w].count \in Nat /\ cur[w] \in Nat
        /\ Remaining(w) > 0 => Remaining(w) \in Nat
    BY CallNumbers
  <2>2. CASE (\E code : ClaimAnswer(w, code)) \/ WorkerLost(w)
    BY <2>2 DEF ClaimAnswer, WorkerLost, TypeOK
  <2>3. CASE Autoclaim(w)
    BY <2>3 DEF Autoclaim, TypeOK
  <2>4. CASE ReadGroup(w)
    <3>1. Readable(Remaining(w)) \subseteq stream
      BY <2>1, <2>4, RedisPicks DEF ReadGroup, ReadDue, Undelivered
    <3> QED
      BY <2>4, <3>1 DEF ReadGroup, TypeOK
  <2>5. CASE LoadRecord(w)
    BY <2>5 DEF LoadRecord, TypeOK
  <2>6. CASE LoadFails(w) \/ AckMissing(w)
    BY <2>6 DEF LoadFails, AckMissing, TypeOK
  <2>7. CASE ClaimBegin(w) \/ Acknowledge(w) \/ AcknowledgeFails(w)
    BY <2>7 DEF ClaimBegin, Acknowledge, AcknowledgeFails, claimVars
  <2>8. CASE ReadGroupFails(w) \/ SetCursor(w) \/ ClaimFails(w)
    BY <2>2, <2>8 DEF ReadGroupFails, SetCursor, ClaimFails
  <2> QED
    BY <2>2, <2>3, <2>4, <2>5, <2>6, <2>7, <2>8 DEF WorkerStep, ClaimStep
<1>4. ASSUME wpc'[w] \in {"ack_auto", "ack_read"}
      PROVE  todo'[w] # {} /\ jobOf[Entry(w)'] \in gone
  <2>1. \/ wpc[w] \in {"ack_auto", "ack_read"} /\ todo'[w] = todo[w]
        \/ LoadRecord(w) /\ jobOf[Entry(w)] \notin present /\ todo'[w] = todo[w]
    <3>1. CASE (\E code : ClaimAnswer(w, code)) \/ WorkerLost(w)
      BY <1>4, <3>1 DEF ClaimAnswer, WorkerLost, TypeOK
    <3>2. CASE Autoclaim(w) \/ ClaimBegin(w) \/ ReadGroup(w)
      BY <1>4, <3>2 DEF Autoclaim, ClaimBegin, ReadGroup, TypeOK
    <3>3. CASE LoadRecord(w)
      BY <1>4, <3>3 DEF LoadRecord, Hydrating, TypeOK
    <3>4. CASE LoadFails(w) \/ AckMissing(w)
      BY <1>4, <3>4 DEF LoadFails, AckMissing, Hydrating, TypeOK
    <3>5. CASE Acknowledge(w) \/ AcknowledgeFails(w)
      BY <1>4, <3>5 DEF Acknowledge, AcknowledgeFails, claimVars
    <3>6. CASE ReadGroupFails(w)
      BY <1>4, <3>1, <3>6 DEF ReadGroupFails, TypeOK
    <3>7. CASE SetCursor(w) \/ ClaimFails(w)
      BY <3>1, <3>7 DEF SetCursor, ClaimFails
    <3> QED
      BY <3>1, <3>2, <3>3, <3>4, <3>5, <3>6, <3>7 DEF WorkerStep, ClaimStep
  <2>2. todo'[w] = todo[w] => Entry(w)' = Entry(w)
    BY DEF Entry
  <2>3. CASE LoadRecord(w) /\ jobOf[Entry(w)] \notin present /\ todo'[w] = todo[w]
    <3>1. todo[w] # {} /\ Entry(w) \in todo[w]
      BY <2>3, EntryIsTodo DEF LoadRecord, Hydrating
    <3>2. jobOf[Entry(w)] \in present \cup gone
      BY <3>1 DEF RecordInv
    <3> QED
      BY <2>2, <2>3, <3>1, <3>2
  <2> QED
    BY <1>1, <2>1, <2>2, <2>3
<1>5. P(w)'
  BY <1>0, <1>1, <1>3, <1>4 DEF TypeOK
<1>6. \A v \in Workers : P(v)'
  BY <1>2, <1>5
<1> QED
  BY <1>0, <1>6 DEF RecordInv

LEMMA WorkerReach ==
    ASSUME TypeOK, StreamInv, RecordInv, ReachInv, NEW w \in Workers, WorkerStep(w)
    PROVE  ReachInv'
<1>0. /\ gone' = gone /\ lastId' = lastId /\ jobOf' = jobOf /\ stream' = stream
      /\ 1..lastId \subseteq Entries
  BY WorkerFrame, Positions
<1> SUFFICES ASSUME NEW n \in 1..lastId, jobOf[n] \notin gone, ~Trimmable(n)
             PROVE  n \in Undelivered' \cup Pel' \cup acked'
  BY <1>0 DEF ReachInv, Trimmable
<1>1. n \in Undelivered \cup Pel \cup acked /\ n \in Entries /\ n \in stream
  BY <1>0 DEF ReachInv, StreamInv
<1>2. ASSUME acked' = acked, NEW c \in Nat, NEW k \in Nat, XAutoClaim(w, c, k)
      PROVE  n \in Undelivered' \cup Pel' \cup acked'
  <2>1. Undelivered' = Undelivered
    BY <1>2 DEF XAutoClaim, Undelivered
  <2>2. n \in Pel => n \in Pel'
    BY <1>1, <1>2, NamesAssumption DEF XAutoClaim, Pel
  <2> QED
    BY <1>1, <1>2, <2>1, <2>2
<1>3. ASSUME acked' = acked, NEW k \in Nat, XReadGroup(w, k)
      PROVE  n \in Undelivered' \cup Pel' \cup acked'
  <2>1. Undelivered' = Undelivered \ Readable(k)
    BY <1>3, ReadAdvances
  <2>2. n \in Pel \cup Readable(k) => n \in Pel'
    BY <1>1, <1>3, NamesAssumption DEF XReadGroup, Pel
  <2> QED
    BY <1>1, <1>3, <2>1, <2>2
<1>4. ASSUME NEW m, XAck(m)
      PROVE  Undelivered' = Undelivered /\ (n # m /\ n \in Pel => n \in Pel')
  BY <1>1, <1>4 DEF XAck, Undelivered, Pel, TypeOK
<1>5. ASSUME NEW m \in Pel, acked' = acked \cup {m}, XAck(m)
      PROVE  n \in Undelivered' \cup Pel' \cup acked'
  BY <1>1, <1>4, <1>5
<1>6. ASSUME acked' = acked, wpc[w] \in {"ack_auto", "ack_read"}, XAck(Entry(w))
      PROVE  n \in Undelivered' \cup Pel' \cup acked'
  <2>1. jobOf[Entry(w)] \in gone
    BY <1>6 DEF RecordInv
  <2> QED
    BY <1>1, <1>4, <1>6, <2>1
<1>7. ASSUME UNCHANGED <<streamVars, acked>>
      PROVE  n \in Undelivered' \cup Pel' \cup acked'
  BY <1>1, <1>7 DEF streamVars, Undelivered, Pel
<1> QED
  BY <1>2, <1>3, <1>5, <1>6, <1>7, WorkerEffect

\* With groups that start at the beginning, creating one again moves nothing.
LEMMA GroupStartsAtZero ==
    ASSUME StartIds \subseteq {0}, StreamInv, EnsureConsumerGroup
    PROVE  delivered' = delivered
BY DEF StreamInv, EnsureConsumerGroup, XGroupCreate

LEMMA PlaceStep ==
    ASSUME StartIds \subseteq {0}
    PROVE  TypeInv /\ PlaceInv /\ [Next]_vars => PlaceInv'
<1> SUFFICES ASSUME TypeInv, PlaceInv, [Next]_vars
             PROVE  PlaceInv'
  OBVIOUS
<1>0. TypeOK /\ StreamInv /\ RecordInv /\ ReachInv
  BY DEF TypeInv, PlaceInv
<1>1. ASSUME NEW g \in Gateways,
             EnqueueStore(g) \/ EnqueueXAdd(g) \/ EnqueueFails(g)
      PROVE  PlaceInv'
  BY <1>0, <1>1, EnqueueStream, EnqueueRecord, EnqueueReach DEF PlaceInv
<1>2. ASSUME NEW w \in Workers, WorkerStep(w)
      PROVE  PlaceInv'
  BY <1>0, <1>2, WorkerStream, WorkerRecord, WorkerReach DEF PlaceInv
<1>3. ASSUME /\ UNCHANGED <<lastId, jobOf, stream, delivered, owner, gatewayVars,
                            claimVars, workerVars>>
             /\ gone \subseteq gone' /\ present \cup gone = present' \cup gone'
             /\ group => group'
      PROVE  PlaceInv'
  <2>1. StreamInv'
    BY <1>0, <1>3 DEF StreamInv, Pel, Trimmable, workerVars
  <2>2. RecordInv'
    BY <1>0, <1>3 DEF RecordInv, Entry, gatewayVars, claimVars
  <2>3. ReachInv'
    BY <1>0, <1>3 DEF ReachInv, Undelivered, Pel, Trimmable, workerVars
  <2> QED
    BY <2>1, <2>2, <2>3 DEF PlaceInv
<1>4. CASE EnsureConsumerGroup
  <2>1. delivered' = delivered
    BY <1>0, <1>4, GroupStartsAtZero
  <2> QED
    BY <1>3, <1>4, <2>1 DEF EnsureConsumerGroup, XGroupCreate, storeVars
<1>5. ASSUME NEW id \in Expiring, Vanish(id)
      PROVE  PlaceInv'
  BY <1>3, <1>5 DEF Vanish, streamVars
<1>6. ASSUME NEW n \in Entries, GoIdle(n)
      PROVE  PlaceInv'
  BY <1>3, <1>6 DEF GoIdle, storeVars
<1>7. CASE UNCHANGED vars
  BY <1>3, <1>7 DEF vars, storeVars, streamVars
<1> QED
  BY <1>1, <1>2, <1>4, <1>5, <1>6, <1>7 DEF Next, WorkerStep

LEMMA PlaceInit == Init => PlaceInv
<1> SUFFICES ASSUME Init
             PROVE  PlaceInv
  OBVIOUS
<1>1. 1..lastId = {} /\ Pel = {}
  BY DEF Init, Pel
<1>2. StreamInv
  BY <1>1 DEF Init, StreamInv
<1>3. RecordInv
  BY <1>1 DEF Init, RecordInv
<1>4. ReachInv
  BY <1>1 DEF ReachInv
<1> QED
  BY <1>2, <1>3, <1>4 DEF PlaceInv

\* A job that was answered OK stays within the workers' reach until one of
\* them has acknowledged it: no interleaving of claims, takeovers, lost
\* replies, lost workers and expiring records loses it.  Only a record
\* that is gone and a stream that has outgrown its bound end the promise.
\* The group reads the stream from its beginning, as "0-0" asks for.
THEOREM JobsStayReachable ==
    ASSUME StartIds \subseteq {0}
    PROVE  Spec => []EnqueuedJobIsReachable
<1>1. PlaceInv => EnqueuedJobIsReachable
  BY DEF PlaceInv, RecordInv, ReachInv, EnqueuedJobIsReachable
<1>2. TypeInv /\ PlaceInv /\ [Next]_vars => PlaceInv'
  BY PlaceStep
<1> QED
  BY <1>1, <1>2, TypeInit, TypeStep, PlaceInit, PTL DEF Spec

-----------------------------------------------------------------------------
(* Refinement of JobDelivery                                               *)

PlaceMap == [n \in Entries |-> PlaceOf(n)]
VanishedMap == {n \in Entries : jobOf[n] \in gone}

\* The places of the entries tell the stream's state.
LEMMA PlacesTell ==
    ASSUME TypeOK, StreamInv, NEW n \in Entries
    PROVE  /\ PlaceOf(n) = "unpublished" <=> n > lastId
           /\ PlaceOf(n) = "waiting" <=> n \in Undelivered
           /\ PlaceOf(n) \in Workers <=> n \in Pel
           /\ n \in Pel => /\ PlaceOf(n) = owner[n] /\ n <= delivered
                           /\ n <= lastId /\ n \notin acked
           /\ n \in Undelivered => n <= lastId /\ n \notin acked
<1>0. /\ lastId \in Nat /\ delivered \in Nat /\ n \in Nat /\ delivered <= lastId
      /\ stream \subseteq 1..lastId
  BY Positions, EntriesAreNaturals DEF StreamInv
<1>1. n \in Pel => n <= delivered /\ n <= lastId /\ n \notin acked
  BY <1>0 DEF StreamInv
<1>2. n \in Undelivered => n <= lastId /\ n > delivered /\ n \notin acked
  BY <1>0 DEF StreamInv, Undelivered
<1>3. n \in Pel => n \notin Undelivered
  BY <1>0, <1>1, <1>2
<1>4. owner[n] # NoOne <=> n \in Pel
  BY DEF Pel
<1>5. owner[n] \in Workers \cup {NoOne}
  BY DEF TypeOK
<1>6. CASE n > lastId
  BY <1>0, <1>1, <1>2, <1>6, NamesAssumption DEF PlaceOf
<1>7. CASE ~(n > lastId)
  BY <1>1, <1>2, <1>3, <1>4, <1>5, <1>7, NamesAssumption DEF PlaceOf
<1> QED
  BY <1>6, <1>7

\* The sets JobDelivery speaks of, in the stream's terms.
LEMMA DeliverySets ==
    ASSUME TypeOK, StreamInv
    PROVE  /\ Delivery!WaitingJobs = Undelivered
           /\ Delivery!Taken = Pel
           /\ Delivery!Published = 1..lastId
<1>0. /\ lastId \in Nat /\ 1..lastId \subseteq Entries /\ stream \subseteq 1..lastId
      /\ Entries \subseteq Nat
  BY Positions, EntriesAreNaturals
<1>1. Delivery!WaitingJobs = Undelivered
  <2>1. Undelivered \subseteq Entries
    BY <1>0 DEF Undelivered
  <2> QED
    BY <2>1, PlacesTell DEF Delivery!WaitingJobs
<1>2. Delivery!Taken = Pel
  <2>1. Pel \subseteq Entries
    BY DEF Pel
  <2> QED
    BY <2>1, PlacesTell DEF Delivery!Taken
<1>3. Delivery!Published = 1..lastId
  <2>1. \A n \in Entries : PlaceOf(n) # "unpublished" <=> ~(n > lastId)
    BY PlacesTell
  <2>2. \A n \in Entries : ~(n > lastId) <=> n \in 1..lastId
    BY <1>0 DEF Entries
  <2> QED
    BY <1>0, <2>1, <2>2 DEF Delivery!Published
<1> QED
  BY <1>1, <1>2, <1>3

LEMMA RefinesInit == Init => Delivery!JInit
<1> SUFFICES ASSUME Init
             PROVE  Delivery!JInit
  OBVIOUS
<1>1. \A n \in Entries : n > lastId
  BY EntriesAreNaturals DEF Init, Entries
<1>2. \A n \in Entries : PlaceOf(n) = "unpublished"
  BY <1>1 DEF PlaceOf
<1>3. {n \in Entries : jobOf[n] \in gone} = {}
  BY DEF Init
<1> QED
  BY <1>2, <1>3 DEF Delivery!JInit

\* Records that have gone stay gone, and an entry without one has a record
\* to come.
LEMMA VanishedGrows ==
    ASSUME TypeInv, StreamInv, [Next]_vars
    PROVE  VanishedMap \subseteq VanishedMap'
<1>1. gone \subseteq gone' /\ gone \subseteq Ids
  <2>1. gone \subseteq gone'
    BY WorkerFrame, EnqueueEffect DEF Next, WorkerStep, EnsureConsumerGroup, Vanish,
       GoIdle, vars, storeVars
  <2> QED
    BY <2>1 DEF TypeInv, TypeOK
<1>2. ASSUME NEW n \in Entries, jobOf[n] \in gone
      PROVE  jobOf'[n] = jobOf[n]
  <2>1. CASE jobOf' = jobOf
    BY <2>1
  <2>2. ASSUME NEW g \in Gateways, XAdd(gid[g])
        PROVE  jobOf'[n] = jobOf[n]
    <3>1. n # lastId + 1
      BY <1>1, <1>2, NamesAssumption, Positions, EntriesAreNaturals DEF StreamInv, TypeInv
    <3> QED
      BY <2>2, <3>1 DEF XAdd, TypeInv, TypeOK
  <2> QED
    BY <2>1, <2>2, WorkerFrame, EnqueueEffect
    DEF Next, WorkerStep, EnsureConsumerGroup, XGroupCreate, Vanish, GoIdle, vars, streamVars
<1> QED
  BY <1>1, <1>2 DEF VanishedMap

\* An entry added is a job published, and what XADD trims is given up.
LEMMA AddIsPublish ==
    ASSUME TypeInv, StreamInv, NEW g \in Gateways, gpc[g] # "done", XAdd(gid[g]),
           acked' = acked
    PROVE  Delivery!Publish(lastId + 1)
<1>0. /\ TypeOK /\ lastId \in Nat /\ delivered \in Nat /\ lastId + 1 \in Entries
      /\ stream \subseteq 1..lastId /\ delivered <= lastId /\ MaxLen \in Nat
      /\ Entries \subseteq Nat
  BY NextIdIsEntry, Positions, EntriesAreNaturals DEF TypeInv, StreamInv
<1>1. /\ lastId' = lastId + 1 /\ lastId + 1 \in stream'
      /\ stream' \subseteq stream \cup {lastId + 1}
      /\ \A n \in stream : n \in stream' \/ Trimmable(n)'
  BY <1>0, AddedAndTrimmed
<1>2. owner' = owner /\ delivered' = delivered
  BY DEF XAdd
<1> DEFINE S == {m \in Undelivered : m \notin stream'}
<1>3. /\ Delivery!WaitingJobs = Undelivered
      /\ Delivery!Published = 1..lastId
  BY <1>0, DeliverySets
<1>4. \A m \in S : Delivery!Outgrown(m, 1..lastId \cup {lastId + 1})
  <2> SUFFICES ASSUME NEW m \in Undelivered, m \notin stream'
               PROVE  Delivery!Outgrown(m, 1..lastId \cup {lastId + 1})
    OBVIOUS
  <2>a. m \in stream
    BY DEF Undelivered
  <2>b. m \in Nat /\ m >= 1
    BY <2>a, <1>0
  <2>1. Trimmable(m)' /\ m \in Nat /\ m >= 1
    BY <1>1, <2>a, <2>b
  <2>2. MaxLen > 0 /\ m + MaxLen <= lastId + 1
    BY <1>1, <2>1 DEF Trimmable
  <2>3. m + MaxLen \in 1..lastId \cup {lastId + 1}
    BY <1>0, <2>1, <2>2
  <2> QED
    BY <2>2, <2>3 DEF Delivery!Outgrown
<1>5. ASSUME NEW m \in Entries
      PROVE  PlaceOf(m)' = IF m = lastId + 1 THEN "waiting"
                           ELSE IF m \in S THEN "gone" ELSE PlaceOf(m)
  <2>0. m \in Nat
    BY <1>0
  <2>1. CASE m = lastId + 1
    <3>1. owner[m] = NoOne
      BY <1>0, <2>1 DEF StreamInv, Pel
    <3>2. m \in Undelivered' /\ ~(m > lastId')
      BY <1>0, <1>1, <1>2, <2>1 DEF Undelivered
    <3> QED
      BY <1>2, <2>1, <3>1, <3>2 DEF PlaceOf
  <2>2. CASE m > lastId + 1
    <3>1. m > lastId /\ m > lastId' /\ m # lastId + 1 /\ m \notin S
      BY <1>0, <1>1, <2>0, <2>2 DEF Undelivered
    <3> QED
      BY <3>1 DEF PlaceOf
  <2>3. CASE m <= lastId
    <3>1. ~(m > lastId) /\ ~(m > lastId') /\ m # lastId + 1
      BY <1>0, <1>1, <2>0, <2>3
    <3>2. m \in Undelivered' <=> m \in Undelivered /\ m \in stream'
      BY <1>1, <1>2, <3>1 DEF Undelivered
    <3>3. m \in Undelivered => owner[m] = NoOne /\ m \notin acked
      BY <1>0, PlacesTell DEF Undelivered, StreamInv, Pel
    <3> QED
      BY <1>2, <3>1, <3>2, <3>3 DEF PlaceOf
  <2> QED
    BY <1>0, <2>0, <2>1, <2>2, <2>3
<1>6. S \in SUBSET Undelivered
  OBVIOUS
<1>7. /\ lastId + 1 \notin 1..lastId
      /\ \A m \in Entries : m < lastId + 1 => m \in 1..lastId
  BY <1>0 DEF Entries
<1> HIDE DEF S
<1> QED
  BY <1>3, <1>4, <1>5, <1>6, <1>7 DEF Delivery!Publish

\* A step that touches neither the PEL nor the positions moves no job.
LEMMA NothingMoves ==
    ASSUME TypeOK, UNCHANGED <<lastId, stream, delivered, owner, acked>>
    PROVE  PlaceMap' = PlaceMap
BY DEF PlaceMap, PlaceOf, Undelivered

\* The three commands of the workers: read, take over, acknowledge.
LEMMA ReadIsHandOut ==
    ASSUME TypeOK, StreamInv, NEW w \in Workers, NEW k \in Nat, XReadGroup(w, k),
           acked' = acked
    PROVE  Delivery!HandOut(w)
<1>1. Delivery!WaitingJobs = Undelivered
  BY DeliverySets
<1>2. /\ Readable(k) \subseteq Undelivered
      /\ Undelivered' = Undelivered \ Readable(k)
      /\ \A n \in Readable(k), m \in Undelivered : m < n => m \in Readable(k)
  BY ReadAdvances, RedisPicks
<1>3. ASSUME NEW n \in Entries
      PROVE  PlaceOf(n)' = IF n \in Readable(k) THEN w ELSE PlaceOf(n)
  <2>1. owner'[n] = IF n \in Readable(k) THEN w ELSE owner[n]
    BY DEF XReadGroup
  <2>2. lastId' = lastId /\ (n \in Readable(k) => ~(n > lastId))
    BY <1>2, Positions, EntriesAreNaturals DEF XReadGroup, Undelivered
  <2> QED
    BY <1>2, <2>1, <2>2, NamesAssumption DEF PlaceOf
<1> QED
  BY <1>1, <1>2, <1>3 DEF Delivery!HandOut, Delivery!Move

LEMMA AutoClaimIsTakeOver ==
    ASSUME TypeOK, StreamInv, NEW w \in Workers, NEW c \in Nat, NEW k \in Nat,
           XAutoClaim(w, c, k), acked' = acked
    PROVE  Delivery!TakeOver(w)
<1> DEFINE S == Examined(c, k) \cap stream
           D == Examined(c, k) \ stream
<1>0. Examined(c, k) \subseteq Pel
  BY RedisPicks DEF TypeOK
<1>1. Delivery!Taken = Pel /\ Delivery!Published = 1..lastId
  BY DeliverySets
<1>2. ASSUME NEW n \in D
      PROVE  Delivery!Outgrown(n, 1..lastId)
  <2>1. n \in Entries /\ n \in Nat /\ n <= lastId /\ lastId \in Nat /\ n >= 1
        /\ MaxLen \in Nat
    BY <1>0, PlacesTell, EntriesAreNaturals, Positions DEF Pel, Entries
  <2>2. Trimmable(n)
    BY <1>2, <2>1 DEF StreamInv
  <2>3. n + MaxLen \in 1..lastId
    BY <2>1, <2>2 DEF Trimmable
  <2> QED
    BY <2>2, <2>3 DEF Trimmable, Delivery!Outgrown
<1>3. ASSUME NEW n \in Entries
      PROVE  PlaceOf(n)' = IF n \in D THEN "gone" ELSE IF n \in S THEN w ELSE PlaceOf(n)
  <2>1. owner'[n] = IF n \in D THEN NoOne ELSE IF n \in S THEN w ELSE owner[n]
    BY DEF XAutoClaim
  <2>2. lastId' = lastId /\ Undelivered' = Undelivered
    BY DEF XAutoClaim, Undelivered
  <2>3. n \in Examined(c, k) => ~(n > lastId) /\ n \notin acked
    BY <1>0, PlacesTell, Positions, EntriesAreNaturals DEF Pel
  <2>4. n \in D => n \notin Undelivered
    BY DEF Undelivered
  <2> QED
    BY <2>1, <2>2, <2>3, <2>4, NamesAssumption DEF PlaceOf
<1>4. S \in SUBSET Pel /\ D \in SUBSET Pel
  BY <1>0
<1> HIDE DEF S, D
<1>5. [n \in Entries |-> PlaceOf(n)]' =
          [n \in Entries |-> IF n \in D THEN "gone"
                             ELSE IF n \in S THEN w ELSE [m \in Entries |-> PlaceOf(m)][n]]
  BY <1>3
<1>6. \A n \in D : Delivery!Outgrown(n, Delivery!Published)
  BY <1>1, <1>2
<1>7. S \in SUBSET Delivery!Taken /\ D \in SUBSET Delivery!Taken
  BY <1>1, <1>4
<1> QED
  BY <1>5, <1>6, <1>7 DEF Delivery!TakeOver

\* XACK of an entry of the PEL ends it: done when a worker asked for it,
\* given up otherwise.
LEMMA AckMoves ==
    ASSUME TypeOK, StreamInv, NEW n \in Pel, XAck(n), acked' \in {acked, acked \cup {n}},
           NEW m \in Entries
    PROVE  PlaceOf(m)' = IF m = n THEN IF n \in acked' THEN "done" ELSE "gone"
                         ELSE PlaceOf(m)
<1>1. n \in Entries /\ ~(n > lastId) /\ n \notin Undelivered
  BY PlacesTell, Positions, EntriesAreNaturals DEF Pel, Undelivered
<1>2. owner'[m] = IF m = n THEN NoOne ELSE owner[m]
  BY DEF XAck, TypeOK
<1>3. lastId' = lastId /\ Undelivered' = Undelivered
  BY DEF XAck, Undelivered
<1>4. m # n => (m \in acked' <=> m \in acked)
  OBVIOUS
<1> QED
  BY <1>1, <1>2, <1>3, <1>4 DEF PlaceOf

LEMMA WorkerRefines ==
    ASSUME TypeOK, StreamInv, RecordInv, NEW w \in Workers, WorkerStep(w)
    PROVE  \/ Delivery!HandOut(w) \/ Delivery!TakeOver(w)
           \/ \E n \in Entries : Delivery!Acknowledge(n) \/ Delivery!GiveUp(n)
           \/ PlaceMap' = PlaceMap
<1>1. Delivery!Taken = Pel /\ Pel \subseteq Entries
  BY DeliverySets DEF Pel
<1>2. ASSUME NEW n \in Pel, acked' = acked \cup {n}, XAck(n)
      PROVE  Delivery!Acknowledge(n)
  <2>1. \A m \in Entries : PlaceOf(m)' = IF m \in {n} THEN "done" ELSE PlaceOf(m)
    BY <1>2, AckMoves
  <2> QED
    BY <1>1, <2>1 DEF Delivery!Acknowledge, Delivery!Move
<1>3. ASSUME acked' = acked, wpc[w] \in {"ack_auto", "ack_read"}, XAck(Entry(w))
      PROVE  (Delivery!GiveUp(Entry(w)) /\ Entry(w) \in Entries) \/ PlaceMap' = PlaceMap
  <2>1. jobOf[Entry(w)] \in gone /\ Entry(w) \in Entries
    BY <1>3, EntryIsTodo DEF RecordInv
  <2>2. CASE Entry(w) \in Pel
    <3>1. Entry(w) \notin acked'
      BY <1>3, <2>2 DEF StreamInv
    <3>2. \A m \in Entries :
              PlaceOf(m)' = IF m \in {Entry(w)} THEN "gone" ELSE PlaceOf(m)
      BY <1>3, <2>2, <3>1, AckMoves
    <3> QED
      BY <1>1, <2>1, <2>2, <3>2 DEF Delivery!GiveUp, Delivery!Move
  <2>3. CASE Entry(w) \notin Pel
    <3>1. owner' = owner
      BY <1>3, <2>1, <2>3 DEF XAck, Pel, TypeOK
    <3> QED
      BY <1>3, <3>1, NothingMoves DEF XAck
  <2> QED
    BY <2>2, <2>3
<1>4. CASE UNCHANGED <<streamVars, acked>>
  BY <1>4, NothingMoves DEF streamVars
<1> QED
  BY <1>1, <1>2, <1>3, <1>4, WorkerEffect, ReadIsHandOut, AutoClaimIsTakeOver

LEMMA RefinesNext ==
    ASSUME StartIds \subseteq {0}
    PROVE  TypeInv /\ PlaceInv /\ [Next]_vars
               => [Delivery!JNext]_<<PlaceMap, VanishedMap>>
<1> SUFFICES ASSUME TypeInv, PlaceInv, [Next]_vars
             PROVE  Delivery!JNext
  OBVIOUS
<1>0. TypeOK /\ StreamInv /\ RecordInv
  BY DEF TypeInv, PlaceInv
<1>1. VanishedMap \subseteq VanishedMap'
  BY <1>0, VanishedGrows
<1>2. CASE PlaceMap' = PlaceMap
  BY <1>1, <1>2 DEF Delivery!JNext, Delivery!Vanish, PlaceMap, VanishedMap
<1>3. ASSUME NEW w \in Workers, WorkerStep(w)
      PROVE  Delivery!JNext
  BY <1>0, <1>1, <1>2, <1>3, WorkerRefines DEF Delivery!JNext, VanishedMap
<1>4. ASSUME NEW g \in Gateways,
             EnqueueStore(g) \/ EnqueueXAdd(g) \/ EnqueueFails(g)
      PROVE  Delivery!JNext
  <2>1. gpc[g] # "done" /\ acked' = acked
    BY <1>4, EnqueueEffect DEF workerVars
  <2>2. CASE UNCHANGED streamVars
    BY <1>0, <1>2, <2>1, <2>2, NothingMoves DEF streamVars
  <2>3. CASE XAdd(gid[g])
    <3>1. Delivery!Publish(lastId + 1) /\ lastId + 1 \in Entries
      BY <1>0, <2>1, <2>3, AddIsPublish, NextIdIsEntry
    <3> QED
      BY <1>1, <3>1 DEF Delivery!JNext, VanishedMap
  <2> QED
    BY <1>4, <2>2, <2>3, EnqueueEffect
<1>5. CASE EnsureConsumerGroup
  <2>1. delivered' = delivered
    BY <1>0, <1>5, GroupStartsAtZero
  <2> QED
    BY <1>0, <1>2, <1>5, <2>1, NothingMoves
    DEF EnsureConsumerGroup, XGroupCreate, workerVars
<1>6. ASSUME NEW id \in Expiring, Vanish(id)
      PROVE  Delivery!JNext
  BY <1>0, <1>2, <1>6, NothingMoves DEF Vanish, streamVars, workerVars
<1>7. ASSUME NEW n \in Entries, GoIdle(n)
      PROVE  Delivery!JNext
  BY <1>0, <1>2, <1>7, NothingMoves DEF GoIdle, workerVars
<1>8. CASE UNCHANGED vars
  BY <1>0, <1>2, <1>8, NothingMoves DEF vars, streamVars, workerVars
<1> QED
  BY <1>3, <1>4, <1>5, <1>6, <1>7, <1>8 DEF Next, WorkerStep

\* The queue implements the at-least-once queue of JobDelivery: every
\* command of an enqueue, a claim or an acknowledgement is a job published,
\* handed out, taken over, acknowledged or given up for a reason, or moves
\* no job at all.
THEOREM QueueImplementsDelivery ==
    ASSUME StartIds \subseteq {0}
    PROVE  Spec => ImplementsDelivery
<1>1. TypeInv /\ PlaceInv /\ [Next]_vars => PlaceInv'
  BY PlaceStep
<1>2. TypeInv /\ PlaceInv /\ [Next]_vars
          => [Delivery!JNext]_<<PlaceMap, VanishedMap>>
  BY RefinesNext
<1> QED
  BY <1>1, <1>2, TypeInit, TypeStep, PlaceInit, RefinesInit, PTL
  DEF Spec, ImplementsDelivery, Delivery!JSpec, PlaceMap, VanishedMap
=============================================================================
