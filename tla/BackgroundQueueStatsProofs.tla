---------------------- MODULE BackgroundQueueStatsProofs ----------------------
(***************************************************************************)
(* The queue statistics for any number of calls, groups, ids, page sizes   *)
(* and Redis versions: types, that paging over a changing stream counts no *)
(* entry twice and misses none that stays, and that the counts are exact   *)
(* when nothing changes.                                                   *)
(***************************************************************************)
EXTENDS BackgroundQueueStats, FiniteSetTheorems, WellFoundedInduction, TLAPS

-----------------------------------------------------------------------------
(* The order of ids                                                        *)

\* Earlier is a strict total order.
LEMMA EarlierOrders ==
    ASSUME NEW a \in Nat \X Nat, NEW b \in Nat \X Nat, NEW c \in Nat \X Nat
    PROVE  /\ ~Earlier(a, a)
           /\ Earlier(a, b) /\ Earlier(b, c) => Earlier(a, c)
           /\ Earlier(a, b) => ~Earlier(b, a)
           /\ ~Earlier(a, b) /\ ~Earlier(b, a) => a = b
BY DEF Earlier

\* What is no later than something no later is no later.
LEMMA NotEarlierChains ==
    ASSUME NEW a \in Nat \X Nat, NEW b \in Nat \X Nat, NEW c \in Nat \X Nat
    PROVE  /\ ~Earlier(b, a) /\ ~Earlier(c, b) => ~Earlier(c, a)
           /\ ~Earlier(b, a) /\ Earlier(b, c) => Earlier(a, c)
           /\ Earlier(a, b) /\ ~Earlier(c, b) => Earlier(a, c)
BY DEF Earlier

\* The code compares ids as Redis does.
LEMMA LessIsEarlier ==
    ASSUME NEW a, NEW b
    PROVE  stream_id_less_than(a, b) <=> Earlier(a, b)
BY DEF stream_id_less_than, Earlier

LEMMA IdsArePairs ==
    /\ StreamIds \subseteq Nat \X Nat /\ Origin \in Nat \X Nat
    /\ \A n \in StreamIds : Earlier(Origin, n)
<1>1. Origin \in Nat \X Nat
  BY DEF Origin
<1>2. ASSUME NEW n \in StreamIds PROVE Earlier(Origin, n)
  <2>1. n \in Nat \X Nat /\ n # <<0, 0>>
    BY IdsAssumption DEF Origin
  <2> QED
    BY <2>1 DEF Earlier, Origin
<1> QED
  BY <1>1, <1>2, IdsAssumption

\* A nonempty set of naturals has a least member.
LEMMA HasLeast ==
    ASSUME NEW S, S \subseteq Nat, S # {}
    PROVE  \E n \in S : \A m \in S : n <= m
<1>1. PICK n \in S : \A m \in S : ~(<<m, n>> \in OpToRel(<, Nat))
  BY NatLessThanWellFounded, WFMin
<1>2. \A m \in S : <<m, n>> \in Nat \X Nat
  OBVIOUS
<1>3. \A m \in S : ~(m < n)
  BY <1>1, <1>2 DEF OpToRel
<1> QED
  BY <1>3

\* A nonempty finite set of ids has a first member: the one with the fewest
\* before it.
LEMMA HasFirst ==
    ASSUME NEW S, S \subseteq Nat \X Nat, IsFiniteSet(S), S # {}
    PROVE  \E n \in S : \A m \in S : ~Earlier(m, n)
<1> DEFINE Ahead(n) == {m \in S : Earlier(m, n)}
           Ranks == {Cardinality(Ahead(n)) : n \in S}
<1>1. \A n \in S : IsFiniteSet(Ahead(n)) /\ Cardinality(Ahead(n)) \in Nat
  <2>1. \A n \in S : Ahead(n) \subseteq S
    OBVIOUS
  <2> QED
    BY <2>1, FS_Subset, FS_CardinalityType
<1>2. Ranks \subseteq Nat /\ Ranks # {}
  BY <1>1
<1>3. PICK r \in Ranks : \A q \in Ranks : r <= q
  BY <1>2, HasLeast
<1>4. PICK n \in S : r = Cardinality(Ahead(n))
  BY <1>3
<1>5. ASSUME NEW m \in S, Earlier(m, n) PROVE FALSE
  <2>1. Ahead(m) \subseteq Ahead(n) /\ m \in Ahead(n) /\ m \notin Ahead(m)
    BY <1>5, EarlierOrders
  <2>2. Cardinality(Ahead(m)) <= Cardinality(Ahead(n)) /\ Cardinality(Ahead(m)) # Cardinality(Ahead(n))
    BY <2>1, <1>1, FS_Subset
  <2>3. Cardinality(Ahead(m)) \in Ranks
    OBVIOUS
  <2>4. Cardinality(Ahead(n)) <= Cardinality(Ahead(m))
    BY <1>3, <1>4, <2>3
  <2>5. Cardinality(Ahead(n)) \in Nat /\ Cardinality(Ahead(m)) \in Nat
    BY <1>1
  <2> QED
    BY <2>2, <2>4, <2>5
<1> QED
  BY <1>5

\* And a last one, with the fewest after it.
LEMMA HasLast ==
    ASSUME NEW S, S \subseteq Nat \X Nat, IsFiniteSet(S), S # {}
    PROVE  LatestId(S) \in S /\ \A m \in S : ~Earlier(LatestId(S), m)
<1> DEFINE Behind(n) == {m \in S : Earlier(n, m)}
           Ranks == {Cardinality(Behind(n)) : n \in S}
<1>1. \A n \in S : IsFiniteSet(Behind(n)) /\ Cardinality(Behind(n)) \in Nat
  <2>1. \A n \in S : Behind(n) \subseteq S
    OBVIOUS
  <2> QED
    BY <2>1, FS_Subset, FS_CardinalityType
<1>2. Ranks \subseteq Nat /\ Ranks # {}
  BY <1>1
<1>3. PICK r \in Ranks : \A q \in Ranks : r <= q
  BY <1>2, HasLeast
<1>4. PICK n \in S : r = Cardinality(Behind(n))
  BY <1>3
<1>5. ASSUME NEW m \in S, Earlier(n, m) PROVE FALSE
  <2>1. Behind(m) \subseteq Behind(n) /\ m \in Behind(n) /\ m \notin Behind(m)
    BY <1>5, EarlierOrders
  <2>2. Cardinality(Behind(m)) <= Cardinality(Behind(n)) /\ Cardinality(Behind(m)) # Cardinality(Behind(n))
    BY <2>1, <1>1, FS_Subset
  <2>3. Cardinality(Behind(m)) \in Ranks
    OBVIOUS
  <2>4. Cardinality(Behind(n)) <= Cardinality(Behind(m))
    BY <1>3, <1>4, <2>3
  <2>5. Cardinality(Behind(n)) \in Nat /\ Cardinality(Behind(m)) \in Nat
    BY <1>1
  <2> QED
    BY <2>2, <2>4, <2>5
<1>6. \E x \in S : \A m \in S : ~Earlier(x, m)
  BY <1>5
<1> QED
  BY <1>6 DEF LatestId

-----------------------------------------------------------------------------
(* Pages                                                                   *)

\* FirstIds(S, k) is the beginning of S, and all of it when shorter than k.
LEMMA FirstIdsIsPrefix ==
    ASSUME NEW S, S \subseteq Nat \X Nat, IsFiniteSet(S), NEW k \in Nat
    PROVE  /\ FirstIds(S, k) \subseteq S /\ IsFiniteSet(FirstIds(S, k))
           /\ \A n \in FirstIds(S, k), m \in S : Earlier(m, n) => m \in FirstIds(S, k)
           /\ Cardinality(FirstIds(S, k)) < k => FirstIds(S, k) = S
<1> DEFINE F == FirstIds(S, k)
           Ahead(n) == {m \in S : Earlier(m, n)}
<1>1. F \subseteq S /\ \A n \in S : n \in F <=> Cardinality(Ahead(n)) < k
  BY DEF FirstIds
<1>2. IsFiniteSet(F) /\ Cardinality(F) \in Nat
  BY <1>1, FS_Subset, FS_CardinalityType
<1>3. \A n \in S : IsFiniteSet(Ahead(n)) /\ Cardinality(Ahead(n)) \in Nat
  <2>1. \A n \in S : Ahead(n) \subseteq S
    OBVIOUS
  <2> QED
    BY <2>1, FS_Subset, FS_CardinalityType
<1> HIDE DEF F
<1>4. ASSUME NEW n \in F, NEW m \in S, Earlier(m, n)
      PROVE  m \in F
  <2>1. n \in S
    BY <1>1
  <2>2. Ahead(m) \subseteq Ahead(n)
    BY <2>1, <1>4, EarlierOrders
  <2>3. Cardinality(Ahead(m)) <= Cardinality(Ahead(n))
    BY <2>1, <2>2, <1>3, FS_Subset
  <2>4. Cardinality(Ahead(n)) < k
    BY <2>1, <1>1
  <2>5. Cardinality(Ahead(m)) \in Nat /\ Cardinality(Ahead(n)) \in Nat
    BY <2>1, <1>3
  <2> HIDE DEF Ahead
  <2>6. Cardinality(Ahead(m)) < k
    BY <2>3, <2>4, <2>5
  <2> QED
    BY <2>6, <1>1
<1>5. ASSUME Cardinality(F) < k, S # F PROVE FALSE
  <2>1. S \ F # {} /\ S \ F \subseteq Nat \X Nat /\ IsFiniteSet(S \ F)
    BY <1>1, <1>5, FS_Subset
  <2>2. PICK n \in S \ F : \A m \in S \ F : ~Earlier(m, n)
    BY <2>1, HasFirst
  <2>3. Ahead(n) \subseteq F
    BY <2>2
  <2>4. Cardinality(Ahead(n)) <= Cardinality(F)
    BY <2>3, <1>2, FS_Subset
  <2>5. Cardinality(Ahead(n)) < k
    BY <2>4, <1>2, <1>3, <1>5
  <2> QED
    BY <2>5, <1>1
<1> QED
  BY <1>1, <1>2, <1>4, <1>5 DEF F

\* A page goes on where it ended, whether or not ranges may be exclusive.
LEMMA RangesGoOn ==
    ASSUME NEW id \in Nat \X Nat, NEW n \in StreamIds, NEW k, NEW after \in BOOLEAN
    PROVE  /\ stream_range_start_after(id, k, after) \in Start
           /\ InRange(n, stream_range_start_after(id, k, after)) <=> Earlier(id, n)
<1>0. n \in Nat \X Nat /\ Earlier(Origin, n) /\ Origin \in Nat \X Nat
  BY IdsArePairs
<1>1. CASE ~after /\ id = Origin
  <2>1. stream_range_start_after(id, k, after) = FromStart
    BY <1>1 DEF stream_range_start_after
  <2>2. InRange(n, FromStart)
    BY <1>0, EarlierOrders DEF InRange, FromStart
  <2>3. FromStart \in Start
    BY <1>0 DEF FromStart, Start
  <2> QED
    BY <1>0, <1>1, <2>1, <2>2, <2>3
<1>2. CASE ~(~after /\ id = Origin) /\ k
  <2>1. stream_range_start_after(id, k, after) = [id |-> id, exclusive |-> TRUE]
    BY <1>2 DEF stream_range_start_after
  <2> QED
    BY <2>1 DEF InRange, Start
<1>3. CASE ~(~after /\ id = Origin) /\ ~k
  <2>1. stream_range_start_after(id, k, after)
          = [id |-> <<id[1], id[2] + 1>>, exclusive |-> FALSE]
    BY <1>3 DEF stream_range_start_after, stream_id_after
  <2>2. <<id[1], id[2] + 1>> \in Nat \X Nat
    OBVIOUS
  <2>3. ~Earlier(n, <<id[1], id[2] + 1>>) <=> Earlier(id, n)
    BY <1>0 DEF Earlier
  <2> QED
    BY <2>1, <2>2, <2>3 DEF InRange, Start
<1> QED
  BY <1>1, <1>2, <1>3

\* A range has no end.
LEMMA RangesAreUpward ==
    ASSUME NEW from \in Start, NEW m \in Nat \X Nat, NEW n \in Nat \X Nat,
           InRange(m, from), ~Earlier(n, m)
    PROVE  InRange(n, from)
<1>1. from.id \in Nat \X Nat /\ from.exclusive \in BOOLEAN
  BY DEF Start
<1> QED
  BY <1>1, NotEarlierChains DEF InRange

LEMMA AllFromStart == /\ FromStart \in Start
                      /\ \A n \in Nat \X Nat : InRange(n, FromStart)
<1>1. FromStart \in Start
  BY IdsArePairs DEF FromStart, Start
<1>2. \A n \in Nat \X Nat : ~Earlier(n, <<0, 0>>)
  BY DEF Earlier
<1> QED
  BY <1>1, <1>2 DEF InRange, FromStart, Origin

\* A page holds ids of its range.  A short one holds all of them, and after
\* a full one the next begins behind its last id.
LEMMA Pages ==
    ASSUME NEW S, S \subseteq StreamIds, IsFiniteSet(S), NEW from \in Start,
           NEW k \in Nat \ {0}
    PROVE  LET page == Page(S, from, k) IN
           /\ page \subseteq S /\ IsFiniteSet(page)
           /\ \A n \in page : InRange(n, from)
           /\ Cardinality(page) < k => \A n \in S : InRange(n, from) => n \in page
           /\ ~(Cardinality(page) < k) =>
                 /\ NextStart(page) \in Start
                 /\ \A n \in StreamIds :
                       /\ InRange(n, NextStart(page)) => InRange(n, from)
                       /\ n \in page => ~InRange(n, NextStart(page))
                       /\ n \in S /\ InRange(n, from) /\ ~InRange(n, NextStart(page))
                          => n \in page
<1> DEFINE R == {n \in S : InRange(n, from)}
           page == Page(S, from, k)
<1>1. R \subseteq Nat \X Nat /\ IsFiniteSet(R)
  BY IdsArePairs, FS_Subset
<1>2. /\ page \subseteq R /\ IsFiniteSet(page)
      /\ \A n \in page, m \in R : Earlier(m, n) => m \in page
      /\ Cardinality(page) < k => page = R
  BY <1>1, FirstIdsIsPrefix DEF Page
<1>3. ASSUME ~(Cardinality(page) < k)
      PROVE  /\ NextStart(page) \in Start
             /\ \A n \in StreamIds :
                   /\ InRange(n, NextStart(page)) => InRange(n, from)
                   /\ n \in page => ~InRange(n, NextStart(page))
                   /\ n \in S /\ InRange(n, from) /\ ~InRange(n, NextStart(page))
                      => n \in page
  <2> DEFINE last == LatestId(page)
  <2>1. page # {}
    BY <1>3, FS_EmptySet
  <2>2. last \in page /\ \A m \in page : ~Earlier(last, m)
    BY <2>1, <1>1, <1>2, HasLast
  <2>3. last \in Nat \X Nat /\ InRange(last, from)
    BY <2>2, <1>1, <1>2
  <2> HIDE DEF page
  <2>5. \A n \in StreamIds : InRange(n, NextStart(page)) <=> Earlier(last, n)
    BY <2>3, RangesGoOn DEF NextStart
  <2>4. NextStart(page) \in Start
    <3>1. PICK n : n \in StreamIds
      BY <2>2, <1>2
    <3> QED
      BY <3>1, <2>3, RangesGoOn DEF NextStart
  <2>6. ASSUME NEW n \in StreamIds, InRange(n, NextStart(page)) PROVE InRange(n, from)
    BY <2>3, <2>5, <2>6, IdsArePairs, EarlierOrders, RangesAreUpward
  <2>7. ASSUME NEW n \in R, ~Earlier(last, n) PROVE n \in page
    BY <2>2, <2>3, <2>7, <1>1, <1>2, EarlierOrders
  <2> QED
    BY <2>2, <2>4, <2>5, <2>6, <2>7
<1> QED
  BY <1>2, <1>3

-----------------------------------------------------------------------------
(* Counting by pages                                                       *)

\* The members of S that paging from `from' on does not come to.
Before(S, from) == {n \in S : ~InRange(n, from)}

LEMMA Subsets ==
    ASSUME NEW S, IsFiniteSet(S), NEW T, T \subseteq S
    PROVE  /\ IsFiniteSet(T) /\ Cardinality(T) \in Nat /\ Cardinality(S) \in Nat
           /\ Cardinality(T) <= Cardinality(S)
BY FS_Subset, FS_CardinalityType

\* Two parts of a set.
LEMMA Parts ==
    ASSUME NEW S, IsFiniteSet(S), NEW A, NEW B, A \subseteq S, B \subseteq S, A \cap B = {}
    PROVE  Cardinality(A) + Cardinality(B) <= Cardinality(S)
<1>1. /\ IsFiniteSet(A) /\ IsFiniteSet(B) /\ Cardinality(A) \in Nat /\ Cardinality(B) \in Nat
      /\ Cardinality(A \cup B) <= Cardinality(S)
  BY Subsets
<1>2. Cardinality(A \cup B) = Cardinality(A) + Cardinality(B) - Cardinality(A \cap B)
  BY <1>1, FS_Union
<1>3. Cardinality(A \cap B) = 0
  BY FS_EmptySet
<1> QED
  BY <1>1, <1>2, <1>3

\* Two sets that cover one.
LEMMA Cover ==
    ASSUME NEW A, NEW B, IsFiniteSet(A), IsFiniteSet(B), NEW S, S \subseteq A \cup B
    PROVE  Cardinality(S) <= Cardinality(A) + Cardinality(B)
<1>1. /\ Cardinality(A) \in Nat /\ Cardinality(B) \in Nat /\ IsFiniteSet(A \cup B)
      /\ Cardinality(A \cup B) = Cardinality(A) + Cardinality(B) - Cardinality(A \cap B)
  BY FS_Union, FS_CardinalityType
<1>2. Cardinality(A \cap B) \in Nat
  BY Subsets
<1>3. Cardinality(S) \in Nat /\ Cardinality(S) <= Cardinality(A \cup B)
                             /\ Cardinality(A \cup B) \in Nat
  BY <1>1, Subsets
<1> QED
  BY <1>1, <1>2, <1>3

-----------------------------------------------------------------------------
(* Types                                                                   *)

Commands == Counting \cup {"idle", "exists", "groups", "create", "groups_again", "done"}

Answers == {"ok", "not_found", "invalid_argument", "unavailable"}

\* The stream and its groups: finitely many ids.
RedisType ==
    /\ version \in Versions /\ exists \in BOOLEAN
    /\ stream \subseteq StreamIds /\ IsFiniteSet(stream)
    /\ lastId \in StreamIds \cup {Origin}
    /\ groups \subseteq Groups
    /\ delivered \in [Groups -> StreamIds \cup {Origin}]
    /\ pel \in [Groups -> SUBSET StreamIds]
    /\ \A g \in Groups : IsFiniteSet(pel[g])
    /\ losses \in 0..MaxLosses

\* The calls; one that is under way has a group.
CallType ==
    /\ Cardinality(caps) <= 1
    /\ pc \in [Calls -> Commands]
    /\ grp \in [Calls -> Groups \cup {NoGroup}]
    /\ \A c \in Calls : pc[c] \notin {"idle", "done"} => grp[c] \in Groups
    /\ lag \in [Calls -> SUBSET Nat]
    /\ start \in [Calls -> Start]
    /\ min_id \in [Calls -> SUBSET StreamIds]
    /\ pending \in [Calls -> Nat] /\ in_progress \in [Calls -> Nat]
    /\ code \in [Calls -> {"none", "ok", "not_found", "invalid_argument",
                           "unavailable", "200", "400", "404", "503"}]

HistoryType ==
    /\ kept \in [Calls -> SUBSET StreamIds] /\ seen \in [Calls -> SUBSET StreamIds]
    /\ \A c \in Calls : IsFiniteSet(kept[c]) /\ IsFiniteSet(seen[c])
    /\ quiet \in [Calls -> BOOLEAN]

TypeInv == RedisType /\ CallType /\ HistoryType

LEMMA TypeInvIsTypeOK == TypeInv => TypeOK
BY DEF TypeInv, TypeOK, RedisType, CallType, HistoryType, Commands

LEMMA InitTypes == Init => TypeInv
<1> SUFFICES ASSUME Init PROVE TypeInv
  OBVIOUS
<1>0. IsFiniteSet({}) /\ MaxLosses \in Nat
  BY FS_EmptySet, PagesAssumption
<1>a. /\ delivered \in [Groups -> StreamIds \cup {Origin}]
      /\ pel \in [Groups -> SUBSET StreamIds]
  BY DEF Init
<1>b. stream = {} /\ \A g \in Groups : pel[g] = {}
  BY DEF Init
<1>c. IsFiniteSet(stream) /\ \A g \in Groups : IsFiniteSet(pel[g])
  BY <1>0, <1>b
<1>d. losses \in 0..MaxLosses /\ stream \subseteq StreamIds
  BY <1>0 DEF Init
<1>e. /\ version \in Versions /\ exists \in BOOLEAN
      /\ lastId \in StreamIds \cup {Origin} /\ groups \subseteq Groups
  BY DEF Init
<1>1. RedisType
  BY <1>a, <1>c, <1>d, <1>e DEF RedisType
<1>2. Cardinality(caps) <= 1
  BY FS_EmptySet DEF Init
<1>3. CallType
  BY <1>2, AllFromStart DEF Init, CallType, Commands
<1>4. HistoryType
  BY FS_EmptySet DEF Init, HistoryType
<1> QED
  BY <1>1, <1>3, <1>4 DEF TypeInv

\* The ids that wait are in the stream.
LEMMA WaitingIsFinite ==
    ASSUME RedisType, NEW g
    PROVE  /\ Waiting(g) \subseteq stream /\ Waiting(g) \subseteq StreamIds
           /\ IsFiniteSet(Waiting(g)) /\ Cardinality(Waiting(g)) \in Nat
           /\ Outstanding(g) \subseteq stream
<1>1. Waiting(g) \subseteq stream /\ Outstanding(g) \subseteq stream
  BY DEF Waiting, Outstanding
<1> QED
  BY <1>1, Subsets DEF RedisType

\* XREADGROUP delivers an entry that waits, the first one.
LEMMA DeliveredWaits ==
    ASSUME RedisType, NEW g, NEW n \in FirstIds(Waiting(g), 1)
    PROVE  n \in Waiting(g) /\ n \in stream /\ n \in StreamIds
BY WaitingIsFinite DEF FirstIds

\* The history of a step of Redis.
LEMMA ChangedTypes ==
    ASSUME HistoryType, RedisType', Changed
    PROVE  HistoryType'
<1>1. \A c \in Calls : kept'[c] \subseteq kept[c] /\ seen'[c] \subseteq seen[c] \cup stream'
  BY DEF Changed
<1>2. IsFiniteSet(stream') /\ stream' \subseteq StreamIds
  BY DEF RedisType
<1>3. ASSUME NEW c \in Calls PROVE IsFiniteSet(kept'[c]) /\ IsFiniteSet(seen'[c])
  <2>1. IsFiniteSet(kept[c]) /\ IsFiniteSet(seen[c])
    BY DEF HistoryType
  <2>2. IsFiniteSet(seen[c] \cup stream')
    BY <2>1, <1>2, FS_Union
  <2> QED
    BY <1>1, <2>1, <2>2, FS_Subset
<1>4. /\ kept' \in [Calls -> SUBSET StreamIds] /\ seen' \in [Calls -> SUBSET StreamIds]
      /\ quiet' \in [Calls -> BOOLEAN]
  BY <1>2 DEF Changed, HistoryType
<1> QED
  BY <1>3, <1>4 DEF HistoryType

LEMMA CreateTypes ==
    ASSUME RedisType, NEW g \in Groups, NEW id \in StreamIds \cup {Origin}, XGroupCreate(g, id)
    PROVE  RedisType'
BY DEF RedisType, XGroupCreate

\* The steps of producers, workers and Redis.
Environment ==
    \/ Enqueue \/ LoseData
    \/ \E g \in Groups : EnsureConsumerGroup(g) \/ Deliver(g) \/ Settle(g)

LEMMA EnvironmentTypes ==
    ASSUME TypeInv, Environment
    PROVE  TypeInv'
<1>0. RedisType /\ CallType /\ HistoryType
  BY DEF TypeInv
<1>1. UNCHANGED callVars /\ Changed
  BY DEF Environment, Enqueue, LoseData, EnsureConsumerGroup, Deliver, Settle
<1>2. CallType'
  BY <1>0, <1>1 DEF CallType, callVars, localVars
<1>3. RedisType'
  <2>1. CASE Enqueue
    <3>1. PICK id \in StreamIds : /\ lastId' = id /\ stream' \subseteq stream \cup {id}
      BY <2>1 DEF Enqueue
    <3>2. IsFiniteSet(stream \cup {id})
      BY <1>0, FS_AddElement DEF RedisType
    <3>3. IsFiniteSet(stream') /\ stream' \subseteq StreamIds
      BY <1>0, <3>1, <3>2, FS_Subset DEF RedisType
    <3> QED
      BY <1>0, <2>1, <3>1, <3>3 DEF RedisType, Enqueue
  <2>2. CASE LoseData
    <3>1. IsFiniteSet({}) /\ MaxLosses \in Nat
      BY FS_EmptySet, PagesAssumption
    <3>2. losses' \in 0..MaxLosses
      BY <1>0, <2>2, <3>1 DEF RedisType, LoseData
    <3>3. \A g \in Groups : IsFiniteSet(pel'[g])
      BY <2>2, <3>1 DEF LoseData
    <3> QED
      BY <1>0, <2>2, <3>1, <3>2, <3>3 DEF RedisType, LoseData
  <2>3. ASSUME NEW g \in Groups, EnsureConsumerGroup(g) PROVE RedisType'
    BY <1>0, <2>3, CreateTypes DEF EnsureConsumerGroup, RedisType
  <2>4. ASSUME NEW g \in Groups, Deliver(g) PROVE RedisType'
    <3>1. PICK n \in FirstIds(Waiting(g), 1) :
             /\ pel' = [pel EXCEPT ![g] = @ \cup {n}]
             /\ delivered' = [delivered EXCEPT ![g] = n]
      BY <2>4 DEF Deliver
    <3>2. n \in StreamIds
      BY <1>0, <3>1, DeliveredWaits
    <3>3. \A h \in Groups : IsFiniteSet(pel'[h])
      BY <1>0, <3>1, FS_AddElement DEF RedisType
    <3> QED
      BY <1>0, <2>4, <3>1, <3>2, <3>3 DEF RedisType, Deliver
  <2>5. ASSUME NEW g \in Groups, Settle(g) PROVE RedisType'
    <3>1. PICK n : pel' = [pel EXCEPT ![g] = @ \ {n}]
      BY <2>5 DEF Settle
    <3>3. \A h \in Groups : IsFiniteSet(pel'[h])
      BY <1>0, <3>1, FS_RemoveElement DEF RedisType
    <3> QED
      BY <1>0, <2>5, <3>1, <3>3 DEF RedisType, Settle
  <2> QED
    BY <2>1, <2>2, <2>3, <2>4, <2>5 DEF Environment
<1> QED
  BY <1>0, <1>1, <1>2, <1>3, ChangedTypes DEF TypeInv

\* An answer.
LEMMA AnswerTypes ==
    ASSUME CallType, NEW c \in Calls, NEW answer \in Answers, Answer(c, answer),
           caps' = caps, pending' \in [Calls -> Nat], in_progress' \in [Calls -> Nat]
    PROVE  CallType'
<1>1. Status(c, answer) \in {"ok", "not_found", "invalid_argument",
                             "unavailable", "200", "400", "404", "503"}
  BY DEF Status, from_store, Answers
<1>2. FromStart \in Start
  BY AllFromStart
<1> QED
  BY <1>1, <1>2 DEF CallType, Answer, Goto, Commands

LEMMA RefuseTypes ==
    ASSUME CallType, NEW c \in Calls, NEW answer \in Answers, Refuse(c, answer), caps' = caps
    PROVE  CallType'
<1>1. pending' \in [Calls -> Nat] /\ in_progress' \in [Calls -> Nat]
  BY DEF Refuse, CallType
<1> QED
  BY <1>1, AnswerTypes DEF Refuse

\* What Redis and the history are when a step leaves them alone.
LEMMA RestTypes ==
    ASSUME TypeInv
    PROVE  /\ UNCHANGED redisVars => RedisType'
           /\ UNCHANGED history => HistoryType'
BY DEF TypeInv, RedisType, HistoryType, redisVars, history

LEMMA CountTypes ==
    ASSUME TypeInv, NEW c \in Calls, NEW S, IsFiniteSet(S)
    PROVE  /\ [pending EXCEPT ![c] = @ + Cardinality(S)] \in [Calls -> Nat]
           /\ [in_progress EXCEPT ![c] = @ + Cardinality(S)] \in [Calls -> Nat]
<1>1. Cardinality(S) \in Nat
  BY FS_CardinalityType
<1> QED
  BY <1>1 DEF TypeInv, CallType

LEMMA BeginTypes ==
    ASSUME TypeInv, NEW c \in Calls, Begin(c) \/ stream_exists(c) \/ GroupLost(c)
    PROVE  TypeInv'
<1>0. RedisType' /\ HistoryType' /\ CallType /\ caps' = caps
  BY RestTypes DEF TypeInv, Begin, stream_exists, GroupLost
<1>1. ASSUME NEW answer \in Answers, Refuse(c, answer) PROVE CallType'
  BY <1>0, <1>1, RefuseTypes
<1>2. ASSUME NEW g \in Groups, pc[c] = "idle", grp' = [grp EXCEPT ![c] = g], Goto(c, "exists"),
             UNCHANGED <<lag, start, min_id, pending, in_progress, code>>
      PROVE  CallType'
  BY <1>0, <1>2 DEF CallType, Goto, Commands
<1>3. ASSUME pc[c] = "exists", Goto(c, "groups"), UNCHANGED <<localVars, code>>
      PROVE  CallType'
  BY <1>0, <1>3 DEF CallType, Goto, Commands, localVars
<1>4. CallType'
  BY <1>1, <1>2, <1>3 DEF Begin, stream_exists, GroupLost, Answers
<1> QED
  BY <1>0, <1>4 DEF TypeInv

LEMMA GroupsTypes ==
    ASSUME TypeInv, NEW c \in Calls, load_stream_groups(c)
    PROVE  TypeInv'
<1>0. RedisType /\ RedisType' /\ CallType /\ HistoryType /\ caps' = caps
  BY RestTypes DEF TypeInv, load_stream_groups
<1> DEFINE g == grp[c]
<1>1. CASE g \in groups /\ Goto(c, "capabilities")
           /\ \E l \in LagReplies(g) : lag' = [lag EXCEPT ![c] = l]
           /\ start' = [start EXCEPT ![c].id = delivered[g]]
           /\ kept' = [kept EXCEPT ![c] = Outstanding(g)]
           /\ seen' = [seen EXCEPT ![c] = stream]
           /\ quiet' = [quiet EXCEPT ![c] = TRUE]
           /\ UNCHANGED <<grp, min_id, pending, in_progress, code>>
  <2>1. Outstanding(g) \subseteq stream /\ Cardinality(Waiting(g)) \in Nat
    BY <1>0, WaitingIsFinite
  <2>2. IsFiniteSet(Outstanding(g)) /\ IsFiniteSet(stream) /\ stream \subseteq StreamIds
    BY <1>0, <2>1, FS_Subset DEF RedisType
  <2>3. HistoryType'
    <3>1. /\ kept' \in [Calls -> SUBSET StreamIds] /\ seen' \in [Calls -> SUBSET StreamIds]
          /\ quiet' \in [Calls -> BOOLEAN]
      BY <1>0, <1>1, <2>1, <2>2 DEF HistoryType
    <3>2. \A b \in Calls : IsFiniteSet(kept'[b]) /\ IsFiniteSet(seen'[b])
      BY <1>0, <1>1, <2>2 DEF HistoryType
    <3> QED
      BY <3>1, <3>2 DEF HistoryType
  <2>4. lag' \in [Calls -> SUBSET Nat]
    BY <1>0, <1>1, <2>1 DEF LagReplies, CallType
  <2>5. delivered[g] \in Nat \X Nat
    BY <1>0, <1>1, IdsArePairs DEF RedisType
  <2>6. start' \in [Calls -> Start]
    <3>1. [start[c] EXCEPT !.id = delivered[g]] \in Start
      BY <1>0, <2>5 DEF CallType, Start
    <3>2. start' = [start EXCEPT ![c] = [start[c] EXCEPT !.id = delivered[g]]]
      BY <1>1
    <3> QED
      BY <1>0, <3>1, <3>2 DEF CallType
  <2>7. CallType'
    BY <1>0, <1>1, <2>4, <2>6 DEF CallType, RedisType, Goto, Commands, Counting
  <2> QED
    BY <1>0, <2>3, <2>7 DEF TypeInv
<1>2. CASE /\ Goto(c, "create") /\ pc[c] = "groups"
           /\ UNCHANGED <<localVars, code, history>>
  <2>1. CallType'
    BY <1>0, <1>2 DEF CallType, Goto, Commands, localVars
  <2> QED
    BY <1>0, <1>2, <2>1, RestTypes DEF TypeInv
<1>3. CASE Refuse(c, "not_found") /\ UNCHANGED history
  BY <1>0, <1>3, RefuseTypes, RestTypes DEF TypeInv, Answers
<1> QED
  BY <1>1, <1>2, <1>3 DEF load_stream_groups

LEMMA CreateGroupTypes ==
    ASSUME TypeInv, NEW c \in Calls, CreateGroup(c)
    PROVE  TypeInv'
<1>1. RedisType'
  BY CreateTypes DEF CreateGroup, TypeInv, CallType
<1>2. CallType'
  BY DEF CreateGroup, TypeInv, CallType, Goto, Commands, localVars
<1> QED
  BY <1>1, <1>2, ChangedTypes DEF TypeInv, CreateGroup

LEMMA FailTypes ==
    ASSUME TypeInv, NEW c \in Calls, CommandFails(c)
    PROVE  TypeInv'
<1>1. CallType'
  BY RefuseTypes DEF CommandFails, TypeInv, Answers
<1>2. CASE UNCHANGED <<redisVars, history>>
  BY <1>1, <1>2, RestTypes DEF TypeInv
<1>3. CASE pc[c] = "create" /\ XGroupCreate(grp[c], Origin) /\ Changed
  <2>1. RedisType'
    BY <1>3, CreateTypes DEF TypeInv, CallType
  <2> QED
    BY <1>1, <1>3, <2>1, ChangedTypes DEF TypeInv
<1> QED
  BY <1>2, <1>3 DEF CommandFails

LEMMA CapabilitiesTypes ==
    ASSUME TypeInv, NEW c \in Calls, load_redis_capabilities(c)
    PROVE  TypeInv'
<1>0. RedisType' /\ HistoryType' /\ CallType
  BY RestTypes DEF TypeInv, load_redis_capabilities
<1>1. Cardinality(caps') <= 1
  <2>1. CASE caps = {}
    <3>1. caps' = {RedisCapabilities}
      BY <2>1 DEF load_redis_capabilities
    <3>2. Cardinality({RedisCapabilities}) = 1
      BY FS_Singleton
    <3> QED
      BY <3>1, <3>2
  <2>2. CASE caps # {}
    BY <1>0, <2>2 DEF load_redis_capabilities, CallType
  <2> QED
    BY <2>1, <2>2
<1>2. start' \in [Calls -> Start] /\ pending' \in [Calls -> Nat]
  <2>1. CASE \E k \in caps' : start' = [start EXCEPT ![c] =
               stream_range_start_after(@.id, k.exclusive_range_supported, FALSE)]
    <3>1. start[c].id \in Nat \X Nat
      BY <1>0 DEF CallType, Start
    <3>2. ASSUME NEW k PROVE stream_range_start_after(start[c].id, k, FALSE) \in Start
      BY <3>1, AllFromStart
      DEF stream_range_start_after, stream_id_after, Start
    <3>3. PICK k \in caps' : start' = [start EXCEPT ![c] =
             stream_range_start_after(start[c].id, k.exclusive_range_supported, FALSE)]
      BY <2>1
    <3>4. start' \in [Calls -> Start]
      BY <1>0, <3>2, <3>3 DEF CallType
    <3>5. pending' = pending \/ \E l \in lag[c] : pending' = [pending EXCEPT ![c] = l]
      BY DEF load_redis_capabilities
    <3> QED
      BY <1>0, <3>4, <3>5 DEF CallType
  <2>2. CASE start' = [start EXCEPT ![c] = FromStart]
    BY <1>0, <2>2, AllFromStart DEF CallType, load_redis_capabilities
  <2> QED
    BY <2>1, <2>2 DEF load_redis_capabilities
<1>3. CallType'
  BY <1>0, <1>1, <1>2 DEF CallType, load_redis_capabilities, Goto, Commands, Counting
<1> QED
  BY <1>0, <1>3 DEF TypeInv

LEMMA PendingTypes ==
    ASSUME TypeInv, NEW c \in Calls, count_pending_fallback(c)
    PROVE  TypeInv'
<1>0. RedisType' /\ HistoryType' /\ CallType /\ caps' = caps
  BY RestTypes DEF TypeInv, count_pending_fallback
<1> DEFINE page == Page(stream, start[c], PendingPage)
<1>1. /\ stream \subseteq StreamIds /\ IsFiniteSet(stream) /\ start[c] \in Start
      /\ PendingPage \in Nat \ {0}
  BY PagesAssumption DEF TypeInv, RedisType, CallType
<1>2. /\ IsFiniteSet(page)
      /\ ~(Cardinality(page) < PendingPage) => NextStart(page) \in Start
  BY <1>1, Pages
<1> HIDE DEF page
<1>3. pending' \in [Calls -> Nat]
  BY <1>2, CountTypes DEF count_pending_fallback, page
<1>4. start' \in [Calls -> Start] /\ pc' \in [Calls -> Commands]
      /\ \A b \in Calls : pc'[b] \notin {"idle", "done"} => grp[b] \in Groups
  BY <1>0, <1>2, AllFromStart
  DEF count_pending_fallback, page, CallType, Goto, Commands, Counting
<1>5. CallType'
  BY <1>0, <1>3, <1>4 DEF CallType, count_pending_fallback
<1> QED
  BY <1>0, <1>5 DEF TypeInv

LEMMA MinTypes ==
    ASSUME TypeInv, NEW c \in Calls, get_stream_min_id(c)
    PROVE  TypeInv'
<1>0. RedisType' /\ HistoryType' /\ CallType /\ caps' = caps
  BY RestTypes DEF TypeInv, get_stream_min_id
<1>1. FirstIds(stream, 1) \subseteq StreamIds
  BY DEF FirstIds, TypeInv, RedisType
<1>2. CallType'
  BY <1>0, <1>1 DEF CallType, get_stream_min_id, Goto, Commands, Counting
<1> QED
  BY <1>0, <1>2 DEF TypeInv

LEMMA PelTypes ==
    ASSUME TypeInv, NEW c \in Calls, count_processable_in_progress(c)
    PROVE  TypeInv'
<1>0. RedisType' /\ HistoryType' /\ CallType /\ caps' = caps /\ pending' = pending
  BY RestTypes DEF TypeInv, count_processable_in_progress
<1> DEFINE page == Page(pel[grp[c]], start[c], PelPage)
           counted == {n \in page : ~is_tombstoned_pel_entry(n, min_id[c])}
<1>1. /\ pel[grp[c]] \subseteq StreamIds /\ IsFiniteSet(pel[grp[c]]) /\ start[c] \in Start
      /\ PelPage \in Nat \ {0}
  BY PagesAssumption DEF TypeInv, RedisType, CallType, count_processable_in_progress
<1>2. /\ IsFiniteSet(page)
      /\ ~(Cardinality(page) < PelPage) => NextStart(page) \in Start
  BY <1>1, Pages
<1>3. IsFiniteSet(counted)
  BY <1>2, FS_Subset
<1>4. in_progress' \in [Calls -> Nat]
  BY <1>3, CountTypes DEF count_processable_in_progress
<1>5. CASE Answer(c, "ok")
  BY <1>0, <1>4, <1>5, AnswerTypes DEF TypeInv, Answers, CallType
<1>6. CASE /\ start' = [start EXCEPT ![c] = NextStart(page)]
           /\ ~(Cardinality(page) < PelPage)
           /\ UNCHANGED <<pc, grp, lag, min_id, code>>
  <2> HIDE DEF page
  <2>1. start' \in [Calls -> Start]
    BY <1>0, <1>2, <1>6 DEF CallType
  <2>2. CallType'
    BY <1>0, <1>4, <1>6, <2>1 DEF CallType
  <2> QED
    BY <1>0, <2>2 DEF TypeInv
<1> QED
  BY <1>5, <1>6 DEF count_processable_in_progress

LEMMA NextTypes == TypeInv /\ [Next]_vars => TypeInv'
<1> SUFFICES ASSUME TypeInv, [Next]_vars PROVE TypeInv'
  OBVIOUS
<1>1. CASE UNCHANGED vars
  BY <1>1 DEF vars, redisVars, callVars, localVars, history, TypeInv, RedisType, CallType,
              HistoryType
<1>2. ASSUME NEW c \in Calls, Begin(c) \/ StatsStep(c) \/ CommandFails(c) PROVE TypeInv'
  BY <1>2, BeginTypes, GroupsTypes, CreateGroupTypes, CapabilitiesTypes, PendingTypes,
     MinTypes, PelTypes, FailTypes DEF StatsStep
<1>3. CASE Environment
  BY <1>3, EnvironmentTypes
<1> QED
  BY <1>1, <1>2, <1>3 DEF Next, Environment, Finished

\* The types hold, and everything counted is a finite set: the stream, the
\* pending entries and what a call has seen (queue.rs:277-385).
THEOREM TypeInvariant == Spec => []TypeInv
BY InitTypes, NextTypes, PTL DEF Spec

\* Every variable of the statistics keeps its type: a full page has a last
\* id for the next one to start behind, and counts are numbers whatever
\* Redis does between two pages (queue.rs:277-385).
THEOREM StatsTypeCorrect == Spec => []TypeOK
BY TypeInvariant, TypeInvIsTypeOK, PTL

-----------------------------------------------------------------------------
(* The invariant of a count                                                *)

\* Ids only grow, and the stream loses its oldest entries only: a pending
\* entry as late as one of the stream is in the stream.
IdsInv ==
    /\ \A n \in stream : ~Earlier(lastId, n)
    /\ \A g \in Groups : \A n \in pel[g] :
          /\ ~Earlier(lastId, n)
          /\ \A m \in stream : Earlier(n, m) \/ n \in stream

\* What call c has before it begins to count.
ShapeInv(c) ==
    /\ pc[c] \in {"idle", "exists", "groups", "create", "groups_again"} =>
          pending[c] = 0 /\ kept[c] = {}
    /\ pc[c] \notin {"pel", "done"} => in_progress[c] = 0
    /\ pc[c] = "capabilities" => pending[c] = 0
    /\ pc[c] = "min" => start[c] = FromStart
    /\ pc[c] # "done" => code[c] = "none"

\* What call c has counted is behind its next page, and was in the stream.
UpperInv(c) ==
    /\ pc[c] \in Counting => stream \subseteq seen[c]
    /\ pc[c] = "capabilities" => \A l \in lag[c] : l <= Cardinality(seen[c])
    /\ pc[c] = "range" => pending[c] <= Cardinality(Before(seen[c], start[c]))
    /\ pc[c] = "pel" =>
          /\ in_progress[c] <= Cardinality(Before(seen[c], start[c]))
          /\ \A n \in pel[grp[c]] : n \in seen[c] \/ is_tombstoned_pel_entry(n, min_id[c])
    /\ pending[c] <= Cardinality(seen[c]) /\ in_progress[c] <= Cardinality(seen[c])

\* The jobs call c has to count as waiting when d was the last id delivered
\* at its XINFO, and those it has to find in the PEL.
Late(c, d) == {n \in kept[c] : Earlier(d, n)}
Old(c, d) == {n \in kept[c] : ~Earlier(d, n)}

\* Those of them behind its next page have been counted.
Covers(c, d) ==
    /\ kept[c] \subseteq Outstanding(grp[c])
    /\ kept[c] # {} => ~Earlier(delivered[grp[c]], d)
    /\ pc[c] = "capabilities" =>
          start[c].id = d /\ \A l \in lag[c] : Cardinality(Late(c, d)) <= l
    /\ pc[c] = "range" => Cardinality(Before(Late(c, d), start[c])) <= pending[c]
    /\ pc[c] \in {"min", "pel"} => Cardinality(Late(c, d)) <= pending[c]
    /\ pc[c] = "pel" =>
          /\ Cardinality(Before(Old(c, d), start[c])) <= in_progress[c]
          /\ \A n \in kept[c] : ~is_tombstoned_pel_entry(n, min_id[c])

LowerInv(c) ==
    /\ pc[c] \in Counting => \E d \in StreamIds \cup {Origin} : Covers(c, d)
    /\ Succeeded(c) => workload(c) >= Cardinality(kept[c])

\* As long as nothing has changed, the counts are exact.
ExactInv(c) ==
    quiet[c] /\ pc[c] \in Counting =>
        LET g == grp[c] IN
        /\ pc[c] = "capabilities" =>
              start[c].id = delivered[g] /\ lag[c] \subseteq {Cardinality(Waiting(g))}
        /\ pc[c] = "range" =>
              /\ pending[c] = Cardinality(Before(Waiting(g), start[c]))
              /\ \A n \in stream : InRange(n, start[c]) => n \in Waiting(g)
        /\ pc[c] \in {"min", "pel"} => pending[c] = Cardinality(Waiting(g))
        /\ pc[c] = "pel" =>
              /\ in_progress[c] = Cardinality(Before(pel[g] \cap stream, start[c]))
              /\ \A n \in pel[g] : n \in stream <=> ~is_tombstoned_pel_entry(n, min_id[c])

CallInv(c) == ShapeInv(c) /\ UpperInv(c) /\ LowerInv(c) /\ ExactInv(c)

CountInv == IdsInv /\ \A c \in Calls : CallInv(c)


\* A step in which call c does nothing.
Still(c) ==
    /\ pc'[c] = pc[c] /\ grp'[c] = grp[c] /\ lag'[c] = lag[c] /\ start'[c] = start[c]
    /\ min_id'[c] = min_id[c] /\ pending'[c] = pending[c]
    /\ in_progress'[c] = in_progress[c] /\ code'[c] = code[c]

\* Nothing it depends on changes.
LEMMA CallRests ==
    ASSUME NEW c \in Calls, CallInv(c), Still(c), UNCHANGED redisVars,
           kept'[c] = kept[c], seen'[c] = seen[c], quiet'[c] = quiet[c]
    PROVE  CallInv(c)'
<1>1. ShapeInv(c)'
  BY DEF CallInv, ShapeInv, Still
<1>2. UpperInv(c)'
  <2>1. Before(seen[c], start[c])' = Before(seen[c], start[c])
    BY DEF Before, Still
  <2> QED
    BY <2>1 DEF CallInv, UpperInv, Still, redisVars
<1>3. LowerInv(c)'
  <2>1. ASSUME NEW d, Covers(c, d) PROVE Covers(c, d)'
    <3>1. Late(c, d)' = Late(c, d) /\ Old(c, d)' = Old(c, d)
      BY DEF Late, Old
    <3>2. /\ Before(Late(c, d), start[c])' = Before(Late(c, d), start[c])
          /\ Before(Old(c, d), start[c])' = Before(Old(c, d), start[c])
      BY <3>1 DEF Before, Still
    <3>3. Outstanding(grp[c])' = Outstanding(grp[c])
      BY DEF Outstanding, Waiting, Still, redisVars
    <3> QED
      BY <2>1, <3>1, <3>2, <3>3 DEF Covers, Still, redisVars
  <2> QED
    BY <2>1 DEF CallInv, LowerInv, Still, Succeeded, workload
<1>4. ExactInv(c)'
  <2>1. /\ Waiting(grp[c])' = Waiting(grp[c])
        /\ (pel[grp[c]] \cap stream)' = pel[grp[c]] \cap stream
    BY DEF Waiting, Still, redisVars
  <2>2. /\ Before(Waiting(grp[c]), start[c])' = Before(Waiting(grp[c]), start[c])
        /\ Before(pel[grp[c]] \cap stream, start[c])' = Before(pel[grp[c]] \cap stream, start[c])
    BY <2>1 DEF Before, Still
  <2> QED
    BY <2>1, <2>2 DEF CallInv, ExactInv, Still, redisVars
<1> QED
  BY <1>1, <1>2, <1>3, <1>4 DEF CallInv

\* What a call that counts relies on when Redis changes: pending entries
\* come from the stream, and a group that keeps an outstanding job does not
\* fall back.
RedisEffect ==
    \A g \in Groups :
        /\ pel'[g] \subseteq pel[g] \cup stream'
        /\ Outstanding(g) \cap Outstanding(g)' # {} => ~Earlier(delivered'[g], delivered[g])

LEMMA CallWatches ==
    ASSUME NEW c \in Calls, CallInv(c), Still(c), TypeInv, TypeInv', Changed, RedisEffect
    PROVE  CallInv(c)'
<1>0. /\ pc[c] \notin Counting => kept'[c] = kept[c] /\ seen'[c] = seen[c]
      /\ pc[c] \in Counting => /\ kept'[c] = kept[c] \cap Outstanding(grp[c])'
                               /\ seen'[c] = seen[c] \cup stream'
                               /\ ~quiet'[c]
  BY DEF Changed, Still
<1>1. ShapeInv(c)'
  BY <1>0 DEF CallInv, ShapeInv, Still, Counting
<1>2. CASE pc[c] \notin Counting
  <2>1. UpperInv(c)'
    BY <1>0, <1>2 DEF CallInv, UpperInv, Still, Counting
  <2>2. LowerInv(c)'
    BY <1>0, <1>2 DEF CallInv, LowerInv, Still, Succeeded, workload
  <2>3. ExactInv(c)'
    BY <1>2 DEF ExactInv, Still
  <2> QED
    BY <1>1, <2>1, <2>2, <2>3 DEF CallInv
<1>3. CASE pc[c] \in Counting
  <2>0. grp[c] \in Groups /\ pc[c] # "done"
    BY <1>3 DEF TypeInv, CallType, Counting
  <2>1. /\ IsFiniteSet(seen'[c]) /\ IsFiniteSet(kept[c])
        /\ pending[c] \in Nat /\ in_progress[c] \in Nat /\ lag[c] \subseteq Nat
    BY DEF TypeInv, HistoryType, CallType
  <2>2. UpperInv(c)'
    <3>1. seen[c] \subseteq seen'[c] /\ stream' \subseteq seen'[c]
      BY <1>0, <1>3
    <3>2. Before(seen[c], start[c]) \subseteq Before(seen[c], start[c])'
      BY <3>1 DEF Before, Still
    <3>3. Before(seen[c], start[c])' \subseteq seen'[c]
      BY DEF Before
    <3>4. /\ Cardinality(seen[c]) <= Cardinality(seen'[c])
          /\ Cardinality(Before(seen[c], start[c])) <= Cardinality(Before(seen[c], start[c])')
          /\ Cardinality(seen[c]) \in Nat /\ Cardinality(seen'[c]) \in Nat
          /\ Cardinality(Before(seen[c], start[c])) \in Nat
          /\ Cardinality(Before(seen[c], start[c])') \in Nat
      BY <2>1, <3>1, <3>2, <3>3, Subsets
    <3>5. \A n \in pel'[grp[c]] : n \in pel[grp[c]] \/ n \in seen'[c]
      BY <2>0, <3>1 DEF RedisEffect
    <3>6. UpperInv(c)
      BY DEF CallInv
    <3> QED
      BY <2>1, <3>1, <3>4, <3>5, <3>6 DEF UpperInv, Still
  <2>3. ASSUME NEW d \in StreamIds \cup {Origin}, Covers(c, d) PROVE Covers(c, d)'
    <3>1. /\ Late(c, d)' \subseteq Late(c, d) /\ Old(c, d)' \subseteq Old(c, d)
          /\ Late(c, d) \subseteq kept[c] /\ Old(c, d) \subseteq kept[c]
      BY <1>0, <1>3 DEF Late, Old
    <3>2. /\ Before(Late(c, d), start[c])' \subseteq Before(Late(c, d), start[c])
          /\ Before(Old(c, d), start[c])' \subseteq Before(Old(c, d), start[c])
          /\ Before(Late(c, d), start[c]) \subseteq kept[c]
          /\ Before(Old(c, d), start[c]) \subseteq kept[c]
      BY <3>1 DEF Before, Still
    <3>3. /\ IsFiniteSet(Late(c, d)) /\ IsFiniteSet(Before(Late(c, d), start[c]))
          /\ IsFiniteSet(Before(Old(c, d), start[c]))
      BY <2>1, <3>1, <3>2, FS_Subset
    <3>4. /\ Cardinality(Late(c, d)') <= Cardinality(Late(c, d))
          /\ Cardinality(Late(c, d)') \in Nat /\ Cardinality(Late(c, d)) \in Nat
      BY <3>1, <3>3, Subsets
    <3>5. LET A == Before(Late(c, d), start[c]) IN
          Cardinality(A') <= Cardinality(A) /\ Cardinality(A') \in Nat /\ Cardinality(A) \in Nat
      BY <3>2, <3>3, Subsets
    <3>6. LET A == Before(Old(c, d), start[c]) IN
          Cardinality(A') <= Cardinality(A) /\ Cardinality(A') \in Nat /\ Cardinality(A) \in Nat
      BY <3>2, <3>3, Subsets
    <3>7. kept'[c] # {} => ~Earlier(delivered'[grp[c]], d)
      <4> SUFFICES ASSUME kept'[c] # {} PROVE ~Earlier(delivered'[grp[c]], d)
        OBVIOUS
      <4>a. PICK g \in Groups : g = grp[c]
        BY <2>0
      <4>b. Outstanding(grp[c])' = Outstanding(g)' /\ Outstanding(grp[c]) = Outstanding(g)
        BY <4>a DEF Outstanding, Waiting, Still
      <4>c. Outstanding(g) \cap Outstanding(g)' # {} /\ ~Earlier(delivered[g], d)
        BY <1>0, <1>3, <2>3, <4>a, <4>b DEF Covers
      <4>1. ~Earlier(delivered[grp[c]], d) /\ ~Earlier(delivered'[grp[c]], delivered[grp[c]])
        BY <4>a, <4>c DEF RedisEffect
      <4>2. /\ d \in Nat \X Nat
            /\ delivered[grp[c]] \in Nat \X Nat /\ delivered'[grp[c]] \in Nat \X Nat
        BY <2>0, IdsArePairs DEF TypeInv, RedisType
      <4> QED
        BY <4>1, <4>2, NotEarlierChains
    <3>8. kept'[c] \subseteq Outstanding(grp[c])' /\ kept'[c] \subseteq kept[c]
      BY <1>0, <1>3
    <3>9. \A l \in lag[c] : l \in Nat
      BY <2>1
    <3> QED
      BY <2>1, <2>3, <3>4, <3>5, <3>6, <3>7, <3>8, <3>9 DEF Covers, Still
  <2>4. LowerInv(c)'
    BY <1>3, <2>0, <2>3 DEF CallInv, LowerInv, ShapeInv, Still, Succeeded
  <2>5. ExactInv(c)'
    BY <1>0, <1>3 DEF ExactInv
  <2> QED
    BY <1>1, <2>2, <2>4, <2>5 DEF CallInv
<1> QED
  BY <1>2, <1>3

\* A group that is created had nothing outstanding.
LEMMA CreateEffect ==
    ASSUME TypeInv, IdsInv, NEW g \in Groups, NEW id, XGroupCreate(g, id)
    PROVE  RedisEffect /\ IdsInv'
<1>1. IdsInv'
  BY DEF IdsInv, XGroupCreate
<1>2. ASSUME NEW h \in Groups
      PROVE  /\ pel'[h] \subseteq pel[h] \cup stream'
             /\ Outstanding(h) # {} => ~Earlier(delivered'[h], delivered[h])
  <2>1. Outstanding(h) # {} => h \in groups
    BY DEF Outstanding
  <2>2. h \in groups => delivered'[h] = delivered[h]
    BY DEF XGroupCreate, TypeInv, RedisType
  <2>3. ~Earlier(delivered[h], delivered[h])
    BY IdsArePairs, EarlierOrders DEF TypeInv, RedisType
  <2> QED
    BY <2>1, <2>2, <2>3 DEF XGroupCreate
<1> QED
  BY <1>1, <1>2 DEF RedisEffect

LEMMA EnqueueEffect ==
    ASSUME TypeInv, IdsInv, Enqueue
    PROVE  RedisEffect /\ IdsInv'
<1>0. /\ stream \subseteq Nat \X Nat /\ lastId \in Nat \X Nat /\ StreamIds \subseteq Nat \X Nat
      /\ \A g \in Groups : pel[g] \subseteq Nat \X Nat /\ delivered[g] \in Nat \X Nat
  BY IdsArePairs DEF TypeInv, RedisType
<1>a. PICK id \in StreamIds :
         /\ Earlier(lastId, id) /\ lastId' = id
         /\ \E oldest \in stream \cup {id} :
               stream' = {n \in stream \cup {id} : ~Earlier(n, oldest)}
  BY DEF Enqueue
<1>b. PICK oldest \in stream \cup {id} :
         stream' = {n \in stream \cup {id} : ~Earlier(n, oldest)}
  BY <1>a
<1>1. /\ Earlier(lastId, id) /\ lastId' = id
      /\ stream' = {n \in stream \cup {id} : ~Earlier(n, oldest)}
  BY <1>a, <1>b
<1>2. pel' = pel /\ delivered' = delivered
  BY DEF Enqueue
<1>3. RedisEffect
  BY <1>0, <1>2, EarlierOrders DEF RedisEffect
<1>4. ASSUME NEW n \in Nat \X Nat, ~Earlier(lastId, n) PROVE ~Earlier(lastId', n) /\ Earlier(n, id)
  BY <1>0, <1>1, <1>4, EarlierOrders, NotEarlierChains
<1>5. \A n \in stream' : ~Earlier(lastId', n)
  BY <1>0, <1>1, <1>4, EarlierOrders DEF IdsInv
<1>6. ASSUME NEW g \in Groups, NEW n \in pel'[g]
      PROVE  ~Earlier(lastId', n) /\ \A m \in stream' : Earlier(n, m) \/ n \in stream'
  <2>1. n \in Nat \X Nat /\ ~Earlier(lastId, n) /\ \A m \in stream : Earlier(n, m) \/ n \in stream
    BY <1>0, <1>2, <1>6 DEF IdsInv
  <2>2. ~Earlier(lastId', n) /\ Earlier(n, id)
    BY <1>4, <2>1
  <2>3. ASSUME NEW m \in stream', m # id PROVE Earlier(n, m) \/ n \in stream'
    <3>1. m \in stream /\ ~Earlier(m, oldest) /\ m \in Nat \X Nat /\ oldest \in Nat \X Nat
      BY <1>0, <1>1, <2>3
    <3>2. CASE Earlier(n, m)
      BY <3>2
    <3>3. CASE ~Earlier(n, m) /\ n \in stream
      BY <1>1, <2>1, <3>1, <3>3, NotEarlierChains
    <3> QED
      BY <2>1, <3>1, <3>2, <3>3
  <2> QED
    BY <2>2, <2>3
<1> QED
  BY <1>3, <1>5, <1>6 DEF IdsInv

LEMMA EnvironmentEffect ==
    ASSUME TypeInv, IdsInv, Environment
    PROVE  RedisEffect /\ IdsInv'
<1>0. \A g \in Groups : delivered[g] \in Nat \X Nat /\ ~Earlier(delivered[g], delivered[g])
  BY IdsArePairs, EarlierOrders DEF TypeInv, RedisType
<1>1. CASE Enqueue
  BY <1>1, EnqueueEffect
<1>2. CASE LoseData
  <2>1. \A g \in Groups : Outstanding(g)' = {}
    BY <1>2 DEF LoseData, Outstanding
  <2>2. \A g \in Groups : pel'[g] = {}
    BY <1>2 DEF LoseData
  <2> QED
    BY <1>2, <2>1, <2>2 DEF RedisEffect, IdsInv, LoseData
<1>3. ASSUME NEW g \in Groups, EnsureConsumerGroup(g) PROVE RedisEffect /\ IdsInv'
  BY <1>3, CreateEffect DEF EnsureConsumerGroup
<1>4. ASSUME NEW g \in Groups, Deliver(g) PROVE RedisEffect /\ IdsInv'
  <2>1. PICK n \in FirstIds(Waiting(g), 1) :
           /\ pel' = [pel EXCEPT ![g] = @ \cup {n}]
           /\ delivered' = [delivered EXCEPT ![g] = n]
    BY <1>4 DEF Deliver
  <2>2. n \in stream /\ Earlier(delivered[g], n) /\ n \in Nat \X Nat
    BY <2>1, DeliveredWaits, IdsArePairs DEF TypeInv, Waiting
  <2>3. stream' = stream /\ lastId' = lastId
    BY <1>4 DEF Deliver
  <2>4. \A h \in Groups : /\ pel'[h] \subseteq pel[h] \cup {n}
                          /\ delivered'[h] = delivered[h] \/ (h = g /\ delivered'[h] = n)
    BY <2>1 DEF TypeInv, RedisType
  <2>5. ~Earlier(n, delivered[g])
    BY <1>0, <2>2, EarlierOrders
  <2>6. RedisEffect
    BY <1>0, <2>2, <2>3, <2>4, <2>5 DEF RedisEffect
  <2>7. IdsInv'
    BY <2>2, <2>3, <2>4 DEF IdsInv
  <2> QED
    BY <2>6, <2>7
<1>5. ASSUME NEW g \in Groups, Settle(g) PROVE RedisEffect /\ IdsInv'
  <2>1. /\ stream' = stream /\ lastId' = lastId /\ delivered' = delivered
        /\ \A h \in Groups : pel'[h] \subseteq pel[h]
    BY <1>5 DEF Settle, TypeInv, RedisType
  <2> QED
    BY <1>0, <2>1 DEF RedisEffect, IdsInv
<1> QED
  BY <1>1, <1>2, <1>3, <1>4, <1>5 DEF Environment

LEMMA EnvironmentKeeps ==
    ASSUME TypeInv, CountInv, Environment
    PROVE  CountInv'
<1>1. RedisEffect /\ IdsInv' /\ TypeInv'
  BY EnvironmentEffect, EnvironmentTypes DEF CountInv
<1>2. Changed /\ UNCHANGED callVars
  BY DEF Environment, Enqueue, LoseData, EnsureConsumerGroup, Deliver, Settle
<1>3. \A c \in Calls : Still(c)
  BY <1>2 DEF Still, callVars, localVars
<1> QED
  BY <1>1, <1>2, <1>3, CallWatches DEF CountInv

-----------------------------------------------------------------------------
(* Counting a page                                                         *)

\* Entries counted once: those before the page, and those of the page.
LEMMA CountUp ==
    ASSUME NEW A, IsFiniteSet(A), NEW from, NEW next, NEW Q, Q \subseteq A,
           \A n \in Q : InRange(n, from),
           NEW x \in Nat, x <= Cardinality(Before(A, from))
    PROVE  /\ x + Cardinality(Q) <= Cardinality(A)
           /\ (/\ \A n \in A : InRange(n, next) => InRange(n, from)
               /\ \A n \in Q : ~InRange(n, next))
              => x + Cardinality(Q) <= Cardinality(Before(A, next))
<1>1. /\ Before(A, from) \subseteq A /\ Before(A, next) \subseteq A
      /\ Before(A, from) \cap Q = {}
  BY DEF Before
<1>2. /\ Cardinality(Before(A, from)) \in Nat /\ Cardinality(Q) \in Nat
      /\ Cardinality(A) \in Nat /\ Cardinality(Before(A, next)) \in Nat
      /\ IsFiniteSet(Before(A, next))
  BY <1>1, Subsets
<1>3. Cardinality(Before(A, from)) + Cardinality(Q) <= Cardinality(A)
  BY <1>1, Parts
<1>4. ASSUME /\ \A n \in A : InRange(n, next) => InRange(n, from)
             /\ \A n \in Q : ~InRange(n, next)
      PROVE  Cardinality(Before(A, from)) + Cardinality(Q) <= Cardinality(Before(A, next))
  <2>1. Before(A, from) \subseteq Before(A, next) /\ Q \subseteq Before(A, next)
    BY <1>4 DEF Before
  <2> QED
    BY <2>1, <1>1, <1>2, Parts
<1> QED
  BY <1>2, <1>3, <1>4

\* None missed that the page should have.
LEMMA CountDown ==
    ASSUME NEW A, IsFiniteSet(A), NEW from, NEW next, NEW Q, IsFiniteSet(Q),
           NEW x \in Nat, Cardinality(Before(A, from)) <= x
    PROVE  /\ (\A n \in A : InRange(n, from) => n \in Q)
              => Cardinality(A) <= x + Cardinality(Q)
           /\ (\A n \in A : InRange(n, from) /\ ~InRange(n, next) => n \in Q)
              => Cardinality(Before(A, next)) <= x + Cardinality(Q)
<1>1. Before(A, from) \subseteq A /\ Before(A, next) \subseteq A
  BY DEF Before
<1>2. /\ Cardinality(Before(A, from)) \in Nat /\ IsFiniteSet(Before(A, from))
      /\ Cardinality(Before(A, next)) \in Nat
      /\ Cardinality(Q) \in Nat /\ Cardinality(A) \in Nat
  BY <1>1, Subsets
<1>3. ASSUME \A n \in A : InRange(n, from) => n \in Q
      PROVE  Cardinality(A) <= Cardinality(Before(A, from)) + Cardinality(Q)
  <2>1. A \subseteq Before(A, from) \cup Q
    BY <1>3 DEF Before
  <2> QED
    BY <2>1, <1>2, Cover
<1>4. ASSUME \A n \in A : InRange(n, from) /\ ~InRange(n, next) => n \in Q
      PROVE  Cardinality(Before(A, next)) <= Cardinality(Before(A, from)) + Cardinality(Q)
  <2>1. Before(A, next) \subseteq Before(A, from) \cup Q
    BY <1>4 DEF Before
  <2> QED
    BY <2>1, <1>2, Cover
<1> QED
  BY <1>2, <1>3, <1>4

\* The page after none.
LEMMA NothingBefore ==
    ASSUME NEW A, NEW from, \A n \in A : InRange(n, from)
    PROVE  Cardinality(Before(A, from)) = 0
<1>1. Before(A, from) = {}
  BY DEF Before
<1> QED
  BY <1>1, FS_EmptySet

\* The oldest id tells the pending entries of the stream from trimmed ones.
LEMMA MinIdTells ==
    ASSUME TypeInv, IdsInv, NEW g \in Groups
    PROVE  /\ \A n \in stream : ~is_tombstoned_pel_entry(n, FirstIds(stream, 1))
           /\ \A n \in pel[g] :
                 n \in stream \/ is_tombstoned_pel_entry(n, FirstIds(stream, 1))
<1> DEFINE F == FirstIds(stream, 1)
<1>1. stream \subseteq Nat \X Nat /\ IsFiniteSet(stream)
  BY IdsArePairs DEF TypeInv, RedisType
<1>2. F \subseteq stream /\ IsFiniteSet(F) /\ (Cardinality(F) < 1 => F = stream)
  BY <1>1, FirstIdsIsPrefix
<1>3. stream # {} => F # {}
  BY <1>2, FS_EmptySet
<1>4. ASSUME NEW n \in stream, NEW m \in F PROVE ~Earlier(n, m)
  <2> DEFINE B == {x \in stream : Earlier(x, m)}
  <2>1. Cardinality(B) < 1 /\ IsFiniteSet(B) /\ Cardinality(B) \in Nat
    <3>1. B \subseteq stream
      OBVIOUS
    <3>2. Cardinality(B) < 1
      BY <1>4 DEF FirstIds
    <3> QED
      BY <1>1, <3>1, <3>2, Subsets
  <2>2. B = {}
    BY <2>1, FS_EmptySet
  <2> QED
    BY <2>2
<1> HIDE DEF F
<1>5. \A n \in stream : ~is_tombstoned_pel_entry(n, F)
  BY <1>3, <1>4, LessIsEarlier DEF is_tombstoned_pel_entry
<1>6. \A n \in pel[g] : n \in stream \/ is_tombstoned_pel_entry(n, F)
  BY <1>2, LessIsEarlier DEF is_tombstoned_pel_entry, IdsInv
<1> QED
  BY <1>5, <1>6 DEF F

-----------------------------------------------------------------------------
(* The steps of a call                                                     *)

\* A step of call c is of no concern to the others.
LEMMA OwnStep ==
    ASSUME CountInv, NEW c \in Calls, UNCHANGED redisVars, CallInv(c)',
           \A b \in Calls \ {c} : /\ Still(b)
                                  /\ kept'[b] = kept[b] /\ seen'[b] = seen[b]
                                  /\ quiet'[b] = quiet[b]
    PROVE  CountInv'
<1>1. IdsInv'
  BY DEF CountInv, IdsInv, redisVars
<1>2. ASSUME NEW b \in Calls \ {c} PROVE CallInv(b)'
  BY <1>2, CallRests DEF CountInv
<1> QED
  BY <1>1, <1>2 DEF CountInv

\* A refused call has counted nothing.
LEMMA RefusedCall ==
    ASSUME TypeInv, TypeInv', NEW c \in Calls, NEW answer \in Answers, Refuse(c, answer),
           answer = "ok" => kept'[c] = {}
    PROVE  CallInv(c)'
<1>1. pc'[c] = "done" /\ pending'[c] = 0 /\ in_progress'[c] = 0
  BY DEF Refuse, Answer, Goto, TypeInv, CallType
<1>2. Cardinality(seen'[c]) \in Nat
  BY FS_CardinalityType DEF TypeInv, HistoryType
<1>3. ShapeInv(c)' /\ UpperInv(c)' /\ ExactInv(c)'
  BY <1>1, <1>2 DEF ShapeInv, UpperInv, ExactInv, Counting
<1>4. Succeeded(c)' => answer = "ok"
  <2>1. code'[c] = Status(c, answer)
    BY DEF Refuse, Answer, TypeInv, CallType
  <2> QED
    BY <2>1 DEF Succeeded, Status, from_store, Answers
<1>5. LowerInv(c)'
  BY <1>1, <1>4, FS_EmptySet DEF LowerInv, workload, Counting
<1> QED
  BY <1>3, <1>5 DEF CallInv

\* The other calls when c refuses, or only moves on.
LEMMA OthersStill ==
    ASSUME TypeInv, NEW c \in Calls, NEW b \in Calls \ {c}
    PROVE  /\ \A answer : Answer(c, answer) =>
                 /\ pc'[b] = pc[b] /\ grp'[b] = grp[b] /\ lag'[b] = lag[b]
                 /\ start'[b] = start[b] /\ min_id'[b] = min_id[b] /\ code'[b] = code[b]
           /\ \A answer : Refuse(c, answer) => Still(b)
           /\ \A step : Goto(c, step) => pc'[b] = pc[b]
<1>1. ASSUME NEW answer, Answer(c, answer)
      PROVE  /\ pc'[b] = pc[b] /\ grp'[b] = grp[b] /\ lag'[b] = lag[b]
             /\ start'[b] = start[b] /\ min_id'[b] = min_id[b] /\ code'[b] = code[b]
  BY <1>1 DEF Answer, Goto, TypeInv, CallType
<1>2. ASSUME NEW answer, Refuse(c, answer) PROVE Still(b)
  BY <1>1, <1>2 DEF Refuse, Still, TypeInv, CallType
<1>3. ASSUME NEW step, Goto(c, step) PROVE pc'[b] = pc[b]
  BY <1>3 DEF Goto, TypeInv, CallType
<1> QED
  BY <1>1, <1>2, <1>3

\* A call that has not begun to count moves on.
LEMMA MovesOn ==
    ASSUME TypeInv, TypeInv', NEW c \in Calls, CallInv(c),
           pc[c] \in {"idle", "exists", "groups", "create"},
           pc'[c] \in {"exists", "groups", "create", "groups_again"},
           pending'[c] = pending[c], in_progress'[c] = in_progress[c], code'[c] = code[c],
           kept'[c] = kept[c]
    PROVE  CallInv(c)'
<1>1. pending'[c] = 0 /\ in_progress'[c] = 0 /\ kept'[c] = {} /\ code'[c] = "none"
  BY DEF CallInv, ShapeInv
<1>2. Cardinality(seen'[c]) \in Nat
  BY FS_CardinalityType DEF TypeInv, HistoryType
<1>3. ShapeInv(c)' /\ UpperInv(c)' /\ ExactInv(c)' /\ LowerInv(c)'
  BY <1>1, <1>2 DEF ShapeInv, UpperInv, ExactInv, LowerInv, Counting, Succeeded
<1> QED
  BY <1>3 DEF CallInv

LEMMA BeginKeeps ==
    ASSUME TypeInv, CountInv, NEW c \in Calls,
           Begin(c) \/ stream_exists(c) \/ GroupLost(c)
    PROVE  CountInv'
<1>0. /\ TypeInv' /\ CallInv(c) /\ UNCHANGED redisVars
      /\ kept' = kept /\ seen' = seen /\ quiet' = quiet
  BY BeginTypes DEF CountInv, Begin, stream_exists, GroupLost, history
<1>1. ASSUME NEW answer \in Answers, Refuse(c, answer), answer = "ok" => pc[c] = "exists"
      PROVE  CountInv'
  <2>1. CallInv(c)'
    BY <1>0, <1>1, RefusedCall DEF CallInv, ShapeInv
  <2> QED
    BY <1>0, <1>1, <2>1, OthersStill, OwnStep
<1>2. ASSUME NEW g \in Groups, pc[c] = "idle", grp' = [grp EXCEPT ![c] = g], Goto(c, "exists"),
             UNCHANGED <<lag, start, min_id, pending, in_progress, code>>
      PROVE  CountInv'
  <2>1. pc'[c] = "exists" /\ \A b \in Calls \ {c} : Still(b)
    BY <1>2 DEF Goto, Still, TypeInv, CallType
  <2>2. CallInv(c)'
    BY <1>0, <1>2, <2>1, MovesOn
  <2> QED
    BY <1>0, <2>1, <2>2, OwnStep
<1>3. ASSUME pc[c] = "exists", Goto(c, "groups"), UNCHANGED <<localVars, code>>
      PROVE  CountInv'
  <2>1. pc'[c] = "groups" /\ \A b \in Calls \ {c} : Still(b)
    BY <1>3 DEF Goto, Still, TypeInv, CallType, localVars
  <2>2. CallInv(c)'
    BY <1>0, <1>3, <2>1, MovesOn DEF localVars
  <2> QED
    BY <1>0, <2>1, <2>2, OwnStep
<1> QED
  BY <1>1, <1>2, <1>3 DEF Begin, stream_exists, GroupLost, Answers

\* XINFO: the jobs to count are those outstanding, the ones that wait are
\* later than the last one delivered.
LEMMA GroupsKeeps ==
    ASSUME TypeInv, CountInv, NEW c \in Calls, load_stream_groups(c)
    PROVE  CountInv'
<1>0. TypeInv' /\ CallInv(c) /\ UNCHANGED redisVars /\ RedisType
  BY GroupsTypes DEF CountInv, load_stream_groups, TypeInv
<1>g. PICK g : g = grp[c]
  OBVIOUS
<1>1. CASE g \in groups /\ Goto(c, "capabilities")
           /\ \E l \in LagReplies(g) : lag' = [lag EXCEPT ![c] = l]
           /\ start' = [start EXCEPT ![c].id = delivered[g]]
           /\ kept' = [kept EXCEPT ![c] = Outstanding(g)]
           /\ seen' = [seen EXCEPT ![c] = stream]
           /\ quiet' = [quiet EXCEPT ![c] = TRUE]
           /\ UNCHANGED <<grp, min_id, pending, in_progress, code>>
  <2>d. PICK d : d = delivered[g]
    OBVIOUS
  <2>1. /\ pc'[c] = "capabilities" /\ kept'[c] = Outstanding(g) /\ seen'[c] = stream
        /\ lag'[c] \subseteq {Cardinality(Waiting(g))} /\ grp'[c] = g
        /\ pending'[c] = pending[c] /\ in_progress'[c] = in_progress[c] /\ code'[c] = code[c]
    BY <1>g, <1>1 DEF Goto, LagReplies, TypeInv, CallType, HistoryType
  <2>2. start'[c].id = d
    BY <1>1, <2>d DEF TypeInv, CallType, Start
  <2>3. /\ pending'[c] = 0 /\ in_progress'[c] = 0 /\ code'[c] = "none"
        /\ pc[c] \in {"groups", "groups_again"}
    BY <2>1 DEF CallInv, ShapeInv, CountInv, load_stream_groups
  <2>4. /\ Waiting(g)' = Waiting(g) /\ Outstanding(g) = Outstanding(grp[c])'
        /\ delivered' = delivered /\ stream' = stream
    BY <1>0, <1>g, <2>1 DEF Waiting, Outstanding, redisVars
  <2>5. /\ Cardinality(Waiting(g)) \in Nat /\ Cardinality(stream) \in Nat
        /\ Cardinality(Waiting(g)) <= Cardinality(stream)
    BY <1>0, WaitingIsFinite, Subsets DEF RedisType
  <2>6. d \in StreamIds \cup {Origin} /\ ~Earlier(d, d)
    BY <1>0, <1>1, <2>d, IdsArePairs, EarlierOrders DEF RedisType
  <2>7. /\ Cardinality(Late(c, d)') <= Cardinality(Waiting(g))
    <3>1. {n \in kept'[c] : Earlier(d, n)} \subseteq Waiting(g)
      BY <2>d, <2>1, <1>0, WaitingIsFinite DEF Waiting, Outstanding
    <3>2. Cardinality({n \in kept'[c] : Earlier(d, n)}) <= Cardinality(Waiting(g))
      BY <1>0, <3>1, WaitingIsFinite, Subsets
    <3>3. Late(c, d)' = {n \in kept'[c] : Earlier(d, n)}
      BY DEF Late
    <3> QED
      BY <3>2, <3>3
  <2>8. ShapeInv(c)'
    BY <2>1, <2>3 DEF ShapeInv
  <2>9. UpperInv(c)'
    BY <2>1, <2>3, <2>4, <2>5 DEF UpperInv, Counting
  <2>10. Covers(c, d)'
    BY <2>d, <2>1, <2>2, <2>4, <2>6, <2>7 DEF Covers
  <2>11. LowerInv(c)'
    BY <2>1, <2>3, <2>6, <2>10 DEF LowerInv, Succeeded
  <2>12. ExactInv(c)'
    BY <2>d, <2>1, <2>2, <2>4 DEF ExactInv
  <2>13. \A b \in Calls \ {c} : /\ Still(b) /\ kept'[b] = kept[b] /\ seen'[b] = seen[b]
                                /\ quiet'[b] = quiet[b]
    BY <1>1, OthersStill DEF Still, TypeInv, CallType, HistoryType
  <2> QED
    BY <1>0, <2>8, <2>9, <2>11, <2>12, <2>13, OwnStep DEF CallInv
<1>2. CASE /\ Goto(c, "create") /\ pc[c] = "groups"
           /\ UNCHANGED <<localVars, code, history>>
  <2>1. pc'[c] = "create" /\ \A b \in Calls \ {c} : Still(b)
    BY <1>2 DEF Goto, Still, TypeInv, CallType, localVars
  <2>2. CallInv(c)'
    BY <1>0, <1>2, <2>1, MovesOn DEF localVars, history
  <2> QED
    BY <1>0, <1>2, <2>1, <2>2, OwnStep DEF history
<1>3. CASE Refuse(c, "not_found") /\ UNCHANGED history
  <2>1. CallInv(c)'
    BY <1>0, <1>3, RefusedCall DEF Answers
  <2> QED
    BY <1>0, <1>3, <2>1, OthersStill, OwnStep DEF history
<1> QED
  BY <1>g, <1>1, <1>2, <1>3 DEF load_stream_groups

\* A step of call c that creates a group.
LEMMA CreatingStep ==
    ASSUME TypeInv, CountInv, TypeInv', NEW c \in Calls, pc[c] = "create",
           XGroupCreate(grp[c], Origin), Changed, CallInv(c)',
           \A b \in Calls \ {c} : Still(b)
    PROVE  CountInv'
<1>1. RedisEffect /\ IdsInv'
  BY CreateEffect DEF CountInv, TypeInv, CallType
<1>2. \A b \in Calls \ {c} : CallInv(b)'
  BY <1>1, CallWatches DEF CountInv
<1> QED
  BY <1>1, <1>2 DEF CountInv

LEMMA CreateGroupKeeps ==
    ASSUME TypeInv, CountInv, NEW c \in Calls, CreateGroup(c)
    PROVE  CountInv'
<1>1. TypeInv' /\ CallInv(c)
  BY CreateGroupTypes DEF CountInv
<1>2. /\ pc[c] = "create" /\ pc'[c] = "groups_again" /\ UNCHANGED <<localVars, code>>
      /\ \A b \in Calls \ {c} : Still(b)
  BY DEF CreateGroup, Goto, Still, TypeInv, CallType, localVars
<1>3. kept'[c] = kept[c]
  BY <1>2 DEF CreateGroup, Changed, Counting
<1>4. CallInv(c)'
  BY <1>1, <1>2, <1>3, MovesOn DEF localVars
<1> QED
  BY <1>1, <1>2, <1>4, CreatingStep DEF CreateGroup

LEMMA FailsKeeps ==
    ASSUME TypeInv, CountInv, NEW c \in Calls, CommandFails(c)
    PROVE  CountInv'
<1>1. TypeInv' /\ Refuse(c, "unavailable")
  BY FailTypes DEF CommandFails
<1>2. CallInv(c)'
  BY <1>1, RefusedCall DEF Answers
<1>3. \A b \in Calls \ {c} : Still(b)
  BY <1>1, OthersStill
<1>4. CASE UNCHANGED <<redisVars, history>>
  BY <1>2, <1>3, <1>4, OwnStep DEF history
<1>5. CASE pc[c] = "create" /\ XGroupCreate(grp[c], Origin) /\ Changed
  BY <1>1, <1>2, <1>3, <1>5, CreatingStep
<1> QED
  BY <1>4, <1>5 DEF CommandFails

\* The first page of XRANGE starts behind what was delivered at XINFO; a lag
\* is the number of jobs that waited then.
LEMMA CapabilitiesKeeps ==
    ASSUME TypeInv, CountInv, NEW c \in Calls, load_redis_capabilities(c)
    PROVE  CountInv'
<1>0. /\ TypeInv' /\ CallInv(c) /\ UNCHANGED redisVars /\ UNCHANGED <<grp, code>>
      /\ kept' = kept /\ seen' = seen /\ quiet' = quiet
      /\ in_progress' = in_progress /\ min_id' = min_id
      /\ pc[c] = "capabilities" /\ pending[c] = 0 /\ in_progress[c] = 0 /\ code[c] = "none"
  BY CapabilitiesTypes DEF CountInv, CallInv, ShapeInv, load_redis_capabilities, history
<1>1. PICK d \in StreamIds \cup {Origin} : Covers(c, d)
  BY <1>0 DEF CallInv, LowerInv, Counting
<1>2. PICK g : g = grp[c]
  OBVIOUS
<1>3. /\ Waiting(grp[c])' = Waiting(g) /\ Outstanding(grp[c])' = Outstanding(g)
      /\ Late(c, d)' = Late(c, d) /\ Outstanding(grp[c]) = Outstanding(g)
      /\ Waiting(grp[c]) = Waiting(g)
  BY <1>0, <1>2 DEF Waiting, Outstanding, Late, redisVars
<1>4. /\ UpperInv(c) /\ ExactInv(c) /\ IsFiniteSet(seen[c]) /\ IsFiniteSet(kept[c])
      /\ Cardinality(seen[c]) \in Nat /\ grp[c] \in Groups
  BY <1>0, FS_CardinalityType DEF CallInv, TypeInv, HistoryType, CallType
<1>5. \A b \in Calls \ {c} : Still(b)
  BY OthersStill DEF load_redis_capabilities, Still, TypeInv, CallType
<1>6. CASE /\ \E k \in caps' : start' = [start EXCEPT ![c] =
                   stream_range_start_after(@.id, k.exclusive_range_supported, FALSE)]
           /\ Goto(c, "range") /\ pending' = pending
  <2>1. pc'[c] = "range" /\ pending'[c] = 0
    BY <1>0, <1>6 DEF Goto, TypeInv, CallType
  <2>2. d \in Nat \X Nat /\ start[c].id = d
    BY <1>0, <1>1, IdsArePairs DEF Covers
  <2>3. \A n \in StreamIds : InRange(n, start'[c]) <=> Earlier(d, n)
    <3>1. PICK k \in caps' : start'[c] =
              stream_range_start_after(d, k.exclusive_range_supported, FALSE)
      BY <1>6, <2>2 DEF TypeInv, CallType
    <3> QED
      BY <2>2, <3>1, RangesGoOn
  <2>4. ShapeInv(c)'
    BY <1>0, <2>1 DEF ShapeInv
  <2>5. UpperInv(c)'
    <3>1. Cardinality(Before(seen'[c], start'[c])) \in Nat
      BY <1>0, <1>4, Subsets DEF Before
    <3> QED
      BY <1>0, <1>4, <2>1, <3>1 DEF UpperInv, Counting, redisVars
  <2>6. LowerInv(c)'
    <3>1. Cardinality(Before(Late(c, d), start'[c])) = 0
      <4>1. Late(c, d) \subseteq StreamIds
        BY DEF Late, TypeInv, HistoryType
      <4>2. \A n \in Late(c, d) : InRange(n, start'[c])
        BY <2>3, <4>1 DEF Late
      <4> QED
        BY <4>2, NothingBefore
    <3>2. Covers(c, d)'
      BY <1>0, <1>1, <1>2, <1>3, <2>1, <3>1 DEF Covers, redisVars
    <3> QED
      BY <1>0, <2>1, <3>2 DEF LowerInv, Succeeded
  <2>7. ExactInv(c)'
    <3> SUFFICES ASSUME quiet[c] PROVE ExactInv(c)'
      BY <1>0 DEF ExactInv
    <3>1. d = delivered[g]
      BY <1>0, <1>2, <1>4, <2>2 DEF ExactInv, Counting
    <3>2. \A n \in stream : n \in StreamIds
      BY DEF TypeInv, RedisType
    <3>3. \A n \in stream : InRange(n, start'[c]) <=> n \in Waiting(g)
      BY <2>3, <3>1, <3>2 DEF Waiting
    <3>4. Cardinality(Before(Waiting(g), start'[c])) = 0
      BY <3>3, NothingBefore DEF Waiting
    <3> QED
      BY <1>0, <1>3, <2>1, <3>3, <3>4 DEF ExactInv, redisVars
  <2> QED
    BY <1>0, <1>5, <2>4, <2>5, <2>6, <2>7, OwnStep DEF CallInv
<1>7. CASE /\ \E l \in lag[c] : pending' = [pending EXCEPT ![c] = l]
           /\ start' = [start EXCEPT ![c] = FromStart]
           /\ Goto(c, "min")
  <2>1. PICK l \in lag[c] : pending'[c] = l
    BY <1>7 DEF TypeInv, CallType
  <2>2. pc'[c] = "min" /\ start'[c] = FromStart
    BY <1>7 DEF Goto, TypeInv, CallType
  <2>3. ShapeInv(c)'
    BY <1>0, <2>2 DEF ShapeInv
  <2>4. UpperInv(c)'
    BY <1>0, <1>4, <2>1, <2>2 DEF UpperInv, Counting, redisVars
  <2>5. Covers(c, d)'
    BY <1>0, <1>1, <1>2, <1>3, <2>1, <2>2 DEF Covers, redisVars
  <2>6. LowerInv(c)'
    BY <1>0, <2>2, <2>5 DEF LowerInv, Succeeded
  <2>7. ExactInv(c)'
    BY <1>0, <1>3, <1>4, <2>1, <2>2 DEF ExactInv, Counting
  <2> QED
    BY <1>0, <1>5, <2>3, <2>4, <2>6, <2>7, OwnStep DEF CallInv
<1> QED
  BY <1>6, <1>7 DEF load_redis_capabilities

\* A page of XRANGE.
LEMMA PendingKeeps ==
    ASSUME TypeInv, CountInv, NEW c \in Calls, count_pending_fallback(c)
    PROVE  CountInv'
<1>0. /\ TypeInv' /\ CallInv(c) /\ UNCHANGED redisVars /\ UNCHANGED <<grp, code>>
      /\ kept' = kept /\ seen' = seen /\ quiet' = quiet
      /\ in_progress' = in_progress /\ min_id' = min_id
      /\ pc[c] = "range" /\ in_progress[c] = 0 /\ code[c] = "none"
  BY PendingTypes DEF CountInv, CallInv, ShapeInv, count_pending_fallback, history
<1>1. PICK d \in StreamIds \cup {Origin} : Covers(c, d)
  BY <1>0 DEF CallInv, LowerInv, Counting
<1>2. PICK g : g = grp[c]
  OBVIOUS
<1>3. /\ Waiting(grp[c])' = Waiting(g) /\ Outstanding(grp[c])' = Outstanding(g)
      /\ Late(c, d)' = Late(c, d) /\ Outstanding(grp[c]) = Outstanding(g)
      /\ Waiting(grp[c]) = Waiting(g)
  BY <1>0, <1>2 DEF Waiting, Outstanding, Late, redisVars
<1>4. /\ UpperInv(c) /\ ExactInv(c) /\ IsFiniteSet(seen[c]) /\ IsFiniteSet(kept[c])
      /\ Cardinality(seen[c]) \in Nat /\ pending[c] \in Nat /\ seen[c] \subseteq StreamIds
      /\ stream \subseteq StreamIds /\ IsFiniteSet(stream)
  BY <1>0, FS_CardinalityType DEF CallInv, TypeInv, HistoryType, CallType, RedisType
<1>5. PICK from \in Start : from = start[c]
  BY DEF TypeInv, CallType
<1>6. PICK page : page = Page(stream, from, PendingPage)
  OBVIOUS
<1>7. /\ page \subseteq stream /\ IsFiniteSet(page) /\ Cardinality(page) \in Nat
      /\ \A n \in page : InRange(n, from)
      /\ Cardinality(page) < PendingPage => \A n \in stream : InRange(n, from) => n \in page
      /\ ~(Cardinality(page) < PendingPage) =>
            \A n \in StreamIds :
               /\ InRange(n, NextStart(page)) => InRange(n, from)
               /\ n \in page => ~InRange(n, NextStart(page))
               /\ n \in stream /\ InRange(n, from) /\ ~InRange(n, NextStart(page))
                  => n \in page
  BY <1>4, <1>6, Pages, PagesAssumption, FS_CardinalityType
<1>8. /\ pending'[c] = pending[c] + Cardinality(page)
      /\ \A b \in Calls \ {c} : Still(b)
  BY <1>5, <1>6, OthersStill DEF count_pending_fallback, Still, TypeInv, CallType
<1>9. IsFiniteSet(Late(c, d)) /\ Late(c, d) \subseteq stream
      /\ Cardinality(Before(Late(c, d), from)) <= pending[c]
  <2>1. Late(c, d) \subseteq kept[c] /\ kept[c] \subseteq Outstanding(grp[c])
    BY <1>1 DEF Late, Covers
  <2> QED
    BY <1>0, <1>1, <1>4, <1>5, <2>1, FS_Subset, WaitingIsFinite DEF Covers, TypeInv
<1>10. page \subseteq seen[c] /\ pending[c] <= Cardinality(Before(seen[c], from))
  BY <1>0, <1>4, <1>5, <1>7 DEF UpperInv, Counting
<1>11. quiet[c] => /\ pending[c] = Cardinality(Before(Waiting(g), from))
                   /\ page \subseteq Waiting(g)
                   /\ \A n \in stream : InRange(n, from) => n \in Waiting(g)
  BY <1>0, <1>3, <1>4, <1>5, <1>7 DEF ExactInv, Counting
<1>12. IsFiniteSet(Waiting(g)) /\ Waiting(g) \subseteq stream
  BY WaitingIsFinite DEF TypeInv
<1>13. CASE /\ Cardinality(page) < PendingPage
            /\ Goto(c, "min") /\ start' = [start EXCEPT ![c] = FromStart]
  <2>1. pc'[c] = "min" /\ start'[c] = FromStart
    BY <1>13 DEF Goto, TypeInv, CallType
  <2>2. pending'[c] <= Cardinality(seen[c])
    BY <1>4, <1>7, <1>8, <1>10, CountUp
  <2>3. Cardinality(Late(c, d)) <= pending'[c]
    BY <1>4, <1>7, <1>8, <1>9, <1>13, CountDown
  <2>4. quiet[c] => pending'[c] = Cardinality(Waiting(g))
    <3> SUFFICES ASSUME quiet[c] PROVE pending'[c] = Cardinality(Waiting(g))
      OBVIOUS
    <3>1. pending'[c] <= Cardinality(Waiting(g))
      BY <1>4, <1>7, <1>8, <1>11, <1>12, CountUp
    <3>2. Cardinality(Waiting(g)) <= pending'[c]
      BY <1>4, <1>7, <1>8, <1>11, <1>12, <1>13, CountDown
    <3> QED
      BY <3>1, <3>2, <1>4, <1>7, <1>8, <1>12, FS_CardinalityType
  <2>5. ShapeInv(c)'
    BY <1>0, <2>1 DEF ShapeInv
  <2>6. UpperInv(c)'
    BY <1>0, <1>4, <2>1, <2>2 DEF UpperInv, Counting, redisVars
  <2>7. Covers(c, d)'
    BY <1>0, <1>1, <1>2, <1>3, <2>1, <2>3 DEF Covers, redisVars
  <2>8. LowerInv(c)'
    BY <1>0, <2>1, <2>7 DEF LowerInv, Succeeded
  <2>9. ExactInv(c)'
    BY <1>0, <1>3, <2>1, <2>4 DEF ExactInv, Counting
  <2> QED
    BY <1>0, <1>8, <2>5, <2>6, <2>8, <2>9, OwnStep DEF CallInv
<1>14. CASE /\ ~(Cardinality(page) < PendingPage)
            /\ start' = [start EXCEPT ![c] = NextStart(page)] /\ pc' = pc
  <2>0. PICK next : next = NextStart(page)
    OBVIOUS
  <2>1. /\ pc'[c] = "range" /\ start'[c] = next
        /\ \A n \in StreamIds :
               /\ InRange(n, next) => InRange(n, from)
               /\ n \in page => ~InRange(n, next)
               /\ n \in stream /\ InRange(n, from) /\ ~InRange(n, next) => n \in page
    BY <1>0, <1>7, <1>14, <2>0 DEF TypeInv, CallType
  <2>2. pending'[c] <= Cardinality(Before(seen[c], next))
    BY <1>4, <1>7, <1>8, <1>10, <2>1, CountUp
  <2>3. Cardinality(Before(Late(c, d), next)) <= pending'[c]
    BY <1>4, <1>7, <1>8, <1>9, <2>1, CountDown
  <2>4. quiet[c] => /\ pending'[c] = Cardinality(Before(Waiting(g), next))
                    /\ \A n \in stream : InRange(n, next) => n \in Waiting(g)
    <3> SUFFICES ASSUME quiet[c]
                 PROVE  /\ pending'[c] = Cardinality(Before(Waiting(g), next))
                        /\ \A n \in stream : InRange(n, next) => n \in Waiting(g)
      OBVIOUS
    <3>1. pending'[c] <= Cardinality(Before(Waiting(g), next))
      BY <1>4, <1>7, <1>8, <1>11, <1>12, <2>1, CountUp
    <3>2. Cardinality(Before(Waiting(g), next)) <= pending'[c]
      BY <1>4, <1>7, <1>8, <1>11, <1>12, <2>1, CountDown
    <3>3. Cardinality(Before(Waiting(g), next)) \in Nat
      BY <1>12, Subsets DEF Before
    <3> QED
      BY <1>4, <1>7, <1>8, <1>11, <2>1, <3>1, <3>2, <3>3
  <2>5. ShapeInv(c)'
    BY <1>0, <2>1 DEF ShapeInv
  <2>6. UpperInv(c)'
    <3>1. /\ Cardinality(Before(seen[c], next)) <= Cardinality(seen[c])
          /\ Cardinality(Before(seen[c], next)) \in Nat
      BY <1>4, Subsets DEF Before
    <3> QED
      BY <1>0, <1>4, <1>7, <1>8, <2>1, <2>2, <3>1 DEF UpperInv, Counting, redisVars
  <2>7. Covers(c, d)'
    BY <1>0, <1>1, <1>2, <1>3, <2>1, <2>3 DEF Covers, redisVars
  <2>8. LowerInv(c)'
    BY <1>0, <2>1, <2>7 DEF LowerInv, Succeeded
  <2>9. ExactInv(c)'
    BY <1>0, <1>3, <2>1, <2>4 DEF ExactInv, redisVars
  <2> QED
    BY <1>0, <1>8, <2>5, <2>6, <2>8, <2>9, OwnStep DEF CallInv
<1> QED
  BY <1>5, <1>6, <1>13, <1>14 DEF count_pending_fallback

\* The oldest id.
LEMMA MinKeeps ==
    ASSUME TypeInv, CountInv, NEW c \in Calls, get_stream_min_id(c)
    PROVE  CountInv'
<1>0. /\ TypeInv' /\ CallInv(c) /\ UNCHANGED redisVars /\ UNCHANGED <<grp, code>>
      /\ kept' = kept /\ seen' = seen /\ quiet' = quiet
      /\ in_progress' = in_progress /\ pending' = pending
      /\ pc[c] = "min" /\ in_progress[c] = 0 /\ code[c] = "none"
      /\ start'[c] = FromStart
  BY MinTypes DEF CountInv, CallInv, ShapeInv, get_stream_min_id, history
<1>1. PICK d \in StreamIds \cup {Origin} : Covers(c, d)
  BY <1>0 DEF CallInv, LowerInv, Counting
<1>2. PICK g \in Groups : g = grp[c]
  BY <1>0 DEF TypeInv, CallType
<1>3. /\ Waiting(grp[c])' = Waiting(g) /\ Outstanding(grp[c])' = Outstanding(g)
      /\ Late(c, d)' = Late(c, d) /\ Old(c, d)' = Old(c, d)
      /\ Outstanding(grp[c]) = Outstanding(g) /\ Waiting(grp[c]) = Waiting(g)
  BY <1>0, <1>2 DEF Waiting, Outstanding, Late, Old, redisVars
<1>4. /\ pc'[c] = "pel" /\ min_id'[c] = FirstIds(stream, 1)
      /\ \A b \in Calls \ {c} : Still(b)
  BY DEF get_stream_min_id, Goto, Still, TypeInv, CallType
<1>5. /\ \A n \in stream : ~is_tombstoned_pel_entry(n, min_id'[c])
      /\ \A n \in pel[g] : n \in stream \/ is_tombstoned_pel_entry(n, min_id'[c])
  BY <1>4, MinIdTells DEF CountInv
<1>6. /\ UpperInv(c) /\ ExactInv(c) /\ IsFiniteSet(seen[c]) /\ Cardinality(seen[c]) \in Nat
      /\ kept[c] \subseteq stream /\ stream \subseteq seen[c] /\ stream \subseteq Nat \X Nat
  BY <1>0, <1>1, WaitingIsFinite, FS_CardinalityType, IdsArePairs
  DEF CallInv, TypeInv, HistoryType, RedisType, Covers, UpperInv, Counting
<1>7. ShapeInv(c)'
  BY <1>0, <1>4 DEF ShapeInv
<1>8. UpperInv(c)'
  <2>1. Cardinality(Before(seen[c], FromStart)) \in Nat
    BY <1>6, Subsets DEF Before
  <2> QED
    BY <1>0, <1>2, <1>4, <1>5, <1>6, <2>1 DEF UpperInv, Counting, redisVars
<1>9. LowerInv(c)'
  <2>1. Cardinality(Before(Old(c, d), FromStart)) = 0
    BY <1>6, AllFromStart, NothingBefore DEF Old
  <2>2. Covers(c, d)'
    BY <1>0, <1>1, <1>2, <1>3, <1>4, <1>5, <1>6, <2>1 DEF Covers, redisVars
  <2> QED
    BY <1>0, <1>4, <2>2 DEF LowerInv, Succeeded
<1>10. ExactInv(c)'
  <2>1. Cardinality(Before(pel[g] \cap stream, FromStart)) = 0
    BY <1>6, AllFromStart, NothingBefore
  <2> QED
    BY <1>0, <1>2, <1>3, <1>4, <1>5, <1>6, <2>1 DEF ExactInv, Counting, redisVars
<1> QED
  BY <1>0, <1>4, <1>7, <1>8, <1>9, <1>10, OwnStep DEF CallInv

\* What a page of XPENDING counts.
PelPageOf(c) == Page(pel[grp[c]], start[c], PelPage)
PelCount(c) == {n \in PelPageOf(c) : ~is_tombstoned_pel_entry(n, min_id[c])}

LEMMA PelPages ==
    ASSUME TypeInv, CountInv, NEW c \in Calls, count_processable_in_progress(c)
    PROVE  LET page == PelPageOf(c)
               Q == PelCount(c)
               from == start[c]
           IN
           /\ IsFiniteSet(Q) /\ Cardinality(Q) \in Nat /\ Q \subseteq StreamIds
           /\ Q \subseteq seen[c] /\ \A n \in Q : InRange(n, from)
           /\ in_progress'[c] = in_progress[c] + Cardinality(Q)
           /\ quiet[c] => Q \subseteq pel[grp[c]] \cap stream
           /\ Cardinality(page) < PelPage =>
                 \A n \in pel[grp[c]] : InRange(n, from) => n \in page
           /\ ~(Cardinality(page) < PelPage) =>
                 \A n \in StreamIds :
                    /\ InRange(n, NextStart(page)) => InRange(n, from)
                    /\ n \in page => ~InRange(n, NextStart(page))
                    /\ n \in pel[grp[c]] /\ InRange(n, from) /\ ~InRange(n, NextStart(page))
                       => n \in page
<1>1. PICK from \in Start : from = start[c]
  BY DEF TypeInv, CallType
<1>2. PICK S : S = pel[grp[c]]
  OBVIOUS
<1>3. PICK page : page = PelPageOf(c)
  OBVIOUS
<1>4. /\ S \subseteq StreamIds /\ IsFiniteSet(S) /\ PelPage \in Nat \ {0}
      /\ grp[c] \in groups /\ pc[c] = "pel"
  BY <1>2, PagesAssumption DEF TypeInv, RedisType, count_processable_in_progress
<1>5. /\ page \subseteq S /\ IsFiniteSet(page)
      /\ \A n \in page : InRange(n, from)
      /\ Cardinality(page) < PelPage => \A n \in S : InRange(n, from) => n \in page
      /\ ~(Cardinality(page) < PelPage) =>
            \A n \in StreamIds :
               /\ InRange(n, NextStart(page)) => InRange(n, from)
               /\ n \in page => ~InRange(n, NextStart(page))
               /\ n \in S /\ InRange(n, from) /\ ~InRange(n, NextStart(page)) => n \in page
  BY <1>1, <1>2, <1>3, <1>4, Pages DEF PelPageOf
<1>6. PICK Q : Q = PelCount(c)
  OBVIOUS
<1>7. /\ Q \subseteq page /\ \A n \in Q : ~is_tombstoned_pel_entry(n, min_id[c])
      /\ IsFiniteSet(Q) /\ Cardinality(Q) \in Nat
  BY <1>3, <1>5, <1>6, FS_Subset, FS_CardinalityType DEF PelCount
<1>8. Q \subseteq seen[c] /\ (quiet[c] => Q \subseteq S \cap stream)
  BY <1>2, <1>4, <1>5, <1>7 DEF CountInv, CallInv, UpperInv, ExactInv, Counting
<1>9. in_progress'[c] = in_progress[c] + Cardinality(Q)
  BY <1>6 DEF count_processable_in_progress, PelCount, PelPageOf, TypeInv, CallType
<1> QED
  BY <1>1, <1>2, <1>3, <1>4, <1>5, <1>6, <1>7, <1>8, <1>9

\* The jobs it has to find there are there.
LEMMA OldIsPending ==
    ASSUME TypeInv, CountInv, NEW c \in Calls, pc[c] = "pel",
           NEW d \in StreamIds \cup {Origin}, Covers(c, d)
    PROVE  /\ IsFiniteSet(Old(c, d)) /\ Old(c, d) \subseteq pel[grp[c]]
           /\ \A n \in Old(c, d) :
                 n \in StreamIds /\ ~is_tombstoned_pel_entry(n, min_id[c])
           /\ Cardinality(kept[c]) <= Cardinality(Late(c, d)) + Cardinality(Old(c, d))
           /\ Cardinality(kept[c]) \in Nat
           /\ Cardinality(Late(c, d)) \in Nat /\ Cardinality(Old(c, d)) \in Nat
<1>1. IsFiniteSet(kept[c]) /\ kept[c] \subseteq StreamIds /\ grp[c] \in Groups
  BY DEF TypeInv, HistoryType, CallType
<1>2. /\ Late(c, d) \subseteq kept[c] /\ Old(c, d) \subseteq kept[c]
      /\ kept[c] \subseteq Late(c, d) \cup Old(c, d)
  BY DEF Late, Old
<1>3. /\ IsFiniteSet(Late(c, d)) /\ IsFiniteSet(Old(c, d))
      /\ Cardinality(Late(c, d)) \in Nat /\ Cardinality(Old(c, d)) \in Nat
      /\ Cardinality(kept[c]) \in Nat
  BY <1>1, <1>2, Subsets
<1>4. Cardinality(kept[c]) <= Cardinality(Late(c, d)) + Cardinality(Old(c, d))
  BY <1>2, <1>3, Cover
<1>5. ASSUME NEW n \in Old(c, d) PROVE n \in pel[grp[c]]
  <2>1. /\ n \in Outstanding(grp[c]) /\ ~Earlier(delivered[grp[c]], d) /\ ~Earlier(d, n)
    BY <1>2, <1>5 DEF Covers, Old
  <2>2. n \in Nat \X Nat /\ d \in Nat \X Nat /\ delivered[grp[c]] \in Nat \X Nat
    BY <1>1, <1>2, <1>5, IdsArePairs DEF TypeInv, RedisType
  <2>3. ~Earlier(delivered[grp[c]], n)
    BY <2>1, <2>2, NotEarlierChains
  <2> QED
    BY <2>1, <2>3 DEF Outstanding, Waiting
<1>6. \A n \in Old(c, d) : n \in StreamIds /\ ~is_tombstoned_pel_entry(n, min_id[c])
  BY <1>1, <1>2 DEF Covers
<1> QED
  BY <1>3, <1>4, <1>5, <1>6

\* The last page of XPENDING makes the count complete.
LEMMA LastPelPage ==
    ASSUME TypeInv, CountInv, NEW c \in Calls, count_processable_in_progress(c),
           Cardinality(PelPageOf(c)) < PelPage
    PROVE  /\ in_progress'[c] <= Cardinality(seen[c])
           /\ pending[c] + in_progress'[c] >= Cardinality(kept[c])
           /\ quiet[c] => /\ pending[c] = Cardinality(Waiting(grp[c]))
                          /\ in_progress'[c] = Cardinality(pel[grp[c]] \cap stream)
<1>0. /\ pc[c] = "pel" /\ UpperInv(c) /\ LowerInv(c) /\ ExactInv(c)
      /\ in_progress[c] \in Nat /\ pending[c] \in Nat
      /\ IsFiniteSet(seen[c]) /\ IsFiniteSet(stream)
  BY DEF count_processable_in_progress, CountInv, CallInv, TypeInv, CallType, HistoryType,
         RedisType
<1>1. PICK Q : Q = PelCount(c)
  OBVIOUS
<1>2. /\ IsFiniteSet(Q) /\ Cardinality(Q) \in Nat
      /\ Q \subseteq seen[c] /\ \A n \in Q : InRange(n, start[c])
      /\ in_progress'[c] = in_progress[c] + Cardinality(Q)
      /\ quiet[c] => Q \subseteq pel[grp[c]] \cap stream
      /\ \A n \in pel[grp[c]] : InRange(n, start[c]) => n \in PelPageOf(c)
  BY <1>1, PelPages
<1>3. \A n \in pel[grp[c]] :
         InRange(n, start[c]) /\ ~is_tombstoned_pel_entry(n, min_id[c]) => n \in Q
  BY <1>1, <1>2 DEF PelCount
<1>4. in_progress'[c] <= Cardinality(seen[c])
  <2>1. in_progress[c] <= Cardinality(Before(seen[c], start[c]))
    BY <1>0 DEF UpperInv
  <2> QED
    BY <1>0, <1>2, <2>1, CountUp
<1>5. pending[c] + in_progress'[c] >= Cardinality(kept[c])
  <2>1. PICK d \in StreamIds \cup {Origin} : Covers(c, d)
    BY <1>0 DEF LowerInv, Counting
  <2>2. /\ IsFiniteSet(Old(c, d)) /\ Old(c, d) \subseteq pel[grp[c]]
        /\ \A n \in Old(c, d) : ~is_tombstoned_pel_entry(n, min_id[c])
        /\ Cardinality(kept[c]) <= Cardinality(Late(c, d)) + Cardinality(Old(c, d))
        /\ Cardinality(kept[c]) \in Nat
        /\ Cardinality(Late(c, d)) \in Nat /\ Cardinality(Old(c, d)) \in Nat
    BY <1>0, <2>1, OldIsPending
  <2>3. /\ Cardinality(Before(Old(c, d), start[c])) <= in_progress[c]
        /\ Cardinality(Late(c, d)) <= pending[c]
    BY <1>0, <2>1 DEF Covers
  <2>4. \A n \in Old(c, d) : InRange(n, start[c]) => n \in Q
    BY <1>3, <2>2
  <2>5. Cardinality(Old(c, d)) <= in_progress'[c]
    BY <1>0, <1>2, <2>2, <2>3, <2>4, CountDown
  <2> QED
    BY <1>0, <1>2, <2>2, <2>3, <2>5
<1>6. ASSUME quiet[c]
      PROVE  /\ pending[c] = Cardinality(Waiting(grp[c]))
             /\ in_progress'[c] = Cardinality(pel[grp[c]] \cap stream)
  <2> DEFINE A == pel[grp[c]] \cap stream
  <2>1. /\ pending[c] = Cardinality(Waiting(grp[c]))
        /\ in_progress[c] = Cardinality(Before(A, start[c]))
        /\ \A n \in A : ~is_tombstoned_pel_entry(n, min_id[c])
    BY <1>0, <1>6 DEF ExactInv, Counting
  <2>2. IsFiniteSet(A) /\ Cardinality(A) \in Nat
    BY <1>0, Subsets
  <2>3. Q \subseteq A /\ \A n \in A : InRange(n, start[c]) => n \in Q
    BY <1>2, <1>3, <1>6, <2>1
  <2> HIDE DEF A
  <2>4. in_progress'[c] <= Cardinality(A)
    BY <1>0, <1>2, <2>1, <2>2, <2>3, CountUp
  <2>5. Cardinality(A) <= in_progress'[c]
    BY <1>0, <1>2, <2>1, <2>2, <2>3, CountDown
  <2> QED
    BY <1>0, <1>2, <2>1, <2>2, <2>4, <2>5 DEF A
<1> QED
  BY <1>4, <1>5, <1>6

LEMMA PelKeeps ==
    ASSUME TypeInv, CountInv, NEW c \in Calls, count_processable_in_progress(c)
    PROVE  CountInv'
<1>0. /\ TypeInv' /\ CallInv(c) /\ UNCHANGED redisVars
      /\ kept' = kept /\ seen' = seen /\ quiet' = quiet /\ pending' = pending
      /\ pc[c] = "pel" /\ code[c] = "none"
  BY PelTypes DEF CountInv, CallInv, ShapeInv, count_processable_in_progress, history
<1>1. /\ UpperInv(c) /\ LowerInv(c) /\ ExactInv(c)
      /\ in_progress[c] \in Nat /\ pending[c] \in Nat /\ in_progress'[c] \in Nat
      /\ IsFiniteSet(seen[c]) /\ Cardinality(seen[c]) \in Nat /\ IsFiniteSet(stream)
      /\ seen[c] \subseteq StreamIds
  BY <1>0, FS_CardinalityType
  DEF CallInv, TypeInv, CallType, HistoryType, RedisType
<1>2. CASE Cardinality(PelPageOf(c)) < PelPage /\ Answer(c, "ok")
  <2>1. /\ in_progress'[c] <= Cardinality(seen[c])
        /\ pending[c] + in_progress'[c] >= Cardinality(kept[c])
    BY <1>2, LastPelPage
  <2>2. pc'[c] = "done"
    BY <1>2 DEF Answer, Goto, TypeInv, CallType
  <2>3. ShapeInv(c)' /\ ExactInv(c)'
    BY <2>2 DEF ShapeInv, ExactInv, Counting
  <2>4. UpperInv(c)'
    BY <1>0, <1>1, <2>1, <2>2 DEF UpperInv, Counting
  <2>5. LowerInv(c)'
    BY <1>0, <2>1, <2>2 DEF LowerInv, Counting, workload
  <2>6. \A b \in Calls \ {c} : Still(b)
    BY <1>0, <1>2, OthersStill
    DEF Still, count_processable_in_progress, TypeInv, CallType
  <2> QED
    BY <1>0, <2>3, <2>4, <2>5, <2>6, OwnStep DEF CallInv
<1>3. CASE /\ ~(Cardinality(PelPageOf(c)) < PelPage)
           /\ start' = [start EXCEPT ![c] = NextStart(PelPageOf(c))]
           /\ UNCHANGED <<pc, grp, lag, min_id, code>>
  <2>0. PICK next : next = NextStart(PelPageOf(c))
    OBVIOUS
  <2>1. PICK Q : Q = PelCount(c)
    OBVIOUS
  <2>2. PICK from : from = start[c]
    OBVIOUS
  <2>3. PICK g : g = grp[c]
    OBVIOUS
  <2>4. /\ IsFiniteSet(Q) /\ Cardinality(Q) \in Nat /\ Q \subseteq StreamIds
        /\ Q \subseteq seen[c] /\ \A n \in Q : InRange(n, from)
        /\ in_progress'[c] = in_progress[c] + Cardinality(Q)
        /\ quiet[c] => Q \subseteq pel[g] \cap stream
        /\ \A n \in StreamIds :
              /\ InRange(n, next) => InRange(n, from)
              /\ n \in PelPageOf(c) => ~InRange(n, next)
              /\ n \in pel[g] /\ InRange(n, from) /\ ~InRange(n, next) => n \in PelPageOf(c)
    BY <1>3, <2>0, <2>1, <2>2, <2>3, PelPages
  <2>5. /\ \A n \in Q : ~InRange(n, next)
        /\ \A n \in StreamIds :
              n \in pel[g] /\ InRange(n, from) /\ ~InRange(n, next)
              /\ ~is_tombstoned_pel_entry(n, min_id[c]) => n \in Q
    BY <2>1, <2>4 DEF PelCount
  <2>6. /\ start'[c] = next /\ pc'[c] = "pel" /\ grp'[c] = g /\ min_id'[c] = min_id[c]
        /\ \A b \in Calls \ {c} : Still(b)
    BY <1>0, <1>3, <2>0, <2>3
    DEF Still, count_processable_in_progress, TypeInv, CallType
  <2>7. ShapeInv(c)'
    BY <1>0, <1>3, <2>6 DEF ShapeInv
  <2>8. UpperInv(c)'
    <3>1. in_progress'[c] <= Cardinality(Before(seen[c], next))
      <4>1. in_progress[c] <= Cardinality(Before(seen[c], from))
        BY <1>0, <1>1, <2>2 DEF UpperInv
      <4> QED
        BY <1>1, <2>4, <2>5, <4>1, CountUp
    <3>2. /\ Cardinality(Before(seen[c], next)) <= Cardinality(seen[c])
          /\ Cardinality(Before(seen[c], next)) \in Nat
      BY <1>1, Subsets DEF Before
    <3> QED
      BY <1>0, <1>1, <2>3, <2>6, <3>1, <3>2 DEF UpperInv, Counting, redisVars
  <2>9. LowerInv(c)'
    <3>1. PICK d \in StreamIds \cup {Origin} : Covers(c, d)
      BY <1>0, <1>1 DEF LowerInv, Counting
    <3>2. /\ IsFiniteSet(Old(c, d)) /\ Old(c, d) \subseteq pel[g]
          /\ \A n \in Old(c, d) :
                n \in StreamIds /\ ~is_tombstoned_pel_entry(n, min_id[c])
      BY <1>0, <2>3, <3>1, OldIsPending
    <3>3. Cardinality(Before(Old(c, d), from)) <= in_progress[c]
      BY <1>0, <2>2, <3>1 DEF Covers
    <3>4. \A n \in Old(c, d) : InRange(n, from) /\ ~InRange(n, next) => n \in Q
      BY <2>5, <3>2
    <3>5. Cardinality(Before(Old(c, d), next)) <= in_progress'[c]
      BY <1>1, <2>4, <3>2, <3>3, <3>4, CountDown
    <3>6. /\ Late(c, d)' = Late(c, d) /\ Old(c, d)' = Old(c, d)
          /\ Outstanding(grp[c])' = Outstanding(grp[c])
      BY <1>0, <2>3, <2>6 DEF Late, Old, Outstanding, Waiting, redisVars
    <3>7. Covers(c, d)'
      BY <1>0, <2>3, <2>6, <3>1, <3>5, <3>6 DEF Covers, redisVars
    <3> QED
      BY <1>0, <1>3, <2>6, <3>7 DEF LowerInv, Succeeded
  <2>10. ExactInv(c)'
    <3> SUFFICES ASSUME quiet[c] PROVE ExactInv(c)'
      BY <1>0 DEF ExactInv
    <3>1. PICK A : A = pel[g] \cap stream
      OBVIOUS
    <3>2. /\ pending[c] = Cardinality(Waiting(grp[c]))
          /\ in_progress[c] = Cardinality(Before(A, from))
          /\ \A n \in pel[g] : n \in stream <=> ~is_tombstoned_pel_entry(n, min_id[c])
      BY <1>0, <1>1, <2>2, <2>3, <3>1 DEF ExactInv, Counting
    <3>3. IsFiniteSet(A) /\ A \subseteq stream /\ A \subseteq StreamIds
      BY <1>1, <3>1, FS_Subset DEF TypeInv, RedisType
    <3>4. Cardinality(Before(A, next)) \in Nat
      BY <3>3, Subsets DEF Before
    <3>5. Q \subseteq A /\ \A n \in A : InRange(n, from) /\ ~InRange(n, next) => n \in Q
      BY <2>4, <2>5, <3>1, <3>2, <3>3
    <3>6. in_progress'[c] <= Cardinality(Before(A, next))
      BY <1>1, <2>4, <2>5, <3>2, <3>3, <3>5, CountUp
    <3>7. Cardinality(Before(A, next)) <= in_progress'[c]
      BY <1>1, <2>4, <3>2, <3>3, <3>5, CountDown
    <3>8. in_progress'[c] = Cardinality(Before(A, next))
      BY <1>1, <3>4, <3>6, <3>7
    <3>9. Waiting(grp[c])' = Waiting(grp[c]) /\ (pel[grp[c]] \cap stream)' = A
      BY <1>0, <2>3, <2>6, <3>1 DEF Waiting, redisVars
    <3> QED
      BY <1>0, <2>3, <2>6, <3>2, <3>8, <3>9 DEF ExactInv, redisVars
  <2> QED
    BY <1>0, <2>6, <2>7, <2>8, <2>9, <2>10, OwnStep DEF CallInv
<1> QED
  BY <1>2, <1>3 DEF count_processable_in_progress, PelPageOf

-----------------------------------------------------------------------------
(* The counts                                                              *)

LEMMA InitCounts == Init => CountInv
<1> SUFFICES ASSUME Init PROVE CountInv
  OBVIOUS
<1>1. IdsInv
  BY DEF Init, IdsInv
<1>2. Cardinality({}) = 0
  BY FS_EmptySet
<1>3. ASSUME NEW c \in Calls PROVE CallInv(c)
  <2>1. /\ pc[c] = "idle" /\ pending[c] = 0 /\ in_progress[c] = 0 /\ code[c] = "none"
        /\ kept[c] = {} /\ seen[c] = {}
    BY DEF Init
  <2>2. ShapeInv(c) /\ UpperInv(c) /\ ExactInv(c) /\ LowerInv(c)
    BY <1>2, <2>1 DEF ShapeInv, UpperInv, ExactInv, LowerInv, Counting, Succeeded
  <2> QED
    BY <2>2 DEF CallInv
<1> QED
  BY <1>1, <1>3 DEF CountInv

LEMMA NextKeeps == TypeInv /\ CountInv /\ [Next]_vars => CountInv'
<1> SUFFICES ASSUME TypeInv, CountInv, [Next]_vars PROVE CountInv'
  OBVIOUS
<1>1. CASE UNCHANGED vars
  <2>1. /\ UNCHANGED redisVars
        /\ \A c \in Calls : /\ Still(c) /\ kept'[c] = kept[c] /\ seen'[c] = seen[c]
                            /\ quiet'[c] = quiet[c]
    BY <1>1 DEF vars, callVars, localVars, history, Still
  <2>2. IdsInv'
    BY <2>1 DEF CountInv, IdsInv, redisVars
  <2> QED
    BY <2>1, <2>2, CallRests DEF CountInv
<1>2. ASSUME NEW c \in Calls, Begin(c) \/ StatsStep(c) \/ CommandFails(c) PROVE CountInv'
  BY <1>2, BeginKeeps, GroupsKeeps, CreateGroupKeeps, CapabilitiesKeeps, PendingKeeps,
     MinKeeps, PelKeeps, FailsKeeps DEF StatsStep
<1>3. CASE Environment
  BY <1>3, EnvironmentKeeps
<1> QED
  BY <1>1, <1>2, <1>3 DEF Next, Environment, Finished

\* The invariant of a count holds whatever Redis, the workers and the other
\* calls do between two commands of stats (queue.rs:277-385).
THEOREM CountInvariant == Spec => []CountInv
BY TypeInvariant, InitCounts, NextKeeps, PTL DEF Spec

\* A successful answer misses no job that was outstanding from XINFO on,
\* although jobs move from waiting to claimed and the stream is trimmed
\* between two pages (stats, queue.rs:277-385).
THEOREM WorkloadCovers == Spec => []WorkloadCoversOutstanding
<1>1. CountInv => WorkloadCoversOutstanding
  BY DEF CountInv, CallInv, LowerInv, WorkloadCoversOutstanding
<1> QED
  BY <1>1, CountInvariant, PTL

\* Paging over a changing stream counts no entry twice, with exclusive
\* ranges and with the incremented sequence number of older servers
\* (stream_range_start_after, queue.rs:615-633).
THEOREM EntriesCountedOnce == Spec => []CountedOnce
<1>1. CountInv => CountedOnce
  BY DEF CountInv, CallInv, UpperInv, CountedOnce
<1> QED
  BY <1>1, CountInvariant, PTL

\* Only the last page of XPENDING ends a count with success.
LEMMA CountsEnd ==
    ASSUME TypeInv, CountInv, [Next]_vars, NEW c \in Calls,
           pc[c] = "pel", pc'[c] = "done", Succeeded(c)'
    PROVE  /\ count_processable_in_progress(c) /\ Cardinality(PelPageOf(c)) < PelPage
<1>1. ~UNCHANGED vars /\ ~Environment
  BY DEF vars, callVars, Environment, Enqueue, LoseData, EnsureConsumerGroup, Deliver, Settle
<1>2. PICK b \in Calls : Begin(b) \/ StatsStep(b) \/ CommandFails(b)
  BY <1>1 DEF Next, Environment, Finished
<1>3. b = c
  <2> SUFFICES ASSUME c \in Calls \ {b} PROVE pc'[c] = pc[c]
    OBVIOUS
  <2>1. \A answer : Refuse(b, answer) => pc'[c] = pc[c]
    BY OthersStill DEF Refuse
  <2>2. \A answer : Answer(b, answer) => pc'[c] = pc[c]
    BY OthersStill
  <2>3. \A step : Goto(b, step) => pc'[c] = pc[c]
    BY OthersStill
  <2> QED
    BY <1>2, <2>1, <2>2, <2>3
    DEF Begin, StatsStep, CommandFails, stream_exists, load_stream_groups, CreateGroup,
        load_redis_capabilities, count_pending_fallback, get_stream_min_id,
        count_processable_in_progress, GroupLost
<1>4. ~Refuse(c, "unavailable")
  <2> SUFFICES ASSUME Refuse(c, "unavailable") PROVE FALSE
    OBVIOUS
  <2>1. code'[c] = Status(c, "unavailable")
    BY DEF Refuse, Answer, TypeInv, CallType
  <2> QED
    BY <2>1 DEF Succeeded, Status, from_store
<1>5. count_processable_in_progress(c)
  BY <1>2, <1>3, <1>4
  DEF Begin, StatsStep, CommandFails, stream_exists, load_stream_groups, CreateGroup,
      load_redis_capabilities, count_pending_fallback, get_stream_min_id, GroupLost
<1> QED
  BY <1>5 DEF count_processable_in_progress, PelPageOf

\* If nothing changes while a call counts, its answer is exactly the jobs
\* waiting and the claimed jobs that the stream still has, for every page
\* size, Redis version and state of the stream (stats, queue.rs:277-385;
\* README.md:88-98).
THEOREM QuietCountsAreExact == Spec => QuietStatsAreExact
<1> DEFINE Exact ==
      \A c \in Calls :
         /\ quiet[c] /\ pc[c] = "pel"
         /\ pc'[c] = "done" /\ Succeeded(c)'
         => /\ pending'[c] = Cardinality(Waiting(grp[c]))
            /\ in_progress'[c] = Cardinality(pel[grp[c]] \cap stream)
<1>1. TypeInv /\ CountInv /\ [Next]_vars => Exact
  <2> SUFFICES ASSUME TypeInv, CountInv, [Next]_vars, NEW c \in Calls,
                      quiet[c], pc[c] = "pel", pc'[c] = "done", Succeeded(c)'
               PROVE  /\ pending'[c] = Cardinality(Waiting(grp[c]))
                      /\ in_progress'[c] = Cardinality(pel[grp[c]] \cap stream)
    OBVIOUS
  <2>1. count_processable_in_progress(c) /\ Cardinality(PelPageOf(c)) < PelPage
    BY CountsEnd
  <2>2. pending' = pending
    BY <2>1 DEF count_processable_in_progress
  <2> QED
    BY <2>1, <2>2, LastPelPage
<1>2. TypeInv /\ CountInv /\ [Next]_vars => [Exact]_vars
  BY <1>1
<1>3. QuietStatsAreExact <=> [][Exact]_vars
  BY DEF QuietStatsAreExact
<1> HIDE DEF Exact
<1> QED
  BY <1>2, <1>3, TypeInvariant, CountInvariant, PTL DEF Spec

=============================================================================
