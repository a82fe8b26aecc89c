-------------------------- MODULE BatchLimitsProofs --------------------------
(***************************************************************************)
(* The sum BatchConfig.__post_init__ checks keeps every delivery below the *)
(* consumer timeout, for every accepted configuration that is Provisioned: *)
(* with bounded holds and writes and at most two data types per flush      *)
(* slot.  The sum charges one wait behind another key's write; Room is why *)
(* one is enough: a key with i-1 keys before it finds i writes that began  *)
(* before it came, or slots that are free.                                 *)
(***************************************************************************)
EXTENDS BatchLimits, FiniteSetTheorems, TLAPS

Queued == {k \in DATA_TYPES : phase[k] = "queued"}
Free == max_concurrent_flushes - Cardinality(Writers)
Older(k) == {w \in Writers : since[w] >= since[k]}

\* waiting lists the queued keys, each once.
QueueShape ==
    /\ \A i \in 1..Len(waiting) : waiting[i] \in Queued
    /\ \A k \in Queued : \E i \in 1..Len(waiting) : waiting[i] = k
    /\ \A i, j \in 1..Len(waiting) : waiting[i] = waiting[j] => i = j
    /\ Cardinality(Queued) = Len(waiting)

\* No phase but the wait for a slot outlives its limit.
InTime == \A k \in DATA_TYPES : phase[k] # "queued" => since[k] <= Limit[phase[k]]

\* Where a delivery stands in its flush says how old it can be.
AgeBound(k) ==
    IF phase[k] = "queued" THEN max_hold_s + since[k]
    ELSE IF phase[k] = "writing" THEN max_hold_s + write_s + since[k]
    ELSE IF phase[k] = "backoff" THEN max_hold_s + 2 * write_s + since[k]
    ELSE max_hold_s + 2 * write_s + backoff_max + since[k]
AgesBounded == \A k \in DATA_TYPES :
    IF held[k] THEN age[k] <= AgeBound(k) ELSE age[k] = 0

\* Every place in the queue is matched by a write older than its key, or by a
\* free slot: twice over for a key that only just came.
Room ==
    /\ Cardinality(Writers) <= max_concurrent_flushes
    /\ \A i \in 1..Len(waiting) :
          i <= Cardinality(Older(waiting[i]))
                 + (IF since[waiting[i]] = 0 THEN 2 * Free ELSE Free)

LimitsInv ==
    TypeOK /\ QueueShape /\ InTime /\ SlotWaitBounded /\ AgesBounded /\ Room

-----------------------------------------------------------------------------
\* The limits are natural numbers.
LEMMA LimitTypes ==
    ASSUME Provisioned
    PROVE  /\ max_hold_s \in Nat /\ flush_interval \in Nat /\ backoff_max \in Nat
           /\ write_s \in Nat /\ BROKER_CONSUMER_TIMEOUT_S \in Nat
           /\ max_concurrent_flushes \in Nat
           /\ Limit["idle"] = flush_interval /\ Limit["writing"] = write_s /\ Limit["backoff"] = backoff_max
BY LimitsAssumption DEF Provisioned, write_s, Limit, Phases

\* Sets of keys are finite and have no more members than there are types.
LEMMA KeySets ==
    ASSUME Provisioned, NEW S \in SUBSET DATA_TYPES
    PROVE  IsFiniteSet(S) /\ Cardinality(S) \in Nat /\ Cardinality(S) <= 2 * max_concurrent_flushes
<1>1. IsFiniteSet(S) /\ Cardinality(S) <= Cardinality(DATA_TYPES)
  BY LimitsAssumption, FS_Subset
<1>2. Cardinality(S) \in Nat /\ Cardinality(DATA_TYPES) \in Nat
  BY <1>1, LimitsAssumption, FS_CardinalityType
<1> QED BY <1>1, <1>2, LimitTypes DEF Provisioned

\* One key more or less.
LEMMA OneMore ==
    ASSUME Provisioned, NEW S \in SUBSET DATA_TYPES, NEW k \in DATA_TYPES
    PROVE  /\ k \notin S => Cardinality(S \cup {k}) = Cardinality(S) + 1
           /\ k \in S => Cardinality(S \ {k}) = Cardinality(S) - 1
           /\ Cardinality(S \ {k}) >= Cardinality(S) - 1
<1>1. IsFiniteSet(S) /\ Cardinality(S) \in Nat
  BY KeySets
<1>2. k \notin S => Cardinality(S \cup {k}) = Cardinality(S) + 1
  BY <1>1, FS_AddElement
<1>3. k \in S => Cardinality(S \ {k}) = Cardinality(S) - 1
  BY <1>1, FS_RemoveElement
<1>4. k \notin S => S \ {k} = S
  OBVIOUS
<1> QED BY <1>1, <1>2, <1>3, <1>4

\* When no key starts or ends a write and no key comes or goes, a step that
\* leaves the clocks of both alone keeps their order.
LEMMA SameQueue ==
    ASSUME Provisioned, TypeOK, QueueShape, Room, waiting' = waiting,
           Writers' = Writers, Queued' = Queued,
           \A k \in Writers \cup Queued : since'[k] = since[k]
    PROVE  QueueShape' /\ Room'
<1>1. QueueShape'
  BY DEF QueueShape
<1>2. Free' = Free
  BY DEF Free
<1>3. ASSUME NEW i \in 1..Len(waiting)
      PROVE  Older(waiting[i])' = Older(waiting[i]) /\ since'[waiting[i]] = since[waiting[i]]
  BY DEF Older, QueueShape
<1> QED BY <1>1, <1>2, <1>3 DEF Room

-----------------------------------------------------------------------------
(* One lemma per action.                                                   *)

\* A new delivery is of age zero.
LEMMA DeliverKeeps ==
    ASSUME Provisioned, LimitsInv, NEW k \in DATA_TYPES, Deliver(k)
    PROVE  LimitsInv'
<1>t. /\ max_hold_s \in Nat /\ flush_interval \in Nat /\ backoff_max \in Nat
      /\ write_s \in Nat /\ BROKER_CONSUMER_TIMEOUT_S \in Nat /\ max_concurrent_flushes \in Nat
      /\ Limit["idle"] = flush_interval /\ Limit["writing"] = write_s /\ Limit["backoff"] = backoff_max
  BY LimitTypes
<1> USE <1>t DEF LimitsInv
<1>1. /\ ~held[k] /\ held' = [held EXCEPT ![k] = TRUE]
      /\ UNCHANGED <<phase, since, waiting, taken, age>>
  BY DEF Deliver
<1>2. TypeOK'
  BY <1>1 DEF TypeOK
<1>3. QueueShape' /\ Room'
  BY <1>1, SameQueue DEF Writers, Queued
<1>4. InTime' /\ SlotWaitBounded'
  BY <1>1 DEF InTime, SlotWaitBounded
<1>5. AgesBounded'
  <2> SUFFICES ASSUME NEW j \in DATA_TYPES
               PROVE  IF held'[j] THEN age'[j] <= AgeBound(j)' ELSE age'[j] = 0
    BY DEF AgesBounded
  <2>1. AgeBound(j)' = AgeBound(j) /\ AgeBound(j) >= 0
    BY <1>1 DEF AgeBound, TypeOK
  <2>2. CASE j = k
    BY <1>1, <2>1, <2>2 DEF AgesBounded, TypeOK
  <2>3. CASE j # k
    BY <1>1, <2>1, <2>3 DEF AgesBounded, TypeOK
  <2> QED BY <2>2, <2>3
<1> QED BY <1>2, <1>3, <1>4, <1>5

\* The effect of a change of phase on one key and on the others.
LEMMA BecomesEffect ==
    ASSUME TypeOK, NEW k \in DATA_TYPES, NEW p \in Phases, Becomes(k, p)
    PROVE  /\ phase' \in [DATA_TYPES -> Phases] /\ since' \in [DATA_TYPES -> Nat]
           /\ phase'[k] = p /\ since'[k] = 0
           /\ \A j \in DATA_TYPES \ {k} : phase'[j] = phase[j] /\ since'[j] = since[j]
BY DEF Becomes, TypeOK

LEMMA LetsGoEffect ==
    ASSUME TypeOK, NEW k \in DATA_TYPES, LetsGo(k)
    PROVE  /\ held' \in [DATA_TYPES -> BOOLEAN] /\ age' \in [DATA_TYPES -> Nat]
           /\ held'[k] = FALSE /\ age'[k] = 0
           /\ \A j \in DATA_TYPES \ {k} : held'[j] = held[j] /\ age'[j] = age[j]
BY DEF LetsGo, TypeOK

\* What a change of phase asks of the bounds: only of the key that changes.
LEMMA BoundsStep ==
    ASSUME Provisioned, LimitsInv, NEW k \in DATA_TYPES, NEW p \in Phases, Becomes(k, p),
           \A j \in DATA_TYPES \ {k} : held'[j] = held[j] /\ age'[j] = age[j],
           IF held'[k] THEN age'[k] <= AgeBound(k)' ELSE age'[k] = 0
    PROVE  InTime' /\ SlotWaitBounded' /\ AgesBounded'
<1>t. /\ max_hold_s \in Nat /\ flush_interval \in Nat /\ backoff_max \in Nat
      /\ write_s \in Nat /\ BROKER_CONSUMER_TIMEOUT_S \in Nat /\ max_concurrent_flushes \in Nat
      /\ Limit["idle"] = flush_interval /\ Limit["writing"] = write_s /\ Limit["backoff"] = backoff_max
  BY LimitTypes
<1> USE <1>t DEF LimitsInv
<1>1. /\ phase'[k] = p /\ since'[k] = 0
      /\ \A j \in DATA_TYPES \ {k} : phase'[j] = phase[j] /\ since'[j] = since[j]
  BY BecomesEffect
<1>2. InTime'
  <2> SUFFICES ASSUME NEW j \in DATA_TYPES, phase'[j] # "queued"
               PROVE  since'[j] <= Limit[phase'[j]]
    BY DEF InTime, Limit
  <2>1. CASE j = k
    <3>1. Limit[p] \in Nat
      BY <1>1, <2>1 DEF Phases
    <3> QED BY <1>1, <2>1, <3>1
  <2>2. CASE j # k
    BY <1>1, <2>2 DEF InTime
  <2> QED BY <2>1, <2>2
<1>3. SlotWaitBounded'
  <2> SUFFICES ASSUME NEW j \in DATA_TYPES, phase'[j] = "queued" PROVE since'[j] <= write_s
    BY DEF SlotWaitBounded, write_s
  <2>1. CASE j = k
    BY <1>1, <2>1
  <2>2. CASE j # k
    BY <1>1, <2>2 DEF SlotWaitBounded
  <2> QED BY <2>1, <2>2
<1>4. AgesBounded'
  <2> SUFFICES ASSUME NEW j \in DATA_TYPES
               PROVE  IF held'[j] THEN age'[j] <= AgeBound(j)' ELSE age'[j] = 0
    BY DEF AgesBounded
  <2>1. CASE j = k
    BY <2>1
  <2>2. CASE j # k
    <3>1. AgeBound(j)' = AgeBound(j)
      BY <1>1, <2>2 DEF AgeBound
    <3> QED BY <2>2, <3>1 DEF AgesBounded
  <2> QED BY <2>1, <2>2
<1> QED BY <1>2, <1>3, <1>4

\* A key that comes finds room: with all writes older than it, what is taken
\* and twice what is free is at least what is left of the types.
LEMMA EnterKeeps ==
    ASSUME Provisioned, LimitsInv, NEW k \in DATA_TYPES, Enter(k)
    PROVE  LimitsInv'
<1>t. /\ max_hold_s \in Nat /\ flush_interval \in Nat /\ backoff_max \in Nat
      /\ write_s \in Nat /\ BROKER_CONSUMER_TIMEOUT_S \in Nat /\ max_concurrent_flushes \in Nat
      /\ Limit["idle"] = flush_interval /\ Limit["writing"] = write_s /\ Limit["backoff"] = backoff_max
  BY LimitTypes
<1> USE <1>t DEF LimitsInv
<1>1. phase[k] = "idle" /\ taken' = taken
  BY DEF Enter
<1>2. /\ held' \in [DATA_TYPES -> BOOLEAN] /\ age' \in [DATA_TYPES -> Nat]
      /\ \A j \in DATA_TYPES \ {k} : held'[j] = held[j] /\ age'[j] = age[j]
      /\ IF held'[k] THEN age'[k] <= max_hold_s ELSE age'[k] = 0
  <2>1. CASE held[k] /\ age[k] >= max_hold_s
    BY <2>1, LetsGoEffect DEF Enter, Provisioned
  <2>2. CASE ~(held[k] /\ age[k] >= max_hold_s)
    <3>1. held' = held /\ age' = age
      BY <2>2 DEF Enter
    <3>2. held[k] => age[k] <= max_hold_s
      BY <2>2 DEF TypeOK
    <3>3. ~held[k] => age[k] = 0
      BY DEF AgesBounded
    <3> QED BY <3>1, <3>2, <3>3 DEF TypeOK
  <2> QED BY <2>1, <2>2
<1>3. CASE Becomes(k, "idle") /\ ~held'[k] /\ UNCHANGED waiting
  <2>0. "idle" \in Phases
    BY DEF Phases
  <2>1. /\ phase' \in [DATA_TYPES -> Phases] /\ since' \in [DATA_TYPES -> Nat]
        /\ phase'[k] = "idle"
        /\ \A j \in DATA_TYPES \ {k} : phase'[j] = phase[j] /\ since'[j] = since[j]
    BY <1>3, <2>0, BecomesEffect
  <2>2. TypeOK'
    BY <1>1, <1>2, <1>3, <2>1 DEF TypeOK
  <2>3. Writers' = Writers /\ Queued' = Queued /\ k \notin Writers \cup Queued
    BY <1>1, <2>1 DEF Writers, Queued
  <2>4. \A j \in Writers \cup Queued : since'[j] = since[j]
    BY <2>1, <2>3 DEF Writers, Queued
  <2>5. QueueShape' /\ Room'
    BY <1>3, <2>3, <2>4, SameQueue
  <2>6. InTime' /\ SlotWaitBounded' /\ AgesBounded'
    BY <1>2, <1>3, <2>0, BoundsStep
  <2> QED BY <2>2, <2>5, <2>6
<1>4. CASE Becomes(k, "queued") /\ waiting' = Append(waiting, k)
  <2>0. "queued" \in Phases
    BY DEF Phases
  <2>1. /\ phase' \in [DATA_TYPES -> Phases] /\ since' \in [DATA_TYPES -> Nat]
        /\ phase'[k] = "queued" /\ since'[k] = 0
        /\ \A j \in DATA_TYPES \ {k} : phase'[j] = phase[j] /\ since'[j] = since[j]
    BY <1>4, <2>0, BecomesEffect
  <2>2. TypeOK'
    BY <1>1, <1>2, <1>4, <2>1 DEF TypeOK
  <2>3. Writers' = Writers /\ Queued' = Queued \cup {k} /\ k \notin Queued /\ k \notin Writers
    BY <1>1, <2>1 DEF Writers, Queued
  <2>4. /\ waiting \in Seq(DATA_TYPES) /\ Len(waiting) \in Nat /\ Len(waiting') = Len(waiting) + 1
        /\ waiting'[Len(waiting) + 1] = k
        /\ \A i \in 1..Len(waiting) : waiting'[i] = waiting[i] /\ waiting[i] \in Queued
    BY <1>4 DEF TypeOK, QueueShape
  <2>5. \A i \in 1..Len(waiting') : i \in 1..Len(waiting) \/ i = Len(waiting) + 1
    BY <2>4
  <2>6. Queued \in SUBSET DATA_TYPES /\ Writers \in SUBSET DATA_TYPES
    BY DEF Queued, Writers
  <2>7. Cardinality(Queued') = Len(waiting')
    BY <2>3, <2>4, <2>6, OneMore DEF QueueShape
  <2>8. QueueShape'
    <3>1. \A i \in 1..Len(waiting') : waiting'[i] \in Queued'
      BY <2>3, <2>4, <2>5
    <3>2. \A j \in Queued' : \E i \in 1..Len(waiting') : waiting'[i] = j
      <4> SUFFICES ASSUME NEW j \in Queued' PROVE \E i \in 1..Len(waiting') : waiting'[i] = j
        OBVIOUS
      <4>1. CASE j = k
        BY <2>4, <4>1
      <4>2. CASE j \in Queued
        <5>1. PICK i \in 1..Len(waiting) : waiting[i] = j
          BY <4>2 DEF QueueShape
        <5>2. i \in 1..Len(waiting') /\ waiting'[i] = j
          BY <2>4, <5>1
        <5> QED BY <5>2
      <4> QED BY <2>3, <4>1, <4>2
    <3>3. \A i, j \in 1..Len(waiting') : waiting'[i] = waiting'[j] => i = j
      BY <2>3, <2>4, <2>5 DEF QueueShape
    <3> QED BY <2>7, <3>1, <3>2, <3>3 DEF QueueShape
  <2>9. Room'
    <3>1. Cardinality(Queued') + Cardinality(Writers) <= 2 * max_concurrent_flushes
      <4>1. Queued' \in SUBSET DATA_TYPES /\ Queued' \cap Writers = {}
        BY <2>3, <2>6 DEF Queued, Writers
      <4>2. IsFiniteSet(Queued') /\ IsFiniteSet(Writers) /\ Cardinality(Queued') \in Nat /\ Cardinality(Writers) \in Nat
        BY <2>6, <4>1, KeySets
      <4>3. Cardinality(Queued' \cup Writers) = Cardinality(Queued') + Cardinality(Writers) - Cardinality({})
        BY <4>1, <4>2, FS_Union
      <4>4. Cardinality({}) = 0
        BY FS_EmptySet
      <4>5. Cardinality(Queued' \cup Writers) <= 2 * max_concurrent_flushes
        <5>1. Queued' \cup Writers \in SUBSET DATA_TYPES
          BY <2>6, <4>1
        <5> QED BY <5>1, KeySets
      <4> QED BY <4>2, <4>3, <4>4, <4>5
    <3>2. Free' = Free /\ Cardinality(Writers) \in Nat
      BY <2>3, <2>6, KeySets DEF Free
    <3>3. ASSUME NEW i \in 1..Len(waiting)
          PROVE  Older(waiting[i])' = Older(waiting[i]) /\ since'[waiting'[i]] = since[waiting[i]]
      <4>1. waiting'[i] = waiting[i] /\ waiting[i] # k /\ waiting[i] \in DATA_TYPES
        BY <2>3, <2>4, <2>6
      <4>2. \A w \in Writers : since'[w] = since[w]
        BY <2>1, <2>3, <2>6
      <4>3. since'[waiting[i]] = since[waiting[i]]
        BY <2>1, <4>1
      <4> QED BY <2>3, <4>1, <4>2, <4>3 DEF Older
    <3>5. Len(waiting) + 1 <= Cardinality(Writers) + 2 * Free
      BY <2>4, <2>7, <3>1, <3>2 DEF Free
    <3> SUFFICES ASSUME NEW i \in 1..Len(waiting')
                 PROVE  i <= Cardinality(Older(waiting[i])')
                             + (IF since'[waiting'[i]] = 0 THEN 2 * Free' ELSE Free')
      BY <2>3, <3>2 DEF Room
    <3>6. CASE i \in 1..Len(waiting)
      BY <3>2, <3>3, <3>6 DEF Room
    <3>7. CASE i = Len(waiting) + 1
      <4>1. Older(waiting[i])' = Writers
        <5>1. waiting'[i] = k
          BY <2>4, <3>7
        <5>2. Older(waiting[i])' = {w \in Writers : since'[w] >= since'[k]}
          BY <2>3, <5>1 DEF Older
        <5>3. \A w \in Writers : since'[w] >= since'[k]
          BY <2>1, <2>6
        <5> QED BY <5>2, <5>3
      <4> QED BY <2>1, <2>4, <3>2, <3>5, <3>7, <4>1
    <3> QED BY <2>5, <3>6, <3>7
  <2>10. AgeBound(k)' = max_hold_s
    BY <2>1 DEF AgeBound
  <2>11. InTime' /\ SlotWaitBounded' /\ AgesBounded'
    BY <1>2, <1>4, <2>0, <2>10, BoundsStep
  <2> QED BY <2>2, <2>8, <2>9, <2>11
<1> QED BY <1>3, <1>4 DEF Enter

\* A key that starts writing leaves its place: those behind move up by one, and
\* a free slot becomes a write.
LEMMA StartWriteKeeps ==
    ASSUME Provisioned, LimitsInv, NEW k \in DATA_TYPES, StartWrite(k)
    PROVE  LimitsInv'
<1>t. /\ max_hold_s \in Nat /\ flush_interval \in Nat /\ backoff_max \in Nat
      /\ write_s \in Nat /\ BROKER_CONSUMER_TIMEOUT_S \in Nat /\ max_concurrent_flushes \in Nat
      /\ Limit["idle"] = flush_interval /\ Limit["writing"] = write_s /\ Limit["backoff"] = backoff_max
  BY LimitTypes
<1> USE <1>t DEF LimitsInv
<1>0. "writing" \in Phases
  BY DEF Phases
<1>1. /\ Becomes(k, "writing") /\ Cardinality(Writers) < max_concurrent_flushes
      /\ held' = held /\ age' = age
  BY DEF StartWrite
<1>2. /\ phase' \in [DATA_TYPES -> Phases] /\ since' \in [DATA_TYPES -> Nat]
      /\ phase'[k] = "writing" /\ since'[k] = 0
      /\ \A j \in DATA_TYPES \ {k} : phase'[j] = phase[j] /\ since'[j] = since[j]
  BY <1>0, <1>1, BecomesEffect
<1>3. /\ waiting \in Seq(DATA_TYPES) /\ Len(waiting) \in Nat \ {0} /\ k = waiting[1]
      /\ waiting' \in Seq(DATA_TYPES) /\ Len(waiting') = Len(waiting) - 1
      /\ \A i \in 1..Len(waiting') : waiting'[i] = waiting[i + 1] /\ i + 1 \in 1..Len(waiting)
  BY DEF StartWrite, TypeOK
<1>4. taken' \in [DATA_TYPES -> BOOLEAN]
  BY DEF StartWrite, TypeOK
<1>5. TypeOK'
  BY <1>1, <1>2, <1>3, <1>4 DEF TypeOK
<1>6. k \in Queued /\ phase[k] = "queued"
  BY <1>3 DEF QueueShape, Queued
<1>7. /\ Queued' = Queued \ {k} /\ Writers' = Writers \cup {k} /\ k \notin Writers
      /\ Queued \in SUBSET DATA_TYPES /\ Writers \in SUBSET DATA_TYPES
  BY <1>2, <1>6 DEF Queued, Writers
<1>8. \A i \in 1..Len(waiting') : waiting'[i] # k /\ waiting'[i] \in Queued
  BY <1>3 DEF QueueShape
<1>9. QueueShape'
  <2>1. \A i \in 1..Len(waiting') : waiting'[i] \in Queued'
    BY <1>7, <1>8
  <2>2. \A j \in Queued' : \E i \in 1..Len(waiting') : waiting'[i] = j
    <3> SUFFICES ASSUME NEW j \in Queued' PROVE \E i \in 1..Len(waiting') : waiting'[i] = j
      OBVIOUS
    <3>1. PICK i \in 1..Len(waiting) : waiting[i] = j
      BY <1>7 DEF QueueShape
    <3>2. i # 1
      BY <1>3, <1>7, <3>1
    <3>3. i - 1 \in 1..Len(waiting') /\ (i - 1) + 1 = i
      BY <1>3, <3>2
    <3>4. waiting'[i - 1] = j
      BY <1>3, <3>1, <3>3
    <3> QED BY <3>3, <3>4
  <2>3. \A i, j \in 1..Len(waiting') : waiting'[i] = waiting'[j] => i = j
    <3> SUFFICES ASSUME NEW i \in 1..Len(waiting'), NEW j \in 1..Len(waiting'), waiting'[i] = waiting'[j]
                 PROVE  i = j
      OBVIOUS
    <3>1. waiting[i + 1] = waiting[j + 1] /\ i + 1 \in 1..Len(waiting) /\ j + 1 \in 1..Len(waiting)
      BY <1>3
    <3>2. i + 1 = j + 1
      BY <3>1 DEF QueueShape
    <3> QED BY <3>2
  <2>4. Cardinality(Queued') = Len(waiting')
    <3>1. Cardinality(Queued \ {k}) = Cardinality(Queued) - 1
      BY <1>6, <1>7, OneMore
    <3>2. Cardinality(Queued) = Len(waiting)
      BY DEF QueueShape
    <3> QED BY <1>3, <1>7, <3>1, <3>2
  <2> QED BY <2>1, <2>2, <2>3, <2>4 DEF QueueShape
<1>10. InTime' /\ SlotWaitBounded' /\ AgesBounded'
  <2>1. since[k] <= write_s /\ since[k] \in Nat
    BY <1>6 DEF SlotWaitBounded, TypeOK
  <2>2. AgeBound(k) = max_hold_s + since[k] /\ AgeBound(k)' = max_hold_s + write_s
    BY <1>2, <1>6 DEF AgeBound
  <2>3. IF held'[k] THEN age'[k] <= AgeBound(k)' ELSE age'[k] = 0
    BY <1>1, <2>1, <2>2 DEF AgesBounded, TypeOK
  <2> QED BY <1>0, <1>1, <2>3, BoundsStep
<1>11. Room'
  <2>1. /\ Cardinality(Writers) \in Nat /\ Cardinality(Writers') = Cardinality(Writers) + 1
        /\ Free' = Free - 1 /\ Free \in Int
    BY <1>7, KeySets, OneMore DEF Free
  <2> SUFFICES ASSUME NEW i \in 1..Len(waiting')
               PROVE  i <= Cardinality(Older(waiting[i])')
                           + (IF since'[waiting'[i]] = 0 THEN 2 * Free' ELSE Free')
    BY <1>1, <2>1 DEF Room
  <2> DEFINE j == waiting[i + 1]
  <2>2. waiting'[i] = j /\ j \in DATA_TYPES /\ j # k /\ since'[j] = since[j] /\ since[j] \in Nat
    BY <1>2, <1>3, <1>7, <1>8 DEF TypeOK
  <2>3. Older(waiting[i])' = {w \in Writers' : since'[w] >= since[j]}
    BY <2>2 DEF Older
  <2>4. Older(j) \in SUBSET DATA_TYPES /\ k \notin Older(j) /\ Cardinality(Older(j)) \in Nat
    BY <1>7, KeySets DEF Older
  <2>5. i + 1 <= Cardinality(Older(j)) + (IF since[j] = 0 THEN 2 * Free ELSE Free)
    BY <1>3 DEF Room
  <2>6. \A w \in Writers : since'[w] = since[w]
    BY <1>2, <1>7
  <2>7. CASE since[j] = 0
    <3>1. Older(waiting[i])' = Older(j) \cup {k}
      BY <1>2, <1>7, <2>3, <2>6, <2>7 DEF Older
    <3>2. Cardinality(Older(waiting[i])') = Cardinality(Older(j)) + 1
      BY <2>4, <3>1, OneMore
    <3> QED BY <2>1, <2>2, <2>4, <2>5, <2>7, <3>2
  <2>8. CASE since[j] # 0
    <3>1. Older(waiting[i])' = Older(j)
      <4>1. ~(since'[k] >= since[j])
        BY <1>2, <2>2, <2>8
      <4> QED BY <1>7, <2>3, <2>6, <4>1 DEF Older
    <3> QED BY <2>1, <2>2, <2>4, <2>5, <2>8, <3>1
  <2> QED BY <2>7, <2>8
<1> QED BY <1>5, <1>9, <1>10, <1>11

\* A write that ends frees the slot it held.
LEMMA WriteEnds ==
    ASSUME Provisioned, LimitsInv, NEW k \in DATA_TYPES, NEW p \in {"idle", "backoff"},
           phase[k] = "writing", Becomes(k, p), waiting' = waiting
    PROVE  QueueShape' /\ Room'
<1>t. /\ max_hold_s \in Nat /\ flush_interval \in Nat /\ backoff_max \in Nat
      /\ write_s \in Nat /\ BROKER_CONSUMER_TIMEOUT_S \in Nat /\ max_concurrent_flushes \in Nat
      /\ Limit["idle"] = flush_interval /\ Limit["writing"] = write_s /\ Limit["backoff"] = backoff_max
  BY LimitTypes
<1> USE <1>t DEF LimitsInv
<1>0. p \in Phases
  BY DEF Phases
<1>1. /\ phase'[k] = p /\ since'[k] = 0
      /\ \A j \in DATA_TYPES \ {k} : phase'[j] = phase[j] /\ since'[j] = since[j]
  BY <1>0, BecomesEffect
<1>2. /\ Queued' = Queued /\ Writers' = Writers \ {k} /\ k \in Writers
      /\ Writers \in SUBSET DATA_TYPES /\ Queued \in SUBSET DATA_TYPES /\ k \notin Queued
  BY <1>1 DEF Queued, Writers
<1>3. QueueShape'
  BY <1>2 DEF QueueShape
<1>4. /\ Cardinality(Writers) \in Nat /\ Cardinality(Writers') = Cardinality(Writers) - 1
      /\ Free' = Free + 1 /\ Free \in Int /\ Free >= 0
  BY <1>2, KeySets, OneMore DEF Free, Room
<1>5. ASSUME NEW i \in 1..Len(waiting)
      PROVE  i <= Cardinality(Older(waiting[i])')
                  + (IF since'[waiting[i]] = 0 THEN 2 * Free' ELSE Free')
  <2> DEFINE j == waiting[i]
  <2>1. j \in DATA_TYPES /\ j # k /\ since'[j] = since[j]
    BY <1>1, <1>2 DEF QueueShape
  <2>2. Older(waiting[i])' = Older(j) \ {k}
    <3>1. \A w \in Writers \ {k} : since'[w] = since[w]
      BY <1>1, <1>2
    <3>2. waiting'[i] = j
      OBVIOUS
    <3>3. Older(waiting[i])' = {w \in Writers' : since'[w] >= since'[j]}
      BY <3>2 DEF Older
    <3> HIDE DEF j
    <3> QED BY <1>2, <2>1, <3>1, <3>3 DEF Older
  <2>3. Older(j) \in SUBSET DATA_TYPES /\ Older(j) \ {k} \in SUBSET DATA_TYPES
    BY <1>2 DEF Older
  <2>4. /\ Cardinality(Older(j) \ {k}) >= Cardinality(Older(j)) - 1
        /\ Cardinality(Older(j) \ {k}) \in Nat /\ Cardinality(Older(j)) \in Nat
    BY <2>3, KeySets, OneMore
  <2>5. i <= Cardinality(Older(j)) + (IF since[j] = 0 THEN 2 * Free ELSE Free)
    BY DEF Room
  <2> HIDE DEF j
  <2>6. i <= Cardinality(Older(j) \ {k}) + (IF since[j] = 0 THEN 2 * Free' ELSE Free')
    BY <1>4, <2>4, <2>5
  <2> QED BY <2>1, <2>2, <2>6 DEF j
<1>6. Cardinality(Writers') <= max_concurrent_flushes
  BY <1>4 DEF Room
<1> QED BY <1>3, <1>5, <1>6 DEF Room

\* After a write a delivery is settled, or at most two writes past the hold.
LEMMA WritingEndsKeeps ==
    ASSUME Provisioned, LimitsInv, NEW k \in DATA_TYPES, Settled(k) \/ Failed(k)
    PROVE  LimitsInv'
<1>t. /\ max_hold_s \in Nat /\ flush_interval \in Nat /\ backoff_max \in Nat
      /\ write_s \in Nat /\ BROKER_CONSUMER_TIMEOUT_S \in Nat /\ max_concurrent_flushes \in Nat
      /\ Limit["idle"] = flush_interval /\ Limit["writing"] = write_s /\ Limit["backoff"] = backoff_max
  BY LimitTypes
<1> USE <1>t DEF LimitsInv
<1>1. PICK p \in {"idle", "backoff"} : Becomes(k, p)
  BY DEF Settled, Failed
<1>2. phase[k] = "writing" /\ waiting' = waiting /\ taken' = [taken EXCEPT ![k] = FALSE] /\ p \in Phases
  BY DEF Settled, Failed, Phases
<1>3. /\ phase' \in [DATA_TYPES -> Phases] /\ since' \in [DATA_TYPES -> Nat]
      /\ phase'[k] = p /\ since'[k] = 0
      /\ \A j \in DATA_TYPES \ {k} : phase'[j] = phase[j] /\ since'[j] = since[j]
  BY <1>1, <1>2, BecomesEffect
<1>4. /\ held' \in [DATA_TYPES -> BOOLEAN] /\ age' \in [DATA_TYPES -> Nat]
      /\ \A j \in DATA_TYPES \ {k} : held'[j] = held[j] /\ age'[j] = age[j]
      /\ (held'[k] = FALSE /\ age'[k] = 0) \/ (held'[k] = held[k] /\ age'[k] = age[k])
  <2>1. CASE LetsGo(k)
    BY <2>1, LetsGoEffect
  <2>2. CASE held' = held /\ age' = age
    BY <2>2 DEF TypeOK
  <2> QED BY <2>1, <2>2 DEF Settled, Failed
<1>5. TypeOK'
  BY <1>2, <1>3, <1>4 DEF TypeOK
<1>6. QueueShape' /\ Room'
  BY <1>1, <1>2, WriteEnds
<1>7. IF held'[k] THEN age'[k] <= AgeBound(k)' ELSE age'[k] = 0
  <2>1. since[k] <= write_s /\ since[k] \in Nat
    BY <1>2 DEF InTime, TypeOK
  <2>2. IF held[k] THEN age[k] <= max_hold_s + write_s + since[k] ELSE age[k] = 0
    BY <1>2 DEF AgesBounded, AgeBound
  <2>3. AgeBound(k)' >= max_hold_s + 2 * write_s
    <3>1. CASE p = "idle"
      BY <1>3, <3>1 DEF AgeBound
    <3>2. CASE p = "backoff"
      BY <1>3, <3>2 DEF AgeBound
    <3> QED BY <3>1, <3>2
  <2>4. AgeBound(k)' \in Nat /\ age[k] \in Nat
    BY <1>3 DEF AgeBound, TypeOK
  <2> QED BY <1>4, <2>1, <2>2, <2>3, <2>4
<1>8. InTime' /\ SlotWaitBounded' /\ AgesBounded'
  BY <1>1, <1>2, <1>4, <1>7, BoundsStep
<1> QED BY <1>5, <1>6, <1>8

LEMMA BackoffEndsKeeps ==
    ASSUME Provisioned, LimitsInv, NEW k \in DATA_TYPES, BackoffEnds(k)
    PROVE  LimitsInv'
<1>t. /\ max_hold_s \in Nat /\ flush_interval \in Nat /\ backoff_max \in Nat
      /\ write_s \in Nat /\ BROKER_CONSUMER_TIMEOUT_S \in Nat /\ max_concurrent_flushes \in Nat
      /\ Limit["idle"] = flush_interval /\ Limit["writing"] = write_s /\ Limit["backoff"] = backoff_max
  BY LimitTypes
<1> USE <1>t DEF LimitsInv
<1>0. "idle" \in Phases
  BY DEF Phases
<1>1. phase[k] = "backoff" /\ Becomes(k, "idle") /\ UNCHANGED <<waiting, held, taken, age>>
  BY DEF BackoffEnds
<1>2. /\ phase' \in [DATA_TYPES -> Phases] /\ since' \in [DATA_TYPES -> Nat]
      /\ phase'[k] = "idle" /\ since'[k] = 0
      /\ \A j \in DATA_TYPES \ {k} : phase'[j] = phase[j] /\ since'[j] = since[j]
  BY <1>0, <1>1, BecomesEffect
<1>3. TypeOK'
  BY <1>1, <1>2 DEF TypeOK
<1>4. Writers' = Writers /\ Queued' = Queued /\ k \notin Writers \cup Queued
  BY <1>1, <1>2 DEF Writers, Queued
<1>5. \A j \in Writers \cup Queued : since'[j] = since[j]
  BY <1>2, <1>4 DEF Writers, Queued
<1>6. QueueShape' /\ Room'
  BY <1>1, <1>4, <1>5, SameQueue
<1>7. IF held'[k] THEN age'[k] <= AgeBound(k)' ELSE age'[k] = 0
  <2>1. since[k] <= backoff_max /\ since[k] \in Nat
    BY <1>1 DEF InTime, TypeOK
  <2>2. IF held[k] THEN age[k] <= max_hold_s + 2 * write_s + since[k] ELSE age[k] = 0
    BY <1>1 DEF AgesBounded, AgeBound
  <2>3. AgeBound(k)' = max_hold_s + 2 * write_s + backoff_max /\ age[k] \in Nat
    BY <1>2 DEF AgeBound, TypeOK
  <2> QED BY <1>1, <2>1, <2>2, <2>3
<1>8. InTime' /\ SlotWaitBounded' /\ AgesBounded'
  BY <1>0, <1>1, <1>7, BoundsStep
<1> QED BY <1>3, <1>6, <1>8

\* While a key waits, every slot writes and time is bounded by the oldest write.
LEMMA TickKeeps ==
    ASSUME Provisioned, LimitsInv, Tick
    PROVE  LimitsInv'
<1>t. /\ max_hold_s \in Nat /\ flush_interval \in Nat /\ backoff_max \in Nat
      /\ write_s \in Nat /\ BROKER_CONSUMER_TIMEOUT_S \in Nat /\ max_concurrent_flushes \in Nat
      /\ Limit["idle"] = flush_interval /\ Limit["writing"] = write_s /\ Limit["backoff"] = backoff_max
  BY LimitTypes
<1> USE <1>t DEF LimitsInv
<1>1. /\ \A k \in DATA_TYPES : phase[k] # "queued" => since[k] < Limit[phase[k]]
      /\ waiting # <<>> => Cardinality(Writers) >= max_concurrent_flushes
      /\ UNCHANGED <<phase, waiting, held, taken>>
      /\ \A k \in DATA_TYPES : since'[k] = since[k] + 1
      /\ \A k \in DATA_TYPES : age'[k] = IF held[k] THEN age[k] + 1 ELSE age[k]
  BY DEF Tick, TypeOK, Limited, Provisioned
<1>2. since' \in [DATA_TYPES -> Nat] /\ age' \in [DATA_TYPES -> Nat]
  BY DEF Tick, TypeOK
<1>3. TypeOK'
  BY <1>1, <1>2 DEF TypeOK
<1>4. Writers' = Writers /\ Queued' = Queued
      /\ Writers \in SUBSET DATA_TYPES /\ Queued \in SUBSET DATA_TYPES
  BY <1>1 DEF Writers, Queued
<1>5. QueueShape'
  BY <1>1, <1>4 DEF QueueShape
<1>6. \A k \in DATA_TYPES : phase[k] \in Phases /\ since[k] \in Nat /\ age[k] \in Nat
  BY DEF TypeOK
<1>7. InTime'
  BY <1>1, <1>6 DEF InTime, Phases
<1>8. ASSUME NEW i \in 1..Len(waiting)
      PROVE  /\ i <= Cardinality(Older(waiting[i])) /\ Free = 0
             /\ waiting[i] \in DATA_TYPES /\ Cardinality(Older(waiting[i])) \in Nat
  <2>1. waiting[i] \in DATA_TYPES /\ Older(waiting[i]) \in SUBSET DATA_TYPES
    BY <1>4 DEF QueueShape, Older
  <2>2. waiting # <<>> /\ Cardinality(Writers) \in Nat /\ Cardinality(Older(waiting[i])) \in Nat
    BY <1>4, <2>1, KeySets
  <2>3. Free = 0
    BY <1>1, <2>2 DEF Room, Free
  <2>4. i <= Cardinality(Older(waiting[i])) + (IF since[waiting[i]] = 0 THEN 2 * Free ELSE Free)
    BY DEF Room
  <2> QED BY <2>1, <2>2, <2>3, <2>4
<1>9. Room'
  <2>1. Free' = Free /\ Cardinality(Writers') <= max_concurrent_flushes
    BY <1>4 DEF Free, Room
  <2>2. ASSUME NEW i \in 1..Len(waiting)
        PROVE  Older(waiting[i])' = Older(waiting[i])
    <3>1. \A w \in Writers : since'[w] >= since'[waiting[i]] <=> since[w] >= since[waiting[i]]
      BY <1>1, <1>4, <1>6, <1>8
    <3>2. Older(waiting[i])' = {w \in Writers : since'[w] >= since'[waiting[i]]}
      BY <1>1, <1>4 DEF Older
    <3> QED BY <3>1, <3>2 DEF Older
  <2> SUFFICES ASSUME NEW i \in 1..Len(waiting)
               PROVE  i <= Cardinality(Older(waiting[i])')
                           + (IF since'[waiting[i]] = 0 THEN 2 * Free' ELSE Free')
    BY <1>1, <2>1 DEF Room
  <2> QED BY <1>8, <2>1, <2>2
<1>10. SlotWaitBounded'
  <2> SUFFICES ASSUME NEW k \in DATA_TYPES, phase[k] = "queued" PROVE since[k] + 1 <= write_s
    BY <1>1 DEF SlotWaitBounded, write_s
  <2>1. PICK i \in 1..Len(waiting) : waiting[i] = k
    BY DEF QueueShape, Queued
  <2>2. Older(k) # {}
    <3>1. i <= Cardinality(Older(k)) /\ Cardinality(Older(k)) # 0
      BY <1>8, <2>1
    <3>2. Cardinality({}) = 0
      BY FS_EmptySet
    <3> QED BY <3>1, <3>2
  <2>3. PICK w \in Writers : since[w] >= since[k]
    BY <2>2 DEF Older
  <2>4. phase[w] = "writing" /\ w \in DATA_TYPES
    BY DEF Writers
  <2>5. since[w] < write_s
    BY <1>1, <2>4
  <2> QED BY <1>6, <2>3, <2>4, <2>5
<1>11. AgesBounded'
  <2> SUFFICES ASSUME NEW k \in DATA_TYPES
               PROVE  IF held'[k] THEN age'[k] <= AgeBound(k)' ELSE age'[k] = 0
    BY DEF AgesBounded
  <2>1. AgeBound(k)' = AgeBound(k) + 1 /\ AgeBound(k) \in Nat
    <3>1. phase'[k] = phase[k] /\ since'[k] = since[k] + 1 /\ since[k] \in Nat
      BY <1>1, <1>6
    <3>2. AgeBound(k) \in Nat
      BY <3>1 DEF AgeBound
    <3>3. AgeBound(k)' = AgeBound(k) + 1
      <4> DEFINE b == 2 * write_s
      <4>1. b \in Nat
        OBVIOUS
      <4> HIDE DEF b
      <4> QED BY <3>1, <4>1 DEF AgeBound, b
    <3> QED BY <3>2, <3>3
  <2> QED BY <1>1, <1>6, <2>1 DEF AgesBounded
<1> QED BY <1>3, <1>5, <1>7, <1>9, <1>10, <1>11

-----------------------------------------------------------------------------
(* Theorems.                                                               *)

LEMMA InitLimits ==
    ASSUME Provisioned, Init
    PROVE  LimitsInv
<1>t. /\ max_hold_s \in Nat /\ flush_interval \in Nat /\ backoff_max \in Nat
      /\ write_s \in Nat /\ BROKER_CONSUMER_TIMEOUT_S \in Nat /\ max_concurrent_flushes \in Nat
      /\ Limit["idle"] = flush_interval /\ Limit["writing"] = write_s /\ Limit["backoff"] = backoff_max
  BY LimitTypes
<1> USE <1>t DEF Init
<1>1. TypeOK
  BY DEF TypeOK, Phases
<1>2. Queued = {} /\ Writers = {} /\ Cardinality({}) = 0 /\ Len(waiting) = 0
  BY FS_EmptySet DEF Queued, Writers
<1>3. QueueShape /\ Room
  BY <1>2 DEF QueueShape, Room
<1>4. InTime /\ SlotWaitBounded
  BY DEF InTime, SlotWaitBounded
<1>5. AgesBounded
  BY DEF AgesBounded
<1> QED BY <1>1, <1>3, <1>4, <1>5 DEF LimitsInv

LEMMA StepLimits ==
    ASSUME Provisioned, LimitsInv, [Next]_vars
    PROVE  LimitsInv'
<1>1. CASE \E k \in DATA_TYPES :
              Deliver(k) \/ Enter(k) \/ StartWrite(k) \/ Settled(k) \/ Failed(k) \/ BackoffEnds(k)
  BY <1>1, DeliverKeeps, EnterKeeps, StartWriteKeeps, WritingEndsKeeps, BackoffEndsKeeps
<1>2. CASE Tick
  BY <1>2, TickKeeps
<1>3. CASE UNCHANGED vars
  <2>1. UNCHANGED <<phase, since, waiting, held, taken, age>>
    BY <1>3 DEF vars
  <2>2. TypeOK'
    BY <2>1 DEF LimitsInv, TypeOK
  <2>3. QueueShape' /\ Room'
    <3>1. Queued' = Queued /\ Writers' = Writers
      BY <2>1 DEF Queued, Writers
    <3> QED BY <2>1, <3>1, SameQueue DEF LimitsInv
  <2>4. InTime' /\ SlotWaitBounded'
    BY <2>1 DEF LimitsInv, InTime, SlotWaitBounded
  <2>5. AgesBounded'
    BY <2>1 DEF LimitsInv, AgesBounded, AgeBound
  <2> QED BY <2>2, <2>3, <2>4, <2>5 DEF LimitsInv
<1> QED BY <1>1, <1>2, <1>3 DEF Next

\* The timed invariant holds of every behaviour of the engine's limits, if the
\* configuration is Provisioned.
THEOREM LimitsInvariant == Provisioned /\ Spec => []LimitsInv
<1>1. Provisioned /\ Init => LimitsInv
  BY InitLimits
<1>2. Provisioned /\ LimitsInv /\ [Next]_vars => LimitsInv'
  BY StepLimits
<1>3. Provisioned => []Provisioned
  <2>1. Provisioned' <=> Provisioned
    BY DEF Provisioned
  <2> QED BY <2>1, PTL
<1> QED BY <1>1, <1>2, <1>3, PTL DEF Spec

\* With bounded holds and writes and at most two data types per slot, no key
\* waits longer for a slot than one bounded write: the single write the sum of
\* __post_init__ charges.
THEOREM SlotWaits == Provisioned /\ Spec => []SlotWaitBounded
<1>1. LimitsInv => SlotWaitBounded
  BY DEF LimitsInv
<1> QED BY <1>1, LimitsInvariant, PTL

\* Every configuration __post_init__ accepts that is Provisioned as well keeps
\* every delivery below the broker's consumer timeout.
THEOREM NoConsumerTimeout == Provisioned /\ Spec => []BelowConsumerTimeout
<1>1. ASSUME Provisioned, LimitsInv PROVE BelowConsumerTimeout
  <2> SUFFICES ASSUME NEW k \in DATA_TYPES, held[k] PROVE age[k] < BROKER_CONSUMER_TIMEOUT_S
    BY DEF BelowConsumerTimeout
  <2>0. /\ max_hold_s \in Nat /\ max_hold_s # None /\ flush_interval \in Nat /\ backoff_max \in Nat
        /\ write_s \in Nat /\ BROKER_CONSUMER_TIMEOUT_S \in Nat
        /\ Limit["idle"] = flush_interval /\ Limit["writing"] = write_s /\ Limit["backoff"] = backoff_max
    BY <1>1, LimitTypes DEF Provisioned
  <2>1. phase[k] \in Phases /\ since[k] \in Nat /\ age[k] \in Nat
    BY <1>1 DEF LimitsInv, TypeOK
  <2>2. age[k] <= AgeBound(k)
    BY <1>1 DEF LimitsInv, AgesBounded
  <2>3. /\ phase[k] = "queued" => since[k] <= write_s
        /\ phase[k] # "queued" => since[k] <= Limit[phase[k]]
    BY <1>1 DEF LimitsInv, SlotWaitBounded, InTime
  <2>4. AgeBound(k) <= max_hold_s + flush_interval + backoff_max + 2 * write_s
    BY <2>0, <2>1, <2>3 DEF AgeBound, Phases
  <2>5. AgeBound(k) \in Nat
    BY <2>0, <2>1 DEF AgeBound
  <2> QED BY <2>1, <2>2, <2>4, <2>0, <2>5, AcceptedAssumption DEF worst_case_s
<1>2. Provisioned => []Provisioned
  <2>1. Provisioned' <=> Provisioned
    BY DEF Provisioned
  <2> QED BY <2>1, PTL
<1> QED BY <1>1, <1>2, LimitsInvariant, PTL
=============================================================================
