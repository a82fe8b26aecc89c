----------------------------- MODULE BatchLimits -----------------------------
(***************************************************************************)
(* How long the batch engine may keep a delivery before RabbitMQ's         *)
(* consumer_timeout.  BatchConfig.__post_init__ accepts a configuration    *)
(* when one sum of its limits stays below the timeout; this module is the  *)
(* timed behaviour that sum is about: one key per data type, flushes that  *)
(* share max_concurrent_flushes slots, bounded writes, backoff, and the    *)
(* hold checked at each flush entry.                                       *)
(*                                                                         *)
(* One delivery of each key is followed, any one: the others of the key    *)
(* show only in what its flushes do.  Time advances in whole units and     *)
(* only when nothing that is due is left undone.  The engine is external   *)
(* and is modelled from the processor's comments, docs and tests.          *)
(***************************************************************************)
EXTENDS Integers, Sequences, FiniteSets

CONSTANTS
    DATA_TYPES,
    max_hold_s, flush_interval, backoff_max, max_write_s,
    WRITE_CANCEL_GRACE_S,
    BROKER_CONSUMER_TIMEOUT_S,
    max_concurrent_flushes,
    None            \* max_hold_s or max_write_s: without a bound

\* A write without a bound is charged nothing.
write_s == IF max_write_s = None THEN 0 ELSE max_write_s + WRITE_CANCEL_GRACE_S

worst_case_s == max_hold_s + flush_interval + backoff_max + 2 * write_s

ASSUME LimitsAssumption ==
    /\ {flush_interval, backoff_max, WRITE_CANCEL_GRACE_S,
        BROKER_CONSUMER_TIMEOUT_S, max_concurrent_flushes} \subseteq Nat
    /\ None \notin Nat /\ {max_hold_s, max_write_s} \subseteq Nat \cup {None}
    /\ IsFiniteSet(DATA_TYPES)
\* What __post_init__ lets through.
ASSUME AcceptedAssumption ==
    max_hold_s = None \/ worst_case_s < BROKER_CONSUMER_TIMEOUT_S

\* What the sum takes for granted and __post_init__ does not check: that holds
\* and writes are bounded, and that at most two types share a flush slot.  The
\* service's own values meet it: four types, two flushes and both bounds set.
Provisioned ==
    /\ max_hold_s # None /\ max_write_s # None
    /\ Cardinality(DATA_TYPES) <= 2 * max_concurrent_flushes

VARIABLES
    phase,      \* of each key's flush
    since,      \* time spent in that phase
    waiting,    \* keys waiting for a flush slot, first come first served
    held,       \* the followed delivery is unsettled
    taken,      \* the write in progress holds it
    age         \* time since it was delivered

vars == <<phase, since, waiting, held, taken, age>>

Phases == {"idle", "queued", "writing", "backoff"}

TypeOK ==
    /\ phase \in [DATA_TYPES -> Phases]
    /\ since \in [DATA_TYPES -> Nat]
    /\ waiting \in Seq(DATA_TYPES)
    /\ held \in [DATA_TYPES -> BOOLEAN]
    /\ taken \in [DATA_TYPES -> BOOLEAN]
    /\ age \in [DATA_TYPES -> Nat]

Init ==
    /\ phase = [k \in DATA_TYPES |-> "idle"]
    /\ since = [k \in DATA_TYPES |-> 0]
    /\ waiting = <<>>
    /\ held = [k \in DATA_TYPES |-> FALSE]
    /\ taken = [k \in DATA_TYPES |-> FALSE]
    /\ age = [k \in DATA_TYPES |-> 0]

Writers == {k \in DATA_TYPES : phase[k] = "writing"}

-----------------------------------------------------------------------------
Becomes(k, p) == phase' = [phase EXCEPT ![k] = p] /\ since' = [since EXCEPT ![k] = 0]
LetsGo(k) == held' = [held EXCEPT ![k] = FALSE] /\ age' = [age EXCEPT ![k] = 0]

Deliver(k) ==
    /\ ~held[k]
    /\ held' = [held EXCEPT ![k] = TRUE]
    /\ UNCHANGED <<phase, since, waiting, taken, age>>

\* A flush entry: what was held past max_hold_s goes back to the broker, and
\* whatever is left is queued for a write.
Enter(k) ==
    /\ phase[k] = "idle"
    /\ IF max_hold_s # None /\ held[k] /\ age[k] >= max_hold_s
       THEN LetsGo(k) ELSE UNCHANGED <<held, age>>
    /\ \/ Becomes(k, "queued") /\ waiting' = Append(waiting, k)
       \/ Becomes(k, "idle") /\ ~held'[k] /\ UNCHANGED waiting
    /\ UNCHANGED taken

\* Faulty variant of StartWrite: the last to come is served first.
StartWriteLifo(k) ==
    /\ waiting # <<>> /\ k = waiting[Len(waiting)]
    /\ Cardinality(Writers) < max_concurrent_flushes
    /\ Becomes(k, "writing") /\ waiting' = SubSeq(waiting, 1, Len(waiting) - 1)
    /\ \E t \in BOOLEAN : (t => held[k]) /\ taken' = [taken EXCEPT ![k] = t]
    /\ UNCHANGED <<held, age>>

\* A slot is free.  The batch takes the followed delivery or leaves it queued.
StartWrite(k) ==
    /\ waiting # <<>> /\ k = Head(waiting)
    /\ Cardinality(Writers) < max_concurrent_flushes
    /\ Becomes(k, "writing") /\ waiting' = Tail(waiting)
    /\ \E t \in BOOLEAN : (t => held[k]) /\ taken' = [taken EXCEPT ![k] = t]
    /\ UNCHANGED <<held, age>>

\* The batch is written, or rejected, and settled.
Settled(k) ==
    /\ phase[k] = "writing"
    /\ Becomes(k, "idle")
    /\ IF taken[k] THEN LetsGo(k) ELSE UNCHANGED <<held, age>>
    /\ taken' = [taken EXCEPT ![k] = FALSE]
    /\ UNCHANGED waiting

\* The batch is kept for another attempt: at once after a deterministic
\* failure, after a backoff when Neo4j is down or the write was cancelled.
Failed(k) ==
    /\ phase[k] = "writing"
    /\ \E p \in {"idle", "backoff"} : Becomes(k, p)
    /\ taken' = [taken EXCEPT ![k] = FALSE]
    /\ UNCHANGED <<waiting, held, age>>

BackoffEnds(k) ==
    /\ phase[k] = "backoff" /\ Becomes(k, "idle")
    /\ UNCHANGED <<waiting, held, taken, age>>

\* Faulty variant of Limit: the backoff doubles without its cap.
LimitUncapped == [p \in Phases \ {"queued"} |->
    CASE p = "idle" -> flush_interval [] p = "writing" -> write_s
      [] p = "backoff" -> BROKER_CONSUMER_TIMEOUT_S]

Limit == [p \in Phases \ {"queued"} |->
    CASE p = "idle" -> flush_interval [] p = "writing" -> write_s [] p = "backoff" -> backoff_max]

\* A write without max_write_s may last for ever.
Limited == Phases \ ({"queued"} \cup IF max_write_s = None THEN {"writing"} ELSE {})

\* Time passes unless a flush, a cancellation or the end of a backoff is due,
\* or a waiting key could have a free slot.
Tick ==
    /\ \A k \in DATA_TYPES : phase[k] \in Limited => since[k] < Limit[phase[k]]
    /\ waiting # <<>> => Cardinality(Writers) >= max_concurrent_flushes
    /\ since' = [k \in DATA_TYPES |-> since[k] + 1]
    /\ age' = [k \in DATA_TYPES |-> IF held[k] THEN age[k] + 1 ELSE age[k]]
    /\ UNCHANGED <<phase, waiting, held, taken>>

Next ==
    \/ \E k \in DATA_TYPES :
          Deliver(k) \/ Enter(k) \/ StartWrite(k) \/ Settled(k) \/ Failed(k) \/ BackoffEnds(k)
    \/ Tick

Spec == Init /\ [][Next]_vars

-----------------------------------------------------------------------------
\* If Provisioned, a key never waits for a slot longer than one bounded write:
\* the code's sum charges the wait behind another key's write once
\* (batch_processor.py:91-94).
SlotWaitBounded == \A k \in DATA_TYPES : phase[k] = "queued" => since[k] <= write_s

\* If Provisioned, RabbitMQ never sees a delivery reach its consumer timeout, so
\* it never cancels the consumer: the sum __post_init__ checks covers every way
\* through a hold, a slot, a write, a backoff and a flush interval.
BelowConsumerTimeout == \A k \in DATA_TYPES : held[k] => age[k] < BROKER_CONSUMER_TIMEOUT_S
=============================================================================
