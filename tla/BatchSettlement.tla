--------------------------- MODULE BatchSettlement ---------------------------
(***************************************************************************)
(* How deliveries of one data type are settled in batch mode.              *)
(* make_message_handler hands every record to Neo4jBatchProcessor, which   *)
(* queues it with its ack, nack and requeue callbacks; the shared          *)
(* AsyncBatchEngine writes batches through Neo4jBatchProcessor.write and   *)
(* settles each member by the index the projector reported.  An end marker *)
(* drains the queue with flush_queue before its signal is recorded.        *)
(*                                                                         *)
(* The engine and RabbitMQ are external: they are modelled from how the    *)
(* processor, the handlers and their tests use them.  Entries are a set    *)
(* (which of them a batch takes is left open, so effective batch sizes and *)
(* the order within the queue are abstracted), time is left out, and a     *)
(* payload is its message number; the numbers are the publication order.   *)
(***************************************************************************)
EXTENDS Naturals, Sequences, FiniteSets

CONSTANTS
    Last,               \* messages 1..Last are published
    Marker,             \* the one of them that ends the type
    Invalid,            \* records that have no id or do not normalise
    Rejected,           \* records whose index the projector reports
    Poison,             \* records whose write always raises
    BatchSize,
    Prefetch,           \* unsettled deliveries the channel allows
    MaxRequeues,        \* max_requeues
    MaxPoisonRetries,   \* max_poison_retries
    MaxFlushRetries,    \* max_flush_retries
    MarkerMaxRequeues,  \* MARKER_MAX_REQUEUES
    RecordMaxRequeues,  \* RECORD_MAX_REQUEUES
    MaxFaults,          \* bound: failures of Neo4j or a handler, and slowness
    MaxDisruptions      \* bound: losses of the connection and ends of the process

Messages == 1..Last
Records == Messages \ {Marker}
Unwritables == Invalid \cup Rejected \cup Poison

ASSUME SizesAssumption ==
    {Last, BatchSize, Prefetch, MaxPoisonRetries, MaxFlushRetries} \subseteq Nat \ {0}
ASSUME BoundsAssumption ==
    {MaxRequeues, MarkerMaxRequeues, RecordMaxRequeues, MaxFaults, MaxDisruptions} \subseteq Nat
ASSUME RolesAssumption ==
    /\ Marker \in Messages
    /\ Invalid \subseteq Records /\ Rejected \subseteq Records /\ Poison \subseteq Records

VARIABLES
    \* RabbitMQ
    where,      \* where each message is
    returns,    \* returned messages, in the order they come back
    fresh,      \* the next message never delivered
    trips,      \* deliveries of each message: x-acquired-count + 1
    \* the engine's state for this type
    pending,    \* queued entries: <<message, its channel is still open>>
    batch,      \* the entries of the flush in progress
    flush,      \* where that flush is
    retry,      \* transient backoff of the key
    poison,     \* deterministic failures in a row
    \* marker handlers: <<channel still open, stage, attempts of flush_queue>>
    handlers,
    returning,  \* records whose handler failed and waits to give them back
    \* Neo4j
    graph,      \* records written
    landed,     \* the type's completion signal is recorded
    \* observation
    heldBack,   \* records the hold, a failed handler, or a return behind the marker held up
    missed,     \* those still there when a drain answered True
    \* bounds
    faults, disruptions

broker == <<where, returns, fresh, trips>>
engine == <<pending, batch, flush, retry, poison>>
neo4j == <<graph, landed>>
observed == <<heldBack, missed>>
bounds == <<faults, disruptions>>
handling == <<handlers, returning>>
vars == <<broker, engine, handling, neo4j, observed, bounds>>

Entries == Messages \X BOOLEAN
Flushes == {"idle", "writing", "written", "settling"}
Stages == {"drain", "latch", "ack", "requeue"}

TypeOK ==
    /\ where \in [Messages -> {"broker", "out", "acked", "dead"}]
    /\ returns \in Seq(Messages) /\ fresh \in 1..(Last + 1)
    /\ trips \in [Messages -> Nat]
    /\ pending \in SUBSET Entries /\ batch \in SUBSET Entries
    /\ flush \in Flushes /\ retry \in {"no", "backoff", "due"} /\ poison \in Nat
    /\ handlers \in SUBSET (BOOLEAN \X Stages \X Nat)
    /\ returning \in SUBSET Messages
    /\ graph \in SUBSET Messages /\ landed \in BOOLEAN
    /\ heldBack \in SUBSET Messages /\ missed \in SUBSET Messages
    /\ faults \in Nat /\ disruptions \in Nat

Init ==
    /\ where = [m \in Messages |-> "broker"]
    /\ returns = <<>> /\ fresh = 1 /\ trips = [m \in Messages |-> 0]
    /\ pending = {} /\ batch = {} /\ flush = "idle" /\ retry = "no" /\ poison = 0
    /\ handlers = {} /\ returning = {} /\ graph = {} /\ landed = FALSE
    /\ heldBack = {} /\ missed = {}
    /\ faults = 0 /\ disruptions = 0

Out == {m \in Messages : where[m] = "out"}
Fault == faults < MaxFaults /\ faults' = faults + 1 /\ UNCHANGED disruptions

-----------------------------------------------------------------------------
(* Deliveries.                                                             *)

\* The handler settles m with ack, or with nack(requeue=False).
Settled(m, end) == where' = [where EXCEPT ![m] = end]

\* Returned messages come back before the queue moves on.
NextMessage(m) ==
    \/ returns # <<>> /\ m = Head(returns) /\ returns' = Tail(returns) /\ UNCHANGED fresh
    \/ returns = <<>> /\ m = fresh /\ fresh' = fresh + 1 /\ UNCHANGED returns

\* add_message: an invalid record is rejected locally, any other is submitted;
\* an end marker starts its drain.  submit is taken not to wait for capacity:
\* max_pending covers four prefetches.
add_message(m) ==
    /\ Cardinality(Out) < Prefetch
    /\ NextMessage(m)
    /\ trips' = [trips EXCEPT ![m] = @ + 1]
    /\ Settled(m, IF m \in Invalid THEN "dead" ELSE "out")
    /\ pending' = pending \cup (IF m \in Records \ Invalid THEN {<<m, TRUE>>} ELSE {})
    /\ handlers' = handlers \cup (IF m = Marker THEN {<<TRUE, "drain", 0>>} ELSE {})
    /\ heldBack' = heldBack \ {m}
    /\ UNCHANGED <<batch, flush, retry, poison, returning, neo4j, missed, bounds>>

Deliver == \E m \in Messages : add_message(m)

\* add_message raises before m is queued: the handler keeps it for the pause of
\* requeue_record.
add_messageRaises(m) ==
    /\ m \in Records \ Invalid /\ Fault
    /\ Cardinality(Out) < Prefetch
    /\ NextMessage(m)
    /\ trips' = [trips EXCEPT ![m] = @ + 1]
    /\ Settled(m, "out")
    /\ returning' = returning \cup {m} /\ heldBack' = heldBack \cup {m}
    /\ UNCHANGED <<engine, handlers, neo4j, missed>>

\* The pause is over: m goes back, or is dead-lettered when its trips are spent.
requeue_record(m) ==
    /\ m \in returning /\ returning' = returning \ {m}
    /\ IF trips[m] > RecordMaxRequeues
       THEN Settled(m, "dead") /\ UNCHANGED returns
       ELSE Settled(m, "broker") /\ returns' = Append(returns, m)
    /\ UNCHANGED <<fresh, trips, engine, handlers, neo4j, observed, bounds>>

-----------------------------------------------------------------------------
(* One flush: take, write, settle.                                         *)

\* Faulty variant of Takes: a poisoned key is never isolated.
TakesWholeBatch(S) == Cardinality(S) <= BatchSize

\* A key past its poison threshold is written one record at a time.
Takes(S) ==
    IF poison < MaxPoisonRetries THEN Cardinality(S) <= BatchSize ELSE \E e \in S : S = {e}

\* add_message, periodic_flush, flush_all and flush_queue all flush this way.
FlushStart ==
    /\ flush = "idle" /\ retry # "backoff"
    /\ \E S \in SUBSET pending :
          /\ S # {} /\ Takes(S)
          /\ batch' = S /\ pending' = pending \ S
    /\ flush' = "writing"
    /\ UNCHANGED <<broker, retry, poison, handling, neo4j, observed, bounds>>

Written(S) == {e[1] : e \in S} \ Rejected
Unwritable(S) == \E e \in S : e[1] \in Poison

\* The projector's transaction commits.  Writing a record a second time
\* changes nothing: its hash is already stored.
WriteCommits ==
    /\ flush = "writing" /\ ~Unwritable(batch)
    /\ graph' = graph \cup Written(batch)
    /\ flush' = "written"
    /\ UNCHANGED <<broker, pending, batch, retry, poison, handling, landed, observed, bounds>>

\* Faulty variant of write: a success takes one poison attempt back.
writeUndoesOne ==
    /\ flush = "written"
    /\ flush' = "settling" /\ retry' = "no" /\ poison' = poison - 1
    /\ UNCHANGED <<broker, pending, batch, handling, neo4j, observed, bounds>>

\* write() returns a result per member.
write ==
    /\ flush = "written"
    /\ flush' = "settling" /\ retry' = "no" /\ poison' = 0
    /\ UNCHANGED <<broker, pending, batch, handling, neo4j, observed, bounds>>

\* Faulty variant of TransientFailure: the batch is not put back.
TransientFailureDropsBatch ==
    /\ flush \in {"writing", "written"} /\ Fault
    /\ batch' = {} /\ flush' = "idle" /\ retry' = "backoff"
    /\ UNCHANGED <<broker, pending, poison, handling, neo4j, observed>>

\* The failure classifier says transient: Neo4j is down, or the write passed
\* max_write_s and was cancelled, possibly after it committed.
TransientFailure ==
    /\ flush \in {"writing", "written"} /\ Fault
    /\ pending' = pending \cup batch /\ batch' = {}
    /\ flush' = "idle" /\ retry' = "backoff"
    /\ UNCHANGED <<broker, poison, handling, neo4j, observed>>

\* Faulty variant of DeterministicFailure: the failures are not counted.
DeterministicFailureUncounted ==
    /\ flush = "writing" /\ Unwritable(batch)
    /\ pending' = pending \cup batch /\ batch' = {} /\ flush' = "idle"
    /\ UNCHANGED <<broker, retry, poison, handling, neo4j, observed, bounds>>

\* The classifier says deterministic.  The batch is kept for another attempt;
\* once the key is isolated, the one member is to blame and is rejected.
DeterministicFailure ==
    /\ flush = "writing" /\ Unwritable(batch)
    /\ IF poison < MaxPoisonRetries
       THEN /\ pending' = pending \cup batch /\ poison' = poison + 1
            /\ UNCHANGED where
       ELSE /\ where' = [m \in Messages |-> IF <<m, TRUE>> \in batch THEN "dead" ELSE where[m]]
            /\ poison' = 0 /\ UNCHANGED pending
    /\ batch' = {} /\ flush' = "idle"
    /\ UNCHANGED <<returns, fresh, trips, retry, handling, neo4j, observed, bounds>>

\* Faulty variant of Settle: the reported index is not looked up.
SettleAcksAll ==
    /\ flush = "settling"
    /\ \E e \in batch :
          /\ batch' = batch \ {e}
          /\ IF e[2] THEN Settled(e[1], "acked") ELSE UNCHANGED where
          /\ flush' = IF batch = {e} THEN "idle" ELSE "settling"
    /\ UNCHANGED <<returns, fresh, trips, pending, retry, poison, handling, neo4j, observed, bounds>>

\* The engine settles one member: a stale entry's callback reaches no channel.
Settle ==
    /\ flush = "settling"
    /\ \E e \in batch :
          /\ batch' = batch \ {e}
          /\ IF e[2] THEN Settled(e[1], IF e[1] \in Rejected THEN "dead" ELSE "acked")
                     ELSE UNCHANGED where
          /\ flush' = IF batch = {e} THEN "idle" ELSE "settling"
    /\ UNCHANGED <<returns, fresh, trips, pending, retry, poison, handling, neo4j, observed, bounds>>

BackoffEnds ==
    /\ retry = "backoff" /\ retry' = "due"
    /\ UNCHANGED <<broker, pending, batch, flush, poison, handling, neo4j, observed, bounds>>

\* A sequence of the members of S in publication order.
InOrder(s, S) ==
    /\ \A i, j \in 1..Len(s) : i < j => s[i] < s[j]
    /\ {s[i] : i \in 1..Len(s)} = S
Sequences(S) == [1..Cardinality(S) -> S]

\* A flush entry finds S held past max_hold_s: each goes back to the broker, or
\* to the dead-letter queue when its trips are spent.  A hold outside transient
\* backoff takes a slowness that counts against MaxFaults.
HoldReturn ==
    /\ flush = "idle"
    /\ IF retry = "no" THEN Fault ELSE UNCHANGED bounds
    /\ \E S \in SUBSET pending : \E back \in SUBSET Messages : \E s \in Sequences(back) :
          /\ S # {}
          /\ back = {m \in Messages : <<m, TRUE>> \in S /\ trips[m] <= MaxRequeues}
          /\ InOrder(s, back)
          /\ pending' = pending \ S
          /\ where' = [m \in Messages |->
                        IF m \in back THEN "broker"
                        ELSE IF <<m, TRUE>> \in S THEN "dead" ELSE where[m]]
          /\ returns' = returns \o s
          /\ heldBack' = heldBack \cup {m \in Messages : <<m, FALSE>> \in S /\ where[m] = "broker"}
                                  \cup back
    /\ UNCHANGED <<fresh, trips, batch, flush, retry, poison, handling, neo4j, missed>>

-----------------------------------------------------------------------------
(* The end marker.                                                         *)

MoveTo(h, g) == handlers' = (handlers \ {h}) \cup {g}
byHandler == <<engine, returning, bounds>>

\* Faulty variant of Drained: the flush in progress is not waited for.
DrainedBesideFlush(h) ==
    /\ h[2] = "drain" /\ pending = {} /\ retry # "backoff"
    /\ MoveTo(h, <<h[1], "latch", h[3]>>)
    /\ missed' = (IF landed THEN missed ELSE missed \cup heldBack)
    /\ UNCHANGED <<broker, neo4j, heldBack, byHandler>>

\* flush_queue: an attempt found nothing left to write.
Drained(h) ==
    /\ h[2] = "drain" /\ pending = {} /\ batch = {} /\ retry # "backoff"
    /\ MoveTo(h, <<h[1], "latch", h[3]>>)
    /\ missed' = (IF landed THEN missed ELSE missed \cup heldBack)
    /\ UNCHANGED <<broker, neo4j, heldBack, byHandler>>

\* flush_queue: an attempt answered False; the last one gives up.
flush_queue(h) ==
    /\ h[2] = "drain" /\ (retry # "no" \/ poison > 0)
    /\ IF h[3] + 1 < MaxFlushRetries THEN MoveTo(h, <<h[1], "drain", h[3] + 1>>)
       ELSE MoveTo(h, <<h[1], "requeue", h[3] + 1>>)
    /\ UNCHANGED <<broker, neo4j, observed, byHandler>>

RecordSignal(h) ==
    /\ h[2] = "latch"
    /\ landed' = TRUE
    /\ MoveTo(h, <<h[1], "ack", h[3]>>)
    /\ UNCHANGED <<broker, graph, observed, byHandler>>

SignalFails(h) ==
    /\ h[2] = "latch" /\ Fault
    /\ MoveTo(h, <<h[1], "requeue", h[3]>>)
    /\ UNCHANGED <<broker, neo4j, observed, engine, returning>>

\* ack on a closed channel fails and the marker comes back.
AckMarker(h) ==
    /\ h[2] = "ack" /\ handlers' = handlers \ {h}
    /\ IF h[1] THEN Settled(Marker, "acked") ELSE UNCHANGED where
    /\ UNCHANGED <<returns, fresh, trips, neo4j, observed, byHandler>>

requeue_marker(h) ==
    /\ h[2] = "requeue" /\ handlers' = handlers \ {h}
    /\ \/ ~h[1] /\ UNCHANGED <<where, returns>>
       \/ h[1] /\ trips[Marker] > MarkerMaxRequeues /\ Settled(Marker, "dead") /\ UNCHANGED returns
       \/ /\ h[1] /\ trips[Marker] <= MarkerMaxRequeues /\ Settled(Marker, "broker")
          /\ returns' = Append(returns, Marker)
    /\ UNCHANGED <<fresh, trips, neo4j, observed, byHandler>>

-----------------------------------------------------------------------------
(* Faults.                                                                 *)

\* Every unsettled delivery goes back, oldest first, behind what was returned
\* before; records that come to stand behind the marker are remembered.
ReturnUnsettled ==
    /\ disruptions < MaxDisruptions /\ disruptions' = disruptions + 1 /\ UNCHANGED faults
    /\ \E s \in Sequences(Out) : InOrder(s, Out) /\ returns' = returns \o s
    /\ where' = [m \in Messages |-> IF where[m] = "out" THEN "broker" ELSE where[m]]
    /\ heldBack' = heldBack \cup (IF \E i \in 1..Len(returns) : returns[i] = Marker THEN Out ELSE {})
    /\ UNCHANGED <<fresh, trips, missed, neo4j>>

Stale(S) == {<<e[1], FALSE>> : e \in S}

\* The channel is replaced under the engine and the marker handlers.
ConnectionLoss ==
    /\ ReturnUnsettled
    /\ pending' = Stale(pending) /\ batch' = Stale(batch)
    /\ handlers' = {<<FALSE, h[2], h[3]>> : h \in handlers} /\ returning' = {}
    /\ UNCHANGED <<flush, retry, poison>>

\* The process ends.  A shutdown does too: handlers leave their deliveries
\* unsettled, and a last flush_all is a flush like any other before it.
Crash ==
    /\ ReturnUnsettled
    /\ pending' = {} /\ batch' = {} /\ flush' = "idle" /\ retry' = "no" /\ poison' = 0
    /\ handlers' = {} /\ returning' = {}

-----------------------------------------------------------------------------
FlushStep == FlushStart \/ WriteCommits \/ write \/ DeterministicFailure \/ Settle
MarkerStep == \E h \in handlers :
    Drained(h) \/ flush_queue(h) \/ RecordSignal(h) \/ AckMarker(h) \/ requeue_marker(h)

Next ==
    \/ Deliver \/ \E m \in Messages : add_messageRaises(m) \/ requeue_record(m)
    \/ FlushStep \/ BackoffEnds \/ TransientFailure \/ HoldReturn
    \/ MarkerStep \/ \E h \in handlers : SignalFails(h)
    \/ ConnectionLoss \/ Crash

Spec == Init /\ [][Next]_vars

\* RabbitMQ delivers while the prefetch allows, periodic_flush keeps flushing,
\* Neo4j answers once its faults are spent, and handlers run on.
Fairness ==
    /\ WF_vars(Deliver) /\ WF_vars(FlushStep) /\ WF_vars(BackoffEnds) /\ WF_vars(MarkerStep)
    /\ WF_vars(\E m \in Messages : requeue_record(m))
FairSpec == Spec /\ Fairness

-----------------------------------------------------------------------------
(* Properties.                                                             *)

\* A record is acknowledged only when the graph holds it: whatever flush took
\* it, however often its write was retried or its delivery came back
\* (Neo4jBatchProcessor.write maps the projector's indices to settlements).
AckedIsWritten == \A m \in Records : where[m] = "acked" => m \in graph

\* A healthy record is never dead-lettered for its neighbours' sake or for an
\* outage shorter than its budget: only invalid, rejected and unwritable
\* records and messages that used up their trips are (docs/database-resilience.md).
OnlyJustifiedDeadLetters ==
    \A m \in Messages : where[m] = "dead" =>
        \/ m \in Unwritables
        \/ \E budget \in (IF m = Marker THEN {MarkerMaxRequeues}
                          ELSE {MaxRequeues, RecordMaxRequeues}) : trips[m] > budget

\* When the type's signal is recorded, the graph holds every writable record
\* published before the marker, except those dead-lettered and those that were
\* on their way back from the broker (check_file_completion drains first).
SignalCoversItsRecords ==
    landed => \A m \in Records \ Unwritables : m < Marker =>
        m \in graph \/ where[m] = "dead" \/ m \in missed

\* Every unsettled delivery has exactly one owner that will settle it, and no
\* owner holds a live callback of a delivery that is settled or gone: nothing
\* is left to the broker's consumer timeout and nothing is settled twice.
EveryDeliveryHasOneOwner ==
    /\ \A m \in Records : where[m] = "out" <=> <<m, TRUE>> \in pending \cup batch \/ m \in returning
    /\ \A m \in returning : m \in Records /\ <<m, TRUE>> \notin pending \cup batch
    /\ where[Marker] = "out" <=> \E h \in handlers : h[1]
    /\ \A g, h \in handlers : g[1] /\ h[1] => g = h
    /\ pending \cap batch \cap (Messages \X {TRUE}) = {}

\* Every message is in the end acknowledged or dead-lettered: held deliveries,
\* isolated poison and parked markers all come to rest.
EverythingSettles == \A m \in Messages : <>(where[m] \in {"acked", "dead"})
=============================================================================
