-------------------------- MODULE ExtractionLatch --------------------------
(***************************************************************************)
(* The durable extraction_complete latch of graphinator.py: four RabbitMQ  *)
(* queues each deliver one extraction_complete marker per dump version; a  *)
(* marker's handler flushes its type's batch, records the signal on the    *)
(* version's ExtractionCompletion node under extraction_latch_lock, acks,  *)
(* and the handler that saw every signal starts post-import maintenance.   *)
(*                                                                         *)
(* The service is one asyncio process, so an action is the code between    *)
(* two awaits and handlers interleave only there.  The process can crash   *)
(* at any await, the broker connection can drop under running handlers,    *)
(* every Neo4j call can fail, and a commit's answer can be lost.           *)
(*                                                                         *)
(* Maintenance is the occupant of its single-flight slot here; its         *)
(* attempts and steps are PostImportMaintenance.                           *)
(***************************************************************************)
EXTENDS Naturals

CONSTANTS
    DATA_TYPES,             \* one queue and one marker per dump for each
    Versions,               \* the dump versions the extractor publishes
    Tasks,                  \* concurrent handler tasks (prefetch bounds them)
    None,                   \* no version, no marker, no lock holder
    MARKER_MAX_REQUEUES,    \* requeues after which a marker is dead-lettered
    MaxFaults,              \* bound: failed Neo4j calls and failed passes
    MaxLosses               \* bound: crashes and connection losses

ASSUME NoneAssumption ==
    None \notin Versions /\ None \notin Tasks /\ None \notin Versions \X DATA_TYPES
ASSUME DataTypesAssumption == DATA_TYPES # {}
ASSUME BoundsAssumption ==
    MARKER_MAX_REQUEUES \in Nat /\ MaxFaults \in Nat /\ MaxLosses \in Nat

Markers == Versions \X DATA_TYPES

VARIABLES
    \* RabbitMQ
    broker,         \* where each marker is
    handouts,       \* x-acquired-count: times the marker was returned
    \* Neo4j: the ExtractionCompletion node of each version
    signals,        \* m.signals; {} while the node does not exist
    latest,         \* the version with the newest created_at, or None
    maintained,     \* m.maintained_at IS NOT NULL
    failed,         \* m.maintenance_status = 'failed'
    \* the process: one record of handler state per task
    pc,             \* the await a handler task is suspended at
    marker,         \* the delivery it handles
    live,           \* it is unsettled and its channel is still open
    candidate,      \* _record_extraction_signal's private candidate
    \* the process: module globals
    extraction_latch_lock,
    extraction_complete_version,
    extraction_complete_signals,
    pass,           \* version in the post_import_maintenance_task slot
    boot,           \* main(): how far the start-up sequence has come
    resumed,        \* the version resume_pending_maintenance looks at
    alarmed,        \* maintenance given up with only an ERROR log line
    \* bounds
    faults, losses

brokerVars == <<broker, handouts>>
nodeVars == <<signals, latest, maintained, failed>>
taskVars == <<pc, marker, live, candidate>>
latchVars == <<extraction_latch_lock, extraction_complete_version,
               extraction_complete_signals>>
passVars == <<pass, boot, resumed, alarmed>>
boundVars == <<faults, losses>>
vars == <<brokerVars, nodeVars, taskVars, latchVars, passVars, boundVars>>

BrokerStates == {"unsent", "ready", "out", "acked", "dead"}
TaskStates == {"idle", "flush", "latch", "load", "persist", "committed",
               "state", "ack", "trigger", "start", "requeue"}
BootStates == {"down", "latest", "check", "running"}

\* `handouts` counts nacks and losses, and each spends one of the two bounds.
TypeOK ==
    /\ broker \in [Markers -> BrokerStates]
    /\ handouts \in [Markers -> Nat]
    /\ signals \in [Versions -> SUBSET DATA_TYPES]
    /\ latest \in Versions \cup {None}
    /\ maintained \in [Versions -> BOOLEAN]
    /\ failed \in [Versions -> BOOLEAN]
    /\ pc \in [Tasks -> TaskStates]
    /\ marker \in [Tasks -> Markers \cup {None}]
    /\ live \in [Tasks -> BOOLEAN]
    /\ candidate \in [Tasks -> SUBSET DATA_TYPES]
    /\ extraction_latch_lock \in Tasks \cup {None}
    /\ extraction_complete_version \in Versions \cup {None}
    /\ extraction_complete_signals \in SUBSET DATA_TYPES
    /\ pass \in Versions \cup {None}
    /\ boot \in BootStates
    /\ resumed \in Versions \cup {None}
    /\ alarmed \in BOOLEAN
    /\ faults \in 0..MaxFaults
    /\ losses \in 0..MaxLosses
    /\ \A k \in Tasks : pc[k] # "idle" => marker[k] \in Markers

Up == boot # "down"
VersionOf(k) == marker[k][1]
TypeOf(k) == marker[k][2]
Complete(v) == signals[v] = DATA_TYPES

-----------------------------------------------------------------------------
(* State changes shared by several actions.                                *)

Goto(k, where) == pc' = [pc EXCEPT ![k] = where]

\* The handler returns: nothing of it is left.
Return(k) ==
    /\ Goto(k, "idle")
    /\ marker' = [marker EXCEPT ![k] = None]
    /\ live' = [live EXCEPT ![k] = FALSE]
    /\ candidate' = [candidate EXCEPT ![k] = {}]

Suspend(k, where) == Goto(k, where) /\ UNCHANGED <<marker, live, candidate>>

Fault == faults < MaxFaults /\ faults' = faults + 1 /\ UNCHANGED losses
Loss == losses < MaxLosses /\ losses' = losses + 1 /\ UNCHANGED faults

\* A closed channel or connection returns every unacknowledged delivery.
ReturnUnacked ==
    /\ broker' = [m \in Markers |-> IF broker[m] = "out" THEN "ready" ELSE broker[m]]
    /\ handouts' = [m \in Markers |-> IF broker[m] = "out" THEN handouts[m] + 1
                                                           ELSE handouts[m]]

\* Faulty variant of start_post_import_maintenance: a second pass replaces the running one.
StartReplacesPass(v) == pass' = v

\* start_post_import_maintenance: a trigger that finds the slot busy is ignored.
start_post_import_maintenance(v) == pass' = IF pass = None THEN v ELSE pass

ReleaseLock == extraction_latch_lock' = None

-----------------------------------------------------------------------------
(* Queues are durable and outlive the process.  The extractor publishes    *)
(* some of the markers, or dies before it has; when it does so cannot be   *)
(* told apart from a late delivery, so the choice is made here.            *)
Init ==
    /\ \E published \in SUBSET Markers :
           broker = [m \in Markers |-> IF m \in published THEN "ready" ELSE "unsent"]
    /\ handouts = [m \in Markers |-> 0]
    /\ signals = [v \in Versions |-> {}]
    /\ latest = None
    /\ maintained = [v \in Versions |-> FALSE]
    /\ failed = [v \in Versions |-> FALSE]
    /\ pc = [k \in Tasks |-> "idle"]
    /\ marker = [k \in Tasks |-> None]
    /\ live = [k \in Tasks |-> FALSE]
    /\ candidate = [k \in Tasks |-> {}]
    /\ extraction_latch_lock = None
    /\ extraction_complete_version = None
    /\ extraction_complete_signals = {}
    /\ pass = None
    /\ boot = "latest"
    /\ resumed = None
    /\ alarmed = FALSE
    /\ faults = 0
    /\ losses = 0

-----------------------------------------------------------------------------
(* The broker.                                                             *)

\* The handler's first segment, up to the await of flush_queue.
Deliver(m, k) ==
    /\ Up
    /\ broker[m] = "ready"
    /\ pc[k] = "idle"
    /\ broker' = [broker EXCEPT ![m] = "out"]
    /\ Goto(k, "flush")
    /\ marker' = [marker EXCEPT ![k] = m]
    /\ live' = [live EXCEPT ![k] = TRUE]
    /\ UNCHANGED <<handouts, candidate, nodeVars, latchVars, passVars, boundVars>>

\* The connection drops under the running handlers, which go on to find out.
ConnectionLoss ==
    /\ Up
    /\ Loss
    /\ \E k \in Tasks : live[k]
    /\ ReturnUnacked
    /\ live' = [k \in Tasks |-> FALSE]
    /\ UNCHANGED <<pc, marker, candidate, nodeVars, latchVars, passVars>>

-----------------------------------------------------------------------------
(* check_file_completion, the extraction_complete branch.                  *)

FlushDrained(k) ==
    /\ pc[k] = "flush"
    /\ Suspend(k, "latch")
    /\ UNCHANGED <<brokerVars, nodeVars, latchVars, passVars, boundVars>>

FlushIncomplete(k) ==
    /\ pc[k] = "flush"
    /\ Fault
    /\ Suspend(k, "requeue")
    /\ UNCHANGED <<brokerVars, nodeVars, latchVars, passVars>>

\* Faulty variant of AcquireLatch: no lock is taken.
AcquireWithoutLock(k) ==
    /\ pc[k] = "latch"
    /\ \/ /\ extraction_complete_version # VersionOf(k)
          /\ Suspend(k, "load")
       \/ /\ extraction_complete_version = VersionOf(k)
          /\ Goto(k, "persist")
          /\ candidate' = [candidate EXCEPT ![k] = extraction_complete_signals \cup {TypeOf(k)}]
          /\ UNCHANGED <<marker, live>>
    /\ UNCHANGED <<brokerVars, nodeVars, latchVars, passVars, boundVars>>

\* Faulty variant of AcquireLatch: a cache of another version answers too.
AcquireAnyCache(k) ==
    /\ pc[k] = "latch"
    /\ extraction_latch_lock = None
    /\ extraction_latch_lock' = k
    /\ \/ /\ extraction_complete_version = None
          /\ Suspend(k, "load")
       \/ /\ extraction_complete_version # None
          /\ Goto(k, "persist")
          /\ candidate' = [candidate EXCEPT ![k] = extraction_complete_signals \cup {TypeOf(k)}]
          /\ UNCHANGED <<marker, live>>
    /\ UNCHANGED <<brokerVars, nodeVars, extraction_complete_version,
                   extraction_complete_signals, passVars, boundVars>>

\* _record_extraction_signal: take the lock; the cache answers for its own
\* version, Neo4j for any other.
AcquireLatch(k) ==
    /\ pc[k] = "latch"
    /\ extraction_latch_lock = None
    /\ extraction_latch_lock' = k
    /\ \/ /\ extraction_complete_version # VersionOf(k)
          /\ Suspend(k, "load")
       \/ /\ extraction_complete_version = VersionOf(k)
          /\ Goto(k, "persist")
          /\ candidate' = [candidate EXCEPT ![k] = extraction_complete_signals \cup {TypeOf(k)}]
          /\ UNCHANGED <<marker, live>>
    /\ UNCHANGED <<brokerVars, nodeVars, extraction_complete_version,
                   extraction_complete_signals, passVars, boundVars>>

\* Faulty variant of _load_extraction_signals: a restart begins with an empty latch.
load_nothing(k) ==
    /\ pc[k] = "load"
    /\ Goto(k, "persist")
    /\ candidate' = [candidate EXCEPT ![k] = {TypeOf(k)}]
    /\ UNCHANGED <<marker, live, brokerVars, nodeVars, latchVars, passVars, boundVars>>

_load_extraction_signals(k) ==
    /\ pc[k] = "load"
    /\ Goto(k, "persist")
    /\ candidate' = [candidate EXCEPT ![k] = signals[VersionOf(k)] \cup {TypeOf(k)}]
    /\ UNCHANGED <<marker, live, brokerVars, nodeVars, latchVars, passVars, boundVars>>

\* The server commits: MERGE by version, union into the stored signals.
_persist_extraction_signals(k) ==
    LET v == VersionOf(k) IN
    /\ pc[k] = "persist"
    /\ signals' = [signals EXCEPT ![v] = @ \cup candidate[k]]
    /\ latest' = IF signals[v] = {} THEN v ELSE latest
    /\ Suspend(k, "committed")
    /\ UNCHANGED <<maintained, failed, brokerVars, latchVars, passVars, boundVars>>

\* The answer arrives: publish the candidate, release the lock, return a copy.
PublishCache(k) ==
    /\ pc[k] = "committed"
    /\ extraction_complete_signals' = candidate[k]
    /\ extraction_complete_version' = VersionOf(k)
    /\ ReleaseLock
    /\ Suspend(k, IF candidate[k] = DATA_TYPES THEN "state" ELSE "ack")
    /\ UNCHANGED <<brokerVars, nodeVars, passVars, boundVars>>

\* Faulty variant of LatchWriteFailed: the marker is acked although its signal was not stored.
AckAfterFailedWrite(k) ==
    /\ pc[k] \in {"load", "persist", "committed"}
    /\ Fault
    /\ ReleaseLock
    /\ Suspend(k, "ack")
    /\ UNCHANGED <<brokerVars, nodeVars, extraction_complete_version,
                   extraction_complete_signals, passVars>>

\* Faulty variant of LatchWriteFailed: the lock is not released.
FailureKeepsLock(k) ==
    /\ pc[k] \in {"load", "persist", "committed"}
    /\ Fault
    /\ UNCHANGED extraction_latch_lock
    /\ Suspend(k, "requeue")
    /\ UNCHANGED <<brokerVars, nodeVars, extraction_complete_version,
                   extraction_complete_signals, passVars>>

\* Faulty variant of LatchWriteFailed: the cache was changed before the write.
FailureKeepsCandidate(k) ==
    /\ pc[k] \in {"load", "persist", "committed"}
    /\ Fault
    /\ ReleaseLock
    /\ Suspend(k, "requeue")
    /\ extraction_complete_signals' = candidate[k]
    /\ extraction_complete_version' = VersionOf(k)
    /\ UNCHANGED <<brokerVars, nodeVars, passVars>>

\* A Neo4j error inside the lock, before the commit or after it with the answer
\* lost, leaves the cache alone and requeues the marker.
LatchWriteFailed(k) ==
    /\ pc[k] \in {"load", "persist", "committed"}
    /\ Fault
    /\ ReleaseLock
    /\ Suspend(k, "requeue")
    /\ UNCHANGED <<brokerVars, nodeVars, extraction_complete_version,
                   extraction_complete_signals, passVars>>

_is_extraction_maintained(k) ==
    /\ pc[k] = "state"
    /\ Suspend(k, IF maintained[VersionOf(k)] THEN "ack" ELSE "trigger")
    /\ UNCHANGED <<brokerVars, nodeVars, latchVars, passVars, boundVars>>

MaintenanceStateUnreadable(k) ==
    /\ pc[k] = "state"
    /\ Fault
    /\ Suspend(k, "requeue")
    /\ UNCHANGED <<brokerVars, nodeVars, latchVars, passVars>>

\* message.ack(); the trigger's handler goes on to start maintenance.  On a
\* closed channel the ack raises, and so does the handler's own requeue.
Ack(k) ==
    /\ pc[k] \in {"ack", "trigger"}
    /\ broker' = IF live[k] THEN [broker EXCEPT ![marker[k]] = "acked"] ELSE broker
    /\ IF live[k] /\ pc[k] = "trigger"
       THEN Goto(k, "start") /\ live' = [live EXCEPT ![k] = FALSE] /\ UNCHANGED <<marker, candidate>>
       ELSE Return(k)
    /\ UNCHANGED <<handouts, nodeVars, latchVars, passVars, boundVars>>

\* The connection drops with the ack frame under way: the handler believes it
\* acked, the broker redelivers.
AckLost(k) ==
    /\ pc[k] \in {"ack", "trigger"}
    /\ live[k]
    /\ Loss
    /\ ReturnUnacked
    /\ live' = [j \in Tasks |-> FALSE]
    /\ Goto(k, IF pc[k] = "trigger" THEN "start" ELSE "idle")
    /\ marker' = IF pc[k] = "trigger" THEN marker ELSE [marker EXCEPT ![k] = None]
    /\ candidate' = IF pc[k] = "trigger" THEN candidate ELSE [candidate EXCEPT ![k] = {}]
    /\ UNCHANGED <<nodeVars, latchVars, passVars>>

StartMaintenance(k) ==
    /\ pc[k] = "start"
    /\ start_post_import_maintenance(VersionOf(k))
    /\ Return(k)
    /\ UNCHANGED <<brokerVars, nodeVars, latchVars, boot, resumed, alarmed, boundVars>>

\* requeue_marker: nack, to the dead-letter queue once the budget is spent.
requeue_marker(k) ==
    LET m == marker[k] IN
    /\ pc[k] = "requeue"
    /\ \/ ~live[k] /\ UNCHANGED brokerVars
       \/ /\ live[k]
          /\ handouts[m] >= MARKER_MAX_REQUEUES
          /\ broker' = [broker EXCEPT ![m] = "dead"]
          /\ UNCHANGED handouts
       \/ /\ live[k]
          /\ handouts[m] < MARKER_MAX_REQUEUES
          /\ broker' = [broker EXCEPT ![m] = "ready"]
          /\ handouts' = [handouts EXCEPT ![m] = @ + 1]
    /\ Return(k)
    /\ UNCHANGED <<nodeVars, latchVars, passVars, boundVars>>

-----------------------------------------------------------------------------
(* The pass in the slot: it stamps, records its failure, or is lost.       *)

_stamp_maintenance_success ==
    /\ pass # None
    /\ extraction_latch_lock = None
    /\ maintained' = [maintained EXCEPT ![pass] = TRUE]
    /\ failed' = [failed EXCEPT ![pass] = FALSE]
    /\ pass' = None
    /\ UNCHANGED <<signals, latest, brokerVars, taskVars, latchVars, boot,
                   resumed, alarmed, boundVars>>

\* Faulty variant of _record_maintenance_failure: without WHERE m.maintained_at IS NULL.
RecordFailureAnyway ==
    /\ pass # None
    /\ extraction_latch_lock = None
    /\ Fault
    /\ failed' = [failed EXCEPT ![pass] = TRUE]
    /\ pass' = None
    /\ UNCHANGED <<signals, latest, maintained, brokerVars, taskVars, latchVars,
                   boot, resumed, alarmed>>

\* WHERE m.maintained_at IS NULL
_record_maintenance_failure ==
    /\ pass # None
    /\ extraction_latch_lock = None
    /\ Fault
    /\ failed' = [failed EXCEPT ![pass] = @ \/ ~maintained[pass]]
    /\ pass' = None
    /\ UNCHANGED <<signals, latest, maintained, brokerVars, taskVars, latchVars,
                   boot, resumed, alarmed>>

FailureNotRecorded ==
    /\ pass # None
    /\ Fault
    /\ pass' = None
    /\ alarmed' = TRUE
    /\ UNCHANGED <<brokerVars, nodeVars, taskVars, latchVars, boot, resumed>>

-----------------------------------------------------------------------------
(* The process: crash, restart and resume_pending_maintenance.             *)

Crash ==
    /\ Up
    /\ Loss
    /\ ReturnUnacked
    /\ pc' = [k \in Tasks |-> "idle"]
    /\ marker' = [k \in Tasks |-> None]
    /\ live' = [k \in Tasks |-> FALSE]
    /\ candidate' = [k \in Tasks |-> {}]
    /\ ReleaseLock
    /\ extraction_complete_version' = None
    /\ extraction_complete_signals' = {}
    /\ pass' = None
    /\ boot' = "down"
    /\ resumed' = None
    /\ alarmed' = FALSE
    /\ UNCHANGED nodeVars

\* main(): the consumers are running before the resume reads anything.
Restart ==
    /\ boot = "down"
    /\ boot' = "latest"
    /\ UNCHANGED <<pass, resumed, alarmed, brokerVars, nodeVars, taskVars,
                   latchVars, boundVars>>

_latest_extraction_version ==
    /\ boot = "latest"
    /\ resumed' = latest
    /\ boot' = IF latest = None THEN "running" ELSE "check"
    /\ UNCHANGED <<pass, alarmed, brokerVars, nodeVars, taskVars, latchVars, boundVars>>

\* Faulty variant of resume_pending_maintenance: leaves it to the next signal or an operator.
ResumeNothing ==
    /\ boot = "check"
    /\ boot' = "running"
    /\ resumed' = None
    /\ UNCHANGED <<pass, alarmed, brokerVars, nodeVars, taskVars, latchVars, boundVars>>

\* Faulty variant of resume_pending_maintenance: does not look at the signals.
ResumeIncomplete ==
    /\ boot = "check"
    /\ IF ~maintained[resumed]
       THEN start_post_import_maintenance(resumed) ELSE UNCHANGED pass
    /\ boot' = "running"
    /\ resumed' = None
    /\ UNCHANGED <<alarmed, brokerVars, nodeVars, taskVars, latchVars, boundVars>>

resume_pending_maintenance ==
    /\ boot = "check"
    /\ IF Complete(resumed) /\ ~maintained[resumed]
       THEN start_post_import_maintenance(resumed) ELSE UNCHANGED pass
    /\ boot' = "running"
    /\ resumed' = None
    /\ UNCHANGED <<alarmed, brokerVars, nodeVars, taskVars, latchVars, boundVars>>

\* "Could not check for interrupted post-import maintenance": logged, not retried.
ResumeUnreadable ==
    /\ boot \in {"latest", "check"}
    /\ Fault
    /\ boot' = "running"
    /\ resumed' = None
    /\ alarmed' = TRUE
    /\ UNCHANGED <<pass, brokerVars, nodeVars, taskVars, latchVars>>

-----------------------------------------------------------------------------
HandlerStep(k) ==
    \/ FlushDrained(k) \/ FlushIncomplete(k)
    \/ AcquireLatch(k) \/ _load_extraction_signals(k)
    \/ _persist_extraction_signals(k) \/ PublishCache(k) \/ LatchWriteFailed(k)
    \/ _is_extraction_maintained(k) \/ MaintenanceStateUnreadable(k)
    \/ Ack(k) \/ AckLost(k) \/ StartMaintenance(k) \/ requeue_marker(k)

PassStep == _stamp_maintenance_success \/ _record_maintenance_failure \/ FailureNotRecorded

BootStep == Restart \/ _latest_extraction_version \/ resume_pending_maintenance
            \/ ResumeUnreadable

Next ==
    \/ \E m \in Markers, k \in Tasks : Deliver(m, k)
    \/ \E k \in Tasks : HandlerStep(k)
    \/ PassStep
    \/ BootStep
    \/ ConnectionLoss
    \/ Crash

Spec == Init /\ [][Next]_vars

(***************************************************************************)
(* Fairness.  The event loop runs every task whose await has completed     *)
(* (weak fairness), asyncio.Lock queues its waiters first come first       *)
(* served, so a waiter is passed over finitely often (strong fairness of   *)
(* taking the lock), RabbitMQ delivers a ready message to a subscribed     *)
(* consumer with a free prefetch slot, and a supervisor restarts the       *)
(* service.                                                                *)
(***************************************************************************)
Fairness ==
    /\ \A k \in Tasks : WF_vars(HandlerStep(k)) /\ SF_vars(AcquireLatch(k))
    /\ \A m \in Markers : SF_vars(\E k \in Tasks : Deliver(m, k))
    /\ SF_vars(PassStep)
    /\ WF_vars(BootStep)

FairSpec == Spec /\ Fairness

-----------------------------------------------------------------------------
(* Properties.                                                             *)

MarkersOf(v) == {v} \X DATA_TYPES
Settled(v) == \A m \in MarkersOf(v) : broker[m] = "acked"

\* check_file_completion acks only after _record_extraction_signal returned: a
\* marker that left its queue is on the version's node, whatever failed, crashed
\* or was redelivered in between.
AckedSignalIsDurable ==
    \A m \in Markers : broker[m] = "acked" => m[2] \in signals[m[1]]

\* The cache is published only after the commit, for the version it belongs to:
\* it never holds a signal the node lacks, so signals of two imports cannot
\* satisfy one another.
CacheNeverAheadOfNode ==
    extraction_complete_version # None =>
        extraction_complete_signals \subseteq signals[extraction_complete_version]

\* The node keys its signals by version and the latch reloads them when the version
\* changes: a type counts as signalled only once that dump's own marker was received,
\* also when the markers of two dumps alternate or are redelivered.
Received(m) == broker[m] # "unsent" /\ (broker[m] = "ready" => handouts[m] > 0)
SignalsStayWithTheirDump == \A m \in Markers : m[2] \in signals[m[1]] => Received(m)

\* "Running once, after all four signals": a pass occupies the slot, and a
\* version is stamped or marked failed, only with every signal on the node.
MaintenanceOnlyAfterAllSignals ==
    /\ pass # None => Complete(pass)
    /\ \A v \in Versions : maintained[v] \/ failed[v] => Complete(v)

\* "A stamped node is not modified by later failures": whichever order the
\* passes of a redelivered trigger end in, a failure never shows next to a stamp.
FailureNeverBesideStamp == \A v \in Versions : ~(maintained[v] /\ failed[v])

\* Somebody still owes a fully acknowledged dump its maintenance: a pass, a
\* handler about to start one, the resume of this start or of the next.
OwedMaintenance(v) ==
    \/ pass = v
    \/ boot \in {"down", "latest"} /\ latest = v
    \/ boot = "check" /\ resumed = v
    \/ \E k \in Tasks : pc[k] = "start" /\ VersionOf(k) = v

\* The trigger is acked before the pass runs and cannot be replayed; crashes,
\* lost answers and redeliveries still leave nobody's dump unmaintained without
\* an outcome on the node or an error in the log.
CompletedDumpHasOwner ==
    \A v \in Versions :
        Settled(v) => maintained[v] \/ failed[v] \/ alarmed \/ OwedMaintenance(v)

\* What makes the safety properties inductive: who holds the lock, and what a
\* handler already knows to be on the node at each of its awaits.
HoldsLatch(k) == pc[k] \in {"load", "persist", "committed"}
OnNode(k) == TypeOf(k) \in signals[VersionOf(k)]

LatchInv ==
    /\ \A k \in Tasks : HoldsLatch(k) <=> extraction_latch_lock = k
    /\ \A k \in Tasks : live[k] => pc[k] # "idle" /\ broker[marker[k]] = "out"
    /\ \A j, k \in Tasks : live[j] /\ live[k] /\ marker[j] = marker[k] => j = k
    /\ \A k \in Tasks :
          /\ pc[k] \in {"persist", "committed"} => TypeOf(k) \in candidate[k]
          /\ pc[k] = "persist" => candidate[k] \subseteq signals[VersionOf(k)] \cup {TypeOf(k)}
          /\ pc[k] = "committed" => candidate[k] \subseteq signals[VersionOf(k)]
          /\ pc[k] \in {"ack", "state", "trigger", "start"} => OnNode(k)
          /\ pc[k] \in {"state", "trigger", "start"} => Complete(VersionOf(k))
    /\ boot = "check" => resumed \in Versions
    /\ boot # "check" => resumed = None
    /\ CacheNeverAheadOfNode
    /\ AckedSignalIsDurable
    /\ MaintenanceOnlyAfterAllSignals

\* The signals of v that were acked, or whose handler is past the latch with the ack to come.
Passed(v) ==
    {t \in DATA_TYPES :
        \/ broker[<<v, t>>] = "acked"
        \/ \E k \in Tasks : pc[k] \in {"state", "ack", "trigger"} /\ marker[k] = <<v, t>>}

\* The cache, and the candidate of the lock's holder, know every signal that passed the
\* latch: the handler of the last one cannot take its dump for incomplete.
NoneForgotten ==
    /\ extraction_complete_version # None =>
           Passed(extraction_complete_version) \subseteq extraction_complete_signals
    /\ \A k \in Tasks : pc[k] \in {"persist", "committed"} => Passed(VersionOf(k)) \subseteq candidate[k]

\* The inductive invariant as a whole: well typed, _record_extraction_signal has one holder,
\* every handler has what it knows on the node, and no signal that passed is forgotten.
Inv == TypeOK /\ LatchInv /\ NoneForgotten

\* Dumps do not overlap: while a complete dump waits for its outcome no newer one has a
\* node, and the slot has no other dump's pass.  The code cannot enforce it; the markers of
\* the next dump arrive when the extractor publishes them.
DumpsApart ==
    \A v \in Versions :
        Complete(v) /\ ~maintained[v] /\ ~failed[v] /\ ~alarmed => latest = v /\ pass \in {None, v}

\* What makes CompletedDumpHasOwner inductive: an ack in sight counts as one, because the
\* handler that is about to make it will not start the pass.
AcksInSight(v) ==
    \A t \in DATA_TYPES :
        \/ broker[<<v, t>>] = "acked"
        \/ \E k \in Tasks : live[k] /\ pc[k] = "ack" /\ marker[k] = <<v, t>>
OwnerInSight ==
    \A v \in Versions :
        AcksInSight(v) => maintained[v] \/ failed[v] \/ alarmed \/ OwedMaintenance(v)

\* Once the markers of a dump are published, its maintenance ends with an
\* outcome, unless a marker ran out of requeues or an error log told an operator.
DumpGetsItsMaintenance ==
    \A v \in Versions :
        (\A m \in MarkersOf(v) : broker[m] # "unsent")
            ~> (\/ maintained[v] \/ failed[v] \/ alarmed
                \/ \E m \in MarkersOf(v) : broker[m] = "dead")

\* The latch implements what the completion gate promises.
Gate == INSTANCE CompletionGate WITH
    recorded <- signals,
    settled <- {m \in Markers : broker[m] = "acked"},
    running <- pass,
    final <- {v \in Versions : maintained[v]}

ImplementsGate == Gate!Spec
=============================================================================
