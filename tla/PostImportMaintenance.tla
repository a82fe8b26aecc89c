----------------------- MODULE PostImportMaintenance -----------------------
(***************************************************************************)
(* The detached maintenance of graphinator.py.  A pass, started by the     *)
(* last completion signal of a dump or by the resume at start-up, drains   *)
(* the batch queues and runs every step, up to                             *)
(* POST_IMPORT_MAINTENANCE_MAX_ATTEMPTS times, and stamps the dump's node; *)
(* a stats refresh re-runs two of the sweeps on a stamped dump whose stats *)
(* older code wrote.  Both persist finished sweeps in checkpoints keyed by *)
(* maintenance_run_key, while the next dump's records may arrive.          *)
(*                                                                         *)
(* Who may start a pass is ExtractionLatch's subject and how a sweep pages *)
(* is CheckpointedSweep's: a dump's signals are its `dump` state here, and *)
(* a sweep is one step that succeeds, or fails with its checkpoint behind. *)
(***************************************************************************)
EXTENDS Naturals

CONSTANTS
    NumVersions,                            \* dumps, numbered in created_at order
    MaxStats,                               \* bound: code releases that bump STATS_VERSION
    POST_IMPORT_MAINTENANCE_MAX_ATTEMPTS,
    MaxFaults       \* bound: failing drains, steps and writes, crashes and shutdowns

ASSUME MaintenanceAssumption ==
    /\ NumVersions \in Nat /\ MaxFaults \in Nat
    /\ MaxStats \in Nat \ {0}
    /\ POST_IMPORT_MAINTENANCE_MAX_ATTEMPTS \in Nat \ {0}

Versions == 1..NumVersions
NoDump == 0         \* an empty task slot, a checkpoint of no run

\* The steps in the order a pass runs them.  genre_style_label_stats is its three
\* sweeps: a failing one does not skip the next, like the steps themselves.
StubCleanup == 1
SentinelMasterCleanup == 2
GenreStats == 3
StyleStats == 4
LabelStats == 5
ArtistStats == 6
PersonCreditCounts == 7
Steps == StubCleanup..PersonCreditCounts
Checkpointed == GenreStats..PersonCreditCounts
RefreshSweeps == {LabelStats, ArtistStats}

Drain == 0
AllRun == PersonCreditCounts + 1
RefreshDone == ArtistStats + 1

VARIABLES
    \* Neo4j
    dump,           \* how far each version is: records, first signal, last signal
    maintained,     \* maintained_at IS NOT NULL
    failed,         \* maintenance_status = 'failed'
    stats_version,  \* 0 while absent
    checkpoint,     \* per sweep: the run key it belongs to and whether it is done
    \* what the graph's derived properties are worth (no code reads these)
    swept,          \* the run key each step last completed under
    fresh,          \* steps that completed since the last record was written
    quiet,          \* no record arrived since the newest dump's last signal
    \* the broker and the process
    returned,       \* deliveries a crash returned to the broker
    pending,        \* the batch queues hold accepted records
    STATS_VERSION,  \* of the running code
    boot,
    \* post_import_maintenance_task
    pass, attempt, step, ok,
    \* stats_refresh_task
    refresh, refreshAttempt, refreshStep, refreshOk,
    arrived,        \* message_counts moved since the refresh started
    \* bound
    faults

nodeVars == <<dump, maintained, failed, stats_version>>
sweepVars == <<checkpoint, swept, fresh>>
recordVars == <<quiet, returned, pending, arrived>>
passVars == <<pass, attempt, step, ok>>
refreshVars == <<refresh, refreshAttempt, refreshStep, refreshOk>>
bootVars == <<STATS_VERSION, boot>>
boundVars == <<faults>>
vars == <<nodeVars, sweepVars, recordVars, passVars, refreshVars, bootVars, boundVars>>

StatsVersions == 0..MaxStats
RunKeys == [version : Versions \cup {NoDump}, stats : StatsVersions]
Attempts == 1..POST_IMPORT_MAINTENANCE_MAX_ATTEMPTS

TypeOK ==
    /\ dump \in [Versions -> {"none", "importing", "partial", "complete"}]
    /\ maintained \in [Versions -> BOOLEAN]
    /\ failed \in [Versions -> BOOLEAN]
    /\ stats_version \in [Versions -> StatsVersions]
    /\ checkpoint \in [Checkpointed -> [key : RunKeys, done : BOOLEAN]]
    /\ swept \in [Steps -> RunKeys]
    /\ fresh \in SUBSET Steps
    /\ quiet \in BOOLEAN /\ returned \in BOOLEAN /\ pending \in BOOLEAN
    /\ arrived \in BOOLEAN
    /\ STATS_VERSION \in 1..MaxStats
    /\ boot \in {"down", "resume", "refresh", "running"}
    /\ pass \in Versions \cup {NoDump} /\ refresh \in Versions \cup {NoDump}
    /\ attempt \in Attempts /\ refreshAttempt \in Attempts
    /\ step \in Drain..AllRun
    /\ refreshStep \in LabelStats..RefreshDone
    /\ ok \in BOOLEAN /\ refreshOk \in BOOLEAN
    /\ faults \in 0..MaxFaults

Up == boot # "down"
HasNode(v) == dump[v] \in {"partial", "complete"}
_latest_extraction_version(v) == HasNode(v) /\ \A w \in Versions : HasNode(w) => w <= v
\* Faulty variant of maintenance_run_key: the stats version is left out.
run_key_without_stats(v) == [version |-> v, stats |-> 1]

maintenance_run_key(v) == [version |-> v, stats |-> STATS_VERSION]
\* Faulty variant of AlreadyDone: a done checkpoint of any run counts.
DoneForAnyRun(s, v) == checkpoint[s].done

AlreadyDone(s, v) == checkpoint[s] = [key |-> maintenance_run_key(v), done |-> TRUE]

Fault == faults < MaxFaults /\ faults' = faults + 1

-----------------------------------------------------------------------------
(* State changes shared by several actions.                                *)

IdlePass == pass' = NoDump /\ attempt' = 1 /\ step' = Drain /\ ok' = TRUE
IdleRefresh ==
    refresh' = NoDump /\ refreshAttempt' = 1 /\ refreshStep' = LabelStats /\ refreshOk' = TRUE

\* A trigger that finds a pass running is ignored; otherwise it cancels a refresh.
start_post_import_maintenance(v) ==
    IF pass # NoDump THEN UNCHANGED <<passVars, refreshVars>>
    ELSE /\ pass' = v /\ attempt' = 1 /\ step' = Drain /\ ok' = TRUE
         /\ IdleRefresh

\* Step s has run to its end over the graph as it is now.
Complete(s, v) ==
    /\ swept' = [swept EXCEPT ![s] = maintenance_run_key(v)]
    /\ fresh' = fresh \cup {s}
    /\ checkpoint' = IF s \in Checkpointed
           THEN [checkpoint EXCEPT ![s] = [key |-> maintenance_run_key(v), done |-> TRUE]]
           ELSE checkpoint

\* A sweep of v commits its first page: the checkpoint now belongs to v's run.
CommitPage(s, v) ==
    /\ s \in Checkpointed
    /\ checkpoint[s].key # maintenance_run_key(v)
    /\ checkpoint' = [checkpoint EXCEPT ![s] = [key |-> maintenance_run_key(v), done |-> FALSE]]
    /\ UNCHANGED <<swept, fresh>>

-----------------------------------------------------------------------------
Init ==
    /\ dump = [v \in Versions |-> "none"]
    /\ maintained = [v \in Versions |-> FALSE]
    /\ failed = [v \in Versions |-> FALSE]
    /\ stats_version = [v \in Versions |-> 0]
    /\ checkpoint = [s \in Checkpointed |-> [key |-> [version |-> NoDump, stats |-> 0], done |-> FALSE]]
    /\ swept = [s \in Steps |-> [version |-> NoDump, stats |-> 0]]
    /\ fresh = {}
    /\ quiet = FALSE /\ returned = FALSE /\ pending = FALSE /\ arrived = FALSE
    /\ STATS_VERSION = 1
    /\ boot = "resume"
    /\ pass = NoDump /\ attempt = 1 /\ step = Drain /\ ok = TRUE
    /\ refresh = NoDump /\ refreshAttempt = 1 /\ refreshStep = LabelStats /\ refreshOk = TRUE
    /\ faults = 0

-----------------------------------------------------------------------------
(* The dumps: records, and the signals that move a version's latch.        *)

\* A record enters the batch queues: of a dump still importing, or one a crash returned.
\* Every type has a queue of its own, so two dumps may be importing at once.
RecordArrives(v) ==
    /\ Up
    /\ \/ /\ dump[v] # "complete" /\ (v > 1 => dump[v - 1] # "none")
          /\ dump' = [dump EXCEPT ![v] = IF @ = "none" THEN "importing" ELSE @]
          /\ UNCHANGED returned
       \/ /\ returned /\ returned' = FALSE
          /\ UNCHANGED dump
    /\ pending' = TRUE /\ arrived' = TRUE /\ quiet' = FALSE
    /\ UNCHANGED <<maintained, failed, stats_version, sweepVars, passVars, refreshVars, bootVars, boundVars>>

\* The batch processor's periodic flush writes what is pending.
PeriodicFlush ==
    /\ Up /\ pending
    /\ pending' = FALSE /\ fresh' = {}
    /\ UNCHANGED <<nodeVars, checkpoint, swept, quiet, returned, arrived,
                   passVars, refreshVars, bootVars, boundVars>>

\* The first of v's extraction_complete signals is persisted: its node exists.
FirstSignal(v) ==
    /\ Up /\ dump[v] = "importing"
    /\ dump' = [dump EXCEPT ![v] = "partial"]
    /\ UNCHANGED <<maintained, failed, stats_version, sweepVars, recordVars,
                   passVars, refreshVars, bootVars, boundVars>>

\* The signal that completes v.  A batch that failed transiently can still be pending:
\* flush_queue saw its queue empty before the batch was put back.
LastSignal(v) ==
    /\ Up /\ dump[v] = "partial"
    /\ dump' = [dump EXCEPT ![v] = "complete"]
    /\ quiet' = (\A w \in Versions : w > v => dump[w] = "none")
    /\ start_post_import_maintenance(v)
    /\ UNCHANGED <<maintained, failed, stats_version, sweepVars, returned, pending, arrived,
                   bootVars, boundVars>>

\* A completion signal is handled again, on a version complete and not yet maintained.
RedeliveredTrigger(v) ==
    /\ Up /\ dump[v] = "complete" /\ ~maintained[v]
    /\ start_post_import_maintenance(v)
    /\ UNCHANGED <<nodeVars, sweepVars, recordVars, bootVars, boundVars>>

-----------------------------------------------------------------------------
(* _run_post_import_maintenance_attempts for version `pass`.               *)

PassRuns == pass # NoDump

\* flush_all returned True: nothing it knew of is pending any more.
DrainSucceeds ==
    /\ PassRuns /\ step = Drain
    /\ pending' = FALSE
    /\ fresh' = IF pending THEN {} ELSE fresh
    /\ step' = StubCleanup
    /\ UNCHANGED <<nodeVars, checkpoint, swept, quiet, returned, arrived,
                   pass, attempt, ok, refreshVars, bootVars, boundVars>>

\* Faulty variant of DrainFails: the steps run all the same.
DrainFailureIgnored ==
    /\ PassRuns /\ step = Drain
    /\ Fault
    /\ step' = StubCleanup
    /\ UNCHANGED <<nodeVars, sweepVars, recordVars, pass, attempt, ok, refreshVars, bootVars>>

\* flush_all returned False: this attempt runs no step at all.
DrainFails ==
    /\ PassRuns /\ step = Drain
    /\ Fault
    /\ ok' = FALSE /\ step' = AllRun
    /\ UNCHANGED <<nodeVars, sweepVars, recordVars, pass, attempt, refreshVars, bootVars>>

StepSkipped ==
    /\ PassRuns /\ step \in Checkpointed /\ AlreadyDone(step, pass)
    /\ step' = step + 1
    /\ UNCHANGED <<nodeVars, sweepVars, recordVars, pass, attempt, ok, refreshVars, bootVars, boundVars>>

StepNeeded == PassRuns /\ step \in Steps /\ ~(step \in Checkpointed /\ AlreadyDone(step, pass))

StepPages ==
    /\ StepNeeded
    /\ CommitPage(step, pass)
    /\ UNCHANGED <<nodeVars, recordVars, passVars, refreshVars, bootVars, boundVars>>

StepCompletes ==
    /\ StepNeeded
    /\ Complete(step, pass)
    /\ step' = step + 1
    /\ UNCHANGED <<nodeVars, recordVars, pass, attempt, ok, refreshVars, bootVars, boundVars>>

\* Faulty variant of StepFails: the failure is swallowed.
StepFailureSwallowed ==
    /\ StepNeeded
    /\ Fault
    /\ step' = step + 1
    /\ UNCHANGED <<nodeVars, sweepVars, recordVars, pass, attempt, ok, refreshVars, bootVars>>

\* The steps are independent: one that fails does not skip the rest.
StepFails ==
    /\ StepNeeded
    /\ Fault
    /\ ok' = FALSE /\ step' = step + 1
    /\ UNCHANGED <<nodeVars, sweepVars, recordVars, pass, attempt, refreshVars, bootVars>>

\* What _stamp_maintenance_success writes on v's node.
Stamp(v) ==
    /\ maintained' = [maintained EXCEPT ![v] = TRUE]
    /\ failed' = [failed EXCEPT ![v] = FALSE]
    /\ stats_version' = [stats_version EXCEPT ![v] = STATS_VERSION]
    /\ UNCHANGED dump

_stamp_maintenance_success ==
    /\ PassRuns /\ step = AllRun /\ ok
    /\ Stamp(pass)
    /\ IdlePass
    /\ UNCHANGED <<sweepVars, recordVars, refreshVars, bootVars, boundVars>>

\* A stamp that raises, committed or not, fails the attempt.
StampFails ==
    /\ PassRuns /\ step = AllRun /\ ok
    /\ Fault
    /\ Stamp(pass) \/ UNCHANGED nodeVars
    /\ ok' = FALSE
    /\ UNCHANGED <<sweepVars, recordVars, pass, attempt, step, refreshVars, bootVars>>

Retry ==
    /\ PassRuns /\ step = AllRun /\ ~ok
    /\ attempt < POST_IMPORT_MAINTENANCE_MAX_ATTEMPTS
    /\ attempt' = attempt + 1 /\ step' = Drain /\ ok' = TRUE
    /\ UNCHANGED <<nodeVars, sweepVars, recordVars, pass, refreshVars, bootVars, boundVars>>

\* Every attempt failed: recorded on a node not stamped, unless the write fails too.
_record_maintenance_failure ==
    /\ PassRuns /\ step = AllRun /\ ~ok
    /\ attempt = POST_IMPORT_MAINTENANCE_MAX_ATTEMPTS
    /\ \/ /\ failed' = [failed EXCEPT ![pass] = @ \/ ~maintained[pass]]
          /\ UNCHANGED boundVars
       \/ Fault /\ UNCHANGED failed
    /\ IdlePass
    /\ UNCHANGED <<dump, maintained, stats_version, sweepVars, recordVars, refreshVars, bootVars>>

-----------------------------------------------------------------------------
(* run_stats_refresh for version `refresh`.                                *)

RefreshRuns == refresh # NoDump
SweepNeeded == RefreshRuns /\ refreshStep \in RefreshSweeps /\ ~AlreadyDone(refreshStep, refresh)

\* A dump that has started to write: its messages, or its node.
Superseded == arrived \/ ~_latest_extraction_version(refresh)

\* The check before a page; the node is read only every STATS_REFRESH_VERSION_CHECK_SECONDS.
_stop_if_superseded ==
    /\ SweepNeeded /\ Superseded
    /\ IdleRefresh
    /\ UNCHANGED <<nodeVars, sweepVars, recordVars, passVars, bootVars, boundVars>>

SweepSkipped ==
    /\ RefreshRuns /\ refreshStep \in RefreshSweeps /\ AlreadyDone(refreshStep, refresh)
    /\ refreshStep' = refreshStep + 1
    /\ UNCHANGED <<nodeVars, sweepVars, recordVars, passVars, refresh, refreshAttempt, refreshOk,
                   bootVars, boundVars>>

SweepPages ==
    /\ SweepNeeded /\ ~arrived
    /\ CommitPage(refreshStep, refresh)
    /\ UNCHANGED <<nodeVars, recordVars, passVars, refreshVars, bootVars, boundVars>>

SweepCompletes ==
    /\ SweepNeeded /\ ~arrived
    /\ Complete(refreshStep, refresh)
    /\ refreshStep' = refreshStep + 1
    /\ UNCHANGED <<nodeVars, recordVars, passVars, refresh, refreshAttempt, refreshOk, bootVars, boundVars>>

SweepFails ==
    /\ SweepNeeded
    /\ Fault
    /\ refreshOk' = FALSE /\ refreshStep' = refreshStep + 1
    /\ UNCHANGED <<nodeVars, sweepVars, recordVars, passVars, refresh, refreshAttempt, bootVars>>

\* The version is stamped; a stamp that raises, committed or not, ends the refresh as well.
_stamp_stats_version ==
    /\ RefreshRuns /\ refreshStep = RefreshDone /\ refreshOk
    /\ \/ /\ stats_version' = [stats_version EXCEPT ![refresh] = STATS_VERSION]
          /\ (UNCHANGED boundVars \/ Fault)
       \/ Fault /\ UNCHANGED stats_version
    /\ IdleRefresh
    /\ UNCHANGED <<dump, maintained, failed, sweepVars, recordVars, passVars, bootVars>>

RefreshRetries ==
    /\ RefreshRuns /\ refreshStep = RefreshDone /\ ~refreshOk
    /\ IF refreshAttempt < POST_IMPORT_MAINTENANCE_MAX_ATTEMPTS
       THEN /\ refreshAttempt' = refreshAttempt + 1
            /\ refreshStep' = LabelStats /\ refreshOk' = TRUE
            /\ UNCHANGED refresh
       ELSE IdleRefresh
    /\ UNCHANGED <<nodeVars, sweepVars, recordVars, passVars, bootVars, boundVars>>

-----------------------------------------------------------------------------
(* Crash, restart and the two checks main() makes at start-up.             *)

\* Shutdown cancels both tasks like a crash; unacked records go back to the broker.
Crash ==
    /\ Up
    /\ Fault
    /\ boot' = "down"
    /\ returned' = (returned \/ pending) /\ pending' = FALSE
    /\ IdlePass /\ IdleRefresh
    /\ UNCHANGED <<nodeVars, sweepVars, quiet, arrived, STATS_VERSION>>

\* The same code starts again, or a release that bumped STATS_VERSION.
Restart ==
    /\ ~Up
    /\ boot' = "resume"
    /\ STATS_VERSION' \in {STATS_VERSION, STATS_VERSION + 1} \cap 1..MaxStats
    /\ UNCHANGED <<nodeVars, sweepVars, recordVars, passVars, refreshVars, boundVars>>

\* Only the newest version is resumed: complete, and without maintained_at.
Resumable(v) == _latest_extraction_version(v) /\ dump[v] = "complete" /\ ~maintained[v]

resume_pending_maintenance ==
    /\ boot = "resume"
    /\ \/ \E v \in Versions :
             /\ Resumable(v)
             /\ start_post_import_maintenance(v)
             /\ boot' = "running" /\ UNCHANGED boundVars
       \/ /\ \/ (\A v \in Versions : ~Resumable(v)) /\ UNCHANGED boundVars
             \/ Fault
          /\ boot' = "refresh"
          /\ UNCHANGED <<passVars, refreshVars>>
    /\ UNCHANGED <<nodeVars, sweepVars, recordVars, STATS_VERSION>>

\* A finished dump whose stats other code wrote.
_stats_refresh_version(v) ==
    /\ _latest_extraction_version(v) /\ dump[v] = "complete"
    /\ maintained[v] /\ stats_version[v] # STATS_VERSION

\* start_stats_refresh finds both slots free, or leaves the sweeps to the running task.
resume_stats_refresh ==
    /\ boot = "refresh"
    /\ boot' = "running"
    /\ \/ \E v \in Versions :
             /\ _stats_refresh_version(v) /\ ~PassRuns /\ ~RefreshRuns
             /\ refresh' = v /\ refreshAttempt' = 1 /\ refreshStep' = LabelStats /\ refreshOk' = TRUE
             /\ arrived' = FALSE /\ UNCHANGED boundVars
       \/ /\ \/ (PassRuns \/ RefreshRuns \/ \A v \in Versions : ~_stats_refresh_version(v)) /\ UNCHANGED boundVars
             \/ Fault
          /\ UNCHANGED <<refreshVars, arrived>>
    /\ UNCHANGED <<nodeVars, sweepVars, quiet, returned, pending, passVars, STATS_VERSION>>

-----------------------------------------------------------------------------
DumpStep ==
    \/ \E v \in Versions : RecordArrives(v) \/ FirstSignal(v) \/ LastSignal(v) \/ RedeliveredTrigger(v)
    \/ PeriodicFlush
PassStep ==
    \/ DrainSucceeds \/ DrainFails
    \/ StepSkipped \/ StepPages \/ StepCompletes \/ StepFails
    \/ _stamp_maintenance_success \/ StampFails \/ Retry \/ _record_maintenance_failure
RefreshTaskStep ==
    \/ _stop_if_superseded \/ SweepSkipped \/ SweepPages \/ SweepCompletes \/ SweepFails
    \/ _stamp_stats_version \/ RefreshRetries
BootStep == Crash \/ Restart \/ resume_pending_maintenance \/ resume_stats_refresh

Next == DumpStep \/ PassStep \/ RefreshTaskStep \/ BootStep

Spec == Init /\ [][Next]_vars

-----------------------------------------------------------------------------
(* Properties.                                                             *)

\* A pass and a refresh never sweep at the same time, whatever the order in which the
\* start-up checks, completion signals and redeliveries try to start them.
SingleFlight == ~(PassRuns /\ RefreshRuns)

\* A stats_version on a node is never newer than the code whose Label and Artist sweeps
\* last ran to their end: a step the previous release finished is not skipped and then
\* stamped as current, across crashes, upgrades and the two tasks sharing checkpoints.
StatsVersionHonest ==
    \A v \in Versions, s \in RefreshSweeps : stats_version[v] <= swept[s].stats

\* A dump becomes final only when each of the seven steps last ran to its end for that
\* dump under the running STATS_VERSION, be it in this attempt or, by its checkpoint, in
\* an earlier attempt or an earlier process.
StampedMeansSwept ==
    [][\A v \in Versions : ~maintained[v] /\ maintained'[v] =>
            \A s \in Steps : swept[s] = maintenance_run_key(v)]_vars

\* While no record arrives after a dump's last signal, the newest dump is stamped only
\* when every step ran after the last write: batches still pending when the signal was
\* acked are written before the first step, also when the drain fails first.
FinalWhenQuiet ==
    [][\A v \in Versions :
        ~maintained[v] /\ maintained'[v] /\ quiet /\ _latest_extraction_version(v) => fresh = Steps]_vars

-----------------------------------------------------------------------------
(* The inductive invariant behind them.                                    *)

\* A finished checkpoint names the run its sweep last completed under.
CheckpointHonest == \A s \in Checkpointed : checkpoint[s].done => swept[s] = checkpoint[s].key

\* The steps a task has behind it, when none failed, completed under its run key.
PassProgress ==
    PassRuns /\ ok => \A s \in Steps : s < step => swept[s] = maintenance_run_key(pass)
RefreshProgress ==
    RefreshRuns /\ refreshOk =>
        \A s \in RefreshSweeps : s < refreshStep => swept[s] = maintenance_run_key(refresh)

\* The facts that make StampedMeansSwept and StatsVersionHonest inductive, over every
\* interleaving of both tasks, crashes and upgrades.
MaintenanceInv ==
    /\ SingleFlight
    /\ ~Up => ~PassRuns /\ ~RefreshRuns
    /\ CheckpointHonest /\ PassProgress /\ RefreshProgress
    /\ StatsVersionHonest
    /\ \A s \in Steps : swept[s].stats <= STATS_VERSION

\* Both tasks, and every run key a checkpoint keeps, are of complete dumps; a refresh is
\* of one that is final.
TasksOnComplete ==
    /\ PassRuns => dump[pass] = "complete"
    /\ RefreshRuns => dump[refresh] = "complete" /\ maintained[refresh]
    /\ \A s \in Checkpointed :
           checkpoint[s].key.version # NoDump => dump[checkpoint[s].key.version] = "complete"

\* While the newest dump is quiet and not yet final, a checkpoint finished for it was
\* written after its last record, so skipping that sweep is safe ...
SkipsAreFresh ==
    \A s \in Checkpointed :
        LET v == checkpoint[s].key.version IN
        quiet /\ v # NoDump /\ _latest_extraction_version(v) /\ ~maintained[v] /\ checkpoint[s].done =>
            s \in fresh /\ ~pending

\* ... and the steps its pass has behind it ran with nothing left to write.
StepsAreFresh ==
    PassRuns /\ quiet /\ _latest_extraction_version(pass) =>
        /\ step \in Steps \/ (ok /\ step = AllRun) => ~pending
        /\ ok /\ ~maintained[pass] => \A s \in Steps : s < step => s \in fresh

\* The facts that make FinalWhenQuiet inductive.
QuietInv == TasksOnComplete /\ SkipsAreFresh /\ StepsAreFresh

\* The inductive invariant as a whole, of both detached tasks.
Inv == TypeOK /\ MaintenanceInv /\ QuietInv
=============================================================================
