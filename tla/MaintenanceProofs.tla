------------------------- MODULE MaintenanceProofs -------------------------
(***************************************************************************)
(* Theorems about PostImportMaintenance, for any number of dumps, releases *)
(* of the code, attempts and faults.  TypeOK and MaintenanceInv are        *)
(* inductive together, and QuietInv with TypeOK; the other properties      *)
(* follow from the three.                                                  *)
(***************************************************************************)
EXTENDS PostImportMaintenance, TLAPS

\* The step numbers, which the arithmetic below needs as one definition list.
LEMMA StepNumbers ==
    /\ Steps = 1..7 /\ Checkpointed = 3..7 /\ RefreshSweeps = {5, 6}
    /\ Drain = 0 /\ StubCleanup = 1 /\ LabelStats = 5 /\ AllRun = 8 /\ RefreshDone = 7
  BY DEF Steps, Checkpointed, RefreshSweeps, Drain, StubCleanup, SentinelMasterCleanup, GenreStats,
     StyleStats, LabelStats, ArtistStats, PersonCreditCounts, AllRun, RefreshDone

\* A run key names a version of the graph and the release of the sweeps' code.
LEMMA RunKeyType == ASSUME TypeOK, NEW v \in Versions
                    PROVE  maintenance_run_key(v) \in RunKeys
  BY MaintenanceAssumption DEF TypeOK, maintenance_run_key, RunKeys, StatsVersions

\* The first values of the counters and steps are in their ranges.
LEMMA Ranges ==
    /\ 1 \in Attempts /\ Drain \in Drain..AllRun /\ StubCleanup \in Drain..AllRun /\ AllRun \in Drain..AllRun
    /\ LabelStats \in LabelStats..RefreshDone /\ 0 \in 0..MaxFaults
    /\ 0 \in StatsVersions /\ 1..MaxStats \subseteq StatsVersions /\ 1 \in 1..MaxStats
    /\ Checkpointed \subseteq Steps /\ RefreshSweeps \subseteq Checkpointed
    /\ \A s \in Steps : s + 1 \in Drain..AllRun
    /\ \A s \in RefreshSweeps : s + 1 \in LabelStats..RefreshDone
    /\ \A n \in Attempts : n < POST_IMPORT_MAINTENANCE_MAX_ATTEMPTS => n + 1 \in Attempts
  BY StepNumbers, MaintenanceAssumption DEF Attempts, StatsVersions

\* The two task slots hold values of their types.
PassTyped == pass \in Versions \cup {NoDump} /\ attempt \in Attempts /\ step \in Drain..AllRun /\ ok \in BOOLEAN
RefreshTyped == /\ refresh \in Versions \cup {NoDump} /\ refreshAttempt \in Attempts
                /\ refreshStep \in LabelStats..RefreshDone /\ refreshOk \in BOOLEAN
BoundsTyped == faults \in 0..MaxFaults
SweepTyped == /\ checkpoint \in [Checkpointed -> [key : RunKeys, done : BOOLEAN]]
              /\ swept \in [Steps -> RunKeys] /\ fresh \in SUBSET Steps

\* An idle pass or refresh has its slot, attempt, step and outcome back at their start.
LEMMA IdleType == (IdlePass => PassTyped') /\ (IdleRefresh => RefreshTyped')
  BY Ranges DEF IdlePass, IdleRefresh, PassTyped, RefreshTyped

\* start_post_import_maintenance leaves both task slots well typed.
LEMMA StartType ==
  ASSUME TypeOK, NEW v \in Versions, start_post_import_maintenance(v)
  PROVE  PassTyped' /\ RefreshTyped'
  <1>1. CASE pass # NoDump
    BY <1>1 DEF start_post_import_maintenance, TypeOK, PassTyped, RefreshTyped, passVars, refreshVars
  <1>2. CASE pass = NoDump
    BY <1>2, IdleType, Ranges DEF start_post_import_maintenance, PassTyped
  <1> QED BY <1>1, <1>2

\* A sweep's own writes, completing or committing a page, keep the checkpoints well typed.
LEMMA SweepType ==
  ASSUME TypeOK, NEW v \in Versions, NEW s \in Steps, Complete(s, v) \/ CommitPage(s, v)
  PROVE  SweepTyped'
  <1>1. maintenance_run_key(v) \in RunKeys BY RunKeyType
  <1>2. CASE Complete(s, v) BY <1>1, <1>2 DEF Complete, TypeOK, SweepTyped
  <1>3. CASE CommitPage(s, v) BY <1>1, <1>3 DEF CommitPage, TypeOK, SweepTyped
  <1> QED BY <1>2, <1>3

\* A fault is counted up to its bound.
LEMMA FaultType == ASSUME TypeOK, Fault \/ UNCHANGED boundVars PROVE BoundsTyped'
  BY MaintenanceAssumption DEF TypeOK, Fault, boundVars, BoundsTyped

\* Initially nothing is imported, nothing runs and every checkpoint is of no run.
LEMMA InitTypeOK == Init => TypeOK
  <1>1. [version |-> NoDump, stats |-> 0] \in RunKeys BY Ranges DEF RunKeys
  <1>2. Init => PassTyped /\ RefreshTyped /\ BoundsTyped
    BY Ranges DEF Init, PassTyped, RefreshTyped, BoundsTyped
  <1>3. Init => SweepTyped BY <1>1 DEF Init, SweepTyped
  <1> QED BY <1>2, <1>3, Ranges DEF Init, TypeOK, PassTyped, RefreshTyped, BoundsTyped, SweepTyped

\* A record, a flush or a signal keeps every variable well typed.
LEMMA DumpStepType == ASSUME TypeOK, DumpStep PROVE TypeOK'
  <1>1. ASSUME NEW v \in Versions, RecordArrives(v) PROVE TypeOK'
    BY <1>1 DEF RecordArrives, TypeOK, sweepVars, passVars, refreshVars, bootVars, boundVars
  <1>2. ASSUME NEW v \in Versions, FirstSignal(v) PROVE TypeOK'
    BY <1>2 DEF FirstSignal, TypeOK, sweepVars, recordVars, passVars, refreshVars, bootVars, boundVars
  <1>3. ASSUME NEW v \in Versions, LastSignal(v) PROVE TypeOK'
    <2>1. start_post_import_maintenance(v) BY <1>3 DEF LastSignal
    <2>2. PassTyped' /\ RefreshTyped' BY <2>1, StartType
    <2>3. quiet' \in BOOLEAN BY <1>3 DEF LastSignal
    <2> QED BY <1>3, <2>2, <2>3
            DEF LastSignal, TypeOK, PassTyped, RefreshTyped, sweepVars, bootVars, boundVars
  <1>4. ASSUME NEW v \in Versions, RedeliveredTrigger(v) PROVE TypeOK'
    <2>1. start_post_import_maintenance(v) BY <1>4 DEF RedeliveredTrigger
    <2>2. PassTyped' /\ RefreshTyped' BY <2>1, StartType
    <2> QED BY <1>4, <2>2
            DEF RedeliveredTrigger, TypeOK, PassTyped, RefreshTyped, nodeVars, sweepVars, recordVars, bootVars, boundVars
  <1>5. ASSUME PeriodicFlush PROVE TypeOK'
    BY <1>5 DEF PeriodicFlush, TypeOK, nodeVars, passVars, refreshVars, bootVars, boundVars
  <1> QED BY <1>1, <1>2, <1>3, <1>4, <1>5 DEF DumpStep

\* Every await-to-await segment of a pass keeps every variable well typed.
LEMMA PassStepType == ASSUME TypeOK, PassStep PROVE TypeOK'
  <1>0. pass \in Versions
    BY DEF TypeOK, PassStep, PassRuns, StepNeeded, NoDump, DrainSucceeds, DrainFails, StepSkipped, StepPages,
       StepCompletes, StepFails, _stamp_maintenance_success, StampFails, Retry, _record_maintenance_failure
  <1>1. CASE DrainSucceeds
    <2>1. PassTyped' BY <1>1, Ranges DEF DrainSucceeds, TypeOK, PassTyped
    <2>2. fresh' \in SUBSET Steps BY <1>1 DEF DrainSucceeds, TypeOK
    <2> QED BY <1>1, <2>1, <2>2 DEF DrainSucceeds, PassTyped, TypeOK, nodeVars, refreshVars, bootVars, boundVars
  <1>2. CASE DrainFails
    <2>1. Fault BY <1>2 DEF DrainFails
    <2>8. BoundsTyped' BY <1>2, <2>1, FaultType
    <2> QED BY <1>2, <2>1, Ranges, <2>8
            DEF DrainFails, TypeOK, BoundsTyped, nodeVars, sweepVars, recordVars, refreshVars, bootVars
  <1>3. CASE StepSkipped
    BY <1>3, Ranges
    DEF StepSkipped, TypeOK, nodeVars, sweepVars, recordVars, refreshVars, bootVars, boundVars
  <1>4. CASE StepPages
    <2>1. step \in Steps /\ CommitPage(step, pass) BY <1>4 DEF StepPages, StepNeeded
    <2>8. SweepTyped' BY <1>0, <1>4, <2>1, SweepType
    <2> QED BY <1>0, <1>4, <2>1, <2>8
            DEF StepPages, TypeOK, SweepTyped, nodeVars, recordVars, passVars, refreshVars, bootVars, boundVars
  <1>5. CASE StepCompletes
    <2>1. step \in Steps /\ Complete(step, pass) BY <1>5 DEF StepCompletes, StepNeeded
    <2>8. SweepTyped' BY <1>0, <1>5, <2>1, SweepType
    <2> QED BY <1>0, <1>5, <2>1, Ranges, <2>8
            DEF StepCompletes, TypeOK, SweepTyped, nodeVars, recordVars, refreshVars, bootVars, boundVars
  <1>6. CASE StepFails
    <2>1. Fault /\ step \in Steps BY <1>6 DEF StepFails, StepNeeded
    <2>8. BoundsTyped' BY <1>6, <2>1, FaultType
    <2> QED BY <1>6, <2>1, Ranges, <2>8
            DEF StepFails, TypeOK, BoundsTyped, nodeVars, sweepVars, recordVars, refreshVars, bootVars
  <1>7. CASE _stamp_maintenance_success
    <2>1. IdlePass BY <1>7 DEF _stamp_maintenance_success
    <2>8. PassTyped' BY <1>0, <1>7, <2>1, IdleType
    <2> QED BY <1>0, <1>7, <2>1, Ranges, <2>8
            DEF _stamp_maintenance_success, Stamp, TypeOK, PassTyped, StatsVersions,
                sweepVars, recordVars, refreshVars, bootVars, boundVars
  <1>8. CASE StampFails
    <2>1. Fault BY <1>8 DEF StampFails
    <2>8. BoundsTyped' BY <1>0, <1>8, <2>1, FaultType
    <2> QED BY <1>0, <1>8, <2>1, Ranges, <2>8
            DEF StampFails, Stamp, TypeOK, BoundsTyped, StatsVersions, nodeVars, sweepVars, recordVars, refreshVars, bootVars
  <1>9. CASE Retry
    BY <1>9, Ranges
    DEF Retry, TypeOK, Attempts, nodeVars, sweepVars, recordVars, refreshVars, bootVars, boundVars
  <1>10. CASE _record_maintenance_failure
    <2>1. IdlePass BY <1>10 DEF _record_maintenance_failure
    <2>2. Fault \/ UNCHANGED boundVars BY <1>10 DEF _record_maintenance_failure
    <2>3. failed' \in [Versions -> BOOLEAN] BY <1>10 DEF _record_maintenance_failure, TypeOK
    <2>8. PassTyped' BY <1>10, <2>1, <2>2, <2>3, IdleType
    <2>9. BoundsTyped' BY <1>10, <2>1, <2>2, <2>3, FaultType
    <2> QED BY <1>10, <2>1, <2>2, <2>3, <2>8, <2>9
            DEF _record_maintenance_failure, TypeOK, PassTyped, BoundsTyped, sweepVars, recordVars, refreshVars, bootVars
  <1> QED BY <1>1, <1>2, <1>3, <1>4, <1>5, <1>6, <1>7, <1>8, <1>9, <1>10 DEF PassStep

\* Every segment of a stats refresh keeps every variable well typed.
LEMMA RefreshStepType == ASSUME TypeOK, RefreshTaskStep PROVE TypeOK'
  <1>0. refresh \in Versions
    BY DEF TypeOK, RefreshTaskStep, RefreshRuns, SweepNeeded, NoDump, _stop_if_superseded, SweepSkipped,
       SweepPages, SweepCompletes, SweepFails, _stamp_stats_version, RefreshRetries
  <1>1. CASE _stop_if_superseded
    <2>1. IdleRefresh BY <1>1 DEF _stop_if_superseded
    <2>8. RefreshTyped' BY <1>1, <2>1, IdleType
    <2> QED BY <1>1, <2>1, <2>8
            DEF _stop_if_superseded, TypeOK, RefreshTyped, nodeVars, sweepVars, recordVars, passVars, bootVars, boundVars
  <1>2. CASE SweepSkipped
    BY <1>2, Ranges
    DEF SweepSkipped, TypeOK, nodeVars, sweepVars, recordVars, passVars, bootVars, boundVars
  <1>3. CASE SweepPages
    <2>1. refreshStep \in Steps /\ CommitPage(refreshStep, refresh)
      BY <1>3, Ranges DEF SweepPages, SweepNeeded
    <2>8. SweepTyped' BY <1>0, <1>3, <2>1, SweepType
    <2> QED BY <1>0, <1>3, <2>1, <2>8
            DEF SweepPages, TypeOK, SweepTyped, nodeVars, recordVars, passVars, refreshVars, bootVars, boundVars
  <1>4. CASE SweepCompletes
    <2>1. refreshStep \in Steps /\ Complete(refreshStep, refresh)
      BY <1>4, Ranges DEF SweepCompletes, SweepNeeded
    <2>2. refreshStep' \in LabelStats..RefreshDone
      BY <1>4, Ranges DEF SweepCompletes, SweepNeeded
    <2>8. SweepTyped' BY <1>0, <1>4, <2>1, <2>2, SweepType
    <2> QED BY <1>0, <1>4, <2>1, <2>2, <2>8
            DEF SweepCompletes, TypeOK, SweepTyped, nodeVars, recordVars, passVars, bootVars, boundVars
  <1>5. CASE SweepFails
    <2>1. Fault /\ refreshStep \in RefreshSweeps BY <1>5 DEF SweepFails, SweepNeeded
    <2>8. BoundsTyped' BY <1>5, <2>1, FaultType
    <2> QED BY <1>5, <2>1, Ranges, <2>8
            DEF SweepFails, TypeOK, BoundsTyped, nodeVars, sweepVars, recordVars, passVars, bootVars
  <1>6. CASE _stamp_stats_version
    <2>1. IdleRefresh BY <1>6 DEF _stamp_stats_version
    <2>2. Fault \/ UNCHANGED boundVars BY <1>6 DEF _stamp_stats_version
    <2>3. stats_version' \in [Versions -> StatsVersions]
      BY <1>0, <1>6, Ranges DEF _stamp_stats_version, TypeOK, StatsVersions
    <2>8. RefreshTyped' BY <1>6, <2>1, <2>2, <2>3, IdleType
    <2>9. BoundsTyped' BY <1>6, <2>1, <2>2, <2>3, FaultType
    <2> QED BY <1>6, <2>1, <2>2, <2>3, <2>8, <2>9
            DEF _stamp_stats_version, TypeOK, RefreshTyped, BoundsTyped, sweepVars, recordVars, passVars, bootVars
  <1>7. CASE RefreshRetries
    <2>1. CASE IdleRefresh
      <3>1. RefreshTyped' BY <2>1, IdleType
      <3> QED BY <1>7, <3>1 DEF RefreshRetries, RefreshTyped, TypeOK, nodeVars, sweepVars, recordVars, passVars, bootVars, boundVars
    <2>2. CASE ~IdleRefresh
      <3>1. RefreshTyped' BY <1>7, <2>2, Ranges DEF RefreshRetries, RefreshTyped, TypeOK
      <3> QED BY <1>7, <3>1 DEF RefreshRetries, RefreshTyped, TypeOK, nodeVars, sweepVars, recordVars, passVars, bootVars, boundVars
    <2> QED BY <2>1, <2>2
  <1> QED BY <1>1, <1>2, <1>3, <1>4, <1>5, <1>6, <1>7 DEF RefreshTaskStep

\* A crash, a restart and the start-up checks keep every variable well typed.
LEMMA BootStepType == ASSUME TypeOK, BootStep PROVE TypeOK'
  <1>1. CASE Crash
    <2>1. IdlePass /\ IdleRefresh BY <1>1 DEF Crash
    <2>2. PassTyped' /\ RefreshTyped' BY <2>1, IdleType
    <2>3. BoundsTyped' BY <1>1, FaultType DEF Crash
    <2>4. returned' \in BOOLEAN BY <1>1 DEF Crash, TypeOK
    <2> QED BY <1>1, <2>2, <2>3, <2>4 DEF Crash, PassTyped, RefreshTyped, BoundsTyped, TypeOK, nodeVars, sweepVars
  <1>2. CASE Restart
    BY <1>2 DEF Restart, TypeOK, nodeVars, sweepVars, recordVars, passVars, refreshVars, boundVars
  <1>3. CASE resume_pending_maintenance
    <2>1. ASSUME NEW v \in Versions, start_post_import_maintenance(v), boot' = "running", UNCHANGED boundVars
          PROVE  TypeOK'
      <3>1. PassTyped' /\ RefreshTyped' BY <2>1, StartType
      <3> QED BY <1>3, <2>1, <3>1
          DEF resume_pending_maintenance, PassTyped, RefreshTyped, TypeOK, nodeVars, sweepVars, recordVars, boundVars
    <2>2. CASE /\ UNCHANGED boundVars \/ Fault
               /\ boot' = "refresh" /\ UNCHANGED <<passVars, refreshVars>>
      <3>1. BoundsTyped' BY <2>2, FaultType
      <3> QED BY <1>3, <2>2, <3>1
          DEF resume_pending_maintenance, BoundsTyped, TypeOK, nodeVars, sweepVars, recordVars, passVars, refreshVars
    <2> QED BY <1>3, <2>1, <2>2 DEF resume_pending_maintenance
  <1>4. CASE resume_stats_refresh
    <2>1. UNCHANGED boundVars \/ Fault BY <1>4 DEF resume_stats_refresh
    <2>2. /\ refresh' \in Versions \cup {NoDump} /\ refreshAttempt' \in Attempts
          /\ refreshStep' \in LabelStats..RefreshDone /\ refreshOk' \in BOOLEAN /\ arrived' \in BOOLEAN
      BY <1>4, Ranges DEF resume_stats_refresh, TypeOK, refreshVars, Attempts
    <2>3. BoundsTyped' BY <2>1, FaultType
    <2> QED BY <1>4, <2>2, <2>3 DEF resume_stats_refresh, BoundsTyped, TypeOK, nodeVars, sweepVars, passVars
  <1> QED BY <1>1, <1>2, <1>3, <1>4 DEF BootStep

\* TypeOK is kept by every step.
LEMMA StepTypeOK == TypeOK /\ [Next]_vars => TypeOK'
  <1>1. ASSUME TypeOK, UNCHANGED vars PROVE TypeOK'
    BY <1>1 DEF TypeOK, vars, nodeVars, sweepVars, recordVars, passVars, refreshVars, bootVars, boundVars
  <1> QED BY <1>1, DumpStepType, PassStepType, RefreshStepType, BootStepType DEF Next

\* Every reachable state is well typed: the counters of attempts, faults and steps stay in
\* their ranges whatever the tasks, the crashes and the upgrades do.
THEOREM TypeCorrect == Spec => []TypeOK
  BY InitTypeOK, StepTypeOK, PTL DEF Spec

-----------------------------------------------------------------------------
(* The inductive invariant.                                                *)

\* The parts of MaintenanceInv about the sweeps, and about the two tasks.
SweepsInv == CheckpointHonest /\ StatsVersionHonest /\ \A s \in Steps : swept[s].stats <= STATS_VERSION
TasksInv == SingleFlight /\ (~Up => ~PassRuns /\ ~RefreshRuns) /\ PassProgress /\ RefreshProgress

\* MaintenanceInv is the two together.
LEMMA InvParts == /\ MaintenanceInv <=> SweepsInv /\ TasksInv
                  /\ MaintenanceInv' <=> SweepsInv' /\ TasksInv'
  BY DEF MaintenanceInv, SweepsInv, TasksInv

\* Initially no checkpoint is done, no stats are stamped and no task runs.
LEMMA InitInv == Init => MaintenanceInv
  <1> SUFFICES ASSUME Init PROVE MaintenanceInv OBVIOUS
  <1>1. \A s \in Steps : swept[s].stats = 0 BY DEF Init
  <1>2. SweepsInv
    BY <1>1, Ranges DEF Init, SweepsInv, CheckpointHonest, StatsVersionHonest
  <1>3. TasksInv
    BY DEF Init, TasksInv, SingleFlight, PassRuns, RefreshRuns, PassProgress, RefreshProgress, Up
  <1> QED BY <1>2, <1>3, InvParts

\* A step that leaves the sweeps, their checkpoints and the stats stamps alone.
LEMMA SweepsFrame ==
  ASSUME SweepsInv, UNCHANGED <<checkpoint, swept, stats_version, STATS_VERSION>>
  PROVE  SweepsInv'
  BY DEF SweepsInv, CheckpointHonest, StatsVersionHonest

\* A sweep that completes, or commits its first page, leaves honest checkpoints, and no
\* stamp is newer than what it wrote.
LEMMA SweepKeepsInv ==
  ASSUME TypeOK, SweepsInv, NEW v \in Versions, NEW s \in Steps,
         Complete(s, v) \/ CommitPage(s, v), UNCHANGED <<stats_version, STATS_VERSION>>
  PROVE  SweepsInv'
  <1>1. CASE Complete(s, v)
    <2>1. \A t \in Steps : swept'[t] = IF t = s THEN maintenance_run_key(v) ELSE swept[t]
      BY <1>1 DEF Complete, TypeOK
    <2>2. STATS_VERSION \in Nat /\ \A t \in Steps : swept[t].stats \in Nat
      <3>1. \A t \in Steps : swept[t] \in RunKeys BY DEF TypeOK
      <3>2. \A k \in RunKeys : k.stats \in Nat BY MaintenanceAssumption DEF RunKeys, StatsVersions
      <3>3. STATS_VERSION \in Nat BY DEF TypeOK
      <3> QED BY <3>1, <3>2, <3>3
    <2>3. \A w \in Versions : stats_version[w] \in Nat
      BY MaintenanceAssumption DEF TypeOK, StatsVersions
    <2>4. maintenance_run_key(v).stats = STATS_VERSION BY DEF maintenance_run_key
    <2>5. \A t \in Checkpointed : checkpoint'[t] =
             IF t = s THEN [key |-> maintenance_run_key(v), done |-> TRUE] ELSE checkpoint[t]
      BY <1>1 DEF Complete, TypeOK
    <2>6. CheckpointHonest' BY <2>1, <2>5, Ranges DEF CheckpointHonest, SweepsInv
    <2>7. (\A t \in Steps : swept[t].stats <= STATS_VERSION)'
      BY <2>1, <2>2, <2>4 DEF SweepsInv
    <2>8. \A w \in Versions, t \in RefreshSweeps : stats_version[w] <= STATS_VERSION
      <3>1. SUFFICES ASSUME NEW w \in Versions, NEW t \in RefreshSweeps
                     PROVE  stats_version[w] <= STATS_VERSION
        OBVIOUS
      <3>2. t \in Steps BY Ranges
      <3>3. stats_version[w] <= swept[t].stats BY DEF SweepsInv, StatsVersionHonest
      <3>4. swept[t].stats <= STATS_VERSION BY <3>2 DEF SweepsInv
      <3> QED BY <3>2, <3>3, <3>4, <2>2, <2>3
    <2>9. StatsVersionHonest'
      BY <2>1, <2>4, <2>8, Ranges DEF StatsVersionHonest, SweepsInv
    <2> QED BY <2>6, <2>7, <2>9 DEF SweepsInv
  <1>2. CASE CommitPage(s, v)
    <2>1. \A t \in Checkpointed : checkpoint'[t] =
             IF t = s THEN [key |-> maintenance_run_key(v), done |-> FALSE] ELSE checkpoint[t]
      BY <1>2 DEF CommitPage, TypeOK
    <2> QED BY <1>2, <2>1 DEF CommitPage, SweepsInv, CheckpointHonest, StatsVersionHonest
  <1> QED BY <1>1, <1>2

\* A task that has nothing behind it has all it has behind it swept.
LEMMA IdleProgress ==
    /\ IdlePass => PassProgress'
    /\ IdleRefresh => RefreshProgress' /\ ~RefreshRuns'
    /\ step' = Drain => PassProgress'
    /\ refreshStep' = LabelStats => RefreshProgress'
  BY StepNumbers DEF IdlePass, IdleRefresh, PassProgress, RefreshProgress, RefreshRuns

\* Starting a pass keeps the tasks apart: it is ignored, or it stops the refresh.
LEMMA StartKeepsTasks ==
  ASSUME TasksInv, NEW v \in Versions, start_post_import_maintenance(v), Up', UNCHANGED <<swept, STATS_VERSION>>
  PROVE  TasksInv'
  <1>1. CASE pass # NoDump
    BY <1>1 DEF start_post_import_maintenance, passVars, refreshVars, TasksInv, SingleFlight, PassRuns,
                RefreshRuns, PassProgress, RefreshProgress, maintenance_run_key
  <1>2. CASE pass = NoDump
    <2>1. IdleRefresh /\ step' = Drain BY <1>2 DEF start_post_import_maintenance
    <2> QED BY <2>1, IdleProgress DEF TasksInv, SingleFlight
  <1> QED BY <1>1, <1>2

\* A step that leaves both tasks and the sweeps alone while the process stays up.
LEMMA TasksFrame ==
  ASSUME TasksInv, UNCHANGED <<passVars, refreshVars, swept, STATS_VERSION, boot>>
  PROVE  TasksInv'
  BY DEF passVars, refreshVars, TasksInv, SingleFlight, PassRuns, RefreshRuns, PassProgress,
         RefreshProgress, maintenance_run_key, Up

\* Records, flushes and signals keep the invariant.
LEMMA DumpStepInv == ASSUME TypeOK, MaintenanceInv, DumpStep PROVE MaintenanceInv'
  <1>0. SweepsInv /\ TasksInv BY InvParts
  <1>1. ASSUME NEW v \in Versions, RecordArrives(v) PROVE MaintenanceInv'
    <2>1. UNCHANGED <<checkpoint, swept, stats_version, STATS_VERSION, passVars, refreshVars, boot>>
      BY <1>1 DEF RecordArrives, sweepVars, bootVars
    <2> QED BY <1>0, <2>1, SweepsFrame, TasksFrame, InvParts
  <1>2. ASSUME NEW v \in Versions, FirstSignal(v) PROVE MaintenanceInv'
    <2>1. UNCHANGED <<checkpoint, swept, stats_version, STATS_VERSION, passVars, refreshVars, boot>>
      BY <1>2 DEF FirstSignal, sweepVars, bootVars
    <2> QED BY <1>0, <2>1, SweepsFrame, TasksFrame, InvParts
  <1>3. ASSUME NEW v \in Versions, LastSignal(v) PROVE MaintenanceInv'
    <2>1. UNCHANGED <<checkpoint, swept, stats_version, STATS_VERSION>>
      BY <1>3 DEF LastSignal, sweepVars, bootVars
    <2>2. start_post_import_maintenance(v) /\ Up' BY <1>3 DEF LastSignal, bootVars, Up
    <2> QED BY <1>0, <2>1, <2>2, SweepsFrame, StartKeepsTasks, InvParts
  <1>4. ASSUME NEW v \in Versions, RedeliveredTrigger(v) PROVE MaintenanceInv'
    <2>1. UNCHANGED <<checkpoint, swept, stats_version, STATS_VERSION>>
      BY <1>4 DEF RedeliveredTrigger, nodeVars, sweepVars, bootVars
    <2>2. start_post_import_maintenance(v) /\ Up' BY <1>4 DEF RedeliveredTrigger, bootVars, Up
    <2> QED BY <1>0, <2>1, <2>2, SweepsFrame, StartKeepsTasks, InvParts
  <1>5. ASSUME PeriodicFlush PROVE MaintenanceInv'
    <2>1. UNCHANGED <<checkpoint, swept, stats_version, STATS_VERSION, passVars, refreshVars, boot>>
      BY <1>5 DEF PeriodicFlush, nodeVars, bootVars
    <2> QED BY <1>0, <2>1, SweepsFrame, TasksFrame, InvParts
  <1> QED BY <1>1, <1>2, <1>3, <1>4, <1>5 DEF DumpStep

\* A pass's step has every step before it swept under its run key, and is skipped only
\* when its own checkpoint says so: its progress, its stamp and its retry keep the invariant.
LEMMA PassStepInv ==
  ASSUME TypeOK, MaintenanceInv, PassStep
  PROVE  MaintenanceInv' /\ (UNCHANGED maintained \/ \A s \in Steps : swept[s] = maintenance_run_key(pass))
  <1>0. /\ SweepsInv /\ TasksInv /\ pass \in Versions /\ PassRuns /\ ~RefreshRuns /\ Up
        /\ Up => boot # "down"
    <2>1. PassRuns
      BY DEF PassStep, StepNeeded, DrainSucceeds, DrainFails, StepSkipped, StepPages, StepCompletes,
         StepFails, _stamp_maintenance_success, StampFails, Retry, _record_maintenance_failure
    <2>2. pass \in Versions BY <2>1 DEF PassRuns, TypeOK
    <2> QED BY <2>1, <2>2, InvParts DEF TasksInv, SingleFlight, Up
  <1>a. ASSUME UNCHANGED <<refreshVars, boot>>, UNCHANGED pass \/ IdlePass, PassProgress'
        PROVE  TasksInv'
    BY <1>0, <1>a DEF refreshVars, TasksInv, SingleFlight, PassRuns, RefreshRuns, RefreshProgress, Up, IdlePass
  <1>b. ASSUME UNCHANGED <<pass, step, ok, swept, STATS_VERSION>> \/ (ok' = FALSE) PROVE PassProgress'
    BY <1>0, <1>b DEF TasksInv, PassProgress, PassRuns, maintenance_run_key
  <1>c. step \in 0..8 BY StepNumbers DEF TypeOK
  <1>1. CASE DrainSucceeds
    <2>1. UNCHANGED <<checkpoint, swept, stats_version, STATS_VERSION, refreshVars, boot, pass, maintained>>
      BY <1>1 DEF DrainSucceeds, nodeVars, bootVars
    <2>2. PassProgress' BY <1>1, StepNumbers DEF DrainSucceeds, PassProgress
    <2> QED BY <1>0, <1>a, <2>1, <2>2, SweepsFrame, InvParts
  <1>2. CASE DrainFails
    <2>1. /\ UNCHANGED <<checkpoint, swept, stats_version, STATS_VERSION, refreshVars, boot, pass, maintained>>
          /\ ok' = FALSE
      BY <1>2 DEF DrainFails, nodeVars, sweepVars, bootVars
    <2> QED BY <1>0, <1>a, <1>b, <2>1, SweepsFrame, InvParts
  <1>3. CASE StepSkipped
    <2>1. UNCHANGED <<checkpoint, swept, stats_version, STATS_VERSION, refreshVars, boot, pass, maintained>>
      BY <1>3 DEF StepSkipped, nodeVars, sweepVars, bootVars
    <2>2. swept[step] = maintenance_run_key(pass)
      BY <1>0, <1>3 DEF StepSkipped, AlreadyDone, SweepsInv, CheckpointHonest
    <2>3. PassProgress'
      BY <1>0, <1>3, <1>c, <2>1, <2>2, StepNumbers
      DEF StepSkipped, TasksInv, PassProgress, PassRuns, maintenance_run_key
    <2> QED BY <1>0, <1>a, <2>1, <2>3, SweepsFrame, InvParts
  <1>4. CASE StepPages
    <2>1. /\ UNCHANGED <<stats_version, STATS_VERSION, refreshVars, boot, pass, step, ok, maintained>>
          /\ step \in Steps /\ CommitPage(step, pass)
      BY <1>4 DEF StepPages, StepNeeded, nodeVars, passVars, bootVars
    <2>2. SweepsInv' BY <1>0, <2>1, SweepKeepsInv
    <2>3. UNCHANGED swept BY <2>1 DEF CommitPage
    <2> QED BY <1>a, <1>b, <2>1, <2>2, <2>3, InvParts
  <1>5. CASE StepCompletes
    <2>1. /\ UNCHANGED <<stats_version, STATS_VERSION, refreshVars, boot, pass, ok, maintained>>
          /\ step \in Steps /\ Complete(step, pass) /\ step' = step + 1
      BY <1>5 DEF StepCompletes, StepNeeded, nodeVars, bootVars
    <2>2. SweepsInv' BY <1>0, <2>1, SweepKeepsInv
    <2>3. \A t \in Steps : swept'[t] = IF t = step THEN maintenance_run_key(pass) ELSE swept[t]
      BY <2>1 DEF Complete, TypeOK
    <2>4. PassProgress'
      BY <1>0, <1>c, <2>1, <2>3, StepNumbers DEF TasksInv, PassProgress, PassRuns, maintenance_run_key
    <2> QED BY <1>a, <2>1, <2>2, <2>4, InvParts
  <1>6. CASE StepFails
    <2>1. /\ UNCHANGED <<checkpoint, swept, stats_version, STATS_VERSION, refreshVars, boot, pass, maintained>>
          /\ ok' = FALSE
      BY <1>6 DEF StepFails, nodeVars, sweepVars, bootVars
    <2> QED BY <1>0, <1>a, <1>b, <2>1, SweepsFrame, InvParts
  <1>d. ASSUME Stamp(pass), step = AllRun, ok, UNCHANGED <<checkpoint, swept, STATS_VERSION>>
        PROVE  SweepsInv' /\ \A s \in Steps : swept[s] = maintenance_run_key(pass)
    <2>1. \A s \in Steps : swept[s] = maintenance_run_key(pass)
      BY <1>0, <1>d, StepNumbers DEF TasksInv, PassProgress
    <2>2. \A w \in Versions : stats_version'[w] = IF w = pass THEN STATS_VERSION ELSE stats_version[w]
      BY <1>d DEF Stamp, TypeOK
    <2>3. \A s \in Steps : swept[s].stats = STATS_VERSION BY <2>1 DEF maintenance_run_key
    <2>4. STATS_VERSION \in Nat BY DEF TypeOK
    <2>5. StatsVersionHonest'
      BY <1>0, <1>d, <2>2, <2>3, <2>4, Ranges DEF StatsVersionHonest, SweepsInv
    <2> QED BY <1>0, <1>d, <2>1, <2>5 DEF SweepsInv, CheckpointHonest
  <1>7. CASE _stamp_maintenance_success
    <2>1. /\ UNCHANGED <<checkpoint, swept, STATS_VERSION, refreshVars, boot>>
          /\ Stamp(pass) /\ step = AllRun /\ ok /\ IdlePass
      BY <1>7 DEF _stamp_maintenance_success, sweepVars, bootVars
    <2>2. PassProgress' BY <2>1, IdleProgress
    <2> QED BY <1>a, <1>d, <2>1, <2>2, InvParts
  <1>8. CASE StampFails
    <2>1. /\ UNCHANGED <<checkpoint, swept, STATS_VERSION, refreshVars, boot, pass>>
          /\ step = AllRun /\ ok /\ ok' = FALSE
          /\ Stamp(pass) \/ UNCHANGED nodeVars
      BY <1>8 DEF StampFails, sweepVars, bootVars
    <2>2. TasksInv' BY <1>a, <1>b, <2>1
    <2>3. CASE Stamp(pass) BY <1>d, <2>1, <2>2, <2>3, InvParts
    <2>4. CASE UNCHANGED nodeVars
      BY <1>0, <2>1, <2>2, <2>4, SweepsFrame, InvParts DEF nodeVars
    <2> QED BY <2>1, <2>3, <2>4
  <1>9. CASE Retry
    <2>1. /\ UNCHANGED <<checkpoint, swept, stats_version, STATS_VERSION, refreshVars, boot, pass, maintained>>
          /\ step' = Drain
      BY <1>9 DEF Retry, nodeVars, sweepVars, bootVars
    <2>2. PassProgress' BY <2>1, IdleProgress
    <2> QED BY <1>0, <1>a, <2>1, <2>2, SweepsFrame, InvParts
  <1>10. CASE _record_maintenance_failure
    <2>1. /\ UNCHANGED <<checkpoint, swept, stats_version, STATS_VERSION, refreshVars, boot, maintained>>
          /\ IdlePass
      BY <1>10 DEF _record_maintenance_failure, sweepVars, bootVars
    <2>2. PassProgress' BY <2>1, IdleProgress
    <2> QED BY <1>0, <1>a, <2>1, <2>2, SweepsFrame, InvParts
  <1> QED BY <1>1, <1>2, <1>3, <1>4, <1>5, <1>6, <1>7, <1>8, <1>9, <1>10 DEF PassStep

\* A refresh runs only while no pass does, so its sweeps and its stamp keep the invariant.
LEMMA RefreshStepInv ==
  ASSUME TypeOK, MaintenanceInv, RefreshTaskStep
  PROVE  MaintenanceInv'
  <1>0. SweepsInv /\ TasksInv /\ refresh \in Versions /\ RefreshRuns /\ ~PassRuns /\ boot # "down"
    <2>1. RefreshRuns
      BY DEF RefreshTaskStep, SweepNeeded, _stop_if_superseded, SweepSkipped, SweepPages, SweepCompletes,
         SweepFails, _stamp_stats_version, RefreshRetries
    <2>2. refresh \in Versions BY <2>1 DEF RefreshRuns, TypeOK
    <2> QED BY <2>1, <2>2, InvParts DEF TasksInv, SingleFlight, Up
  <1>a. ASSUME UNCHANGED <<passVars, boot>>, RefreshProgress' PROVE TasksInv'
    BY <1>0, <1>a DEF passVars, TasksInv, SingleFlight, PassRuns, PassProgress, Up
  <1>b. ASSUME UNCHANGED <<refresh, refreshStep, refreshOk, swept, STATS_VERSION>> \/ (refreshOk' = FALSE)
        PROVE  RefreshProgress'
    BY <1>0, <1>b DEF TasksInv, RefreshProgress, RefreshRuns, maintenance_run_key
  <1>c. refreshStep \in 5..7 BY StepNumbers DEF TypeOK
  <1>1. CASE _stop_if_superseded
    <2>1. /\ UNCHANGED <<checkpoint, swept, stats_version, STATS_VERSION, passVars, boot>>
          /\ IdleRefresh
      BY <1>1 DEF _stop_if_superseded, nodeVars, sweepVars, bootVars
    <2> QED BY <1>0, <1>a, <2>1, IdleProgress, SweepsFrame, InvParts
  <1>2. CASE SweepSkipped
    <2>1. UNCHANGED <<checkpoint, swept, stats_version, STATS_VERSION, passVars, boot, refresh, refreshOk>>
      BY <1>2 DEF SweepSkipped, nodeVars, sweepVars, bootVars
    <2>2. swept[refreshStep] = maintenance_run_key(refresh)
      BY <1>0, <1>2, Ranges DEF SweepSkipped, AlreadyDone, SweepsInv, CheckpointHonest
    <2>3. RefreshProgress'
      BY <1>0, <1>2, <1>c, <2>1, <2>2, StepNumbers
      DEF SweepSkipped, TasksInv, RefreshProgress, RefreshRuns, maintenance_run_key
    <2> QED BY <1>0, <1>a, <2>1, <2>3, SweepsFrame, InvParts
  <1>3. CASE SweepPages
    <2>1. /\ UNCHANGED <<stats_version, STATS_VERSION, passVars, boot, refresh, refreshStep, refreshOk>>
          /\ refreshStep \in Steps /\ CommitPage(refreshStep, refresh)
      BY <1>3, StepNumbers DEF SweepPages, SweepNeeded, nodeVars, refreshVars, bootVars
    <2>2. SweepsInv' BY <1>0, <2>1, SweepKeepsInv
    <2>3. UNCHANGED swept BY <2>1 DEF CommitPage
    <2> QED BY <1>a, <1>b, <2>1, <2>2, <2>3, InvParts
  <1>4. CASE SweepCompletes
    <2>1. /\ UNCHANGED <<stats_version, STATS_VERSION, passVars, boot, refresh, refreshOk>>
          /\ refreshStep \in Steps /\ Complete(refreshStep, refresh) /\ refreshStep' = refreshStep + 1
      BY <1>4, StepNumbers DEF SweepCompletes, SweepNeeded, nodeVars, bootVars
    <2>2. SweepsInv' BY <1>0, <2>1, SweepKeepsInv
    <2>3. \A t \in Steps : swept'[t] = IF t = refreshStep THEN maintenance_run_key(refresh) ELSE swept[t]
      BY <2>1 DEF Complete, TypeOK
    <2>4. RefreshProgress'
      BY <1>0, <1>c, <2>1, <2>3, StepNumbers DEF TasksInv, RefreshProgress, RefreshRuns, maintenance_run_key
    <2> QED BY <1>a, <2>1, <2>2, <2>4, InvParts
  <1>5. CASE SweepFails
    <2>1. /\ UNCHANGED <<checkpoint, swept, stats_version, STATS_VERSION, passVars, boot>>
          /\ refreshOk' = FALSE
      BY <1>5 DEF SweepFails, nodeVars, sweepVars, bootVars
    <2> QED BY <1>0, <1>a, <1>b, <2>1, SweepsFrame, InvParts
  <1>6. CASE _stamp_stats_version
    <2>1. /\ UNCHANGED <<checkpoint, swept, STATS_VERSION, passVars, boot>>
          /\ refreshStep = RefreshDone /\ refreshOk /\ IdleRefresh
          /\ stats_version' = [stats_version EXCEPT ![refresh] = STATS_VERSION] \/ UNCHANGED stats_version
      BY <1>6 DEF _stamp_stats_version, sweepVars, bootVars
    <2>2. TasksInv' BY <1>a, <2>1, IdleProgress
    <2>3. CASE UNCHANGED stats_version BY <1>0, <2>1, <2>2, <2>3, SweepsFrame, InvParts
    <2>4. CASE stats_version' = [stats_version EXCEPT ![refresh] = STATS_VERSION]
      <3>1. \A s \in RefreshSweeps : swept[s] = maintenance_run_key(refresh)
        BY <1>0, <2>1, StepNumbers DEF TasksInv, RefreshProgress
      <3>2. \A w \in Versions : stats_version'[w] = IF w = refresh THEN STATS_VERSION ELSE stats_version[w]
        BY <2>4 DEF TypeOK
      <3>3. \A s \in RefreshSweeps : swept[s].stats = STATS_VERSION BY <3>1 DEF maintenance_run_key
      <3>4. STATS_VERSION \in Nat BY DEF TypeOK
      <3>5. StatsVersionHonest' BY <1>0, <2>1, <3>2, <3>3, <3>4 DEF StatsVersionHonest, SweepsInv
      <3>6. SweepsInv' BY <1>0, <2>1, <3>5 DEF SweepsInv, CheckpointHonest
      <3> QED BY <2>2, <3>6, InvParts
    <2> QED BY <2>1, <2>3, <2>4
  <1>7. CASE RefreshRetries
    <2>1. UNCHANGED <<checkpoint, swept, stats_version, STATS_VERSION, passVars, boot>>
      BY <1>7 DEF RefreshRetries, nodeVars, sweepVars, bootVars
    <2>2. RefreshProgress'
      <3>1. refreshStep' = LabelStats BY <1>7 DEF RefreshRetries, IdleRefresh
      <3> QED BY <3>1, IdleProgress
    <2> QED BY <1>0, <1>a, <2>1, <2>2, SweepsFrame, InvParts
  <1> QED BY <1>1, <1>2, <1>3, <1>4, <1>5, <1>6, <1>7 DEF RefreshTaskStep

\* A crash ends both tasks and a restart finds them so; a refresh is started only when both
\* slots are free, and an upgrade only raises STATS_VERSION.
LEMMA BootStepInv == ASSUME TypeOK, MaintenanceInv, BootStep PROVE MaintenanceInv'
  <1>0. SweepsInv /\ TasksInv BY InvParts
  <1>1. CASE Crash
    <2>1. UNCHANGED <<checkpoint, swept, stats_version, STATS_VERSION>> /\ IdlePass /\ IdleRefresh
      BY <1>1 DEF Crash, nodeVars, sweepVars
    <2>2. ~PassRuns' BY <2>1 DEF IdlePass, PassRuns
    <2> QED BY <1>0, <2>1, <2>2, IdleProgress, SweepsFrame, InvParts DEF TasksInv, SingleFlight
  <1>2. CASE Restart
    <2>1. /\ UNCHANGED <<checkpoint, swept, stats_version, pass, refresh>> /\ ~Up
          /\ STATS_VERSION' \in Nat /\ STATS_VERSION \in Nat /\ STATS_VERSION' >= STATS_VERSION
      BY <1>2 DEF Restart, nodeVars, sweepVars, passVars, refreshVars, TypeOK
    <2>2. ~PassRuns' /\ ~RefreshRuns' BY <1>0, <2>1 DEF TasksInv, PassRuns, RefreshRuns
    <2>3. TasksInv' BY <2>2 DEF TasksInv, SingleFlight, PassProgress, RefreshProgress
    <2>4. \A s \in Steps : swept[s].stats \in Nat
      <3>1. \A s \in Steps : swept[s] \in RunKeys BY DEF TypeOK
      <3> QED BY <3>1, MaintenanceAssumption DEF RunKeys, StatsVersions
    <2>5. (\A s \in Steps : swept[s].stats <= STATS_VERSION)'
      BY <1>0, <2>1, <2>4 DEF SweepsInv
    <2>6. SweepsInv' BY <1>0, <2>1, <2>5 DEF SweepsInv, CheckpointHonest, StatsVersionHonest
    <2> QED BY <2>3, <2>6, InvParts
  <1>3. CASE resume_pending_maintenance
    <2>1. UNCHANGED <<checkpoint, swept, stats_version, STATS_VERSION>> /\ Up /\ Up'
      BY <1>3 DEF resume_pending_maintenance, nodeVars, sweepVars, Up
    <2>2. CASE \E v \in Versions : start_post_import_maintenance(v)
      BY <1>0, <2>1, <2>2, SweepsFrame, StartKeepsTasks, InvParts
    <2>3. CASE UNCHANGED <<passVars, refreshVars>>
      <3>1. TasksInv'
        BY <1>0, <2>1, <2>3
        DEF passVars, refreshVars, TasksInv, SingleFlight, PassRuns, RefreshRuns, PassProgress,
            RefreshProgress, maintenance_run_key
      <3> QED BY <1>0, <2>1, <3>1, SweepsFrame, InvParts
    <2> QED BY <1>3, <2>2, <2>3 DEF resume_pending_maintenance
  <1>4. CASE resume_stats_refresh
    <2>1. UNCHANGED <<checkpoint, swept, stats_version, STATS_VERSION, passVars>> /\ Up /\ Up'
      BY <1>4 DEF resume_stats_refresh, nodeVars, sweepVars, Up
    <2>2. (~PassRuns /\ refreshStep' = LabelStats) \/ UNCHANGED refreshVars
      BY <1>4 DEF resume_stats_refresh
    <2>3. TasksInv'
      BY <1>0, <2>1, <2>2, IdleProgress
      DEF passVars, refreshVars, TasksInv, SingleFlight, PassRuns, RefreshRuns, PassProgress,
          RefreshProgress, maintenance_run_key
    <2> QED BY <1>0, <2>1, <2>3, SweepsFrame, InvParts
  <1> QED BY <1>1, <1>2, <1>3, <1>4 DEF BootStep

-----------------------------------------------------------------------------
(* FinalWhenQuiet: what the pass of a quiet newest dump has behind it.     *)

\* v is the newest dump with a node and no record arrived since it completed.
Settled(v) == quiet /\ _latest_extraction_version(v)

\* Which tasks a step of either task belongs to.
LEMMA TaskRunning ==
  ASSUME TypeOK
  PROVE  /\ PassStep => PassRuns /\ pass \in Versions
         /\ RefreshTaskStep => RefreshRuns /\ refresh \in Versions
  <1>1. PassStep => PassRuns
    BY DEF PassStep, StepNeeded, DrainSucceeds, DrainFails, StepSkipped, StepPages, StepCompletes,
           StepFails, _stamp_maintenance_success, StampFails, Retry, _record_maintenance_failure
  <1>2. RefreshTaskStep => RefreshRuns
    BY DEF RefreshTaskStep, SweepNeeded, _stop_if_superseded, SweepSkipped, SweepPages, SweepCompletes,
           SweepFails, _stamp_stats_version, RefreshRetries
  <1> QED BY <1>1, <1>2 DEF TypeOK, PassRuns, RefreshRuns

\* What the steps of the tasks and of a start-up leave alone.
LEMMA StepFrames ==
    /\ PassStep => UNCHANGED <<dump, quiet, refreshVars, boot, STATS_VERSION>>
    /\ RefreshTaskStep => UNCHANGED <<dump, maintained, quiet, pending, passVars>>
    /\ BootStep => UNCHANGED <<dump, maintained, quiet, sweepVars>>
    /\ DumpStep => UNCHANGED <<maintained, checkpoint, swept>>
    /\ UNCHANGED vars => UNCHANGED <<dump, maintained, quiet, pending, sweepVars, passVars, refreshVars>>
  <1>1. PassStep => UNCHANGED <<dump, quiet, refreshVars, boot, STATS_VERSION>>
    BY DEF PassStep, DrainSucceeds, DrainFails, StepSkipped, StepPages, StepCompletes, StepFails, Stamp,
           _stamp_maintenance_success, StampFails, Retry, _record_maintenance_failure,
           nodeVars, recordVars, bootVars
  <1>2. RefreshTaskStep => UNCHANGED <<dump, maintained, quiet, pending, passVars>>
    BY DEF RefreshTaskStep, _stop_if_superseded, SweepSkipped, SweepPages, SweepCompletes, SweepFails,
           _stamp_stats_version, RefreshRetries, nodeVars, recordVars
  <1>3. BootStep => UNCHANGED <<dump, maintained, quiet, sweepVars>>
    BY DEF BootStep, Crash, Restart, resume_pending_maintenance, resume_stats_refresh, nodeVars, recordVars
  <1>4. DumpStep => UNCHANGED <<maintained, checkpoint, swept>>
    BY DEF DumpStep, RecordArrives, FirstSignal, LastSignal, RedeliveredTrigger, PeriodicFlush, nodeVars, sweepVars
  <1> QED BY <1>1, <1>2, <1>3, <1>4 DEF vars, nodeVars, recordVars

\* A version's node never goes away and a complete dump stays complete; maintained_at is
\* never reset.
LEMMA DumpsGrow ==
  ASSUME TypeOK, [Next]_vars, NEW v \in Versions
  PROVE  /\ HasNode(v) => HasNode(v)'
         /\ dump[v] = "complete" => dump'[v] = "complete"
         /\ maintained[v] => maintained'[v]
  <1>1. UNCHANGED dump \/ \E w \in Versions :
            \/ dump[w] # "complete" /\ dump' = [dump EXCEPT ![w] = IF @ = "none" THEN "importing" ELSE @]
            \/ dump[w] = "importing" /\ dump' = [dump EXCEPT ![w] = "partial"]
            \/ dump[w] = "partial" /\ dump' = [dump EXCEPT ![w] = "complete"]
    <2>1. CASE DumpStep
      BY <2>1 DEF DumpStep, RecordArrives, FirstSignal, LastSignal, RedeliveredTrigger, PeriodicFlush, nodeVars
    <2> QED BY <2>1, StepFrames DEF Next
  <1>2. UNCHANGED maintained \/ \E w \in Versions : maintained' = [maintained EXCEPT ![w] = TRUE]
    <2>1. CASE PassStep
      BY <2>1, TaskRunning
      DEF PassStep, DrainSucceeds, DrainFails, StepSkipped, StepPages, StepCompletes, StepFails, Stamp,
          _stamp_maintenance_success, StampFails, Retry, _record_maintenance_failure, nodeVars
    <2> QED BY <2>1, StepFrames DEF Next
  <1>3. /\ HasNode(v) => HasNode(v)'
        /\ dump[v] = "complete" => dump'[v] = "complete"
    BY <1>1 DEF TypeOK, HasNode
  <1>4. maintained[v] => maintained'[v] BY <1>2 DEF TypeOK
  <1> QED BY <1>3, <1>4

\* A dump that was complete and is settled was settled before: another dump's last signal
\* makes the graph quiet only for that newer dump.
LEMMA SettledBefore ==
  ASSUME TypeOK, [Next]_vars, NEW v \in Versions, dump[v] = "complete", Settled(v)'
  PROVE  Settled(v)
  <1>1. \A w \in Versions : HasNode(w) => w <= v
    BY DumpsGrow DEF Settled, _latest_extraction_version
  <1>2. _latest_extraction_version(v) BY <1>1 DEF _latest_extraction_version, HasNode
  <1>3. quiet
    <2>1. ASSUME NEW w \in Versions, LastSignal(w) PROVE quiet
      <3>1. dump[w] = "partial" /\ dump' = [dump EXCEPT ![w] = "complete"] BY <2>1 DEF LastSignal
      <3>2. w <= v BY <1>1, <3>1 DEF HasNode
      <3>3. v > w BY <3>1, <3>2 DEF Versions
      <3>4. quiet' <=> (\A u \in Versions : u > w => dump[u] = "none") BY <2>1 DEF LastSignal
      <3> QED BY <3>3, <3>4 DEF Settled
    <2>2. quiet \/ \E w \in Versions : LastSignal(w)
      <3>1. quiet' BY DEF Settled
      <3>2. CASE DumpStep
        BY <3>1, <3>2 DEF DumpStep, RecordArrives, FirstSignal, RedeliveredTrigger, PeriodicFlush, recordVars
      <3> QED BY <3>1, <3>2, StepFrames DEF Next
    <2> QED BY <2>1, <2>2
  <1> QED BY <1>2, <1>3 DEF Settled

\* While the graph is quiet, nothing that was written is overwritten.
LEMMA FreshStays ==
  ASSUME TypeOK, [Next]_vars, quiet', ~pending
  PROVE  ~pending' /\ fresh \subseteq fresh'
  <1>1. CASE DumpStep
    <2>1. ASSUME NEW v \in Versions, FirstSignal(v) \/ LastSignal(v) \/ RedeliveredTrigger(v)
          PROVE  UNCHANGED <<pending, fresh>>
      BY <2>1 DEF FirstSignal, LastSignal, RedeliveredTrigger, sweepVars, recordVars
    <2>2. ASSUME NEW v \in Versions, RecordArrives(v) PROVE FALSE BY <2>2 DEF RecordArrives
    <2>3. ~PeriodicFlush BY DEF PeriodicFlush
    <2> QED BY <1>1, <2>1, <2>2, <2>3 DEF DumpStep
  <1>2. CASE PassStep
    <2>1. CASE DrainSucceeds BY <2>1 DEF DrainSucceeds
    <2>2. CASE StepPages BY <2>2 DEF StepPages, CommitPage, recordVars
    <2>3. CASE StepCompletes BY <2>3 DEF StepCompletes, Complete, recordVars
    <2>4. CASE \/ DrainFails \/ StepSkipped \/ StepFails \/ _stamp_maintenance_success \/ StampFails
               \/ Retry \/ _record_maintenance_failure
      <3>1. UNCHANGED <<sweepVars, recordVars>>
        BY <2>4 DEF DrainFails, StepSkipped, StepFails, _stamp_maintenance_success, StampFails, Retry,
                    _record_maintenance_failure
      <3> QED BY <3>1 DEF sweepVars, recordVars
    <2> QED BY <1>2, <2>1, <2>2, <2>3, <2>4 DEF PassStep
  <1>3. CASE RefreshTaskStep
    <2>1. UNCHANGED fresh \/ \E s \in Steps : fresh' = fresh \cup {s}
      BY <1>3, Ranges DEF RefreshTaskStep, _stop_if_superseded, SweepSkipped, SweepPages, SweepCompletes, SweepFails,
                  SweepNeeded, Complete, CommitPage, _stamp_stats_version, RefreshRetries, sweepVars
    <2> QED BY <1>3, <2>1, StepFrames
  <1>4. CASE BootStep
    <2>1. UNCHANGED pending \/ pending' = FALSE
      BY <1>4 DEF BootStep, Crash, Restart, resume_pending_maintenance, resume_stats_refresh, recordVars
    <2> QED BY <1>4, <2>1, StepFrames DEF sweepVars
  <1>5. CASE UNCHANGED vars BY <1>5, StepFrames DEF sweepVars
  <1> QED BY <1>1, <1>2, <1>3, <1>4, <1>5 DEF Next

\* A checkpoint belongs to no run or to a dump of the graph.
LEMMA CheckpointOf ==
  ASSUME TypeOK, NEW s \in Checkpointed
  PROVE  checkpoint[s].key.version \in Versions \cup {NoDump}
  <1>1. checkpoint[s].key \in RunKeys BY DEF TypeOK
  <1> QED BY <1>1 DEF RunKeys

\* What a step may do to a checkpoint: finish it after the running pass's step, leave it
\* unfinished, or write it for the final dump a refresh sweeps.
LEMMA CheckpointMoves ==
  ASSUME TypeOK, QuietInv, [Next]_vars, NEW s \in Checkpointed
  PROVE  \/ checkpoint'[s] = checkpoint[s]
         \/ /\ PassRuns /\ pass \in Versions /\ checkpoint'[s].key.version = pass
            /\ ~checkpoint'[s].done \/ (step = s /\ s \in fresh' /\ UNCHANGED pending)
         \/ /\ RefreshRuns /\ refresh \in Versions /\ checkpoint'[s].key.version = refresh
  <1>0. \A t, v : /\ Complete(t, v) /\ checkpoint'[s] # checkpoint[s] =>
                       t = s /\ s \in fresh' /\ checkpoint'[s].key.version = v
                  /\ CommitPage(t, v) /\ checkpoint'[s] # checkpoint[s] =>
                       t = s /\ ~checkpoint'[s].done /\ checkpoint'[s].key.version = v
    BY DEF TypeOK, Complete, CommitPage, maintenance_run_key
  <1>1. CASE PassStep
    <2>1. UNCHANGED checkpoint \/ (Complete(step, pass) /\ UNCHANGED pending) \/ CommitPage(step, pass)
      BY <1>1 DEF PassStep, DrainSucceeds, DrainFails, StepSkipped, StepPages, StepCompletes, StepFails,
             _stamp_maintenance_success, StampFails, Retry, _record_maintenance_failure, sweepVars, recordVars
    <2> QED BY <1>0, <1>1, <2>1, TaskRunning
  <1>2. CASE RefreshTaskStep
    <2>1. UNCHANGED checkpoint \/ Complete(refreshStep, refresh) \/ CommitPage(refreshStep, refresh)
      BY <1>2 DEF RefreshTaskStep, _stop_if_superseded, SweepSkipped, SweepPages, SweepCompletes, SweepFails,
             _stamp_stats_version, RefreshRetries, sweepVars
    <2> QED BY <1>0, <1>2, <2>1, TaskRunning
  <1> QED BY <1>1, <1>2, StepFrames DEF Next, sweepVars

\* What a step may do to the slots of the two tasks: a task that runs after it was running
\* before or starts on a complete dump, and a refresh starts on a final one.
LEMMA TaskMoves ==
  ASSUME TypeOK, [Next]_vars
  PROVE  /\ PassRuns' => \/ UNCHANGED passVars
                         \/ UNCHANGED pass /\ PassStep
                         \/ pass' \in Versions /\ dump'[pass'] = "complete" /\ step' = Drain
         /\ RefreshRuns' => \/ UNCHANGED refresh
                            \/ refresh' \in Versions /\ dump'[refresh'] = "complete" /\ maintained[refresh']
  <1>a. ASSUME NEW v \in Versions, start_post_import_maintenance(v)
        PROVE  (UNCHANGED passVars /\ UNCHANGED refresh) \/ (pass' = v /\ step' = Drain /\ ~RefreshRuns')
    BY <1>a DEF start_post_import_maintenance, IdleRefresh, RefreshRuns, refreshVars
  <1>1. CASE DumpStep
    <2>1. ASSUME NEW v \in Versions, LastSignal(v) \/ RedeliveredTrigger(v)
          PROVE  start_post_import_maintenance(v) /\ dump'[v] = "complete"
      BY <2>1 DEF LastSignal, RedeliveredTrigger, nodeVars, TypeOK
    <2>2. ASSUME ~\E v \in Versions : LastSignal(v) \/ RedeliveredTrigger(v)
          PROVE  UNCHANGED passVars /\ UNCHANGED refresh
      BY <1>1, <2>2 DEF DumpStep, RecordArrives, FirstSignal, PeriodicFlush, refreshVars
    <2>3. CASE \E v \in Versions : LastSignal(v) \/ RedeliveredTrigger(v)
      <3>1. PICK v \in Versions : LastSignal(v) \/ RedeliveredTrigger(v) BY <2>3
      <3>2. start_post_import_maintenance(v) /\ dump'[v] = "complete" BY <2>1, <3>1
      <3> QED BY <1>a, <3>2
    <2> QED BY <2>2, <2>3
  <1>2. CASE PassStep
    <2>1. UNCHANGED pass \/ ~PassRuns'
      BY <1>2 DEF PassStep, DrainSucceeds, DrainFails, StepSkipped, StepPages, StepCompletes, StepFails, IdlePass,
             _stamp_maintenance_success, StampFails, Retry, _record_maintenance_failure, passVars, PassRuns
    <2> QED BY <1>2, <2>1, StepFrames DEF refreshVars
  <1>3. CASE RefreshTaskStep
    <2>1. UNCHANGED refresh \/ ~RefreshRuns'
      BY <1>3 DEF RefreshTaskStep, _stop_if_superseded, SweepSkipped, SweepPages, SweepCompletes, SweepFails,
             IdleRefresh, _stamp_stats_version, RefreshRetries, refreshVars, RefreshRuns
    <2> QED BY <1>3, <2>1, StepFrames
  <1>4. CASE BootStep
    <2>1. CASE Crash BY <2>1 DEF Crash, IdlePass, IdleRefresh, PassRuns, RefreshRuns
    <2>2. CASE Restart BY <2>2 DEF Restart, refreshVars
    <2>3. CASE resume_pending_maintenance
      <3>1. \/ UNCHANGED <<passVars, refreshVars>>
            \/ \E v \in Versions : Resumable(v) /\ start_post_import_maintenance(v)
        BY <2>3 DEF resume_pending_maintenance
      <3>2. CASE \E v \in Versions : Resumable(v) /\ start_post_import_maintenance(v)
        <4>1. PICK v \in Versions : Resumable(v) /\ start_post_import_maintenance(v) BY <3>2
        <4>2. dump'[v] = "complete" BY <1>4, <4>1, StepFrames DEF Resumable
        <4> QED BY <1>a, <4>1, <4>2
      <3> QED BY <3>1, <3>2 DEF refreshVars
    <2>4. CASE resume_stats_refresh
      <3>1. \/ UNCHANGED refresh
            \/ \E v \in Versions : _stats_refresh_version(v) /\ refresh' = v
        BY <2>4 DEF resume_stats_refresh, refreshVars
      <3>2. UNCHANGED passVars BY <2>4 DEF resume_stats_refresh
      <3>3. UNCHANGED dump BY <1>4, StepFrames
      <3> QED BY <3>1, <3>2, <3>3 DEF _stats_refresh_version
    <2> QED BY <1>4, <2>1, <2>2, <2>3, <2>4 DEF BootStep
  <1> QED BY <1>1, <1>2, <1>3, <1>4, StepFrames DEF Next, refreshVars

\* No step leaves a task or a checkpoint with a dump that is not complete.
LEMMA TasksStayOnComplete ==
  ASSUME TypeOK, QuietInv, [Next]_vars
  PROVE  TasksOnComplete'
  <1>0. TasksOnComplete BY DEF QuietInv
  <1>1. PassRuns' => dump'[pass'] = "complete"
    <2>1. ASSUME PassRuns', UNCHANGED pass PROVE dump'[pass] = "complete"
      <3>1. PassRuns /\ pass \in Versions BY <2>1 DEF PassRuns, TypeOK
      <3> QED BY <1>0, <3>1, DumpsGrow DEF TasksOnComplete
    <2> QED BY <2>1, TaskMoves DEF passVars
  <1>2. RefreshRuns' => dump'[refresh'] = "complete" /\ maintained'[refresh']
    <2>1. ASSUME RefreshRuns', UNCHANGED refresh PROVE dump'[refresh] = "complete" /\ maintained'[refresh]
      <3>1. RefreshRuns /\ refresh \in Versions BY <2>1 DEF RefreshRuns, TypeOK
      <3> QED BY <1>0, <3>1, DumpsGrow DEF TasksOnComplete
    <2> QED BY <2>1, TaskMoves, DumpsGrow
  <1>3. ASSUME NEW s \in Checkpointed, checkpoint'[s].key.version # NoDump
        PROVE  dump'[checkpoint'[s].key.version] = "complete"
    <2>1. CASE checkpoint'[s] = checkpoint[s]
      BY <1>0, <1>3, <2>1, CheckpointOf, DumpsGrow DEF TasksOnComplete
    <2>2. CASE PassRuns /\ pass \in Versions /\ checkpoint'[s].key.version = pass
      BY <1>0, <2>2, DumpsGrow DEF TasksOnComplete
    <2>3. CASE RefreshRuns /\ refresh \in Versions /\ checkpoint'[s].key.version = refresh
      BY <1>0, <2>3, DumpsGrow DEF TasksOnComplete
    <2> QED BY <2>1, <2>2, <2>3, CheckpointMoves
  <1> QED BY <1>1, <1>2, <1>3 DEF TasksOnComplete

\* A checkpoint the pass of a settled dump may skip by keeps standing for fresh results:
\* a record that arrives unsettles the dump, and a flush finds nothing to write.
LEMMA SkipsStayFresh ==
  ASSUME TypeOK, QuietInv, [Next]_vars
  PROVE  SkipsAreFresh'
  <1>0. TasksOnComplete /\ SkipsAreFresh /\ StepsAreFresh BY DEF QuietInv
  <1> SUFFICES ASSUME NEW s \in Checkpointed, NEW v \in Versions, checkpoint'[s].key.version = v,
                      Settled(v)', ~maintained'[v], checkpoint'[s].done
               PROVE  s \in fresh' /\ ~pending'
    <2>1. ASSUME NEW s \in Checkpointed PROVE checkpoint'[s].key.version \in Versions \cup {NoDump}
      <3>1. TypeOK' BY StepTypeOK
      <3>2. checkpoint'[s].key \in RunKeys BY <3>1 DEF TypeOK
      <3> QED BY <3>2 DEF RunKeys
    <2> QED BY <2>1 DEF SkipsAreFresh, Settled
  <1>1. quiet' /\ ~maintained[v] BY DumpsGrow DEF Settled
  <1>2. CASE checkpoint'[s] = checkpoint[s]
    <2>1. checkpoint[s].key.version = v /\ v # NoDump BY <1>2 DEF Versions, NoDump
    <2>2. Settled(v) BY <1>0, <2>1, SettledBefore DEF TasksOnComplete
    <2>3. s \in fresh /\ ~pending BY <1>0, <1>1, <1>2, <2>1, <2>2 DEF SkipsAreFresh, Settled
    <2> QED BY <1>1, <2>3, FreshStays
  <1>3. CASE PassRuns /\ pass = v /\ step = s /\ s \in fresh' /\ UNCHANGED pending
    <2>1. Settled(v) BY <1>0, <1>3, SettledBefore DEF TasksOnComplete
    <2>2. ~pending BY <1>0, <1>3, <2>1, Ranges DEF StepsAreFresh, Settled
    <2> QED BY <1>3, <2>2
  <1>4. ~(RefreshRuns /\ refresh = v) BY <1>0, <1>1 DEF TasksOnComplete
  <1> QED BY <1>2, <1>3, <1>4, CheckpointMoves

\* The steps the pass of a settled dump has behind it stay fresh, and each one it takes
\* adds its own: it completes the step, or finds it finished by a checkpoint.
LEMMA StepsStayFresh ==
  ASSUME TypeOK, QuietInv, [Next]_vars
  PROVE  StepsAreFresh'
  <1>0. TasksOnComplete /\ SkipsAreFresh /\ StepsAreFresh BY DEF QuietInv
  <1> SUFFICES ASSUME PassRuns', Settled(pass)'
               PROVE  (/\ step \in Steps \/ (ok /\ step = AllRun) => ~pending
                       /\ ok /\ ~maintained[pass] => \A s \in Steps : s < step => s \in fresh)'
    BY DEF StepsAreFresh, Settled
  <1>1. quiet' BY DEF Settled
  <1>2. CASE step' = Drain BY <1>2, StepNumbers
  <1>3. ASSUME UNCHANGED pass PROVE /\ PassRuns /\ pass \in Versions /\ Settled(pass)
                                    /\ step \in Steps \/ (ok /\ step = AllRun) => ~pending
                                    /\ ok /\ ~maintained[pass] => \A s \in Steps : s < step => s \in fresh
    <2>1. PassRuns /\ pass \in Versions BY <1>3 DEF PassRuns, TypeOK
    <2>2. Settled(pass)
      <3>1. PICK v \in Versions : v = pass BY <2>1
      <3>2. Settled(v)' BY <1>3, <3>1 DEF Settled, _latest_extraction_version
      <3>3. dump[v] = "complete" BY <1>0, <2>1, <3>1 DEF TasksOnComplete
      <3> QED BY <3>1, <3>2, <3>3, SettledBefore
    <2> QED BY <1>0, <2>1, <2>2 DEF StepsAreFresh, Settled
  <1>4. CASE UNCHANGED passVars
    <2>1. ~pending => ~pending' /\ fresh \subseteq fresh' BY <1>1, FreshStays
    <2>2. pass \in Versions /\ (maintained[pass] => maintained'[pass]) BY <1>3, <1>4, DumpsGrow DEF passVars
    <2>3. step > 0 /\ step # 0 /\ ok /\ step \in 0..8 => step \in Steps \/ step = AllRun BY StepNumbers
    <2> QED BY <1>3, <1>4, <2>1, <2>2, <2>3, StepNumbers DEF passVars, TypeOK
  <1>5. CASE UNCHANGED pass /\ PassStep
    <2>0. step \in 0..8 BY StepNumbers DEF TypeOK
    <2>1. maintained[pass] => maintained'[pass] BY <1>3, <1>5, DumpsGrow
    <2>2. CASE DrainSucceeds BY <2>2, StepNumbers DEF DrainSucceeds
    <2>3. CASE DrainFails \/ StepFails \/ StampFails
      BY <1>3, <1>5, <2>0, <2>3, StepNumbers
      DEF DrainFails, StepFails, StepNeeded, StampFails, recordVars
    <2>4. CASE StepSkipped
      <3>1. step \in Checkpointed /\ checkpoint[step].key.version = pass /\ checkpoint[step].done
        BY <2>4 DEF StepSkipped, AlreadyDone, maintenance_run_key
      <3>2. UNCHANGED <<pending, fresh, ok, maintained>> /\ step' = step + 1
        BY <2>4 DEF StepSkipped, recordVars, sweepVars, nodeVars
      <3>3. ~maintained[pass] => step \in fresh
        BY <1>0, <1>3, <1>5, <3>1 DEF SkipsAreFresh, Settled, PassRuns
      <3> QED BY <1>3, <1>5, <2>0, <3>1, <3>2, <3>3, StepNumbers
    <2>5. CASE StepPages
      <3>1. UNCHANGED <<pending, fresh, ok, maintained, step>>
        BY <2>5 DEF StepPages, CommitPage, recordVars, nodeVars, passVars
      <3> QED BY <1>3, <1>5, <3>1
    <2>6. CASE StepCompletes
      <3>1. /\ UNCHANGED <<pending, ok, maintained>> /\ step' = step + 1 /\ step \in Steps
            /\ fresh' = fresh \cup {step}
        BY <2>6 DEF StepCompletes, StepNeeded, Complete, recordVars, nodeVars
      <3> QED BY <1>3, <1>5, <2>0, <3>1, StepNumbers
    <2>7. CASE _stamp_maintenance_success \/ _record_maintenance_failure
      BY <2>7 DEF _stamp_maintenance_success, _record_maintenance_failure, IdlePass, PassRuns
    <2>8. CASE Retry BY <1>2, <2>8 DEF Retry
    <2> QED BY <1>5, <2>2, <2>3, <2>4, <2>5, <2>6, <2>7, <2>8 DEF PassStep
  <1> QED BY <1>2, <1>4, <1>5, TaskMoves

\* Initially no task runs and no checkpoint is of a dump.
LEMMA InitQuiet == Init => QuietInv
  BY DEF Init, QuietInv, TasksOnComplete, SkipsAreFresh, StepsAreFresh, PassRuns, RefreshRuns, NoDump

\* QuietInv is kept by every step.
LEMMA StepQuiet == TypeOK /\ QuietInv /\ [Next]_vars => QuietInv'
  BY TasksStayOnComplete, SkipsStayFresh, StepsStayFresh DEF QuietInv

-----------------------------------------------------------------------------
(* The theorems.                                                           *)

\* MaintenanceInv is kept by every step.
LEMMA StepInv == TypeOK /\ MaintenanceInv /\ [Next]_vars => MaintenanceInv'
  <1>1. ASSUME MaintenanceInv, UNCHANGED vars PROVE MaintenanceInv'
    <2>1. UNCHANGED <<checkpoint, swept, stats_version, STATS_VERSION, passVars, refreshVars, boot>>
      BY <1>1 DEF vars, nodeVars, sweepVars, bootVars
    <2> QED BY <1>1, <2>1, SweepsFrame, TasksFrame, InvParts
  <1> QED BY <1>1, DumpStepInv, PassStepInv, RefreshStepInv, BootStepInv DEF Next

\* Finished checkpoints, the progress of both tasks and the stats stamps agree with what
\* the sweeps last did, and with the records written since, over every interleaving, crash
\* and upgrade.
THEOREM MaintenanceInvariant == Spec => []Inv
  BY InitInv, StepInv, InitQuiet, StepQuiet, TypeCorrect, PTL DEF Spec, Inv

\* start_post_import_maintenance and start_stats_refresh keep the two tasks apart.
THEOREM OneSweeper == Spec => []SingleFlight
  BY MaintenanceInvariant, PTL DEF Inv, MaintenanceInv

\* No node claims stats newer than the code whose Label and Artist sweeps last finished:
\* maintenance_run_key makes an upgraded process repeat what an older one had done.
THEOREM StatsNeverOverclaim == Spec => []StatsVersionHonest
  BY MaintenanceInvariant, PTL DEF Inv, MaintenanceInv

\* Only a pass whose last attempt had no failure stamps a node, and only its own.
LEMMA OnlyPassesStamp ==
  ASSUME TypeOK, MaintenanceInv, [Next]_vars, NEW v \in Versions, ~maintained[v], maintained'[v]
  PROVE  /\ \A s \in Steps : swept[s] = maintenance_run_key(v)
         /\ PassRuns /\ v = pass /\ step = AllRun /\ ok
  <1>1. DumpStep => UNCHANGED maintained
    BY DEF DumpStep, RecordArrives, FirstSignal, LastSignal, RedeliveredTrigger, PeriodicFlush, nodeVars
  <1>2. RefreshTaskStep => UNCHANGED maintained
    BY DEF RefreshTaskStep, _stop_if_superseded, SweepSkipped, SweepPages, SweepCompletes, SweepFails,
           _stamp_stats_version, RefreshRetries, nodeVars
  <1>3. BootStep => UNCHANGED maintained
    BY DEF BootStep, Crash, Restart, resume_pending_maintenance, resume_stats_refresh, nodeVars
  <1>4. UNCHANGED vars => UNCHANGED maintained BY DEF vars, nodeVars
  <1>5. CASE PassStep
    <2>1. v = pass
      <3>1. UNCHANGED maintained \/ maintained' = [maintained EXCEPT ![pass] = TRUE]
        BY <1>5 DEF PassStep, DrainSucceeds, DrainFails, StepSkipped, StepPages, StepCompletes, StepFails,
                    _stamp_maintenance_success, StampFails, Stamp, Retry, _record_maintenance_failure, nodeVars
      <3> QED BY <3>1 DEF TypeOK
    <2>2. _stamp_maintenance_success \/ StampFails
      BY <1>5 DEF PassStep, DrainSucceeds, DrainFails, StepSkipped, StepPages, StepCompletes, StepFails, Retry,
                  _record_maintenance_failure, nodeVars
    <2> QED BY <1>5, <2>1, <2>2, PassStepInv DEF _stamp_maintenance_success, StampFails
  <1> QED BY <1>1, <1>2, <1>3, <1>4, <1>5 DEF Next

\* A dump becomes final only when each of the seven steps last ran to its end for that dump
\* under the running STATS_VERSION, whatever attempts and processes that took.
THEOREM FinalMeansSwept == Spec => StampedMeansSwept
  <1>1. TypeOK /\ MaintenanceInv /\ [Next]_vars
          => [\A v \in Versions : ~maintained[v] /\ maintained'[v] =>
                 \A s \in Steps : swept[s] = maintenance_run_key(v)]_vars
    BY OnlyPassesStamp
  <1> QED BY <1>1, TypeCorrect, MaintenanceInvariant, PTL DEF Spec, Inv, StampedMeansSwept

\* While no record arrives after its last signal, the newest dump becomes final only with
\* every step run after the last write: the drain, the retries of a failed drain, and the
\* checkpoints of earlier attempts and processes never let a stale result through.
THEOREM QuietDumpEndsFresh == Spec => FinalWhenQuiet
  <1>1. ASSUME TypeOK, MaintenanceInv, QuietInv, [Next]_vars, NEW v \in Versions,
               ~maintained[v], maintained'[v], quiet, _latest_extraction_version(v)
        PROVE  fresh = Steps
    <2>1. PassRuns /\ v = pass /\ step = AllRun /\ ok BY <1>1, OnlyPassesStamp
    <2>2. \A s \in Steps : s < step => s \in fresh BY <1>1, <2>1 DEF QuietInv, StepsAreFresh
    <2>3. Steps \subseteq fresh BY <2>1, <2>2, StepNumbers
    <2> QED BY <1>1, <2>3 DEF TypeOK
  <1>2. TypeOK /\ MaintenanceInv /\ QuietInv /\ [Next]_vars
          => [\A v \in Versions :
                ~maintained[v] /\ maintained'[v] /\ quiet /\ _latest_extraction_version(v) => fresh = Steps]_vars
    BY <1>1
  <1> QED BY <1>2, TypeCorrect, MaintenanceInvariant, PTL DEF Spec, Inv, FinalWhenQuiet
=============================================================================
