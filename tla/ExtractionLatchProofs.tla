----------------------- MODULE ExtractionLatchProofs -----------------------
(***************************************************************************)
(* Theorems about ExtractionLatch for every set of types, versions and     *)
(* handler tasks and every bound: type correctness, the inductive          *)
(* invariant behind the safety properties, and the implementation of       *)
(* CompletionGate.                                                         *)
(***************************************************************************)
EXTENDS ExtractionLatch, TLAPS

(***************************************************************************)
(* Type correctness.                                                       *)
(***************************************************************************)
\* At start-up the queues hold what the extractor published and the process nothing.
LEMMA InitTypeOK == Init => TypeOK
<1> SUFFICES ASSUME Init PROVE TypeOK
  OBVIOUS
<1>1. broker \in [Markers -> BrokerStates] /\ handouts \in [Markers -> Nat]
  BY DEF Init, BrokerStates
<1>2. /\ signals \in [Versions -> SUBSET DATA_TYPES]
      /\ maintained \in [Versions -> BOOLEAN]
      /\ failed \in [Versions -> BOOLEAN]
  BY DEF Init
<1>3. /\ pc \in [Tasks -> TaskStates]
      /\ marker \in [Tasks -> Markers \cup {None}]
      /\ live \in [Tasks -> BOOLEAN]
      /\ candidate \in [Tasks -> SUBSET DATA_TYPES]
      /\ \A k \in Tasks : pc[k] # "idle" => marker[k] \in Markers
  BY DEF Init, TaskStates
<1>4. /\ latest \in Versions \cup {None}
      /\ extraction_latch_lock \in Tasks \cup {None}
      /\ extraction_complete_version \in Versions \cup {None}
      /\ extraction_complete_signals \in SUBSET DATA_TYPES
      /\ pass \in Versions \cup {None}
      /\ boot \in BootStates
      /\ resumed \in Versions \cup {None}
      /\ alarmed \in BOOLEAN
  BY DEF Init, BootStates
<1>5. faults \in 0..MaxFaults /\ losses \in 0..MaxLosses
  <2>1. 0 \in 0..MaxFaults /\ 0 \in 0..MaxLosses
    BY BoundsAssumption
  <2> QED
    BY <2>1 DEF Init
<1> QED
  BY <1>1, <1>2, <1>3, <1>4, <1>5 DEF TypeOK

\* What a running handler's delivery looks like.
LEMMA MarkerParts ==
    ASSUME TypeOK, NEW k \in Tasks, pc[k] # "idle"
    PROVE  /\ marker[k] \in Markers
           /\ VersionOf(k) \in Versions
           /\ TypeOf(k) \in DATA_TYPES
           /\ marker[k] = <<VersionOf(k), TypeOf(k)>>
  BY DEF TypeOK, Markers, VersionOf, TypeOf

\* Returning the unacknowledged deliveries keeps the broker's state well typed.
LEMMA ReturnUnackedType ==
    ASSUME TypeOK, ReturnUnacked
    PROVE  broker' \in [Markers -> BrokerStates] /\ handouts' \in [Markers -> Nat]
  BY DEF TypeOK, ReturnUnacked, BrokerStates

\* The two bounds are counted up to their limits.
LEMMA BoundsType ==
    ASSUME TypeOK, Fault \/ Loss \/ UNCHANGED boundVars
    PROVE  faults' \in 0..MaxFaults /\ losses' \in 0..MaxLosses
  BY BoundsAssumption DEF TypeOK, Fault, Loss, boundVars

\* TypeOK is kept by every step.
LEMMA StepTypeOK == TypeOK /\ [Next]_vars => TypeOK'
<1> SUFFICES ASSUME TypeOK, [Next]_vars PROVE TypeOK'
  OBVIOUS
<1> USE DEF brokerVars, nodeVars, taskVars, latchVars, passVars, boundVars,
            Suspend, Goto, Return, BrokerStates, TaskStates, BootStates
<1>1. ASSUME NEW m \in Markers, NEW k \in Tasks, Deliver(m, k) PROVE TypeOK'
  BY <1>1 DEF TypeOK, Deliver
<1>2. ASSUME ConnectionLoss PROVE TypeOK'
  BY <1>2, ReturnUnackedType, BoundsType DEF TypeOK, ConnectionLoss
<1>3. ASSUME NEW k \in Tasks, HandlerStep(k) PROVE TypeOK'
  <2> USE MarkerParts
  <2>1. CASE FlushDrained(k)
    BY <2>1 DEF TypeOK, FlushDrained
  <2>2. CASE FlushIncomplete(k)
    BY <2>2, BoundsType DEF TypeOK, FlushIncomplete
  <2>3. CASE AcquireLatch(k)
    BY <2>3 DEF TypeOK, AcquireLatch
  <2>4. CASE _load_extraction_signals(k)
    BY <2>4 DEF TypeOK, _load_extraction_signals
  <2>5. CASE _persist_extraction_signals(k)
    BY <2>5 DEF TypeOK, _persist_extraction_signals
  <2>6. CASE PublishCache(k)
    BY <2>6 DEF TypeOK, PublishCache, ReleaseLock
  <2>7. CASE LatchWriteFailed(k)
    BY <2>7, BoundsType DEF TypeOK, LatchWriteFailed, ReleaseLock
  <2>8. CASE _is_extraction_maintained(k)
    BY <2>8 DEF TypeOK, _is_extraction_maintained
  <2>9. CASE MaintenanceStateUnreadable(k)
    BY <2>9, BoundsType DEF TypeOK, MaintenanceStateUnreadable
  <2>10. CASE Ack(k)
    BY <2>10 DEF TypeOK, Ack
  <2>11. CASE AckLost(k)
    BY <2>11, ReturnUnackedType, BoundsType DEF TypeOK, AckLost
  <2>12. CASE StartMaintenance(k)
    BY <2>12 DEF TypeOK, StartMaintenance, start_post_import_maintenance
  <2>13. CASE requeue_marker(k)
    BY <2>13 DEF TypeOK, requeue_marker
  <2> QED
    BY <1>3, <2>1, <2>2, <2>3, <2>4, <2>5, <2>6, <2>7, <2>8, <2>9, <2>10,
       <2>11, <2>12, <2>13 DEF HandlerStep
<1>4. ASSUME PassStep PROVE TypeOK'
  BY <1>4, BoundsType DEF TypeOK, PassStep, _stamp_maintenance_success,
     _record_maintenance_failure, FailureNotRecorded
<1>5. ASSUME BootStep PROVE TypeOK'
  BY <1>5, BoundsType DEF TypeOK, BootStep, Restart, _latest_extraction_version,
     resume_pending_maintenance, start_post_import_maintenance, ResumeUnreadable
<1>6. ASSUME Crash PROVE TypeOK'
  BY <1>6, ReturnUnackedType, BoundsType DEF TypeOK, Crash, ReleaseLock
<1>7. CASE UNCHANGED vars
  BY <1>7 DEF TypeOK, vars
<1> QED
  BY <1>1, <1>2, <1>3, <1>4, <1>5, <1>6, <1>7 DEF Next

\* Every reachable state of the broker, the node, the handlers and the latch is well
\* typed: a running handler always holds the marker it was delivered.
THEOREM TypeCorrect == Spec => []TypeOK
  BY InitTypeOK, StepTypeOK, PTL DEF Spec

(***************************************************************************)
(* The latch invariant.                                                    *)
(***************************************************************************)
\* A process that has just started holds no lock, no cache and no handler.
LEMMA InitLatchInv == Init => LatchInv
  BY NoneAssumption DEF Init, LatchInv, HoldsLatch, OnNode, CacheNeverAheadOfNode,
     AckedSignalIsDurable, MaintenanceOnlyAfterAllSignals, Complete, VersionOf, TypeOf

\* Between two equal sets there is no other.
LEMMA Squeezed ==
    ASSUME NEW A, NEW B, NEW C, A \subseteq B, B \subseteq C, A = C
    PROVE  B = C
  OBVIOUS

\* LatchInv is kept by every step of the broker, the handlers, the pass and the start-up.
LEMMA StepLatchInv == TypeOK /\ LatchInv /\ [Next]_vars => LatchInv'
<1> SUFFICES ASSUME TypeOK, LatchInv, [Next]_vars PROVE LatchInv'
  OBVIOUS
<1> USE NoneAssumption
    DEF brokerVars, nodeVars, taskVars, latchVars, passVars, boundVars, TypeOK,
        LatchInv, HoldsLatch, OnNode, CacheNeverAheadOfNode, AckedSignalIsDurable,
        MaintenanceOnlyAfterAllSignals, Complete, VersionOf, TypeOf
<1>1. ASSUME NEW m \in Markers, NEW k \in Tasks, Deliver(m, k) PROVE LatchInv'
  BY <1>1 DEF Deliver, Goto
<1>2. ASSUME ConnectionLoss PROVE LatchInv'
  BY <1>2 DEF ConnectionLoss, ReturnUnacked, Loss
<1>3. ASSUME NEW k \in Tasks, HandlerStep(k) PROVE LatchInv'
  <2> USE MarkerParts DEF Suspend, Goto, Return, Fault, Loss, ReturnUnacked, ReleaseLock
  <2>1. CASE FlushDrained(k)
    BY <2>1 DEF FlushDrained
  <2>2. CASE FlushIncomplete(k)
    BY <2>2 DEF FlushIncomplete
  <2>3. CASE AcquireLatch(k)
    BY <2>3 DEF AcquireLatch
  <2>4. CASE _load_extraction_signals(k)
    BY <2>4 DEF _load_extraction_signals
  <2>5. CASE _persist_extraction_signals(k)
    BY <2>5 DEF _persist_extraction_signals
  <2>6. CASE PublishCache(k)
    <3>0. pc[k] = "committed"
      BY <2>6 DEF PublishCache
    <3>1. /\ VersionOf(k) \in Versions
          /\ TypeOf(k) \in signals[VersionOf(k)]
          /\ candidate[k] \subseteq signals[VersionOf(k)]
      BY <3>0
    <3>2. signals[VersionOf(k)] \subseteq DATA_TYPES
      BY <3>1
    <3>3. candidate[k] = DATA_TYPES => signals[VersionOf(k)] = DATA_TYPES
      BY <3>1, <3>2, Squeezed
    <3>4. \A j \in Tasks : j # k => ~HoldsLatch(j)
      BY <2>6 DEF PublishCache
    <3> QED
      BY <2>6, <3>1, <3>3, <3>4 DEF PublishCache
  <2>7. CASE LatchWriteFailed(k)
    BY <2>7 DEF LatchWriteFailed
  <2>8. CASE _is_extraction_maintained(k)
    BY <2>8 DEF _is_extraction_maintained
  <2>9. CASE MaintenanceStateUnreadable(k)
    BY <2>9 DEF MaintenanceStateUnreadable
  <2>10. CASE Ack(k)
    BY <2>10 DEF Ack
  <2>11. CASE AckLost(k)
    BY <2>11 DEF AckLost
  <2>12. CASE StartMaintenance(k)
    BY <2>12 DEF StartMaintenance, start_post_import_maintenance
  <2>13. CASE requeue_marker(k)
    BY <2>13 DEF requeue_marker
  <2> QED
    BY <1>3, <2>1, <2>2, <2>3, <2>4, <2>5, <2>6, <2>7, <2>8, <2>9, <2>10,
       <2>11, <2>12, <2>13 DEF HandlerStep
<1>4. ASSUME PassStep PROVE LatchInv'
  BY <1>4 DEF PassStep, _stamp_maintenance_success, Fault,
     _record_maintenance_failure, FailureNotRecorded
<1>5. ASSUME BootStep PROVE LatchInv'
  BY <1>5 DEF BootStep, Restart, _latest_extraction_version, Fault,
     resume_pending_maintenance, start_post_import_maintenance, ResumeUnreadable
<1>6. ASSUME Crash PROVE LatchInv'
  BY <1>6 DEF Crash, ReleaseLock, ReturnUnacked
<1>7. CASE UNCHANGED vars
  BY <1>7 DEF vars
<1> QED
  BY <1>1, <1>2, <1>3, <1>4, <1>5, <1>6, <1>7 DEF Next

(***************************************************************************)
(* The cache forgets no signal that passed the latch.                      *)
(***************************************************************************)
\* A process that has just started has no cache and no candidate.
LEMMA InitNoneForgotten == Init => NoneForgotten
  BY DEF Init, NoneForgotten

\* What is past the latch is on the node.
LEMMA PassedIsOnNode ==
    ASSUME TypeOK, LatchInv, NEW v \in Versions
    PROVE  Passed(v) \subseteq signals[v]
<1> SUFFICES ASSUME NEW t \in Passed(v) PROVE t \in signals[v]
  OBVIOUS
<1>1. t \in DATA_TYPES /\ <<v, t>> \in Markers
  BY DEF Passed, Markers
<1>2. CASE broker[<<v, t>>] = "acked"
  BY <1>1, <1>2 DEF LatchInv, AckedSignalIsDurable
<1>3. ASSUME NEW k \in Tasks, pc[k] \in {"state", "ack", "trigger"}, marker[k] = <<v, t>>
      PROVE  t \in signals[v]
  BY <1>3 DEF LatchInv, OnNode, VersionOf, TypeOf
<1> QED
  BY <1>2, <1>3 DEF Passed

\* Only a handler that publishes its candidate passes the latch, and with its own marker.
LEMMA PassedGrowth ==
    ASSUME TypeOK, LatchInv, [Next]_vars, NEW v \in Versions
    PROVE  \/ Passed(v)' \subseteq Passed(v)
           \/ \E k \in Tasks : /\ PublishCache(k)
                              /\ Passed(v)' \subseteq
                                     Passed(v) \cup {t \in {TypeOf(k)} : VersionOf(k) = v}
<1> USE DEF TypeOK, brokerVars, taskVars
<1>a. ASSUME \A t \in DATA_TYPES : broker'[<<v, t>>] = "acked" => t \in Passed(v),
             \A t \in DATA_TYPES, j \in Tasks :
                 pc'[j] \in {"state", "ack", "trigger"} /\ marker'[j] = <<v, t>> => t \in Passed(v)
      PROVE  Passed(v)' \subseteq Passed(v)
  BY <1>a DEF Passed
<1>b. \A t \in DATA_TYPES : <<v, t>> \in Markers
  BY DEF Markers
<1>1. ASSUME NEW m \in Markers, NEW k \in Tasks, Deliver(m, k) PROVE Passed(v)' \subseteq Passed(v)
  BY <1>1, <1>a, <1>b DEF Deliver, Goto, Passed
<1>2. ASSUME ReturnUnacked, UNCHANGED <<pc, marker>> PROVE Passed(v)' \subseteq Passed(v)
  BY <1>2, <1>a, <1>b DEF ReturnUnacked, Passed
<1>3. ASSUME NEW k \in Tasks, HandlerStep(k), ~PublishCache(k) PROVE Passed(v)' \subseteq Passed(v)
  <2> USE DEF Suspend, Goto, Return
  <2>1. CASE FlushDrained(k) \/ FlushIncomplete(k)
    BY <2>1, <1>a, <1>b DEF FlushDrained, FlushIncomplete, Passed
  <2>2. CASE AcquireLatch(k) \/ _load_extraction_signals(k)
    BY <2>2, <1>a, <1>b DEF AcquireLatch, _load_extraction_signals, Passed
  <2>3. CASE _persist_extraction_signals(k) \/ LatchWriteFailed(k)
    BY <2>3, <1>a, <1>b DEF _persist_extraction_signals, LatchWriteFailed, Passed
  <2>4. CASE _is_extraction_maintained(k) \/ MaintenanceStateUnreadable(k)
    BY <2>4, <1>a, <1>b DEF _is_extraction_maintained, MaintenanceStateUnreadable, Passed
  <2>5. CASE Ack(k)
    <3>1. \A t \in DATA_TYPES : broker'[<<v, t>>] = "acked" => t \in Passed(v)
      BY <2>5, <1>b DEF Ack, Passed
    <3> QED
      BY <2>5, <3>1, <1>a, <1>b DEF Ack, Passed
  <2>6. CASE AckLost(k)
    BY <2>6, <1>a, <1>b DEF AckLost, ReturnUnacked, Passed
  <2>7. CASE StartMaintenance(k)
    BY <2>7, <1>a, <1>b DEF StartMaintenance, Passed
  <2>8. CASE requeue_marker(k)
    BY <2>8, <1>a, <1>b DEF requeue_marker, Passed
  <2> QED
    BY <1>3, <2>1, <2>2, <2>3, <2>4, <2>5, <2>6, <2>7, <2>8 DEF HandlerStep
<1>4. ASSUME NEW k \in Tasks, PublishCache(k)
      PROVE  Passed(v)' \subseteq Passed(v) \cup {t \in {TypeOf(k)} : VersionOf(k) = v}
  <2>1. UNCHANGED <<broker, marker>> /\ \A j \in Tasks : j # k => pc'[j] = pc[j]
    BY <1>4 DEF PublishCache, Suspend, Goto
  <2>2. \A t \in DATA_TYPES : marker[k] = <<v, t>> => VersionOf(k) = v /\ TypeOf(k) = t
    BY DEF VersionOf, TypeOf
  <2> QED
    BY <2>1, <2>2 DEF Passed
<1>5. CASE UNCHANGED <<broker, pc, marker>>
  BY <1>5 DEF Passed
<1>6. CASE PassStep \/ BootStep \/ UNCHANGED vars
  BY <1>5, <1>6 DEF PassStep, _stamp_maintenance_success, _record_maintenance_failure,
     FailureNotRecorded, BootStep, Restart, _latest_extraction_version,
     resume_pending_maintenance, ResumeUnreadable, vars
<1>7. CASE ConnectionLoss
  BY <1>2, <1>7 DEF ConnectionLoss
<1>8. CASE Crash
  BY <1>8, <1>a, <1>b DEF Crash, ReturnUnacked, Passed
<1> QED
  BY <1>1, <1>3, <1>4, <1>6, <1>7, <1>8 DEF Next

\* NoneForgotten is kept: a candidate starts from the cache or the node, the lock keeps
\* others from passing meanwhile, and publishing it makes it the cache.
LEMMA StepNoneForgotten == TypeOK /\ LatchInv /\ NoneForgotten /\ [Next]_vars => NoneForgotten'
<1> SUFFICES ASSUME TypeOK, LatchInv, NoneForgotten, [Next]_vars PROVE NoneForgotten'
  OBVIOUS
<1> USE DEF brokerVars, nodeVars, taskVars, latchVars, passVars, boundVars
<1>a. ASSUME \A v \in Versions : Passed(v)' \subseteq Passed(v),
             UNCHANGED <<extraction_complete_version, extraction_complete_signals>>
                 \/ extraction_complete_version' = None,
             \A k \in Tasks : pc'[k] \in {"persist", "committed"} =>
                 /\ VersionOf(k)' \in Versions
                 /\ Passed(VersionOf(k)') \subseteq candidate'[k]
      PROVE  NoneForgotten'
  <2>1. extraction_complete_version' # None =>
            Passed(extraction_complete_version)' \subseteq extraction_complete_signals'
    BY <1>a DEF NoneForgotten, TypeOK
  <2>2. ASSUME NEW k \in Tasks, pc'[k] \in {"persist", "committed"}
        PROVE  Passed(VersionOf(k))' \subseteq candidate'[k]
    <3>1. PICK v \in Versions : v = VersionOf(k)'
      BY <1>a, <2>2
    <3>2. Passed(v)' \subseteq candidate'[k]
      BY <1>a, <2>2, <3>1
    <3> QED
      BY <3>1, <3>2 DEF Passed
  <2> QED
    BY <2>1, <2>2 DEF NoneForgotten
<1>b. ASSUME NEW k \in Tasks, pc'[k] \in {"persist", "committed"}, pc[k] \in {"persist", "committed"},
             marker'[k] = marker[k], candidate'[k] = candidate[k]
      PROVE  VersionOf(k)' \in Versions /\ Passed(VersionOf(k)') \subseteq candidate'[k]
  BY <1>b, MarkerParts DEF NoneForgotten, VersionOf
<1>1. CASE \E k \in Tasks : PublishCache(k)
  <2>1. PICK k \in Tasks : PublishCache(k)
    BY <1>1
  <2>2. /\ pc[k] = "committed" /\ VersionOf(k) \in Versions /\ TypeOf(k) \in candidate[k]
        /\ Passed(VersionOf(k)) \subseteq candidate[k]
    BY <2>1, MarkerParts DEF PublishCache, LatchInv, NoneForgotten
  <2>3. \A j \in Tasks : ~(pc'[j] \in {"persist", "committed"})
    BY <2>1, NoneAssumption DEF PublishCache, Suspend, Goto, LatchInv, HoldsLatch, TypeOK
  <2>4. extraction_complete_signals' = candidate[k] /\ extraction_complete_version' = VersionOf(k)
    BY <2>1 DEF PublishCache
  <2>5. PICK v \in Versions : v = VersionOf(k)
    BY <2>2
  <2>6. Passed(v)' \subseteq candidate[k]
    <3>1. CASE Passed(v)' \subseteq Passed(v)
      BY <2>2, <2>5, <3>1
    <3>2. ASSUME NEW j \in Tasks, PublishCache(j),
                 Passed(v)' \subseteq Passed(v) \cup {t \in {TypeOf(j)} : VersionOf(j) = v}
          PROVE  Passed(v)' \subseteq candidate[k]
      <4>1. j = k
        BY <2>1, <3>2 DEF PublishCache, LatchInv, HoldsLatch
      <4> QED
        BY <2>2, <2>5, <3>2, <4>1
    <3> QED
      BY <3>1, <3>2, PassedGrowth
  <2> QED
    BY <2>3, <2>4, <2>5, <2>6 DEF NoneForgotten, Passed
<1>2. CASE ~\E k \in Tasks : PublishCache(k)
  <2>1. \A v \in Versions : Passed(v)' \subseteq Passed(v)
    BY <1>2, PassedGrowth
  <2>2. ASSUME NEW m \in Markers, NEW j \in Tasks, Deliver(m, j) PROVE NoneForgotten'
    <3>1. \A k \in Tasks : pc'[k] \in {"persist", "committed"} =>
               pc[k] = pc'[k] /\ marker'[k] = marker[k] /\ candidate'[k] = candidate[k]
      BY <2>2 DEF Deliver, Goto, TypeOK
    <3> QED
      BY <2>1, <2>2, <3>1, <1>a, <1>b DEF Deliver
  <2>3. ASSUME NEW j \in Tasks, HandlerStep(j) PROVE NoneForgotten'
    <3>1. UNCHANGED <<extraction_complete_version, extraction_complete_signals>>
      BY <1>2, <2>3 DEF HandlerStep, FlushDrained, FlushIncomplete, AcquireLatch,
         _load_extraction_signals, _persist_extraction_signals, LatchWriteFailed,
         _is_extraction_maintained, MaintenanceStateUnreadable, Ack, AckLost, StartMaintenance,
         requeue_marker
    <3>2. ASSUME NEW k \in Tasks, pc'[k] \in {"persist", "committed"}
          PROVE  VersionOf(k)' \in Versions /\ Passed(VersionOf(k)') \subseteq candidate'[k]
      <4> USE DEF Suspend, Goto, Return, TypeOK
      <4>1. CASE AcquireLatch(j)
        <5>1. CASE k = j
          <6>1. /\ VersionOf(k) = extraction_complete_version /\ marker'[k] = marker[k]
                /\ candidate'[k] = extraction_complete_signals \cup {TypeOf(k)}
                /\ pc[k] = "latch"
            BY <4>1, <5>1, <3>2 DEF AcquireLatch
          <6>2. VersionOf(k) \in Versions /\ VersionOf(k) # None
            BY <6>1, MarkerParts, NoneAssumption
          <6> QED
            BY <6>1, <6>2 DEF NoneForgotten, VersionOf
        <5>2. CASE k # j
          BY <4>1, <5>2, <3>2, <1>b DEF AcquireLatch
        <5> QED
          BY <5>1, <5>2
      <4>2. CASE _load_extraction_signals(j)
        <5>1. CASE k = j
          <6>1. /\ marker'[k] = marker[k] /\ pc[k] = "load"
                /\ candidate'[k] = signals[VersionOf(k)] \cup {TypeOf(k)}
            BY <4>2, <5>1 DEF _load_extraction_signals
          <6>2. VersionOf(k) \in Versions
            BY <6>1, MarkerParts
          <6> QED
            BY <6>1, <6>2, PassedIsOnNode DEF VersionOf
        <5>2. CASE k # j
          BY <4>2, <5>2, <3>2, <1>b DEF _load_extraction_signals
        <5> QED
          BY <5>1, <5>2
      <4>3. CASE _persist_extraction_signals(j)
        BY <4>3, <3>2, <1>b DEF _persist_extraction_signals
      <4>4. CASE FlushDrained(j) \/ FlushIncomplete(j) \/ LatchWriteFailed(j)
                 \/ _is_extraction_maintained(j) \/ MaintenanceStateUnreadable(j)
        BY <4>4, <3>2, <1>b
           DEF FlushDrained, FlushIncomplete, LatchWriteFailed, _is_extraction_maintained,
               MaintenanceStateUnreadable
      <4>5. CASE Ack(j)
        BY <4>5, <3>2, <1>b DEF Ack
      <4>6. CASE AckLost(j)
        BY <4>6, <3>2, <1>b DEF AckLost
      <4>7. CASE StartMaintenance(j) \/ requeue_marker(j)
        BY <4>7, <3>2, <1>b DEF StartMaintenance, requeue_marker
      <4> QED
        BY <1>2, <2>3, <4>1, <4>2, <4>3, <4>4, <4>5, <4>6, <4>7 DEF HandlerStep
    <3> QED
      BY <2>1, <3>1, <3>2, <1>a
  <2>4. CASE PassStep \/ BootStep \/ ConnectionLoss \/ UNCHANGED vars
    <3>1. UNCHANGED <<pc, marker, candidate, extraction_complete_version, extraction_complete_signals>>
      BY <2>4 DEF PassStep, _stamp_maintenance_success, _record_maintenance_failure,
         FailureNotRecorded, BootStep, Restart, _latest_extraction_version,
         resume_pending_maintenance, ResumeUnreadable, ConnectionLoss, vars
    <3> QED
      BY <2>1, <3>1, <1>a, <1>b
  <2>5. CASE Crash
    <3>1. extraction_complete_version' = None /\ \A k \in Tasks : pc'[k] = "idle"
      BY <2>5 DEF Crash
    <3> QED
      BY <3>1, <2>1, <1>a
  <2> QED
    BY <2>2, <2>3, <2>4, <2>5 DEF Next
<1> QED
  BY <1>1, <1>2

\* The lock has the one holder that is inside _record_extraction_signal, and a handler past
\* its commit has its signal on the node: the fact every other theorem rests on.
THEOREM LatchInvariant == Spec => []Inv
<1>1. Init => LatchInv
  BY InitLatchInv
<1>2. TypeOK /\ TypeOK' /\ LatchInv /\ [Next]_vars => LatchInv'
  BY StepLatchInv
<1> QED
  BY <1>1, <1>2, InitNoneForgotten, StepNoneForgotten, TypeCorrect, PTL DEF Spec, Inv

\* A marker leaves its queue only with its signal on the version's node
\* (check_file_completion acks after _record_extraction_signal returned).
THEOREM AckedSignalsAreDurable == Spec => []AckedSignalIsDurable
<1>1. Inv => AckedSignalIsDurable
  BY DEF Inv, LatchInv
<1> QED
  BY <1>1, LatchInvariant, PTL

\* The module-global cache never shows a signal the node lacks, for its version.
THEOREM CacheFollowsNode == Spec => []CacheNeverAheadOfNode
<1>1. Inv => CacheNeverAheadOfNode
  BY DEF Inv, LatchInv
<1> QED
  BY <1>1, LatchInvariant, PTL

\* No pass starts, stamps or fails before all of its dump's signals are recorded,
\* through either start: the last marker's handler or resume_pending_maintenance.
THEOREM MaintenanceWaitsForAllSignals == Spec => []MaintenanceOnlyAfterAllSignals
<1>1. Inv => MaintenanceOnlyAfterAllSignals
  BY DEF Inv, LatchInv
<1> QED
  BY <1>1, LatchInvariant, PTL

(***************************************************************************)
(* The stamp.                                                              *)
(***************************************************************************)
\* Only the pass in the slot writes maintained_at and maintenance_status.
LEMMA OnlyPassStamps ==
    ASSUME [Next]_vars
    PROVE  PassStep \/ UNCHANGED <<maintained, failed>>
<1> USE DEF nodeVars
<1>1. ASSUME NEW m \in Markers, NEW k \in Tasks, Deliver(m, k)
      PROVE  UNCHANGED <<maintained, failed>>
  BY <1>1 DEF Deliver
<1>2. ASSUME NEW k \in Tasks, HandlerStep(k)
      PROVE  UNCHANGED <<maintained, failed>>
  BY <1>2 DEF HandlerStep, FlushDrained, FlushIncomplete, AcquireLatch,
     _load_extraction_signals, _persist_extraction_signals, PublishCache,
     LatchWriteFailed, _is_extraction_maintained, MaintenanceStateUnreadable,
     Ack, AckLost, StartMaintenance, requeue_marker
<1>3. ASSUME BootStep \/ ConnectionLoss \/ Crash
      PROVE  UNCHANGED <<maintained, failed>>
  BY <1>3 DEF BootStep, Restart, _latest_extraction_version,
     resume_pending_maintenance, ResumeUnreadable, ConnectionLoss, Crash
<1>4. CASE UNCHANGED vars
  BY <1>4 DEF vars
<1> QED
  BY <1>1, <1>2, <1>3, <1>4 DEF Next

\* _record_maintenance_failure's WHERE m.maintained_at IS NULL and the REMOVE in
\* _stamp_maintenance_success keep a failure and a stamp apart in any order.
THEOREM StampExcludesFailure == Spec => []FailureNeverBesideStamp
<1>1. Init => FailureNeverBesideStamp
  BY DEF Init, FailureNeverBesideStamp
<1>2. TypeOK /\ FailureNeverBesideStamp /\ [Next]_vars => FailureNeverBesideStamp'
  <2> SUFFICES ASSUME TypeOK, FailureNeverBesideStamp, [Next]_vars
               PROVE  FailureNeverBesideStamp'
    OBVIOUS
  <2>1. CASE PassStep
    BY <2>1 DEF PassStep, _stamp_maintenance_success, _record_maintenance_failure,
       FailureNotRecorded, FailureNeverBesideStamp, TypeOK, nodeVars
  <2>2. CASE UNCHANGED <<maintained, failed>>
    BY <2>2 DEF FailureNeverBesideStamp
  <2> QED
    BY <2>1, <2>2, OnlyPassStamps
<1> QED
  BY <1>1, <1>2, TypeCorrect, PTL DEF Spec

(***************************************************************************)
(* Nothing committed is taken back.                                        *)
(***************************************************************************)
\* Only a handler's persist writes m.signals, and it writes the union.
LEMMA OnlyPersistWritesSignals ==
    ASSUME [Next]_vars
    PROVE  \/ \E k \in Tasks : _persist_extraction_signals(k)
           \/ UNCHANGED signals
<1> USE DEF nodeVars
<1>1. ASSUME NEW m \in Markers, NEW k \in Tasks, Deliver(m, k)
      PROVE  UNCHANGED signals
  BY <1>1 DEF Deliver
<1>2. ASSUME NEW k \in Tasks, HandlerStep(k)
      PROVE  _persist_extraction_signals(k) \/ UNCHANGED signals
  BY <1>2 DEF HandlerStep, FlushDrained, FlushIncomplete, AcquireLatch,
     _load_extraction_signals, PublishCache,
     LatchWriteFailed, _is_extraction_maintained, MaintenanceStateUnreadable,
     Ack, AckLost, StartMaintenance, requeue_marker
<1>3. ASSUME PassStep \/ BootStep \/ ConnectionLoss \/ Crash
      PROVE  UNCHANGED signals
  BY <1>3 DEF PassStep, _stamp_maintenance_success, _record_maintenance_failure,
     FailureNotRecorded, BootStep, Restart, _latest_extraction_version,
     resume_pending_maintenance, ResumeUnreadable, ConnectionLoss, Crash
<1>4. CASE UNCHANGED vars
  BY <1>4 DEF vars
<1> QED
  BY <1>1, <1>2, <1>3, <1>4 DEF Next

(***************************************************************************)
(* Signals and their dumps.                                                *)
(***************************************************************************)
\* What a handler is working on was received.
HandledWasReceived == \A k \in Tasks : pc[k] # "idle" => Received(marker[k])

\* A received marker stays received: what is returned to its queue is counted.
LEMMA ReceivedStays ==
    ASSUME TypeOK, [Next]_vars, NEW m \in Markers, Received(m)
    PROVE  Received(m)'
<1> USE DEF Received, TypeOK, BrokerStates, brokerVars
<1>1. ASSUME NEW n \in Markers, NEW k \in Tasks, Deliver(n, k) PROVE Received(m)'
  BY <1>1 DEF Deliver
<1>2. ASSUME ReturnUnacked PROVE Received(m)'
  BY <1>2 DEF ReturnUnacked
<1>3. ASSUME NEW k \in Tasks, HandlerStep(k) PROVE Received(m)'
  <2>1. CASE Ack(k)
    BY <2>1 DEF Ack
  <2>2. CASE AckLost(k)
    BY <2>2, <1>2 DEF AckLost
  <2>3. CASE requeue_marker(k)
    BY <2>3 DEF requeue_marker
  <2>4. CASE UNCHANGED brokerVars
    BY <2>4
  <2> QED
    BY <1>3, <2>1, <2>2, <2>3, <2>4 DEF HandlerStep, FlushDrained, FlushIncomplete,
       AcquireLatch, _load_extraction_signals, _persist_extraction_signals, PublishCache,
       LatchWriteFailed, _is_extraction_maintained, MaintenanceStateUnreadable,
       StartMaintenance
<1>4. CASE PassStep \/ BootStep
  BY <1>4 DEF PassStep, _stamp_maintenance_success, _record_maintenance_failure,
     FailureNotRecorded, BootStep, Restart, _latest_extraction_version,
     resume_pending_maintenance, ResumeUnreadable
<1>5. CASE ConnectionLoss \/ Crash
  BY <1>5, <1>2 DEF ConnectionLoss, Crash
<1>6. CASE UNCHANGED vars
  BY <1>6 DEF vars
<1> QED
  BY <1>1, <1>3, <1>4, <1>5, <1>6 DEF Next

\* A handler keeps its delivery, or has just been given one.
LEMMA HandledStays ==
    ASSUME TypeOK, [Next]_vars, NEW j \in Tasks, pc'[j] # "idle"
    PROVE  \/ pc[j] # "idle" /\ marker'[j] = marker[j]
           \/ marker'[j] \in Markers /\ broker'[marker'[j]] = "out"
<1> USE DEF TypeOK, taskVars
<1>1. ASSUME NEW m \in Markers, NEW k \in Tasks, Deliver(m, k)
      PROVE  \/ pc[j] # "idle" /\ marker'[j] = marker[j]
             \/ marker'[j] \in Markers /\ broker'[marker'[j]] = "out"
  BY <1>1 DEF Deliver, Goto
<1>2. ASSUME NEW k \in Tasks, HandlerStep(k)
      PROVE  pc[j] # "idle" /\ marker'[j] = marker[j]
  <2> USE DEF Suspend, Goto, Return
  <2>1. CASE FlushDrained(k) \/ FlushIncomplete(k)
    BY <2>1 DEF FlushDrained, FlushIncomplete
  <2>2. CASE AcquireLatch(k) \/ _load_extraction_signals(k)
    BY <2>2 DEF AcquireLatch, _load_extraction_signals
  <2>3. CASE _persist_extraction_signals(k) \/ PublishCache(k) \/ LatchWriteFailed(k)
    BY <2>3 DEF _persist_extraction_signals, PublishCache, LatchWriteFailed
  <2>4. CASE _is_extraction_maintained(k) \/ MaintenanceStateUnreadable(k)
    BY <2>4 DEF _is_extraction_maintained, MaintenanceStateUnreadable
  <2>5. CASE Ack(k)
    BY <2>5 DEF Ack
  <2>6. CASE AckLost(k)
    BY <2>6 DEF AckLost
  <2>7. CASE StartMaintenance(k)
    BY <2>7 DEF StartMaintenance
  <2>8. CASE requeue_marker(k)
    BY <2>8 DEF requeue_marker
  <2> QED
    BY <1>2, <2>1, <2>2, <2>3, <2>4, <2>5, <2>6, <2>7, <2>8 DEF HandlerStep
<1>3. CASE PassStep \/ BootStep
  BY <1>3 DEF PassStep, _stamp_maintenance_success, _record_maintenance_failure,
     FailureNotRecorded, BootStep, Restart, _latest_extraction_version,
     resume_pending_maintenance, ResumeUnreadable
<1>4. CASE ConnectionLoss
  BY <1>4 DEF ConnectionLoss
<1>5. CASE Crash
  BY <1>5 DEF Crash
<1>6. CASE UNCHANGED vars
  BY <1>6 DEF vars
<1> QED
  BY <1>1, <1>2, <1>3, <1>4, <1>5, <1>6 DEF Next

\* A dump's latch counts only markers of that dump that were received, although the cache
\* is shared by the handlers of every dump and returned markers are delivered again.
THEOREM SignalsAreTheirDumps == Spec => []SignalsStayWithTheirDump
<1> DEFINE Kept == HandledWasReceived /\ SignalsStayWithTheirDump
<1>1. Init => Kept
  BY DEF Init, HandledWasReceived, SignalsStayWithTheirDump, Markers
<1>2. Inv /\ Kept /\ [Next]_vars => Kept'
  <2> SUFFICES ASSUME TypeOK, LatchInv, Kept, [Next]_vars PROVE Kept'
    BY DEF Inv
  <2>1. \A m \in Markers : Received(m) => Received(m)'
    BY ReceivedStays
  <2>2. ASSUME NEW j \in Tasks, pc'[j] # "idle" PROVE Received(marker[j])'
    <3>1. CASE pc[j] # "idle" /\ marker'[j] = marker[j]
      <4>1. marker[j] \in Markers /\ Received(marker[j])
        BY <3>1, MarkerParts DEF HandledWasReceived
      <4> QED
        BY <4>1, <3>1, <2>1 DEF Received
    <3>2. CASE marker'[j] \in Markers /\ broker'[marker'[j]] = "out"
      BY <3>2 DEF Received
    <3> QED
      BY <2>2, <3>1, <3>2, HandledStays
  <2>3. ASSUME NEW m \in Markers, m[2] \in signals'[m[1]] PROVE Received(m)'
    <3>1. CASE m[2] \in signals[m[1]]
      BY <3>1, <2>1 DEF SignalsStayWithTheirDump
    <3>2. CASE m[2] \notin signals[m[1]]
      <4>1. PICK k \in Tasks : _persist_extraction_signals(k)
        BY <2>3, <3>2, OnlyPersistWritesSignals
      <4>2. pc[k] = "persist"
        BY <4>1 DEF _persist_extraction_signals
      <4>3. /\ marker[k] = <<VersionOf(k), TypeOf(k)>>
            /\ marker[k] \in Markers /\ VersionOf(k) \in Versions
        BY <4>2, MarkerParts
      <4>4. candidate[k] \subseteq signals[VersionOf(k)] \cup {TypeOf(k)}
        BY <4>2 DEF LatchInv
      <4>5. m[1] = VersionOf(k) /\ m[2] = TypeOf(k)
        BY <2>3, <3>2, <4>1, <4>3, <4>4 DEF _persist_extraction_signals, TypeOK, Markers
      <4>6. m = marker[k]
        BY <4>3, <4>5 DEF Markers
      <4>7. Received(marker[k])
        BY <4>2 DEF HandledWasReceived
      <4> QED
        BY <4>6, <4>7, <2>1
    <3> QED
      BY <3>1, <3>2
  <2> QED
    BY <2>2, <2>3 DEF HandledWasReceived, SignalsStayWithTheirDump
<1>3. Kept => SignalsStayWithTheirDump
  OBVIOUS
<1> QED
  BY <1>1, <1>2, <1>3, LatchInvariant, PTL DEF Spec

(***************************************************************************)
(* A completed dump has an owner, when dumps do not overlap.               *)
(***************************************************************************)
\* What stands for an outcome, or for somebody who still owes one.
Owned(v) == maintained[v] \/ failed[v] \/ alarmed \/ OwedMaintenance(v)

\* A dump whose acks are all in or in sight has every signal on its node.
LEMMA AcksAreOnNode ==
    ASSUME TypeOK, LatchInv, NEW v \in Versions, AcksInSight(v)
    PROVE  Complete(v) /\ Passed(v) = DATA_TYPES
<1>1. DATA_TYPES \subseteq Passed(v)
  BY DEF AcksInSight, Passed
<1>2. Passed(v) \subseteq signals[v]
  BY PassedIsOnNode
<1> QED
  BY <1>1, <1>2 DEF TypeOK, Complete, Passed

\* A new ack comes in sight only through a handler that read a maintained node, the one
\* that goes on to start the pass, or one that found its dump incomplete.
LEMMA AcksComeInSight ==
    ASSUME TypeOK, LatchInv, [Next]_vars, NEW v \in Versions, AcksInSight(v)'
    PROVE  \/ AcksInSight(v)
           \/ \E k \in Tasks :
                 /\ pc[k] # "idle" /\ VersionOf(k) = v
                 /\ \/ PublishCache(k) /\ candidate[k] # DATA_TYPES
                    \/ _is_extraction_maintained(k) /\ maintained[v]
                    \/ Ack(k) /\ pc'[k] = "start" /\ marker'[k] = marker[k]
<1> USE DEF TypeOK, brokerVars, taskVars
<1>b. \A t \in DATA_TYPES : <<v, t>> \in Markers
  BY DEF Markers
<1>c. \A t \in DATA_TYPES, k \in Tasks : marker[k] = <<v, t>> => VersionOf(k) = v
  BY DEF VersionOf
<1>a. ASSUME \A t \in DATA_TYPES :
                 broker'[<<v, t>>] = "acked" =>
                     \/ broker[<<v, t>>] = "acked"
                     \/ \E k \in Tasks : live[k] /\ pc[k] = "ack" /\ marker[k] = <<v, t>>,
             \A t \in DATA_TYPES, j \in Tasks :
                 live'[j] /\ pc'[j] = "ack" /\ marker'[j] = <<v, t>> =>
                     live[j] /\ pc[j] = "ack" /\ marker[j] = <<v, t>>
      PROVE  AcksInSight(v)
  BY <1>a DEF AcksInSight
<1>1. ASSUME NEW m \in Markers, NEW k \in Tasks, Deliver(m, k) PROVE AcksInSight(v)
  BY <1>1, <1>a, <1>b DEF Deliver, Goto
<1>2. ASSUME ReturnUnacked, \A k \in Tasks : ~live'[k] PROVE AcksInSight(v)
  BY <1>2, <1>a, <1>b DEF ReturnUnacked
<1>3. ASSUME NEW k \in Tasks, HandlerStep(k)
      PROVE  \/ AcksInSight(v)
             \/ /\ pc[k] # "idle" /\ VersionOf(k) = v
                /\ \/ PublishCache(k) /\ candidate[k] # DATA_TYPES
                   \/ _is_extraction_maintained(k) /\ maintained[v]
                   \/ Ack(k) /\ pc'[k] = "start" /\ marker'[k] = marker[k]
  <2> USE DEF Suspend, Goto, Return
  <2>1. CASE FlushDrained(k) \/ FlushIncomplete(k)
    BY <2>1, <1>a, <1>b DEF FlushDrained, FlushIncomplete
  <2>2. CASE AcquireLatch(k) \/ _load_extraction_signals(k)
    BY <2>2, <1>a, <1>b DEF AcquireLatch, _load_extraction_signals
  <2>3. CASE _persist_extraction_signals(k) \/ LatchWriteFailed(k) \/ MaintenanceStateUnreadable(k)
    BY <2>3, <1>a, <1>b DEF _persist_extraction_signals, LatchWriteFailed, MaintenanceStateUnreadable
  <2>4. CASE PublishCache(k)
    <3>1. UNCHANGED <<broker, marker, live>> /\ pc[k] = "committed" /\ \A j \in Tasks : j # k => pc'[j] = pc[j]
      BY <2>4 DEF PublishCache
    <3>2. CASE pc'[k] = "ack" /\ VersionOf(k) = v
      BY <2>4, <3>2 DEF PublishCache
    <3>3. CASE ~(pc'[k] = "ack" /\ VersionOf(k) = v)
      BY <3>1, <3>3, <1>a, <1>c
    <3> QED
      BY <3>2, <3>3
  <2>5. CASE _is_extraction_maintained(k)
    <3>1. UNCHANGED <<broker, marker, live>> /\ pc[k] = "state" /\ \A j \in Tasks : j # k => pc'[j] = pc[j]
      BY <2>5 DEF _is_extraction_maintained
    <3>2. CASE pc'[k] = "ack" /\ VersionOf(k) = v
      BY <2>5, <3>2 DEF _is_extraction_maintained
    <3>3. CASE ~(pc'[k] = "ack" /\ VersionOf(k) = v)
      BY <3>1, <3>3, <1>a, <1>c
    <3> QED
      BY <3>2, <3>3
  <2>6. CASE Ack(k)
    <3>1. CASE live[k] /\ pc[k] = "trigger"
      <4>1. /\ pc'[k] = "start" /\ marker' = marker /\ broker' = [broker EXCEPT ![marker[k]] = "acked"]
            /\ ~live'[k] /\ \A j \in Tasks : j # k => pc'[j] = pc[j] /\ live'[j] = live[j]
        BY <2>6, <3>1 DEF Ack
      <4>2. CASE VersionOf(k) = v
        BY <2>6, <3>1, <4>1, <4>2
      <4>3. CASE VersionOf(k) # v
        <5>1. \A t \in DATA_TYPES : marker[k] # <<v, t>>
          BY <4>3, <1>c
        <5> QED
          BY <4>1, <5>1, <1>a, <1>b
      <4> QED
        BY <4>2, <4>3
    <3>2. CASE live[k] /\ pc[k] = "ack"
      <4>1. broker' = [broker EXCEPT ![marker[k]] = "acked"] /\ ~live'[k]
            /\ \A j \in Tasks : j # k => pc'[j] = pc[j] /\ live'[j] = live[j] /\ marker'[j] = marker[j]
        BY <2>6, <3>2 DEF Ack
      <4> QED
        BY <3>2, <4>1, <1>a, <1>b
    <3>3. CASE ~live[k]
      BY <2>6, <3>3, <1>a, <1>b DEF Ack
    <3> QED
      BY <2>6, <3>1, <3>2, <3>3 DEF Ack
  <2>7. CASE AckLost(k)
    <3>1. ReturnUnacked /\ \A j \in Tasks : ~live'[j]
      BY <2>7 DEF AckLost
    <3> QED
      BY <3>1, <1>2
  <2>8. CASE StartMaintenance(k)
    BY <2>8, <1>a, <1>b DEF StartMaintenance
  <2>9. CASE requeue_marker(k)
    BY <2>9, <1>a, <1>b DEF requeue_marker
  <2> QED
    BY <1>3, <2>1, <2>2, <2>3, <2>4, <2>5, <2>6, <2>7, <2>8, <2>9 DEF HandlerStep
<1>4. CASE PassStep \/ BootStep \/ UNCHANGED vars
  <2>1. UNCHANGED <<broker, pc, marker, live>>
    BY <1>4 DEF PassStep, _stamp_maintenance_success, _record_maintenance_failure,
       FailureNotRecorded, BootStep, Restart, _latest_extraction_version,
       resume_pending_maintenance, ResumeUnreadable, vars
  <2> QED
    BY <2>1, <1>a
<1>5. CASE ConnectionLoss \/ Crash
  <2>1. ReturnUnacked /\ \A k \in Tasks : ~live'[k]
    BY <1>5 DEF ConnectionLoss, Crash
  <2> QED
    BY <2>1, <1>2
<1> QED
  BY <1>1, <1>3, <1>4, <1>5 DEF Next

\* An owner hands a complete dump on: a handler or a resume to the pass it starts, a pass to
\* its outcome, a dying process to the next start.  None of it is lost while dumps are apart.
LEMMA OwnerHandsOn ==
    ASSUME TypeOK, LatchInv, DumpsApart, DumpsApart', [Next]_vars,
           NEW v \in Versions, Complete(v), Complete(v)', Owned(v)
    PROVE  Owned(v)'
<1> USE NoneAssumption DEF brokerVars, nodeVars, taskVars, latchVars, passVars, boundVars, TypeOK
<1> DEFINE Unfinished == ~maintained[v] /\ ~failed[v] /\ ~alarmed
           Starter == \E k \in Tasks : pc[k] = "start" /\ VersionOf(k) = v
<1>a. Unfinished => latest = v /\ pass \in {None, v}
  BY DEF DumpsApart
<1>b. Unfinished' => latest' = v /\ pass' \in {None, v}
  BY DEF DumpsApart
<1>c. ASSUME UNCHANGED <<maintained, failed, alarmed, pass, boot, resumed>>, Starter => Starter'
      PROVE  Owned(v)'
  <2>1. CASE Unfinished
    BY <1>a, <1>b, <1>c, <2>1 DEF Owned, OwedMaintenance
  <2>2. CASE ~Unfinished
    BY <1>c, <2>2 DEF Owned
  <2> QED
    BY <2>1, <2>2
<1>d. ASSUME NEW k \in Tasks, \A j \in Tasks : j # k => pc'[j] = pc[j] /\ marker'[j] = marker[j],
             pc[k] # "start"
      PROVE  Starter => Starter'
  BY <1>d DEF VersionOf
<1>1. ASSUME NEW m \in Markers, NEW k \in Tasks, Deliver(m, k) PROVE Owned(v)'
  <2>1. pc[k] # "start" /\ \A j \in Tasks : j # k => pc'[j] = pc[j] /\ marker'[j] = marker[j]
    BY <1>1 DEF Deliver, Goto
  <2> QED
    BY <1>1, <2>1, <1>c, <1>d DEF Deliver
<1>2. CASE ConnectionLoss
  BY <1>2, <1>c DEF ConnectionLoss, VersionOf
<1>3. ASSUME NEW k \in Tasks, HandlerStep(k), ~StartMaintenance(k) PROVE Owned(v)'
  <2>1. UNCHANGED <<maintained, failed, alarmed, pass, boot, resumed>>
    BY <1>3 DEF HandlerStep, FlushDrained, FlushIncomplete, AcquireLatch, PublishCache,
       _load_extraction_signals, _persist_extraction_signals, LatchWriteFailed,
       _is_extraction_maintained, MaintenanceStateUnreadable, Ack, AckLost, requeue_marker
  <2>2. pc[k] # "start" /\ \A j \in Tasks : j # k => pc'[j] = pc[j] /\ marker'[j] = marker[j]
    <3> USE DEF Suspend, Goto, Return
    <3>1. CASE FlushDrained(k) \/ FlushIncomplete(k) \/ AcquireLatch(k) \/ PublishCache(k)
               \/ _load_extraction_signals(k) \/ _persist_extraction_signals(k) \/ LatchWriteFailed(k)
      BY <3>1 DEF FlushDrained, FlushIncomplete, AcquireLatch, PublishCache,
         _load_extraction_signals, _persist_extraction_signals, LatchWriteFailed
    <3>2. CASE _is_extraction_maintained(k) \/ MaintenanceStateUnreadable(k)
      BY <3>2 DEF _is_extraction_maintained, MaintenanceStateUnreadable
    <3>3. CASE Ack(k)
      BY <3>3 DEF Ack
    <3>4. CASE AckLost(k)
      BY <3>4 DEF AckLost
    <3>5. CASE requeue_marker(k)
      BY <3>5 DEF requeue_marker
    <3> QED
      BY <1>3, <3>1, <3>2, <3>3, <3>4, <3>5 DEF HandlerStep
  <2> QED
    BY <2>1, <2>2, <1>c, <1>d
<1>4. ASSUME NEW k \in Tasks, StartMaintenance(k) PROVE Owned(v)'
  <2>1. /\ UNCHANGED <<maintained, failed, alarmed, boot, resumed, latest>>
        /\ pass' = IF pass = None THEN VersionOf(k) ELSE pass
        /\ pc[k] = "start" /\ \A j \in Tasks : j # k => pc'[j] = pc[j] /\ marker'[j] = marker[j]
    BY <1>4 DEF StartMaintenance, start_post_import_maintenance, Return, Goto
  <2>2. CASE VersionOf(k) = v /\ Unfinished
    <3>1. pass' = v
      BY <1>a, <2>1, <2>2
    <3> QED
      BY <3>1 DEF Owned, OwedMaintenance
  <2>3. CASE VersionOf(k) # v /\ Unfinished
    <3>1. Starter => Starter'
      BY <2>1, <2>3 DEF VersionOf
    <3> QED
      BY <2>1, <2>3, <3>1 DEF Owned, OwedMaintenance
  <2>4. CASE ~Unfinished
    BY <2>1, <2>4 DEF Owned
  <2> QED
    BY <2>2, <2>3, <2>4
<1>5. CASE PassStep
  <2>1. UNCHANGED <<pc, marker, boot, resumed, latest>>
    BY <1>5 DEF PassStep, _stamp_maintenance_success, _record_maintenance_failure, FailureNotRecorded
  <2>2. \/ maintained' = [maintained EXCEPT ![pass] = TRUE] /\ failed' = [failed EXCEPT ![pass] = FALSE]
           /\ UNCHANGED alarmed
        \/ UNCHANGED <<maintained, alarmed>> /\ failed' = [failed EXCEPT ![pass] = @ \/ ~maintained[pass]]
        \/ UNCHANGED <<maintained, failed>> /\ alarmed' = TRUE
    BY <1>5 DEF PassStep, _stamp_maintenance_success, _record_maintenance_failure, FailureNotRecorded
  <2>3. CASE pass = v
    <3>1. maintained'[v] \/ failed'[v] \/ alarmed'
      BY <2>2, <2>3
    <3> QED
      BY <3>1 DEF Owned
  <2>4. CASE pass # v
    <3>1. (maintained[v] => maintained'[v]) /\ (failed[v] => failed'[v]) /\ (alarmed => alarmed')
      BY <2>2, <2>4
    <3>2. Starter => Starter'
      BY <2>1 DEF VersionOf
    <3> QED
      BY <2>1, <2>4, <3>1, <3>2 DEF Owned, OwedMaintenance
  <2> QED
    BY <2>3, <2>4
<1>6. CASE BootStep
  <2>1. UNCHANGED <<maintained, failed, latest, pc, marker>> /\ (alarmed => alarmed')
    BY <1>6 DEF BootStep, Restart, _latest_extraction_version, resume_pending_maintenance, ResumeUnreadable
  <2>2. Starter => Starter'
    BY <2>1 DEF VersionOf
  <2>3. CASE ~Unfinished
    BY <2>1, <2>3 DEF Owned
  <2>4. CASE Unfinished /\ Restart
    BY <2>1, <2>2, <2>4 DEF Restart, Owned, OwedMaintenance
  <2>5. CASE Unfinished /\ _latest_extraction_version
    BY <2>1, <2>2, <2>5 DEF _latest_extraction_version, Owned, OwedMaintenance
  <2>6. CASE Unfinished /\ resume_pending_maintenance
    <3>1. CASE resumed = v
      <4>1. pass' = v
        BY <1>a, <2>6, <3>1 DEF resume_pending_maintenance, start_post_import_maintenance
      <4> QED
        BY <4>1 DEF Owned, OwedMaintenance
    <3>2. CASE resumed # v
      <4>1. pass = v => pass' = v
        BY <2>6 DEF resume_pending_maintenance, start_post_import_maintenance
      <4>2. boot = "check"
        BY <2>6 DEF resume_pending_maintenance
      <4> QED
        BY <2>1, <2>2, <2>6, <3>2, <4>1, <4>2 DEF Owned, OwedMaintenance
    <3> QED
      BY <3>1, <3>2
  <2>7. CASE ResumeUnreadable
    BY <2>7 DEF ResumeUnreadable, Owned
  <2> QED
    BY <1>6, <2>3, <2>4, <2>5, <2>6, <2>7 DEF BootStep
<1>7. CASE Crash
  <2>1. UNCHANGED <<maintained, failed>> /\ ~alarmed' /\ boot' = "down"
    BY <1>7 DEF Crash
  <2> QED
    BY <1>b, <2>1 DEF Owned, OwedMaintenance
<1>8. CASE UNCHANGED vars
  BY <1>8, <1>c DEF vars, VersionOf
<1> QED
  BY <1>1, <1>2, <1>3, <1>4, <1>5, <1>6, <1>7, <1>8 DEF Next

\* The owner of a dump whose acks are all in sight survives every step.
LEMMA StepOwner ==
    Inv /\ OwnerInSight /\ DumpsApart /\ DumpsApart' /\ [Next]_vars => OwnerInSight'
<1> SUFFICES ASSUME TypeOK, LatchInv, NoneForgotten, OwnerInSight, DumpsApart, DumpsApart', [Next]_vars,
                    NEW v \in Versions, AcksInSight(v)'
             PROVE  Owned(v)'
  BY DEF Inv, OwnerInSight, Owned
<1>0. TypeOK' /\ LatchInv'
  BY StepTypeOK, StepLatchInv
<1>1. CASE AcksInSight(v)
  <2>1. Complete(v) /\ Owned(v)
    BY <1>1, AcksAreOnNode DEF OwnerInSight, Owned
  <2>2. Complete(v)'
    <3>1. signals[v] \subseteq signals'[v]
      BY OnlyPersistWritesSignals DEF TypeOK, _persist_extraction_signals
    <3> QED
      BY <1>0, <2>1, <3>1 DEF Complete, TypeOK
  <2> QED
    BY <2>1, <2>2, OwnerHandsOn
<1>2. ASSUME NEW k \in Tasks, pc[k] # "idle", VersionOf(k) = v, PublishCache(k), candidate[k] # DATA_TYPES
      PROVE  FALSE
  <2>1. /\ extraction_complete_signals' = candidate[k] /\ extraction_complete_version' = v
    BY <1>2 DEF PublishCache
  <2>2. Passed(v)' \subseteq extraction_complete_signals'
    <3>1. NoneForgotten'
      BY StepNoneForgotten
    <3> QED
      BY <2>1, <3>1, NoneAssumption DEF NoneForgotten, Passed
  <2>3. DATA_TYPES \subseteq Passed(v)'
    BY DEF AcksInSight, Passed
  <2> QED
    BY <1>2, <2>1, <2>2, <2>3 DEF TypeOK
<1>3. ASSUME NEW k \in Tasks, _is_extraction_maintained(k), maintained[v] PROVE Owned(v)'
  BY <1>3 DEF _is_extraction_maintained, nodeVars, Owned
<1>4. ASSUME NEW k \in Tasks, VersionOf(k) = v, pc'[k] = "start", marker'[k] = marker[k] PROVE Owned(v)'
  BY <1>4 DEF Owned, OwedMaintenance, VersionOf
<1> QED
  BY <1>1, <1>2, <1>3, <1>4, AcksComeInSight

\* Nothing is acked when a process first starts.
LEMMA InitOwner == Init => OwnerInSight
<1> SUFFICES ASSUME Init, NEW v \in Versions PROVE ~AcksInSight(v)
  BY DEF OwnerInSight
<1>1. PICK t \in DATA_TYPES : TRUE
  BY DataTypesAssumption
<1>2. <<v, t>> \in Markers
  BY DEF Markers
<1> QED
  BY <1>1, <1>2 DEF Init, AcksInSight

\* The trigger is acked before the pass starts and cannot be replayed.  As long as dumps do
\* not overlap, a dump whose signals were all acked ends with an outcome on its node or an
\* error in the log, or somebody owes it its pass: whatever crashes, answers are lost, or
\* starts race.
THEOREM DumpsApartHaveOwners == Spec /\ []DumpsApart => []CompletedDumpHasOwner
<1>1. OwnerInSight => CompletedDumpHasOwner
  BY DEF OwnerInSight, AcksInSight, CompletedDumpHasOwner, Settled, MarkersOf
<1> QED
  BY <1>1, InitOwner, StepOwner, LatchInvariant, PTL DEF Spec

\* A dump with a signal on its node makes some dump the newest.
SomeLatest == \A v \in Versions : signals[v] # {} => latest # None

\* For the only dump of a graph the overlap cannot happen: its owner needs no assumption.
THEOREM OnlyDumpHasOwner ==
    ASSUME NEW v, Versions = {v}
    PROVE  Spec => []CompletedDumpHasOwner
<1>1. Init => SomeLatest
  BY DEF Init, SomeLatest
<1>2. TypeOK /\ SomeLatest /\ [Next]_vars => SomeLatest'
  <2> SUFFICES ASSUME TypeOK, SomeLatest, [Next]_vars PROVE SomeLatest'
    OBVIOUS
  <2>1. ASSUME NEW k \in Tasks, _persist_extraction_signals(k) PROVE SomeLatest'
    BY <2>1, MarkerParts, NoneAssumption DEF _persist_extraction_signals, TypeOK, SomeLatest
  <2>2. CASE UNCHANGED <<signals, latest>>
    BY <2>2 DEF SomeLatest
  <2>3. (\E k \in Tasks : _persist_extraction_signals(k)) \/ UNCHANGED <<signals, latest>>
    <3> USE DEF nodeVars
    <3>1. ASSUME NEW m \in Markers, NEW k \in Tasks, Deliver(m, k)
          PROVE  UNCHANGED <<signals, latest>>
      BY <3>1 DEF Deliver
    <3>2. ASSUME NEW k \in Tasks, HandlerStep(k)
          PROVE  _persist_extraction_signals(k) \/ UNCHANGED <<signals, latest>>
      BY <3>2 DEF HandlerStep, FlushDrained, FlushIncomplete, AcquireLatch,
         _load_extraction_signals, PublishCache,
         LatchWriteFailed, _is_extraction_maintained, MaintenanceStateUnreadable,
         Ack, AckLost, StartMaintenance, requeue_marker
    <3>3. ASSUME PassStep \/ BootStep \/ ConnectionLoss \/ Crash
          PROVE  UNCHANGED <<signals, latest>>
      BY <3>3 DEF PassStep, _stamp_maintenance_success, _record_maintenance_failure,
         FailureNotRecorded, BootStep, Restart, _latest_extraction_version,
         resume_pending_maintenance, ResumeUnreadable, ConnectionLoss, Crash
    <3>4. CASE UNCHANGED vars
      BY <3>4 DEF vars
    <3> QED
      BY <3>1, <3>2, <3>3, <3>4 DEF Next
  <2> QED
    BY <2>1, <2>2, <2>3
<1>3. TypeOK /\ SomeLatest => DumpsApart
  BY DataTypesAssumption DEF TypeOK, SomeLatest, DumpsApart, Complete
<1>4. Spec => []DumpsApart
  BY <1>1, <1>2, <1>3, TypeCorrect, PTL DEF Spec
<1> QED
  BY <1>4, DumpsApartHaveOwners, PTL

(***************************************************************************)
(* The latch implements CompletionGate.                                    *)
(***************************************************************************)
SettledMarkers == {m \in Markers : broker[m] = "acked"}
FinalVersions == {v \in Versions : maintained[v]}

\* No signal recorded, none settled, no pass: the gate's initial state.
LEMMA InitGate == Init => Gate!Init
  BY DEF Init, Gate!Init, Markers

\* A persist adds its own type's signal and nothing else the node lacked.
LEMMA PersistIsRecord ==
    ASSUME TypeOK, LatchInv, NEW k \in Tasks, _persist_extraction_signals(k)
    PROVE  \E v \in Versions, t \in DATA_TYPES : Gate!Record(v, t)
<1> USE MarkerParts DEF _persist_extraction_signals
<1>1. signals' = [signals EXCEPT ![VersionOf(k)] = @ \cup {TypeOf(k)}]
  <2>1. signals[VersionOf(k)] \cup candidate[k] = signals[VersionOf(k)] \cup {TypeOf(k)}
    BY DEF LatchInv
  <2> QED
    BY <2>1 DEF TypeOK
<1>2. UNCHANGED <<broker, pass, maintained>>
  BY DEF brokerVars, passVars
<1> QED
  BY <1>1, <1>2 DEF Gate!Record

\* An ack settles the delivery's own marker, whose signal is recorded.
LEMMA AckIsSettle ==
    ASSUME TypeOK, LatchInv, NEW k \in Tasks, Ack(k)
    PROVE  \/ \E v \in Versions, t \in DATA_TYPES : Gate!Settle(v, t)
           \/ UNCHANGED Gate!gateVars
<1> USE MarkerParts DEF Ack
<1>1. UNCHANGED <<signals, pass, maintained>>
  BY DEF nodeVars, passVars
<1>2. CASE ~live[k]
  BY <1>1, <1>2 DEF Gate!gateVars
<1>3. CASE live[k]
  <2>1. OnNode(k)
    BY DEF LatchInv
  <2>2. SettledMarkers' = SettledMarkers \cup {<<VersionOf(k), TypeOf(k)>>}
    BY <1>3 DEF SettledMarkers, TypeOK
  <2> QED
    BY <1>1, <2>1, <2>2 DEF Gate!Settle, OnNode, SettledMarkers
<1> QED
  BY <1>2, <1>3

\* Requeueing or dead-lettering a delivery never disturbs a settled marker.
LEMMA RequeueKeepsSettled ==
    ASSUME TypeOK, LatchInv, NEW k \in Tasks, requeue_marker(k)
    PROVE  UNCHANGED Gate!gateVars
<1>1. SettledMarkers' = SettledMarkers
  BY MarkerParts DEF requeue_marker, SettledMarkers, brokerVars, TypeOK, LatchInv
<1> QED
  BY <1>1 DEF requeue_marker, Gate!gateVars, SettledMarkers, nodeVars, passVars

\* A crash or a lost connection returns deliveries, never an acked marker.
LEMMA ReturnKeepsSettled ==
    ASSUME TypeOK, ReturnUnacked
    PROVE  SettledMarkers' = SettledMarkers
  BY DEF ReturnUnacked, SettledMarkers, TypeOK

\* start_post_import_maintenance fills a free slot or changes nothing.
LEMMA StartIsStart ==
    ASSUME NEW v \in Versions, Complete(v), start_post_import_maintenance(v),
           UNCHANGED <<signals, broker, maintained>>
    PROVE  Gate!Start(v) \/ UNCHANGED Gate!gateVars
  BY DEF start_post_import_maintenance, Gate!Start, Gate!Complete, Gate!gateVars, Complete

\* A handler's steps are the gate's Record, Settle and Start, or invisible to it.
LEMMA HandlerImplements ==
    ASSUME TypeOK, LatchInv, NEW k \in Tasks, HandlerStep(k)
    PROVE  Gate!Next \/ UNCHANGED Gate!gateVars
<1> USE DEF brokerVars, nodeVars, passVars
<1>1. CASE _persist_extraction_signals(k)
  BY <1>1, PersistIsRecord DEF Gate!Next
<1>2. CASE Ack(k)
  BY <1>2, AckIsSettle DEF Gate!Next
<1>3. CASE StartMaintenance(k)
  <2>1. pc[k] # "idle" /\ Complete(VersionOf(k))
    BY <1>3 DEF StartMaintenance, LatchInv
  <2> QED
    BY <1>3, <2>1, StartIsStart, MarkerParts DEF StartMaintenance, Gate!Next
<1>4. CASE requeue_marker(k)
  BY <1>4, RequeueKeepsSettled
<1>5. CASE AckLost(k)
  <2>1. SettledMarkers' = SettledMarkers
    BY <1>5, ReturnKeepsSettled DEF AckLost
  <2>2. UNCHANGED <<signals, pass, maintained>>
    BY <1>5 DEF AckLost
  <2> QED
    BY <2>1, <2>2 DEF Gate!gateVars, SettledMarkers
<1>6. CASE \/ FlushDrained(k) \/ FlushIncomplete(k) \/ AcquireLatch(k)
           \/ _load_extraction_signals(k) \/ PublishCache(k) \/ LatchWriteFailed(k)
           \/ _is_extraction_maintained(k) \/ MaintenanceStateUnreadable(k)
  BY <1>6 DEF FlushDrained, FlushIncomplete, AcquireLatch, _load_extraction_signals,
     PublishCache, LatchWriteFailed, _is_extraction_maintained,
     MaintenanceStateUnreadable, Gate!gateVars
<1> QED
  BY <1>1, <1>2, <1>3, <1>4, <1>5, <1>6 DEF HandlerStep

\* The pass's outcomes are the gate's Finish and Abandon.
LEMMA PassImplements ==
    ASSUME TypeOK, PassStep
    PROVE  Gate!Next \/ UNCHANGED Gate!gateVars
<1> USE DEF brokerVars, nodeVars
<1>1. CASE _stamp_maintenance_success
  <2>1. FinalVersions' = FinalVersions \cup {pass}
    BY <1>1 DEF _stamp_maintenance_success, FinalVersions, TypeOK
  <2> QED
    BY <1>1, <2>1 DEF _stamp_maintenance_success, FinalVersions, Gate!Next, Gate!Finish
<1>2. CASE _record_maintenance_failure \/ FailureNotRecorded
  BY <1>2 DEF _record_maintenance_failure, FailureNotRecorded, Gate!Next, Gate!Abandon
<1> QED
  BY <1>1, <1>2 DEF PassStep

\* The start-up's only visible step is the resume, which the gate sees as Start.
LEMMA BootImplements ==
    ASSUME TypeOK, LatchInv, BootStep
    PROVE  Gate!Next \/ UNCHANGED Gate!gateVars
<1> USE DEF brokerVars, nodeVars
<1>1. CASE resume_pending_maintenance
  <2>1. resumed \in Versions
    BY <1>1 DEF resume_pending_maintenance, LatchInv
  <2>2. CASE Complete(resumed) /\ ~maintained[resumed]
    BY <1>1, <2>1, <2>2, StartIsStart DEF resume_pending_maintenance, Gate!Next
  <2>3. CASE ~(Complete(resumed) /\ ~maintained[resumed])
    BY <1>1, <2>3 DEF resume_pending_maintenance, Gate!gateVars
  <2> QED
    BY <2>2, <2>3
<1>2. CASE Restart \/ _latest_extraction_version \/ ResumeUnreadable
  BY <1>2 DEF Restart, _latest_extraction_version, ResumeUnreadable, Gate!gateVars
<1> QED
  BY <1>1, <1>2 DEF BootStep

\* Every step is a step of the gate or invisible to it.
LEMMA StepImplements ==
    TypeOK /\ LatchInv /\ [Next]_vars => [Gate!Next]_(Gate!gateVars)
<1> SUFFICES ASSUME TypeOK, LatchInv, [Next]_vars
             PROVE  Gate!Next \/ UNCHANGED Gate!gateVars
  OBVIOUS
<1> USE DEF brokerVars, nodeVars, passVars
<1>1. ASSUME NEW m \in Markers, NEW k \in Tasks, Deliver(m, k)
      PROVE  UNCHANGED Gate!gateVars
  <2>1. SettledMarkers' = SettledMarkers
    BY <1>1 DEF Deliver, SettledMarkers, TypeOK
  <2> QED
    BY <1>1, <2>1 DEF Deliver, SettledMarkers, Gate!gateVars
<1>2. ASSUME ConnectionLoss PROVE UNCHANGED Gate!gateVars
  <2>1. SettledMarkers' = SettledMarkers
    BY <1>2, ReturnKeepsSettled DEF ConnectionLoss
  <2> QED
    BY <1>2, <2>1 DEF ConnectionLoss, SettledMarkers, Gate!gateVars
<1>3. ASSUME Crash PROVE Gate!Abandon
  <2>1. SettledMarkers' = SettledMarkers
    BY <1>3, ReturnKeepsSettled DEF Crash
  <2> QED
    BY <1>3, <2>1 DEF Crash, SettledMarkers, Gate!Abandon
<1>4. CASE UNCHANGED vars
  BY <1>4 DEF vars, Gate!gateVars
<1> QED
  BY <1>1, <1>2, <1>3, <1>4, HandlerImplements, PassImplements, BootImplements
     DEF Next, Gate!Next

\* Every behaviour of the broker, the handlers, the maintenance slot and the
\* crashing process is one the abstract completion gate allows.
THEOREM LatchImplementsGate == Spec => ImplementsGate
<1>1. Init => Gate!Init
  BY InitGate
<1>2. Inv /\ [Next]_vars => [Gate!Next]_(Gate!gateVars)
  BY StepImplements DEF Inv
<1> QED
  BY <1>1, <1>2, LatchInvariant, PTL DEF Spec, ImplementsGate, Gate!Spec
=============================================================================
