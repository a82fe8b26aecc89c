----------------------- MODULE ConsumersRecoveryProofs -----------------------
(***************************************************************************)
(* What the grace timers and the recovery may rely on, for any number of   *)
(* types, messages, failures and restarts: a timer never cancels a type    *)
(* that was put back to work, and a tag without a consumer is repaired.    *)
(***************************************************************************)
EXTENDS ConsumersProofs

(* What the broker puts back.                                              *)

LEMMA RowTypes ==
    ASSUME MessagesOK, NEW t \in DATA_TYPES
    PROVE  queue[t] \in Seq(Messages) /\ held[t] \in Nat /\ Unsettled(t) \in Seq(Messages)
BY UnsettledIsMessages DEF MessagesOK

\* A queue with a message still has one when more is put in front of it,
LEMMA NotEmptied ==
    ASSUME MessagesOK, NEW t \in DATA_TYPES, queue[t] # <<>>
    PROVE  Unsettled(t) \o queue[t] # <<>>
<1> DEFINE q == queue[t]
           r == Unsettled(t)
<1>1. q \in Seq(Messages) /\ r \in Seq(Messages) /\ q # <<>>
  BY RowTypes
<1> HIDE DEF q, r
<1>2. r \o q # <<>>
  BY <1>1, ConcatProperties, EmptySeq
<1> QED BY <1>2 DEF q, r

\* and neither a file_complete nor anything at all comes back for a type none
\* of whose markers is being handled, or none of whose deliveries is.
LEMMA OnlyRecordsReturn ==
    ASSUME MessagesOK, NEW t \in DATA_TYPES, \A h \in handlers : h[1] # t
    PROVE  Unsettled(t) = [i \in 1..held[t] |-> "record"]
<1> DEFINE a == [i \in 1..held[t] |-> "record"]
<1>1. <<t, "file", TRUE>> \notin handlers /\ ~\E s \in Signalling : <<t, s, TRUE>> \in handlers
  OBVIOUS
<1>2. a \in Seq(Messages)
  <2>1. held[t] \in Nat /\ a \in [1..held[t] -> Messages]
    BY RowTypes DEF Messages
  <2> HIDE DEF a
  <2> QED BY <2>1, SeqDef
<1>3. Unsettled(t) = a \o <<>> \o <<>>
  BY <1>1 DEF Unsettled
<1> HIDE DEF a
<1>4. Unsettled(t) = a
  BY <1>2, <1>3, ConcatEmptySeq
<1> QED BY <1>4 DEF a

LEMMA RecordsReturnToRecords ==
    ASSUME MessagesOK, NEW t \in DATA_TYPES, \A h \in handlers : h[1] # t,
           \A i \in 1..Len(queue[t]) : queue[t][i] = "record"
    PROVE  \A i \in 1..Len(Unsettled(t) \o queue[t]) : (Unsettled(t) \o queue[t])[i] = "record"
<1> DEFINE q == queue[t]
           r == Unsettled(t)
<1>1. q \in Seq(Messages) /\ r \in Seq(Messages) /\ \A i \in 1..Len(q) : q[i] = "record"
  BY RowTypes
<1>2. \A i \in 1..Len(r) : r[i] = "record"
  <2> DEFINE a == [i \in 1..held[t] |-> "record"]
  <2>1. r = a /\ held[t] \in Nat
    BY OnlyRecordsReturn, RowTypes
  <2>2. Len(a) = held[t] /\ \A i \in 1..held[t] : a[i] = "record"
    BY <2>1
  <2> QED BY <2>1, <2>2
<1> HIDE DEF q, r
<1>3. \A i \in 1..Len(r \o q) : (r \o q)[i] = "record"
  BY <1>1, <1>2, ConcatProperties
<1> QED BY <1>3 DEF q, r

LEMMA NothingReturns ==
    ASSUME MessagesOK, NEW t \in DATA_TYPES, Handled(t)
    PROVE  Unsettled(t) \o queue[t] = <<>>
<1>1. held[t] = 0 /\ queue[t] = <<>> /\ \A h \in handlers : h[1] # t
  BY DEF Handled, Quiet
<1>2. Unsettled(t) = [i \in 1..0 |-> "record"]
  BY <1>1, OnlyRecordsReturn
<1>3. Unsettled(t) = <<>>
  BY <1>2
<1> QED BY <1>1, <1>3

-----------------------------------------------------------------------------
(* The kinds of steps.                                                     *)

MessageStep(t) ==
    \/ Publish(t) \/ DeliverNext(t) \/ Handle(t)
    \/ \E s \in Stages, open \in BOOLEAN : RequeueMarker(t, s, open)

TimerStep(t) == RunTimer(t) \/ CancelUnconfirmed(t)

\* The checker looks at the parked types, ends its tick or has connected.
MoveStep ==
    \E to, left, found :
        /\ CheckerMoves(to, left, found)
        /\ pc \in {"sleep", "parked", "resubscribe", "stuck", "connect"}
        /\ to \in {"sleep", "parked", "resubscribe", "stuck", "probe"}
        /\ to = "probe" => pc = "connect"
        /\ to = "resubscribe" => found \cap consumer_tags = {} /\ Usable

SubscribeStep == \E t \in DATA_TYPES : Resubscribe(t) \/ Consume(t)

ReconnectStep == Probe \/ Declare \/ ConnectFails \/ RecoveryFails

LEMMA MovesAreMoveSteps ==
    \/ \E t \in DATA_TYPES : ProbeParked(t) \/ ProbeParkedFails(t) \/ ResubscribeFails(t)
    \/ LookForParkedMarkers \/ EndTick \/ Connect
    => MoveStep
<1>1. ASSUME NEW t \in DATA_TYPES, ProbeParked(t) PROVE MoveStep
  <2>1. CASE CheckerMoves("resubscribe", todo, {t}) /\ t \notin consumer_tags /\ Usable
    BY <1>1, <2>1 DEF MoveStep, ProbeParked
  <2>2. CASE CheckerMoves(NextParked(t), todo \ {t}, {})
    BY <1>1, <2>2, NextParkedIsNoResubscribe DEF MoveStep, ProbeParked
  <2> QED BY <1>1, <2>1, <2>2 DEF ProbeParked
<1>2. ASSUME NEW t \in DATA_TYPES, ProbeParkedFails(t) \/ ResubscribeFails(t) PROVE MoveStep
  <2>1. CheckerMoves(NextParked(t), todo \ {t}, {}) /\ pc \in {"parked", "resubscribe"}
    BY <1>2 DEF ProbeParkedFails, ResubscribeFails
  <2> QED BY <2>1, NextParkedIsNoResubscribe DEF MoveStep
<1>3. CASE LookForParkedMarkers
  <2>1. /\ pc = "sleep"
        /\ \/ CheckerMoves("stuck", types_awaiting_marker, {})
           \/ CheckerMoves("parked", types_awaiting_marker, {})
    BY <1>3 DEF LookForParkedMarkers
  <2> QED BY <2>1 DEF MoveStep
<1>4. CASE EndTick
  BY <1>4 DEF EndTick, MoveStep
<1>5. CASE Connect
  BY <1>5 DEF Connect, MoveStep
<1> QED BY <1>1, <1>2, <1>3, <1>4, <1>5

LEMMA ClosesAreCloseSteps ==
    ASSUME NEW c, Close(c) \/ CloseChannel(c, FALSE) \/ CloseFails(c) \/ BrokerCloses
    PROVE  CloseStep(c)
BY DEF Close, CloseStep

LEMMA StepKinds ==
    ASSUME [Next]_vars
    PROVE  \/ \E t \in DATA_TYPES : MessageStep(t)
           \/ \E t \in DATA_TYPES : TimerStep(t)
           \/ \E c \in Closers : CloseStep(c)
           \/ MoveStep
           \/ \E to \in {"sleep", "stuck"} : BeginRecovery(to)
           \/ SubscribeStep
           \/ ReconnectStep
           \/ Restart
           \/ UNCHANGED vars
<1>1. ASSUME NEW t \in DATA_TYPES,
             Publish(t) \/ DeliverNext(t) \/ Handle(t) \/ RunTimer(t)
      PROVE  MessageStep(t) \/ TimerStep(t)
  BY <1>1 DEF MessageStep, TimerStep
<1>2. ASSUME NEW t \in DATA_TYPES, Close(t) PROVE CloseStep(t) /\ t \in Closers
  BY <1>2, ClosesAreCloseSteps DEF Closers
<1>3. ASSUME BrokerCloses \/ Close("checker") PROVE CloseStep("checker") /\ "checker" \in Closers
  BY <1>3, ClosesAreCloseSteps DEF Closers
<1>4. ASSUME NEW t \in DATA_TYPES, ResubscribeFails(t) PROVE MoveStep
  BY <1>4, MovesAreMoveSteps
<1>5. RecoverStuck \/ RecoverIdle \/ RecoverAsRequested \/ RecoverParkedMarkers
      => \E to \in {"sleep", "stuck"} : BeginRecovery(to)
  BY DEF RecoverStuck, RecoverIdle, RecoverAsRequested, RecoverParkedMarkers
<1>6. ASSUME RunChecker
      PROVE  \/ CloseStep("checker") /\ "checker" \in Closers
             \/ MoveStep \/ SubscribeStep \/ ReconnectStep
             \/ \E to \in {"sleep", "stuck"} : BeginRecovery(to)
  BY <1>3, <1>5, <1>6, MovesAreMoveSteps DEF RunChecker, SubscribeStep, ReconnectStep
<1>7. ASSUME Fail
      PROVE  \/ \E t \in DATA_TYPES : MessageStep(t) \/ TimerStep(t)
             \/ \E c \in Closers : CloseStep(c)
             \/ MoveStep \/ ReconnectStep
  <2>1. ASSUME NEW t \in DATA_TYPES, NEW r \in Stages, NEW open \in BOOLEAN, RequeueMarker(t, r, open)
        PROVE  MessageStep(t)
    BY <2>1 DEF MessageStep
  <2>2. ASSUME NEW t \in DATA_TYPES, CancelUnconfirmed(t) PROVE TimerStep(t)
    BY <2>2 DEF TimerStep
  <2>3. ASSUME NEW t \in DATA_TYPES, ProbeParkedFails(t) PROVE MoveStep
    BY <2>3, MovesAreMoveSteps
  <2>4. ASSUME NEW c \in Closers, CloseChannel(c, FALSE) \/ CloseFails(c) PROVE CloseStep(c)
    BY <2>4, ClosesAreCloseSteps
  <2>5. ConnectFails => ReconnectStep
    BY DEF ReconnectStep
  <2> QED BY <1>7, <2>1, <2>2, <2>3, <2>4, <2>5 DEF Fail
<1>8. RecoveryFails => ReconnectStep
  BY DEF ReconnectStep
<1> QED BY <1>1, <1>2, <1>3, <1>4, <1>5, <1>6, <1>7, <1>8 DEF Next

\* What each kind leaves alone.
LEMMA MessageFrame ==
    ASSUME NEW t \in DATA_TYPES, MessageStep(t)
    PROVE  UNCHANGED <<wire, consumer_tags, transportVars, checkerVars>>
BY DEF MessageStep, Publish, DeliverNext, DeliverRecord, DeliverFileComplete, DeliverExtractionComplete,
       Deliver, Handle, SettleRecords, FlushExtraction, LandFileComplete, LandExtractionComplete, AckExtractionComplete,
       RequeueMarker, byHandler

LEMMA TimerFrame ==
    ASSUME NEW t \in DATA_TYPES, TimerStep(t)
    PROVE  UNCHANGED <<byTimer, deliveries, channelOpen, transportVars, checkerVars>>
BY DEF TimerStep, RunTimer, GraceEnds, BrokerCancels, CancelConfirmed, CancelUnconfirmed, wire

LEMMA CloseFrame ==
    ASSUME NEW c \in Closers, CloseStep(c)
    PROVE  UNCHANGED <<byTimer, todo, pending, back>> /\ (ChannelGone \/ ChannelStays)
BY DEF CloseStep, CloseChannel, CloseConnection, CloseFails, BrokerCloses, checkerVars

-----------------------------------------------------------------------------
(* Tags and frames belong to a known connection.                           *)

LEMMA TransportStep ==
    ASSUME TransportIsKnown, TasksOK, [Next]_vars
    PROVE  TransportIsKnown'
<1>1. ASSUME UNCHANGED <<wire, consumer_tags, active_connection>> PROVE TransportIsKnown'
  BY <1>1 DEF TransportIsKnown, wire
<1>2. ASSUME NEW t \in DATA_TYPES, MessageStep(t) PROVE TransportIsKnown'
  BY <1>1, <1>2, MessageFrame DEF transportVars
<1>3. ASSUME NEW t \in DATA_TYPES, TimerStep(t) PROVE TransportIsKnown'
  BY <1>3 DEF TimerStep, RunTimer, GraceEnds, BrokerCancels, CancelConfirmed, CancelUnconfirmed,
              transportVars, wire, TransportIsKnown, TasksOK
<1>4. ASSUME NEW c \in Closers, CloseStep(c) PROVE TransportIsKnown'
  <2>1. \/ active_connection' = active_connection /\ consumer_tags' = consumer_tags
        \/ ChannelGone /\ consumer_tags' = {}
    BY <1>4 DEF CloseStep, CloseChannel, CloseConnection, CloseFails, BrokerCloses, transportVars
  <2>2. ChannelGone \/ ChannelStays
    BY <1>4, CloseFrame
  <2>3. CASE ChannelGone
    <3>1. channelOpen' = FALSE /\ cancelSent' = {}
      BY <2>3 DEF ChannelGone
    <3> QED BY <2>1, <3>1 DEF TransportIsKnown
  <2>4. CASE ChannelStays /\ active_connection' = active_connection /\ consumer_tags' = consumer_tags
    BY <1>1, <2>4 DEF ChannelStays
  <2> QED BY <2>1, <2>2, <2>3, <2>4
<1>5. CASE MoveStep
  BY <1>1, <1>5 DEF MoveStep, CheckerMoves, transportVars
<1>6. ASSUME NEW to \in {"sleep", "stuck"}, BeginRecovery(to) PROVE TransportIsKnown'
  BY <1>1, <1>6 DEF BeginRecovery, transportVars
<1>7. CASE SubscribeStep
  <2>1. PICK t \in DATA_TYPES : Resubscribe(t) \/ Consume(t)
    BY <1>7 DEF SubscribeStep
  <2>2. CASE Resubscribe(t)
    BY <2>2 DEF Resubscribe, Subscribe, transportVars, TransportIsKnown
  <2>3. CASE Consume(t)
    BY <1>1, <2>3 DEF Consume, Usable, Subscribe, transportVars, TransportIsKnown
  <2> QED BY <2>1, <2>2, <2>3
<1>8. CASE ReconnectStep
  BY <1>8 DEF ReconnectStep, Probe, Declare, ConnectFails, RecoveryFails, transportVars, wire,
              TransportIsKnown
<1>9. CASE Restart
  BY <1>9 DEF Restart, TransportIsKnown
<1>10. CASE UNCHANGED vars
  BY <1>1, <1>10 DEF vars, transportVars
<1> QED BY <1>2, <1>3, <1>4, <1>5, <1>6, <1>7, <1>8, <1>9, <1>10, StepKinds

-----------------------------------------------------------------------------
(* What timers and queues can do in a step.                                *)

LEMMA MessageTimers ==
    ASSUME NEW t \in DATA_TYPES, MessageStep(t)
    PROVE  UNCHANGED timerVars \/ SetTimer(t, "off") \/ SetTimer(t, "sleep")
BY DEF MessageStep, Publish, DeliverNext, DeliverRecord, DeliverFileComplete, DeliverExtractionComplete,
       Handle, SettleRecords, FlushExtraction, LandFileComplete, LandExtractionComplete, AckExtractionComplete, ArmTimer,
       RequeueMarker

\* A close stops timers, and moves the one that runs it on to the connection.
LEMMA CloseTimers ==
    ASSUME TasksOK, NEW c \in Closers, CloseStep(c)
    PROVE  /\ consumer_cancel_tasks' \in [DATA_TYPES -> Timers]
           /\ \A u \in DATA_TYPES :
                 consumer_cancel_tasks'[u] \in {consumer_cancel_tasks[u], "off", "connection"}
           /\ \/ deadQueue' = deadQueue
              \/ \A u \in DATA_TYPES : consumer_cancel_tasks'[u] = "off"
<1>1. ASSUME NEW d, NEW to \in {"off", "connection"}, NEW gone, TimersGo(d, to, gone)
      PROVE  /\ consumer_cancel_tasks' \in [DATA_TYPES -> Timers]
             /\ \A u \in DATA_TYPES :
                   consumer_cancel_tasks'[u] \in {consumer_cancel_tasks[u], "off", "connection"}
             /\ deadQueue' = deadQueue
  BY <1>1 DEF TimersGo, TasksOK, Timers
<1>2. CASE TimersReset
  BY <1>2 DEF TimersReset, Timers
<1>3. ASSUME NEW ok, CloseChannel(c, ok) PROVE \E gone : TimersGo(c, "connection", gone)
  BY <1>3 DEF CloseChannel
<1>4. CASE CloseFails(c)
  BY <1>4 DEF CloseFails, TasksOK, Timers
<1>5. CloseConnection(c) \/ BrokerCloses
      => TimersReset \/ TimersGo(c, "off", TRUE) \/ TimersGo("checker", "off", TRUE)
  BY DEF CloseConnection, BrokerCloses
<1> QED BY <1>1, <1>2, <1>3, <1>4, <1>5 DEF CloseStep

LEMMA GoneQueues ==
    ASSUME MessagesOK, ChannelGone \/ ChannelStays, NEW u \in DATA_TYPES, queue[u] # <<>>
    PROVE  queue'[u] # <<>>
<1>1. CASE ChannelGone
  BY <1>1, NotEmptied DEF ChannelGone
<1>2. CASE ChannelStays
  BY <1>2 DEF ChannelStays, deliveries
<1> QED BY <1>1, <1>2

LEMMA PutInFront ==
    ASSUME MessagesOK, NEW t \in DATA_TYPES, NEW m \in Messages
    PROVE  <<m>> \o queue[t] \in Seq(Messages) /\ <<m>> \o queue[t] # <<>>
<1> DEFINE q == queue[t]
           r == <<m>>
<1>1. q \in Seq(Messages) /\ r \in Seq(Messages) /\ r # <<>>
  BY RowTypes
<1> HIDE DEF q, r
<1>2. r \o q \in Seq(Messages) /\ r \o q # <<>>
  BY <1>1, ConcatProperties, EmptySeq
<1> QED BY <1>2 DEF q, r

LEMMA PublishedWaits ==
    ASSUME MessagesOK, NEW t \in DATA_TYPES, Publish(t)
    PROVE  queue'[t] # <<>>
<1> DEFINE q == queue[t]
           m == Dump[(published[t] % 3) + 1]
<1>1. q \in Seq(Messages)
  BY RowTypes
<1>2. m \in Messages
  <2>1. published[t] % 3 \in 0..2
    BY DEF MessagesOK
  <2> QED BY <2>1 DEF Dump, Messages
<1>3. queue'[t] = Append(q, m)
  BY DEF Publish, MessagesOK
<1> HIDE DEF q, m
<1>4. Append(q, m) # <<>>
  BY <1>1, <1>2, AppendProperties, EmptySeq
<1> QED BY <1>3, <1>4

\* Only its consumer takes the last message of a queue.
LEMMA MessageQueues ==
    ASSUME MessagesOK, NEW t \in DATA_TYPES, MessageStep(t), NEW u \in DATA_TYPES,
           queue[u] # <<>>
    PROVE  \/ queue'[u] # <<>>
           \/ u = t /\ t \in subscribed /\ DeliverNext(t)
<1>1. queue[t] \in Seq(Messages) /\ queue \in [DATA_TYPES -> Seq(Messages)]
  BY DEF MessagesOK
<1>2. CASE Publish(t)
  <2>1. \E q : queue' = [queue EXCEPT ![t] = q]
    BY <1>2 DEF Publish
  <2> QED BY <1>1, <1>2, <2>1, PublishedWaits
<1>3. CASE DeliverNext(t)
  <2>1. PICK kind : Deliver(t, kind)
    BY <1>3 DEF DeliverNext, DeliverRecord, DeliverFileComplete, DeliverExtractionComplete
  <2> QED BY <1>1, <1>3, <2>1 DEF Deliver
<1>4. CASE Handle(t)
  BY <1>4 DEF Handle, SettleRecords, FlushExtraction, LandFileComplete, LandExtractionComplete, AckExtractionComplete
<1>5. ASSUME NEW r \in Stages, NEW open \in BOOLEAN, RequeueMarker(t, r, open)
      PROVE  queue'[u] # <<>>
  <2>1. PICK m \in Messages : queue' \in {queue, [queue EXCEPT ![t] = <<m>> \o @]}
    BY <1>5 DEF RequeueMarker, Messages
  <2> QED BY <1>1, <2>1, PutInFront
<1> QED BY <1>2, <1>3, <1>4, <1>5 DEF MessageStep

-----------------------------------------------------------------------------
(* A recovery starts clean.                                                *)

\* A type without a consumer keeps its backlog.
LEMMA CleanUnderMessages ==
    ASSUME RecoveryStartsClean, subscribed \subseteq consumer_tags, MessagesOK, TasksOK,
           NEW t \in DATA_TYPES, MessageStep(t)
    PROVE  RecoveryStartsClean'
<1>1. UNCHANGED <<channelOpen, consumer_tags, pc, todo, pending>>
  BY MessageFrame DEF wire, checkerVars
<1>2. ASSUME ~channelOpen, \A u \in DATA_TYPES : consumer_cancel_tasks[u] = "sleep" => u \in deadQueue
      PROVE  \A u \in DATA_TYPES : consumer_cancel_tasks'[u] = "sleep" => u \in deadQueue'
  <2>1. CASE UNCHANGED timerVars
    BY <1>2, <2>1 DEF timerVars
  <2>2. CASE SetTimer(t, "off") \/ SetTimer(t, "sleep")
    BY <1>2, <2>2 DEF SetTimer, TasksOK
  <2> QED BY <2>1, <2>2, MessageTimers
<1>3. ASSUME NEW u \in DATA_TYPES, u \notin consumer_tags, queue[u] # <<>>
      PROVE  queue'[u] # <<>>
  BY <1>3, MessageQueues
<1>4. pending \subseteq DATA_TYPES /\ todo \subseteq DATA_TYPES
  BY DEF TasksOK
<1> QED BY <1>1, <1>2, <1>3, <1>4 DEF RecoveryStartsClean

LEMMA CleanUnderTimers ==
    ASSUME RecoveryStartsClean, TasksOK, NEW t \in DATA_TYPES, TimerStep(t)
    PROVE  RecoveryStartsClean'
<1>1. UNCHANGED <<channelOpen, pc, todo, pending, queue>> /\ consumer_tags' \subseteq consumer_tags
  <2>1. UNCHANGED <<channelOpen, pc, todo, pending, queue>>
    BY TimerFrame DEF deliveries, checkerVars
  <2>2. consumer_tags' \subseteq consumer_tags
    BY DEF TimerStep, RunTimer, GraceEnds, BrokerCancels, CancelConfirmed, CancelUnconfirmed
  <2> QED BY <2>1, <2>2
<1>2. \A u \in DATA_TYPES : consumer_cancel_tasks'[u] = "sleep" =>
          /\ consumer_cancel_tasks[u] = "sleep"
          /\ u \in deadQueue => u \in deadQueue'
  <2>1. \/ UNCHANGED <<consumer_cancel_tasks, deadQueue>>
        \/ /\ deadQueue' \in {deadQueue, deadQueue \ {t}}
           /\ \E to \in {"off", "cancel", "channel", "connection"} :
                 consumer_cancel_tasks' = [consumer_cancel_tasks EXCEPT ![t] = to]
    BY DEF TimerStep, RunTimer, GraceEnds, BrokerCancels, CancelConfirmed, CancelUnconfirmed, CloseStage,
           timerVars
  <2> QED BY <2>1 DEF TasksOK
<1> QED BY <1>1, <1>2 DEF RecoveryStartsClean

LEMMA CleanUnderCloses ==
    ASSUME RecoveryStartsClean, MessagesOK, TasksOK, NEW c \in Closers, CloseStep(c)
    PROVE  RecoveryStartsClean'
<1>1. UNCHANGED <<todo, pending>> /\ (ChannelGone \/ ChannelStays)
  BY CloseFrame
<1>2. channelOpen' => channelOpen
  BY <1>1 DEF ChannelGone, ChannelStays, wire
<1>3. consumer_tags' \in {consumer_tags, {}}
  BY DEF CloseStep, CloseChannel, CloseConnection, CloseFails, BrokerCloses
<1>4. \/ pc' \notin {"connect", "probe", "declare", "consume"}
      \/ pc' = pc
      \/ /\ pc' = "connect" /\ TimersReset /\ ChannelGone /\ consumer_tags' = {}
  BY DEF CloseStep, CloseChannel, CloseConnection, CloseFails, BrokerCloses, checkerVars, TasksOK
<1>5. \A u \in DATA_TYPES : queue[u] # <<>> => queue'[u] # <<>>
  BY <1>1, GoneQueues
<1>6. pending \subseteq DATA_TYPES /\ todo \subseteq DATA_TYPES
  BY DEF TasksOK
<1>7. CASE pc' = pc
  <2>1. ASSUME \A u \in DATA_TYPES : consumer_cancel_tasks[u] = "sleep" => u \in deadQueue
        PROVE  \A u \in DATA_TYPES : consumer_cancel_tasks'[u] = "sleep" => u \in deadQueue'
    BY <2>1, CloseTimers
  <2> QED BY <1>1, <1>2, <1>3, <1>5, <1>6, <1>7, <2>1 DEF RecoveryStartsClean
<1>8. CASE pc' = "connect" /\ TimersReset /\ ChannelGone /\ consumer_tags' = {}
  BY <1>8 DEF TimersReset, ChannelGone, RecoveryStartsClean
<1>9. CASE pc' \notin {"connect", "probe", "declare", "consume"}
  BY <1>9 DEF RecoveryStartsClean
<1> QED BY <1>4, <1>7, <1>8, <1>9

LEMMA CleanUnderChecker ==
    ASSUME RecoveryStartsClean, TransportIsKnown, TasksOK,
           \/ MoveStep \/ SubscribeStep \/ ReconnectStep
           \/ \E to \in {"sleep", "stuck"} : BeginRecovery(to)
    PROVE  RecoveryStartsClean'
<1>1. CASE MoveStep
  <2>1. PICK to, left, found :
            /\ CheckerMoves(to, left, found)
            /\ to \in {"sleep", "parked", "resubscribe", "stuck", "probe"}
            /\ to = "probe" => pc = "connect"
    BY <1>1 DEF MoveStep
  <2>2. /\ UNCHANGED <<channelOpen, consumer_tags, consumer_cancel_tasks, deadQueue>>
        /\ pc' = to
    BY <2>1 DEF CheckerMoves, wire, timerVars
  <2> QED BY <2>1, <2>2 DEF RecoveryStartsClean
<1>2. ASSUME NEW to \in {"sleep", "stuck"}, BeginRecovery(to) PROVE RecoveryStartsClean'
  <2>1. CASE active_channel \/ active_connection
    <3>1. pc' \in {"channel", "connection"}
      BY <1>2, <2>1 DEF BeginRecovery, CloseStage
    <3> QED BY <3>1 DEF RecoveryStartsClean
  <2>2. CASE ~(active_channel \/ active_connection)
    <3>1. pc' = "connect" /\ TimersReset /\ UNCHANGED <<channelOpen, consumer_tags>>
      BY <1>2, <2>2 DEF BeginRecovery, wire
    <3>2. ~channelOpen /\ consumer_tags = {}
      BY <2>2 DEF TransportIsKnown
    <3> QED BY <3>1, <3>2 DEF TimersReset, RecoveryStartsClean
  <2> QED BY <2>1, <2>2
<1>3. ASSUME NEW t \in DATA_TYPES, Resubscribe(t) PROVE RecoveryStartsClean'
  <2>1. pc' \in {"stuck", "parked"}
    BY <1>3, NextParkedIsNoResubscribe DEF Resubscribe
  <2> QED BY <2>1 DEF RecoveryStartsClean
<1>4. ASSUME NEW t \in DATA_TYPES, Consume(t) PROVE RecoveryStartsClean'
  <2>1. pc = "consume" /\ pc' \in {"sleep", "stuck", "consume"} /\ todo' = todo \ {t}
    BY <1>4 DEF Consume, TasksOK
  <2>2. consumer_tags' \in {consumer_tags, consumer_tags \cup {t}} /\ UNCHANGED <<queue, pending>>
    BY <1>4 DEF Consume, Subscribe, deliveries
  <2> QED BY <2>1, <2>2 DEF RecoveryStartsClean
<1>5. CASE Probe
  <2>1. UNCHANGED <<queue, consumer_tags>> /\ pc = "probe" /\ pc' \in {"sleep", "stuck", "declare"}
        /\ pending' = {t \in DATA_TYPES : queue[t] # <<>>}
    BY <1>5 DEF Probe, byChecker, TasksOK
  <2> QED BY <2>1 DEF RecoveryStartsClean
<1>6. CASE Declare
  <2>1. UNCHANGED <<queue, consumer_tags, pending>> /\ pc = "declare" /\ pc' = "consume"
    BY <1>6 DEF Declare, byChecker
  <2> QED BY <2>1 DEF RecoveryStartsClean
<1>7. CASE ConnectFails \/ RecoveryFails
  <2>1. pc' \in {"sleep", "stuck", "abortChannel"}
    BY <1>7 DEF ConnectFails, RecoveryFails, TasksOK
  <2> QED BY <2>1 DEF RecoveryStartsClean
<1> QED BY <1>1, <1>2, <1>3, <1>4, <1>5, <1>6, <1>7 DEF SubscribeStep, ReconnectStep

LEMMA CleanStep ==
    ASSUME RecoveryStartsClean, TransportIsKnown, subscribed \subseteq consumer_tags,
           MessagesOK, TasksOK, [Next]_vars
    PROVE  RecoveryStartsClean'
<1>1. CASE Restart
  <2>1. pc' = "sleep"
    BY <1>1 DEF Restart
  <2> QED BY <2>1 DEF RecoveryStartsClean
<1>2. CASE UNCHANGED vars
  BY <1>2 DEF vars, deliveries, wire, timerVars, checkerVars, RecoveryStartsClean
<1> QED BY <1>1, <1>2, StepKinds, CleanUnderMessages, CleanUnderTimers, CleanUnderCloses,
           CleanUnderChecker

-----------------------------------------------------------------------------
(* A timer over a type put back to work has a marker on its way.           *)

\* A message of t changes nothing of another type.
LEMMA MessageOthers ==
    ASSUME MessagesOK, TasksOK, NEW t \in DATA_TYPES, MessageStep(t),
           NEW u \in DATA_TYPES, u # t
    PROVE  /\ queue'[u] = queue[u] /\ held'[u] = held[u] /\ published'[u] = published[u]
           /\ consumer_cancel_tasks'[u] = consumer_cancel_tasks[u]
           /\ u \in deadQueue' <=> u \in deadQueue
           /\ u \in completed_files' <=> u \in completed_files
           /\ \A h : h[1] = u => (h \in handlers' <=> h \in handlers)
<1>1. /\ queue \in [DATA_TYPES -> Seq(Messages)] /\ held \in [DATA_TYPES -> Nat]
      /\ published \in [DATA_TYPES -> 0..MaxPublished]
      /\ consumer_cancel_tasks \in [DATA_TYPES -> Timers]
  BY DEF MessagesOK, TasksOK
<1>2. consumer_cancel_tasks'[u] = consumer_cancel_tasks[u] /\ (u \in deadQueue' <=> u \in deadQueue)
  <2>1. CASE UNCHANGED timerVars
    BY <2>1 DEF timerVars
  <2>2. ASSUME NEW to \in {"off", "sleep"}, SetTimer(t, to)
        PROVE  consumer_cancel_tasks'[u] = consumer_cancel_tasks[u] /\ (u \in deadQueue' <=> u \in deadQueue)
    BY <1>1, <2>2 DEF SetTimer
  <2> QED BY <2>1, <2>2, MessageTimers
<1>3. published'[u] = published[u]
  BY <1>1 DEF MessageStep, Publish, DeliverNext, DeliverRecord, DeliverFileComplete,
       DeliverExtractionComplete, Deliver, Handle, SettleRecords, FlushExtraction, LandFileComplete,
       LandExtractionComplete, AckExtractionComplete, RequeueMarker, byHandler
<1>4. held'[u] = held[u]
  <2>1. held' = held \/ (\E n : held' = [held EXCEPT ![t] = n])
    BY DEF MessageStep, Publish, DeliverNext, DeliverRecord, DeliverFileComplete,
       DeliverExtractionComplete, Handle, SettleRecords, FlushExtraction, LandFileComplete,
       LandExtractionComplete, AckExtractionComplete, RequeueMarker
  <2> QED BY <1>1, <2>1
<1>5. queue'[u] = queue[u]
  <2>1. queue' = queue \/ (\E q : queue' = [queue EXCEPT ![t] = q])
    BY DEF MessageStep, Publish, DeliverNext, DeliverRecord, DeliverFileComplete,
       DeliverExtractionComplete, Deliver, Handle, SettleRecords, FlushExtraction, LandFileComplete,
       LandExtractionComplete, AckExtractionComplete, RequeueMarker
  <2> QED BY <1>1, <2>1
<1>6. u \in completed_files' <=> u \in completed_files
  <2>1. completed_files' \in {completed_files, completed_files \ {t}, completed_files \cup {t}}
    BY DEF MessageStep, Publish, DeliverNext, DeliverRecord, DeliverFileComplete,
       DeliverExtractionComplete, Handle, SettleRecords, FlushExtraction, LandFileComplete,
       LandExtractionComplete, AckExtractionComplete, RequeueMarker, flagVars
  <2> QED BY <2>1
<1>7. \A h : h[1] = u => (h \in handlers' <=> h \in handlers)
  <2>1. \/ handlers' = handlers
        \/ \E r, o : \/ handlers' = handlers \cup {<<t, r, o>>}
                     \/ handlers' = handlers \ {<<t, r, o>>}
        \/ \E p, r, o : handlers' = (handlers \ {<<t, p, o>>}) \cup {<<t, r, o>>}
    <3>1. ASSUME NEW o \in BOOLEAN, FlushExtraction(t, o)
          PROVE  handlers' = (handlers \ {<<t, "flush", o>>}) \cup {<<t, "latch", o>>}
      BY <3>1 DEF FlushExtraction
    <3>2. ASSUME NEW o \in BOOLEAN, LandExtractionComplete(t, o)
          PROVE  \/ handlers' = handlers \ {<<t, "latch", o>>}
                 \/ handlers' = (handlers \ {<<t, "latch", o>>}) \cup {<<t, "landed", o>>}
      BY <3>2 DEF LandExtractionComplete
    <3>3. ASSUME \A o \in BOOLEAN : ~FlushExtraction(t, o) /\ ~LandExtractionComplete(t, o)
          PROVE  \/ handlers' = handlers
                 \/ \E r, o : \/ handlers' = handlers \cup {<<t, r, o>>}
                              \/ handlers' = handlers \ {<<t, r, o>>}
      BY <3>3 DEF MessageStep, Publish, DeliverNext, DeliverRecord, DeliverFileComplete,
           DeliverExtractionComplete, Handle, SettleRecords, LandFileComplete,
           AckExtractionComplete, RequeueMarker
    <3>4. CASE \E o \in BOOLEAN : FlushExtraction(t, o)
      <4>1. PICK o \in BOOLEAN : FlushExtraction(t, o)
        BY <3>4
      <4>2. handlers' = (handlers \ {<<t, "flush", o>>}) \cup {<<t, "latch", o>>}
        BY <3>1, <4>1
      <4> QED BY <4>2
    <3>5. CASE \E o \in BOOLEAN : LandExtractionComplete(t, o)
      <4>1. PICK o \in BOOLEAN : LandExtractionComplete(t, o)
        BY <3>5
      <4>2. CASE handlers' = handlers \ {<<t, "latch", o>>}
        BY <4>2
      <4>3. CASE handlers' = (handlers \ {<<t, "latch", o>>}) \cup {<<t, "landed", o>>}
        BY <4>3
      <4> QED BY <3>2, <4>1, <4>2, <4>3
    <3> QED BY <3>3, <3>4, <3>5
  <2> QED BY <2>1
<1> QED BY <1>2, <1>3, <1>4, <1>5, <1>6, <1>7

\* What SleepersAreFed says of one type.
Fed(u) ==
    /\ consumer_cancel_tasks[u] = "sleep" /\ u \notin deadQueue
    /\ channelOpen /\ u \notin completed_files
    => /\ u \in subscribed \ cancelSent
       /\ queue[u] # <<>> \/ \E s \in {"file", "flush", "latch"} : <<u, s, TRUE>> \in handlers

LEMMA FedUnderMessages ==
    ASSUME SleepersAreFed, MessagesOK, TasksOK, NEW t \in DATA_TYPES, MessageStep(t)
    PROVE  SleepersAreFed'
<1>1. UNCHANGED <<channelOpen, subscribed, cancelSent>>
  BY MessageFrame DEF wire
<1>2. ASSUME NEW u \in DATA_TYPES, u # t PROVE Fed(u)'
  <2>1. Fed(u)
    BY DEF SleepersAreFed, Fed
  <2>2. \A s \in {"file", "flush", "latch"} : <<u, s, TRUE>> \in handlers' <=> <<u, s, TRUE>> \in handlers
    BY <1>2, MessageOthers
  <2> QED BY <1>1, <1>2, <2>1, <2>2, MessageOthers DEF Fed
<1>3. Fed(t)
  BY DEF SleepersAreFed, Fed
<1>4. CASE Publish(t)
  <2>1. queue[t] # <<>> => queue'[t] # <<>>
    BY <1>4, PublishedWaits
  <2> QED BY <1>1, <1>2, <1>3, <1>4, <2>1 DEF Publish, flagVars, timerVars, SleepersAreFed, Fed
<1>5. CASE DeliverRecord(t) \/ DeliverExtractionComplete(t)
  <2>1. consumer_cancel_tasks'[t] = "off"
    BY <1>5 DEF DeliverRecord, DeliverExtractionComplete, SetTimer, TasksOK
  <2> QED BY <1>2, <2>1 DEF SleepersAreFed, Fed
<1>6. CASE DeliverFileComplete(t)
  <2>1. <<t, "file", TRUE>> \in handlers' /\ UNCHANGED <<flagVars, timerVars>>
    BY <1>6 DEF DeliverFileComplete
  <2>2. \E s \in {"file", "flush", "latch"} : <<t, s, TRUE>> \in handlers'
    BY <2>1
  <2> QED BY <1>1, <1>2, <1>3, <2>1, <2>2 DEF flagVars, timerVars, SleepersAreFed, Fed
<1>7. CASE SettleRecords(t)
  BY <1>1, <1>2, <1>3, <1>7 DEF SettleRecords, flagVars, timerVars, SleepersAreFed, Fed
<1>8. ASSUME NEW o \in BOOLEAN, FlushExtraction(t, o) PROVE SleepersAreFed'
  <2>1. (\E s \in {"file", "flush", "latch"} : <<t, s, TRUE>> \in handlers) =>
          \E s \in {"file", "flush", "latch"} : <<t, s, TRUE>> \in handlers'
    <3>1. handlers' = (handlers \ {<<t, "flush", o>>}) \cup {<<t, "latch", o>>}
      BY <1>8 DEF FlushExtraction
    <3> QED BY <3>1
  <2> QED BY <1>1, <1>2, <1>3, <1>8, <2>1 DEF FlushExtraction, flagVars, timerVars, SleepersAreFed, Fed
<1>9. ASSUME NEW o \in BOOLEAN, LandFileComplete(t, o) \/ LandExtractionComplete(t, o)
      PROVE  SleepersAreFed'
  <2>1. t \in completed_files'
    BY <1>9 DEF LandFileComplete, LandExtractionComplete
  <2> QED BY <1>2, <2>1 DEF SleepersAreFed, Fed
<1>10. ASSUME NEW r \in Stages, NEW o \in BOOLEAN, RequeueMarker(t, r, o) PROVE SleepersAreFed'
  <2>1. UNCHANGED <<flagVars, timerVars>> /\ handlers' = handlers \ {<<t, r, o>>}
    BY <1>10 DEF RequeueMarker
  <2>2. CASE o
    <3>1. PICK m \in Messages : queue' = [queue EXCEPT ![t] = <<m>> \o @]
      BY <1>10, <2>2 DEF RequeueMarker, Messages
    <3>2. queue'[t] # <<>>
      BY <3>1, PutInFront DEF MessagesOK
    <3> QED BY <1>1, <1>2, <1>3, <2>1, <3>2 DEF flagVars, timerVars, SleepersAreFed, Fed
  <2>3. CASE ~o
    <3>1. queue' = queue
      BY <1>10, <2>3 DEF RequeueMarker
    <3>2. \A s \in {"file", "flush", "latch"} : <<t, s, TRUE>> \in handlers => <<t, s, TRUE>> \in handlers'
      BY <2>1, <2>3
    <3> QED BY <1>1, <1>2, <1>3, <2>1, <3>1, <3>2 DEF flagVars, timerVars, SleepersAreFed, Fed
  <2> QED BY <2>2, <2>3
<1>11. ASSUME NEW o \in BOOLEAN, AckExtractionComplete(t, o) PROVE SleepersAreFed'
  <2>1. handlers' = handlers \ {<<t, "landed", o>>}
    BY <1>11 DEF AckExtractionComplete
  <2>2. \A s \in {"file", "flush", "latch"} : <<t, s, TRUE>> \in handlers => <<t, s, TRUE>> \in handlers'
    BY <2>1
  <2> QED BY <1>1, <1>2, <1>3, <1>11, <2>2
          DEF AckExtractionComplete, flagVars, timerVars, SleepersAreFed, Fed
<1> QED BY <1>4, <1>5, <1>6, <1>7, <1>8, <1>9, <1>10, <1>11 DEF MessageStep, DeliverNext, Handle

LEMMA FedUnderTimers ==
    ASSUME SleepersAreFed, TasksOK, NEW t \in DATA_TYPES, TimerStep(t)
    PROVE  SleepersAreFed'
<1>1. UNCHANGED <<channelOpen, queue, handlers, completed_files>>
  BY TimerFrame DEF byTimer, flagVars, deliveries
<1>2. CASE BrokerCancels(t)
  <2>1. /\ UNCHANGED <<consumer_cancel_tasks, deadQueue>> /\ t \in cancelSent
        /\ subscribed' = subscribed \ {t} /\ cancelSent' = cancelSent \ {t}
    BY <1>2 DEF BrokerCancels, timerVars
  <2> QED BY <1>1, <2>1 DEF SleepersAreFed
<1>3. CASE ~BrokerCancels(t)
  <2>1. /\ \E to \in {"off", "cancel", "channel", "connection"} :
              consumer_cancel_tasks' = [consumer_cancel_tasks EXCEPT ![t] = to]
        /\ deadQueue' \in {deadQueue, deadQueue \ {t}}
        /\ subscribed' = subscribed /\ cancelSent' \in {cancelSent, cancelSent \cup {t}}
    BY <1>3 DEF TimerStep, RunTimer, GraceEnds, CancelConfirmed, CancelUnconfirmed, CloseStage, wire
  <2>2. \A u \in DATA_TYPES : consumer_cancel_tasks'[u] = "sleep" =>
            u # t /\ consumer_cancel_tasks[u] = "sleep"
    BY <2>1 DEF TasksOK
  <2> QED BY <1>1, <2>1, <2>2 DEF SleepersAreFed
<1> QED BY <1>2, <1>3

LEMMA FedUnderCloses ==
    ASSUME SleepersAreFed, TasksOK, NEW c \in Closers, CloseStep(c)
    PROVE  SleepersAreFed'
<1>1. UNCHANGED completed_files /\ (ChannelGone \/ ChannelStays)
  BY CloseFrame DEF byTimer, flagVars
<1>2. CASE ChannelGone
  BY <1>2 DEF ChannelGone, SleepersAreFed
<1>3. CASE ChannelStays
  <2>1. UNCHANGED <<queue, handlers, subscribed, cancelSent, channelOpen>>
    BY <1>3 DEF ChannelStays, deliveries, wire
  <2>2. \A u \in DATA_TYPES : consumer_cancel_tasks'[u] = "sleep" =>
            consumer_cancel_tasks[u] = "sleep" /\ deadQueue' = deadQueue
    BY CloseTimers
  <2> QED BY <1>1, <2>1, <2>2 DEF SleepersAreFed
<1> QED BY <1>1, <1>2, <1>3

LEMMA FedUnderChecker ==
    ASSUME SleepersAreFed, RecoveryStartsClean, TransportIsKnown, TasksOK,
           \/ MoveStep \/ SubscribeStep \/ ReconnectStep
           \/ \E to \in {"sleep", "stuck"} : BeginRecovery(to)
    PROVE  SleepersAreFed'
<1>1. CASE MoveStep
  <2>1. UNCHANGED <<byChecker, wire, timerVars>>
    BY <1>1 DEF MoveStep, CheckerMoves
  <2> QED BY <2>1 DEF byChecker, flagVars, wire, timerVars, SleepersAreFed
<1>2. ASSUME NEW to \in {"sleep", "stuck"}, BeginRecovery(to) PROVE SleepersAreFed'
  <2>1. UNCHANGED <<byChecker, wire>> /\ (UNCHANGED timerVars \/ TimersReset)
    BY <1>2 DEF BeginRecovery
  <2>2. CASE UNCHANGED timerVars
    BY <2>1, <2>2 DEF byChecker, flagVars, wire, timerVars, SleepersAreFed
  <2>3. CASE TimersReset
    BY <2>3 DEF TimersReset, SleepersAreFed
  <2> QED BY <2>1, <2>2, <2>3
<1>3. ASSUME NEW t \in DATA_TYPES, Resubscribe(t) PROVE SleepersAreFed'
  <2>1. UNCHANGED <<byChecker, timerVars, channelOpen, cancelSent>> /\ subscribed' = subscribed \cup {t}
    BY <1>3 DEF Resubscribe, Subscribe
  <2> QED BY <2>1 DEF byChecker, flagVars, timerVars, SleepersAreFed
<1>4. ASSUME NEW t \in DATA_TYPES, Consume(t) PROVE SleepersAreFed'
  <2>1. UNCHANGED <<queue, handlers, consumer_cancel_tasks, deadQueue>>
    BY <1>4 DEF Consume, deliveries, timerVars
  <2>2. CASE t \in consumer_tags
    BY <1>4, <2>1, <2>2 DEF Consume, wire, SleepersAreFed
  <2>3. CASE t \notin consumer_tags
    <3>1. /\ subscribed' = subscribed \cup {t} /\ UNCHANGED <<channelOpen, cancelSent>>
          /\ completed_files' = completed_files \ (pending \cap {t})
      BY <1>4, <2>3 DEF Consume, Subscribe
    <3>2. t \notin cancelSent
      BY <2>3 DEF TransportIsKnown
    <3>3. t \in pending => queue[t] # <<>>
      BY <1>4 DEF Consume, RecoveryStartsClean
    <3> QED BY <2>1, <3>1, <3>2, <3>3 DEF SleepersAreFed
  <2> QED BY <2>2, <2>3
<1>5. CASE Probe
  <2>1. UNCHANGED <<byChecker, timerVars>> /\ pc = "probe"
    BY <1>5 DEF Probe
  <2> QED BY <2>1 DEF byChecker, flagVars, timerVars, RecoveryStartsClean, SleepersAreFed
<1>6. CASE Declare \/ ConnectFails \/ RecoveryFails
  <2>1. UNCHANGED <<byChecker, wire, consumer_cancel_tasks, deadQueue>>
    BY <1>6 DEF Declare, ConnectFails, RecoveryFails, timerVars
  <2> QED BY <2>1 DEF byChecker, flagVars, wire, SleepersAreFed
<1> QED BY <1>1, <1>2, <1>3, <1>4, <1>5, <1>6 DEF SubscribeStep, ReconnectStep

LEMMA FedStep ==
    ASSUME SleepersAreFed, RecoveryStartsClean, TransportIsKnown, MessagesOK, TasksOK, [Next]_vars
    PROVE  SleepersAreFed'
<1>1. CASE Restart
  BY <1>1 DEF Restart, TimersReset, SleepersAreFed
<1>2. CASE UNCHANGED vars
  BY <1>2 DEF vars, deliveries, wire, flagVars, timerVars, SleepersAreFed
<1> QED BY <1>1, <1>2, StepKinds, FedUnderMessages, FedUnderTimers, FedUnderCloses, FedUnderChecker

-----------------------------------------------------------------------------
(* A dump starts where the last one has been handled.                      *)

LEMMA ModThree ==
    ASSUME NEW n \in Nat
    PROVE  /\ n % 3 \in {0, 1, 2}
           /\ n % 3 = 0 => (n + 1) % 3 = 1
           /\ n % 3 = 1 => (n + 1) % 3 = 2
           /\ n % 3 = 2 => (n + 1) % 3 = 0
OBVIOUS

LEMMA NextMultiple ==
    ASSUME NEW n \in Nat, NEW m \in Nat, n % 3 = 0, m > n
    PROVE  m - (IF m % 3 = 0 THEN 1 ELSE m % 3) >= n
OBVIOUS

\* The three parts of DumpsInTurn for one type.
InStep(t, u) ==
    published[u] >= published[t] - (IF published[t] % 3 = 0 THEN 1 ELSE published[t] % 3)
HandledFirst(t) ==
    published[t] % 3 = 0 /\ (\E u \in DATA_TYPES : published[u] > published[t]) => Handled(t)
RecordsFirst(t) ==
    published[t] % 3 = 1 =>
        /\ \A h \in handlers : h[1] # t
        /\ \A i \in 1..Len(queue[t]) : queue[t][i] = "record"
        /\ t \in completed_files => queue[t] # <<>>

LEMMA TurnParts ==
    DumpsInTurn <=> \A t \in DATA_TYPES : /\ \A u \in DATA_TYPES : InStep(t, u)
                                          /\ HandledFirst(t) /\ RecordsFirst(t)
BY DEF DumpsInTurn, InStep, HandledFirst, RecordsFirst

LEMMA PublishedTypes ==
    ASSUME MessagesOK, NEW t \in DATA_TYPES PROVE published[t] \in Nat
BY BoundsAssumption DEF MessagesOK

\* What is published for the next dump finds the last one handled.
LEMMA StartsHandled ==
    ASSUME MessagesOK, DumpsInTurn, NEW t \in DATA_TYPES, Publish(t), published[t] % 3 = 0,
           NEW u \in DATA_TYPES, published[u] = published[t]
    PROVE  Handled(u)
<1>1. \A v \in DATA_TYPES : published[v] >= published[t] /\ published[v] \in Nat
  BY PublishedTypes DEF Publish
<1>2. CASE \A v \in DATA_TYPES : published[v] = published[t]
  BY <1>2 DEF Publish
<1>3. CASE \E v \in DATA_TYPES : published[v] # published[t]
  <2>1. PICK v \in DATA_TYPES : published[v] > published[t]
    BY <1>1, <1>3
  <2>2. HandledFirst(u)
    BY TurnParts
  <2> QED BY <2>1, <2>2 DEF HandledFirst
<1> QED BY <1>2, <1>3

LEMMA PublishFacts ==
    ASSUME MessagesOK, NEW t \in DATA_TYPES, Publish(t)
    PROVE  /\ published'[t] = published[t] + 1
           /\ \A u \in DATA_TYPES : u # t => published'[u] = published[u]
           /\ queue'[t] = Append(queue[t], Dump[(published[t] % 3) + 1])
           /\ UNCHANGED <<held, handlers, completed_files>>
BY DEF Publish, MessagesOK, flagVars

LEMMA TurnUnderPublish ==
    ASSUME DumpsInTurn, MessagesOK, TasksOK, NEW t \in DATA_TYPES, Publish(t)
    PROVE  DumpsInTurn'
<1> DEFINE n == published[t]
<1>1. n \in Nat /\ \A u \in DATA_TYPES : published[u] \in Nat
  BY PublishedTypes
<1>2. /\ published'[t] = n + 1 /\ \A u \in DATA_TYPES : u # t => published'[u] = published[u]
      /\ UNCHANGED <<held, handlers, completed_files>>
  BY PublishFacts
<1>3. \A u \in DATA_TYPES : published'[u] >= published[u]
  BY <1>1, <1>2
<1>4. n % 3 \in {0, 2} => \A u \in DATA_TYPES : published[u] >= n
  BY DEF Publish
<1>5. ASSUME NEW v \in DATA_TYPES, NEW u \in DATA_TYPES PROVE InStep(v, u)'
  <2>1. InStep(v, u)
    BY TurnParts
  <2>2. CASE v # t
    BY <1>1, <1>2, <1>3, <2>1, <2>2 DEF InStep
  <2>3. CASE v = t
    <3>1. published[u] >= (n + 1) - (IF (n + 1) % 3 = 0 THEN 1 ELSE (n + 1) % 3)
      <4>1. CASE n % 3 \in {0, 2}
        BY <1>1, <1>4, <4>1, ModThree
      <4>2. CASE n % 3 = 1
        BY <1>1, <2>1, <2>3, <4>2, ModThree DEF InStep
      <4> QED BY <1>1, <4>1, <4>2, ModThree
    <3> HIDE DEF n
    <3>2. (n + 1) % 3 \in {0, 1, 2}
      BY <1>1, ModThree
    <3> QED BY <1>1, <1>2, <1>3, <2>3, <3>1, <3>2 DEF InStep
  <2> QED BY <2>2, <2>3
<1>6. ASSUME NEW u \in DATA_TYPES PROVE HandledFirst(u)'
  <2>1. CASE u = t
    <3>1. ASSUME n % 3 = 2, NEW v \in DATA_TYPES, published'[v] > n + 1 PROVE FALSE
      <4>1. v # t /\ published[v] > n + 1
        BY <1>1, <1>2, <3>1
      <4>2. InStep(v, t)
        BY TurnParts
      <4>3. published[v] - (IF published[v] % 3 = 0 THEN 1 ELSE published[v] % 3) >= n + 1
        <5> HIDE DEF n
        <5>1. (n + 1) % 3 = 0 /\ n + 1 \in Nat
          BY <1>1, <3>1, ModThree
        <5> QED BY <1>1, <4>1, <5>1, NextMultiple
      <4>4. published[v] % 3 \in {0, 1, 2}
        BY <1>1, ModThree
      <4> QED BY <1>1, <4>2, <4>3, <4>4 DEF InStep
    <3>2. n % 3 # 2 => (n + 1) % 3 # 0
      BY <1>1, ModThree
    <3> QED BY <1>2, <2>1, <3>1, <3>2 DEF HandledFirst
  <2>2. CASE u # t
    <3>1. Handled(u) => Handled(u)'
      <4>1. queue'[u] = queue[u]
        BY <2>2, MessageOthers DEF MessageStep
      <4> QED BY <1>2, <4>1 DEF Handled, Quiet
    <3>2. HandledFirst(u)
      BY TurnParts
    <3>3. ASSUME published[u] % 3 = 0, NEW v \in DATA_TYPES, published'[v] > published[u]
          PROVE  Handled(u)
      <4>1. CASE published[v] > published[u]
        BY <3>2, <3>3, <4>1 DEF HandledFirst
      <4>2. CASE ~(published[v] > published[u])
        <5>1. v = t /\ published[u] = n
          BY <1>1, <1>2, <3>3, <4>2
        <5> QED BY <3>3, <5>1, StartsHandled
      <4> QED BY <4>1, <4>2
    <3> QED BY <1>2, <2>2, <3>1, <3>3 DEF HandledFirst
  <2> QED BY <2>1, <2>2
<1>7. ASSUME NEW u \in DATA_TYPES PROVE RecordsFirst(u)'
  <2>1. CASE u = t
    <3>1. CASE n % 3 = 0
      <4>1. Handled(t)
        BY <3>1, StartsHandled
      <4>2. queue'[t] = <<"record">>
        BY <3>1, <4>1, PublishFacts DEF Handled, Dump
      <4> QED BY <1>2, <2>1, <4>1, <4>2 DEF RecordsFirst, Handled, Quiet
    <3>2. CASE n % 3 # 0
      <4>1. (n + 1) % 3 # 1
        BY <1>1, <3>2, ModThree
      <4> QED BY <1>2, <2>1, <4>1 DEF RecordsFirst
    <3> QED BY <3>1, <3>2
  <2>2. CASE u # t
    <3>1. RecordsFirst(u) /\ queue'[u] = queue[u]
      BY <2>2, TurnParts, MessageOthers DEF MessageStep
    <3> QED BY <1>2, <2>2, <3>1 DEF RecordsFirst
  <2> QED BY <2>1, <2>2
<1>8. DumpsInTurn' <=> \A v \in DATA_TYPES : /\ \A u \in DATA_TYPES : InStep(v, u)'
                                             /\ HandledFirst(v)' /\ RecordsFirst(v)'
  BY DEF DumpsInTurn, InStep, HandledFirst, RecordsFirst
<1> QED BY <1>5, <1>6, <1>7, <1>8

\* Only publishing moves a type to its next dump.
LEMMA TurnKept ==
    ASSUME DumpsInTurn, published' = published,
           \A u \in DATA_TYPES : /\ HandledFirst(u) => HandledFirst(u)'
                                 /\ RecordsFirst(u) => RecordsFirst(u)'
    PROVE  DumpsInTurn'
<1>1. \A u, v \in DATA_TYPES : InStep(v, u)'
  BY TurnParts DEF InStep
<1>2. \A u \in DATA_TYPES : HandledFirst(u)' /\ RecordsFirst(u)'
  BY TurnParts
<1>3. DumpsInTurn' <=> \A v \in DATA_TYPES : /\ \A u \in DATA_TYPES : InStep(v, u)'
                                             /\ HandledFirst(v)' /\ RecordsFirst(v)'
  BY DEF DumpsInTurn, InStep, HandledFirst, RecordsFirst
<1> QED BY <1>1, <1>2, <1>3

\* A type that has been handled has nothing to deliver or to handle,
LEMMA HandledIsIdle ==
    ASSUME MessagesOK, NEW t \in DATA_TYPES, MessageStep(t), ~Publish(t)
    PROVE  ~Handled(t)
<1> SUFFICES ASSUME Handled(t) PROVE FALSE
  OBVIOUS
<1>1. queue[t] = <<>> /\ held[t] = 0 /\ \A h \in handlers : h[1] # t
  BY DEF Handled, Quiet
<1>2. ~DeliverNext(t)
  BY <1>1 DEF DeliverNext, DeliverRecord, DeliverFileComplete, DeliverExtractionComplete, Deliver
<1>3. ~Handle(t)
  <2>1. ~SettleRecords(t)
    BY <1>1 DEF SettleRecords
  <2>2. \A r, o : <<t, r, o>> \notin handlers
    BY <1>1
  <2> QED BY <2>1, <2>2 DEF Handle, FlushExtraction, LandFileComplete, LandExtractionComplete, AckExtractionComplete
<1>4. ASSUME NEW r \in Stages, NEW o \in BOOLEAN, RequeueMarker(t, r, o) PROVE FALSE
  BY <1>1, <1>4 DEF RequeueMarker
<1> QED BY <1>2, <1>3, <1>4 DEF MessageStep

\* and a type whose records are coming in only records.
LEMMA OnlyRecordsMove ==
    ASSUME MessagesOK, NEW t \in DATA_TYPES, MessageStep(t), ~Publish(t), RecordsFirst(t),
           published[t] % 3 = 1
    PROVE  DeliverRecord(t) \/ SettleRecords(t)
<1>1. /\ \A h \in handlers : h[1] # t
      /\ \A i \in 1..Len(queue[t]) : queue[t][i] = "record"
  BY DEF RecordsFirst
<1>2. queue[t] # <<>> => Head(queue[t]) = "record"
  <2> DEFINE q == queue[t]
  <2>1. q \in Seq(Messages) /\ \A i \in 1..Len(q) : q[i] = "record"
    BY <1>1, RowTypes
  <2> HIDE DEF q
  <2>2. q # <<>> => Head(q) = "record"
    BY <2>1, EmptySeq
  <2> QED BY <2>2 DEF q
<1>3. ~DeliverFileComplete(t) /\ ~DeliverExtractionComplete(t)
  BY <1>2 DEF DeliverFileComplete, DeliverExtractionComplete, Deliver
<1>4. ASSUME NEW o \in BOOLEAN
      PROVE  /\ ~FlushExtraction(t, o) /\ ~LandFileComplete(t, o)
             /\ ~LandExtractionComplete(t, o) /\ ~AckExtractionComplete(t, o)
  BY <1>1 DEF FlushExtraction, LandFileComplete, LandExtractionComplete, AckExtractionComplete
<1>5. ASSUME NEW r \in Stages, NEW o \in BOOLEAN, RequeueMarker(t, r, o) PROVE FALSE
  BY <1>1, <1>5 DEF RequeueMarker
<1> QED BY <1>3, <1>4, <1>5 DEF MessageStep, DeliverNext, Handle

LEMMA TurnUnderMessages ==
    ASSUME DumpsInTurn, MessagesOK, TasksOK, NEW t \in DATA_TYPES, MessageStep(t)
    PROVE  DumpsInTurn'
<1>1. CASE Publish(t)
  BY <1>1, TurnUnderPublish
<1>2. CASE ~Publish(t)
  <2>1. published' = published
    BY <1>2 DEF MessageStep, DeliverNext, DeliverRecord, DeliverFileComplete,
       DeliverExtractionComplete, Deliver, Handle, SettleRecords, FlushExtraction, LandFileComplete,
       LandExtractionComplete, AckExtractionComplete, RequeueMarker, byHandler
  <2>2. ASSUME NEW u \in DATA_TYPES, u # t
        PROVE  /\ HandledFirst(u) => HandledFirst(u)'
               /\ RecordsFirst(u) => RecordsFirst(u)'
    <3>1. /\ queue'[u] = queue[u] /\ held'[u] = held[u] /\ (u \in completed_files' <=> u \in completed_files)
          /\ \A h : h[1] = u => (h \in handlers' <=> h \in handlers)
      BY <2>2, MessageOthers
    <3>2. HandledFirst(u) => HandledFirst(u)'
      BY <2>1, <3>1 DEF HandledFirst, Handled, Quiet
    <3>3. RecordsFirst(u) => RecordsFirst(u)'
      BY <2>1, <3>1 DEF RecordsFirst
    <3> QED BY <3>2, <3>3
  <2>3. HandledFirst(t) => HandledFirst(t)'
    BY <1>2, <2>1, HandledIsIdle DEF HandledFirst
  <2>4. ASSUME RecordsFirst(t), published[t] % 3 = 1 PROVE RecordsFirst(t)'
    <3>1. CASE SettleRecords(t)
      BY <2>1, <2>4, <3>1 DEF SettleRecords, flagVars, RecordsFirst
    <3>2. CASE DeliverRecord(t)
      <4>1. queue[t] # <<>> /\ queue'[t] = Tail(queue[t])
        BY <3>2 DEF DeliverRecord, Deliver, MessagesOK
      <4>2. \A i \in 1..Len(queue'[t]) : queue'[t][i] = "record"
        <5> DEFINE q == queue[t]
        <5>1. q \in Seq(Messages) /\ (\A i \in 1..Len(q) : q[i] = "record") /\ q # <<>>
          BY <2>4, <4>1, RowTypes DEF RecordsFirst
        <5> HIDE DEF q
        <5>2. \A i \in 1..Len(Tail(q)) : Tail(q)[i] = "record"
          BY <5>1, HeadTailProperties
        <5> QED BY <4>1, <5>2 DEF q
      <4>3. t \notin completed_files' /\ handlers' = handlers
        BY <3>2 DEF DeliverRecord
      <4> QED BY <2>4, <4>2, <4>3 DEF RecordsFirst
    <3> QED BY <1>2, <2>4, <3>1, <3>2, OnlyRecordsMove
  <2>5. RecordsFirst(t) => RecordsFirst(t)'
    <3>1. CASE published[t] % 3 = 1
      BY <2>4, <3>1
    <3>2. CASE published[t] % 3 # 1
      BY <2>1, <3>2 DEF RecordsFirst
    <3> QED BY <3>1, <3>2
  <2> QED BY <2>1, <2>2, <2>3, <2>5, TurnKept
<1> QED BY <1>1, <1>2

\* What a closed channel gives back belongs to the dump it came from.
LEMMA TurnUnderReturns ==
    ASSUME DumpsInTurn, MessagesOK, published' = published,
           completed_files' \subseteq completed_files,
           queue' = [t \in DATA_TYPES |-> Unsettled(t) \o queue[t]],
           held' = [t \in DATA_TYPES |-> 0],
           handlers' \in {{}, {<<h[1], h[2], FALSE>> : h \in handlers}}
    PROVE  DumpsInTurn'
<1>1. ASSUME NEW u \in DATA_TYPES, \A h \in handlers : h[1] # u PROVE \A h \in handlers' : h[1] # u
  <2>1. CASE handlers' = {}
    BY <2>1
  <2>2. CASE handlers' = {<<h[1], h[2], FALSE>> : h \in handlers}
    <3>1. ASSUME NEW g \in handlers' PROVE g[1] # u
      <4>1. PICK h \in handlers : g = <<h[1], h[2], FALSE>>
        BY <2>2
      <4> QED BY <1>1, <4>1
    <3> QED BY <3>1
  <2> QED BY <2>1, <2>2
<1>2. ASSUME NEW u \in DATA_TYPES, Handled(u) PROVE Handled(u)'
  <2>1. queue'[u] = <<>> /\ held'[u] = 0
    BY <1>2, NothingReturns
  <2>2. \A h \in handlers' : h[1] # u
    BY <1>1, <1>2 DEF Handled, Quiet
  <2> QED BY <2>1, <2>2 DEF Handled, Quiet
<1>3. ASSUME NEW u \in DATA_TYPES, RecordsFirst(u), published[u] % 3 = 1 PROVE RecordsFirst(u)'
  <2>1. /\ \A h \in handlers : h[1] # u
        /\ \A i \in 1..Len(queue[u]) : queue[u][i] = "record"
        /\ u \in completed_files => queue[u] # <<>>
    BY <1>3 DEF RecordsFirst
  <2>2. queue'[u] = Unsettled(u) \o queue[u]
    OBVIOUS
  <2>3. \A i \in 1..Len(queue'[u]) : queue'[u][i] = "record"
    BY <2>1, <2>2, RecordsReturnToRecords
  <2>4. u \in completed_files' => queue'[u] # <<>>
    BY <2>1, <2>2, NotEmptied
  <2>5. \A h \in handlers' : h[1] # u
    BY <1>1, <2>1
  <2> QED BY <2>3, <2>4, <2>5 DEF RecordsFirst
<1>4. ASSUME NEW u \in DATA_TYPES PROVE RecordsFirst(u) => RecordsFirst(u)'
  <2>1. CASE published[u] % 3 = 1
    BY <1>3, <2>1
  <2>2. CASE published[u] % 3 # 1
    BY <2>2 DEF RecordsFirst
  <2> QED BY <2>1, <2>2
<1>5. ASSUME NEW u \in DATA_TYPES PROVE HandledFirst(u) => HandledFirst(u)'
  BY <1>2 DEF HandledFirst
<1> QED BY <1>4, <1>5, TurnKept

LEMMA TurnUnderStays ==
    ASSUME DumpsInTurn, UNCHANGED <<published, deliveries>>, completed_files' \subseteq completed_files
    PROVE  DumpsInTurn'
BY DEF deliveries, DumpsInTurn, Handled, Quiet

LEMMA TurnStep ==
    ASSUME DumpsInTurn, MessagesOK, TasksOK, [Next]_vars
    PROVE  DumpsInTurn'
<1>1. ASSUME NEW t \in DATA_TYPES, TimerStep(t) PROVE DumpsInTurn'
  BY <1>1, TimerFrame, TurnUnderStays DEF byTimer, flagVars
<1>2. ASSUME NEW c \in Closers, CloseStep(c) PROVE DumpsInTurn'
  <2>1. UNCHANGED <<published, completed_files>> /\ (ChannelGone \/ ChannelStays)
    BY <1>2, CloseFrame DEF byTimer, flagVars
  <2>2. CASE ChannelGone
    BY <2>1, <2>2, TurnUnderReturns DEF ChannelGone
  <2>3. CASE ChannelStays
    BY <2>1, <2>3, TurnUnderStays DEF ChannelStays
  <2> QED BY <2>1, <2>2, <2>3
<1>3. ASSUME NEW t \in DATA_TYPES, Consume(t) PROVE DumpsInTurn'
  <2>1. UNCHANGED <<published, deliveries>> /\ completed_files' \subseteq completed_files
    BY <1>3 DEF Consume
  <2> QED BY <2>1, TurnUnderStays
<1>4. \/ MoveStep \/ ReconnectStep \/ \E t \in DATA_TYPES : Resubscribe(t)
      \/ \E to \in {"sleep", "stuck"} : BeginRecovery(to)
      => UNCHANGED byChecker
  BY DEF MoveStep, CheckerMoves, ReconnectStep, Probe, Declare, ConnectFails, RecoveryFails, Resubscribe,
         BeginRecovery
<1>5. UNCHANGED byChecker => DumpsInTurn'
  BY TurnUnderStays DEF byChecker, flagVars, deliveries
<1>6. CASE Restart
  <2>1. /\ published' = published /\ completed_files' = {} /\ handlers' = {}
        /\ queue' = [t \in DATA_TYPES |-> Unsettled(t) \o queue[t]]
        /\ held' = [t \in DATA_TYPES |-> 0]
    BY <1>6 DEF Restart
  <2> QED BY <2>1, TurnUnderReturns
<1>7. CASE UNCHANGED vars
  BY <1>7, TurnUnderStays DEF vars, flagVars
<1> QED BY <1>1, <1>2, <1>3, <1>4, <1>5, <1>6, <1>7, TurnUnderMessages, StepKinds DEF SubscribeStep

-----------------------------------------------------------------------------
(* What holds while graces end after the messages they wait for.           *)

\* Everything proved so far of a state.
Base == /\ MessagesOK /\ TasksOK /\ TaggedInv
        /\ TransportIsKnown /\ RecoveryStartsClean /\ SleepersAreFed /\ DumpsInTurn

\* A type whose grace ends has nothing ready for its consumer or in hand.
LEMMA GraceEndsQuietly ==
    ASSUME TasksOK, MaxOverruns = 0, NEW t \in DATA_TYPES, GraceEnds(t)
    PROVE  Quiet(t) /\ (t \in subscribed => queue[t] = <<>>)
BY DEF GraceEnds, TasksOK

\* A timer goes on to its cancel call only from a grace that ended.
LEMMA CancelsBegin ==
    ASSUME TasksOK, [Next]_vars, NEW u \in DATA_TYPES,
           consumer_cancel_tasks'[u] = "cancel", consumer_cancel_tasks[u] # "cancel"
    PROVE  GraceEnds(u)
<1>1. consumer_cancel_tasks \in [DATA_TYPES -> Timers]
  BY DEF TasksOK
<1>2. ASSUME NEW t \in DATA_TYPES, MessageStep(t) PROVE FALSE
  <2>1. CASE UNCHANGED timerVars
    BY <2>1 DEF timerVars
  <2>2. CASE SetTimer(t, "off") \/ SetTimer(t, "sleep")
    BY <1>1, <2>2 DEF SetTimer
  <2> QED BY <1>2, <2>1, <2>2, MessageTimers
<1>3. ASSUME NEW t \in DATA_TYPES, TimerStep(t), ~GraceEnds(u) PROVE FALSE
  <2>1. CASE GraceEnds(t)
    BY <1>1, <1>3, <2>1 DEF GraceEnds
  <2>2. CASE ~GraceEnds(t)
    BY <1>1, <1>3, <2>2 DEF TimerStep, RunTimer, BrokerCancels, CancelConfirmed, CancelUnconfirmed, CloseStage,
                       timerVars
  <2> QED BY <2>1, <2>2
<1>4. ASSUME NEW c \in Closers, CloseStep(c) PROVE FALSE
  BY <1>4, CloseTimers
<1>5. ASSUME UNCHANGED timerVars \/ UNCHANGED consumer_cancel_tasks \/ TimersReset PROVE FALSE
  BY <1>5 DEF timerVars, TimersReset
<1>6. \/ MoveStep \/ SubscribeStep \/ ReconnectStep \/ Restart \/ UNCHANGED vars
      \/ \E to \in {"sleep", "stuck"} : BeginRecovery(to)
      => UNCHANGED timerVars \/ UNCHANGED consumer_cancel_tasks \/ TimersReset
  BY DEF MoveStep, CheckerMoves, SubscribeStep, Resubscribe, Consume, ReconnectStep, Probe, Declare,
         ConnectFails, RecoveryFails, Restart, vars, BeginRecovery
<1> QED BY <1>2, <1>3, <1>4, <1>5, <1>6, StepKinds

\* A type is put back to work by its record, which stops its timer, or by the
\* checker, which gives it a consumer.
LEMMA WorkResumes ==
    ASSUME TasksOK, [Next]_vars, NEW u \in DATA_TYPES, u \in completed_files, u \notin completed_files'
    PROVE  consumer_cancel_tasks'[u] = "off" \/ u \notin consumer_tags
<1>1. consumer_cancel_tasks \in [DATA_TYPES -> Timers]
  BY DEF TasksOK
<1>2. ASSUME NEW t \in DATA_TYPES, MessageStep(t)
      PROVE  consumer_cancel_tasks'[u] = "off"
  <2>1. ~DeliverRecord(t) => completed_files \subseteq completed_files'
    BY <1>2 DEF MessageStep, Publish, DeliverNext, DeliverFileComplete, DeliverExtractionComplete,
           Handle, SettleRecords, FlushExtraction, LandFileComplete, LandExtractionComplete, AckExtractionComplete,
           RequeueMarker, flagVars
  <2>2. DeliverRecord(t) /\ u = t
    BY <2>1 DEF DeliverRecord
  <2> QED BY <1>1, <2>2 DEF DeliverRecord, SetTimer
<1>3. ASSUME NEW t \in DATA_TYPES, TimerStep(t) PROVE FALSE
  BY <1>3, TimerFrame DEF byTimer, flagVars
<1>4. ASSUME NEW c \in Closers, CloseStep(c) PROVE FALSE
  BY <1>4, CloseFrame DEF byTimer, flagVars
<1>5. ASSUME NEW t \in DATA_TYPES, Consume(t) PROVE u \notin consumer_tags
  BY <1>5 DEF Consume
<1>6. ~UNCHANGED completed_files
  OBVIOUS
<1>7. \/ MoveStep \/ ReconnectStep \/ UNCHANGED vars \/ \E t \in DATA_TYPES : Resubscribe(t)
      \/ \E to \in {"sleep", "stuck"} : BeginRecovery(to)
      => UNCHANGED completed_files
  BY DEF MoveStep, CheckerMoves, Resubscribe, ReconnectStep, Probe, Declare,
         ConnectFails, RecoveryFails, vars, BeginRecovery, byChecker, flagVars
<1>8. Restart => consumer_cancel_tasks'[u] = "off"
  BY DEF Restart, TimersReset
<1> QED BY <1>2, <1>3, <1>4, <1>5, <1>6, <1>7, <1>8, StepKinds DEF SubscribeStep

LEMMA NeverStep ==
    ASSUME Base, NeverCancelsAnImport, MaxOverruns = 0, [Next]_vars
    PROVE  NeverCancelsAnImport'
<1> SUFFICES ASSUME NEW u \in DATA_TYPES, consumer_cancel_tasks'[u] = "cancel"
             PROVE  u \in completed_files'
  BY DEF NeverCancelsAnImport
<1>1. TasksOK
  BY DEF Base
<1>2. CASE consumer_cancel_tasks[u] = "cancel"
  <2>1. u \in completed_files /\ u \in consumer_tags
    BY <1>2 DEF Base, NeverCancelsAnImport, TaggedInv, CancelsArePending
  <2> QED BY <1>1, <2>1, WorkResumes
<1>3. CASE consumer_cancel_tasks[u] # "cancel"
  <2>1. GraceEnds(u)
    BY <1>1, <1>3, CancelsBegin
  <2>2. Quiet(u) /\ (u \in subscribed => queue[u] = <<>>)
    BY <1>1, <2>1, GraceEndsQuietly
  <2>3. consumer_cancel_tasks[u] = "sleep" /\ u \notin deadQueue /\ channelOpen
    BY <2>1 DEF GraceEnds, Usable, Base, TasksOK
  <2>4. u \in completed_files
    BY <2>2, <2>3 DEF Base, SleepersAreFed, Quiet
  <2>5. completed_files' = completed_files
    BY <2>1 DEF GraceEnds, byTimer, flagVars
  <2> QED BY <2>4, <2>5
<1> QED BY <1>2, <1>3

-----------------------------------------------------------------------------
(* Tags without a consumer are repaired.                                   *)

Repairs == GhostTagsAreRepaired /\ CancelsAreIdle /\ ClosersAreIdle /\ FramesAreFollowed

\* A requested recovery settles all four.
LEMMA RequestRepairs == ASSUME consumer_recovery_requested' PROVE Repairs'
BY DEF Repairs, GhostTagsAreRepaired, CancelsAreIdle, ClosersAreIdle, FramesAreFollowed

\* Who closes is not asleep, and not in a cancel call.
LEMMA ClosingTimer ==
    ASSUME NEW u \in DATA_TYPES
    PROVE  /\ u \in Closers
           /\ ClosingChannel(u) \/ ClosingConnection(u)
                 <=> consumer_cancel_tasks[u] \in {"channel", "connection"}
           /\ (ClosingChannel(u) \/ ClosingConnection(u))'
                 <=> consumer_cancel_tasks'[u] \in {"channel", "connection"}
BY CheckerAssumption DEF Closers, ClosingChannel, ClosingConnection

LEMMA ClosingChecker ==
    /\ ClosingChannel("checker") \/ ClosingConnection("checker")
          <=> pc \in {"channel", "abortChannel", "connection", "abortConnection"}
    /\ (ClosingChannel("checker") \/ ClosingConnection("checker"))'
          <=> pc' \in {"channel", "abortChannel", "connection", "abortConnection"}
BY DEF ClosingChannel, ClosingConnection

\* A close goes on as long as everyone who runs one does.
LEMMA ClosingKept ==
    ASSUME Closing,
           \A u \in DATA_TYPES : consumer_cancel_tasks[u] \in {"channel", "connection"} =>
                                   consumer_cancel_tasks'[u] \in {"channel", "connection"},
           pc \in {"channel", "abortChannel", "connection", "abortConnection"} =>
               pc' \in {"channel", "abortChannel", "connection", "abortConnection"}
    PROVE  Closing'
<1>1. PICK c \in Closers : ClosingChannel(c) \/ ClosingConnection(c)
  BY DEF Closing
<1>2. (ClosingChannel(c) \/ ClosingConnection(c))'
  <2>1. CASE c \in DATA_TYPES
    BY <1>1, <2>1, ClosingTimer
  <2>2. CASE c = "checker"
    BY <1>1, <2>2, ClosingChecker
  <2> QED BY <1>1, <2>1, <2>2 DEF Closers
<1> QED BY <1>2 DEF Closing, Closers

\* No delivery and no marker interrupts a close unless a recovery is due.
LEMMA ClosersRunOn ==
    ASSUME ClosersAreIdle, ~consumer_recovery_requested, NEW t \in DATA_TYPES, MessageStep(t),
           consumer_cancel_tasks[t] \in {"channel", "connection"}
    PROVE  UNCHANGED timerVars /\ ~DeliverNext(t)
<1>1. t \notin subscribed /\ \A h \in handlers : h[1] # t
  BY DEF ClosersAreIdle
<1>2. ~DeliverNext(t)
  BY <1>1 DEF DeliverNext, DeliverRecord, DeliverFileComplete, DeliverExtractionComplete, Deliver
<1>3. \A r, o : <<t, r, o>> \notin handlers
  BY <1>1
<1>4. CASE Handle(t)
  <2>1. SettleRecords(t)
    BY <1>3, <1>4 DEF Handle, FlushExtraction, LandFileComplete, LandExtractionComplete, AckExtractionComplete
  <2> QED BY <1>2, <2>1 DEF SettleRecords
<1>5. CASE Publish(t) \/ \E s \in Stages, open \in BOOLEAN : RequeueMarker(t, s, open)
  BY <1>2, <1>5 DEF Publish, RequeueMarker
<1> QED BY <1>2, <1>4, <1>5 DEF MessageStep

\* Nor does either end a cancel call without requesting one.
LEMMA CancelsRunOn ==
    ASSUME TasksOK, NEW t \in DATA_TYPES, MessageStep(t), ~consumer_recovery_requested'
    PROVE  /\ ~consumer_recovery_requested
           /\ \A u \in DATA_TYPES : consumer_cancel_tasks[u] = "cancel" => consumer_cancel_tasks'[u] = "cancel"
           /\ \A u \in DATA_TYPES :
                 consumer_cancel_tasks'[u] \in {"cancel", "channel", "connection"} =>
                    consumer_cancel_tasks'[u] = consumer_cancel_tasks[u]
           /\ consumer_cancel_tasks[t] = "cancel" => UNCHANGED timerVars
<1>1. CASE UNCHANGED timerVars
  BY <1>1 DEF timerVars
<1>2. ASSUME NEW to \in {"off", "sleep"}, SetTimer(t, to)
      PROVE  /\ ~consumer_recovery_requested /\ consumer_cancel_tasks[t] # "cancel"
             /\ consumer_cancel_tasks' = [consumer_cancel_tasks EXCEPT ![t] = to]
  BY <1>2 DEF SetTimer
<1>3. ASSUME NEW to \in {"off", "sleep"}, SetTimer(t, to)
      PROVE  \A u \in DATA_TYPES :
                /\ consumer_cancel_tasks[u] = "cancel" => consumer_cancel_tasks'[u] = "cancel"
                /\ consumer_cancel_tasks'[u] \in {"cancel", "channel", "connection"} =>
                       consumer_cancel_tasks'[u] = consumer_cancel_tasks[u]
  BY <1>2, <1>3 DEF TasksOK
<1> QED BY <1>1, <1>2, <1>3, MessageTimers

\* The frames: none is left alone by a message.
LEMMA FramesUnderMessages ==
    ASSUME Base, Repairs, NEW t \in DATA_TYPES, MessageStep(t), ~consumer_recovery_requested'
    PROVE  FramesAreFollowed'
<1>1. /\ TasksOK /\ ClosersAreIdle /\ FramesAreFollowed
  BY DEF Base, Repairs
<1>2. UNCHANGED <<cancelSent, consumer_tags, pc>>
  BY MessageFrame DEF wire, checkerVars
<1>3. ~consumer_recovery_requested
      /\ \A u \in DATA_TYPES : consumer_cancel_tasks[u] = "cancel" => consumer_cancel_tasks'[u] = "cancel"
  BY <1>1, CancelsRunOn
<1>4. closeSent' = closeSent
  <2>1. CASE UNCHANGED timerVars
    BY <2>1 DEF timerVars
  <2>2. CASE ~UNCHANGED timerVars
    <3>1. consumer_cancel_tasks[t] \notin {"channel", "connection"}
      BY <1>1, <1>3, <2>2, ClosersRunOn
    <3>2. ASSUME NEW to, SetTimer(t, to) PROVE closeSent' = closeSent
      <4>1. PICK sent \in {FALSE, consumer_cancel_tasks[t] \in {"channel", "connection"}} :
               closeSent' = (closeSent \/ sent)
        BY <3>2 DEF SetTimer
      <4>2. ~sent /\ closeSent \in BOOLEAN
        BY <1>1, <3>1, <4>1 DEF TasksOK
      <4> QED BY <4>1, <4>2
    <3> QED BY <2>2, <3>2, MessageTimers
  <2> QED BY <2>1, <2>2
<1>5. cancelSent \subseteq DATA_TYPES
  BY <1>1 DEF TasksOK
<1> QED BY <1>1, <1>2, <1>3, <1>4, <1>5 DEF FramesAreFollowed

\* What the next message of an idle type may be.
LEMMA CancelsUnderMessages ==
    ASSUME Base, Repairs, NEW t \in DATA_TYPES, MessageStep(t), ~consumer_recovery_requested'
    PROVE  CancelsAreIdle'
<1>1. MessagesOK /\ TasksOK /\ CancelsAreIdle
  BY DEF Base, Repairs
<1>2. /\ ~consumer_recovery_requested
      /\ \A u \in DATA_TYPES : consumer_cancel_tasks'[u] = "cancel" => consumer_cancel_tasks[u] = "cancel"
      /\ consumer_cancel_tasks[t] = "cancel" => UNCHANGED timerVars
  BY <1>1, CancelsRunOn
<1> DEFINE Idle(u) == /\ \A h \in handlers : h[1] # u
                      /\ IF queue[u] = <<>> THEN published[u] % 3 # 1
                                            ELSE Head(queue[u]) # "file_complete"
<1>3. ASSUME NEW u \in DATA_TYPES, consumer_cancel_tasks[u] = "cancel" PROVE Idle(u)
  BY <1>1, <1>2, <1>3 DEF CancelsAreIdle
<1>4. ASSUME NEW u \in DATA_TYPES, u # t, Idle(u) PROVE Idle(u)'
  <2>1. queue'[u] = queue[u] /\ published'[u] = published[u]
        /\ \A h : h[1] = u => (h \in handlers' <=> h \in handlers)
    BY <1>1, <1>4, MessageOthers
  <2> QED BY <1>4, <2>1
<1>5. ASSUME consumer_cancel_tasks[t] = "cancel", Idle(t) PROVE Idle(t)'
  <2>1. \A r, o : <<t, r, o>> \notin handlers
    BY <1>5
  <2>2. UNCHANGED timerVars
    BY <1>2, <1>5
  <2>3. CASE Publish(t)
    <3>1. published[t] \in Nat /\ UNCHANGED handlers /\ queue'[t] # <<>>
      BY <1>1, <2>3, PublishedTypes, PublishedWaits DEF Publish
    <3>2. CASE queue[t] = <<>>
      <4>1. Dump[(published[t] % 3) + 1] # "file_complete"
        <5>1. published[t] % 3 \in {0, 2}
          BY <1>5, <3>1, <3>2, ModThree
        <5> QED BY <5>1 DEF Dump
      <4>2. queue'[t] = <<Dump[(published[t] % 3) + 1]>>
        BY <1>1, <2>3, <3>2, PublishFacts
      <4> QED BY <1>5, <3>1, <4>1, <4>2
    <3>3. CASE queue[t] # <<>>
      <4> DEFINE q == queue[t]
                 m == Dump[(published[t] % 3) + 1]
      <4>1. q \in Seq(Messages) /\ q # <<>> /\ queue'[t] = Append(q, m)
        BY <1>1, <2>3, <3>3, RowTypes, PublishFacts
      <4>2. m \in Messages
        BY <3>1, ModThree DEF Dump, Messages
      <4>3. Head(q) # "file_complete"
        BY <1>5, <3>3
      <4> HIDE DEF q, m
      <4>4. Head(Append(q, m)) = Head(q)
        BY <4>1, <4>2, AppendProperties, EmptySeq
      <4> QED BY <1>5, <3>1, <4>1, <4>3, <4>4
    <3> QED BY <3>2, <3>3
  <2>4. CASE DeliverRecord(t) \/ DeliverExtractionComplete(t)
    <3>1. consumer_cancel_tasks'[t] = "off"
      BY <1>1, <2>4 DEF DeliverRecord, DeliverExtractionComplete, SetTimer, TasksOK
    <3> QED BY <1>5, <2>2, <3>1 DEF timerVars
  <2>5. ~DeliverFileComplete(t)
    BY <1>5 DEF DeliverFileComplete, Deliver
  <2>6. CASE Handle(t)
    <3>1. SettleRecords(t)
      BY <2>1, <2>6 DEF Handle, FlushExtraction, LandFileComplete, LandExtractionComplete, AckExtractionComplete
    <3> QED BY <1>5, <3>1 DEF SettleRecords, byHandler
  <2>7. ASSUME NEW r \in Stages, NEW o \in BOOLEAN, RequeueMarker(t, r, o) PROVE FALSE
    BY <2>1, <2>7 DEF RequeueMarker
  <2> QED BY <2>3, <2>4, <2>5, <2>6, <2>7 DEF MessageStep, DeliverNext
<1>6. ASSUME NEW u \in DATA_TYPES, consumer_cancel_tasks'[u] = "cancel" PROVE Idle(u)'
  BY <1>2, <1>3, <1>4, <1>5, <1>6
<1> QED BY <1>6 DEF CancelsAreIdle

LEMMA RepairsUnderMessages ==
    ASSUME Base, Repairs, NEW t \in DATA_TYPES, MessageStep(t)
    PROVE  Repairs'
<1> SUFFICES ASSUME ~consumer_recovery_requested' PROVE Repairs'
  BY RequestRepairs
<1>1. /\ MessagesOK /\ TasksOK
      /\ GhostTagsAreRepaired /\ CancelsAreIdle /\ ClosersAreIdle /\ FramesAreFollowed
  BY DEF Base, Repairs
<1>2. UNCHANGED <<subscribed, cancelSent, consumer_tags, pc, pending>>
  BY MessageFrame DEF wire, checkerVars
<1>3. ~consumer_recovery_requested
      /\ \A u \in DATA_TYPES : consumer_cancel_tasks[u] = "cancel" => consumer_cancel_tasks'[u] = "cancel"
  BY <1>1, CancelsRunOn
<1>4. ASSUME NEW u \in DATA_TYPES, consumer_cancel_tasks[u] \in {"channel", "connection"}
      PROVE  consumer_cancel_tasks'[u] = consumer_cancel_tasks[u]
  <2>1. CASE u = t
    BY <1>1, <1>3, <1>4, <2>1, ClosersRunOn DEF timerVars
  <2>2. CASE u # t
    BY <1>1, <2>2, MessageOthers
  <2> QED BY <2>1, <2>2
<1>5. GhostTagsAreRepaired'
  <2>1. Closing => Closing'
    BY <1>2, <1>4, ClosingKept
  <2>2. consumer_tags \subseteq DATA_TYPES
    BY <1>1 DEF TasksOK
  <2> QED BY <1>1, <1>2, <1>3, <2>1, <2>2 DEF GhostTagsAreRepaired
<1>6. ClosersAreIdle'
  <2> SUFFICES ASSUME NEW u \in DATA_TYPES, consumer_cancel_tasks'[u] \in {"channel", "connection"}
               PROVE  /\ u \notin subscribed' /\ \A h \in handlers' : h[1] # u
                      /\ ~(pc' = "resubscribe" /\ pending' = {u})
    BY DEF ClosersAreIdle
  <2>1. consumer_cancel_tasks[u] \in {"channel", "connection"}
    BY <1>1, CancelsRunOn
  <2>2. /\ u \notin subscribed /\ (\A h \in handlers : h[1] # u) /\ ~(pc = "resubscribe" /\ pending = {u})
    BY <1>1, <1>3, <2>1 DEF ClosersAreIdle
  <2>3. \A h \in handlers' : h[1] # u
    <3>1. CASE u = t
      <4>1. ~DeliverNext(t)
        BY <1>1, <1>3, <2>1, <3>1, ClosersRunOn
      <4>2. \A r, o : <<t, r, o>> \notin handlers
        BY <2>2, <3>1
      <4>3. handlers' \subseteq handlers
        BY <4>1, <4>2 DEF MessageStep, Publish, Handle, SettleRecords, FlushExtraction, LandFileComplete,
                   LandExtractionComplete, AckExtractionComplete, RequeueMarker
      <4> QED BY <2>2, <4>3
    <3>2. CASE u # t
      BY <1>1, <2>2, <3>2, MessageOthers
    <3> QED BY <3>1, <3>2
  <2> QED BY <1>2, <2>2, <2>3
<1>7. FramesAreFollowed' /\ CancelsAreIdle'
  BY FramesUnderMessages, CancelsUnderMessages
<1> QED BY <1>5, <1>6, <1>7 DEF Repairs

\* A cancel call begins only where nothing is left to hand over.
LEMMA GraceEndsIdle ==
    ASSUME Base, NeverCancelsAnImport, Repairs, MaxOverruns = 0, NEW t \in DATA_TYPES, GraceEnds(t),
           consumer_cancel_tasks'[t] = "cancel"
    PROVE  \/ consumer_recovery_requested
           \/ /\ \A h \in handlers : h[1] # t
              /\ queue[t] = <<>> /\ published[t] % 3 # 1
<1>1. Quiet(t) /\ (t \in subscribed => queue[t] = <<>>)
  BY GraceEndsQuietly DEF Base
<1>2. /\ consumer_cancel_tasks[t] = "sleep" /\ t \notin deadQueue /\ Usable /\ t \in consumer_tags
  BY DEF GraceEnds, Base, TasksOK
<1>3. CASE t \in subscribed
  <2>1. t \in completed_files
    BY <1>1, <1>2, <1>3 DEF Base, SleepersAreFed, Quiet, Usable
  <2>2. RecordsFirst(t)
    BY TurnParts DEF Base
  <2> QED BY <1>1, <1>3, <2>1, <2>2 DEF RecordsFirst, Quiet
<1>4. CASE t \notin subscribed
  BY <1>2, <1>4 DEF Repairs, GhostTagsAreRepaired, Usable
<1> QED BY <1>3, <1>4

LEMMA RepairsUnderTimers ==
    ASSUME Base, NeverCancelsAnImport, Repairs, MaxOverruns = 0, NEW t \in DATA_TYPES, TimerStep(t)
    PROVE  Repairs'
<1> SUFFICES ASSUME ~consumer_recovery_requested' PROVE Repairs'
  BY RequestRepairs
<1>1. /\ MessagesOK /\ TasksOK /\ CancelsArePending /\ ResubscribesUntagged
      /\ GhostTagsAreRepaired /\ CancelsAreIdle /\ ClosersAreIdle /\ FramesAreFollowed
  BY DEF Base, TaggedInv, Repairs
<1>2. UNCHANGED <<published, queue, handlers, pc, pending>>
  BY TimerFrame DEF byTimer, deliveries, checkerVars
<1>3. consumer_cancel_tasks \in [DATA_TYPES -> Timers] /\ consumer_tags \subseteq DATA_TYPES
      /\ cancelSent \subseteq DATA_TYPES
  BY <1>1 DEF TasksOK
<1>4. CASE GraceEnds(t)
  <2>1. PICK to \in {"cancel", "off"} :
            /\ consumer_cancel_tasks' = [consumer_cancel_tasks EXCEPT ![t] = to]
            /\ cancelSent' = IF to = "cancel" THEN cancelSent \cup {t} ELSE cancelSent
    <3>1. PICK call \in BOOLEAN :
            /\ consumer_cancel_tasks' =
                  [consumer_cancel_tasks EXCEPT ![t] = IF call THEN "cancel" ELSE "off"]
            /\ cancelSent' = IF call THEN cancelSent \cup {t} ELSE cancelSent
      BY <1>4 DEF GraceEnds
    <3>2. CASE call
      BY <3>1, <3>2
    <3>3. CASE ~call
      BY <3>1, <3>3
    <3> QED BY <3>2, <3>3
  <2>2. /\ UNCHANGED <<subscribed, consumer_tags, closeSent>> /\ consumer_cancel_tasks[t] = "sleep"
        /\ ~consumer_recovery_requested
    BY <1>1, <1>4 DEF GraceEnds, TasksOK
  <2>3. /\ consumer_cancel_tasks'[t] = to
        /\ \A u \in DATA_TYPES : u # t => consumer_cancel_tasks'[u] = consumer_cancel_tasks[u]
    BY <1>3, <2>1
  <2>4. GhostTagsAreRepaired'
    <3>1. Closing => Closing'
      BY <1>2, <2>2, <2>3, ClosingKept
    <3> QED BY <1>1, <1>3, <2>2, <2>3, <3>1 DEF GhostTagsAreRepaired
  <2>5. CancelsAreIdle'
    <3>1. to = "cancel" => /\ \A h \in handlers : h[1] # t
                           /\ queue[t] = <<>> /\ published[t] % 3 # 1
      BY <1>4, <2>2, <2>3, GraceEndsIdle
    <3> QED BY <1>1, <1>2, <2>2, <2>3, <3>1 DEF CancelsAreIdle
  <2>6. ClosersAreIdle'
    BY <1>1, <1>2, <2>2, <2>3 DEF ClosersAreIdle
  <2>7. FramesAreFollowed'
    BY <1>1, <1>2, <1>3, <2>1, <2>2, <2>3 DEF FramesAreFollowed
  <2> QED BY <2>4, <2>5, <2>6, <2>7 DEF Repairs
<1>5. CASE BrokerCancels(t)
  <2>1. /\ t \in cancelSent /\ subscribed' = subscribed \ {t} /\ cancelSent' = cancelSent \ {t}
        /\ UNCHANGED <<consumer_cancel_tasks, consumer_recovery_requested, closeSent, consumer_tags>>
    BY <1>5 DEF BrokerCancels, timerVars
  <2>2. GhostTagsAreRepaired'
    <3>1. Closing => Closing'
      BY <1>2, <2>1, ClosingKept
    <3> QED BY <1>1, <1>3, <2>1, <3>1 DEF GhostTagsAreRepaired, FramesAreFollowed
  <2> QED BY <1>1, <1>2, <2>1, <2>2
          DEF Repairs, CancelsAreIdle, ClosersAreIdle, FramesAreFollowed
<1>6. CASE CancelConfirmed(t)
  <2>1. /\ consumer_cancel_tasks[t] = "cancel" /\ t \notin cancelSent
        /\ consumer_tags' = consumer_tags \ {t}
        /\ UNCHANGED <<subscribed, cancelSent, consumer_recovery_requested, closeSent>>
    BY <1>6 DEF CancelConfirmed, wire
  <2>2. /\ consumer_cancel_tasks'[t] \in {"off", "channel", "connection"}
        /\ \A u \in DATA_TYPES : u # t => consumer_cancel_tasks'[u] = consumer_cancel_tasks[u]
    BY <1>3, <1>6 DEF CancelConfirmed, CloseStage
  <2>3. GhostTagsAreRepaired'
    <3>1. Closing => Closing'
      BY <1>2, <2>1, <2>2, ClosingKept
    <3> QED BY <1>1, <1>3, <2>1, <2>2, <3>1 DEF GhostTagsAreRepaired
  <2>4. CancelsAreIdle'
    BY <1>1, <1>2, <2>1, <2>2 DEF CancelsAreIdle
  <2>5. ClosersAreIdle'
    <3>1. /\ t \notin subscribed /\ (\A h \in handlers : h[1] # t)
          /\ ~(pc = "resubscribe" /\ pending = {t})
      BY <1>1, <2>1 DEF CancelsArePending, ResubscribesUntagged, CancelsAreIdle
    <3> QED BY <1>1, <1>2, <2>1, <2>2, <3>1 DEF ClosersAreIdle
  <2>6. FramesAreFollowed'
    BY <1>1, <1>2, <1>3, <2>1, <2>2 DEF FramesAreFollowed
  <2> QED BY <2>3, <2>4, <2>5, <2>6 DEF Repairs
<1>7. CASE CancelUnconfirmed(t)
  BY <1>7 DEF CancelUnconfirmed
<1> QED BY <1>4, <1>5, <1>6, <1>7 DEF TimerStep, RunTimer

\* A closed channel leaves no cancel waiting and no frame behind.
LEMMA RepairsUnderGone ==
    ASSUME TasksOK, ClosersAreIdle, ChannelGone, ~consumer_recovery_requested', ~consumer_recovery_requested,
           pc' = "resubscribe" => pc = "resubscribe", pending' = pending,
           \A u \in DATA_TYPES : /\ consumer_cancel_tasks'[u] # "cancel"
                                 /\ consumer_cancel_tasks'[u] \in {"channel", "connection"} =>
                                       consumer_cancel_tasks[u] \in {"channel", "connection"}
    PROVE  CancelsAreIdle' /\ ClosersAreIdle' /\ FramesAreFollowed'
<1>1. /\ subscribed' = {} /\ cancelSent' = {} /\ closeSent' = FALSE
      /\ handlers' = {<<h[1], h[2], FALSE>> : h \in handlers}
  BY DEF ChannelGone
<1>2. ASSUME NEW u \in DATA_TYPES, \A h \in handlers : h[1] # u PROVE \A h \in handlers' : h[1] # u
  <2>1. ASSUME NEW g \in handlers' PROVE g[1] # u
    <3>1. PICK h \in handlers : g = <<h[1], h[2], FALSE>>
      BY <1>1
    <3> QED BY <1>2, <3>1
  <2> QED BY <2>1
<1>3. CancelsAreIdle' /\ FramesAreFollowed'
  BY <1>1 DEF CancelsAreIdle, FramesAreFollowed
<1>4. ClosersAreIdle'
  BY <1>1, <1>2 DEF ClosersAreIdle
<1> QED BY <1>3, <1>4

LEMMA TimersGoFacts ==
    ASSUME TasksOK, NEW c, NEW to \in {"off", "connection"}, NEW gone, TimersGo(c, to, gone),
           ~consumer_recovery_requested'
    PROVE  /\ ~consumer_recovery_requested
           /\ \A u \in DATA_TYPES :
                 /\ u = c => consumer_cancel_tasks'[u] = to
                 /\ u # c => consumer_cancel_tasks'[u] = consumer_cancel_tasks[u]
           /\ gone => \A u \in DATA_TYPES : consumer_cancel_tasks'[u] # "cancel"
BY DEF TimersGo, TasksOK

LEMMA RepairsUnderCloseChannel ==
    ASSUME Base, Repairs, NEW c \in Closers, NEW ok \in BOOLEAN, CloseChannel(c, ok)
    PROVE  Repairs'
<1> SUFFICES ASSUME ~consumer_recovery_requested' PROVE Repairs'
  BY RequestRepairs
<1>1. /\ TasksOK
      /\ GhostTagsAreRepaired /\ CancelsAreIdle /\ ClosersAreIdle /\ FramesAreFollowed
  BY DEF Base, Repairs
<1>2. PICK gone \in {TRUE, ok} :
          (IF gone THEN ChannelGone ELSE ChannelStays) /\ TimersGo(c, "connection", gone)
  BY DEF CloseChannel
<1>3. /\ ~consumer_recovery_requested
      /\ \A u \in DATA_TYPES :
            /\ u = c => consumer_cancel_tasks'[u] = "connection"
            /\ u # c => consumer_cancel_tasks'[u] = consumer_cancel_tasks[u]
      /\ gone => \A u \in DATA_TYPES : consumer_cancel_tasks'[u] # "cancel"
  BY <1>1, <1>2, TimersGoFacts
<1>4. /\ c \in DATA_TYPES => consumer_cancel_tasks[c] = "channel"
      /\ pc' = "resubscribe" => pc = "resubscribe"
      /\ UNCHANGED <<published, consumer_tags, pending>>
  BY CheckerAssumption DEF CloseChannel, ClosingChannel, byTimer
<1>5. GhostTagsAreRepaired'
  <2>1. CASE c \in DATA_TYPES
    <3>1. ClosingConnection(c)'
      BY <1>3, <2>1, CheckerAssumption DEF ClosingConnection
    <3> QED BY <3>1 DEF Closing, Closers, GhostTagsAreRepaired
  <2>2. CASE c = "checker"
    <3>1. ClosingConnection("checker")'
      BY <2>2 DEF CloseChannel, ClosingConnection
    <3> QED BY <3>1 DEF Closing, Closers, GhostTagsAreRepaired
  <2> QED BY <2>1, <2>2 DEF Closers
<1>6. CASE gone
  <2>1. ChannelGone
    BY <1>2, <1>6
  <2>2. CancelsAreIdle' /\ ClosersAreIdle' /\ FramesAreFollowed'
    BY <1>1, <1>3, <1>4, <1>6, <2>1, RepairsUnderGone
  <2> QED BY <1>5, <2>2 DEF Repairs
<1>7. CASE ~gone
  <2>1. UNCHANGED <<queue, handlers, subscribed, cancelSent, closeSent>>
    BY <1>2, <1>7 DEF ChannelStays, deliveries, wire
  <2>2. CancelsAreIdle'
    BY <1>1, <1>3, <1>4, <2>1 DEF CancelsAreIdle
  <2>3. ClosersAreIdle'
    BY <1>1, <1>3, <1>4, <2>1 DEF ClosersAreIdle
  <2>4. cancelSent \subseteq DATA_TYPES
    BY <1>1 DEF TasksOK
  <2>5. FramesAreFollowed'
    BY <1>1, <1>3, <1>4, <2>1, <2>4 DEF FramesAreFollowed
  <2> QED BY <1>5, <2>2, <2>3, <2>5 DEF Repairs
<1> QED BY <1>6, <1>7

LEMMA RepairsUnderCloses ==
    ASSUME Base, Repairs, NEW c \in Closers, CloseStep(c)
    PROVE  Repairs'
<1> SUFFICES ASSUME ~consumer_recovery_requested' PROVE Repairs'
  BY RequestRepairs
<1>1. /\ TasksOK
      /\ GhostTagsAreRepaired /\ CancelsAreIdle /\ ClosersAreIdle /\ FramesAreFollowed
  BY DEF Base, Repairs
<1>2. ASSUME ChannelGone, NEW d, TimersGo(d, "off", TRUE),
             pc' = "resubscribe" => pc = "resubscribe", pending' = pending
      PROVE  CancelsAreIdle' /\ ClosersAreIdle' /\ FramesAreFollowed'
  BY <1>1, <1>2, TimersGoFacts, RepairsUnderGone
<1>3. CASE CloseConnection(c)
  <2>1. ChannelGone /\ consumer_tags' = {} /\ pending' = pending
    BY <1>3 DEF CloseConnection
  <2>2. GhostTagsAreRepaired'
    BY <2>1 DEF GhostTagsAreRepaired
  <2>3. CASE TimersReset
    BY <2>1, <2>2, <2>3
       DEF TimersReset, ChannelGone, Repairs, CancelsAreIdle, ClosersAreIdle, FramesAreFollowed
  <2>4. CASE ~TimersReset
    <3>1. TimersGo(c, "off", TRUE) /\ (pc' = "resubscribe" => pc = "resubscribe")
      BY <1>1, <1>3, <2>4 DEF CloseConnection, TasksOK
    <3> QED BY <1>2, <2>1, <2>2, <3>1 DEF Repairs
  <2> QED BY <2>3, <2>4
<1>4. CASE CloseFails(c)
  BY <1>4 DEF CloseFails
<1>5. CASE BrokerCloses
  <2>1. /\ closeSent /\ ChannelGone /\ TimersGo("checker", "off", TRUE)
        /\ UNCHANGED <<pc, pending, consumer_tags>>
    BY <1>5 DEF BrokerCloses, checkerVars
  <2>2. consumer_tags = {}
    BY <1>1, <2>1 DEF TimersGo, FramesAreFollowed
  <2>3. GhostTagsAreRepaired'
    BY <2>1, <2>2 DEF GhostTagsAreRepaired
  <2> QED BY <1>2, <2>1, <2>3 DEF Repairs
<1> QED BY <1>3, <1>4, <1>5, RepairsUnderCloseChannel DEF CloseStep

\* A resubscription is sent on a channel nobody closes.
ResubscribesUsable ==
    pc' = "resubscribe" => Usable \/ (pc = "resubscribe" /\ pending' = pending)

\* The checker moves on: nobody else notices.
LEMMA RepairsKept ==
    ASSUME Repairs, TasksOK,
           UNCHANGED <<published, queue, handlers, subscribed, cancelSent, consumer_tags, timerVars>>,
           pc \notin {"channel", "abortChannel", "connection", "abortConnection"},
           ResubscribesUsable
    PROVE  Repairs'
<1>1. /\ GhostTagsAreRepaired /\ CancelsAreIdle /\ ClosersAreIdle /\ FramesAreFollowed
  BY DEF Repairs
<1>2. UNCHANGED <<consumer_cancel_tasks, consumer_recovery_requested, closeSent>>
  BY DEF timerVars
<1>3. GhostTagsAreRepaired'
  <2>1. Closing => Closing'
    BY <1>2, ClosingKept
  <2> QED BY <1>1, <1>2, <2>1 DEF GhostTagsAreRepaired, TasksOK
<1>4. CancelsAreIdle'
  BY <1>1, <1>2 DEF CancelsAreIdle
<1>5. ClosersAreIdle'
  <2>1. ASSUME NEW u \in DATA_TYPES, consumer_cancel_tasks[u] \in {"channel", "connection"}
        PROVE  ~Usable
    BY <2>1, ClosingTimer DEF Usable, Closing
  <2> QED BY <1>1, <1>2, <2>1 DEF ClosersAreIdle, ResubscribesUsable
<1>6. FramesAreFollowed'
  <2>1. cancelSent \subseteq DATA_TYPES
    BY DEF TasksOK
  <2> QED BY <1>1, <1>2, <2>1 DEF FramesAreFollowed, Usable, ResubscribesUsable
<1> QED BY <1>3, <1>4, <1>5, <1>6 DEF Repairs

\* A new consumer belongs to no one who closes.
LEMMA RepairsUnderSubscribe ==
    ASSUME Base, Repairs, NEW t \in DATA_TYPES, Subscribe(t), UNCHANGED <<published, queue, handlers, timerVars>>,
           pc \in {"resubscribe", "consume"}, pc' # "resubscribe",
           pc = "resubscribe" => pending = {t}, pc = "consume" => Usable
    PROVE  Repairs'
<1>1. /\ TasksOK
      /\ GhostTagsAreRepaired /\ CancelsAreIdle /\ ClosersAreIdle /\ FramesAreFollowed
  BY DEF Base, Repairs
<1>2. /\ UNCHANGED <<consumer_cancel_tasks, consumer_recovery_requested, closeSent, cancelSent>>
      /\ subscribed' = subscribed \cup {t} /\ consumer_tags' = consumer_tags \cup {t}
  BY DEF timerVars, Subscribe
<1>3. GhostTagsAreRepaired'
  <2>1. Closing => Closing'
    BY <1>2, ClosingKept
  <2> QED BY <1>1, <1>2, <2>1 DEF GhostTagsAreRepaired, TasksOK
<1>4. CancelsAreIdle'
  BY <1>1, <1>2 DEF CancelsAreIdle
<1>5. ClosersAreIdle'
  <2>1. ASSUME NEW u \in DATA_TYPES, consumer_cancel_tasks[u] \in {"channel", "connection"}, Usable
        PROVE  FALSE
    BY <2>1, ClosingTimer DEF Usable, Closing
  <2>2. ASSUME NEW u \in DATA_TYPES, consumer_cancel_tasks[u] \in {"channel", "connection"},
               ~consumer_recovery_requested
        PROVE  u # t /\ u \notin subscribed /\ \A h \in handlers : h[1] # u
    BY <1>1, <2>1, <2>2 DEF ClosersAreIdle
  <2> QED BY <1>2, <2>2 DEF ClosersAreIdle
<1>6. FramesAreFollowed'
  <2>1. cancelSent \subseteq DATA_TYPES
    BY <1>1 DEF TasksOK
  <2>2. closeSent => consumer_recovery_requested
    BY <1>1 DEF FramesAreFollowed, Usable
  <2> QED BY <1>1, <1>2, <2>1, <2>2 DEF FramesAreFollowed
<1> QED BY <1>3, <1>4, <1>5, <1>6 DEF Repairs

LEMMA RepairsUnderRecovery ==
    ASSUME Base, Repairs, NEW to \in {"sleep", "stuck"}, BeginRecovery(to)
    PROVE  Repairs'
<1>1. /\ TasksOK /\ TransportIsKnown
      /\ GhostTagsAreRepaired /\ CancelsAreIdle /\ ClosersAreIdle /\ FramesAreFollowed
  BY DEF Base, Repairs
<1>2. UNCHANGED <<published, queue, handlers, subscribed, cancelSent, consumer_tags, pending>>
  BY DEF BeginRecovery, byChecker, wire
<1>3. CASE active_channel \/ active_connection
  <2>1. pc' \in {"channel", "connection"} /\ UNCHANGED timerVars
    BY <1>3 DEF BeginRecovery, CloseStage
  <2>2. GhostTagsAreRepaired'
    <3>1. Closing'
      BY <2>1, ClosingChecker DEF Closing, Closers
    <3> QED BY <3>1 DEF GhostTagsAreRepaired
  <2>3. CancelsAreIdle' /\ ClosersAreIdle'
    BY <1>1, <1>2, <2>1 DEF CancelsAreIdle, ClosersAreIdle, timerVars
  <2>4. cancelSent \subseteq DATA_TYPES
    BY <1>1 DEF TasksOK
  <2>5. FramesAreFollowed'
    BY <1>1, <1>2, <2>1, <2>4 DEF FramesAreFollowed, timerVars
  <2> QED BY <2>2, <2>3, <2>5 DEF Repairs
<1>4. CASE ~(active_channel \/ active_connection)
  <2>1. pc' = "connect" /\ TimersReset
    BY <1>4 DEF BeginRecovery
  <2>2. consumer_tags = {} /\ cancelSent = {}
    BY <1>1, <1>4 DEF TransportIsKnown
  <2> QED BY <1>2, <2>1, <2>2
          DEF TimersReset, Repairs, GhostTagsAreRepaired, CancelsAreIdle, ClosersAreIdle, FramesAreFollowed
<1> QED BY <1>3, <1>4

LEMMA RepairsUnderChecker ==
    ASSUME Base, Repairs, MoveStep \/ SubscribeStep \/ ReconnectStep
    PROVE  Repairs'
<1>1. TasksOK
  BY DEF Base
<1>2. CASE MoveStep
  <2>1. PICK to, left, found :
            /\ CheckerMoves(to, left, found)
            /\ pc \in {"sleep", "parked", "resubscribe", "stuck", "connect"}
            /\ to = "resubscribe" => Usable
    BY <1>2 DEF MoveStep
  <2>2. UNCHANGED <<published, queue, handlers, subscribed, cancelSent, consumer_tags, timerVars>>
    BY <2>1 DEF CheckerMoves, byChecker, wire
  <2>3. pc \notin {"channel", "abortChannel", "connection", "abortConnection"}
    BY <2>1
  <2>4. pc' = "resubscribe" => Usable
    BY <2>1 DEF CheckerMoves
  <2>5. ResubscribesUsable
    BY <2>4 DEF ResubscribesUsable
  <2> QED BY <1>1, <2>2, <2>3, <2>5, RepairsKept
<1>3. ASSUME NEW t \in DATA_TYPES, Resubscribe(t) PROVE Repairs'
  <2>1. /\ pc = "resubscribe" /\ pending = {t} /\ Subscribe(t)
        /\ UNCHANGED <<published, queue, handlers, timerVars>> /\ pc' # "resubscribe"
    BY <1>3, NextParkedIsNoResubscribe DEF Resubscribe, byChecker
  <2> QED BY <2>1, RepairsUnderSubscribe
<1>4. ASSUME NEW t \in DATA_TYPES, Consume(t) PROVE Repairs'
  <2>1. pc = "consume" /\ pc' # "resubscribe" /\ UNCHANGED <<published, queue, handlers, timerVars>>
    BY <1>1, <1>4 DEF Consume, deliveries, TasksOK
  <2>2. CASE t \in consumer_tags
    <3>1. UNCHANGED <<subscribed, cancelSent, consumer_tags>>
      BY <1>4, <2>2 DEF Consume, wire
    <3> QED BY <1>1, <2>1, <3>1, RepairsKept DEF ResubscribesUsable
  <2>3. CASE t \notin consumer_tags
    <3>1. Usable /\ Subscribe(t)
      BY <1>4, <2>3 DEF Consume
    <3> QED BY <2>1, <3>1, RepairsUnderSubscribe
  <2> QED BY <2>2, <2>3
<1>5. CASE Probe \/ Declare
  <2>1. /\ UNCHANGED <<published, queue, handlers, subscribed, cancelSent, consumer_tags, timerVars>>
        /\ pc \in {"probe", "declare"} /\ pc' # "resubscribe"
    BY <1>1, <1>5 DEF Probe, Declare, byChecker, wire, TasksOK
  <2> QED BY <1>1, <2>1, RepairsKept DEF ResubscribesUsable
<1>6. CASE ConnectFails \/ RecoveryFails
  BY <1>6, RequestRepairs DEF ConnectFails, RecoveryFails
<1> QED BY <1>2, <1>3, <1>4, <1>5, <1>6 DEF SubscribeStep, ReconnectStep

LEMMA RepairsStep ==
    ASSUME Base, NeverCancelsAnImport, Repairs, MaxOverruns = 0, [Next]_vars
    PROVE  Repairs'
<1>1. CASE Restart
  <2>1. /\ subscribed' = DATA_TYPES /\ consumer_tags' = DATA_TYPES /\ cancelSent' = {}
        /\ closeSent' = FALSE /\ consumer_cancel_tasks' = [t \in DATA_TYPES |-> "off"]
        /\ deadQueue' = {} /\ consumer_recovery_requested' = FALSE
    BY <1>1 DEF Restart
  <2> QED BY <2>1
          DEF Repairs, GhostTagsAreRepaired, CancelsAreIdle, ClosersAreIdle, FramesAreFollowed
<1>2. CASE UNCHANGED vars
  <2>1. UNCHANGED <<published, queue, handlers, subscribed, cancelSent, consumer_tags, timerVars, pc, pending>>
    BY <1>2 DEF vars, deliveries, wire, checkerVars
  <2>2. /\ TasksOK
        /\ GhostTagsAreRepaired /\ CancelsAreIdle /\ ClosersAreIdle /\ FramesAreFollowed
    BY DEF Base, Repairs
  <2>3. GhostTagsAreRepaired'
    <3>1. Closing => Closing'
      BY <2>1, ClosingKept DEF timerVars
    <3> QED BY <2>1, <2>2, <3>1 DEF GhostTagsAreRepaired, timerVars, TasksOK
  <2> QED BY <2>1, <2>2, <2>3 DEF Repairs, CancelsAreIdle, ClosersAreIdle, FramesAreFollowed, timerVars
<1> QED BY <1>1, <1>2, StepKinds, RepairsUnderMessages, RepairsUnderTimers, RepairsUnderCloses,
           RepairsUnderRecovery, RepairsUnderChecker

-----------------------------------------------------------------------------
(* The theorems.                                                           *)

LEMMA InvParts ==
    Inv /\ TaggedInv <=> /\ Base
                         /\ MaxOverruns = 0 => NeverCancelsAnImport /\ Repairs
BY ConsumerTypeParts DEF Inv, TimersInv, GraceInv, Base, Repairs

LEMMA InitInv == Init => Inv /\ TaggedInv
<1> SUFFICES ASSUME Init PROVE Inv /\ TaggedInv
  OBVIOUS
<1>1. TypeOK /\ TaggedInv
  BY InitConsumerTypes, InitTagged
<1>2. TransportIsKnown /\ RecoveryStartsClean /\ SleepersAreFed
  BY DEF Init, TransportIsKnown, RecoveryStartsClean, SleepersAreFed
<1>3. DumpsInTurn
  <2>1. \A t \in DATA_TYPES : published[t] = 0 /\ Handled(t)
    BY DEF Init, Handled, Quiet
  <2>2. ASSUME NEW t \in DATA_TYPES, NEW u \in DATA_TYPES PROVE InStep(t, u)
    <3>1. published[t] = 0 /\ published[u] = 0 /\ 0 % 3 = 0
      BY <2>1
    <3> QED BY <3>1 DEF InStep
  <2>3. ASSUME NEW t \in DATA_TYPES PROVE HandledFirst(t) /\ RecordsFirst(t)
    <3>1. published[t] = 0 /\ 0 % 3 = 0 /\ Handled(t)
      BY <2>1
    <3> QED BY <3>1 DEF HandledFirst, RecordsFirst
  <2> QED BY <2>2, <2>3, TurnParts
<1>4. NeverCancelsAnImport /\ GhostTagsAreRepaired /\ CancelsAreIdle /\ ClosersAreIdle /\ FramesAreFollowed
  BY DEF Init, NeverCancelsAnImport, GhostTagsAreRepaired, CancelsAreIdle, ClosersAreIdle,
         FramesAreFollowed
<1> QED BY <1>1, <1>2, <1>3, <1>4 DEF Inv, TimersInv, GraceInv

LEMMA InvStep == Inv /\ TaggedInv /\ [Next]_vars => (Inv /\ TaggedInv)'
<1> SUFFICES ASSUME Inv, TaggedInv, [Next]_vars PROVE (Inv /\ TaggedInv)'
  OBVIOUS
<1>1. Base /\ (MaxOverruns = 0 => NeverCancelsAnImport /\ Repairs)
  BY InvParts
<1>2. TaggedInv'
  BY StepTagged
<1>3. TypeOK'
  <2>1. MessagesOK' /\ TasksOK'
    BY <1>1, TypesStep DEF Base
  <2> QED BY <2>1 DEF TypeOK, MessagesOK, TasksOK
<1>4. TimersInv'
  <2>1. subscribed \subseteq consumer_tags
    BY DEF TaggedInv
  <2>2. /\ MessagesOK /\ TasksOK /\ TransportIsKnown /\ RecoveryStartsClean
        /\ SleepersAreFed /\ DumpsInTurn
    BY <1>1 DEF Base
  <2>3. TransportIsKnown'
    BY <2>2, TransportStep
  <2>4. RecoveryStartsClean'
    BY <2>1, <2>2, CleanStep
  <2>5. SleepersAreFed'
    BY <2>2, FedStep
  <2>6. DumpsInTurn'
    BY <2>2, TurnStep
  <2> QED BY <2>3, <2>4, <2>5, <2>6 DEF TimersInv
<1>5. MaxOverruns = 0 => GraceInv'
  <2> SUFFICES ASSUME MaxOverruns = 0 PROVE GraceInv'
    OBVIOUS
  <2>1. NeverCancelsAnImport'
    BY <1>1, NeverStep
  <2>2. Repairs'
    BY <1>1, RepairsStep
  <2> QED BY <2>1, <2>2 DEF GraceInv, Repairs
<1> QED BY <1>2, <1>3, <1>4, <1>5 DEF Inv

\* Tags, timers, queues and the checker fit together in every state, however
\* deliveries, cancels, closes, recoveries, failures and restarts interleave
\* (cancel_after_delay, close_rabbitmq_connection, _recover_consumers).
THEOREM TimersAndRecovery == Spec => []Inv
<1>1. Spec => [](Inv /\ TaggedInv)
  BY InitInv, InvStep, PTL DEF Spec
<1> QED BY <1>1, PTL

\* With graces that outlast the handling of what their consumer could get, no
\* grace timer cancels a type the next dump or a recovery has put back to
\* work, whatever fails or restarts
\* (the record branch of make_message_handler, _recover_consumers).
THEOREM ImportsKeepTheirConsumer ==
    ASSUME MaxOverruns = 0 PROVE Spec => []NeverCancelsAnImport
<1>1. Inv => NeverCancelsAnImport
  BY DEF Inv, GraceInv
<1> QED BY <1>1, TimersAndRecovery, PTL

\* And every tag whose consumer is gone has its repair under way: a cancel
\* call or a close that still runs, or a recovery that is due
\* (_cancel_consumer, close_rabbitmq_connection, consumer_recovery_requested).
THEOREM GhostTagsGetRepaired ==
    ASSUME MaxOverruns = 0 PROVE Spec => []GhostTagsAreRepaired
<1>1. Inv => GhostTagsAreRepaired
  BY DEF Inv, GraceInv
<1> QED BY <1>1, TimersAndRecovery, PTL
=============================================================================
