--------------------------- MODULE ConsumersProofs ---------------------------
(***************************************************************************)
(* That every consumer at the broker has its tag, and that the state is    *)
(* well typed, for any number of types and any number of failures,         *)
(* overruns, restarts and messages.                                        *)
(***************************************************************************)
EXTENDS Consumers, SequenceTheorems, TLAPS

\* A timer that waits for its CancelOk still has its tag, and the consumer is
\* gone once the broker has executed the frame.
CancelsArePending ==
    \A t \in DATA_TYPES :
        consumer_cancel_tasks[t] = "cancel" =>
            t \in consumer_tags /\ (t \in subscribed => t \in cancelSent)

\* The checker resubscribes only a type that has no tag: no timer waits for
\* the old consumer's CancelOk while the new one is registered.
ResubscribesUntagged == pc = "resubscribe" => pending \cap consumer_tags = {}

TaggedInv ==
    /\ subscribed \subseteq consumer_tags
    /\ consumer_cancel_tasks \in [DATA_TYPES -> Timers]
    /\ CancelsArePending
    /\ back \in {"sleep", "stuck"}
    /\ ResubscribesUntagged

TagVars == <<subscribed, cancelSent, consumer_tags, consumer_cancel_tasks, pc, back, pending>>

\* The checker does not start to resubscribe a type.
KeepsOff == pc' = "resubscribe" => pc = "resubscribe" /\ pending' = pending

LEMMA InitTagged == Init => TaggedInv
BY DEF Init, TaggedInv, CancelsArePending, ResubscribesUntagged, Timers

\* A step that leaves all of these alone.
LEMMA TaggedStutter == ASSUME TaggedInv, UNCHANGED TagVars PROVE TaggedInv'
BY DEF TaggedInv, TagVars, CancelsArePending, ResubscribesUntagged

\* A timer that is stopped or armed afresh waits for no CancelOk.
LEMMA SetTimerTagged ==
    ASSUME TaggedInv, NEW t \in DATA_TYPES, NEW to \in {"off", "sleep"}, SetTimer(t, to),
           UNCHANGED <<wire, consumer_tags, checkerVars>>
    PROVE  TaggedInv'
BY DEF TaggedInv, CancelsArePending, ResubscribesUntagged, SetTimer, Timers, wire, checkerVars

LEMMA DeliveriesTagged ==
    ASSUME TaggedInv, NEW t \in DATA_TYPES, DeliverNext(t) \/ Handle(t)
    PROVE  TaggedInv'
<1>1. CASE DeliverRecord(t)
  BY <1>1, SetTimerTagged DEF DeliverRecord, Deliver, byHandler
<1>2. CASE DeliverFileComplete(t)
  BY <1>2, TaggedStutter
     DEF DeliverFileComplete, Deliver, byHandler, TagVars, wire, checkerVars, timerVars
<1>3. CASE DeliverExtractionComplete(t)
  BY <1>3, SetTimerTagged DEF DeliverExtractionComplete, Deliver, byHandler
<1>4. CASE SettleRecords(t)
  BY <1>4, TaggedStutter DEF SettleRecords, byHandler, TagVars, wire, checkerVars, timerVars
<1>5. ASSUME NEW open \in BOOLEAN, FlushExtraction(t, open)
      PROVE  TaggedInv'
  BY <1>5, TaggedStutter DEF FlushExtraction, byHandler, TagVars, wire, checkerVars, timerVars
<1>7. ASSUME NEW open \in BOOLEAN, AckExtractionComplete(t, open)
      PROVE  TaggedInv'
  BY <1>7, TaggedStutter DEF AckExtractionComplete, byHandler, TagVars, wire, checkerVars, timerVars
<1>6. ASSUME NEW open \in BOOLEAN, LandFileComplete(t, open) \/ LandExtractionComplete(t, open)
      PROVE  TaggedInv'
  <2>1. UNCHANGED <<wire, consumer_tags, checkerVars>> /\ ArmTimer(t)
    BY <1>6 DEF LandFileComplete, LandExtractionComplete, AckExtractionComplete, byHandler
  <2>2. CASE queues
    BY <2>1, <2>2, SetTimerTagged DEF ArmTimer
  <2>3. CASE ~queues
    BY <2>1, <2>3, TaggedStutter DEF ArmTimer, TagVars, wire, checkerVars, timerVars
  <2> QED BY <2>2, <2>3
<1> QED BY <1>1, <1>2, <1>3, <1>4, <1>5, <1>6, <1>7 DEF DeliverNext, Handle

LEMMA TimersTagged ==
    ASSUME TaggedInv, NEW t \in DATA_TYPES, RunTimer(t)
    PROVE  TaggedInv'
<1>1. CASE GraceEnds(t)
  BY <1>1 DEF GraceEnds, TaggedInv, CancelsArePending, ResubscribesUntagged, Timers, checkerVars
<1>2. CASE BrokerCancels(t)
  BY <1>2
     DEF BrokerCancels, TaggedInv, CancelsArePending, ResubscribesUntagged, timerVars, checkerVars
<1>3. CASE CancelConfirmed(t)
  <2>1. t \notin subscribed
    BY <1>3 DEF CancelConfirmed, TaggedInv, CancelsArePending
  <2>2. CloseStage \in Timers \ {"cancel"}
    BY DEF CloseStage, Timers
  <2>3. UNCHANGED <<wire, checkerVars>> /\ consumer_tags' = consumer_tags \ {t}
    BY <1>3 DEF CancelConfirmed
  <2>4. PICK s \in Timers \ {"cancel"} :
            consumer_cancel_tasks' = [consumer_cancel_tasks EXCEPT ![t] = s]
    BY <1>3, <2>2 DEF CancelConfirmed, Timers
  <2> QED
    BY <2>1, <2>3, <2>4
       DEF TaggedInv, CancelsArePending, ResubscribesUntagged, wire, checkerVars, Timers
<1> QED BY <1>1, <1>2, <1>3 DEF RunTimer

\* Closing the channel ends every subscription and every wait for a CancelOk.
LEMMA GoneTagged ==
    ASSUME TaggedInv, NEW c, NEW to \in Timers \ {"cancel"},
           ChannelGone, TimersGo(c, to, TRUE),
           consumer_tags' \in {consumer_tags, {}}, back' \in {"sleep", "stuck"}, KeepsOff
    PROVE  TaggedInv'
BY DEF KeepsOff, TaggedInv, CancelsArePending, ResubscribesUntagged, ChannelGone, TimersGo, Timers

LEMMA ClosesTagged ==
    ASSUME TaggedInv, NEW c,
           \/ CloseChannel(c, TRUE) \/ CloseChannel(c, FALSE)
           \/ CloseConnection(c) \/ CloseFails(c)
    PROVE  TaggedInv'
<1>1. ASSUME NEW ok \in BOOLEAN, CloseChannel(c, ok)
      PROVE  TaggedInv'
  <2>1. KeepsOff /\ UNCHANGED <<consumer_tags, back>>
    BY <1>1 DEF CloseChannel, KeepsOff
  <2>2. CASE ChannelGone /\ TimersGo(c, "connection", TRUE)
    BY <2>1, <2>2, GoneTagged DEF Timers, TaggedInv
  <2>3. CASE ChannelStays /\ TimersGo(c, "connection", FALSE)
    BY <2>1, <2>3
       DEF ChannelStays, TimersGo, KeepsOff, TaggedInv, CancelsArePending, ResubscribesUntagged,
           wire, Timers
  <2>4. PICK gone \in {TRUE, ok} :
           (IF gone THEN ChannelGone ELSE ChannelStays) /\ TimersGo(c, "connection", gone)
    BY <1>1 DEF CloseChannel
  <2>5. CASE gone
    BY <2>2, <2>4, <2>5
  <2>6. CASE ~gone
    BY <2>3, <2>4, <2>6
  <2> QED BY <2>5, <2>6
<1>2. CASE CloseConnection(c)
  <2>1. /\ ChannelGone /\ consumer_tags' = {} /\ UNCHANGED <<back, pending>>
        /\ TimersReset \/ TimersGo(c, "off", TRUE)
    BY <1>2 DEF CloseConnection
  <2>2. KeepsOff
    BY <1>2 DEF CloseConnection, KeepsOff, TaggedInv
  <2>3. CASE TimersReset
    BY <2>1, <2>2, <2>3
       DEF ChannelGone, TimersReset, KeepsOff, TaggedInv, CancelsArePending,
           ResubscribesUntagged, Timers
  <2>4. CASE TimersGo(c, "off", TRUE)
    BY <2>1, <2>2, <2>4, GoneTagged DEF Timers, TaggedInv
  <2> QED BY <2>1, <2>3, <2>4
<1>3. CASE CloseFails(c)
  <2>1. KeepsOff /\ UNCHANGED <<consumer_tags, back>>
    BY <1>3 DEF CloseFails, KeepsOff, TaggedInv
  <2>2. PICK gone \in BOOLEAN :
           /\ IF gone THEN ChannelGone ELSE ChannelStays
           /\ consumer_cancel_tasks' =
                 [t \in DATA_TYPES |->
                     IF t = c \/ (gone /\ consumer_cancel_tasks[t] = "cancel") THEN "off"
                     ELSE consumer_cancel_tasks[t]]
    BY <1>3 DEF CloseFails
  <2>3. CASE gone
    BY <2>1, <2>2, <2>3
       DEF ChannelGone, KeepsOff, TaggedInv, CancelsArePending, ResubscribesUntagged, Timers
  <2>4. CASE ~gone
    BY <2>1, <2>2, <2>4
       DEF ChannelStays, KeepsOff, TaggedInv, CancelsArePending, ResubscribesUntagged, wire, Timers
  <2> QED BY <2>3, <2>4
<1> QED BY <1>1, <1>2, <1>3

\* The checker moves on without touching a consumer.
LEMMA CheckerMovesTagged ==
    ASSUME TaggedInv, NEW to, NEW left, NEW found, CheckerMoves(to, left, found),
           to = "resubscribe" => found \cap consumer_tags = {}
    PROVE  TaggedInv'
BY DEF CheckerMoves, TaggedInv, CancelsArePending, ResubscribesUntagged, wire, timerVars

LEMMA BeginRecoveryTagged ==
    ASSUME TaggedInv, NEW to \in {"sleep", "stuck"}, BeginRecovery(to)
    PROVE  TaggedInv'
<1>1. UNCHANGED <<wire, consumer_tags>> /\ back' = to
  BY DEF BeginRecovery
<1>2. pc' # "resubscribe"
  BY DEF BeginRecovery, CloseStage
<1>3. UNCHANGED consumer_cancel_tasks \/ TimersReset
  BY DEF BeginRecovery, timerVars
<1> QED BY <1>1, <1>2, <1>3
        DEF TaggedInv, CancelsArePending, ResubscribesUntagged, TimersReset, wire, Timers

\* A consumer is only registered for a type without a tag, whose timer thus
\* waits for no CancelOk.
LEMMA SubscribeTagged ==
    ASSUME TaggedInv, NEW t \in DATA_TYPES, t \notin consumer_tags, Subscribe(t),
           UNCHANGED <<consumer_cancel_tasks, back>>, pc' # "resubscribe"
    PROVE  TaggedInv'
BY DEF Subscribe, TaggedInv, CancelsArePending, ResubscribesUntagged

LEMMA NextParkedIsNoResubscribe == \A t : NextParked(t) \in {"stuck", "parked"}
BY DEF NextParked

LEMMA CheckerTagged ==
    ASSUME TaggedInv, RunChecker \/ RecoverStuck \/ RecoverIdle
    PROVE  TaggedInv'
<1>1. CASE RecoverAsRequested \/ RecoverParkedMarkers \/ RecoverStuck \/ RecoverIdle
  BY <1>1, BeginRecoveryTagged
     DEF RecoverAsRequested, RecoverParkedMarkers, RecoverStuck, RecoverIdle
<1>2. CASE LookForParkedMarkers
  BY <1>2, CheckerMovesTagged DEF LookForParkedMarkers
<1>3. ASSUME NEW t \in DATA_TYPES, ProbeParked(t)
      PROVE  TaggedInv'
  BY <1>3, CheckerMovesTagged, NextParkedIsNoResubscribe DEF ProbeParked
<1>4. ASSUME NEW t \in DATA_TYPES, Resubscribe(t)
      PROVE  TaggedInv'
  <2>1. t \notin consumer_tags
    BY <1>4 DEF Resubscribe, TaggedInv, ResubscribesUntagged
  <2>2. pc' # "resubscribe" /\ UNCHANGED <<consumer_cancel_tasks, back>> /\ Subscribe(t)
    BY <1>4, NextParkedIsNoResubscribe DEF Resubscribe, timerVars
  <2> QED BY <2>1, <2>2, SubscribeTagged
<1>5. ASSUME NEW t \in DATA_TYPES, Consume(t)
      PROVE  TaggedInv'
  <2>1. pc' # "resubscribe" /\ UNCHANGED <<consumer_cancel_tasks, back>>
    BY <1>5 DEF Consume, timerVars, TaggedInv
  <2>2. CASE t \in consumer_tags
    BY <1>5, <2>1, <2>2
       DEF Consume, TaggedInv, CancelsArePending, ResubscribesUntagged, wire
  <2>3. CASE t \notin consumer_tags
    BY <1>5, <2>1, <2>3, SubscribeTagged DEF Consume
  <2> QED BY <2>2, <2>3
<1>6. CASE EndTick \/ Connect
  BY <1>6, CheckerMovesTagged DEF EndTick, Connect
<1>7. CASE Probe
  <2>1. UNCHANGED <<subscribed, cancelSent, consumer_tags, consumer_cancel_tasks, back>>
    BY <1>7 DEF Probe, timerVars
  <2>2. pc' # "resubscribe"
    BY <1>7 DEF Probe, TaggedInv
  <2> QED BY <2>1, <2>2 DEF TaggedInv, CancelsArePending, ResubscribesUntagged
<1>8. CASE Declare
  BY <1>8 DEF Declare, TaggedInv, CancelsArePending, ResubscribesUntagged, wire, timerVars
<1>9. CASE Close("checker")
  BY <1>9, ClosesTagged DEF Close
<1> QED BY <1>1, <1>2, <1>3, <1>4, <1>5, <1>6, <1>7, <1>8, <1>9 DEF RunChecker

LEMMA FailuresTagged ==
    ASSUME TaggedInv,
           Fail \/ RecoveryFails \/ \E t \in DATA_TYPES : ResubscribeFails(t)
    PROVE  TaggedInv'
<1>1. ASSUME NEW t \in DATA_TYPES, NEW s \in Stages, NEW open \in BOOLEAN,
             RequeueMarker(t, s, open)
      PROVE  TaggedInv'
  BY <1>1, TaggedStutter DEF RequeueMarker, byHandler, TagVars, wire, checkerVars, timerVars
<1>2. ASSUME NEW t \in DATA_TYPES, CancelUnconfirmed(t)
      PROVE  TaggedInv'
  BY <1>2 DEF CancelUnconfirmed, TaggedInv, CancelsArePending, ResubscribesUntagged, wire,
              checkerVars, Timers
<1>3. ASSUME NEW t \in DATA_TYPES, ProbeParkedFails(t) \/ ResubscribeFails(t)
      PROVE  TaggedInv'
  BY <1>3, CheckerMovesTagged, NextParkedIsNoResubscribe DEF ProbeParkedFails, ResubscribeFails
<1>4. ASSUME NEW c \in Closers, CloseChannel(c, FALSE) \/ CloseFails(c)
      PROVE  TaggedInv'
  BY <1>4, ClosesTagged
<1>5. CASE ConnectFails
  BY <1>5 DEF ConnectFails, TaggedInv, CancelsArePending, ResubscribesUntagged, wire
<1>6. CASE RecoveryFails
  BY <1>6 DEF RecoveryFails, TaggedInv, CancelsArePending, ResubscribesUntagged, wire
<1> QED BY <1>1, <1>2, <1>3, <1>4, <1>5, <1>6 DEF Fail

LEMMA StepTagged == TaggedInv /\ [Next]_vars => TaggedInv'
<1> SUFFICES ASSUME TaggedInv, [Next]_vars PROVE TaggedInv'
  OBVIOUS
<1>1. ASSUME NEW t \in DATA_TYPES, Publish(t) PROVE TaggedInv'
  BY <1>1, TaggedStutter DEF Publish, TagVars, wire, checkerVars, timerVars
<1>2. ASSUME NEW t \in DATA_TYPES, Close(t) PROVE TaggedInv'
  BY <1>2, ClosesTagged DEF Close
<1>3. CASE BrokerCloses
  <2>1. KeepsOff /\ UNCHANGED <<consumer_tags, back>> /\ ChannelGone
    BY <1>3 DEF BrokerCloses, KeepsOff, checkerVars
  <2> QED BY <1>3, <2>1, GoneTagged DEF BrokerCloses, TaggedInv, Timers
<1>4. CASE Restart
  BY <1>4 DEF Restart, TimersReset, TaggedInv, CancelsArePending, ResubscribesUntagged, Timers
<1>5. CASE UNCHANGED vars
  BY <1>5, TaggedStutter DEF vars, TagVars, wire, checkerVars, timerVars
<1> QED BY <1>1, <1>2, <1>3, <1>4, <1>5, DeliveriesTagged, TimersTagged, CheckerTagged,
           FailuresTagged DEF Next

\* Every consumer the broker still feeds is known by its tag, however cancels,
\* closes, recoveries, failures and restarts interleave
\* (_cancel_consumer, close_rabbitmq_connection, _recover_consumers).
THEOREM SubscriptionsStayTagged == Spec => []SubscriptionsAreTagged
<1>1. TaggedInv => SubscriptionsAreTagged
  BY DEF TaggedInv, SubscriptionsAreTagged
<1> QED BY <1>1, InitTagged, StepTagged, PTL DEF Spec

-----------------------------------------------------------------------------
(* Type correctness.                                                       *)

\* What the broker and the handlers hold.
MessagesOK ==
    /\ published \in [DATA_TYPES -> 0..MaxPublished]
    /\ queue \in [DATA_TYPES -> Seq(Messages)]
    /\ held \in [DATA_TYPES -> Nat]
    /\ handlers \in SUBSET (DATA_TYPES \X Stages \X BOOLEAN)
    /\ completed_files \in SUBSET DATA_TYPES
    /\ extraction_signalled \in SUBSET DATA_TYPES
    /\ processed \in BOOLEAN

\* What the timers and the checker hold.
TasksOK ==
    /\ subscribed \in SUBSET DATA_TYPES
    /\ cancelSent \in SUBSET DATA_TYPES
    /\ channelOpen \in BOOLEAN /\ closeSent \in BOOLEAN /\ queues \in BOOLEAN
    /\ active_channel \in BOOLEAN /\ active_connection \in BOOLEAN
    /\ consumer_recovery_requested \in BOOLEAN
    /\ consumer_tags \in SUBSET DATA_TYPES
    /\ consumer_cancel_tasks \in [DATA_TYPES -> Timers]
    /\ deadQueue \in SUBSET DATA_TYPES
    /\ pc \in CheckerStates /\ back \in {"sleep", "stuck"}
    /\ todo \in SUBSET DATA_TYPES /\ pending \in SUBSET DATA_TYPES
    /\ overruns \in 0..MaxOverruns /\ faults \in 0..MaxFaults /\ restarts \in 0..MaxRestarts

LEMMA ConsumerTypeParts == TypeOK <=> MessagesOK /\ TasksOK
BY DEF TypeOK, MessagesOK, TasksOK

LEMMA InitConsumerTypes == Init => TypeOK
<1> SUFFICES ASSUME Init PROVE MessagesOK /\ TasksOK
  BY ConsumerTypeParts
<1>1. MessagesOK
  <2>1. /\ published \in [DATA_TYPES -> 0..MaxPublished] /\ queue \in [DATA_TYPES -> Seq(Messages)]
        /\ held \in [DATA_TYPES -> Nat]
    BY BoundsAssumption DEF Init
  <2> QED BY <2>1 DEF Init, MessagesOK
<1>2. TasksOK
  <2>1. overruns \in 0..MaxOverruns /\ faults \in 0..MaxFaults /\ restarts \in 0..MaxRestarts
    BY BoundsAssumption DEF Init
  <2>2. consumer_cancel_tasks \in [DATA_TYPES -> Timers] /\ pc \in CheckerStates
    BY DEF Init, Timers, CheckerStates
  <2> QED BY <2>1, <2>2 DEF Init, TasksOK
<1> QED BY <1>1, <1>2

LEMMA UnsettledIsMessages ==
    ASSUME MessagesOK, NEW t \in DATA_TYPES
    PROVE  Unsettled(t) \in Seq(Messages)
<1> DEFINE a == [i \in 1..held[t] |-> "record"]
           b == IF <<t, "file", TRUE>> \in handlers THEN <<"file_complete">> ELSE <<>>
           c == IF \E s \in Signalling : <<t, s, TRUE>> \in handlers
                THEN <<"extraction_complete">> ELSE <<>>
<1>1. a \in Seq(Messages)
  <2>1. held[t] \in Nat /\ a \in [1..held[t] -> Messages]
    BY DEF MessagesOK, Messages
  <2> HIDE DEF a
  <2> QED BY <2>1, SeqDef
<1>2. b \in Seq(Messages) /\ c \in Seq(Messages)
  <2>1. /\ <<>> \in Seq(Messages) /\ <<"file_complete">> \in Seq(Messages)
        /\ <<"extraction_complete">> \in Seq(Messages)
    BY DEF Messages
  <2> QED BY <2>1
<1>3. Unsettled(t) = a \o b \o c
  BY DEF Unsettled
<1> HIDE DEF a, b, c
<1> QED BY <1>1, <1>2, <1>3, ConcatProperties

\* A handler keeps its type and its stage when its channel goes.
LEMMA ReturnedTypes ==
    ASSUME MessagesOK, queue' = [t \in DATA_TYPES |-> Unsettled(t) \o queue[t]],
           held' = [t \in DATA_TYPES |-> 0], handlers' \in {{}, {<<h[1], h[2], FALSE>> : h \in handlers}}
    PROVE  /\ queue' \in [DATA_TYPES -> Seq(Messages)] /\ held' \in [DATA_TYPES -> Nat]
           /\ handlers' \in SUBSET (DATA_TYPES \X Stages \X BOOLEAN)
<1>1. ASSUME NEW t \in DATA_TYPES PROVE Unsettled(t) \o queue[t] \in Seq(Messages)
  <2>1. queue[t] \in Seq(Messages)
    BY DEF MessagesOK
  <2> QED BY <2>1, UnsettledIsMessages, ConcatProperties
<1>2. \A h \in handlers : <<h[1], h[2], FALSE>> \in DATA_TYPES \X Stages \X BOOLEAN
  BY DEF MessagesOK
<1> QED BY <1>1, <1>2

LEMMA GoneTypes ==
    ASSUME MessagesOK, TasksOK, ChannelGone
    PROVE  /\ queue' \in [DATA_TYPES -> Seq(Messages)] /\ held' \in [DATA_TYPES -> Nat]
           /\ handlers' \in SUBSET (DATA_TYPES \X Stages \X BOOLEAN)
           /\ subscribed' \in SUBSET DATA_TYPES /\ cancelSent' \in SUBSET DATA_TYPES
           /\ channelOpen' \in BOOLEAN /\ closeSent' \in BOOLEAN
BY ReturnedTypes DEF ChannelGone

LEMMA ChannelStaysTypes ==
    ASSUME MessagesOK, TasksOK, ChannelStays
    PROVE  /\ queue' \in [DATA_TYPES -> Seq(Messages)] /\ held' \in [DATA_TYPES -> Nat]
           /\ handlers' \in SUBSET (DATA_TYPES \X Stages \X BOOLEAN)
           /\ subscribed' \in SUBSET DATA_TYPES /\ cancelSent' \in SUBSET DATA_TYPES
           /\ channelOpen' \in BOOLEAN /\ closeSent' \in BOOLEAN
BY DEF ChannelStays, deliveries, wire, MessagesOK, TasksOK

TimersOK ==
    /\ consumer_cancel_tasks \in [DATA_TYPES -> Timers] /\ deadQueue \in SUBSET DATA_TYPES
    /\ closeSent \in BOOLEAN /\ consumer_recovery_requested \in BOOLEAN

LEMMA SetTimerTypes ==
    ASSUME TasksOK, NEW t \in DATA_TYPES, NEW to \in Timers, SetTimer(t, to)
    PROVE  TimersOK'
BY DEF TasksOK, TimersOK, SetTimer

LEMMA ArmTimerTypes ==
    ASSUME TasksOK, NEW t \in DATA_TYPES, ArmTimer(t)
    PROVE  TimersOK'
BY SetTimerTypes DEF ArmTimer, timerVars, Timers, TasksOK, TimersOK

LEMMA FaultTypes ==
    ASSUME TasksOK, Fault \/ UNCHANGED <<overruns, faults>>
    PROVE  overruns' \in 0..MaxOverruns /\ faults' \in 0..MaxFaults
BY BoundsAssumption DEF Fault, TasksOK

LEMMA DeliveryTypes ==
    ASSUME MessagesOK, TasksOK, NEW t \in DATA_TYPES, NEW kind, Deliver(t, kind)
    PROVE  queue' \in [DATA_TYPES -> Seq(Messages)]
<1>1. queue[t] \in Seq(Messages) /\ queue[t] # <<>>
  BY DEF MessagesOK, Deliver
<1>2. Tail(queue[t]) \in Seq(Messages)
  BY <1>1, HeadTailProperties
<1> QED BY <1>2 DEF Deliver, MessagesOK

LEMMA PublishTypes ==
    ASSUME MessagesOK, TasksOK,
           NEW t \in DATA_TYPES, Publish(t)
    PROVE  MessagesOK' /\ TasksOK'
<1>1. Dump[(published[t] % 3) + 1] \in Messages
  <2>1. published[t] % 3 \in 0..2
    BY DEF MessagesOK
  <2> QED BY <2>1 DEF Dump, Messages
<1>2. queue' \in [DATA_TYPES -> Seq(Messages)]
  <2>1. Append(queue[t], Dump[(published[t] % 3) + 1]) \in Seq(Messages)
    BY <1>1 DEF MessagesOK
  <2> QED BY <2>1 DEF Publish, MessagesOK
<1>3. published' \in [DATA_TYPES -> 0..MaxPublished]
  BY BoundsAssumption DEF Publish, MessagesOK
<1>4. MessagesOK'
  BY <1>2, <1>3 DEF Publish, MessagesOK, flagVars
<1>5. TasksOK'
  BY DEF Publish, TasksOK, wire, transportVars, timerVars, checkerVars, boundVars
<1> QED BY <1>4, <1>5

LEMMA DeliverTypes ==
    ASSUME MessagesOK, TasksOK,
           NEW t \in DATA_TYPES, DeliverNext(t)
    PROVE  MessagesOK' /\ TasksOK'
<1>1. PICK kind : Deliver(t, kind)
  BY DEF DeliverNext, DeliverRecord, DeliverFileComplete, DeliverExtractionComplete
<1>2. queue' \in [DATA_TYPES -> Seq(Messages)] /\ UNCHANGED <<byHandler, overruns, faults>>
  BY <1>1, DeliveryTypes DEF Deliver
<1>3. TimersOK'
  BY SetTimerTypes DEF DeliverNext, DeliverRecord, DeliverFileComplete, DeliverExtractionComplete,
                             Timers, timerVars, TasksOK, TimersOK
<1>4. TasksOK'
  BY <1>2, <1>3 DEF TasksOK, TimersOK, byHandler, wire, transportVars, checkerVars
<1>5. held' \in [DATA_TYPES -> Nat]
  <2>1. held' = held \/ held' = [held EXCEPT ![t] = @ + 1]
    BY DEF DeliverNext, DeliverRecord, DeliverFileComplete, DeliverExtractionComplete
  <2>2. held \in [DATA_TYPES -> Nat]
    BY DEF MessagesOK
  <2> QED BY <2>1, <2>2
<1>6. handlers' \in SUBSET (DATA_TYPES \X Stages \X BOOLEAN)
  <2>1. \/ handlers' = handlers \/ handlers' = handlers \cup {<<t, "file", TRUE>>}
        \/ handlers' = handlers \cup {<<t, "flush", TRUE>>}
    BY DEF DeliverNext, DeliverRecord, DeliverFileComplete, DeliverExtractionComplete
  <2>2. handlers \in SUBSET (DATA_TYPES \X Stages \X BOOLEAN)
    BY DEF MessagesOK
  <2>3. /\ <<t, "file", TRUE>> \in DATA_TYPES \X Stages \X BOOLEAN
        /\ <<t, "flush", TRUE>> \in DATA_TYPES \X Stages \X BOOLEAN
    BY DEF Stages, Signalling
  <2> QED BY <2>1, <2>2, <2>3
<1>7. /\ completed_files' \in SUBSET DATA_TYPES /\ extraction_signalled' \in SUBSET DATA_TYPES
      /\ processed' \in BOOLEAN
  BY DEF DeliverNext, DeliverRecord, DeliverFileComplete, DeliverExtractionComplete, MessagesOK,
         flagVars
<1>8. MessagesOK'
  BY <1>2, <1>5, <1>6, <1>7 DEF MessagesOK, byHandler
<1> QED BY <1>4, <1>8

LEMMA HandleTypes ==
    ASSUME MessagesOK, TasksOK,
           NEW t \in DATA_TYPES, Handle(t)
    PROVE  MessagesOK' /\ TasksOK'
<1>1. UNCHANGED <<byHandler, queue, overruns, faults>> /\ (ArmTimer(t) \/ UNCHANGED timerVars)
  BY DEF Handle, SettleRecords, FlushExtraction, LandFileComplete, LandExtractionComplete, AckExtractionComplete
<1>2. TimersOK'
  BY <1>1, ArmTimerTypes DEF timerVars, TasksOK, TimersOK
<1>3. TasksOK'
  BY <1>1, <1>2 DEF TasksOK, TimersOK, byHandler, wire, transportVars, checkerVars
<1>4. CASE SettleRecords(t)
  <2>1. held' \in [DATA_TYPES -> Nat]
    <3>1. held \in [DATA_TYPES -> Nat] /\ held' = [held EXCEPT ![t] = 0]
      BY <1>4 DEF SettleRecords, MessagesOK
    <3> QED BY <3>1
  <2>2. /\ published' = published /\ queue' = queue /\ handlers' = handlers
        /\ completed_files' = completed_files /\ extraction_signalled' = extraction_signalled
        /\ processed' = processed
    BY <1>4 DEF SettleRecords, byHandler, flagVars
  <2> QED BY <1>3, <2>1, <2>2 DEF MessagesOK
<1>5. ASSUME NEW open \in BOOLEAN, FlushExtraction(t, open) PROVE MessagesOK'
  BY <1>1, <1>5 DEF FlushExtraction, MessagesOK, Stages, Signalling, byHandler, flagVars
<1>6. ASSUME NEW open \in BOOLEAN, LandFileComplete(t, open) PROVE MessagesOK'
  BY <1>1, <1>6 DEF LandFileComplete, MessagesOK, byHandler
<1>7. ASSUME NEW open \in BOOLEAN, LandExtractionComplete(t, open) PROVE MessagesOK'
  <2>1. open \in BOOLEAN /\ <<t, "landed", open>> \in DATA_TYPES \X Stages \X BOOLEAN
    BY DEF Stages, Signalling
  <2>2. handlers' \subseteq handlers \cup {<<t, "landed", open>>}
    BY <1>7 DEF LandExtractionComplete
  <2>3. handlers' \in SUBSET (DATA_TYPES \X Stages \X BOOLEAN)
    BY <2>1, <2>2 DEF MessagesOK
  <2> QED BY <1>1, <1>7, <2>3 DEF LandExtractionComplete, MessagesOK, byHandler
<1>8. ASSUME NEW open \in BOOLEAN, AckExtractionComplete(t, open) PROVE MessagesOK'
  BY <1>1, <1>8 DEF AckExtractionComplete, MessagesOK, byHandler, flagVars
<1> QED BY <1>3, <1>4, <1>5, <1>6, <1>7, <1>8 DEF Handle

LEMMA TimerTypes ==
    ASSUME MessagesOK, TasksOK,
           NEW t \in DATA_TYPES, RunTimer(t) \/ CancelUnconfirmed(t)
    PROVE  MessagesOK' /\ TasksOK'
<1>1. MessagesOK'
  BY DEF RunTimer, GraceEnds, BrokerCancels, CancelConfirmed, CancelUnconfirmed, byTimer, flagVars,
              deliveries, MessagesOK
<1>2. TimersOK'
  BY DEF RunTimer, GraceEnds, BrokerCancels, CancelConfirmed, CancelUnconfirmed, CloseStage, timerVars,
         Timers, TasksOK, TimersOK
<1>3. /\ subscribed' \in SUBSET DATA_TYPES /\ cancelSent' \in SUBSET DATA_TYPES
      /\ consumer_tags' \in SUBSET DATA_TYPES /\ channelOpen' = channelOpen
  BY DEF RunTimer, GraceEnds, BrokerCancels, CancelConfirmed, CancelUnconfirmed, wire, TasksOK
<1>4. UNCHANGED <<transportVars, checkerVars, restarts>>
  BY DEF RunTimer, GraceEnds, BrokerCancels, CancelConfirmed, CancelUnconfirmed, byTimer
<1>5. overruns' \in 0..MaxOverruns /\ faults' \in 0..MaxFaults
  <2>1. CASE GraceEnds(t)
    BY <2>1, BoundsAssumption DEF GraceEnds, TasksOK
  <2>2. CASE BrokerCancels(t) \/ CancelConfirmed(t) \/ CancelUnconfirmed(t)
    BY <2>2, FaultTypes DEF BrokerCancels, CancelConfirmed, CancelUnconfirmed
  <2> QED BY <2>1, <2>2 DEF RunTimer
<1>6. TasksOK'
  BY <1>2, <1>3, <1>4, <1>5 DEF TasksOK, TimersOK, transportVars, checkerVars
<1> QED BY <1>1, <1>6

\* A step of close_rabbitmq_connection, or of the broker on its behalf.
CloseStep(c) ==
    \/ CloseChannel(c, TRUE) \/ CloseChannel(c, FALSE)
    \/ CloseConnection(c) \/ CloseFails(c) \/ BrokerCloses

LEMMA CloseTypes ==
    ASSUME MessagesOK, TasksOK, NEW c, CloseStep(c)
    PROVE  MessagesOK' /\ TasksOK'
<1>1. ChannelGone \/ ChannelStays
  BY DEF CloseStep, CloseChannel, CloseConnection, CloseFails, BrokerCloses
<1>2. /\ queue' \in [DATA_TYPES -> Seq(Messages)] /\ held' \in [DATA_TYPES -> Nat]
      /\ handlers' \in SUBSET (DATA_TYPES \X Stages \X BOOLEAN)
      /\ subscribed' \in SUBSET DATA_TYPES /\ cancelSent' \in SUBSET DATA_TYPES
      /\ channelOpen' \in BOOLEAN /\ closeSent' \in BOOLEAN
  BY <1>1, GoneTypes, ChannelStaysTypes
<1>3. UNCHANGED byTimer
  BY DEF CloseStep, CloseChannel, CloseConnection, CloseFails, BrokerCloses
<1>4. MessagesOK'
  BY <1>2, <1>3 DEF MessagesOK, byTimer, flagVars
<1>5. consumer_cancel_tasks' \in [DATA_TYPES -> Timers] /\ deadQueue' \in SUBSET DATA_TYPES
      /\ consumer_recovery_requested' \in BOOLEAN
  BY DEF CloseStep, CloseChannel, CloseConnection, CloseFails, BrokerCloses, TimersGo, TimersReset, Timers, TasksOK
<1>6. overruns' \in 0..MaxOverruns /\ faults' \in 0..MaxFaults
  BY FaultTypes DEF CloseStep, CloseChannel, CloseConnection, CloseFails, BrokerCloses
<1>7. pc' \in CheckerStates /\ UNCHANGED <<back, todo, pending, queues>>
  BY DEF CloseStep, CloseChannel, CloseConnection, CloseFails, BrokerCloses, checkerVars, transportVars, CheckerStates, TasksOK
<1>8. active_channel' \in BOOLEAN /\ active_connection' \in BOOLEAN /\ consumer_tags' \in SUBSET DATA_TYPES
  BY DEF CloseStep, CloseChannel, CloseConnection, CloseFails, BrokerCloses, transportVars, TasksOK
<1>9. TasksOK'
  BY <1>2, <1>3, <1>5, <1>6, <1>7, <1>8 DEF TasksOK, byTimer
<1> QED BY <1>4, <1>9

LEMMA MoveTypes ==
    ASSUME MessagesOK, TasksOK,
           NEW to \in CheckerStates, NEW left \in SUBSET DATA_TYPES, NEW found \in SUBSET DATA_TYPES, CheckerMoves(to, left, found), Fault \/ UNCHANGED <<overruns, faults>>
    PROVE  MessagesOK' /\ TasksOK'
<1>1. overruns' \in 0..MaxOverruns /\ faults' \in 0..MaxFaults
  BY FaultTypes
<1> QED BY <1>1 DEF CheckerMoves, byChecker, wire, flagVars, transportVars, timerVars, MessagesOK, TasksOK

LEMMA RecoveryTypes ==
    ASSUME MessagesOK, TasksOK,
           NEW to \in {"sleep", "stuck"}, BeginRecovery(to)
    PROVE  MessagesOK' /\ TasksOK'
<1>1. pc' \in CheckerStates /\ TimersOK'
  BY DEF BeginRecovery, CloseStage, CheckerStates, TimersReset, timerVars, Timers, TasksOK, TimersOK
<1> QED BY <1>1 DEF BeginRecovery, byChecker, wire, flagVars, transportVars, MessagesOK, TasksOK, TimersOK

LEMMA SubscribeTypes ==
    ASSUME MessagesOK, TasksOK,
           NEW t \in DATA_TYPES, Resubscribe(t) \/ Consume(t)
    PROVE  MessagesOK' /\ TasksOK'
<1>1. MessagesOK'
  BY DEF Resubscribe, Consume, byChecker, flagVars, deliveries, MessagesOK
<1>2. /\ subscribed' \in SUBSET DATA_TYPES /\ consumer_tags' \in SUBSET DATA_TYPES
      /\ UNCHANGED <<channelOpen, cancelSent>>
  BY DEF Resubscribe, Consume, Subscribe, wire, TasksOK
<1>3. UNCHANGED <<timerVars, transportVars, back, boundVars>>
  BY DEF Resubscribe, Consume, byChecker, boundVars
<1>4. pc' \in CheckerStates
  BY DEF Resubscribe, Consume, NextParked, CheckerStates, TasksOK
<1>5. todo' \in SUBSET DATA_TYPES /\ pending' \in SUBSET DATA_TYPES
  BY DEF Resubscribe, Consume, TasksOK
<1>6. TasksOK'
  BY <1>2, <1>3, <1>4, <1>5 DEF timerVars, transportVars, boundVars, TasksOK
<1> QED BY <1>1, <1>6

LEMMA ConnectTypes ==
    ASSUME MessagesOK, TasksOK,
           Probe \/ Declare \/ ConnectFails \/ RecoveryFails
    PROVE  MessagesOK' /\ TasksOK'
<1>1. MessagesOK'
  BY DEF Probe, Declare, ConnectFails, RecoveryFails, byChecker, flagVars, MessagesOK
<1>2. overruns' \in 0..MaxOverruns /\ faults' \in 0..MaxFaults
  BY FaultTypes DEF Probe, Declare, ConnectFails, RecoveryFails
<1>3. TasksOK'
  BY <1>2 DEF Probe, Declare, ConnectFails, RecoveryFails, byChecker, wire, timerVars, transportVars, CheckerStates, TasksOK
<1> QED BY <1>1, <1>3

LEMMA CheckerTypes ==
    ASSUME MessagesOK, TasksOK,
           RunChecker \/ RecoverStuck \/ RecoverIdle
    PROVE  MessagesOK' /\ TasksOK'
<1>1. CASE RecoverAsRequested \/ RecoverParkedMarkers \/ RecoverStuck \/ RecoverIdle
  BY RecoveryTypes, <1>1 DEF RecoverAsRequested, RecoverParkedMarkers, RecoverStuck, RecoverIdle
<1>2. CASE LookForParkedMarkers
  <2>1. types_awaiting_marker \in SUBSET DATA_TYPES
    BY DEF types_awaiting_marker, MessagesOK
  <2> QED BY MoveTypes, <1>2, <2>1 DEF LookForParkedMarkers, CheckerStates
<1>3. ASSUME NEW t \in DATA_TYPES, ProbeParked(t) PROVE MessagesOK' /\ TasksOK'
  <2>1. /\ NextParked(t) \in CheckerStates /\ "resubscribe" \in CheckerStates
        /\ todo \in SUBSET DATA_TYPES /\ todo \ {t} \in SUBSET DATA_TYPES
        /\ {t} \in SUBSET DATA_TYPES /\ {} \in SUBSET DATA_TYPES
    BY DEF NextParked, CheckerStates, TasksOK
  <2>2. UNCHANGED <<overruns, faults>>
    BY <1>3 DEF ProbeParked
  <2>3. CheckerMoves("resubscribe", todo, {t}) \/ CheckerMoves(NextParked(t), todo \ {t}, {})
    BY <1>3 DEF ProbeParked
  <2> QED BY <2>1, <2>2, <2>3, MoveTypes
<1>4. CASE EndTick \/ Connect
  BY MoveTypes, <1>4 DEF EndTick, Connect, CheckerStates
<1>5. CASE Close("checker")
  <2>1. CloseStep("checker")
    BY <1>5 DEF Close, CloseStep
  <2> QED BY <2>1, CloseTypes
<1> QED BY SubscribeTypes, ConnectTypes, <1>1, <1>2, <1>3, <1>4, <1>5 DEF RunChecker

LEMMA ParkedFailTypes ==
    ASSUME MessagesOK, TasksOK,
           NEW t \in DATA_TYPES, ProbeParkedFails(t) \/ ResubscribeFails(t)
    PROVE  MessagesOK' /\ TasksOK'
<1>1. /\ NextParked(t) \in CheckerStates /\ todo \ {t} \in SUBSET DATA_TYPES
      /\ {} \in SUBSET DATA_TYPES
  BY DEF NextParked, CheckerStates, TasksOK
<1>2. Fault \/ UNCHANGED <<overruns, faults>>
  BY DEF ProbeParkedFails, ResubscribeFails
<1>3. CheckerMoves(NextParked(t), todo \ {t}, {})
  BY DEF ProbeParkedFails, ResubscribeFails
<1> QED BY <1>1, <1>2, <1>3, MoveTypes

LEMMA RequeueTypes ==
    ASSUME MessagesOK, TasksOK,
           NEW t \in DATA_TYPES, NEW s \in Stages, NEW open \in BOOLEAN, RequeueMarker(t, s, open)
    PROVE  MessagesOK' /\ TasksOK'
<1>1. queue' \in [DATA_TYPES -> Seq(Messages)]
  <2> DEFINE m == IF s = "file" THEN "file_complete" ELSE "extraction_complete"
  <2>1. queue[t] \in Seq(Messages) /\ <<m>> \in Seq(Messages)
    BY DEF MessagesOK, Messages
  <2>2. <<m>> \o queue[t] \in Seq(Messages)
    BY <2>1, ConcatProperties
  <2>3. queue' = queue \/ queue' = [queue EXCEPT ![t] = <<m>> \o @]
    BY DEF RequeueMarker
  <2> HIDE DEF m
  <2> QED BY <2>2, <2>3 DEF MessagesOK
<1>2. overruns' \in 0..MaxOverruns /\ faults' \in 0..MaxFaults
  BY FaultTypes DEF RequeueMarker
<1>3. handlers' \subseteq handlers /\ UNCHANGED <<byHandler, held, flagVars, timerVars>>
  BY DEF RequeueMarker
<1>4. MessagesOK'
  BY <1>1, <1>3 DEF MessagesOK, byHandler, flagVars
<1>5. TasksOK'
  BY <1>2, <1>3 DEF TasksOK, byHandler, wire, transportVars, checkerVars, timerVars
<1> QED BY <1>4, <1>5

LEMMA RestartTypes ==
    ASSUME MessagesOK, TasksOK,
           Restart
    PROVE  MessagesOK' /\ TasksOK'
<1>1. MessagesOK'
  BY ReturnedTypes DEF Restart, MessagesOK
<1>2. TimersOK' /\ pc' \in CheckerStates
  BY DEF Restart, TimersReset, TimersOK, Timers, CheckerStates
<1>3. restarts' \in 0..MaxRestarts /\ overruns' \in 0..MaxOverruns /\ faults' \in 0..MaxFaults
  BY BoundsAssumption DEF Restart, TasksOK
<1>4. TasksOK'
  BY <1>2, <1>3 DEF Restart, TimersOK, TasksOK
<1> QED BY <1>1, <1>4

LEMMA FailTypes ==
    ASSUME MessagesOK, TasksOK,
           Fail
    PROVE  MessagesOK' /\ TasksOK'
<1>1. ASSUME NEW c \in Closers, CloseChannel(c, FALSE) \/ CloseFails(c) PROVE MessagesOK' /\ TasksOK'
  <2>1. CloseStep(c)
    BY <1>1 DEF CloseStep
  <2> QED BY <2>1, CloseTypes
<1> QED BY TimerTypes, ConnectTypes, ParkedFailTypes, RequeueTypes, <1>1 DEF Fail

LEMMA StutterTypes ==
    ASSUME MessagesOK, TasksOK,
           UNCHANGED vars
    PROVE  MessagesOK' /\ TasksOK'
BY DEF vars, deliveries, wire, flagVars, transportVars, timerVars, checkerVars, boundVars, MessagesOK, TasksOK

LEMMA TypesStep ==
    ASSUME MessagesOK, TasksOK, [Next]_vars
    PROVE  MessagesOK' /\ TasksOK'
<1>1. ASSUME NEW t \in DATA_TYPES, Close(t) PROVE MessagesOK' /\ TasksOK'
  <2>1. CloseStep(t)
    BY <1>1 DEF Close, CloseStep
  <2> QED BY <2>1, CloseTypes
<1>2. CASE BrokerCloses
  <2>1. CloseStep("checker")
    BY <1>2 DEF CloseStep
  <2> QED BY <2>1, CloseTypes
<1> QED BY <1>1, <1>2, PublishTypes, DeliverTypes, HandleTypes, TimerTypes, ConnectTypes, CheckerTypes,
           ParkedFailTypes, FailTypes, RestartTypes, StutterTypes DEF Next

\* Flags, timers, tags and the checker's state are what their names say, and
\* every message is of one of the three kinds, also after the broker has put
\* back what a closed channel left unsettled (close_rabbitmq_connection).
THEOREM ConsumersTypeCorrect == Spec => []TypeOK
<1>1. TypeOK /\ [Next]_vars => TypeOK'
  <2> SUFFICES ASSUME MessagesOK, TasksOK, [Next]_vars PROVE MessagesOK' /\ TasksOK'
    BY DEF TypeOK, MessagesOK, TasksOK
  <2> QED BY TypesStep
<1> QED BY <1>1, InitConsumerTypes, PTL DEF Spec
=============================================================================
