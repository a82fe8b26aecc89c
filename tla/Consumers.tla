------------------------------ MODULE Consumers ------------------------------
(***************************************************************************)
(* The consumers graphinator.py holds on its RabbitMQ queues.  When a      *)
(* type's file_complete or extraction_complete lands, a grace timer is     *)
(* armed that cancels the type's consumer; the last cancel of a finished   *)
(* import closes the transport; periodic_queue_checker brings consumers    *)
(* back for a parked extraction_complete, after a failed cancel, when they *)
(* died, and when an idle service finds messages.                          *)
(*                                                                         *)
(* Handlers, grace timers and the checker are tasks of one asyncio         *)
(* process: an action is the code between two awaits.  A cancel is a frame *)
(* the broker may execute after its waiter has given up.  Time is not      *)
(* modelled, except that a grace as a rule ends after the messages its     *)
(* consumer could get have been handled.                                   *)
(***************************************************************************)
EXTENDS Integers, Sequences

CONSTANTS
    DATA_TYPES,     \* one queue, one consumer and one grace timer for each
    MaxPublished,   \* bound: messages the extractor publishes per type, 3 a dump
    MaxOverruns,    \* bound: graces a delivery's handling outlasts
    MaxFaults,      \* bound: broker calls and marker attempts that fail
    MaxRestarts     \* bound: restarts of the process

ASSUME BoundsAssumption ==
    MaxPublished \in Nat /\ MaxOverruns \in Nat /\ MaxFaults \in Nat /\ MaxRestarts \in Nat
ASSUME CheckerAssumption == "checker" \notin DATA_TYPES

VARIABLES
    \* the extractor and RabbitMQ
    published,      \* messages published for each type
    queue,          \* ready messages of each type
    subscribed,     \* types with a consumer at the broker
    channelOpen,    \* the channel behind active_channel is open at the broker
    cancelSent,     \* basic.cancel frames the broker has not executed yet
    \* deliveries being handled
    held,           \* records delivered and not settled, per type
    handlers,       \* marker handlers: <<type, stage, channel still open>>
    \* module globals of graphinator.py
    completed_files, extraction_signalled,
    processed,      \* some message_counts entry is positive
    consumer_tags,
    active_channel, active_connection,
    queues,         \* the queues dictionary is filled
    consumer_cancel_tasks,  \* where each type's grace timer is suspended
    deadQueue,              \* types whose timer holds a closed channel's queue
    consumer_recovery_requested,
    closeSent,              \* a close frame whose waiter was interrupted
    \* periodic_queue_checker
    pc,             \* where it is suspended
    back,           \* where it is once _recover_consumers returns
    todo,           \* types its current loop has not visited
    pending,        \* types whose queue it found messages in
    \* bounds
    overruns, faults, restarts

deliveries == <<queue, held, handlers>>
wire == <<subscribed, channelOpen, cancelSent>>
flagVars == <<completed_files, extraction_signalled, processed>>
transportVars == <<active_channel, active_connection, queues>>
timerVars == <<consumer_cancel_tasks, deadQueue, consumer_recovery_requested, closeSent>>
checkerVars == <<pc, back, todo, pending>>
boundVars == <<overruns, faults, restarts>>
vars == <<published, deliveries, wire, flagVars, consumer_tags, transportVars,
          timerVars, checkerVars, boundVars>>

\* What a delivery's handler, a grace timer and the checker leave alone.
byHandler == <<published, wire, consumer_tags, transportVars, checkerVars, restarts>>
byTimer == <<published, flagVars, restarts>>
byChecker == <<published, queue, held, handlers, flagVars, restarts>>

Dump == <<"record", "file_complete", "extraction_complete">>
Messages == {"record", "file_complete", "extraction_complete"}
Signalling == {"flush", "latch", "landed"}
Stages == {"file"} \cup Signalling
Timers == {"off", "sleep", "cancel", "channel", "connection"}
CheckerStates == {"sleep", "parked", "resubscribe", "stuck", "channel", "connection",
                  "connect", "probe", "declare", "consume", "abortChannel", "abortConnection"}

TypeOK ==
    /\ published \in [DATA_TYPES -> 0..MaxPublished]
    /\ queue \in [DATA_TYPES -> Seq(Messages)]
    /\ subscribed \in SUBSET DATA_TYPES
    /\ cancelSent \in SUBSET DATA_TYPES
    /\ {channelOpen, closeSent, processed, queues, active_channel, active_connection,
        consumer_recovery_requested} \subseteq BOOLEAN
    /\ held \in [DATA_TYPES -> Nat]
    /\ handlers \in SUBSET (DATA_TYPES \X Stages \X BOOLEAN)
    /\ completed_files \in SUBSET DATA_TYPES
    /\ extraction_signalled \in SUBSET DATA_TYPES
    /\ consumer_tags \in SUBSET DATA_TYPES
    /\ consumer_cancel_tasks \in [DATA_TYPES -> Timers]
    /\ deadQueue \in SUBSET DATA_TYPES
    /\ pc \in CheckerStates /\ back \in {"sleep", "stuck"}
    /\ todo \in SUBSET DATA_TYPES /\ pending \in SUBSET DATA_TYPES
    /\ overruns \in 0..MaxOverruns /\ faults \in 0..MaxFaults /\ restarts \in 0..MaxRestarts

\* main() has registered a consumer on every queue and started the checker.
Init ==
    /\ published = [t \in DATA_TYPES |-> 0]
    /\ queue = [t \in DATA_TYPES |-> <<>>]
    /\ held = [t \in DATA_TYPES |-> 0] /\ handlers = {}
    /\ subscribed = DATA_TYPES /\ channelOpen = TRUE /\ cancelSent = {}
    /\ completed_files = {} /\ extraction_signalled = {} /\ processed = FALSE
    /\ consumer_tags = DATA_TYPES
    /\ active_channel = TRUE /\ active_connection = TRUE /\ queues = TRUE
    /\ consumer_cancel_tasks = [t \in DATA_TYPES |-> "off"] /\ deadQueue = {}
    /\ consumer_recovery_requested = FALSE /\ closeSent = FALSE
    /\ pc = "sleep" /\ back = "sleep" /\ todo = {} /\ pending = {}
    /\ overruns = 0 /\ faults = 0 /\ restarts = 0

-----------------------------------------------------------------------------
(* Shared pieces.                                                          *)

Fault == faults < MaxFaults /\ faults' = faults + 1 /\ UNCHANGED overruns

types_awaiting_marker == completed_files \ (consumer_tags \cup extraction_signalled)

check_consumers_unexpectedly_dead ==
    consumer_tags = {} /\ completed_files # DATA_TYPES /\ processed

Quiet(t) == held[t] = 0 /\ \A h \in handlers : h[1] # t
Handled(t) == Quiet(t) /\ queue[t] = <<>>

\* What the broker puts back in front of t's queue when the channel closes.
Unsettled(t) ==
    [i \in 1..held[t] |-> "record"]
    \o (IF <<t, "file", TRUE>> \in handlers THEN <<"file_complete">> ELSE <<>>)
    \o (IF \E s \in Signalling : <<t, s, TRUE>> \in handlers
        THEN <<"extraction_complete">> ELSE <<>>)

\* The channel is gone at the broker: no consumer, every unsettled delivery
\* returned, no cancel outstanding; its handlers run on.
ChannelGone ==
    /\ subscribed' = {} /\ channelOpen' = FALSE /\ cancelSent' = {} /\ closeSent' = FALSE
    /\ queue' = [t \in DATA_TYPES |-> Unsettled(t) \o queue[t]]
    /\ held' = [t \in DATA_TYPES |-> 0]
    /\ handlers' = {<<h[1], h[2], FALSE>> : h \in handlers}
ChannelStays == UNCHANGED <<deliveries, wire, closeSent>>

\* close_rabbitmq_connection is run by a grace timer or by the checker, which
\* runs it before it reconnects and, as "abort", after it failed to.
Closers == DATA_TYPES \cup {"checker"}
ClosingChannel(c) ==
    IF c = "checker" THEN pc \in {"channel", "abortChannel"}
                     ELSE consumer_cancel_tasks[c] = "channel"
ClosingConnection(c) ==
    IF c = "checker" THEN pc \in {"connection", "abortConnection"}
                     ELSE consumer_cancel_tasks[c] = "connection"
Closing == \E c \in Closers : ClosingChannel(c) \/ ClosingConnection(c)

\* A new request on the channel can succeed: its close has not been sent.
Usable == channelOpen /\ ~closeSent /\ ~Closing

\* The first await of close_rabbitmq_connection; "off" without a transport.
CloseStage ==
    IF active_channel THEN "channel" ELSE IF active_connection THEN "connection" ELSE "off"

\* task.cancel() on t's grace timer, if there is one, and its replacement: a
\* waiter interrupted in its cancel call requests recovery; one interrupted
\* in a close just ends, the frame sent or not and the handles kept.
SetTimer(t, to) ==
    /\ consumer_cancel_tasks' = [consumer_cancel_tasks EXCEPT ![t] = to]
    /\ deadQueue' = IF to = "sleep" /\ ~channelOpen THEN deadQueue \cup {t}
                                                    ELSE deadQueue \ {t}
    /\ consumer_recovery_requested' =
          (consumer_recovery_requested \/ consumer_cancel_tasks[t] = "cancel")
    /\ \E sent \in {FALSE, consumer_cancel_tasks[t] \in {"channel", "connection"}} :
          closeSent' = (closeSent \/ sent)

-----------------------------------------------------------------------------
(* The extractor, and deliveries to their handlers.                        *)

\* The next message of t's current dump; extraction_complete follows the
\* last file of all.  A dump starts when the previous one has been handled.
Publish(t) ==
    /\ published[t] < MaxPublished
    /\ LET n == published[t] IN
       /\ n % 3 \in {0, 2} => \A u \in DATA_TYPES : published[u] >= n
       /\ (n % 3 = 0 /\ \A u \in DATA_TYPES : published[u] = n)
             => \A u \in DATA_TYPES : Handled(u)
       /\ queue' = [queue EXCEPT ![t] = Append(@, Dump[(n % 3) + 1])]
    /\ published' = [published EXCEPT ![t] = @ + 1]
    /\ UNCHANGED <<held, handlers, wire, flagVars, consumer_tags, transportVars, timerVars,
                   checkerVars, boundVars>>

Deliver(t, kind) ==
    /\ t \in subscribed
    /\ queue[t] # <<>> /\ Head(queue[t]) = kind
    /\ queue' = [queue EXCEPT ![t] = Tail(@)]
    /\ UNCHANGED <<byHandler, overruns, faults>>

\* Faulty variant of DeliverRecord: a record leaves the old timer running.
DeliverRecordKeepsTimer(t) ==
    /\ Deliver(t, "record")
    /\ held' = [held EXCEPT ![t] = @ + 1]
    /\ completed_files' = completed_files \ {t}
    /\ extraction_signalled' = extraction_signalled \ {t}
    /\ processed' = TRUE
    /\ UNCHANGED <<handlers, timerVars>>

\* A record re-arms stuck detection for its type and stops an old timer.
DeliverRecord(t) ==
    /\ Deliver(t, "record")
    /\ held' = [held EXCEPT ![t] = @ + 1]
    /\ completed_files' = completed_files \ {t}
    /\ extraction_signalled' = extraction_signalled \ {t}
    /\ processed' = TRUE
    /\ SetTimer(t, "off")
    /\ UNCHANGED handlers

\* The batch is written and its records are acked.
SettleRecords(t) ==
    /\ held[t] > 0
    /\ held' = [held EXCEPT ![t] = 0]
    /\ UNCHANGED <<byHandler, queue, handlers, flagVars, timerVars, overruns, faults>>

DeliverFileComplete(t) ==
    /\ Deliver(t, "file_complete")
    /\ <<t, "file", TRUE>> \notin handlers
    /\ handlers' = handlers \cup {<<t, "file", TRUE>>}
    /\ UNCHANGED <<held, flagVars, timerVars>>

\* The timer file_complete armed must not fire while this marker waits.
DeliverExtractionComplete(t) ==
    /\ Deliver(t, "extraction_complete")
    /\ \A s \in Signalling : <<t, s, TRUE>> \notin handlers
    /\ handlers' = handlers \cup {<<t, "flush", TRUE>>}
    /\ SetTimer(t, "off")
    /\ UNCHANGED <<held, flagVars>>

\* flush_queue has drained the batch; the signal is being recorded.
FlushExtraction(t, open) ==
    /\ <<t, "flush", open>> \in handlers
    /\ held[t] = 0
    /\ handlers' = (handlers \ {<<t, "flush", open>>}) \cup {<<t, "latch", open>>}
    /\ UNCHANGED <<byHandler, queue, held, flagVars, timerVars, overruns, faults>>

\* schedule_consumer_cancellation, skipped while the dictionary is empty.
ArmTimer(t) == IF queues THEN SetTimer(t, "sleep") ELSE UNCHANGED timerVars

\* The type is complete, the timer armed, the marker acked; the ack of a
\* delivery whose channel is closed fails and changes nothing.
LandFileComplete(t, open) ==
    /\ <<t, "file", open>> \in handlers
    /\ held[t] = 0
    /\ handlers' = handlers \ {<<t, "file", open>>}
    /\ completed_files' = completed_files \cup {t}
    /\ ArmTimer(t)
    /\ UNCHANGED <<byHandler, queue, held, extraction_signalled, processed, overruns, faults>>

\* The signal is recorded.  One that completes the set of types is acked only
\* after maintained_at has been read, another at once.  What Neo4j holds is what
\* this process has recorded, or more after a restart.  On a closed channel ack
\* and requeue reach nobody.
LandExtractionComplete(t, open) ==
    /\ <<t, "latch", open>> \in handlers
    /\ extraction_signalled' = extraction_signalled \cup {t}
    /\ \E reading \in {{}, {<<t, "landed", open>>}} :
          /\ reading # {} => open /\ (extraction_signalled' = DATA_TYPES \/ restarts > 0)
          /\ handlers' = (handlers \ {<<t, "latch", open>>}) \cup reading
    /\ completed_files' = completed_files \cup {t}
    /\ ArmTimer(t)
    /\ UNCHANGED <<byHandler, queue, held, processed, overruns, faults>>

AckExtractionComplete(t, open) ==
    /\ <<t, "landed", open>> \in handlers
    /\ handlers' = handlers \ {<<t, "landed", open>>}
    /\ UNCHANGED <<byHandler, queue, held, flagVars, timerVars, overruns, faults>>

\* requeue_marker: the flush, the latch write or the read of maintained_at failed.
RequeueMarker(t, stage, open) ==
    /\ Fault
    /\ <<t, stage, open>> \in handlers
    /\ handlers' = handlers \ {<<t, stage, open>>}
    /\ queue' = IF ~open THEN queue
                ELSE [queue EXCEPT ![t] =
                        <<IF stage = "file" THEN "file_complete" ELSE "extraction_complete">> \o @]
    /\ UNCHANGED <<byHandler, held, flagVars, timerVars>>

-----------------------------------------------------------------------------
(* The grace timer of a type: cancel_after_delay.                          *)

\* CONSUMER_CANCEL_DELAY is over; on a closed channel the call raises at once.
GraceEnds(t) ==
    /\ consumer_cancel_tasks[t] = "sleep"
    /\ t \in subscribed => queue[t] = <<>>
    /\ IF Quiet(t)
       THEN UNCHANGED overruns
       ELSE overruns < MaxOverruns /\ overruns' = overruns + 1
    /\ LET call == t \in consumer_tags /\ t \notin deadQueue /\ Usable IN
       /\ consumer_cancel_tasks' =
             [consumer_cancel_tasks EXCEPT ![t] = IF call THEN "cancel" ELSE "off"]
       /\ cancelSent' = IF call THEN cancelSent \cup {t} ELSE cancelSent
       /\ consumer_recovery_requested' =
             (consumer_recovery_requested \/ (t \in consumer_tags /\ ~call))
    /\ deadQueue' = deadQueue \ {t}
    /\ UNCHANGED <<byTimer, deliveries, subscribed, channelOpen, consumer_tags, transportVars,
                   closeSent, checkerVars, faults>>

BrokerCancels(t) ==
    /\ t \in cancelSent
    /\ subscribed' = subscribed \ {t}
    /\ cancelSent' = cancelSent \ {t}
    /\ UNCHANGED <<byTimer, deliveries, channelOpen, consumer_tags, transportVars, timerVars,
                   checkerVars, overruns, faults>>

\* Faulty variant of CancelConfirmed: the tag goes without waiting for CancelOk.
CancelNotAwaited(t) ==
    /\ consumer_cancel_tasks[t] = "cancel"
    /\ consumer_tags' = consumer_tags \ {t}
    /\ consumer_cancel_tasks' = [consumer_cancel_tasks EXCEPT ![t] = "off"]
    /\ UNCHANGED <<byTimer, deliveries, wire, deadQueue, consumer_recovery_requested,
                   closeSent, transportVars, checkerVars, overruns, faults>>

\* CancelOk: the tag goes, and the timer that took the last one of a finished
\* import goes on to close the transport.
CancelConfirmed(t) ==
    /\ consumer_cancel_tasks[t] = "cancel"
    /\ t \notin cancelSent
    /\ consumer_tags' = consumer_tags \ {t}
    /\ consumer_cancel_tasks' =
          [consumer_cancel_tasks EXCEPT ![t] =
              IF consumer_tags' = {} /\ completed_files = DATA_TYPES
              THEN CloseStage ELSE "off"]
    /\ UNCHANGED <<byTimer, deliveries, wire, deadQueue, consumer_recovery_requested,
                   closeSent, transportVars, checkerVars, overruns, faults>>

\* Faulty variant of CancelUnconfirmed: the failed cancel is only logged.
CancelUnconfirmedLogged(t) ==
    /\ Fault
    /\ consumer_cancel_tasks[t] = "cancel"
    /\ consumer_cancel_tasks' = [consumer_cancel_tasks EXCEPT ![t] = "off"]
    /\ UNCHANGED <<byTimer, deliveries, wire, consumer_tags, deadQueue, closeSent,
                   consumer_recovery_requested, transportVars, checkerVars>>

\* Faulty variant of CancelUnconfirmed: the ended task keeps its entry.
CancelUnconfirmedKeepsEntry(t) ==
    /\ Fault
    /\ consumer_cancel_tasks[t] = "cancel"
    /\ consumer_recovery_requested' = TRUE
    /\ consumer_cancel_tasks' = [consumer_cancel_tasks EXCEPT ![t] = "ended"]
    /\ UNCHANGED <<byTimer, deliveries, wire, consumer_tags, deadQueue, closeSent,
                   transportVars, checkerVars>>

\* An error or the five seconds are over: the tag stays, recovery is due.
CancelUnconfirmed(t) ==
    /\ Fault
    /\ consumer_cancel_tasks[t] = "cancel"
    /\ consumer_recovery_requested' = TRUE
    /\ consumer_cancel_tasks' = [consumer_cancel_tasks EXCEPT ![t] = "off"]
    /\ UNCHANGED <<byTimer, deliveries, wire, consumer_tags, deadQueue, closeSent,
                   transportVars, checkerVars>>

-----------------------------------------------------------------------------
(* close_rabbitmq_connection, run by closer c.                             *)

\* Closer c, if it is a timer, goes on to `to`; a channel that went away has
\* failed every cancel call on it.
TimersGo(c, to, gone) ==
    /\ consumer_cancel_tasks' =
          [t \in DATA_TYPES |-> IF t = c THEN to
                                ELSE IF gone /\ consumer_cancel_tasks[t] = "cancel" THEN "off"
                                ELSE consumer_cancel_tasks[t]]
    /\ consumer_recovery_requested' =
          (consumer_recovery_requested
              \/ (gone /\ \E t \in DATA_TYPES : consumer_cancel_tasks[t] = "cancel"))
    /\ UNCHANGED deadQueue

\* Faulty variant of TimersReset: the request is not cleared.
TimersResetOnly ==
    /\ consumer_cancel_tasks' = [t \in DATA_TYPES |-> "off"]
    /\ deadQueue' = {}
    /\ UNCHANGED consumer_recovery_requested

\* The start of a reconnect: every timer is stopped, the request is cleared.
\* A timer stopped in its cancel call makes it again as soon as it runs.
TimersReset ==
    /\ consumer_cancel_tasks' = [t \in DATA_TYPES |-> "off"]
    /\ deadQueue' = {}
    /\ consumer_recovery_requested' = (\E t \in DATA_TYPES : consumer_cancel_tasks[t] = "cancel")

\* channel.close() returned, or raised: then the broker may or may not have
\* closed it, the handle stays, and the connection is closed anyway.
CloseChannel(c, ok) ==
    /\ ClosingChannel(c)
    /\ IF ok THEN UNCHANGED <<overruns, faults>> ELSE Fault
    /\ active_channel' = (active_channel /\ ~ok)
    /\ \E gone \in {TRUE, ok} :
          (IF gone THEN ChannelGone ELSE ChannelStays) /\ TimersGo(c, "connection", gone)
    /\ pc' = IF c # "checker" THEN pc
             ELSE IF pc = "channel" THEN "connection" ELSE "abortConnection"
    /\ UNCHANGED <<byTimer, consumer_tags, active_connection, queues, back, todo, pending>>

\* connection.close() returned: every tag is gone with it.
CloseConnection(c) ==
    /\ ClosingConnection(c)
    /\ ChannelGone
    /\ active_channel' = FALSE /\ active_connection' = FALSE
    /\ consumer_tags' = {}
    /\ IF c = "checker" /\ pc = "connection"
       THEN TimersReset /\ pc' = "connect"
       ELSE TimersGo(c, "off", TRUE) /\ pc' = IF c = "checker" THEN back ELSE pc
    /\ UNCHANGED <<byTimer, queues, back, todo, pending, overruns, faults>>

\* A timeout in either close, or connection.close() raised: the handles stay
\* and recovery is due.
CloseFails(c) ==
    /\ Fault
    /\ ClosingChannel(c) \/ ClosingConnection(c)
    /\ consumer_recovery_requested' = TRUE
    /\ \E gone \in BOOLEAN :
       /\ IF gone THEN ChannelGone ELSE ChannelStays
       /\ consumer_cancel_tasks' =
             [t \in DATA_TYPES |->
                 IF t = c \/ (gone /\ consumer_cancel_tasks[t] = "cancel") THEN "off"
                 ELSE consumer_cancel_tasks[t]]
    /\ pc' = IF c = "checker" THEN back ELSE pc
    /\ UNCHANGED <<byTimer, consumer_tags, deadQueue, transportVars, back, todo, pending>>

\* The broker acts on the close frame of an interrupted timer.
BrokerCloses ==
    /\ closeSent
    /\ ChannelGone
    /\ TimersGo("checker", "off", TRUE)
    /\ UNCHANGED <<byTimer, consumer_tags, transportVars, checkerVars, overruns, faults>>

-----------------------------------------------------------------------------
(* periodic_queue_checker and _recover_consumers.                          *)

CheckerMoves(to, left, found) ==
    /\ pc' = to /\ todo' = left /\ pending' = found
    /\ UNCHANGED <<byChecker, wire, consumer_tags, transportVars, timerVars, back>>

\* _recover_consumers up to its first await, returning to `to`: close what is
\* open, or reset the timers and connect.
BeginRecovery(to) ==
    /\ back' = to
    /\ IF active_channel \/ active_connection
       THEN pc' = CloseStage /\ UNCHANGED timerVars
       ELSE pc' = "connect" /\ TimersReset /\ UNCHANGED closeSent
    /\ UNCHANGED <<byChecker, wire, consumer_tags, transportVars, todo, pending, overruns, faults>>

\* A tick: a requested recovery comes first, then the parked markers.
RecoverAsRequested == pc = "sleep" /\ consumer_recovery_requested /\ BeginRecovery("sleep")

RecoverParkedMarkers ==
    /\ pc = "sleep" /\ ~consumer_recovery_requested
    /\ types_awaiting_marker # {} /\ ~active_connection
    /\ BeginRecovery("stuck")

LookForParkedMarkers ==
    /\ pc = "sleep" /\ ~consumer_recovery_requested
    /\ types_awaiting_marker = {} \/ active_connection
    /\ CheckerMoves(IF types_awaiting_marker = {} THEN "stuck" ELSE "parked",
                    types_awaiting_marker, {})
    /\ UNCHANGED <<overruns, faults>>

NextParked(t) == IF todo = {t} THEN "stuck" ELSE "parked"

\* queue_depth of one parked type answered: its resubscription is sent if a
\* message is ready and the channel takes it, else the next type follows.
ProbeParked(t) ==
    /\ pc = "parked" /\ t \in todo
    /\ IF queue[t] # <<>> /\ queues /\ t \notin consumer_tags /\ active_connection /\ Usable
       THEN CheckerMoves("resubscribe", todo, {t})
       ELSE CheckerMoves(NextParked(t), todo \ {t}, {})
    /\ UNCHANGED <<overruns, faults>>

ProbeParkedFails(t) ==
    /\ Fault
    /\ pc = "parked" /\ t \in todo
    /\ CheckerMoves(NextParked(t), todo \ {t}, {})

\* queue.consume: a consumer at the broker and its tag.  One step: nothing that runs
\* before ConsumeOk resumes the checker reads the tag.
Subscribe(t) ==
    /\ subscribed' = subscribed \cup {t}
    /\ consumer_tags' = consumer_tags \cup {t}
    /\ UNCHANGED <<channelOpen, cancelSent>>

Resubscribe(t) ==
    /\ pc = "resubscribe" /\ pending = {t}
    /\ channelOpen
    /\ Subscribe(t)
    /\ pc' = NextParked(t) /\ todo' = todo \ {t} /\ pending' = {}
    /\ UNCHANGED <<byChecker, timerVars, transportVars, back, overruns, faults>>

\* The consume raised, as it does on a channel that was closed meanwhile.
ResubscribeFails(t) ==
    /\ pc = "resubscribe" /\ pending = {t}
    /\ IF channelOpen THEN Fault ELSE UNCHANGED <<overruns, faults>>
    /\ CheckerMoves(NextParked(t), todo \ {t}, {})

\* The rest of the tick: consumers that died with work left, then, when
\* QUEUE_CHECK_INTERVAL is over, an idle service's queues.
RecoverStuck == pc = "stuck" /\ check_consumers_unexpectedly_dead /\ BeginRecovery("sleep")

\* Faulty variant of RecoverIdle: a finished import is never looked at again.
RecoverIdleUnfinished ==
    /\ pc = "stuck" /\ ~check_consumers_unexpectedly_dead
    /\ ~active_connection /\ consumer_tags = {} /\ completed_files # DATA_TYPES
    /\ BeginRecovery("sleep")

RecoverIdle ==
    /\ pc = "stuck" /\ ~check_consumers_unexpectedly_dead
    /\ ~active_connection /\ consumer_tags = {}
    /\ BeginRecovery("sleep")

\* Neither applies, or its interval is not over.
EndTick == pc = "stuck" /\ CheckerMoves("sleep", {}, {}) /\ UNCHANGED <<overruns, faults>>

Connect == pc = "connect" /\ CheckerMoves("probe", {}, {}) /\ UNCHANGED <<overruns, faults>>

ConnectFails ==
    /\ Fault
    /\ pc = "connect" /\ pc' = back
    /\ consumer_recovery_requested' = TRUE
    /\ UNCHANGED <<byChecker, wire, consumer_tags, consumer_cancel_tasks, deadQueue, closeSent,
                   transportVars, back, todo, pending>>

\* Passive declares: with nothing ready the temporary connection is closed,
\* else it becomes the service's and the queues dictionary starts empty.
Probe ==
    /\ pc = "probe"
    /\ pending' = {t \in DATA_TYPES : queue[t] # <<>>}
    /\ IF pending' = {}
       THEN pc' = back /\ UNCHANGED <<transportVars, channelOpen>>
       ELSE /\ pc' = "declare" /\ channelOpen' = TRUE
            /\ active_channel' = TRUE /\ active_connection' = TRUE /\ queues' = FALSE
    /\ UNCHANGED <<byChecker, subscribed, cancelSent, consumer_tags, timerVars, back, todo,
                   overruns, faults>>

Declare ==
    /\ pc = "declare" /\ pc' = "consume"
    /\ queues' = TRUE
    /\ todo' = DATA_TYPES
    /\ UNCHANGED <<byChecker, wire, consumer_tags, timerVars, active_channel,
                   active_connection, back, pending, overruns, faults>>

\* A consumer for every type without a tag; a backlog un-completes its type.
Consume(t) ==
    /\ pc = "consume" /\ t \in todo
    /\ IF t \in consumer_tags
       THEN UNCHANGED <<wire, consumer_tags, completed_files>>
       ELSE /\ Usable
            /\ Subscribe(t)
            /\ completed_files' = completed_files \ (pending \cap {t})
    /\ todo' = todo \ {t}
    /\ pc' = IF todo' = {} THEN back ELSE "consume"
    /\ UNCHANGED <<published, deliveries, extraction_signalled, processed, transportVars,
                   timerVars, back, pending, boundVars>>

\* An exception anywhere after the connect: recovery stays due and whatever
\* was registered is torn down before the next attempt.
RecoveryFails ==
    /\ pc \in {"probe", "declare", "consume"}
    /\ IF pc = "consume" /\ ~Usable THEN UNCHANGED <<overruns, faults>> ELSE Fault
    /\ consumer_recovery_requested' = TRUE
    /\ active_channel' = TRUE /\ active_connection' = TRUE /\ queues' = FALSE
    /\ pc' = "abortChannel"
    /\ UNCHANGED <<byChecker, wire, consumer_tags, consumer_cancel_tasks, deadQueue, closeSent,
                   back, todo, pending>>

\* The process dies; the broker takes back what it had not settled.
Restart ==
    /\ restarts < MaxRestarts /\ restarts' = restarts + 1
    /\ queue' = [t \in DATA_TYPES |-> Unsettled(t) \o queue[t]]
    /\ held' = [t \in DATA_TYPES |-> 0] /\ handlers' = {}
    /\ subscribed' = DATA_TYPES /\ channelOpen' = TRUE /\ cancelSent' = {}
    /\ completed_files' = {} /\ extraction_signalled' = {} /\ processed' = FALSE
    /\ consumer_tags' = DATA_TYPES
    /\ active_channel' = TRUE /\ active_connection' = TRUE /\ queues' = TRUE
    /\ consumer_cancel_tasks' = [t \in DATA_TYPES |-> "off"] /\ deadQueue' = {}
    /\ consumer_recovery_requested' = FALSE /\ closeSent' = FALSE
    /\ pc' = "sleep" /\ back' = "sleep" /\ todo' = {} /\ pending' = {}
    /\ UNCHANGED <<published, overruns, faults>>

-----------------------------------------------------------------------------
DeliverNext(t) ==
    DeliverRecord(t) \/ DeliverFileComplete(t) \/ DeliverExtractionComplete(t)

Handle(t) ==
    \/ SettleRecords(t)
    \/ \E open \in BOOLEAN : \/ FlushExtraction(t, open)
                             \/ LandFileComplete(t, open)
                             \/ LandExtractionComplete(t, open)
                             \/ AckExtractionComplete(t, open)

RunTimer(t) == GraceEnds(t) \/ BrokerCancels(t) \/ CancelConfirmed(t)

Close(c) == CloseChannel(c, TRUE) \/ CloseConnection(c)

RunChecker ==
    \/ RecoverAsRequested \/ RecoverParkedMarkers \/ LookForParkedMarkers
    \/ \E t \in DATA_TYPES : ProbeParked(t) \/ Resubscribe(t) \/ Consume(t)
    \/ EndTick \/ Connect \/ Probe \/ Declare
    \/ Close("checker")

Fail ==
    \/ \E t \in DATA_TYPES :
          \/ \E s \in Stages, open \in BOOLEAN : RequeueMarker(t, s, open)
          \/ CancelUnconfirmed(t) \/ ProbeParkedFails(t)
    \/ \E c \in Closers : CloseChannel(c, FALSE) \/ CloseFails(c)
    \/ ConnectFails

Next ==
    \/ \E t \in DATA_TYPES :
          \/ Publish(t) \/ DeliverNext(t) \/ Handle(t) \/ RunTimer(t)
          \/ Close(t) \/ ResubscribeFails(t)
    \/ RunChecker \/ RecoverStuck \/ RecoverIdle \/ RecoveryFails
    \/ BrokerCloses \/ Fail \/ Restart

Spec == Init /\ [][Next]_vars

\* Broker, handlers, timers and the checker keep going, and no call has to
\* fail.  The two intervals of the checker's tick do run out, however often
\* other ticks come first.
Fairness ==
    /\ \A t \in DATA_TYPES : /\ WF_vars(DeliverNext(t)) /\ WF_vars(Handle(t))
                             /\ WF_vars(RunTimer(t)) /\ WF_vars(Close(t))
    /\ WF_vars(~channelOpen /\ \E t \in DATA_TYPES : ResubscribeFails(t))
    /\ WF_vars(BrokerCloses)
    /\ WF_vars(RunChecker) /\ WF_vars(~Usable /\ RecoveryFails)
    /\ SF_vars(RecoverStuck) /\ SF_vars(RecoverIdle)

\* The extractor may pause between any two messages, for good,
PausingSpec == Spec /\ Fairness

\* or it finishes every dump it began.
FairSpec == PausingSpec /\ \A t \in DATA_TYPES : WF_vars(Publish(t))

-----------------------------------------------------------------------------
\* Every consumer the broker still feeds is known by its tag: a tag goes only
\* with a CancelOk or with its connection, so no delivery arrives on a
\* consumer that idle detection and shutdown do not count
\* (_cancel_consumer, close_rabbitmq_connection).
SubscriptionsAreTagged == subscribed \subseteq consumer_tags

\* A tag whose consumer is gone, which makes idle detection and the parked
\* marker check pass the type over, is short-lived: recovery is due, a close
\* is under way, or its cancel call is still waiting
\* (the ambiguous outcomes of _cancel_consumer).
GhostTagsAreRepaired ==
    \A t \in consumer_tags \ subscribed :
        consumer_recovery_requested \/ Closing \/ consumer_cancel_tasks[t] = "cancel"

\* A grace timer armed for one dump never cancels the consumer of a type
\* whose next records have already put it back to work
\* (the record branch of make_message_handler, _recover_consumers).
NeverCancelsAnImport ==
    \A t \in DATA_TYPES : consumer_cancel_tasks[t] = "cancel" => t \in completed_files

-----------------------------------------------------------------------------
(* The invariants behind the three properties above.                       *)

\* Tags and cancel frames belong to a connection active_connection refers to.
TransportIsKnown ==
    /\ channelOpen => active_connection
    /\ ~active_connection => consumer_tags = {}
    /\ cancelSent \subseteq consumer_tags

\* _recover_consumers starts without consumers, and without a timer that could
\* cancel one; the backlog it found waits until its type has a consumer.
RecoveryStartsClean ==
    /\ pc \in {"connect", "probe"} =>
          /\ ~channelOpen
          /\ \A t \in DATA_TYPES : consumer_cancel_tasks[t] = "sleep" => t \in deadQueue
    /\ pc \in {"connect", "probe", "declare"} => consumer_tags = {}
    /\ pc = "consume" => consumer_tags \cap todo = {}
    /\ pc = "declare" => \A t \in pending : queue[t] # <<>>
    /\ pc = "consume" => \A t \in pending \cap todo : queue[t] # <<>>

\* A timer over a type that has been put back to work can only be asleep while
\* the marker that will replace it is on its way.
SleepersAreFed ==
    \A t \in DATA_TYPES :
        /\ consumer_cancel_tasks[t] = "sleep" /\ t \notin deadQueue
        /\ channelOpen /\ t \notin completed_files
        => /\ t \in subscribed \ cancelSent
           /\ queue[t] # <<>> \/ \E s \in {"file", "flush", "latch"} : <<t, s, TRUE>> \in handlers

\* Every type is in the current dump or about to enter it; one enters when
\* nothing of its last dump is left, and until its file_complete is published
\* only its records are about.
DumpsInTurn ==
    \A t \in DATA_TYPES :
        /\ \A u \in DATA_TYPES :
              published[u] >= published[t] - (IF published[t] % 3 = 0 THEN 1 ELSE published[t] % 3)
        /\ published[t] % 3 = 0 /\ (\E u \in DATA_TYPES : published[u] > published[t])
              => Handled(t)
        /\ published[t] % 3 = 1 =>
              /\ \A h \in handlers : h[1] # t
              /\ \A i \in 1..Len(queue[t]) : queue[t][i] = "record"
              /\ t \in completed_files => queue[t] # <<>>

\* No marker lands on a type whose cancel call waits without its timer being
\* replaced,
CancelsAreIdle ==
    \A t \in DATA_TYPES :
        consumer_cancel_tasks[t] = "cancel" =>
            \/ consumer_recovery_requested
            \/ /\ \A h \in handlers : h[1] # t
               /\ IF queue[t] = <<>> THEN published[t] % 3 # 1
                                    ELSE Head(queue[t]) # "file_complete"

\* and none on a type whose timer closes the transport.
ClosersAreIdle ==
    \A t \in DATA_TYPES :
        consumer_cancel_tasks[t] \in {"channel", "connection"} =>
            \/ consumer_recovery_requested
            \/ /\ t \notin subscribed
               /\ \A h \in handlers : h[1] # t
               /\ ~(pc = "resubscribe" /\ pending = {t})

\* A frame whose waiter is gone is followed by a recovery, or finds nothing.
FramesAreFollowed ==
    /\ \A t \in cancelSent : consumer_recovery_requested \/ consumer_cancel_tasks[t] = "cancel"
    /\ closeSent => \/ consumer_recovery_requested
                    \/ consumer_tags = {} /\ pc # "resubscribe"

TimersInv == TransportIsKnown /\ RecoveryStartsClean /\ SleepersAreFed /\ DumpsInTurn

\* What holds as long as no grace ends while its type's messages are handled.
GraceInv ==
    /\ NeverCancelsAnImport /\ GhostTagsAreRepaired
    /\ CancelsAreIdle /\ ClosersAreIdle /\ FramesAreFollowed

Inv == TypeOK /\ TimersInv /\ (MaxOverruns = 0 => GraceInv)

-----------------------------------------------------------------------------
\* No type's messages wait for ever: whatever cancelled, lost or failed to
\* register its consumer, one of the checker's four routes brings one back
\* (periodic_queue_checker).
EveryMessageIsDelivered == \A t \in DATA_TYPES : []<>(queue[t] = <<>>)

\* A requested recovery ends: once calls stop failing, the checker does not
\* reconnect for ever (consumer_recovery_requested).
RecoveryConcludes == []<>(~consumer_recovery_requested)
=============================================================================
