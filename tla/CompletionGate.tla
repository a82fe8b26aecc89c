--------------------------- MODULE CompletionGate ---------------------------
(***************************************************************************)
(* What the four-signal completion latch promises, with no broker, cache,  *)
(* lock or process in sight: a dump version collects one signal per data   *)
(* type, a signal may be taken off the queue only once it is recorded, and *)
(* post-import maintenance runs, one pass at a time, only for a version    *)
(* whose every signal is recorded.  A version is final once a pass for it  *)
(* has succeeded, and nothing recorded is ever taken back.                 *)
(*                                                                         *)
(* ExtractionLatch is shown to implement this specification.               *)
(***************************************************************************)
CONSTANTS DATA_TYPES, Versions, None

VARIABLES
    recorded,   \* [Versions -> SUBSET DATA_TYPES], the durable signals
    settled,    \* set of <<version, type>> markers gone from their queue
    running,    \* the version being maintained, or None
    final       \* set of versions whose maintenance succeeded

gateVars == <<recorded, settled, running, final>>

Complete(v) == recorded[v] = DATA_TYPES

Init ==
    /\ recorded = [v \in Versions |-> {}]
    /\ settled = {}
    /\ running = None
    /\ final = {}

Record(v, t) ==
    /\ recorded' = [recorded EXCEPT ![v] = @ \cup {t}]
    /\ UNCHANGED <<settled, running, final>>

Settle(v, t) ==
    /\ t \in recorded[v]
    /\ settled' = settled \cup {<<v, t>>}
    /\ UNCHANGED <<recorded, running, final>>

Start(v) ==
    /\ running = None
    /\ Complete(v)
    /\ running' = v
    /\ UNCHANGED <<recorded, settled, final>>

Finish ==
    /\ running # None
    /\ final' = final \cup {running}
    /\ running' = None
    /\ UNCHANGED <<recorded, settled>>

Abandon ==
    /\ running' = None
    /\ UNCHANGED <<recorded, settled, final>>

Next ==
    \/ \E v \in Versions, t \in DATA_TYPES : Record(v, t) \/ Settle(v, t)
    \/ \E v \in Versions : Start(v)
    \/ Finish
    \/ Abandon

Spec == Init /\ [][Next]_gateVars
=============================================================================
