------------------------ MODULE BatchSettlementProofs ------------------------
(***************************************************************************)
(* Proofs about BatchSettlement for any number of messages, any roles, any *)
(* budgets and any number of faults and disruptions.                       *)
(***************************************************************************)
EXTENDS BatchSettlement, FiniteSetTheorems, SequenceTheorems, TLAPS

-----------------------------------------------------------------------------
(* The inductive invariant.                                                *)

\* The broker's side: what is there to deliver, once each, and in publication
\* order up to the records remembered in heldBack.
QueueOrder ==
    /\ \A m \in Messages : where[m] = "broker" <=>
          m >= fresh \/ \E i \in 1..Len(returns) : returns[i] = m
    /\ \A i \in 1..Len(returns) : returns[i] < fresh
    /\ \A i, j \in 1..Len(returns) : returns[i] = returns[j] => i = j
    /\ \A i, j \in 1..Len(returns) :
          j < i /\ returns[j] = Marker /\ returns[i] < Marker => returns[i] \in heldBack

\* The engine's side: entries are records, a flush that got its answer has
\* written its members, and an isolated flush has one.
FlushShape ==
    /\ \A e \in pending \cup batch : e[1] \in Records \ Invalid
    /\ flush = "idle" => batch = {}
    /\ flush \in {"written", "settling"} => Written(batch) \subseteq graph
    /\ flush = "writing" /\ ~(poison < MaxPoisonRetries) => \E e \in batch : batch = {e}

Coverable == {m \in Records \ Unwritables : m < Marker}

\* While a marker handler drains, a record it must wait for is written, on its
\* way back, or in the queue under a stale delivery.
DrainOrder ==
    handlers # {} =>
        /\ Marker < fresh
        /\ \A m \in Coverable : where[m] = "broker" =>
              m \in graph \cup heldBack \/ <<m, FALSE>> \in pending \cup batch

\* What a finished drain established.
DrainCovers ==
    landed \/ (\E h \in handlers : h[2] \in {"latch", "ack"}) =>
        \A m \in Coverable : m \in graph \/ where[m] = "dead" \/ m \in missed

\* What a failed handler keeps is remembered.
ReturningHeld == returning \subseteq heldBack

SettlementInv ==
    /\ TypeOK /\ QueueOrder /\ FlushShape /\ EveryDeliveryHasOneOwner
    /\ AckedIsWritten /\ OnlyJustifiedDeadLetters /\ DrainOrder /\ DrainCovers
    /\ ReturningHeld

-----------------------------------------------------------------------------
(* One lemma per action.                                                   *)

\* An entry is a message and the state of its channel.
LEMMA EntryShape ==
    ASSUME NEW e \in Entries
    PROVE  /\ e = <<e[1], e[2]>> /\ e[1] \in Messages /\ e[2] \in BOOLEAN
           /\ \A m \in Messages : <<m, TRUE>> = e <=> m = e[1] /\ e[2] = TRUE
           /\ \A m \in Messages : <<m, FALSE>> = e <=> m = e[1] /\ e[2] = FALSE
<1>1. PICK n \in Messages, b \in BOOLEAN : e = <<n, b>>
  BY DEF Entries
<1>2. e[1] = n /\ e[2] = b
  BY <1>1
<1> QED BY <1>1, <1>2

\* Taking entries from the queue moves their owner and nothing else.
LEMMA FlushStartKeeps ==
    ASSUME SettlementInv, FlushStart
    PROVE  SettlementInv'
<1> USE RolesAssumption DEF SettlementInv, Messages, Records, broker, neo4j, observed, bounds, handling
<1>p. PICK S \in SUBSET pending : S # {} /\ Takes(S) /\ batch' = S /\ pending' = pending \ S
  BY DEF FlushStart
<1>q. flush = "idle" /\ flush' = "writing"
      /\ UNCHANGED <<broker, retry, poison, handling, neo4j, observed, bounds>>
  BY DEF FlushStart
<1>r. batch = {} /\ pending' \cup batch' = pending \cup batch
  BY <1>p, <1>q DEF FlushShape
<1>1. TypeOK'
  BY <1>p, <1>q, <1>r DEF TypeOK, Entries, Flushes, Stages
<1>2. QueueOrder'
  BY <1>p, <1>q, <1>r DEF QueueOrder
<1>3. FlushShape'
  BY <1>p, <1>q, <1>r DEF FlushShape, Takes
<1>4. EveryDeliveryHasOneOwner'
  BY <1>p, <1>q, <1>r DEF EveryDeliveryHasOneOwner
<1>5. AckedIsWritten'
  BY <1>p, <1>q, <1>r DEF AckedIsWritten
<1>6. OnlyJustifiedDeadLetters'
  BY <1>p, <1>q, <1>r DEF OnlyJustifiedDeadLetters
<1>7. DrainOrder'
  BY <1>p, <1>q, <1>r DEF DrainOrder
<1>8. DrainCovers'
  BY <1>p, <1>q, <1>r DEF DrainCovers
<1>ret. ReturningHeld'
  BY <1>q DEF ReturningHeld
<1> QED BY <1>1, <1>2, <1>3, <1>4, <1>5, <1>6, <1>7, <1>8, <1>ret

\* The commit adds to the graph.
LEMMA WriteCommitsKeeps ==
    ASSUME SettlementInv, WriteCommits
    PROVE  SettlementInv'
<1> USE RolesAssumption DEF SettlementInv, Messages, Records, WriteCommits, broker, observed, bounds, Written, Unwritable, handling
<1>1. TypeOK'
  <2>1. \A e \in batch : e[1] \in Messages
    BY EntryShape DEF TypeOK
  <2> QED BY <2>1 DEF TypeOK, Flushes
<1>2. QueueOrder'
  BY DEF QueueOrder
<1>3. FlushShape'
  BY DEF FlushShape
<1>4. EveryDeliveryHasOneOwner'
  BY DEF EveryDeliveryHasOneOwner
<1>5. AckedIsWritten'
  BY DEF AckedIsWritten
<1>6. OnlyJustifiedDeadLetters'
  BY DEF OnlyJustifiedDeadLetters
<1>7. DrainOrder'
  BY DEF DrainOrder
<1>8. DrainCovers'
  BY DEF DrainCovers
<1>ret. ReturningHeld'
  BY DEF ReturningHeld
<1> QED BY <1>1, <1>2, <1>3, <1>4, <1>5, <1>6, <1>7, <1>8, <1>ret

\* The answer only moves the flush on.
LEMMA WriteKeeps ==
    ASSUME SettlementInv, write
    PROVE  SettlementInv'
<1> USE RolesAssumption DEF SettlementInv, Messages, Records, write, broker, neo4j, observed, bounds, handling
<1>1. TypeOK'
  BY DEF TypeOK, Entries, Flushes, Stages
<1>2. QueueOrder'
  BY DEF QueueOrder
<1>3. FlushShape'
  BY DEF FlushShape
<1>4. EveryDeliveryHasOneOwner'
  BY DEF EveryDeliveryHasOneOwner
<1>5. AckedIsWritten'
  BY DEF AckedIsWritten
<1>6. OnlyJustifiedDeadLetters'
  BY DEF OnlyJustifiedDeadLetters
<1>7. DrainOrder'
  BY DEF DrainOrder
<1>8. DrainCovers'
  BY DEF DrainCovers
<1>ret. ReturningHeld'
  BY DEF ReturningHeld
<1> QED BY <1>1, <1>2, <1>3, <1>4, <1>5, <1>6, <1>7, <1>8, <1>ret

\* A transient failure puts the members back.
LEMMA TransientFailureKeeps ==
    ASSUME SettlementInv, TransientFailure
    PROVE  SettlementInv'
<1> USE RolesAssumption DEF SettlementInv, Messages, Records, TransientFailure, Fault, broker, neo4j, observed, bounds, handling
<1>1. TypeOK'
  BY DEF TypeOK, Entries, Flushes, Stages
<1>2. QueueOrder'
  BY DEF QueueOrder
<1>3. FlushShape'
  BY DEF FlushShape
<1>4. EveryDeliveryHasOneOwner'
  BY DEF EveryDeliveryHasOneOwner
<1>5. AckedIsWritten'
  BY DEF AckedIsWritten
<1>6. OnlyJustifiedDeadLetters'
  BY DEF OnlyJustifiedDeadLetters
<1>7. DrainOrder'
  BY DEF DrainOrder
<1>8. DrainCovers'
  BY DEF DrainCovers
<1>ret. ReturningHeld'
  BY DEF ReturningHeld
<1> QED BY <1>1, <1>2, <1>3, <1>4, <1>5, <1>6, <1>7, <1>8, <1>ret

\* A deterministic failure keeps the members, or rejects the one it isolated.
LEMMA DeterministicFailureKeeps ==
    ASSUME SettlementInv, DeterministicFailure
    PROVE  SettlementInv'
<1> USE RolesAssumption DEF SettlementInv, Messages, Records, neo4j, observed, bounds, handling
<1>ret. ReturningHeld'
  BY DEF DeterministicFailure, ReturningHeld
<1>a. CASE poison < MaxPoisonRetries
  <2>1. /\ flush = "writing" /\ batch' = {} /\ flush' = "idle"
        /\ pending' = pending \cup batch /\ poison' = poison + 1
        /\ UNCHANGED <<where, returns, fresh, trips, retry, handling, neo4j, observed, bounds>>
    BY <1>a DEF DeterministicFailure
  <2>2. pending' \cup batch' = pending \cup batch
    BY <2>1
  <2>3. TypeOK'
    BY <2>1, <2>2 DEF TypeOK, Entries, Flushes, Stages
  <2>4. QueueOrder'
    BY <2>1, <2>2 DEF QueueOrder
  <2>5. FlushShape'
    BY <2>1, <2>2 DEF FlushShape
  <2>6. EveryDeliveryHasOneOwner'
    BY <2>1, <2>2 DEF EveryDeliveryHasOneOwner
  <2>7. AckedIsWritten'
    BY <2>1, <2>2 DEF AckedIsWritten
  <2>8. OnlyJustifiedDeadLetters'
    BY <2>1, <2>2 DEF OnlyJustifiedDeadLetters
  <2>9. DrainOrder'
    BY <2>1, <2>2 DEF DrainOrder
  <2>10. DrainCovers'
    BY <2>1, <2>2 DEF DrainCovers
  <2> QED BY <1>ret, <2>3, <2>4, <2>5, <2>6, <2>7, <2>8, <2>9, <2>10
<1>b. CASE ~(poison < MaxPoisonRetries)
  <2>1. /\ flush = "writing" /\ Unwritable(batch) /\ batch' = {} /\ flush' = "idle" /\ poison' = 0
        /\ where' = [m \in Messages |-> IF <<m, TRUE>> \in batch THEN "dead" ELSE where[m]]
        /\ UNCHANGED <<returns, fresh, trips, pending, retry, handling, neo4j, observed, bounds>>
    BY <1>b DEF DeterministicFailure
  <2>2. PICK e \in batch : batch = {e}
    BY <2>1, <1>b DEF FlushShape
  <2>3. e[1] \in Records /\ e[1] \in Poison /\ e \in Entries
    BY <2>1, <2>2 DEF FlushShape, Unwritable, TypeOK
  <2>5. /\ \A m \in Messages : <<m, TRUE>> \in batch <=> m = e[1] /\ e[2] = TRUE
        /\ \A m \in Messages : <<m, FALSE>> \in batch <=> m = e[1] /\ e[2] = FALSE
    BY <2>2, <2>3, EntryShape
  <2>4. \A m \in Messages : where'[m] = IF e[2] = TRUE /\ m = e[1] THEN "dead" ELSE where[m]
    BY <2>1, <2>5
  <2>6. e[2] = TRUE => where[e[1]] = "out" /\ <<e[1], TRUE>> \notin pending
    <3>1. e[2] = TRUE => <<e[1], TRUE>> \in batch \cap (Messages \X {TRUE})
      BY <2>3, <2>5
    <3> QED BY <2>3, <3>1 DEF EveryDeliveryHasOneOwner
  <2>7. TypeOK'
    BY <2>1, <2>3, <2>4, <2>5, <2>6 DEF TypeOK, Entries, Flushes, Stages
  <2>8. QueueOrder'
    BY <2>1, <2>3, <2>4, <2>5, <2>6 DEF QueueOrder
  <2>9. FlushShape'
    BY <2>1, <2>3, <2>4, <2>5, <2>6 DEF FlushShape
  <2>10. EveryDeliveryHasOneOwner'
    BY <2>1, <2>3, <2>4, <2>5, <2>6 DEF EveryDeliveryHasOneOwner
  <2>11. AckedIsWritten'
    BY <2>1, <2>3, <2>4, <2>5, <2>6 DEF AckedIsWritten
  <2>12. OnlyJustifiedDeadLetters'
    BY <2>1, <2>3, <2>4, <2>5, <2>6 DEF OnlyJustifiedDeadLetters, Coverable, Unwritables
  <2>13. DrainOrder'
    BY <2>1, <2>3, <2>4, <2>5, <2>6 DEF DrainOrder, Coverable, Unwritables
  <2>14. DrainCovers'
    BY <2>1, <2>3, <2>4, <2>5, <2>6 DEF DrainCovers, Coverable, Unwritables
  <2> QED BY <1>ret, <2>7, <2>8, <2>9, <2>10, <2>11, <2>12, <2>13, <2>14
<1> QED BY <1>a, <1>b

\* One member is settled.
LEMMA SettleKeeps ==
    ASSUME SettlementInv, Settle
    PROVE  SettlementInv'
<1> USE RolesAssumption DEF SettlementInv, Messages, Records, neo4j, observed, bounds, handling
<1>p. PICK e \in batch :
          /\ batch' = batch \ {e}
          /\ IF e[2] THEN Settled(e[1], IF e[1] \in Rejected THEN "dead" ELSE "acked")
                     ELSE UNCHANGED where
          /\ flush' = IF batch = {e} THEN "idle" ELSE "settling"
  BY DEF Settle
<1>q. /\ flush = "settling"
      /\ UNCHANGED <<returns, fresh, trips, pending, retry, poison, handling, neo4j, observed, bounds>>
  BY DEF Settle
<1>r. e[1] \in Records /\ e \in Entries
  BY <1>p DEF FlushShape, TypeOK
<1>w. e[2] \in BOOLEAN /\ (e[2] = TRUE => e = <<e[1], TRUE>>)
  BY <1>r, EntryShape
<1>x. e[2] = TRUE => <<e[1], TRUE>> \in batch \cap (Messages \X {TRUE})
  BY <1>p, <1>r, <1>w
<1>s. /\ e[2] = TRUE => where[e[1]] = "out" /\ <<e[1], TRUE>> \notin pending /\ e = <<e[1], TRUE>>
      /\ e[1] \in Rejected \/ e[1] \in graph
  BY <1>p, <1>q, <1>r, <1>w, <1>x DEF EveryDeliveryHasOneOwner, FlushShape, Written
<1>u. where' \in [Messages -> {"broker", "out", "acked", "dead"}]
  BY <1>p, <1>r, <1>w DEF Settled, TypeOK
<1>t. \A m \in Messages : where'[m] =
          IF e[2] = TRUE /\ m = e[1] THEN (IF m \in Rejected THEN "dead" ELSE "acked") ELSE where[m]
  <2>1. CASE e[2] = TRUE
    <3>1. where' = [where EXCEPT ![e[1]] = IF e[1] \in Rejected THEN "dead" ELSE "acked"]
      BY <1>p, <2>1 DEF Settled
    <3> QED BY <1>r, <2>1, <3>1 DEF TypeOK
  <2>2. CASE e[2] = FALSE
    BY <1>p, <1>r, <2>2 DEF Settled, TypeOK
  <2> QED BY <1>w, <2>1, <2>2
<1>v. /\ \A m \in Messages : <<m, FALSE>> = e <=> m = e[1] /\ e[2] = FALSE
      /\ \A m \in Messages : <<m, TRUE>> = e <=> m = e[1] /\ e[2] = TRUE
  BY <1>r, EntryShape
<1>1. TypeOK'
  BY <1>p, <1>q, <1>u DEF TypeOK, Entries, Flushes, Stages
<1>2. QueueOrder'
  BY <1>p, <1>q, <1>r, <1>s, <1>t DEF QueueOrder
<1>3. FlushShape'
  BY <1>p, <1>q DEF FlushShape, Written
<1>4. EveryDeliveryHasOneOwner'
  BY <1>p, <1>q, <1>r, <1>s, <1>t, <1>v DEF EveryDeliveryHasOneOwner
<1>5. AckedIsWritten'
  BY <1>p, <1>q, <1>r, <1>s, <1>t DEF AckedIsWritten
<1>6. OnlyJustifiedDeadLetters'
  BY <1>q, <1>r, <1>t DEF OnlyJustifiedDeadLetters, Unwritables
<1>7. DrainOrder'
  BY <1>p, <1>q, <1>s, <1>t, <1>v DEF DrainOrder, Coverable, Unwritables
<1>8. DrainCovers'
  BY <1>p, <1>q, <1>s, <1>t, <1>v DEF DrainCovers, Coverable, Unwritables
<1>ret. ReturningHeld'
  BY DEF Settle, ReturningHeld
<1> QED BY <1>1, <1>2, <1>3, <1>4, <1>5, <1>6, <1>7, <1>8, <1>ret

\* The end of a backoff touches no entry.
LEMMA BackoffEndsKeeps ==
    ASSUME SettlementInv, BackoffEnds
    PROVE  SettlementInv'
<1> USE RolesAssumption DEF SettlementInv, Messages, Records, BackoffEnds, broker, neo4j, observed, bounds, handling
<1>1. TypeOK'
  BY DEF TypeOK, Entries, Flushes, Stages
<1>2. QueueOrder'
  BY DEF QueueOrder
<1>3. FlushShape'
  BY DEF FlushShape
<1>4. EveryDeliveryHasOneOwner'
  BY DEF EveryDeliveryHasOneOwner
<1>5. AckedIsWritten'
  BY DEF AckedIsWritten
<1>6. OnlyJustifiedDeadLetters'
  BY DEF OnlyJustifiedDeadLetters
<1>7. DrainOrder'
  BY DEF DrainOrder
<1>8. DrainCovers'
  BY DEF DrainCovers
<1>ret. ReturningHeld'
  BY DEF ReturningHeld
<1> QED BY <1>1, <1>2, <1>3, <1>4, <1>5, <1>6, <1>7, <1>8, <1>ret

-----------------------------------------------------------------------------
(* The broker's order.                                                     *)

\* A sequence of returned messages: each of them once, oldest first.
LEMMA ReturnedInOrder ==
    ASSUME NEW B \in SUBSET Messages, NEW s \in Sequences(B), InOrder(s, B)
    PROVE  /\ s \in Seq(Messages)
           /\ \A i \in 1..Len(s) : s[i] \in B
           /\ \A m \in B : \E i \in 1..Len(s) : s[i] = m
           /\ \A i, j \in 1..Len(s) : i < j => s[i] < s[j]
<1>0. Last \in Nat
  BY SizesAssumption
<1>1. Cardinality(B) \in Nat
  <2>1. IsFiniteSet(1..Last)
    BY <1>0, FS_Interval
  <2>2. IsFiniteSet(B)
    BY <2>1, FS_Subset DEF Messages
  <2> QED BY <2>2, FS_CardinalityType
<1>2. s \in Seq(Messages) /\ Len(s) = Cardinality(B)
  BY <1>1 DEF Sequences
<1> QED BY <1>2 DEF InOrder, Sequences

\* Returning deliveries keeps the order, when those that come to stand behind
\* the marker are remembered.
LEMMA ReturningKeepsOrder ==
    ASSUME TypeOK, QueueOrder,
           NEW B \in SUBSET Messages, NEW s \in Sequences(B), InOrder(s, B),
           \A m \in B : where[m] # "broker",
           \A m \in Messages : where'[m] = "broker" <=> where[m] = "broker" \/ m \in B,
           returns' = returns \o s, fresh' = fresh,
           heldBack \subseteq heldBack',
           B \subseteq heldBack' \/ ~ \E i \in 1..Len(returns) : returns[i] = Marker
    PROVE  QueueOrder'
<1> USE RolesAssumption
<1>1. /\ s \in Seq(Messages)
      /\ \A i \in 1..Len(s) : s[i] \in B
      /\ \A m \in B : \E i \in 1..Len(s) : s[i] = m
      /\ \A i, j \in 1..Len(s) : i < j => s[i] < s[j]
  BY ReturnedInOrder
<1>2. /\ returns \in Seq(Messages) /\ Len(returns') = Len(returns) + Len(s)
      /\ \A i \in 1..Len(returns) : returns'[i] = returns[i]
      /\ \A i \in 1..Len(s) : returns'[Len(returns) + i] = s[i]
  BY <1>1 DEF TypeOK
<1>3. \A k \in 1..Len(returns') :
        \/ k \in 1..Len(returns)
        \/ \E a \in 1..Len(s) : k = Len(returns) + a /\ returns'[k] = s[a]
  <2> SUFFICES ASSUME NEW k \in 1..Len(returns'), k \notin 1..Len(returns)
               PROVE  \E a \in 1..Len(s) : k = Len(returns) + a /\ returns'[k] = s[a]
    OBVIOUS
  <2>1. k - Len(returns) \in 1..Len(s) /\ k = Len(returns) + (k - Len(returns))
    BY <1>1, <1>2
  <2> QED BY <1>2, <2>1
<1>8. \A a \in 1..Len(s) : s[a] \in Nat /\ s[a] \in Messages /\ where[s[a]] # "broker"
  <2>1. Messages \subseteq Nat
    BY DEF Messages
  <2> QED BY <1>1, <2>1
<1>4. \A m \in Messages : where'[m] = "broker" <=>
        m >= fresh' \/ \E i \in 1..Len(returns') : returns'[i] = m
  <2> SUFFICES ASSUME NEW m \in Messages
               PROVE  where'[m] = "broker" <=>
                        m >= fresh' \/ \E i \in 1..Len(returns') : returns'[i] = m
    OBVIOUS
  <2>1. CASE m \in B
    <3>1. PICK i \in 1..Len(s) : s[i] = m
      BY <1>1, <2>1
    <3>2. Len(returns) + i \in 1..Len(returns') /\ returns'[Len(returns) + i] = m
      BY <1>1, <1>2, <3>1
    <3> QED BY <2>1, <3>2
  <2>2. CASE m \notin B
    <3>1. where'[m] = "broker" <=> m >= fresh \/ \E i \in 1..Len(returns) : returns[i] = m
      BY <2>2 DEF QueueOrder
    <3>2. (\E i \in 1..Len(returns) : returns[i] = m) <=> \E i \in 1..Len(returns') : returns'[i] = m
      <4>1. ASSUME NEW i \in 1..Len(returns), returns[i] = m
            PROVE  \E k \in 1..Len(returns') : returns'[k] = m
        <5>1. i \in 1..Len(returns') /\ returns'[i] = m
          BY <1>1, <1>2, <4>1
        <5> QED BY <5>1
      <4>2. ASSUME NEW k \in 1..Len(returns'), returns'[k] = m
            PROVE  \E i \in 1..Len(returns) : returns[i] = m
        <5>1. k \in 1..Len(returns)
          BY <1>1, <1>3, <2>2, <4>2
        <5> QED BY <1>2, <4>2, <5>1
      <4> QED BY <4>1, <4>2
    <3> QED BY <3>1, <3>2
  <2> QED BY <2>1, <2>2
<1>5. \A i \in 1..Len(returns') : returns'[i] < fresh'
  <2> SUFFICES ASSUME NEW k \in 1..Len(returns') PROVE returns'[k] < fresh
    OBVIOUS
  <2>1. CASE k \in 1..Len(returns)
    BY <1>2, <2>1 DEF QueueOrder
  <2>2. CASE \E a \in 1..Len(s) : k = Len(returns) + a /\ returns'[k] = s[a]
    <3>1. returns'[k] \in Messages /\ where[returns'[k]] # "broker"
      BY <1>1, <2>2
    <3> QED BY <3>1 DEF QueueOrder, TypeOK, Messages
  <2> QED BY <1>3, <2>1, <2>2
<1>6. \A i, j \in 1..Len(returns') : returns'[i] = returns'[j] => i = j
  <2> SUFFICES ASSUME NEW i \in 1..Len(returns'), NEW j \in 1..Len(returns'),
                      returns'[i] = returns'[j]
               PROVE  i = j
    OBVIOUS
  <2>0. \A k \in 1..Len(returns) : returns[k] \in Messages /\ where[returns[k]] = "broker"
    BY <1>2 DEF QueueOrder
  <2>1. CASE i \in 1..Len(returns) /\ j \in 1..Len(returns)
    BY <1>2, <2>1 DEF QueueOrder
  <2>2. CASE i \in 1..Len(returns) /\ j \notin 1..Len(returns)
    <3>1. PICK a \in 1..Len(s) : returns'[j] = s[a]
      BY <1>3, <2>2
    <3>2. returns'[i] = returns[i]
      BY <1>2, <2>2
    <3> QED BY <1>8, <2>0, <2>2, <3>1, <3>2
  <2>3. CASE i \notin 1..Len(returns) /\ j \in 1..Len(returns)
    <3>1. PICK a \in 1..Len(s) : returns'[i] = s[a]
      BY <1>3, <2>3
    <3>2. returns'[j] = returns[j]
      BY <1>2, <2>3
    <3> QED BY <1>8, <2>0, <2>3, <3>1, <3>2
  <2>4. CASE i \notin 1..Len(returns) /\ j \notin 1..Len(returns)
    <3>1. PICK a \in 1..Len(s), b \in 1..Len(s) :
            /\ i = Len(returns) + a /\ returns'[i] = s[a]
            /\ j = Len(returns) + b /\ returns'[j] = s[b]
      BY <1>3, <2>4
    <3>2. s[a] = s[b] /\ s[a] \in Nat
      BY <1>8, <3>1
    <3>3. ~(a < b) /\ ~(b < a)
      BY <1>1, <3>2
    <3> QED BY <1>1, <1>2, <3>1, <3>3
  <2> QED BY <2>1, <2>2, <2>3, <2>4
<1>7. \A i, j \in 1..Len(returns') :
        j < i /\ returns'[j] = Marker /\ returns'[i] < Marker => returns'[i] \in heldBack'
  <2> SUFFICES ASSUME NEW i \in 1..Len(returns'), NEW j \in 1..Len(returns'), j < i,
                      returns'[j] = Marker, returns'[i] < Marker
               PROVE  returns'[i] \in heldBack'
    OBVIOUS
  <2>1. CASE i \in 1..Len(returns)
    <3>1. j \in 1..Len(returns)
      BY <1>1, <1>2, <2>1
    <3> QED BY <1>2, <2>1, <3>1 DEF QueueOrder
  <2>2. CASE i \notin 1..Len(returns) /\ j \in 1..Len(returns)
    BY <1>1, <1>2, <1>3, <2>2
  <2>3. CASE i \notin 1..Len(returns) /\ j \notin 1..Len(returns)
    <3>1. PICK a \in 1..Len(s), b \in 1..Len(s) :
            /\ i = Len(returns) + a /\ returns'[i] = s[a]
            /\ j = Len(returns) + b /\ returns'[j] = s[b]
      BY <1>3, <2>3
    <3>2. b < a
      BY <1>1, <1>2, <3>1
    <3>3. s[b] < s[a] /\ s[a] \in Nat /\ s[b] \in Nat
      BY <1>1, <1>8, <3>2
    <3> QED BY <3>1, <3>3
  <2> QED BY <2>1, <2>2, <2>3
<1> QED BY <1>4, <1>5, <1>6, <1>7 DEF QueueOrder

-----------------------------------------------------------------------------
(* Deliveries, returns and disruptions.                                    *)

\* Taking the next message leaves the order of the rest.
LEMMA NextMessageKeepsOrder ==
    ASSUME TypeOK, QueueOrder, NEW m \in Messages, NextMessage(m),
           \A n \in Messages : where'[n] = "broker" <=> where[n] = "broker" /\ n # m,
           heldBack \ {m} \subseteq heldBack'
    PROVE  /\ QueueOrder' /\ m < fresh' /\ where[m] = "broker"
           /\ returns' \in Seq(Messages) /\ fresh' \in 1..(Last + 1)
<1> USE RolesAssumption
<1>2. \/ /\ returns # <<>> /\ m = Head(returns) /\ returns' = Tail(returns) /\ fresh' = fresh
      \/ returns = <<>> /\ m = fresh /\ fresh' = fresh + 1 /\ returns' = <<>>
  BY DEF NextMessage
<1>m. Messages \subseteq Nat /\ Marker \in Messages /\ Records = Messages \ {Marker}
  BY DEF Messages, Records
<1>3. returns' \in Seq(Messages) /\ fresh' \in 1..(Last + 1)
  <2>0. returns \in Seq(Messages)
    BY DEF TypeOK
  <2>1. returns' \in Seq(Messages)
    <3>1. CASE returns # <<>> /\ returns' = Tail(returns)
      BY <2>0, <3>1
    <3>2. CASE returns = <<>> /\ returns' = <<>>
      BY <2>0, <3>2
    <3> QED BY <1>2, <3>1, <3>2
  <2>2. fresh' \in 1..(Last + 1)
    <3>1. Last \in Nat
      BY SizesAssumption
    <3> QED BY <1>2, <3>1 DEF TypeOK, Messages
  <2> QED BY <2>1, <2>2
<1>4. where[m] = "broker"
  <2>1. returns # <<>> /\ m = Head(returns) => 1 \in 1..Len(returns) /\ returns[1] = m
    BY DEF TypeOK
  <2> QED BY <1>2, <1>m, <2>1 DEF QueueOrder, TypeOK
<1>6. QueueOrder' /\ m < fresh'
  <2>1. CASE returns # <<>> /\ m = Head(returns) /\ returns' = Tail(returns) /\ fresh' = fresh
    <3>1. /\ Len(returns) \in Nat \ {0} /\ Len(returns') = Len(returns) - 1 /\ returns[1] = m
          /\ \A i \in 1..Len(returns') : i + 1 \in 1..Len(returns) /\ returns'[i] = returns[i + 1]
      BY <2>1 DEF TypeOK
    <3>2. \A i \in 2..Len(returns) : i - 1 \in 1..Len(returns') /\ returns'[i - 1] = returns[i]
      BY <3>1
    <3>3. \A i \in 1..Len(returns') : returns'[i] \in Messages /\ returns'[i] # m
      <4> SUFFICES ASSUME NEW i \in 1..Len(returns') PROVE returns'[i] \in Messages /\ returns'[i] # m
        OBVIOUS
      <4>1. i + 1 # 1 /\ 1 \in 1..Len(returns) /\ i + 1 \in 1..Len(returns)
        BY <3>1
      <4>2. returns[i + 1] # returns[1]
        BY <4>1 DEF QueueOrder
      <4>3. returns[i + 1] \in Messages
        BY <4>1 DEF TypeOK
      <4> QED BY <3>1, <4>2, <4>3
    <3>4. m < fresh
      BY <3>1 DEF QueueOrder
    <3>5. \A n \in Messages : where'[n] = "broker" <=>
            n >= fresh' \/ \E i \in 1..Len(returns') : returns'[i] = n
      <4> SUFFICES ASSUME NEW n \in Messages
                   PROVE  where'[n] = "broker" <=>
                            n >= fresh \/ \E i \in 1..Len(returns') : returns'[i] = n
        BY <2>1
      <4>1. CASE n = m
        BY <1>m, <3>3, <3>4, <4>1 DEF TypeOK
      <4>2. CASE n # m
        <5>1. (\E i \in 1..Len(returns) : returns[i] = n) => \E i \in 1..Len(returns') : returns'[i] = n
          <6> SUFFICES ASSUME NEW i \in 1..Len(returns), returns[i] = n
                       PROVE  \E k \in 1..Len(returns') : returns'[k] = n
            OBVIOUS
          <6>1. i \in 2..Len(returns)
            BY <3>1, <4>2
          <6> QED BY <3>2, <6>1
        <5>2. (\E i \in 1..Len(returns') : returns'[i] = n) => \E i \in 1..Len(returns) : returns[i] = n
          BY <3>1
        <5> QED BY <4>2, <5>1, <5>2 DEF QueueOrder
      <4> QED BY <4>1, <4>2
    <3>6. \A i \in 1..Len(returns') : returns'[i] < fresh'
      BY <2>1, <3>1 DEF QueueOrder
    <3>7. \A i, j \in 1..Len(returns') : returns'[i] = returns'[j] => i = j
      <4> SUFFICES ASSUME NEW i \in 1..Len(returns'), NEW j \in 1..Len(returns'), returns'[i] = returns'[j]
                   PROVE  i = j
        OBVIOUS
      <4>1. i + 1 = j + 1
        BY <3>1 DEF QueueOrder
      <4> QED BY <4>1
    <3>8. \A i, j \in 1..Len(returns') :
            j < i /\ returns'[j] = Marker /\ returns'[i] < Marker => returns'[i] \in heldBack'
      <4> SUFFICES ASSUME NEW i \in 1..Len(returns'), NEW j \in 1..Len(returns'), j < i,
                          returns'[j] = Marker, returns'[i] < Marker
                   PROVE  returns'[i] \in heldBack'
        OBVIOUS
      <4>1. j + 1 < i + 1 /\ returns[j + 1] = Marker /\ returns[i + 1] = returns'[i]
        BY <3>1
      <4>2. returns'[i] \in heldBack
        BY <3>1, <4>1 DEF QueueOrder
      <4> QED BY <3>3, <4>2
    <3> QED BY <2>1, <3>4, <3>5, <3>6, <3>7, <3>8 DEF QueueOrder
  <2>2. CASE returns = <<>> /\ m = fresh /\ fresh' = fresh + 1 /\ returns' = <<>>
    <3>1. Len(returns) = 0 /\ Len(returns') = 0
      BY <2>2
    <3>2. \A n \in Messages : where'[n] = "broker" <=> n >= fresh'
      BY <1>m, <2>2, <3>1 DEF QueueOrder, TypeOK
    <3> QED BY <1>m, <2>2, <3>1, <3>2 DEF QueueOrder
  <2> QED BY <1>2, <2>1, <2>2
<1> QED BY <1>3, <1>4, <1>6

\* A delivery is settled at once or finds its owner.
LEMMA DeliverKeeps ==
    ASSUME SettlementInv, NEW m \in Messages, add_message(m)
    PROVE  SettlementInv'
<1> USE RolesAssumption DEF SettlementInv, neo4j, bounds, handling
<1>1. /\ trips' = [trips EXCEPT ![m] = @ + 1]
      /\ where' = [where EXCEPT ![m] = IF m \in Invalid THEN "dead" ELSE "out"]
      /\ pending' = pending \cup (IF m \in Records \ Invalid THEN {<<m, TRUE>>} ELSE {})
      /\ handlers' = handlers \cup (IF m = Marker THEN {<<TRUE, "drain", 0>>} ELSE {})
      /\ heldBack' = heldBack \ {m}
      /\ UNCHANGED <<batch, flush, retry, poison, returning, graph, landed, missed, faults, disruptions>>
  BY DEF add_message, Settled
<1>m. Messages \subseteq Nat /\ Marker \in Messages /\ Records = Messages \ {Marker}
  BY DEF Messages, Records
<1>5. \A n \in Messages : where'[n] = IF n = m THEN (IF n \in Invalid THEN "dead" ELSE "out") ELSE where[n]
  BY <1>1 DEF TypeOK
<1>6. QueueOrder' /\ m < fresh' /\ where[m] = "broker"
      /\ returns' \in Seq(Messages) /\ fresh' \in 1..(Last + 1)
  <2>1. NextMessage(m)
    BY DEF add_message
  <2>2. \A n \in Messages : where'[n] = "broker" <=> where[n] = "broker" /\ n # m
    BY <1>5
  <2>3. heldBack \ {m} \subseteq heldBack'
    BY <1>1
  <2> QED BY <2>1, <2>2, <2>3, NextMessageKeepsOrder
<1>2. \/ /\ returns # <<>> /\ m = Head(returns) /\ returns' = Tail(returns) /\ fresh' = fresh
      \/ returns = <<>> /\ m = fresh /\ fresh' = fresh + 1 /\ returns' = <<>>
  BY DEF add_message, NextMessage
<1>4. where[m] = "broker"
  BY <1>6
<1>3. TypeOK'
  <2>3. <<TRUE, "drain", 0>> \in BOOLEAN \X Stages \X Nat /\ <<m, TRUE>> \in Entries
    BY DEF Stages, Entries
  <2>4. handlers' \in SUBSET (BOOLEAN \X Stages \X Nat)
    BY <1>1, <2>3 DEF TypeOK
  <2>5. pending' \in SUBSET Entries
    BY <1>1, <2>3 DEF TypeOK
  <2>6. where' \in [Messages -> {"broker", "out", "acked", "dead"}] /\ trips' \in [Messages -> Nat]
    BY <1>1 DEF TypeOK
  <2> QED BY <1>1, <1>6, <2>4, <2>5, <2>6 DEF TypeOK
<1>e. /\ <<m, TRUE>>[1] = m /\ <<TRUE, "drain", 0>>[1] = TRUE /\ <<TRUE, "drain", 0>>[2] = "drain"
      /\ \A n \in Messages : <<n, TRUE>> = <<m, TRUE>> <=> n = m
      /\ \A n \in Messages : <<n, FALSE>> # <<m, TRUE>>
  OBVIOUS
<1>p. pending' = IF m \in Records \ Invalid THEN pending \cup {<<m, TRUE>>} ELSE pending
  BY <1>1
<1>h. handlers' = IF m = Marker THEN handlers \cup {<<TRUE, "drain", 0>>} ELSE handlers
  BY <1>1
<1>7. FlushShape'
  <2>1. \A e \in pending' \cup batch' : e[1] \in Records \ Invalid
    BY <1>1, <1>e, <1>p DEF FlushShape
  <2> QED BY <1>1, <2>1 DEF FlushShape
<1>8. EveryDeliveryHasOneOwner'
  <2>0. <<m, TRUE>> \notin batch
    <3>1. CASE m = Marker
      BY <1>e, <1>m, <3>1 DEF FlushShape
    <3>2. CASE m # Marker
      BY <1>4, <1>m, <3>2 DEF EveryDeliveryHasOneOwner
    <3> QED BY <3>1, <3>2
  <2>1. m = Marker => ~ \E h \in handlers : h[1]
    BY <1>4 DEF EveryDeliveryHasOneOwner
  <2>3. \A n \in Messages : <<n, TRUE>> \in pending' \cup batch' <=>
            <<n, TRUE>> \in pending \cup batch \/ (n = m /\ m \in Records \ Invalid)
    <3>0. batch' = batch
      BY <1>1
    <3>1. CASE m \in Records \ Invalid
      BY <1>e, <1>p, <3>0, <3>1
    <3>2. CASE m \notin Records \ Invalid
      <4>1. pending' \cup batch' = pending \cup batch
        BY <1>p, <3>0, <3>2
      <4>2. \A n : ~(n = m /\ m \in Records \ Invalid)
        BY <3>2
      <4> QED BY <4>1, <4>2
    <3> QED BY <3>1, <3>2
  <2>4. \A n \in Records : where'[n] = "out" <=> <<n, TRUE>> \in pending' \cup batch' \/ n \in returning'
    <3> SUFFICES ASSUME NEW n \in Records
                 PROVE  where'[n] = "out" <=> <<n, TRUE>> \in pending' \cup batch' \/ n \in returning
      BY <1>1
    <3>1. where[n] = "out" <=> <<n, TRUE>> \in pending \cup batch \/ n \in returning
      BY DEF EveryDeliveryHasOneOwner
    <3>2. CASE n = m
      <4>1. where'[n] = "out" <=> n \notin Invalid
        BY <1>5, <3>2
      <4>2. where[n] # "out"
        BY <1>4, <3>2
      <4>3. <<n, TRUE>> \in pending' \cup batch' <=> n \in Records \ Invalid
        BY <1>m, <2>3, <3>1, <3>2, <4>2
      <4>4. n \notin returning
        BY <4>2 DEF EveryDeliveryHasOneOwner
      <4> QED BY <3>2, <4>1, <4>3, <4>4
    <3>3. CASE n # m
      <4>1. n \in Messages
        BY <1>m
      <4>2. where'[n] = where[n]
        BY <1>5, <3>3, <4>1
      <4>3. <<n, TRUE>> \in pending' \cup batch' <=> <<n, TRUE>> \in pending \cup batch
        <5>1. ~(n = m /\ m \in Records \ Invalid)
          BY <3>3
        <5> QED BY <2>3, <4>1, <5>1
      <4> QED BY <3>1, <4>2, <4>3
    <3> QED BY <3>2, <3>3
  <2>7. \A n \in returning' : n \in Records /\ <<n, TRUE>> \notin pending' \cup batch'
    <3> SUFFICES ASSUME NEW n \in returning PROVE n \in Records /\ <<n, TRUE>> \notin pending' \cup batch'
      BY <1>1
    <3>1. n \in Records /\ <<n, TRUE>> \notin pending \cup batch
      BY DEF EveryDeliveryHasOneOwner
    <3>2. n # m
      BY <1>4, <3>1 DEF EveryDeliveryHasOneOwner
    <3> QED BY <1>m, <2>3, <3>1, <3>2
  <2>5. CASE m = Marker
    <3>1. where'[Marker] = "out" /\ \E h \in handlers' : h[1]
      BY <1>5, <1>e, <1>h, <1>m, <2>5
    <3>2. \A g, h \in handlers' : g[1] /\ h[1] => g = h
      BY <1>h, <2>1, <2>5
    <3>3. pending' = pending
      BY <1>m, <1>p, <2>5
    <3>4. pending' \cap batch' \cap (Messages \X {TRUE}) = {}
      BY <1>1, <3>3 DEF EveryDeliveryHasOneOwner
    <3> QED BY <2>4, <2>7, <3>1, <3>2, <3>4 DEF EveryDeliveryHasOneOwner
  <2>6. CASE m # Marker
    <3>1. handlers' = handlers /\ where'[Marker] = where[Marker]
      BY <1>1, <1>5, <1>m, <2>6
    <3>2. pending' \cap batch' \cap (Messages \X {TRUE}) = {}
      BY <1>1, <1>p, <2>0 DEF EveryDeliveryHasOneOwner
    <3> QED BY <2>4, <2>7, <3>1, <3>2 DEF EveryDeliveryHasOneOwner
  <2> QED BY <2>5, <2>6
<1>9. AckedIsWritten'
  BY <1>1, <1>5, <1>m DEF AckedIsWritten
<1>10. OnlyJustifiedDeadLetters'
  BY <1>1, <1>5, <1>4, <1>m, SizesAssumption, BoundsAssumption DEF OnlyJustifiedDeadLetters, Unwritables, TypeOK
<1>11. DrainOrder'
  <2> SUFFICES ASSUME handlers' # {}
               PROVE  /\ Marker < fresh'
                      /\ \A n \in Coverable : where'[n] = "broker" =>
                           n \in graph' \cup heldBack' \/ <<n, FALSE>> \in pending' \cup batch'
    BY DEF DrainOrder
  <2>1. CASE m # Marker
    <3>1. handlers' = handlers /\ fresh' >= fresh
      BY <1>1, <1>2, <1>m, <2>1 DEF TypeOK
    <3>2. Marker < fresh'
      <4>1. fresh \in Nat /\ fresh' \in Nat /\ Marker \in Nat
        BY <1>3, <1>m DEF TypeOK
      <4>2. Marker < fresh
        BY <3>1 DEF DrainOrder
      <4> QED BY <3>1, <4>1, <4>2
    <3>3. ASSUME NEW n \in Coverable, where'[n] = "broker"
          PROVE  n \in graph \cup heldBack' \/ <<n, FALSE>> \in pending' \cup batch'
      <4>1. n \in Messages /\ n # m /\ where[n] = "broker"
        BY <1>5, <1>m, <3>3 DEF Coverable
      <4> QED BY <1>1, <3>1, <4>1 DEF DrainOrder
    <3> QED BY <1>1, <3>2, <3>3
  <2>2. CASE m = Marker
    <3>1. ASSUME NEW n \in Coverable, where'[n] = "broker"
          PROVE  n \in heldBack'
      <4>1. n \in Messages /\ n < Marker /\ n # m /\ where[n] = "broker"
        BY <1>5, <1>m, <2>2, <3>1 DEF Coverable
      <4>2. CASE returns = <<>> /\ m = fresh
        BY <1>m, <2>2, <4>1, <4>2 DEF QueueOrder, TypeOK
      <4>3. CASE returns # <<>> /\ m = Head(returns)
        <5>1. 1 \in 1..Len(returns) /\ returns[1] = Marker
          BY <2>2, <4>3 DEF TypeOK
        <5>2. Marker < fresh
          BY <5>1 DEF QueueOrder
        <5>3. PICK i \in 1..Len(returns) : returns[i] = n
          BY <1>m, <4>1, <5>2 DEF QueueOrder, TypeOK
        <5>4. 1 < i
          BY <2>2, <4>1, <5>1, <5>3
        <5> QED BY <1>1, <4>1, <5>1, <5>3, <5>4 DEF QueueOrder
      <4> QED BY <1>2, <4>2, <4>3
    <3> QED BY <1>6, <2>2, <3>1
  <2> QED BY <2>1, <2>2
<1>12. DrainCovers'
  <2>1. \A h \in handlers' : h[2] \in {"latch", "ack"} => h \in handlers
    BY <1>e, <1>h
  <2>2. \A n \in Messages : where[n] = "dead" => where'[n] = "dead"
    BY <1>4, <1>5
  <2> QED BY <1>1, <2>1, <2>2 DEF DrainCovers, Coverable, Records
<1>13. ReturningHeld'
  BY <1>1, <1>4 DEF ReturningHeld, EveryDeliveryHasOneOwner
<1> QED BY <1>3, <1>6, <1>7, <1>8, <1>9, <1>10, <1>11, <1>12, <1>13

\* The hold gives entries back to the broker or to the dead-letter queue.
LEMMA HoldReturnKeeps ==
    ASSUME SettlementInv, HoldReturn
    PROVE  SettlementInv'
<1> USE RolesAssumption DEF SettlementInv, neo4j, bounds, handling
<1>m. Messages \subseteq Nat /\ Marker \in Messages /\ Records = Messages \ {Marker}
  BY DEF Messages, Records
<1>1. PICK S \in SUBSET pending, back \in SUBSET Messages :
        \E s \in Sequences(back) :
          /\ S # {}
          /\ back = {m \in Messages : <<m, TRUE>> \in S /\ trips[m] <= MaxRequeues}
          /\ InOrder(s, back)
          /\ pending' = pending \ S
          /\ where' = [m \in Messages |->
                        IF m \in back THEN "broker"
                        ELSE IF <<m, TRUE>> \in S THEN "dead" ELSE where[m]]
          /\ returns' = returns \o s
          /\ heldBack' = heldBack \cup {m \in Messages : <<m, FALSE>> \in S /\ where[m] = "broker"}
                                  \cup back
  BY DEF HoldReturn
<1>2. flush = "idle" /\ batch = {}
      /\ UNCHANGED <<fresh, trips, batch, flush, retry, poison, handlers, returning, graph, landed, missed, disruptions>>
      /\ faults' \in Nat
  BY DEF HoldReturn, FlushShape, Fault, TypeOK
<1>3. /\ \A m \in Messages : m \in back <=> <<m, TRUE>> \in S /\ trips[m] <= MaxRequeues
      /\ \A m \in Messages : where'[m] = IF m \in back THEN "broker"
                                         ELSE IF <<m, TRUE>> \in S THEN "dead" ELSE where[m]
      /\ pending' = pending \ S /\ back \subseteq heldBack' /\ heldBack \subseteq heldBack'
      /\ \A m \in Messages : <<m, FALSE>> \in S /\ where[m] = "broker" => m \in heldBack'
  BY <1>1
<1>4. \A m \in Messages : <<m, TRUE>> \in S => m \in Records \ Invalid /\ where[m] = "out"
  <2> SUFFICES ASSUME NEW m \in Messages, <<m, TRUE>> \in S
               PROVE  m \in Records \ Invalid /\ where[m] = "out"
    OBVIOUS
  <2>1. <<m, TRUE>> \in pending /\ <<m, TRUE>>[1] = m
    OBVIOUS
  <2>2. m \in Records \ Invalid
    BY <2>1 DEF FlushShape
  <2> QED BY <2>1, <2>2 DEF EveryDeliveryHasOneOwner
<1>5. TypeOK'
  <2>1. PICK s \in Sequences(back) : InOrder(s, back) /\ returns' = returns \o s
    BY <1>1
  <2>2. s \in Seq(Messages)
    BY <2>1, ReturnedInOrder
  <2>3. returns' \in Seq(Messages)
    BY <2>1, <2>2 DEF TypeOK
  <2>4. where' \in [Messages -> {"broker", "out", "acked", "dead"}]
    BY <1>1 DEF TypeOK
  <2>5. heldBack' \in SUBSET Messages
    BY <1>1 DEF TypeOK
  <2> QED BY <1>2, <1>3, <2>3, <2>4, <2>5 DEF TypeOK
<1>6. QueueOrder'
  <2>1. PICK s \in Sequences(back) : InOrder(s, back) /\ returns' = returns \o s
    BY <1>1
  <2>2. \A m \in back : where[m] # "broker"
    BY <1>3, <1>4
  <2>3. \A m \in Messages : where'[m] = "broker" <=> where[m] = "broker" \/ m \in back
    BY <1>3, <1>4
  <2> QED BY <1>2, <1>3, <1>5, <2>1, <2>2, <2>3, ReturningKeepsOrder
<1>7. FlushShape'
  BY <1>2, <1>3 DEF FlushShape
<1>8. EveryDeliveryHasOneOwner'
  <2>1. \A m \in Records : where'[m] = "out" <=> <<m, TRUE>> \in pending' \cup batch' \/ m \in returning'
    <3> SUFFICES ASSUME NEW m \in Records
                 PROVE  where'[m] = "out" <=> <<m, TRUE>> \in pending' \cup batch' \/ m \in returning
      BY <1>2
    <3>1. m \in Messages /\ batch' = batch
      BY <1>2, <1>m
    <3>2. CASE <<m, TRUE>> \in S
      <4>1. m \notin returning /\ <<m, TRUE>> \notin pending' \cup batch'
        BY <1>2, <1>3, <3>2 DEF EveryDeliveryHasOneOwner
      <4> QED BY <1>3, <3>1, <3>2, <4>1
    <3>3. CASE <<m, TRUE>> \notin S
      <4>1. where'[m] = where[m] /\ (<<m, TRUE>> \in pending' \cup batch' <=> <<m, TRUE>> \in pending \cup batch)
        BY <1>3, <3>1, <3>3
      <4> QED BY <4>1 DEF EveryDeliveryHasOneOwner
    <3> QED BY <3>2, <3>3
  <2>3. \A m \in returning' : m \in Records /\ <<m, TRUE>> \notin pending' \cup batch'
    BY <1>2, <1>3 DEF EveryDeliveryHasOneOwner
  <2>2. where'[Marker] = where[Marker]
    BY <1>3, <1>4, <1>m
  <2> QED BY <1>2, <1>3, <2>1, <2>2, <2>3 DEF EveryDeliveryHasOneOwner
<1>9. AckedIsWritten'
  BY <1>2, <1>3, <1>m DEF AckedIsWritten
<1>10. OnlyJustifiedDeadLetters'
  <2> SUFFICES ASSUME NEW m \in Messages, where'[m] = "dead"
               PROVE  \/ m \in Unwritables
                      \/ \E budget \in (IF m = Marker THEN {MarkerMaxRequeues}
                                        ELSE {MaxRequeues, RecordMaxRequeues}) : trips[m] > budget
    BY <1>2 DEF OnlyJustifiedDeadLetters
  <2>1. CASE where[m] = "dead"
    BY <2>1 DEF OnlyJustifiedDeadLetters
  <2>2. CASE where[m] # "dead"
    <3>1. <<m, TRUE>> \in S /\ ~(trips[m] <= MaxRequeues) /\ m # Marker
      BY <1>3, <1>4, <1>m, <2>2
    <3>2. trips[m] \in Nat /\ MaxRequeues \in Nat
      BY BoundsAssumption DEF TypeOK
    <3> QED BY <3>1, <3>2
  <2> QED BY <2>1, <2>2
<1>11. DrainOrder'
  <2> SUFFICES ASSUME handlers # {}
               PROVE  /\ Marker < fresh
                      /\ \A n \in Coverable : where'[n] = "broker" =>
                           n \in graph \cup heldBack' \/ <<n, FALSE>> \in pending' \cup batch
    BY <1>2 DEF DrainOrder
  <2>1. ASSUME NEW n \in Coverable, where'[n] = "broker"
        PROVE  n \in graph \cup heldBack' \/ <<n, FALSE>> \in pending' \cup batch
    <3>1. n \in Messages
      BY <1>m DEF Coverable
    <3> QED BY <1>2, <1>3, <2>1, <3>1 DEF DrainOrder
  <2> QED BY <2>1 DEF DrainOrder
<1>12. DrainCovers'
  <2>1. \A n \in Messages : where[n] = "dead" => where'[n] = "dead"
    BY <1>3, <1>4
  <2> QED BY <1>2, <1>m, <2>1 DEF DrainCovers, Coverable
<1>ret. ReturningHeld'
  BY <1>2, <1>3 DEF ReturningHeld
<1> QED BY <1>5, <1>6, <1>7, <1>8, <1>9, <1>10, <1>11, <1>12, <1>ret

\* A handler that fails keeps the delivery it was given.
LEMMA RaiseKeeps ==
    ASSUME SettlementInv, NEW m \in Messages, add_messageRaises(m)
    PROVE  SettlementInv'
<1> USE RolesAssumption DEF SettlementInv, engine, neo4j
<1>1. /\ m \in Records \ Invalid
      /\ trips' = [trips EXCEPT ![m] = @ + 1] /\ where' = [where EXCEPT ![m] = "out"]
      /\ returning' = returning \cup {m} /\ heldBack' = heldBack \cup {m} /\ faults' = faults + 1
      /\ UNCHANGED <<pending, batch, flush, retry, poison, handlers, graph, landed, missed, disruptions>>
  BY DEF add_messageRaises, Settled, Fault
<1>m. Messages \subseteq Nat /\ Marker \in Messages /\ Records = Messages \ {Marker}
  BY DEF Messages, Records
<1>2. \A n \in Messages : where'[n] = IF n = m THEN "out" ELSE where[n]
  BY <1>1 DEF TypeOK
<1>3. QueueOrder' /\ where[m] = "broker" /\ returns' \in Seq(Messages) /\ fresh' \in 1..(Last + 1)
      /\ fresh' >= fresh
  <2>1. NextMessage(m)
    BY DEF add_messageRaises
  <2>2. QueueOrder' /\ where[m] = "broker" /\ returns' \in Seq(Messages) /\ fresh' \in 1..(Last + 1)
    BY <1>1, <1>2, <2>1, NextMessageKeepsOrder
  <2>3. fresh' >= fresh
    BY <2>1 DEF NextMessage, TypeOK
  <2> QED BY <2>2, <2>3
<1>4. TypeOK'
  <2>1. where' \in [Messages -> {"broker", "out", "acked", "dead"}] /\ trips' \in [Messages -> Nat]
    BY <1>1 DEF TypeOK
  <2> QED BY <1>1, <1>3, <2>1 DEF TypeOK
<1>5. FlushShape'
  BY <1>1 DEF FlushShape
<1>6. EveryDeliveryHasOneOwner'
  <2>1. <<m, TRUE>> \notin pending \cup batch
    BY <1>1, <1>3 DEF EveryDeliveryHasOneOwner
  <2>2. \A n \in Records : where'[n] = "out" <=> <<n, TRUE>> \in pending \cup batch \/ n \in returning'
    BY <1>1, <1>2, <1>m DEF EveryDeliveryHasOneOwner
  <2>3. \A n \in returning' : n \in Records /\ <<n, TRUE>> \notin pending \cup batch
    BY <1>1, <2>1 DEF EveryDeliveryHasOneOwner
  <2>4. where'[Marker] = where[Marker]
    BY <1>1, <1>2, <1>m
  <2> QED BY <1>1, <2>2, <2>3, <2>4 DEF EveryDeliveryHasOneOwner
<1>7. AckedIsWritten'
  BY <1>1, <1>2, <1>m DEF AckedIsWritten
<1>8. OnlyJustifiedDeadLetters'
  <2> SUFFICES ASSUME NEW n \in Messages, where'[n] = "dead"
               PROVE  \/ n \in Unwritables
                      \/ \E budget \in (IF n = Marker THEN {MarkerMaxRequeues}
                                        ELSE {MaxRequeues, RecordMaxRequeues}) : trips'[n] > budget
    BY DEF OnlyJustifiedDeadLetters
  <2>1. n # m /\ where[n] = "dead" /\ trips'[n] = trips[n]
    BY <1>1, <1>2 DEF TypeOK
  <2> QED BY <2>1 DEF OnlyJustifiedDeadLetters
<1>9. DrainOrder'
  <2> SUFFICES ASSUME handlers # {}
               PROVE  /\ Marker < fresh'
                      /\ \A n \in Coverable : where'[n] = "broker" =>
                           n \in graph \cup heldBack' \/ <<n, FALSE>> \in pending \cup batch
    BY <1>1 DEF DrainOrder
  <2>1. Marker < fresh /\ fresh \in Nat /\ fresh' \in Nat /\ Marker \in Nat
    <3>1. fresh \in 1..(Last + 1) /\ fresh' \in 1..(Last + 1) /\ Marker < fresh
      BY <1>3 DEF DrainOrder, TypeOK
    <3>2. Last \in Nat
      BY SizesAssumption
    <3> QED BY <1>m, <3>1, <3>2
  <2>2. Marker < fresh'
    BY <1>3, <2>1
  <2>3. ASSUME NEW n \in Coverable, where'[n] = "broker"
        PROVE  n \in graph \cup heldBack' \/ <<n, FALSE>> \in pending \cup batch
    <3>1. where[n] = "broker"
      BY <1>2, <1>m, <2>3 DEF Coverable
    <3> QED BY <1>1, <3>1 DEF DrainOrder
  <2> QED BY <2>2, <2>3
<1>10. DrainCovers'
  <2>1. \A n \in Coverable : where[n] = "dead" => where'[n] = "dead"
    BY <1>2, <1>3, <1>m DEF Coverable
  <2> QED BY <1>1, <2>1 DEF DrainCovers
<1>11. ReturningHeld'
  BY <1>1 DEF ReturningHeld
<1> QED BY <1>3, <1>4, <1>5, <1>6, <1>7, <1>8, <1>9, <1>10, <1>11

\* The delivery it kept goes back behind what was returned before.
LEMMA RequeueKeeps ==
    ASSUME SettlementInv, NEW m \in Messages, requeue_record(m)
    PROVE  SettlementInv'
<1> USE RolesAssumption DEF SettlementInv, engine, neo4j, observed, bounds
<1>1. /\ m \in returning /\ returning' = returning \ {m}
      /\ UNCHANGED <<fresh, trips, pending, batch, flush, retry, poison, handlers, graph, landed,
                     heldBack, missed, faults, disruptions>>
  BY DEF requeue_record
<1>m. Messages \subseteq Nat /\ Marker \in Messages /\ Records = Messages \ {Marker}
  BY DEF Messages, Records
<1>2. m \in Records /\ m \in heldBack /\ where[m] = "out" /\ <<m, TRUE>> \notin pending \cup batch
  BY <1>1 DEF EveryDeliveryHasOneOwner, ReturningHeld
<1>3. PICK end \in {"dead", "broker"} :
        /\ where' = [where EXCEPT ![m] = end]
        /\ end = "broker" => returns' = Append(returns, m)
        /\ end = "dead" => returns' = returns /\ trips[m] > RecordMaxRequeues
  BY DEF requeue_record, Settled
<1>4. \A n \in Messages : where'[n] = IF n = m THEN end ELSE where[n]
  BY <1>3 DEF TypeOK
<1>5. TypeOK'
  <2>1. returns' \in Seq(Messages)
    <3>1. returns \in Seq(Messages) /\ Append(returns, m) \in Seq(Messages)
      BY DEF TypeOK
    <3> QED BY <1>3, <3>1
  <2>2. where' \in [Messages -> {"broker", "out", "acked", "dead"}]
    BY <1>3 DEF TypeOK
  <2> QED BY <1>1, <2>1, <2>2 DEF TypeOK
<1>6. QueueOrder'
  <2>1. CASE end = "dead"
    BY <1>1, <1>2, <1>3, <1>4, <2>1 DEF QueueOrder
  <2>2. CASE end = "broker"
    <3> DEFINE s == <<m>>
    <3>1. Cardinality({m}) = 1
      BY FS_Singleton
    <3>2. s \in Sequences({m})
      BY <3>1 DEF Sequences
    <3>3. s \in Seq(Messages) /\ Len(s) = 1 /\ s[1] = m
      OBVIOUS
    <3>4. InOrder(s, {m})
      <4>1. \A i, j \in 1..Len(s) : ~(i < j)
        BY <3>3
      <4>2. {s[i] : i \in 1..Len(s)} = {m}
        BY <3>3
      <4> QED BY <4>1, <4>2 DEF InOrder
    <3>5. returns' = returns \o s
      <4>1. returns \in Seq(Messages) /\ returns' = Append(returns, m)
        BY <1>3, <2>2 DEF TypeOK
      <4> QED BY <4>1, AppendIsConcat
    <3> HIDE DEF s
    <3>6. \A n \in {m} : where[n] # "broker"
      BY <1>2
    <3>7. \A n \in Messages : where'[n] = "broker" <=> where[n] = "broker" \/ n \in {m}
      BY <1>4, <2>2
    <3>8. heldBack \subseteq heldBack' /\ {m} \subseteq heldBack' /\ fresh' = fresh
      BY <1>1, <1>2
    <3> QED BY <3>2, <3>4, <3>5, <3>6, <3>7, <3>8, ReturningKeepsOrder
  <2> QED BY <2>1, <2>2
<1>7. FlushShape' /\ AckedIsWritten'
  BY <1>1, <1>4, <1>m DEF FlushShape, AckedIsWritten
<1>8. EveryDeliveryHasOneOwner'
  <2>1. \A n \in Records : where'[n] = "out" <=> <<n, TRUE>> \in pending \cup batch \/ n \in returning'
    BY <1>1, <1>2, <1>3, <1>4, <1>m DEF EveryDeliveryHasOneOwner
  <2>2. where'[Marker] = where[Marker]
    BY <1>2, <1>4, <1>m
  <2>3. \A n \in returning' : n \in Records /\ <<n, TRUE>> \notin pending \cup batch
    BY <1>1 DEF EveryDeliveryHasOneOwner
  <2> QED BY <1>1, <2>1, <2>2, <2>3 DEF EveryDeliveryHasOneOwner
<1>9. OnlyJustifiedDeadLetters'
  <2> SUFFICES ASSUME NEW n \in Messages, where'[n] = "dead"
               PROVE  \/ n \in Unwritables
                      \/ \E budget \in (IF n = Marker THEN {MarkerMaxRequeues}
                                        ELSE {MaxRequeues, RecordMaxRequeues}) : trips[n] > budget
    BY <1>1 DEF OnlyJustifiedDeadLetters
  <2>1. CASE n = m
    BY <1>2, <1>3, <1>4, <1>m, <2>1
  <2>2. CASE n # m
    BY <1>4, <2>2 DEF OnlyJustifiedDeadLetters
  <2> QED BY <2>1, <2>2
<1>10. DrainOrder'
  <2>1. \A n \in Coverable : n \in Messages
    BY <1>m DEF Coverable
  <2> QED BY <1>1, <1>2, <1>4, <2>1 DEF DrainOrder
<1>11. DrainCovers'
  <2>1. \A n \in Coverable : where[n] = "dead" => where'[n] = "dead"
    BY <1>2, <1>4, <1>m DEF Coverable
  <2> QED BY <1>1, <2>1 DEF DrainCovers
<1>12. ReturningHeld'
  BY <1>1 DEF ReturningHeld
<1> QED BY <1>5, <1>6, <1>7, <1>8, <1>9, <1>10, <1>11, <1>12

\* A marker handler's step: the engine is left alone.
LEMMA MarkerStepKeeps ==
    ASSUME SettlementInv, NEW h \in handlers,
           Drained(h) \/ flush_queue(h) \/ RecordSignal(h) \/ SignalFails(h)
    PROVE  SettlementInv'
<1> USE RolesAssumption DEF SettlementInv, neo4j, engine, broker, handling
<1>0. h[3] \in Nat /\ h[3] + 1 \in Nat
  BY DEF TypeOK
<1>1. PICK stage \in Stages, n \in Nat :
        /\ handlers' = (handlers \ {h}) \cup {<<h[1], stage, n>>}
        /\ h[2] = "drain" => stage \in {"drain", "requeue"} \/ Drained(h)
  <2>1. CASE Drained(h)
    <3>1. handlers' = (handlers \ {h}) \cup {<<h[1], "latch", h[3]>>}
      BY <2>1 DEF Drained, MoveTo
    <3> QED BY <1>0, <2>1, <3>1 DEF Stages
  <2>2. CASE flush_queue(h)
    <3>1. \/ handlers' = (handlers \ {h}) \cup {<<h[1], "drain", h[3] + 1>>}
          \/ handlers' = (handlers \ {h}) \cup {<<h[1], "requeue", h[3] + 1>>}
      BY <2>2 DEF flush_queue, MoveTo
    <3> QED BY <1>0, <3>1 DEF Stages
  <2>3. CASE RecordSignal(h)
    <3>1. handlers' = (handlers \ {h}) \cup {<<h[1], "ack", h[3]>>} /\ h[2] # "drain"
      BY <2>3 DEF RecordSignal, MoveTo
    <3> QED BY <1>0, <3>1 DEF Stages
  <2>4. CASE SignalFails(h)
    <3>1. handlers' = (handlers \ {h}) \cup {<<h[1], "requeue", h[3]>>}
      BY <2>4 DEF SignalFails, MoveTo
    <3> QED BY <1>0, <3>1 DEF Stages
  <2> QED BY <2>1, <2>2, <2>3, <2>4
<1>2. /\ UNCHANGED <<broker, engine, returning, graph, heldBack, disruptions>>
      /\ faults' \in Nat /\ landed' \in BOOLEAN /\ missed' \in SUBSET Messages
      /\ missed \subseteq missed'
  <2>1. CASE Drained(h)
    BY <2>1 DEF Drained, byHandler, bounds, TypeOK, handling
  <2>2. CASE flush_queue(h)
    BY <2>2 DEF flush_queue, byHandler, observed, bounds, TypeOK, handling
  <2>3. CASE RecordSignal(h)
    BY <2>3 DEF RecordSignal, byHandler, observed, bounds, TypeOK, handling
  <2>4. CASE SignalFails(h)
    BY <2>4 DEF SignalFails, Fault, observed, TypeOK, handling
  <2> QED BY <2>1, <2>2, <2>3, <2>4
<1>3. h \in BOOLEAN \X Stages \X Nat /\ <<h[1], stage, n>>[1] = h[1] /\ <<h[1], stage, n>>[2] = stage
  BY DEF TypeOK
<1>4. TypeOK'
  <2>1. <<h[1], stage, n>> \in BOOLEAN \X Stages \X Nat
    BY <1>3
  <2>2. handlers' \in SUBSET (BOOLEAN \X Stages \X Nat)
    BY <1>1, <2>1 DEF TypeOK
  <2> QED BY <1>2, <2>2 DEF TypeOK
<1>5. QueueOrder' /\ FlushShape' /\ AckedIsWritten' /\ OnlyJustifiedDeadLetters'
  BY <1>2 DEF QueueOrder, FlushShape, AckedIsWritten, OnlyJustifiedDeadLetters
<1>6. EveryDeliveryHasOneOwner'
  <2>1. (\E g \in handlers : g[1]) <=> \E g \in handlers' : g[1]
    BY <1>1, <1>3
  <2>2. \A f, g \in handlers' : f[1] /\ g[1] => f = g
    BY <1>1, <1>3 DEF EveryDeliveryHasOneOwner
  <2> QED BY <1>2, <2>1, <2>2 DEF EveryDeliveryHasOneOwner
<1>7. DrainOrder'
  BY <1>2 DEF DrainOrder
<1>8. DrainCovers'
  <2>1. CASE Drained(h)
    <3>1. pending = {} /\ batch = {} /\ (~landed => heldBack \subseteq missed') /\ landed' = landed
      BY <2>1 DEF Drained
    <3>2. CASE landed
      BY <1>2, <3>2 DEF DrainCovers
    <3>3. CASE ~landed
      <4> SUFFICES ASSUME NEW m \in Coverable
                   PROVE  m \in graph \/ where[m] = "dead" \/ m \in missed'
        BY <1>2 DEF DrainCovers
      <4>1. m \in Records
        BY DEF Coverable
      <4>2. where[m] \in {"broker", "out", "acked", "dead"}
        BY <4>1 DEF TypeOK, Records
      <4>3. where[m] = "out" => m \in heldBack
        BY <3>1, <4>1 DEF EveryDeliveryHasOneOwner, ReturningHeld
      <4>4. where[m] = "acked" => m \in graph
        BY <4>1 DEF AckedIsWritten
      <4>5. where[m] = "broker" => m \in graph \cup heldBack
        BY <3>1 DEF DrainOrder
      <4> QED BY <3>1, <3>3, <4>2, <4>3, <4>4, <4>5
    <3> QED BY <3>2, <3>3
  <2>2. CASE flush_queue(h)
    <3>1. landed' = landed /\ missed' = missed /\ h[2] = "drain"
      BY <2>2 DEF flush_queue, observed, handling
    <3>3. CASE Drained(h)
      BY <2>1, <3>3
    <3>4. CASE ~Drained(h)
      <4>1. \A g \in handlers' : g[2] \in {"latch", "ack"} => g \in handlers
        BY <1>1, <1>3, <3>1, <3>4
      <4> QED BY <1>2, <3>1, <4>1 DEF DrainCovers
    <3> QED BY <3>3, <3>4
  <2>3. CASE RecordSignal(h)
    <3>1. h[2] = "latch"
      BY <2>3 DEF RecordSignal
    <3> QED BY <1>2, <3>1 DEF DrainCovers
  <2>4. CASE SignalFails(h)
    <3>1. h[2] = "latch"
      BY <2>4 DEF SignalFails
    <3> QED BY <1>2, <3>1 DEF DrainCovers
  <2> QED BY <2>1, <2>2, <2>3, <2>4
<1>ret. ReturningHeld'
  BY <1>2 DEF ReturningHeld
<1> QED BY <1>4, <1>5, <1>6, <1>7, <1>8, <1>ret

\* The ack and the requeue end a handler.
LEMMA MarkerEndKeeps ==
    ASSUME SettlementInv, NEW h \in handlers, AckMarker(h) \/ requeue_marker(h)
    PROVE  SettlementInv'
<1> USE RolesAssumption DEF SettlementInv, neo4j, engine, byHandler, observed, bounds, handling
<1>m. Messages \subseteq Nat /\ Marker \in Messages /\ Records = Messages \ {Marker}
  BY DEF Messages, Records
<1>1. /\ handlers' = handlers \ {h}
      /\ UNCHANGED <<fresh, trips, pending, batch, flush, retry, poison, graph, landed,
                     returning, heldBack, missed, faults, disruptions>>
  BY DEF AckMarker, requeue_marker
<1>2. PICK end \in {"acked", "dead", "broker"} :
        /\ h[1] => where' = [where EXCEPT ![Marker] = end]
        /\ ~h[1] => where' = where
        /\ returns' = IF h[1] /\ end = "broker" THEN Append(returns, Marker) ELSE returns
        /\ h[1] /\ end = "dead" => trips[Marker] > MarkerMaxRequeues
  <2>1. CASE AckMarker(h)
    <3>1. returns' = returns /\ (IF h[1] THEN where' = [where EXCEPT ![Marker] = "acked"] ELSE where' = where)
      BY <2>1 DEF AckMarker, Settled
    <3> QED BY <3>1
  <2>2. CASE requeue_marker(h)
    <3>1. CASE ~h[1] /\ UNCHANGED <<where, returns>>
      BY <3>1
    <3>2. CASE h[1] /\ trips[Marker] > MarkerMaxRequeues /\ Settled(Marker, "dead") /\ UNCHANGED returns
      BY <3>2 DEF Settled
    <3>3. CASE h[1] /\ Settled(Marker, "broker") /\ returns' = Append(returns, Marker)
      BY <3>3 DEF Settled
    <3> QED BY <2>2, <3>1, <3>2, <3>3 DEF requeue_marker
  <2> QED BY <2>1, <2>2
<1>3. h[1] \in BOOLEAN /\ (h[1] => where[Marker] = "out" /\ \A g \in handlers \ {h} : ~g[1])
  <2>1. h[1] \in BOOLEAN
    BY DEF TypeOK
  <2> QED BY <2>1 DEF EveryDeliveryHasOneOwner
<1>4. \A m \in Messages : where'[m] = IF h[1] /\ m = Marker THEN end ELSE where[m]
  <2>1. CASE h[1]
    BY <1>2, <2>1 DEF TypeOK
  <2>2. CASE ~h[1]
    BY <1>2, <2>2
  <2> QED BY <2>1, <2>2
<1>5. TypeOK'
  <2>1. returns \in Seq(Messages) /\ returns' \in Seq(Messages)
    <3>1. returns \in Seq(Messages) /\ Append(returns, Marker) \in Seq(Messages)
      BY <1>m DEF TypeOK
    <3> QED BY <1>2, <3>1
  <2>2. where' \in [Messages -> {"broker", "out", "acked", "dead"}]
    BY <1>2, <1>3 DEF TypeOK
  <2>3. handlers' \in SUBSET (BOOLEAN \X Stages \X Nat)
    BY <1>1 DEF TypeOK
  <2> QED BY <1>1, <2>1, <2>2, <2>3 DEF TypeOK
<1>6. QueueOrder'
  <2>1. CASE ~(h[1] /\ end = "broker")
    <3>1. returns' = returns /\ \A m \in Messages : where'[m] = "broker" <=> where[m] = "broker"
      BY <1>2, <1>3, <1>4, <2>1
    <3> QED BY <1>1, <3>1 DEF QueueOrder
  <2>2. CASE h[1] /\ end = "broker"
    <3>1. returns \in Seq(Messages) /\ returns' = Append(returns, Marker) /\ where[Marker] = "out"
      BY <1>2, <1>3, <2>2 DEF TypeOK
    <3>2. /\ Len(returns) \in Nat /\ Len(returns') = Len(returns) + 1
          /\ returns'[Len(returns) + 1] = Marker
          /\ \A i \in 1..Len(returns) : i \in 1..Len(returns') /\ returns'[i] = returns[i]
                                        /\ returns[i] # Marker
      BY <3>1 DEF QueueOrder
    <3>3. Marker < fresh
      <4>1. ~(Marker >= fresh) /\ fresh \in Nat
        BY <1>m, <3>1 DEF QueueOrder, TypeOK
      <4> QED BY <1>m, <4>1
    <3>4. \A i \in 1..Len(returns') : i \in 1..Len(returns) \/ i = Len(returns) + 1
      BY <3>2
    <3>5. \A m \in Messages : where'[m] = "broker" <=>
            m >= fresh' \/ \E i \in 1..Len(returns') : returns'[i] = m
      <4> SUFFICES ASSUME NEW m \in Messages
                   PROVE  where'[m] = "broker" <=>
                            m >= fresh \/ \E i \in 1..Len(returns') : returns'[i] = m
        BY <1>1
      <4>1. CASE m = Marker
        <5>1. Len(returns) + 1 \in 1..Len(returns')
          BY <3>2
        <5> QED BY <1>4, <2>2, <3>2, <4>1, <5>1
      <4>2. CASE m # Marker
        <5>1. (\E i \in 1..Len(returns) : returns[i] = m) => \E i \in 1..Len(returns') : returns'[i] = m
          BY <3>2
        <5>2. (\E i \in 1..Len(returns') : returns'[i] = m) => \E i \in 1..Len(returns) : returns[i] = m
          BY <3>2, <3>4, <4>2
        <5> QED BY <1>4, <4>2, <5>1, <5>2 DEF QueueOrder
      <4> QED BY <4>1, <4>2
    <3>6. \A i \in 1..Len(returns') : returns'[i] < fresh'
      BY <1>1, <3>2, <3>3, <3>4 DEF QueueOrder
    <3>7. \A i, j \in 1..Len(returns') : returns'[i] = returns'[j] => i = j
      BY <3>2, <3>4 DEF QueueOrder
    <3>8. \A i, j \in 1..Len(returns') :
            j < i /\ returns'[j] = Marker /\ returns'[i] < Marker => returns'[i] \in heldBack'
      BY <3>2, <3>4
    <3> QED BY <3>5, <3>6, <3>7, <3>8 DEF QueueOrder
  <2> QED BY <2>1, <2>2
<1>7. FlushShape' /\ AckedIsWritten'
  BY <1>1, <1>4, <1>m DEF FlushShape, AckedIsWritten
<1>8. EveryDeliveryHasOneOwner'
  <2>1. where'[Marker] = "out" <=> \E g \in handlers' : g[1]
    <3>1. CASE h[1]
      BY <1>1, <1>3, <1>4, <1>m, <3>1
    <3>2. CASE ~h[1]
      BY <1>1, <1>4, <1>m, <3>2 DEF EveryDeliveryHasOneOwner
    <3> QED BY <3>1, <3>2
  <2>2. \A m \in Records : where'[m] = where[m]
    BY <1>4, <1>m
  <2>3. \A f, g \in handlers' : f[1] /\ g[1] => f = g
    BY <1>1 DEF EveryDeliveryHasOneOwner
  <2> QED BY <1>1, <2>1, <2>2, <2>3 DEF EveryDeliveryHasOneOwner
<1>9. OnlyJustifiedDeadLetters'
  BY <1>1, <1>2, <1>4, <1>m DEF OnlyJustifiedDeadLetters
<1>10. DrainOrder'
  <2>1. \A m \in Coverable : m \in Messages /\ where'[m] = where[m]
    BY <1>4, <1>m DEF Coverable
  <2>2. handlers' # {} => handlers # {}
    BY <1>1
  <2> QED BY <1>1, <2>1, <2>2 DEF DrainOrder
<1>11. DrainCovers'
  <2>1. \A m \in Coverable : m \in Messages /\ where'[m] = where[m]
    BY <1>4, <1>m DEF Coverable
  <2> QED BY <1>1, <2>1 DEF DrainCovers
<1>ret. ReturningHeld'
  BY <1>1 DEF ReturningHeld
<1> QED BY <1>5, <1>6, <1>7, <1>8, <1>9, <1>10, <1>11, <1>ret

\* Everything unsettled goes back behind what was returned before.
LEMMA ReturnUnsettledKeeps ==
    ASSUME SettlementInv, ReturnUnsettled
    PROVE  /\ QueueOrder'
           /\ where' \in [Messages -> {"broker", "out", "acked", "dead"}]
           /\ returns' \in Seq(Messages) /\ heldBack' \in SUBSET Messages
           /\ disruptions' \in Nat /\ faults' = faults
           /\ \A m \in Messages : where'[m] = IF where[m] = "out" THEN "broker" ELSE where[m]
           /\ heldBack \subseteq heldBack'
           /\ UNCHANGED <<fresh, trips, missed, graph, landed>>
<1> USE RolesAssumption DEF SettlementInv
<1>1. PICK s \in Sequences(Out) : InOrder(s, Out) /\ returns' = returns \o s
  BY DEF ReturnUnsettled
<1>2. /\ where' = [m \in Messages |-> IF where[m] = "out" THEN "broker" ELSE where[m]]
      /\ heldBack' = heldBack \cup (IF \E i \in 1..Len(returns) : returns[i] = Marker THEN Out ELSE {})
      /\ UNCHANGED <<fresh, trips, missed, graph, landed>>
      /\ disruptions' = disruptions + 1 /\ faults' = faults
  BY DEF ReturnUnsettled, neo4j
<1>3. Out \in SUBSET Messages /\ \A m \in Messages : m \in Out <=> where[m] = "out"
  BY DEF Out
<1>4. s \in Seq(Messages)
  BY <1>1, <1>3, ReturnedInOrder
<1>5. /\ where' \in [Messages -> {"broker", "out", "acked", "dead"}]
      /\ heldBack' \in SUBSET Messages /\ disruptions' \in Nat
      /\ \A m \in Messages : where'[m] = IF where[m] = "out" THEN "broker" ELSE where[m]
  BY <1>2, <1>3 DEF TypeOK
<1>6. returns' \in Seq(Messages)
  BY <1>1, <1>4 DEF TypeOK
<1>7. \A m \in Messages : where'[m] = "broker" <=> where[m] = "broker" \/ m \in Out
  BY <1>3, <1>5
<1>8. heldBack \subseteq heldBack' /\ (Out \subseteq heldBack' \/ ~ \E i \in 1..Len(returns) : returns[i] = Marker)
  BY <1>2
<1>9. QueueOrder'
  BY <1>1, <1>2, <1>3, <1>7, <1>8, ReturningKeepsOrder
<1> QED BY <1>2, <1>5, <1>6, <1>8, <1>9

\* A lost connection leaves the entries and the handlers with dead callbacks.
LEMMA ConnectionLossKeeps ==
    ASSUME SettlementInv, ConnectionLoss
    PROVE  SettlementInv'
<1> USE RolesAssumption DEF SettlementInv
<1>m. Messages \subseteq Nat /\ Marker \in Messages /\ Records = Messages \ {Marker}
  BY DEF Messages, Records
<1>1. /\ pending' = Stale(pending) /\ batch' = Stale(batch)
      /\ handlers' = {<<FALSE, h[2], h[3]>> : h \in handlers} /\ returning' = {}
      /\ UNCHANGED <<flush, retry, poison>>
  BY DEF ConnectionLoss
<1>2. /\ QueueOrder'
      /\ where' \in [Messages -> {"broker", "out", "acked", "dead"}]
      /\ returns' \in Seq(Messages) /\ heldBack' \in SUBSET Messages
      /\ disruptions' \in Nat /\ faults' = faults
      /\ \A m \in Messages : where'[m] = IF where[m] = "out" THEN "broker" ELSE where[m]
      /\ heldBack \subseteq heldBack'
      /\ UNCHANGED <<fresh, trips, missed, graph, landed>>
  BY ReturnUnsettledKeeps DEF ConnectionLoss
<1>3. /\ \A e \in pending : <<e[1], FALSE>> \in pending' /\ e[1] \in Messages
      /\ \A e \in batch : <<e[1], FALSE>> \in batch' /\ e[1] \in Messages
      /\ \A f \in pending' : \E e \in pending : f = <<e[1], FALSE>> /\ f[1] = e[1] /\ f[2] = FALSE
      /\ \A f \in batch' : \E e \in batch : f = <<e[1], FALSE>> /\ f[1] = e[1] /\ f[2] = FALSE
  <2>1. \A e \in pending \cup batch : e[1] \in Messages
    BY EntryShape DEF TypeOK
  <2>2. \A m : <<m, FALSE>>[1] = m /\ <<m, FALSE>>[2] = FALSE
    OBVIOUS
  <2>3. /\ \A e \in pending : <<e[1], FALSE>> \in pending'
        /\ \A e \in batch : <<e[1], FALSE>> \in batch'
    BY <1>1 DEF Stale
  <2>4. \A f \in pending' : \E e \in pending : f = <<e[1], FALSE>>
    BY <1>1 DEF Stale
  <2>5. \A f \in batch' : \E e \in batch : f = <<e[1], FALSE>>
    BY <1>1 DEF Stale
  <2>6. ASSUME NEW f \in pending'
        PROVE  \E e \in pending : f = <<e[1], FALSE>> /\ f[1] = e[1] /\ f[2] = FALSE
    BY <2>2, <2>4
  <2>7. ASSUME NEW f \in batch'
        PROVE  \E e \in batch : f = <<e[1], FALSE>> /\ f[1] = e[1] /\ f[2] = FALSE
    BY <2>2, <2>5
  <2> QED BY <2>1, <2>3, <2>6, <2>7
<1>4. \A m \in Messages : <<m, TRUE>> \notin pending' \cup batch'
  <2> SUFFICES ASSUME NEW m \in Messages, <<m, TRUE>> \in pending' \cup batch' PROVE FALSE
    OBVIOUS
  <2>1. <<m, TRUE>>[2] = FALSE
    BY <1>3
  <2> QED BY <2>1
<1>5. \A m \in Messages : <<m, TRUE>> \in pending \cup batch \/ <<m, FALSE>> \in pending \cup batch
          => <<m, FALSE>> \in pending' \cup batch'
  <2>1. \A m : <<m, TRUE>>[1] = m /\ <<m, FALSE>>[1] = m
    OBVIOUS
  <2> QED BY <1>3, <2>1
<1>h. /\ \A g \in handlers' : g[1] = FALSE /\ \E h \in handlers : g[2] = h[2]
      /\ handlers' # {} => handlers # {}
  <2>1. \A b, c : <<FALSE, b, c>>[1] = FALSE /\ <<FALSE, b, c>>[2] = b
    OBVIOUS
  <2>2. \A g \in handlers' : \E h \in handlers : g = <<FALSE, h[2], h[3]>>
    BY <1>1
  <2>3. ASSUME NEW g \in handlers'
        PROVE  g[1] = FALSE /\ \E h \in handlers : g[2] = h[2]
    <3>1. PICK h \in handlers : g = <<FALSE, h[2], h[3]>>
      BY <2>2
    <3> QED BY <2>1, <3>1
  <2> QED BY <2>2, <2>3
<1>6. TypeOK'
  <2>0. \A m \in Messages : <<m, FALSE>> \in Entries
    BY DEF Entries
  <2>1. pending' \in SUBSET Entries /\ batch' \in SUBSET Entries
    BY <1>3, <2>0
  <2>2. handlers' \in SUBSET (BOOLEAN \X Stages \X Nat)
    <3>1. \A h \in BOOLEAN \X Stages \X Nat : <<FALSE, h[2], h[3]>> \in BOOLEAN \X Stages \X Nat
      OBVIOUS
    <3>2. \A h \in handlers : h \in BOOLEAN \X Stages \X Nat
      BY DEF TypeOK
    <3> QED BY <1>1, <3>1, <3>2
  <2> QED BY <1>1, <1>2, <2>1, <2>2 DEF TypeOK
<1>7. FlushShape'
  <2>1. \A e \in pending' \cup batch' : e[1] \in Records \ Invalid
    BY <1>3 DEF FlushShape
  <2>2. flush' = "idle" => batch' = {}
    BY <1>1, <1>3 DEF FlushShape
  <2>3. flush' \in {"written", "settling"} => Written(batch') \subseteq graph'
    <3>1. Written(batch') \subseteq Written(batch)
      <4>1. ASSUME NEW x, x \in {f[1] : f \in batch'}
            PROVE  x \in {e[1] : e \in batch}
        <5>1. PICK f \in batch' : x = f[1]
          BY <4>1
        <5>2. PICK e \in batch : f[1] = e[1]
          BY <1>3, <5>1
        <5> QED BY <5>1, <5>2
      <4> QED BY <4>1 DEF Written
    <3> QED BY <1>1, <1>2, <3>1 DEF FlushShape
  <2>4. flush' = "writing" /\ ~(poison' < MaxPoisonRetries) => \E e \in batch' : batch' = {e}
    <3> SUFFICES ASSUME flush = "writing", ~(poison < MaxPoisonRetries)
                 PROVE  \E e \in batch' : batch' = {e}
      BY <1>1
    <3>1. PICK e \in batch : batch = {e}
      BY DEF FlushShape
    <3>2. batch' = {<<e[1], FALSE>>}
      BY <1>1, <3>1 DEF Stale
    <3> QED BY <3>2
  <2> QED BY <2>1, <2>2, <2>3, <2>4 DEF FlushShape
<1>8. EveryDeliveryHasOneOwner'
  <2>1. \A m \in Messages : where'[m] # "out"
    BY <1>2
  <2>2. \A g \in handlers' : ~g[1]
    BY <1>h
  <2>3. pending' \cap batch' \cap (Messages \X {TRUE}) = {}
    <3>1. \A e \in pending' : e[2] = FALSE
      BY <1>3
    <3>2. \A e \in Messages \X {TRUE} : e[2] = TRUE
      OBVIOUS
    <3> QED BY <3>1, <3>2
  <2> QED BY <1>1, <1>4, <1>m, <2>1, <2>2, <2>3 DEF EveryDeliveryHasOneOwner
<1>9. AckedIsWritten' /\ OnlyJustifiedDeadLetters'
  BY <1>2, <1>m DEF AckedIsWritten, OnlyJustifiedDeadLetters
<1>10. DrainOrder'
  <2> SUFFICES ASSUME handlers' # {}
               PROVE  /\ Marker < fresh
                      /\ \A n \in Coverable : where'[n] = "broker" =>
                           n \in graph \cup heldBack' \/ <<n, FALSE>> \in pending' \cup batch'
    BY <1>2 DEF DrainOrder
  <2>1. ASSUME NEW n \in Coverable, where'[n] = "broker"
        PROVE  n \in graph \cup heldBack' \/ <<n, FALSE>> \in pending' \cup batch'
    <3>1. n \in Records /\ n \in Messages
      BY <1>m DEF Coverable
    <3>2. CASE where[n] = "broker"
      BY <1>2, <1>5, <1>h, <3>1, <3>2 DEF DrainOrder
    <3>3. CASE where[n] # "broker"
      <4>1. where[n] = "out"
        BY <1>2, <2>1, <3>1, <3>3
      <4>2. <<n, TRUE>> \in pending \cup batch \/ n \in returning
        BY <3>1, <4>1 DEF EveryDeliveryHasOneOwner
      <4> QED BY <1>2, <1>5, <3>1, <4>2 DEF ReturningHeld
    <3> QED BY <3>2, <3>3
  <2> QED BY <1>h, <2>1 DEF DrainOrder
<1>11. DrainCovers'
  <2>1. \A m \in Coverable : m \in Messages /\ (where[m] = "dead" => where'[m] = "dead")
    BY <1>2, <1>m DEF Coverable
  <2> QED BY <1>2, <1>h, <2>1 DEF DrainCovers
<1>ret. ReturningHeld'
  BY <1>1 DEF ReturningHeld
<1> QED BY <1>2, <1>6, <1>7, <1>8, <1>9, <1>10, <1>11, <1>ret

\* The end of the process empties the engine.
LEMMA CrashKeeps ==
    ASSUME SettlementInv, Crash
    PROVE  SettlementInv'
<1> USE RolesAssumption DEF SettlementInv
<1>m. Messages \subseteq Nat /\ Marker \in Messages /\ Records = Messages \ {Marker}
  BY DEF Messages, Records
<1>1. /\ pending' = {} /\ batch' = {} /\ flush' = "idle" /\ retry' = "no" /\ poison' = 0
      /\ handlers' = {} /\ returning' = {}
  BY DEF Crash
<1>2. /\ QueueOrder'
      /\ where' \in [Messages -> {"broker", "out", "acked", "dead"}]
      /\ returns' \in Seq(Messages) /\ heldBack' \in SUBSET Messages
      /\ disruptions' \in Nat /\ faults' = faults
      /\ \A m \in Messages : where'[m] = IF where[m] = "out" THEN "broker" ELSE where[m]
      /\ heldBack \subseteq heldBack'
      /\ UNCHANGED <<fresh, trips, missed, graph, landed>>
  BY ReturnUnsettledKeeps DEF Crash
<1>3. TypeOK'
  BY <1>1, <1>2 DEF TypeOK, Flushes
<1>4. FlushShape'
  BY <1>1 DEF FlushShape
<1>5. EveryDeliveryHasOneOwner'
  BY <1>1, <1>2, <1>m DEF EveryDeliveryHasOneOwner
<1>6. AckedIsWritten' /\ OnlyJustifiedDeadLetters'
  BY <1>2, <1>m DEF AckedIsWritten, OnlyJustifiedDeadLetters
<1>7. DrainOrder'
  BY <1>1 DEF DrainOrder
<1>8. DrainCovers'
  <2>1. \A m \in Coverable : m \in Messages /\ (where[m] = "dead" => where'[m] = "dead")
    BY <1>2, <1>m DEF Coverable
  <2> QED BY <1>1, <1>2, <2>1 DEF DrainCovers
<1>ret. ReturningHeld'
  BY <1>1 DEF ReturningHeld
<1> QED BY <1>2, <1>3, <1>4, <1>5, <1>6, <1>7, <1>8, <1>ret

-----------------------------------------------------------------------------
(* Theorems.                                                               *)

\* The queue starts full and the process empty.
LEMMA InitSettlement ==
    ASSUME Init
    PROVE  SettlementInv
<1> USE RolesAssumption DEF Init
<1>m. Messages \subseteq Nat \ {0} /\ Marker \in Messages /\ Records = Messages \ {Marker}
  BY DEF Messages, Records
<1>1. TypeOK
  <2>1. Last \in Nat
    BY SizesAssumption
  <2>2. 1 \in 1..(Last + 1)
    BY <2>1, SizesAssumption
  <2>3. returns \in Seq(Messages) /\ fresh \in 1..(Last + 1)
    BY <2>2
  <2>4. where \in [Messages -> {"broker", "out", "acked", "dead"}]
    OBVIOUS
  <2>5. trips \in [Messages -> Nat]
    OBVIOUS
  <2> QED BY <2>3, <2>4, <2>5 DEF TypeOK, Flushes
<1>2. Len(returns) = 0
  OBVIOUS
<1>3. QueueOrder
  BY <1>2, <1>m DEF QueueOrder
<1>4. FlushShape /\ DrainOrder /\ DrainCovers /\ AckedIsWritten
  BY <1>m DEF FlushShape, DrainOrder, DrainCovers, AckedIsWritten
<1>5. EveryDeliveryHasOneOwner /\ OnlyJustifiedDeadLetters /\ ReturningHeld
  BY <1>m DEF EveryDeliveryHasOneOwner, OnlyJustifiedDeadLetters, ReturningHeld
<1> QED BY <1>1, <1>3, <1>4, <1>5 DEF SettlementInv

\* Every step keeps the invariant.
LEMMA StepSettlement ==
    ASSUME SettlementInv, [Next]_vars
    PROVE  SettlementInv'
<1>1. CASE Deliver
  BY <1>1, DeliverKeeps DEF Deliver
<1>2. CASE FlushStep
  BY <1>2, FlushStartKeeps, WriteCommitsKeeps, WriteKeeps, DeterministicFailureKeeps, SettleKeeps DEF FlushStep
<1>3. CASE BackoffEnds \/ TransientFailure \/ HoldReturn
  BY <1>3, BackoffEndsKeeps, TransientFailureKeeps, HoldReturnKeeps
<1>4. CASE MarkerStep \/ \E h \in handlers : SignalFails(h)
  BY <1>4, MarkerStepKeeps, MarkerEndKeeps DEF MarkerStep
<1>5. CASE ConnectionLoss \/ Crash
  BY <1>5, ConnectionLossKeeps, CrashKeeps
<1>7. CASE \E m \in Messages : add_messageRaises(m) \/ requeue_record(m)
  BY <1>7, RaiseKeeps, RequeueKeeps
<1>6. CASE UNCHANGED vars
  <2>1. UNCHANGED <<where, returns, fresh, trips, pending, batch, flush, retry, poison, handlers, returning,
                    graph, landed, heldBack, missed, faults, disruptions>>
    BY <1>6 DEF vars, broker, engine, handling, neo4j, observed, bounds
  <2>2. TypeOK'
    BY <2>1 DEF SettlementInv, TypeOK
  <2>3. QueueOrder'
    BY <2>1 DEF SettlementInv, QueueOrder
  <2>4. FlushShape'
    BY <2>1 DEF SettlementInv, FlushShape
  <2>5. EveryDeliveryHasOneOwner'
    BY <2>1 DEF SettlementInv, EveryDeliveryHasOneOwner
  <2>6. AckedIsWritten'
    BY <2>1 DEF SettlementInv, AckedIsWritten
  <2>7. OnlyJustifiedDeadLetters'
    BY <2>1 DEF SettlementInv, OnlyJustifiedDeadLetters
  <2>8. DrainOrder'
    BY <2>1 DEF SettlementInv, DrainOrder
  <2>9. DrainCovers'
    BY <2>1 DEF SettlementInv, DrainCovers
  <2>10. ReturningHeld'
    BY <2>1 DEF SettlementInv, ReturningHeld
  <2> QED BY <2>2, <2>3, <2>4, <2>5, <2>6, <2>7, <2>8, <2>9, <2>10 DEF SettlementInv
<1> QED BY <1>1, <1>2, <1>3, <1>4, <1>5, <1>6, <1>7 DEF Next

\* The inductive invariant holds in every reachable state.
THEOREM SettlementInvariant == Spec => []SettlementInv
  BY InitSettlement, StepSettlement, PTL DEF Spec

\* Types.
THEOREM SettlementTypeCorrect == Spec => []TypeOK
<1>1. SettlementInv => TypeOK
  BY DEF SettlementInv
<1> QED BY <1>1, SettlementInvariant, PTL

\* Whatever fails and however often a delivery comes back, a record is
\* acknowledged only once the graph holds it (Neo4jBatchProcessor.write).
THEOREM AcknowledgedRecordsAreWritten == Spec => []AckedIsWritten
<1>1. SettlementInv => AckedIsWritten
  BY DEF SettlementInv
<1> QED BY <1>1, SettlementInvariant, PTL

\* No batch and no outage dead-letters a healthy record within its budget.
THEOREM DeadLettersAreJustified == Spec => []OnlyJustifiedDeadLetters
<1>1. SettlementInv => OnlyJustifiedDeadLetters
  BY DEF SettlementInv
<1> QED BY <1>1, SettlementInvariant, PTL

\* No delivery is left without an owner and none has two.
THEOREM DeliveriesAreOwned == Spec => []EveryDeliveryHasOneOwner
<1>1. SettlementInv => EveryDeliveryHasOneOwner
  BY DEF SettlementInv
<1> QED BY <1>1, SettlementInvariant, PTL

\* A recorded signal covers the writable records published before its marker,
\* up to those the hold or a disruption moved behind it.
THEOREM SignalsCoverTheirRecords == Spec => []SignalCoversItsRecords
<1>1. SettlementInv => SignalCoversItsRecords
  BY DEF SettlementInv, DrainCovers, SignalCoversItsRecords, Coverable
<1> QED BY <1>1, SettlementInvariant, PTL
=============================================================================
