---------------------------- MODULE SweepProofs ----------------------------
(***************************************************************************)
(* Theorems about CheckpointedSweep, for any number of keys, run keys and  *)
(* sweeps and any page sizes.                                              *)
(***************************************************************************)
EXTENDS CheckpointedSweep, TLAPS

\* A page after a cursor that is not at the end is not empty and stays within the keys.
LEMMA PageWithinKeys ==
  ASSUME TypeOK
  PROVE  /\ PageEnd \in Nat /\ PageEnd <= NumKeys /\ PageEnd >= cursor
         /\ cursor < NumKeys => cursor < PageEnd
         /\ PageEnd <= cursor + size
  BY SweepAssumption DEF TypeOK, PageEnd, Cursors, START_CURSOR, Sizes

\* Halving stays between the floor and the size that failed.
LEMMA HalvedWithinSizes ==
  ASSUME NEW n \in Sizes
  PROVE  Halved(n) \in Sizes /\ Halved(n) <= n
  BY SweepAssumption DEF Halved, Sizes

\* A call that left holds well typed values.
LEMMA LeaveType ==
  Leave => /\ pc' = "idle" /\ run_key' \in RunKeys \cup {NoRun} /\ cursor' \in Cursors /\ size' \in Sizes
           /\ failures_at_min' \in 0..MAX_FAILURES_AT_MIN_PAGE - 1 /\ at' \in 1..NumKeys + 1
  BY SweepAssumption DEF Leave, Cursors, START_CURSOR, Sizes

\* Initially the node does not exist and no call runs.
LEMMA InitTypeOK == Init => TypeOK
  <1> SUFFICES ASSUME Init PROVE TypeOK OBVIOUS
  <1>1. checkpoint \in Checkpoints
    BY SweepAssumption DEF Init, Checkpoints, Cursors, START_CURSOR
  <1>2. /\ cursor \in Cursors /\ size \in Sizes /\ at \in 1..NumKeys + 1 /\ sweeps \in 0..MaxSweeps
        /\ failures_at_min \in 0..MAX_FAILURES_AT_MIN_PAGE - 1
    BY SweepAssumption DEF Init, Cursors, START_CURSOR, Sizes
  <1>3. stale \in [RunKeys -> SUBSET Keys] BY DEF Init
  <1> QED BY <1>1, <1>2, <1>3 DEF Init, TypeOK

\* What a call begins with, read from the checkpoint, is well typed.
LEMMA ReadType ==
  ASSUME TypeOK, NEW r \in RunKeys
  PROVE  /\ read_checkpoint(r) \in Checkpoints /\ read_checkpoint(r).run_key = r
         /\ read_checkpoint(r).cursor \in Cursors /\ read_checkpoint(r).size \in Sizes \cup {NoSize}
  <1>1. START_CURSOR \in Cursors BY SweepAssumption DEF Cursors, START_CURSOR
  <1> QED BY <1>1 DEF TypeOK, read_checkpoint, Checkpoints

\* TypeOK is kept by every step.
LEMMA StepTypeOK == TypeOK /\ [Next]_vars => TypeOK'
  <1> SUFFICES ASSUME TypeOK, [Next]_vars PROVE TypeOK' OBVIOUS
  <1>1. ASSUME NEW r \in RunKeys, Begin(r) PROVE TypeOK'
    <2> DEFINE c == read_checkpoint(r)
    <2>1. c.cursor \in Cursors /\ c.size \in Sizes \cup {NoSize} BY ReadType
    <2>2. PAGE_SIZE \in Sizes BY SweepAssumption DEF Sizes
    <2>3. sweeps' \in 0..MaxSweeps BY <1>1, SweepAssumption DEF Begin, TypeOK
    <2> HIDE DEF c
    <2>4. CASE c.done BY <1>1, <2>3, <2>4 DEF Begin, c, TypeOK
    <2>5. CASE ~c.done
      <3>1. /\ pc' = "list" /\ run_key' = r /\ cursor' = c.cursor
            /\ size' = (IF c.size = NoSize THEN PAGE_SIZE ELSE c.size)
            /\ stale' = [stale EXCEPT ![r] = IF c.cursor = START_CURSOR THEN Keys ELSE @]
            /\ UNCHANGED <<checkpoint, failures_at_min, at>>
        BY <1>1, <2>5 DEF Begin, c
      <3>2. size' \in Sizes BY <2>1, <2>2, <3>1
      <3>3. stale' \in [RunKeys -> SUBSET Keys] BY <3>1 DEF TypeOK
      <3> QED BY <2>1, <2>3, <3>1, <3>2, <3>3 DEF TypeOK
    <2> QED BY <2>4, <2>5
  <1>2. CASE ListPage
    <2>1. at' \in 1..NumKeys + 1
      BY <1>2, SweepAssumption DEF ListPage, TypeOK, Cursors, START_CURSOR
    <2> QED BY <1>2, <2>1 DEF ListPage, TypeOK
  <1>3. ASSUME NEW k \in Keys, ProcessUpTo(k) PROVE TypeOK'
    <2>1. cursor' \in Cursors
      BY <1>3, PageWithinKeys, SweepAssumption DEF ProcessUpTo, TypeOK, Cursors, START_CURSOR
    <2>2. at' \in 1..NumKeys + 1 BY <1>3, SweepAssumption DEF ProcessUpTo, TypeOK, Keys
    <2>3. stale' \in [RunKeys -> SUBSET Keys] BY <1>3 DEF ProcessUpTo, TypeOK
    <2>4. failures_at_min' \in 0..MAX_FAILURES_AT_MIN_PAGE - 1
      BY <1>3, SweepAssumption DEF ProcessUpTo, TypeOK
    <2> QED BY <1>3, <2>1, <2>2, <2>3, <2>4 DEF ProcessUpTo, TypeOK
  <1>4. CASE PageTooLarge
    <2>1. size' \in Sizes BY <1>4, HalvedWithinSizes DEF PageTooLarge, TypeOK
    <2> QED BY <1>4, <2>1 DEF PageTooLarge, TypeOK
  <1>5. CASE FailedAtMinimum
    <2>1. CASE failures_at_min + 1 >= MAX_FAILURES_AT_MIN_PAGE
      BY <1>5, <2>1, LeaveType DEF FailedAtMinimum, TypeOK
    <2>2. CASE ~(failures_at_min + 1 >= MAX_FAILURES_AT_MIN_PAGE)
      <3>1. failures_at_min' \in 0..MAX_FAILURES_AT_MIN_PAGE - 1
        BY <1>5, <2>2, SweepAssumption DEF FailedAtMinimum, TypeOK
      <3> QED BY <1>5, <2>2, <3>1 DEF FailedAtMinimum, TypeOK
    <2> QED BY <2>1, <2>2
  <1>6. CASE CommitPage
    <2>1. checkpoint' \in Checkpoints BY <1>6 DEF CommitPage, TypeOK, Checkpoints
    <2> QED BY <1>6, <2>1 DEF CommitPage, TypeOK
  <1>7. CASE Finish
    <2>1. checkpoint' \in Checkpoints BY <1>7 DEF Finish, TypeOK, Checkpoints
    <2> QED BY <1>7, <2>1, LeaveType DEF Finish, TypeOK
  <1>8. CASE Interrupted BY <1>8, LeaveType DEF Interrupted, TypeOK
  <1>9. CASE UNCHANGED vars BY <1>9 DEF vars, TypeOK
  <1> QED BY <1>1, <1>2, <1>3, <1>4, <1>5, <1>6, <1>7, <1>8, <1>9 DEF Next, run_checkpointed_step

\* Page sizes stay between MIN_PAGE_SIZE and PAGE_SIZE, cursors within the keys, and the
\* failures at the floor below their limit, however many statements fail.
THEOREM TypeCorrect == Spec => []TypeOK
  BY InitTypeOK, StepTypeOK, PTL DEF Spec

-----------------------------------------------------------------------------
(* The inductive invariant.                                                *)

\* SweepInv, of which each step disturbs a conjunct or two.
LEMMA InitInv == Init => SweepInv
  BY DEF Init, SweepInv, Running, BehindIsVisited, RunKeys, NoRun

\* SweepInv is kept by every step.
LEMMA StepInv == TypeOK /\ SweepInv /\ [Next]_vars => SweepInv'
  <1> SUFFICES ASSUME TypeOK, SweepInv, [Next]_vars PROVE SweepInv' OBVIOUS
  <1>0. /\ cursor \in Nat /\ at \in Nat /\ size \in Nat /\ NumKeys \in Nat
        /\ checkpoint.cursor \in Nat /\ checkpoint.size \in Nat
        /\ \A r \in RunKeys : stale[r] \subseteq Keys
    BY SweepAssumption DEF TypeOK, Checkpoints, Cursors, START_CURSOR, Sizes, NoSize
  <1>a. ASSUME Leave, UNCHANGED <<checkpoint, stale>> PROVE SweepInv'
    BY <1>a DEF Leave, SweepInv, Running, BehindIsVisited
  <1>1. ASSUME NEW r \in RunKeys, Begin(r) PROVE SweepInv'
    <2> DEFINE c == read_checkpoint(r)
    <2>1. CASE c.done
      BY <1>1, <2>1 DEF Begin, SweepInv, Running, BehindIsVisited, PageEnd
    <2>2. CASE ~c.done
      <3>1. /\ pc' = "list" /\ run_key' = r /\ cursor' = c.cursor
            /\ size' = (IF c.size = NoSize THEN PAGE_SIZE ELSE c.size)
            /\ stale' = [stale EXCEPT ![r] = IF c.cursor = START_CURSOR THEN Keys ELSE @]
            /\ UNCHANGED <<checkpoint, failures_at_min, at>>
        BY <1>1, <2>2 DEF Begin
      <3>2. \A s \in RunKeys : stale'[s] = IF s = r /\ c.cursor = START_CURSOR THEN Keys ELSE stale[s]
        BY <3>1 DEF TypeOK
      <3>3. c.cursor # START_CURSOR => checkpoint.run_key = r /\ c = checkpoint
        BY DEF read_checkpoint
      <3>4. checkpoint.run_key = r => c = checkpoint BY DEF read_checkpoint
      <3> HIDE DEF c
      <3>5. \A k \in stale'[r] : k > c.cursor
        <4>1. CASE c.cursor = START_CURSOR
          <5>1. \A k \in Keys : k > START_CURSOR BY SweepAssumption DEF Keys, START_CURSOR
          <5> QED BY <3>2, <4>1, <5>1
        <4>2. CASE c.cursor # START_CURSOR
          BY <3>2, <3>3, <4>2 DEF SweepInv, BehindIsVisited
        <4> QED BY <4>1, <4>2
      <3>6. BehindIsVisited(checkpoint.run_key, checkpoint.cursor)'
        BY <3>1, <3>2, <3>3, <3>4, <1>0 DEF SweepInv, BehindIsVisited, Keys, START_CURSOR
      <3>7. BehindIsVisited(run_key, cursor)' BY <3>1, <3>5 DEF BehindIsVisited
      <3>8. checkpoint.run_key = r => ~checkpoint.done /\ cursor' = checkpoint.cursor
        BY <2>2, <3>1, <3>4
      <3>9. checkpoint.run_key = r /\ checkpoint.size # NoSize => size' = checkpoint.size
        BY <3>1, <3>4
      <3> QED BY <1>0, <3>1, <3>6, <3>7, <3>8, <3>9 DEF SweepInv, Running
    <2> QED BY <2>1, <2>2
  <1>2. CASE ListPage
    <2>1. PageEnd' = PageEnd BY <1>2 DEF ListPage, PageEnd
    <2>2. /\ run_key \in RunKeys /\ BehindIsVisited(run_key, cursor)
      BY <1>2 DEF ListPage, SweepInv, Running
    <2>3. CASE cursor = NumKeys
      BY <1>2, <2>2, <2>3 DEF ListPage, SweepInv, Running, BehindIsVisited
    <2>4. CASE cursor # NumKeys
      <3>1. cursor < PageEnd
        BY <2>4, PageWithinKeys, SweepAssumption DEF TypeOK, Cursors, START_CURSOR
      <3>2. at' = cursor + 1 /\ at' <= PageEnd
        BY <1>0, <1>2, <2>4, <3>1, PageWithinKeys DEF ListPage
      <3>3. at' - 1 = cursor BY <1>0, <3>2
      <3> QED BY <1>0, <1>2, <2>1, <2>2, <2>4, <3>2, <3>3 DEF ListPage, SweepInv, Running, BehindIsVisited
    <2> QED BY <2>3, <2>4
  <1>3. ASSUME NEW k \in Keys, ProcessUpTo(k) PROVE SweepInv'
    <2>1. /\ run_key \in RunKeys /\ cursor < at /\ at <= PageEnd /\ BehindIsVisited(run_key, at - 1)
          /\ BehindIsVisited(run_key, cursor) /\ pc = "statements" /\ at <= k /\ k <= PageEnd
      BY <1>0, <1>3, PageWithinKeys DEF ProcessUpTo, SweepInv, Running
    <2>2. \A s \in RunKeys : stale'[s] = IF s = run_key THEN stale[s] \ (at..k) ELSE stale[s]
      BY <1>3 DEF ProcessUpTo, TypeOK
    <2>3. \A s \in RunKeys : stale'[s] \subseteq stale[s] BY <2>2
    <2>4. BehindIsVisited(run_key, k)'
      <3>1. run_key' = run_key /\ k \in Nat BY <1>3 DEF ProcessUpTo, Keys
      <3>2. \A j \in stale'[run_key] : j \in stale[run_key] /\ j \in Nat /\ j > at - 1 /\ j \notin at..k
        <4>1. stale'[run_key] = stale[run_key] \ (at..k) /\ run_key \in RunKeys BY <2>1, <2>2
        <4>2. \A j \in stale[run_key] : j \in Nat BY <1>0, <4>1 DEF Keys
        <4>3. \A j \in stale[run_key] : j > at - 1 BY <2>1 DEF BehindIsVisited
        <4> QED BY <4>1, <4>2, <4>3
      <3>3. \A j \in stale'[run_key] : j > k BY <1>0, <3>1, <3>2
      <3> QED BY <3>1, <3>3 DEF BehindIsVisited
    <2>5. BehindIsVisited(checkpoint.run_key, checkpoint.cursor)'
      BY <1>3, <2>3 DEF ProcessUpTo, SweepInv, BehindIsVisited
    <2>6. CASE k = PageEnd
      <3>1. pc' = "commit" /\ cursor' = k /\ run_key' = run_key /\ UNCHANGED <<checkpoint, size>>
        BY <1>3, <2>6 DEF ProcessUpTo
      <3>2. k \in Nat /\ cursor <= k BY <2>1, <1>0, PageWithinKeys DEF Keys
      <3>3. checkpoint.run_key = run_key =>
               /\ checkpoint.cursor <= cursor /\ ~checkpoint.done
               /\ checkpoint.size # NoSize => size <= checkpoint.size
        BY <2>1 DEF SweepInv, Running
      <3> QED BY <1>0, <2>1, <2>4, <2>5, <3>1, <3>2, <3>3 DEF SweepInv, Running
    <2>7. CASE k # PageEnd
      <3>1. at' = k + 1 /\ UNCHANGED <<pc, cursor, run_key, checkpoint, size>>
        BY <1>3, <2>7 DEF ProcessUpTo
      <3>2. PageEnd' = PageEnd BY <3>1 DEF PageEnd
      <3>3. /\ at' - 1 = k /\ cursor < at' /\ at' <= PageEnd
        BY <1>0, <2>1, <2>7, <3>1, PageWithinKeys DEF Keys
      <3>4. BehindIsVisited(run_key, cursor)' BY <2>1, <2>3, <3>1 DEF BehindIsVisited
      <3>5. BehindIsVisited(run_key, at - 1)' BY <2>4, <3>3, <3>1 DEF BehindIsVisited
      <3>6. checkpoint.run_key = run_key =>
               /\ checkpoint.cursor <= cursor /\ ~checkpoint.done
               /\ checkpoint.size # NoSize => size <= checkpoint.size
        BY <2>1 DEF SweepInv, Running
      <3> QED BY <2>1, <2>5, <3>1, <3>2, <3>3, <3>4, <3>5, <3>6 DEF SweepInv, Running
    <2> QED BY <2>6, <2>7
  <1>4. CASE PageTooLarge
    <2>1. size' \in Nat /\ size' <= size
      BY <1>4, HalvedWithinSizes, SweepAssumption DEF PageTooLarge, TypeOK, Sizes
    <2>2. /\ pc' = "list" /\ Running /\ UNCHANGED <<checkpoint, run_key, cursor, stale>>
      BY <1>4 DEF PageTooLarge, Running
    <2> QED BY <1>0, <2>1, <2>2 DEF SweepInv, Running, BehindIsVisited
  <1>5. CASE FailedAtMinimum
    <2>1. CASE Leave BY <1>5, <1>a, <2>1 DEF FailedAtMinimum
    <2>2. CASE ~Leave
      BY <1>5, <2>2 DEF FailedAtMinimum, SweepInv, Running, BehindIsVisited
    <2> QED BY <2>1, <2>2
  <1>6. CASE CommitPage
    <2>1. /\ checkpoint' = [run_key |-> run_key, cursor |-> cursor, size |-> size, done |-> FALSE]
          /\ pc' = "list" /\ Running /\ UNCHANGED <<run_key, cursor, size, stale>>
      BY <1>6 DEF CommitPage, Running
    <2> QED BY <1>0, <2>1 DEF SweepInv, Running, BehindIsVisited
  <1>7. CASE Finish
    <2>1. /\ checkpoint' = [run_key |-> run_key, cursor |-> cursor, size |-> size, done |-> TRUE]
          /\ pc' = "idle" /\ Running /\ UNCHANGED stale
      BY <1>7 DEF Finish, Leave, Running
    <2> QED BY <2>1 DEF SweepInv, Running, BehindIsVisited
  <1>8. CASE Interrupted BY <1>8, <1>a DEF Interrupted
  <1>9. CASE UNCHANGED vars BY <1>9 DEF vars, SweepInv, Running, BehindIsVisited, PageEnd
  <1> QED BY <1>1, <1>2, <1>3, <1>4, <1>5, <1>6, <1>7, <1>8, <1>9 DEF Next, run_checkpointed_step

\* Everything behind a cursor, in the node or in memory, has been visited under its run.
THEOREM SweepInvariant == Spec => []Inv
  BY InitInv, StepInv, TypeCorrect, PTL DEF Spec, Inv

-----------------------------------------------------------------------------
(* The action properties.                                                  *)

\* Only CommitPage and Finish write the node, with what the call holds in memory.
LEMMA CheckpointWriters ==
  ASSUME [Next]_vars, checkpoint' # checkpoint
  PROVE  /\ pc \in {"commit", "finish"} /\ UNCHANGED stale
         /\ checkpoint'.run_key = run_key /\ checkpoint'.cursor = cursor /\ checkpoint'.size = size
         /\ checkpoint'.done => pc = "finish"
  BY DEF Next, run_checkpointed_step, Begin, ListPage, ProcessUpTo, PageTooLarge, FailedAtMinimum,
         CommitPage, Finish, Interrupted, vars

\* A sweep that marks its step done has visited every key under its run.
THEOREM DoneIsComplete == Spec => DoneMeansEveryKey
  <1>1. TypeOK /\ SweepInv /\ [Next]_vars
          => [checkpoint'.done /\ checkpoint' # checkpoint => stale[checkpoint'.run_key] = {}]_vars
    <2> SUFFICES ASSUME TypeOK, SweepInv, [Next]_vars, checkpoint'.done, checkpoint' # checkpoint
                 PROVE  stale[checkpoint'.run_key] = {}
      OBVIOUS
    <2>1. pc = "finish" /\ checkpoint'.run_key = run_key BY CheckpointWriters
    <2>2. run_key \in RunKeys /\ cursor = NumKeys /\ BehindIsVisited(run_key, cursor)
      BY <2>1 DEF SweepInv, Running
    <2>3. \A k \in stale[run_key] : k \in Nat /\ k <= NumKeys /\ k > NumKeys
      BY <2>2, SweepAssumption DEF TypeOK, BehindIsVisited, Keys
    <2>4. stale[run_key] = {} BY <2>3, SweepAssumption
    <2> QED BY <2>1, <2>4
  <1> QED BY <1>1, TypeCorrect, SweepInvariant, PTL DEF Spec, Inv, DoneMeansEveryKey

\* The pages of a run that are committed are not repeated, by a retry or a restart.
THEOREM CommittedPagesStay == Spec => NeverRedoesCommitted
  <1>1. TypeOK /\ SweepInv /\ [Next]_vars
          => [\A k \in Keys : ProcessUpTo(k) => ~(checkpoint.run_key = run_key /\ at <= checkpoint.cursor)]_vars
    <2> SUFFICES ASSUME TypeOK, SweepInv, NEW k \in Keys, ProcessUpTo(k),
                        checkpoint.run_key = run_key, at <= checkpoint.cursor
                 PROVE  FALSE
      OBVIOUS
    <2>1. cursor < at /\ checkpoint.cursor <= cursor BY DEF ProcessUpTo, SweepInv, Running
    <2>2. cursor \in Nat /\ at \in Nat /\ checkpoint.cursor \in Nat
      BY SweepAssumption DEF TypeOK, Checkpoints, Cursors, START_CURSOR
    <2> QED BY <2>1, <2>2
  <1> QED BY <1>1, TypeCorrect, SweepInvariant, PTL DEF Spec, Inv, NeverRedoesCommitted

\* A run's committed page size never grows back and its cursor never moves back.
THEOREM CheckpointMonotone == Spec => RememberedSizeHolds
  <1>1. TypeOK /\ SweepInv /\ [Next]_vars
          => [checkpoint'.run_key = checkpoint.run_key =>
                /\ checkpoint.size # NoSize => checkpoint'.size <= checkpoint.size
                /\ checkpoint'.cursor >= checkpoint.cursor]_vars
    <2> SUFFICES ASSUME TypeOK, SweepInv, [Next]_vars, checkpoint'.run_key = checkpoint.run_key
                 PROVE  /\ checkpoint.size # NoSize => checkpoint'.size <= checkpoint.size
                        /\ checkpoint'.cursor >= checkpoint.cursor
      OBVIOUS
    <2>1. checkpoint.cursor \in Nat /\ checkpoint.size \in Nat /\ cursor \in Nat
      BY SweepAssumption DEF TypeOK, Checkpoints, Cursors, START_CURSOR, Sizes, NoSize
    <2>2. CASE checkpoint' = checkpoint BY <2>1, <2>2
    <2>3. CASE checkpoint' # checkpoint
      <3>1. checkpoint'.run_key = run_key /\ checkpoint'.size = size /\ checkpoint'.cursor = cursor /\ Running
        BY <2>3, CheckpointWriters DEF Running
      <3> QED BY <2>1, <3>1 DEF SweepInv
    <2> QED BY <2>2, <2>3
  <1> QED BY <1>1, TypeCorrect, SweepInvariant, PTL DEF Spec, Inv, RememberedSizeHolds
=============================================================================
