------------------------- MODULE CheckpointedSweep -------------------------
(***************************************************************************)
(* maintenance_paging.py: one checkpointed step, such as label_stats, over *)
(* the key space of one node label.  A sweep visits the keys in order, one *)
(* page after another; after every page its cursor is committed to the     *)
(* MaintenanceCheckpoint node, so a later sweep of the same run continues  *)
(* there.  A page that is too much is halved down to MIN_PAGE_SIZE.        *)
(*                                                                         *)
(* Statements may fail any number of times; a crash, a MaintenanceStopped  *)
(* or an error that is not retryable may end the sweep between any two     *)
(* statements.  The keys are numbered in their order and do not change     *)
(* while the sweeps run.                                                   *)
(***************************************************************************)
EXTENDS Naturals

CONSTANTS
    NumKeys,                    \* nodes of the label
    NumRuns,                    \* run keys: dumps, or releases of the stats code
    PAGE_SIZE,                  \* the sweep's own page size
    MIN_PAGE_SIZE,
    MAX_FAILURES_AT_MIN_PAGE,
    MaxSweeps                   \* bound: calls of run_checkpointed_step

ASSUME SweepAssumption ==
    /\ NumKeys \in Nat /\ NumRuns \in Nat /\ MaxSweeps \in Nat
    /\ MIN_PAGE_SIZE \in Nat \ {0}
    /\ PAGE_SIZE \in Nat /\ MIN_PAGE_SIZE <= PAGE_SIZE
    /\ MAX_FAILURES_AT_MIN_PAGE \in Nat \ {0}

Keys == 1..NumKeys
START_CURSOR == 0
Cursors == START_CURSOR..NumKeys
RunKeys == 1..NumRuns
NoRun == 0
NoSize == 0             \* c.size of a checkpoint never written
Sizes == MIN_PAGE_SIZE..PAGE_SIZE

VARIABLES
    checkpoint,         \* the MaintenanceCheckpoint node of this step
    pc,                 \* where run_checkpointed_step awaits
    run_key, cursor, size, failures_at_min,
    at,                 \* the key of the page whose statements run next
    stale,              \* per run: keys not visited since it last began at START_CURSOR
    sweeps              \* calls so far

vars == <<checkpoint, pc, run_key, cursor, size, failures_at_min, at, stale, sweeps>>

Checkpoints ==
    [run_key : RunKeys \cup {NoRun}, cursor : Cursors, size : Sizes \cup {NoSize}, done : BOOLEAN]

TypeOK ==
    /\ checkpoint \in Checkpoints
    /\ pc \in {"idle", "list", "statements", "commit", "finish"}
    /\ run_key \in RunKeys \cup {NoRun}
    /\ cursor \in Cursors
    /\ size \in Sizes
    /\ failures_at_min \in 0..MAX_FAILURES_AT_MIN_PAGE - 1
    /\ at \in 1..NumKeys + 1
    /\ stale \in [RunKeys -> SUBSET Keys]
    /\ sweeps \in 0..MaxSweeps

Running == pc # "idle"

\* The last key of the page after the cursor.
PageEnd == IF cursor + size < NumKeys THEN cursor + size ELSE NumKeys

\* max(min_page_size, size // 2)
Halved(n) == IF n \div 2 < MIN_PAGE_SIZE THEN MIN_PAGE_SIZE ELSE n \div 2

\* The call returns or raises: what it held in memory is gone.
Leave ==
    /\ pc' = "idle" /\ run_key' = NoRun /\ cursor' = START_CURSOR /\ size' = PAGE_SIZE
    /\ failures_at_min' = 0 /\ at' = 1

-----------------------------------------------------------------------------
Init ==
    /\ checkpoint = [run_key |-> NoRun, cursor |-> START_CURSOR, size |-> NoSize, done |-> FALSE]
    /\ pc = "idle" /\ run_key = NoRun /\ cursor = START_CURSOR /\ size = PAGE_SIZE
    /\ failures_at_min = 0 /\ at = 1
    /\ stale = [r \in RunKeys |-> Keys]
    /\ sweeps = 0

\* Faulty variant of read_checkpoint: the run_key is not compared.
read_any_checkpoint(r) ==
    IF checkpoint.run_key = NoRun
    THEN [run_key |-> r, cursor |-> START_CURSOR, size |-> NoSize, done |-> FALSE]
    ELSE checkpoint

\* A different run_key reads as fresh.
read_checkpoint(r) ==
    IF checkpoint.run_key # r
    THEN [run_key |-> r, cursor |-> START_CURSOR, size |-> NoSize, done |-> FALSE]
    ELSE checkpoint

\* Faulty variant of Begin: always from the start.
BeginFromStart(r) ==
    /\ ~Running
    /\ sweeps < MaxSweeps /\ sweeps' = sweeps + 1
    /\ LET c == read_checkpoint(r) IN
       IF c.done THEN UNCHANGED <<pc, run_key, cursor, size, stale>>
       ELSE /\ pc' = "list" /\ run_key' = r
            /\ cursor' = START_CURSOR
            /\ size' = IF c.size = NoSize THEN PAGE_SIZE ELSE c.size
            /\ stale' = [stale EXCEPT ![r] = IF c.cursor = START_CURSOR THEN Keys ELSE @]
    /\ UNCHANGED <<checkpoint, failures_at_min, at>>

\* Faulty variant of Begin: always at the full page size.
BeginAtFullSize(r) ==
    /\ ~Running
    /\ sweeps < MaxSweeps /\ sweeps' = sweeps + 1
    /\ LET c == read_checkpoint(r) IN
       IF c.done THEN UNCHANGED <<pc, run_key, cursor, size, stale>>
       ELSE /\ pc' = "list" /\ run_key' = r
            /\ cursor' = c.cursor
            /\ size' = PAGE_SIZE
            /\ stale' = [stale EXCEPT ![r] = IF c.cursor = START_CURSOR THEN Keys ELSE @]
    /\ UNCHANGED <<checkpoint, failures_at_min, at>>

\* A call with run key r: skipped when r is done, else it begins at r's cursor and size.
Begin(r) ==
    /\ ~Running
    /\ sweeps < MaxSweeps /\ sweeps' = sweeps + 1
    /\ LET c == read_checkpoint(r) IN
       IF c.done THEN UNCHANGED <<pc, run_key, cursor, size, stale>>
       ELSE /\ pc' = "list" /\ run_key' = r
            /\ cursor' = c.cursor
            /\ size' = IF c.size = NoSize THEN PAGE_SIZE ELSE c.size
            /\ stale' = [stale EXCEPT ![r] = IF c.cursor = START_CURSOR THEN Keys ELSE @]
    /\ UNCHANGED <<checkpoint, failures_at_min, at>>

\* The keys after the cursor are listed; with none left the step is complete.
ListPage ==
    /\ pc = "list"
    /\ IF cursor = NumKeys
       THEN pc' = "finish" /\ UNCHANGED at
       ELSE pc' = "statements" /\ at' = cursor + 1
    /\ UNCHANGED <<checkpoint, run_key, cursor, size, failures_at_min, stale, sweeps>>

\* The statements of one key have run (per_key_page_processor), or of the rest of the page
\* in one transaction (keyed_page_processor).
ProcessUpTo(k) ==
    /\ pc = "statements"
    /\ k \in {at, PageEnd}
    /\ stale' = [stale EXCEPT ![run_key] = @ \ (at..k)]
    /\ IF k = PageEnd
       THEN pc' = "commit" /\ cursor' = PageEnd /\ failures_at_min' = 0 /\ UNCHANGED at
       ELSE at' = k + 1 /\ UNCHANGED <<pc, cursor, failures_at_min>>
    /\ UNCHANGED <<checkpoint, run_key, size, sweeps>>

\* Faulty variant of PageTooLarge: the failed page counts as processed.
FailedPageSkipped ==
    /\ pc \in {"list", "statements"}
    /\ size > MIN_PAGE_SIZE
    /\ size' = Halved(size)
    /\ cursor' = IF pc = "statements" THEN PageEnd ELSE cursor
    /\ pc' = "list"
    /\ UNCHANGED <<checkpoint, run_key, failures_at_min, at, stale, sweeps>>

\* A statement of the page fails in a retryable way.  What it had done stays done.
PageTooLarge ==
    /\ pc \in {"list", "statements"}
    /\ size > MIN_PAGE_SIZE
    /\ size' = Halved(size)
    /\ pc' = "list"
    /\ UNCHANGED <<checkpoint, run_key, cursor, failures_at_min, at, stale, sweeps>>

\* Faulty variant of FailedAtMinimum: failures at the minimum are not counted.
FailuresNotCounted ==
    /\ pc \in {"list", "statements"}
    /\ size = MIN_PAGE_SIZE
    /\ IF failures_at_min + 1 >= MAX_FAILURES_AT_MIN_PAGE
       THEN Leave
       ELSE /\ UNCHANGED failures_at_min
            /\ pc' = "list"
            /\ UNCHANGED <<run_key, cursor, size, at>>
    /\ UNCHANGED <<checkpoint, stale, sweeps>>

FailedAtMinimum ==
    /\ pc \in {"list", "statements"}
    /\ size = MIN_PAGE_SIZE
    /\ IF failures_at_min + 1 >= MAX_FAILURES_AT_MIN_PAGE
       THEN Leave
       ELSE /\ failures_at_min' = failures_at_min + 1
            /\ pc' = "list"
            /\ UNCHANGED <<run_key, cursor, size, at>>
    /\ UNCHANGED <<checkpoint, stale, sweeps>>

\* write_checkpoint after a page.
CommitPage ==
    /\ pc = "commit"
    /\ checkpoint' = [run_key |-> run_key, cursor |-> cursor, size |-> size, done |-> FALSE]
    /\ pc' = "list"
    /\ UNCHANGED <<run_key, cursor, size, failures_at_min, at, stale, sweeps>>

\* write_checkpoint with done, and the call returns.
Finish ==
    /\ pc = "finish"
    /\ checkpoint' = [run_key |-> run_key, cursor |-> cursor, size |-> size, done |-> TRUE]
    /\ Leave
    /\ UNCHANGED <<stale, sweeps>>

\* A crash, a cancelled task, MaintenanceStopped, an error that is not retryable, or a
\* checkpoint write that raises; when that write was committed, CommitPage comes first.
Interrupted ==
    /\ Running
    /\ Leave
    /\ UNCHANGED <<checkpoint, stale, sweeps>>

run_checkpointed_step ==
    \/ ListPage \/ (\E k \in Keys : ProcessUpTo(k))
    \/ PageTooLarge \/ FailedAtMinimum
    \/ CommitPage \/ Finish

Next == (\E r \in RunKeys : Begin(r)) \/ run_checkpointed_step \/ Interrupted

Spec == Init /\ [][Next]_vars

\* The event loop resumes the call after every await; nothing promises that statements succeed.
FairSpec == Spec /\ WF_vars(run_checkpointed_step)

-----------------------------------------------------------------------------
(* Properties.                                                             *)

\* A step is marked done for a run only when every key was visited under that run since it
\* last began from the start, whatever failures, crashes and sweeps of other runs (which
\* share the one checkpoint node) came between.
DoneMeansEveryKey ==
    [][checkpoint'.done /\ checkpoint' # checkpoint => stale[checkpoint'.run_key] = {}]_vars

\* "never redoes completed work": no key up to a run's committed cursor is visited again
\* while the checkpoint belongs to that run.
NeverRedoesCommitted ==
    [][\A k \in Keys : ProcessUpTo(k) =>
            ~(checkpoint.run_key = run_key /\ at <= checkpoint.cursor)]_vars

\* "the size that worked is remembered": a run never commits a larger page size than the
\* one its checkpoint remembers, and its cursor never moves back.
RememberedSizeHolds ==
    [][checkpoint'.run_key = checkpoint.run_key =>
            /\ checkpoint.size # NoSize => checkpoint'.size <= checkpoint.size
            /\ checkpoint'.cursor >= checkpoint.cursor]_vars

\* A sweep always ends, returning or raising, even when every statement it runs may fail.
EverySweepEnds == Running ~> ~Running

-----------------------------------------------------------------------------
(* The inductive invariant behind the action properties.                   *)

\* What lies behind a cursor, committed or in memory, has been visited under its run.
BehindIsVisited(r, c) == r \in RunKeys => \A k \in stale[r] : k > c

\* The running sweep belongs to its run; it stands past what its run has committed, and
\* the part of its page before `at` is visited too.
SweepInv ==
    /\ Running => run_key \in RunKeys
    /\ BehindIsVisited(checkpoint.run_key, checkpoint.cursor)
    /\ Running => BehindIsVisited(run_key, cursor)
    /\ pc = "statements" => cursor < at /\ at <= PageEnd /\ BehindIsVisited(run_key, at - 1)
    /\ pc = "finish" => cursor = NumKeys
    /\ Running /\ checkpoint.run_key = run_key =>
            /\ checkpoint.cursor <= cursor
            /\ checkpoint.size # NoSize => size <= checkpoint.size
            /\ ~checkpoint.done

\* The inductive invariant as a whole, of every call of run_checkpointed_step.
Inv == TypeOK /\ SweepInv
=============================================================================
