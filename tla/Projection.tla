----------------------------- MODULE Projection -----------------------------
(***************************************************************************)
(* The Discogs graph as the four consumers, the stub cleanups and the name *)
(* backfill write it.                                                      *)
(*                                                                         *)
(* Each data type has a queue of record versions.  In batch mode its one   *)
(* writer takes some, reads their stored hashes, and in a later            *)
(* transaction writes those whose hash differs (Neo4jBatchProjector); in   *)
(* single-record mode a handler does both in one transaction               *)
(* (entity_projection).  The service may be restarted in either mode, so   *)
(* both take from the same queues.  Deliveries are at least once: a batch  *)
(* may be written again after it committed, and a held one goes to the end *)
(* of its queue (BatchSettlement says when).                               *)
(*                                                                         *)
(* A sweep of isolated stubs chooses its nodes before it deletes them, and *)
(* the next dump may begin to write in between.                            *)
(***************************************************************************)
EXTENDS RecordAssertions, Sequences, FiniteSets

CONSTANTS
    Dumps,          \* per dump, the sequence of versions each type publishes
    OldHash,        \* hashes of the nodes the graph was loaded with
    OldEdges,       \* its edges, other providers' included
    BackfillName,   \* the name the backfill file has for a node, or NoName
    BatchSize,
    Prefetch,
    MaxReturns      \* bound: deliveries returned, and writes repeated

DATA_TYPES == {"artists", "labels", "masters", "releases"}
Ends(E) == {e[1] : e \in E} \cup {e[3] : e \in E}
Nodes == DOMAIN OldHash \cup {Key(v) : v \in Versions}
         \cup Ends(OldEdges) \cup Ends(UNION {Asserted(v) : v \in Versions})

Foreign(e) == e[5] \notin {Absent, SOURCE}

\* No version to be published is in the graph already, and the edges of other
\* providers are of the two types that carry a source.
ASSUME LoadedAssumption ==
    /\ \A v \in Versions : Key(v) \in DOMAIN OldHash => OldHash[Key(v)] # v.hash
    /\ \A e \in OldEdges : Foreign(e) => /\ e[2] \in {"ISSUED_ON", "CREDITED_TO"}
                                         /\ Sentinel \notin {e[1], e[3]}
    /\ Dumps \in Seq([DATA_TYPES -> Seq(Versions)]) /\ BatchSize \in Nat /\ Prefetch \in Nat

VARIABLES
    published,      \* dumps published
    queue,          \* per type, the deliveries not settled yet
    batch,          \* per type, what its writer has taken: a prefix of queue
    todo,           \* of that, by place, what the stored hashes say to write
    stage,          \* per type, where the writer is
    nodes, hash, name, edges,   \* Neo4j; the name of a record or its title
    marked,         \* stubs the running sweep chose and has not deleted
    \* observation
    overlapped,     \* a write committed while a sweep still had stubs marked
    mixed,          \* nodes whose last write held two versions of the record
    unordered,      \* nodes an older version may have been written to last
    returns         \* bound

graph == <<nodes, hash, name, edges>>
writers == <<queue, batch, todo, stage>>
vars == <<published, writers, graph, marked, overlapped, mixed, unordered, returns>>

Stages == {"idle", "read", "written"}

TypeOK ==
    /\ published \in 0..Len(Dumps)
    /\ {queue, batch} \subseteq [DATA_TYPES -> Seq(Versions)]
    /\ DOMAIN todo = DATA_TYPES
    /\ \A t \in DATA_TYPES : /\ DOMAIN todo[t] \subseteq DOMAIN batch[t]
                             /\ \A i \in DOMAIN todo[t] : todo[t][i] = batch[t][i]
    /\ stage \in [DATA_TYPES -> Stages]
    /\ nodes \subseteq Nodes /\ marked \subseteq nodes
    /\ hash \in [Nodes -> {v.hash : v \in Versions} \cup {OldHash[n] : n \in DOMAIN OldHash} \cup {NoHash}]
    /\ DOMAIN name = Nodes
    /\ \A n \in Nodes \ nodes : hash[n] = NoHash /\ name[n] = NoName
    /\ Ends(edges) \subseteq nodes
    /\ overlapped \in BOOLEAN /\ mixed \subseteq Nodes /\ unordered \subseteq Nodes
    /\ returns \in Nat

Init ==
    /\ published = 0
    /\ queue = [t \in DATA_TYPES |-> <<>>]
    /\ batch = queue /\ todo = queue
    /\ stage = [t \in DATA_TYPES |-> "idle"]
    /\ nodes = DOMAIN OldHash \cup Ends(OldEdges)
    /\ hash = [n \in Nodes |-> IF n \in DOMAIN OldHash THEN OldHash[n] ELSE NoHash]
    /\ name = [n \in Nodes |-> NoName]
    /\ edges = OldEdges
    /\ marked = {} /\ overlapped = FALSE /\ mixed = {} /\ unordered = {} /\ returns = 0

-----------------------------------------------------------------------------
(* Deliveries.                                                             *)

Members(s) == {s[i] : i \in DOMAIN s}

\* A dump holds each record once, and publishes it on the queue of its type.
ASSUME DumpsAssumption ==
    \A d \in DOMAIN Dumps : \A t \in DATA_TYPES : \A v, w \in Members(Dumps[d][t]) :
        v.kind = t /\ (Key(v) = Key(w) => v = w)

Quiet == queue = [t \in DATA_TYPES |-> <<>>]
Faulty == returns < MaxReturns /\ returns' = returns + 1

Publish ==
    /\ published < Len(Dumps)
    /\ published' = published + 1
    /\ queue' = [t \in DATA_TYPES |-> queue[t] \o Dumps[published + 1][t]]
    /\ UNCHANGED <<batch, todo, stage, graph, marked, overlapped, mixed, unordered, returns>>

\* Nodes of which s holds two different versions.
Twice(s) == {n \in Nodes : \E v, w \in Members(s) : v # w /\ Key(v) = n /\ Key(w) = n}

\* A held delivery goes back to the broker, behind any newer version.
HoldReturn(t) ==
    /\ Faulty /\ stage[t] = "idle" /\ queue[t] # <<>>
    /\ queue' = [queue EXCEPT ![t] = Append(Tail(@), Head(@))]
    /\ unordered' = unordered \cup (Twice(queue[t]) \cap {Key(Head(queue[t]))})
    /\ UNCHANGED <<published, batch, todo, stage, graph, marked, overlapped, mixed>>

-----------------------------------------------------------------------------
(* One transaction.                                                        *)

Stale(v) == hash[Key(v)] # v.hash

\* The rows the hash gate lets through, at their places in s.
Needed(s) == [i \in {j \in DOMAIN s : Stale(s[j])} |-> s[i]]

\* The last row for a node is the one whose properties stay.
Last(s, n) == s[CHOOSE i \in DOMAIN s :
                   Key(s[i]) = n /\ \A j \in DOMAIN s : Key(s[j]) = n => j <= i]

\* coalesce over the rows of a batch: the first name there is.
FirstReference(s, n) ==
    IF \A v \in Members(s) : ReferenceNames(v, n) = {} THEN NoName
    ELSE LET i == CHOOSE j \in DOMAIN s :
                     /\ ReferenceNames(s[j], n) # {}
                     /\ \A k \in DOMAIN s : k < j => ReferenceNames(s[k], n) = {}
         IN  CHOOSE x \in ReferenceNames(s[i], n) : TRUE

\* Faulty variant of MergeNames: a release renames what it refers to.
MergeNamesOverwrites(s) ==
    name' = [n \in Nodes |->
        IF \E v \in Members(s) : Key(v) = n THEN Last(s, n).name
        ELSE IF FirstReference(s, n) # NoName THEN FirstReference(s, n)
        ELSE name[n]]

\* Faulty variant of MergeNames: a release names only the stubs it creates.
MergeNamesOnCreate(s) ==
    name' = [n \in Nodes |->
        IF \E v \in Members(s) : Key(v) = n THEN Last(s, n).name
        ELSE IF n \notin nodes THEN FirstReference(s, n)
        ELSE name[n]]

\* A record names its own node; a release names an artist or a label only
\* where it has no name yet.
MergeNames(s) ==
    name' = [n \in Nodes |->
        IF \E v \in Members(s) : Key(v) = n THEN Last(s, n).name
        ELSE IF name[n] = NoName THEN FirstReference(s, n)
        ELSE name[n]]

\* Faulty variant of MergeEdges: what the new version dropped is left.
MergeEdgesOnly(s) ==
    edges' = edges \cup UNION {Asserted(v) \cup SameAs(v, nodes') : v \in Members(s)}

\* All prunes come before all merges.
MergeEdges(s) ==
    edges' = {e \in edges : \A v \in Members(s) : Prunable(v, e) => e \in Asserted(v)}
             \cup UNION {Asserted(v) \cup SameAs(v, nodes') : v \in Members(s)}

\* The statements of one transaction over the rows of s, in their order.
Project(s) ==
    /\ nodes' = nodes \cup {Key(v) : v \in Members(s)} \cup Ends(UNION {Asserted(v) : v \in Members(s)})
    /\ hash' = [n \in Nodes |-> IF \E v \in Members(s) : Key(v) = n THEN Last(s, n).hash ELSE hash[n]]
    /\ MergeNames(s)
    /\ MergeEdges(s)
    /\ overlapped' = (overlapped \/ (DOMAIN s # {} /\ marked # {}))
    /\ mixed' = (mixed \ {Key(v) : v \in Members(s)}) \cup Twice(s)
    /\ UNCHANGED marked

\* The batch path rejects a master published under the sentinel's id; the
\* other path does not look.
Usable(v) == v.kind = "masters" => usable_master_id(v.id)

\* The rows of a batch that are written.
ToWrite(s) == [i \in {j \in DOMAIN s : Usable(s[j]) /\ Stale(s[j])} |-> s[i]]

\* Faulty variant of ReadHashes: a node that has a hash is taken to be up to date.
ReadHashesNone(t) ==
    /\ stage[t] = "idle" /\ stage' = [stage EXCEPT ![t] = "read"]
    /\ \E n \in 1..BatchSize :
          /\ n <= Len(queue[t])
          /\ batch' = [batch EXCEPT ![t] = SubSeq(queue[t], 1, n)]
          /\ todo' = [todo EXCEPT ![t] = [i \in {j \in DOMAIN batch'[t] : hash[Key(batch'[t][j])] = NoHash} |-> batch'[t][i]]]
    /\ UNCHANGED <<published, queue, graph, marked, overlapped, mixed, unordered, returns>>

\* The engine takes a batch, and the first half of _process_<type>_batch reads
\* the stored hashes of it.
ReadHashes(t) ==
    /\ stage[t] = "idle" /\ stage' = [stage EXCEPT ![t] = "read"]
    /\ \E n \in 1..BatchSize :
          /\ n <= Len(queue[t])
          /\ batch' = [batch EXCEPT ![t] = SubSeq(queue[t], 1, n)]
          /\ todo' = [todo EXCEPT ![t] = ToWrite(batch'[t])]
    /\ UNCHANGED <<published, queue, graph, marked, overlapped, mixed, unordered, returns>>

\* The second half: batch_write.
batch_write(t) ==
    /\ stage[t] = "read" /\ stage' = [stage EXCEPT ![t] = "written"]
    /\ Project(todo[t])
    /\ unordered' = unordered \cup Twice(batch[t])
    /\ UNCHANGED <<published, queue, batch, todo, returns>>

\* Faulty variant of Settle: a batch is settled before its write.
SettleUnwritten(t) ==
    /\ stage[t] \in {"read", "written"} /\ stage' = [stage EXCEPT ![t] = "idle"]
    /\ queue' = [queue EXCEPT ![t] = SubSeq(@, Len(batch[t]) + 1, Len(@))]
    /\ batch' = [batch EXCEPT ![t] = <<>>] /\ todo' = [todo EXCEPT ![t] = <<>>]
    /\ UNCHANGED <<published, graph, marked, overlapped, mixed, unordered, returns>>

\* The engine settles the batch, the rejected rows to the dead-letter queue,
Settle(t) ==
    /\ stage[t] = "written" /\ stage' = [stage EXCEPT ![t] = "idle"]
    /\ queue' = [queue EXCEPT ![t] = SubSeq(@, Len(batch[t]) + 1, Len(@))]
    /\ batch' = [batch EXCEPT ![t] = <<>>] /\ todo' = [todo EXCEPT ![t] = <<>>]
    /\ UNCHANGED <<published, graph, marked, overlapped, mixed, unordered, returns>>

\* or does not: Neo4j failed, a committed write was reported as timed out, or
\* the process ended.
Repeat(t) ==
    /\ Faulty /\ stage[t] # "idle" /\ stage' = [stage EXCEPT ![t] = "idle"]
    /\ batch' = [batch EXCEPT ![t] = <<>>] /\ todo' = [todo EXCEPT ![t] = <<>>]
    /\ UNCHANGED <<published, queue, graph, marked, overlapped, mixed, unordered>>

\* process_artist and its siblings: one of the deliveries the prefetch allows,
\* hash and write in one transaction; the ack may be lost.
process_record(t) ==
    /\ stage[t] = "idle"
    /\ \E i \in 1..Prefetch :
          /\ i <= Len(queue[t])
          /\ Project(Needed(<<queue[t][i]>>))
          /\ unordered' = unordered \cup (Twice(SubSeq(queue[t], 1, i)) \cap {Key(queue[t][i])})
          /\ \/ queue' = [queue EXCEPT ![t] = SubSeq(@, 1, i - 1) \o SubSeq(@, i + 1, Len(@))]
                /\ UNCHANGED returns
             \/ UNCHANGED queue /\ Faulty
    /\ UNCHANGED <<published, batch, todo, stage>>

-----------------------------------------------------------------------------
(* Cleanup and backfill.                                                   *)

Touching(n) == {e \in edges : e[1] = n \/ e[3] = n}

\* Faulty variant of Isolated: a referenced stub is collected too.
Unfilled(n) == hash[n] = NoHash

\* HAS_STYLE is derived and does not hold a stub.
Isolated(n) == hash[n] = NoHash /\ \A e \in Touching(n) : e[2] = "HAS_STYLE"

\* cleanup_stub_nodes may begin at any point of the next dump: nothing keeps a
\* pass that is resumed or late apart from the writers.
SelectStubs(t) ==
    /\ marked = {}
    /\ marked' = {n \in nodes : n[1] = LabelOf[t] /\ Isolated(n)}
    /\ UNCHANGED <<published, writers, graph, overlapped, mixed, unordered, returns>>

Gone(S) ==
    /\ nodes' = nodes \ S
    /\ hash' = [n \in Nodes |-> IF n \in S THEN NoHash ELSE hash[n]]
    /\ name' = [n \in Nodes |-> IF n \in S THEN NoName ELSE name[n]]
    /\ edges' = {e \in edges : e[1] \notin S /\ e[3] \notin S}

\* One inner transaction: DETACH DELETE, without a second look.
DeleteStubs ==
    \E S \in SUBSET marked :
       /\ S # {} /\ Gone(S)
       /\ marked' = marked \ S
       /\ UNCHANGED <<published, writers, overlapped, mixed, unordered, returns>>

\* The statement fails and its attempts are exhausted, or the process ends.
SweepStops ==
    /\ marked # {} /\ marked' = {}
    /\ UNCHANGED <<published, writers, graph, overlapped, mixed, unordered, returns>>

\* cleanup_sentinel_master deletes the edges in chunks,
DeleteSentinelEdges ==
    \E S \in SUBSET Touching(Sentinel) :
       /\ S # {} /\ edges' = edges \ S
       /\ UNCHANGED <<published, writers, nodes, hash, name, marked, overlapped, mixed, unordered, returns>>

\* and then the node, with whatever was attached to it since.
DeleteSentinel ==
    /\ Sentinel \in nodes
    /\ Gone({Sentinel})
    /\ marked' = marked \ {Sentinel}
    /\ UNCHANGED <<published, writers, overlapped, mixed, unordered, returns>>

\* One row of the backfill file, however often it is applied.
Backfill ==
    \E n \in nodes :
       /\ n[1] \in {"Artist", "Label"} /\ BackfillName[n] # NoName /\ name[n] = NoName
       /\ name' = [name EXCEPT ![n] = BackfillName[n]]
       /\ UNCHANGED <<published, writers, nodes, hash, edges, marked, overlapped, mixed, unordered, returns>>

-----------------------------------------------------------------------------
WriterStep == \E t \in DATA_TYPES :
    ReadHashes(t) \/ batch_write(t) \/ Settle(t) \/ process_record(t)
FaultStep == \E t \in DATA_TYPES : HoldReturn(t) \/ Repeat(t)
SweepStep == \/ \E t \in DATA_TYPES : SelectStubs(t)
             \/ DeleteStubs \/ SweepStops \/ DeleteSentinelEdges \/ DeleteSentinel

Next == Publish \/ WriterStep \/ FaultStep \/ SweepStep \/ Backfill

Spec == Init /\ [][Next]_vars

-----------------------------------------------------------------------------
(* Properties.                                                             *)

\* A stored hash can be trusted: every edge that version asserts is there, and
\* the node has no managed edge it does not assert, so the records the hash gate
\* skips never leave the graph short or with edges Discogs dropped
\* (batch_projection.py:366-380); the cleanup of the sentinel master takes no
\* such edge, because neither path refers to it (master_reference.py).  The
\* first part does not hold after a sweep that ran beside a writer, nor of the
\* sentinel itself, the second of a node written from two versions of its
\* record at once.
HashTellsTheEdges ==
    \A v \in Versions :
        hash[Key(v)] = v.hash /\ Key(v) # Sentinel /\ ~overlapped =>
            /\ Asserted(v) \subseteq edges
            /\ Key(v) \notin mixed => \A e \in edges : Prunable(v, e) => e \in Asserted(v)

\* A node with a record of its own carries that record's name: no release, no
\* backfill row and no order between them overrides it.
OwnNameStays ==
    \A v \in Versions : hash[Key(v)] = v.hash => name[Key(v)] = v.name

\* What a written release calls an artist or a label is not lost: whichever of
\* master, release and backfill made the stub, it has a name in the end
\* (docs/stub-name-backfill.md).
ReferencesAreNamed ==
    \A v \in Versions :
        hash[Key(v)] = v.hash /\ ~overlapped =>
            \A n \in nodes : ReferenceNames(v, n) # {} => name[n] # NoName

\* Once everything published is settled, each node holds the newest version of
\* its record, unless a return or a shared batch put an older one last; the
\* sentinel master has no record to keep.
Newest(n) ==
    LET dumps == {d \in 1..published : \E t \in DATA_TYPES : \E v \in Members(Dumps[d][t]) : Key(v) = n}
        last == CHOOSE d \in dumps : \A c \in dumps : c <= d
    IN  CHOOSE v \in UNION {Members(Dumps[last][t]) : t \in DATA_TYPES} : Key(v) = n
LatestVersionWins ==
    Quiet /\ ~overlapped =>
        \A n \in UNION {{Key(v) : v \in Members(Dumps[d][t])} : d \in 1..published, t \in DATA_TYPES} :
            n \notin unordered /\ n # Sentinel => hash[n] = Newest(n).hash

\* The newest versions among the records published.
Records(d) == UNION {Members(Dumps[d][t]) : t \in DATA_TYPES}
Current == {v \in Versions : \E d \in 1..published :
               v \in Records(d) /\ \A c \in 1..published : c > d => \A w \in Records(c) : Key(w) # Key(v)}

\* No row of a node lies behind its version v.
NoneBehind(s, v) ==
    \A i \in DOMAIN s : Key(s[i]) = Key(v) => \E j \in DOMAIN s : j >= i /\ s[j] = v

\* Why the latest version wins: a batch is the front of its queue, what it
\* leaves out is in the graph until it settles, and a node whose newest version
\* has left the queue holds it.
BatchInFront ==
    \A t \in DATA_TYPES :
        /\ stage[t] = "idle" => batch[t] = <<>>
        /\ Len(batch[t]) <= Len(queue[t])
        /\ \A i \in DOMAIN batch[t] : batch[t][i] = queue[t][i]
        /\ \A v \in Members(queue[t]) : v.kind = t
SkippedIsStored ==
    \A t \in DATA_TYPES : \A i \in DOMAIN batch[t] :
        Key(batch[t][i]) # Sentinel =>
            /\ stage[t] = "read" /\ i \notin DOMAIN todo[t] => ~Stale(batch[t][i])
            /\ stage[t] = "written" /\ Key(batch[t][i]) \notin unordered => ~Stale(batch[t][i])
NewestIsLast ==
    \A v \in Current : Key(v) \notin unordered /\ Key(v) # Sentinel =>
        /\ NoneBehind(queue[v.kind], v)
        /\ (\A w \in Members(queue[v.kind]) : Key(w) # Key(v)) => ~Stale(v)
LatestInv == BatchInFront /\ (~overlapped => SkippedIsStored /\ NewestIsLast)

\* What the writers rely on.
Inv == TypeOK /\ LatestInv

\* A step never removes an edge another provider asserted.
ForeignEdgesStay ==
    [][\A e \in edges : Foreign(e) => e \in edges']_vars
=============================================================================
