-------------------------- MODULE RecordAssertions --------------------------
(***************************************************************************)
(* What one normalised Discogs record says of the graph: the edges both    *)
(* write paths merge for it, the edges they prune, and the names it gives. *)
(* batch_projection.py and entity_projection.py share these rules through  *)
(* master_reference, reference_name, media_projection, company_projection  *)
(* and person_credits; they are stated once here.                          *)
(*                                                                         *)
(* A record version is a TLA+ record: kind (its data type), id, hash, name *)
(* (a title for masters and releases) and the lists its kind carries, as   *)
(* sets.  A node is <<label, key>>; an edge is <<from, type, to, role,     *)
(* source>>, Absent where it has no such property.                         *)
(***************************************************************************)
EXTENDS Naturals

CONSTANTS
    Versions,       \* the record versions of every dump
    NoHash,         \* a node no record of its own was written to
    NoName,         \* a null name
    NoBlock         \* companies of a release without a canonical block

Absent == "-"           \* a missing property or reference
NO_MASTER_ID == "0"
SOURCE == "discogs"     \* MEDIA_SOURCE and COMPANY_SOURCE

LabelOf == [artists |-> "Artist", labels |-> "Label", masters |-> "Master", releases |-> "Release"]
Key(v) == <<LabelOf[v.kind], v.id>>

Sentinel == <<"Master", NO_MASTER_ID>>

\* A hash stands for the content of the record it was computed from; a record
\* without an id is dead-lettered before either path sees it, and every record
\* has a name or title.
ASSUME RecordsAssumption ==
    /\ \A v \in Versions : /\ v.kind \in {"artists", "labels", "masters", "releases"}
                           /\ v.hash # NoHash /\ v.name # NoName /\ v.id # Absent
    /\ \A v, w \in Versions : Key(v) = Key(w) /\ v.hash = w.hash => v = w

Edge(from, type, to) == <<from, type, to, Absent, Absent>>

-----------------------------------------------------------------------------
(* Edges a record asserts.                                                 *)

\* Faulty variant of usable_master_id: the sentinel is truthy.
TruthyMasterId(id) == id # Absent

\* Discogs writes 0 for a release that has no master.
usable_master_id(id) == id \notin {Absent, NO_MASTER_ID}

ArtistEdges(v) ==
    {Edge(<<"Artist", m>>, "MEMBER_OF", Key(v)) : m \in v.members}
    \cup {Edge(Key(v), "MEMBER_OF", <<"Artist", g>>) : g \in v.groups}
    \cup {Edge(<<"Artist", a>>, "ALIAS_OF", Key(v)) : a \in v.aliases}

LabelEdges(v) ==
    {Edge(Key(v), "SUBLABEL_OF", <<"Label", p>>) : p \in v.parent}
    \cup {Edge(<<"Label", s>>, "SUBLABEL_OF", Key(v)) : s \in v.sublabels}

\* Genres and styles; a style is placed under the genre of a one-genre record.
Classified(v) ==
    {Edge(Key(v), "IS", <<"Genre", g>>) : g \in v.genres}
    \cup {Edge(Key(v), "IS", <<"Style", s>>) : s \in v.styles}
StylePlaces(v) ==
    {Edge(<<"Style", p[1]>>, "PART_OF", <<"Genre", p[2]>>) :
        p \in {q \in v.styles \X v.genres : v.genres = {q[2]}}}

MasterEdges(v) ==
    {Edge(Key(v), "BY", <<"Artist", a>>) : a \in v.artists} \cup Classified(v)

\* issued_on_rows and MERGE_MEDIA_CYPHER: one edge per distinct medium.
Issued(v) == {<<Key(v), "ISSUED_ON", <<"Medium", m[1]>>, Absent, SOURCE>> : m \in v.media}
InFamily(v) == {Edge(<<"Medium", m[1]>>, "IN_FAMILY", <<"MediaFamily", m[2]>>) : m \in v.media}

\* resolve_companies_block and credited_to_rows: one edge per company and role;
\* a release without a block is silent.
CompanyRows(v) == IF v.companies = NoBlock THEN {} ELSE v.companies
CreditedTo(v) == {<<Key(v), "CREDITED_TO", <<"Company", c[1]>>, c[2], SOURCE>> : c \in CompanyRows(v)}

\* person_credit_rows: one edge per person and role.
CreditedOn(v) == {<<<<"Person", c[1]>>, "CREDITED_ON", Key(v), c[2], Absent>> : c \in v.credits}

ReleaseEdges(v) ==
    {Edge(Key(v), "BY", <<"Artist", a[1]>>) : a \in v.artists}
    \cup {Edge(Key(v), "ON", <<"Label", l[1]>>) : l \in v.labels}
    \cup {Edge(Key(v), "DERIVED_FROM", <<"Master", m>>) : m \in {n \in {v.master_id} : usable_master_id(n)}}
    \cup Classified(v) \cup Issued(v) \cup CreditedTo(v) \cup CreditedOn(v)

\* Edges that describe the record itself.
OwnEdges(v) ==
    CASE v.kind = "artists" -> ArtistEdges(v)
      [] v.kind = "labels" -> LabelEdges(v)
      [] v.kind = "masters" -> MasterEdges(v)
      [] v.kind = "releases" -> ReleaseEdges(v)

\* Edges among the things it mentions; they are never pruned.
SideEdges(v) ==
    CASE v.kind \in {"artists", "labels"} -> {}
      [] v.kind = "masters" -> StylePlaces(v)
      [] v.kind = "releases" -> StylePlaces(v) \cup InFamily(v)

Asserted(v) == OwnEdges(v) \cup SideEdges(v)

\* A credit linked to an artist matches both nodes: it creates neither.
SameAs(v, nodes) ==
    IF v.kind # "releases" THEN {}
    ELSE {Edge(<<"Person", c[1]>>, "SAME_AS", <<"Artist", c[3]>>) :
             c \in {d \in v.credits : <<"Artist", d[3]>> \in nodes}}

-----------------------------------------------------------------------------
(* Edges a write of the record may prune.                                  *)

\* Faulty variant of OfSource: the prune is not scoped to this provider.
OfAnySource(e) == TRUE

\* Other enrichers write ISSUED_ON and CREDITED_TO edges of their own.
OfSource(e) == e[5] = SOURCE

Prunable(v, e) ==
    \/ /\ v.kind = "masters" /\ e[1] = Key(v) /\ e[2] \in {"BY", "IS"}
    \/ /\ v.kind = "releases" /\ e[1] = Key(v)
       /\ \/ e[2] \in {"BY", "ON", "DERIVED_FROM", "IS"}
          \/ e[2] = "ISSUED_ON" /\ OfSource(e)
          \/ e[2] = "CREDITED_TO" /\ OfSource(e) /\ v.companies # NoBlock
    \/ /\ v.kind = "releases" /\ e[3] = Key(v) /\ e[2] = "CREDITED_ON"

-----------------------------------------------------------------------------
(* Names a record gives.                                                   *)

\* reference_name: the names a release carries for the artists and labels it
\* refers to.  A master's artists are bare ids.
ReferenceNames(v, n) ==
    IF v.kind # "releases" THEN {}
    ELSE {r[2] : r \in {s \in v.artists : n = <<"Artist", s[1]>>}
                       \cup {s \in v.labels : n = <<"Label", s[1]>>}} \ {NoName}
=============================================================================
