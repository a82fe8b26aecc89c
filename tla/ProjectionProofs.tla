-------------------------- MODULE ProjectionProofs --------------------------
(***************************************************************************)
(* Proofs about Projection, for any dumps and any graph they are loaded    *)
(* into.                                                                   *)
(***************************************************************************)
EXTENDS Projection, WellFoundedInduction, TLAPS

-----------------------------------------------------------------------------
(* Record assertions.                                                      *)

\* The label of a node tells the kind of the record that owns it.
LEMMA KeyTellsKind ==
    ASSUME NEW v \in Versions, NEW w \in Versions, Key(v) = Key(w)
    PROVE  v.kind = w.kind
<1>1. v.kind \in {"artists", "labels", "masters", "releases"} /\ w.kind \in {"artists", "labels", "masters", "releases"}
  BY RecordsAssumption
<1>2. LabelOf[v.kind] = LabelOf[w.kind]
  BY DEF Key
<1> QED BY <1>1, <1>2 DEF LabelOf

\* The parts of an edge without properties, and of a node.
LEMMA EdgeParts ==
    ASSUME NEW a, NEW type, NEW b
    PROVE  /\ Edge(a, type, b)[1] = a /\ Edge(a, type, b)[2] = type
           /\ Edge(a, type, b)[3] = b /\ Edge(a, type, b)[5] = Absent
BY DEF Edge

LEMMA NodeParts ==
    ASSUME NEW l, NEW k
    PROVE  <<l, k>>[1] = l /\ <<l, k>>[2] = k
OBVIOUS

\* The edge a record asserts has this provider's source or none, is not the
\* derived one, touches the sentinel only if that is the record itself, and is
\* pruned by no other record.
Harmless(v, e) ==
    /\ ~Foreign(e) /\ e[2] # "HAS_STYLE"
    /\ Key(v) # Sentinel => Sentinel \notin {e[1], e[3]}
    /\ \A w \in Versions : Prunable(w, e) => Key(w) = Key(v)

LEMMA ArtistEdgesHarmless ==
    ASSUME NEW v \in Versions, v.kind = "artists", NEW e \in ArtistEdges(v)
    PROVE  Harmless(v, e)
<1>1. Key(v)[1] = "Artist"
  BY DEF Key, LabelOf
<1>2. /\ e[2] \in {"MEMBER_OF", "ALIAS_OF"} /\ e[5] = Absent
      /\ e[1][1] = "Artist" /\ e[3][1] = "Artist"
  <2>1. \E y, m, n : y \in {"MEMBER_OF", "ALIAS_OF"} /\ e = Edge(m, y, n) /\ m[1] = "Artist" /\ n[1] = "Artist"
    <3>1. \E x : \/ e = Edge(Key(v), "MEMBER_OF", <<"Artist", x>>)
                 \/ e = Edge(<<"Artist", x>>, "MEMBER_OF", Key(v))
                 \/ e = Edge(<<"Artist", x>>, "ALIAS_OF", Key(v))
      BY DEF ArtistEdges
    <3>2. PICK x : \/ e = Edge(Key(v), "MEMBER_OF", <<"Artist", x>>)
                   \/ e = Edge(<<"Artist", x>>, "MEMBER_OF", Key(v))
                   \/ e = Edge(<<"Artist", x>>, "ALIAS_OF", Key(v))
      BY <3>1
    <3>3. <<"Artist", x>>[1] = "Artist"
      BY NodeParts
    <3> QED BY <1>1, <3>2, <3>3
  <2>2. PICK y, m, n : y \in {"MEMBER_OF", "ALIAS_OF"} /\ e = Edge(m, y, n) /\ m[1] = "Artist" /\ n[1] = "Artist"
    BY <2>1
  <2>3. e[1] = m /\ e[2] = y /\ e[3] = n /\ e[5] = Absent
    BY <2>2, EdgeParts
  <2> QED BY <2>3, NodeParts, <2>2
<1>3. Sentinel[1] = "Master"
  BY DEF Sentinel
<1> QED BY <1>2, <1>3 DEF Harmless, Foreign, Absent, SOURCE, Prunable

LEMMA LabelEdgesHarmless ==
    ASSUME NEW v \in Versions, v.kind = "labels", NEW e \in LabelEdges(v)
    PROVE  Harmless(v, e)
<1>1. Key(v)[1] = "Label"
  BY DEF Key, LabelOf
<1>2. e[2] = "SUBLABEL_OF" /\ e[5] = Absent /\ e[1][1] = "Label" /\ e[3][1] = "Label"
  <2>1. \E m, n : e = Edge(m, "SUBLABEL_OF", n) /\ m[1] = "Label" /\ n[1] = "Label"
    <3>1. \E x : e = Edge(Key(v), "SUBLABEL_OF", <<"Label", x>>) \/ e = Edge(<<"Label", x>>, "SUBLABEL_OF", Key(v))
      BY DEF LabelEdges
    <3>2. PICK x : e = Edge(Key(v), "SUBLABEL_OF", <<"Label", x>>) \/ e = Edge(<<"Label", x>>, "SUBLABEL_OF", Key(v))
      BY <3>1
    <3>3. <<"Label", x>>[1] = "Label"
      BY NodeParts
    <3> QED BY <1>1, <3>2, <3>3
  <2>2. PICK m, n : e = Edge(m, "SUBLABEL_OF", n) /\ m[1] = "Label" /\ n[1] = "Label"
    BY <2>1
  <2>3. e[1] = m /\ e[2] = "SUBLABEL_OF" /\ e[3] = n /\ e[5] = Absent
    BY <2>2, EdgeParts
  <2> QED BY <2>3, NodeParts, <2>2
<1>3. Sentinel[1] = "Master"
  BY DEF Sentinel
<1> QED BY <1>2, <1>3 DEF Harmless, Foreign, Absent, SOURCE, Prunable

LEMMA ClassifiedHarmless ==
    ASSUME NEW v \in Versions, NEW e \in Classified(v)
    PROVE  Harmless(v, e)
<1>1. e[1] = Key(v) /\ e[2] = "IS" /\ e[3][1] \in {"Genre", "Style"} /\ e[5] = Absent
  <2>1. \E k : \/ e = Edge(Key(v), "IS", <<"Genre", k>>)
               \/ e = Edge(Key(v), "IS", <<"Style", k>>)
    BY DEF Classified
  <2>2. PICK k : \/ e = Edge(Key(v), "IS", <<"Genre", k>>)
                 \/ e = Edge(Key(v), "IS", <<"Style", k>>)
    BY <2>1
  <2>3. /\ e[1] = Key(v) /\ e[2] = "IS" /\ e[5] = Absent
        /\ e[3] = <<"Genre", k>> \/ e[3] = <<"Style", k>>
    BY <2>2, EdgeParts
  <2> QED BY <2>3, NodeParts
<1>2. Sentinel[1] = "Master"
  BY DEF Sentinel
<1> QED BY <1>1, <1>2 DEF Harmless, Foreign, Absent, SOURCE, Prunable

LEMMA StylePlacesHarmless ==
    ASSUME NEW v \in Versions, NEW e \in StylePlaces(v)
    PROVE  Harmless(v, e)
<1>1. e[1][1] = "Style" /\ e[2] = "PART_OF" /\ e[3][1] = "Genre" /\ e[5] = Absent
  <2>1. \E x, g : e = Edge(<<"Style", x>>, "PART_OF", <<"Genre", g>>)
    BY DEF StylePlaces
  <2>2. PICK x, g : e = Edge(<<"Style", x>>, "PART_OF", <<"Genre", g>>)
    BY <2>1
  <2>3. e[1] = <<"Style", x>> /\ e[2] = "PART_OF" /\ e[3] = <<"Genre", g>> /\ e[5] = Absent
    BY <2>2, EdgeParts
  <2> QED BY <2>3, NodeParts
<1>2. Sentinel[1] = "Master"
  BY DEF Sentinel
<1> QED BY <1>1, <1>2 DEF Harmless, Foreign, Absent, SOURCE, Prunable

LEMMA MasterEdgesHarmless ==
    ASSUME NEW v \in Versions, NEW e \in MasterEdges(v)
    PROVE  Harmless(v, e)
<1>1. CASE e \in Classified(v)
  BY <1>1, ClassifiedHarmless
<1>2. CASE e \in {Edge(Key(v), "BY", <<"Artist", a>>) : a \in v.artists}
  <2>1. e[1] = Key(v) /\ e[2] = "BY" /\ e[3][1] = "Artist" /\ e[5] = Absent
    <3>1. \E k : e = Edge(Key(v), "BY", <<"Artist", k>>)
      BY <1>2
    <3>2. PICK k : e = Edge(Key(v), "BY", <<"Artist", k>>)
      BY <3>1
    <3>3. e[1] = Key(v) /\ e[2] = "BY" /\ e[3] = <<"Artist", k>> /\ e[5] = Absent
      BY <3>2, EdgeParts
    <3> QED BY <3>3, NodeParts
  <2>2. Sentinel[1] = "Master"
    BY DEF Sentinel
  <2> QED BY <2>1, <2>2 DEF Harmless, Foreign, Absent, SOURCE, Prunable
<1> QED BY <1>1, <1>2 DEF MasterEdges

LEMMA ReleaseEdgesHarmless ==
    ASSUME NEW v \in Versions, v.kind = "releases", NEW e \in ReleaseEdges(v) \cup InFamily(v)
    PROVE  Harmless(v, e)
<1>0. Sentinel[1] = "Master"
  BY DEF Sentinel
<1>1. CASE e \in Classified(v)
  BY <1>1, ClassifiedHarmless
<1>2. CASE e \in {Edge(Key(v), "BY", <<"Artist", a[1]>>) : a \in v.artists}
  <2>1. e[1] = Key(v) /\ e[2] = "BY" /\ e[3][1] = "Artist" /\ e[5] = Absent
    <3>1. \E k : e = Edge(Key(v), "BY", <<"Artist", k>>)
      BY <1>2
    <3>2. PICK k : e = Edge(Key(v), "BY", <<"Artist", k>>)
      BY <3>1
    <3>3. e[1] = Key(v) /\ e[2] = "BY" /\ e[3] = <<"Artist", k>> /\ e[5] = Absent
      BY <3>2, EdgeParts
    <3> QED BY <3>3, NodeParts
  <2> QED BY <2>1, <1>0 DEF Harmless, Foreign, Absent, SOURCE, Prunable
<1>3. CASE e \in {Edge(Key(v), "ON", <<"Label", l[1]>>) : l \in v.labels}
  <2>1. e[1] = Key(v) /\ e[2] = "ON" /\ e[3][1] = "Label" /\ e[5] = Absent
    <3>1. \E k : e = Edge(Key(v), "ON", <<"Label", k>>)
      BY <1>3
    <3>2. PICK k : e = Edge(Key(v), "ON", <<"Label", k>>)
      BY <3>1
    <3>3. e[1] = Key(v) /\ e[2] = "ON" /\ e[3] = <<"Label", k>> /\ e[5] = Absent
      BY <3>2, EdgeParts
    <3> QED BY <3>3, NodeParts
  <2> QED BY <2>1, <1>0 DEF Harmless, Foreign, Absent, SOURCE, Prunable
<1>4. CASE e \in {Edge(Key(v), "DERIVED_FROM", <<"Master", m>>) : m \in {n \in {v.master_id} : usable_master_id(n)}}
  <2>1. e[1] = Key(v) /\ e[2] = "DERIVED_FROM" /\ e[3] = <<"Master", v.master_id>> /\ e[5] = Absent
        /\ v.master_id # NO_MASTER_ID
    <3>1. e = Edge(Key(v), "DERIVED_FROM", <<"Master", v.master_id>>) /\ usable_master_id(v.master_id)
      BY <1>4
    <3> QED BY <3>1, EdgeParts DEF usable_master_id
  <2>2. e[3] # Sentinel
    BY <2>1 DEF Sentinel
  <2> QED BY <2>1, <2>2, <1>0 DEF Harmless, Foreign, Absent, SOURCE, Prunable
<1>5. CASE e \in Issued(v)
  <2>1. e[1] = Key(v) /\ e[2] = "ISSUED_ON" /\ e[3][1] = "Medium" /\ e[5] = SOURCE
    BY <1>5 DEF Issued
  <2> QED BY <2>1, <1>0 DEF Harmless, Foreign, Absent, SOURCE, Prunable
<1>6. CASE e \in CreditedTo(v)
  <2>1. e[1] = Key(v) /\ e[2] = "CREDITED_TO" /\ e[3][1] = "Company" /\ e[5] = SOURCE
    BY <1>6 DEF CreditedTo
  <2> QED BY <2>1, <1>0 DEF Harmless, Foreign, Absent, SOURCE, Prunable
<1>7. CASE e \in CreditedOn(v)
  <2>1. e[1][1] = "Person" /\ e[2] = "CREDITED_ON" /\ e[3] = Key(v) /\ e[5] = Absent
    BY <1>7 DEF CreditedOn
  <2> QED BY <2>1, <1>0 DEF Harmless, Foreign, Absent, SOURCE, Prunable
<1>8. CASE e \in InFamily(v)
  <2>1. e[1][1] = "Medium" /\ e[2] = "IN_FAMILY" /\ e[3][1] = "MediaFamily" /\ e[5] = Absent
    <3>1. \E m, f : e = Edge(<<"Medium", m>>, "IN_FAMILY", <<"MediaFamily", f>>)
      BY <1>8 DEF InFamily
    <3>2. PICK m, f : e = Edge(<<"Medium", m>>, "IN_FAMILY", <<"MediaFamily", f>>)
      BY <3>1
    <3>3. e[1] = <<"Medium", m>> /\ e[2] = "IN_FAMILY" /\ e[3] = <<"MediaFamily", f>> /\ e[5] = Absent
      BY <3>2, EdgeParts
    <3> QED BY <3>3, NodeParts
  <2> QED BY <2>1, <1>0 DEF Harmless, Foreign, Absent, SOURCE, Prunable
<1> QED BY <1>1, <1>2, <1>3, <1>4, <1>5, <1>6, <1>7, <1>8 DEF ReleaseEdges

LEMMA AssertedHarmless ==
    ASSUME NEW v \in Versions, NEW e \in Asserted(v)
    PROVE  Harmless(v, e)
<1>1. v.kind \in {"artists", "labels", "masters", "releases"}
  BY RecordsAssumption
<1>2. CASE v.kind = "artists"
  <2>1. e \in ArtistEdges(v)
    BY <1>2 DEF Asserted, OwnEdges, SideEdges
  <2> QED BY <1>2, <2>1, ArtistEdgesHarmless
<1>3. CASE v.kind = "labels"
  <2>1. e \in LabelEdges(v)
    BY <1>3 DEF Asserted, OwnEdges, SideEdges
  <2> QED BY <1>3, <2>1, LabelEdgesHarmless
<1>4. CASE v.kind = "masters"
  <2>1. e \in MasterEdges(v) \/ e \in StylePlaces(v)
    BY <1>4 DEF Asserted, OwnEdges, SideEdges
  <2> QED BY <2>1, MasterEdgesHarmless, StylePlacesHarmless
<1>5. CASE v.kind = "releases"
  <2>1. e \in ReleaseEdges(v) \cup InFamily(v) \/ e \in StylePlaces(v)
    BY <1>5 DEF Asserted, OwnEdges, SideEdges
  <2> QED BY <1>5, <2>1, ReleaseEdgesHarmless, StylePlacesHarmless
<1> QED BY <1>1, <1>2, <1>3, <1>4, <1>5

\* The same of the edge that links a credit to an artist, and no record prunes it.
LEMMA SameAsHarmless ==
    ASSUME NEW v \in Versions, NEW N, NEW e \in SameAs(v, N)
    PROVE  /\ ~Foreign(e) /\ e[2] # "HAS_STYLE" /\ Sentinel \notin {e[1], e[3]}
           /\ \A w \in Versions : ~Prunable(w, e)
           /\ e[1] \in Ends(Asserted(v)) /\ e[3] \in N
<1>1. v.kind = "releases" /\ \E c \in v.credits : <<"Artist", c[3]>> \in N /\ e = Edge(<<"Person", c[1]>>, "SAME_AS", <<"Artist", c[3]>>)
  BY DEF SameAs
<1>2. PICK c \in v.credits : <<"Artist", c[3]>> \in N /\ e = Edge(<<"Person", c[1]>>, "SAME_AS", <<"Artist", c[3]>>)
  BY <1>1
<1>3. e[1] = <<"Person", c[1]>> /\ e[2] = "SAME_AS" /\ e[3] = <<"Artist", c[3]>> /\ e[5] = Absent
  BY <1>2, EdgeParts, NodeParts
<1>4. Sentinel[1] = "Master"
  BY DEF Sentinel
<1>5. Sentinel \notin {e[1], e[3]}
  BY <1>3, <1>4
<1>6. <<<<"Person", c[1]>>, "CREDITED_ON", Key(v), c[2], Absent>> \in Asserted(v)
  BY <1>1 DEF Asserted, OwnEdges, ReleaseEdges, CreditedOn
<1>7. e[1] \in Ends(Asserted(v))
  <2> DEFINE f == <<<<"Person", c[1]>>, "CREDITED_ON", Key(v), c[2], Absent>>
  <2>1. f[1] = e[1] /\ f \in Asserted(v)
    BY <1>3, <1>6
  <2> QED BY <2>1 DEF Ends
<1>8. \A w \in Versions : ~Prunable(w, e)
  BY <1>3 DEF Prunable
<1> QED BY <1>2, <1>3, <1>5, <1>7, <1>8 DEF Foreign

\* What a release names is an end of an edge it asserts.
LEMMA NamedIsReferred ==
    ASSUME NEW v \in Versions, NEW n, ReferenceNames(v, n) # {}
    PROVE  n \in Ends(Asserted(v))
<1>1. v.kind = "releases"
  BY DEF ReferenceNames
<1>2. (\E a \in v.artists : n = <<"Artist", a[1]>>) \/ (\E l \in v.labels : n = <<"Label", l[1]>>)
  BY <1>1 DEF ReferenceNames
<1>3. Edge(Key(v), "BY", n) \in Asserted(v) \/ Edge(Key(v), "ON", n) \in Asserted(v)
  BY <1>1, <1>2 DEF Asserted, OwnEdges, ReleaseEdges
<1>4. Edge(Key(v), "BY", n)[3] = n /\ Edge(Key(v), "ON", n)[3] = n
  BY DEF Edge
<1> QED BY <1>3, <1>4 DEF Ends

-----------------------------------------------------------------------------
(* Rows of a transaction.                                                  *)

Rows(s) == (\E N \in Nat : DOMAIN s \subseteq 1..N) /\ \A i \in DOMAIN s : s[i] \in Versions

\* A nonempty set of places has a first and a last one.
LEMMA FirstPlace ==
    ASSUME NEW N \in Nat, NEW I, I \subseteq 1..N, I # {}
    PROVE  \E i \in I : \A j \in I : i <= j
<1>1. I \subseteq Nat
  OBVIOUS
<1>2. \E i \in I : \A j \in I : ~ (<<j, i>> \in OpToRel(<, Nat))
  BY <1>1, NatLessThanWellFounded, WFMin
<1>3. PICK i \in I : \A j \in I : ~ (<<j, i>> \in OpToRel(<, Nat))
  BY <1>2
<1>4. \A j \in I : ~ (j < i)
  BY <1>1, <1>3 DEF OpToRel
<1> QED BY <1>1, <1>4

LEMMA LastPlace ==
    ASSUME NEW N \in Nat, NEW I, I \subseteq 1..N, I # {}
    PROVE  \E i \in I : \A j \in I : j <= i
<1> DEFINE T == {N + 1 - i : i \in I}
<1>1. T \subseteq 1..N /\ T # {}
  <2>1. \A i \in 1..N : N + 1 - i \in 1..N
    OBVIOUS
  <2>2. \A i \in I : N + 1 - i \in 1..N
    BY <2>1
  <2>3. T \subseteq 1..N
    BY <2>2
  <2>4. PICK i \in I : TRUE
    OBVIOUS
  <2>5. N + 1 - i \in T
    BY <2>4
  <2> QED BY <2>3, <2>5
<1>2. \E x \in T : \A y \in T : x <= y
  <2> HIDE DEF T
  <2> QED BY <1>1, FirstPlace
<1>3. PICK x \in T : \A y \in T : x <= y
  BY <1>2
<1>4. PICK i \in I : x = N + 1 - i
  BY <1>3
<1>5. \A j \in I : N + 1 - i <= N + 1 - j
  BY <1>3, <1>4
<1> QED BY <1>5

\* Last finds a row of the record.
LEMMA LastRow ==
    ASSUME NEW s, Rows(s), NEW n, \E v \in Members(s) : Key(v) = n
    PROVE  Last(s, n) \in Members(s) /\ Key(Last(s, n)) = n
<1> DEFINE I == {i \in DOMAIN s : Key(s[i]) = n}
<1>1. PICK N \in Nat : DOMAIN s \subseteq 1..N
  BY DEF Rows
<1>2. I \subseteq 1..N /\ I # {}
  BY <1>1 DEF Members
<1>3. \E i \in I : \A j \in I : j <= i
  <2> HIDE DEF I
  <2> QED BY <1>2, LastPlace
<1>4. \E i \in DOMAIN s : Key(s[i]) = n /\ \A j \in DOMAIN s : Key(s[j]) = n => j <= i
  BY <1>3
<1> QED BY <1>4 DEF Last, Members

\* FirstReference finds a name exactly if a row has one.
LEMMA FirstReferenceFound ==
    ASSUME NEW s, Rows(s), NEW n, NEW v \in Members(s), ReferenceNames(v, n) # {}
    PROVE  FirstReference(s, n) # NoName
<1> DEFINE I == {i \in DOMAIN s : ReferenceNames(s[i], n) # {}}
<1>1. PICK N \in Nat : DOMAIN s \subseteq 1..N
  BY DEF Rows
<1>2. I \subseteq 1..N /\ I # {}
  BY <1>1 DEF Members
<1>3. \E i \in I : \A j \in I : i <= j
  <2> HIDE DEF I
  <2> QED BY <1>2, FirstPlace
<1>4. PICK i \in I : \A j \in I : i <= j
  BY <1>3
<1>5. \E j \in DOMAIN s : ReferenceNames(s[j], n) # {} /\ \A k \in DOMAIN s : k < j => ReferenceNames(s[k], n) = {}
  <2>1. \A k \in DOMAIN s : k < i => k \notin I
    BY <1>1, <1>4
  <2> QED BY <1>4, <2>1
<1> DEFINE f == CHOOSE j \in DOMAIN s : ReferenceNames(s[j], n) # {} /\ \A k \in DOMAIN s : k < j => ReferenceNames(s[k], n) = {}
<1>6. ReferenceNames(s[f], n) # {}
  BY <1>5
<1>7. FirstReference(s, n) = CHOOSE x \in ReferenceNames(s[f], n) : TRUE
  BY DEF FirstReference
<1> HIDE DEF f
<1>8. FirstReference(s, n) \in ReferenceNames(s[f], n)
  BY <1>6, <1>7
<1>9. NoName \notin ReferenceNames(s[f], n)
  BY DEF ReferenceNames
<1> QED BY <1>8, <1>9

LEMMA FirstReferenceMissing ==
    ASSUME NEW s, NEW n, \A v \in Members(s) : ReferenceNames(v, n) = {}
    PROVE  FirstReference(s, n) = NoName
BY DEF FirstReference

\* What one transaction over the rows of s does to the graph.
LEMMA ProjectEffect ==
    ASSUME NEW s, Rows(s), Project(s)
    PROVE  /\ \A v \in Members(s) : v \in Versions /\ Key(v) \in nodes'
           /\ nodes \subseteq nodes'
           /\ \A n \in nodes' : n \in nodes \/ \E v \in Members(s) : n = Key(v) \/ n \in Ends(Asserted(v))
           /\ \A v \in Members(s) : Ends(Asserted(v)) \subseteq nodes'
<1>1. \A v \in Members(s) : v \in Versions
  BY DEF Rows, Members
<1>2. nodes' = nodes \cup {Key(v) : v \in Members(s)} \cup Ends(UNION {Asserted(v) : v \in Members(s)})
  BY DEF Project
<1>3. \A n : n \in Ends(UNION {Asserted(v) : v \in Members(s)}) <=> \E v \in Members(s) : n \in Ends(Asserted(v))
  BY DEF Ends
<1> QED BY <1>1, <1>2, <1>3

LEMMA ProjectHashes ==
    ASSUME NEW s, Rows(s), Project(s), NEW n \in Nodes
    PROVE  /\ (\A v \in Members(s) : Key(v) # n) => hash'[n] = hash[n]
           /\ (\E v \in Members(s) : Key(v) = n) =>
                  \E w \in Members(s) : Key(w) = n /\ hash'[n] = w.hash /\ name'[n] = w.name
<1>1. hash'[n] = IF \E v \in Members(s) : Key(v) = n THEN Last(s, n).hash ELSE hash[n]
  BY DEF Project
<1>2. (\E v \in Members(s) : Key(v) = n) => name'[n] = Last(s, n).name
  BY DEF Project, MergeNames
<1> QED BY <1>1, <1>2, LastRow

LEMMA ProjectNames ==
    ASSUME NEW s, Rows(s), Project(s), NEW n \in Nodes, \A v \in Members(s) : Key(v) # n
    PROVE  /\ name[n] # NoName => name'[n] = name[n]
           /\ \A v \in Members(s) : ReferenceNames(v, n) # {} => name'[n] # NoName
           /\ name[n] = NoName /\ (\A v \in Members(s) : ReferenceNames(v, n) = {}) => name'[n] = NoName
<1>1. name'[n] = IF name[n] = NoName THEN FirstReference(s, n) ELSE name[n]
  BY DEF Project, MergeNames
<1> QED BY <1>1, FirstReferenceFound, FirstReferenceMissing

LEMMA ProjectEdges ==
    ASSUME NEW s, Rows(s), Project(s)
    PROVE  /\ \A e \in edges' : \/ e \in edges /\ \A v \in Members(s) : Prunable(v, e) => e \in Asserted(v)
                                \/ \E v \in Members(s) : e \in Asserted(v) \/ e \in SameAs(v, nodes')
           /\ \A e \in edges : (\A v \in Members(s) : Prunable(v, e) => e \in Asserted(v)) => e \in edges'
           /\ \A v \in Members(s) : Asserted(v) \subseteq edges'
BY DEF Project, MergeEdges

-----------------------------------------------------------------------------
(* Steps.                                                                  *)

WritersOK ==
    /\ published \in 0..Len(Dumps)
    /\ queue \in [DATA_TYPES -> Seq(Versions)] /\ batch \in [DATA_TYPES -> Seq(Versions)]
    /\ DOMAIN todo = DATA_TYPES
    /\ \A t \in DATA_TYPES : /\ DOMAIN todo[t] \subseteq DOMAIN batch[t]
                             /\ \A i \in DOMAIN todo[t] : todo[t][i] = batch[t][i]
    /\ stage \in [DATA_TYPES -> Stages]
    /\ unordered \subseteq Nodes /\ returns \in Nat

Hashes == {v.hash : v \in Versions} \cup {OldHash[n] : n \in DOMAIN OldHash} \cup {NoHash}

GraphOK ==
    /\ nodes \subseteq Nodes /\ marked \subseteq nodes
    /\ hash \in [Nodes -> Hashes]
    /\ DOMAIN name = Nodes
    /\ \A n \in Nodes \ nodes : hash[n] = NoHash /\ name[n] = NoName
    /\ Ends(edges) \subseteq nodes
    /\ overlapped \in BOOLEAN /\ mixed \subseteq Nodes

LEMMA TypeParts == TypeOK <=> WritersOK /\ GraphOK
BY DEF TypeOK, WritersOK, GraphOK, Hashes

LEMMA NeededRow ==
    ASSUME NEW v \in Versions
    PROVE  Rows(Needed(<<v>>))
<1>1. DOMAIN Needed(<<v>>) \subseteq 1..1
  BY DEF Needed
<1>2. \A i \in DOMAIN Needed(<<v>>) : Needed(<<v>>)[i] = v
  BY DEF Needed
<1> QED BY <1>1, <1>2 DEF Rows

LEMMA TodoRows ==
    ASSUME WritersOK, NEW t \in DATA_TYPES
    PROVE  Rows(todo[t])
<1>1. batch[t] \in Seq(Versions)
  BY DEF WritersOK
<1>2. Len(batch[t]) \in Nat /\ DOMAIN batch[t] = 1..Len(batch[t]) /\ \A i \in DOMAIN batch[t] : batch[t][i] \in Versions
  BY <1>1
<1>3. DOMAIN todo[t] \subseteq DOMAIN batch[t] /\ \A i \in DOMAIN todo[t] : todo[t][i] = batch[t][i]
  BY DEF WritersOK
<1> QED BY <1>2, <1>3 DEF Rows

\* The graph changes by a transaction over rows, or by one of the cleanups.
Untouched == UNCHANGED <<nodes, hash, name, edges, overlapped, mixed>> /\ (marked' = marked \/ marked' = {})

LEMMA GraphSteps ==
    ASSUME WritersOK, [Next]_vars
    PROVE  \/ \E s : Rows(s) /\ Project(s)
           \/ Untouched
           \/ \E t \in DATA_TYPES : SelectStubs(t)
           \/ DeleteStubs \/ DeleteSentinelEdges \/ DeleteSentinel \/ Backfill
<1>1. CASE UNCHANGED vars
  BY <1>1 DEF vars, graph, Untouched
<1>2. CASE Publish
  BY <1>2 DEF Publish, graph, Untouched
<1>3. ASSUME NEW t \in DATA_TYPES, ReadHashes(t) \/ Settle(t) \/ HoldReturn(t) \/ Repeat(t)
      PROVE  Untouched
  BY <1>3 DEF ReadHashes, Settle, HoldReturn, Repeat, graph, Untouched
<1>4. ASSUME NEW t \in DATA_TYPES, batch_write(t)
      PROVE  \E s : Rows(s) /\ Project(s)
  BY <1>4, TodoRows DEF batch_write
<1>5. ASSUME NEW t \in DATA_TYPES, process_record(t)
      PROVE  \E s : Rows(s) /\ Project(s)
  <2>1. PICK i \in 1..Prefetch : i <= Len(queue[t]) /\ Project(Needed(<<queue[t][i]>>))
    BY <1>5 DEF process_record
  <2>2. queue[t] \in Seq(Versions)
    BY DEF WritersOK
  <2>3. queue[t][i] \in Versions
    BY <2>1, <2>2, LoadedAssumption
  <2> QED BY <2>1, <2>3, NeededRow
<1>6. CASE SweepStops
  BY <1>6 DEF SweepStops, graph, Untouched
<1> QED BY <1>1, <1>2, <1>3, <1>4, <1>5, <1>6 DEF Next, WriterStep, FaultStep, SweepStep

LEMMA WritersStep ==
    ASSUME WritersOK, [Next]_vars
    PROVE  WritersOK'
<1> USE DEF WritersOK
<1>1. CASE UNCHANGED vars
  BY <1>1 DEF vars, writers
<1>2. CASE Publish
  <2>1. Dumps[published + 1] \in [DATA_TYPES -> Seq(Versions)]
    BY <1>2, LoadedAssumption DEF Publish
  <2>2. \A t \in DATA_TYPES : queue[t] \o Dumps[published + 1][t] \in Seq(Versions)
    BY <2>1
  <2>3. Len(Dumps) \in Nat
    BY LoadedAssumption
  <2> QED BY <1>2, <2>2, <2>3 DEF Publish
<1>3. ASSUME NEW t \in DATA_TYPES, ReadHashes(t)
      PROVE  WritersOK'
  <2>1. PICK n \in 1..BatchSize :
           /\ n <= Len(queue[t])
           /\ batch' = [batch EXCEPT ![t] = SubSeq(queue[t], 1, n)]
           /\ todo' = [todo EXCEPT ![t] = ToWrite(batch'[t])]
    BY <1>3 DEF ReadHashes
  <2>2. queue[t] \in Seq(Versions)
    OBVIOUS
  <2>3. SubSeq(queue[t], 1, n) \in Seq(Versions)
    BY <2>1, <2>2, LoadedAssumption
  <2>4. batch' \in [DATA_TYPES -> Seq(Versions)]
    BY <2>1, <2>3
  <2>5. /\ DOMAIN ToWrite(batch'[t]) \subseteq DOMAIN batch'[t]
        /\ \A i \in DOMAIN ToWrite(batch'[t]) : ToWrite(batch'[t])[i] = batch'[t][i]
    BY DEF ToWrite
  <2>6. \A u \in DATA_TYPES : /\ DOMAIN todo'[u] \subseteq DOMAIN batch'[u]
                              /\ \A i \in DOMAIN todo'[u] : todo'[u][i] = batch'[u][i]
    BY <2>1, <2>5
  <2>7. DOMAIN todo' = DATA_TYPES
    BY <2>1
  <2> QED BY <1>3, <2>4, <2>6, <2>7 DEF ReadHashes, Stages
<1>4. ASSUME NEW t \in DATA_TYPES, batch_write(t)
      PROVE  WritersOK'
  <2>1. Twice(batch[t]) \subseteq Nodes
    BY DEF Twice
  <2> QED BY <1>4, <2>1 DEF batch_write, Stages
<1>5. ASSUME NEW t \in DATA_TYPES, Settle(t)
      PROVE  WritersOK'
  <2>1. Len(batch[t]) \in Nat /\ SubSeq(queue[t], Len(batch[t]) + 1, Len(queue[t])) \in Seq(Versions)
    OBVIOUS
  <2> QED BY <1>5, <2>1 DEF Settle, Stages
<1>6. ASSUME NEW t \in DATA_TYPES, Repeat(t)
      PROVE  WritersOK'
  BY <1>6 DEF Repeat, Stages, Faulty
<1>7. ASSUME NEW t \in DATA_TYPES, HoldReturn(t)
      PROVE  WritersOK'
  <2>1. queue[t] \in Seq(Versions) /\ queue[t] # <<>>
    BY <1>7 DEF HoldReturn
  <2>2. Append(Tail(queue[t]), Head(queue[t])) \in Seq(Versions)
    BY <2>1
  <2>3. Twice(queue[t]) \subseteq Nodes
    BY DEF Twice
  <2>4. queue' = [queue EXCEPT ![t] = Append(Tail(@), Head(@))] /\ unordered' \subseteq Nodes /\ returns' \in Nat
        /\ UNCHANGED <<published, batch, todo, stage>>
    BY <1>7, <2>3 DEF HoldReturn, Faulty
  <2>5. queue' \in [DATA_TYPES -> Seq(Versions)]
    BY <2>2, <2>4
  <2> QED BY <2>4, <2>5
<1>8. ASSUME NEW t \in DATA_TYPES, process_record(t)
      PROVE  WritersOK'
  <2>1. PICK i \in 1..Prefetch :
           /\ i <= Len(queue[t])
           /\ unordered' = unordered \cup (Twice(SubSeq(queue[t], 1, i)) \cap {Key(queue[t][i])})
           /\ \/ queue' = [queue EXCEPT ![t] = SubSeq(@, 1, i - 1) \o SubSeq(@, i + 1, Len(@))] /\ UNCHANGED returns
              \/ UNCHANGED queue /\ Faulty
    BY <1>8 DEF process_record
  <2>2. queue[t] \in Seq(Versions) /\ Len(queue[t]) \in Nat
    OBVIOUS
  <2>3. SubSeq(queue[t], 1, i - 1) \in Seq(Versions) /\ SubSeq(queue[t], i + 1, Len(queue[t])) \in Seq(Versions)
    BY <2>1, <2>2, LoadedAssumption
  <2>4. SubSeq(queue[t], 1, i - 1) \o SubSeq(queue[t], i + 1, Len(queue[t])) \in Seq(Versions)
    BY <2>3
  <2>5. queue' \in [DATA_TYPES -> Seq(Versions)] /\ returns' \in Nat
    <3>1. CASE queue' = [queue EXCEPT ![t] = SubSeq(@, 1, i - 1) \o SubSeq(@, i + 1, Len(@))] /\ UNCHANGED returns
      <4> DEFINE rest == SubSeq(queue[t], 1, i - 1) \o SubSeq(queue[t], i + 1, Len(queue[t]))
      <4>1. queue' = [queue EXCEPT ![t] = rest] /\ rest \in Seq(Versions) /\ returns' = returns
        BY <2>4, <3>1
      <4> HIDE DEF rest
      <4> QED BY <4>1
    <3>2. CASE UNCHANGED queue /\ Faulty
      BY <3>2 DEF Faulty
    <3> QED BY <2>1, <3>1, <3>2
  <2>6. Twice(SubSeq(queue[t], 1, i)) \subseteq Nodes
    BY DEF Twice
  <2>7. UNCHANGED <<published, batch, todo, stage>>
    BY <1>8 DEF process_record
  <2> QED BY <2>1, <2>5, <2>6, <2>7
<1>9. CASE SweepStep \/ Backfill
  BY <1>9 DEF SweepStep, SelectStubs, DeleteStubs, SweepStops, DeleteSentinelEdges, DeleteSentinel, Backfill, writers
<1> QED BY <1>1, <1>2, <1>3, <1>4, <1>5, <1>6, <1>7, <1>8, <1>9 DEF Next, WriterStep, FaultStep

-----------------------------------------------------------------------------
(* Type correctness.                                                       *)

LEMMA ProjectGraph ==
    ASSUME GraphOK, NEW s, Rows(s), Project(s)
    PROVE  GraphOK'
<1>1. /\ \A v \in Members(s) : v \in Versions /\ Key(v) \in nodes'
      /\ nodes \subseteq nodes'
      /\ \A n \in nodes' : n \in nodes \/ \E v \in Members(s) : n = Key(v) \/ n \in Ends(Asserted(v))
      /\ \A v \in Members(s) : Ends(Asserted(v)) \subseteq nodes'
  BY ProjectEffect
<1>2. \A v \in Versions : Key(v) \in Nodes /\ Ends(Asserted(v)) \subseteq Nodes
  BY DEF Nodes, Ends
<1>3. nodes' \subseteq Nodes /\ marked' \subseteq nodes'
  BY <1>1, <1>2 DEF GraphOK, Project
<1>4. hash' \in [Nodes -> Hashes]
  <2>1. \A n \in Nodes : hash'[n] \in Hashes
    <3> SUFFICES ASSUME NEW n \in Nodes PROVE hash'[n] \in Hashes
      OBVIOUS
    <3>1. CASE \A v \in Members(s) : Key(v) # n
      BY <3>1, ProjectHashes DEF GraphOK
    <3>2. CASE \E v \in Members(s) : Key(v) = n
      <4>1. PICK w \in Members(s) : hash'[n] = w.hash
        BY <3>2, ProjectHashes
      <4> QED BY <1>1, <4>1 DEF Hashes
    <3> QED BY <3>1, <3>2
  <2>2. hash' = [n \in Nodes |-> IF \E v \in Members(s) : Key(v) = n THEN Last(s, n).hash ELSE hash[n]]
    BY DEF Project
  <2> QED BY <2>1, <2>2
<1>5. DOMAIN name' = Nodes
  BY DEF Project, MergeNames
<1>6. ASSUME NEW n \in Nodes \ nodes'
      PROVE  hash'[n] = NoHash /\ name'[n] = NoName
  <2>1. n \notin nodes /\ \A v \in Members(s) : Key(v) # n /\ n \notin Ends(Asserted(v))
    BY <1>1
  <2>2. \A v \in Members(s) : ReferenceNames(v, n) = {}
    BY <1>1, <2>1, NamedIsReferred
  <2>3. hash[n] = NoHash /\ name[n] = NoName
    BY <2>1 DEF GraphOK
  <2> QED BY <2>1, <2>2, <2>3, ProjectHashes, ProjectNames
<1>7. Ends(edges') \subseteq nodes'
  <2> SUFFICES ASSUME NEW e \in edges' PROVE e[1] \in nodes' /\ e[3] \in nodes'
    BY DEF Ends
  <2>1. CASE e \in edges
    BY <1>1, <2>1 DEF GraphOK, Ends
  <2>2. ASSUME NEW v \in Members(s), e \in Asserted(v) PROVE e[1] \in nodes' /\ e[3] \in nodes'
    BY <1>1, <2>2 DEF Ends
  <2>3. ASSUME NEW v \in Members(s), e \in SameAs(v, nodes') PROVE e[1] \in nodes' /\ e[3] \in nodes'
    BY <1>1, <2>3, SameAsHarmless
  <2> QED BY <2>1, <2>2, <2>3, ProjectEdges
<1>8. Twice(s) \subseteq Nodes
  BY DEF Twice
<1>9. overlapped' \in BOOLEAN /\ mixed' \subseteq Nodes
  BY <1>8 DEF Project, GraphOK
<1> QED BY <1>3, <1>4, <1>5, <1>6, <1>7, <1>9 DEF GraphOK

LEMMA GoneGraph ==
    ASSUME GraphOK, NEW S, Gone(S), marked' \subseteq marked \ S, UNCHANGED <<overlapped, mixed>>
    PROVE  GraphOK'
<1>1. /\ nodes' = nodes \ S
      /\ hash' = [n \in Nodes |-> IF n \in S THEN NoHash ELSE hash[n]]
      /\ name' = [n \in Nodes |-> IF n \in S THEN NoName ELSE name[n]]
      /\ edges' = {e \in edges : e[1] \notin S /\ e[3] \notin S}
  BY DEF Gone
<1>2. NoHash \in Hashes
  BY DEF Hashes
<1>3. hash' \in [Nodes -> Hashes]
  BY <1>1, <1>2 DEF GraphOK
<1>4. \A n \in Nodes \ nodes' : hash'[n] = NoHash /\ name'[n] = NoName
  BY <1>1 DEF GraphOK
<1>5. Ends(edges') \subseteq nodes'
  BY <1>1 DEF GraphOK, Ends
<1> QED BY <1>1, <1>3, <1>4, <1>5 DEF GraphOK

LEMMA GraphStep ==
    ASSUME WritersOK, GraphOK, [Next]_vars
    PROVE  GraphOK'
<1>1. ASSUME NEW s, Rows(s), Project(s) PROVE GraphOK'
  BY <1>1, ProjectGraph
<1>2. CASE Untouched
  BY <1>2 DEF Untouched, GraphOK
<1>3. ASSUME NEW t \in DATA_TYPES, SelectStubs(t) PROVE GraphOK'
  BY <1>3 DEF SelectStubs, graph, GraphOK
<1>4. CASE DeleteStubs
  <2>1. PICK S : S \subseteq marked /\ Gone(S) /\ marked' = marked \ S /\ UNCHANGED <<overlapped, mixed>>
    BY <1>4 DEF DeleteStubs
  <2> QED BY <2>1, GoneGraph
<1>5. CASE DeleteSentinelEdges
  <2>1. edges' \subseteq edges /\ UNCHANGED <<nodes, hash, name, marked, overlapped, mixed>>
    BY <1>5 DEF DeleteSentinelEdges
  <2> QED BY <2>1 DEF GraphOK, Ends
<1>6. CASE DeleteSentinel
  BY <1>6, GoneGraph DEF DeleteSentinel
<1>7. CASE Backfill
  <2>1. PICK n \in nodes : name' = [name EXCEPT ![n] = BackfillName[n]] /\ UNCHANGED <<nodes, hash, edges, marked, overlapped, mixed>>
    BY <1>7 DEF Backfill
  <2> QED BY <2>1 DEF GraphOK
<1> QED BY <1>1, <1>2, <1>3, <1>4, <1>5, <1>6, <1>7, GraphSteps

LEMMA InitTypes == Init => TypeOK
<1> SUFFICES ASSUME Init PROVE TypeOK
  OBVIOUS
<1>1. Len(Dumps) \in Nat
  BY LoadedAssumption
<1>2. WritersOK
  BY <1>1 DEF Init, WritersOK, Stages
<1>3. nodes = DOMAIN OldHash \cup Ends(OldEdges) /\ nodes \subseteq Nodes
  BY DEF Init, Nodes
<1>4. hash \in [Nodes -> Hashes]
  BY DEF Init, Hashes
<1>5. GraphOK
  BY <1>3, <1>4 DEF Init, GraphOK
<1> QED BY <1>2, <1>5, TypeParts

\* Queues, batches and stages are what their names say; a node that is not in
\* the graph has neither hash nor name, and no edge of the graph, whoever wrote
\* it and whatever was swept since, ends at a node that is not there
\* (batch_projection.py:126, graphinator.py:1856).
THEOREM ProjectionTypeCorrect == Spec => []TypeOK
<1>1. Init => TypeOK
  BY InitTypes
<1>2. TypeOK /\ [Next]_vars => TypeOK'
  <2> SUFFICES ASSUME TypeOK, [Next]_vars PROVE WritersOK' /\ GraphOK'
    BY DEF TypeOK, WritersOK, GraphOK, Hashes
  <2> QED BY TypeParts, WritersStep, GraphStep
<1> QED BY <1>1, <1>2, PTL DEF Spec

-----------------------------------------------------------------------------
(* The names of records.                                                   *)

LEMMA KeyIsNode ==
    ASSUME NEW v \in Versions
    PROVE  Key(v) \in Nodes /\ Ends(Asserted(v)) \subseteq Nodes
BY DEF Nodes, Ends

\* No version is in the graph before it is published.
LEMMA InitHashes ==
    ASSUME Init, NEW v \in Versions
    PROVE  hash[Key(v)] # v.hash
<1>1. hash[Key(v)] = IF Key(v) \in DOMAIN OldHash THEN OldHash[Key(v)] ELSE NoHash
  BY KeyIsNode DEF Init
<1> QED BY <1>1, RecordsAssumption, LoadedAssumption

\* A row that leaves the hash of v at its node is v.
LEMMA SameVersion ==
    ASSUME NEW v \in Versions, NEW s, Rows(s), Project(s), hash'[Key(v)] = v.hash,
           \E w \in Members(s) : Key(w) = Key(v)
    PROVE  v \in Members(s) /\ name'[Key(v)] = v.name
<1>1. PICK w \in Members(s) : Key(w) = Key(v) /\ hash'[Key(v)] = w.hash /\ name'[Key(v)] = w.name
  BY ProjectHashes, KeyIsNode
<1>2. w \in Versions
  BY ProjectEffect
<1>3. w = v
  BY <1>1, <1>2, RecordsAssumption
<1> QED BY <1>1, <1>3

LEMMA OwnNamesStep ==
    ASSUME WritersOK, GraphOK, OwnNameStays, [Next]_vars
    PROVE  OwnNameStays'
<1> SUFFICES ASSUME NEW v \in Versions, hash'[Key(v)] = v.hash PROVE name'[Key(v)] = v.name
  BY DEF OwnNameStays
<1>0. Key(v) \in Nodes /\ v.hash # NoHash /\ v.name # NoName
  BY KeyIsNode, RecordsAssumption
<1>1. hash[Key(v)] = v.hash => name[Key(v)] = v.name
  BY DEF OwnNameStays
<1>2. ASSUME NEW s, Rows(s), Project(s) PROVE name'[Key(v)] = v.name
  <2>1. CASE \E w \in Members(s) : Key(w) = Key(v)
    BY <1>2, <2>1, SameVersion
  <2>2. CASE \A w \in Members(s) : Key(w) # Key(v)
    BY <1>0, <1>1, <1>2, <2>2, ProjectHashes, ProjectNames
  <2> QED BY <2>1, <2>2
<1>3. CASE Untouched
  BY <1>1, <1>3 DEF Untouched
<1>4. ASSUME NEW t \in DATA_TYPES, SelectStubs(t) PROVE name'[Key(v)] = v.name
  BY <1>1, <1>4 DEF SelectStubs, graph
<1>5. ASSUME NEW S, Gone(S) PROVE name'[Key(v)] = v.name
  BY <1>0, <1>1, <1>5 DEF Gone
<1>6. CASE DeleteSentinelEdges
  BY <1>1, <1>6 DEF DeleteSentinelEdges
<1>7. CASE Backfill
  <2>1. PICK n \in nodes : name[n] = NoName /\ name' = [name EXCEPT ![n] = BackfillName[n]] /\ UNCHANGED hash
    BY <1>7 DEF Backfill
  <2>2. n # Key(v)
    BY <1>0, <1>1, <2>1
  <2> QED BY <1>0, <1>1, <2>1, <2>2 DEF GraphOK
<1> QED BY <1>2, <1>3, <1>4, <1>5, <1>6, <1>7, GraphSteps DEF DeleteStubs, DeleteSentinel

\* The node of a record carries the name of the version whose hash it stores:
\* no release that refers to it and no row of the backfill changes it
\* (batch_projection.py:729, stub_name_backfill.py:36).
THEOREM OwnNamesStay == Spec => []OwnNameStays
<1>1. Init => OwnNameStays
  BY InitHashes DEF OwnNameStays
<1>2. TypeOK /\ OwnNameStays /\ [Next]_vars => OwnNameStays'
  BY TypeParts, OwnNamesStep
<1> QED BY <1>1, <1>2, ProjectionTypeCorrect, PTL DEF Spec

-----------------------------------------------------------------------------
(* The edges a stored hash vouches for.                                    *)

\* What the sweep chose stays deletable while no writer commits beside it.
StubsStayIsolated == ~overlapped => \A n \in marked : Isolated(n)

EdgesInv == HashTellsTheEdges /\ ReferencesAreNamed /\ StubsStayIsolated

LEMMA ProjectNothing ==
    ASSUME GraphOK, NEW s, Project(s), DOMAIN s = {}
    PROVE  UNCHANGED <<nodes, hash, edges>>
<1>1. Members(s) = {}
  BY DEF Members
<1>2. nodes' = nodes
  BY <1>1 DEF Project, Ends
<1>3. edges' = edges
  BY <1>1 DEF Project, MergeEdges
<1>4. hash' = [n \in Nodes |-> hash[n]]
  BY <1>1 DEF Project
<1>5. hash' = hash
  BY <1>4 DEF GraphOK
<1> QED BY <1>2, <1>3, <1>5

\* A transaction establishes the edges of the versions it writes and leaves
\* those of the others.
LEMMA ProjectKeepsEdges ==
    ASSUME GraphOK, HashTellsTheEdges, NEW s, Rows(s), Project(s)
    PROVE  HashTellsTheEdges'
<1> SUFFICES ASSUME NEW v \in Versions, hash'[Key(v)] = v.hash, Key(v) # Sentinel, ~overlapped'
             PROVE  /\ Asserted(v) \subseteq edges'
                    /\ Key(v) \notin mixed' => \A e \in edges' : Prunable(v, e) => e \in Asserted(v)
  BY DEF HashTellsTheEdges
<1>1. ~overlapped
  BY DEF Project
<1>2. \A w \in Members(s) : w \in Versions
  BY ProjectEffect
<1>3. CASE \E w \in Members(s) : Key(w) = Key(v)
  <2>1. v \in Members(s)
    BY <1>3, SameVersion
  <2>2. Asserted(v) \subseteq edges'
    BY <2>1, ProjectEdges
  <2>3. ASSUME Key(v) \notin mixed', NEW e \in edges', Prunable(v, e)
        PROVE  e \in Asserted(v)
    <3>1. CASE e \in edges /\ \A w \in Members(s) : Prunable(w, e) => e \in Asserted(w)
      BY <2>1, <2>3, <3>1
    <3>2. ASSUME NEW w \in Members(s), e \in Asserted(w) PROVE e \in Asserted(v)
      <4>1. Key(v) = Key(w)
        BY <1>2, <2>3, <3>2, AssertedHarmless DEF Harmless
      <4>2. Key(v) \notin Twice(s)
        BY <2>3 DEF Project
      <4>3. v = w
        BY <2>1, <4>1, <4>2, KeyIsNode DEF Twice
      <4> QED BY <3>2, <4>3
    <3>3. ASSUME NEW w \in Members(s), e \in SameAs(w, nodes') PROVE FALSE
      BY <1>2, <2>3, <3>3, SameAsHarmless
    <3> QED BY <3>1, <3>2, <3>3, ProjectEdges
  <2> QED BY <2>2, <2>3
<1>4. CASE \A w \in Members(s) : Key(w) # Key(v)
  <2>1. hash[Key(v)] = v.hash
    BY <1>4, ProjectHashes, KeyIsNode
  <2>2. /\ Asserted(v) \subseteq edges
        /\ Key(v) \notin mixed => \A e \in edges : Prunable(v, e) => e \in Asserted(v)
    BY <1>1, <2>1 DEF HashTellsTheEdges
  <2>3. \A e \in Asserted(v), w \in Members(s) : ~Prunable(w, e)
    BY <1>2, <1>4, AssertedHarmless DEF Harmless
  <2>4. Asserted(v) \subseteq edges'
    BY <2>2, <2>3, ProjectEdges
  <2>5. ASSUME Key(v) \notin mixed', NEW e \in edges', Prunable(v, e)
        PROVE  e \in Asserted(v)
    <3>1. Key(v) \notin mixed
      BY <1>4, <2>5 DEF Project
    <3>2. \A w \in Members(s) : e \notin Asserted(w)
      BY <1>2, <1>4, <2>5, AssertedHarmless DEF Harmless
    <3>3. \A w \in Members(s) : e \notin SameAs(w, nodes')
      BY <1>2, <2>5, SameAsHarmless
    <3> QED BY <2>2, <2>5, <3>1, <3>2, <3>3, ProjectEdges
  <2> QED BY <2>4, <2>5
<1> QED BY <1>3, <1>4

LEMMA ProjectKeepsNames ==
    ASSUME GraphOK, HashTellsTheEdges, ReferencesAreNamed, NEW s, Rows(s), Project(s)
    PROVE  ReferencesAreNamed'
<1> SUFFICES ASSUME NEW v \in Versions, hash'[Key(v)] = v.hash, ~overlapped',
                    NEW n \in nodes', ReferenceNames(v, n) # {}
             PROVE  name'[n] # NoName
  BY DEF ReferencesAreNamed
<1>1. ~overlapped
  BY DEF Project
<1>2. GraphOK' /\ n \in Nodes
  BY ProjectGraph DEF GraphOK
<1>3. CASE \E w \in Members(s) : Key(w) = n
  <2>1. PICK w \in Members(s) : name'[n] = w.name
    BY <1>2, <1>3, ProjectHashes
  <2> QED BY <2>1, ProjectEffect, RecordsAssumption
<1>4. CASE (\A w \in Members(s) : Key(w) # n) /\ \E w \in Members(s) : Key(w) = Key(v)
  <2>1. v \in Members(s)
    BY <1>4, SameVersion
  <2> QED BY <1>2, <1>4, <2>1, ProjectNames
<1>5. CASE (\A w \in Members(s) : Key(w) # n) /\ \A w \in Members(s) : Key(w) # Key(v)
  <2>1. hash[Key(v)] = v.hash
    BY <1>5, ProjectHashes, KeyIsNode
  <2>2. Asserted(v) \subseteq edges
    <3>1. v.kind = "releases"
      BY DEF ReferenceNames
    <3>2. Key(v)[1] = "Release" /\ Sentinel[1] = "Master"
      BY <3>1 DEF Key, LabelOf, Sentinel
    <3> QED BY <1>1, <2>1, <3>2 DEF HashTellsTheEdges
  <2>3. n \in nodes
    BY <2>2, NamedIsReferred DEF GraphOK, Ends
  <2>4. name[n] # NoName
    BY <1>1, <2>1, <2>3 DEF ReferencesAreNamed
  <2> QED BY <1>2, <1>5, <2>4, ProjectNames
<1> QED BY <1>3, <1>4, <1>5

LEMMA ProjectKeepsStubs ==
    ASSUME GraphOK, StubsStayIsolated, NEW s, Rows(s), Project(s)
    PROVE  StubsStayIsolated'
<1> SUFFICES ASSUME ~overlapped', NEW n \in marked' PROVE Isolated(n)'
  BY DEF StubsStayIsolated
<1>1. ~overlapped /\ n \in marked /\ DOMAIN s = {}
  BY DEF Project
<1>2. UNCHANGED <<hash, edges>>
  BY <1>1, ProjectNothing
<1>3. Isolated(n)
  BY <1>1 DEF StubsStayIsolated
<1> QED BY <1>2, <1>3 DEF Isolated, Touching

\* A deletion that touches no asserted edge of a written version.
LEMMA GoneKeepsEdges ==
    ASSUME GraphOK, EdgesInv, NEW S, Gone(S), marked' \subseteq marked \ S, overlapped' = overlapped, mixed' = mixed,
           ~overlapped => \A v \in Versions : Key(v) # Sentinel =>
               \A e \in Asserted(v) \cap edges : e[1] \notin S /\ e[3] \notin S
    PROVE  EdgesInv'
<1>1. /\ nodes' = nodes \ S
      /\ \A n \in Nodes : hash'[n] = IF n \in S THEN NoHash ELSE hash[n]
      /\ \A n \in Nodes : name'[n] = IF n \in S THEN NoName ELSE name[n]
      /\ edges' = {e \in edges : e[1] \notin S /\ e[3] \notin S}
  BY DEF Gone
<1>2. \A v \in Versions : hash'[Key(v)] = v.hash => hash[Key(v)] = v.hash
  BY <1>1, KeyIsNode, RecordsAssumption
<1>3. HashTellsTheEdges'
  <2> SUFFICES ASSUME NEW v \in Versions, hash'[Key(v)] = v.hash, Key(v) # Sentinel, ~overlapped'
               PROVE  /\ Asserted(v) \subseteq edges'
                      /\ Key(v) \notin mixed' => \A e \in edges' : Prunable(v, e) => e \in Asserted(v)
    BY DEF HashTellsTheEdges
  <2>1. /\ Asserted(v) \subseteq edges
        /\ Key(v) \notin mixed => \A e \in edges : Prunable(v, e) => e \in Asserted(v)
    BY <1>2 DEF EdgesInv, HashTellsTheEdges
  <2> QED BY <1>1, <2>1
<1>4. ReferencesAreNamed'
  <2> SUFFICES ASSUME NEW v \in Versions, hash'[Key(v)] = v.hash, ~overlapped',
                      NEW n \in nodes', ReferenceNames(v, n) # {}
               PROVE  name'[n] # NoName
    BY DEF ReferencesAreNamed
  <2>1. n \in nodes /\ n \notin S /\ n \in Nodes
    BY <1>1 DEF GraphOK
  <2>2. name[n] # NoName
    BY <1>2, <2>1 DEF EdgesInv, ReferencesAreNamed
  <2> QED BY <1>1, <2>1, <2>2
<1>5. StubsStayIsolated'
  <2> SUFFICES ASSUME ~overlapped', NEW n \in marked' PROVE Isolated(n)'
    BY DEF StubsStayIsolated
  <2>1. n \in marked /\ n \notin S /\ n \in Nodes /\ Isolated(n)
    BY DEF EdgesInv, StubsStayIsolated, GraphOK
  <2> QED BY <1>1, <2>1 DEF Isolated, Touching
<1> QED BY <1>3, <1>4, <1>5 DEF EdgesInv

LEMMA EdgesStep ==
    ASSUME WritersOK, GraphOK, EdgesInv, [Next]_vars
    PROVE  EdgesInv'
<1>1. ASSUME NEW s, Rows(s), Project(s) PROVE EdgesInv'
  BY <1>1, ProjectKeepsEdges, ProjectKeepsNames, ProjectKeepsStubs DEF EdgesInv
<1>2. CASE Untouched
  <2>1. HashTellsTheEdges' /\ ReferencesAreNamed'
    BY <1>2 DEF Untouched, EdgesInv, HashTellsTheEdges, ReferencesAreNamed
  <2>2. StubsStayIsolated'
    BY <1>2 DEF Untouched, EdgesInv, StubsStayIsolated, Isolated, Touching
  <2> QED BY <2>1, <2>2 DEF EdgesInv
<1>3. ASSUME NEW t \in DATA_TYPES, SelectStubs(t) PROVE EdgesInv'
  <2>1. marked' = {n \in nodes : n[1] = LabelOf[t] /\ Isolated(n)} /\ UNCHANGED <<nodes, hash, name, edges, overlapped, mixed>>
    BY <1>3 DEF SelectStubs, graph
  <2>2. HashTellsTheEdges' /\ ReferencesAreNamed'
    BY <2>1 DEF EdgesInv, HashTellsTheEdges, ReferencesAreNamed
  <2>3. StubsStayIsolated'
    BY <2>1 DEF StubsStayIsolated, Isolated, Touching
  <2> QED BY <2>2, <2>3 DEF EdgesInv
<1>4. CASE DeleteStubs
  <2>1. PICK S : S \subseteq marked /\ Gone(S) /\ marked' = marked \ S /\ UNCHANGED <<overlapped, mixed>>
    BY <1>4 DEF DeleteStubs
  <2>2. ASSUME ~overlapped, NEW v \in Versions, NEW e \in Asserted(v) \cap edges
        PROVE  e[1] \notin S /\ e[3] \notin S
    <3>1. e[2] # "HAS_STYLE"
      BY AssertedHarmless DEF Harmless
    <3>2. \A n \in S : Isolated(n)
      BY <2>1, <2>2 DEF EdgesInv, StubsStayIsolated
    <3> QED BY <3>1, <3>2 DEF Isolated, Touching
  <2> QED BY <2>1, <2>2, GoneKeepsEdges
<1>5. CASE DeleteSentinelEdges
  <2>1. PICK S : S \subseteq Touching(Sentinel) /\ edges' = edges \ S /\ UNCHANGED <<nodes, hash, name, marked, overlapped, mixed>>
    BY <1>5 DEF DeleteSentinelEdges
  <2>2. \A v \in Versions : Key(v) # Sentinel => Asserted(v) \cap S = {}
    BY <2>1, AssertedHarmless DEF Harmless, Touching
  <2>3. HashTellsTheEdges'
    BY <2>1, <2>2 DEF EdgesInv, HashTellsTheEdges
  <2>4. ReferencesAreNamed'
    BY <2>1 DEF EdgesInv, ReferencesAreNamed
  <2>5. StubsStayIsolated'
    BY <2>1 DEF EdgesInv, StubsStayIsolated, Isolated, Touching
  <2> QED BY <2>3, <2>4, <2>5 DEF EdgesInv
<1>6. CASE DeleteSentinel
  <2>1. \A v \in Versions : Key(v) # Sentinel =>
            \A e \in Asserted(v) \cap edges : e[1] # Sentinel /\ e[3] # Sentinel
    BY AssertedHarmless DEF Harmless
  <2>2. Gone({Sentinel}) /\ marked' = marked \ {Sentinel} /\ UNCHANGED <<overlapped, mixed>>
    BY <1>6 DEF DeleteSentinel
  <2> QED BY <2>1, <2>2, GoneKeepsEdges
<1>7. CASE Backfill
  <2>1. PICK n \in nodes : /\ BackfillName[n] # NoName /\ name' = [name EXCEPT ![n] = BackfillName[n]]
                           /\ UNCHANGED <<nodes, hash, edges, marked, overlapped, mixed>>
    BY <1>7 DEF Backfill
  <2>2. HashTellsTheEdges'
    BY <2>1 DEF EdgesInv, HashTellsTheEdges
  <2>3. ReferencesAreNamed'
    BY <2>1 DEF EdgesInv, ReferencesAreNamed, GraphOK
  <2>4. StubsStayIsolated'
    BY <2>1 DEF EdgesInv, StubsStayIsolated, Isolated, Touching
  <2> QED BY <2>2, <2>3, <2>4 DEF EdgesInv
<1> QED BY <1>1, <1>2, <1>3, <1>4, <1>5, <1>6, <1>7, GraphSteps

\* The three facts hold together: a stub keeps no edge a stored hash vouches
\* for, so deleting it hurts none, and the edges keep the nodes a release names.
THEOREM ProjectionInvariant == Spec => []EdgesInv
<1>1. Init => EdgesInv
  BY InitHashes DEF EdgesInv, HashTellsTheEdges, ReferencesAreNamed, StubsStayIsolated, Init
<1>2. TypeOK /\ EdgesInv /\ [Next]_vars => EdgesInv'
  BY TypeParts, EdgesStep
<1> QED BY <1>1, <1>2, ProjectionTypeCorrect, PTL DEF Spec

\* The records the hash gate skips are whole: every edge the stored version
\* asserts is there and none it dropped, whatever order the four writers, their
\* retries and the cleanups ran in, as long as no sweep had stubs left to delete
\* when a writer committed (batch_projection.py:154, graphinator.py:1856).
THEOREM HashesTellTheEdges == Spec => []HashTellsTheEdges
<1>1. EdgesInv => HashTellsTheEdges
  BY DEF EdgesInv
<1> QED BY <1>1, ProjectionInvariant, PTL

\* A node a written release names has a name (batch_projection.py:729).
THEOREM ReferencesKeepNames == Spec => []ReferencesAreNamed
<1>1. EdgesInv => ReferencesAreNamed
  BY DEF EdgesInv
<1> QED BY <1>1, ProjectionInvariant, PTL

-----------------------------------------------------------------------------
(* Edges of other providers.                                               *)

\* Edges of other providers are the ones the graph was loaded with, and no
\* chosen stub has one.
ForeignInv == \A e \in edges : Foreign(e) => e \in OldEdges /\ e[1] \notin marked /\ e[3] \notin marked

\* No record prunes the edge of another provider.
LEMMA ForeignNotPruned ==
    ASSUME NEW e \in OldEdges, Foreign(e), NEW v \in Versions
    PROVE  ~Prunable(v, e)
<1>1. e[2] \in {"ISSUED_ON", "CREDITED_TO"} /\ e[5] # SOURCE
  BY LoadedAssumption DEF Foreign
<1> QED BY <1>1 DEF Prunable, OfSource

LEMMA ForeignStep ==
    ASSUME WritersOK, GraphOK, ForeignInv, [Next]_vars
    PROVE  ForeignInv' /\ \A e \in edges : Foreign(e) => e \in edges'
<1> DEFINE Good == ForeignInv' /\ \A e \in edges : Foreign(e) => e \in edges'
<1>1. ASSUME NEW s, Rows(s), Project(s) PROVE Good
  <2>1. \A v \in Members(s) : v \in Versions
    BY ProjectEffect, <1>1
  <2>2. \A e \in edges : Foreign(e) => e \in edges'
    BY <1>1, <2>1, ForeignNotPruned, ProjectEdges DEF ForeignInv
  <2>3. \A e \in edges' : Foreign(e) => e \in edges
    BY <1>1, <2>1, ProjectEdges, AssertedHarmless, SameAsHarmless DEF Harmless
  <2>4. marked' = marked
    BY <1>1 DEF Project
  <2> QED BY <2>2, <2>3, <2>4 DEF ForeignInv
<1>2. CASE Untouched
  BY <1>2 DEF Untouched, ForeignInv
<1>3. ASSUME NEW t \in DATA_TYPES, SelectStubs(t) PROVE Good
  <2>1. marked' = {n \in nodes : n[1] = LabelOf[t] /\ Isolated(n)} /\ UNCHANGED edges
    BY <1>3 DEF SelectStubs, graph
  <2>2. \A e \in edges : Foreign(e) => e[2] # "HAS_STYLE"
    BY LoadedAssumption DEF ForeignInv
  <2>3. \A e \in edges : Foreign(e) => ~Isolated(e[1]) /\ ~Isolated(e[3])
    BY <2>2 DEF Isolated, Touching
  <2> QED BY <2>1, <2>3 DEF ForeignInv
<1>4. CASE DeleteStubs
  <2>1. PICK S : S \subseteq marked /\ edges' = {e \in edges : e[1] \notin S /\ e[3] \notin S} /\ marked' = marked \ S
    BY <1>4 DEF DeleteStubs, Gone
  <2> QED BY <2>1 DEF ForeignInv
<1>5. CASE DeleteSentinelEdges
  <2>1. PICK S : S \subseteq Touching(Sentinel) /\ edges' = edges \ S /\ UNCHANGED marked
    BY <1>5 DEF DeleteSentinelEdges
  <2>2. \A e \in S : ~Foreign(e)
    BY <2>1, LoadedAssumption DEF ForeignInv, Touching
  <2> QED BY <2>1, <2>2 DEF ForeignInv
<1>6. CASE DeleteSentinel
  <2>1. edges' = {e \in edges : e[1] \notin {Sentinel} /\ e[3] \notin {Sentinel}} /\ marked' = marked \ {Sentinel}
    BY <1>6 DEF DeleteSentinel, Gone
  <2>2. \A e \in edges : Foreign(e) => e[1] # Sentinel /\ e[3] # Sentinel
    BY LoadedAssumption DEF ForeignInv
  <2> QED BY <2>1, <2>2 DEF ForeignInv
<1>7. CASE Backfill
  BY <1>7 DEF Backfill, ForeignInv
<1> QED BY <1>1, <1>2, <1>3, <1>4, <1>5, <1>6, <1>7, GraphSteps

\* No write, sweep or sentinel cleanup removes an edge another provider
\* asserted (media_projection.py:46, company_projection.py:64).
THEOREM ForeignEdgesAreKept == Spec => ForeignEdgesStay
<1>1. Init => ForeignInv
  BY DEF Init, ForeignInv
<1>2. WritersOK /\ GraphOK /\ ForeignInv /\ [Next]_vars => ForeignInv'
  BY ForeignStep
<1>3. WritersOK /\ GraphOK /\ ForeignInv /\ [Next]_vars => [\A e \in edges : Foreign(e) => e \in edges']_vars
  BY ForeignStep
<1>4. TypeOK => WritersOK /\ GraphOK
  BY TypeParts
<1> QED BY <1>1, <1>2, <1>3, <1>4, ProjectionTypeCorrect, PTL DEF Spec, ForeignEdgesStay

-----------------------------------------------------------------------------
(* The latest version of a record.                                         *)

LEMMA QueueRows ==
    ASSUME WritersOK, NEW t \in DATA_TYPES
    PROVE  /\ Len(queue[t]) \in Nat /\ DOMAIN queue[t] = 1..Len(queue[t])
           /\ \A i \in DOMAIN queue[t] : queue[t][i] \in Versions
           /\ Len(batch[t]) \in Nat /\ DOMAIN batch[t] = 1..Len(batch[t])
           /\ \A i \in DOMAIN batch[t] : batch[t][i] \in Versions
<1>1. queue[t] \in Seq(Versions) /\ batch[t] \in Seq(Versions)
  BY DEF WritersOK
<1> QED BY <1>1

\* The rows a writer of type t sends are of that type.
LEMMA RowsAreOfType ==
    ASSUME WritersOK, BatchInFront, NEW t \in DATA_TYPES
    PROVE  /\ \A i \in DOMAIN queue[t] : queue[t][i].kind = t
           /\ \A i \in DOMAIN batch[t] : i \in DOMAIN queue[t] /\ batch[t][i].kind = t
           /\ \A v \in Members(todo[t]) : v \in Versions /\ v.kind = t /\ \E i \in DOMAIN batch[t] : v = batch[t][i]
<1>1. \A i \in DOMAIN queue[t] : queue[t][i].kind = t
  BY DEF BatchInFront, Members
<1>2. Len(batch[t]) <= Len(queue[t]) /\ \A i \in DOMAIN batch[t] : batch[t][i] = queue[t][i]
  BY DEF BatchInFront
<1>3. \A i \in DOMAIN batch[t] : i \in DOMAIN queue[t] /\ batch[t][i].kind = t
  BY <1>1, <1>2, QueueRows
<1>4. \A v \in Members(todo[t]) : \E i \in DOMAIN batch[t] : v = batch[t][i]
  BY DEF Members, WritersOK
<1> QED BY <1>1, <1>3, <1>4, QueueRows

\* A row that is not stale leaves its node as it is, and one that is sets its
\* hash: either way the node holds it afterwards.
LEMMA OneRowWritten ==
    ASSUME NEW v \in Versions, Project(Needed(<<v>>))
    PROVE  /\ ~Stale(v)'
           /\ \A n \in Nodes : n # Key(v) => hash'[n] = hash[n]
<1> DEFINE s == Needed(<<v>>)
<1>1. Rows(s)
  BY NeededRow
<1>2. \A w \in Members(s) : w = v
  BY DEF Needed, Members
<1>3. CASE Stale(v)
  <2>1. v \in Members(s)
    <3>1. <<v>>[1] = v /\ 1 \in DOMAIN <<v>>
      OBVIOUS
    <3>2. 1 \in DOMAIN s /\ s[1] = v
      BY <1>3, <3>1 DEF Needed
    <3> QED BY <3>2 DEF Members
  <2> HIDE DEF s
  <2> QED BY <1>1, <1>2, <2>1, ProjectHashes, KeyIsNode DEF Stale, s
<1>4. CASE ~Stale(v)
  <2>1. \A w \in Members(s) : FALSE
    <3>1. \A i \in DOMAIN s : Stale(<<v>>[i]) /\ <<v>>[i] = v
      BY DEF Needed
    <3> QED BY <1>4, <3>1 DEF Members
  <2> HIDE DEF s
  <2> QED BY <1>1, <1>4, <2>1, ProjectHashes, KeyIsNode DEF Stale, s
<1> QED BY <1>3, <1>4

\* No cleanup takes the hash of a record away.
LEMMA CleanupKeepsHash ==
    ASSUME GraphOK, StubsStayIsolated, ~overlapped, SweepStep \/ Backfill,
           NEW v \in Versions, Key(v) # Sentinel, ~Stale(v)
    PROVE  ~Stale(v)'
<1>0. Key(v) \in Nodes /\ v.hash # NoHash /\ Key(v) # Sentinel /\ hash[Key(v)] = v.hash
  BY KeyIsNode, RecordsAssumption DEF Stale
<1>1. ASSUME NEW S, Gone(S), Key(v) \notin S PROVE ~Stale(v)'
  BY <1>0, <1>1 DEF Gone, Stale
<1>2. CASE DeleteStubs
  <2>1. PICK S : S \subseteq marked /\ Gone(S)
    BY <1>2 DEF DeleteStubs
  <2>2. Key(v) \notin S
    BY <1>0, <2>1 DEF StubsStayIsolated, Isolated
  <2> QED BY <1>1, <2>1, <2>2
<1>3. CASE DeleteSentinel
  BY <1>0, <1>1, <1>3 DEF DeleteSentinel
<1>4. CASE UNCHANGED hash
  BY <1>4 DEF Stale
<1> QED BY <1>2, <1>3, <1>4 DEF SweepStep, SelectStubs, SweepStops, DeleteSentinelEdges, Backfill, graph

\* Once a write has committed beside a marked stub, it stays noted.
LEMMA OverlapStays ==
    ASSUME [Next]_vars, overlapped \in BOOLEAN
    PROVE  ~overlapped' => ~overlapped
<1>1. ASSUME NEW s, Project(s) PROVE ~overlapped' => ~overlapped
  BY <1>1 DEF Project
<1>2. CASE UNCHANGED overlapped
  BY <1>2
<1> QED BY <1>1, <1>2 DEF Next, WriterStep, FaultStep, SweepStep, Publish, ReadHashes, batch_write, Settle, Repeat,
                          HoldReturn, process_record, SelectStubs, DeleteStubs, SweepStops, DeleteSentinelEdges,
                          DeleteSentinel, Backfill, vars

\* The sequences the queues become.
LEMMA DropFront ==
    ASSUME NEW s \in Seq(Versions), NEW k \in Nat, k <= Len(s), NEW r, r = SubSeq(s, k + 1, Len(s))
    PROVE  Len(r) = Len(s) - k /\ DOMAIN r = 1..(Len(s) - k) /\ \A j \in DOMAIN r : r[j] = s[k + j]
OBVIOUS

LEMMA Shifted ==
    ASSUME NEW a \in Nat, NEW b \in Nat
    PROVE  \A j \in 1..(a - b) : b + j \in 1..a
OBVIOUS

LEMMA Rotate ==
    ASSUME NEW s \in Seq(Versions), s # <<>>, NEW r, r = Append(Tail(s), Head(s))
    PROVE  /\ Len(r) = Len(s) /\ DOMAIN r = 1..Len(s)
           /\ r[Len(s)] = s[1]
           /\ \A j \in 1..Len(s) : j < Len(s) => r[j] = s[j + 1]
<1>1. Len(s) \in Nat /\ Len(s) >= 1
  OBVIOUS
<1> DEFINE a == Tail(s)
           h == Head(s)
<1>2. a \in Seq(Versions) /\ Len(a) = Len(s) - 1 /\ \A j \in 1..(Len(s) - 1) : a[j] = s[j + 1]
  BY <1>1
<1>3. h = s[1] /\ h \in Versions
  BY <1>1
<1>4. r = Append(a, h)
  OBVIOUS
<1> HIDE DEF a, h
<1>5. Len(r) = Len(a) + 1 /\ DOMAIN r = 1..(Len(a) + 1) /\ r[Len(a) + 1] = h /\ \A j \in 1..Len(a) : r[j] = a[j]
  BY <1>2, <1>3, <1>4
<1> QED BY <1>1, <1>2, <1>3, <1>5

LEMMA Longer ==
    ASSUME NEW s \in Seq(Versions), NEW r \in Seq(Versions)
    PROVE  /\ Len(s \o r) = Len(s) + Len(r) /\ DOMAIN (s \o r) = 1..(Len(s) + Len(r))
           /\ \A j \in 1..Len(s) : (s \o r)[j] = s[j]
           /\ \A j \in 1..Len(r) : (s \o r)[Len(s) + j] = r[j]
           /\ \A j \in (Len(s) + 1)..(Len(s) + Len(r)) : (s \o r)[j] = r[j - Len(s)]
OBVIOUS

Without(s, i) == SubSeq(s, 1, i - 1) \o SubSeq(s, i + 1, Len(s))

LEMMA TakeOut ==
    ASSUME NEW s \in Seq(Versions), NEW i \in 1..Len(s), NEW r, r = Without(s, i)
    PROVE  /\ Len(r) = Len(s) - 1 /\ DOMAIN r = 1..(Len(s) - 1)
           /\ \A j \in DOMAIN r : (j < i => r[j] = s[j]) /\ (j >= i => r[j] = s[j + 1])
<1>1. Len(s) \in Nat /\ i \in Nat /\ 1 <= i /\ i <= Len(s)
  OBVIOUS
<1> DEFINE a == SubSeq(s, 1, i - 1)
           b == SubSeq(s, i + 1, Len(s))
<1>2. a \in Seq(Versions) /\ Len(a) = i - 1 /\ \A j \in 1..(i - 1) : a[j] = s[j]
  BY <1>1
<1>3. b \in Seq(Versions) /\ Len(b) = Len(s) - i /\ \A j \in 1..(Len(s) - i) : b[j] = s[i + j]
  BY <1>1
<1>r. r = a \o b
  BY DEF Without
<1> HIDE DEF a, b
<1>4. /\ Len(a \o b) = Len(a) + Len(b) /\ DOMAIN (a \o b) = 1..(Len(a) + Len(b))
      /\ \A j \in 1..Len(a) : (a \o b)[j] = a[j]
      /\ \A j \in (Len(a) + 1)..(Len(a) + Len(b)) : (a \o b)[j] = b[j - Len(a)]
  BY <1>2, <1>3, Longer, Zenon
<1>5. Len(r) = Len(s) - 1 /\ DOMAIN r = 1..(Len(s) - 1)
  <2>1. Len(a) + Len(b) = Len(s) - 1
    BY <1>1, <1>2, <1>3
  <2> QED BY <1>4, <1>r, <2>1
<1>6. ASSUME NEW j \in 1..(Len(s) - 1), j < i PROVE r[j] = s[j]
  <2>1. j \in 1..Len(a) /\ j \in 1..(i - 1)
    BY <1>1, <1>2, <1>6
  <2> QED BY <1>2, <1>4, <1>r, <2>1
<1>7. ASSUME NEW j \in 1..(Len(s) - 1), j >= i PROVE r[j] = s[j + 1]
  <2>1. j \in (Len(a) + 1)..(Len(a) + Len(b)) /\ j - Len(a) \in 1..(Len(s) - i) /\ i + (j - Len(a)) = j + 1
    BY <1>1, <1>2, <1>3, <1>7
  <2> QED BY <1>3, <1>4, <1>r, <2>1
<1> QED BY <1>5, <1>6, <1>7

\* What the steps do to the queues: each changes at most one queue, and a batch
\* only moves from its front.
LEMMA FrontStep ==
    ASSUME WritersOK, BatchInFront, [Next]_vars
    PROVE  BatchInFront'
<1> DEFINE Front(t) == /\ stage[t] = "idle" => batch[t] = <<>>
                       /\ Len(batch[t]) <= Len(queue[t])
                       /\ \A i \in DOMAIN batch[t] : batch[t][i] = queue[t][i]
                       /\ \A i \in DOMAIN queue[t] : queue[t][i].kind = t
<1>0. \A t \in DATA_TYPES : Front(t)
  BY DEF BatchInFront, Members
<1>a. ASSUME \A t \in DATA_TYPES : Front(t)' PROVE BatchInFront'
  BY <1>a DEF BatchInFront, Members
<1> SUFFICES ASSUME NEW u \in DATA_TYPES PROVE Front(u)'
  BY <1>a
<1>q. queue[u] \in Seq(Versions) /\ batch[u] \in Seq(Versions) /\ Len(queue[u]) \in Nat /\ Len(batch[u]) \in Nat
  BY DEF WritersOK
<1>b. DOMAIN queue = DATA_TYPES /\ DOMAIN batch = DATA_TYPES /\ DOMAIN stage = DATA_TYPES
  BY DEF WritersOK
<1>1. CASE queue'[u] = queue[u] /\ batch'[u] = batch[u] /\ stage'[u] = stage[u]
  BY <1>0, <1>1
<1>2. CASE Publish
  <2>1. Dumps[published + 1] \in [DATA_TYPES -> Seq(Versions)] /\ published + 1 \in DOMAIN Dumps
    BY <1>2, LoadedAssumption DEF Publish, WritersOK
  <2> DEFINE d == Dumps[published + 1][u]
  <2>2. d \in Seq(Versions) /\ Len(d) \in Nat
    BY <2>1
  <2>3. \A i \in DOMAIN d : d[i].kind = u
    <3>1. \A v \in Members(d) : v.kind = u
      BY <2>1, DumpsAssumption
    <3> QED BY <3>1 DEF Members
  <2>4. queue'[u] = queue[u] \o d /\ batch'[u] = batch[u] /\ stage'[u] = stage[u]
    BY <1>2 DEF Publish
  <2> HIDE DEF d
  <2>5. \A i \in DOMAIN batch[u] : i \in 1..Len(queue[u])
    BY <1>0, <1>q
  <2>6. \A i \in DOMAIN queue'[u] : queue'[u][i].kind = u
    <3>1. \A i \in 1..Len(queue[u]) : i \in DOMAIN queue[u]
      BY <1>q
    <3>2. \A i \in (Len(queue[u]) + 1)..(Len(queue[u]) + Len(d)) : i - Len(queue[u]) \in DOMAIN d
      BY <1>q, <2>2
    <3> QED BY <1>0, <1>q, <2>2, <2>3, <2>4, <3>1, <3>2, Longer
  <2>7. Len(queue'[u]) = Len(queue[u]) + Len(d)
    BY <1>q, <2>2, <2>4
  <2> QED BY <1>0, <1>q, <2>2, <2>4, <2>5, <2>6, <2>7, Longer
<1>3. CASE ReadHashes(u)
  <2>1. PICK n \in 1..BatchSize : n <= Len(queue[u]) /\ batch' = [batch EXCEPT ![u] = SubSeq(queue[u], 1, n)]
    BY <1>3 DEF ReadHashes
  <2>2. n \in Nat /\ batch'[u] = SubSeq(queue[u], 1, n)
    BY <1>b, <2>1, LoadedAssumption
  <2>3. Len(batch'[u]) = n /\ DOMAIN batch'[u] = 1..n /\ \A i \in 1..n : batch'[u][i] = queue[u][i]
    BY <1>q, <2>1, <2>2
  <2>4. stage'[u] = "read" /\ queue' = queue
    BY <1>3, <1>b DEF ReadHashes
  <2> QED BY <1>0, <2>1, <2>3, <2>4
<1>4. CASE batch_write(u)
  BY <1>0, <1>4, <1>b DEF batch_write
<1>5. CASE Settle(u)
  <2>1. /\ queue'[u] = SubSeq(queue[u], Len(batch[u]) + 1, Len(queue[u]))
        /\ batch'[u] = <<>>
    BY <1>5, <1>b DEF Settle
  <2>2. Len(batch[u]) <= Len(queue[u])
    BY <1>0
  <2>3. /\ Len(queue'[u]) = Len(queue[u]) - Len(batch[u])
        /\ DOMAIN queue'[u] = 1..(Len(queue[u]) - Len(batch[u]))
        /\ \A j \in DOMAIN queue'[u] : queue'[u][j] = queue[u][Len(batch[u]) + j]
    <3> DEFINE s == queue[u]
               k == Len(batch[u])
               r == queue'[u]
    <3>1. s \in Seq(Versions) /\ k \in Nat /\ k <= Len(s) /\ r = SubSeq(s, k + 1, Len(s))
      BY <1>q, <2>1, <2>2
    <3> HIDE DEF s, k, r
    <3>2. Len(r) = Len(s) - k /\ DOMAIN r = 1..(Len(s) - k) /\ \A j \in DOMAIN r : r[j] = s[k + j]
      BY <3>1, DropFront
    <3> QED BY <3>2 DEF s, k, r
  <2>4. \A j \in DOMAIN queue'[u] : Len(batch[u]) + j \in DOMAIN queue[u]
    <3>1. DOMAIN queue[u] = 1..Len(queue[u])
      BY <1>q
    <3> QED BY <1>q, <2>3, <3>1, Shifted
  <2>5. Len(batch'[u]) <= Len(queue'[u])
    <3>1. Len(batch'[u]) = 0
      BY <2>1
    <3> QED BY <1>q, <2>2, <2>3, <3>1
  <2>6. \A i \in DOMAIN batch'[u] : FALSE
    BY <2>1
  <2>7. \A j \in DOMAIN queue'[u] : queue'[u][j].kind = u
    <3>1. \A i \in DOMAIN queue[u] : queue[u][i].kind = u
      BY <1>0
    <3>2. ASSUME NEW j \in DOMAIN queue'[u] PROVE queue'[u][j].kind = u
      <4>1. Len(batch[u]) + j \in DOMAIN queue[u] /\ queue'[u][j] = queue[u][Len(batch[u]) + j]
        BY <2>3, <2>4
      <4> QED BY <3>1, <4>1
    <3> QED BY <3>2
  <2> QED BY <2>1, <2>5, <2>6, <2>7
<1>6. CASE Repeat(u)
  BY <1>0, <1>6, <1>b, <1>q DEF Repeat
<1>7. CASE HoldReturn(u)
  <2>1. queue'[u] = Append(Tail(queue[u]), Head(queue[u])) /\ queue[u] # <<>> /\ batch' = batch /\ stage' = stage /\ stage[u] = "idle"
    BY <1>7, <1>b DEF HoldReturn
  <2>2. /\ Len(queue'[u]) = Len(queue[u]) /\ DOMAIN queue'[u] = 1..Len(queue[u])
        /\ queue'[u][Len(queue[u])] = queue[u][1]
        /\ \A j \in 1..Len(queue[u]) : j < Len(queue[u]) => queue'[u][j] = queue[u][j + 1]
    BY <1>q, <2>1, Rotate
  <2>3. \A j \in DOMAIN queue'[u] : \E k \in DOMAIN queue[u] : queue'[u][j] = queue[u][k]
    <3>1. ASSUME NEW j \in 1..Len(queue[u]) PROVE \E k \in 1..Len(queue[u]) : queue'[u][j] = queue[u][k]
      <4>1. CASE j < Len(queue[u])
        BY <1>q, <2>2, <4>1
      <4>2. CASE j = Len(queue[u])
        BY <1>q, <2>2, <4>2
      <4> QED BY <1>q, <4>1, <4>2
    <3>2. DOMAIN queue[u] = 1..Len(queue[u])
      BY <1>q
    <3> QED BY <2>2, <3>1, <3>2
  <2> QED BY <1>0, <1>q, <2>1, <2>2, <2>3
<1>8. CASE process_record(u)
  <2>1. stage[u] = "idle" /\ UNCHANGED <<batch, stage>> /\ batch[u] = <<>>
    BY <1>0, <1>8 DEF process_record
  <2>2. CASE UNCHANGED queue
    BY <1>0, <2>1, <2>2
  <2>3. CASE ~ UNCHANGED queue
    <3>1. PICK i \in 1..Prefetch : i <= Len(queue[u]) /\ queue' = [queue EXCEPT ![u] = SubSeq(@, 1, i - 1) \o SubSeq(@, i + 1, Len(@))]
      BY <1>8, <2>3 DEF process_record
    <3>2. i \in 1..Len(queue[u])
      BY <1>q, <3>1, LoadedAssumption
    <3>3. queue'[u] = SubSeq(queue[u], 1, i - 1) \o SubSeq(queue[u], i + 1, Len(queue[u]))
      BY <1>b, <3>1
    <3>4. /\ Len(queue'[u]) = Len(queue[u]) - 1 /\ DOMAIN queue'[u] = 1..(Len(queue[u]) - 1)
          /\ \A j \in DOMAIN queue'[u] : (j < i => queue'[u][j] = queue[u][j]) /\ (j >= i => queue'[u][j] = queue[u][j + 1])
      <4> DEFINE s == queue[u]
                 r == queue'[u]
      <4>1. s \in Seq(Versions) /\ i \in 1..Len(s) /\ r = Without(s, i)
        BY <1>q, <3>2, <3>3 DEF Without
      <4> HIDE DEF s, r
      <4>2. /\ Len(r) = Len(s) - 1 /\ DOMAIN r = 1..(Len(s) - 1)
            /\ \A j \in DOMAIN r : (j < i => r[j] = s[j]) /\ (j >= i => r[j] = s[j + 1])
        BY <4>1, TakeOut
      <4> QED BY <4>2 DEF s, r
    <3>5. \A j \in DOMAIN queue'[u] : \E k \in DOMAIN queue[u] : queue'[u][j] = queue[u][k]
      <4>1. ASSUME NEW j \in 1..(Len(queue[u]) - 1) PROVE \E k \in 1..Len(queue[u]) : queue'[u][j] = queue[u][k]
        <5>1. j \in DOMAIN queue'[u] /\ j \in 1..Len(queue[u]) /\ j + 1 \in 1..Len(queue[u]) /\ (j < i \/ j >= i)
          BY <1>q, <3>2, <3>4
        <5> QED BY <3>4, <5>1
      <4>2. DOMAIN queue[u] = 1..Len(queue[u])
        BY <1>q
      <4> QED BY <3>4, <4>1, <4>2
    <3>6. 0 <= Len(queue'[u]) /\ batch'[u] = <<>>
      BY <1>q, <2>1, <3>2, <3>4
    <3> QED BY <1>0, <2>1, <3>4, <3>5, <3>6
  <2> QED BY <2>2, <2>3
<1>9. ASSUME NEW t \in DATA_TYPES, t # u, ReadHashes(t) \/ batch_write(t) \/ Settle(t) \/ process_record(t) \/ HoldReturn(t) \/ Repeat(t)
      PROVE  queue'[u] = queue[u] /\ batch'[u] = batch[u] /\ stage'[u] = stage[u]
  BY <1>9, <1>b DEF ReadHashes, batch_write, Settle, process_record, HoldReturn, Repeat
<1>10. CASE SweepStep \/ Backfill \/ UNCHANGED vars
  <2>1. UNCHANGED writers
    BY <1>10 DEF SweepStep, SelectStubs, DeleteStubs, SweepStops, DeleteSentinelEdges, DeleteSentinel, Backfill, vars
  <2> QED BY <1>1, <2>1 DEF writers
<1> HIDE DEF Front
<1> QED BY <1>1, <1>2, <1>3, <1>4, <1>5, <1>6, <1>7, <1>8, <1>9, <1>10 DEF Next, WriterStep, FaultStep

\* What they keep of the order of a version and the other rows of its node.
NoRow(s, v) == \A i \in DOMAIN s : Key(s[i]) # Key(v)

LEMMA NoRowMembers ==
    ASSUME NEW s, NEW v
    PROVE  NoRow(s, v) <=> \A w \in Members(s) : Key(w) # Key(v)
BY DEF NoRow, Members

LEMMA BehindOlder ==
    ASSUME NEW s \in Seq(Versions), NEW d \in Seq(Versions), NEW v, NoneBehind(s, v), NoRow(d, v)
    PROVE  NoneBehind(s \o d, v) /\ (NoRow(s \o d, v) => NoRow(s, v))
<1> DEFINE r == s \o d
<1>1. Len(s) \in Nat /\ Len(d) \in Nat /\ DOMAIN s = 1..Len(s) /\ DOMAIN d = 1..Len(d)
  OBVIOUS
<1>2. /\ DOMAIN r = 1..(Len(s) + Len(d))
      /\ \A j \in 1..Len(s) : r[j] = s[j]
      /\ \A j \in (Len(s) + 1)..(Len(s) + Len(d)) : r[j] = d[j - Len(s)]
  BY Longer, Zenon
<1> HIDE DEF r
<1>3. ASSUME NEW i \in DOMAIN r, Key(r[i]) = Key(v) PROVE \E j \in DOMAIN r : j >= i /\ r[j] = v
  <2>1. i \in 1..Len(s)
    <3> SUFFICES ASSUME i \notin 1..Len(s) PROVE FALSE
      OBVIOUS
    <3>1. i \in (Len(s) + 1)..(Len(s) + Len(d)) /\ i - Len(s) \in 1..Len(d)
      BY <1>1, <1>2
    <3> QED BY <1>1, <1>2, <1>3, <3>1 DEF NoRow
  <2>2. PICK j \in DOMAIN s : j >= i /\ s[j] = v
    BY <1>1, <1>2, <1>3, <2>1 DEF NoneBehind
  <2>3. j \in DOMAIN r /\ r[j] = v
    BY <1>1, <1>2, <2>2
  <2> QED BY <2>2, <2>3
<1>4. ASSUME NoRow(r, v) PROVE NoRow(s, v)
  <2>1. \A j \in 1..Len(s) : j \in DOMAIN r
    BY <1>1, <1>2
  <2> QED BY <1>1, <1>2, <1>4, <2>1 DEF NoRow
<1>5. NoneBehind(r, v)
  BY <1>3 DEF NoneBehind
<1> QED BY <1>4, <1>5 DEF r

LEMMA BehindNewer ==
    ASSUME NEW s \in Seq(Versions), NEW d \in Seq(Versions), NEW v \in Members(d),
           \A w \in Members(d) : Key(w) = Key(v) => w = v
    PROVE  NoneBehind(s \o d, v) /\ ~NoRow(s \o d, v)
<1> DEFINE r == s \o d
<1>1. Len(s) \in Nat /\ Len(d) \in Nat /\ DOMAIN s = 1..Len(s) /\ DOMAIN d = 1..Len(d)
  OBVIOUS
<1>2. /\ DOMAIN r = 1..(Len(s) + Len(d))
      /\ \A j \in 1..Len(s) : r[j] = s[j]
      /\ \A j \in (Len(s) + 1)..(Len(s) + Len(d)) : r[j] = d[j - Len(s)]
      /\ \A j \in 1..Len(d) : r[Len(s) + j] = d[j]
  BY Longer, Zenon
<1>3. PICK p \in 1..Len(d) : d[p] = v
  BY <1>1 DEF Members
<1> HIDE DEF r
<1>4. Len(s) + p \in DOMAIN r /\ r[Len(s) + p] = v
  BY <1>1, <1>2, <1>3
<1>5. ASSUME NEW i \in DOMAIN r, Key(r[i]) = Key(v) PROVE \E j \in DOMAIN r : j >= i /\ r[j] = v
  <2>1. CASE i \in 1..Len(s)
    BY <1>1, <1>3, <1>4, <2>1
  <2>2. CASE i \notin 1..Len(s)
    <3>1. i \in (Len(s) + 1)..(Len(s) + Len(d)) /\ i - Len(s) \in 1..Len(d)
      BY <1>1, <1>2, <2>2
    <3>2. r[i] = d[i - Len(s)] /\ d[i - Len(s)] \in Members(d)
      BY <1>1, <1>2, <3>1 DEF Members
    <3>3. r[i] = v
      BY <1>5, <3>2
    <3> QED BY <3>1, <3>3
  <2> QED BY <2>1, <2>2
<1>6. NoneBehind(r, v)
  BY <1>5 DEF NoneBehind
<1> QED BY <1>4, <1>6 DEF NoRow, r

Dropped(s, k) == SubSeq(s, k + 1, Len(s))

LEMMA BehindDropped ==
    ASSUME NEW s \in Seq(Versions), NEW k \in Nat, k <= Len(s), NEW r, r = Dropped(s, k),
           NEW v, NoneBehind(s, v)
    PROVE  /\ NoneBehind(r, v)
           /\ NoRow(r, v) => NoRow(s, v) \/ \E i \in 1..k : s[i] = v
<1>1. Len(s) \in Nat /\ DOMAIN s = 1..Len(s)
  OBVIOUS
<1>2. DOMAIN r = 1..(Len(s) - k) /\ \A j \in DOMAIN r : r[j] = s[k + j]
  BY DropFront DEF Dropped
<1>3. \A j \in 1..Len(s) : j > k => j - k \in DOMAIN r /\ r[j - k] = s[j]
  <2> SUFFICES ASSUME NEW j \in 1..Len(s), j > k PROVE j - k \in DOMAIN r /\ r[j - k] = s[j]
    OBVIOUS
  <2>1. j - k \in 1..(Len(s) - k) /\ k + (j - k) = j
    BY <1>1
  <2> QED BY <1>2, <2>1
<1>4. ASSUME NEW i \in DOMAIN r, Key(r[i]) = Key(v) PROVE \E j \in DOMAIN r : j >= i /\ r[j] = v
  <2>1. k + i \in 1..Len(s) /\ Key(s[k + i]) = Key(v) /\ i \in Nat
    BY <1>1, <1>2, <1>4
  <2>2. PICK j \in 1..Len(s) : j >= k + i /\ s[j] = v
    BY <1>1, <2>1 DEF NoneBehind
  <2>3. j > k /\ j - k >= i
    BY <1>1, <1>2, <2>1, <2>2
  <2> QED BY <1>3, <2>2, <2>3
<1>5. ASSUME NoRow(r, v), ~NoRow(s, v) PROVE \E i \in 1..k : s[i] = v
  <2>1. PICK i \in 1..Len(s) : Key(s[i]) = Key(v)
    BY <1>1, <1>5 DEF NoRow
  <2>2. PICK j \in 1..Len(s) : s[j] = v
    BY <1>1, <2>1 DEF NoneBehind
  <2>3. ~(j > k)
    <3>1. j > k => j - k \in DOMAIN r /\ r[j - k] = v
      BY <1>3, <2>2
    <3> QED BY <1>5, <3>1 DEF NoRow
  <2> QED BY <1>1, <2>2, <2>3
<1> QED BY <1>4, <1>5 DEF NoneBehind

\* If no two versions of its node are in s, every row of the node is v.
LEMMA OnlyVersion ==
    ASSUME NEW s, NEW v \in Versions, NEW w \in Members(s), NEW x \in Members(s),
           Key(w) = Key(v), Key(x) = Key(v), Key(v) \notin Twice(s)
    PROVE  w = x
BY KeyIsNode DEF Twice

LEMMA BehindRotated ==
    ASSUME NEW s \in Seq(Versions), Len(s) >= 1,
           NEW r, DOMAIN r = 1..Len(s), r[Len(s)] = s[1],
           \A j \in 1..Len(s) : j < Len(s) => r[j] = s[j + 1],
           NEW v \in Versions, NoneBehind(s, v), Key(v) \notin Twice(s) \cap {Key(s[1])}
    PROVE  NoneBehind(r, v) /\ (NoRow(r, v) => NoRow(s, v))
<1>1. Len(s) \in Nat /\ Len(s) >= 1 /\ DOMAIN s = 1..Len(s)
  OBVIOUS
<1>2. /\ DOMAIN r = 1..Len(s) /\ r[Len(s)] = s[1]
      /\ \A j \in 1..Len(s) : j < Len(s) => r[j] = s[j + 1]
  OBVIOUS
<1>3. \A j \in 1..Len(s) : j # 1 => j - 1 \in DOMAIN r /\ r[j - 1] = s[j]
  <2> SUFFICES ASSUME NEW j \in 1..Len(s), j # 1 PROVE j - 1 \in DOMAIN r /\ r[j - 1] = s[j]
    OBVIOUS
  <2>1. j - 1 \in 1..Len(s) /\ j - 1 < Len(s) /\ (j - 1) + 1 = j
    BY <1>1
  <2> QED BY <1>2, <2>1
<1>4. Len(s) \in DOMAIN r
  BY <1>1, <1>2
<1>5. CASE Key(v) = Key(s[1])
  <2>1. \A j \in 1..Len(s) : Key(s[j]) = Key(v) => s[j] = v
    <3> SUFFICES ASSUME NEW j \in 1..Len(s), Key(s[j]) = Key(v) PROVE s[j] = v
      OBVIOUS
    <3>1. \E k \in 1..Len(s) : s[k] = v
      BY <1>1 DEF NoneBehind
    <3>2. v \in Members(s) /\ s[j] \in Members(s)
      BY <1>1, <3>1 DEF Members
    <3> QED BY <1>1, <1>5, <3>2, OnlyVersion
  <2>2. s[1] = v
    BY <1>1, <1>5, <2>1
  <2>3. \A i \in DOMAIN r : Len(s) >= i
    BY <1>1, <1>2
  <2> QED BY <1>2, <1>4, <2>2, <2>3 DEF NoneBehind, NoRow
<1>6. CASE Key(v) # Key(s[1])
  <2>1. ASSUME NEW i \in DOMAIN r, Key(r[i]) = Key(v) PROVE \E j \in DOMAIN r : j >= i /\ r[j] = v
    <3>1. i < Len(s)
      BY <1>1, <1>2, <1>6, <2>1
    <3>2. i + 1 \in 1..Len(s) /\ r[i] = s[i + 1] /\ i \in Nat
      BY <1>1, <1>2, <3>1
    <3>3. PICK j \in 1..Len(s) : j >= i + 1 /\ s[j] = v
      BY <1>1, <2>1, <3>2 DEF NoneBehind
    <3>4. j # 1 /\ j - 1 >= i
      BY <1>1, <1>2, <3>2, <3>3
    <3> QED BY <1>3, <3>3, <3>4
  <2>2. ASSUME NoRow(r, v) PROVE NoRow(s, v)
    BY <1>1, <1>3, <1>6, <2>2 DEF NoRow
  <2> QED BY <2>1, <2>2 DEF NoneBehind
<1> QED BY <1>5, <1>6

LEMMA BehindTakenOut ==
    ASSUME NEW s \in Seq(Versions), NEW i \in 1..Len(s), NEW r, r = Without(s, i),
           NEW v \in Versions, NoneBehind(s, v), Key(v) \notin Twice(SubSeq(s, 1, i)) \cap {Key(s[i])}
    PROVE  /\ NoneBehind(r, v)
           /\ NoRow(r, v) => NoRow(s, v) \/ s[i] = v
<1>1. Len(s) \in Nat /\ DOMAIN s = 1..Len(s) /\ i \in Nat /\ 1 <= i /\ i <= Len(s)
  OBVIOUS
<1>2. /\ DOMAIN r = 1..(Len(s) - 1)
      /\ \A j \in DOMAIN r : (j < i => r[j] = s[j]) /\ (j >= i => r[j] = s[j + 1])
  BY TakeOut
<1>3. \A j \in 1..Len(s) : j < i => j \in DOMAIN r /\ r[j] = s[j]
  <2> SUFFICES ASSUME NEW j \in 1..Len(s), j < i PROVE j \in DOMAIN r /\ r[j] = s[j]
    OBVIOUS
  <2>1. j \in 1..(Len(s) - 1)
    BY <1>1
  <2> QED BY <1>2, <2>1
<1>4. \A j \in 1..Len(s) : j > i => j - 1 \in DOMAIN r /\ r[j - 1] = s[j]
  <2> SUFFICES ASSUME NEW j \in 1..Len(s), j > i PROVE j - 1 \in DOMAIN r /\ r[j - 1] = s[j]
    OBVIOUS
  <2>1. j - 1 \in 1..(Len(s) - 1) /\ j - 1 >= i /\ (j - 1) + 1 = j
    BY <1>1
  <2> QED BY <1>2, <2>1
<1>5. ASSUME NEW j \in 1..i, Key(s[j]) = Key(v), Key(s[i]) = Key(v) PROVE s[j] = s[i]
  <2>1. s[j] \in Members(SubSeq(s, 1, i)) /\ s[i] \in Members(SubSeq(s, 1, i))
    <3>1. DOMAIN SubSeq(s, 1, i) = 1..i /\ \A k \in 1..i : SubSeq(s, 1, i)[k] = s[k]
      BY <1>1
    <3> QED BY <1>1, <3>1 DEF Members
  <2> QED BY <1>5, <2>1, OnlyVersion
\* A row of v's node before the place that is emptied has v at or behind it still.
<1>6. ASSUME NEW j \in 1..Len(s), j # i, Key(s[j]) = Key(v)
      PROVE  \E k \in 1..Len(s) : k # i /\ k >= j /\ s[k] = v
  <2>1. PICK k \in 1..Len(s) : k >= j /\ s[k] = v
    BY <1>1, <1>6 DEF NoneBehind
  <2>2. CASE k # i
    BY <2>1, <2>2
  <2>3. CASE k = i
    <3>1. j \in 1..i
      BY <1>1, <2>1, <2>3
    <3>2. s[j] = v
      BY <1>5, <1>6, <2>1, <2>3, <3>1
    <3> QED BY <1>1, <1>6, <3>2
  <2> QED BY <2>2, <2>3
<1>7. ASSUME NEW m \in DOMAIN r, Key(r[m]) = Key(v) PROVE \E k \in DOMAIN r : k >= m /\ r[k] = v
  <2> DEFINE j == IF m < i THEN m ELSE m + 1
  <2>1. j \in 1..Len(s) /\ j # i /\ r[m] = s[j] /\ m \in Nat
    BY <1>1, <1>2
  <2>2. PICK k \in 1..Len(s) : k # i /\ k >= j /\ s[k] = v
    BY <1>6, <1>7, <2>1
  <2>3. CASE k < i
    <3>1. k \in DOMAIN r /\ r[k] = v /\ k >= m
      BY <1>1, <1>3, <2>1, <2>2, <2>3
    <3> QED BY <3>1
  <2>4. CASE k > i
    <3>1. k - 1 \in DOMAIN r /\ r[k - 1] = v
      BY <1>4, <2>2, <2>4
    <3>2. k - 1 >= m
      BY <1>1, <2>1, <2>2, <2>4
    <3> QED BY <3>1, <3>2
  <2> QED BY <1>1, <2>2, <2>3, <2>4
<1>8. ASSUME NoRow(r, v), ~NoRow(s, v) PROVE s[i] = v
  <2>1. PICK j \in 1..Len(s) : Key(s[j]) = Key(v)
    BY <1>1, <1>8 DEF NoRow
  <2>2. PICK k \in 1..Len(s) : s[k] = v
    BY <1>1, <2>1 DEF NoneBehind
  <2>3. k = i
    BY <1>1, <1>3, <1>4, <1>8, <2>2 DEF NoRow
  <2> QED BY <2>2, <2>3
<1> QED BY <1>7, <1>8 DEF NoneBehind

\* A writer leaves the nodes of the other types alone.
LEMMA OtherTypesKept ==
    ASSUME WritersOK, BatchInFront, NEW t \in DATA_TYPES, batch_write(t) \/ process_record(t),
           NEW v \in Versions, v.kind # t
    PROVE  hash'[Key(v)] = hash[Key(v)]
<1>0. Key(v) \in Nodes
  BY KeyIsNode
<1>1. CASE batch_write(t)
  <2>1. Project(todo[t]) /\ Rows(todo[t])
    BY <1>1, TodoRows DEF batch_write
  <2>2. \A w \in Members(todo[t]) : w \in Versions /\ w.kind = t
    BY RowsAreOfType
  <2>3. \A w \in Members(todo[t]) : Key(w) # Key(v)
    BY <2>2, KeyTellsKind
  <2> QED BY <1>0, <2>1, <2>3, ProjectHashes
<1>2. CASE process_record(t)
  <2>1. PICK i \in 1..Prefetch : i <= Len(queue[t]) /\ Project(Needed(<<queue[t][i]>>))
    BY <1>2 DEF process_record
  <2>2. i \in DOMAIN queue[t]
    BY <2>1, QueueRows, LoadedAssumption
  <2>3. queue[t][i] \in Versions /\ queue[t][i].kind = t
    BY <2>2, QueueRows, RowsAreOfType
  <2>4. Key(queue[t][i]) # Key(v)
    BY <2>3, KeyTellsKind
  <2> QED BY <1>0, <2>1, <2>3, <2>4, OneRowWritten
<1> QED BY <1>1, <1>2

\* The only record the batch path rejects is the sentinel's.
LEMMA RejectedIsSentinel ==
    ASSUME NEW v \in Versions, Key(v) # Sentinel
    PROVE  Usable(v)
<1> SUFFICES ASSUME v.kind = "masters" PROVE usable_master_id(v.id)
  BY DEF Usable
<1>1. Key(v) = <<"Master", v.id>>
  BY DEF Key, LabelOf
<1>2. v.id # NO_MASTER_ID
  BY <1>1 DEF Sentinel
<1> QED BY <1>2, RecordsAssumption DEF usable_master_id

\* After the write a node of the batch holds the version the batch has of it,
\* written now or skipped because it was there when the hashes were read.
LEMMA BatchIsStored ==
    ASSUME WritersOK, BatchInFront, SkippedIsStored, NEW t \in DATA_TYPES, batch_write(t),
           NEW i \in DOMAIN batch[t], Key(batch[t][i]) \notin Twice(batch[t]),
           Key(batch[t][i]) # Sentinel
    PROVE  ~Stale(batch[t][i])'
<1> DEFINE v == batch[t][i]
<1>1. Project(todo[t]) /\ Rows(todo[t]) /\ stage[t] = "read" /\ UNCHANGED batch
  BY TodoRows DEF batch_write
<1>2. v \in Versions /\ Key(v) \in Nodes /\ v \in Members(batch[t])
  BY QueueRows, KeyIsNode DEF Members
<1>3. CASE \E w \in Members(todo[t]) : Key(w) = Key(v)
  <2>1. PICK w \in Members(todo[t]) : Key(w) = Key(v) /\ hash'[Key(v)] = w.hash
    BY <1>1, <1>2, <1>3, ProjectHashes
  <2>2. w \in Members(batch[t])
    BY <2>1, RowsAreOfType DEF Members
  <2>3. w = v
    BY <1>2, <2>1, <2>2, OnlyVersion
  <2> QED BY <1>1, <2>1, <2>3 DEF Stale
<1>4. CASE \A w \in Members(todo[t]) : Key(w) # Key(v)
  <2>1. i \notin DOMAIN todo[t]
    <3>1. i \in DOMAIN todo[t] => todo[t][i] = v /\ todo[t][i] \in Members(todo[t])
      BY DEF WritersOK, Members
    <3> QED BY <1>4, <3>1
  <2>2. ~Stale(v)
    BY <1>1, <2>1 DEF SkippedIsStored
  <2> QED BY <1>1, <1>2, <1>4, <2>2, ProjectHashes DEF Stale
<1> QED BY <1>3, <1>4

LEMMA SkippedStep ==
    ASSUME WritersOK, GraphOK, StubsStayIsolated, BatchInFront, SkippedIsStored, ~overlapped, [Next]_vars
    PROVE  SkippedIsStored'
<1> DEFINE Kept(u, i) == Key(batch[u][i]) # Sentinel =>
                            /\ stage[u] = "read" /\ i \notin DOMAIN todo[u] => ~Stale(batch[u][i])
                            /\ stage[u] = "written" /\ Key(batch[u][i]) \notin unordered => ~Stale(batch[u][i])
<1> SUFFICES ASSUME NEW u \in DATA_TYPES, NEW i \in DOMAIN batch'[u] PROVE Kept(u, i)'
  BY DEF SkippedIsStored
<1>0. i \in DOMAIN batch[u] => batch[u][i] \in Versions /\ batch[u][i].kind = u /\ Kept(u, i)
  BY QueueRows, RowsAreOfType DEF SkippedIsStored
<1>b. DOMAIN queue = DATA_TYPES /\ DOMAIN batch = DATA_TYPES /\ DOMAIN stage = DATA_TYPES /\ DOMAIN todo = DATA_TYPES
  BY DEF WritersOK
\* A batch no step touched, whose nodes lost no hash.
<1>1. ASSUME batch'[u] = batch[u], stage'[u] = stage[u], todo'[u] = todo[u], unordered \subseteq unordered',
             i \in DOMAIN batch[u] /\ Key(batch[u][i]) # Sentinel /\ ~Stale(batch[u][i]) => ~Stale(batch[u][i])'
      PROVE  Kept(u, i)'
  <2>1. batch'[u][i] = batch[u][i] /\ i \in DOMAIN batch[u]
    BY <1>1
  <2>2. Stale(batch[u][i]) => ~Kept(u, i) \/ Key(batch[u][i]) = Sentinel \/ (stage[u] = "read" /\ i \in DOMAIN todo[u]) \/ (stage[u] = "written" /\ Key(batch[u][i]) \in unordered)
                           \/ stage[u] \notin {"read", "written"}
    OBVIOUS
  <2> QED BY <1>0, <1>1, <2>1, <2>2
<1>2. CASE Publish
  BY <1>1, <1>2 DEF Publish, graph, Stale
<1>3. CASE ReadHashes(u)
  <2>1. stage'[u] = "read" /\ todo'[u] = ToWrite(batch'[u]) /\ UNCHANGED graph
    BY <1>3, <1>b DEF ReadHashes
  <2>2. batch'[u][i] \in Versions
    <3>1. WritersOK'
      BY WritersStep
    <3>2. batch'[u] \in Seq(Versions)
      BY <3>1 DEF WritersOK
    <3> QED BY <3>2
  <2>3. Key(batch'[u][i]) # Sentinel /\ i \notin DOMAIN ToWrite(batch'[u])
            => ~(hash[Key(batch'[u][i])] # batch'[u][i].hash)
    BY <2>2, RejectedIsSentinel DEF ToWrite, Stale
  <2> QED BY <2>1, <2>3 DEF Stale, graph
<1>4. CASE batch_write(u)
  <2>1. UNCHANGED batch /\ stage'[u] = "written" /\ unordered' = unordered \cup Twice(batch[u])
    BY <1>4, <1>b DEF batch_write
  <2>2. Key(batch[u][i]) \notin Twice(batch[u]) /\ Key(batch[u][i]) # Sentinel => ~Stale(batch[u][i])'
    BY <1>4, <2>1, BatchIsStored
  <2> QED BY <2>1, <2>2
<1>5. CASE Settle(u) \/ Repeat(u)
  <2>1. batch'[u] = <<>>
    BY <1>5, <1>b DEF Settle, Repeat
  <2> QED BY <2>1
<1>6. CASE HoldReturn(u)
  BY <1>1, <1>6 DEF HoldReturn, graph, Stale
<1>7. CASE process_record(u)
  <2>1. batch'[u] = <<>>
    BY <1>7 DEF process_record, BatchInFront
  <2> QED BY <2>1
<1>8. ASSUME NEW t \in DATA_TYPES, t # u, ReadHashes(t) \/ Settle(t) \/ Repeat(t) \/ HoldReturn(t)
      PROVE  Kept(u, i)'
  <2>1. batch'[u] = batch[u] /\ stage'[u] = stage[u] /\ todo'[u] = todo[u] /\ unordered \subseteq unordered' /\ UNCHANGED hash
    BY <1>8, <1>b DEF ReadHashes, Settle, Repeat, HoldReturn, graph
  <2> QED BY <1>1, <2>1 DEF Stale
<1>9. ASSUME NEW t \in DATA_TYPES, t # u, batch_write(t) \/ process_record(t)
      PROVE  Kept(u, i)'
  <2>1. batch'[u] = batch[u] /\ stage'[u] = stage[u] /\ todo'[u] = todo[u] /\ unordered \subseteq unordered'
    BY <1>9, <1>b DEF batch_write, process_record
  <2>2. i \in DOMAIN batch[u] => hash'[Key(batch[u][i])] = hash[Key(batch[u][i])]
    BY <1>0, <1>9, OtherTypesKept
  <2> QED BY <1>1, <2>1, <2>2 DEF Stale
<1>10. CASE SweepStep \/ Backfill
  <2>1. UNCHANGED <<writers, unordered>>
    BY <1>10 DEF SweepStep, SelectStubs, DeleteStubs, SweepStops, DeleteSentinelEdges, DeleteSentinel, Backfill
  <2>2. i \in DOMAIN batch[u] /\ Key(batch[u][i]) # Sentinel /\ ~Stale(batch[u][i])
            => hash'[Key(batch[u][i])] = batch[u][i].hash
    <3>1. ASSUME NEW v \in Versions, Key(v) # Sentinel, ~Stale(v) PROVE hash'[Key(v)] = v.hash
      BY <1>10, <3>1, CleanupKeepsHash DEF Stale
    <3> QED BY <1>0, <3>1
  <2> QED BY <1>1, <2>1, <2>2 DEF Stale, writers
<1>11. CASE UNCHANGED vars
  BY <1>1, <1>11 DEF vars, writers, graph, Stale
<1> HIDE DEF Kept
<1> QED BY <1>2, <1>3, <1>4, <1>5, <1>6, <1>7, <1>8, <1>9, <1>10, <1>11 DEF Next, WriterStep, FaultStep

\* The newest versions after a dump: its own, and those of the nodes it says
\* nothing of.
LEMMA DumpRows ==
    ASSUME NEW d \in DOMAIN Dumps, NEW t \in DATA_TYPES
    PROVE  /\ Dumps[d][t] \in Seq(Versions) /\ Members(Dumps[d][t]) \subseteq Versions
           /\ \A v \in Members(Dumps[d][t]) : v.kind = t /\ v \in Records(d)
           /\ \A v, w \in Members(Dumps[d][t]) : Key(v) = Key(w) => v = w
<1>1. Dumps[d] \in [DATA_TYPES -> Seq(Versions)]
  BY LoadedAssumption
<1>2. Dumps[d][t] \in Seq(Versions)
  BY <1>1
<1>3. Members(Dumps[d][t]) \subseteq Versions
  BY <1>2 DEF Members
<1> QED BY <1>2, <1>3, DumpsAssumption DEF Records

LEMMA NewestAfterPublish ==
    ASSUME WritersOK, Publish, NEW v \in Current'
    PROVE  LET d == Dumps[published + 1][v.kind]
           IN  \/ v \in Members(d) /\ \A w \in Members(d) : Key(w) = Key(v) => w = v
               \/ v \in Current /\ NoRow(d, v)
<1>1. published \in Nat /\ published' = published + 1 /\ published + 1 \in DOMAIN Dumps /\ v \in Versions
  BY LoadedAssumption DEF Publish, WritersOK, Current
<1>2. v.kind \in DATA_TYPES
  BY <1>1, RecordsAssumption DEF DATA_TYPES
<1>3. CASE v \in Records(published + 1)
  <2>1. PICK t \in DATA_TYPES : v \in Members(Dumps[published + 1][t])
    BY <1>3 DEF Records
  <2>2. t = v.kind
    BY <1>1, <2>1, DumpRows
  <2> QED BY <1>1, <2>1, <2>2, DumpRows
<1>4. CASE v \notin Records(published + 1)
  <2>1. PICK d \in 1..(published + 1) :
            v \in Records(d) /\ \A c \in 1..(published + 1) : c > d => \A w \in Records(c) : Key(w) # Key(v)
    BY <1>1 DEF Current
  <2>2. d # published + 1
    BY <1>4, <2>1
  <2>3. d \in 1..published /\ \A c \in 1..published : c \in 1..(published + 1)
    BY <1>1, <2>2
  <2>4. v \in Current
    BY <1>1, <2>1, <2>3 DEF Current
  <2>5. \A w \in Records(published + 1) : Key(w) # Key(v)
    <3>1. published + 1 \in 1..(published + 1) /\ published + 1 > d
      BY <1>1, <2>3
    <3> QED BY <2>1, <3>1
  <2>6. \A w \in Members(Dumps[published + 1][v.kind]) : Key(w) # Key(v)
    BY <1>1, <1>2, <2>5, DumpRows
  <2> QED BY <2>4, <2>6, NoRowMembers
<1> QED BY <1>3, <1>4

LEMMA NewestStep ==
    ASSUME WritersOK, GraphOK, StubsStayIsolated, BatchInFront, SkippedIsStored, NewestIsLast, ~overlapped, [Next]_vars
    PROVE  NewestIsLast'
<1> DEFINE Holds(v) == NoneBehind(queue[v.kind], v) /\ (NoRow(queue[v.kind], v) => ~Stale(v))
<1>a. \A v \in Current : Key(v) \notin unordered /\ Key(v) # Sentinel => Holds(v)
  BY NoRowMembers DEF NewestIsLast
<1>z. (\A v \in Current' : Key(v) \notin unordered' /\ Key(v) # Sentinel => Holds(v)') => NewestIsLast'
  BY NoRowMembers DEF NewestIsLast
<1> SUFFICES ASSUME NEW v \in Current', Key(v) \notin unordered', Key(v) # Sentinel PROVE Holds(v)'
  BY <1>z
<1> DEFINE u == v.kind
<1>b. DOMAIN queue = DATA_TYPES /\ DOMAIN batch = DATA_TYPES /\ DOMAIN stage = DATA_TYPES
  BY DEF WritersOK
<1>0. v \in Versions /\ u \in DATA_TYPES /\ Key(v) \in Nodes
  BY RecordsAssumption, KeyIsNode DEF Current, DATA_TYPES
<1>q. queue[u] \in Seq(Versions) /\ DOMAIN queue[u] = 1..Len(queue[u]) /\ Len(queue[u]) \in Nat
  BY <1>0 DEF WritersOK
\* Steps that publish nothing keep the newest versions.
<1>1. ASSUME published' = published, unordered \subseteq unordered' PROVE Holds(v)
  <2>1. v \in Current
    BY <1>1 DEF Current
  <2> QED BY <1>1, <1>a, <2>1
<1>2. ASSUME published' = published, unordered \subseteq unordered', queue'[u] = queue[u],
             NoRow(queue[u], v) /\ ~Stale(v) => ~Stale(v)'
      PROVE  Holds(v)'
  <2>1. NoneBehind(queue[u], v)' /\ (NoRow(queue[u], v)' => NoRow(queue[u], v))
    BY <1>1, <1>2 DEF NoneBehind, NoRow
  <2> QED BY <1>1, <1>2, <2>1
<1>3. CASE Publish
  <2> DEFINE d == Dumps[published + 1][u]
             s == queue[u]
  <2>1. s \in Seq(Versions) /\ d \in Seq(Versions) /\ queue'[u] = s \o d /\ hash' = hash
    <3>1. published + 1 \in DOMAIN Dumps
      BY <1>3, LoadedAssumption DEF Publish, WritersOK
    <3> QED BY <1>0, <1>3, <1>b, <1>q, <3>1, DumpRows DEF Publish, graph
  <2>2. \/ v \in Members(d) /\ \A w \in Members(d) : Key(w) = Key(v) => w = v
        \/ v \in Current /\ NoRow(d, v)
    BY <1>3, NewestAfterPublish
  <2>3. v \in Current => NoneBehind(s, v) /\ (NoRow(s, v) => ~Stale(v))
    <3>1. unordered' = unordered
      BY <1>3 DEF Publish
    <3> QED BY <1>a, <3>1
  <2> HIDE DEF d, s
  <2>4. NoneBehind(s \o d, v) /\ (NoRow(s \o d, v) => ~Stale(v))
    <3>1. CASE v \in Members(d) /\ \A w \in Members(d) : Key(w) = Key(v) => w = v
      BY <2>1, <3>1, BehindNewer
    <3>2. CASE v \in Current /\ NoRow(d, v)
      BY <2>1, <2>3, <3>2, BehindOlder
    <3> QED BY <2>2, <3>1, <3>2
  <2>5. NoneBehind(queue[u], v)' /\ (NoRow(queue[u], v)' => ~Stale(v))
    BY <2>1, <2>4 DEF NoneBehind, NoRow
  <2> QED BY <2>1, <2>5 DEF Stale
<1>4. CASE ReadHashes(u)
  BY <1>2, <1>4 DEF ReadHashes, graph, Stale
<1>5. CASE batch_write(u)
  <2>1. Project(todo[u]) /\ Rows(todo[u]) /\ UNCHANGED <<published, queue>> /\ unordered \subseteq unordered'
    BY <1>0, <1>5, TodoRows DEF batch_write
  <2>2. NoRow(queue[u], v) => \A w \in Members(todo[u]) : Key(w) # Key(v)
    <3>1. \A w \in Members(todo[u]) : \E i \in DOMAIN queue[u] : w = queue[u][i]
      <4>1. \A w \in Members(todo[u]) : \E i \in DOMAIN batch[u] : w = batch[u][i]
        BY <1>0, RowsAreOfType
      <4>2. \A i \in DOMAIN batch[u] : i \in DOMAIN queue[u] /\ batch[u][i] = queue[u][i]
        BY <1>0, RowsAreOfType DEF BatchInFront
      <4> QED BY <4>1, <4>2
    <3> QED BY <3>1 DEF NoRow
  <2>3. NoRow(queue[u], v) => hash'[Key(v)] = hash[Key(v)]
    BY <1>0, <2>1, <2>2, ProjectHashes
  <2> QED BY <1>2, <2>1, <2>3 DEF Stale
<1>6. CASE Settle(u)
  <2> DEFINE s == queue[u]
             r == queue'[u]
             k == Len(batch[u])
  <2>1. UNCHANGED <<published, hash, unordered>> /\ stage[u] = "written" /\ r = Dropped(s, k)
    BY <1>0, <1>6, <1>b DEF Settle, graph, Dropped
  <2>2. s \in Seq(Versions) /\ k \in Nat /\ k <= Len(s) /\ \A i \in 1..k : i \in DOMAIN batch[u] /\ batch[u][i] = s[i]
    BY <1>0, <1>q, QueueRows DEF BatchInFront
  <2>3. NoneBehind(s, v) /\ (NoRow(s, v) => ~Stale(v))
    BY <1>1, <2>1
  <2>4. (\E i \in 1..k : s[i] = v) => ~Stale(v)
    <3>1. \A i \in DOMAIN batch[u] :
              Key(batch[u][i]) \notin unordered /\ Key(batch[u][i]) # Sentinel => ~Stale(batch[u][i])
      BY <1>0, <2>1 DEF SkippedIsStored
    <3>2. \A i \in 1..k : s[i] = v => ~Stale(v)
      BY <2>1, <2>2, <3>1
    <3> QED BY <3>2
  <2> HIDE DEF s, r, k
  <2>5. NoneBehind(r, v) /\ (NoRow(r, v) => NoRow(s, v) \/ \E i \in 1..k : s[i] = v)
    BY <2>1, <2>2, <2>3, BehindDropped
  <2>6. NoneBehind(r, v) /\ (NoRow(r, v) => ~Stale(v))
    BY <2>3, <2>4, <2>5
  <2>7. NoneBehind(queue[u], v)' /\ (NoRow(queue[u], v)' => ~Stale(v))
    BY <2>6 DEF NoneBehind, NoRow, r
  <2> QED BY <2>1, <2>7 DEF Stale
<1>7. CASE Repeat(u)
  BY <1>2, <1>7 DEF Repeat, graph, Stale
<1>8. CASE HoldReturn(u)
  <2> DEFINE s == queue[u]
             r == queue'[u]
  <2>1. /\ UNCHANGED <<published, hash>> /\ s # <<>> /\ r = Append(Tail(s), Head(s))
        /\ unordered' = unordered \cup (Twice(s) \cap {Key(Head(s))})
    BY <1>0, <1>8, <1>b DEF HoldReturn, graph
  <2>2. s \in Seq(Versions) /\ Len(s) >= 1 /\ Head(s) = s[1]
    BY <1>q, <2>1
  <2>3. NoneBehind(s, v) /\ (NoRow(s, v) => ~Stale(v))
    BY <1>1, <2>1
  <2> HIDE DEF s, r
  <2>4. /\ DOMAIN r = 1..Len(s) /\ r[Len(s)] = s[1]
        /\ \A j \in 1..Len(s) : j < Len(s) => r[j] = s[j + 1]
    BY <2>1, <2>2, Rotate
  <2>5. Key(v) \notin Twice(s) \cap {Key(s[1])}
    BY <2>1, <2>2
  <2>6. NoneBehind(r, v) /\ (NoRow(r, v) => ~Stale(v))
    BY <1>0, <2>2, <2>3, <2>4, <2>5, BehindRotated
  <2>7. NoneBehind(queue[u], v)' /\ (NoRow(queue[u], v)' => ~Stale(v))
    BY <2>6 DEF NoneBehind, NoRow, r
  <2> QED BY <2>1, <2>7 DEF Stale
<1>9. CASE process_record(u)
  <2> DEFINE s == queue[u]
             r == queue'[u]
  <2>1. PICK i \in 1..Prefetch :
           /\ i <= Len(s) /\ Project(Needed(<<s[i]>>))
           /\ unordered' = unordered \cup (Twice(SubSeq(s, 1, i)) \cap {Key(s[i])})
           /\ \/ queue' = [queue EXCEPT ![u] = SubSeq(@, 1, i - 1) \o SubSeq(@, i + 1, Len(@))]
              \/ UNCHANGED queue
    BY <1>9 DEF process_record
  <2>2. i \in 1..Len(s) /\ s \in Seq(Versions) /\ s[i] \in Versions
    BY <1>q, <2>1, LoadedAssumption
  <2>3. published' = published /\ (r = s \/ r = Without(s, i))
    BY <1>0, <1>9, <1>b, <2>1 DEF process_record, Without
  <2>4. NoneBehind(s, v) /\ (NoRow(s, v) => ~Stale(v))
    BY <1>1, <2>1, <2>3
  <2> HIDE DEF s, r
  <2>5. /\ s[i] = v => hash'[Key(v)] = v.hash
        /\ Key(s[i]) # Key(v) => hash'[Key(v)] = hash[Key(v)]
    <3>1. PICK w \in Versions : w = s[i]
      BY <2>2
    <3>2. hash'[Key(w)] = w.hash /\ \A n \in Nodes : n # Key(w) => hash'[n] = hash[n]
      BY <2>1, <3>1, OneRowWritten DEF Stale
    <3> QED BY <1>0, <3>1, <3>2
  <2>6. NoRow(s, v) => hash'[Key(v)] = v.hash
    <3>1. NoRow(s, v) => Key(s[i]) # Key(v)
      <4>1. i \in DOMAIN s
        BY <2>2
      <4> QED BY <4>1 DEF NoRow
    <3> QED BY <2>4, <2>5, <3>1 DEF Stale
  <2>7. NoneBehind(r, v) /\ (NoRow(r, v) => NoRow(s, v) \/ s[i] = v)
    <3>1. CASE r = s
      BY <2>4, <3>1
    <3>2. CASE r = Without(s, i)
      <4>1. Key(v) \notin Twice(SubSeq(s, 1, i)) \cap {Key(s[i])}
        BY <2>1
      <4> QED BY <1>0, <2>2, <2>4, <3>2, <4>1, BehindTakenOut
    <3> QED BY <2>3, <3>1, <3>2
  <2>8. NoneBehind(queue[u], v)' /\ (NoRow(queue[u], v)' => hash'[Key(v)] = v.hash)
    BY <2>5, <2>6, <2>7 DEF NoneBehind, NoRow, r
  <2> QED BY <2>8 DEF Stale
<1>10. ASSUME NEW t \in DATA_TYPES, t # u, ReadHashes(t) \/ Settle(t) \/ Repeat(t) \/ HoldReturn(t)
       PROVE  Holds(v)'
  <2>1. queue'[u] = queue[u] /\ published' = published /\ unordered \subseteq unordered' /\ UNCHANGED hash
    BY <1>0, <1>10, <1>b DEF ReadHashes, Settle, Repeat, HoldReturn, graph
  <2> QED BY <1>2, <2>1 DEF Stale
<1>11. ASSUME NEW t \in DATA_TYPES, t # u, batch_write(t) \/ process_record(t)
       PROVE  Holds(v)'
  <2>1. queue'[u] = queue[u] /\ published' = published /\ unordered \subseteq unordered'
    BY <1>0, <1>11, <1>b DEF batch_write, process_record
  <2>2. hash'[Key(v)] = hash[Key(v)]
    BY <1>0, <1>11, OtherTypesKept
  <2> QED BY <1>2, <2>1, <2>2 DEF Stale
<1>12. CASE SweepStep \/ Backfill
  <2>1. UNCHANGED <<published, writers, unordered>>
    BY <1>12 DEF SweepStep, SelectStubs, DeleteStubs, SweepStops, DeleteSentinelEdges, DeleteSentinel, Backfill
  <2>2. ~Stale(v) => ~Stale(v)'
    BY <1>0, <1>12, CleanupKeepsHash
  <2> QED BY <1>2, <2>1, <2>2 DEF writers
<1>13. CASE UNCHANGED vars
  BY <1>2, <1>13 DEF vars, writers, graph, Stale
<1> HIDE DEF Holds
<1> QED BY <1>3, <1>4, <1>5, <1>6, <1>7, <1>8, <1>9, <1>10, <1>11, <1>12, <1>13 DEF Next, WriterStep, FaultStep

\* The version Newest chooses is one of these.
LEMMA NewestIsCurrent ==
    ASSUME WritersOK, NEW d \in 1..published, NEW t \in DATA_TYPES, NEW v \in Members(Dumps[d][t])
    PROVE  Newest(Key(v)) \in Current /\ Key(Newest(Key(v))) = Key(v)
<1> DEFINE n == Key(v)
           dumps == {c \in 1..published : \E u \in DATA_TYPES : \E w \in Members(Dumps[c][u]) : Key(w) = n}
           last == CHOOSE c \in dumps : \A b \in dumps : b <= c
<1>1. published \in Nat /\ 1..published \subseteq DOMAIN Dumps
  BY LoadedAssumption DEF WritersOK
<1>2. dumps \subseteq 1..published /\ dumps # {}
  OBVIOUS
<1>3. \E c \in dumps : \A b \in dumps : b <= c
  <2> HIDE DEF dumps
  <2> QED BY <1>1, <1>2, LastPlace
<1>4. last \in dumps /\ \A b \in dumps : b <= last
  <2> HIDE DEF dumps
  <2> QED BY <1>3
<1>5. Newest(n) = CHOOSE w \in Records(last) : Key(w) = n
  BY DEF Newest, Records
<1> HIDE DEF last
<1>6. last \in 1..published /\ \E w \in Records(last) : Key(w) = n
  BY <1>4 DEF Records
<1>7. \A c \in 1..published : c > last => \A w \in Records(c) : Key(w) # n
  <2> SUFFICES ASSUME NEW c \in 1..published, c > last, NEW w \in Records(c), Key(w) = n PROVE FALSE
    OBVIOUS
  <2>1. c \in dumps
    BY DEF Records
  <2> QED BY <1>4, <1>6, <2>1
<1> HIDE DEF n, dumps
<1>8. Newest(n) \in Records(last) /\ Key(Newest(n)) = n
  BY <1>5, <1>6
<1>9. Newest(n) \in Versions
  <2>1. PICK u \in DATA_TYPES : Newest(n) \in Members(Dumps[last][u])
    BY <1>8 DEF Records
  <2> QED BY <1>1, <1>6, <2>1, DumpRows
<1>10. Newest(n) \in Current
  BY <1>6, <1>7, <1>8, <1>9 DEF Current
<1> QED BY <1>8, <1>10 DEF n

LEMMA LatestStep ==
    ASSUME WritersOK, GraphOK, EdgesInv, LatestInv, [Next]_vars
    PROVE  LatestInv'
<1>1. BatchInFront'
  BY FrontStep DEF LatestInv
<1>2. ASSUME ~overlapped' PROVE SkippedIsStored' /\ NewestIsLast'
  <2>1. ~overlapped
    BY <1>2, OverlapStays DEF GraphOK
  <2> QED BY <2>1, SkippedStep, NewestStep DEF LatestInv, EdgesInv
<1> QED BY <1>1, <1>2 DEF LatestInv

\* What a writer has taken is the front of its queue, what it skipped was in the
\* graph and stays there until the batch settles, and the last row of a node in
\* a queue is its newest version, or that version is stored
\* (batch_projection.py:366).
THEOREM ProjectionOrder == Spec => []Inv
<1>1. Init => LatestInv
  <2> SUFFICES ASSUME Init PROVE LatestInv
    OBVIOUS
  <2>1. BatchInFront /\ SkippedIsStored
    BY DEF Init, BatchInFront, SkippedIsStored, Members
  <2>2. Current = {}
    BY DEF Init, Current
  <2> QED BY <2>1, <2>2 DEF LatestInv, NewestIsLast
<1>2. TypeOK /\ EdgesInv /\ LatestInv /\ [Next]_vars => LatestInv'
  BY TypeParts, LatestStep
<1>3. TypeOK /\ LatestInv => Inv
  BY DEF Inv
<1> QED BY <1>1, <1>2, <1>3, ProjectionTypeCorrect, ProjectionInvariant, PTL DEF Spec

\* When all that was published is settled every node holds the newest version of
\* its record, whatever was repeated, skipped by its hash or swept in between,
\* except where a delivery went back behind a newer one, or one batch held two
\* versions (batch_projection.py:366, graphinator.py:1856).
THEOREM LatestVersionsWin == Spec => []LatestVersionWins
<1>1. TypeOK /\ LatestInv => LatestVersionWins
  <2> SUFFICES ASSUME WritersOK, LatestInv, Quiet, ~overlapped,
                      NEW d \in 1..published, NEW t \in DATA_TYPES, NEW x \in Members(Dumps[d][t]),
                      Key(x) \notin unordered, Key(x) # Sentinel
               PROVE  hash[Key(x)] = Newest(Key(x)).hash
    BY TypeParts DEF LatestVersionWins
  <2> DEFINE v == Newest(Key(x))
  <2>1. v \in Current /\ Key(v) = Key(x)
    BY NewestIsCurrent
  <2> HIDE DEF v
  <2>2. v.kind \in DATA_TYPES
    BY <2>1, RecordsAssumption DEF Current, DATA_TYPES
  <2>3. \A w \in Members(queue[v.kind]) : Key(w) # Key(v)
    BY <2>2 DEF Quiet, Members
  <2>4. ~Stale(v)
    BY <2>1, <2>3 DEF LatestInv, NewestIsLast
  <2> QED BY <2>1, <2>4 DEF Stale, v
<1>2. Inv => TypeOK /\ LatestInv
  BY DEF Inv
<1> QED BY <1>1, <1>2, ProjectionOrder, PTL
=============================================================================
