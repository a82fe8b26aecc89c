---------------------------- MODULE MCProjection ----------------------------
(***************************************************************************)
(* Two dumps over a graph loaded before the sentinel fix.  Between them a  *)
(* release changes its artist, loses its master, its medium and its        *)
(* credit and gains a companies block; the artist its credit names gets a  *)
(* record of its own; and a master is published under the sentinel's id.   *)
(***************************************************************************)
EXTENDS Projection

CONSTANTS none, silent, nameless

artist(id, called, aliases) ==
    [kind |-> "artists", id |-> id, hash |-> "h1", name |-> called,
     members |-> {}, groups |-> {}, aliases |-> aliases]
release1 ==
    [kind |-> "releases", id |-> "R1", hash |-> "h1", name |-> "Release",
     artists |-> {<<"A1", "a one">>, <<"A2", "a two">>}, labels |-> {<<"L1", "l one">>},
     master_id |-> "M1", genres |-> {"Rock"}, styles |-> {"Punk"},
     media |-> {<<"vinyl", "disc">>}, companies |-> silent,
     credits |-> {<<"P1", "Producer", "A2">>}]
release2 ==
    [release1 EXCEPT !.hash = "h2", !.artists = {<<"A2", nameless>>}, !.master_id = "0",
     !.genres = {"Jazz"}, !.styles = {}, !.media = {}, !.companies = {<<"C1", "Pressed By">>},
     !.credits = {}]
master1 ==
    [kind |-> "masters", id |-> "M1", hash |-> "h1", name |-> "Master",
     artists |-> {"A1"}, genres |-> {"Rock"}, styles |-> {}]
master0 == [master1 EXCEPT !.id = "0"]
artist2 == artist("A2", "Artist Two", {"A1"})

AllVersions == {release1, release2, master1, master0, artist2}
TwoDumps == <<
    [artists |-> <<>>, labels |-> <<>>, masters |-> <<master1>>, releases |-> <<release1>>],
    [artists |-> <<artist2>>, labels |-> <<>>, masters |-> <<master0>>, releases |-> <<release2>>] >>

Loaded == [n \in {<<"Release", "R1">>} |-> "h0"]
LoadedEdges ==
    {Edge(<<"Release", "R1">>, "DERIVED_FROM", Sentinel),
     <<<<"Release", "R1">>, "ISSUED_ON", <<"Medium", "cd">>, Absent, "musicbrainz">>,
     Edge(<<"Artist", "A1">>, "HAS_STYLE", <<"Style", "Punk">>)}
BackfillFile == [n \in Nodes |-> IF n = <<"Artist", "A1">> THEN "a 1" ELSE nameless]
=============================================================================
