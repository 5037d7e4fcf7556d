----------------------------- MODULE MCSiteMesh -----------------------------
(* Meshes for SiteMesh. *)
EXTENDS SiteMesh

CONSTANTS a, b, c

\* a and b scrape each other, and b scrapes c.
PairAndOne == {<<a, b>>, <<b, a>>, <<b, c>>}

\* All urls are host_urls, or b's url for c is an alias of c.
HostURLs == [v \in Sites |-> <<"host_url", v>>]
ByName == [e \in PairAndOne |-> HostURLs[e[2]]]
OneAlias == {ByName, [ByName EXCEPT ![<<b, c>>] = <<"alias", c>>]}

\* Ticks of half a second: b's clock is as far ahead of c's as it may be for the
\* requests of b, and as far ahead of a's as it may be for those of a.
BAhead == [v \in Sites |-> CASE v = a -> 2 [] v = b -> 599 [] OTHER -> 0]
=============================================================================
