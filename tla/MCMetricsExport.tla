--------------------------- MODULE MCMetricsExport ---------------------------
(* Cache contents for MetricsExport: two apps of one or two locations. *)
EXTENDS MetricsExport, TLC

CONSTANTS r1, r2, r3

\* Requests are interchangeable.
AnyRequest == Permutations(Requests)

\* "team" may give way to "env" or appear late, as labels of relayed apps do.
App(id, group, keys, status) == [id |-> id, group |-> group, keys |-> keys, status |-> status]
VaryingLabels ==
  {{App("p", "east", {"team"}, "up"), App("q", "west", {}, "down")},
   {App("p", "east", {"env"}, "up")},
   {App("p", "east", {"team"}, "unavailable")},
   {App("q", "west", {}, "up")}}
=============================================================================
