---------------------------- MODULE MetricsExport ----------------------------
(***************************************************************************)
(* GET /metrics.  Every request copies the cache, replaces the global gauge *)
(* vector siteAvailabilityStatus by one with the label keys of that copy,  *)
(* fills it and the aggregated gauges, and gathers the default registry.   *)
(* Requests run concurrently over those globals, without a lock.  An app   *)
(* is its labels and its status; the labels also say which location and    *)
(* source it counts for.                                                   *)
(***************************************************************************)
EXTENDS Naturals, FiniteSets

CONSTANTS
  Requests,   \* requests; each one creates a vector, which is named after it
  Contents,   \* what the cache can hold: sets of [id, group, keys, status]
  NoVector

Statuses == {"up", "down", "unavailable"}

ASSUME MetricsAssumption ==
  /\ NoVector \notin Requests
  /\ \A apps \in Contents : /\ IsFiniteSet(apps)
                            /\ \A x \in apps : x.status \in Statuses
                            /\ \A x, y \in apps : x.id = y.id => x = y

VARIABLES
  cache,       \* the apps the scrapers have stored
  metric,      \* siteAvailabilityStatus: a vector, or NoVector for nil
  series,      \* [vector] -> its series
  registered,  \* the vector in the registry
  dims,        \* what the registry remembers of the metric's name: {} or {its label keys}
  gauges,      \* the aggregated gauges: a set of [group, status, count]
  totals,      \* [status] -> the global gauges
  pc,          \* [request] -> what it does next
  snapshot,    \* [request] -> the apps it copied
  answer,      \* [request] -> what it gathered
  alone        \* history: requests that met no other

globals == <<metric, series, registered, dims, gauges, totals>>
metricsVars == <<cache, globals, pc, snapshot, answer, alone>>

collectUniqueLabels(apps) == UNION {x.keys : x \in apps}
keysOf(v) == collectUniqueLabels(snapshot[v])

Started == {r \in Requests : pc[r] # "idle"}
Finished == {r \in Requests : pc[r] \in {"answered", "panicked"}}

MetricsInit ==
  /\ cache = {}
  /\ metric = NoVector /\ registered = NoVector /\ dims = {}
  /\ series = [v \in Requests |-> {}]
  /\ gauges = {} /\ totals = [s \in Statuses |-> 0]
  /\ pc = [r \in Requests |-> "idle"]
  /\ snapshot = [r \in Requests |-> {}]
  /\ answer = [r \in Requests |-> [series |-> {}, gauges |-> {}, totals |-> totals]]
  /\ alone = Requests

\* Scrapers and site sources store new apps, with whatever labels they have.
CacheChanges ==
  /\ cache' \in Contents \ {cache}
  /\ UNCHANGED <<globals, pc, snapshot, answer, alone>>

\* The handler starts with a copy of the cache.
Collect(r) ==
  /\ pc[r] = "idle"
  /\ snapshot' = [snapshot EXCEPT ![r] = cache]
  /\ pc' = [pc EXCEPT ![r] = "unregister"]
  /\ alone' = IF Started = Finished THEN alone ELSE alone \ ((Started \ Finished) \cup {r})
  /\ UNCHANGED <<cache, globals, answer>>

Goto(r, from, to) == pc[r] = from /\ pc' = [pc EXCEPT ![r] = to] /\ UNCHANGED <<cache, snapshot, alone>>

\* Mutant: the registry takes out only the very vector it is given.
UnregisterSameVector(r) ==
  /\ Goto(r, "unregister", "create")
  /\ registered' = IF metric = registered THEN NoVector ELSE registered
  /\ UNCHANGED <<metric, series, dims, gauges, totals, answer>>

\* The registry knows a collector by its metrics' names: any vector of this name
\* takes out the registered one.  The label keys stay remembered.
Unregister(r) ==
  /\ Goto(r, "unregister", "create")
  /\ registered' = IF metric # NoVector THEN NoVector ELSE registered
  /\ UNCHANGED <<metric, series, dims, gauges, totals, answer>>

Create(r) ==
  /\ Goto(r, "create", "register")
  /\ metric' = r
  /\ UNCHANGED <<series, registered, dims, gauges, totals, answer>>

\* MustRegister panics on a second collector of the name, and on other label keys
\* than the name has ever had.
Registrable(v) == registered = NoVector /\ dims \subseteq {keysOf(v)}

Register(r) ==
  /\ Goto(r, "register", "reset")
  /\ Registrable(metric)
  /\ registered' = metric /\ dims' = {keysOf(metric)}
  /\ UNCHANGED <<metric, series, gauges, totals, answer>>

RegisterPanics(r) ==
  /\ Goto(r, "register", "panicked")
  /\ ~Registrable(metric)
  /\ UNCHANGED <<globals, answer>>

\* Mutant: the gauges per location and source are not reset.
ResetOnlyStatus(r) ==
  /\ Goto(r, "reset", "fill")
  /\ series' = [series EXCEPT ![metric] = {}]
  /\ UNCHANGED <<metric, registered, dims, gauges, totals, answer>>

Reset(r) ==
  /\ Goto(r, "reset", "fill")
  /\ series' = [series EXCEPT ![metric] = {}]
  /\ gauges' = {}
  /\ UNCHANGED <<metric, registered, dims, totals, answer>>

\* The series of an app, with label values in the order of the request's keys.
Series(r, x) == [id |-> x.id, under |-> keysOf(r), value |-> IF x.status = "up" THEN 1 ELSE 0]

\* WithLabelValues looks at the number of label values only.
Fill(r) ==
  LET new == {Series(r, x) : x \in snapshot[r]}
      old == {s \in series[metric] : \A n \in new : <<n.id, n.under>> # <<s.id, s.under>>}
  IN /\ Goto(r, "fill", "aggregate")
     /\ snapshot[r] = {} \/ Cardinality(keysOf(r)) = Cardinality(keysOf(metric))
     /\ series' = [series EXCEPT ![metric] = old \cup new]
     /\ UNCHANGED <<metric, registered, dims, gauges, totals, answer>>

FillPanics(r) ==
  /\ Goto(r, "fill", "panicked")
  /\ snapshot[r] # {} /\ Cardinality(keysOf(r)) # Cardinality(keysOf(metric))
  /\ UNCHANGED <<globals, answer>>

CountIn(apps, s) == Cardinality({x \in apps : x.status = s})

\* A location and source without apps gets no gauges.
Gauges(apps) ==
  {[group |-> g, status |-> s, count |-> CountIn({x \in apps : x.group = g}, s)] :
     g \in {x.group : x \in apps}, s \in Statuses}

updateAggregatedMetrics(r) ==
  /\ Goto(r, "aggregate", "gather")
  /\ gauges' = {g \in gauges : \A x \in snapshot[r] : x.group # g.group} \cup Gauges(snapshot[r])
  /\ totals' = [s \in Statuses |-> CountIn(snapshot[r], s)]
  /\ UNCHANGED <<metric, series, registered, dims, answer>>

\* promhttp gathers whatever is registered by now.
Gather(r) ==
  /\ Goto(r, "gather", "answered")
  /\ answer' = [answer EXCEPT ![r] =
       [series |-> IF registered = NoVector THEN {} ELSE series[registered],
        gauges |-> gauges, totals |-> totals]]
  /\ UNCHANGED globals

SetupMetricsHandler(r) ==
  \/ Collect(r) \/ Unregister(r) \/ Create(r) \/ Register(r) \/ RegisterPanics(r) \/ Reset(r)
  \/ Fill(r) \/ FillPanics(r) \/ updateAggregatedMetrics(r) \/ Gather(r)

MetricsNext == CacheChanges \/ \E r \in Requests : SetupMetricsHandler(r)

MetricsSpec == MetricsInit /\ [][MetricsNext]_metricsVars

------------------------------------------------------------------------------
(***************************************************************************)
(* Properties.                                                             *)
(***************************************************************************)

\* A request that meets no other one is answered, whatever earlier ones left
\* behind - vectors that are not registered, panics half way - if its label keys
\* are those the metric has always had.
LoneCompatibleScrapesAnswered ==
  \A r \in alone : dims = {keysOf(r)} => pc[r] # "panicked"

\* Its status series are one per app of its copy of the cache, with that app's
\* value under the copy's own label keys, its gauges are those of the locations
\* and sources of the copy, and nothing of any earlier scrape is among them; the
\* totals, which are not reset, agree with the series.
LoneScrapesExact ==
  \A r \in alone : pc[r] = "answered" =>
    /\ answer[r].series = {Series(r, x) : x \in snapshot[r]}
    /\ answer[r].gauges = Gauges(snapshot[r])
    /\ answer[r].totals.up = Cardinality({s \in answer[r].series : s.value = 1})
    /\ answer[r].totals.down + answer[r].totals.unavailable
         = Cardinality({s \in answer[r].series : s.value = 0})

\* "Any labels defined at the server, source, or application level"
\* (metrics.md:45) are dynamic labels: a scrape is answered whatever labels the
\* apps have by now.
LoneScrapesAnswered == \A r \in alone : pc[r] # "panicked"
=============================================================================
