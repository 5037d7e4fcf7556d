------------------------- MODULE MetricsExportProofs -------------------------
(***************************************************************************)
(* What a scrape of /metrics that meets no other one is worth, after any   *)
(* number of earlier ones and whatever they left behind.                   *)
(***************************************************************************)
EXTENDS MetricsExport, FiniteSetTheorems, TLAPS

Running == {"unregister", "create", "register", "reset", "fill", "aggregate", "gather"}

Copies == Contents \cup {{}}

MetricsTypeOK ==
  /\ cache \in Copies
  /\ metric \in Requests \cup {NoVector} /\ registered \in Requests \cup {NoVector}
  /\ metric = NoVector => registered = NoVector
  /\ pc \in [Requests -> {"idle", "answered", "panicked"} \cup Running]
  /\ snapshot \in [Requests -> Copies]
  /\ DOMAIN series = Requests /\ DOMAIN answer = Requests
  /\ alone \subseteq Requests
  /\ dims = {} \/ \E k : dims = {k}

\* Who runs and has met nobody is the only one that runs.
AloneAlone == \A r \in alone : pc[r] \in Running => \A q \in Requests : pc[q] \in Running => q = r

\* What the vector and the gauges are to hold for a request.
Rendered(r) == {Series(r, x) : x \in snapshot[r]}
Totals(r) == [s \in Statuses |-> CountIn(snapshot[r], s)]

\* How far a lone request has brought the globals, and what it found.
Lone(r) ==
  /\ pc[r] = "create" => registered = NoVector
  /\ pc[r] = "register" => metric = r /\ registered = NoVector
  /\ pc[r] \in {"reset", "fill", "aggregate", "gather"} => metric = r /\ registered = r
  /\ pc[r] = "fill" => series[r] = {} /\ gauges = {}
  /\ pc[r] = "aggregate" => series[r] = Rendered(r) /\ gauges = {}
  /\ pc[r] = "gather" => series[r] = Rendered(r) /\ gauges = Gauges(snapshot[r]) /\ totals = Totals(r)
  /\ pc[r] = "answered" =>
       answer[r] = [series |-> Rendered(r), gauges |-> Gauges(snapshot[r]), totals |-> Totals(r)]
  /\ pc[r] = "panicked" => \E k : dims = {k} /\ k # keysOf(r)

MetricsInv == MetricsTypeOK /\ AloneAlone /\ \A r \in alone : Lone(r)

-----------------------------------------------------------------------------
(***************************************************************************)
(* Counting.                                                               *)
(***************************************************************************)
(* Each app of a copy has a series of its own.                             *)
LEMMA SeriesPerApp ==
  ASSUME MetricsAssumption, MetricsTypeOK, NEW r \in Requests, NEW apps \in SUBSET snapshot[r]
  PROVE  /\ IsFiniteSet(apps)
         /\ Cardinality({Series(r, x) : x \in apps}) = Cardinality(apps)
<1> DEFINE f == [x \in apps |-> Series(r, x)]
           made == {Series(r, x) : x \in apps}
<1>1. IsFiniteSet(snapshot[r]) /\ \A x, y \in snapshot[r] : x.id = y.id => x = y
  BY FS_EmptySet DEF MetricsAssumption, MetricsTypeOK, Copies
<1>2. IsFiniteSet(apps)
  BY <1>1, FS_Subset
<1>3. \A x, y \in apps : Series(r, x) = Series(r, y) => x = y
  <2>1. \A x : Series(r, x).id = x.id
    BY DEF Series
  <2> QED BY <1>1, <2>1
<1>4. f \in Bijection(apps, made)
  BY <1>3 DEF Bijection, Injection, Surjection, IsInjective
<1>5. ExistsBijection(apps, made)
  <2> HIDE DEF f, made
  <2> QED BY <1>4 DEF ExistsBijection
<1> HIDE DEF made
<1>6. Cardinality(made) = Cardinality(apps)
  BY <1>2, <1>5, FS_Bijection
<1> QED BY <1>2, <1>6 DEF made

(* The totals of a request agree with the series it renders.               *)
LEMMA TotalsAgree ==
  ASSUME MetricsAssumption, MetricsTypeOK, NEW r \in Requests
  PROVE  /\ Totals(r).up = Cardinality({s \in Rendered(r) : s.value = 1})
         /\ Totals(r).down + Totals(r).unavailable = Cardinality({s \in Rendered(r) : s.value = 0})
<1> DEFINE with(st) == {x \in snapshot[r] : x.status = st}
           others == with("down") \cup with("unavailable")
<1>1. \A x \in snapshot[r] : x.status \in {"up", "down", "unavailable"}
  BY DEF MetricsAssumption, MetricsTypeOK, Copies, Statuses
<1>2. \A x : Series(r, x).value = IF x.status = "up" THEN 1 ELSE 0
  BY DEF Series
<1>3. /\ {s \in Rendered(r) : s.value = 1} = {Series(r, x) : x \in with("up")}
      /\ {s \in Rendered(r) : s.value = 0} = {Series(r, x) : x \in others}
  BY <1>1, <1>2 DEF Rendered
<1>4. /\ Totals(r).up = Cardinality(with("up"))
      /\ Totals(r).down = Cardinality(with("down"))
      /\ Totals(r).unavailable = Cardinality(with("unavailable"))
  BY DEF Totals, CountIn, Statuses
<1>5. with("up") \in SUBSET snapshot[r] /\ with("down") \in SUBSET snapshot[r]
      /\ with("unavailable") \in SUBSET snapshot[r] /\ others \in SUBSET snapshot[r]
  OBVIOUS
<1>6. with("down") \cap with("unavailable") = {}
  OBVIOUS
<1> HIDE DEF with
<1>7. IsFiniteSet(with("down")) /\ IsFiniteSet(with("unavailable"))
  BY <1>5, SeriesPerApp
<1>8. Cardinality(others) = Cardinality(with("down")) + Cardinality(with("unavailable"))
  <2>1. Cardinality(others) = Cardinality(with("down")) + Cardinality(with("unavailable")) - 0
    BY <1>6, <1>7, FS_Union, FS_EmptySet
  <2>2. Cardinality(with("down")) \in Nat /\ Cardinality(with("unavailable")) \in Nat
    BY <1>7, FS_CardinalityType
  <2> QED BY <2>1, <2>2
<1>9. /\ Cardinality({Series(r, x) : x \in with("up")}) = Cardinality(with("up"))
      /\ Cardinality({Series(r, x) : x \in others}) = Cardinality(others)
  <2> HIDE DEF others
  <2> QED BY <1>5, SeriesPerApp
<1> QED BY <1>3, <1>4, <1>8, <1>9

-----------------------------------------------------------------------------
(***************************************************************************)
(* The steps.                                                              *)
(***************************************************************************)
LEMMA MetricsInitInv ==
  ASSUME MetricsAssumption, MetricsInit
  PROVE  MetricsInv
<1>1. \A r \in Requests : pc[r] = "idle"
  BY DEF MetricsInit
<1>2. MetricsTypeOK
  BY DEF MetricsInit, MetricsTypeOK, Copies
<1>3. AloneAlone /\ \A r \in alone : Lone(r)
  BY <1>1, <1>2 DEF AloneAlone, Lone, Running, MetricsTypeOK
<1> QED BY <1>2, <1>3 DEF MetricsInv

LEMMA TypesKept ==
  ASSUME MetricsAssumption, MetricsTypeOK, NEW r \in Requests, SetupMetricsHandler(r)
  PROVE  MetricsTypeOK'
<1>1. CASE Collect(r)
  BY <1>1 DEF Collect, globals, MetricsTypeOK, Running
<1>2. CASE Unregister(r) \/ Create(r)
  BY <1>2 DEF Unregister, Create, Goto, MetricsTypeOK, Running
<1>3. CASE Register(r)
  BY <1>3 DEF Register, Goto, MetricsTypeOK, Running
<1>4. CASE RegisterPanics(r) \/ FillPanics(r)
  BY <1>4 DEF RegisterPanics, FillPanics, Goto, globals, MetricsTypeOK, Running
<1>5. CASE Reset(r) \/ Fill(r) \/ updateAggregatedMetrics(r)
  BY <1>5 DEF Reset, Fill, updateAggregatedMetrics, Goto, MetricsTypeOK, Running
<1>6. CASE Gather(r)
  BY <1>6 DEF Gather, Goto, globals, MetricsTypeOK, Running
<1> QED BY <1>1, <1>2, <1>3, <1>4, <1>5, <1>6 DEF SetupMetricsHandler

(* A step changes where its own request is and nothing another one holds;  *)
(* once the label keys are registered they stay.                           *)
LEMMA StepLocal ==
  ASSUME MetricsTypeOK, NEW r \in Requests, SetupMetricsHandler(r)
  PROVE  /\ \A q \in Requests \ {r} : pc'[q] = pc[q] /\ snapshot'[q] = snapshot[q] /\ answer'[q] = answer[q]
         /\ alone' \subseteq alone
         /\ \A k : dims = {k} => dims' = {k}
<1>1. CASE Collect(r)
  BY <1>1 DEF Collect, globals, MetricsTypeOK
<1>2. CASE Unregister(r) \/ Create(r)
  BY <1>2 DEF Unregister, Create, Goto, MetricsTypeOK
<1>3. CASE Register(r)
  BY <1>3 DEF Register, Registrable, Goto, MetricsTypeOK
<1>4. CASE RegisterPanics(r) \/ FillPanics(r)
  BY <1>4 DEF RegisterPanics, FillPanics, Goto, globals, MetricsTypeOK
<1>5. CASE Reset(r) \/ Fill(r) \/ updateAggregatedMetrics(r)
  BY <1>5 DEF Reset, Fill, updateAggregatedMetrics, Goto, MetricsTypeOK
<1>6. CASE Gather(r)
  BY <1>6 DEF Gather, Goto, globals, MetricsTypeOK
<1> QED BY <1>1, <1>2, <1>3, <1>4, <1>5, <1>6 DEF SetupMetricsHandler

(* Only its start makes a request run, and whoever starts while another    *)
(* one runs is not alone, and neither is the other.                        *)
LEMMA StartMeets ==
  ASSUME MetricsTypeOK, NEW r \in Requests, SetupMetricsHandler(r)
  PROVE  \/ pc[r] \in Running
         \/ /\ Collect(r)
            /\ \A q \in Requests : pc[q] \in Running => q \notin alone' /\ r \notin alone'
<1>1. CASE Collect(r)
  <2>1. \A q \in Requests : pc[q] \in Running => q \in Started \ Finished
    BY DEF Started, Finished, Running
  <2>2. \A q \in Requests : pc[q] \in Running => q \notin alone' /\ r \notin alone'
    BY <1>1, <2>1 DEF Collect
  <2> QED BY <1>1, <2>2
<1>2. CASE Unregister(r) \/ Create(r) \/ Register(r) \/ RegisterPanics(r) \/ Reset(r)
  BY <1>2 DEF Unregister, Create, Register, RegisterPanics, Reset, Goto, Running
<1>3. CASE Fill(r) \/ FillPanics(r) \/ updateAggregatedMetrics(r) \/ Gather(r)
  BY <1>3 DEF Fill, FillPanics, updateAggregatedMetrics, Gather, Goto, Running
<1> QED BY <1>1, <1>2, <1>3 DEF SetupMetricsHandler

LEMMA AloneAloneKept ==
  ASSUME MetricsTypeOK, AloneAlone, NEW r \in Requests, SetupMetricsHandler(r)
  PROVE  AloneAlone'
<1> SUFFICES ASSUME NEW p \in alone', pc'[p] \in Running, NEW q \in Requests, pc'[q] \in Running
             PROVE  q = p
  BY DEF AloneAlone
<1>1. p \in alone /\ p \in Requests
  BY StepLocal DEF MetricsTypeOK
<1>2. \A s \in Requests : pc'[s] \in Running => s = r \/ pc[s] \in Running
  BY StepLocal
<1>3. CASE pc[r] \in Running
  BY <1>1, <1>2, <1>3 DEF AloneAlone
<1>4. CASE pc[r] \notin Running
  <2>1. \A s \in Requests : pc[s] \in Running => s \notin alone' /\ r \notin alone'
    BY <1>4, StartMeets
  <2>2. p = r
    BY <1>1, <1>2, <2>1
  <2> QED BY <1>2, <2>1, <2>2
<1> QED BY <1>3, <1>4

(* What a lone request has made of the globals is there at its next step:  *)
(* no other request steps between.                                         *)
LEMMA OtherStepKeepsLone ==
  ASSUME MetricsTypeOK, AloneAlone, NEW r \in Requests, SetupMetricsHandler(r),
         NEW p \in alone', p # r, Lone(p)
  PROVE  Lone(p)'
<1>1. p \in alone /\ p \in Requests
  BY StepLocal DEF MetricsTypeOK
<1>2. pc'[p] = pc[p] /\ snapshot'[p] = snapshot[p] /\ answer'[p] = answer[p]
  BY <1>1, StepLocal
<1>3. pc[p] \notin Running
  <2>1. CASE pc[r] \in Running
    BY <1>1, <2>1 DEF AloneAlone
  <2>2. CASE pc[r] \notin Running
    BY <1>1, <2>2, StartMeets
  <2> QED BY <2>1, <2>2
<1>4. Rendered(p)' = Rendered(p) /\ Totals(p)' = Totals(p) /\ keysOf(p)' = keysOf(p)
  BY <1>2 DEF Rendered, Series, Totals, keysOf
<1>5. \A k : dims = {k} => dims' = {k}
  BY StepLocal
<1>6. pc[p] = "answered" =>
        answer[p]' = [series |-> Rendered(p)', gauges |-> Gauges(snapshot'[p]), totals |-> Totals(p)']
  BY <1>2, <1>4 DEF Lone
<1>7. pc[p] = "panicked" => \E k : dims' = {k} /\ k # keysOf(p)'
  BY <1>4, <1>5 DEF Lone
<1> HIDE DEF Rendered, Totals
<1> QED BY <1>2, <1>3, <1>6, <1>7 DEF Lone, Running

LEMMA OwnStepKeepsLone ==
  ASSUME MetricsTypeOK, NEW r \in Requests, SetupMetricsHandler(r), Lone(r)
  PROVE  Lone(r)'
<1>1. CASE Collect(r)
  <2>1. pc'[r] = "unregister"
    BY <1>1 DEF Collect, MetricsTypeOK
  <2> QED BY <2>1 DEF Lone
<1>2. CASE Unregister(r)
  <2>1. pc'[r] = "create" /\ registered' = NoVector
    BY <1>2 DEF Unregister, Goto, MetricsTypeOK
  <2> QED BY <2>1 DEF Lone
<1>3. CASE Create(r)
  <2>1. pc'[r] = "register" /\ metric' = r /\ registered' = NoVector
    BY <1>3 DEF Create, Goto, MetricsTypeOK, Lone
  <2> QED BY <2>1 DEF Lone
<1>4. CASE Register(r)
  <2>1. pc'[r] = "reset" /\ metric' = r /\ registered' = r
    BY <1>4 DEF Register, Goto, MetricsTypeOK, Lone
  <2> QED BY <2>1 DEF Lone
<1>5. CASE RegisterPanics(r)
  <2>1. pc[r] = "register" /\ pc'[r] = "panicked" /\ dims' = dims /\ keysOf(r)' = keysOf(r)
    BY <1>5 DEF RegisterPanics, Goto, globals, keysOf, MetricsTypeOK
  <2>2. ~(dims \subseteq {keysOf(r)})
    BY <1>5, <2>1 DEF RegisterPanics, Registrable, Lone
  <2>3. \E k : dims = {k} /\ k # keysOf(r)
    BY <2>2 DEF MetricsTypeOK
  <2> QED BY <2>1, <2>3 DEF Lone
<1>6. CASE Reset(r)
  <2>1. pc'[r] = "fill" /\ metric' = r /\ registered' = r /\ series'[r] = {} /\ gauges' = {}
    BY <1>6 DEF Reset, Goto, MetricsTypeOK, Lone
  <2> QED BY <2>1 DEF Lone
<1>7. CASE Fill(r)
  <2>1. pc[r] = "fill" /\ metric = r /\ registered = r /\ series[r] = {} /\ gauges = {}
    BY <1>7 DEF Fill, Goto, Lone
  <2>2. pc'[r] = "aggregate" /\ metric' = r /\ registered' = r /\ gauges' = {}
    BY <1>7, <2>1 DEF Fill, Goto, MetricsTypeOK
  <2>3. series'[r] = Rendered(r)
    BY <1>7, <2>1 DEF Fill, Rendered, MetricsTypeOK
  <2>4. Rendered(r)' = Rendered(r)
    BY <1>7 DEF Fill, Goto, Rendered, Series, keysOf
  <2> QED BY <2>1, <2>2, <2>3, <2>4 DEF Lone
<1>8. CASE FillPanics(r)
  BY <1>8 DEF FillPanics, Goto, Lone
<1>9. CASE updateAggregatedMetrics(r)
  <2>1. pc[r] = "aggregate" /\ metric = r /\ registered = r /\ series[r] = Rendered(r) /\ gauges = {}
    BY <1>9 DEF updateAggregatedMetrics, Goto, Lone
  <2>2. /\ pc'[r] = "gather" /\ metric' = r /\ registered' = r /\ series' = series
        /\ gauges' = Gauges(snapshot[r]) /\ totals' = Totals(r)
    BY <1>9, <2>1 DEF updateAggregatedMetrics, Goto, MetricsTypeOK, Totals
  <2>3. snapshot' = snapshot
    BY <1>9 DEF updateAggregatedMetrics, Goto
  <2>4. Rendered(r)' = Rendered(r) /\ Totals(r)' = Totals(r)
    BY <2>3 DEF Rendered, Series, keysOf, Totals
  <2> QED BY <2>1, <2>2, <2>3, <2>4 DEF Lone
<1>10. CASE Gather(r)
  <2>1. /\ pc[r] = "gather" /\ registered = r /\ series[r] = Rendered(r)
        /\ gauges = Gauges(snapshot[r]) /\ totals = Totals(r)
    BY <1>10 DEF Gather, Goto, Lone
  <2>2. r # NoVector
    BY MetricsAssumption
  <2>3. /\ pc'[r] = "answered" /\ snapshot' = snapshot
        /\ answer'[r] = [series |-> Rendered(r), gauges |-> Gauges(snapshot[r]), totals |-> Totals(r)]
    BY <1>10, <2>1, <2>2 DEF Gather, Goto, MetricsTypeOK
  <2>4. Rendered(r)' = Rendered(r) /\ Totals(r)' = Totals(r)
    BY <2>3 DEF Rendered, Series, keysOf, Totals
  <2> QED BY <2>3, <2>4 DEF Lone
<1> QED BY <1>1, <1>2, <1>3, <1>4, <1>5, <1>6, <1>7, <1>8, <1>9, <1>10 DEF SetupMetricsHandler

LEMMA MetricsInvNext ==
  ASSUME MetricsAssumption, MetricsInv, [MetricsNext]_metricsVars
  PROVE  MetricsInv'
<1>1. ASSUME NEW r \in Requests, SetupMetricsHandler(r) PROVE MetricsInv'
  <2>1. MetricsTypeOK' /\ AloneAlone'
    BY <1>1, TypesKept, AloneAloneKept DEF MetricsInv
  <2>2. ASSUME NEW p \in alone' PROVE Lone(p)'
    <3>1. p \in alone /\ Lone(p)
      BY <1>1, StepLocal DEF MetricsInv
    <3>2. CASE p = r
      BY <1>1, <3>1, <3>2, OwnStepKeepsLone DEF MetricsInv
    <3>3. CASE p # r
      BY <1>1, <3>1, <3>3, OtherStepKeepsLone DEF MetricsInv
    <3> QED BY <3>2, <3>3
  <2> QED BY <2>1, <2>2 DEF MetricsInv
<1>2. ASSUME UNCHANGED <<globals, pc, snapshot, answer, alone>>, cache' \in Copies PROVE MetricsInv'
  <2>1. \A r : Rendered(r)' = Rendered(r) /\ Totals(r)' = Totals(r) /\ keysOf(r)' = keysOf(r)
    BY <1>2 DEF Rendered, Series, Totals, keysOf
  <2>2. \A r : Lone(r) => Lone(r)'
    BY <1>2, <2>1 DEF Lone, globals
  <2>3. MetricsTypeOK' /\ AloneAlone'
    BY <1>2 DEF MetricsInv, MetricsTypeOK, AloneAlone, globals
  <2> QED BY <1>2, <2>2, <2>3 DEF MetricsInv
<1>3. CASE CacheChanges
  BY <1>2, <1>3 DEF CacheChanges, Copies
<1>4. CASE UNCHANGED metricsVars
  BY <1>2, <1>4 DEF metricsVars, MetricsInv, MetricsTypeOK
<1> QED BY <1>1, <1>3, <1>4 DEF MetricsNext

-----------------------------------------------------------------------------
(* No request steps between those of a lone one, which finds the vector    *)
(* and the gauges as it left them.                                         *)
THEOREM MetricsInvariant == MetricsSpec => []MetricsInv
<1>1. MetricsInit => MetricsInv
  BY MetricsInitInv, MetricsAssumption
<1>2. MetricsInv /\ [MetricsNext]_metricsVars => MetricsInv'
  BY MetricsInvNext, MetricsAssumption
<1> QED BY <1>1, <1>2, PTL DEF MetricsSpec

(* LoneCompatibleScrapesAnswered: whatever vectors and panics earlier      *)
(* scrapes left, a lone one with the metric's label keys is answered       *)
(* (metrics.go, SetupMetricsHandler).                                      *)
THEOREM LoneCompatibleScrapesAnsweredCorrect == MetricsSpec => []LoneCompatibleScrapesAnswered
<1>1. MetricsInv => LoneCompatibleScrapesAnswered
  <2> SUFFICES ASSUME MetricsInv, NEW r \in alone, dims = {keysOf(r)}, pc[r] = "panicked" PROVE FALSE
    BY DEF LoneCompatibleScrapesAnswered
  <2>1. \E k : dims = {k} /\ k # keysOf(r)
    BY DEF MetricsInv, Lone
  <2> QED BY <2>1
<1> QED BY <1>1, MetricsInvariant, PTL

(* LoneScrapesExact: a lone scrape shows its copy of the cache, nothing of *)
(* an earlier scrape, and totals that agree with its series (metrics.go).  *)
THEOREM LoneScrapesExactCorrect == MetricsSpec => []LoneScrapesExact
<1>1. MetricsInv => LoneScrapesExact
  <2> SUFFICES ASSUME MetricsInv, NEW r \in alone, pc[r] = "answered"
               PROVE  /\ answer[r].series = {Series(r, x) : x \in snapshot[r]}
                      /\ answer[r].gauges = Gauges(snapshot[r])
                      /\ answer[r].totals.up = Cardinality({s \in answer[r].series : s.value = 1})
                      /\ answer[r].totals.down + answer[r].totals.unavailable
                           = Cardinality({s \in answer[r].series : s.value = 0})
    BY DEF LoneScrapesExact
  <2>1. answer[r].series = Rendered(r) /\ answer[r].gauges = Gauges(snapshot[r]) /\ answer[r].totals = Totals(r)
    <3>1. Lone(r)
      BY DEF MetricsInv
    <3>2. answer[r] = [series |-> Rendered(r), gauges |-> Gauges(snapshot[r]), totals |-> Totals(r)]
      BY <3>1 DEF Lone
    <3> QED BY <3>2
  <2>2. r \in Requests
    BY DEF MetricsInv, MetricsTypeOK
  <2>3. /\ Totals(r).up = Cardinality({s \in Rendered(r) : s.value = 1})
        /\ Totals(r).down + Totals(r).unavailable = Cardinality({s \in Rendered(r) : s.value = 0})
    BY <2>2, TotalsAgree, MetricsAssumption DEF MetricsInv
  <2>4. Rendered(r) = {Series(r, x) : x \in snapshot[r]}
    BY DEF Rendered
  <2> QED BY <2>1, <2>3, <2>4
<1> QED BY <1>1, MetricsInvariant, PTL
=============================================================================
