--------------------------- MODULE ScrapingProofs ---------------------------
(***************************************************************************)
(* The status cache and the goroutines that fill it, for every set of      *)
(* sources, origins, names, labels and answers and every batch length.     *)
(***************************************************************************)
EXTENDS Scraping, TLAPS

-----------------------------------------------------------------------------
(***************************************************************************)
(* The cache keeps its invariants whatever is stored in it.                *)
(***************************************************************************)

(***************************************************************************)
(* Lemmas about the operators.                                             *)
(***************************************************************************)

\* Merging label maps yields a label map.
LEMMA MergeLabelsType ==
  ASSUME NEW x \in LabelMaps, NEW y \in LabelMaps, NEW z \in LabelMaps
  PROVE  MergeLabels(x, y, z) \in LabelMaps
<1> DEFINE K == DOMAIN x \cup DOMAIN y \cup DOMAIN z
<1>1. /\ DOMAIN x \subseteq LabelKeys /\ \A k \in DOMAIN x : x[k] \in LabelValues
      /\ DOMAIN y \subseteq LabelKeys /\ \A k \in DOMAIN y : y[k] \in LabelValues
      /\ DOMAIN z \subseteq LabelKeys /\ \A k \in DOMAIN z : z[k] \in LabelValues
  BY DEF LabelMaps
<1>2. K \in SUBSET LabelKeys
  BY <1>1
<1>3. MergeLabels(x, y, z) \in [K -> LabelValues]
  BY <1>1 DEF MergeLabels
<1>4. QED
  BY <1>2, <1>3 DEF LabelMaps

\* Every element of a batch is one of the reports.
LEMMA BatchElements ==
  ASSUME NEW batch \in Batches, NEW i \in DOMAIN batch
  PROVE  batch[i] \in Report /\ i \in Nat
<1>1. PICK n \in 0..MaxBatch : batch \in [1..n -> Reports]
  BY DEF Batches
<1>2. DOMAIN batch = 1..n
  BY <1>1
<1>3. i \in 1..n
  BY <1>2
<1>4. batch[i] \in Reports
  BY <1>1, <1>3
<1>5. Reports \subseteq Report
  BY ConstantsAssumption
<1>6. i \in Nat
  BY <1>3
<1>7. QED
  BY <1>4, <1>5, <1>6

\* What UpdateAppStatus stores of an accepted report is a well-formed app.
LEMMA CachedFormType ==
  ASSUME NEW s \in Sources, NEW r \in Report, Accepted(r)
  PROVE  CachedForm(s, r) \in App
<1>1. truncateName(r.name) \in Names
  BY ConstantsAssumption DEF Report, Accepted, truncateName
<1>2. r.location \in Places
  BY DEF Report, Accepted
<1>3. r.originURL \in URLs
  BY DEF Report, Accepted
<1>4. MergeLabels(serverLabels, sourceLabels[s], r.labels) \in LabelMaps
  BY ConstantsAssumption, MergeLabelsType DEF Report
<1>5. (IF r.status \in ValidStatuses THEN r.status ELSE "unavailable") \in ValidStatuses
  BY DEF ValidStatuses
<1>6. QED
  BY <1>1, <1>2, <1>3, <1>4, <1>5 DEF CachedForm, App

\* The group of an origin holds well-formed apps of that origin, one per name.
LEMMA GroupUnique ==
  ASSUME NEW s \in Sources, NEW batch \in Batches, NEW o \in Origins
  PROVE  /\ appsByOrigin(s, batch, o) \subseteq App
         /\ \A a, b \in appsByOrigin(s, batch, o) : a.name = b.name => a = b
         /\ \A a \in appsByOrigin(s, batch, o) : normalizeOriginURL(a.originURL) = o
<1>1. ASSUME NEW i \in LastIndicesFor(batch, o)
      PROVE  /\ i \in DOMAIN batch /\ i \in Nat
             /\ Accepted(batch[i])
             /\ CachedForm(s, batch[i]) \in App
             /\ normalizeOriginURL(batch[i].originURL) = o
  BY BatchElements, CachedFormType DEF LastIndicesFor, IndicesFor
<1>2. ASSUME NEW i \in LastIndicesFor(batch, o), NEW j \in LastIndicesFor(batch, o),
             CachedForm(s, batch[i]).name = CachedForm(s, batch[j]).name
      PROVE  i = j
  <2>1. truncateName(batch[i].name) = truncateName(batch[j].name)
    BY <1>2 DEF CachedForm
  <2>2. i <= j /\ j <= i
    BY <2>1 DEF LastIndicesFor
  <2>3. QED
    BY <2>2, <1>1
<1>3. \A i \in LastIndicesFor(batch, o) :
         CachedForm(s, batch[i]).originURL = batch[i].originURL
  BY DEF CachedForm
<1>4. QED
  BY <1>1, <1>2, <1>3 DEF appsByOrigin

(***************************************************************************)
(* The inductive invariant.  That the index is the one built from the      *)
(* cache says more than that it describes it, and is what steps preserve.  *)
(***************************************************************************)
IndexBuilt == appsByField = updateLabelManager(appStatusCache)

IInv == TypeOK /\ UniqueApps /\ IndexBuilt

LEMMA InitIInv == Init => IInv
<1> SUFFICES ASSUME Init PROVE IInv
  OBVIOUS
<1>1. TypeOK /\ UniqueApps
  BY DEF Init, TypeOK, UniqueApps
<1>2. \A f \in Fields : indexField(appStatusCache, f) = {}
  BY DEF Init, indexField
<1>3. IndexBuilt
  BY <1>2 DEF Init, IndexBuilt, updateLabelManager
<1>4. QED
  BY <1>1, <1>3 DEF IInv

\* What UpdateAppStatus does to the apps of every source and origin.
LEMMA UpdateEffect ==
  ASSUME TypeOK, NEW s \in Sources, NEW batch \in Batches, UpdateAppStatus(s, batch)
  PROVE  /\ appStatusCache' \in [Origins -> [Sources -> SUBSET App]]
         /\ \A o \in Origins :
              /\ \A t \in Sources \ {s} : appStatusCache'[o][t] = appStatusCache[o][t]
              /\ appStatusCache'[o][s] \in
                   {{}, appStatusCache[o][s], appsByOrigin(s, batch, o)}
         /\ appsByField' = updateLabelManager(appStatusCache')
         /\ locationCache' = locationCache
<1>1. CASE RemoveSource(s)
  BY <1>1 DEF RemoveSource, TypeOK
<1>2. CASE ReplaceApps(s, batch)
  <2>1. \A o \in Origins : appsByOrigin(s, batch, o) \subseteq App
    BY GroupUnique
  <2>2. QED
    BY <1>2, <2>1 DEF ReplaceApps, TypeOK
<1>3. QED
  BY <1>1, <1>2 DEF UpdateAppStatus

LEMMA UpdateAppStatusKeepsIInv ==
  ASSUME IInv, NEW s \in Sources, NEW batch \in Batches, UpdateAppStatus(s, batch)
  PROVE  IInv'
<1>1. TypeOK'
  BY UpdateEffect DEF IInv, TypeOK
<1>2. UniqueApps'
  <2> SUFFICES ASSUME NEW o \in Origins, NEW t \in Sources
               PROVE  /\ \A a, b \in appStatusCache'[o][t] : a.name = b.name => a = b
                      /\ \A a \in appStatusCache'[o][t] : normalizeOriginURL(a.originURL) = o
    BY DEF UniqueApps
  <2>1. CASE appStatusCache'[o][t] = appStatusCache[o][t]
    BY <2>1 DEF IInv, UniqueApps
  <2>2. CASE appStatusCache'[o][t] = {}
    BY <2>2
  <2>3. CASE t = s /\ appStatusCache'[o][t] = appsByOrigin(s, batch, o)
    BY <2>3, GroupUnique
  <2>4. QED
    BY <2>1, <2>2, <2>3, UpdateEffect DEF IInv
<1>3. IndexBuilt'
  BY UpdateEffect DEF IInv, IndexBuilt
<1>4. QED
  BY <1>1, <1>2, <1>3 DEF IInv

LEMMA UpdateLocationCacheKeepsIInv ==
  ASSUME IInv, NEW s \in Sources, NEW locs \in SUBSET Places, UpdateLocationCache(s, locs)
  PROVE  IInv'
BY DEF IInv, TypeOK, UniqueApps, IndexBuilt, UpdateLocationCache

LEMMA NextIInv == IInv /\ [Next]_vars => IInv'
<1> SUFFICES ASSUME IInv, [Next]_vars PROVE IInv'
  OBVIOUS
<1>1. CASE UNCHANGED vars
  BY <1>1 DEF vars, IInv, TypeOK, UniqueApps, IndexBuilt
<1>2. CASE Next
  BY <1>2, UpdateAppStatusKeepsIInv, UpdateLocationCacheKeepsIInv DEF Next
<1>3. QED
  BY <1>1, <1>2

LEMMA Invariance == Spec => []IInv
BY InitIInv, NextIInv, PTL DEF Spec

(***************************************************************************)
(* The theorems.                                                           *)
(***************************************************************************)

\* The caches hold well-formed values in every reachable state: names are
\* truncated, statuses valid, labels merged.
THEOREM TypeCorrect == Spec => []TypeOK
BY Invariance, PTL DEF IInv

\* Origin, source and name identify a cached app (the documented uniqueness).
THEOREM AppsAreUnique == Spec => []UniqueApps
BY Invariance, PTL DEF IInv

\* An index built from the cache describes it.
LEMMA BuiltIndexMatches == IndexBuilt => IndexMatchesCache
<1> SUFFICES ASSUME IndexBuilt, NEW f \in Fields PROVE
      /\ \A o \in Origins, s \in Sources : \A a \in appStatusCache[o][s] : HasField(a, f) =>
           [value |-> FieldValue(s, a, f), id |-> getUniqueID(s, a.name), origin |-> o] \in appsByField[f]
      /\ \A p \in appsByField[f] : \E o \in Origins, s \in Sources : \E a \in appStatusCache[o][s] :
           /\ HasField(a, f) /\ FieldValue(s, a, f) = p.value
           /\ getUniqueID(s, a.name) = p.id /\ o = p.origin
  BY DEF IndexMatchesCache
<1>1. appsByField[f] = indexField(appStatusCache, f)
  BY DEF IndexBuilt, updateLabelManager
<1>2. \A p : p \in indexField(appStatusCache, f) <=>
        \E o \in Origins, s \in Sources : \E a \in appStatusCache[o][s] :
          HasField(a, f) /\ p = [value |-> FieldValue(s, a, f), id |-> getUniqueID(s, a.name), origin |-> o]
  BY DEF indexField
<1>3. QED
  BY <1>1, <1>2

\* The label index never disagrees with the app cache.
THEOREM IndexCorrect == Spec => []IndexMatchesCache
BY Invariance, BuiltIndexMatches, PTL DEF IInv

\* No step of one source's scraper touches another source's apps or locations.
THEOREM SourcesIsolated == Spec => SourceIsolation
<1> DEFINE OneSource ==
      \E s \in Sources : \A t \in Sources \ {s} :
        /\ \A o \in Origins : appStatusCache'[o][t] = appStatusCache[o][t]
        /\ locationCache'[t] = locationCache[t]
<1>1. TypeOK /\ Next => OneSource
  <2> SUFFICES ASSUME TypeOK, NEW s \in Sources,
                      \/ \E batch \in Batches : UpdateAppStatus(s, batch)
                      \/ \E locs \in SUBSET Places : UpdateLocationCache(s, locs)
               PROVE  OneSource
    BY DEF Next
  <2>1. CASE \E batch \in Batches : UpdateAppStatus(s, batch)
    BY <2>1, UpdateEffect
  <2>2. CASE \E locs \in SUBSET Places : UpdateLocationCache(s, locs)
    BY <2>2 DEF UpdateLocationCache, TypeOK
  <2>3. QED
    BY <2>1, <2>2
<1>2. TypeOK /\ [Next]_vars => [OneSource]_vars
  BY <1>1
<1>3. QED
  BY <1>2, TypeCorrect, PTL DEF Spec, SourceIsolation

-----------------------------------------------------------------------------
(***************************************************************************)
(* The goroutines serve each source's last stored result.                  *)
(***************************************************************************)

Phases == {"off", "scrape", "apps", "locations", "wait"}

\* A scrape result is a batch and a set of locations.
LEMMA ResultType ==
  ASSUME NEW s \in Sources, NEW r \in Answers[s] \cup {FailedScrape}
  PROVE  r.apps \in Batches /\ r.locations \in SUBSET Places
<1>1. CASE r = FailedScrape
  <2>1. <<>> \in [1..0 -> Reports]
    OBVIOUS
  <2>2. 0 \in 0..MaxBatch
    BY MaxBatchAssumption
  <2>3. <<>> \in Batches
    BY <2>1, <2>2 DEF Batches
  <2>4. QED
    BY <1>1, <2>3 DEF FailedScrape, createUnavailableStatuses
<1>2. CASE r \in Answers[s]
  BY <1>2, AnswersAssumption DEF Answer
<1>3. QED
  BY <1>1, <1>2

\* The origin every local source reports.
LocalOrigin == CHOOSE o \in Origins : \A s \in LocalSources : \A w \in Answers[s] :
  \A i \in DOMAIN w.apps : Accepted(w.apps[i]) /\ normalizeOriginURL(w.apps[i].originURL) = o

LEMMA LocalOriginProperty ==
  /\ LocalOrigin \in Origins
  /\ \A s \in LocalSources : \A w \in Answers[s] : \A i \in DOMAIN w.apps :
       Accepted(w.apps[i]) /\ normalizeOriginURL(w.apps[i].originURL) = LocalOrigin
BY AnswersAssumption DEF LocalOrigin

\* A non-empty result of a local source mentions the local origin, and only it.
LEMMA LocalResultOrigins ==
  ASSUME NEW s \in LocalSources, NEW r \in Answers[s] \cup {FailedScrape}, r.apps # <<>>
  PROVE  OriginsOf(r.apps) = {LocalOrigin}
<1>0. s \in Sources
  BY AnswersAssumption
<1>1. r \in Answers[s]
  BY DEF FailedScrape, createUnavailableStatuses
<1>2. r.apps \in Batches
  BY <1>0, ResultType
<1>3. PICK n \in 0..MaxBatch : r.apps \in [1..n -> Reports]
  BY <1>2 DEF Batches
<1>4. DOMAIN r.apps = 1..n
  BY <1>3
<1>5. n # 0
  <2>1. ASSUME n = 0 PROVE FALSE
    <3>1. r.apps \in [{} -> Reports]
      BY <2>1, <1>3
    <3>2. r.apps = <<>>
      BY <3>1
    <3>3. QED
      BY <3>2
  <2>2. QED
    BY <2>1
<1>6. 1 \in DOMAIN r.apps
  BY <1>4, <1>5, MaxBatchAssumption
<1>7. \A o \in Origins : IndicesFor(r.apps, o) # {} <=> o = LocalOrigin
  <2>1. \A i \in DOMAIN r.apps :
           Accepted(r.apps[i]) /\ normalizeOriginURL(r.apps[i].originURL) = LocalOrigin
    BY <1>1, LocalOriginProperty
  <2>2. QED
    BY <2>1, <1>6 DEF IndicesFor
<1>8. QED
  BY <1>7, LocalOriginProperty DEF OriginsOf

(***************************************************************************)
(* The inductive invariant.  LocalSourcesShowLatest is not inductive by    *)
(* itself: replacing one origin's apps leaves the other origins alone, so  *)
(* it also takes that a local source never has apps under another origin.  *)
(***************************************************************************)
LocalUnderOneOrigin ==
  \A s \in LocalSources : \A o \in Origins \ {LocalOrigin} : appStatusCache[o][s] = {}

ScrapeIInv ==
  /\ ScrapeTypeOK
  /\ ResultStaysServed
  /\ LocalUnderOneOrigin
  /\ LocalSourcesShowLatest

LEMMA ScrapeInitIInv == ScrapeInit => ScrapeIInv
<1> SUFFICES ASSUME ScrapeInit PROVE ScrapeIInv
  OBVIOUS
<1>1. TypeOK
  BY InitIInv DEF ScrapeInit, IInv
<1>2. ScrapeTypeOK
  BY <1>1 DEF ScrapeInit, ScrapeTypeOK
<1>3. ResultStaysServed
  BY DEF ScrapeInit, Init, ResultStaysServed
<1>4. LocalUnderOneOrigin
  BY AnswersAssumption DEF ScrapeInit, Init, LocalUnderOneOrigin
<1>5. LocalSourcesShowLatest
  BY AnswersAssumption DEF ScrapeInit, LocalSourcesShowLatest, OnlyLatest
<1>6. QED
  BY <1>2, <1>3, <1>4, <1>5 DEF ScrapeIInv

\* Steps that leave the caches and the last results alone.
LEMMA QuietStep ==
  ASSUME ScrapeIInv, NEW s \in Sources, WorldChanges(s) \/ NextTick(s)
  PROVE  ScrapeIInv'
<1>1. /\ UNCHANGED <<vars, scraped>>
      /\ phase' = phase \/ (phase[s] = "wait" /\ phase' = [phase EXCEPT ![s] = "scrape"])
  BY DEF WorldChanges, NextTick, Goto
<1>2. ScrapeTypeOK'
  <2>1. TypeOK'
    BY <1>1 DEF ScrapeIInv, ScrapeTypeOK, TypeOK, vars
  <2>2. \A t \in Sources : world'[t] \in Answers[t] \cup {Unreachable}
    <3>1. CASE NextTick(s)
      BY <3>1 DEF NextTick, ScrapeIInv, ScrapeTypeOK
    <3>2. CASE WorldChanges(s)
      <4>1. PICK w \in Answers[s] \cup {Unreachable} : world' = [world EXCEPT ![s] = w]
        BY <3>2 DEF WorldChanges
      <4>2. ASSUME NEW t \in Sources
            PROVE  world'[t] = world[t] \/ (t = s /\ world'[t] = w) \/ world'[t] \in Answers[t] \cup {Unreachable}
        BY <4>1 DEF ScrapeIInv, ScrapeTypeOK
      <4>3. QED
        BY <4>2 DEF ScrapeIInv, ScrapeTypeOK
    <3>3. QED
      BY <3>1, <3>2
  <2>3. QED
    BY <1>1, <2>1, <2>2 DEF ScrapeIInv, ScrapeTypeOK
<1>3. ResultStaysServed'
  BY <1>1 DEF ScrapeIInv, ScrapeTypeOK, ResultStaysServed, ServesApps, ServesLocations, vars
<1>4. LocalUnderOneOrigin'
  BY <1>1 DEF ScrapeIInv, LocalUnderOneOrigin, vars
<1>5. LocalSourcesShowLatest'
  BY <1>1, AnswersAssumption DEF ScrapeIInv, ScrapeTypeOK, LocalSourcesShowLatest, OnlyLatest, vars
<1>6. QED
  BY <1>2, <1>3, <1>4, <1>5 DEF ScrapeIInv

LEMMA ScrapeStep ==
  ASSUME ScrapeIInv, NEW s \in Sources, Scrape(s)
  PROVE  ScrapeIInv'
<1>1. /\ UNCHANGED <<vars, world>>
      /\ phase[s] = "scrape" /\ phase' = [phase EXCEPT ![s] = "apps"]
      /\ \A t \in Sources \ {s} : scraped'[t] = scraped[t]
      /\ \A t \in Sources : scraped'[t] \in Answers[t] \cup {FailedScrape}
  BY DEF Scrape, Goto, ResultOf, ScrapeIInv, ScrapeTypeOK
<1>2. ScrapeTypeOK'
  BY <1>1 DEF ScrapeIInv, ScrapeTypeOK, TypeOK, vars
<1>3. \A t \in Sources : phase'[t] = IF t = s THEN "apps" ELSE phase[t]
  BY <1>1 DEF ScrapeIInv, ScrapeTypeOK
<1>4. ResultStaysServed'
  BY <1>1, <1>3 DEF ScrapeIInv, ResultStaysServed, ServesApps, ServesLocations, vars
<1>5. LocalUnderOneOrigin'
  BY <1>1 DEF ScrapeIInv, LocalUnderOneOrigin, vars
<1>6. LocalSourcesShowLatest'
  BY <1>1, <1>3, AnswersAssumption DEF ScrapeIInv, LocalSourcesShowLatest, OnlyLatest, vars
<1>7. QED
  BY <1>2, <1>4, <1>5, <1>6 DEF ScrapeIInv

LEMMA StoreAppsStep ==
  ASSUME ScrapeIInv, NEW s \in Sources, StoreApps(s)
  PROVE  ScrapeIInv'
<1> DEFINE r == scraped[s]
<1>1. /\ UNCHANGED <<world, scraped>>
      /\ phase[s] = "apps" /\ phase' = [phase EXCEPT ![s] = "locations"]
      /\ UpdateAppStatus(s, r.apps)
  BY DEF StoreApps, Goto
<1>2. r \in Answers[s] \cup {FailedScrape} /\ r.apps \in Batches
  BY ResultType DEF ScrapeIInv, ScrapeTypeOK
<1>3. /\ TypeOK
      /\ appStatusCache \in [Origins -> [Sources -> SUBSET App]]
  BY DEF ScrapeIInv, ScrapeTypeOK, TypeOK
<1>4. /\ appStatusCache' \in [Origins -> [Sources -> SUBSET App]]
      /\ \A o \in Origins : \A t \in Sources \ {s} : appStatusCache'[o][t] = appStatusCache[o][t]
      /\ locationCache' = locationCache
  BY <1>1, <1>2, <1>3, UpdateEffect
<1>5. /\ r.apps = <<>> => \A o \in Origins : appStatusCache'[o][s] = {}
      /\ \A o \in OriginsOf(r.apps) : appStatusCache'[o][s] = appsByOrigin(s, r.apps, o)
      /\ \A o \in Origins \ OriginsOf(r.apps) :
            r.apps # <<>> => appStatusCache'[o][s] = appStatusCache[o][s]
  <2>1. CASE r.apps = <<>> /\ RemoveSource(s)
    <3>1. \A o \in Origins : appStatusCache'[o][s] = {}
      BY <2>1, <1>3 DEF RemoveSource
    <3>2. OriginsOf(r.apps) = {}
      BY <2>1 DEF OriginsOf, IndicesFor
    <3>3. QED
      BY <3>1, <3>2, <2>1
  <2>2. CASE ReplaceApps(s, r.apps)
    BY <2>2, <1>3 DEF ReplaceApps, OriginsOf
  <2>3. QED
    BY <1>1, <2>1, <2>2 DEF UpdateAppStatus
<1>6. \A t \in Sources : phase'[t] = IF t = s THEN "locations" ELSE phase[t]
  BY <1>1 DEF ScrapeIInv, ScrapeTypeOK
<1>7. ScrapeTypeOK'
  BY <1>1, <1>3, <1>4 DEF ScrapeIInv, ScrapeTypeOK, TypeOK
<1>8. ResultStaysServed'
  <2> SUFFICES ASSUME NEW t \in Sources
               PROVE  /\ phase'[t] \in {"locations", "wait"} => ServesApps(t, scraped[t])'
                      /\ phase'[t] = "wait" => ServesLocations(t, scraped[t])'
                      /\ phase'[t] = "off" => /\ \A o \in Origins : appStatusCache'[o][t] = {}
                                              /\ locationCache'[t] = {}
    BY DEF ResultStaysServed
  <2>1. CASE t = s
    BY <2>1, <1>1, <1>5, <1>6 DEF ServesApps
  <2>2. CASE t # s
    <3>1. ServesApps(t, scraped[t]) => ServesApps(t, scraped[t])'
      BY <2>2, <1>1, <1>4 DEF ServesApps, OriginsOf
    <3>2. ServesLocations(t, scraped[t]) => ServesLocations(t, scraped[t])'
      BY <1>1, <1>4 DEF ServesLocations
    <3>3. QED
      BY <2>2, <3>1, <3>2, <1>4, <1>6 DEF ScrapeIInv, ResultStaysServed
  <2>3. QED
    BY <2>1, <2>2
<1>9. LocalUnderOneOrigin'
  <2> SUFFICES ASSUME NEW t \in LocalSources, NEW o \in Origins \ {LocalOrigin}
               PROVE  appStatusCache'[o][t] = {}
    BY DEF LocalUnderOneOrigin
  <2>1. t \in Sources
    BY AnswersAssumption
  <2>2. CASE t # s
    BY <2>1, <2>2, <1>4 DEF ScrapeIInv, LocalUnderOneOrigin
  <2>3. CASE t = s /\ r.apps = <<>>
    BY <2>3, <1>5
  <2>4. CASE t = s /\ r.apps # <<>>
    <3>1. OriginsOf(r.apps) = {LocalOrigin}
      BY <2>4, <1>2, LocalResultOrigins
    <3>2. QED
      BY <2>4, <3>1, <1>5 DEF ScrapeIInv, LocalUnderOneOrigin
  <2>5. QED
    BY <2>2, <2>3, <2>4
<1>10. LocalSourcesShowLatest'
  <2> SUFFICES ASSUME NEW t \in LocalSources, phase'[t] \in {"locations", "wait"}, NEW o \in Origins
               PROVE  appStatusCache'[o][t] \subseteq appsByOrigin(t, scraped[t].apps, o)
    BY <1>1 DEF LocalSourcesShowLatest, OnlyLatest
  <2>1. t \in Sources
    BY AnswersAssumption
  <2>2. CASE t # s
    BY <2>1, <2>2, <1>4, <1>6 DEF ScrapeIInv, LocalSourcesShowLatest, OnlyLatest
  <2>3. CASE t = s /\ r.apps = <<>>
    BY <2>3, <1>5
  <2>4. CASE t = s /\ r.apps # <<>> /\ o = LocalOrigin
    <3>1. o \in OriginsOf(r.apps)
      BY <2>4, <1>2, LocalResultOrigins
    <3>2. QED
      BY <2>4, <3>1, <1>5
  <2>5. CASE o # LocalOrigin
    BY <2>5, <1>9 DEF LocalUnderOneOrigin
  <2>6. QED
    BY <2>2, <2>3, <2>4, <2>5
<1>11. QED
  BY <1>7, <1>8, <1>9, <1>10 DEF ScrapeIInv

LEMMA StoreLocationsStep ==
  ASSUME ScrapeIInv, NEW s \in Sources, StoreLocations(s)
  PROVE  ScrapeIInv'
<1>1. /\ UNCHANGED <<world, scraped, appStatusCache, appsByField>>
      /\ phase[s] = "locations" /\ phase' = [phase EXCEPT ![s] = "wait"]
      /\ locationCache' = [locationCache EXCEPT ![s] = scraped[s].locations \ configuredLocations]
  BY DEF StoreLocations, Goto, UpdateLocationCache
<1>2. scraped[s].locations \in SUBSET Places
  BY ResultType DEF ScrapeIInv, ScrapeTypeOK
<1>3. ScrapeTypeOK'
  BY <1>1, <1>2 DEF ScrapeIInv, ScrapeTypeOK, TypeOK
<1>4. \A t \in Sources : phase'[t] = IF t = s THEN "wait" ELSE phase[t]
  BY <1>1 DEF ScrapeIInv, ScrapeTypeOK
<1>5. \A t \in Sources : locationCache'[t] =
        IF t = s THEN scraped[s].locations \ configuredLocations ELSE locationCache[t]
  BY <1>1 DEF ScrapeIInv, ScrapeTypeOK, TypeOK
<1>6. ResultStaysServed'
  BY <1>1, <1>4, <1>5 DEF ScrapeIInv, ResultStaysServed, ServesApps, ServesLocations
<1>7. LocalUnderOneOrigin'
  BY <1>1 DEF ScrapeIInv, LocalUnderOneOrigin
<1>8. LocalSourcesShowLatest'
  BY <1>1, <1>4, AnswersAssumption DEF ScrapeIInv, LocalSourcesShowLatest, OnlyLatest
<1>9. QED
  BY <1>3, <1>6, <1>7, <1>8 DEF ScrapeIInv

LEMMA ScrapeNextIInv == ScrapeIInv /\ [ScrapeNext]_scrapeVars => ScrapeIInv'
<1> SUFFICES ASSUME ScrapeIInv, [ScrapeNext]_scrapeVars PROVE ScrapeIInv'
  OBVIOUS
<1>1. CASE UNCHANGED scrapeVars
  BY <1>1 DEF scrapeVars, vars, ScrapeIInv, ScrapeTypeOK, TypeOK, ResultStaysServed, ServesApps,
     ServesLocations, LocalUnderOneOrigin, LocalSourcesShowLatest, OnlyLatest
<1>2. CASE ScrapeNext
  BY <1>2, QuietStep, ScrapeStep, StoreAppsStep, StoreLocationsStep DEF ScrapeNext, Goroutine
<1>3. QED
  BY <1>1, <1>2

(***************************************************************************)
(* The theorems.                                                           *)
(***************************************************************************)

\* What a goroutine stored stays served until it stores its next result, and a
\* source that failed initialization has nothing cached.
THEOREM ResultsServed == ScrapeSafety => []ResultStaysServed
<1>1. ScrapeIInv => ResultStaysServed
  BY DEF ScrapeIInv
<1>2. QED
  BY <1>1, ScrapeInitIInv, ScrapeNextIInv, PTL DEF ScrapeSafety

\* A prometheus or http source never shows an app it stopped reporting.
THEOREM LocalSourcesFresh == ScrapeSafety => []LocalSourcesShowLatest
<1>1. ScrapeIInv => LocalSourcesShowLatest
  BY DEF ScrapeIInv
<1>2. QED
  BY <1>1, ScrapeInitIInv, ScrapeNextIInv, PTL DEF ScrapeSafety

\* Every step of the goroutines is a step of StatusCache or leaves its state
\* alone, so the index stays correct and sources stay isolated here too.
THEOREM ScrapingImplementsStatusCache == ScrapeSafety => Spec
<1>1. ScrapeInit => Init
  BY DEF ScrapeInit
<1>2. ScrapeIInv /\ [ScrapeNext]_scrapeVars => [Next]_vars
  <2> SUFFICES ASSUME ScrapeIInv, ScrapeNext PROVE [Next]_vars
    BY DEF scrapeVars
  <2>1. PICK s \in Sources : WorldChanges(s) \/ Goroutine(s)
    BY DEF ScrapeNext
  <2>2. scraped[s].apps \in Batches /\ scraped[s].locations \in SUBSET Places
    BY ResultType DEF ScrapeIInv, ScrapeTypeOK
  <2>3. QED
    BY <2>1, <2>2 DEF Goroutine, WorldChanges, Scrape, StoreApps, StoreLocations, NextTick, Next
<1>3. QED
  BY <1>1, <1>2, ScrapeInitIInv, ScrapeNextIInv, PTL DEF ScrapeSafety, Spec

-----------------------------------------------------------------------------
(***************************************************************************)
(* How far the cache is behind.  A source is settled when the cache serves *)
(* what the source answers now and its goroutine brings nothing else; from *)
(* any other state at most six steps of that goroutine lead there: what it *)
(* still has from before is stored first.                                  *)
(***************************************************************************)
Fresh(s) == scraped[s] = ResultOf(world[s])
Settled(s) ==
  /\ ServesApps(s, ResultOf(world[s])) /\ ServesLocations(s, ResultOf(world[s]))
  /\ phase[s] \in {"apps", "locations"} => Fresh(s)

StepsToSettle(s) ==
  IF Settled(s) THEN 0
  ELSE CASE phase[s] = "locations" -> IF Fresh(s) THEN 1 ELSE 5
         [] phase[s] = "apps"      -> IF Fresh(s) THEN 2 ELSE 6
         [] phase[s] = "scrape"    -> 3
         [] OTHER                  -> 4

\* The next step of the source's goroutine, while the source answers the same.
Settles(s) ==
  \/ Settled(s) /\ Settled(s)'
  \/ StepsToSettle(s)' < StepsToSettle(s)

\* Whatever the other goroutines do.
LEMMA SettledAlone ==
  ASSUME NEW s \in Sources, phase'[s] = phase[s], scraped'[s] = scraped[s], world'[s] = world[s],
         \A o \in Origins : appStatusCache'[o][s] = appStatusCache[o][s],
         locationCache'[s] = locationCache[s]
  PROVE  /\ Settled(s)' <=> Settled(s)
         /\ StepsToSettle(s)' = StepsToSettle(s)
<1>1. Fresh(s)' <=> Fresh(s)
  BY DEF Fresh
<1>2. /\ ServesApps(s, ResultOf(world[s]))' <=> ServesApps(s, ResultOf(world[s]))
      /\ ServesLocations(s, ResultOf(world[s]))' <=> ServesLocations(s, ResultOf(world[s]))
  BY DEF ServesApps, ServesLocations, OriginsOf
<1>3. Settled(s)' <=> Settled(s)
  BY <1>1, <1>2 DEF Settled
<1>4. QED
  BY <1>1, <1>3 DEF StepsToSettle

\* A step of goroutine g, or of the source's world, as source s sees it.
LEMMA StepElsewhere ==
  ASSUME ScrapeIInv, NEW g \in Sources, NEW s \in Sources, WorldChanges(g) \/ Goroutine(g),
         g # s \/ WorldChanges(g), world'[s] = world[s]
  PROVE  /\ phase'[s] = phase[s] /\ scraped'[s] = scraped[s]
         /\ \A o \in Origins : appStatusCache'[o][s] = appStatusCache[o][s]
         /\ locationCache'[s] = locationCache[s]
<1>0. /\ scraped[g].apps \in Batches /\ TypeOK
  BY ResultType DEF ScrapeIInv, ScrapeTypeOK
<1>1. CASE WorldChanges(g)
  BY <1>1 DEF WorldChanges, vars
<1>2. CASE Goroutine(g) /\ g # s
  <2>1. CASE Scrape(g)
    BY <1>2, <2>1 DEF Scrape, Goto, vars, ScrapeIInv, ScrapeTypeOK
  <2>2. CASE StoreApps(g)
    <3>1. /\ \A o \in Origins : appStatusCache'[o][s] = appStatusCache[o][s]
          /\ locationCache' = locationCache
      BY <1>0, <1>2, <2>2, UpdateEffect DEF StoreApps
    <3>2. QED
      BY <1>2, <2>2, <3>1 DEF StoreApps, Goto, ScrapeIInv, ScrapeTypeOK
  <2>3. CASE StoreLocations(g)
    BY <1>2, <2>3 DEF StoreLocations, UpdateLocationCache, Goto, ScrapeIInv, ScrapeTypeOK, TypeOK
  <2>4. CASE NextTick(g)
    BY <1>2, <2>4 DEF NextTick, Goto, vars, ScrapeIInv, ScrapeTypeOK
  <2>5. QED
    BY <1>2, <2>1, <2>2, <2>3, <2>4 DEF Goroutine
<1>3. QED
  BY <1>1, <1>2

\* A scrape brings what the source answers ...
LEMMA ScrapeSettles ==
  ASSUME ScrapeIInv, DOMAIN scraped = Sources, NEW s \in Sources, Scrape(s)
  PROVE  Settles(s)
<1>1. /\ phase[s] = "scrape" /\ phase'[s] = "apps" /\ UNCHANGED <<vars, world>>
      /\ scraped'[s] = ResultOf(world[s])
  BY DEF Scrape, Goto, ScrapeIInv, ScrapeTypeOK
<1>2. Fresh(s)'
  BY <1>1 DEF Fresh
<1>3. Settled(s) => Settled(s)'
  BY <1>1, <1>2 DEF Settled, ServesApps, ServesLocations, OriginsOf, vars
<1>4. ~Settled(s) => StepsToSettle(s) = 3
  BY <1>1 DEF StepsToSettle
<1>5. StepsToSettle(s)' = 0 \/ StepsToSettle(s)' = 2
  BY <1>1, <1>2 DEF StepsToSettle
<1>6. QED
  BY <1>3, <1>4, <1>5 DEF Settles

\* ... which is stored, or what was still on its way is, ...
LEMMA StoreAppsSettles ==
  ASSUME ScrapeIInv, NEW s \in Sources, StoreApps(s)
  PROVE  Settles(s)
<1>1. /\ phase[s] = "apps" /\ phase'[s] = "locations" /\ UNCHANGED <<world, scraped>>
      /\ UpdateAppStatus(s, scraped[s].apps)
  BY DEF StoreApps, Goto, ScrapeIInv, ScrapeTypeOK
<1>2. locationCache' = locationCache
  BY <1>1, ResultType, UpdateEffect DEF ScrapeIInv, ScrapeTypeOK
<1>3. ServesApps(s, scraped[s])'
  BY <1>1, StoreAppsStep DEF ScrapeIInv, ResultStaysServed
<1>4. Fresh(s)' <=> Fresh(s)
  BY <1>1 DEF Fresh
<1>5. Settled(s) => Settled(s)'
  <2> SUFFICES ASSUME Settled(s) PROVE Settled(s)'
    OBVIOUS
  <2>1. scraped[s] = ResultOf(world[s])
    BY <1>1 DEF Settled, Fresh
  <2>2. ServesApps(s, ResultOf(world[s]))'
    BY <1>1, <1>3, <2>1 DEF ServesApps, OriginsOf
  <2>3. ServesLocations(s, ResultOf(world[s]))'
    BY <1>1, <1>2 DEF Settled, ServesLocations
  <2>4. QED
    BY <1>4, <2>1, <2>2, <2>3 DEF Settled, Fresh
<1>6. ~Settled(s) => StepsToSettle(s) = IF Fresh(s) THEN 2 ELSE 6
  BY <1>1 DEF StepsToSettle
<1>7. StepsToSettle(s)' = 0 \/ StepsToSettle(s)' = IF Fresh(s) THEN 1 ELSE 5
  BY <1>1, <1>4 DEF StepsToSettle
<1>8. CASE Fresh(s)
  BY <1>5, <1>6, <1>7, <1>8 DEF Settles
<1>9. CASE ~Fresh(s)
  BY <1>5, <1>6, <1>7, <1>9 DEF Settles
<1>10. QED
  BY <1>8, <1>9

LEMMA StoreLocationsSettles ==
  ASSUME ScrapeIInv, NEW s \in Sources, StoreLocations(s)
  PROVE  Settles(s)
<1>1. phase[s] = "locations" /\ phase'[s] = "wait" /\ UNCHANGED <<world, scraped>>
  BY DEF StoreLocations, Goto, ScrapeIInv, ScrapeTypeOK
<1>2. ServesApps(s, scraped[s])' /\ ServesLocations(s, scraped[s])'
  BY <1>1, StoreLocationsStep DEF ScrapeIInv, ResultStaysServed
<1>3. ASSUME Fresh(s) PROVE Settled(s)'
  BY <1>1, <1>2, <1>3 DEF Fresh, Settled, ServesApps, ServesLocations, OriginsOf
<1>4. ASSUME ~Fresh(s) PROVE ~Settled(s) /\ StepsToSettle(s) = 5
  BY <1>1, <1>4 DEF Settled, StepsToSettle
<1>5. StepsToSettle(s)' = 0 \/ StepsToSettle(s)' = 4
  BY <1>1 DEF StepsToSettle
<1>6. Settled(s)' => StepsToSettle(s)' = 0
  BY DEF StepsToSettle
<1>7. Fresh(s) /\ ~Settled(s) => StepsToSettle(s) = 1
  BY <1>1 DEF StepsToSettle
<1>8. CASE Fresh(s)
  BY <1>3, <1>6, <1>7, <1>8 DEF Settles
<1>9. CASE ~Fresh(s)
  BY <1>4, <1>5, <1>9 DEF Settles
<1>10. QED
  BY <1>8, <1>9

\* ... and the goroutine waits for its tick.
LEMMA NextTickSettles ==
  ASSUME ScrapeIInv, NEW s \in Sources, NextTick(s)
  PROVE  Settles(s)
<1>1. /\ phase[s] = "wait" /\ phase'[s] = "scrape" /\ UNCHANGED <<vars, world, scraped>>
  BY DEF NextTick, Goto, ScrapeIInv, ScrapeTypeOK
<1>2. Settled(s)' <=> Settled(s)
  BY <1>1 DEF Settled, ServesApps, ServesLocations, OriginsOf, vars
<1>3. ~Settled(s) => StepsToSettle(s) = 4 /\ StepsToSettle(s)' = 3
  BY <1>1, <1>2 DEF StepsToSettle
<1>4. QED
  BY <1>2, <1>3 DEF Settles

\* As long as a source answers the same, no step takes its cache further from that
\* answer, each step of its goroutine takes it closer, and once there it stays.
CacheSettles ==
  \A s \in Sources : phase[s] # "off" /\ world'[s] = world[s] =>
    /\ Settled(s) => Settled(s)'
    /\ phase'[s] = phase[s] => StepsToSettle(s)' = StepsToSettle(s)
    /\ phase'[s] # phase[s] => Settles(s)

\* EventuallyFresh without its fairness: six steps of the source's goroutine, in
\* any interleaving with the others, and the cache serves what the source answers.
THEOREM SettlesInSixSteps ==
  ScrapeSafety => /\ [](\A s \in Sources : phase[s] # "off" => StepsToSettle(s) \in 0..6)
                  /\ [][CacheSettles]_scrapeVars
<1>1. ScrapeIInv => \A s \in Sources : phase[s] # "off" => StepsToSettle(s) \in 0..6
  <2> SUFFICES ASSUME NEW s \in Sources PROVE StepsToSettle(s) \in 0..6
    OBVIOUS
  <2>1. CASE Settled(s)
    BY <2>1 DEF StepsToSettle
  <2>2. CASE ~Settled(s)
    BY <2>2 DEF StepsToSettle
  <2>3. QED
    BY <2>1, <2>2
<1>2. ScrapeIInv /\ DOMAIN scraped = Sources /\ [ScrapeNext]_scrapeVars => [CacheSettles]_scrapeVars
  <2> SUFFICES ASSUME ScrapeIInv, DOMAIN scraped = Sources, ScrapeNext, NEW s \in Sources, phase[s] # "off", world'[s] = world[s]
               PROVE  /\ Settled(s) => Settled(s)'
                      /\ phase'[s] = phase[s] => StepsToSettle(s)' = StepsToSettle(s)
                      /\ phase'[s] # phase[s] => Settles(s)
    BY DEF CacheSettles
  <2>1. PICK g \in Sources : WorldChanges(g) \/ Goroutine(g)
    BY DEF ScrapeNext
  <2>2. CASE g # s \/ WorldChanges(g)
    <3>1. /\ phase'[s] = phase[s] /\ scraped'[s] = scraped[s]
          /\ \A o \in Origins : appStatusCache'[o][s] = appStatusCache[o][s]
          /\ locationCache'[s] = locationCache[s]
      BY <2>1, <2>2, StepElsewhere
    <3>2. QED
      BY <3>1, SettledAlone
  <2>3. CASE g = s /\ Goroutine(s)
    <3>1. Settles(s)
      BY <2>3, ScrapeSettles, StoreAppsSettles, StoreLocationsSettles, NextTickSettles DEF Goroutine
    <3>2. phase'[s] # phase[s]
      BY <2>3 DEF Goroutine, Scrape, StoreApps, StoreLocations, NextTick, Goto, ScrapeIInv, ScrapeTypeOK
    <3>3. Settled(s) => Settled(s)'
      <4>1. Settled(s) => StepsToSettle(s) = 0
        BY DEF StepsToSettle
      <4>2. ~(StepsToSettle(s)' < 0)
        <5>1. CASE Settled(s)'
          BY <5>1 DEF StepsToSettle
        <5>2. CASE ~Settled(s)'
          BY <5>2 DEF StepsToSettle
        <5>3. QED
          BY <5>1, <5>2
      <4>3. QED
        BY <3>1, <4>1, <4>2 DEF Settles
    <3>4. QED
      BY <3>1, <3>2, <3>3
  <2>4. QED
    BY <2>1, <2>2, <2>3
<1>3. ScrapeInit => DOMAIN scraped = Sources
  BY DEF ScrapeInit
<1>4. DOMAIN scraped = Sources /\ [ScrapeNext]_scrapeVars => (DOMAIN scraped = Sources)'
  BY DEF ScrapeNext, Goroutine, WorldChanges, Scrape, StoreApps, StoreLocations, NextTick, scrapeVars
<1>5. QED
  BY <1>1, <1>2, <1>3, <1>4, ScrapeInitIInv, ScrapeNextIInv, PTL DEF ScrapeSafety
=============================================================================
