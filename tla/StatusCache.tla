---------------------------- MODULE StatusCache ----------------------------
(***************************************************************************)
(* The in-memory state of one server: appStatusCache, locationCache and    *)
(* the label index, with the two updates every scraper goroutine performs. *)
(* Each update runs under cacheMutex.Lock, so it is one step here; what    *)
(* the lock itself guarantees is the subject of CacheLock.                 *)
(***************************************************************************)
EXTENDS Naturals, Sequences

CONSTANTS
  Sources,              \* names of the configured sources
  Hosts,                \* what tells two normalized origin URLs apart
  Names, LongNames,     \* app names; those of more than 255 bytes
  truncated,            \* the first 255 bytes of each long name
  Places,               \* location names
  configuredLocations,  \* names of the server's own locations
  LabelKeys, LabelValues,
  serverLabels,         \* server_settings.labels
  sourceLabels,         \* the labels of each source
  Reports,              \* the app records scrapers may return
  MaxBatch              \* bound: apps in one scrape

VARIABLES
  appStatusCache,  \* [origin][source] -> the apps, keyed by name in the code
  locationCache,   \* [source] -> names of its locations
  appsByField      \* the label manager's postings

vars == <<appStatusCache, locationCache, appsByField>>

(***************************************************************************)
(* Origin URLs.  Normalization forgets the spelling (case of scheme and    *)
(* host, default port, a lone trailing slash) and nothing else.            *)
(***************************************************************************)
URLs == [host : Hosts, spelling : {"normal", "variant"}]
Origins == [host : Hosts, spelling : {"normal"}]
NoURL == [host |-> "", spelling |-> "normal"]

normalizeOriginURL(url) == [url EXCEPT !.spelling = "normal"]

(***************************************************************************)
(* Apps, as reported by a scraper and as cached.                           *)
(***************************************************************************)
ValidStatuses == {"up", "down", "unavailable"}
LabelMaps == UNION {[K -> LabelValues] : K \in SUBSET LabelKeys}

Report == [name : Names \cup LongNames \cup {""}, location : Places \cup {""},
           status : STRING, originURL : URLs \cup {NoURL}, labels : LabelMaps]
App == [name : Names, location : Places, status : ValidStatuses,
        originURL : URLs, labels : LabelMaps]

\* What the configuration and the library calls give: source names are checked to
\* be distinct and not empty (config.go), the rest is how the data is abstracted.
ASSUME ConstantsAssumption ==
  /\ "" \notin Hosts \cup Names \cup LongNames \cup Places
  /\ truncated \in [LongNames -> Names]
  /\ configuredLocations \subseteq Places
  /\ serverLabels \in LabelMaps
  /\ sourceLabels \in [Sources -> LabelMaps]
  /\ Reports \subseteq Report

ASSUME MaxBatchAssumption == MaxBatch \in Nat

Batches == UNION {[1..n -> Reports] : n \in 0..MaxBatch}

(***************************************************************************)
(* App labels override source labels, which override server labels.        *)
(***************************************************************************)
MergeLabels(server, source, app) ==
  [k \in DOMAIN server \cup DOMAIN source \cup DOMAIN app |->
     IF k \in DOMAIN app THEN app[k]
     ELSE IF k \in DOMAIN source THEN source[k] ELSE server[k]]

Accepted(r) == r.name # "" /\ r.location # "" /\ r.originURL # NoURL

truncateName(n) == IF n \in LongNames THEN truncated[n] ELSE n

\* Mutant: a status is cached as reported.
CachedFormUnchecked(s, r) ==
  [name |-> truncateName(r.name), location |-> r.location, status |-> r.status,
   originURL |-> r.originURL, labels |-> MergeLabels(serverLabels, sourceLabels[s], r.labels)]

CachedForm(s, r) ==
  [name      |-> truncateName(r.name),
   location  |-> r.location,
   status    |-> IF r.status \in ValidStatuses THEN r.status ELSE "unavailable",
   originURL |-> r.originURL,
   labels    |-> MergeLabels(serverLabels, sourceLabels[s], r.labels)]

(***************************************************************************)
(* The batch grouped by normalized origin; a later report overwrites an    *)
(* earlier one of the same name.                                           *)
(***************************************************************************)
IndicesFor(batch, o) ==
  {i \in DOMAIN batch : Accepted(batch[i])
                        /\ normalizeOriginURL(batch[i].originURL) = o}
OriginsOf(batch) == {o \in Origins : IndicesFor(batch, o) # {}}

\* Mutant: the map is keyed by the name before truncation.
LastIndicesByRawName(batch, o) ==
  {i \in IndicesFor(batch, o) :
     \A j \in IndicesFor(batch, o) : batch[j].name = batch[i].name => j <= i}

LastIndicesFor(batch, o) ==
  {i \in IndicesFor(batch, o) :
     \A j \in IndicesFor(batch, o) :
        truncateName(batch[j].name) = truncateName(batch[i].name) => j <= i}

appsByOrigin(s, batch, o) ==
  {CachedForm(s, batch[i]) : i \in LastIndicesFor(batch, o)}

(***************************************************************************)
(* The label index: for every field, one posting per cached app that has a *)
(* non-empty value of it.  A posting list holds an id once per cached app, *)
(* so the origin is kept to tell those occurrences apart; no lookup reads  *)
(* it.  The kind of a field stands for the "labels." prefix.               *)
(***************************************************************************)
getUniqueID(source, name) == IF source = "" THEN name ELSE source \o ":" \o name

Fields == [kind : {"system"}, key : {"name", "location", "status", "source", "origin_url"}]
            \cup [kind : {"label"}, key : LabelKeys]

HasField(a, f) == f.kind = "label" => f.key \in DOMAIN a.labels /\ a.labels[f.key] # ""

FieldValue(s, a, f) ==
  CASE f.kind = "label"      -> a.labels[f.key]
    [] f.kind = "system" /\ f.key = "source" -> s
    [] f.kind = "system" /\ f.key = "origin_url" -> a.originURL
    [] OTHER -> a[f.key]

indexField(cache, f) ==
  UNION {UNION {{[value |-> FieldValue(s, a, f), id |-> getUniqueID(s, a.name), origin |-> o] :
                   a \in {b \in cache[o][s] : HasField(b, f)}} : s \in Sources} : o \in Origins}

updateLabelManager(cache) == [f \in Fields |-> indexField(cache, f)]

------------------------------------------------------------------------------

Init ==
  /\ appStatusCache = [o \in Origins |-> [s \in Sources |-> {}]]
  /\ locationCache = [s \in Sources |-> {}]
  /\ appsByField = [f \in Fields |-> {}]

\* Mutants: the early return forgets the index; it deletes whole origins.
RemoveSourceKeepsIndex(s) ==
  /\ appStatusCache' = [o \in Origins |-> [appStatusCache[o] EXCEPT ![s] = {}]]
  /\ UNCHANGED <<locationCache, appsByField>>
RemoveOrigins(s) ==
  /\ appStatusCache' = [o \in Origins |-> IF appStatusCache[o][s] = {} THEN appStatusCache[o]
                                         ELSE [t \in Sources |-> {}]]
  /\ appsByField' = updateLabelManager(appStatusCache')
  /\ UNCHANGED locationCache

\* UpdateAppStatus with no statuses: the source disappears from every origin.
RemoveSource(s) ==
  /\ appStatusCache' = [o \in Origins |-> [appStatusCache[o] EXCEPT ![s] = {}]]
  /\ appsByField' = updateLabelManager(appStatusCache')
  /\ UNCHANGED locationCache

\* Mutant: the new apps are added to the source's old ones.
MergeIntoApps(s, batch) ==
  /\ batch # <<>>
  /\ appStatusCache' = [o \in Origins |-> [appStatusCache[o] EXCEPT ![s] = @ \cup appsByOrigin(s, batch, o)]]
  /\ appsByField' = updateLabelManager(appStatusCache')
  /\ UNCHANGED locationCache

\* UpdateAppStatus with statuses: each origin of the batch gets the source's
\* new apps; an origin the batch does not mention keeps what it had.
ReplaceApps(s, batch) ==
  /\ batch # <<>>
  /\ appStatusCache' =
       [o \in Origins |->
          IF o \in OriginsOf(batch)
          THEN [appStatusCache[o] EXCEPT ![s] = appsByOrigin(s, batch, o)]
          ELSE appStatusCache[o]]
  /\ appsByField' = updateLabelManager(appStatusCache')
  /\ UNCHANGED locationCache

\* Mutant: an empty list is ignored, as if nothing had been scraped.
UpdateAppStatusSkipsEmpty(s, batch) ==
  \/ batch = <<>> /\ UNCHANGED vars
  \/ ReplaceApps(s, batch)

UpdateAppStatus(s, batch) ==
  \/ batch = <<>> /\ RemoveSource(s)
  \/ ReplaceApps(s, batch)

\* Mutant: the server's own locations are not left out.
UpdateLocationCacheUnfiltered(s, newLocations) ==
  /\ locationCache' = [locationCache EXCEPT ![s] = newLocations]
  /\ UNCHANGED <<appStatusCache, appsByField>>

\* An empty list deletes the source's entry, which is the empty set here too.
UpdateLocationCache(s, newLocations) ==
  /\ locationCache' = [locationCache EXCEPT ![s] = newLocations \ configuredLocations]
  /\ UNCHANGED <<appStatusCache, appsByField>>

Next ==
  \E s \in Sources :
    \/ \E batch \in Batches : UpdateAppStatus(s, batch)
    \/ \E locs \in SUBSET Places : UpdateLocationCache(s, locs)

Spec == Init /\ [][Next]_vars

------------------------------------------------------------------------------
(***************************************************************************)
(* Properties.                                                             *)
(***************************************************************************)

\* Type invariant.  The index's type follows from IndexMatchesCache.
TypeOK ==
  /\ appStatusCache \in [Origins -> [Sources -> SUBSET App]]
  /\ locationCache \in [Sources -> SUBSET Places]

\* What the code's map gives for granted and a batch with repeated, truncated
\* or differently spelled entries could break: origin, source and name identify
\* a cached app, and the app sits under its own origin.
UniqueApps ==
  \A o \in Origins, s \in Sources :
    /\ \A a, b \in appStatusCache[o][s] : a.name = b.name => a = b
    /\ \A a \in appStatusCache[o][s] : normalizeOriginURL(a.originURL) = o

\* Whoever takes the read lock finds an index that describes exactly the cached
\* apps: a field value lists an app iff the app is cached with that value, though
\* updates replace, merge, truncate and delete apps along several paths.
IndexMatchesCache ==
  \A f \in Fields :
    /\ \A o \in Origins, s \in Sources : \A a \in appStatusCache[o][s] : HasField(a, f) =>
         [value |-> FieldValue(s, a, f), id |-> getUniqueID(s, a.name), origin |-> o] \in appsByField[f]
    /\ \A p \in appsByField[f] : \E o \in Origins, s \in Sources : \E a \in appStatusCache[o][s] :
         /\ HasField(a, f) /\ FieldValue(s, a, f) = p.value
         /\ getUniqueID(s, a.name) = p.id /\ o = p.origin

\* Sources are isolated: whatever one source reports, or stops reporting, no
\* step changes the apps or the locations of two sources.
SourceIsolation ==
  [][\E s \in Sources : \A t \in Sources \ {s} :
        /\ \A o \in Origins : appStatusCache'[o][t] = appStatusCache[o][t]
        /\ locationCache'[t] = locationCache[t]]_vars
=============================================================================
