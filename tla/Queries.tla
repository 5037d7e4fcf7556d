------------------------------- MODULE Queries -------------------------------
(***************************************************************************)
(* The read side: GET /api/apps, /api/locations and /api/labels, restricted *)
(* to what the user's roles let him see, and GET /sync, run while scrapers *)
(* update the caches.  A handler takes cacheMutex.RLock several times and the label   *)
(* manager's lock once, so the parts of its answer come from different     *)
(* moments.  Handlers write no shared state, so one of them in flight      *)
(* shows all interleavings with the updates.                               *)
(***************************************************************************)
EXTENDS StatusCache, FiniteSets

CONSTANTS
  roles,     \* server_settings.roles: [role] -> its labels
  users,     \* oidc.permissions.users: [user name] -> roles
  groups,    \* oidc.permissions.groups: [group] -> roles
  QuerySet,  \* what a client may ask, and who its user is
  Handlers   \* endpoints in use: apps, locations, labels, sync

VARIABLES
  pc,         \* the next thing the handler does
  kind,       \* which endpoint it serves
  query,      \* its parsed filters and its user
  snapshot,   \* GetAppStatusCache at the start of the handler
  filtered,   \* the apps of the answer
  locations,  \* the locations of the answer
  offered,    \* the label keys or values of the answer
  disturbed   \* history: the app cache changed since the snapshot

reader == <<pc, kind, query, snapshot, filtered, locations, offered, disturbed>>
queryVars == <<vars, reader>>

\* A cached app with its place in the cache.
Entries(cache) ==
  UNION {UNION {{[origin |-> o, source |-> s, app |-> a] : a \in cache[o][s]} :
                 s \in Sources} : o \in Origins}
idOf(e) == getUniqueID(e.source, e.app.name)

(***************************************************************************)
(* A query: the statuses of an OR filter (status=a|b; none if empty), the  *)
(* fields that must have a given value, the label /api/labels is asked for *)
(* (or "" for its keys), and the user: an administrator, as everybody is   *)
(* without authentication, or one with roles, configured or not.           *)
(***************************************************************************)
ASSUME QueryAssumption ==
  /\ \A q \in QuerySet : /\ q.anyStatus \subseteq ValidStatuses
                         /\ DOMAIN q.all \subseteq Fields /\ IsFiniteSet(DOMAIN q.all)
                         /\ q.labelKey \in LabelKeys \cup {""} /\ DOMAIN q.user = {"name", "groups"}
  /\ Handlers \subseteq {"apps", "locations", "labels", "sync"}
  /\ \A r \in DOMAIN roles : roles[r] \in LabelMaps

\* An id tells source and name: no two of the sources' and apps' names give the
\* same one.  The configuration does not check it ("a" and "b:c", "a:b" and "c").
IdsTellApart ==
  \A s, t \in Sources, m, n \in Names : getUniqueID(s, m) = getUniqueID(t, n) => s = t /\ m = n

Filtering(q) == q.anyStatus # {} \/ DOMAIN q.all # {}

\* Mutant: groups count for users only that are not listed themselves.
getUserRolesOrGroups(user) ==
  IF user.name \in DOMAIN users THEN users[user.name]
  ELSE UNION {groups[g] : g \in user.groups \cap DOMAIN groups}

\* What HandleCallback puts into the session: roles by name and by group.
getUserRoles(user) ==
  (IF user.name \in DOMAIN users THEN users[user.name] ELSE {})
  \cup UNION {groups[g] : g \in user.groups \cap DOMAIN groups}
isAdmin(user) == "admin" \in getUserRoles(user)

RolesWith(user, k) == {r \in getUserRoles(user) \cap DOMAIN roles : k \in DOMAIN roles[r]}

\* The labels of all of the user's roles, with their values.
GetUserPermissions(user) ==
  [HasFullAccess |-> isAdmin(user),
   AllowedLabels |-> [k \in {l \in LabelKeys : ~isAdmin(user) /\ RolesWith(user, l) # {}} |->
                        {roles[r][k] : r \in RolesWith(user, k)}]]

CanAccessLabel(perms, k, v) == perms.HasFullAccess \/ (k \in DOMAIN perms.AllowedLabels /\ v \in perms.AllowedLabels[k])
CanAccessApp(perms, a) == perms.HasFullAccess \/ \E k \in DOMAIN a.labels : CanAccessLabel(perms, k, a.labels[k])

\* Only the /api endpoints know a user.
Visible(k, q, apps) ==
  LET perms == GetUserPermissions(q.user)
  IN  IF k = "sync" THEN apps ELSE {e \in apps : CanAccessApp(perms, e.app)}

FieldIs(e, f, v) == HasField(e.app, f) /\ FieldValue(e.source, e.app, f) = v
Satisfies(e, q) ==
  /\ q.anyStatus # {} => e.app.status \in q.anyStatus
  /\ \A f \in DOMAIN q.all : FieldIs(e, f, q.all[f])

(***************************************************************************)
(* FindAppsByLabels: the ids listed under every wanted field value.  One   *)
(* filter returns the posting list as it is, an id once per occurrence;    *)
(* intersectSlices drops the repetitions.                                  *)
(***************************************************************************)
Once == NoURL

\* Mutant: an app that matches any of the filters is found.
FindAppsByAnyLabel(index, all) ==
  UNION {{[id |-> p.id, copy |-> Once] : p \in {x \in index[f] : x.value = all[f]}} : f \in DOMAIN all}

FindAppsByLabels(index, all) ==
  LET list(f) == {p \in index[f] : p.value = all[f]}
      idsIn(f) == {p.id : p \in list(f)}
  IN  IF Cardinality(DOMAIN all) = 1
      THEN UNION {{[id |-> p.id, copy |-> p.origin] : p \in list(f)} : f \in DOMAIN all}
      ELSE {[id |-> i, copy |-> Once] :
              i \in {j \in UNION {idsIn(f) : f \in DOMAIN all} : \A f \in DOMAIN all : j \in idsIn(f)}}

\* Mutant: the OR filter is forgotten when there are other filters.
FilterAnswersWithoutOr(apps, q, index) ==
  LET ids == {idOf(e) : e \in apps}
      hits == {h \in FindAppsByLabels(index, q.all) : h.id \in ids}
  IN  IF DOMAIN q.all = {}
      THEN {{[entry |-> e, copy |-> Once] : e \in {x \in apps : q.anyStatus = {} \/ x.app.status \in q.anyStatus}}}
      ELSE {{[entry |-> idToApp[h.id], copy |-> h.copy] : h \in hits} :
              idToApp \in {m \in [ids -> apps] : \A i \in ids : idOf(m[i]) = i}}

\* The answers filterApps may give.  Several apps may share an id; which of
\* them idToApp keeps depends on Go's map iteration order.
FilterAnswers(apps, q, index) ==
  LET base == IF q.anyStatus = {} THEN apps ELSE {e \in apps : e.app.status \in q.anyStatus}
      ids == {idOf(e) : e \in base}
      hits == {h \in FindAppsByLabels(index, q.all) : h.id \in ids}
  IN  IF DOMAIN q.all = {} THEN {{[entry |-> e, copy |-> Once] : e \in base}}
      ELSE {{[entry |-> idToApp[h.id], copy |-> h.copy] : h \in hits} :
              idToApp \in {m \in [ids -> base] : \A i \in ids : idOf(m[i]) = i}}

(***************************************************************************)
(* A location's status and counts over the apps of an answer.              *)
(***************************************************************************)
NoStatus == "null"
AsScraped == "as scraped"  \* the status the remote site sent with the location

appsInLocation(l, apps) == {x \in apps : x.entry.app.location = l}

\* Mutant: one app up makes its location up.
LocationUpIfAnyUp(l, apps) ==
  LET statuses == {x.entry.app.status : x \in appsInLocation(l, apps)}
  IN  CASE statuses = {}       -> NoStatus
        [] "up" \in statuses   -> "up"
        [] "down" \in statuses -> "down"
        [] OTHER               -> "unavailable"

calculateLocationStatus(l, apps) ==
  LET statuses == {x.entry.app.status : x \in appsInLocation(l, apps)}
  IN  CASE statuses = {}       -> NoStatus
        [] statuses = {"up"}   -> "up"
        [] "down" \in statuses -> "down"
        [] OTHER               -> "unavailable"

calculateLocationStatusCounts(l, apps) ==
  [st \in ValidStatuses |->
     Cardinality({x \in appsInLocation(l, apps) : x.entry.app.status = st})]

WithStatus(l, source, apps) ==
  [name |-> l, source |-> source, status |-> calculateLocationStatus(l, apps),
   counts |-> calculateLocationStatusCounts(l, apps)]

\* GetLocationCache, each location with the source it came from.
ScrapedLocations == UNION {{[name |-> l, source |-> s] : l \in locationCache[s]} : s \in Sources}

AllApps == {[entry |-> e, copy |-> Once] : e \in Entries(appStatusCache)}

------------------------------------------------------------------------------

QueryInit ==
  /\ Init
  /\ pc = "idle"
  /\ kind \in Handlers
  /\ query \in QuerySet
  /\ snapshot = {} /\ filtered = {} /\ locations = {} /\ offered = {}
  /\ disturbed = FALSE

\* A request arrives; its handler first copies the app cache.
GetAppStatusCache ==
  /\ pc = "idle"
  /\ kind' \in Handlers \ {"labels"}
  /\ query' \in QuerySet
  /\ snapshot' = Entries(appStatusCache)
  /\ filtered' = {} /\ locations' = {} /\ offered' = {}
  /\ disturbed' = FALSE
  /\ pc' = IF kind' = "sync" THEN "getLocationCache" ELSE "filterApps"
  /\ UNCHANGED vars

\* /sync copies the scraped locations, with the status they were cached with.
GetLocationCache ==
  /\ pc = "getLocationCache"
  /\ locations' = {[name |-> l.name, source |-> l.source, status |-> AsScraped,
                     counts |-> [st \in ValidStatuses |-> 0]] : l \in ScrapedLocations}
  /\ pc' = "filterApps"
  /\ UNCHANGED <<vars, kind, query, snapshot, filtered, offered, disturbed>>

AfterFilter == CASE kind = "apps" -> "done"
                 [] kind = "sync" -> "convertToHandlersLocation"
                 [] OTHER         -> "getLocationsWithStatus"

filterApps ==
  /\ pc = "filterApps"
  /\ filtered' \in FilterAnswers(Visible(kind, query, snapshot), query, appsByField)
  /\ pc' = AfterFilter
  /\ UNCHANGED <<vars, kind, query, snapshot, locations, offered, disturbed>>

\* Locations: the status comes from the filtered apps, for scraped and own
\* locations alike.  Whoever filters, or may not see everything, gets the
\* locations of his apps only.
GetLocationsWithStatus ==
  /\ pc = "getLocationsWithStatus"
  /\ LET all == {WithStatus(l.name, l.source, filtered) : l \in ScrapedLocations}
                \cup {WithStatus(l, "", filtered) : l \in configuredLocations}
         everything == ~Filtering(query) /\ isAdmin(query.user)
     IN  locations' = {l \in all : everything \/ appsInLocation(l.name, filtered) # {}}
  /\ pc' = "done"
  /\ UNCHANGED <<vars, kind, query, snapshot, filtered, offered, disturbed>>

\* /sync: the server's own locations get the status of a fresh copy of all apps.
convertToHandlersLocation ==
  /\ pc = "convertToHandlersLocation"
  /\ locations' = locations \cup {WithStatus(l, "", AllApps) : l \in configuredLocations}
  /\ pc' = "done"
  /\ UNCHANGED <<vars, kind, query, snapshot, filtered, offered, disturbed>>

\* Mutant: values are offered whenever the user has the key.
GetLabelValuesOfKey(index, perms, k) ==
  {v \in {p.value : p \in index[[kind |-> "label", key |-> k]]} :
     perms.HasFullAccess \/ k \in DOMAIN perms.AllowedLabels}

\* GetLabelKeys and GetLabelValues, cut down to what the user's roles name.
GetLabelKeys(index, perms) ==
  {k \in LabelKeys : index[[kind |-> "label", key |-> k]] # {}
                     /\ (perms.HasFullAccess \/ k \in DOMAIN perms.AllowedLabels)}
GetLabelValues(index, perms, k) ==
  {v \in {p.value : p \in index[[kind |-> "label", key |-> k]]} : CanAccessLabel(perms, k, v)}

\* /api/labels reads the index once, and no app.
GetLabelsWithAuthz ==
  /\ pc = "idle" /\ "labels" \in Handlers
  /\ kind' = "labels"
  /\ \E q \in QuerySet :
       LET perms == GetUserPermissions(q.user) IN
       /\ query' = q
       /\ offered' = IF q.labelKey = "" THEN GetLabelKeys(appsByField, perms)
                     ELSE GetLabelValues(appsByField, perms, q.labelKey)
  /\ pc' = "done"
  /\ UNCHANGED <<vars, snapshot, filtered, locations, disturbed>>

\* The response is written and the handler's variables are gone.
Respond ==
  /\ pc = "done"
  /\ pc' = "idle"
  /\ snapshot' = {} /\ filtered' = {} /\ locations' = {} /\ offered' = {} /\ disturbed' = FALSE
  /\ UNCHANGED <<vars, kind, query>>

\* A scraper updates a cache.
CacheStep ==
  /\ Next
  /\ disturbed' = (pc # "idle" /\ (disturbed \/ appStatusCache' # appStatusCache))
  /\ UNCHANGED <<pc, kind, query, snapshot, filtered, locations, offered>>

Handler == \/ GetAppStatusCache \/ GetLocationCache \/ GetLabelsWithAuthz \/ filterApps
           \/ GetLocationsWithStatus \/ convertToHandlersLocation \/ Respond

QueryNext == Handler \/ CacheStep

QuerySpec == QueryInit /\ [][QueryNext]_queryVars

------------------------------------------------------------------------------
(***************************************************************************)
(* Properties.                                                             *)
(***************************************************************************)
Answered == pc = "done"
Entitled == Visible(kind, query, snapshot)
UniqueIds(apps) == \A d, e \in apps : idOf(d) = idOf(e) => d = e

\* The index answers a query exactly as a scan of the user's apps would, each
\* matching app once, when no update came between and "source:name" tells apps apart.
UndisturbedAnswersExact ==
  Answered /\ ~disturbed /\ UniqueIds(snapshot) =>
    /\ {x.entry : x \in filtered} = {e \in Entitled : Satisfies(e, query)}
    /\ \A x, y \in filtered : x.entry = y.entry => x = y

\* What stays true of an answer whatever updates come between: an OR filter on
\* status, and filters on what an id is made of, are never answered wrongly.
RaceFreeFiltersSound ==
  Answered => \A x \in filtered :
    /\ query.anyStatus # {} => x.entry.app.status \in query.anyStatus
    /\ \A f \in DOMAIN query.all :
         f.key \in {"name", "source"} /\ f.kind = "system" => FieldIs(x.entry, f, query.all[f])

\* The documented rule (server.md:194): a role of the user, whether his name or
\* one of his groups gives it to him, has a label of the app.
Grants(user, r) == \/ user.name \in DOMAIN users /\ r \in users[user.name]
                   \/ \E g \in user.groups \cap DOMAIN groups : r \in groups[g]
Named(user, k, v) == \E r \in DOMAIN roles : Grants(user, r) /\ k \in DOMAIN roles[r] /\ roles[r][k] = v
EntitledByRole(user, a) ==
  Grants(user, "admin") \/ \E k \in DOMAIN a.labels : Named(user, k, a.labels[k])

\* A user gets exactly the apps that one of his roles entitles him to, out of
\* those that match, and locations only if such an app is there, whatever the
\* index answers about the apps of others.
OnlyEntitledApps ==
  Answered /\ kind \in {"apps", "locations"} =>
    /\ \A x \in filtered : EntitledByRole(query.user, x.entry.app)
    /\ ~Filtering(query) => {x.entry : x \in filtered} = {e \in snapshot : EntitledByRole(query.user, e.app)}
    /\ ~isAdmin(query.user) =>
         \A l \in locations : \E e \in snapshot : EntitledByRole(query.user, e.app) /\ e.app.location = l.name

\* The filters the client offers lead somewhere: every label value /api/labels
\* gives a user is that of an app he can see, and every value of a key his
\* roles name, on an app with it, is given, until the next update.
OfferedFiltersFindApps ==
  Answered /\ kind = "labels" /\ query.labelKey # "" /\ ~disturbed =>
    LET f == [kind |-> "label", key |-> query.labelKey]
        mine == {e \in Entries(appStatusCache) : EntitledByRole(query.user, e.app) /\ HasField(e.app, f)}
        named == {v \in LabelValues : Grants(query.user, "admin") \/ Named(query.user, query.labelKey, v)}
    IN  offered = {e.app.labels[query.labelKey] : e \in mine} \cap named

\* The server's own locations take precedence: an answer never holds one of
\* their names twice, nor from a source, and an unfiltered one holds them all.
OwnLocationsOnce ==
  Answered /\ kind \in {"locations", "sync"} => \A l \in configuredLocations :
    /\ kind = "sync" \/ (~Filtering(query) /\ isAdmin(query.user)) => \E x \in locations : x.name = l
    /\ \A x, y \in locations : x.name = l /\ y.name = l => x = y /\ x.source = ""

\* A location's status and its three counts, computed apart, tell one story
\* about the apps the same filter answers, for every own location of /sync too
\* when nothing changed meanwhile.
LocationStatusAgrees ==
  Answered /\ (kind = "locations" \/ (kind = "sync" /\ ~disturbed /\ ~Filtering(query))) =>
    \A l \in locations : l.status # AsScraped =>
      LET n(st) == l.counts[st] IN
      /\ n("up") + n("down") + n("unavailable") = Cardinality(appsInLocation(l.name, filtered))
      /\ l.status = "up" <=> n("up") > 0 /\ n("down") + n("unavailable") = 0
      /\ l.status = "down" <=> n("down") > 0
      /\ l.status = NoStatus <=> n("up") + n("down") + n("unavailable") = 0

\* "unique_app_ids are in format source:appname to avoid conflicts"
\* (labels.go:41): an undisturbed answer holds each matching app, once.
IdsAvoidConflicts ==
  Answered /\ ~disturbed =>
    /\ {e \in Entitled : Satisfies(e, query)} \subseteq {x.entry : x \in filtered}
    /\ \A x, y \in filtered : x.entry = y.entry => x = y
=============================================================================
