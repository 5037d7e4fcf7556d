# A verification of site-availability

site-availability is a Go server that asks Prometheus servers, HTTP endpoints and other site-availability
servers for the status of applications, keeps the result in memory and serves it to a React client, to other
servers and to Prometheus. This directory holds TLA+ models of the stateful parts of server and client, the TLC
runs that check them and TLAPS proofs of what matters most about them. Paths below are relative to `src/`.

`PROJECT.json` lists every definition with the lines it models (`map`), the runs, the hazards and the theorems.
Operators introduced by a comment `Mutant:` are not part of a specification: each is a plausible bug that breaks
a property of the run named next to it in `PROJECT.json`, and shows that the property says something.

## 1. The system

### Components, state and operations

| Component | State | Operations | Right when |
|---|---|---|---|
| status and location cache (`backend/handlers/handlers.go`) | `appStatusCache` origin → source → name → app, `locationCache` source → locations | `UpdateAppStatus`, `UpdateLocationCache` | an update replaces exactly its source; origin, source and name identify an app |
| label index (`backend/labels/labels.go`) | `appsByField` field → value → ids | `MergeLabels`, `UpdateAppLabels`, `FindAppsByLabels` | the index describes exactly the cached apps |
| scraping loops (`backend/scraping/scraping.go`) | one goroutine and one ticker per source | `Start`, `InitScrapers` | what the source answers last is what is served |
| query handlers (`backend/handlers/handlers.go`, `protected.go`) | local variables of a request | `/api/apps`, `/api/locations`, `/api/labels`, `/sync` | answers are exact, restricted to the user's apps, and consistent |
| cache and index locking (same files, `labels.go`) | `cacheMutex`, the label manager's mutex | `Lock`, `Unlock`, `RLock`, `RUnlock` | no data race, everyone finishes |
| site federation (`backend/scraping/site/site.go`) | other servers' caches | `Scrape`, the circular filter | apps spread along every chain of servers and never come back stale |
| HTTP and Prometheus scrapers (`backend/scraping/http`, `prometheus`) | per scrape: slots, wait group, results | `Scrape`, `check` | at most `max_parallel` checks; a complete result, once |
| metrics (`backend/metrics/metrics.go`) | global gauge vectors and the default registry | `/metrics` | a scrape shows its own copy of the cache, once |
| sessions (`backend/authentication/session`, `middleware/auth.go`) | map of sessions, expiry per session | create, validate, refresh, delete, clean up | ended sessions are refused, live ones kept |
| authorization (`backend/authentication/rbac`) | none | `CanAccessApp`, `GetUserPermissions` | nobody sees an app no role gives him |
| OIDC login (`backend/authentication/oidc`, `handlers/auth.go`) | the lazily created provider under `initMutex`; the `oidc_state` cookie | `initProvider`, login, callback, roles of a user | one discovery, retried after failure; waiting for it stops nobody else |
| sync and metrics authentication (`backend/authentication/hmac`, `middleware/metrics_auth.go`) | none | check one request | servers whose clocks differ by less than the window understand each other; the configured scraper is let in |
| local admin login (`backend/authentication/local`) | none | compares a user name and a password | works while the provider is down |
| configuration (`backend/config`, `backend/yaml`) | read once | merge of files, validation, defaults | no setting is lost in a merge; what is accepted can be used |
| server (`backend/server`, `main.go`) | the HTTP server, the phase of the program | start, signal, graceful shutdown | ends when told to, whatever requests wait for |
| web client (`frontend/src`) | the reducer of `AuthContext`; filters, interval, shown locations and apps; requests in flight | login, logout, page load, timers, filters, clicks, answers | shows the answer to the current filters, to the user it names |
| deployment (`chart`, `helpers`, `docs`) | none | | |

### How they interact

    source --scrape--> goroutine --UpdateAppStatus, UpdateLocationCache--> caches --updateLabelManager--> index
    caches, index --RLock--> /api/apps, /api/locations, /api/labels, /sync, /metrics
    /sync of another server --site scraper--> goroutine of this one
    both files --merge, validate, defaults--> configuration --> everything below
    login, callback --initMutex, provider--> user and roles --CreateSession--> sessions
    request --RequireAuth--> sessions --RequireAuthz--> permissions --> query handler
    client: filter, click or timer --request with the cookie--> query handler --answer, in any order--> map, panel

The caches are shared memory under `cacheMutex`, the index under a mutex of its own that an update takes inside
the first. Handlers never hold both. Servers meet only through `/sync`.

### What is hard

Interleavings of scrapers and handlers, whose answers are put together from several critical sections; a
read-write lock of which Go forbids a second read lock while a writer waits; sources that fail and recover; a batch
that replaces a source only under the origins it mentions; truncation and normalization of the very fields that are keys; loops in
the graph of servers, with slow and failing requests; global metric state that concurrent scrapes replace; an
expiry read outside the lock that guards it; a provider on the network that is waited for under a lock; sessions that a restart
forgets and browsers remember; a client whose answers arrive in any order. `PROJECT.json` lists each hazard at its line, with the property
that would catch it.

## 2. Modules

| Module | Models | Builds on |
|---|---|---|
| `StatusCache` | the caches, the index, the two updates | |
| `Scraping` | the goroutines of `Start` over sources that change and fail | extends `StatusCache` |
| `Queries` | the handlers of `/api/apps`, `/api/locations`, `/api/labels`, `/sync` against updates, with filters, and roles turned into permissions | extends `StatusCache` |
| `CacheLock` | both mutexes as `sync.RWMutex` works, and every goroutine's lock operations | implements `ReadWriteLock` |
| `ReadWriteLock` | what a read-write lock promises | |
| `SiteMesh` | several servers that scrape each other | |
| `ScrapePool` | the worker pool of `Scrape` | implements `ScrapeCall` |
| `ScrapeCall` | what `Scrape` promises: it returns, once, a status for every app | |
| `HTTPChecks` | one check of an http source: defaults, validation, the verdict on an answer (operators) | |
| `HTTPScrape` | `Scrape` of an http source with its endpoints | extends `ScrapePool`, `HTTPChecks`; every step is one of the pool |
| `MetricsExport` | `/metrics` over the global vectors and the registry | |
| `Sessions` | session manager, `RequireAuth`, cleanup (actions, and the properties of sessions) | |
| `Login` | tabs that log in locally or through the provider (actions) | extends `Sessions` |
| `Documents` | YAML documents as trees (operators) | |
| `ConfigMerge` | the merge of the two files, and a reference for it (recursive operators) | extends `Documents` |
| `Config` | decoding, validation, defaults, and what their users ask of the settings (operators) | extends `Documents` |
| `Service` | the running program: serving, shutdown, crash, restart | extends `Login` |
| `Server` | the program from its files on, with the merge left open | extends `Service`, `Config` |
| `ServerFiles` | the program with the merge of `ConfigMerge` | extends `Server`, `ConfigMerge` |
| `ClientAuth` | `AuthContext`: the reducer, `initialize`, `login`, `logout`, page loads | |
| `Client` | the dashboard: map, panel, timers, requests in flight | extends `ClientAuth` |
| `ScrapingProofs`, `CacheLockProofs`, `SiteMeshProofs`, `HTTPScrapeProofs`, `MetricsExportProofs`, `ClientProofs` | theorems about the module named and those it extends | extend it |
| `QueriesProofs` | theorems about `Queries` | extends it and `ScrapingProofs` |
| `ServiceProofs` | theorems about `Sessions`, `Login`, `Service` and `Server` | extends `Server` |
| `MC...` | constant values for TLC | extend the module they instantiate |

### Correspondence with the code

**StatusCache.** `appStatusCache[o][s]` is the set of apps of `appStatusCache[origin][source]`; an app's `Source`
is the key `s`, so it is not repeated in the record. `UpdateAppStatus` is one step because the code holds
`cacheMutex` throughout. An empty batch removes the source everywhere; a non-empty one replaces it under the
origins it mentions and leaves the others. Reports without name, location or origin are skipped; names are
truncated, statuses corrected, labels merged; a later report overwrites an earlier one of the same truncated
name. An origin URL is a host and a spelling, normalization forgets the spelling (case, default port, lone slash).
The index is a set of postings: the code appends an id to a slice once per app, so a posting keeps the origin to tell
those occurrences apart, and no lookup reads it. Locations of one source are a set here; `SiteMesh` counts them.
The update counters and `ResetCacheForTesting` are left out.

**Scraping.** A goroutine scrapes, stores the apps, stores the locations, waits. The ticker is untimed. A failed
scrape gives no apps and no locations, which is `createUnavailableStatuses` in its present form. A source that fails
`ValidateConfig` has no goroutine (`off`).

**Queries.** A handler is a sequence of steps, one per critical section, and the cache may change between any two.
Which of several apps with one id `filterApps` keeps depends on Go's map order and is a nondeterministic choice.
Handlers write nothing shared, so one of them in flight shows all interleavings with updates. A user is a name and groups; his roles
(`getUserRoles`) and their permissions (`GetUserPermissions`) are computed with the request, though the code computes the former
at login: the configuration does not change in between. What `/api/labels` offered last is
kept in `offered`, so that a filter can be compared with what was suggested.

**CacheLock.** Programs are lists of lock operations, each with the structures accessed since the one before: `ScraperPrograms` and
`HandlerPrograms` are all there are, a handler with filters looks into the index and one without does not. A
writer first announces itself, which holds later readers back, then waits for the readers inside; when it leaves, every
waiting reader enters. A goroutine's "use" spans up to its next lock operation.

**SiteMesh.** An app is its name and the server it comes from; all local sources of a server are one, and a server has at most one source for
another. Servers know each other by texts: `hostURL` is what each calls itself, which its apps carry as their origin (`config.go:181` cuts its trailing slash),
and `url` is what each site source has configured, chosen from `Spellings` at the start. The filter compares the two as strings, as
`site.go:162-164` does, so that a source may name a server in another way. Statuses and labels
of relayed apps are left out: the filter looks at origins only. `/sync` reads apps and locations in one step here
(`Queries` covers what happens in between). A request's answer may be stored arbitrarily late, while the other
side changes. `clock` is what each server's clock is off by; a request is signed at some fraction of a second, its timestamp is cut to whole
seconds, and it arrives after a delay (`Validates`). Servers have the same token; one without a token (`Secured`) checks nothing.

**ScrapePool.** One goroutine per app; acquire, check, store, release, done are separate steps. The check itself is
a choice of a status, which is all the Prometheus scraper needs: its answer is up, down or unavailable.

**HTTPChecks, HTTPScrape.** Here the check is `http.go`'s: the app merged with the defaults, the request, and the verdict.
An endpoint's answer is its redirects, code, the times of the headers and of the whole body, the texts in the body, how it reads as JSON (an
object, `null`, which unmarshals as well, or anything else) and whether its certificate passes. A text is a word in one of two spellings, which is what
`case_sensitive` tells apart. Headers and authentication only decide whether and what an endpoint answers, which is an input. A timeout that is not given or not a
duration is that of the source; one of 0 or less, of either, is no limit. `max_redirects` is merged and never read.
`tlsConfig` is the TLS configuration that all sources share if custom CA certificates are configured: `SkipVerify` is the write of an app with
`ssl_verify: false`, `OtherSourceSkips` that of an app of another source, and a check reads it with its handshake (`Verifies`), at any time after its own
write. The write and the reads are not synchronized; a read that comes late or early is one that the model makes then. Prometheus and site sources read the same
configuration, in requests that are not modelled at that level.

**MetricsExport.** The registry is modelled from how `metrics.go` uses `client_golang` (1.21.1 in `go.mod`), marked external:
a collector is known by its metrics' names, so `Unregister` of a new vector removes the old one; the label names of
a metric name are remembered for ever; `MustRegister` panics on a difference. Each phase of a request (reset, fill,
aggregate) is one step.

**Sessions.** A session object outlives its removal from the map, as a pointer does. `Check` reads the expiry outside
the mutex, `Extend` writes it inside. The cookie's `MaxAge` is not modelled: the model's browser keeps sending it.
Sessions touch each other only through the mutex and the sweep.

**Login.** A tab is what its user does next and, while a request of it is at the server, where in the handler that is. `initProvider` is
`CheckProvider` (read lock), `LockProvider` (write lock and second look) and `AskProvider` (discovery, under the lock); a request past
them is `ready`, and reads the provider's fields without the lock. A reader of `initMutex` is never inside across steps, so only its writer is
state. The provider may answer, fail, or never answer. The tabs share one `oidc_state` cookie: `stateCookie` is the
tab that set it last. A callback clears it with its response, whatever it is by then. Responses reach the browser with the step that writes them.

**ConfigMerge, Config.** A document is a tree of maps, lists, texts and null; a scalar is its text. Keys that YAML does not read as strings
(`OtherKeys`) are dropped, as the code does below the top. `Settings` is the reference: a document as a set of paths with values. Only the predicates
on texts that decide something are kept: URL, duration, reserved character or length, colon, blank. A configuration has the
fields that `validateConfig` looks at or that this model uses.

**Service, Server.** `startup` follows `main`: `boot`, `merged`, `configured`, `done`; `failed` is `Fatalf` or a panic in the merge. `phase` is that of the
running program: `starting`, `serving`, `draining` after a signal, `down`. `Stop` forgets sessions, requests in flight and the provider; the
clock, the cookies and tabs at the provider's page go on. `EditFiles` and `Restart` are whoever runs the program; a restarted program has the
same configuration. Once serving, the configuration matters by its methods of login only, so `Start` forgets the rest and picks a workload
for them: the tabs, requests and ends that a bounded run can afford. In `Server` the merge is two constant operators, `Merged` and `Unmergeable`,
because nothing can be proved in a module that uses the recursive operators of `ConfigMerge`; `ServerFiles` has both, and the run gives
`Merged` and `Unmergeable` the values `MergeFiles` and `MergePanics`.

**ClientAuth, Client.** The reducer's actions are operators on `ctx`; each await of `initialize`, `login` and `logout` is a point where
`authCall` waits and where the request may fail. The server's session is only `cookie`: whose requests it answers. A page load
starts over and aborts what was in flight. A render and its effects belong to the step that dispatched, as React runs them before
the next event; the second run of effects in development (StrictMode) is left out. One `refreshLocations` or one `refreshApps`
is an element of `calls` with the arguments its closure captured; `initialize` keeps those of the first render (`boot`). The server may
look at a session at any time between sending and landing; as a session can only end while the dashboard is up, the answer is for the
visitor of one of those two moments. Server data does not change: an answer is known by whom it was computed for and what was asked,
and `LocationsCatchUp` compares those. A second click on "Logout" while the first request is out, and
other tabs that share the cookie, are not modelled. Searching, sorting and grouping in the panel, the sidebar's suggestions and the map's
drawing are left out.

## 3. Runs

| Run | Question and answer | Bounds |
|---|---|---|
| `scraping` | Whatever a source reports and other goroutines do: apps stay unique (`UniqueApps`), the index exact (`IndexMatchesCache`), sources apart (`SourceIsolation`); a stored result stays served (`ResultStaysServed`); a source with one origin never shows what it stopped reporting (`LocalSourcesShowLatest`); a source that settles is eventually shown as it is (`EventuallyFresh`). | one local source, one site source with two origins and two locations; answers that repeat, truncate, misspell, override and omit what the cache keys on; failures and recoveries without limit |
| `queries` | An answer no update disturbed is the one a scan would give (`UndisturbedAnswersExact`); filters that ids imply hold under any race (`RaceFreeFiltersSound`); nobody gets what no role of his allows (`OnlyEntitledApps`); a label that was offered finds an app the user may see (`OfferedFiltersFindApps`); own locations appear once (`OwnLocationsOnce`); a location's status agrees with its counts (`LocationStatusAgrees`). | two sources with labels of their own, five queries (none, OR, AND, single field, both; an administrator, users with roles by name, by group, by both, and one that is not configured), one request in flight |
| `lock` | No access races with a write (`NoDataRace`), the mutexes implement a read-write lock (`ImplementsReadWriteLock`), every call finishes (`EveryoneFinishes`). | two scrapers, two handlers, all programs but `/api/locations`; of `/sync` one handler has the requests with filters, the other those without |
| `mesh` | Copies never stand for what a directly scraped server reports (`NoStaleCopies`); direct sites converge (`DirectSitesConverge`); every chain carries apps and locations to its end (`EverythingSpreads`). | two meshes of three servers, a loop of two of which one scrapes the third, by its host_url or by an alias; two apps, which a server reports in three combinations; one failed request; a location counted once; clocks apart by almost the window in both directions, every fraction of a second, two delays |
| `pool` | Every status an HTTP source stores is what the documentation makes of the answer, for that app (`StatusesJustified`); `max_parallel` holds (`BoundedParallelism`), the result is complete and final (`ReturnsComplete`), `Scrape` returns once and does return (`ImplementsScrapeCall`). | four apps (defaults; an allowed redirect and no verification; conditions and no time limit; nothing allowed) with up to six answers each, at and next to the limits of codes, redirects and times, trusted and not, and where code and documentation part; without custom CAs, with them, and with verification already off; two slots, so slots are reused |
| `metrics` | A scrape that meets no other serves exactly its copy, series, gauges and totals (`LoneScrapesExact`), and it is answered if its label keys are those of the metric (`LoneCompatibleScrapesAnswered`), whatever panics and unregistered vectors earlier scrapes left. | three requests, interchangeable (symmetry), so one lone request can follow two overlapping ones; four cache contents with changing keys |
| `client` | Who is named on the screen sees his own data (`OwnDataOnly`); where a login is known to be required the dashboard is for those who did (`LoginBeforeDashboard`); once the interval is known, the map and the open panel end up with the answer to the filters, site and session that stay (`LocationsCatchUp`, `PanelCatchesUp`), whatever was asked before and lands late. | two users, two settings of filters, two sites, two refreshes in flight (so the later may land first), one failed request; authentication on and off |
| `server` | The merge keeps what both files say (`MergeKeepsSettings`) and what passes validation can be used (`ConfigurationSuffices`). Ended sessions are refused, after a restart as well (`EndedSessionsRefused`), live ones kept (`LiveSessionsKept`), expired ones removed (`ExpiredSessionsRemoved`). The provider's fields are never read while they are written (`NoProviderRace`); local logins are answered whatever the provider does (`EmergencyAccess`); once it answers, SSO logins go on whatever failed before (`LoginsGoOn`). After a signal the program ends, even if the provider never answers (`EndsAfterSignal`). | about 1,200 pairs of files: every combination of local admin, OIDC, metrics authentication and sources, split over both files in eight ways, with repeated, unnamed, null and unusable parts. Five workloads: no login; a local session with two concurrent requests, timeout 2 and clock to 5 (two refreshes, then an expiry); an SSO session with one request over two ends of the program; two tabs with both methods of login, with a provider that answers and one that may not, one failure |

Symmetry is used in `metrics` only, which has no liveness property. `CHECK_DEADLOCK FALSE` is used where a scrape has
returned and nothing is left to do (`pool`), and in `lock_locations`, whose counterexample is a standstill.

### Where the code and its documentation disagree

| Run | Statement | What happens |
|---|---|---|
| `lock_locations` | "Locks are held only for the duration of operations" (`docs/docs/development/data-structures.md:375`) | `GetLocationsWithStatus` takes `cacheMutex.RLock` and calls `GetAppStatusCache`, which takes it again. A scraper that calls `Lock` in between waits for the first, the second waits for the scraper, and all later requests wait too. |
| `queries_ids` | "unique_app_ids are in format source:appname to avoid conflicts" (`backend/labels/labels.go:41`) | The cache keys on origin, source and name; two apps a site source relays from different origins under one name share an id, and a filtered answer loses or repeats one. |
| `mesh_locations` | "You can safely chain or loop site sources; the system prevents infinite recursion" (`docs/docs/usage/configuration/sources/site.md:55`) | Locations are relayed without filter: in a loop of two servers a third one's location is listed once more at every scrape. |
| `metrics_labels` | "Any labels defined at the server, source, or application level" (`docs/docs/metrics.md:45`) | Once the metric has been registered with some label keys, every scrape with others panics, since the registry remembers them over `Unregister`. |

Some statements are contradicted by code that the models contain, without a run of their own; the properties make an exception or state a condition:

| Statement | What the code does | In the models |
|---|---|---|
| "Site scrapers drop apps from directly scraped sites" (`docs/docs/development/data-structures.md:442`), "you can safely scrape a site that scrapes from you" (`docs/docs/usage/configuration/sources/site.md:9`) | `site.go:162-164` compares the origin of an app, which is the `host_url` of its server, with the configured `url`s as strings. Under another name of a site, another spelling or with a trailing slash nothing is dropped. `helpers/helm/values-server-b.yaml:84` has such a `url`: `http://site-availability-server-a:8080` for a server whose `host_url` is `http://server-a.local`. | `NoStaleCopies` and `DirectSitesConverge` are about sources with the `host_url` (`ByHostURL`) |
| `max_redirects`: "Max redirects to follow. Default: 10" (`sources/http.md:46`) | `http.go` never reads it after the merge; the client of `net/http` gives up at the tenth redirect, so it follows nine, whatever is configured. | `StatusesJustified` excepts what differs (`RedirectsDiffer`) |
| `ssl_verify`: "Verify SSL certificates. Default: true" (`sources/http.md:47`), for each app | With custom CAs, `http.go:365` writes `InsecureSkipVerify` into the configuration that every check of every source uses (`scraping.go:74`) and nothing takes it back: one app with `false` turns verification off for all. | `StatusesJustified` excepts it (`VerificationOff`) |
| `json_path` conditions with a `path` and an `expected_value` (`sources/http.md:64`); "just check if the path exists" (`http.go:557`) | Both must be given and neither is looked at: any JSON object, or `null`, will do. | `Met` reads them as the code does |
| "OIDC issuer is required when OIDC is enabled" (`config.go:262`) is all that is asked of an issuer | `initProvider` parses it (`oidc.go:95`), and one that `url.Parse` refuses, such as `https://idp:port`, or a URL after a space, fails every login. | `ConfigurationSuffices` excepts it (`Unparsable`) |
| "10-second timeout for provider initialization" (`docs/docs/usage/configuration/server.md:341`) | `initProvider` asks with `context.Background()` and a client without a timeout (`oidc.go:89`, `107`), so the discovery may hang under `initMutex`. | `LoginsGoOn` is about a provider that answers; `EmergencyAccess` and `EndsAfterSignal` hold without |
| items without a name "are appended" by the merge (`yaml.go:100`) | They are dropped. | `MergeKeepsSettings` is about files without them |

### Conditions of the properties

Several properties are stated under a condition because the code gives less without it. They were found by checking
the unconditional form first.

- `LocalSourcesShowLatest` is about sources with one origin. A site source that stops relaying an origin keeps
  its apps until it fails as a whole, since a batch replaces only the origins it mentions (`handlers.go:344`). For the
  same reason `DirectSitesConverge` is about servers that settle on a non-empty set.
- `UndisturbedAnswersExact` is about answers without an update between the snapshot and the index lookup
  (`handlers.go:764`); otherwise ids may miss or stand for apps that have changed their labels since.
- `NoStaleCopies` and `DirectSitesConverge` are about servers scraped directly, by the `host_url` they have configured for themselves (`ByHostURL`): with `Scrapes` in its
  place TLC finds both violated in the mesh with the alias, where old copies of the third server's apps pass the filter. In that mesh the other scrapes
  still keep what is promised. Two servers that scrape each other
  feed an app of a third one back and forth after the third stopped reporting it, if neither scrapes it directly.
- The metrics properties are about scrapes that meet no other. Overlapping ones may panic, or fill a vector created
  by the other and so file values under the wrong label names.
- `EndedSessionsRefused` is about requests that arrive after the end, and `LiveSessionsKept` about sessions whose
  expiry never passed. `ValidateSession` decides on an expiry read outside the mutex (`session.go:102`), so it may delete a
  session another request has just extended.
- `MergeKeepsSettings` is about files that are `Mergeable`: names are not repeated in a list, keys are strings, and a list without names
  is in one of the files only. Of two lists without names nothing is left, although `yaml.go:100` says that such items are appended, and of two items
  with one name the merge keeps one, so that the check for repeated source names (`config.go:222`) finds them only if the credentials
  file has no list of sources. A section that is null in the credentials file replaces the whole section.
- `ConfigurationSuffices` makes an exception of user names with a colon for `/metrics`, which pass validation, but
  `metrics_auth.go:89` cuts the credentials at the first colon; and of issuers that `url.Parse` refuses (`Unparsable`, given to the model). That a provider
  is found at the issuer and accepts the client is not a matter of the configuration alone.
- `StatusesJustified` compares what `check` does step by step with a reading of the documentation in its own terms (`Healthy`: sets of codes, of matching texts and of
  times), for every answer but the two kinds in the table above. Without either exception TLC finds it violated. Among those apps whose certificates pass, or that do not verify,
  no check changes another's result.
- `DirectSitesConverge` and `EverythingSpreads` are about `Tolerated` pairs: the scraped server's clock may be behind by less than the window, and
  ahead by the window less the time of the request and the second the timestamp is cut to. `EverythingSpreads` takes all scrapes to be tolerated:
  a server that is scraped directly, but whose requests are refused, is cut off even where others relay its apps, as the filter drops those.
- `LoginsGoOn` is about a provider that answers and failures that ended. A callback still fails when another tab's login replaced the
  state cookie (`handlers/auth.go:352`), and the model lets it.
- `EveryoneFinishes` leaves `/api/locations` out, for the reason `lock_locations` shows.
- `ScrapePool` assumes `max_parallel > 0`, which nothing enforces; with 0 the source's goroutine waits for ever.
- `GetLocations`, whose comments (`handlers.go:1048`) describe an access restriction of its own, is not routed by the server;
  the models follow `GetLocationsWithAuthz`, which is.

## 4. Fairness

- `Scraping`: weak fairness of each goroutine. The ticker ticks for ever, every scrape ends by its client's timeout, an
  update only computes. The monitored world has no fairness.
- `CacheLock`: a goroutine that can take its next lock operation does. Announcing is strongly fair: `sync.Mutex` turns to FIFO
  hand-over once a waiter has starved for one millisecond. Nothing makes requests arrive.
- `SiteMesh`: weak fairness of scraping and storing per pair of servers, none of failures or of local changes. Failures
  are bounded by `MaxFailures`, which stands for "failures end"; what happens while they go on is covered by safety.
- `ScrapePool`: weak fairness of the loop and of each goroutine; the check ends by its client's timeout, or because the endpoint's answer does: with a
  timeout of 0 or less an endpoint that never answers holds its slot, and `Scrape`, for ever, which the fairness excludes.
- `HTTPScrape`: as `ScrapePool`; nothing makes other sources write to the TLS configuration.
- `Client`: every request is answered or fails (the browser gives up at last), initialization goes on, timers go off, and no call is passed
  over for ever by younger ones. Failures are bounded by `MaxFailures`, which stands for "failures end". Nothing makes the user act.
- `Service`: time passes; the scheduler runs every request, the ticker of the cleanup, the shutdown's goroutine and its timer: weak fairness. The sweep
  alone is strongly fair, since other requests take and release the mutex it waits for again and again, and `sync.Mutex` hands
  over to a waiter that starved for one millisecond. The provider's answers are fair only in the workloads in which it answers. Nothing makes users act,
  and nothing makes the program crash, be told to end or be started again.
- `StatusCache`, `Queries` and `MetricsExport` have safety properties only, and no fairness.

## 5. Proofs

All theorems hold for every value of the constants that satisfies the named assumptions:

- `ConstantsAssumption`, `MaxBatchAssumption`, `AnswersAssumption`: names are not empty, `truncated` and the label maps have their types,
  batches are finite, every app of a local source is complete and has the one `host_url`.
- `QueryAssumption`: a query has finitely many filters, on fields there are; roles name label maps.
- `LockAssumption`: every goroutine runs the code's programs.
- `MeshAssumption`: nobody scrapes itself, no two servers have one `host_url`, a source whose `url` is some server's `host_url` reaches that server (nothing is
  assumed of other `url`s), clocks are off by any whole number, window and second are positive.
- `CountsAssumption`, `AppsAssumption`, `TimeoutAssumption`: `max_parallel` is positive, the apps of an http source passed `ValidateConfig`
  and its settings decoded, timeouts are any integers.
- `MetricsAssumption`: the apps of a copy of the cache are finitely many, have a status and an id of their own.
- `SessionsAssumption`, `ServiceAssumption`: `session_timeout` is positive, the clock stops, `Nobody` is nobody, workloads have their types.
- `ListsAssumption`: where a merge does not panic, the sources are a sequence.
- `UsersAssumption`, `ClientAssumption`: nobody, an anonymous visitor and nothing are no user and no site.

Two theorems have a hypothesis of their own, because the code gives no more: `IdsTellApart` (no two pairs of a source and a name give one
id, which the configuration does not check) for `RaceFreeFiltersSound`, and `NoLocationsRequest` for the absence of deadlocks, which
`lock_locations` refutes without it; `StuckOnlyInLocationsCorrect` says without that hypothesis what can get stuck.

A liveness property combines what the steps do with a scheduler that goes on taking them. The second is fairness, which the prover
does not reason about. The first is an action property, and is proved: a measure of what is left to do, which no other actor increases and
every step of the responsible one decreases, or the fact that whoever holds a lock can go on. `SettlesInSixSteps`, `DirectSitesSettle`,
`EveryStepCounts` with `PoolNeverStuckCorrect`, `StuckOnlyInLocationsCorrect`, `ServiceSettles` and `AnswersSettleCorrect` are of this kind. What
TLC adds is that, with the fairness the code's scheduling gives, the measure gets to its end.

**ScrapingProofs** (StatusCache, Scraping). `IInv` is `TypeOK /\ UniqueApps /\ IndexBuilt`. `IndexMatchesCache` is not inductive in a useful
form: it is proved from the stronger `IndexBuilt`, that the index is exactly what `updateLabelManager` builds from the
cache, which both branches of an update establish and `UpdateLocationCache` keeps. `UniqueApps` needs `GroupUnique`: the last indices by truncated
name give one app per name, under its normalized origin. Theorems: `TypeCorrect`, `AppsAreUnique`, `IndexCorrect`, `SourcesIsolated`.
`ScrapingImplementsStatusCache` shows that every step of a goroutine is a step of `StatusCache` or leaves the
caches alone, so these four hold of the running loops. `ResultsServed` and `LocalSourcesFresh` follow from
`ScrapeIInv`. `LocalSourcesShowLatest` alone is not inductive, since replacing one origin's apps leaves others alone; it takes in
addition that a local source has no apps under any other origin (`LocalUnderOneOrigin`), which in turn needs that every
non-empty result of it mentions its one origin (`LocalResultOrigins`). `SettlesInSixSteps` is what `EventuallyFresh` rests on: `StepsToSettle` counts
what is left of the current round and of the next one (a round that began before the source changed stores what it scraped then), the steps of other
goroutines leave it alone because they write other sources' entries only (`StepElsewhere`), and each own step decreases it or keeps a settled
source settled.

**QueriesProofs.** All six properties of the handlers, under any updates between their steps. `QInv` says, stage by stage, what a handler's
variables are worth: while undisturbed, its snapshot is the cache (`SnapshotOK`); after filtering, what it holds is visible to the user,
has a wanted status and, if undisturbed with unique ids, is exactly what a scan gives (`FilteredOK`); what it took of the location cache
has no own location (`LocationsOK`). It rests on `IInv`, by which the index is that of the snapshot as long as nothing disturbs. What needs
an argument of its own: that an intersection of posting lists is the conjunction of the filters, each app once; that the union over roles that
`GetUserPermissions` computes is the documented rule (`AppsAreEntitled`); that status and counts of a location agree, by cardinalities.
`HandlersOnlyRead`: the whole system implements `StatusCache`, so that the theorems above hold while requests are served.

**CacheLockProofs.** The invariant `LockInv` places every goroutine at a position of one of its programs (`Placed`): it holds each lock as often
as the operations before that position took it and did not release it; a writer is alone, whoever waits has a writer to wait for.
The first half of the module is about the programs: `WellLocked` (locks are released as often as taken, and every access is
under the lock that guards the structure) and `Ordered` (a lock is only taken by who has neither it nor a later one, the label manager's being
later than `cacheMutex`). Both are kept by composition (`Composed`), so `ServerPrograms` can show that every program of the code is well locked, and
that all but those of `/api/locations` are ordered. From this: `NoDataRaceCorrect`; `ImplementsReadWriteLockCorrect`, the whole of
the refinement, as `ReadWriteLock` states no liveness. For deadlocks the order is weakened by one exception, a read of the cache within a read of it
(`OrderedButRereading`, which `ServerPrograms` shows of every program, those of `/api/locations` included): if nobody could move, whoever holds the label
manager's lock would wait for nothing, so all wait for `cacheMutex`, and its holder can only wait in that nested read. Hence
`StuckOnlyInLocationsCorrect` for all of the code's programs, and without `/api/locations` `NeverStuckCorrect` as a corollary. `WaitsForItselfForever` shows that the
deadlock `lock_locations` finds does not resolve: the request keeps its read lock, so the writer it waits for never writes, nor does any other.
That a program is never starved stays with TLC (`EveryoneFinishes`).

**SiteMeshProofs.** `MeshInv` adds to `NoStaleCopies` the responses in flight: nothing a server has received but not yet stored is an app of a
third server it scrapes itself by its `host_url`, or of its own (`NothingForeignReceived`). It rests on `ThirdParty`, on what the filter's comparison of texts says
of servers; `AliasesPass` is its limit: copies of a server that is scraped under another name pass, whoever relays them. `ToleratedScrapesValidate` and `OutsideWindowRefused` are the two sides of the
timestamp window: which differences of clocks are always, and which never, let in, for any window, delay and fraction of a second.
Between them lies what the liveness properties' condition `Tolerated` leaves out. `DirectSitesSettle` is what `DirectSitesConverge` rests on. It needs
three facts: an answer of the origin holds its own apps (`AnswerIsOwn`), what is shown of a direct site is what was stored of it, whatever third
servers report (`ShownIsDirect`, from `MeshInv`), and between tolerated clocks no request is refused (`ToleratedScrapesValidate`).

**HTTPScrapeProofs** (ScrapePool, HTTPScrape). `PoolInv` is `PoolTypeOK /\ Progress`. `PoolTypeOK` ties both counters to the number of goroutines in
each state, which the
cardinality lemmas `StepInto`, `StepOut` and `StepWithin` carry through a step; `Progress` ties each goroutine's state to the loop's position and to
its slot of the result. From them `PoolTypeCorrect`, `ParallelismBounded`, `ReturnedResultsComplete`, and `ReturnsOnce`, the safety half of
`ImplementsScrapeCall`. They are stated of `PoolSafety`, the specification without fairness.
`PoolNeverStuckCorrect`: a loop that waits for a slot waits for goroutines that hold one, of which there is at least one that can go
on; the final wait ends because the count is that of the goroutines not yet done. `EveryStepCounts` and `ReturnsAtTheEnd`: every
step is one of at most five per app and one more, and none is left exactly when `Scrape` has returned.
`HTTPScrapeUsesPool`: every step of `HTTPScrape` is a step of the pool, so that the pool's theorems hold of it.
`JustifiedStatuses`: every stored status is the one `StatusesJustified` reads off the documentation. It rests on `Verdict`, that `check`
agrees with that reading for every configuration and answer but the named exceptions, and on `ConditionsMet`, `ListedCodes` and `MergedCodes` (what conditions ask, and what the
lists and their defaults select). The invariant says in addition what each goroutine has found but not stored yet (`Judged`): the verdict on its own answer, with the
certificate verified as the app asks, or verification off, and then it stays off (`JudgedStays`).

**MetricsExportProofs.** `MetricsInv` says how far a lone scrape has brought the global vector, the gauges and the registry at each of its phases (`Lone`), and
that who runs and has met nobody is the only one that runs (`AloneAlone`): so no other step comes between those of a lone scrape, whatever
vectors and label names earlier ones left. That the totals agree with the series takes that each app has a series of its own
(`SeriesPerApp`), hence cardinalities.

**ServiceProofs** (Sessions, Login, Service, Server). Neither `EndedSessionsRefused` nor `LiveSessionsKept` is inductive. `SessionsInv` adds where a request may still be
that arrived after the end of its session (`Doomed`): nowhere past the check it cannot pass, which for a session that was idle for too long
takes in addition that no other request is in the middle of extending it; that no expiry is later than the last use plus
the timeout (`EndedGone`); and that every expiry that passed is known to have (`LapsesKnown`). It is proved action by
action; `ServiceStepIsSessionStep` shows that whatever the program, the browser and the provider do is one of these steps or leaves the sessions
alone. `LoginInv` ties `initMutex` to the tab that asks, and the provider to the tabs that are ready (`ProviderKnown`), whence `NoProviderRace`: who
asks found the provider unset under the lock, and nobody unsets it but the end of the program. `LifeInv` does the same for the program's
life: it ends no more often than its workload has it, and leaves nothing behind. The theorems are stated of `ServiceSafety`, and
`ServerRunsAService` gives them to the whole program: a step of `Server` is one of `Service` or leaves its variables alone. `ConfigurationSufficesCorrect` is
about every pair of files and every merge of them: the document in the program's hands is a merge, the settings come
from one that `validateConfig` accepted (`StartInv`), and what it checks, with the defaults, is what the parts ask for (`LoadedSuffices`).
`ServiceSettles` has four parts: `SweepsSettle` (an expired session has at most three steps of the cleanup goroutine left, since a sweep that read the
time before the expiry is followed by one that did not), `RequestsSettle` and `LoginsSettle` (a request or login at the server only moves forward, by at
most four steps, whoever else moves), and `DrainingSettles` (a program told to end starts nothing new and keeps its deadline). Whoever holds the
sessions' mutex is at a step without a guard, which is part of `ServiceTypeOK`; only who holds `initMutex` may wait for the provider.

**ClientProofs.** `ClientInv` says with whose cookie each call in flight was sent (`CallsOK`): that of the user on the screen, or none, since a session may
end meanwhile. The calls of an earlier user went when his dashboard did (`NotMounted`). `AuthInv` follows `initialize`, `login` and `logout`
through their awaits, with whatever fails. The lemmas about filtered sequences need that a set of numbers has a least element, which the module takes from the well-foundedness of
the strict subset ordering (`Least`), as the induction theorems are not usable here. `AnswersSettleCorrect`: once every call in flight was made with
the filters, the site and the session of now (`MapAsked`, `PanelAsked`), this stays so while they do, and what is shown changes only
to their answer, unless a request fails. That the older calls land at some time is fairness, and stays with TLC.

Only model-checked:

- Liveness, which is outside the prover's reach, as is anything with `ENABLED`: `EventuallyFresh`, `EveryoneFinishes`, `DirectSitesConverge`,
  `EverythingSpreads`, `ExpiredSessionsRemoved`, `EmergencyAccess`, `LoginsGoOn`, `EndsAfterSignal`, `LocationsCatchUp`, `PanelCatchesUp` and the liveness half
  of `ImplementsScrapeCall`. What they rest on besides fairness is proved, as said above, except for `EverythingSpreads`: its measure runs
  along a path of the mesh, so the argument is an induction over the path's length.
- `MergeKeepsSettings`: documents are trees, so the merge and its reference are recursive, and induction over data is outside the prover's
  reach too. No theorem is about `ConfigMerge`; `Server` is written so that its theorems do not depend on it. (`Reaches` in `SiteMesh` is a recursive
  function that only liveness uses.)

## 6. Not modelled

- `/api/docs`, `/api/scrape-interval`, `/auth/user`, the probes, static files: read configuration, the cache or the session and format them.
- How a Prometheus answer is parsed, and how claims become a user name and groups: stateless conversions.
- The session cookie in the browser: its `MaxAge` is set at login and not at a refresh (`handlers/auth.go:127`), so a browser forgets
  a session in use; the model's browser does not. Responses that reach the browser late or in another order.
- A `session_timeout` of zero or less, which passes validation (`config.go:254`) and ends every session at once.
- A port that cannot be listened on; OIDC's protocol, signatures, TLS, certificates, logging, the chart: libraries, I/O, packaging.
- The counters of the metrics package that are only added to.
- Searching, sorting and grouping in the client's panel, and the sidebar's suggestions; values of one label key may arrive after another was
  selected and are then suggested for it (`Sidebar.js:215`).
- What the client does if the first request for the interval fails: nothing is refreshed again (`App.js:97`), so the liveness properties
  assume that it came. That a second click on a site closes its panel is not promised either: the click compares objects that
  every refresh replaces (`App.js:123`).

## 7. Plan

Done, in this order: the caches and index with proofs (1), the loops with proofs (2), the handlers (3), the locks (4), the
mesh (5), the pool with proofs (6), the metrics export (7), the sessions (8), the HTTP checks with proofs (9), roles and
`/api/labels` (10), the client (11), users' roles by name and group (12), clocks in the mesh (13), the configuration (14), logins (15), the
program's life, which composes sessions, logins and configuration, with proofs (16).

Next, extending the models:

1. The two client modules over `Sessions` instead of `cookie`: the `MaxAge` of the cookie, the expiry of the session, `/auth/user`.
2. The sidebar: suggestions that arrive after another key was selected (`Sidebar.js:215`), filters kept in local storage.
3. The reading of a Prometheus answer, over `ScrapePool` like `HTTPScrape`.

Done since, as proofs: the handlers (17), the locks and the absence of deadlocks (18), the mesh and its window (19), the metrics (20), the
client (21), and the whole program with its configuration (22).

And what liveness rests on, as action properties (23): settled sources in the loops and the mesh, the pool, the sessions, the requests,
logins and the end of the program, the client's answers, and the one deadlock of the locks.
