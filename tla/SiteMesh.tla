------------------------------ MODULE SiteMesh ------------------------------
(***************************************************************************)
(* Several servers that scrape each other's /sync: what one of them relays *)
(* of another, the rules that keep copies from coming back, and what loops *)
(* do.  An app is its name, a location is named after the server that owns *)
(* it, and all local sources of a server are one.  Servers know each other *)
(* by texts: an app carries the host_url of the server it comes from, and  *)
(* a site source has the url its operator wrote, which may be another name *)
(* of the same server.                                                     *)
(***************************************************************************)
EXTENDS Integers, FiniteSetsExt

CONSTANTS
  Sites,
  Scrapes,      \* pairs <<v, u>>: server v has a site source for u
  Apps,         \* names of apps
  Reports,      \* sets of apps that local sources may report at a time
  Reporters,    \* servers with local sources
  Owners,       \* servers with a configured location
  hostURL,      \* [server] -> its own host_url, the origin of its apps
  Spellings,    \* [scrape] -> the url configured for it, one for each mesh to check
  clock,        \* [server] -> how far its clock is ahead, in ticks
  Secured,      \* servers with a token, which all their scrapers know
  Second,       \* ticks of a second: the resolution of a request's timestamp
  Window,       \* ticks of the five minutes that clocks may be apart
  MaxDelay,     \* ticks from the timestamp to its validation, at most
  MaxCopies,    \* bound: more entries of a location than this are not counted
  MaxFailures   \* bound: failed requests

ASSUME MeshAssumption ==
  /\ Scrapes \subseteq {e \in Sites \X Sites : e[1] # e[2]}
  /\ \A o, w \in Sites : hostURL[o] = hostURL[w] => o = w
  /\ \A s \in Spellings, e \in Scrapes, o \in Sites : s[e] = hostURL[o] => e[2] = o
  /\ Reports \subseteq SUBSET Apps /\ Reporters \subseteq Sites /\ Owners \subseteq Sites
  /\ clock \in [Sites -> Nat] /\ Secured \subseteq Sites
  /\ Second \in Nat \ {0} /\ Window \in Nat \ {0} /\ MaxDelay \in Nat
  /\ MaxCopies \in Nat \ {0} /\ MaxFailures \in Nat

VARIABLES
  url,       \* [scrape] -> its configured url, read once at the start
  cached,    \* [server][source][origin] -> apps; source v of v is its local one
  copies,    \* [server][source][location] -> entries in the location cache
  response,  \* [scrape] -> what its goroutine has received and not yet stored
  failures   \* failed requests so far

meshVars == <<url, cached, copies, response, failures>>

NothingYet == [apps |-> {}, locations |-> [l \in Owners |-> 0], received |-> FALSE]

MeshInit ==
  /\ url \in Spellings
  /\ cached = [v \in Sites |-> [u \in Sites |-> [o \in Sites |-> {}]]]
  /\ copies = [v \in Sites |-> [u \in Sites |-> [l \in Owners |-> 0]]]
  /\ response = [e \in Scrapes |-> NothingYet]
  /\ failures = 0

\* A local source of v is scraped: its apps carry v's host_url as their origin.
LocalScrape(v) ==
  /\ v \in Reporters
  /\ \E apps \in Reports : cached' = [cached EXCEPT ![v][v][v] = apps]
  /\ UNCHANGED <<url, copies, response, failures>>

\* What v answers: every app and location it has cached, and its own location.
Served(v) == {x \in Sites \X Apps : \E u \in Sites : x[2] \in cached[v][u][x[1]]}
Listed(v) == [l \in Owners |-> MapThenSumSet(LAMBDA u : copies[v][u][l], Sites) + (IF l = v THEN 1 ELSE 0)]

\* The urls of v's site sources, as its configuration spells them.
ScrapedURLs(v) == {url[e] : e \in {f \in Scrapes : f[1] = v}}

\* Mutants: copies of directly scraped sites come back; only the scraped
\* site's own apps are kept.
KeptWithThirdParty(v, u, apps) == {x \in apps : hostURL[x[1]] # hostURL[v]}
KeptFromCurrentOnly(v, u, apps) == {x \in apps : hostURL[x[1]] = url[<<v, u>>]}

\* Circular scraping prevention: what v keeps of an answer of u.  An app is known
\* by its origin, the text its owner calls itself by, and compared with the urls.
Kept(v, u, apps) ==
  {x \in apps : LET origin == hostURL[x[1]] IN
     /\ origin \in ScrapedURLs(v) => origin = url[<<v, u>>]
     /\ origin # hostURL[v]}

\* Mutant: a timestamp from the future is not accepted.
ValidateTimestampPastOnly(timestamp, t) == timestamp > t - Window /\ timestamp <= t

ValidateTimestamp(timestamp, t) == timestamp > t - Window /\ timestamp < t + Window

\* Whether u answers v's request that was signed at some fraction of a second
\* and took some time to arrive.
Validates(v, u, fraction, delay) ==
  LET signed == 2 * Window * Second + fraction IN
  u \in Secured =>
    ValidateTimestamp(((signed + clock[v]) \div Second) * Second, signed + delay + clock[u])

\* v's goroutine for u gets an answer, or is told that it may not have one.
Scrape(v, u) ==
  /\ ~response[<<v, u>>].received
  /\ \E fraction \in 0..(Second - 1), delay \in 0..MaxDelay :
       response' = [response EXCEPT ![<<v, u>>] =
         IF Validates(v, u, fraction, delay)
         THEN [apps |-> Kept(v, u, Served(u)), locations |-> Listed(u), received |-> TRUE]
         ELSE [NothingYet EXCEPT !.received = TRUE]]
  /\ UNCHANGED <<url, cached, copies, failures>>

\* The request fails, or its answer cannot be used: nothing comes of it.
ScrapeFails(v, u) ==
  /\ ~response[<<v, u>>].received
  /\ failures < MaxFailures
  /\ failures' = failures + 1
  /\ response' = [response EXCEPT ![<<v, u>>] = [NothingYet EXCEPT !.received = TRUE]]
  /\ UNCHANGED <<url, cached, copies>>

Answered(v, u, o) == {x \in Apps : <<o, x>> \in response[<<v, u>>].apps}

\* UpdateLocationCache leaves the server's own location out.
StoreLocations(v, u) ==
  copies' = [copies EXCEPT ![v][u] =
    [l \in Owners |-> IF l = v THEN 0 ELSE Min({response[<<v, u>>].locations[l], MaxCopies})]]

\* UpdateAppStatus: an empty answer removes the source, and an origin a
\* non-empty one does not mention keeps its apps.
StoreApps(v, u) ==
  cached' = [cached EXCEPT ![v][u] =
    [o \in Sites |-> IF response[<<v, u>>].apps # {} /\ Answered(v, u, o) = {} THEN @[o]
                     ELSE Answered(v, u, o)]]

Store(v, u) ==
  /\ response[<<v, u>>].received
  /\ StoreApps(v, u) /\ StoreLocations(v, u)
  /\ response' = [response EXCEPT ![<<v, u>>] = NothingYet]
  /\ UNCHANGED <<url, failures>>

Goroutine(v, u) == Scrape(v, u) \/ ScrapeFails(v, u) \/ Store(v, u)

MeshNext == \/ \E v \in Sites : LocalScrape(v)
            \/ \E e \in Scrapes : Goroutine(e[1], e[2])

\* A goroutine scrapes at every tick and stores what it got.
MeshFairness == \A e \in Scrapes : WF_meshVars(Scrape(e[1], e[2]) \/ Store(e[1], e[2]))

MeshSpec == MeshInit /\ [][MeshNext]_meshVars /\ MeshFairness

------------------------------------------------------------------------------
(***************************************************************************)
(* Properties.                                                             *)
(***************************************************************************)

\* The site sources whose url is what the scraped server calls itself.
ByHostURL == {e \in Scrapes : url[e] = hostURL[e[2]]}

\* "Site scrapers drop apps from directly scraped sites" (data-structures.md:442):
\* whatever way round a loop an app takes, a server shows an app of its own, or
\* of a server it scrapes by its host_url, only as that server itself reports it.
\* Under another name of the server, the rule drops nothing.
NoStaleCopies ==
  \A v, u \in Sites : \A o \in Sites \ {u} :
    o = v \/ <<v, o>> \in ByHostURL => cached[v][u][o] = {}

\* "Allow 5-minute window for clock skew" (hmac.go:58): the scrapes between
\* servers whose clocks differ by less than the window, less the time a request
\* takes and the second its timestamp is cut to.
Tolerated == {e \in Scrapes : clock[e[1]] - clock[e[2]] < Window
                              /\ clock[e[2]] - clock[e[1]] + MaxDelay + Second <= Window}

\* A server that scrapes o directly, by its host_url, converges to what o reports,
\* in spite of failures, loops, clocks that differ and sources with other names,
\* once o settles on a non-empty set of apps.
DirectSitesConverge ==
  \A e \in Tolerated : \A apps \in Reports \ {{}} :
    <>[](e \in ByHostURL /\ cached[e[2]][e[2]][e[2]] = apps)
      => <>[](UNION {cached[e[1]][u][e[2]] : u \in Sites} = apps)

Reaches[n \in Nat, v \in Sites, o \in Sites] ==
  IF n = 0 THEN v = o ELSE \E u \in Sites : <<v, u>> \in Tolerated /\ Reaches[n - 1, u, o]
Sees(v, o) == \E n \in 0..(Cardinality(Sites) - 1) : Reaches[n, v, o]

\* Federation: an app that stays reported, and every location, ends up shown by
\* every server with a chain of site sources to it: no filter cuts a chain, as
\* long as nobody scrapes a server directly whose clock is out of the window.
EverythingSpreads ==
  Scrapes = Tolerated => \A v, o \in Sites : Sees(v, o) =>
    /\ \A a \in Apps : <>[](a \in cached[o][o][o]) => <>[](<<o, a>> \in Served(v))
    /\ o \in Owners => <>[](Listed(v)[o] > 0)

\* "You can safely chain or loop site sources; the system prevents infinite
\* recursion" (site.md:55): no answer lists a location more often than there are
\* servers it could have come through.
NoRecursion == \A v, u \in Sites : \A l \in Owners : copies[v][u][l] <= Cardinality(Sites)
=============================================================================
