------------------------------ MODULE Scraping ------------------------------
(***************************************************************************)
(* scraping.Start: one goroutine per source that scrapes, stores the apps, *)
(* stores the locations and waits for the next tick, for ever.  The two    *)
(* stores are the steps of StatusCache; between them, and while a scrape   *)
(* is on its way, every other goroutine may run and the source may change. *)
(***************************************************************************)
EXTENDS StatusCache

CONSTANTS
  Answers,       \* [source] -> what the source can answer to a scrape
  LocalSources,  \* prometheus and http sources: all apps have one origin
  Unreachable    \* the scrape returns an error or nothing usable

Answer == [apps : Batches, locations : SUBSET Places]

\* Every app a local scraper returns is complete and carries host_url.
ASSUME AnswersAssumption ==
  /\ Answers \in [Sources -> SUBSET Answer]
  /\ LocalSources \subseteq Sources
  /\ \E o \in Origins : \A s \in LocalSources : \A w \in Answers[s] : \A i \in DOMAIN w.apps :
       Accepted(w.apps[i]) /\ normalizeOriginURL(w.apps[i].originURL) = o
  /\ Unreachable \notin Answer

VARIABLES
  world,    \* [source] -> what it would answer now, or Unreachable
  phase,    \* [source] -> where its goroutine is
  scraped   \* [source] -> result of its last finished scrape

scrapeVars == <<vars, world, phase, scraped>>

\* createUnavailableStatuses returns an empty list, and no locations go with it.
createUnavailableStatuses == <<>>
FailedScrape == [apps |-> createUnavailableStatuses, locations |-> {}]

ResultOf(w) == IF w = Unreachable THEN FailedScrape ELSE w

ScrapeInit ==
  /\ Init
  /\ world \in [Sources -> UNION {Answers[s] : s \in Sources} \cup {Unreachable}]
  /\ \A s \in Sources : world[s] \in Answers[s] \cup {Unreachable}
  /\ phase \in [Sources -> {"off", "scrape"}]   \* off: the source failed initialization
  /\ scraped = [s \in Sources |-> FailedScrape]

Goto(s, from, to) == phase[s] = from /\ phase' = [phase EXCEPT ![s] = to]

\* The monitored source changes, comes up or goes down.
WorldChanges(s) ==
  /\ \E w \in Answers[s] \cup {Unreachable} : world' = [world EXCEPT ![s] = w]
  /\ UNCHANGED <<vars, phase, scraped>>

Scrape(s) ==
  /\ Goto(s, "scrape", "apps")
  /\ scraped' = [scraped EXCEPT ![s] = ResultOf(world[s])]
  /\ UNCHANGED <<vars, world>>

StoreApps(s) ==
  /\ Goto(s, "apps", "locations")
  /\ UpdateAppStatus(s, scraped[s].apps)
  /\ UNCHANGED <<world, scraped>>

StoreLocations(s) ==
  /\ Goto(s, "locations", "wait")
  /\ UpdateLocationCache(s, scraped[s].locations)
  /\ UNCHANGED <<world, scraped>>

\* Mutant: the goroutine returns after a failed scrape.
NextTickAfterSuccess(s) ==
  /\ scraped[s] # FailedScrape
  /\ Goto(s, "wait", "scrape")
  /\ UNCHANGED <<vars, world, scraped>>

\* A tick of the source's ticker; a tick missed while scraping is dropped.
NextTick(s) ==
  /\ Goto(s, "wait", "scrape")
  /\ UNCHANGED <<vars, world, scraped>>

Goroutine(s) == Scrape(s) \/ StoreApps(s) \/ StoreLocations(s) \/ NextTick(s)

ScrapeNext == \E s \in Sources : WorldChanges(s) \/ Goroutine(s)

\* The ticker keeps ticking, a scrape has a timeout and a cache update only
\* computes, so a goroutine always takes its next step.
Fairness == \A s \in Sources : WF_scrapeVars(Goroutine(s))

ScrapeSafety == ScrapeInit /\ [][ScrapeNext]_scrapeVars
ScrapeSpec == ScrapeSafety /\ Fairness

------------------------------------------------------------------------------
(***************************************************************************)
(* Properties.                                                             *)
(***************************************************************************)

\* Type invariant of the goroutines, the type part of ScrapingProofs' invariant.
ScrapeTypeOK ==
  /\ TypeOK
  /\ \A s \in Sources : world[s] \in Answers[s] \cup {Unreachable}
  /\ phase \in [Sources -> {"off", "scrape", "apps", "locations", "wait"}]
  /\ \A s \in Sources : scraped[s] \in Answers[s] \cup {FailedScrape}

\* The cache serves result r of source s: each origin r mentions shows exactly
\* r's apps (an empty r shows none at all), and its own locations are left out.
ServesApps(s, r) ==
  /\ \A o \in OriginsOf(r.apps) : appStatusCache[o][s] = appsByOrigin(s, r.apps, o)
  /\ r.apps = <<>> => \A o \in Origins : appStatusCache[o][s] = {}
ServesLocations(s, r) == locationCache[s] = r.locations \ configuredLocations

\* Once a goroutine has stored its result it stays served, whatever the other
\* goroutines do, until the goroutine stores the next one; a source that
\* failed initialization never has anything cached.
ResultStaysServed ==
  \A s \in Sources :
    /\ phase[s] \in {"locations", "wait"} => ServesApps(s, scraped[s])
    /\ phase[s] = "wait" => ServesLocations(s, scraped[s])
    /\ phase[s] = "off" => /\ \A o \in Origins : appStatusCache[o][s] = {}
                           /\ locationCache[s] = {}

\* No cached app of source s is missing from the source's last stored result.
OnlyLatest(s) ==
  phase[s] \in {"locations", "wait"} =>
    \A o \in Origins : appStatusCache[o][s] \subseteq appsByOrigin(s, scraped[s].apps, o)

\* Sources with one origin never show an app they stopped reporting.
LocalSourcesShowLatest == \A s \in LocalSources : OnlyLatest(s)

\* If a source settles on an answer, or stays down, the cache ends up serving
\* that answer, or nothing, for good.
EventuallyFresh ==
  \A s \in Sources : \A w \in Answers[s] \cup {Unreachable} :
    <>[](phase[s] # "off" /\ world[s] = w)
      => <>[](ServesApps(s, ResultOf(w)) /\ ServesLocations(s, ResultOf(w)))
=============================================================================
