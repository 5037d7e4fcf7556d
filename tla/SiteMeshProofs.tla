--------------------------- MODULE SiteMeshProofs ---------------------------
(***************************************************************************)
(* Proofs about SiteMesh, for any mesh of servers: no copy of an app comes *)
(* back to a server that owns it or scrapes its owner, and which clocks    *)
(* the five-minute window of /sync tolerates.                              *)
(***************************************************************************)
EXTENDS SiteMesh, TLAPS

(***************************************************************************)
(* The circular scraping rules, as one relation: v takes no app of o from  *)
(* u.  They are applied when the answer is received, so the answers that   *)
(* wait to be stored are part of the invariant.                            *)
(***************************************************************************)
ThirdParty(v, u, o) == o # u /\ (o = v \/ <<v, o>> \in ByHostURL)

Shaped ==
  /\ url \in Spellings
  /\ cached \in [Sites -> [Sites -> [Sites -> SUBSET Apps]]]
  /\ DOMAIN response = Scrapes
  /\ \A e \in Scrapes : response[e].apps \subseteq Sites \X Apps

NothingForeignCached ==
  \A v, u, o \in Sites : ThirdParty(v, u, o) => cached[v][u][o] = {}

NothingForeignReceived ==
  \A v, u, o \in Sites :
    <<v, u>> \in Scrapes /\ ThirdParty(v, u, o) => Answered(v, u, o) = {}

MeshInv == Shaped /\ NothingForeignCached /\ NothingForeignReceived

(* The urls are read once, so that what is foreign stays foreign.          *)
LEMMA SameUrls ==
  ASSUME url' = url
  PROVE  /\ ByHostURL' = ByHostURL
         /\ \A v, u, o : ThirdParty(v, u, o)' <=> ThirdParty(v, u, o)
BY DEF ByHostURL, ThirdParty

(* What the filter of u's answer lets through has no app of a third party. *)
LEMMA KeptIsOwn ==
  ASSUME MeshAssumption, url \in Spellings,
         NEW v \in Sites, NEW u \in Sites, <<v, u>> \in Scrapes, NEW apps \in SUBSET (Sites \X Apps)
  PROVE  /\ Kept(v, u, apps) \subseteq Sites \X Apps
         /\ \A o \in Sites : ThirdParty(v, u, o) => \A x \in Apps : <<o, x>> \notin Kept(v, u, apps)
<1>1. Kept(v, u, apps) \subseteq Sites \X Apps
  BY DEF Kept
<1>2. ASSUME NEW o \in Sites, ThirdParty(v, u, o), NEW x \in Apps PROVE <<o, x>> \notin Kept(v, u, apps)
  <2>1. CASE o = v
    BY <2>1 DEF Kept
  <2>2. CASE <<v, o>> \in ByHostURL
    <3>1. <<v, o>> \in Scrapes /\ url[<<v, o>>] = hostURL[o] /\ o # u
      BY <1>2, <2>2 DEF ByHostURL, ThirdParty
    <3>2. hostURL[o] \in ScrapedURLs(v)
      BY <3>1 DEF ScrapedURLs
    <3>3. hostURL[o] # url[<<v, u>>]
      BY <3>1 DEF MeshAssumption
    <3> QED BY <3>2, <3>3 DEF Kept
  <2> QED BY <1>2, <2>1, <2>2 DEF ThirdParty
<1> QED BY <1>1, <1>2

(* Copies of a server that is scraped under another name than its host_url *)
(* pass the filter, whoever relays them.                                   *)
THEOREM AliasesPass ==
  ASSUME MeshAssumption, url \in Spellings, NEW v \in Sites, NEW u \in Sites, NEW o \in Sites \ {v},
         <<v, o>> \in Scrapes \ ByHostURL, NEW x \in Apps, NEW apps, <<o, x>> \in apps
  PROVE  <<o, x>> \in Kept(v, u, apps)
<1>1. hostURL[o] \notin ScrapedURLs(v)
  <2> SUFFICES ASSUME NEW e \in Scrapes, e[1] = v, url[e] = hostURL[o] PROVE FALSE
    BY DEF ScrapedURLs
  <2>1. e[2] = o
    BY DEF MeshAssumption
  <2>2. e = <<v, o>>
    BY <2>1 DEF MeshAssumption
  <2> QED BY <2>2 DEF ByHostURL
<1>2. hostURL[o] # hostURL[v]
  BY DEF MeshAssumption
<1> QED BY <1>1, <1>2 DEF Kept

(* A server reports pairs of a server and an app.                          *)
LEMMA ServedIsAppPairs == ASSUME NEW u PROVE Served(u) \subseteq Sites \X Apps
BY DEF Served

(* A goroutine that puts r in its response, and nothing in the caches.     *)
LEMMA Receives ==
  ASSUME MeshAssumption, MeshInv, NEW v \in Sites, NEW u \in Sites, <<v, u>> \in Scrapes, NEW r,
         r.apps \subseteq Sites \X Apps,
         \A o \in Sites : ThirdParty(v, u, o) => \A x \in Apps : <<o, x>> \notin r.apps,
         response' = [response EXCEPT ![<<v, u>>] = r],
         url' = url, cached' = cached
  PROVE  MeshInv'
<1>1. \A e \in Scrapes : response'[e] = IF e = <<v, u>> THEN r ELSE response[e]
  BY DEF MeshInv, Shaped
<1>2. Shaped'
  BY <1>1 DEF MeshInv, Shaped
<1>3. NothingForeignCached'
  BY SameUrls DEF MeshInv, NothingForeignCached
<1>4. NothingForeignReceived'
  <2> SUFFICES ASSUME NEW w \in Sites, NEW t \in Sites, NEW o \in Sites,
                      <<w, t>> \in Scrapes, ThirdParty(w, t, o)
               PROVE  Answered(w, t, o)' = {}
    BY SameUrls DEF NothingForeignReceived
  <2>1. CASE <<w, t>> = <<v, u>>
    BY <2>1, <1>1 DEF Answered
  <2>2. CASE <<w, t>> # <<v, u>>
    BY <2>2, <1>1 DEF Answered, MeshInv, NothingForeignReceived
  <2> QED BY <2>1, <2>2
<1> QED BY <1>2, <1>3, <1>4 DEF MeshInv

(* A scrape of a local source: its apps carry v's own host_url.            *)
LEMMA LocalScrapePreserves ==
  ASSUME MeshAssumption, MeshInv, NEW v \in Sites, LocalScrape(v)
  PROVE  MeshInv'
<1> PICK apps \in SUBSET Apps : cached' = [cached EXCEPT ![v][v][v] = apps]
  BY DEF LocalScrape, MeshAssumption
<1>0. url' = url
  BY DEF LocalScrape
<1>1. \A w, t, o \in Sites :
        cached'[w][t][o] = IF w = v /\ t = v /\ o = v THEN apps ELSE cached[w][t][o]
  BY DEF MeshInv, Shaped
<1>2. Shaped'
  BY DEF MeshInv, Shaped, LocalScrape
<1>3. NothingForeignCached'
  <2>1. \A w, t, o \in Sites : ThirdParty(w, t, o) => ~(w = v /\ t = v /\ o = v)
    BY DEF ThirdParty
  <2> QED BY <1>0, <1>1, <2>1, SameUrls DEF MeshInv, NothingForeignCached
<1>4. NothingForeignReceived'
  <2>1. response' = response
    BY DEF LocalScrape
  <2> QED BY <1>0, <2>1, SameUrls DEF MeshInv, NothingForeignReceived, Answered
<1> QED BY <1>2, <1>3, <1>4 DEF MeshInv

(* What v has of u after it stored an answer of u.                         *)
LEMMA Stored ==
  ASSUME MeshInv, NEW v \in Sites, NEW u \in Sites, Store(v, u)
  PROVE  cached'[v][u] =
           [o \in Sites |-> IF response[<<v, u>>].apps # {} /\ Answered(v, u, o) = {} THEN cached[v][u][o]
                            ELSE Answered(v, u, o)]
BY DEF Store, StoreApps, MeshInv, Shaped

(* A stored answer leaves every third party's entry empty, whether the     *)
(* answer mentions the origin or the entry is kept.                        *)
LEMMA StorePreserves ==
  ASSUME MeshAssumption, MeshInv, NEW v \in Sites, NEW u \in Sites, <<v, u>> \in Scrapes, Store(v, u)
  PROVE  MeshInv'
<1>0. url' = url
  BY DEF Store
<1>1. cached' = [cached EXCEPT ![v][u] = cached'[v][u]]
  BY DEF Store, StoreApps, MeshInv, Shaped
<1>2. cached'[v][u] =
        [o \in Sites |-> IF response[<<v, u>>].apps # {} /\ Answered(v, u, o) = {} THEN cached[v][u][o]
                         ELSE Answered(v, u, o)]
  BY Stored
<1>3. cached'[v][u] \in [Sites -> SUBSET Apps]
  BY <1>2 DEF Answered, MeshInv, Shaped
<1>4. cached' \in [Sites -> [Sites -> [Sites -> SUBSET Apps]]]
  <2> DEFINE S == [Sites -> SUBSET Apps]
             new == cached'[v][u]
  <2>1. cached \in [Sites -> [Sites -> S]] /\ cached' = [cached EXCEPT ![v][u] = new] /\ new \in S
    BY <1>1, <1>3 DEF MeshInv, Shaped
  <2> HIDE DEF S, new
  <2>2. cached' \in [Sites -> [Sites -> S]]
    BY <2>1
  <2> QED BY <2>2 DEF S
<1>5. \A e \in Scrapes : response'[e] = IF e = <<v, u>> THEN NothingYet ELSE response[e]
  BY DEF Store, MeshInv, Shaped
<1>6. Shaped'
  BY <1>4, <1>5 DEF Shaped, Store, MeshInv, NothingYet
<1>7. NothingForeignReceived'
  <2> SUFFICES ASSUME NEW w \in Sites, NEW t \in Sites, NEW o \in Sites,
                      <<w, t>> \in Scrapes, ThirdParty(w, t, o)
               PROVE  Answered(w, t, o)' = {}
    BY <1>0, SameUrls DEF NothingForeignReceived
  <2>1. CASE <<w, t>> = <<v, u>>
    BY <2>1, <1>5 DEF Answered, NothingYet
  <2>2. CASE <<w, t>> # <<v, u>>
    BY <2>2, <1>5 DEF Answered, MeshInv, NothingForeignReceived
  <2> QED BY <2>1, <2>2
<1>8. \A w, t \in Sites : <<w, t>> # <<v, u>> => cached'[w][t] = cached[w][t]
  BY <1>1 DEF MeshInv, Shaped
<1>9. NothingForeignCached'
  <2> SUFFICES ASSUME NEW w \in Sites, NEW t \in Sites, NEW o \in Sites, ThirdParty(w, t, o)
               PROVE  cached'[w][t][o] = {}
    BY <1>0, SameUrls DEF NothingForeignCached
  <2>1. cached[w][t][o] = {}
    BY DEF MeshInv, NothingForeignCached
  <2>2. CASE w = v /\ t = u
    <3>1. Answered(v, u, o) = {}
      BY <2>2 DEF MeshInv, NothingForeignReceived
    <3> QED BY <1>2, <2>1, <2>2, <3>1
  <2>3. CASE ~(w = v /\ t = u)
    BY <1>8, <2>1, <2>3
  <2> QED BY <2>2, <2>3
<1> QED BY <1>6, <1>7, <1>9 DEF MeshInv

(* Nothing is cached or received in the beginning.                         *)
LEMMA MeshInvInit == MeshAssumption /\ MeshInit => MeshInv
BY DEF MeshAssumption, MeshInit, MeshInv, Shaped, NothingForeignCached, NothingForeignReceived,
       Answered, NothingYet

(* Every step of a server keeps the invariant.                             *)
LEMMA MeshInvNext ==
  ASSUME MeshAssumption, MeshInv, [MeshNext]_meshVars
  PROVE  MeshInv'
<1>1. CASE UNCHANGED meshVars
  <2>1. url' = url /\ cached' = cached /\ response' = response
    BY <1>1 DEF meshVars
  <2>2. Shaped' /\ NothingForeignCached'
    BY <2>1, SameUrls DEF MeshInv, Shaped, NothingForeignCached
  <2>3. NothingForeignReceived'
    BY <2>1, SameUrls DEF MeshInv, NothingForeignReceived, Answered
  <2> QED BY <2>2, <2>3 DEF MeshInv
<1>2. ASSUME NEW v \in Sites, LocalScrape(v) PROVE MeshInv'
  BY <1>2, LocalScrapePreserves
<1>3. ASSUME NEW v \in Sites, NEW u \in Sites, <<v, u>> \in Scrapes, Goroutine(v, u) PROVE MeshInv'
  <2>1. CASE Scrape(v, u)
    <3> DEFINE answer == [apps |-> Kept(v, u, Served(u)), locations |-> Listed(u),
                          received |-> TRUE]
               refusal == [NothingYet EXCEPT !.received = TRUE]
    <3>1. /\ \/ response' = [response EXCEPT ![<<v, u>>] = answer]
             \/ response' = [response EXCEPT ![<<v, u>>] = refusal]
          /\ url' = url /\ cached' = cached
      BY <2>1 DEF Scrape
    <3>2. /\ answer.apps \subseteq Sites \X Apps
          /\ \A o \in Sites : ThirdParty(v, u, o) => \A x \in Apps : <<o, x>> \notin answer.apps
      <4>1. url \in Spellings /\ <<v, u>> \in Scrapes
        BY <1>3 DEF MeshInv, Shaped
      <4>2. Served(u) \in SUBSET (Sites \X Apps)
        BY ServedIsAppPairs
      <4> QED BY <4>1, <4>2, KeptIsOwn
    <3>3. refusal.apps = {}
      BY DEF NothingYet
    <3> HIDE DEF answer, refusal
    <3>4. CASE response' = [response EXCEPT ![<<v, u>>] = answer]
      BY <1>3, <3>1, <3>2, <3>4, Receives
    <3>5. CASE response' = [response EXCEPT ![<<v, u>>] = refusal]
      BY <1>3, <3>1, <3>3, <3>5, Receives
    <3> QED BY <3>1, <3>4, <3>5
  <2>2. CASE ScrapeFails(v, u)
    <3> DEFINE failure == [NothingYet EXCEPT !.received = TRUE]
    <3>1. response' = [response EXCEPT ![<<v, u>>] = failure] /\ url' = url /\ cached' = cached
      BY <2>2 DEF ScrapeFails
    <3>2. failure.apps = {}
      BY DEF NothingYet
    <3> HIDE DEF failure
    <3> QED BY <1>3, <3>1, <3>2, Receives
  <2>3. CASE Store(v, u)
    BY <1>3, <2>3, StorePreserves
  <2> QED BY <1>3, <2>1, <2>2, <2>3 DEF Goroutine
<1>4. ASSUME NEW e \in Scrapes, Goroutine(e[1], e[2]) PROVE MeshInv'
  <2>1. e[1] \in Sites /\ e[2] \in Sites /\ <<e[1], e[2]>> \in Scrapes
    BY DEF MeshAssumption
  <2> QED BY <1>3, <1>4, <2>1
<1> QED BY <1>1, <1>2, <1>4 DEF MeshNext

(***************************************************************************)
(* NoStaleCopies, for any servers, site sources, clocks and failures:      *)
(* a server shows an app of its own, or of a server it scrapes, only as    *)
(* that server itself reports it (filterAppsBySource and its callers).     *)
(***************************************************************************)
THEOREM NoStaleCopiesCorrect == MeshSpec => []NoStaleCopies
<1>1. MeshInv => NoStaleCopies
  BY DEF MeshInv, NothingForeignCached, NoStaleCopies, ThirdParty
<1> QED BY MeshAssumption, MeshInvInit, MeshInvNext, <1>1, PTL DEF MeshSpec

-----------------------------------------------------------------------------
(* Cutting a time to whole seconds loses less than a second.               *)
LEMMA CutToSeconds ==
  ASSUME NEW x \in Nat, NEW d \in Nat \ {0}
  PROVE  /\ (x \div d) * d \in Nat
         /\ (x \div d) * d <= x
         /\ x < (x \div d) * d + d
BY SMT

(* What the server compares: the signer's clock, cut to a second, and its  *)
(* own clock when the request arrives.                                     *)
LEMMA SignedAt ==
  ASSUME MeshAssumption, NEW v \in Sites, NEW fraction \in Nat
  PROVE  /\ 2 * Window * Second + fraction \in Nat
         /\ 2 * Window * Second + fraction + clock[v] \in Nat
         /\ clock[v] \in Nat
<1>1. Window * Second \in Nat
  BY DEF MeshAssumption
<1>2. clock[v] \in Nat
  BY DEF MeshAssumption
<1> QED BY <1>1, <1>2 DEF MeshAssumption

(***************************************************************************)
(* The window of ValidateTimestamp (hmac.go) tolerates every pair of       *)
(* servers whose clocks differ by less than it, less the time a request    *)
(* takes and the second its timestamp is cut to: none of their requests is *)
(* refused, whatever the fraction of the second and the delay.             *)
(***************************************************************************)
THEOREM ToleratedScrapesValidate ==
  \A e \in Tolerated : \A fraction \in 0..(Second - 1), delay \in 0..MaxDelay :
    Validates(e[1], e[2], fraction, delay)
<1> SUFFICES ASSUME NEW e \in Tolerated, NEW fraction \in 0..(Second - 1), NEW delay \in 0..MaxDelay
             PROVE  Validates(e[1], e[2], fraction, delay)
  OBVIOUS
<1> DEFINE signed == 2 * Window * Second + fraction
           sent == signed + clock[e[1]]
           timestamp == (sent \div Second) * Second
<1>1. e[1] \in Sites /\ e[2] \in Sites
  BY MeshAssumption DEF MeshAssumption, Tolerated
<1>2. /\ clock[e[1]] - clock[e[2]] < Window
      /\ clock[e[2]] - clock[e[1]] + MaxDelay + Second <= Window
  BY DEF Tolerated
<1>3. fraction \in Nat /\ delay \in Nat /\ delay <= MaxDelay
  BY MeshAssumption DEF MeshAssumption
<1>4. signed \in Nat /\ sent \in Nat /\ clock[e[1]] \in Nat /\ clock[e[2]] \in Nat
  BY <1>1, <1>3, SignedAt, MeshAssumption
<1>5. timestamp \in Nat /\ timestamp <= sent /\ sent < timestamp + Second
  BY <1>4, CutToSeconds, MeshAssumption DEF MeshAssumption
<1>6. sent = signed + clock[e[1]]
  OBVIOUS
<1>7. Second \in Nat /\ Window \in Nat /\ MaxDelay \in Nat
  BY MeshAssumption DEF MeshAssumption
<1>8. ValidateTimestamp(timestamp, signed + delay + clock[e[2]])
  <2> HIDE DEF signed, sent, timestamp
  <2> QED BY <1>2, <1>3, <1>4, <1>5, <1>6, <1>7 DEF ValidateTimestamp
<1> QED BY <1>8 DEF Validates

(***************************************************************************)
(* And no further: a server with a token refuses every request of one      *)
(* whose clock is behind its own by the window or more, or ahead of it by  *)
(* the window, the delay and a second.                                     *)
(***************************************************************************)
THEOREM OutsideWindowRefused ==
  \A v \in Sites, u \in Secured : \A fraction \in 0..(Second - 1), delay \in 0..MaxDelay :
    (clock[u] - clock[v] >= Window \/ clock[v] - clock[u] >= Window + MaxDelay + Second)
      => ~Validates(v, u, fraction, delay)
<1> SUFFICES ASSUME NEW v \in Sites, NEW u \in Secured,
                    NEW fraction \in 0..(Second - 1), NEW delay \in 0..MaxDelay,
                    clock[u] - clock[v] >= Window \/ clock[v] - clock[u] >= Window + MaxDelay + Second
             PROVE  ~Validates(v, u, fraction, delay)
  OBVIOUS
<1> DEFINE signed == 2 * Window * Second + fraction
           sent == signed + clock[v]
           timestamp == (sent \div Second) * Second
<1>1. u \in Sites
  BY MeshAssumption DEF MeshAssumption
<1>2. fraction \in Nat /\ delay \in Nat /\ delay <= MaxDelay
  BY MeshAssumption DEF MeshAssumption
<1>3. signed \in Nat /\ sent \in Nat /\ clock[u] \in Nat /\ clock[v] \in Nat
  BY <1>1, <1>2, SignedAt, MeshAssumption
<1>4. timestamp \in Nat /\ timestamp <= sent /\ sent < timestamp + Second
  BY <1>3, CutToSeconds, MeshAssumption DEF MeshAssumption
<1>5. sent = signed + clock[v]
  OBVIOUS
<1>6. Second \in Nat /\ Window \in Nat /\ MaxDelay \in Nat
  BY MeshAssumption DEF MeshAssumption
<1>7. ~ValidateTimestamp(timestamp, signed + delay + clock[u])
  <2> HIDE DEF signed, sent, timestamp
  <2> QED BY <1>2, <1>3, <1>4, <1>5, <1>6 DEF ValidateTimestamp
<1> QED BY <1>7 DEF Validates

-----------------------------------------------------------------------------
(***************************************************************************)
(* How far a server is behind one it scrapes.  It is settled when it shows *)
(* what that server itself reports and its goroutine brings nothing else;  *)
(* before that come at most the store of what was received earlier, the    *)
(* scrape, and the store of its answer.                                    *)
(***************************************************************************)
Own(u) == cached[u][u][u]
Shown(v, o) == UNION {cached[v][u][o] : u \in Sites}
Current(e) == Answered(e[1], e[2], e[2]) = Own(e[2])

Settled(e) ==
  /\ Shown(e[1], e[2]) = Own(e[2])
  /\ response[e].received => Current(e)

StepsToSettle(e) ==
  IF Settled(e) THEN 0 ELSE IF ~response[e].received THEN 2 ELSE IF Current(e) THEN 1 ELSE 3

(* Nobody else's answer shows in what v shows of a server it scrapes, or   *)
(* u of itself.                                                            *)
LEMMA ShownIsDirect ==
  ASSUME MeshAssumption, MeshInv, MeshInv', url' = url, NEW e \in ByHostURL
  PROVE  /\ Shown(e[1], e[2]) = cached[e[1]][e[2]][e[2]]
         /\ Shown(e[1], e[2])' = cached'[e[1]][e[2]][e[2]]
<1>1. e[1] \in Sites /\ e[2] \in Sites /\ <<e[1], e[2]>> \in ByHostURL
  BY DEF MeshAssumption, ByHostURL
<1>2. \A w \in Sites : w # e[2] => cached[e[1]][w][e[2]] = {} /\ cached'[e[1]][w][e[2]] = {}
  <2>1. \A w \in Sites : w # e[2] => ThirdParty(e[1], w, e[2])
    BY <1>1 DEF ThirdParty
  <2> QED BY <1>1, <2>1, SameUrls DEF MeshInv, NothingForeignCached
<1>3. Shown(e[1], e[2]) = cached[e[1]][e[2]][e[2]]
  BY <1>1, <1>2 DEF Shown
<1>4. Shown(e[1], e[2])' = cached'[e[1]][e[2]][e[2]]
  BY <1>1, <1>2 DEF Shown
<1> QED BY <1>3, <1>4

LEMMA AnswerIsOwn ==
  ASSUME MeshAssumption, MeshInv, NEW e \in Scrapes
  PROVE  {x \in Apps : <<e[2], x>> \in Kept(e[1], e[2], Served(e[2]))} = Own(e[2])
<1>1. e[1] \in Sites /\ e[2] \in Sites /\ e[1] # e[2]
  BY DEF MeshAssumption
<1>2. \A w \in Sites : w # e[2] => cached[e[2]][w][e[2]] = {}
  BY <1>1 DEF MeshInv, NothingForeignCached, ThirdParty
<1>3. \A x \in Apps : <<e[2], x>> \in Served(e[2]) <=> x \in Own(e[2])
  BY <1>1, <1>2 DEF Served, Own
<1>4. \A x \in Apps : <<e[2], x>> \in Kept(e[1], e[2], Served(e[2])) <=> <<e[2], x>> \in Served(e[2])
  <2>1. hostURL[e[2]] # hostURL[e[1]]
    BY <1>1 DEF MeshAssumption
  <2>2. ASSUME hostURL[e[2]] \in ScrapedURLs(e[1]) PROVE hostURL[e[2]] = url[<<e[1], e[2]>>]
    <3>1. PICK f \in Scrapes : f[1] = e[1] /\ url[f] = hostURL[e[2]]
      BY <2>2 DEF ScrapedURLs
    <3>2. f[2] = e[2]
      BY <1>1, <3>1 DEF MeshAssumption, MeshInv, Shaped
    <3>3. f = <<e[1], e[2]>>
      BY <3>1, <3>2 DEF MeshAssumption
    <3> QED BY <3>1, <3>3
  <2> QED BY <2>1, <2>2 DEF Kept
<1>5. Own(e[2]) \subseteq Apps
  BY <1>1 DEF Own, MeshInv, Shaped
<1> QED BY <1>3, <1>4, <1>5

(* Steps that are not of this goroutine.                                   *)
LEMMA SettledAlone ==
  ASSUME MeshAssumption, MeshInv, MeshInv', url' = url, NEW e \in ByHostURL, response'[e] = response[e],
         cached'[e[1]][e[2]] = cached[e[1]][e[2]], Own(e[2])' = Own(e[2])
  PROVE  /\ Settled(e)' <=> Settled(e)
         /\ StepsToSettle(e)' = StepsToSettle(e)
<1>1. Shown(e[1], e[2])' = Shown(e[1], e[2])
  BY ShownIsDirect
<1>2. Current(e)' <=> Current(e)
  <2>1. <<e[1], e[2]>> = e
    BY DEF MeshAssumption, ByHostURL
  <2> QED BY <2>1 DEF Current, Answered
<1>3. Settled(e)' <=> Settled(e)
  BY <1>1, <1>2 DEF Settled
<1> QED BY <1>2, <1>3 DEF StepsToSettle

(* The goroutine of e gets a full answer, as it may: its clocks are close. *)
LEMMA ScrapeSettles ==
  ASSUME MeshAssumption, MeshInv, MeshInv', NEW e \in Tolerated, Scrape(e[1], e[2])
  PROVE  /\ Settled(e) => Settled(e)'
         /\ ~Settled(e) => StepsToSettle(e) = 2 /\ StepsToSettle(e)' \in {0, 1}
<1>1. e \in Scrapes /\ <<e[1], e[2]>> = e
  BY DEF MeshAssumption, Tolerated
<1>2. PICK fraction \in 0..(Second - 1), delay \in 0..MaxDelay :
        response' = [response EXCEPT ![<<e[1], e[2]>>] =
          IF Validates(e[1], e[2], fraction, delay)
          THEN [apps |-> Kept(e[1], e[2], Served(e[2])), locations |-> Listed(e[2]), received |-> TRUE]
          ELSE [NothingYet EXCEPT !.received = TRUE]]
  BY DEF Scrape
<1>3. Validates(e[1], e[2], fraction, delay)
  BY ToleratedScrapesValidate
<1>4. response'[e].apps = Kept(e[1], e[2], Served(e[2])) /\ response'[e].received
  BY <1>1, <1>2, <1>3 DEF MeshInv, Shaped
<1>5. ~response[e].received /\ UNCHANGED cached
  BY <1>1 DEF Scrape
<1>6. Current(e)'
  <2>1. Answered(e[1], e[2], e[2])' = {x \in Apps : <<e[2], x>> \in Kept(e[1], e[2], Served(e[2]))}
    BY <1>1, <1>4 DEF Answered
  <2>2. Own(e[2])' = Own(e[2])
    BY <1>5 DEF Own
  <2> QED BY <1>1, <2>1, <2>2, AnswerIsOwn DEF Current
<1>7. Settled(e)' <=> Settled(e)
  <2>1. Shown(e[1], e[2])' = Shown(e[1], e[2]) /\ Own(e[2])' = Own(e[2])
    BY <1>5 DEF Shown, Own
  <2> QED BY <1>4, <1>5, <1>6, <2>1 DEF Settled
<1>8. ~Settled(e) => StepsToSettle(e) = 2 /\ StepsToSettle(e)' = 1
  BY <1>4, <1>5, <1>6, <1>7 DEF StepsToSettle
<1> QED BY <1>7, <1>8

(* What it got replaces what it had, if the server reports anything.       *)
LEMMA StoreSettles ==
  ASSUME MeshAssumption, MeshInv, MeshInv', NEW e \in ByHostURL, Store(e[1], e[2]),
         Own(e[2]) # {}, Own(e[2])' = Own(e[2])
  PROVE  /\ Current(e) => Settled(e)'
         /\ ~Current(e) => ~Settled(e) /\ StepsToSettle(e) = 3 /\ StepsToSettle(e)' \in {0, 2}
<1>1. <<e[1], e[2]>> = e /\ e[1] \in Sites /\ e[2] \in Sites /\ e \in Scrapes
  BY DEF MeshAssumption, ByHostURL
<1>0. url' = url
  BY DEF Store
<1>2. response[e].received /\ ~response'[e].received
  BY <1>1 DEF Store, NothingYet, MeshInv, Shaped
<1>3. ASSUME Current(e) PROVE Settled(e)'
  <2>1. Answered(e[1], e[2], e[2]) = Own(e[2])
    BY <1>3 DEF Current
  <2>2. cached'[e[1]][e[2]] =
          [o \in Sites |-> IF response[<<e[1], e[2]>>].apps # {} /\ Answered(e[1], e[2], o) = {}
                           THEN cached[e[1]][e[2]][o] ELSE Answered(e[1], e[2], o)]
    BY <1>1, Stored
  <2>3. cached'[e[1]][e[2]][e[2]] = Own(e[2])
    BY <1>1, <2>1, <2>2
  <2>4. Shown(e[1], e[2])' = Own(e[2])
    BY <1>0, <2>3, ShownIsDirect
  <2> QED BY <1>2, <2>4 DEF Settled
<1>4. ASSUME ~Current(e) PROVE ~Settled(e) /\ StepsToSettle(e) = 3
  BY <1>2, <1>4 DEF Settled, StepsToSettle
<1>5. StepsToSettle(e)' \in {0, 2}
  BY <1>2 DEF StepsToSettle
<1> QED BY <1>3, <1>4, <1>5

(* While a server keeps reporting the same, and no request fails.          *)
MeshSettles ==
  \A e \in Tolerated \cap ByHostURL : Own(e[2]) # {} /\ Own(e[2])' = Own(e[2]) /\ failures' = failures =>
    /\ Settled(e) => Settled(e)'
    /\ response'[e].received = response[e].received => StepsToSettle(e)' = StepsToSettle(e)
    /\ response'[e].received # response[e].received =>
         (Settled(e) /\ Settled(e)') \/ StepsToSettle(e)' < StepsToSettle(e)

LEMMA MeshStepSettles ==
  ASSUME MeshAssumption, MeshInv, MeshInv', failures \in Nat, [MeshNext]_meshVars,
         NEW e \in Tolerated \cap ByHostURL,
         Own(e[2]) # {}, Own(e[2])' = Own(e[2]), failures' = failures
  PROVE  /\ Settled(e) => Settled(e)'
         /\ response'[e].received = response[e].received => StepsToSettle(e)' = StepsToSettle(e)
         /\ response'[e].received # response[e].received =>
              (Settled(e) /\ Settled(e)') \/ StepsToSettle(e)' < StepsToSettle(e)
<1>1. e \in Scrapes /\ <<e[1], e[2]>> = e /\ e[1] \in Sites /\ e[2] \in Sites /\ e[1] # e[2]
  BY DEF MeshAssumption, Tolerated
<1>0. url' = url
  <2>1. CASE UNCHANGED meshVars
    BY <2>1 DEF meshVars
  <2>2. ASSUME NEW v \in Sites, LocalScrape(v) PROVE url' = url
    BY <2>2 DEF LocalScrape
  <2>3. ASSUME NEW f \in Scrapes, Goroutine(f[1], f[2]) PROVE url' = url
    <3>1. Scrape(f[1], f[2]) => url' = url
      BY DEF Scrape
    <3>2. ScrapeFails(f[1], f[2]) => url' = url
      BY DEF ScrapeFails
    <3>3. Store(f[1], f[2]) => url' = url
      BY DEF Store
    <3> QED BY <2>3, <3>1, <3>2, <3>3 DEF Goroutine
  <2> QED BY <2>1, <2>2, <2>3 DEF MeshNext
<1>2. ASSUME response'[e] = response[e], cached'[e[1]][e[2]] = cached[e[1]][e[2]]
      PROVE  /\ Settled(e)' <=> Settled(e)
             /\ StepsToSettle(e)' = StepsToSettle(e)
             /\ response'[e].received = response[e].received
  BY <1>0, <1>1, <1>2, SettledAlone
<1>3. CASE UNCHANGED meshVars
  BY <1>2, <1>3 DEF meshVars
<1>4. ASSUME NEW v \in Sites, LocalScrape(v)
      PROVE  response'[e] = response[e] /\ cached'[e[1]][e[2]] = cached[e[1]][e[2]]
  BY <1>1, <1>4 DEF LocalScrape, MeshInv, Shaped
<1>5. ASSUME NEW f \in Scrapes, Goroutine(f[1], f[2]), f # e
      PROVE  response'[e] = response[e] /\ cached'[e[1]][e[2]] = cached[e[1]][e[2]]
  <2>1. <<f[1], f[2]>> = f /\ f[1] \in Sites /\ f[2] \in Sites
    BY DEF MeshAssumption
  <2>2. ~(f[1] = e[1] /\ f[2] = e[2])
    BY <1>1, <1>5, <2>1
  <2>3. CASE Scrape(f[1], f[2])
    BY <1>1, <1>5, <2>1, <2>3 DEF Scrape, MeshInv, Shaped
  <2>4. CASE ScrapeFails(f[1], f[2])
    BY <1>1, <1>5, <2>1, <2>4 DEF ScrapeFails, MeshInv, Shaped
  <2>5. CASE Store(f[1], f[2])
    <3>1. response'[e] = response[e]
      BY <1>1, <1>5, <2>1, <2>5 DEF Store, MeshInv, Shaped
    <3>2. cached'[e[1]][e[2]] = cached[e[1]][e[2]]
      BY <1>1, <2>1, <2>2, <2>5 DEF Store, StoreApps, MeshInv, Shaped
    <3> QED BY <3>1, <3>2
  <2> QED BY <1>5, <2>3, <2>4, <2>5 DEF Goroutine
<1>6. CASE Scrape(e[1], e[2])
  <2>1. response'[e].received # response[e].received
    <3>1. ~response[e].received
      BY <1>1, <1>6 DEF Scrape
    <3>2. response'[e].received
      BY <1>1, <1>6 DEF Scrape, MeshInv, Shaped, NothingYet
    <3> QED BY <3>1, <3>2
  <2>2. /\ Settled(e) => Settled(e)'
        /\ ~Settled(e) => StepsToSettle(e) = 2 /\ StepsToSettle(e)' \in {0, 1}
    BY <1>6, ScrapeSettles
  <2> QED BY <2>1, <2>2
<1>7. CASE Store(e[1], e[2])
  <2>1. response[e].received /\ response'[e].received = FALSE
    BY <1>1, <1>7 DEF Store, NothingYet, MeshInv, Shaped
  <2>2. /\ Current(e) => Settled(e)'
        /\ ~Current(e) => ~Settled(e) /\ StepsToSettle(e) = 3 /\ StepsToSettle(e)' \in {0, 2}
    BY <1>1, <1>7, StoreSettles
  <2>3. response'[e].received # response[e].received
    BY <2>1
  <2>4. CASE Settled(e)
    <3>1. Settled(e)'
      BY <2>2, <2>4
    <3> QED BY <2>3, <2>4, <3>1
  <2>5. CASE ~Settled(e) /\ Current(e)
    <3>1. StepsToSettle(e) = 1 /\ StepsToSettle(e)' = 0
      BY <2>1, <2>2, <2>5 DEF StepsToSettle
    <3>2. StepsToSettle(e)' < StepsToSettle(e)
      BY <3>1
    <3> QED BY <2>3, <2>5, <3>2
  <2>6. CASE ~Settled(e) /\ ~Current(e)
    <3>1. StepsToSettle(e)' < StepsToSettle(e)
      BY <2>2, <2>6
    <3> QED BY <2>3, <2>6, <3>1
  <2> QED BY <2>4, <2>5, <2>6
<1>8. CASE ScrapeFails(e[1], e[2])
  <2>1. failures' = failures + 1
    BY <1>8 DEF ScrapeFails
  <2> QED BY <2>1
<1>9. CASE \E f \in Scrapes : f # e /\ Goroutine(f[1], f[2])
  BY <1>2, <1>5, <1>9
<1>10. CASE \E v \in Sites : LocalScrape(v)
  BY <1>2, <1>4, <1>10
<1> QED BY <1>3, <1>6, <1>7, <1>8, <1>9, <1>10 DEF MeshNext, Goroutine

(***************************************************************************)
(* DirectSitesConverge without its fairness, for any mesh: while a server  *)
(* reports the same apps, every server that scrapes it by its host_url and *)
(* whose clock is close enough gets closer to showing just these with each *)
(* step of its goroutine, is there after three, and stays, whatever the    *)
(* other servers and the loops between them do.                            *)
(***************************************************************************)
THEOREM DirectSitesSettle == MeshSpec => [][MeshSettles]_meshVars
<1>1. MeshAssumption /\ MeshInv /\ failures \in Nat /\ [MeshNext]_meshVars => [MeshSettles]_meshVars
  BY MeshInvNext, MeshStepSettles DEF MeshSettles
<1>2. MeshInit => failures \in Nat
  BY DEF MeshInit
<1>3. failures \in Nat /\ [MeshNext]_meshVars => (failures \in Nat)'
  <2>1. \A v : LocalScrape(v) => failures' = failures
    BY DEF LocalScrape
  <2>2. \A v, u : Goroutine(v, u) => failures' \in {failures, failures + 1}
    <3>1. \A v, u : Scrape(v, u) => failures' = failures
      BY DEF Scrape
    <3>2. \A v, u : ScrapeFails(v, u) => failures' = failures + 1
      BY DEF ScrapeFails
    <3>3. \A v, u : Store(v, u) => failures' = failures
      BY DEF Store
    <3> QED BY <3>1, <3>2, <3>3 DEF Goroutine
  <2> QED BY <2>1, <2>2 DEF MeshNext, meshVars
<1> QED BY <1>1, <1>2, <1>3, MeshAssumption, MeshInvInit, MeshInvNext, PTL DEF MeshSpec
=============================================================================
