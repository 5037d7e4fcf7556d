----------------------------- MODULE HTTPScrape -----------------------------
(***************************************************************************)
(* Scrape of an http source: the worker pool of ScrapePool in which every  *)
(* goroutine checks its own app, against endpoints that answer differently *)
(* at every request.  With custom CA certificates every source of the      *)
(* server uses one TLS configuration, which checks write to.               *)
(***************************************************************************)
EXTENDS ScrapePool, HTTPChecks

CONSTANTS
  apps,      \* config.apps
  Endpoints  \* [app] -> what its endpoint may do with a request

ASSUME AppsAssumption ==
  /\ DOMAIN apps = Apps /\ ValidApps(apps)
  /\ ErrorStatus = "down"
  /\ \A i \in Apps : Endpoints[i] \subseteq EndpointAnswers \cup {Refused}

VARIABLES
  answered,  \* [app] -> what its endpoint did, or NoResult
  tlsConfig  \* the shared one, none without custom CAs: it verifies, or skips verification

scrapeVars == <<poolVars, answered, tlsConfig>>

HTTPInit ==
  /\ PoolInit /\ answered = [i \in Apps |-> NoResult]
  /\ tlsConfig \in {"none", "verifies", "skips"}   \* as earlier scrapes left it

\* The goroutine writes InsecureSkipVerify for its own app, before its request,
\* and nobody ever takes it back.
SkipVerify(i) ==
  /\ worker[i] = "check" /\ ~apps[i].sslVerify
  /\ tlsConfig = "verifies" /\ tlsConfig' = "skips"
  /\ UNCHANGED <<poolVars, answered>>

\* So may a check of another http source.
OtherSourceSkips ==
  /\ tlsConfig = "verifies" /\ tlsConfig' = "skips"
  /\ UNCHANGED <<poolVars, answered>>

\* Whether the handshake that now begins verifies the certificate.
Verifies(i) == IF tlsConfig = "none" THEN apps[i].sslVerify ELSE tlsConfig = "verifies"

\* Mutant: the goroutine uses the loop's app instead of its own.
CheckLoopApp(i) ==
  /\ apps[i].sslVerify \/ tlsConfig # "verifies"
  /\ Goto(i, "check", "store")
  /\ \E r \in Endpoints[i] :
       /\ answered' = [answered EXCEPT ![i] = r]
       /\ found' = [found EXCEPT ![i] = check(apps[IF next \in Apps THEN next ELSE NumApps], Verifies(i), r)]
  /\ UNCHANGED <<next, results, slots, unfinished, returned, tlsConfig>>

\* One request, and its verdict.
CheckApp(i) ==
  /\ apps[i].sslVerify \/ tlsConfig # "verifies"
  /\ Goto(i, "check", "store")
  /\ \E r \in Endpoints[i] :
       /\ answered' = [answered EXCEPT ![i] = r]
       /\ found' = [found EXCEPT ![i] = check(apps[i], Verifies(i), r)]
  /\ UNCHANGED <<next, results, slots, unfinished, returned, tlsConfig>>

HTTPGoroutine(i) ==
  \/ SkipVerify(i)
  \/ CheckApp(i)
  \/ (StoreResult(i) \/ Release(i) \/ Done(i)) /\ UNCHANGED <<answered, tlsConfig>>

HTTPLoop == (Acquire \/ Wait) /\ UNCHANGED <<answered, tlsConfig>>

HTTPNext == HTTPLoop \/ OtherSourceSkips \/ \E i \in Apps : HTTPGoroutine(i)

\* Other sources need not have an app that writes.
HTTPFairness == WF_scrapeVars(HTTPLoop) /\ \A i \in Apps : WF_scrapeVars(HTTPGoroutine(i))

HTTPSafety == HTTPInit /\ [][HTTPNext]_scrapeVars
HTTPSpec == HTTPSafety /\ HTTPFairness

------------------------------------------------------------------------------
(***************************************************************************)
(* Properties.  First what the documentation calls up, in its own terms.   *)
(***************************************************************************)

\* The codes that mean up (http.md:48-49): the allowed ones, 2XX if none are
\* given, without the blocked ones.
CodesOf(entries) == {c \in Codes : \E e \in entries : c = e.n \/ (e.class /\ c \div 100 = e.n)}
UpCodes(app) == CodesOf(IF app.allowed = NotSet THEN {Class(2)} ELSE app.allowed)
                  \ CodesOf(IF app.blocked = NotSet THEN {Class(4), Class(5)} ELSE app.blocked)

\* The final code: with redirects that are not followed it is the first's.
FinalCode(app, r) == IF app.followRedirects \/ r.redirects = 0 THEN r.code ELSE r.moved

\* What a condition asks of the answer; one without its operand is not met.
Matches(c) == {t \in Texts : t = c.text \/ (~c.caseSensitive /\ t.word = c.text.word)}
Met(c, app, r) ==
  CASE c.type = "status_code" -> FinalCode(app, r) = c.code
    [] c.type = "response_time" -> r.ms \in 0..c.maxMS /\ c.maxMS # 0
    [] c.type = "body_contains" -> c.text # NoText /\ Matches(c) \cap r.texts # {}
    [] c.type = "body_not_contains" -> c.text # NoText /\ Matches(c) \cap r.texts = {}
    [] c.type = "json_path" -> c.path # "" /\ c.expected # NotSet /\ r.json # "other"
    [] OTHER -> FALSE

LimitOf(app) == IF app.timeout = NotSet THEN scrapeTimeout ELSE app.timeout
MaxRedirectsOf(app) == IF app.maxRedirects = 0 THEN 10 ELSE app.maxRedirects

\* The app's own endpoint answered, within the limits, trusted where that is
\* asked, with a code that means up, and all of the app's conditions agree.
Healthy(app, r) ==
  /\ r # Refused
  /\ LimitOf(app) <= 0 \/ r.total <= LimitOf(app)
  /\ app.followRedirects => r.redirects <= MaxRedirectsOf(app)
  /\ app.sslVerify => r.trusted
  /\ FinalCode(app, r) \in UpCodes(app)
  /\ \A c \in app.success : Met(c, app, r)
  /\ \A c \in app.failure : ~Met(c, app, r)

\* Where the code departs from that.  It follows nine redirects, whatever
\* max_redirects says (http.md:46) ...
RedirectsDiffer(app, r) ==
  app.followRedirects /\ ~(r.redirects <= 9 <=> r.redirects <= MaxRedirectsOf(app))
\* ... and one app with ssl_verify: false turns verification off for all those
\* that share the TLS configuration (http.md:47).
VerificationOff(app, r) == app.sslVerify /\ ~r.trusted /\ tlsConfig = "skips"

\* What Scrape returns for an app follows from this app's own settings and its
\* own request, in whatever order the checks beside it run and whatever they
\* come to, with the two exceptions above.
StatusesJustified ==
  returned =>
    \A i \in Apps : LET r == answered[i] IN
      \/ results[i] = IF Healthy(apps[i], r) THEN "up" ELSE "down"
      \/ r # Refused /\ (RedirectsDiffer(apps[i], r) \/ VerificationOff(apps[i], r))
=============================================================================
