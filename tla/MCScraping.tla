----------------------------- MODULE MCScraping -----------------------------
(* Model values for Scraping: a local source and a site source that relays *)
(* apps of two origins, one of which is the local one.                     *)
EXTENDS Scraping

URL(h, sp) == [host |-> h, spelling |-> sp]
NoLabels == [k \in {} |-> ""]
env(v) == [k \in {"env"} |-> v]
R(n, st, u, lb) == [name |-> n, location |-> "x", status |-> st, originURL |-> u, labels |-> lb]

MCtruncated == [n \in {"long"} |-> "a"]
MCserverLabels == NoLabels
MCsourceLabels == [s \in Sources |-> IF s = "site" THEN env("prod") ELSE NoLabels]

A(batch, locs) == [apps |-> batch, locations |-> locs]
h1 == URL("h1", "normal")
h2 == URL("h2", "normal")

\* The local source reports two names that truncation makes one; the site
\* source an invalid status, another spelling of an origin, a name twice, an empty
\* label and a report the cache must skip, and leaves an origin out.
MCAnswers ==
  [s \in Sources |->
     IF s = "site"
     THEN {A(<<R("a", "up", URL("h1", "variant"), env("dev")), R("b", "up", h2, NoLabels)>>, {"x", "y"}),
           A(<<R("b", "bogus", h2, env("")), R("", "up", h1, NoLabels)>>, {"x"}),
           A(<<R("a", "down", h1, NoLabels), R("a", "up", URL("h1", "variant"), NoLabels)>>, {})}
     ELSE {A(<<R("a", "up", h1, NoLabels), R("long", "down", h1, env("dev"))>>, {}),
           A(<<R("a", "down", h1, NoLabels)>>, {})}]

MCReports == UNION {UNION {{w.apps[i] : i \in DOMAIN w.apps} : w \in MCAnswers[s]} : s \in Sources}
=============================================================================
