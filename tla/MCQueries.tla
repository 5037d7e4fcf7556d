----------------------------- MODULE MCQueries -----------------------------
(* Model values for Queries: a site source that relays two origins, or two *)
(* local sources, with one label.                                          *)
EXTENDS Queries

\* What RaceFreeFiltersSound rests on holds of these names.
ASSUME NamesTellApart == IdsTellApart

URL(h) == [host |-> h, spelling |-> "normal"]
NoLabels == [k \in {} |-> ""]
env(v) == [k \in {"env"} |-> v]
R(n, l, st, h, lb) == [name |-> n, location |-> l, status |-> st, originURL |-> URL(h), labels |-> lb]

MCtruncated == [n \in {} |-> ""]
\* An app of prom that has no label of its own has env=dev.
MCsourceLabels == [s \in Sources |-> IF s = "prom" THEN env("dev") ELSE NoLabels]

\* The same app name from two origins, another name, two statuses.
TwoOriginReports ==
  {R("a", "x", "up", "h1", env("prod")), R("a", "y", "down", "h2", NoLabels),
   R("b", "x", "down", "h1", env("dev"))}
\* What local sources report: one origin; the app changes status and label.
OneOriginReports ==
  {R("a", "x", "up", "h1", env("prod")), R("a", "x", "down", "h1", NoLabels)}

F(kd, ky) == [kind |-> kd, key |-> ky]
User(n, gs) == [name |-> n, groups |-> gs]
Q(anyOf, all, key, user) == [anyStatus |-> anyOf, all |-> all, labelKey |-> key, user |-> user]
NoField == [f \in {} |-> ""]

\* Both roles name env; "ghost" is not configured.  carol has roles of her own
\* and of her groups; the group "web" is not listed.
MCroles == [r \in {"tester", "developer"} |-> env(IF r = "tester" THEN "dev" ELSE "prod")]
MCusers == [n \in {"root", "carol"} |-> IF n = "root" THEN {"admin"} ELSE {"tester"}]
MCgroups == [g \in {"devs", "ops"} |-> IF g = "devs" THEN {"developer", "ghost"} ELSE {"admin", "tester"}]
MCQueries ==
  {Q({}, NoField, "", User("root", {})),
   Q({}, NoField, "env", User("carol", {"devs", "web"})),
   Q({}, [f \in {F("system", "status")} |-> "down"], "env", User("dave", {"ops"})),
   Q({}, [f \in {F("system", "source"), F("label", "env")} |-> IF f.kind = "label" THEN "prod" ELSE "site"],
     "", User("carol", {"web"})),
   Q({"down", "unavailable"}, [f \in {F("system", "name")} |-> "a"], "env", User("dave", {"devs"}))}
=============================================================================
