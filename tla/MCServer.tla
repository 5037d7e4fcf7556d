------------------------------ MODULE MCServer ------------------------------
(* Tabs, requests, workloads, and configuration and credentials files for Server. *)
EXTENDS ServerFiles

CONSTANTS t1, t2, r1, r2, s1, s2, five

MCWorkloads ==
  LET Work(m, ts, rs, n, ends, until, a) ==
        [methods |-> m, tabs |-> ts, requests |-> rs, logins |-> n, ends |-> ends, until |-> until,
         answers |-> a]
  IN  {Work({}, {}, {}, 0, 0, 1, FALSE),
       Work({"local"}, {t1}, {r1, r2}, 1, 0, 5, FALSE),
       Work({"oidc"}, {t1}, {r1}, 1, 2, 4, TRUE),
       Work({"local", "oidc"}, {t1, t2}, {}, 2, 2, 1, TRUE),
       Work({"local", "oidc"}, {t1, t2}, {}, 2, 1, 1, FALSE)}

T(t) == Text(t)
Map(f) == MapOf(f)
On(f) == Map(("enabled" :> T("true")) @@ f)
Opt(k, v) == IF v = Null THEN [x \in {} |-> Null] ELSE k :> v

\* The parts of the configuration file; credentials may be in either file.
LocalAdmins == {Null, On("username" :> T("admin")), On("username" :> T("admin") @@ "password" :> T("old"))}
Client == "issuer" :> T("https://idp") @@ "clientID" :> T("site")
OIDCs == {Null, On("config" :> Map(Client)),
          On("config" :> Map(Client @@ "clientSecret" :> T(" ") @@ "groupScope" :> T(" "))),
          On("config" :> Map("issuer" :> T("https://idp:port") @@ "clientID" :> T("site") @@ "clientSecret" :> T("sec")))}
MetricsAuths == {Null, On("type" :> T("bearer")),
                 On("type" :> T("basic") @@ "username" :> T("a:b") @@ "password" :> T("pw")),
                 On("type" :> T("basic") @@ "username" :> T("scraper") @@ "password" :> T(" "))}

Source(n, f) == Map("name" :> T(n) @@ "type" :> T("http") @@ f)
Secret(n, t) == Map("name" :> T(n) @@ "config" :> Map("token" :> T(t)))
Apps == ListOf(<<Map("name" :> T("app"))>>)
SourceLists == {Null,
  ListOf(<<Source("a", "config" :> Map("apps" :> Apps)), Source("b", "labels" :> Map("tier" :> T("web")))>>),
  ListOf(<<Source("a", "config" :> Map("token" :> T("old"))), Source("a", "labels" :> Map("tier" :> T("db")))>>),
  ListOf(<<Source("b", "labels" :> Map("tier" :> T("a=b"))), Map("type" :> T("http"))>>)}

Place(lat) == Map("name" :> T("here") @@ "latitude" :> T(lat) @@ "longitude" :> T("0"))
Doc(admin, oidc, metrics, sources, url, places) ==
  "server_settings" :> Map("host_url" :> T(url) @@ "session_timeout" :> T("12h") @@
       Opt("local_admin", admin) @@ Opt("oidc", oidc) @@ Opt("metrics_auth", metrics))
  @@ "locations" :> ListOf(places) @@ Opt("sources", sources)

MCBases ==
  {Doc(a, o, m, s, "https://here", <<Place("0")>>) :
     a \in LocalAdmins, o \in OIDCs, m \in MetricsAuths, s \in SourceLists}
  \cup {Doc(Null, Null, Null, Null, url, <<Place(lat)>>) :
          url \in {"", "here", "https://here"}, lat \in {"0", "out of range"}}
  \cup {[k \in {} |-> Null], "server_settings" :> Map(five :> T("x")) @@ "locations" :> T("here")}

\* The credentials file.
Server(f) == "server_settings" :> Map(f)
MCOverlays ==
  {Server("local_admin" :> Map("password" :> T("pw")) @@ "metrics_auth" :> Map("token" :> T("tok"))
          @@ "oidc" :> Map("config" :> Map("clientSecret" :> T("sec"))))
     @@ "sources" :> ListOf(<<Secret("b", "tok"), Secret("a", "tok"), Source("c", "labels" :> Null)>>),
   Server("local_admin" :> Map("password" :> T(" "))) @@ "sources" :> ListOf(<<Source("a", "config" :> Null)>>),
   Server("session_timeout" :> T("soon")),
   "server_settings" :> Null,
   "sources" :> ListOf(<<Secret("a", "tok"), Secret("a", "late"), Map("type" :> T("http"))>>),
   "sources" :> ListOf(<<T("a")>>),
   [k \in {} |-> Null]}

MCConfigFiles ==
  {[base |-> Map(b), overlay |-> o] : b \in MCBases, o \in {Null} \cup {Map(o) : o \in MCOverlays}}
=============================================================================
