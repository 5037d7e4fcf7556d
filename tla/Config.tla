------------------------------- MODULE Config -------------------------------
(***************************************************************************)
(* What the program makes of the merged document: the settings it reads    *)
(* from it, which of them it refuses to start with, the defaults it adds,  *)
(* and what the parts that use the settings ask of them later.             *)
(***************************************************************************)
EXTENDS Documents, Integers, Sequences

CONSTANTS
  HostURLs,   \* texts that are, trimmed, an http or https URL with a host
  Durations,  \* texts that time.ParseDuration accepts
  Unusable,   \* texts that are too long or have a reserved character, as labels
  Colons,     \* texts with a colon in them
  Unparsable  \* texts that url.Parse rejects

\* One space stands for any number of them.
Blank(t) == t \in {"", " "}

\* A field that is absent or null is the zero value.
Field(v, k) == IF IsMap(v) /\ k \in DOMAIN v.entries THEN v.entries[k] ELSE Null
TextAt(v, k) == LET x == Field(v, k) IN IF x.kind = "text" THEN x.value ELSE ""
Enabled(v) == TextAt(v, "enabled") = "true"
ItemsAt(v, k) == LET x == Field(v, k) IN IF IsList(x) THEN x.items ELSE <<>>
\* A part that can be enabled, with the texts it is given in v or below it.
Part(v, texts, fields) ==
  [f \in {"on"} \cup fields |-> IF f = "on" THEN Enabled(v) ELSE TextAt(texts, f)]

ServerSettings(doc) == Field(doc, "server_settings")
Section(doc, k) == Field(ServerSettings(doc), k)

\* Anything else in the place of a structure or a list cannot be decoded.
Decodes(doc) ==
  /\ \A v \in {ServerSettings(doc), Section(doc, "local_admin"), Section(doc, "oidc"),
               Section(doc, "metrics_auth"), Section(doc, "labels"),
               Field(Section(doc, "oidc"), "config")} : IsMap(v) \/ v = Null
  /\ \A k \in {"locations", "sources"} : IsList(Field(doc, k)) \/ Field(doc, k) = Null

Decode(doc) ==
  LET admin == Section(doc, "local_admin")
      oidc == Section(doc, "oidc")
      metrics == Section(doc, "metrics_auth")
  IN
  [hostURL |-> TextAt(ServerSettings(doc), "host_url"),
   timeout |-> TextAt(ServerSettings(doc), "session_timeout"),
   labels |-> Section(doc, "labels"),
   localAdmin |-> Part(admin, admin, {"username", "password"}),
   oidc |-> Part(oidc, Field(oidc, "config"),
                 {"issuer", "clientID", "clientSecret", "groupScope", "userNameScope"}),
   metricsAuth |-> Part(metrics, metrics, {"type", "username", "password", "token"}),
   locations |-> ItemsAt(doc, "locations"),
   sources |-> ItemsAt(doc, "sources")]

validateLabels(labels) ==
  IsMap(labels) => \A k \in DOMAIN labels.entries :
                     ~Blank(k) /\ {k, TextAt(labels, k)} \cap Unusable = {}

validateAuthConfig(c) ==
  /\ c.localAdmin.on => ~Blank(c.localAdmin.username) /\ ~Blank(c.localAdmin.password)
  /\ c.timeout \in Durations \cup {""}
  /\ c.oidc.on => \A f \in {"issuer", "clientID", "clientSecret"} : ~Blank(c.oidc[f])
  /\ c.metricsAuth.on =>
       \/ c.metricsAuth.type = "basic" /\ ~Blank(c.metricsAuth.username) /\ ~Blank(c.metricsAuth.password)
       \/ c.metricsAuth.type = "bearer" /\ ~Blank(c.metricsAuth.token)

\* A coordinate that is out of range is the text "out of range".
validateConfig(c) ==
  /\ c.hostURL \in HostURLs
  /\ validateLabels(c.labels)
  /\ validateAuthConfig(c)
  /\ c.locations # <<>>
  /\ \A i \in DOMAIN c.locations : \A k \in {"latitude", "longitude"} :
       TextAt(c.locations[i], k) # "out of range"
  /\ \A i \in DOMAIN c.sources :
       /\ TextAt(c.sources[i], "name") # "" /\ TextAt(c.sources[i], "type") # ""
       /\ validateLabels(Field(c.sources[i], "labels"))
       /\ \A j \in 1..(i - 1) : TextAt(c.sources[j], "name") # TextAt(c.sources[i], "name")

\* Mutant: no default for the claim that holds the user's name.
DefaultGroupScope(c) ==
  IF c.oidc.on /\ Blank(c.oidc.groupScope) THEN [c EXCEPT !.oidc.groupScope = "groups"] ELSE c

applyAuthDefaults(c) ==
  LET default(f, d) == IF c.oidc.on /\ Blank(c.oidc[f]) THEN d ELSE c.oidc[f] IN
  [c EXCEPT !.oidc.groupScope = default("groupScope", "groups"),
            !.oidc.userNameScope = default("userNameScope", "preferred_username")]

Loads(doc) == Decodes(doc) /\ validateConfig(Decode(doc))
LoadConfig(doc) == applyAuthDefaults(Decode(doc))

\* HandleAuthConfig: the ways to log in that are offered.
AuthMethods(c) == {m \in {"local", "oidc"} : IF m = "local" THEN c.localAdmin.on ELSE c.oidc.on}

------------------------------------------------------------------------------
(***************************************************************************)
(* What the users of the settings check on their own.                      *)
(***************************************************************************)

Authenticate(c, username, password) ==
  /\ c.localAdmin.on /\ ~Blank(username) /\ ~Blank(password)
  /\ username = c.localAdmin.username /\ password = c.localAdmin.password

\* The checks of initProvider before it asks the provider.
CanInitProvider(c) ==
  /\ c.oidc.on /\ c.oidc.issuer \notin Unparsable
  /\ \A f \in {"issuer", "clientID", "clientSecret", "groupScope", "userNameScope"} : c.oidc[f] # ""

\* A request without an Authorization header has scheme "none".  Basic
\* credentials are cut at their first colon.
RequireMetricsAuth(c, header) ==
  ~c.metricsAuth.on \/
    /\ header.scheme = c.metricsAuth.type
    /\ IF c.metricsAuth.type = "basic"
       THEN /\ header.username \notin Colons
            /\ header.username = c.metricsAuth.username /\ header.password = c.metricsAuth.password
       ELSE header.token = c.metricsAuth.token

\* Who scrapes /metrics with the credentials of the configuration.
ScraperHeader(c) ==
  [scheme |-> c.metricsAuth.type, username |-> c.metricsAuth.username,
   password |-> c.metricsAuth.password, token |-> c.metricsAuth.token]
=============================================================================
