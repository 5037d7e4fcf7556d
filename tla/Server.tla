------------------------------- MODULE Server -------------------------------
(***************************************************************************)
(* The program from its files on: it reads and merges them, checks what    *)
(* they say, adds defaults, and becomes the Service they configure, or     *)
(* gives up until somebody writes other files.                             *)
(***************************************************************************)
EXTENDS Service, Config

CONSTANTS
  ConfigFiles,        \* pairs of a configuration file and a credentials file
  Merged(_, _),       \* the document that the two make (see ConfigMerge) ...
  Unmergeable(_, _)   \* ... and when there is none

\* What a merge leaves under `sources` is a sequence.
ASSUME ListsAssumption ==
  \A f \in ConfigFiles : ~Unmergeable(f.base, f.overlay) =>
    LET sources == ItemsAt(Merged(f.base, f.overlay), "sources")
    IN  Len(sources) \in Nat /\ DOMAIN sources = 1..Len(sources)

VARIABLES
  startup,  \* how far the program has got with its files
  files,    \* the two files, from when they are read until the server starts
  config    \* the merged document, then the settings read from it

startVars == <<startup, files, config>>
vars == <<serviceVars, startVars>>

ServerInit == ServiceInit /\ startup = "boot" /\ files = Null /\ config = Null

ReadFiles ==
  /\ startup = "boot"
  /\ \/ startup' = "failed" /\ UNCHANGED <<files, config>>   \* reading, parsing or merging fails
     \/ \E f \in ConfigFiles :
          /\ ~Unmergeable(f.base, f.overlay)
          /\ startup' = "merged" /\ files' = f /\ config' = Merged(f.base, f.overlay)
  /\ UNCHANGED serviceVars

Configure ==
  /\ startup = "merged"
  /\ IF Loads(config)
     THEN startup' = "configured" /\ config' = LoadConfig(config)
     ELSE startup' = "failed" /\ UNCHANGED config
  /\ UNCHANGED <<serviceVars, files>>

\* Only the methods of login matter from here on, for which there is a workload.
Start ==
  /\ startup = "configured" /\ startup' = "done" /\ files' = Null /\ config' = Null
  /\ \E w \in Workloads : w.methods = AuthMethods(config) /\ Begin(w)

\* Somebody writes other files.
EditFiles ==
  /\ startup = "failed" /\ startup' = "boot" /\ files' = Null /\ config' = Null
  /\ UNCHANGED serviceVars

Serve == ServiceNext /\ UNCHANGED startVars

Next == ReadFiles \/ Configure \/ Start \/ EditFiles \/ Serve

Spec == ServerInit /\ [][Next]_vars /\ ServiceFairness

------------------------------------------------------------------------------
(***************************************************************************)
(* Properties.                                                             *)
(***************************************************************************)

\* A configuration the program starts with is one its parts can work with: the
\* provider is asked when somebody logs in through it, unless the issuer is no URL
\* (which validation accepts and every login finds out again); the configured local
\* admin can log in, a scraper with the configured credentials is let into
\* /metrics, and no two sources have one name.
ConfigurationSuffices ==
  startup = "configured" =>
    /\ config.oidc.on => CanInitProvider(config) \/ config.oidc.issuer \in Unparsable
    /\ config.localAdmin.on => Authenticate(config, config.localAdmin.username, config.localAdmin.password)
    /\ \/ config.metricsAuth.type = "basic" /\ config.metricsAuth.username \in Colons
       \/ RequireMetricsAuth(config, ScraperHeader(config))
    /\ \A i, j \in DOMAIN config.sources :
         TextAt(config.sources[i], "name") = TextAt(config.sources[j], "name") => i = j
=============================================================================
