------------------------------- MODULE Service -------------------------------
(***************************************************************************)
(* The program once it has started: it serves logins and protected         *)
(* requests until a signal, drains for as long as its deadline allows, and *)
(* ends; or it crashes.  A program that ended may be started again with    *)
(* the same settings.  Sessions and the discovered provider die with it,   *)
(* the browser's tabs and cookies do not.                                  *)
(***************************************************************************)
EXTENDS Login

\* A workload says which tabs and requests are active, how many logins there
\* are, how often the program ends, when the clock stops, and whether the provider
\* answers, for programs with the given methods of login.
WorkloadType ==
  [methods : SUBSET {"local", "oidc"}, tabs : SUBSET Tabs, requests : SUBSET Requests,
   logins : Nat, ends : Nat, until : 1..MaxTime, answers : BOOLEAN]
ASSUME ServiceAssumption ==
  /\ Workloads \subseteq WorkloadType /\ MaxFailures \in Nat /\ Nobody \notin Tabs
  /\ \A w \in Workloads : w.logins <= Cardinality(SessionIDs)

VARIABLES
  phase,
  deadlinePast,  \* the context of gracefulShutdown is done
  ended          \* how often the program has ended

lifeVars == <<phase, deadlinePast, ended>>
serviceVars == <<sessionVars, loginVars, lifeVars>>

ServiceInit ==
  /\ SessionsInit /\ LoginInit
  /\ phase = "starting" /\ deadlinePast = FALSE /\ ended = 0

Begin(w) ==
  /\ phase = "starting" /\ phase' = "serving" /\ load' = w
  /\ UNCHANGED <<sessionVars, tab, stateCookie, provider, initMutex, failures, deadlinePast, ended>>

------------------------------------------------------------------------------
\* Running.  A program that drains accepts no request but goes on with those it has.

Up == phase \in {"serving", "draining"} /\ UNCHANGED lifeVars
Open == phase = "serving" /\ UNCHANGED lifeVars

Request(r) == Up /\ RequireAuth(r) /\ UNCHANGED loginVars
Arrives == Open /\ \E r \in load.requests, s \in SessionIDs : Arrive(r, s) /\ UNCHANGED loginVars
Logout == Open /\ \E s \in SessionIDs : DeleteSession(s) /\ UNCHANGED loginVars
Sweep == Up /\ cleanupExpiredSessions /\ UNCHANGED loginVars
SweepBegins == Up /\ CleanupTick /\ UNCHANGED loginVars
LocalOrSSO(t) == Up /\ Handles(t)
Provider(t) == Up /\ (Waits(t) \/ ProviderFails(t))
Arrivals(t) == Open /\ (SendLogin(t) \/ BeginSSO(t) \/ ReturnFromProvider(t))

\* Time passes and cookies expire with or without the program.
Time == now < load.until /\ Tick /\ UNCHANGED <<loginVars, lifeVars>>
CookieExpires == StateCookieExpires /\ UNCHANGED lifeVars

------------------------------------------------------------------------------
\* Ending.

Stop ==
  /\ SessionsLost /\ LoginsLost
  /\ phase' = "down" /\ ended' = ended + 1 /\ deadlinePast' = FALSE

Signal ==
  /\ phase = "serving" /\ ended < load.ends
  /\ phase' = "draining"
  /\ UNCHANGED <<sessionVars, loginVars, deadlinePast, ended>>

DeadlinePasses ==
  /\ phase = "draining" /\ deadlinePast' = TRUE
  /\ UNCHANGED <<sessionVars, loginVars, phase, ended>>

NothingInFlight == (\A t \in Tabs : tab[t].pc \notin AtServer) /\ \A r \in Requests : req[r].pc \in Idle

\* Mutant: every request is waited for.
ShutdownOfIdle == phase = "draining" /\ NothingInFlight /\ Stop

gracefulShutdown == phase = "draining" /\ (NothingInFlight \/ deadlinePast) /\ Stop

Crash == phase = "serving" /\ ended < load.ends /\ Stop

Restart ==
  /\ phase = "down" /\ ended < load.ends
  /\ phase' = "serving"
  /\ UNCHANGED <<sessionVars, loginVars, deadlinePast, ended>>

Ended == phase = "down" /\ ended = load.ends /\ UNCHANGED serviceVars

ServiceNext ==
  \/ Arrives \/ Logout \/ SweepBegins \/ Sweep \/ \E r \in Requests : Request(r)
  \/ \E t \in Tabs : Arrivals(t) \/ LocalOrSSO(t) \/ Provider(t)
  \/ Time \/ CookieExpires
  \/ Signal \/ DeadlinePasses \/ gracefulShutdown \/ Crash \/ Restart \/ Ended

ServiceSafety == ServiceInit /\ [][ServiceNext \/ \E w \in Workloads : Begin(w)]_serviceVars

\* Time passes, and the scheduler runs every request, the ticker, the shutdown's
\* timer and its goroutine; the mutex does not starve the sweep.  Nothing is
\* assumed of the provider but in the workloads in which it answers.
ServiceFairness ==
  /\ WF_serviceVars(Time) /\ WF_serviceVars(SweepBegins) /\ SF_serviceVars(Sweep)
  /\ \A r \in Requests : WF_serviceVars(Request(r))
  /\ \A t \in Tabs : WF_serviceVars(LocalOrSSO(t)) /\ WF_serviceVars(load.answers /\ Up /\ Waits(t))
  /\ WF_serviceVars(DeadlinePasses) /\ WF_serviceVars(gracefulShutdown)

------------------------------------------------------------------------------
(***************************************************************************)
(* Properties.                                                             *)
(***************************************************************************)

\* Type invariant.  A lock is held by who is in the section it guards, and nothing
\* of a program's memory is left once it has ended.
ServiceTypeOK ==
  /\ SessionsTypeOK /\ LoginTypeOK
  /\ phase \in {"starting", "serving", "draining", "down"}
  /\ deadlinePast \in BOOLEAN /\ ended \in 0..load.ends
  /\ deadlinePast => phase = "draining"
  /\ phase \notin {"serving", "draining"} =>
       mutex = Nobody /\ sessions = {} /\ ~provider /\ \A t \in Tabs : tab[t].pc \notin AtServer

\* Nobody writes the provider's fields, which is done under initMutex, while a
\* request reads them, which is done without it.
NoProviderRace == ~\E t, u \in Tabs : tab[t].pc = "ask" /\ tab[u].pc = "ready"

\* A login with local credentials is answered whatever the provider does
\* ("Provide emergency access when OIDC is down", local-admin.md:10).
EmergencyAccess == \A t \in Tabs : tab[t].pc = "local" ~> tab[t].pc # "local"

\* Once the provider answers, every login that waits for it goes on to the
\* provider's page or into the application, whatever failed before, unless the
\* program ends.
LoginsGoOn ==
  \A t \in Tabs :
    tab[t].pc \in InInit /\ load.answers /\ failures = MaxFailures
      ~> tab[t].pc \in {"at provider", "in"} \/ phase # "serving"

\* A program that is told to end does, even if the provider never answers.
EndsAfterSignal == phase = "draining" ~> phase = "down"
=============================================================================
