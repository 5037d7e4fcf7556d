------------------------------- MODULE Login -------------------------------
(***************************************************************************)
(* The tabs of one browser log in, with the local admin's credentials or   *)
(* through the OIDC provider, whose discovery the first login that needs   *)
(* it does under a lock.  The provider is another program on the network:  *)
(* it may fail, and it may never answer.                                   *)
(***************************************************************************)
EXTENDS Sessions, FiniteSets

CONSTANTS
  Tabs,
  MaxFailures,  \* bound on the requests to the provider that fail
  Workloads     \* what the program is put through, see Server

VARIABLES
  load,         \* the workload the program is put through
  tab,          \* [tab] -> what it does next, and its request if that is at work
  stateCookie,  \* the tab whose login set the oidc_state cookie last, or Nobody
  provider,     \* whether provider, oauth2Config and verifier are set
  initMutex,    \* the tab whose request holds initMutex to write, or Nobody
  failures

loginVars == <<load, tab, stateCookie, provider, initMutex, failures>>

\* The steps of a request at the server; the others are the browser's.
InInit == {"check", "lock", "ask"}
AtServer == InInit \cup {"local", "ready"}
NoWork == [methods |-> {}, tabs |-> {}, requests |-> {}, logins |-> 0, ends |-> 0, until |-> 1, answers |-> FALSE]
LoginTypeOK ==
  /\ load \in Workloads \cup {NoWork} /\ failures \in 0..MaxFailures /\ provider \in BOOLEAN
  /\ tab \in [Tabs -> [pc : AtServer \cup {"idle", "at provider", "in", "failed"},
                       request : {"none", "right", "wrong", "login", "callback"}]]
  /\ stateCookie \in Tabs \cup {Nobody}
  /\ initMutex \in Tabs \cup {Nobody} /\ \A t \in Tabs : initMutex = t <=> tab[t].pc = "ask"

LoginInit ==
  /\ load = NoWork
  /\ tab = [t \in Tabs |-> [pc |-> "idle", request |-> "none"]] /\ stateCookie = Nobody
  /\ provider = FALSE /\ initMutex = Nobody /\ failures = 0

Goes(t, pc) == tab' = [tab EXCEPT ![t].pc = pc]
Ends(t, pc) == tab' = [tab EXCEPT ![t] = [pc |-> pc, request |-> "none"]]
Doing(t, request, pc) == tab[t].request = request /\ tab[t].pc = pc

\* The browser.  No tab starts more logins than the workload has.
MayStart(t) ==
  /\ t \in load.tabs /\ tab[t].pc \notin AtServer
  /\ LET pending == {u \in Tabs \ {t} : tab[u].request \notin {"none", "wrong"} \/ tab[u].pc = "at provider"}
     IN  Cardinality(created) + Cardinality(pending) < load.logins

SendLogin(t) ==
  /\ "local" \in load.methods /\ MayStart(t)
  /\ \E request \in {"right", "wrong"} : tab' = [tab EXCEPT ![t] = [pc |-> "local", request |-> request]]
  /\ UNCHANGED <<sessionVars, load, stateCookie, provider, initMutex, failures>>

BeginSSO(t) ==
  /\ "oidc" \in load.methods /\ MayStart(t)
  /\ tab' = [tab EXCEPT ![t] = [pc |-> "check", request |-> "login"]]
  /\ UNCHANGED <<sessionVars, load, stateCookie, provider, initMutex, failures>>

\* Which of the ids is drawn does not matter.
CreateNewSession ==
  LET id == CHOOSE s \in SessionIDs : s \notin created
  IN  id \in SessionIDs /\ CreateSession(id)

\* Mutant: logins wait for a discovery that is going on.
HandleLoginAfterInit(t) ==
  /\ tab[t].pc = "local" /\ initMutex = Nobody
  /\ \/ tab[t].request = "wrong" /\ Ends(t, "failed") /\ UNCHANGED sessionVars
     \/ tab[t].request = "right" /\ Ends(t, "in") /\ CreateNewSession
  /\ UNCHANGED <<load, stateCookie, provider, initMutex, failures>>

HandleLogin(t) ==
  /\ tab[t].pc = "local"
  /\ \/ tab[t].request = "wrong" /\ Ends(t, "failed") /\ UNCHANGED sessionVars
     \/ tab[t].request = "right" /\ Ends(t, "in") /\ CreateNewSession
  /\ UNCHANGED <<load, stateCookie, provider, initMutex, failures>>

\* initProvider: a read lock to see if there is anything to do ...
CheckProvider(t) ==
  /\ tab[t].pc = "check" /\ initMutex = Nobody
  /\ Goes(t, IF provider THEN "ready" ELSE "lock")
  /\ UNCHANGED <<sessionVars, load, stateCookie, provider, initMutex, failures>>

\* Mutant: the provider is not looked for again under the write lock.
LockProviderUnchecked(t) ==
  /\ tab[t].pc = "lock" /\ initMutex = Nobody
  /\ Goes(t, "ask") /\ initMutex' = t
  /\ UNCHANGED <<sessionVars, load, stateCookie, provider, failures>>

\* ... the write lock, under which another request may have done it ...
LockProvider(t) ==
  /\ tab[t].pc = "lock" /\ initMutex = Nobody
  /\ IF provider THEN Goes(t, "ready") /\ UNCHANGED initMutex ELSE Goes(t, "ask") /\ initMutex' = t
  /\ UNCHANGED <<sessionVars, load, stateCookie, provider, failures>>

\* ... and the provider's answer, waited for under the lock.
AskProvider(t) ==
  /\ tab[t].pc = "ask"
  /\ Goes(t, "ready") /\ provider' = TRUE /\ initMutex' = Nobody
  /\ UNCHANGED <<sessionVars, load, stateCookie, failures>>

\* Mutant: the lock is not released when the discovery fails.
FailureKeepsLock(t) ==
  /\ failures < MaxFailures /\ failures' = failures + 1
  /\ tab[t].pc = "ask" \/ Doing(t, "callback", "ready")
  /\ Ends(t, "failed")
  /\ stateCookie' = IF tab[t].request = "callback" THEN Nobody ELSE stateCookie
  /\ UNCHANGED <<sessionVars, load, provider, initMutex>>

ProviderFails(t) ==
  /\ failures < MaxFailures /\ failures' = failures + 1
  /\ \/ tab[t].pc = "ask" /\ initMutex' = Nobody
     \/ Doing(t, "callback", "ready") /\ UNCHANGED initMutex
  /\ Ends(t, "failed")
  /\ stateCookie' = IF tab[t].request = "callback" THEN Nobody ELSE stateCookie
  /\ UNCHANGED <<sessionVars, load, provider>>

\* The rest of HandleOIDCLogin: the cookie with the state, and the redirect.
GenerateAuthURL(t) ==
  /\ Doing(t, "login", "ready")
  /\ Ends(t, "at provider") /\ stateCookie' = t
  /\ UNCHANGED <<sessionVars, load, provider, initMutex, failures>>

\* The user comes back from the provider, admitted or not: HandleOIDCCallback
\* up to the exchange of the code.
ReturnFromProvider(t) ==
  /\ tab[t].pc = "at provider"
  /\ \/ Ends(t, "failed")                               \* the provider says error
     \/ stateCookie # t /\ Ends(t, "failed")
     \/ stateCookie = t /\ tab' = [tab EXCEPT ![t] = [pc |-> "check", request |-> "callback"]]
  /\ UNCHANGED <<sessionVars, load, stateCookie, provider, initMutex, failures>>

\* HandleCallback and the rest of HandleOIDCCallback.  The response clears
\* whatever oidc_state cookie the browser has by then.
ExchangeCode(t) ==
  /\ Doing(t, "callback", "ready")
  /\ CreateNewSession
  /\ Ends(t, "in") /\ stateCookie' = Nobody
  /\ UNCHANGED <<load, provider, initMutex, failures>>

\* Ten minutes after it was set.
StateCookieExpires ==
  /\ stateCookie # Nobody /\ stateCookie' = Nobody
  /\ UNCHANGED <<sessionVars, load, tab, provider, initMutex, failures>>

\* The process ends: its requests fail, and the provider is forgotten.
LoginsLost ==
  /\ provider' = FALSE /\ initMutex' = Nobody
  /\ tab' = [t \in Tabs |-> IF tab[t].pc \in AtServer THEN [pc |-> "failed", request |-> "none"] ELSE tab[t]]
  /\ UNCHANGED <<load, stateCookie, failures>>

Waits(t) == AskProvider(t) \/ ExchangeCode(t)
Handles(t) == HandleLogin(t) \/ CheckProvider(t) \/ LockProvider(t) \/ GenerateAuthURL(t)
=============================================================================
