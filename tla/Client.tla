------------------------------- MODULE Client -------------------------------
(***************************************************************************)
(* The web client's dashboard (App.js, AppStatusPanel.js) over ClientAuth: *)
(* what the map and the side panel show, and the requests that bring it.   *)
(*                                                                         *)
(* A request carries the filters (and the panel's site) of the moment its  *)
(* function ran, the server answers with what the cookie's user may see,   *)
(* and answers arrive in any order: the last to arrive is shown, whatever  *)
(* was asked last.  A failed request is shown as an empty answer: the      *)
(* fetch functions catch every error and return [].                        *)
(*                                                                         *)
(* One refreshLocations, or one refreshApps of the panel (the apps of a    *)
(* site and a refreshLocations, awaited together), is one element of       *)
(* `calls`, in the order in which they were made.                          *)
(***************************************************************************)
EXTENDS ClientAuth, Sequences, FiniteSets

CONSTANTS Filters,      \* values of the status and label filters
          Sites,        \* markers on the map
          NoSite,       \* selectedSite null
          Nothing,      \* the empty list
          MaxCalls,     \* bound: refreshes in flight
          MaxFailures   \* bound: requests that fail

ASSUME ClientAssumption ==
  /\ NoSite \notin Sites
  /\ Nothing \notin Users \cup {NoUser, Anonymous}
  /\ MaxCalls \in Nat \ {0} /\ MaxFailures \in Nat

VARIABLES filters,     \* statusFilters and labelFilters, kept in localStorage
          interval,    \* scrapeInterval is known
          boot,        \* filters that the waiting `initialize` captured, or Nothing
          locations,   \* what the map shows
          site,        \* selectedSite
          sameObject,  \* selectedSite is an object of the list the map shows
          panelOpen,   \* isPanelOpen
          apps,        \* the panel's apps
          calls,       \* refreshes in flight
          failures     \* requests that failed so far

view == <<interval, boot, locations, site, sameObject, panelOpen, apps, calls>>
clientVars == <<authVars, filters, view, failures>>

Visitors == Users \cup {Anonymous}

(* An answer: for whom the server computed it, and what was asked.         *)
LocationsOf(u, f) == IF u \in Visitors THEN [user |-> u, filters |-> f] ELSE Nothing
AppsOf(u, f, s) ==
  IF u \in Visitors THEN [user |-> u, filters |-> f, site |-> s] ELSE Nothing

(* A call: its arguments, whose cookie it was sent with, and the lists it  *)
(* still has to bring.                                                     *)
RefreshLocations(f) ==
  [filters |-> f, site |-> NoSite, as |-> cookie, brings |-> {"locations"}]
\* Mutant: the panel is not given refreshLocations.
RefreshAppsOnly(s, f) ==
  [filters |-> f, site |-> s, as |-> cookie, brings |-> {"apps"}]
RefreshApps(s, f) ==
  [filters |-> f, site |-> s, as |-> cookie, brings |-> {"locations", "apps"}]

Room(n) == Len(calls) + n <= MaxCalls

(* The calls that still bring something, in their order.                   *)
Unfinished(cs) ==
  LET live == {i \in DOMAIN cs : cs[i].brings # {}}
      nth == CHOOSE f \in [1..Cardinality(live) -> live] :
               \A j, k \in 1..Cardinality(live) : j < k => f[j] < f[k]
  IN [k \in 1..Cardinality(live) |-> cs[nth[k]]]

(* The panel is gone: what its calls bring for it is dropped, their        *)
(* refreshLocations is the map's and goes on.                              *)
WithoutPanel(cs) == Unfinished([i \in DOMAIN cs |-> [cs[i] EXCEPT !.brings = @ \ {"apps"}]])

PanelShown == panelOpen /\ site # NoSite

(* For whom a call is answered.  The server looks at the session at some   *)
(* moment between the sending and the landing; while the dashboard is up a *)
(* session can only end, so it found what held at one of the two.          *)
AnsweredTo(c, ok) == IF ok THEN {c.as, cookie} ELSE {NoUser}

-----------------------------------------------------------------------------
(* --- the dashboard appears and disappears ------------------------------ *)

NotMounted ==
  /\ interval = FALSE /\ boot = Nothing /\ locations = Nothing /\ apps = Nothing
  /\ site = NoSite /\ sameObject = FALSE /\ panelOpen = FALSE /\ calls = <<>>

ClientInit == AuthInit /\ filters \in Filters /\ NotMounted /\ failures = 0

(* The effects of the first render: initialize, which waits for the        *)
(* interval, and the refresh for the filters.                              *)
Mount ==
  /\ boot' = filters
  /\ calls' = <<RefreshLocations(filters)>>
  /\ UNCHANGED <<interval, locations, site, sameObject, panelOpen, apps>>

(* The state goes with the component; answers that come later are ignored. *)
Unmount ==
  /\ interval' = FALSE /\ boot' = Nothing /\ locations' = Nothing /\ apps' = Nothing
  /\ site' = NoSite /\ sameObject' = FALSE /\ panelOpen' = FALSE /\ calls' = <<>>

(* AppContent after a dispatch.                                            *)
DashboardFollows ==
  \/ ~ShowsDashboard /\ ShowsDashboard' /\ Mount
  \/ ShowsDashboard /\ ~ShowsDashboard' /\ Unmount
  \/ (ShowsDashboard <=> ShowsDashboard') /\ UNCHANGED view

(* --- initialize -------------------------------------------------------- *)

(* The interval arrives; the refresh that follows is the first render's,   *)
(* with the filters of that moment.  If it fails, initialize ends there.   *)
Initialized(ok) ==
  /\ boot # Nothing
  /\ \/ /\ ok /\ cookie # NoUser /\ Room(1)
        /\ interval' = TRUE
        /\ calls' = Append(calls, RefreshLocations(boot))
     \/ /\ ~ok \/ cookie = NoUser
        /\ UNCHANGED <<interval, calls>>
  /\ boot' = Nothing
  /\ UNCHANGED <<locations, site, sameObject, panelOpen, apps>>

(* --- periodic refresh -------------------------------------------------- *)

(* The map's timer, only while the panel is closed.                        *)
PollLocations ==
  /\ ShowsDashboard /\ interval /\ ~panelOpen /\ Room(1)
  /\ calls' = Append(calls, RefreshLocations(filters))
  /\ UNCHANGED <<interval, boot, locations, site, sameObject, panelOpen, apps>>

\* Mutant: the panel fetches its apps once.
PollOnlyMap ==
  /\ ShowsDashboard /\ interval /\ PanelShown /\ Room(1)
  /\ calls' = Append(calls, RefreshLocations(filters))
  /\ UNCHANGED <<interval, boot, locations, site, sameObject, panelOpen, apps>>

(* The panel's timer: its apps and the map's locations.                    *)
PollApps ==
  /\ ShowsDashboard /\ interval /\ PanelShown /\ Room(1)
  /\ calls' = Append(calls, RefreshApps(site, filters))
  /\ UNCHANGED <<interval, boot, locations, site, sameObject, panelOpen, apps>>

(* --- the user ---------------------------------------------------------- *)

(* New filters: the panel's effect runs first, then the map's.             *)
ChangeFilters(f) ==
  LET fromPanel == IF PanelShown THEN <<RefreshApps(site, f)>> ELSE <<>>
      made == Append(fromPanel, RefreshLocations(f))
  IN /\ ShowsDashboard /\ f # filters /\ Room(Len(made))
     /\ filters' = f
     /\ calls' = calls \o made
     /\ UNCHANGED <<interval, boot, locations, site, sameObject, panelOpen, apps>>

(* The same object again toggles the panel; another one, which the same    *)
(* site is after any refresh of the map, selects it and opens the panel.   *)
(* The panel refreshes when it appears and when its site's name changes.   *)
ClickSite(s) ==
  LET toggles == s = site /\ sameObject
      open == IF toggles THEN ~panelOpen ELSE TRUE
      asks == open /\ (~PanelShown \/ s # site)
  IN /\ ShowsDashboard /\ locations # Nothing
     /\ asks => Room(1)
     /\ site' = s /\ sameObject' = TRUE /\ panelOpen' = open
     /\ calls' = IF asks THEN Append(calls, RefreshApps(s, filters))
                 ELSE IF open THEN calls ELSE WithoutPanel(calls)
     /\ apps' = IF open THEN apps ELSE Nothing
     /\ UNCHANGED <<interval, boot, locations>>

ClosePanel ==
  /\ PanelShown
  /\ site' = NoSite /\ sameObject' = FALSE /\ panelOpen' = FALSE
  /\ calls' = WithoutPanel(calls) /\ apps' = Nothing
  /\ UNCHANGED <<interval, boot, locations>>

(* --- answers ----------------------------------------------------------- *)

(* setLocations: a new list, of new objects.                               *)
LandLocations(i, ok) ==
  /\ "locations" \in calls[i].brings
  /\ \E u \in AnsweredTo(calls[i], ok) : locations' = LocationsOf(u, calls[i].filters)
  /\ calls' = Unfinished([calls EXCEPT ![i].brings = @ \ {"locations"}])
  /\ sameObject' = FALSE
  /\ UNCHANGED <<interval, boot, site, panelOpen, apps>>

(* setApps waits for both requests of refreshApps.                         *)
LandApps(i, ok) ==
  /\ calls[i].brings = {"apps"}
  /\ \E u \in AnsweredTo(calls[i], ok) : apps' = AppsOf(u, calls[i].filters, calls[i].site)
  /\ calls' = Unfinished([calls EXCEPT ![i].brings = {}])
  /\ UNCHANGED <<interval, boot, locations, site, sameObject, panelOpen>>

-----------------------------------------------------------------------------
(* A step in which a request may fail counts its failures.                 *)
Counted(ok) ==
  /\ ok \/ failures < MaxFailures
  /\ failures' = IF ok THEN failures ELSE failures + 1

AuthRequest(ok) == AuthStep(ok) /\ DashboardFollows /\ Counted(ok) /\ UNCHANGED filters

UserAuth ==
  /\ \/ \E u \in Users : Login(u)
     \/ Logout
     \/ SessionEnds
  /\ DashboardFollows /\ UNCHANGED <<filters, failures>>

ReloadPage ==
  /\ \E u \in Visitors \cup {NoUser} : Reload(u)
  /\ Unmount /\ UNCHANGED <<filters, failures>>

InitializeAnswered(ok) == Initialized(ok) /\ Counted(ok) /\ UNCHANGED <<authVars, filters>>

Poll == (PollLocations \/ PollApps) /\ UNCHANGED <<authVars, filters, failures>>

UserActs ==
  \/ (\E f \in Filters : ChangeFilters(f)) /\ UNCHANGED <<authVars, failures>>
  \/ (ClosePanel \/ \E s \in Sites : ClickSite(s)) /\ UNCHANGED <<authVars, filters, failures>>

Land(i, ok) ==
  (LandLocations(i, ok) \/ LandApps(i, ok)) /\ Counted(ok) /\ UNCHANGED <<authVars, filters>>

ClientNext ==
  \/ \E ok \in BOOLEAN : AuthRequest(ok) \/ InitializeAnswered(ok)
  \/ UserAuth \/ ReloadPage \/ Poll \/ UserActs
  \/ \E i \in DOMAIN calls, ok \in BOOLEAN : Land(i, ok)

(* Every request is answered or fails, every answer is handled, and the    *)
(* timers go off.  The oldest call is named because no call may be passed  *)
(* over forever by younger ones.                                           *)
ClientFairness ==
  /\ WF_clientVars(AuthRequest(TRUE))
  /\ WF_clientVars(InitializeAnswered(TRUE))
  /\ WF_clientVars(Poll)
  /\ WF_clientVars(calls # <<>> /\ Land(1, TRUE))

ClientSpec == ClientInit /\ [][ClientNext]_clientVars /\ ClientFairness

-----------------------------------------------------------------------------
(* Whoever is named on the screen sees what the server computed for them,  *)
(* never what an earlier login of this page was shown or had asked for.    *)
OwnDataOnly ==
  ctx.user # NoUser =>
    /\ locations # Nothing => locations.user = ctx.user
    /\ apps # Nothing => apps.user = ctx.user

(* Show login if authentication is required (App.js:19): once the client   *)
(* knows that it is, the dashboard is on screen only for a logged-in user, *)
(* whatever calls failed on the way.                                       *)
LoginBeforeDashboard ==
  ctx.authConfig = "enabled" /\ ShowsDashboard => ctx.user # NoUser

(* When the filters stay and the visitor's session does not change, the    *)
(* map ends up, for good, with the answer to them: an answer to earlier    *)
(* filters, the first render's included, may land late but is replaced.    *)
LocationsCatchUp ==
  \A f \in Filters, u \in Visitors \cup {NoUser} :
    <>[](ShowsDashboard /\ interval /\ filters = f /\ cookie = u)
      => <>[](locations = LocationsOf(u, f))

(* The same of the panel that stays open on a site.                        *)
PanelCatchesUp ==
  \A f \in Filters, s \in Sites, u \in Visitors \cup {NoUser} :
    <>[](PanelShown /\ interval /\ filters = f /\ cookie = u /\ site = s)
      => <>[](apps = AppsOf(u, f, s))
=============================================================================
