---------------------------- MODULE ClientProofs ----------------------------
(***************************************************************************)
(* Proofs about Client, for any users, filters, sites and numbers of calls *)
(* in flight: nobody is shown what an earlier user of the page was, and no *)
(* dashboard is shown before the login that is asked for.                  *)
(***************************************************************************)
EXTENDS Client, FiniteSetTheorems, SequenceTheorems, WellFoundedInduction, TLAPS

(***************************************************************************)
(* Filtering a sequence.  The library's induction theorems take an         *)
(* operator; these lemmas find the least element of a set instead, which   *)
(* the well-foundedness of the strict subset ordering gives.               *)
(***************************************************************************)

(* A set of natural numbers has a least element.                           *)
LEMMA Least ==
  ASSUME NEW T \in SUBSET Nat, T # {}
  PROVE  \E n \in T : \A m \in T : n <= m
<1> DEFINE I == {0..n : n \in T}
           R == StrictSubsetOrdering(Nat)
<1>1. I \subseteq FiniteSubsetsOf(Nat) /\ I # {}
  <2>1. \A n \in T : IsFiniteSet(0..n) /\ 0..n \in SUBSET Nat
    BY FS_Interval
  <2> QED BY <2>1 DEF FiniteSubsetsOf
<1>2. \E x \in I : \A y \in I : <<y, x>> \notin R
  <2> HIDE DEF I
  <2> QED BY <1>1, FS_StrictSubsetOrderingWellFounded, WFMin
<1>3. PICK n \in T : \A y \in I : <<y, 0..n>> \notin R
  BY <1>2
<1>4. ASSUME NEW m \in T, m < n PROVE FALSE
  <2>1. 0..m \in SUBSET Nat /\ 0..n \in SUBSET Nat /\ 0..m \subseteq 0..n /\ n \in 0..n /\ n \notin 0..m
    BY <1>4
  <2>2. <<0..m, 0..n>> \in R
    BY <2>1 DEF StrictSubsetOrdering
  <2> QED BY <1>3, <2>2
<1> QED BY <1>4

(* So a set of the positions of a sequence has a last one.                 *)
LEMMA LastPosition ==
  ASSUME NEW n \in Nat, NEW P \in SUBSET (1..n), P # {}
  PROVE  \E m \in P : \A i \in P : i <= m
<1> DEFINE Bounds == {b \in Nat : \A i \in P : i <= b}
<1>1. n \in Bounds
  OBVIOUS
<1>2. PICK m \in Bounds : \A b \in Bounds : m <= b
  <2> HIDE DEF Bounds
  <2>1. Bounds \in SUBSET Nat
    BY DEF Bounds
  <2> QED BY <1>1, <2>1, Least
<1>3. m \in P
  <2> SUFFICES ASSUME m \notin P PROVE FALSE
    OBVIOUS
  <2>1. \A i \in P : i \in Nat /\ i >= 1 /\ i <= m - 1
    BY <1>2
  <2>2. m \in Nat /\ \E i \in P : i >= 1 /\ i <= m - 1
    BY <1>2, <2>1
  <2>3. m - 1 \in Nat
    BY <2>1, <2>2
  <2>4. m - 1 \in Bounds
    BY <2>1, <2>3
  <2>5. m <= m - 1
    <3> HIDE DEF Bounds
    <3> QED BY <1>2, <2>4
  <2> QED BY <2>2, <2>5
<1> QED BY <1>2, <1>3

Increasing(f, n) == \A j, k \in 1..n : j < k => f[j] < f[k]

(* Positions can be enumerated in their order.                             *)
LEMMA Enumeration ==
  ASSUME NEW n \in Nat, NEW P \in SUBSET (1..n)
  PROVE  /\ Cardinality(P) \in Nat
         /\ \E f \in [1..Cardinality(P) -> P] : Increasing(f, Cardinality(P))
<1> DEFINE Enumerated(Q) == \E f \in [1..Cardinality(Q) -> Q] : Increasing(f, Cardinality(Q))
           Bad == {c \in Nat : \E Q \in SUBSET (1..n) : Cardinality(Q) = c /\ ~Enumerated(Q)}
<1>1. \A Q \in SUBSET (1..n) : IsFiniteSet(Q) /\ Cardinality(Q) \in Nat
  <2> TAKE Q \in SUBSET (1..n)
  <2>1. IsFiniteSet(1..n)
    BY FS_Interval
  <2>2. IsFiniteSet(Q)
    BY <2>1, FS_Subset
  <2> QED BY <2>2, FS_CardinalityType
<1>2. Bad = {}
  <2> SUFFICES ASSUME Bad # {} PROVE FALSE
    OBVIOUS
  <2>1. PICK c \in Bad : \A b \in Bad : c <= b
    <3>1. Bad \in SUBSET Nat
      OBVIOUS
    <3> HIDE DEF Bad
    <3> QED BY <3>1, Least
  <2>2. PICK Q \in SUBSET (1..n) : Cardinality(Q) = c /\ ~Enumerated(Q)
    OBVIOUS
  <2>3. c \in Nat
    OBVIOUS
  <2>4. Q # {}
    <3> SUFFICES ASSUME Q = {} PROVE FALSE
      OBVIOUS
    <3>1. Cardinality(Q) = 0
      BY FS_EmptySet
    <3>2. [j \in {} |-> j] \in [1..Cardinality(Q) -> Q] /\ Increasing([j \in {} |-> j], Cardinality(Q))
      BY <3>1 DEF Increasing
    <3> QED BY <2>2, <3>2
  <2>5. PICK m \in Q : \A i \in Q : i <= m
    BY <2>4, LastPosition
  <2>6. IsFiniteSet(Q \ {m}) /\ Cardinality(Q \ {m}) = c - 1 /\ c - 1 \in Nat
    <3>1. Cardinality(Q \ {m}) = Cardinality(Q) - 1 /\ IsFiniteSet(Q \ {m})
      BY <1>1, FS_RemoveElement
    <3>2. Cardinality(Q \ {m}) \in Nat
      BY <1>1
    <3> QED BY <2>2, <3>1, <3>2
  <2>7. Enumerated(Q \ {m})
    <3> SUFFICES ASSUME ~Enumerated(Q \ {m}) PROVE FALSE
      OBVIOUS
    <3>1. c - 1 \in Bad
      BY <2>6
    <3> QED BY <2>1, <2>3, <3>1
  <2>8. PICK f \in [1..(c - 1) -> Q \ {m}] : Increasing(f, c - 1)
    BY <2>6, <2>7
  <2> DEFINE g == [k \in 1..c |-> IF k = c THEN m ELSE f[k]]
  <2>9. \A k \in 1..c : k = c \/ k \in 1..(c - 1)
    BY <2>3
  <2>10. g \in [1..c -> Q]
    BY <2>8, <2>9
  <2>11. \A k \in 1..(c - 1) : f[k] \in Int /\ f[k] < m
    <3> TAKE k \in 1..(c - 1)
    <3>1. f[k] \in Q /\ f[k] # m
      BY <2>8
    <3>2. \A i \in Q : i \in Nat
      OBVIOUS
    <3>3. f[k] \in Nat /\ m \in Nat /\ f[k] <= m
      BY <2>5, <3>1, <3>2
    <3> QED BY <3>1, <3>3
  <2>12. Increasing(g, c)
    <3> SUFFICES ASSUME NEW j \in 1..c, NEW k \in 1..c, j < k PROVE g[j] < g[k]
      BY DEF Increasing
    <3>1. j \in 1..(c - 1) /\ g[j] = f[j]
      BY <2>3
    <3>2. CASE k = c
      BY <2>11, <3>1, <3>2
    <3>3. CASE k # c
      <4>1. k \in 1..(c - 1) /\ g[k] = f[k]
        BY <2>3, <3>3
      <4> QED BY <2>8, <3>1, <4>1 DEF Increasing
    <3> QED BY <3>2, <3>3
  <2> QED BY <2>2, <2>10, <2>12
<1>3. Enumerated(P)
  BY <1>1, <1>2
<1> QED BY <1>1, <1>3

(* The unfinished calls are some of the calls.                             *)
LEMMA UnfinishedAreCalls ==
  ASSUME NEW S, NEW cs \in Seq(S)
  PROVE  /\ Unfinished(cs) \in Seq(S)
         /\ \A k \in DOMAIN Unfinished(cs) : \E i \in DOMAIN cs : Unfinished(cs)[k] = cs[i]
<1> DEFINE live == {i \in DOMAIN cs : cs[i].brings # {}}
           n == Cardinality(live)
           nth == CHOOSE f \in [1..n -> live] : \A j, k \in 1..n : j < k => f[j] < f[k]
<1>1. live \in SUBSET (1..Len(cs)) /\ Len(cs) \in Nat /\ DOMAIN cs = 1..Len(cs)
  OBVIOUS
<1>2. n \in Nat /\ \E f \in [1..n -> live] : Increasing(f, n)
  <2> HIDE DEF live
  <2> QED BY <1>1, Enumeration
<1>3. nth \in [1..n -> live]
  BY <1>2 DEF Increasing
<1>4. Unfinished(cs) = [k \in 1..n |-> cs[nth[k]]]
  BY DEF Unfinished
<1> HIDE DEF n, nth
<1>5. \A k \in 1..n : nth[k] \in DOMAIN cs /\ cs[nth[k]] \in S
  <2> TAKE k \in 1..n
  <2>1. nth[k] \in live
    BY <1>3
  <2> QED BY <1>1, <2>1
<1> HIDE DEF live
<1> QED BY <1>2, <1>4, <1>5

-----------------------------------------------------------------------------
(***************************************************************************)
(* The invariant of the authentication state (AuthContext.js).             *)
(***************************************************************************)
Call == [filters : Filters, site : Sites \cup {NoSite}, as : Visitors \cup {NoUser},
         brings : SUBSET {"locations", "apps"}]

AuthTypeOK ==
  /\ authEnabled \in BOOLEAN
  /\ cookie \in Visitors \cup {NoUser}
  /\ ctx \in [isInitialized : BOOLEAN, isLoading : BOOLEAN, needsAuthentication : BOOLEAN,
              user : Visitors \cup {NoUser}, authConfig : {"unknown", "enabled", "disabled"}]
  /\ authCall \in [at : {"none", "config", "validate", "current", "login", "loginUser", "logout"},
                   as : Users \cup {NoUser}]

\* Nobody is logged in before initialize ends, nor while a login is asked for; a
\* login runs only while it is; the cookie is that of whoever is logged in.
UserFollowsLogin ==
  /\ ctx.needsAuthentication => ctx.user = NoUser /\ ctx.authConfig = "enabled" /\ ctx.isInitialized
  /\ ~ctx.isInitialized => ctx.user = NoUser /\ ctx.authConfig = "unknown"
  /\ ctx.isInitialized /\ ctx.authConfig = "enabled" /\ ctx.user = NoUser => ctx.needsAuthentication
  /\ ctx.user # NoUser => ctx.authConfig = "enabled"
  /\ authCall.at \in {"config", "validate", "current"} => ~ctx.isInitialized
  /\ authCall.at \in {"login", "loginUser"} => ctx.needsAuthentication
  /\ ctx.user # NoUser => cookie \in {ctx.user, NoUser}

AuthInv == AuthTypeOK /\ UserFollowsLogin

\* What a step of the provider means for the dashboard: it comes up for the
\* cookie's user, and while it stays up its user does not change.
DashboardUser ==
  /\ ctx'.user # NoUser => cookie \in {ctx'.user, NoUser}
  /\ ShowsDashboard /\ ctx'.user # NoUser => ctx'.user = ctx.user

(* Each step of the provider keeps the invariant and is fit for the        *)
(* dashboard.                                                              *)
LEMMA GetAuthConfigPreserves ==
  ASSUME UsersAssumption, AuthInv, NEW ok \in BOOLEAN, GetAuthConfig(ok)
  PROVE  AuthInv' /\ DashboardUser
<1>1. authCall.at = "config" /\ UNCHANGED <<authEnabled, cookie>>
  BY DEF GetAuthConfig, Waits
<1>2. CASE authCall' = [authCall EXCEPT !.at = "validate"] /\ UNCHANGED ctx
  BY <1>1, <1>2 DEF AuthInv, AuthTypeOK, UserFollowsLogin, DashboardUser, ShowsDashboard
<1>3. CASE ctx' = InitSuccess(ctx, NoUser, "disabled") /\ authCall' = Idle
  BY <1>1, <1>3 DEF InitSuccess, Idle, AuthInv, AuthTypeOK, UserFollowsLogin, DashboardUser, ShowsDashboard
<1>4. CASE ctx' = InitError(ctx) /\ authCall' = Idle
  BY <1>1, <1>4 DEF InitError, Idle, AuthInv, AuthTypeOK, UserFollowsLogin, DashboardUser, ShowsDashboard
<1> QED BY <1>2, <1>3, <1>4 DEF GetAuthConfig

LEMMA ValidateSessionPreserves ==
  ASSUME UsersAssumption, AuthInv, NEW ok \in BOOLEAN, ValidateSession(ok)
  PROVE  AuthInv' /\ DashboardUser
<1>1. authCall.at = "validate" /\ UNCHANGED <<authEnabled, cookie>>
  BY DEF ValidateSession, Waits
<1>2. CASE authCall' = [authCall EXCEPT !.at = "current"] /\ UNCHANGED ctx
  BY <1>1, <1>2 DEF AuthInv, AuthTypeOK, UserFollowsLogin, DashboardUser, ShowsDashboard
<1>3. CASE ctx' = InitSuccess(ctx, NoUser, "enabled") /\ authCall' = Idle
  BY <1>1, <1>3 DEF InitSuccess, Idle, AuthInv, AuthTypeOK, UserFollowsLogin, DashboardUser, ShowsDashboard
<1> QED BY <1>2, <1>3 DEF ValidateSession

LEMMA InitCurrentUserPreserves ==
  ASSUME UsersAssumption, AuthInv, NEW ok \in BOOLEAN, InitCurrentUser(ok)
  PROVE  AuthInv' /\ DashboardUser
BY DEF InitCurrentUser, Waits, UserAnswered, InitSuccess, Idle, AuthInv, AuthTypeOK, UserFollowsLogin,
       DashboardUser, ShowsDashboard

LEMMA LoginPreserves ==
  ASSUME UsersAssumption, AuthInv, NEW u \in Users, Login(u)
  PROVE  AuthInv' /\ DashboardUser
BY DEF Login, LoginStart, AuthInv, AuthTypeOK, UserFollowsLogin, DashboardUser, ShowsDashboard, ShowsLogin

LEMMA PostLoginPreserves ==
  ASSUME UsersAssumption, AuthInv, NEW ok \in BOOLEAN, PostLogin(ok)
  PROVE  AuthInv' /\ DashboardUser
<1>1. authCall.at = "login" /\ UNCHANGED authEnabled
  BY DEF PostLogin, Waits
<1>2. CASE cookie' = authCall.as /\ authCall' = [authCall EXCEPT !.at = "loginUser"] /\ UNCHANGED ctx
  BY <1>1, <1>2 DEF AuthInv, AuthTypeOK, UserFollowsLogin, DashboardUser, ShowsDashboard, Visitors
<1>3. CASE ctx' = LoginError(ctx) /\ authCall' = Idle /\ UNCHANGED cookie
  BY <1>1, <1>3 DEF LoginError, Idle, AuthInv, AuthTypeOK, UserFollowsLogin, DashboardUser, ShowsDashboard
<1> QED BY <1>2, <1>3 DEF PostLogin

LEMMA LoginCurrentUserPreserves ==
  ASSUME UsersAssumption, AuthInv, NEW ok \in BOOLEAN, LoginCurrentUser(ok)
  PROVE  AuthInv' /\ DashboardUser
BY DEF LoginCurrentUser, Waits, UserAnswered, LoginSuccess, LoginError, Idle, AuthInv, AuthTypeOK,
       UserFollowsLogin, DashboardUser, ShowsDashboard

LEMMA LogoutPreserves ==
  ASSUME UsersAssumption, AuthInv, Logout
  PROVE  AuthInv' /\ DashboardUser
BY DEF Logout, LogoutStart, AuthInv, AuthTypeOK, UserFollowsLogin, DashboardUser, ShowsDashboard

LEMMA PostLogoutPreserves ==
  ASSUME UsersAssumption, AuthInv, NEW ok \in BOOLEAN, PostLogout(ok)
  PROVE  AuthInv' /\ DashboardUser
BY DEF PostLogout, Waits, LogoutSuccess, LogoutError, Idle, AuthInv, AuthTypeOK, UserFollowsLogin,
       DashboardUser, ShowsDashboard

LEMMA SessionEndsPreserves ==
  ASSUME UsersAssumption, AuthInv, SessionEnds
  PROVE  AuthInv' /\ DashboardUser
BY DEF SessionEnds, AuthInv, AuthTypeOK, UserFollowsLogin, DashboardUser, ShowsDashboard

LEMMA ReloadPreserves ==
  ASSUME UsersAssumption, AuthInv, NEW u \in Visitors \cup {NoUser}, Reload(u)
  PROVE  AuthInv' /\ ctx'.user = NoUser /\ ~ShowsDashboard'
BY DEF Reload, Loaded, InitStart, initialState, AuthInv, AuthTypeOK, UserFollowsLogin, Visitors, ShowsDashboard

LEMMA AuthInitInv ==
  ASSUME UsersAssumption, AuthInit
  PROVE  AuthInv /\ ctx.user = NoUser /\ ~ShowsDashboard
BY DEF AuthInit, Loaded, InitStart, initialState, AuthInv, AuthTypeOK, UserFollowsLogin, Visitors, ShowsDashboard

-----------------------------------------------------------------------------
(***************************************************************************)
(* The invariant of the dashboard.  Every call in flight was sent with the *)
(* cookie of the user on the screen, or with none, since the calls of an   *)
(* earlier user went when his dashboard did.                               *)
(***************************************************************************)
CallsOK(cs) == cs \in Seq(Call) /\ (ctx.user # NoUser => \A i \in DOMAIN cs : cs[i].as \in {ctx.user, NoUser})

ViewTypeOK == filters \in Filters /\ boot \in Filters \cup {Nothing} /\ site \in Sites \cup {NoSite}

OwnOrNothing(shown) == ctx.user # NoUser => shown = Nothing \/ shown.user = ctx.user

ViewInv ==
  /\ ViewTypeOK
  /\ ~ShowsDashboard => NotMounted
  /\ OwnOrNothing(locations) /\ OwnOrNothing(apps)
  /\ CallsOK(calls)

ClientInv == AuthInv /\ ViewInv

(* How the sequences of calls are made.                                    *)
LEMMA NoCalls == CallsOK(<<>>)
BY DEF CallsOK

LEMMA Asked ==
  ASSUME AuthInv, NEW cs, CallsOK(cs), NEW c \in Call, c.as = cookie
  PROVE  CallsOK(Append(cs, c))
<1>1. ctx.user # NoUser => c.as \in {ctx.user, NoUser}
  BY DEF AuthInv, UserFollowsLogin
<1>2. Append(cs, c) \in Seq(Call) /\ \A i \in DOMAIN Append(cs, c) :
        Append(cs, c)[i] = c \/ (i \in DOMAIN cs /\ Append(cs, c)[i] = cs[i])
  BY DEF CallsOK
<1> QED BY <1>1, <1>2 DEF CallsOK

LEMMA StillInFlight ==
  ASSUME NEW cs, CallsOK(cs)
  PROVE  CallsOK(Unfinished(cs))
<1>1. /\ Unfinished(cs) \in Seq(Call)
      /\ \A k \in DOMAIN Unfinished(cs) : \E i \in DOMAIN cs : Unfinished(cs)[k] = cs[i]
  BY UnfinishedAreCalls DEF CallsOK
<1> QED BY <1>1 DEF CallsOK

LEMMA PanelGone ==
  ASSUME NEW cs, CallsOK(cs)
  PROVE  CallsOK(WithoutPanel(cs))
<1> DEFINE ds == [i \in DOMAIN cs |-> [cs[i] EXCEPT !.brings = @ \ {"apps"}]]
<1>1. DOMAIN cs = 1..Len(cs) /\ Len(cs) \in Nat /\ \A i \in DOMAIN cs : cs[i] \in Call
  BY DEF CallsOK
<1>2. \A i \in DOMAIN cs : ds[i] \in Call /\ ds[i].as = cs[i].as
  BY <1>1 DEF Call
<1>3. ds \in Seq(Call) /\ DOMAIN ds = DOMAIN cs
  <2> HIDE DEF ds
  <2>1. DOMAIN ds = DOMAIN cs /\ ds = [i \in DOMAIN cs |-> ds[i]]
    BY DEF ds
  <2> QED BY <1>1, <1>2, <2>1, IsASeq
<1>4. CallsOK(ds)
  BY <1>2, <1>3 DEF CallsOK
<1> HIDE DEF ds
<1>5. CallsOK(Unfinished(ds))
  BY <1>4, StillInFlight
<1> QED BY <1>5 DEF WithoutPanel, ds

LEMMA Landed ==
  ASSUME NEW i \in DOMAIN calls, CallsOK(calls), NEW left \in SUBSET {"locations", "apps"}
  PROVE  CallsOK(Unfinished([calls EXCEPT ![i].brings = left]))
<1> DEFINE ds == [calls EXCEPT ![i].brings = left]
<1>1. calls[i] \in Call
  BY DEF CallsOK
<1>2. [calls[i] EXCEPT !.brings = left] \in Call /\ [calls[i] EXCEPT !.brings = left].as = calls[i].as
  BY <1>1 DEF Call
<1>3. ds = [calls EXCEPT ![i] = [calls[i] EXCEPT !.brings = left]]
  OBVIOUS
<1>4. ds \in Seq(Call) /\ DOMAIN ds = DOMAIN calls /\ \A j \in DOMAIN calls : ds[j].as = calls[j].as
  BY <1>2, <1>3 DEF CallsOK
<1>5. CallsOK(ds)
  BY <1>4 DEF CallsOK
<1> HIDE DEF ds
<1>6. CallsOK(Unfinished(ds))
  BY <1>5, StillInFlight
<1> QED BY <1>6 DEF ds

(* An answer is for the user on the screen, or for nobody.                 *)
LEMMA AnsweredToOwner ==
  ASSUME UsersAssumption, AuthInv, CallsOK(calls), NEW i \in DOMAIN calls, NEW ok \in BOOLEAN,
         NEW u \in AnsweredTo(calls[i], ok), NEW f, NEW s
  PROVE  OwnOrNothing(LocationsOf(u, f)) /\ OwnOrNothing(AppsOf(u, f, s))
<1>1. ctx.user # NoUser => u \in {ctx.user, NoUser}
  BY DEF AnsweredTo, CallsOK, AuthInv, UserFollowsLogin
<1>2. NoUser \notin Visitors
  BY DEF Visitors, UsersAssumption
<1> QED BY <1>1, <1>2 DEF OwnOrNothing, LocationsOf, AppsOf

(* The calls that the dashboard makes.                                     *)
LEMMA CallsMade ==
  ASSUME AuthInv, NEW f \in Filters, NEW s \in Sites \cup {NoSite}
  PROVE  /\ RefreshLocations(f) \in Call /\ RefreshLocations(f).as = cookie
         /\ RefreshApps(s, f) \in Call /\ RefreshApps(s, f).as = cookie
BY DEF AuthInv, AuthTypeOK, RefreshLocations, RefreshApps, Call

(* A step of the dashboard of a user who stays.                            *)
LEMMA DashboardStep ==
  ASSUME ViewInv, UNCHANGED authVars, ShowsDashboard, ViewTypeOK',
         OwnOrNothing(locations)', OwnOrNothing(apps)', CallsOK(calls)'
  PROVE  ViewInv'
BY DEF ViewInv, authVars, ShowsDashboard

-----------------------------------------------------------------------------
(* Every step of the dashboard keeps its invariant.                        *)
LEMMA InitializedPreserves ==
  ASSUME UsersAssumption, ClientAssumption, ClientInv, NEW ok \in BOOLEAN, Initialized(ok),
         UNCHANGED <<authVars, filters>>
  PROVE  ViewInv'
<1>1. boot # Nothing /\ boot \in Filters /\ ShowsDashboard
  BY DEF Initialized, ClientInv, ViewInv, ViewTypeOK, NotMounted
<1>2. CallsOK(calls') 
  <2>1. CallsOK(Append(calls, RefreshLocations(boot)))
    BY <1>1, Asked, CallsMade DEF ClientInv, ViewInv
  <2> QED BY <2>1 DEF Initialized, ClientInv, ViewInv
<1>3. CallsOK(calls)'
  BY <1>2 DEF CallsOK, authVars
<1>4. ViewTypeOK' /\ OwnOrNothing(locations)' /\ OwnOrNothing(apps)'
  BY DEF Initialized, ClientInv, ViewInv, ViewTypeOK, OwnOrNothing, authVars
<1> QED BY <1>1, <1>3, <1>4, DashboardStep DEF ClientInv

LEMMA PollPreserves ==
  ASSUME UsersAssumption, ClientAssumption, ClientInv, Poll
  PROVE  ViewInv'
<1>1. ShowsDashboard /\ filters \in Filters /\ site \in Sites \cup {NoSite}
  BY DEF Poll, PollLocations, PollApps, ClientInv, ViewInv, ViewTypeOK
<1>2. CallsOK(calls')
  <2>1. CallsOK(Append(calls, RefreshLocations(filters))) /\ CallsOK(Append(calls, RefreshApps(site, filters)))
    BY <1>1, Asked, CallsMade DEF ClientInv, ViewInv
  <2> QED BY <2>1 DEF Poll, PollLocations, PollApps
<1>3. CallsOK(calls)'
  BY <1>2 DEF CallsOK, Poll, authVars
<1>4. ViewTypeOK' /\ OwnOrNothing(locations)' /\ OwnOrNothing(apps)'
  BY DEF Poll, PollLocations, PollApps, ClientInv, ViewInv, ViewTypeOK, OwnOrNothing, authVars
<1>5. UNCHANGED authVars
  BY DEF Poll
<1> QED BY <1>1, <1>3, <1>4, <1>5, DashboardStep DEF ClientInv

LEMMA ChangeFiltersPreserves ==
  ASSUME UsersAssumption, ClientAssumption, ClientInv, NEW f \in Filters, ChangeFilters(f), UNCHANGED authVars
  PROVE  ViewInv'
<1>1. ShowsDashboard /\ site \in Sites \cup {NoSite}
  BY DEF ChangeFilters, ClientInv, ViewInv, ViewTypeOK
<1> DEFINE fromPanel == RefreshApps(site, f)
           fromMap == RefreshLocations(f)
<1>2. fromPanel \in Call /\ fromMap \in Call /\ fromPanel.as = cookie /\ fromMap.as = cookie
  BY <1>1, CallsMade DEF ClientInv
<1>3. \/ calls' = calls \o Append(<<fromPanel>>, fromMap)
      \/ calls' = calls \o Append(<<>>, fromMap)
  BY DEF ChangeFilters
<1> HIDE DEF fromPanel, fromMap
<1>4. calls \in Seq(Call) /\ CallsOK(calls)
  BY DEF ClientInv, ViewInv, CallsOK
<1>5. /\ calls \o Append(<<fromPanel>>, fromMap) = Append(Append(calls, fromPanel), fromMap)
      /\ calls \o Append(<<>>, fromMap) = Append(calls, fromMap)
  BY <1>2, <1>4
<1>6. CallsOK(calls')
  BY <1>2, <1>3, <1>4, <1>5, Asked DEF ClientInv
<1>7. CallsOK(calls)'
  BY <1>6 DEF CallsOK, authVars
<1>8. ViewTypeOK' /\ OwnOrNothing(locations)' /\ OwnOrNothing(apps)'
  BY DEF ChangeFilters, ClientInv, ViewInv, ViewTypeOK, OwnOrNothing, authVars
<1> QED BY <1>1, <1>7, <1>8, DashboardStep DEF ClientInv

LEMMA ClickSitePreserves ==
  ASSUME UsersAssumption, ClientAssumption, ClientInv, NEW s \in Sites, ClickSite(s),
         UNCHANGED <<authVars, filters>>
  PROVE  ViewInv'
<1>1. ShowsDashboard /\ filters \in Filters /\ CallsOK(calls)
  BY DEF ClickSite, ClientInv, ViewInv, ViewTypeOK
<1>2. CallsOK(Append(calls, RefreshApps(s, filters))) /\ CallsOK(WithoutPanel(calls))
  BY <1>1, Asked, CallsMade, PanelGone DEF ClientInv
<1>3. CallsOK(calls')
  BY <1>1, <1>2 DEF ClickSite
<1>4. CallsOK(calls)'
  BY <1>3 DEF CallsOK, authVars
<1>5. ViewTypeOK' /\ OwnOrNothing(locations)' /\ OwnOrNothing(apps)'
  BY DEF ClickSite, ClientInv, ViewInv, ViewTypeOK, OwnOrNothing, authVars
<1> QED BY <1>1, <1>4, <1>5, DashboardStep DEF ClientInv

LEMMA ClosePanelPreserves ==
  ASSUME UsersAssumption, ClientAssumption, ClientInv, ClosePanel, UNCHANGED <<authVars, filters>>
  PROVE  ViewInv'
<1>1. ShowsDashboard /\ CallsOK(calls)
  BY DEF ClosePanel, PanelShown, ClientInv, ViewInv, NotMounted
<1>2. CallsOK(calls')
  BY <1>1, PanelGone DEF ClosePanel
<1>3. CallsOK(calls)'
  BY <1>2 DEF CallsOK, authVars
<1>4. ViewTypeOK' /\ OwnOrNothing(locations)' /\ OwnOrNothing(apps)'
  BY DEF ClosePanel, ClientInv, ViewInv, ViewTypeOK, OwnOrNothing, authVars
<1> QED BY <1>1, <1>3, <1>4, DashboardStep DEF ClientInv

LEMMA LandPreserves ==
  ASSUME UsersAssumption, ClientAssumption, ClientInv, NEW i \in DOMAIN calls, NEW ok \in BOOLEAN,
         LandLocations(i, ok) \/ LandApps(i, ok), UNCHANGED <<authVars, filters>>
  PROVE  ViewInv'
<1>1. ShowsDashboard /\ CallsOK(calls) /\ calls[i] \in Call
  BY DEF ClientInv, ViewInv, NotMounted, CallsOK
<1>2. CallsOK(calls')
  <2>1. CASE LandLocations(i, ok)
    <3>1. calls' = Unfinished([calls EXCEPT ![i].brings = calls[i].brings \ {"locations"}])
      BY <2>1 DEF LandLocations
    <3>2. calls[i].brings \ {"locations"} \in SUBSET {"locations", "apps"}
      BY <1>1 DEF Call
    <3> QED BY <1>1, <3>1, <3>2, Landed
  <2>2. CASE LandApps(i, ok)
    <3>1. calls' = Unfinished([calls EXCEPT ![i].brings = {}])
      BY <2>2 DEF LandApps
    <3> QED BY <1>1, <3>1, Landed
  <2> QED BY <2>1, <2>2
<1>3. CallsOK(calls)'
  BY <1>2 DEF CallsOK, authVars
<1>4. ViewTypeOK'
  BY DEF LandLocations, LandApps, ClientInv, ViewInv, ViewTypeOK
<1>5. OwnOrNothing(locations') /\ OwnOrNothing(apps')
  <2>1. \A u \in AnsweredTo(calls[i], ok) :
          /\ OwnOrNothing(LocationsOf(u, calls[i].filters))
          /\ OwnOrNothing(AppsOf(u, calls[i].filters, calls[i].site))
    BY <1>1, AnsweredToOwner DEF ClientInv
  <2> QED BY <2>1 DEF LandLocations, LandApps, ClientInv, ViewInv
<1>6. OwnOrNothing(locations)' /\ OwnOrNothing(apps)'
  BY <1>5 DEF OwnOrNothing, authVars
<1> QED BY <1>1, <1>3, <1>4, <1>6, DashboardStep DEF ClientInv

(* A dispatch of the provider, and the dashboard that follows it.          *)
LEMMA DashboardFollowsPreserves ==
  ASSUME UsersAssumption, ClientAssumption, ClientInv, AuthInv', DashboardUser, DashboardFollows,
         UNCHANGED filters
  PROVE  ViewInv'
<1>1. CASE ~ShowsDashboard /\ ShowsDashboard' /\ Mount
  <2>1. RefreshLocations(filters) \in Call /\ RefreshLocations(filters).as = cookie
    BY CallsMade DEF ClientInv, ViewInv, ViewTypeOK
  <2>2. calls' = <<RefreshLocations(filters)>>
    BY <1>1 DEF Mount
  <2>3. CallsOK(calls)'
    BY <2>1, <2>2 DEF CallsOK, DashboardUser
  <2>4. locations' = Nothing /\ apps' = Nothing
    BY <1>1 DEF Mount, ClientInv, ViewInv, NotMounted
  <2>5. ViewTypeOK'
    BY <1>1 DEF Mount, ClientInv, ViewInv, ViewTypeOK
  <2> QED BY <1>1, <2>3, <2>4, <2>5 DEF ViewInv, OwnOrNothing
<1>2. CASE ShowsDashboard /\ ~ShowsDashboard' /\ Unmount
  BY <1>2 DEF Unmount, NotMounted, CallsOK, ClientInv, ViewInv, ViewTypeOK, OwnOrNothing
<1>3. CASE (ShowsDashboard <=> ShowsDashboard') /\ UNCHANGED view
  <2>1. /\ interval' = interval /\ boot' = boot /\ locations' = locations /\ site' = site
        /\ sameObject' = sameObject /\ panelOpen' = panelOpen /\ apps' = apps /\ calls' = calls
    BY <1>3 DEF view
  <2>2. ViewTypeOK' /\ (~ShowsDashboard' => NotMounted')
    BY <1>3, <2>1 DEF ClientInv, ViewInv, ViewTypeOK, NotMounted
  <2>3. CASE ShowsDashboard
    <3>1. ctx'.user # NoUser => ctx'.user = ctx.user
      BY <2>3 DEF DashboardUser
    <3>2. OwnOrNothing(locations)' /\ OwnOrNothing(apps)' /\ CallsOK(calls)'
      BY <2>1, <3>1 DEF ClientInv, ViewInv, OwnOrNothing, CallsOK
    <3> QED BY <2>2, <3>2 DEF ViewInv
  <2>4. CASE ~ShowsDashboard
    <3>1. locations' = Nothing /\ apps' = Nothing /\ calls' = <<>>
      BY <2>1, <2>4 DEF ClientInv, ViewInv, NotMounted
    <3>2. OwnOrNothing(locations)' /\ OwnOrNothing(apps)' /\ CallsOK(calls)'
      BY <3>1 DEF OwnOrNothing, CallsOK
    <3> QED BY <2>2, <3>2 DEF ViewInv
  <2> QED BY <2>3, <2>4
<1> QED BY <1>1, <1>2, <1>3 DEF DashboardFollows

(* Unmounted, the dashboard is as before the first login.                  *)
LEMMA NotMountedView ==
  ASSUME filters \in Filters, NotMounted
  PROVE  ViewInv
BY DEF NotMounted, ViewInv, ViewTypeOK, OwnOrNothing, CallsOK

-----------------------------------------------------------------------------
LEMMA ClientInitInv ==
  ASSUME UsersAssumption, ClientInit
  PROVE  ClientInv
<1>1. AuthInv /\ filters \in Filters /\ NotMounted
  BY AuthInitInv DEF ClientInit
<1> QED BY <1>1, NotMountedView DEF ClientInv

LEMMA ClientInvNext ==
  ASSUME UsersAssumption, ClientAssumption, ClientInv, [ClientNext]_clientVars
  PROVE  ClientInv'
<1>1. ASSUME NEW ok \in BOOLEAN, AuthRequest(ok) PROVE ClientInv'
  <2>1. AuthStep(ok) /\ DashboardFollows /\ UNCHANGED filters /\ AuthInv
    BY <1>1 DEF AuthRequest, ClientInv
  <2>2. AuthInv' /\ DashboardUser
    BY <2>1, GetAuthConfigPreserves, ValidateSessionPreserves, InitCurrentUserPreserves, PostLoginPreserves,
       LoginCurrentUserPreserves, PostLogoutPreserves DEF AuthStep
  <2> QED BY <2>1, <2>2, DashboardFollowsPreserves DEF ClientInv
<1>2. ASSUME NEW ok \in BOOLEAN, InitializeAnswered(ok) PROVE ClientInv'
  <2>1. Initialized(ok) /\ UNCHANGED <<authVars, filters>>
    BY <1>2 DEF InitializeAnswered
  <2>2. AuthInv'
    BY <2>1 DEF ClientInv, AuthInv, AuthTypeOK, UserFollowsLogin, authVars
  <2> QED BY <2>1, <2>2, InitializedPreserves DEF ClientInv
<1>3. CASE UserAuth
  <2>1. DashboardFollows /\ UNCHANGED filters /\ AuthInv
    BY <1>3 DEF UserAuth, ClientInv
  <2>2. AuthInv' /\ DashboardUser
    BY <1>3, <2>1, LoginPreserves, LogoutPreserves, SessionEndsPreserves DEF UserAuth
  <2> QED BY <2>1, <2>2, DashboardFollowsPreserves DEF ClientInv
<1>4. CASE ReloadPage
  <2>1. PICK u \in Visitors \cup {NoUser} : Reload(u)
    BY <1>4 DEF ReloadPage
  <2>2. AuthInv'
    BY <2>1, ReloadPreserves DEF ClientInv
  <2>3. filters' \in Filters /\ NotMounted'
    BY <1>4 DEF ReloadPage, Unmount, NotMounted, ClientInv, ViewInv, ViewTypeOK
  <2>4. ViewInv'
    BY <2>3 DEF NotMounted, ViewInv, ViewTypeOK, OwnOrNothing, CallsOK
  <2> QED BY <2>2, <2>4 DEF ClientInv
<1>5. CASE Poll
  <2>1. AuthInv'
    BY <1>5 DEF Poll, ClientInv, AuthInv, AuthTypeOK, UserFollowsLogin, authVars
  <2> QED BY <1>5, <2>1, PollPreserves DEF ClientInv
<1>6. CASE UserActs
  <2>1. UNCHANGED authVars
    BY <1>6 DEF UserActs
  <2>2. AuthInv'
    BY <2>1 DEF ClientInv, AuthInv, AuthTypeOK, UserFollowsLogin, authVars
  <2>3. ViewInv'
    BY <1>6, ChangeFiltersPreserves, ClosePanelPreserves, ClickSitePreserves DEF UserActs
  <2> QED BY <2>2, <2>3 DEF ClientInv
<1>7. ASSUME NEW i \in DOMAIN calls, NEW ok \in BOOLEAN, Land(i, ok) PROVE ClientInv'
  <2>1. (LandLocations(i, ok) \/ LandApps(i, ok)) /\ UNCHANGED <<authVars, filters>>
    BY <1>7 DEF Land
  <2>2. AuthInv'
    BY <2>1 DEF ClientInv, AuthInv, AuthTypeOK, UserFollowsLogin, authVars
  <2> QED BY <2>1, <2>2, LandPreserves DEF ClientInv
<1>8. CASE UNCHANGED clientVars
  <2>1. AuthInv'
    BY <1>8 DEF clientVars, authVars, ClientInv, AuthInv, AuthTypeOK, UserFollowsLogin
  <2>2. ViewInv'
    BY <1>8 DEF clientVars, authVars, view, ClientInv, ViewInv, ViewTypeOK, NotMounted, ShowsDashboard,
                OwnOrNothing, CallsOK
  <2> QED BY <2>1, <2>2 DEF ClientInv
<1> QED BY <1>1, <1>2, <1>3, <1>4, <1>5, <1>6, <1>7, <1>8 DEF ClientNext

(* The authentication state and the dashboard agree in every reachable     *)
(* state, whatever requests fail and in whatever order answers arrive.     *)
THEOREM ClientInvCorrect == ClientSpec => []ClientInv
<1>1. ClientInit => ClientInv
  BY ClientInitInv, UsersAssumption
<1>2. ClientInv /\ [ClientNext]_clientVars => ClientInv'
  BY ClientInvNext, UsersAssumption, ClientAssumption
<1> QED BY <1>1, <1>2, PTL DEF ClientSpec

(* OwnDataOnly: the map and the panel of a logged-in user never show what  *)
(* the server computed for another (App.js, AppStatusPanel.js).            *)
THEOREM OwnDataOnlyCorrect == ClientSpec => []OwnDataOnly
<1>1. ClientInv => OwnDataOnly
  BY DEF ClientInv, ViewInv, OwnOrNothing, OwnDataOnly
<1> QED BY <1>1, ClientInvCorrect, PTL

(* LoginBeforeDashboard: once authentication is known to be required, the  *)
(* dashboard is shown only to a logged-in user (App.js:19).                *)
THEOREM LoginBeforeDashboardCorrect == ClientSpec => []LoginBeforeDashboard
<1>1. ClientInv => LoginBeforeDashboard
  BY DEF ClientInv, AuthInv, UserFollowsLogin, LoginBeforeDashboard, ShowsDashboard
<1> QED BY <1>1, ClientInvCorrect, PTL
-----------------------------------------------------------------------------
(***************************************************************************)
(* Answers settle: the safety part of LocationsCatchUp and PanelCatchesUp. *)
(***************************************************************************)

(* No call of cs brings that list but for the filters, user and site.      *)
Only(cs, list, f, u, s) ==
  \A i \in DOMAIN cs : list \in cs[i].brings =>
    cs[i].filters = f /\ cs[i].as = u /\ (list = "apps" => cs[i].site = s)

(* What is in flight for the map, or for the panel, was asked with the     *)
(* filters, the session and the site of now.                               *)
MapAsked(f, u) ==
  /\ ShowsDashboard /\ filters = f /\ cookie = u /\ boot \in {Nothing, f}
  /\ Only(calls, "locations", f, u, NoSite)
PanelAsked(f, u, s) ==
  /\ PanelShown /\ filters = f /\ cookie = u /\ site = s
  /\ Only(calls, "apps", f, u, s)

MapStays(f, u) == ShowsDashboard /\ filters = f /\ cookie = u
PanelStays(f, u, s) == PanelShown /\ filters = f /\ cookie = u /\ site = s

(* From then on, as long as those stay, nothing older can land: what is    *)
(* shown stays, or becomes the answer to them unless a request fails.      *)
AnswersSettle ==
  \A f \in Filters, u \in Visitors \cup {NoUser} :
    /\ MapAsked(f, u) /\ MapStays(f, u)' =>
         /\ MapAsked(f, u)'
         /\ failures' = failures => locations' \in {locations, LocationsOf(u, f)}
    /\ \A s \in Sites : PanelAsked(f, u, s) /\ PanelStays(f, u, s)' =>
         /\ PanelAsked(f, u, s)'
         /\ failures' = failures => apps' \in {apps, AppsOf(u, f, s)}

(* Who has only such calls in flight has them still when one more is made, *)
(* when one brings something, and when the panel goes.                     *)
LEMMA OnlyAppended ==
  ASSUME NEW cs \in Seq(Call), NEW c \in Call, NEW list, NEW f, NEW u, NEW s, Only(cs, list, f, u, s),
         list \in c.brings => c.filters = f /\ c.as = u /\ (list = "apps" => c.site = s)
  PROVE  Only(Append(cs, c), list, f, u, s)
<1>1. \A i \in DOMAIN Append(cs, c) : Append(cs, c)[i] = c \/ (i \in DOMAIN cs /\ Append(cs, c)[i] = cs[i])
  OBVIOUS
<1> QED BY <1>1 DEF Only

LEMMA OnlyUnfinished ==
  ASSUME NEW cs \in Seq(Call), NEW list, NEW f, NEW u, NEW s, Only(cs, list, f, u, s)
  PROVE  Only(Unfinished(cs), list, f, u, s)
<1>1. \A k \in DOMAIN Unfinished(cs) : \E i \in DOMAIN cs : Unfinished(cs)[k] = cs[i]
  BY UnfinishedAreCalls
<1> QED BY <1>1 DEF Only

LEMMA OnlyWithoutPanel ==
  ASSUME NEW cs \in Seq(Call), NEW list, NEW f, NEW u, NEW s, Only(cs, list, f, u, s)
  PROVE  Only(WithoutPanel(cs), list, f, u, s)
<1> DEFINE ds == [i \in DOMAIN cs |-> [cs[i] EXCEPT !.brings = @ \ {"apps"}]]
<1>1. DOMAIN cs = 1..Len(cs) /\ Len(cs) \in Nat /\ \A i \in DOMAIN cs : cs[i] \in Call
  OBVIOUS
<1>2. \A i \in DOMAIN cs :
        /\ ds[i] \in Call /\ ds[i].brings \subseteq cs[i].brings
        /\ ds[i].filters = cs[i].filters /\ ds[i].as = cs[i].as /\ ds[i].site = cs[i].site
  BY <1>1 DEF Call
<1>3. DOMAIN ds = DOMAIN cs /\ ds = [i \in DOMAIN cs |-> ds[i]]
  OBVIOUS
<1> HIDE DEF ds
<1>4. ds \in Seq(Call)
  BY <1>1, <1>2, <1>3, IsASeq
<1>5. Only(ds, list, f, u, s)
  BY <1>2, <1>3 DEF Only
<1>6. Only(Unfinished(ds), list, f, u, s)
  BY <1>4, <1>5, OnlyUnfinished
<1> QED BY <1>6 DEF WithoutPanel, ds

LEMMA OnlyLanded ==
  ASSUME NEW cs \in Seq(Call), NEW i \in DOMAIN cs, NEW left \in SUBSET cs[i].brings,
         NEW list, NEW f, NEW u, NEW s, Only(cs, list, f, u, s)
  PROVE  Only(Unfinished([cs EXCEPT ![i].brings = left]), list, f, u, s)
<1> DEFINE ds == [cs EXCEPT ![i].brings = left]
           d == [cs[i] EXCEPT !.brings = left]
<1>1. cs[i] \in Call
  OBVIOUS
<1>2. /\ d \in Call /\ d.brings = left
      /\ d.filters = cs[i].filters /\ d.as = cs[i].as /\ d.site = cs[i].site
  BY <1>1 DEF Call
<1>3. ds = [cs EXCEPT ![i] = d]
  OBVIOUS
<1> HIDE DEF ds, d
<1>4. ds \in Seq(Call) /\ DOMAIN ds = DOMAIN cs /\ ds[i] = d /\ \A j \in DOMAIN cs \ {i} : ds[j] = cs[j]
  BY <1>2, <1>3
<1>5. Only(ds, list, f, u, s)
  BY <1>2, <1>4 DEF Only
<1>6. Only(Unfinished(ds), list, f, u, s)
  BY <1>4, <1>5, OnlyUnfinished
<1> QED BY <1>6 DEF ds

(* A request that fails is counted.                                        *)
FailuresOK == failures \in Nat

LEMMA FailuresCounted ==
  ASSUME FailuresOK, [ClientNext]_clientVars
  PROVE  FailuresOK'
<1> USE DEF FailuresOK
<1>1. ASSUME NEW ok \in BOOLEAN, Counted(ok) PROVE failures' \in Nat
  BY <1>1 DEF Counted
<1>2. CASE UserAuth \/ ReloadPage \/ Poll \/ UserActs \/ UNCHANGED clientVars
  BY <1>2 DEF UserAuth, ReloadPage, Poll, UserActs, clientVars
<1> QED BY <1>1, <1>2 DEF ClientNext, AuthRequest, InitializeAnswered, Land

LEMMA NoFailure ==
  ASSUME FailuresOK, NEW ok \in BOOLEAN, Counted(ok), failures' = failures
  PROVE  ok
BY DEF Counted, FailuresOK

(* A step while the dashboard stays, with the filters and the cookie it    *)
(* has: what it does to the calls, and which answer lands.                 *)
Asks(c) == calls' = Append(calls, c) /\ UNCHANGED <<locations, apps>>
Lands(i, list, ok) ==
  /\ list \in calls[i].brings
  /\ calls' = Unfinished([calls EXCEPT ![i].brings = IF list = "apps" THEN {} ELSE @ \ {"locations"}])
  /\ \/ /\ list = "locations" /\ UNCHANGED apps
        /\ \E u \in AnsweredTo(calls[i], ok) : locations' = LocationsOf(u, calls[i].filters)
     \/ /\ list = "apps" /\ UNCHANGED locations
        /\ \E u \in AnsweredTo(calls[i], ok) : apps' = AppsOf(u, calls[i].filters, calls[i].site)
  /\ Counted(ok)

DashboardMoves ==
  \/ UNCHANGED <<calls, locations, apps>>
  \/ boot # Nothing /\ Asks(RefreshLocations(boot))
  \/ Asks(RefreshLocations(filters))
  \/ site' \in Sites /\ Asks(RefreshApps(site', filters))
  \/ calls' = WithoutPanel(calls) /\ UNCHANGED locations /\ ~PanelShown'
  \/ \E i \in DOMAIN calls, list \in {"locations", "apps"}, ok \in BOOLEAN : Lands(i, list, ok)

LEMMA WhileTheDashboardStays ==
  ASSUME UsersAssumption, ClientAssumption, ClientInv, [ClientNext]_clientVars,
         ShowsDashboard, ShowsDashboard', filters' = filters
  PROVE  DashboardMoves /\ boot' \in {boot, Nothing}
<1>0. site \in Sites \cup {NoSite} /\ AuthInv
  BY DEF ClientInv, ViewInv, ViewTypeOK
<1>1. CASE UNCHANGED view
  BY <1>1 DEF view, DashboardMoves
<1>2. CASE (\E ok \in BOOLEAN : AuthRequest(ok)) \/ UserAuth
  <2>1. DashboardFollows
    BY <1>2 DEF AuthRequest, UserAuth
  <2> QED BY <1>1, <2>1 DEF DashboardFollows
<1>3. ASSUME NEW ok \in BOOLEAN, InitializeAnswered(ok) PROVE DashboardMoves /\ boot' \in {boot, Nothing}
  BY <1>3 DEF InitializeAnswered, Initialized, DashboardMoves, Asks
<1>4. CASE ReloadPage
  <2>1. PICK u \in Visitors \cup {NoUser} : Reload(u)
    BY <1>4 DEF ReloadPage
  <2> QED BY <1>0, <2>1, ReloadPreserves
<1>5. CASE Poll
  <2>1. CASE PollLocations
    BY <2>1 DEF PollLocations, DashboardMoves, Asks
  <2>2. CASE PollApps
    <3>1. site' \in Sites /\ site' = site
      BY <1>0, <2>2 DEF PollApps, PanelShown
    <3> QED BY <2>2, <3>1 DEF PollApps, DashboardMoves, Asks
  <2> QED BY <1>5, <2>1, <2>2 DEF Poll
<1>6. CASE UserActs
  <2>1. ASSUME NEW f \in Filters, ChangeFilters(f) PROVE FALSE
    BY <2>1 DEF ChangeFilters
  <2>2. CASE ClosePanel
    BY <2>2 DEF ClosePanel, PanelShown, DashboardMoves
  <2>3. ASSUME NEW s \in Sites, ClickSite(s) PROVE DashboardMoves /\ boot' \in {boot, Nothing}
    <3> DEFINE open == IF s = site /\ sameObject THEN ~panelOpen ELSE TRUE
               asks == open /\ (~PanelShown \/ s # site)
    <3>1. /\ site' = s /\ panelOpen' = open /\ UNCHANGED <<locations, boot>>
          /\ calls' = IF asks THEN Append(calls, RefreshApps(s, filters))
                      ELSE IF open THEN calls ELSE WithoutPanel(calls)
          /\ apps' = IF open THEN apps ELSE Nothing
      BY <2>3 DEF ClickSite
    <3>2. CASE asks
      BY <3>1, <3>2 DEF DashboardMoves, Asks
    <3>3. CASE ~asks /\ open
      BY <3>1, <3>3 DEF DashboardMoves
    <3>4. CASE ~open
      BY <3>1, <3>4 DEF DashboardMoves, PanelShown
    <3> QED BY <3>2, <3>3, <3>4
  <2> QED BY <1>6, <2>1, <2>2, <2>3 DEF UserActs
<1>7. ASSUME NEW i \in DOMAIN calls, NEW ok \in BOOLEAN, Land(i, ok) PROVE DashboardMoves /\ boot' \in {boot, Nothing}
  <2>1. Counted(ok)
    BY <1>7 DEF Land
  <2>2. CASE LandLocations(i, ok)
    <3>1. Lands(i, "locations", ok) /\ boot' = boot
      BY <2>1, <2>2 DEF LandLocations, Lands
    <3> QED BY <3>1 DEF DashboardMoves
  <2>3. CASE LandApps(i, ok)
    <3>1. Lands(i, "apps", ok) /\ boot' = boot
      BY <2>1, <2>3 DEF LandApps, Lands
    <3> QED BY <3>1 DEF DashboardMoves
  <2> QED BY <1>7, <2>2, <2>3 DEF Land
<1>8. CASE UNCHANGED clientVars
  BY <1>1, <1>8 DEF clientVars
<1> QED BY <1>2, <1>3, <1>4, <1>5, <1>6, <1>7, <1>8 DEF ClientNext

(* No such step adds a call for anything else, or lands one.               *)
LEMMA StillOnly ==
  ASSUME ClientAssumption, ClientInv, DashboardMoves, FailuresOK,
         NEW list \in {"locations", "apps"}, NEW f, NEW u, NEW s, filters = f, cookie = u,
         Only(calls, list, f, u, s), list = "locations" => boot \in {Nothing, f}, list = "apps" => PanelShown' /\ site' = s
  PROVE  /\ Only(calls', list, f, u, s)
         /\ failures' = failures /\ list = "locations" => locations' \in {locations, LocationsOf(u, f)}
         /\ failures' = failures /\ list = "apps" => apps' \in {apps, AppsOf(u, f, s)}
<1> DEFINE Goal == /\ Only(calls', list, f, u, s)
                   /\ failures' = failures /\ list = "locations" => locations' \in {locations, LocationsOf(u, f)}
                   /\ failures' = failures /\ list = "apps" => apps' \in {apps, AppsOf(u, f, s)}
<1> SUFFICES Goal
  OBVIOUS
<1>0. calls \in Seq(Call) /\ AuthInv /\ filters \in Filters /\ boot \in Filters \cup {Nothing}
  BY DEF ClientInv, ViewInv, ViewTypeOK, CallsOK
<1>1. CASE UNCHANGED <<calls, locations, apps>>
  BY <1>1
<1>2. ASSUME NEW g \in Filters, Asks(RefreshLocations(g)), list = "locations" => g = f
      PROVE  Goal
  <2> DEFINE c == RefreshLocations(g)
  <2>1. c \in Call /\ c.as = u /\ c.filters = g /\ c.brings = {"locations"}
    <3>1. c \in Call
      BY <1>0, CallsMade
    <3> QED BY <3>1 DEF RefreshLocations
  <2> HIDE DEF c
  <2>2. Only(Append(calls, c), list, f, u, s)
    BY <1>0, <1>2, <2>1, OnlyAppended
  <2> QED BY <1>2, <2>2 DEF Asks, c
<1>3. CASE site' \in Sites /\ Asks(RefreshApps(site', filters))
  <2> DEFINE c == RefreshApps(site', f)
  <2>1. c \in Call /\ c.as = u /\ c.filters = f /\ c.site = site'
    <3>1. c \in Call
      BY <1>0, <1>3, CallsMade
    <3> QED BY <3>1 DEF RefreshApps
  <2> HIDE DEF c
  <2>2. Only(Append(calls, c), list, f, u, s)
    BY <1>0, <2>1, OnlyAppended
  <2> QED BY <1>3, <2>2 DEF Asks, c
<1>4. CASE calls' = WithoutPanel(calls) /\ UNCHANGED locations /\ ~PanelShown'
  BY <1>0, <1>4, OnlyWithoutPanel
<1>5. ASSUME NEW i \in DOMAIN calls, NEW l \in {"locations", "apps"}, NEW ok \in BOOLEAN, Lands(i, l, ok)
      PROVE  Goal
  <2> DEFINE left == IF l = "apps" THEN {} ELSE calls[i].brings \ {"locations"}
  <2>1. calls' = Unfinished([calls EXCEPT ![i].brings = left])
    BY <1>5 DEF Lands
  <2>2. left \in SUBSET calls[i].brings
    OBVIOUS
  <2> HIDE DEF left
  <2>3. Only(calls', list, f, u, s)
    BY <1>0, <2>1, <2>2, OnlyLanded
  <2>4. l \in calls[i].brings
    BY <1>5 DEF Lands
  <2>5. l = list => calls[i].filters = f /\ calls[i].as = u /\ (list = "apps" => calls[i].site = s)
    BY <2>4 DEF Only
  <2>6. failures' = failures /\ l = list => AnsweredTo(calls[i], ok) = {u}
    <3>1. failures' = failures => ok
      BY <1>5, NoFailure DEF Lands
    <3> QED BY <2>5, <3>1 DEF AnsweredTo
  <2>7. failures' = failures /\ list = "locations" => locations' \in {locations, LocationsOf(u, f)}
    BY <1>5, <2>5, <2>6 DEF Lands
  <2>8. failures' = failures /\ list = "apps" => apps' \in {apps, AppsOf(u, f, s)}
    BY <1>5, <2>5, <2>6 DEF Lands
  <2> QED BY <2>3, <2>7, <2>8
<1>6. CASE boot # Nothing /\ Asks(RefreshLocations(boot))
  BY <1>0, <1>2, <1>6
<1>7. CASE Asks(RefreshLocations(filters))
  BY <1>0, <1>2, <1>7
<1> HIDE DEF Goal
<1> QED BY <1>1, <1>3, <1>4, <1>5, <1>6, <1>7 DEF DashboardMoves

(* So both kinds of answers settle, for the cookie and the filters of now. *)
LEMMA AnswersStepSettle ==
  ASSUME UsersAssumption, ClientAssumption, ClientInv, ClientInv', FailuresOK, [ClientNext]_clientVars
  PROVE  AnswersSettle
<1> SUFFICES ASSUME NEW f \in Filters, NEW u \in Visitors \cup {NoUser}
             PROVE  /\ MapAsked(f, u) /\ MapStays(f, u)' =>
                         /\ MapAsked(f, u)'
                         /\ failures' = failures => locations' \in {locations, LocationsOf(u, f)}
                    /\ \A s \in Sites : PanelAsked(f, u, s) /\ PanelStays(f, u, s)' =>
                         /\ PanelAsked(f, u, s)'
                         /\ failures' = failures => apps' \in {apps, AppsOf(u, f, s)}
  BY DEF AnswersSettle
<1>1. ASSUME MapAsked(f, u), MapStays(f, u)'
      PROVE  /\ MapAsked(f, u)'
             /\ failures' = failures => locations' \in {locations, LocationsOf(u, f)}
  <2>1. ShowsDashboard /\ ShowsDashboard' /\ filters = f /\ filters' = f /\ cookie = u /\ cookie' = u
    BY <1>1 DEF MapAsked, MapStays
  <2>2. DashboardMoves /\ boot' \in {boot, Nothing}
    BY <2>1, WhileTheDashboardStays
  <2>3. Only(calls, "locations", f, u, NoSite) /\ boot \in {Nothing, f}
    BY <1>1 DEF MapAsked
  <2>4. /\ Only(calls', "locations", f, u, NoSite)
        /\ failures' = failures => locations' \in {locations, LocationsOf(u, f)}
    BY <2>1, <2>2, <2>3, StillOnly
  <2>5. Only(calls, "locations", f, u, NoSite)'
    BY <2>4 DEF Only
  <2> QED BY <2>1, <2>2, <2>3, <2>4, <2>5 DEF MapAsked
<1>2. ASSUME NEW s \in Sites, PanelAsked(f, u, s), PanelStays(f, u, s)'
      PROVE  /\ PanelAsked(f, u, s)'
             /\ failures' = failures => apps' \in {apps, AppsOf(u, f, s)}
  <2>1. PanelShown /\ PanelShown' /\ filters = f /\ filters' = f /\ cookie = u /\ cookie' = u /\ site = s /\ site' = s
    BY <1>2 DEF PanelAsked, PanelStays
  <2>2. ShowsDashboard /\ ShowsDashboard'
    BY <2>1 DEF ClientInv, ViewInv, NotMounted, PanelShown
  <2>3. DashboardMoves
    BY <2>1, <2>2, WhileTheDashboardStays
  <2>4. Only(calls, "apps", f, u, s)
    BY <1>2 DEF PanelAsked
  <2>5. /\ Only(calls', "apps", f, u, s)
        /\ failures' = failures => apps' \in {apps, AppsOf(u, f, s)}
    BY <2>1, <2>3, <2>4, StillOnly
  <2>6. Only(calls, "apps", f, u, s)'
    BY <2>5 DEF Only
  <2> QED BY <2>1, <2>5, <2>6 DEF PanelAsked
<1> QED BY <1>1, <1>2

(* The safety part of LocationsCatchUp and PanelCatchesUp: once no refresh *)
(* asked with other filters, for another site or with another session is   *)
(* in flight, what the map and the panel show is only ever replaced by the *)
(* answer to those of now (App.js, refreshLocations; AppStatusPanel.js,    *)
(* refreshApps), whoever clicks, polls or logs in meanwhile.               *)
THEOREM AnswersSettleCorrect == ClientSpec => [][AnswersSettle]_clientVars
<1>1. ClientInit => FailuresOK
  BY DEF ClientInit, FailuresOK
<1>2. FailuresOK /\ [ClientNext]_clientVars => FailuresOK'
  BY FailuresCounted
<1>3. ClientInv /\ ClientInv' /\ FailuresOK /\ [ClientNext]_clientVars => AnswersSettle
  BY AnswersStepSettle, UsersAssumption, ClientAssumption
<1> QED BY <1>1, <1>2, <1>3, ClientInvCorrect, PTL DEF ClientSpec
=============================================================================
