----------------------------- MODULE ClientAuth -----------------------------
(***************************************************************************)
(* The authentication state of the web client (contexts/AuthContext.js): a *)
(* reducer, and three asynchronous functions (initialize, login, logout)   *)
(* that dispatch to it around their calls to the server.                   *)
(*                                                                         *)
(* The server side of a session (module Sessions) is reduced to `cookie`,  *)
(* the user the server sees in a request of this browser: it stops being   *)
(* valid at any moment (expiry, restart).  With authentication off every   *)
(* request is answered as `Anonymous`'s.  The messages shown after a failed *)
(* call (error, loginError) are left out.                                  *)
(***************************************************************************)
EXTENDS Naturals

CONSTANTS Users,      \* those who can log in
          NoUser,     \* null: nobody is logged in
          Anonymous   \* whoever asks while authentication is off

ASSUME UsersAssumption == NoUser \notin Users /\ Anonymous \notin Users /\ NoUser # Anonymous

VARIABLES authEnabled,   \* the server's setting, what GET /auth/config answers
          cookie,        \* whose valid session the browser's cookie names
          ctx,           \* the reducer's state
          authCall       \* where the provider's running function is waiting

authVars == <<authEnabled, cookie, ctx, authCall>>

Idle == [at |-> "none", as |-> NoUser]

(* --- the reducer ------------------------------------------------------- *)

initialState ==
  [isInitialized |-> FALSE, isLoading |-> FALSE, needsAuthentication |-> FALSE,
   user |-> NoUser, authConfig |-> "unknown"]

InitStart(state) == [state EXCEPT !.isLoading = TRUE]

InitSuccess(state, u, config) ==
  [state EXCEPT !.isLoading = FALSE, !.isInitialized = TRUE,
                !.needsAuthentication = (config = "enabled" /\ u = NoUser),
                !.user = u, !.authConfig = config]

InitError(state) == [state EXCEPT !.isLoading = FALSE, !.isInitialized = TRUE]

LoginStart(state) == [state EXCEPT !.isLoading = TRUE]

LoginSuccess(state, u) ==
  [state EXCEPT !.isLoading = FALSE, !.needsAuthentication = FALSE, !.user = u]

LoginError(state) == [state EXCEPT !.isLoading = FALSE, !.user = NoUser]

LogoutStart(state) == [state EXCEPT !.isLoading = TRUE]

\* Mutant: the login form is not asked for.
LogoutSuccessStays(state) ==
  [state EXCEPT !.isLoading = FALSE, !.user = NoUser]
LogoutSuccess(state) ==
  [state EXCEPT !.isLoading = FALSE, !.user = NoUser,
                !.needsAuthentication = (state.authConfig = "enabled")]

(* LOGOUT_ERROR has no case: the default returns the state as it is, and   *)
(* isLoading stays set.                                                    *)
LogoutError(state) == state

(* AppContent shows the spinner, the login form or the dashboard.          *)
ShowsLogin == ctx.isInitialized /\ ctx.needsAuthentication
\* Mutant: the form is laid over it.
ShowsDashboardAlways == ctx.isInitialized
ShowsDashboard == ctx.isInitialized /\ ~ctx.needsAuthentication

(* --- a page load ------------------------------------------------------- *)

(* The provider mounts and calls initialize.                               *)
Loaded == [ctx |-> InitStart(initialState), call |-> [at |-> "config", as |-> NoUser]]

AuthInit ==
  /\ authEnabled \in BOOLEAN
  /\ cookie \in IF authEnabled THEN Users \cup {NoUser} ELSE {Anonymous}
  /\ ctx = Loaded.ctx
  /\ authCall = Loaded.call

Waits(at) == authCall.at = at

(* --- initialize -------------------------------------------------------- *)

GetAuthConfig(ok) ==
  /\ Waits("config")
  /\ \/ /\ ok /\ authEnabled
        /\ authCall' = [authCall EXCEPT !.at = "validate"]
        /\ UNCHANGED ctx
     \/ /\ ok /\ ~authEnabled
        /\ ctx' = InitSuccess(ctx, NoUser, "disabled")
        /\ authCall' = Idle
     \/ /\ ~ok
        /\ ctx' = InitError(ctx)
        /\ authCall' = Idle
  /\ UNCHANGED <<authEnabled, cookie>>

(* GET /auth/user, answered with 401 when there is no valid session.       *)
UserAnswered(ok) == ok /\ cookie # NoUser

(* validateSession only asks whether GET /auth/user works; the user comes  *)
(* from a second request, and the session may end between the two.         *)
ValidateSession(ok) ==
  /\ Waits("validate")
  /\ \/ /\ UserAnswered(ok)
        /\ authCall' = [authCall EXCEPT !.at = "current"]
        /\ UNCHANGED ctx
     \/ /\ ~UserAnswered(ok)
        /\ ctx' = InitSuccess(ctx, NoUser, "enabled")
        /\ authCall' = Idle
  /\ UNCHANGED <<authEnabled, cookie>>

InitCurrentUser(ok) ==
  /\ Waits("current")
  /\ ctx' = InitSuccess(ctx, IF UserAnswered(ok) THEN cookie ELSE NoUser, "enabled")
  /\ authCall' = Idle
  /\ UNCHANGED <<authEnabled, cookie>>

(* --- login ------------------------------------------------------------- *)

(* The form's button is disabled while isLoading is set.                   *)
Login(u) ==
  /\ ShowsLogin /\ ~ctx.isLoading
  /\ ctx' = LoginStart(ctx)
  /\ authCall' = [at |-> "login", as |-> u]
  /\ UNCHANGED <<authEnabled, cookie>>

PostLogin(ok) ==
  /\ Waits("login")
  /\ \/ /\ ok
        /\ cookie' = authCall.as
        /\ authCall' = [authCall EXCEPT !.at = "loginUser"]
        /\ UNCHANGED ctx
     \/ /\ ~ok
        /\ ctx' = LoginError(ctx)
        /\ authCall' = Idle
        /\ UNCHANGED cookie
  /\ UNCHANGED authEnabled

(* The cookie is set already: if this request fails, the form stays on     *)
(* screen with a valid session behind it.                                  *)
LoginCurrentUser(ok) ==
  /\ Waits("loginUser")
  /\ ctx' = IF UserAnswered(ok) THEN LoginSuccess(ctx, cookie) ELSE LoginError(ctx)
  /\ authCall' = Idle
  /\ UNCHANGED <<authEnabled, cookie>>

(* --- logout ------------------------------------------------------------ *)

(* From the user modal, which opens only when there is a user.             *)
Logout ==
  /\ ShowsDashboard /\ ctx.user # NoUser
  /\ authCall = Idle
  /\ ctx' = LogoutStart(ctx)
  /\ authCall' = [at |-> "logout", as |-> NoUser]
  /\ UNCHANGED <<authEnabled, cookie>>

(* A failed call may or may not have ended the session.                    *)
PostLogout(ok) ==
  /\ Waits("logout")
  /\ ctx' = IF ok THEN LogoutSuccess(ctx) ELSE LogoutError(ctx)
  /\ cookie' \in IF ok THEN {NoUser} ELSE {cookie, NoUser}
  /\ authCall' = Idle
  /\ UNCHANGED authEnabled

(* --- around the page --------------------------------------------------- *)

SessionEnds ==
  /\ cookie \in Users
  /\ cookie' = NoUser
  /\ UNCHANGED <<authEnabled, ctx, authCall>>

(* The page is loaded anew: by the browser, or at the end of a login with  *)
(* the OIDC provider, which left the page and comes back with a cookie.    *)
Reload(u) ==
  /\ \/ u = cookie
     \/ u \in Users /\ authEnabled /\ ShowsLogin /\ ~ctx.isLoading
  /\ cookie' = u
  /\ ctx' = Loaded.ctx
  /\ authCall' = Loaded.call
  /\ UNCHANGED authEnabled

AuthStep(ok) ==
  \/ GetAuthConfig(ok) \/ ValidateSession(ok) \/ InitCurrentUser(ok)
  \/ PostLogin(ok) \/ LoginCurrentUser(ok) \/ PostLogout(ok)
=============================================================================
