------------------------------ MODULE Sessions ------------------------------
(***************************************************************************)
(* The session manager, the requests that use it through RequireAuth, and  *)
(* its cleanup goroutine.  A session is an object that requests hold on to *)
(* after it left the map; its expiry is written under the mutex and read   *)
(* outside of it.  Time is a discrete clock that moves between any steps.  *)
(***************************************************************************)
EXTENDS Naturals

CONSTANTS
  Requests,    \* concurrent protected requests
  SessionIDs,  \* ids that generateSessionID may draw, each once
  Timeout,     \* session_timeout, in ticks
  MaxTime,     \* bound: the clock stops here
  Nobody

ASSUME SessionsAssumption ==
  /\ Timeout \in Nat \ {0} /\ MaxTime \in Nat \ {0}
  /\ Nobody \notin Requests /\ SessionIDs # {}

VARIABLES
  now,        \* the clock
  sessions,   \* ids in the manager's map
  expiresAt,  \* [id] -> ExpiresAt of its session object
  mutex,      \* the request that holds the mutex across steps, or Nobody
  req,        \* [request] -> what it does next, and for which session
  sweepTime,  \* the time the cleanup goroutine has read, or 0 while it sleeps
  created,    \* history: ids ever created
  loggedOut,  \* history: ids that were logged out, or whose process ended
  lapsed,     \* history: ids whose expiry passed
  refused,    \* history: ids of which a request was refused
  lastUse     \* history: [id] -> its login, or the last time a request was let in

store == <<sessions, expiresAt>>
history == <<created, loggedOut, lapsed, refused, lastUse>>
sessionVars == <<now, store, mutex, req, sweepTime, history>>

Idle == {"idle", "served", "refused"}
Steps == Idle \cup {"lookup", "check", "delete", "refresh", "extend"}

\* Reasons known when a request arrives for it to be refused.
Reasons == {"logged out", "refused before", "idle for too long"}

SessionsInit ==
  /\ now = 1 /\ mutex = Nobody /\ sweepTime = 0
  /\ sessions = {} /\ expiresAt = [s \in SessionIDs |-> 0]
  /\ req = [r \in Requests |-> [pc |-> "idle", id |-> CHOOSE s \in SessionIDs : TRUE, reasons |-> {}]]
  /\ created = {} /\ loggedOut = {} /\ lapsed = {} /\ refused = {}
  /\ lastUse = [s \in SessionIDs |-> 0]

InProgress(s) == \E r \in Requests : req[r].id = s /\ req[r].pc \notin Idle
Expired(s, t) == t > expiresAt[s]

Tick ==
  /\ now < MaxTime
  /\ now' = now + 1
  /\ lapsed' = lapsed \cup {s \in created : Expired(s, now')}
  /\ UNCHANGED <<store, mutex, req, sweepTime, created, loggedOut, refused, lastUse>>

\* HandleLogin or HandleOIDCCallback.
CreateSession(s) ==
  /\ mutex = Nobody
  /\ s \notin created
  /\ sessions' = sessions \cup {s}
  /\ expiresAt' = [expiresAt EXCEPT ![s] = now + Timeout]
  /\ created' = created \cup {s} /\ lastUse' = [lastUse EXCEPT ![s] = now]
  /\ UNCHANGED <<now, mutex, req, sweepTime, loggedOut, lapsed, refused>>

\* HandleLogout.
DeleteSession(s) ==
  /\ mutex = Nobody
  /\ s \in created
  /\ sessions' = sessions \ {s}
  /\ loggedOut' = loggedOut \cup {s}
  /\ UNCHANGED <<now, expiresAt, mutex, req, sweepTime, created, lapsed, refused, lastUse>>

\* A protected request arrives with a session cookie.
Arrive(r, s) ==
  /\ req[r].pc \in Idle
  /\ s \in created
  /\ req' = [req EXCEPT ![r] = [pc |-> "lookup", id |-> s, reasons |->
       {x \in Reasons : \/ x = "logged out" /\ s \in loggedOut
                        \/ x = "refused before" /\ s \in refused
                        \/ x = "idle for too long" /\ ~InProgress(s) /\ now > lastUse[s] + Timeout}]]
  /\ UNCHANGED <<now, store, mutex, sweepTime, history>>

At(r, step) == req[r].pc = step
Goto(r, step) == req' = [req EXCEPT ![r].pc = step]

Refuse(r) == Goto(r, "refused") /\ refused' = refused \cup {req[r].id}
             /\ UNCHANGED <<created, loggedOut, lapsed, lastUse>>
LetIn(r) == Goto(r, "served") /\ lastUse' = [lastUse EXCEPT ![req[r].id] = now]
            /\ UNCHANGED <<created, loggedOut, lapsed, refused>>

\* ValidateSession: the map is read under the mutex ...
Lookup(r) ==
  /\ At(r, "lookup") /\ mutex = Nobody
  /\ IF req[r].id \in sessions THEN Goto(r, "check") /\ UNCHANGED history ELSE Refuse(r)
  /\ UNCHANGED <<now, store, mutex, sweepTime>>

\* Mutant: an expired session is refused but not deleted.
CheckKeepsExpired(r) ==
  /\ At(r, "check")
  /\ IF Expired(req[r].id, now) THEN Refuse(r) ELSE Goto(r, "refresh") /\ UNCHANGED history
  /\ UNCHANGED <<now, store, mutex, sweepTime>>

\* ... and the expiry outside of it ...
Check(r) ==
  /\ At(r, "check")
  /\ Goto(r, IF Expired(req[r].id, now) THEN "delete" ELSE "refresh")
  /\ UNCHANGED <<now, store, mutex, sweepTime, history>>

\* ... and an expired session is deleted, under the mutex again.
DeleteExpired(r) ==
  /\ At(r, "delete") /\ mutex = Nobody
  /\ sessions' = sessions \ {req[r].id}
  /\ Refuse(r)
  /\ UNCHANGED <<now, expiresAt, mutex, sweepTime>>

\* RefreshSession: nobody looks at its result, the request is let in anyway.
RefreshSession(r) ==
  LET s == req[r].id IN
  /\ At(r, "refresh") /\ mutex = Nobody
  /\ IF s \in sessions /\ ~Expired(s, now)
     THEN Goto(r, "extend") /\ mutex' = r /\ UNCHANGED <<sessions, history>>
     ELSE LetIn(r) /\ sessions' = sessions \ {s} /\ UNCHANGED mutex
  /\ UNCHANGED <<now, expiresAt, sweepTime>>

\* Mutant: the mutex is not released.
ExtendKeepsMutex(r) ==
  /\ At(r, "extend")
  /\ expiresAt' = [expiresAt EXCEPT ![req[r].id] = now + Timeout]
  /\ LetIn(r)
  /\ UNCHANGED <<now, sessions, sweepTime, mutex>>

Extend(r) ==
  /\ At(r, "extend")
  /\ expiresAt' = [expiresAt EXCEPT ![req[r].id] = now + Timeout]
  /\ mutex' = Nobody /\ LetIn(r)
  /\ UNCHANGED <<now, sessions, sweepTime>>

\* cleanupExpiredSessions wakes up and reads the time ...
CleanupTick ==
  /\ sweepTime = 0
  /\ sweepTime' = now
  /\ UNCHANGED <<now, store, mutex, req, history>>

\* Mutants: a session that expires right now is already swept; the time is read
\* before the first sweep only.
CleanupTooEarly ==
  /\ sweepTime # 0 /\ mutex = Nobody
  /\ sessions' = {s \in sessions : ~(sweepTime >= expiresAt[s])}
  /\ sweepTime' = 0
  /\ UNCHANGED <<now, expiresAt, mutex, req, history>>

CleanupAtOldTime ==
  /\ sweepTime # 0 /\ mutex = Nobody
  /\ sessions' = {s \in sessions : ~Expired(s, sweepTime)}
  /\ UNCHANGED <<now, expiresAt, mutex, req, sweepTime, history>>

\* ... and then takes the mutex and deletes what had expired by that time.
cleanupExpiredSessions ==
  /\ sweepTime # 0 /\ mutex = Nobody
  /\ sessions' = {s \in sessions : ~Expired(s, sweepTime)}
  /\ sweepTime' = 0
  /\ UNCHANGED <<now, expiresAt, mutex, req, history>>

RequireAuth(r) ==
  Lookup(r) \/ Check(r) \/ DeleteExpired(r) \/ RefreshSession(r) \/ Extend(r)

\* The process ends, and with it all sessions and what requests were doing.
SessionsLost ==
  /\ sessions' = {} /\ mutex' = Nobody /\ sweepTime' = 0 /\ loggedOut' = created
  /\ req' = [r \in Requests |-> IF req[r].pc \in Idle THEN req[r] ELSE [req[r] EXCEPT !.pc = "idle"]]
  /\ UNCHANGED <<now, expiresAt, created, lapsed, refused, lastUse>>

------------------------------------------------------------------------------
(***************************************************************************)
(* Properties.                                                             *)
(***************************************************************************)

\* Type invariant; whoever holds the mutex is extending a session in the map.
SessionsTypeOK ==
  /\ now \in 1..MaxTime /\ sweepTime \in 0..now
  /\ sessions \subseteq created /\ created \subseteq SessionIDs
  /\ expiresAt \in [SessionIDs -> 0..(now + Timeout)]
  /\ req \in [Requests -> [pc : Steps, id : SessionIDs, reasons : SUBSET Reasons]]
  /\ mutex \in Requests \cup {Nobody}
  /\ \A r \in Requests : mutex = r <=> req[r].pc = "extend"

\* A request that arrives when the user has logged out or the program that knew
\* the session has ended, when a request has been told the session is over, or
\* when nobody was let in for the timeout, is refused - whatever earlier requests
\* are still doing ("Session expires after configured timeout", local-admin.md:238).
EndedSessionsRefused == \A r \in Requests : req[r].pc = "served" => req[r].reasons = {}

\* Nobody's session ends, and no request is refused, before the session's expiry
\* has passed, the user has logged out or the program has ended.
LiveSessionsKept == (created \ sessions) \cup refused \subseteq lapsed \cup loggedOut

\* "Expired sessions ... are automatically removed" (data-structures.md:473).
ExpiredSessionsRemoved ==
  \A s \in SessionIDs : (s \in sessions /\ Expired(s, now)) ~> (s \notin sessions \/ ~Expired(s, now))
=============================================================================
