--------------------------- MODULE ServiceProofs ----------------------------
(***************************************************************************)
(* The session manager and the running program, for any number of tabs,    *)
(* requests, sessions, workloads and ends of the program.                  *)
(***************************************************************************)
EXTENDS Server, TLAPS

-----------------------------------------------------------------------------
(***************************************************************************)
(* What no step of the session manager, of a request, of the clock or of a *)
(* stopping process can break.                                             *)
(***************************************************************************)

SessionStep ==
  \/ \E r \in Requests : RequireAuth(r) \/ \E s \in SessionIDs : Arrive(r, s)
  \/ \E s \in SessionIDs : CreateSession(s) \/ DeleteSession(s)
  \/ CleanupTick \/ cleanupExpiredSessions \/ Tick \/ SessionsLost \/ UNCHANGED sessionVars

HistoryOK ==
  /\ loggedOut \subseteq created /\ refused \subseteq created /\ lastUse \in [SessionIDs -> Nat]
  /\ \A r \in Requests : req[r].pc \notin Idle => req[r].id \in created

\* A session whose expiry has passed is known to have lapsed, and only such a one
\* is deleted by a request.
LapsesKnown ==
  /\ \A s \in created : Expired(s, now) => s \in lapsed
  /\ \A r \in Requests : req[r].pc = "delete" => req[r].id \in lapsed

\* Who has logged out or was refused is not in the map, and no session outlives its
\* last use by more than the timeout.
EndedGone ==
  /\ (loggedOut \cup refused) \cap sessions = {}
  /\ \A s \in SessionIDs : expiresAt[s] <= lastUse[s] + Timeout

\* Where a request may be that arrived after the end of its session: nowhere past
\* the check that it cannot pass, and no other request is extending that session.
GoneEnds == {"logged out", "refused before"}
Unsaved(id) == Expired(id, now) /\ \A q \in Requests : req[q].id = id => req[q].pc # "extend"
Doomed(r) ==
  /\ req[r].reasons \cap GoneEnds # {} =>
       /\ req[r].pc \in {"idle", "lookup", "refused"}
       /\ req[r].pc = "lookup" => req[r].id \in loggedOut \cup refused
  /\ "idle for too long" \in req[r].reasons =>
       /\ req[r].pc \in {"idle", "lookup", "check", "delete", "refused"}
       /\ req[r].pc \in {"lookup", "check", "delete"} => Unsaved(req[r].id)

SessionsInv ==
  /\ SessionsTypeOK /\ HistoryOK /\ LiveSessionsKept /\ LapsesKnown /\ EndedGone
  /\ \A r \in Requests : Doomed(r)

\* The type invariant in parts: the sets and the clock, the expiries, the requests
\* and the mutex.
ScalarsOK == now \in 1..MaxTime /\ sweepTime \in 0..now /\ sessions \subseteq created /\ created \subseteq SessionIDs
ExpiriesOK == expiresAt \in [SessionIDs -> 0..(now + Timeout)]
RequestsOK == req \in [Requests -> [pc : Steps, id : SessionIDs, reasons : SUBSET Reasons]]
MutexOK == mutex \in Requests \cup {Nobody} /\ \A r \in Requests : mutex = r <=> req[r].pc = "extend"

\* The parts make up the type invariant, in this state and in the next.
LEMMA TypeParts == SessionsTypeOK <=> ScalarsOK /\ ExpiriesOK /\ RequestsOK /\ MutexOK
BY DEF SessionsTypeOK, ScalarsOK, ExpiriesOK, RequestsOK, MutexOK

LEMMA TypePartsNext == SessionsTypeOK' <=> (ScalarsOK /\ ExpiriesOK /\ RequestsOK /\ MutexOK)'
BY DEF SessionsTypeOK, ScalarsOK, ExpiriesOK, RequestsOK, MutexOK

\* Going on to a step changes nothing else of a request, and no other request.
Moves(r, step) ==
  /\ RequestsOK' /\ req'[r].pc = step /\ req'[r].id = req[r].id /\ req'[r].reasons = req[r].reasons
  /\ \A q \in Requests \ {r} : req'[q] = req[q]

LEMMA GotoMoves ==
  ASSUME RequestsOK, NEW r \in Requests, NEW step \in Steps, Goto(r, step)
  PROVE  Moves(r, step)
BY DEF RequestsOK, Goto, Moves

\* Of a manager that has no session yet it holds.
LEMMA SessionsInitInv == SessionsInit => SessionsInv
<1> SUFFICES ASSUME SessionsInit PROVE SessionsInv
  OBVIOUS
<1> USE SessionsAssumption DEF SessionsInit
<1>1. \A r \in Requests : req[r].id \in SessionIDs /\ req[r].pc = "idle" /\ req[r].reasons = {}
  OBVIOUS
<1>2. SessionsTypeOK
  BY <1>1 DEF SessionsTypeOK, Steps, Idle
<1>3. HistoryOK /\ LiveSessionsKept /\ LapsesKnown /\ EndedGone
  BY <1>1 DEF HistoryOK, LiveSessionsKept, LapsesKnown, EndedGone, Idle
<1>4. \A r \in Requests : Doomed(r)
  BY <1>1 DEF Doomed, GoneEnds
<1>5. QED
  BY <1>2, <1>3, <1>4 DEF SessionsInv

\* Who was not let in for the timeout has no session that is still valid.
LEMMA IdleMeansExpired ==
  ASSUME SessionsInv, NEW s \in SessionIDs, now > lastUse[s] + Timeout
  PROVE  Expired(s, now)
<1>1. ScalarsOK /\ ExpiriesOK /\ HistoryOK /\ EndedGone
  BY TypeParts DEF SessionsInv
<1>2. now \in Nat /\ Timeout \in Nat
  BY <1>1, SessionsAssumption DEF ScalarsOK
<1>3. expiresAt[s] \in Nat
  BY <1>1, <1>2 DEF ExpiriesOK
<1>4. lastUse[s] \in Nat /\ expiresAt[s] <= lastUse[s] + Timeout
  BY <1>1 DEF HistoryOK, EndedGone
<1>5. QED
  BY <1>2, <1>3, <1>4 DEF Expired

\* A request that does not move stays doomed, if its session stays over.
LEMMA OthersDoomed ==
  ASSUME NEW q \in Requests, Doomed(q), req'[q] = req[q], loggedOut \subseteq loggedOut', refused \subseteq refused',
         req[q].pc \notin Idle /\ Unsaved(req[q].id) => Unsaved(req[q].id)'
  PROVE  Doomed(q)'
<1>1. req[q].reasons \cap GoneEnds # {} =>
        /\ req[q].pc \in {"idle", "lookup", "refused"}
        /\ req[q].pc = "lookup" => req[q].id \in loggedOut' \cup refused'
  BY DEF Doomed
<1>2. "idle for too long" \in req[q].reasons =>
        /\ req[q].pc \in {"idle", "lookup", "check", "delete", "refused"}
        /\ req[q].pc \in {"lookup", "check", "delete"} => Unsaved(req[q].id)'
  BY DEF Doomed, Idle
<1>3. Unsaved(req[q].id)' = (Expired(req[q].id, now) /\ \A x \in Requests : req[x].id = req[q].id => req[x].pc # "extend")'
  BY DEF Unsaved
<1>4. QED
  BY <1>1, <1>2, <1>3 DEF Doomed, GoneEnds, Unsaved

\* A request whose session is not in the map is refused, and only such a one.
LEMMA LookupInv ==
  ASSUME SessionsInv, NEW r \in Requests, Lookup(r)
  PROVE  SessionsInv'
<1> USE SessionsAssumption DEF SessionsInv, Lookup, Goto, Refuse, At, store, history
<1>a. PICK step \in {"check", "refused"} : Goto(r, step) /\ (step = "check" => req[r].id \in sessions)
  OBVIOUS
<1>b. Moves(r, step)
  BY <1>a, TypeParts, GotoMoves DEF Steps, Idle
<1>1. SessionsTypeOK'
  <2>1. ScalarsOK'
    BY TypeParts DEF ScalarsOK
  <2>2. ExpiriesOK'
    BY TypeParts, SessionsAssumption DEF ExpiriesOK, ScalarsOK, RequestsOK
  <2>3. MutexOK'
    BY <1>a, <1>b, TypeParts DEF MutexOK, Moves
  <2>4. QED
    BY <1>b, <2>1, <2>2, <2>3, TypePartsNext DEF Moves
<1>2. HistoryOK'
  BY DEF HistoryOK, SessionsTypeOK, Steps, Idle
<1>3. LiveSessionsKept'
  BY DEF LiveSessionsKept, HistoryOK, LapsesKnown, SessionsTypeOK, Expired, Idle
<1>4. LapsesKnown'
  BY DEF LapsesKnown, HistoryOK, SessionsTypeOK, Expired, Idle
<1>5. EndedGone'
  BY DEF EndedGone, HistoryOK, SessionsTypeOK, Idle
<1>6. ASSUME NEW q \in Requests PROVE Doomed(q)'
  <2>1. q # r /\ Unsaved(req[q].id) => Unsaved(req[q].id)'
    BY <1>a, <1>b DEF Unsaved, Expired, Moves
  <2>2. CASE q = r
    <3>1. Unsaved(req[q].id) => Unsaved(req[q].id)'
      BY <1>a, <1>b DEF Unsaved, Expired, Moves
    <3>2. step = "check" => req[q].reasons \cap GoneEnds = {}
      BY <2>2, <1>a DEF Doomed, EndedGone
    <3>3. CASE step = "check"
      BY <2>2, <3>1, <3>2, <3>3, <1>b DEF Doomed, Moves
    <3>4. CASE step = "refused"
      BY <2>2, <3>4, <1>b DEF Doomed, Moves
    <3>5. QED
      BY <3>3, <3>4
  <2>3. CASE q # r
    BY <2>1, <2>3, <1>b, OthersDoomed DEF Moves
  <2>4. QED
    BY <2>2, <2>3
<1>7. QED
  BY <1>1, <1>2, <1>3, <1>4, <1>5, <1>6

\* A request whose session has expired is sent to delete it, the others go on.
LEMMA CheckInv ==
  ASSUME SessionsInv, NEW r \in Requests, Check(r)
  PROVE  SessionsInv'
<1> USE SessionsAssumption DEF SessionsInv, Check, Goto, At, store, history
<1>a. PICK step \in {"delete", "refresh"} : Goto(r, step) /\ (step = "delete" <=> Expired(req[r].id, now))
  OBVIOUS
<1>b. Moves(r, step)
  BY <1>a, TypeParts, GotoMoves DEF Steps, Idle
<1>1. SessionsTypeOK'
  <2>1. ScalarsOK' /\ ExpiriesOK'
    BY TypeParts DEF ScalarsOK, ExpiriesOK
  <2>2. MutexOK'
    BY <1>a, <1>b, TypeParts DEF MutexOK, Moves
  <2>3. QED
    BY <1>b, <2>1, <2>2, TypePartsNext DEF Moves
<1>2. HistoryOK'
  BY DEF HistoryOK, SessionsTypeOK, Steps, Idle
<1>3. LiveSessionsKept'
  BY DEF LiveSessionsKept, HistoryOK, LapsesKnown, SessionsTypeOK, Expired, Idle
<1>4. LapsesKnown'
  BY DEF LapsesKnown, HistoryOK, SessionsTypeOK, Expired, Idle
<1>5. EndedGone'
  BY DEF EndedGone, HistoryOK, SessionsTypeOK, Idle
<1>6. ASSUME NEW q \in Requests PROVE Doomed(q)'
  <2>1. Unsaved(req[q].id) => Unsaved(req[q].id)'
    BY <1>a, <1>b DEF Unsaved, Expired, Moves
  <2>2. CASE q = r
    BY <2>1, <2>2, <1>a, <1>b DEF Doomed, GoneEnds, Moves, Unsaved
  <2>3. CASE q # r
    BY <2>1, <2>3, <1>b, OthersDoomed DEF Moves
  <2>4. QED
    BY <2>2, <2>3
<1>7. QED
  BY <1>1, <1>2, <1>3, <1>4, <1>5, <1>6

\* What a request deletes had expired when it looked.
LEMMA DeleteExpiredInv ==
  ASSUME SessionsInv, NEW r \in Requests, DeleteExpired(r)
  PROVE  SessionsInv'
<1> USE SessionsAssumption DEF SessionsInv, DeleteExpired, Goto, Refuse, At, store, history
<1>b. Moves(r, "refused")
  BY TypeParts, GotoMoves DEF Steps, Idle
<1>1. SessionsTypeOK'
  <2>1. ScalarsOK' /\ ExpiriesOK'
    BY TypeParts DEF ScalarsOK, ExpiriesOK
  <2>2. MutexOK'
    BY <1>b, TypeParts DEF MutexOK, Moves
  <2>3. QED
    BY <1>b, <2>1, <2>2, TypePartsNext DEF Moves
<1>2. HistoryOK'
  BY DEF HistoryOK, SessionsTypeOK, Steps, Idle
<1>3. LiveSessionsKept'
  BY DEF LiveSessionsKept, HistoryOK, LapsesKnown, SessionsTypeOK, Expired, Idle
<1>4. LapsesKnown'
  BY DEF LapsesKnown, HistoryOK, SessionsTypeOK, Expired, Idle
<1>5. EndedGone'
  BY DEF EndedGone, HistoryOK, SessionsTypeOK, Idle
<1>6. ASSUME NEW q \in Requests PROVE Doomed(q)'
  <2>1. Unsaved(req[q].id) => Unsaved(req[q].id)'
    BY <1>b DEF Unsaved, Expired, Moves
  <2>2. CASE q = r
    <3>1. req'[q].pc = "refused"
      BY <2>2, <1>b DEF Moves
    <3>2. QED
      BY <3>1 DEF Doomed
  <2>3. CASE q # r
    BY <2>1, <2>3, <1>b, OthersDoomed DEF Moves
  <2>4. QED
    BY <2>2, <2>3
<1>7. QED
  BY <1>1, <1>2, <1>3, <1>4, <1>5, <1>6

\* A request lets its user in, or takes the mutex to extend a session that is valid.
LEMMA RefreshInv ==
  ASSUME SessionsInv, NEW r \in Requests, RefreshSession(r)
  PROVE  SessionsInv'
<1> USE SessionsAssumption DEF SessionsInv, RefreshSession, Goto, LetIn, At, store, history
<1>a. PICK step \in {"extend", "served"} : /\ Goto(r, step) /\ (step = "extend" <=> mutex' = r)
                                            /\ mutex' \in {r, Nobody} /\ mutex = Nobody
                                            /\ (step = "extend" => ~Expired(req[r].id, now))
  OBVIOUS
<1>b. Moves(r, step)
  BY <1>a, TypeParts, GotoMoves DEF Steps, Idle
<1>1. SessionsTypeOK'
  <2>1. ScalarsOK'
    BY TypeParts DEF ScalarsOK
  <2>2. ExpiriesOK'
    BY TypeParts, SessionsAssumption DEF ExpiriesOK, ScalarsOK, RequestsOK
  <2>3. MutexOK'
    BY <1>a, <1>b, TypeParts DEF MutexOK, Moves
  <2>4. QED
    BY <1>b, <2>1, <2>2, <2>3, TypePartsNext DEF Moves
<1>2. HistoryOK'
  BY DEF HistoryOK, SessionsTypeOK, Steps, Idle
<1>3. LiveSessionsKept'
  BY DEF LiveSessionsKept, HistoryOK, LapsesKnown, SessionsTypeOK, Expired, Idle
<1>4. LapsesKnown'
  BY DEF LapsesKnown, HistoryOK, SessionsTypeOK, Expired, Idle
<1>5. EndedGone'
  BY DEF EndedGone, HistoryOK, SessionsTypeOK, Idle
<1>6. ASSUME NEW q \in Requests PROVE Doomed(q)'
  <2>1. q # r /\ Unsaved(req[q].id) => Unsaved(req[q].id)'
    BY <1>a, <1>b DEF Unsaved, Expired, Moves
  <2>2. CASE q = r
    BY <2>2, <1>a, <1>b DEF Doomed, GoneEnds, Moves
  <2>3. CASE q # r
    BY <2>1, <2>3, <1>b, OthersDoomed DEF Moves
  <2>4. QED
    BY <2>2, <2>3
<1>7. QED
  BY <1>1, <1>2, <1>3, <1>4, <1>5, <1>6

\* The session of whoever holds the mutex is extended from now on.
LEMMA ExtendInv ==
  ASSUME SessionsInv, NEW r \in Requests, Extend(r)
  PROVE  SessionsInv'
<1> USE SessionsAssumption DEF SessionsInv, Extend, Goto, LetIn, At, store, history
<1>b. Moves(r, "served")
  BY TypeParts, GotoMoves DEF Steps, Idle
<1>1. SessionsTypeOK'
  <2>1. ScalarsOK'
    BY TypeParts DEF ScalarsOK
  <2>2. ExpiriesOK'
    BY TypeParts, SessionsAssumption DEF ExpiriesOK, ScalarsOK, RequestsOK
  <2>3. MutexOK'
    BY <1>b, TypeParts DEF MutexOK, Moves
  <2>4. QED
    BY <1>b, <2>1, <2>2, <2>3, TypePartsNext DEF Moves
<1>2. HistoryOK'
  BY DEF HistoryOK, SessionsTypeOK, Steps, Idle
<1>3. LiveSessionsKept'
  BY DEF LiveSessionsKept, HistoryOK, LapsesKnown, SessionsTypeOK, Expired, Idle
<1>4. LapsesKnown'
  BY DEF LapsesKnown, HistoryOK, SessionsTypeOK, Expired, Idle
<1>5. EndedGone'
  BY DEF EndedGone, HistoryOK, SessionsTypeOK, Idle
<1>6. ASSUME NEW q \in Requests PROVE Doomed(q)'
  <2>1. q # r /\ Unsaved(req[q].id) => Unsaved(req[q].id)'
    BY <1>b DEF Unsaved, Expired, Moves
  <2>2. CASE q = r
    BY <2>2, <1>b DEF Doomed, GoneEnds, Moves
  <2>3. CASE q # r
    BY <2>1, <2>3, <1>b, OthersDoomed DEF Moves
  <2>4. QED
    BY <2>2, <2>3
<1>7. QED
  BY <1>1, <1>2, <1>3, <1>4, <1>5, <1>6

\* What is known of the session when a request arrives dooms the request or does not.
LEMMA ArriveInv ==
  ASSUME SessionsInv, NEW r \in Requests, NEW s \in SessionIDs, Arrive(r, s)
  PROVE  SessionsInv'
<1> USE SessionsAssumption DEF SessionsInv, Arrive, InProgress, store, history
<1>1. SessionsTypeOK'
  BY DEF SessionsTypeOK, Steps, Idle, Reasons, Expired
<1>2. HistoryOK'
  BY DEF HistoryOK, SessionsTypeOK, Steps, Idle
<1>3. LiveSessionsKept'
  BY DEF LiveSessionsKept, HistoryOK, LapsesKnown, SessionsTypeOK, Expired, Idle
<1>4. LapsesKnown'
  BY DEF LapsesKnown, HistoryOK, SessionsTypeOK, Expired, Idle
<1>5. EndedGone'
  BY DEF EndedGone, HistoryOK, SessionsTypeOK, Idle
<1>6. ASSUME NEW q \in Requests PROVE Doomed(q)'
  <2>1. req'[r].pc = "lookup" /\ req'[r].id = s /\ \A x \in Requests \ {r} : req'[x] = req[x]
    BY TypeParts DEF RequestsOK
  <2>2. ASSUME NEW id, Unsaved(id) PROVE Unsaved(id)'
    BY <2>1, <2>2 DEF Unsaved, Expired
  <2>3. CASE q # r
    BY <2>1, <2>2, <2>3 DEF Doomed, GoneEnds
  <2>4. CASE q = r
    <3>1. /\ "logged out" \in req'[r].reasons => s \in loggedOut
          /\ "refused before" \in req'[r].reasons => s \in refused
      BY TypeParts DEF RequestsOK, Reasons
    <3>2. "idle for too long" \in req'[r].reasons => ~InProgress(s) /\ now > lastUse[s] + Timeout
      BY TypeParts DEF RequestsOK, InProgress, Reasons
    <3>3. ~InProgress(s) => \A x \in Requests : req[x].id = s => req[x].pc # "extend"
      BY DEF Idle
    <3>4. now > lastUse[s] + Timeout => Expired(s, now)
      BY IdleMeansExpired
    <3>5. "idle for too long" \in req'[r].reasons => Unsaved(s)'
      BY <2>2, <3>2, <3>3, <3>4 DEF Unsaved
    <3>6. req'[q].reasons \cap GoneEnds # {} => s \in (loggedOut \cup refused)'
      BY <2>4, <3>1 DEF GoneEnds
    <3>7. "idle for too long" \in req'[q].reasons => Unsaved(req[q].id)'
      BY <2>1, <2>4, <3>5 DEF Unsaved, Expired
    <3>8. QED
      BY <2>1, <2>4, <3>6, <3>7 DEF Doomed
  <2>5. QED
    BY <2>3, <2>4
<1>7. QED
  BY <1>1, <1>2, <1>3, <1>4, <1>5, <1>6

\* A new session has an id that nobody had before.
LEMMA CreateInv ==
  ASSUME SessionsInv, NEW s \in SessionIDs, CreateSession(s)
  PROVE  SessionsInv'
<1> USE SessionsAssumption DEF SessionsInv, CreateSession, store, history
<1>1. SessionsTypeOK'
  <2>1. ScalarsOK'
    BY TypeParts DEF ScalarsOK
  <2>2. ExpiriesOK'
    BY TypeParts DEF ExpiriesOK, ScalarsOK
  <2>3. RequestsOK'
    BY TypeParts DEF RequestsOK, Steps, Idle
  <2>4. MutexOK'
    BY TypeParts DEF MutexOK, RequestsOK, Steps, Idle
  <2>5. QED
    BY <2>1, <2>2, <2>3, <2>4, TypePartsNext
<1>2. HistoryOK'
  BY DEF HistoryOK, SessionsTypeOK, Steps, Idle
<1>3. LiveSessionsKept'
  BY DEF LiveSessionsKept, HistoryOK, LapsesKnown, SessionsTypeOK, Expired, Idle
<1>4. LapsesKnown'
  BY DEF LapsesKnown, HistoryOK, SessionsTypeOK, Expired, Idle
<1>5. EndedGone'
  BY DEF EndedGone, HistoryOK, SessionsTypeOK, Idle
<1>6. ASSUME NEW q \in Requests PROVE Doomed(q)'
  <2>1. req[q].pc \notin Idle /\ Unsaved(req[q].id) => Unsaved(req[q].id)'
    BY DEF Unsaved, Expired, HistoryOK
  <2>2. QED
    BY <2>1, OthersDoomed
<1>7. QED
  BY <1>1, <1>2, <1>3, <1>4, <1>5, <1>6

\* A logout ends one session and is remembered.
LEMMA DeleteInv ==
  ASSUME SessionsInv, NEW s \in SessionIDs, DeleteSession(s)
  PROVE  SessionsInv'
<1> USE SessionsAssumption DEF SessionsInv, DeleteSession, store, history
<1>1. SessionsTypeOK'
  BY DEF SessionsTypeOK, Steps, Idle, Reasons, Expired
<1>2. HistoryOK'
  BY DEF HistoryOK, SessionsTypeOK, Steps, Idle
<1>3. LiveSessionsKept'
  BY DEF LiveSessionsKept, HistoryOK, LapsesKnown, SessionsTypeOK, Expired, Idle
<1>4. LapsesKnown'
  BY DEF LapsesKnown, HistoryOK, SessionsTypeOK, Expired, Idle
<1>5. EndedGone'
  BY DEF EndedGone, HistoryOK, SessionsTypeOK, Idle
<1>6. ASSUME NEW q \in Requests PROVE Doomed(q)'
  <2>1. req[q].pc \notin Idle /\ Unsaved(req[q].id) => Unsaved(req[q].id)'
    BY DEF Unsaved, Expired
  <2>2. QED
    BY <2>1, OthersDoomed
<1>7. QED
  BY <1>1, <1>2, <1>3, <1>4, <1>5, <1>6

\* A sweep deletes sessions that had expired when it read the time, and time only passes.
LEMMA SweepInv ==
  ASSUME SessionsInv, CleanupTick \/ cleanupExpiredSessions
  PROVE  SessionsInv'
<1> USE SessionsAssumption DEF SessionsInv, CleanupTick, cleanupExpiredSessions, store, history
<1>1. SessionsTypeOK'
  <2>1. ScalarsOK'
    BY TypeParts DEF ScalarsOK
  <2>2. ExpiriesOK'
    BY TypeParts DEF ExpiriesOK, ScalarsOK
  <2>3. RequestsOK'
    BY TypeParts DEF RequestsOK, Steps, Idle
  <2>4. MutexOK'
    BY TypeParts DEF MutexOK, RequestsOK, Steps, Idle
  <2>5. QED
    BY <2>1, <2>2, <2>3, <2>4, TypePartsNext
<1>2. HistoryOK'
  BY DEF HistoryOK, SessionsTypeOK, Steps, Idle
<1>3. LiveSessionsKept'
  BY DEF LiveSessionsKept, HistoryOK, LapsesKnown, SessionsTypeOK, Expired, Idle
<1>4. LapsesKnown'
  BY DEF LapsesKnown, HistoryOK, SessionsTypeOK, Expired, Idle
<1>5. EndedGone'
  BY DEF EndedGone, HistoryOK, SessionsTypeOK, Idle
<1>6. ASSUME NEW q \in Requests PROVE Doomed(q)'
  <2>1. req[q].pc \notin Idle /\ Unsaved(req[q].id) => Unsaved(req[q].id)'
    BY DEF Unsaved, Expired
  <2>2. QED
    BY <2>1, OthersDoomed
<1>7. QED
  BY <1>1, <1>2, <1>3, <1>4, <1>5, <1>6

\* Time makes sessions expire and saves none.
LEMMA TickInv ==
  ASSUME SessionsInv, Tick
  PROVE  SessionsInv'
<1> USE SessionsAssumption DEF SessionsInv, Tick, store, history
<1>1. SessionsTypeOK'
  <2>1. ScalarsOK'
    BY TypeParts DEF ScalarsOK
  <2>2. ExpiriesOK'
    BY TypeParts DEF ExpiriesOK, ScalarsOK
  <2>3. RequestsOK'
    BY TypeParts DEF RequestsOK, Steps, Idle
  <2>4. MutexOK'
    BY TypeParts DEF MutexOK, RequestsOK, Steps, Idle
  <2>5. QED
    BY <2>1, <2>2, <2>3, <2>4, TypePartsNext
<1>2. HistoryOK'
  BY DEF HistoryOK, SessionsTypeOK, Steps, Idle
<1>3. LiveSessionsKept'
  BY DEF LiveSessionsKept, HistoryOK, LapsesKnown, SessionsTypeOK, Expired, Idle
<1>4. LapsesKnown'
  BY DEF LapsesKnown, HistoryOK, SessionsTypeOK, Expired, Idle
<1>5. EndedGone'
  BY DEF EndedGone, HistoryOK, SessionsTypeOK, Idle
<1>6. ASSUME NEW q \in Requests PROVE Doomed(q)'
  <2>1. req[q].id \in SessionIDs /\ Expired(req[q].id, now) => Expired(req[q].id, now)'
    BY TypeParts DEF RequestsOK, ExpiriesOK, ScalarsOK, Expired
  <2>2. Unsaved(req[q].id) => Unsaved(req[q].id)'
    BY <2>1, TypeParts DEF Unsaved, RequestsOK
  <2>3. QED
    BY <2>2 DEF Doomed
<1>7. QED
  BY <1>1, <1>2, <1>3, <1>4, <1>5, <1>6

\* When the process ends all its sessions do, and no request is let in that it was working on.
LEMMA LostInv ==
  ASSUME SessionsInv, SessionsLost
  PROVE  SessionsInv'
<1> USE SessionsAssumption DEF SessionsInv, SessionsLost, store, history
<1>1. SessionsTypeOK'
  <2>1. ScalarsOK'
    BY TypeParts DEF ScalarsOK
  <2>2. ExpiriesOK'
    BY TypeParts DEF ExpiriesOK, ScalarsOK
  <2>3. RequestsOK'
    BY TypeParts DEF RequestsOK, Steps, Idle
  <2>4. MutexOK'
    BY TypeParts DEF MutexOK, RequestsOK, Steps, Idle
  <2>5. QED
    BY <2>1, <2>2, <2>3, <2>4, TypePartsNext
<1>2. HistoryOK'
  BY DEF HistoryOK, SessionsTypeOK, Steps, Idle
<1>3. LiveSessionsKept'
  BY DEF LiveSessionsKept, HistoryOK, LapsesKnown, SessionsTypeOK, Expired, Idle
<1>4. LapsesKnown'
  BY DEF LapsesKnown, HistoryOK, SessionsTypeOK, Expired, Idle
<1>5. EndedGone'
  BY DEF EndedGone, HistoryOK, SessionsTypeOK, Idle
<1>6. ASSUME NEW q \in Requests PROVE Doomed(q)'
  <2>1. CASE req[q].pc \in Idle
    BY <2>1, OthersDoomed DEF HistoryOK
  <2>2. CASE req[q].pc \notin Idle
    <3>1. req'[q].pc = "idle"
      BY <2>2, TypeParts DEF RequestsOK
    <3>2. "lookup" # "idle" /\ "idle" \notin {"lookup", "check", "delete"}
      OBVIOUS
    <3>3. QED
      BY <3>1, <3>2 DEF Doomed
  <2>3. QED
    BY <2>1, <2>2
<1>7. QED
  BY <1>1, <1>2, <1>3, <1>4, <1>5, <1>6

\* Nothing happens.
LEMMA UnchangedInv ==
  ASSUME SessionsInv, UNCHANGED sessionVars
  PROVE  SessionsInv'
<1> USE DEF SessionsInv, sessionVars, store, history
<1>1. SessionsTypeOK'
  BY DEF SessionsTypeOK
<1>2. HistoryOK' /\ LiveSessionsKept' /\ LapsesKnown' /\ EndedGone'
  BY DEF HistoryOK, LiveSessionsKept, LapsesKnown, EndedGone, Expired
<1>3. ASSUME NEW q \in Requests PROVE Doomed(q)'
  BY DEF Doomed, Unsaved, Expired
<1>4. QED
  BY <1>1, <1>2, <1>3

\* No step breaks the invariant.
LEMMA SessionsStepInv ==
  ASSUME SessionsInv, SessionStep
  PROVE  SessionsInv'
<1>1. ASSUME NEW r \in Requests, RequireAuth(r) PROVE SessionsInv'
  BY <1>1, LookupInv, CheckInv, DeleteExpiredInv, RefreshInv, ExtendInv DEF RequireAuth
<1>2. ASSUME NEW r \in Requests, NEW s \in SessionIDs, Arrive(r, s) PROVE SessionsInv'
  BY <1>2, ArriveInv
<1>3. ASSUME NEW s \in SessionIDs, CreateSession(s) \/ DeleteSession(s) PROVE SessionsInv'
  BY <1>3, CreateInv, DeleteInv
<1>4. CASE CleanupTick \/ cleanupExpiredSessions \/ Tick
  BY <1>4, SweepInv, TickInv
<1>5. CASE SessionsLost \/ UNCHANGED sessionVars
  BY <1>5, LostInv, UnchangedInv
<1>6. QED
  BY <1>1, <1>2, <1>3, <1>4, <1>5 DEF SessionStep

\* A request that arrived after the end of its session has no way in.
LEMMA DoomedAreRefused == SessionsInv => EndedSessionsRefused
<1> SUFFICES ASSUME SessionsInv, NEW r \in Requests, req[r].pc = "served" PROVE req[r].reasons = {}
  BY DEF EndedSessionsRefused
<1>1. req[r].reasons \subseteq Reasons
  BY DEF SessionsInv, SessionsTypeOK
<1>2. Doomed(r)
  BY DEF SessionsInv
<1>3. \A x \in Reasons : x \notin req[r].reasons
  BY <1>2 DEF Doomed, GoneEnds, Reasons
<1>4. QED
  BY <1>1, <1>3

-----------------------------------------------------------------------------
(***************************************************************************)
(* The running program.                                                    *)
(***************************************************************************)

ServiceStep == ServiceNext \/ \E w \in Workloads : Begin(w)

------------------------------------------------------------------------------
(***************************************************************************)
(* The workload.                                                           *)
(***************************************************************************)

LoadOK == load \in Workloads \cup {NoWork}

\* A workload names requests that there are, and how often the program ends.
LEMMA LoadTyped ==
  ASSUME LoadOK
  PROVE  load.requests \subseteq Requests /\ load.ends \in Nat
BY ServiceAssumption DEF LoadOK, NoWork, WorkloadType

\* Nothing but the start of the program picks another workload.
LEMMA LoadStepOK ==
  ASSUME LoadOK, [ServiceStep]_serviceVars
  PROVE  LoadOK'
<1> USE DEF LoadOK
<1>1. CASE Arrives \/ Logout \/ SweepBegins \/ Sweep \/ (\E r \in Requests : Request(r)) \/ Time
  BY <1>1 DEF Arrives, Logout, SweepBegins, Sweep, Request, Time, loginVars
<1>2. ASSUME NEW t \in Tabs, Arrivals(t) \/ LocalOrSSO(t) \/ Provider(t) PROVE LoadOK'
  BY <1>2 DEF Arrivals, SendLogin, BeginSSO, ReturnFromProvider, LocalOrSSO, Handles, HandleLogin,
     CheckProvider, LockProvider, GenerateAuthURL, Provider, Waits, AskProvider, ExchangeCode, ProviderFails
<1>3. CASE CookieExpires \/ Signal \/ DeadlinePasses \/ Restart \/ Ended \/ UNCHANGED serviceVars
  BY <1>3 DEF CookieExpires, StateCookieExpires, Signal, DeadlinePasses, Restart, Ended, serviceVars, loginVars
<1>4. CASE gracefulShutdown \/ Crash \/ \E w \in Workloads : Begin(w)
  BY <1>4 DEF gracefulShutdown, Crash, Stop, LoginsLost, Begin
<1>5. QED
  BY <1>1, <1>2, <1>3, <1>4 DEF ServiceStep, ServiceNext

------------------------------------------------------------------------------
(***************************************************************************)
(* Sessions.                                                               *)
(***************************************************************************)

\* Whatever the program, the browser and the provider do is for the sessions one
\* of the steps of their manager, or nothing.
LEMMA ServiceStepIsSessionStep ==
  ASSUME LoadOK, [ServiceStep]_serviceVars
  PROVE  SessionStep
<1> USE DEF SessionStep
<1>1. ASSUME NEW r \in Requests, Request(r) PROVE SessionStep
  BY <1>1 DEF Request
<1>2. CASE Arrives \/ Logout
  BY <1>2, LoadTyped DEF Arrives, Logout
<1>3. CASE SweepBegins \/ Sweep \/ Time
  BY <1>3 DEF SweepBegins, Sweep, Time
<1>4. CreateNewSession => SessionStep
  BY DEF CreateNewSession
<1>5. ASSUME NEW t \in Tabs, Arrivals(t) \/ LocalOrSSO(t) \/ Provider(t) PROVE SessionStep
  BY <1>4, <1>5 DEF Arrivals, SendLogin, BeginSSO, ReturnFromProvider, LocalOrSSO, Handles, HandleLogin,
     CheckProvider, LockProvider, GenerateAuthURL, Provider, Waits, AskProvider, ExchangeCode, ProviderFails
<1>6. CASE CookieExpires \/ Signal \/ DeadlinePasses \/ Restart \/ Ended \/ UNCHANGED serviceVars
  BY <1>6 DEF CookieExpires, StateCookieExpires, Signal, DeadlinePasses, Restart, Ended, serviceVars
<1>7. CASE gracefulShutdown \/ Crash
  BY <1>7 DEF gracefulShutdown, Crash, Stop
<1>8. ASSUME NEW w \in Workloads, Begin(w) PROVE SessionStep
  BY <1>8 DEF Begin
<1>9. QED
  BY <1>1, <1>2, <1>3, <1>5, <1>6, <1>7, <1>8 DEF ServiceStep, ServiceNext

\* What the sessions' manager keeps true holds while it runs inside the program.
THEOREM SessionsSafe == ServiceSafety => [](LoadOK /\ SessionsInv)
<1>1. ServiceInit => LoadOK /\ SessionsInv
  BY SessionsInitInv DEF ServiceInit, LoginInit, LoadOK
<1>2. LoadOK /\ SessionsInv /\ [ServiceStep]_serviceVars => (LoadOK /\ SessionsInv)'
  BY LoadStepOK, ServiceStepIsSessionStep, SessionsStepInv
<1>3. QED
  BY <1>1, <1>2, PTL DEF ServiceSafety, ServiceStep

\* Whoever was logged out, refused or idle for the timeout is refused, whatever
\* other requests for the same session are doing, and so is every session of a
\* program that has ended.
THEOREM EndedSessionsStayEnded == ServiceSafety => []EndedSessionsRefused
BY SessionsSafe, DoomedAreRefused, PTL

\* No session is lost, and no request refused, but for a reason that the user knows:
\* the expiry, a logout, or the end of the program.
THEOREM SessionsAreKept == ServiceSafety => []LiveSessionsKept
<1>1. SessionsInv => LiveSessionsKept
  BY DEF SessionsInv
<1>2. QED
  BY <1>1, SessionsSafe, PTL

------------------------------------------------------------------------------
(***************************************************************************)
(* Logins.                                                                 *)
(***************************************************************************)

\* The type invariant in parts.
TabsOK == tab \in [Tabs -> [pc : AtServer \cup {"idle", "at provider", "in", "failed"},
                            request : {"none", "right", "wrong", "login", "callback"}]]
LockOK == initMutex \in Tabs \cup {Nobody} /\ \A t \in Tabs : initMutex = t <=> tab[t].pc = "ask"
FlagsOK == failures \in 0..MaxFailures /\ provider \in BOOLEAN /\ stateCookie \in Tabs \cup {Nobody}

\* A tab that asks the provider does so while it is not known, one that goes on to
\* use the provider found it known.
ProviderKnown ==
  \A t \in Tabs : /\ tab[t].pc = "ready" => provider
                  /\ tab[t].pc = "ask" => ~provider

LoginInv == TabsOK /\ LockOK /\ FlagsOK /\ ProviderKnown

\* A tab goes on and no other does.
TabMoves(t, pc) == TabsOK' /\ tab'[t].pc = pc /\ \A u \in Tabs \ {t} : tab'[u] = tab[u]

\* Goes and Ends move one tab.
LEMMA GoesMoves ==
  ASSUME TabsOK, NEW t \in Tabs, NEW pc \in AtServer, Goes(t, pc)
  PROVE  TabMoves(t, pc)
BY DEF TabsOK, Goes, TabMoves, AtServer, InInit

LEMMA EndsMoves ==
  ASSUME TabsOK, NEW t \in Tabs, NEW pc \in {"at provider", "in", "failed"}, Ends(t, pc)
  PROVE  TabMoves(t, pc)
BY DEF TabsOK, Ends, TabMoves

\* A tab outside of the section that initMutex guards stays outside.
LEMMA OutsideKept ==
  ASSUME LoginInv, NEW t \in Tabs, NEW pc, TabMoves(t, pc), pc \notin {"ready", "ask"}, tab[t].pc # "ask",
         UNCHANGED <<provider, initMutex, failures>>, stateCookie' \in Tabs \cup {Nobody}
  PROVE  LoginInv'
<1> USE DEF LoginInv, TabMoves
<1>1. LockOK'
  BY DEF LockOK
<1>2. FlagsOK' /\ ProviderKnown'
  BY DEF FlagsOK, ProviderKnown
<1>3. QED
  BY <1>1, <1>2

\* What the browser sends or brings back touches no lock.
LEMMA BrowserInv ==
  ASSUME LoginInv, NEW t \in Tabs, Arrivals(t)
  PROVE  LoginInv'
<1> USE ServiceAssumption DEF LoginInv
<1>1. tab[t].pc # "ask"
  BY DEF Arrivals, SendLogin, BeginSSO, MayStart, ReturnFromProvider, AtServer, InInit
<1>2. \E pc \in {"local", "check", "failed"} : TabMoves(t, pc)
  <2>1. CASE SendLogin(t)
    <3>1. PICK request \in {"right", "wrong"} : tab' = [tab EXCEPT ![t] = [pc |-> "local", request |-> request]]
      BY <2>1 DEF SendLogin
    <3>2. TabMoves(t, "local")
      BY <3>1 DEF TabsOK, TabMoves, AtServer, InInit
    <3>3. QED
      BY <3>2
  <2>2. CASE BeginSSO(t)
    BY <2>2 DEF BeginSSO, TabsOK, TabMoves, AtServer, InInit
  <2>3. CASE ReturnFromProvider(t)
    <3>1. CASE Ends(t, "failed")
      BY <3>1, EndsMoves
    <3>2. CASE tab' = [tab EXCEPT ![t] = [pc |-> "check", request |-> "callback"]]
      <4>1. TabMoves(t, "check")
        BY <3>2 DEF TabsOK, TabMoves, AtServer, InInit
      <4>2. QED
        BY <4>1
    <3>3. QED
      BY <2>3, <3>1, <3>2 DEF ReturnFromProvider
  <2>4. QED
    BY <2>1, <2>2, <2>3 DEF Arrivals
<1>3. UNCHANGED <<provider, initMutex, failures, stateCookie>>
  BY DEF Arrivals, SendLogin, BeginSSO, ReturnFromProvider
<1>4. QED
  BY <1>1, <1>2, <1>3, OutsideKept DEF FlagsOK

\* Who takes initMutex finds it free, and asks only if the provider is not set.
LEMMA HandlersInv ==
  ASSUME LoginInv, NEW t \in Tabs, Handles(t)
  PROVE  LoginInv'
<1> USE ServiceAssumption DEF LoginInv
<1>1. CASE HandleLogin(t)
  <2>1. PICK pc \in {"in", "failed"} : TabMoves(t, pc)
    BY <1>1, EndsMoves DEF HandleLogin
  <2>2. QED
    BY <1>1, <2>1, OutsideKept DEF HandleLogin, FlagsOK
<1>2. CASE CheckProvider(t)
  <2>1. PICK pc \in {"ready", "lock"} : TabMoves(t, pc) /\ (pc = "ready" => provider)
    BY <1>2, GoesMoves DEF CheckProvider, AtServer, InInit
  <2>2. LockOK'
    BY <1>2, <2>1 DEF CheckProvider, LockOK, TabMoves
  <2>3. FlagsOK' /\ ProviderKnown'
    BY <1>2, <2>1 DEF CheckProvider, FlagsOK, ProviderKnown, TabMoves
  <2>4. QED
    BY <2>1, <2>2, <2>3 DEF TabMoves
<1>3. CASE LockProvider(t)
  <2>1. PICK pc \in {"ready", "ask"} : TabMoves(t, pc) /\ (pc = "ready" <=> provider)
    BY <1>3, GoesMoves DEF LockProvider, AtServer, InInit
  <2>2. initMutex' = IF pc = "ask" THEN t ELSE Nobody
    BY <1>3, <2>1 DEF LockProvider, Goes, TabMoves
  <2>3. LockOK'
    BY <1>3, <2>1, <2>2 DEF LockProvider, LockOK, TabMoves
  <2>4. FlagsOK' /\ ProviderKnown'
    BY <1>3, <2>1 DEF LockProvider, FlagsOK, ProviderKnown, TabMoves
  <2>5. QED
    BY <2>1, <2>3, <2>4 DEF TabMoves
<1>4. CASE GenerateAuthURL(t)
  BY <1>4, EndsMoves, OutsideKept DEF GenerateAuthURL, Doing
<1>5. QED
  BY <1>1, <1>2, <1>3, <1>4 DEF Handles

\* Who asks leaves the section with the provider set, or with an error.
LEMMA ProviderInv ==
  ASSUME LoginInv, NEW t \in Tabs, Waits(t) \/ ProviderFails(t)
  PROVE  LoginInv'
<1> USE ServiceAssumption DEF LoginInv
<1>1. CASE AskProvider(t)
  <2>1. TabMoves(t, "ready")
    BY <1>1, GoesMoves DEF AskProvider, AtServer, InInit
  <2>2. \A u \in Tabs \ {t} : tab[u].pc # "ask"
    BY <1>1 DEF AskProvider, LockOK
  <2>3. LockOK' /\ FlagsOK' /\ ProviderKnown'
    BY <1>1, <2>1, <2>2 DEF AskProvider, LockOK, FlagsOK, ProviderKnown, TabMoves
  <2>4. QED
    BY <2>1, <2>3 DEF TabMoves
<1>2. CASE ExchangeCode(t)
  BY <1>2, EndsMoves, OutsideKept DEF ExchangeCode, Doing
<1>3. CASE ProviderFails(t)
  <2>1. TabMoves(t, "failed")
    BY <1>3, EndsMoves DEF ProviderFails
  <2>2. LockOK'
    BY <1>3, <2>1 DEF ProviderFails, LockOK, TabMoves, Doing
  <2>3. FlagsOK' /\ ProviderKnown'
    BY <1>3, <2>1 DEF ProviderFails, FlagsOK, ProviderKnown, TabMoves
  <2>4. QED
    BY <2>1, <2>2, <2>3 DEF TabMoves
<1>4. QED
  BY <1>1, <1>2, <1>3 DEF Waits

\* When the process ends its requests fail and the lock and the provider go with it.
LEMMA LoginsLostInv ==
  ASSUME LoginInv, LoginsLost
  PROVE  LoginInv' /\ \A t \in Tabs : tab'[t].pc \notin AtServer
<1>1. TabsOK' /\ \A t \in Tabs : tab'[t].pc \notin AtServer
  BY DEF LoginsLost, LoginInv, TabsOK, AtServer, InInit
<1>2. LockOK' /\ FlagsOK' /\ ProviderKnown'
  BY <1>1, ServiceAssumption DEF LoginsLost, LoginInv, LockOK, FlagsOK, ProviderKnown, AtServer, InInit
<1>3. QED
  BY <1>1, <1>2 DEF LoginInv

\* Every step of the program keeps what is true of its logins.
LEMMA LoginStepInv ==
  ASSUME LoginInv, [ServiceStep]_serviceVars
  PROVE  LoginInv'
<1>1. CASE UNCHANGED <<tab, stateCookie, provider, initMutex, failures>>
  BY <1>1 DEF LoginInv, TabsOK, LockOK, FlagsOK, ProviderKnown
<1>2. CASE Arrives \/ Logout \/ SweepBegins \/ Sweep \/ (\E r \in Requests : Request(r)) \/ Time
  BY <1>1, <1>2 DEF Arrives, Logout, SweepBegins, Sweep, Request, Time, loginVars
<1>3. ASSUME NEW t \in Tabs, Arrivals(t) \/ LocalOrSSO(t) \/ Provider(t) PROVE LoginInv'
  BY <1>3, BrowserInv, HandlersInv, ProviderInv DEF LocalOrSSO, Provider
<1>4. CASE CookieExpires
  BY <1>4 DEF CookieExpires, StateCookieExpires, LoginInv, TabsOK, LockOK, FlagsOK, ProviderKnown
<1>5. CASE Signal \/ DeadlinePasses \/ Restart \/ Ended \/ (\E w \in Workloads : Begin(w)) \/ UNCHANGED serviceVars
  BY <1>1, <1>5 DEF Signal, DeadlinePasses, Restart, Ended, Begin, serviceVars, loginVars
<1>6. CASE gracefulShutdown \/ Crash
  BY <1>6, LoginsLostInv DEF gracefulShutdown, Crash, Stop
<1>7. QED
  BY <1>2, <1>3, <1>4, <1>5, <1>6 DEF ServiceStep, ServiceNext

\* Before the first login nobody asks and nothing is known.
LEMMA LoginInitInv == LoginInit => LoginInv
<1> SUFFICES ASSUME LoginInit PROVE LoginInv
  OBVIOUS
<1>1. TabsOK /\ \A t \in Tabs : tab[t].pc = "idle"
  BY DEF LoginInit, TabsOK
<1>2. LockOK
  BY <1>1, ServiceAssumption DEF LoginInit, LockOK
<1>3. failures \in 0..MaxFailures
  BY ServiceAssumption DEF LoginInit
<1>4. FlagsOK
  BY <1>3 DEF LoginInit, FlagsOK
<1>5. ProviderKnown
  BY <1>1 DEF ProviderKnown
<1>6. QED
  BY <1>1, <1>2, <1>4, <1>5 DEF LoginInv

\* However logins, failures of the provider and restarts follow each other, the
\* provider's fields are never written while a login may be reading them: only who
\* found them unset under initMutex writes them, and they stay set until the end.
THEOREM NoRaceOnProvider == ServiceSafety => []NoProviderRace
<1>1. LoginInv /\ [ServiceStep]_serviceVars => LoginInv'
  BY LoginStepInv
<1>2. LoginInv => NoProviderRace
  BY DEF LoginInv, ProviderKnown, NoProviderRace
<1>3. QED
  BY <1>1, <1>2, LoginInitInv, PTL DEF ServiceSafety, ServiceInit, ServiceStep

------------------------------------------------------------------------------
(***************************************************************************)
(* The life of the program.                                                *)
(***************************************************************************)

\* The program ends no more often than its workload has it, and has no deadline but
\* while it drains.
LifeOK ==
  /\ phase \in {"starting", "serving", "draining", "down"} /\ deadlinePast \in BOOLEAN
  /\ deadlinePast => phase = "draining"
  /\ ended \in 0..load.ends
  /\ phase = "starting" => ended = 0
  /\ phase = "draining" => ended < load.ends

\* Of a program that is not up nothing is left.
NothingLeft ==
  phase \notin {"serving", "draining"} =>
    mutex = Nobody /\ sessions = {} /\ ~provider /\ \A t \in Tabs : tab[t].pc \notin AtServer

LifeInv == LoadOK /\ LifeOK /\ NothingLeft

\* What happens while the program is up does not end it.
LEMMA UpInv ==
  ASSUME LifeInv, Up, load' = load
  PROVE  LifeInv'
BY DEF LifeInv, LoadOK, Up, lifeVars, LifeOK, NothingLeft

\* An end is counted and leaves nothing behind.
LEMMA StopInv ==
  ASSUME LifeInv, LoginInv, Stop, ended < load.ends
  PROVE  LifeInv'
<1>1. load' = load /\ load.ends \in Nat /\ ended + 1 \in 0..load.ends
  BY LoadTyped DEF LifeInv, LifeOK, Stop, LoginsLost
<1>2. LoadOK' /\ LifeOK'
  BY <1>1 DEF LifeInv, LoadOK, LifeOK, Stop
<1>3. NothingLeft'
  BY LoginsLostInv DEF NothingLeft, Stop, SessionsLost, LoginsLost
<1>4. QED
  BY <1>2, <1>3 DEF LifeInv

\* Every step of the program keeps what is true of its life.
LEMMA LifeStepInv ==
  ASSUME LifeInv, LoginInv, [ServiceStep]_serviceVars
  PROVE  LifeInv'
<1>1. CASE Arrives \/ Logout \/ SweepBegins \/ Sweep \/ \E r \in Requests : Request(r)
  BY <1>1, UpInv DEF Arrives, Logout, SweepBegins, Sweep, Request, Open, Up, loginVars
<1>2. ASSUME NEW t \in Tabs, Arrivals(t) \/ LocalOrSSO(t) \/ Provider(t) PROVE LifeInv'
  <2>1. Up
    BY <1>2 DEF Arrivals, LocalOrSSO, Provider, Open, Up
  <2>2. load' = load
    BY <1>2 DEF Arrivals, SendLogin, BeginSSO, ReturnFromProvider, LocalOrSSO, Handles, HandleLogin,
       CheckProvider, LockProvider, GenerateAuthURL, Provider, Waits, AskProvider, ExchangeCode, ProviderFails
  <2>3. QED
    BY <2>1, <2>2, UpInv
<1>3. CASE Time \/ CookieExpires \/ Ended \/ UNCHANGED serviceVars
  BY <1>3 DEF Time, Tick, CookieExpires, StateCookieExpires, Ended, serviceVars, sessionVars, loginVars, lifeVars,
     store, LifeInv, LoadOK, LifeOK, NothingLeft
<1>4. CASE Signal \/ DeadlinePasses \/ Restart
  <2>1. phase' \in {"serving", "draining"}
    BY <1>4 DEF Signal, DeadlinePasses, Restart
  <2>2. load' = load /\ ended' = ended
    BY <1>4 DEF Signal, DeadlinePasses, Restart, loginVars
  <2>3. /\ ended' \in 0..load'.ends
        /\ phase' = "starting" => ended' = 0
        /\ phase' = "draining" => ended' < load'.ends
    BY <1>4, <2>2 DEF Signal, DeadlinePasses, Restart, LifeInv, LifeOK
  <2>4. /\ phase' \in {"starting", "serving", "draining", "down"} /\ deadlinePast' \in BOOLEAN
        /\ deadlinePast' => phase' = "draining"
    <3>1. CASE DeadlinePasses
      BY <3>1 DEF DeadlinePasses
    <3>2. CASE Signal \/ Restart
      <4>1. ~deadlinePast /\ deadlinePast \in BOOLEAN /\ deadlinePast' = deadlinePast
        BY <3>2 DEF Signal, Restart, LifeInv, LifeOK
      <4>2. phase' \in {"serving", "draining"}
        BY <3>2 DEF Signal, Restart
      <4>3. QED
        BY <4>1, <4>2
    <3>3. QED
      BY <1>4, <3>1, <3>2
  <2>5. QED
    BY <2>1, <2>2, <2>3, <2>4 DEF LifeInv, LoadOK, LifeOK, NothingLeft
<1>5. ASSUME NEW w \in Workloads, Begin(w) PROVE LifeInv'
  <2>1. w.ends \in Nat
    BY ServiceAssumption DEF WorkloadType
  <2>2. LoadOK' /\ LifeOK'
    BY <1>5, <2>1 DEF Begin, LifeInv, LifeOK, LoadOK
  <2>3. NothingLeft'
    BY <1>5 DEF Begin, NothingLeft
  <2>4. QED
    BY <2>2, <2>3 DEF LifeInv
<1>6. CASE gracefulShutdown \/ Crash
  BY <1>6, StopInv DEF gracefulShutdown, Crash, LifeInv, LifeOK
<1>7. QED
  BY <1>1, <1>2, <1>3, <1>4, <1>5, <1>6 DEF ServiceStep, ServiceNext

\* Locks are held by who is in the section they guard, and no session, provider or
\* request of a program outlives it, whenever it is told to end or crashes.
THEOREM ServiceTyped == ServiceSafety => []ServiceTypeOK
<1>1. ServiceInit => LifeInv
  <2> SUFFICES ASSUME ServiceInit PROVE LifeInv
    OBVIOUS
  <2>1. LoadOK /\ load.ends = 0
    BY DEF ServiceInit, LoginInit, LoadOK, NoWork
  <2>2. LifeOK
    <3>1. ended \in 0..load.ends
      BY <2>1 DEF ServiceInit
    <3>2. QED
      BY <3>1 DEF ServiceInit, LifeOK
  <2>3. NothingLeft
    BY DEF ServiceInit, SessionsInit, LoginInit, NothingLeft, AtServer, InInit
  <2>4. QED
    BY <2>1, <2>2, <2>3 DEF LifeInv
<1>2. LifeInv /\ LoginInv /\ [ServiceStep]_serviceVars => (LifeInv /\ LoginInv)'
  BY LifeStepInv, LoginStepInv
<1>3. LifeInv /\ LoginInv /\ SessionsInv => ServiceTypeOK
  BY DEF LifeInv, LoadOK, LifeOK, NothingLeft, LoginInv, TabsOK, LockOK, FlagsOK, SessionsInv, ServiceTypeOK, LoginTypeOK
<1>4. QED
  BY <1>1, <1>2, <1>3, LoginInitInv, SessionsSafe, PTL DEF ServiceSafety, ServiceInit, ServiceStep


------------------------------------------------------------------------------
(***************************************************************************)
(* What is left to do never grows but by a new request.  A scheduler that  *)
(* goes on with the steps counted here is all that the liveness properties *)
(* of Service need besides.                                                *)
(***************************************************************************)

\* Steps of the cleanup goroutine until an expired session has left the map: the end
\* of a sweep that read the time too early, the next sweep, and its end.
SweepsLeft(s) ==
  IF s \notin sessions \/ ~Expired(s, now) THEN 0
  ELSE IF sweepTime = 0 THEN 2
  ELSE IF Expired(s, sweepTime) THEN 1 ELSE 3

SweepsSettle ==
  \A s \in SessionIDs : SweepsLeft(s) > 0 =>
    /\ SweepsLeft(s)' <= SweepsLeft(s)
    /\ sweepTime' # sweepTime => SweepsLeft(s)' < SweepsLeft(s)

\* Steps that a protected request and a login's request have left.
RequestSteps(pc) ==
  CASE pc = "lookup" -> 4 [] pc = "check" -> 3 [] pc \in {"delete", "refresh"} -> 2
    [] pc = "extend" -> 1 [] OTHER -> 0
LoginSteps(pc) ==
  CASE pc = "check" -> 4 [] pc = "lock" -> 3 [] pc = "ask" -> 2
    [] pc \in {"local", "ready"} -> 1 [] OTHER -> 0

RequestsSettle ==
  \A r \in Requests : RequestSteps(req[r].pc) > 0 =>
    req'[r] = req[r] \/ RequestSteps(req'[r].pc) < RequestSteps(req[r].pc)
LoginsSettle ==
  \A t \in Tabs : LoginSteps(tab[t].pc) > 0 =>
    tab'[t] = tab[t] \/ LoginSteps(tab'[t].pc) < LoginSteps(tab[t].pc)

\* A program that drains goes nowhere but to its end, keeps its deadline, and starts
\* nothing new.
DrainingSettles ==
  phase = "draining" /\ phase' # "down" =>
    /\ phase' = "draining" /\ (deadlinePast => deadlinePast')
    /\ \A r \in Requests : RequestSteps(req[r].pc) = 0 => RequestSteps(req'[r].pc) = 0
    /\ \A t \in Tabs : LoginSteps(tab[t].pc) = 0 => LoginSteps(tab'[t].pc) = 0

\* An expired session that a step leaves in the map and expired has the expiry it
\* had, and a sweep that ends has read a time before it.
LEMMA StillExpired ==
  ASSUME SessionsInv, SessionStep, NEW s \in SessionIDs,
         s \in sessions, Expired(s, now), s \in sessions', Expired(s, now)'
  PROVE  /\ expiresAt'[s] = expiresAt[s]
         /\ \/ sweepTime' = sweepTime
            \/ sweepTime = 0 /\ sweepTime' = now /\ now' = now
            \/ sweepTime # 0 /\ sweepTime' = 0 /\ ~Expired(s, sweepTime)
<1>1. ASSUME NEW r \in Requests, RequireAuth(r) PROVE expiresAt'[s] = expiresAt[s] /\ sweepTime' = sweepTime
  <2>1. CASE Extend(r)
    <3>1. now' = now /\ sweepTime' = sweepTime /\ now + Timeout \in Nat /\ now <= now + Timeout
      BY <2>1, TypeParts, SessionsAssumption DEF Extend, SessionsInv, ScalarsOK
    <3>2. expiresAt' = [expiresAt EXCEPT ![req[r].id] = now + Timeout] /\ DOMAIN expiresAt = SessionIDs
      BY <2>1, TypeParts DEF Extend, SessionsInv, ExpiriesOK
    <3>3. s = req[r].id => expiresAt'[s] = now + Timeout
      BY <3>2
    <3>4. s # req[r].id
      BY <3>1, <3>3, TypeParts DEF Expired, SessionsInv, ScalarsOK
    <3>5. QED
      BY <3>1, <3>2, <3>4
  <2>2. CASE Lookup(r) \/ Check(r)
    BY <2>2 DEF Lookup, Check, store
  <2>3. CASE DeleteExpired(r) \/ RefreshSession(r)
    BY <2>3 DEF DeleteExpired, RefreshSession
  <2>4. QED
    BY <1>1, <2>1, <2>2, <2>3 DEF RequireAuth
<1>2. ASSUME NEW r \in Requests, NEW id \in SessionIDs, Arrive(r, id)
      PROVE  expiresAt'[s] = expiresAt[s] /\ sweepTime' = sweepTime
  BY <1>2 DEF Arrive, store
<1>3. ASSUME NEW id \in SessionIDs, CreateSession(id) PROVE expiresAt'[s] = expiresAt[s] /\ sweepTime' = sweepTime
  <2>1. id # s
    BY <1>3, TypeParts DEF CreateSession, SessionsInv, ScalarsOK
  <2>2. DOMAIN expiresAt = SessionIDs
    BY TypeParts DEF SessionsInv, ExpiriesOK
  <2>3. QED
    BY <1>3, <2>1, <2>2 DEF CreateSession
<1>4. ASSUME NEW id \in SessionIDs, DeleteSession(id) PROVE expiresAt'[s] = expiresAt[s] /\ sweepTime' = sweepTime
  BY <1>4 DEF DeleteSession
<1>5. CASE CleanupTick
  BY <1>5 DEF CleanupTick, store
<1>6. CASE cleanupExpiredSessions
  BY <1>6 DEF cleanupExpiredSessions
<1>7. CASE Tick
  BY <1>7 DEF Tick, store
<1>8. CASE SessionsLost
  BY <1>8 DEF SessionsLost
<1>9. CASE UNCHANGED sessionVars
  BY <1>9 DEF sessionVars, store
<1>10. QED
  BY <1>1, <1>2, <1>3, <1>4, <1>5, <1>6, <1>7, <1>8, <1>9 DEF SessionStep

\* Three steps of the cleanup goroutine are enough, whatever happens in between.
LEMMA SweepsStepSettle ==
  ASSUME SessionsInv, SessionStep
  PROVE  SweepsSettle
<1> SUFFICES ASSUME NEW s \in SessionIDs, SweepsLeft(s) > 0
             PROVE  /\ SweepsLeft(s)' <= SweepsLeft(s)
                    /\ sweepTime' # sweepTime => SweepsLeft(s)' < SweepsLeft(s)
  BY DEF SweepsSettle
<1>1. s \in sessions /\ Expired(s, now)
  BY DEF SweepsLeft
<1>2. SweepsLeft(s) \in {1, 2, 3}
  BY <1>1 DEF SweepsLeft
<1>3. CASE s \notin sessions' \/ ~Expired(s, now)'
  <2>1. SweepsLeft(s)' = 0
    BY <1>3 DEF SweepsLeft
  <2>2. QED
    BY <1>2, <2>1
<1>4. CASE s \in sessions' /\ Expired(s, now)'
  <2>1. /\ expiresAt'[s] = expiresAt[s]
        /\ \/ sweepTime' = sweepTime
           \/ sweepTime = 0 /\ sweepTime' = now /\ now' = now
           \/ sweepTime # 0 /\ sweepTime' = 0 /\ ~Expired(s, sweepTime)
    BY <1>1, <1>4, StillExpired
  <2>2. SweepsLeft(s)' = IF sweepTime' = 0 THEN 2 ELSE IF sweepTime' > expiresAt'[s] THEN 1 ELSE 3
    BY <1>4 DEF SweepsLeft, Expired
  <2>3. SweepsLeft(s) = IF sweepTime = 0 THEN 2 ELSE IF sweepTime > expiresAt[s] THEN 1 ELSE 3
    BY <1>1 DEF SweepsLeft, Expired
  <2>4. now \in Nat /\ now # 0 /\ now > expiresAt[s]
    BY <1>1, TypeParts, SessionsAssumption DEF SessionsInv, ScalarsOK, Expired
  <2>5. CASE sweepTime' = sweepTime
    BY <2>1, <2>2, <2>3, <2>5
  <2>6. CASE sweepTime = 0 /\ sweepTime' = now
    BY <2>1, <2>2, <2>3, <2>4, <2>6
  <2>7. CASE sweepTime # 0 /\ sweepTime' = 0 /\ ~Expired(s, sweepTime)
    <3>1. ~(sweepTime > expiresAt[s])
      BY <2>7 DEF Expired
    <3>2. QED
      BY <2>2, <2>3, <2>7, <3>1
  <2>8. QED
    BY <2>1, <2>5, <2>6, <2>7
<1>5. QED
  BY <1>3, <1>4

\* A request that moves has fewer steps left, and no other moves but when all end.
LEMMA RequestsStepSettle ==
  ASSUME SessionsInv, SessionStep
  PROVE  RequestsSettle
<1> SUFFICES ASSUME NEW r \in Requests, RequestSteps(req[r].pc) > 0
             PROVE  req'[r] = req[r] \/ RequestSteps(req'[r].pc) < RequestSteps(req[r].pc)
  BY DEF RequestsSettle
<1>1. RequestsOK
  BY TypeParts DEF SessionsInv
<1>2. req[r].pc \in {"lookup", "check", "delete", "refresh", "extend"}
  BY DEF RequestSteps
<1>3. ASSUME NEW q \in Requests, RequireAuth(q) PROVE req'[r] = req[r] \/ RequestSteps(req'[r].pc) < RequestSteps(req[r].pc)
  <2>1. PICK step \in Steps : Goto(q, step) /\ RequestSteps(step) < RequestSteps(req[q].pc)
    <3>1. CASE Lookup(q)
      <4>1. \E step \in {"check", "refused"} : Goto(q, step)
        BY <3>1 DEF Lookup, Refuse
      <4>2. QED
        BY <3>1, <4>1 DEF Lookup, At, RequestSteps, Steps, Idle
    <3>2. CASE Check(q)
      <4>1. \E step \in {"delete", "refresh"} : Goto(q, step)
        BY <3>2 DEF Check
      <4>2. QED
        BY <3>2, <4>1 DEF Check, At, RequestSteps, Steps, Idle
    <3>3. CASE DeleteExpired(q)
      BY <3>3 DEF DeleteExpired, Refuse, At, RequestSteps, Steps, Idle
    <3>4. CASE RefreshSession(q)
      <4>1. \E step \in {"extend", "served"} : Goto(q, step)
        BY <3>4 DEF RefreshSession, LetIn
      <4>2. QED
        BY <3>4, <4>1 DEF RefreshSession, At, RequestSteps, Steps, Idle
    <3>5. CASE Extend(q)
      BY <3>5 DEF Extend, LetIn, At, RequestSteps, Steps, Idle
    <3>6. QED
      BY <1>3, <3>1, <3>2, <3>3, <3>4, <3>5 DEF RequireAuth
  <2>2. Moves(q, step)
    BY <1>1, <2>1, GotoMoves
  <2>3. QED
    BY <2>1, <2>2 DEF Moves
<1>4. ASSUME NEW q \in Requests, NEW id \in SessionIDs, Arrive(q, id) PROVE req'[r] = req[r]
  BY <1>1, <1>2, <1>4 DEF Arrive, RequestsOK, Idle
<1>5. CASE SessionsLost
  <2>1. req'[r].pc = "idle"
    BY <1>1, <1>2, <1>5 DEF SessionsLost, RequestsOK, Idle
  <2>2. QED
    BY <1>2, <2>1 DEF RequestSteps
<1>6. CASE CleanupTick \/ cleanupExpiredSessions \/ Tick \/ UNCHANGED sessionVars
  BY <1>6 DEF CleanupTick, cleanupExpiredSessions, Tick, sessionVars
<1>7. ASSUME NEW id \in SessionIDs, CreateSession(id) \/ DeleteSession(id) PROVE req'[r] = req[r]
  BY <1>7 DEF CreateSession, DeleteSession
<1>8. QED
  BY <1>3, <1>4, <1>5, <1>6, <1>7 DEF SessionStep

\* A login that moves at the server has fewer steps left, and no other moves.
LEMMA LoginMoves ==
  ASSUME LoginInv, NEW t \in Tabs, LocalOrSSO(t) \/ Provider(t)
  PROVE  \E pc \in {"ready", "lock", "ask", "at provider", "in", "failed"} :
           TabMoves(t, pc) /\ LoginSteps(pc) < LoginSteps(tab[t].pc)
<1> USE DEF LoginInv
<1> DEFINE Fewer(from, to) == LoginSteps(to) < LoginSteps(from)
<1>0. /\ \A from \in {"local", "ready", "ask"}, to \in {"in", "failed", "at provider"} : Fewer(from, to)
      /\ Fewer("check", "ready") /\ Fewer("check", "lock")
      /\ Fewer("lock", "ready") /\ Fewer("lock", "ask") /\ Fewer("ask", "ready")
  BY DEF LoginSteps
<1> HIDE DEF Fewer
<1>1. CASE HandleLogin(t)
  <2>1. PICK pc \in {"in", "failed"} : TabMoves(t, pc)
    BY <1>1, EndsMoves DEF HandleLogin
  <2>2. Fewer(tab[t].pc, pc)
    BY <1>0, <1>1 DEF HandleLogin
  <2>3. QED
    BY <2>1, <2>2 DEF Fewer
<1>2. CASE CheckProvider(t)
  <2>1. PICK pc \in {"ready", "lock"} : TabMoves(t, pc)
    BY <1>2, GoesMoves DEF CheckProvider, AtServer, InInit
  <2>2. Fewer(tab[t].pc, pc)
    BY <1>0, <1>2 DEF CheckProvider
  <2>3. QED
    BY <2>1, <2>2 DEF Fewer
<1>3. CASE LockProvider(t)
  <2>1. PICK pc \in {"ready", "ask"} : TabMoves(t, pc)
    BY <1>3, GoesMoves DEF LockProvider, AtServer, InInit
  <2>2. Fewer(tab[t].pc, pc)
    BY <1>0, <1>3 DEF LockProvider
  <2>3. QED
    BY <2>1, <2>2 DEF Fewer
<1>4. CASE AskProvider(t)
  <2>1. TabMoves(t, "ready")
    BY <1>4, GoesMoves DEF AskProvider, AtServer, InInit
  <2>2. Fewer(tab[t].pc, "ready")
    BY <1>0, <1>4 DEF AskProvider
  <2>3. QED
    BY <2>1, <2>2 DEF Fewer
<1>5. CASE GenerateAuthURL(t) \/ ExchangeCode(t) \/ ProviderFails(t)
  <2>1. PICK pc \in {"at provider", "in", "failed"} : TabMoves(t, pc)
    <3>1. TabMoves(t, "at provider") \/ TabMoves(t, "in") \/ TabMoves(t, "failed")
      BY <1>5, EndsMoves DEF GenerateAuthURL, ExchangeCode, ProviderFails
    <3>2. QED
      BY <3>1
  <2>2. tab[t].pc \in {"ready", "ask"}
    BY <1>5 DEF GenerateAuthURL, ExchangeCode, ProviderFails, Doing
  <2>3. Fewer(tab[t].pc, pc)
    BY <1>0, <2>2
  <2>4. QED
    BY <2>1, <2>3 DEF Fewer
<1>6. QED
  BY <1>1, <1>2, <1>3, <1>4, <1>5 DEF LocalOrSSO, Handles, Provider, Waits

\* So does every step of the program.
LEMMA LoginsStepSettle ==
  ASSUME LoginInv, [ServiceStep]_serviceVars
  PROVE  LoginsSettle
<1> SUFFICES ASSUME NEW t \in Tabs, LoginSteps(tab[t].pc) > 0
             PROVE  tab'[t] = tab[t] \/ LoginSteps(tab'[t].pc) < LoginSteps(tab[t].pc)
  BY DEF LoginsSettle
<1>1. tab[t].pc \in AtServer
  BY DEF LoginSteps, AtServer, InInit
<1>2. CASE Arrives \/ Logout \/ SweepBegins \/ Sweep \/ (\E r \in Requests : Request(r)) \/ Time
  BY <1>2 DEF Arrives, Logout, SweepBegins, Sweep, Request, Time, loginVars
<1>3. ASSUME NEW u \in Tabs, LocalOrSSO(u) \/ Provider(u)
      PROVE  tab'[t] = tab[t] \/ LoginSteps(tab'[t].pc) < LoginSteps(tab[t].pc)
  BY <1>3, LoginMoves DEF TabMoves
<1>4. ASSUME NEW u \in Tabs, Arrivals(u) PROVE tab'[t] = tab[t]
  <2>1. u # t
    BY <1>1, <1>4 DEF Arrivals, SendLogin, BeginSSO, MayStart, ReturnFromProvider, AtServer, InInit
  <2>2. QED
    BY <1>4, <2>1 DEF Arrivals, SendLogin, BeginSSO, ReturnFromProvider, Ends, LoginInv, TabsOK
<1>5. CASE CookieExpires \/ Signal \/ DeadlinePasses \/ Restart \/ Ended \/ UNCHANGED serviceVars
  BY <1>5 DEF CookieExpires, StateCookieExpires, Signal, DeadlinePasses, Restart, Ended, serviceVars, loginVars
<1>6. ASSUME NEW w \in Workloads, Begin(w) PROVE tab'[t] = tab[t]
  BY <1>6 DEF Begin
<1>7. CASE gracefulShutdown \/ Crash
  <2>1. tab'[t].pc = "failed"
    <3>1. LoginsLost
      BY <1>7 DEF gracefulShutdown, Crash, Stop
    <3>2. QED
      BY <1>1, <3>1 DEF LoginsLost
  <2>2. LoginSteps(tab'[t].pc) = 0
    BY <2>1 DEF LoginSteps
  <2>3. LoginSteps(tab[t].pc) \in {1, 2, 3, 4}
    BY <1>1 DEF LoginSteps, AtServer, InInit
  <2>4. QED
    BY <2>2, <2>3
<1>8. QED
  BY <1>2, <1>3, <1>4, <1>5, <1>6, <1>7 DEF ServiceStep, ServiceNext

\* While the program drains nothing arrives.
LEMMA DrainingStepSettles ==
  ASSUME LoadOK, SessionsInv, LoginInv, [ServiceStep]_serviceVars
  PROVE  DrainingSettles
<1> SUFFICES ASSUME phase = "draining", phase' # "down" PROVE DrainingSettles
  BY DEF DrainingSettles
<1> DEFINE RequestsKept == \A r \in Requests : RequestSteps(req[r].pc) = 0 => RequestSteps(req'[r].pc) = 0
           LoginsKept == \A t \in Tabs : LoginSteps(tab[t].pc) = 0 => LoginSteps(tab'[t].pc) = 0
<1>1. RequestsOK
  BY TypeParts DEF SessionsInv
<1>2. req' = req => RequestsKept
  OBVIOUS
<1>3. tab' = tab => LoginsKept
  OBVIOUS
<1> HIDE DEF RequestsKept, LoginsKept
<1>4. ~Arrives /\ ~Logout /\ ~Signal /\ ~Crash /\ ~Restart /\ ~Ended /\ ~gracefulShutdown
  BY DEF Arrives, Logout, Open, Signal, Crash, Restart, Ended, gracefulShutdown, Stop
<1>5. \A t \in Tabs : ~Arrivals(t)
  BY DEF Arrivals, Open
<1>6. \A w \in Workloads : ~Begin(w)
  BY DEF Begin
<1>7. CASE SweepBegins \/ Sweep \/ Time \/ CookieExpires \/ UNCHANGED serviceVars
  <2>1. req' = req /\ tab' = tab /\ UNCHANGED lifeVars
    BY <1>7 DEF SweepBegins, CleanupTick, Sweep, cleanupExpiredSessions, Up, Time, Tick, CookieExpires,
       StateCookieExpires, sessionVars, loginVars, serviceVars
  <2>2. QED
    BY <1>2, <1>3, <2>1 DEF DrainingSettles, lifeVars, RequestsKept, LoginsKept
<1>8. ASSUME NEW r \in Requests, Request(r) PROVE DrainingSettles
  <2>1. tab' = tab /\ UNCHANGED lifeVars /\ RequireAuth(r)
    BY <1>8 DEF Request, Up, loginVars
  <2>2. \E step : Goto(r, step)
    BY <2>1 DEF RequireAuth, Lookup, Check, DeleteExpired, RefreshSession, Extend, Refuse, LetIn
  <2>3. RequestSteps(req[r].pc) > 0
    BY <2>1 DEF RequireAuth, Lookup, Check, DeleteExpired, RefreshSession, Extend, At, RequestSteps
  <2>4. \A q \in Requests \ {r} : req'[q] = req[q]
    BY <1>1, <2>2 DEF Goto, RequestsOK
  <2>5. RequestsKept
    BY <2>3, <2>4 DEF RequestsKept
  <2>6. QED
    BY <1>3, <2>1, <2>5 DEF DrainingSettles, lifeVars, RequestsKept, LoginsKept
<1>9. ASSUME NEW t \in Tabs, LocalOrSSO(t) \/ Provider(t) PROVE DrainingSettles
  <2>1. UNCHANGED lifeVars
    BY <1>9 DEF LocalOrSSO, Provider, Up
  <2>2. req' = req
    BY <1>9 DEF LocalOrSSO, Provider, Handles, Waits, HandleLogin, CheckProvider, LockProvider, GenerateAuthURL,
       AskProvider, ExchangeCode, ProviderFails, CreateNewSession, CreateSession, sessionVars
  <2>3. PICK pc : TabMoves(t, pc) /\ LoginSteps(pc) < LoginSteps(tab[t].pc) /\ LoginSteps(pc) \in Nat
    <3>1. \A pc : LoginSteps(pc) \in Nat
      BY DEF LoginSteps
    <3>2. QED
      BY <1>9, <3>1, LoginMoves
  <2>4. LoginSteps(tab[t].pc) # 0
    <3>1. LoginSteps(tab[t].pc) \in Nat
      BY DEF LoginSteps
    <3>2. QED
      BY <2>3, <3>1
  <2>5. LoginsKept
    BY <2>3, <2>4 DEF LoginsKept, TabMoves
  <2>6. QED
    BY <1>2, <2>1, <2>2, <2>5 DEF DrainingSettles, lifeVars, RequestsKept, LoginsKept
<1>10. CASE DeadlinePasses
  <2>1. req' = req /\ tab' = tab /\ phase' = phase /\ deadlinePast' = TRUE
    BY <1>10 DEF DeadlinePasses, sessionVars, loginVars
  <2>2. QED
    BY <1>2, <1>3, <2>1 DEF DrainingSettles, RequestsKept, LoginsKept
<1>11. QED
  BY <1>4, <1>5, <1>6, <1>7, <1>8, <1>9, <1>10 DEF ServiceStep, ServiceNext

\* The safety part of ExpiredSessionsRemoved, EmergencyAccess, LoginsGoOn and
\* EndsAfterSignal.  An expired session that stays so is at most three steps of the
\* cleanup goroutine from leaving the map (session.go, cleanupExpiredSessions), every
\* request and every login at most four of its own from its answer (middleware/auth.go,
\* RequireAuth; oidc.go, initProvider), whatever all the others do; and a program that
\* was told to end starts nothing new (server.go, gracefulShutdown).
THEOREM ServiceSettles == ServiceSafety => [][SweepsSettle /\ RequestsSettle /\ LoginsSettle /\ DrainingSettles]_serviceVars
<1>1. LoginInv /\ [ServiceStep]_serviceVars => LoginInv'
  BY LoginStepInv
<1>2. LoadOK /\ SessionsInv /\ LoginInv /\ [ServiceStep]_serviceVars
        => SweepsSettle /\ RequestsSettle /\ LoginsSettle /\ DrainingSettles
  BY ServiceStepIsSessionStep, SweepsStepSettle, RequestsStepSettle, LoginsStepSettle, DrainingStepSettles
<1>3. QED
  BY <1>1, <1>2, LoginInitInv, SessionsSafe, PTL DEF ServiceSafety, ServiceInit, ServiceStep

------------------------------------------------------------------------------
(***************************************************************************)
(* The program from its files on, whatever their merge is.                 *)
(***************************************************************************)

\* After its start the program is a Service, and before it waits for its files.
LEMMA ServerStepIsServiceStep == [Next]_vars => [ServiceStep]_serviceVars
<1>1. CASE ReadFiles \/ Configure \/ EditFiles
  BY <1>1 DEF ReadFiles, Configure, EditFiles
<1>2. CASE Start
  BY <1>2 DEF Start, ServiceStep
<1>3. CASE Serve
  BY <1>3 DEF Serve, ServiceStep
<1>4. CASE UNCHANGED vars
  BY <1>4 DEF vars
<1> QED BY <1>1, <1>2, <1>3, <1>4 DEF Next

\* The whole program has the safety properties of its Service.
THEOREM ServerRunsAService == Spec => ServiceSafety
<1>1. ServerInit => ServiceInit
  BY DEF ServerInit
<1> QED BY <1>1, ServerStepIsServiceStep, PTL DEF Spec, ServiceSafety, ServiceStep

\* What is read after a default was filled in.
LEMMA AuthDefaults ==
  ASSUME NEW doc
  PROVE  LET c == Decode(doc)
             d == LoadConfig(doc)
         IN  /\ d.localAdmin = c.localAdmin /\ d.metricsAuth = c.metricsAuth /\ d.sources = c.sources
             /\ d.oidc.on = c.oidc.on
             /\ \A f \in {"issuer", "clientID", "clientSecret"} : d.oidc[f] = c.oidc[f]
             /\ c.oidc.on => ~Blank(d.oidc.groupScope) /\ ~Blank(d.oidc.userNameScope)
<1> DEFINE c == Decode(doc)
           d == LoadConfig(doc)
           fields == {"on", "issuer", "clientID", "clientSecret", "groupScope", "userNameScope"}
           default(f, t) == IF c.oidc.on /\ Blank(c.oidc[f]) THEN t ELSE c.oidc[f]
<1>1. DOMAIN c = {"hostURL", "timeout", "labels", "localAdmin", "oidc", "metricsAuth", "locations", "sources"}
  BY DEF Decode
<1>2. c.oidc = [f \in fields |-> c.oidc[f]]
  <2>1. c.oidc = Part(Section(doc, "oidc"), Field(Section(doc, "oidc"), "config"),
                      {"issuer", "clientID", "clientSecret", "groupScope", "userNameScope"})
    BY DEF Decode
  <2> QED BY <2>1 DEF Part
<1> HIDE DEF c
<1>3. d = [c EXCEPT !.oidc.groupScope = default("groupScope", "groups"),
                    !.oidc.userNameScope = default("userNameScope", "preferred_username")]
  BY DEF LoadConfig, applyAuthDefaults, c
<1> HIDE DEF d
<1>4. /\ d.localAdmin = c.localAdmin /\ d.metricsAuth = c.metricsAuth /\ d.sources = c.sources
      /\ d.oidc = [[c.oidc EXCEPT !.groupScope = default("groupScope", "groups")]
                     EXCEPT !.userNameScope = default("userNameScope", "preferred_username")]
  BY <1>1, <1>3
<1>5. /\ d.oidc.on = c.oidc.on
      /\ \A f \in {"issuer", "clientID", "clientSecret"} : d.oidc[f] = c.oidc[f]
      /\ d.oidc.groupScope = default("groupScope", "groups")
      /\ d.oidc.userNameScope = default("userNameScope", "preferred_username")
  BY <1>2, <1>4
<1>6. ~Blank("groups") /\ ~Blank("preferred_username")
  BY DEF Blank
<1>7. c.oidc.on => ~Blank(d.oidc.groupScope) /\ ~Blank(d.oidc.userNameScope)
  BY <1>5, <1>6
<1> QED BY <1>4, <1>5, <1>7 DEF c, d

\* What ConfigurationSuffices asks of a configuration.
Suffices(c) ==
  /\ c.oidc.on => CanInitProvider(c) \/ c.oidc.issuer \in Unparsable
  /\ c.localAdmin.on => Authenticate(c, c.localAdmin.username, c.localAdmin.password)
  /\ \/ c.metricsAuth.type = "basic" /\ c.metricsAuth.username \in Colons
     \/ RequireMetricsAuth(c, ScraperHeader(c))
  /\ \A i, j \in DOMAIN c.sources : TextAt(c.sources[i], "name") = TextAt(c.sources[j], "name") => i = j

\* The checks of a document leave nothing to go wrong later.
LEMMA LoadedSuffices ==
  ASSUME NEW doc, Loads(doc),
         Len(ItemsAt(doc, "sources")) \in Nat,
         DOMAIN ItemsAt(doc, "sources") = 1..Len(ItemsAt(doc, "sources"))
  PROVE  Suffices(LoadConfig(doc))
<1> DEFINE c == Decode(doc)
           d == LoadConfig(doc)
<1>1. validateConfig(c)
  BY DEF Loads
<1>2. /\ d.localAdmin = c.localAdmin /\ d.metricsAuth = c.metricsAuth /\ d.sources = c.sources
      /\ d.oidc.on = c.oidc.on
      /\ \A f \in {"issuer", "clientID", "clientSecret"} : d.oidc[f] = c.oidc[f]
      /\ c.oidc.on => ~Blank(d.oidc.groupScope) /\ ~Blank(d.oidc.userNameScope)
  BY AuthDefaults
<1>3. c.sources = ItemsAt(doc, "sources")
  BY DEF Decode
<1> HIDE DEF c, d
<1>4. validateAuthConfig(c)
  BY <1>1 DEF validateConfig
<1>5. d.oidc.on => CanInitProvider(d) \/ d.oidc.issuer \in Unparsable
  BY <1>2, <1>4 DEF validateAuthConfig, CanInitProvider, Blank
<1>6. d.localAdmin.on => Authenticate(d, d.localAdmin.username, d.localAdmin.password)
  BY <1>2, <1>4 DEF validateAuthConfig, Authenticate
<1>7. \/ d.metricsAuth.type = "basic" /\ d.metricsAuth.username \in Colons
      \/ RequireMetricsAuth(d, ScraperHeader(d))
  <2>1. /\ ScraperHeader(d).scheme = d.metricsAuth.type
        /\ ScraperHeader(d).username = d.metricsAuth.username
        /\ ScraperHeader(d).password = d.metricsAuth.password
        /\ ScraperHeader(d).token = d.metricsAuth.token
    BY DEF ScraperHeader
  <2> QED BY <2>1 DEF RequireMetricsAuth
<1>8. \A i, j \in DOMAIN d.sources : TextAt(d.sources[i], "name") = TextAt(d.sources[j], "name") => i = j
  <2> SUFFICES ASSUME NEW i \in DOMAIN d.sources, NEW j \in DOMAIN d.sources,
                      TextAt(d.sources[i], "name") = TextAt(d.sources[j], "name"), i # j
               PROVE  FALSE
    OBVIOUS
  <2>1. i \in 1..Len(c.sources) /\ j \in 1..Len(c.sources) /\ Len(c.sources) \in Nat
    BY <1>2, <1>3
  <2>2. \A m \in DOMAIN c.sources : \A n \in 1..(m - 1) :
          TextAt(c.sources[n], "name") # TextAt(c.sources[m], "name")
    BY <1>1 DEF validateConfig
  <2>3. CASE i < j
    BY <1>2, <2>1, <2>2, <2>3
  <2>4. CASE j < i
    BY <1>2, <2>1, <2>2, <2>4
  <2> QED BY <2>1, <2>3, <2>4
<1> QED BY <1>5, <1>6, <1>7, <1>8 DEF Suffices, d

\* The document in the program's hands is the merge of two of the files, and the
\* settings come from one that was checked.
StartInv ==
  /\ startup = "merged" =>
       \E f \in ConfigFiles : ~Unmergeable(f.base, f.overlay) /\ config = Merged(f.base, f.overlay)
  /\ startup = "configured" =>
       \E f \in ConfigFiles : /\ ~Unmergeable(f.base, f.overlay) /\ Loads(Merged(f.base, f.overlay))
                              /\ config = LoadConfig(Merged(f.base, f.overlay))

LEMMA StartStepInv == StartInv /\ [Next]_vars => StartInv'
<1> SUFFICES ASSUME StartInv, [Next]_vars PROVE StartInv'
  OBVIOUS
<1>1. CASE ReadFiles
  BY <1>1 DEF ReadFiles, StartInv
<1>2. CASE Configure
  BY <1>2 DEF Configure, StartInv
<1>3. CASE Start \/ EditFiles
  BY <1>3 DEF Start, EditFiles, StartInv
<1>4. CASE Serve \/ UNCHANGED vars
  BY <1>4 DEF Serve, vars, startVars, StartInv
<1> QED BY <1>1, <1>2, <1>3, <1>4 DEF Next

\* ConfigurationSuffices: with any two files, and any merge of them that leaves the
\* sources a sequence, the program that starts can work with its settings
\* (config.go, LoadConfig; oidc.go, initProvider; metrics_auth.go; local.go).
THEOREM ConfigurationSufficesCorrect == Spec => []ConfigurationSuffices
<1>1. ServerInit => StartInv
  BY DEF ServerInit, StartInv
<1>2. StartInv => ConfigurationSuffices
  <2> SUFFICES ASSUME StartInv, startup = "configured" PROVE Suffices(config)
    BY DEF ConfigurationSuffices, Suffices
  <2>1. PICK f \in ConfigFiles : /\ ~Unmergeable(f.base, f.overlay) /\ Loads(Merged(f.base, f.overlay))
                                 /\ config = LoadConfig(Merged(f.base, f.overlay))
    BY DEF StartInv
  <2>2. LET sources == ItemsAt(Merged(f.base, f.overlay), "sources")
        IN  Len(sources) \in Nat /\ DOMAIN sources = 1..Len(sources)
    BY <2>1, ListsAssumption
  <2> QED BY <2>1, <2>2, LoadedSuffices
<1> QED BY <1>1, <1>2, StartStepInv, PTL DEF Spec
=============================================================================
