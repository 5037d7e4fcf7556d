----------------------------- MODULE ScrapePool -----------------------------
(***************************************************************************)
(* Scrape of the HTTP and the Prometheus scraper: a loop starts a goroutine *)
(* per app, a channel of maxParallel slots limits how many run, and a wait  *)
(* group holds the result back until all have stored theirs.                *)
(***************************************************************************)
EXTENDS Naturals, FiniteSets

CONSTANTS
  NumApps,      \* apps of the source
  MaxParallel,  \* scraping.max_parallel
  ErrorStatus,  \* the status of an app whose check fails: down, or unavailable
  NoResult

Apps == 1..NumApps
Statuses == {"up", "down", "unavailable"}

\* Nothing in the code enforces that max_parallel is set, and 0 blocks for ever.
ASSUME CountsAssumption == NumApps \in Nat /\ MaxParallel \in Nat \ {0}

ASSUME StatusAssumption ==
  /\ ErrorStatus \in Statuses
  /\ NoResult \notin Statuses /\ NoResult \notin [Apps -> Statuses]

VARIABLES
  next,       \* the app the loop is at
  worker,     \* [app] -> what its goroutine does next
  found,      \* [app] -> what its check came to
  results,    \* [app] -> its slot of the result
  slots,      \* elements in the channel sem
  unfinished, \* the wait group's counter
  returned

InState(states) == {i \in Apps : worker[i] \in states}
Running == {"check", "store", "release"}
WorkerStates == {"none"} \cup Running \cup {"done", "gone"}

poolVars == <<next, worker, found, results, slots, unfinished, returned>>

PoolInit ==
  /\ next = 1 /\ returned = FALSE
  /\ worker = [i \in Apps |-> "none"]
  /\ found = [i \in Apps |-> NoResult] /\ results = [i \in Apps |-> NoResult]
  /\ slots = 0 /\ unfinished = 0

\* Mutant: the slot is taken without looking whether there is one.
AcquireUnbounded ==
  /\ next \in Apps
  /\ slots' = slots + 1 /\ unfinished' = unfinished + 1
  /\ worker' = [worker EXCEPT ![next] = "check"]
  /\ next' = next + 1
  /\ UNCHANGED <<found, results, returned>>

\* The loop takes a slot, counts the goroutine and starts it.
Acquire ==
  /\ next \in Apps
  /\ slots < MaxParallel
  /\ slots' = slots + 1 /\ unfinished' = unfinished + 1
  /\ worker' = [worker EXCEPT ![next] = "check"]
  /\ next' = next + 1
  /\ UNCHANGED <<found, results, returned>>

Goto(i, from, to) == worker[i] = from /\ worker' = [worker EXCEPT ![i] = to]

\* check comes to a status, or fails; the client's timeout ends it.
Check(i) ==
  /\ Goto(i, "check", "store")
  /\ \E status \in {"up", "down", ErrorStatus} : found' = [found EXCEPT ![i] = status]
  /\ UNCHANGED <<next, results, slots, unfinished, returned>>

\* The slot of the result is written under mu.
StoreResult(i) ==
  /\ Goto(i, "store", "release")
  /\ results' = [results EXCEPT ![i] = found[i]]
  /\ UNCHANGED <<next, found, slots, unfinished, returned>>

\* Mutant: a goroutine whose check failed keeps its slot.
ReleaseUnlessFailed(i) ==
  /\ Goto(i, "release", "done")
  /\ slots' = IF found[i] = ErrorStatus THEN slots ELSE slots - 1
  /\ UNCHANGED <<next, found, results, unfinished, returned>>

Release(i) ==
  /\ Goto(i, "release", "done")
  /\ slots' = slots - 1
  /\ UNCHANGED <<next, found, results, unfinished, returned>>

Done(i) ==
  /\ Goto(i, "done", "gone")
  /\ unfinished' = unfinished - 1
  /\ UNCHANGED <<next, found, results, slots, returned>>

\* Mutant: the end of the loop is enough.
WaitForLoop ==
  /\ next \notin Apps /\ ~returned
  /\ returned' = TRUE
  /\ UNCHANGED <<next, worker, found, results, slots, unfinished>>

\* wg.Wait, and the return.
Wait ==
  /\ next \notin Apps /\ unfinished = 0 /\ ~returned
  /\ returned' = TRUE
  /\ UNCHANGED <<next, worker, found, results, slots, unfinished>>

Goroutine(i) == Check(i) \/ StoreResult(i) \/ Release(i) \/ Done(i)

PoolNext == Acquire \/ Wait \/ \E i \in Apps : Goroutine(i)

\* The loop and every goroutine run; a check ends by its client's timeout.
PoolFairness == WF_poolVars(Acquire \/ Wait) /\ \A i \in Apps : WF_poolVars(Goroutine(i))

PoolSafety == PoolInit /\ [][PoolNext]_poolVars
PoolSpec == PoolSafety /\ PoolFairness

------------------------------------------------------------------------------
(***************************************************************************)
(* Properties.                                                             *)
(***************************************************************************)

\* Type invariant; the two counters count what they are for.
PoolTypeOK ==
  /\ next \in 1..(NumApps + 1)
  /\ worker \in [Apps -> WorkerStates]
  /\ found \in [Apps -> Statuses \cup {NoResult}] /\ results \in [Apps -> Statuses \cup {NoResult}]
  /\ slots = Cardinality(InState(Running))
  /\ unfinished = Cardinality(InState(Running \cup {"done"}))
  /\ returned \in BOOLEAN

\* max_parallel: never more checks in flight, nor more goroutines that could
\* start one, than configured.
BoundedParallelism == Cardinality(InState({"check"})) <= MaxParallel

\* When Scrape has returned no goroutine of it is left that could still write,
\* and every app's slot holds what that app's own check came to.
ReturnsComplete ==
  returned => \A i \in Apps : worker[i] = "gone" /\ results[i] = found[i] /\ results[i] # NoResult

\* Scrape returns once, with a status for every app.
Call == INSTANCE ScrapeCall WITH out <- IF returned THEN results ELSE NoResult
ImplementsScrapeCall == Call!CallSpec
=============================================================================
