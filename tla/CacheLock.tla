------------------------------ MODULE CacheLock ------------------------------
(***************************************************************************)
(* cacheMutex and the label manager's mutex, as the goroutines of one      *)
(* server use them: scrapers write, request handlers read.  A sync.RWMutex *)
(* is modelled as the Go library implements it: a writer first announces   *)
(* itself, which makes later readers wait for it, and then waits for the   *)
(* readers that are inside; when it leaves, every waiting reader enters.   *)
(***************************************************************************)
EXTENDS Integers, Sequences

CONSTANTS
  Procs,     \* goroutines
  Programs,  \* [goroutine] -> the operations it runs, as lock operation lists
  NoProc

Locks == {"cache", "labels"}

(***************************************************************************)
(* The lock operations of the code, in order, each with the accesses to    *)
(* shared structures the goroutine makes since the one before.             *)
(***************************************************************************)
Reads(what) == {[structure |-> x, write |-> FALSE] : x \in what}
Writes(what) == {[structure |-> x, write |-> TRUE] : x \in what}

Op(kind, l, uses) == [op |-> kind, lock |-> l, uses |-> uses]

ReadSection(l, what) == <<Op("RLock", l, {}), Op("RUnlock", l, Reads(what))>>

\* updateLabelManager collects the apps, rebuilds the index under its own lock,
\* then reads the index's keys for the log.
updateLabelManager(before) ==
  <<Op("Lock", "labels", before \cup Reads({"appStatusCache"})),
    Op("Unlock", "labels", Writes({"appsByField"}))>>
  \o ReadSection("labels", {"appsByField"})

\* Mutants: the cache is unlocked before the index is rebuilt; the keys are read
\* before the label manager is unlocked.
UpdateAppStatusUnlocksEarly ==
  <<Op("Lock", "cache", {}), Op("Unlock", "cache", Writes({"appStatusCache", "updateMetrics"}))>>
  \o updateLabelManager({})
UpdateAppStatusReadsKeysInside ==
  <<Op("Lock", "cache", {}), Op("Lock", "labels", Writes({"appStatusCache"}))>>
  \o ReadSection("labels", {"appsByField"})
  \o <<Op("Unlock", "labels", Writes({"appsByField"})), Op("Unlock", "cache", Writes({"updateMetrics"}))>>

\* Everything, with the counts for the log at the end, is inside cacheMutex.
UpdateAppStatus ==
  <<Op("Lock", "cache", {})>> \o updateLabelManager(Writes({"appStatusCache"}))
  \o <<Op("Unlock", "cache", Reads({"appStatusCache"}) \cup Writes({"updateMetrics"}))>>
UpdateLocationCache == <<Op("Lock", "cache", {}), Op("Unlock", "cache", Writes({"locationCache"}))>>

GetAppStatusCache == ReadSection("cache", {"appStatusCache"})
GetLocationCache == ReadSection("cache", {"locationCache"})
IsAppStatusCacheEmpty == ReadSection("cache", {"appStatusCache"})
FindAppsByLabels == ReadSection("labels", {"appsByField"})
convertToHandlersLocation == GetAppStatusCache

\* GetLocationsWithStatus calls GetAppStatusCache inside its own read section.
GetLocationsWithStatus ==
  <<Op("RLock", "cache", {})>> \o GetAppStatusCache \o <<Op("RUnlock", "cache", Reads({"locationCache"}))>>

\* filterApps asks the index unless there is no filter but one on several statuses.
filterApps == {FindAppsByLabels, <<>>}
GetAppsWithAuthz(filtering) == GetAppStatusCache \o filtering
GetLabelsWithAuthz == ReadSection("labels", {"appsByField"})
GetLocationsWithAuthz(filtering) ==
  GetAppStatusCache \o filtering \o GetLocationsWithStatus \o convertToHandlersLocation
HandleSyncRequest(filtering) ==
  GetAppStatusCache \o GetLocationCache \o filtering \o convertToHandlersLocation

\* What the goroutine of a source runs after a scrape, and what the handlers run;
\* the readiness probe runs IsAppStatusCacheEmpty, /metrics GetAppStatusCache.
ScraperPrograms == {UpdateAppStatus \o UpdateLocationCache}
LocationsPrograms == {GetLocationsWithAuthz(f) : f \in filterApps}
OtherPrograms ==
  {GetAppsWithAuthz(f) : f \in filterApps} \cup {HandleSyncRequest(f) : f \in filterApps}
  \cup {GetLabelsWithAuthz, IsAppStatusCacheEmpty, GetAppStatusCache}
HandlerPrograms == OtherPrograms \cup LocationsPrograms

ASSUME LockAssumption ==
  /\ NoProc \notin Procs
  /\ \A p \in Procs : Programs[p] \subseteq ScraperPrograms \cup HandlerPrograms

VARIABLES
  todo,       \* [goroutine] -> lock operations left of what it is running
  holds,      \* [lock][goroutine] -> read locks it holds
  waiting,    \* [lock] -> readers waiting for the announced writer
  announced,  \* [lock] -> the writer that has announced itself
  writing     \* [lock] -> whether that writer is inside

lockVars == <<todo, holds, waiting, announced, writing>>

Init ==
  /\ todo = [p \in Procs |-> <<>>]
  /\ holds = [l \in Locks |-> [p \in Procs |-> 0]]
  /\ waiting = [l \in Locks |-> {}]
  /\ announced = [l \in Locks |-> NoProc]
  /\ writing = [l \in Locks |-> FALSE]

At(p, kind, l) ==
  /\ todo[p] # <<>>
  /\ Head(todo[p]).op = kind /\ Head(todo[p]).lock = l
  /\ p \notin waiting[l]

Advance(ps) == todo' = [p \in Procs |-> IF p \in ps THEN Tail(todo[p]) ELSE todo[p]]

\* A request or a tick arrives: the goroutine runs one of its programs.
Start(p) ==
  /\ todo[p] = <<>>
  /\ \E prog \in Programs[p] : todo' = [todo EXCEPT ![p] = prog]
  /\ UNCHANGED <<holds, waiting, announced, writing>>

\* Mutant: a reader enters whatever the writer does.
RLockAtOnce(p, l) ==
  /\ At(p, "RLock", l)
  /\ holds' = [holds EXCEPT ![l][p] = @ + 1]
  /\ Advance({p})
  /\ UNCHANGED <<waiting, announced, writing>>

RLock(p, l) ==
  /\ At(p, "RLock", l)
  /\ announced[l] = NoProc
  /\ holds' = [holds EXCEPT ![l][p] = @ + 1]
  /\ Advance({p})
  /\ UNCHANGED <<waiting, announced, writing>>

\* A writer has announced itself: the reader waits, even one that is inside.
RLockWaits(p, l) ==
  /\ At(p, "RLock", l)
  /\ announced[l] # NoProc
  /\ waiting' = [waiting EXCEPT ![l] = @ \cup {p}]
  /\ UNCHANGED <<todo, holds, announced, writing>>

RUnlock(p, l) ==
  /\ At(p, "RUnlock", l)
  /\ holds' = [holds EXCEPT ![l][p] = @ - 1]
  /\ Advance({p})
  /\ UNCHANGED <<waiting, announced, writing>>

Announce(p, l) ==
  /\ At(p, "Lock", l)
  /\ announced[l] = NoProc
  /\ announced' = [announced EXCEPT ![l] = p]
  /\ UNCHANGED <<todo, holds, waiting, writing>>

Lock(p, l) ==
  /\ At(p, "Lock", l)
  /\ announced[l] = p
  /\ \A q \in Procs : holds[l][q] = 0
  /\ writing' = [writing EXCEPT ![l] = TRUE]
  /\ Advance({p})
  /\ UNCHANGED <<holds, waiting, announced>>

Unlock(p, l) ==
  /\ At(p, "Unlock", l)
  /\ writing' = [writing EXCEPT ![l] = FALSE]
  /\ announced' = [announced EXCEPT ![l] = NoProc]
  /\ holds' = [holds EXCEPT ![l] = [q \in Procs |-> IF q \in waiting[l] THEN @[q] + 1 ELSE @[q]]]
  /\ waiting' = [waiting EXCEPT ![l] = {}]
  /\ Advance({p} \cup waiting[l])

Step(p) ==
  \E l \in Locks : \/ RLock(p, l) \/ RLockWaits(p, l) \/ RUnlock(p, l)
                   \/ Announce(p, l) \/ Lock(p, l) \/ Unlock(p, l)

Next == \E p \in Procs : Start(p) \/ Step(p)

\* A goroutine that can take its next lock operation does; a writer that keeps
\* finding another one announced gets its turn (sync.Mutex hands over in FIFO
\* order once a waiter has starved for 1ms).  Nothing makes requests arrive.
Fairness ==
  \A p \in Procs : WF_lockVars(Step(p)) /\ \A l \in Locks : SF_lockVars(Announce(p, l))

Spec == Init /\ [][Next]_lockVars /\ Fairness

------------------------------------------------------------------------------
(***************************************************************************)
(* Properties.                                                             *)
(***************************************************************************)

\* What a goroutine is accessing: everything up to its next lock operation.
Using(p) == IF todo[p] = <<>> THEN {} ELSE Head(todo[p]).uses

\* "Race conditions are prevented by proper locking" (data-structures.md:468): no
\* goroutine accesses a structure while another one writes it.
NoDataRace ==
  \A p, q \in Procs : p # q =>
    \A x \in Using(p), y \in Using(q) : x.structure = y.structure => ~x.write /\ ~y.write

\* The two mutexes give the sections the code relies on.
Sections == INSTANCE ReadWriteLock WITH
  reading <- [l \in Locks |-> {p \in Procs : holds[l][p] > 0}],
  writing <- [l \in Locks |-> IF writing[l] THEN {announced[l]} ELSE {}]
ImplementsReadWriteLock == Sections!Spec

\* Every request and every cache update finishes.
EveryoneFinishes == \A p \in Procs : todo[p] # <<>> ~> todo[p] = <<>>

\* "Locks are held only for the duration of operations" (data-structures.md:375):
\* whoever holds a read lock releases it.
LocksAreReleased ==
  \A l \in Locks, p \in Procs : holds[l][p] > 0 ~> holds[l][p] = 0
=============================================================================
