-------------------------- MODULE HTTPScrapeProofs --------------------------
(***************************************************************************)
(* Scrape of an http source and the pool that runs its checks, for all     *)
(* apps, endpoints and limits and every max_parallel above 0.              *)
(***************************************************************************)
EXTENDS HTTPScrape, FiniteSetTheorems, TLAPS

-----------------------------------------------------------------------------
(***************************************************************************)
(* The pool of checks.                                                     *)
(***************************************************************************)

\* Only started goroutines run, in the order of the loop; who has checked has a
\* status, who has stored has stored it; the channel's capacity is kept; and
\* after the return every goroutine is gone.
Progress ==
  /\ \A i \in Apps : worker[i] = "none" <=> i >= next
  /\ \A i \in Apps : worker[i] \in {"store", "release", "done", "gone"} => found[i] # NoResult
  /\ \A i \in Apps : worker[i] \in {"release", "done", "gone"} => results[i] = found[i]
  /\ slots <= MaxParallel
  /\ returned => next \notin Apps /\ \A i \in Apps : worker[i] = "gone"

PoolInv == PoolTypeOK /\ Progress

LEMMA InStateFinite ==
  ASSUME NEW states
  PROVE  IsFiniteSet(InState(states)) /\ Cardinality(InState(states)) \in Nat
<1>1. IsFiniteSet(Apps)
  BY FS_Interval, CountsAssumption DEF Apps
<1>2. InState(states) \subseteq Apps
  BY DEF InState
<1>3. QED
  BY <1>1, <1>2, FS_Subset, FS_CardinalityType

\* A goroutine that steps into a group of states adds one to the group ...
LEMMA StepInto ==
  ASSUME NEW i \in Apps, NEW to, NEW states, worker \in [Apps -> WorkerStates],
         worker' = [worker EXCEPT ![i] = to], worker[i] \notin states, to \in states
  PROVE  Cardinality(InState(states))' = Cardinality(InState(states)) + 1
<1>1. InState(states)' = InState(states) \cup {i} /\ i \notin InState(states)
  BY DEF InState
<1>2. QED
  BY <1>1, InStateFinite, FS_AddElement

\* ... one that leaves takes one away ...
LEMMA StepOut ==
  ASSUME NEW i \in Apps, NEW to, NEW states, worker \in [Apps -> WorkerStates],
         worker' = [worker EXCEPT ![i] = to], worker[i] \in states, to \notin states
  PROVE  Cardinality(InState(states))' = Cardinality(InState(states)) - 1
<1>1. InState(states)' = InState(states) \ {i} /\ i \in InState(states)
  BY DEF InState
<1>2. QED
  BY <1>1, InStateFinite, FS_RemoveElement

\* ... and any other step leaves the group alone.
LEMMA StepWithin ==
  ASSUME NEW i \in Apps, NEW to, NEW states, worker \in [Apps -> WorkerStates],
         worker' = [worker EXCEPT ![i] = to], worker[i] \in states <=> to \in states
  PROVE  Cardinality(InState(states))' = Cardinality(InState(states))
<1>1. InState(states)' = InState(states)
  BY DEF InState
<1>2. QED
  BY <1>1

LEMMA States == {"none", "check", "store", "release", "done", "gone"} = WorkerStates
BY DEF WorkerStates, Running

LEMMA PoolInitInv == PoolInit => PoolInv
<1> SUFFICES ASSUME PoolInit PROVE PoolInv
  OBVIOUS
<1>1. InState(Running) = {} /\ InState(Running \cup {"done"}) = {}
  BY DEF PoolInit, InState, Running
<1>2. Cardinality({}) = 0
  BY FS_EmptySet
<1>3. PoolTypeOK
  <2>1. 1 \in 1..(NumApps + 1)
    BY CountsAssumption
  <2>2. QED
    BY <1>1, <1>2, <2>1, States DEF PoolInit, PoolTypeOK
<1>4. Progress
  BY CountsAssumption DEF PoolInit, Progress, Apps
<1>5. QED
  BY <1>3, <1>4 DEF PoolInv

LEMMA PoolNextInv == PoolInv /\ [PoolNext]_poolVars => PoolInv'
<1> SUFFICES ASSUME PoolInv, [PoolNext]_poolVars PROVE PoolInv'
  OBVIOUS
<1> USE DEF PoolInv
<1>0. worker \in [Apps -> WorkerStates] /\ slots \in Nat /\ unfinished \in Nat
  <2>1. worker \in [Apps -> WorkerStates]
    BY DEF PoolTypeOK
  <2>2. Cardinality(InState(Running)) \in Nat /\ Cardinality(InState(Running \cup {"done"})) \in Nat
    BY InStateFinite
  <2>3. QED
    BY <2>1, <2>2 DEF PoolTypeOK
<1>1. CASE Acquire
  <2>1. next \in Apps /\ worker[next] = "none" /\ worker' = [worker EXCEPT ![next] = "check"]
    BY <1>1 DEF Acquire, PoolTypeOK, Progress, Apps
  <2>2. Cardinality(InState(Running))' = slots + 1
    BY <1>0, <2>1, StepInto DEF PoolTypeOK, Running
  <2>3. Cardinality(InState(Running \cup {"done"}))' = unfinished + 1
    BY <1>0, <2>1, StepInto DEF PoolTypeOK, Running
  <2>4. PoolTypeOK'
    BY <1>1, <2>1, <2>2, <2>3, CountsAssumption, States DEF Acquire, PoolTypeOK, Apps
  <2>5. slots' <= MaxParallel
    BY <1>1, <1>0, CountsAssumption DEF Acquire
  <2>6. Progress'
    BY <1>1, <2>1, <2>5, CountsAssumption DEF Acquire, PoolTypeOK, Progress, Apps
  <2>7. QED
    BY <2>4, <2>6
<1>2. CASE Wait
  <2>1. InState(Running \cup {"done"}) = {}
    BY <1>2, InStateFinite, FS_EmptySet DEF Wait, PoolTypeOK
  <2>2. \A i \in Apps : worker[i] = "gone"
    <3> SUFFICES ASSUME NEW i \in Apps PROVE worker[i] = "gone"
      OBVIOUS
    <3>1. worker[i] # "none"
      BY <1>2, CountsAssumption DEF Wait, Progress, PoolTypeOK, Apps
    <3>2. worker[i] \notin Running \cup {"done"}
      BY <2>1 DEF InState
    <3>3. QED
      BY <3>1, <3>2 DEF PoolTypeOK, Running, WorkerStates
  <2>3. PoolTypeOK'
    BY <1>2, States DEF Wait, PoolTypeOK, InState
  <2>4. Progress'
    BY <1>2, <2>2 DEF Wait, Progress
  <2>5. QED
    BY <2>3, <2>4
<1>3. ASSUME NEW i \in Apps, Goroutine(i) PROVE PoolInv'
  <2>1. CASE Check(i)
    <3>1. worker[i] = "check" /\ worker' = [worker EXCEPT ![i] = "store"]
      BY <2>1 DEF Check, Goto
    <3>2. /\ Cardinality(InState(Running))' = slots
          /\ Cardinality(InState(Running \cup {"done"}))' = unfinished
      BY <1>0, <3>1, StepWithin DEF PoolTypeOK, Running
    <3>3. PICK status \in {"up", "down", ErrorStatus} : found' = [found EXCEPT ![i] = status]
      BY <2>1 DEF Check
    <3>4. status \in Statuses /\ status # NoResult
      BY StatusAssumption DEF Statuses
    <3>5. PoolTypeOK'
      BY <2>1, <3>1, <3>2, <3>3, <3>4, States DEF Check, PoolTypeOK
    <3>6. Progress'
      BY <2>1, <3>1, <3>3, <3>4 DEF Check, PoolTypeOK, Progress
    <3>7. QED
      BY <3>5, <3>6
  <2>2. CASE StoreResult(i)
    <3>1. worker[i] = "store" /\ worker' = [worker EXCEPT ![i] = "release"]
      BY <2>2 DEF StoreResult, Goto
    <3>2. /\ Cardinality(InState(Running))' = slots
          /\ Cardinality(InState(Running \cup {"done"}))' = unfinished
      BY <1>0, <3>1, StepWithin DEF PoolTypeOK, Running
    <3>3. PoolTypeOK'
      BY <2>2, <3>1, <3>2, States DEF StoreResult, PoolTypeOK
    <3>4. Progress'
      BY <2>2, <3>1 DEF StoreResult, PoolTypeOK, Progress
    <3>5. QED
      BY <3>3, <3>4
  <2>3. CASE Release(i)
    <3>1. worker[i] = "release" /\ worker' = [worker EXCEPT ![i] = "done"]
      BY <2>3 DEF Release, Goto
    <3>2. Cardinality(InState(Running))' = slots - 1
      BY <1>0, <3>1, StepOut DEF PoolTypeOK, Running
    <3>3. Cardinality(InState(Running \cup {"done"}))' = unfinished
      BY <1>0, <3>1, StepWithin DEF PoolTypeOK, Running
    <3>4. PoolTypeOK'
      BY <2>3, <3>1, <3>2, <3>3, States DEF Release, PoolTypeOK
    <3>5. slots' <= MaxParallel
      BY <2>3, <1>0, CountsAssumption DEF Release, Progress
    <3>6. Progress'
      BY <2>3, <3>1, <3>5 DEF Release, PoolTypeOK, Progress
    <3>7. QED
      BY <3>4, <3>6
  <2>4. CASE Done(i)
    <3>1. worker[i] = "done" /\ worker' = [worker EXCEPT ![i] = "gone"]
      BY <2>4 DEF Done, Goto
    <3>2. Cardinality(InState(Running))' = slots
      BY <1>0, <3>1, StepWithin DEF PoolTypeOK, Running
    <3>3. Cardinality(InState(Running \cup {"done"}))' = unfinished - 1
      BY <1>0, <3>1, StepOut DEF PoolTypeOK, Running
    <3>4. PoolTypeOK'
      BY <2>4, <3>1, <3>2, <3>3, States DEF Done, PoolTypeOK
    <3>5. Progress'
      BY <2>4, <3>1 DEF Done, PoolTypeOK, Progress
    <3>6. QED
      BY <3>4, <3>5
  <2>5. QED
    BY <1>3, <2>1, <2>2, <2>3, <2>4 DEF Goroutine
<1>4. CASE UNCHANGED poolVars
  BY <1>4 DEF poolVars, PoolTypeOK, Progress, InState
<1>5. QED
  BY <1>1, <1>2, <1>3, <1>4 DEF PoolNext

THEOREM PoolInvariant == PoolSafety => []PoolInv
<1>1. QED
  BY PoolInitInv, PoolNextInv, PTL DEF PoolSafety

\* The counts of the channel and of the WaitGroup are the goroutines they count.
THEOREM PoolTypeCorrect == PoolSafety => []PoolTypeOK
<1>1. PoolInv => PoolTypeOK
  BY DEF PoolInv
<1>2. QED
  BY <1>1, PoolInvariant, PTL

\* Never more checks in flight than max_parallel.
THEOREM ParallelismBounded == PoolSafety => []BoundedParallelism
<1>1. PoolInv => BoundedParallelism
  <2> SUFFICES ASSUME PoolInv PROVE BoundedParallelism
    OBVIOUS
  <2>1. InState({"check"}) \subseteq InState(Running)
    BY DEF InState, Running
  <2>2. Cardinality(InState({"check"})) <= Cardinality(InState(Running))
    BY <2>1, InStateFinite, FS_Subset
  <2>3. QED
    BY <2>2, InStateFinite, CountsAssumption DEF PoolInv, PoolTypeOK, Progress, BoundedParallelism
<1>2. QED
  BY <1>1, PoolInvariant, PTL

\* A returned result is complete, and no goroutine can change it any more.
THEOREM ReturnedResultsComplete == PoolSafety => []ReturnsComplete
<1>1. PoolInv => ReturnsComplete
  BY DEF PoolInv, Progress, ReturnsComplete
<1>2. QED
  BY <1>1, PoolInvariant, PTL

\* Every step of the pool is a step of ScrapeCall or leaves its output alone:
\* the result appears at once, complete, and then stays.
THEOREM ReturnsOnce == PoolSafety => Call!CallInit /\ [][Call!Return]_(IF returned THEN results ELSE NoResult)
<1>1. PoolInit => Call!CallInit
  BY DEF PoolInit, Call!CallInit
<1>2. PoolInv /\ PoolInv' /\ [PoolNext]_poolVars => [Call!Return]_(IF returned THEN results ELSE NoResult)
  <2> SUFFICES ASSUME PoolInv, PoolInv', [PoolNext]_poolVars
               PROVE  [Call!Return]_(IF returned THEN results ELSE NoResult)
    OBVIOUS
  <2>1. CASE Wait
    <3>1. results \in [Apps -> Statuses]
      <4>1. \A i \in Apps : results[i] # NoResult
        BY <2>1 DEF Wait, PoolInv, Progress
      <4>2. QED
        BY <4>1 DEF PoolInv, PoolTypeOK
    <3>2. QED
      BY <2>1, <3>1 DEF Wait, Call!Return
  <2>2. CASE Acquire
    BY <2>2 DEF Acquire, PoolInv, Progress
  <2>3. ASSUME NEW i \in Apps, Goroutine(i) PROVE UNCHANGED (IF returned THEN results ELSE NoResult)
    <3>1. ~returned /\ ~returned'
      BY <2>3 DEF Goroutine, Check, StoreResult, Release, Done, Goto, PoolInv, Progress
    <3>2. QED
      BY <3>1
  <2>4. CASE UNCHANGED poolVars
    BY <2>4 DEF poolVars
  <2>5. QED
    BY <2>1, <2>2, <2>3, <2>4 DEF PoolNext
<1>3. QED
  BY <1>1, <1>2, PoolInvariant, PTL DEF PoolSafety

(***************************************************************************)
(* Scrape comes to its end.  Every app has five steps before it, from the  *)
(* goroutine's start to its Done, and the return is the last; each step of *)
(* the pool is one of these, and until the return one of them can be done. *)
(***************************************************************************)
Unstarted == {"none"}
Unchecked == Unstarted \cup {"check"}
Unstored == Unchecked \cup {"store"}
Unreleased == Unstored \cup {"release"}
Undone == Unreleased \cup {"done"}

Left(states) == Cardinality(InState(states))
StepsLeft ==
  Left(Unstarted) + Left(Unchecked) + Left(Unstored) + Left(Unreleased) + Left(Undone)
    + (IF returned THEN 0 ELSE 1)

\* A slot and an app for it, a goroutine with something to do, or all are gone.
PoolCanMove ==
  \/ next \in Apps /\ slots < MaxParallel
  \/ \E i \in Apps : worker[i] \in Running \cup {"done"}
  \/ next \notin Apps /\ unfinished = 0
PoolNeverStuck == ~returned => PoolCanMove

\* What of an app is left is counted once.
LEMMA LeftCounts ==
  ASSUME NEW states
  PROVE  Left(states) \in Nat /\ Left(states) <= NumApps
<1>1. IsFiniteSet(Apps) /\ Cardinality(Apps) = NumApps
  BY FS_Interval, CountsAssumption DEF Apps
<1>2. InState(states) \subseteq Apps
  BY DEF InState
<1>3. Cardinality(InState(states)) <= Cardinality(Apps)
  BY <1>1, <1>2, FS_Subset
<1>4. QED
  BY <1>1, <1>3, InStateFinite DEF Left

\* What a goroutine's step does to the five counts.
LEMMA StageDone ==
  ASSUME NEW i \in Apps, NEW to, worker \in [Apps -> WorkerStates], worker' = [worker EXCEPT ![i] = to],
         NEW states
  PROVE  /\ worker[i] \in states /\ to \notin states => Left(states)' = Left(states) - 1
         /\ (worker[i] \in states <=> to \in states) => Left(states)' = Left(states)
<1>1. ASSUME worker[i] \in states, to \notin states PROVE Left(states)' = Left(states) - 1
  BY <1>1, StepOut DEF Left
<1>2. ASSUME worker[i] \in states <=> to \in states PROVE Left(states)' = Left(states)
  BY <1>2, StepWithin DEF Left
<1>3. QED
  BY <1>1, <1>2

LEMMA StageSteps ==
  ASSUME NEW i \in Apps, NEW from, NEW to, worker \in [Apps -> WorkerStates], UNCHANGED returned,
         worker[i] = from, worker' = [worker EXCEPT ![i] = to],
         <<from, to>> \in {<<"none", "check">>, <<"check", "store">>, <<"store", "release">>,
                           <<"release", "done">>, <<"done", "gone">>}
  PROVE  StepsLeft' = StepsLeft - 1
<1>1. /\ Left(Unstarted) \in Nat /\ Left(Unchecked) \in Nat /\ Left(Unstored) \in Nat
      /\ Left(Unreleased) \in Nat /\ Left(Undone) \in Nat
  BY LeftCounts
<1>2. /\ Left(Unstarted)' = IF from = "none" THEN Left(Unstarted) - 1 ELSE Left(Unstarted)
      /\ Left(Unchecked)' = IF from = "check" THEN Left(Unchecked) - 1 ELSE Left(Unchecked)
      /\ Left(Unstored)' = IF from = "store" THEN Left(Unstored) - 1 ELSE Left(Unstored)
      /\ Left(Unreleased)' = IF from = "release" THEN Left(Unreleased) - 1 ELSE Left(Unreleased)
      /\ Left(Undone)' = IF from = "done" THEN Left(Undone) - 1 ELSE Left(Undone)
  <2>1. /\ from \in Unstarted <=> from = "none"
        /\ to \notin Unstarted
    BY DEF Unstarted
  <2>2. /\ from \in Unchecked /\ to \notin Unchecked <=> from = "check"
        /\ from # "check" => (from \in Unchecked <=> to \in Unchecked)
    BY DEF Unchecked, Unstarted
  <2>3. /\ from \in Unstored /\ to \notin Unstored <=> from = "store"
        /\ from # "store" => (from \in Unstored <=> to \in Unstored)
    BY DEF Unstored, Unchecked, Unstarted
  <2>4. /\ from \in Unreleased /\ to \notin Unreleased <=> from = "release"
        /\ from # "release" => (from \in Unreleased <=> to \in Unreleased)
    BY DEF Unreleased, Unstored, Unchecked, Unstarted
  <2>5. /\ from \in Undone /\ to \notin Undone <=> from = "done"
        /\ from # "done" => (from \in Undone <=> to \in Undone)
    BY DEF Undone, Unreleased, Unstored, Unchecked, Unstarted
  <2>6. /\ Left(Unstarted)' = IF from = "none" THEN Left(Unstarted) - 1 ELSE Left(Unstarted)
        /\ Left(Unchecked)' = IF from = "check" THEN Left(Unchecked) - 1 ELSE Left(Unchecked)
    BY <2>1, <2>2, StageDone
  <2>7. /\ Left(Unstored)' = IF from = "store" THEN Left(Unstored) - 1 ELSE Left(Unstored)
        /\ Left(Unreleased)' = IF from = "release" THEN Left(Unreleased) - 1 ELSE Left(Unreleased)
    BY <2>3, <2>4, StageDone
  <2>8. Left(Undone)' = IF from = "done" THEN Left(Undone) - 1 ELSE Left(Undone)
    BY <2>5, StageDone
  <2>9. QED
    BY <2>6, <2>7, <2>8
<1>3. from \in {"none", "check", "store", "release", "done"}
  OBVIOUS
<1>4. QED
  BY <1>1, <1>2, <1>3 DEF StepsLeft

\* Scrape is never stuck, however many apps wait for however few slots ...
THEOREM PoolNeverStuckCorrect == PoolSafety => []PoolNeverStuck
<1>1. PoolInv => PoolNeverStuck
  <2> SUFFICES ASSUME PoolInv, ~PoolCanMove PROVE FALSE
    BY DEF PoolNeverStuck
  <2>1. \A i \in Apps : worker[i] \notin Running \cup {"done"}
    BY DEF PoolCanMove
  <2>2. InState(Running) = {} /\ InState(Running \cup {"done"}) = {}
    BY <2>1 DEF InState
  <2>3. slots = 0 /\ unfinished = 0
    BY <2>2, FS_EmptySet DEF PoolInv, PoolTypeOK
  <2>4. slots < MaxParallel
    BY <2>3, CountsAssumption
  <2>5. QED
    BY <2>3, <2>4 DEF PoolCanMove
<1>2. QED
  BY <1>1, PoolInvariant, PTL

\* ... it has made all of its steps exactly when it has returned, ...
THEOREM ReturnsAtTheEnd ==
  PoolSafety => [](StepsLeft \in 0..(5 * NumApps + 1) /\ (returned <=> StepsLeft = 0))
<1>1. PoolInv => StepsLeft \in 0..(5 * NumApps + 1) /\ (returned <=> StepsLeft = 0)
  <2> SUFFICES ASSUME PoolInv PROVE StepsLeft \in 0..(5 * NumApps + 1) /\ (returned <=> StepsLeft = 0)
    OBVIOUS
  <2>1. /\ Left(Unstarted) \in Nat /\ Left(Unchecked) \in Nat /\ Left(Unstored) \in Nat
        /\ Left(Unreleased) \in Nat /\ Left(Undone) \in Nat
        /\ Left(Unstarted) <= NumApps /\ Left(Unchecked) <= NumApps /\ Left(Unstored) <= NumApps
        /\ Left(Unreleased) <= NumApps /\ Left(Undone) <= NumApps
    BY LeftCounts
  <2>2. CASE returned
    <3>1. \A i \in Apps : worker[i] = "gone"
      BY <2>2 DEF PoolInv, Progress
    <3>2. ASSUME NEW states, "gone" \notin states PROVE Left(states) = 0
      <4>1. InState(states) = {}
        BY <3>1, <3>2 DEF InState
      <4>2. QED
        BY <4>1, FS_EmptySet DEF Left
    <3>3. "gone" \notin Undone
      BY DEF Undone, Unreleased, Unstored, Unchecked, Unstarted
    <3>4. /\ Left(Unstarted) = 0 /\ Left(Unchecked) = 0 /\ Left(Unstored) = 0
          /\ Left(Unreleased) = 0 /\ Left(Undone) = 0
      BY <3>2, <3>3 DEF Undone, Unreleased, Unstored, Unchecked
    <3>5. StepsLeft = 0
      BY <2>2, <3>4 DEF StepsLeft
    <3>6. QED
      BY <2>2, <3>5, CountsAssumption
  <2>3. CASE ~returned
    BY <2>1, <2>3, CountsAssumption DEF StepsLeft
  <2>4. QED
    BY <2>2, <2>3
<1>2. QED
  BY <1>1, PoolInvariant, PTL

\* ... and every step it makes is one of them: with the fairness of PoolSpec, which
\* makes what can move move, it returns.
THEOREM EveryStepCounts == PoolSafety => [][StepsLeft' = StepsLeft - 1]_poolVars
<1>1. PoolInv /\ [PoolNext]_poolVars => [StepsLeft' = StepsLeft - 1]_poolVars
  <2> SUFFICES ASSUME PoolInv, PoolNext PROVE StepsLeft' = StepsLeft - 1
    OBVIOUS
  <2>0. worker \in [Apps -> WorkerStates] /\ \A i \in Apps : worker[i] = "none" <=> i >= next
    BY DEF PoolInv, PoolTypeOK, Progress
  <2>1. CASE Acquire
    <3>1. next \in Apps /\ worker[next] = "none"
      BY <2>0, <2>1 DEF Acquire, Apps
    <3>2. worker' = [worker EXCEPT ![next] = "check"] /\ UNCHANGED returned
      BY <2>1 DEF Acquire
    <3>3. QED
      BY <2>0, <3>1, <3>2, StageSteps
  <2>2. CASE Wait
    <3>1. ~returned /\ returned' /\ UNCHANGED worker
      BY <2>2 DEF Wait
    <3>2. \A states : Left(states)' = Left(states)
      BY <3>1 DEF Left, InState
    <3>3. /\ Left(Unstarted) \in Nat /\ Left(Unchecked) \in Nat /\ Left(Unstored) \in Nat
          /\ Left(Unreleased) \in Nat /\ Left(Undone) \in Nat
      BY LeftCounts
    <3>4. QED
      BY <3>1, <3>2, <3>3 DEF StepsLeft
  <2>3. ASSUME NEW i \in Apps, Goroutine(i) PROVE StepsLeft' = StepsLeft - 1
    <3>1. CASE Check(i)
      BY <2>0, <3>1, StageSteps DEF Check, Goto
    <3>2. CASE StoreResult(i)
      BY <2>0, <3>2, StageSteps DEF StoreResult, Goto
    <3>3. CASE Release(i)
      BY <2>0, <3>3, StageSteps DEF Release, Goto
    <3>4. CASE Done(i)
      BY <2>0, <3>4, StageSteps DEF Done, Goto
    <3>5. QED
      BY <2>3, <3>1, <3>2, <3>3, <3>4 DEF Goroutine
  <2>4. QED
    BY <2>1, <2>2, <2>3 DEF PoolNext
<1>2. QED
  BY <1>1, PoolInvariant, PTL DEF PoolSafety

-----------------------------------------------------------------------------
(***************************************************************************)
(* What the checks of one scrape report.                                   *)
(***************************************************************************)

\* The configured codes are listed by class exactly as the documentation reads.
LEMMA ListedCodes ==
  ASSUME NEW code \in Codes, NEW entries \in SUBSET CodeEntries
  PROVE  isStatusListed(code, entries) <=> code \in CodesOf(entries)
<1>1. ASSUME NEW e \in entries
      PROVE  (IF e.class THEN isStatusCodeInRange(code, e.n) ELSE code = e.n)
               <=> (code = e.n \/ (e.class /\ code \div 100 = e.n))
  <2>1. CASE e \in [class : {FALSE}, n : Codes]
    BY <2>1
  <2>2. CASE e \in [class : {TRUE}, n : 1..5]
    <3>1. e.class /\ e.n \in 1..5 /\ code \in 100..599
      BY <2>2 DEF Codes
    <3>2. code >= e.n * 100 /\ code < (e.n + 1) * 100 <=> code \div 100 = e.n
      BY <3>1
    <3>3. code # e.n
      BY <3>1
    <3>4. QED
      BY <3>1, <3>2, <3>3 DEF isStatusCodeInRange
  <2>3. QED
    BY <2>1, <2>2 DEF CodeEntries
<1>2. QED
  BY <1>1 DEF isStatusListed, CodesOf

\* What is configured, or defaulted, is made of codes and classes.
LEMMA MergedCodes ==
  ASSUME NEW i \in Apps
  PROVE  LET merged == mergeWithDefaults(apps[i])
         IN  merged.allowed \in SUBSET CodeEntries /\ merged.blocked \in SUBSET CodeEntries
<1>1. {Class(2)} \in SUBSET CodeEntries /\ {Class(4), Class(5)} \in SUBSET CodeEntries
  BY DEF Class, CodeEntries
<1>2. QED
  BY <1>1, AppsAssumption DEF ValidApps, mergeWithDefaults, OrDefault

\* The answer a client sees is the endpoint's, but for its code.
LEMMA ReceivedAnswer ==
  ASSUME NEW i \in Apps, NEW answer \in EndpointAnswers
  PROVE  LET r == received(apps[i], answer)
         IN  /\ r.code = FinalCode(apps[i], answer) /\ r.code \in Codes
             /\ r.ms = answer.ms /\ r.texts = answer.texts /\ r.json = answer.json
BY DEF received, FinalCode, EndpointAnswers, Codes

\* A condition holds when the answer meets it.
LEMMA ConditionsMet ==
  ASSUME NEW i \in Apps, NEW answer \in EndpointAnswers,
         NEW c \in apps[i].success \cup apps[i].failure
  PROVE  validateCondition(c, received(apps[i], answer)) <=> Met(c, apps[i], answer)
<1> DEFINE r == received(apps[i], answer)
<1>1. /\ r.code = FinalCode(apps[i], answer)
      /\ r.ms = answer.ms /\ r.texts = answer.texts /\ r.json = answer.json
  BY ReceivedAnswer
<1>2. answer.ms \in Nat /\ answer.texts \subseteq Texts /\ answer.json \in {"object", "null", "other"}
  BY DEF EndpointAnswers
<1> HIDE DEF r
<1>3. CASE c.type = "status_code"
  BY <1>1, <1>3 DEF validateCondition, Met, r
<1>4. CASE c.type = "response_time"
  <2>1. c.maxMS \in Int
    BY <1>4, AppsAssumption DEF ValidApps
  <2>2. c.maxMS > 0 /\ answer.ms <= c.maxMS <=> answer.ms \in 0..c.maxMS /\ c.maxMS # 0
    BY <1>2, <2>1
  <2>3. validateCondition(c, r) <=> c.maxMS > 0 /\ answer.ms <= c.maxMS
    BY <1>1, <1>4 DEF validateCondition
  <2>4. Met(c, apps[i], answer) <=> answer.ms \in 0..c.maxMS /\ c.maxMS # 0
    BY <1>4 DEF Met
  <2>5. QED
    BY <2>2, <2>3, <2>4 DEF r
<1>5. Contains(c, answer.texts) <=> Matches(c) \cap answer.texts # {}
  BY <1>2 DEF Contains, Matches
<1>6. CASE c.type = "body_contains"
  BY <1>1, <1>5, <1>6 DEF validateCondition, Met, r
<1>7. CASE c.type = "body_not_contains"
  BY <1>1, <1>5, <1>7 DEF validateCondition, Met, r
<1>8. CASE c.type = "json_path"
  BY <1>1, <1>2, <1>8 DEF validateCondition, Met, r
<1>9. CASE c.type \notin {"status_code", "response_time", "body_contains", "body_not_contains", "json_path"}
  BY <1>9 DEF validateCondition, Met, r
<1>10. QED
  BY <1>3, <1>4, <1>6, <1>7, <1>8, <1>9 DEF r

\* A verdict follows from the documentation, unless more redirects were asked
\* for than ten or fewer, or a certificate was not looked at that should have been.
LEMMA Verdict ==
  ASSUME NEW i \in Apps, NEW answer \in Endpoints[i], NEW verifies \in BOOLEAN,
         verifies => apps[i].sslVerify
  PROVE  \/ check(apps[i], verifies, answer) = IF Healthy(apps[i], answer) THEN "up" ELSE "down"
         \/ /\ answer # Refused
            /\ \/ RedirectsDiffer(apps[i], answer)
               \/ apps[i].sslVerify /\ ~answer.trusted /\ ~verifies
<1> DEFINE app == apps[i]
           merged == mergeWithDefaults(app)
           r == received(app, answer)
<1>0. /\ merged.success = app.success /\ merged.failure = app.failure
      /\ merged.timeout = app.timeout /\ merged.followRedirects = app.followRedirects
  BY DEF mergeWithDefaults
<1>1. CASE answer = Refused
  BY <1>1 DEF check, requestFails, Healthy
<1>2. CASE answer # Refused
  <2>1. answer \in EndpointAnswers
    BY <1>2, AppsAssumption
  <2>2. r.code = FinalCode(app, answer) /\ r.code \in Codes
    BY <2>1, ReceivedAnswer
  <2>3. /\ timeoutOf(app) = LimitOf(app) /\ LimitOf(app) \in Int /\ answer.total \in Nat
        /\ answer.redirects \in Nat /\ MaxRedirectsOf(app) \in Int
    BY <2>1, AppsAssumption, TimeoutAssumption
    DEF ValidApps, timeoutOf, OrDefault, LimitOf, MaxRedirectsOf, EndpointAnswers
  <2>4. timeoutOf(app) > 0 /\ answer.total > timeoutOf(app) <=> ~(LimitOf(app) <= 0 \/ answer.total <= LimitOf(app))
    BY <2>3
  <2>5. answer.redirects >= 10 <=> ~(answer.redirects <= 9)
    BY <2>3
  <2>6. r.code \in UpCodes(app) <=> isStatusListed(r.code, merged.allowed) /\ ~isStatusListed(r.code, merged.blocked)
    <3>1. UpCodes(app) = CodesOf(merged.allowed) \ CodesOf(merged.blocked)
      BY DEF UpCodes, mergeWithDefaults, OrDefault
    <3>2. QED
      BY <2>2, <3>1, MergedCodes, ListedCodes
  <2>7. /\ (\A c \in app.success : Met(c, app, answer)) <=> ~\E c \in app.success : ~validateCondition(c, r)
        /\ (\A c \in app.failure : ~Met(c, app, answer)) <=> ~\E c \in app.failure : validateCondition(c, r)
    BY <2>1, ConditionsMet
  <2>8. requestFails(merged, verifies, answer) = requestFails(app, verifies, answer) /\ received(merged, answer) = r
    BY <1>0 DEF requestFails, received, timeoutOf
  <2> DEFINE fails == requestFails(app, verifies, answer)
             wrong == \/ ~(r.code \in UpCodes(app))
                      \/ ~\A c \in app.success : Met(c, app, answer)
                      \/ ~\A c \in app.failure : ~Met(c, app, answer)
  <2>9. check(app, verifies, answer) = IF fails \/ wrong THEN "down" ELSE "up"
    <3> HIDE DEF fails, r, merged
    <3>1. check(app, verifies, answer) =
            IF fails \/ ~isStatusListed(r.code, merged.allowed) \/ isStatusListed(r.code, merged.blocked)
               \/ (\E c \in app.success : ~validateCondition(c, r)) \/ (\E c \in app.failure : validateCondition(c, r))
            THEN "down" ELSE "up"
      BY <1>0, <2>8 DEF check, merged, fails
    <3>2. QED
      BY <3>1, <2>6, <2>7
  <2>10. Healthy(app, answer) <=>
            /\ LimitOf(app) <= 0 \/ answer.total <= LimitOf(app)
            /\ app.followRedirects => answer.redirects <= MaxRedirectsOf(app)
            /\ app.sslVerify => answer.trusted
            /\ ~wrong
    <3> HIDE DEF r
    <3>1. QED
      BY <1>2, <2>2 DEF Healthy
  <2>11. fails <=> \/ verifies /\ ~answer.trusted
                   \/ ~(LimitOf(app) <= 0 \/ answer.total <= LimitOf(app))
                   \/ app.followRedirects /\ ~(answer.redirects <= 9)
    BY <1>2, <2>4, <2>5 DEF requestFails
  <2> HIDE DEF fails, wrong, app
  <2>12. SUFFICES ASSUME ~RedirectsDiffer(app, answer), app.sslVerify /\ ~answer.trusted => verifies
                  PROVE  check(app, verifies, answer) = IF Healthy(app, answer) THEN "up" ELSE "down"
    BY <1>2 DEF app
  <2>13. app.followRedirects => (answer.redirects <= 9 <=> answer.redirects <= MaxRedirectsOf(app))
    BY <2>12 DEF RedirectsDiffer
  <2>14. verifies /\ ~answer.trusted <=> ~(app.sslVerify => answer.trusted)
    BY <2>12 DEF app
  <2>15. fails \/ wrong <=> ~Healthy(app, answer)
    BY <2>10, <2>11, <2>13, <2>14
  <2>16. QED
    BY <2>9, <2>15
<1>3. QED
  BY <1>1, <1>2

LEMMA VerdictValues ==
  ASSUME NEW i \in Apps, NEW verifies, NEW answer
  PROVE  check(apps[i], verifies, answer) \in {"up", "down", ErrorStatus}
BY DEF check

(***************************************************************************)
(* The steps of HTTPScrape are steps of ScrapePool.                        *)
(***************************************************************************)
LEMMA HTTPStepIsPoolStep == [HTTPNext]_scrapeVars => [PoolNext]_poolVars
<1> SUFFICES ASSUME [HTTPNext]_scrapeVars PROVE [PoolNext]_poolVars
  OBVIOUS
<1>1. ASSUME NEW i \in Apps, CheckApp(i) PROVE Check(i)
  <2>1. PICK answer \in Endpoints[i] : found' = [found EXCEPT ![i] = check(apps[i], Verifies(i), answer)]
    BY <1>1 DEF CheckApp
  <2>2. check(apps[i], Verifies(i), answer) \in {"up", "down", ErrorStatus}
    BY VerdictValues
  <2>3. QED
    BY <1>1, <2>1, <2>2 DEF CheckApp, Check
<1>2. ASSUME NEW i \in Apps, HTTPGoroutine(i) PROVE Goroutine(i) \/ UNCHANGED poolVars
  BY <1>1, <1>2 DEF HTTPGoroutine, Goroutine, SkipVerify
<1>3. CASE HTTPLoop
  BY <1>3 DEF HTTPLoop, PoolNext
<1>4. CASE OtherSourceSkips
  BY <1>4 DEF OtherSourceSkips
<1>5. CASE UNCHANGED scrapeVars
  BY <1>5 DEF scrapeVars, poolVars
<1>6. QED
  BY <1>2, <1>3, <1>4, <1>5 DEF HTTPNext, PoolNext

\* Scrape of an http source is a run of the pool, whose theorems hold of it.
THEOREM HTTPScrapeUsesPool == HTTPSafety => PoolSafety
<1>1. HTTPInit => PoolInit
  BY DEF HTTPInit
<1>2. QED
  BY <1>1, HTTPStepIsPoolStep, PTL DEF HTTPSafety, PoolSafety

(***************************************************************************)
(* The inductive invariant: whoever has checked has found the verdict on   *)
(* what its own endpoint answered, and has verified the certificate if its *)
(* app asks for that, unless verification was off, which it then stays.    *)
(***************************************************************************)
Judged(i) ==
  /\ answered[i] \in Endpoints[i]
  /\ \E verifies \in BOOLEAN :
       /\ found[i] = check(apps[i], verifies, answered[i])
       /\ verifies => apps[i].sslVerify
       /\ apps[i].sslVerify => verifies \/ tlsConfig = "skips"

OwnVerdict == \A i \in Apps : worker[i] \in {"store", "release", "done", "gone"} => Judged(i)

HTTPInv ==
  /\ PoolInv /\ OwnVerdict
  /\ DOMAIN answered = Apps /\ tlsConfig \in {"none", "verifies", "skips"}

\* A verdict stands while others write to the TLS configuration.
LEMMA JudgedStays ==
  ASSUME NEW i \in Apps, Judged(i), answered'[i] = answered[i], found'[i] = found[i],
         tlsConfig = "skips" => tlsConfig' = "skips"
  PROVE  Judged(i)'
BY DEF Judged

LEMMA HTTPNextInv == HTTPInv /\ [HTTPNext]_scrapeVars => HTTPInv'
<1> SUFFICES ASSUME HTTPInv, [HTTPNext]_scrapeVars PROVE HTTPInv'
  OBVIOUS
<1>1. PoolInv'
  BY HTTPStepIsPoolStep, PoolNextInv DEF HTTPInv
<1>2. DOMAIN found = Apps /\ DOMAIN worker = Apps
  BY DEF HTTPInv, PoolInv, PoolTypeOK
<1>3. ASSUME UNCHANGED <<answered, found>>, tlsConfig' = tlsConfig \/ tlsConfig' = "skips",
             \A i \in Apps : worker'[i] \in {"store", "release", "done", "gone"}
                               => worker[i] \in {"store", "release", "done", "gone"}
      PROVE  HTTPInv'
  <2>1. OwnVerdict'
    BY <1>3, JudgedStays DEF HTTPInv, OwnVerdict
  <2>2. QED
    BY <1>1, <1>3, <2>1 DEF HTTPInv
<1>4. CASE HTTPLoop
  <2>1. UNCHANGED <<answered, found, tlsConfig>>
    BY <1>4 DEF HTTPLoop, Acquire, Wait
  <2>2. \A i \in Apps : worker'[i] = worker[i] \/ worker'[i] = "check"
    BY <1>2, <1>4 DEF HTTPLoop, Acquire, Wait
  <2>3. QED
    BY <1>3, <2>1, <2>2
<1>5. CASE OtherSourceSkips
  BY <1>3, <1>5 DEF OtherSourceSkips, poolVars
<1>6. ASSUME NEW i \in Apps, HTTPGoroutine(i) PROVE HTTPInv'
  <2>1. CASE SkipVerify(i)
    BY <1>3, <2>1 DEF SkipVerify, poolVars
  <2>2. CASE CheckApp(i)
    <3>1. PICK answer \in Endpoints[i] :
            /\ answered' = [answered EXCEPT ![i] = answer]
            /\ found' = [found EXCEPT ![i] = check(apps[i], Verifies(i), answer)]
      BY <2>2 DEF CheckApp
    <3>2. /\ apps[i].sslVerify \/ tlsConfig # "verifies"
          /\ worker' = [worker EXCEPT ![i] = "store"] /\ UNCHANGED tlsConfig
      BY <2>2 DEF CheckApp, Goto
    <3>3. answered'[i] = answer /\ found'[i] = check(apps[i], Verifies(i), answer)
      BY <1>2, <3>1 DEF HTTPInv
    <3>4. apps[i].sslVerify \in BOOLEAN
      BY AppsAssumption DEF ValidApps
    <3>5. /\ Verifies(i) \in BOOLEAN /\ (Verifies(i) => apps[i].sslVerify)
          /\ apps[i].sslVerify => Verifies(i) \/ tlsConfig \notin {"none", "verifies"}
      BY <3>2, <3>4 DEF Verifies
    <3>6. tlsConfig \in {"none", "verifies", "skips"}
      BY DEF HTTPInv
    <3>7. Judged(i)'
      BY <3>2, <3>3, <3>5, <3>6 DEF Judged
    <3>8. ASSUME NEW j \in Apps, j # i, worker'[j] \in {"store", "release", "done", "gone"} PROVE Judged(j)'
      <4>1. worker[j] = worker'[j] /\ answered'[j] = answered[j] /\ found'[j] = found[j]
        BY <1>2, <3>1, <3>2, <3>8 DEF HTTPInv
      <4>2. Judged(j)
        BY <3>8, <4>1 DEF HTTPInv, OwnVerdict
      <4>3. QED
        BY <3>2, <4>1, <4>2, JudgedStays
    <3>9. OwnVerdict'
      BY <3>7, <3>8 DEF OwnVerdict
    <3>10. QED
      BY <1>1, <3>1, <3>2, <3>9 DEF HTTPInv
  <2>3. CASE (StoreResult(i) \/ Release(i) \/ Done(i)) /\ UNCHANGED <<answered, tlsConfig>>
    <3>1. /\ UNCHANGED <<found, answered, tlsConfig>>
          /\ worker[i] \in {"store", "release", "done"}
          /\ \E to \in WorkerStates : worker' = [worker EXCEPT ![i] = to]
      BY <2>3 DEF StoreResult, Release, Done, Goto, WorkerStates, Running
    <3>2. \A j \in Apps : j # i => worker'[j] = worker[j]
      BY <1>2, <3>1
    <3>3. QED
      BY <1>3, <3>1, <3>2
  <2>4. QED
    BY <1>6, <2>1, <2>2, <2>3 DEF HTTPGoroutine
<1>7. CASE UNCHANGED scrapeVars
  BY <1>3, <1>7 DEF scrapeVars, poolVars
<1>8. QED
  BY <1>4, <1>5, <1>6, <1>7 DEF HTTPNext

\* Every status Scrape returns is the documented verdict on the app's own request,
\* with the two exceptions that StatusesJustified names.
THEOREM JustifiedStatuses == HTTPSafety => []StatusesJustified
<1>1. HTTPInit => HTTPInv
  BY PoolInitInv DEF HTTPInit, HTTPInv, PoolInit, OwnVerdict
<1>2. HTTPInv => StatusesJustified
  <2> SUFFICES ASSUME HTTPInv, returned, NEW i \in Apps
               PROVE  \/ results[i] = IF Healthy(apps[i], answered[i]) THEN "up" ELSE "down"
                      \/ /\ answered[i] # Refused
                         /\ RedirectsDiffer(apps[i], answered[i]) \/ VerificationOff(apps[i], answered[i])
    BY DEF StatusesJustified
  <2>1. worker[i] = "gone" /\ results[i] = found[i]
    BY DEF HTTPInv, PoolInv, Progress
  <2>2. Judged(i)
    BY <2>1 DEF HTTPInv, OwnVerdict
  <2>3. PICK verifies \in BOOLEAN :
           /\ found[i] = check(apps[i], verifies, answered[i])
           /\ verifies => apps[i].sslVerify
           /\ apps[i].sslVerify => verifies \/ tlsConfig = "skips"
    BY <2>2 DEF Judged
  <2>4. answered[i] \in Endpoints[i]
    BY <2>2 DEF Judged
  <2>5. \/ found[i] = IF Healthy(apps[i], answered[i]) THEN "up" ELSE "down"
        \/ /\ answered[i] # Refused
           /\ \/ RedirectsDiffer(apps[i], answered[i])
              \/ apps[i].sslVerify /\ ~answered[i].trusted /\ ~verifies
    BY <2>3, <2>4, Verdict
  <2>6. QED
    BY <2>1, <2>3, <2>5 DEF VerificationOff
<1>3. QED
  BY <1>1, <1>2, HTTPNextInv, PTL DEF HTTPSafety
=============================================================================
