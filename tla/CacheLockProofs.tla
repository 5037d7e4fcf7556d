-------------------------- MODULE CacheLockProofs --------------------------
(***************************************************************************)
(* Proofs about CacheLock, for any number of scrapers and handlers: no     *)
(* data race, no deadlock without /api/locations, and the two mutexes      *)
(* implement ReadWriteLock.                                                *)
(***************************************************************************)
EXTENDS CacheLock, FiniteSetTheorems, SequenceTheorems, TLAPS

(***************************************************************************)
(* What makes a program well locked: before its i-th lock operation it has *)
(* taken each lock at least as often as it has released it, a write lock   *)
(* never twice, and whatever it accesses by then is covered by the lock    *)
(* that guards the structure: the label manager's for the index,           *)
(* cacheMutex for everything in the cache and for its metrics.             *)
(***************************************************************************)
Structures == {"appStatusCache", "locationCache", "appsByField", "updateMetrics"}
GuardOf(structure) == IF structure = "appsByField" THEN "labels" ELSE "cache"

Operation == [op : {"RLock", "RUnlock", "Lock", "Unlock"}, lock : Locks,
              uses : SUBSET [structure : Structures, write : BOOLEAN]]

Before(prog, i, kind, l) == Cardinality({j \in 1..(i - 1) : prog[j].op = kind /\ prog[j].lock = l})
ReadDepth(prog, i, l) == Before(prog, i, "RLock", l) - Before(prog, i, "RUnlock", l)
WriteDepth(prog, i, l) == Before(prog, i, "Lock", l) - Before(prog, i, "Unlock", l)

WellLocked(prog) ==
  /\ prog \in Seq(Operation)
  /\ \A i \in 1..(Len(prog) + 1), l \in Locks :
       ReadDepth(prog, i, l) >= 0 /\ WriteDepth(prog, i, l) \in {0, 1}
  /\ \A l \in Locks : ReadDepth(prog, Len(prog) + 1, l) = 0 /\ WriteDepth(prog, Len(prog) + 1, l) = 0
  /\ \A i \in 1..Len(prog) : \A x \in prog[i].uses :
       \/ WriteDepth(prog, i, GuardOf(x.structure)) = 1
       \/ ~x.write /\ ReadDepth(prog, i, GuardOf(x.structure)) > 0

\* The order of the locks, cache before labels, and none taken inside itself; and
\* what GetLocationsWithStatus does instead, reading cacheMutex inside itself.
Ordered(prog) ==
  \A i \in 1..Len(prog) : prog[i].op \in {"RLock", "Lock"} =>
    \A l \in {prog[i].lock} \cup (IF prog[i].lock = "cache" THEN {"labels"} ELSE {}) :
      ReadDepth(prog, i, l) = 0 /\ WriteDepth(prog, i, l) = 0

Rereads(prog, i) == prog[i].op = "RLock" /\ prog[i].lock = "cache" /\ ReadDepth(prog, i, "cache") > 0
OrderedButRereading(prog) ==
  \A i \in 1..Len(prog) : prog[i].op \in {"RLock", "Lock"} =>
    \/ Rereads(prog, i)
    \/ \A l \in {prog[i].lock} \cup (IF prog[i].lock = "cache" THEN {"labels"} ELSE {}) :
         ReadDepth(prog, i, l) = 0 /\ WriteDepth(prog, i, l) = 0

(***************************************************************************)
(* The invariant places every goroutine in a program: what it has left to  *)
(* run, the read locks it holds and the locks it writes under are those of *)
(* one and the same position.                                              *)
(***************************************************************************)
Rest(prog, i) == SubSeq(prog, i, Len(prog))

LockTypeOK ==
  /\ todo \in [Procs -> Seq(Operation)]
  /\ holds \in [Locks -> [Procs -> Int]]
  /\ waiting \in [Locks -> SUBSET Procs]
  /\ announced \in [Locks -> Procs \cup {NoProc}]
  /\ writing \in [Locks -> BOOLEAN]

WritesUnder(p, l) == announced[l] = p /\ writing[l]

Place(p, prog, i) ==
  /\ todo[p] = Rest(prog, i)
  /\ \A l \in Locks : holds[l][p] = ReadDepth(prog, i, l)
  /\ \A l \in Locks : WriteDepth(prog, i, l) = 1 <=> WritesUnder(p, l)

Placed ==
  \A p \in Procs : \E prog \in Programs[p] \cup {<<>>} : \E i \in 1..(Len(prog) + 1) : Place(p, prog, i)

HeadIs(s, kind, l) == s # <<>> /\ Head(s).op = kind /\ Head(s).lock = l

\* A writer is inside alone; one that has only announced itself is at its Lock;
\* readers wait at their RLock, and for somebody.
WriterAlone == \A l \in Locks : writing[l] => announced[l] \in Procs /\ \A q \in Procs : holds[l][q] = 0
AnnouncedAtLock ==
  \A l \in Locks, p \in Procs : announced[l] = p /\ ~writing[l] => HeadIs(todo[p], "Lock", l)
WaitingAtRLock ==
  \A l \in Locks, p \in Procs :
    p \in waiting[l] => HeadIs(todo[p], "RLock", l) /\ announced[l] \in Procs

LockInv == LockTypeOK /\ Placed /\ WriterAlone /\ AnnouncedAtLock /\ WaitingAtRLock

-----------------------------------------------------------------------------
(* Lemmas about programs.                                                  *)

(* Nothing is held before the first operation.                             *)
LEMMA DepthsFirst ==
  ASSUME NEW prog, NEW l
  PROVE  ReadDepth(prog, 1, l) = 0 /\ WriteDepth(prog, 1, l) = 0
<1>1. \A kind : {j \in 1..(1 - 1) : prog[j].op = kind /\ prog[j].lock = l} = {}
  OBVIOUS
<1>2. \A kind : Before(prog, 1, kind, l) = 0
  BY <1>1, FS_EmptySet DEF Before
<1> QED BY <1>2 DEF ReadDepth, WriteDepth

(* What was done before the next operation is what was done before this    *)
(* one, and this one.                                                      *)
LEMMA BeforeNext ==
  ASSUME NEW prog, NEW i \in Nat \ {0}, NEW kind, NEW l
  PROVE  /\ Before(prog, i, kind, l) \in Nat
         /\ Before(prog, i + 1, kind, l) =
              Before(prog, i, kind, l) + (IF prog[i].op = kind /\ prog[i].lock = l THEN 1 ELSE 0)
<1> DEFINE S(n) == {j \in 1..(n - 1) : prog[j].op = kind /\ prog[j].lock = l}
<1>0. /\ Before(prog, i, kind, l) = Cardinality(S(i))
      /\ Before(prog, i + 1, kind, l) = Cardinality(S(i + 1))
  BY DEF Before
<1>1. IsFiniteSet(S(i))
  <2>1. IsFiniteSet(1..(i - 1))
    BY FS_Interval
  <2> QED BY <2>1, FS_Subset
<1>2. Cardinality(S(i)) \in Nat
  BY <1>1, FS_CardinalityType
<1>3. CASE prog[i].op = kind /\ prog[i].lock = l
  <2>1. S(i + 1) = S(i) \cup {i} /\ i \notin S(i)
    BY <1>3
  <2>2. Cardinality(S(i + 1)) = Cardinality(S(i)) + 1
    <3> HIDE DEF S
    <3> QED BY <1>1, <2>1, FS_AddElement
  <2> QED BY <1>0, <1>2, <1>3, <2>2
<1>4. CASE ~(prog[i].op = kind /\ prog[i].lock = l)
  <2>1. S(i + 1) = S(i)
    BY <1>4
  <2> HIDE DEF S
  <2> QED BY <1>0, <1>2, <1>4, <2>1
<1> QED BY <1>3, <1>4

(* The depths after an operation.                                          *)
LEMMA DepthsNext ==
  ASSUME NEW prog, NEW i \in Nat \ {0}, NEW l,
         prog[i].op \in {"RLock", "RUnlock", "Lock", "Unlock"}
  PROVE  /\ ReadDepth(prog, i, l) \in Int /\ WriteDepth(prog, i, l) \in Int
         /\ prog[i].lock # l =>
              /\ ReadDepth(prog, i + 1, l) = ReadDepth(prog, i, l)
              /\ WriteDepth(prog, i + 1, l) = WriteDepth(prog, i, l)
         /\ prog[i].lock = l =>
              /\ ReadDepth(prog, i + 1, l) = ReadDepth(prog, i, l)
                   + (CASE prog[i].op = "RLock" -> 1 [] prog[i].op = "RUnlock" -> -1 [] OTHER -> 0)
              /\ WriteDepth(prog, i + 1, l) = WriteDepth(prog, i, l)
                   + (CASE prog[i].op = "Lock" -> 1 [] prog[i].op = "Unlock" -> -1 [] OTHER -> 0)
<1> DEFINE r(n) == Before(prog, n, "RLock", l)
           ru(n) == Before(prog, n, "RUnlock", l)
           w(n) == Before(prog, n, "Lock", l)
           wu(n) == Before(prog, n, "Unlock", l)
           done(kind) == IF prog[i].op = kind /\ prog[i].lock = l THEN 1 ELSE 0
<1>1. /\ r(i) \in Nat /\ r(i + 1) = r(i) + done("RLock")
      /\ ru(i) \in Nat /\ ru(i + 1) = ru(i) + done("RUnlock")
      /\ w(i) \in Nat /\ w(i + 1) = w(i) + done("Lock")
      /\ wu(i) \in Nat /\ wu(i + 1) = wu(i) + done("Unlock")
  BY BeforeNext
<1>2. /\ ReadDepth(prog, i, l) = r(i) - ru(i) /\ ReadDepth(prog, i + 1, l) = r(i + 1) - ru(i + 1)
      /\ WriteDepth(prog, i, l) = w(i) - wu(i) /\ WriteDepth(prog, i + 1, l) = w(i + 1) - wu(i + 1)
  BY DEF ReadDepth, WriteDepth
<1> HIDE DEF r, ru, w, wu
<1> QED BY <1>1, <1>2

(* The rest of a program after its next operation.                         *)
LEMMA RestNext ==
  ASSUME NEW prog \in Seq(Operation), NEW i \in 1..(Len(prog) + 1)
  PROVE  /\ Rest(prog, i) \in Seq(Operation)
         /\ Rest(prog, i) # <<>> <=> i <= Len(prog)
         /\ i <= Len(prog) =>
              /\ i + 1 \in 1..(Len(prog) + 1)
              /\ prog[i] \in Operation
              /\ Head(Rest(prog, i)) = prog[i]
              /\ Tail(Rest(prog, i)) = Rest(prog, i + 1)
<1>1. Len(prog) \in Nat /\ \A k \in 1..Len(prog) : prog[k] \in Operation
  OBVIOUS
<1>2. Rest(prog, i) \in Seq(Operation) /\ Len(Rest(prog, i)) = Len(prog) - i + 1
      /\ \A k \in 1..(Len(prog) - i + 1) : Rest(prog, i)[k] = prog[i + k - 1]
  BY <1>1 DEF Rest
<1>3. ASSUME i <= Len(prog)
      PROVE  Tail(Rest(prog, i)) = Rest(prog, i + 1)
  <2>1. /\ Rest(prog, i + 1) \in Seq(Operation) /\ Len(Rest(prog, i + 1)) = Len(prog) - i
        /\ \A k \in 1..(Len(prog) - i) : Rest(prog, i + 1)[k] = prog[i + k]
    BY <1>1, <1>3 DEF Rest
  <2>2. /\ Tail(Rest(prog, i)) \in Seq(Operation) /\ Len(Tail(Rest(prog, i))) = Len(prog) - i
        /\ \A k \in 1..(Len(prog) - i) : Tail(Rest(prog, i))[k] = Rest(prog, i)[k + 1]
    BY <1>1, <1>2, <1>3
  <2>3. \A k \in 1..(Len(prog) - i) : Tail(Rest(prog, i))[k] = Rest(prog, i + 1)[k]
    <3> TAKE k \in 1..(Len(prog) - i)
    <3>1. k + 1 \in 1..(Len(prog) - i + 1) /\ i + (k + 1) - 1 = i + k
      BY <1>1
    <3>2. Rest(prog, i)[k + 1] = prog[i + k]
      BY <1>2, <3>1
    <3> QED BY <2>1, <2>2, <3>2
  <2> QED BY <2>1, <2>2, <2>3, SeqEqual
<1>4. Rest(prog, i) # <<>> <=> i <= Len(prog)
  BY <1>1, <1>2, EmptySeq
<1>5. ASSUME i <= Len(prog)
      PROVE  /\ i + 1 \in 1..(Len(prog) + 1)
             /\ prog[i] \in Operation
             /\ Head(Rest(prog, i)) = prog[i]
  <2>1. 1 \in 1..(Len(prog) - i + 1) /\ i + 1 - 1 = i
    BY <1>1, <1>5
  <2>2. Rest(prog, i)[1] = prog[i]
    BY <1>2, <2>1
  <2>3. Head(Rest(prog, i)) = Rest(prog, i)[1]
    BY <1>2, <1>4, <1>5
  <2> QED BY <1>1, <1>5, <2>2, <2>3
<1> QED BY <1>2, <1>3, <1>4, <1>5

-----------------------------------------------------------------------------
(* The programs of the code are well locked, and all but the one that asks *)
(* for the locations' statuses take the locks in order.                    *)

Correct(prog) == WellLocked(prog) /\ Ordered(prog)

\* What an operation does to the depths of a lock.
Depths(prog, i, l, r, w) == ReadDepth(prog, i, l) = r /\ WriteDepth(prog, i, l) = w

LEMMA DepthsStart ==
  ASSUME NEW prog
  PROVE  Depths(prog, 1, "cache", 0, 0) /\ Depths(prog, 1, "labels", 0, 0)
BY DepthsFirst DEF Depths

LEMMA DepthsStep ==
  ASSUME NEW prog, NEW i \in Nat \ {0}, NEW kind \in {"RLock", "RUnlock", "Lock", "Unlock"},
         NEW l, NEW r \in Int, NEW w \in Int, NEW m,
         prog[i].op = kind, prog[i].lock = l, Depths(prog, i, m, r, w)
  PROVE  /\ m # l => Depths(prog, i + 1, m, r, w)
         /\ m = l /\ kind = "RLock" => Depths(prog, i + 1, m, r + 1, w)
         /\ m = l /\ kind = "RUnlock" => Depths(prog, i + 1, m, r - 1, w)
         /\ m = l /\ kind = "Lock" => Depths(prog, i + 1, m, r, w + 1)
         /\ m = l /\ kind = "Unlock" => Depths(prog, i + 1, m, r, w - 1)
BY DepthsNext DEF Depths

LEMMA OperationsOf ==
  ASSUME NEW kind \in {"RLock", "RUnlock", "Lock", "Unlock"}, NEW l \in Locks,
         NEW what \in SUBSET [structure : Structures, write : BOOLEAN]
  PROVE  Op(kind, l, what) \in Operation
BY DEF Op, Operation

LEMMA UsesOf ==
  ASSUME NEW what \in SUBSET Structures
  PROVE  /\ Reads(what) \in SUBSET [structure : Structures, write : BOOLEAN]
         /\ Writes(what) \in SUBSET [structure : Structures, write : BOOLEAN]
<1>1. \A x \in what, b \in BOOLEAN : [structure |-> x, write |-> b] \in [structure : Structures, write : BOOLEAN]
  OBVIOUS
<1>2. TRUE \in BOOLEAN /\ FALSE \in BOOLEAN
  OBVIOUS
<1>3. \A y \in Reads(what) : y \in [structure : Structures, write : BOOLEAN]
  BY <1>1, <1>2, Zenon DEF Reads
<1>4. \A y \in Writes(what) : y \in [structure : Structures, write : BOOLEAN]
  BY <1>1, <1>2, Zenon DEF Writes
<1> QED BY <1>3, <1>4

LEMMA NothingUsed == {} \in SUBSET [structure : Structures, write : BOOLEAN]
OBVIOUS

LEMMA LocksAndStructures ==
  /\ "cache" \in Locks /\ "labels" \in Locks
  /\ \A x \in Structures : {x} \in SUBSET Structures
  /\ "appStatusCache" \in Structures /\ "locationCache" \in Structures
  /\ "appsByField" \in Structures /\ "updateMetrics" \in Structures
BY DEF Locks, Structures

(* A section for reading.                                                  *)
LEMMA ReadSectionCorrect ==
  ASSUME NEW l \in Locks, NEW what \in SUBSET Structures, \A x \in what : GuardOf(x) = l
  PROVE  Correct(ReadSection(l, what))
<1> DEFINE P == ReadSection(l, what)
<1>1. /\ P \in Seq(Operation) /\ Len(P) = 2
      /\ P[1] = Op("RLock", l, {}) /\ P[2] = Op("RUnlock", l, Reads(what))
  <2>1. Op("RLock", l, {}) \in Operation /\ Op("RUnlock", l, Reads(what)) \in Operation
    BY OperationsOf, UsesOf, NothingUsed
  <2>2. P = <<Op("RLock", l, {}), Op("RUnlock", l, Reads(what))>>
    BY DEF ReadSection
  <2> HIDE DEF P
  <2> QED BY <2>1, <2>2
<1> HIDE DEF P
<1>2. /\ P[1].op = "RLock" /\ P[1].lock = l /\ P[1].uses = {}
      /\ P[2].op = "RUnlock" /\ P[2].lock = l /\ P[2].uses = Reads(what)
  BY <1>1 DEF Op
<1>3. /\ Depths(P, 1, l, 0, 0) /\ Depths(P, 2, l, 1, 0) /\ Depths(P, 3, l, 0, 0)
  <2>1. Depths(P, 1, l, 0, 0)
    BY DepthsFirst DEF Depths
  <2>2. Depths(P, 2, l, 1, 0)
    BY <1>2, <2>1, DepthsStep
  <2>3. Depths(P, 3, l, 0, 0)
    BY <1>2, <2>2, DepthsStep
  <2> QED BY <2>1, <2>2, <2>3
<1>4. ASSUME NEW m \in Locks, m # l PROVE \A i \in {1, 2, 3} : Depths(P, i, m, 0, 0)
  <2>1. Depths(P, 1, m, 0, 0)
    BY DepthsFirst DEF Depths
  <2>2. Depths(P, 2, m, 0, 0)
    BY <1>2, <1>4, <2>1, DepthsStep
  <2>3. Depths(P, 3, m, 0, 0)
    BY <1>2, <1>4, <2>2, DepthsStep
  <2> QED BY <2>1, <2>2, <2>3
<1>5. \A i \in 1..(Len(P) + 1) : i \in {1, 2, 3}
  BY <1>1
<1>6. WellLocked(P)
  <2>1. \A i \in 1..(Len(P) + 1), m \in Locks : ReadDepth(P, i, m) >= 0 /\ WriteDepth(P, i, m) \in {0, 1}
    BY <1>3, <1>4, <1>5 DEF Depths
  <2>2. \A m \in Locks : ReadDepth(P, Len(P) + 1, m) = 0 /\ WriteDepth(P, Len(P) + 1, m) = 0
    BY <1>1, <1>3, <1>4 DEF Depths
  <2>3. \A i \in 1..Len(P) : \A x \in P[i].uses :
          i = 2 /\ ~x.write /\ GuardOf(x.structure) = l
    BY <1>1, <1>2 DEF Reads
  <2> QED BY <1>1, <1>3, <2>1, <2>2, <2>3 DEF WellLocked, Depths
<1>7. Ordered(P)
  <2>1. \A i \in 1..Len(P) : P[i].op \in {"RLock", "Lock"} => i = 1 /\ P[i].lock = l
    BY <1>1, <1>2
  <2>2. \A m \in Locks : Depths(P, 1, m, 0, 0)
    BY <1>3, <1>4
  <2> QED BY <2>1, <2>2 DEF Ordered, Depths, Locks
<1> QED BY <1>6, <1>7 DEF Correct, P

(* UpdateLocationCache is a section for writing.                           *)
LEMMA UpdateLocationCacheCorrect == Correct(UpdateLocationCache)
<1> DEFINE P == UpdateLocationCache
<1>1. /\ P \in Seq(Operation) /\ Len(P) = 2
      /\ P[1] = Op("Lock", "cache", {}) /\ P[2] = Op("Unlock", "cache", Writes({"locationCache"}))
  <2>1. Op("Lock", "cache", {}) \in Operation /\ Op("Unlock", "cache", Writes({"locationCache"})) \in Operation
    BY OperationsOf, UsesOf, NothingUsed, LocksAndStructures
  <2>2. P = <<Op("Lock", "cache", {}), Op("Unlock", "cache", Writes({"locationCache"}))>>
    BY DEF UpdateLocationCache
  <2> HIDE DEF P
  <2> QED BY <2>1, <2>2
<1> HIDE DEF P
<1>2. /\ P[1].op = "Lock" /\ P[1].lock = "cache" /\ P[1].uses = {}
      /\ P[2].op = "Unlock" /\ P[2].lock = "cache" /\ P[2].uses = Writes({"locationCache"})
  BY <1>1 DEF Op
<1>3. /\ Depths(P, 1, "cache", 0, 0) /\ Depths(P, 1, "labels", 0, 0)
  BY DepthsStart
<1>4. /\ Depths(P, 2, "cache", 0, 1) /\ Depths(P, 2, "labels", 0, 0)
  BY <1>2, <1>3, DepthsStep
<1>5. /\ Depths(P, 3, "cache", 0, 0) /\ Depths(P, 3, "labels", 0, 0)
  BY <1>2, <1>4, DepthsStep
<1>6. \A i \in 1..(Len(P) + 1) : i \in {1, 2, 3}
  BY <1>1
<1>7. WellLocked(P)
  <2>1. \A i \in 1..(Len(P) + 1), m \in Locks : ReadDepth(P, i, m) >= 0 /\ WriteDepth(P, i, m) \in {0, 1}
    BY <1>3, <1>4, <1>5, <1>6 DEF Depths, Locks
  <2>2. \A m \in Locks : ReadDepth(P, Len(P) + 1, m) = 0 /\ WriteDepth(P, Len(P) + 1, m) = 0
    BY <1>1, <1>5 DEF Depths, Locks
  <2>3. \A i \in 1..Len(P) : \A x \in P[i].uses : i = 2 /\ GuardOf(x.structure) = "cache"
    BY <1>1, <1>2 DEF Writes, GuardOf
  <2> QED BY <1>1, <1>4, <2>1, <2>2, <2>3 DEF WellLocked, Depths
<1>8. Ordered(P)
  <2>1. \A i \in 1..Len(P) : P[i].op \in {"RLock", "Lock"} => i = 1
    BY <1>1, <1>2
  <2> QED BY <1>2, <1>3, <2>1 DEF Ordered, Depths
<1> QED BY <1>7, <1>8 DEF Correct, P

(* A program with one operation more in front, and one of six operations.  *)
LEMMA FirstOf ==
  ASSUME NEW S, NEW a \in S, NEW t \in Seq(S)
  PROVE  /\ <<a>> \o t \in Seq(S) /\ Len(<<a>> \o t) = Len(t) + 1 /\ (<<a>> \o t)[1] = a
         /\ \A i \in 1..Len(t) : (<<a>> \o t)[i + 1] = t[i]
<1>1. <<a>> \in Seq(S) /\ Len(<<a>>) = 1 /\ Len(t) \in Nat
  OBVIOUS
<1> QED BY <1>1, ConcatProperties

LEMMA SixOperations ==
  ASSUME NEW S, NEW o1 \in S, NEW o2 \in S, NEW o3 \in S, NEW o4 \in S, NEW o5 \in S, NEW o6 \in S
  PROVE  <<o1>> \o (<<o2, o3>> \o <<o4, o5>>) \o <<o6>> = <<o1, o2, o3, o4, o5, o6>>
<1>1. PICK index : index = <<o2, o3>> \o <<o4, o5>>
  OBVIOUS
<1>2. PICK upTo : upTo = <<o1>> \o index
  OBVIOUS
<1>3. PICK all : all = upTo \o <<o6>>
  OBVIOUS
<1>4. <<o2, o3>> \in Seq(S) /\ <<o4, o5>> \in Seq(S)
  OBVIOUS
<1>5. /\ index \in Seq(S) /\ Len(index) = 4
      /\ index[1] = o2 /\ index[2] = o3 /\ index[3] = o4 /\ index[4] = o5
  BY <1>1, <1>4, ConcatProperties
<1>6. /\ upTo \in Seq(S) /\ Len(upTo) = 5 /\ upTo[1] = o1
      /\ \A i \in 1..4 : upTo[i + 1] = index[i]
  BY <1>2, <1>5, FirstOf
<1>7. upTo[2] = o2 /\ upTo[3] = o3 /\ upTo[4] = o4 /\ upTo[5] = o5
  <2>1. upTo[1 + 1] = index[1] /\ upTo[2 + 1] = index[2] /\ upTo[3 + 1] = index[3] /\ upTo[4 + 1] = index[4]
    BY <1>6
  <2> QED BY <1>5, <2>1
<1>8. /\ all \in Seq(S) /\ Len(all) = 6 /\ all[6] = o6
      /\ \A i \in 1..5 : all[i] = upTo[i]
  <2>1. PICK last : last = <<o6>>
    OBVIOUS
  <2>2. last \in Seq(S) /\ Len(last) = 1 /\ last[1] = o6
    BY <2>1
  <2>3. all = upTo \o last
    BY <1>3, <2>1
  <2>4. /\ all \in Seq(S) /\ Len(all) = Len(upTo) + Len(last)
        /\ \A i \in 1..(Len(upTo) + Len(last)) : all[i] = IF i <= Len(upTo) THEN upTo[i] ELSE last[i - Len(upTo)]
    <3>1. upTo \in Seq(S) /\ last \in Seq(S)
      BY <1>6, <2>2
    <3> QED BY <2>3, <3>1, ConcatProperties
  <2>5. Len(upTo) + Len(last) = 6 /\ 6 - Len(upTo) = 1
    BY <1>6, <2>2
  <2> QED BY <1>6, <2>2, <2>4, <2>5
<1>9. all[1] = o1 /\ all[2] = o2 /\ all[3] = o3 /\ all[4] = o4 /\ all[5] = o5
  <2>1. all[1] = upTo[1] /\ all[2] = upTo[2] /\ all[3] = upTo[3] /\ all[4] = upTo[4] /\ all[5] = upTo[5]
    BY <1>8
  <2> QED BY <1>6, <1>7, <2>1
<1>10. all = <<o1, o2, o3, o4, o5, o6>>
  <2>1. <<o1, o2, o3, o4, o5, o6>> \in Seq(S)
    OBVIOUS
  <2> QED BY <1>8, <1>9, <2>1, SeqEqual
<1> QED BY <1>1, <1>2, <1>3, <1>10

(* UpdateAppStatus takes the label manager's lock inside cacheMutex.       *)
LEMMA UpdateAppStatusCorrect == Correct(UpdateAppStatus)
<1> DEFINE P == UpdateAppStatus
           collected == Writes({"appStatusCache"}) \cup Reads({"appStatusCache"})
           counted == Reads({"appStatusCache"}) \cup Writes({"updateMetrics"})
<1>1. P = <<Op("Lock", "cache", {}), Op("Lock", "labels", collected),
            Op("Unlock", "labels", Writes({"appsByField"})),
            Op("RLock", "labels", {}), Op("RUnlock", "labels", Reads({"appsByField"})),
            Op("Unlock", "cache", counted)>>
  <2> DEFINE o1 == Op("Lock", "cache", {})
             o2 == Op("Lock", "labels", collected)
             o3 == Op("Unlock", "labels", Writes({"appsByField"}))
             o4 == Op("RLock", "labels", {})
             o5 == Op("RUnlock", "labels", Reads({"appsByField"}))
             o6 == Op("Unlock", "cache", counted)
  <2>1. P = <<o1>> \o (<<o2, o3>> \o <<o4, o5>>) \o <<o6>>
    BY DEF UpdateAppStatus, updateLabelManager, ReadSection
  <2> HIDE DEF o1, o2, o3, o4, o5, o6, P
  <2> DEFINE S == {o1, o2, o3, o4, o5, o6}
  <2>2. o1 \in S /\ o2 \in S /\ o3 \in S /\ o4 \in S /\ o5 \in S /\ o6 \in S
    OBVIOUS
  <2> HIDE DEF S
  <2>3. P = <<o1, o2, o3, o4, o5, o6>>
    <3>1. <<o1>> \o (<<o2, o3>> \o <<o4, o5>>) \o <<o6>> = <<o1, o2, o3, o4, o5, o6>>
      BY <2>2, SixOperations
    <3> QED BY <2>1, <3>1
  <2> QED BY <2>3 DEF o1, o2, o3, o4, o5, o6
<1>2. /\ Op("Lock", "cache", {}) \in Operation /\ Op("Lock", "labels", collected) \in Operation
      /\ Op("Unlock", "labels", Writes({"appsByField"})) \in Operation
      /\ Op("RLock", "labels", {}) \in Operation /\ Op("RUnlock", "labels", Reads({"appsByField"})) \in Operation
      /\ Op("Unlock", "cache", counted) \in Operation
  <2>1. /\ collected \in SUBSET [structure : Structures, write : BOOLEAN]
        /\ counted \in SUBSET [structure : Structures, write : BOOLEAN]
    BY UsesOf, LocksAndStructures
  <2> HIDE DEF collected, counted
  <2> QED BY <2>1, OperationsOf, UsesOf, NothingUsed, LocksAndStructures
<1> HIDE DEF P
<1>3. P \in Seq(Operation) /\ Len(P) = 6
  BY <1>1, <1>2
<1>4. /\ P[1].op = "Lock" /\ P[1].lock = "cache" /\ P[1].uses = {}
      /\ P[2].op = "Lock" /\ P[2].lock = "labels" /\ P[2].uses = collected
      /\ P[3].op = "Unlock" /\ P[3].lock = "labels" /\ P[3].uses = Writes({"appsByField"})
      /\ P[4].op = "RLock" /\ P[4].lock = "labels" /\ P[4].uses = {}
      /\ P[5].op = "RUnlock" /\ P[5].lock = "labels" /\ P[5].uses = Reads({"appsByField"})
      /\ P[6].op = "Unlock" /\ P[6].lock = "cache" /\ P[6].uses = counted
  BY <1>1 DEF Op
<1>5. Depths(P, 1, "cache", 0, 0) /\ Depths(P, 1, "labels", 0, 0)
  BY DepthsStart
<1>6. Depths(P, 2, "cache", 0, 1) /\ Depths(P, 2, "labels", 0, 0)
  BY <1>4, <1>5, DepthsStep
<1>7. Depths(P, 3, "cache", 0, 1) /\ Depths(P, 3, "labels", 0, 1)
  BY <1>4, <1>6, DepthsStep
<1>8. Depths(P, 4, "cache", 0, 1) /\ Depths(P, 4, "labels", 0, 0)
  BY <1>4, <1>7, DepthsStep
<1>9. Depths(P, 5, "cache", 0, 1) /\ Depths(P, 5, "labels", 1, 0)
  BY <1>4, <1>8, DepthsStep
<1>10. Depths(P, 6, "cache", 0, 1) /\ Depths(P, 6, "labels", 0, 0)
  BY <1>4, <1>9, DepthsStep
<1>11. Depths(P, 7, "cache", 0, 0) /\ Depths(P, 7, "labels", 0, 0)
  BY <1>4, <1>10, DepthsStep
<1>12. \A i \in 1..(Len(P) + 1) : i \in {1, 2, 3, 4, 5, 6, 7}
  BY <1>3
<1>13. WellLocked(P)
  <2>1. \A i \in 1..(Len(P) + 1), m \in Locks : ReadDepth(P, i, m) >= 0 /\ WriteDepth(P, i, m) \in {0, 1}
    BY <1>5, <1>6, <1>7, <1>8, <1>9, <1>10, <1>11, <1>12 DEF Depths, Locks
  <2>2. \A m \in Locks : ReadDepth(P, Len(P) + 1, m) = 0 /\ WriteDepth(P, Len(P) + 1, m) = 0
    BY <1>3, <1>11 DEF Depths, Locks
  <2>3. \A x \in collected \cup counted : GuardOf(x.structure) = "cache"
    BY DEF Writes, Reads, GuardOf
  <2>4. /\ \A x \in Writes({"appsByField"}) : GuardOf(x.structure) = "labels"
        /\ \A x \in Reads({"appsByField"}) : GuardOf(x.structure) = "labels" /\ ~x.write
    BY DEF Writes, Reads, GuardOf
  <2>5. ASSUME NEW i \in 1..Len(P), NEW x \in P[i].uses
        PROVE  \/ i \in {2, 6} /\ GuardOf(x.structure) = "cache"
               \/ i = 3 /\ GuardOf(x.structure) = "labels"
               \/ i = 5 /\ GuardOf(x.structure) = "labels" /\ ~x.write
    <3> HIDE DEF collected, counted
    <3>1. i \in {1, 2, 3, 4, 5, 6}
      BY <1>3
    <3> QED BY <1>4, <2>3, <2>4, <2>5, <3>1
  <2>6. \A i \in 1..Len(P) : \A x \in P[i].uses :
          \/ WriteDepth(P, i, GuardOf(x.structure)) = 1
          \/ ~x.write /\ ReadDepth(P, i, GuardOf(x.structure)) > 0
    BY <1>6, <1>7, <1>9, <1>10, <2>5 DEF Depths
  <2> QED BY <1>3, <2>1, <2>2, <2>6 DEF WellLocked
<1>14. Ordered(P)
  <2>1. \A i \in 1..Len(P) : P[i].op \in {"RLock", "Lock"} => i = 1 \/ (i \in {2, 4} /\ P[i].lock = "labels")
    BY <1>3, <1>4
  <2> QED BY <1>4, <1>5, <1>6, <1>8, <2>1 DEF Ordered, Depths
<1> QED BY <1>13, <1>14 DEF Correct, P

(* The depths in one program followed by another.                          *)
LEMMA BeforeInFirst ==
  ASSUME NEW s \in Seq(Operation), NEW t \in Seq(Operation), NEW i \in 1..(Len(s) + 1), NEW kind, NEW l
  PROVE  Before(s \o t, i, kind, l) = Before(s, i, kind, l)
<1>1. Len(s) \in Nat /\ \A j \in 1..(i - 1) : j \in 1..Len(s)
  OBVIOUS
<1>2. \A j \in 1..(i - 1) : (s \o t)[j] = s[j]
  BY <1>1, ConcatProperties
<1>3. {j \in 1..(i - 1) : (s \o t)[j].op = kind /\ (s \o t)[j].lock = l}
        = {j \in 1..(i - 1) : s[j].op = kind /\ s[j].lock = l}
  BY <1>2
<1> QED BY <1>3 DEF Before

LEMMA BeforeInSecond ==
  ASSUME NEW s \in Seq(Operation), NEW t \in Seq(Operation), NEW i \in 1..(Len(t) + 1), NEW kind, NEW l
  PROVE  /\ Before(s \o t, Len(s) + i, kind, l) = Before(s, Len(s) + 1, kind, l) + Before(t, i, kind, l)
         /\ Before(s, Len(s) + 1, kind, l) \in Nat /\ Before(t, i, kind, l) \in Nat
<1> DEFINE A == {j \in 1..Len(s) : s[j].op = kind /\ s[j].lock = l}
           B == {j \in (Len(s) + 1)..(Len(s) + i - 1) : t[j - Len(s)].op = kind /\ t[j - Len(s)].lock = l}
           C == {k \in 1..(i - 1) : t[k].op = kind /\ t[k].lock = l}
           f == [k \in C |-> k + Len(s)]
           W(m) == {j \in 1..(m - 1) : (s \o t)[j].op = kind /\ (s \o t)[j].lock = l}
<1>1. Len(s) \in Nat /\ Len(t) \in Nat
  OBVIOUS
<1>2. IsFiniteSet(A) /\ IsFiniteSet(B) /\ IsFiniteSet(C)
  <2>1. /\ IsFiniteSet(1..Len(s)) /\ IsFiniteSet(1..(i - 1))
        /\ IsFiniteSet((Len(s) + 1)..(Len(s) + i - 1))
    <3>1. /\ 1 \in Int /\ Len(s) \in Int /\ i - 1 \in Int
          /\ Len(s) + 1 \in Int /\ Len(s) + i - 1 \in Int
      BY <1>1
    <3> QED BY <3>1, FS_Interval
  <2> QED BY <2>1, FS_Subset
<1>3. Cardinality(B) = Cardinality(C)
  <2>1. f \in Bijection(C, B)
    <3>1. \A k \in C : f[k] \in B
      BY <1>1
    <3>2. \A k \in C, m \in C : f[k] = f[m] => k = m
      BY <1>1
    <3>3. \A j \in B : \E k \in C : f[k] = j
      <4> TAKE j \in B
      <4>1. j - Len(s) \in C /\ f[j - Len(s)] = j
        BY <1>1
      <4> QED BY <4>1
    <3> HIDE DEF B, C
    <3>4. f \in [C -> B]
      BY <3>1
    <3> HIDE DEF f
    <3> QED BY <3>2, <3>3, <3>4 DEF Bijection, Injection, Surjection, IsInjective
  <2> HIDE DEF B, C, f
  <2> QED BY <1>2, <2>1, FS_Bijection DEF ExistsBijection
<1>4. \A j \in 1..(Len(s) + i - 1) :
        (s \o t)[j] = IF j \in 1..Len(s) THEN s[j] ELSE t[j - Len(s)]
  BY <1>1, ConcatProperties
<1>5. W(Len(s) + i) = A \cup B
  BY <1>1, <1>4
<1>6. A \cap B = {}
  BY <1>1
<1>7. Cardinality(A \cup B) = Cardinality(A) + Cardinality(B)
  <2> HIDE DEF A, B
  <2>1. Cardinality(A) \in Nat /\ Cardinality(B) \in Nat
    BY <1>2, FS_CardinalityType
  <2>2. Cardinality(A \cup B) = Cardinality(A) + Cardinality(B) - Cardinality({})
    BY <1>2, <1>6, FS_Union
  <2>3. Cardinality({}) = 0
    BY FS_EmptySet
  <2> QED BY <2>1, <2>2, <2>3
<1>8. Before(s, Len(s) + 1, kind, l) = Cardinality(A) /\ Before(t, i, kind, l) = Cardinality(C)
  <2>1. Len(s) + 1 - 1 = Len(s)
    BY <1>1
  <2> QED BY <2>1 DEF Before
<1>9. Before(s \o t, Len(s) + i, kind, l) = Cardinality(A \cup B)
  <2>1. \A m : Before(s \o t, m, kind, l) = Cardinality(W(m))
    BY DEF Before
  <2> HIDE DEF A, B, W
  <2> QED BY <1>5, <2>1
<1>10. Cardinality(A) \in Nat /\ Cardinality(C) \in Nat
  <2> HIDE DEF A, C
  <2> QED BY <1>2, FS_CardinalityType
<1> QED BY <1>3, <1>7, <1>8, <1>9, <1>10

LEMMA DepthsComposed ==
  ASSUME NEW s \in Seq(Operation), NEW t \in Seq(Operation), WellLocked(s), NEW l \in Locks
  PROVE  /\ \A i \in 1..(Len(s) + 1) :
              ReadDepth(s \o t, i, l) = ReadDepth(s, i, l) /\ WriteDepth(s \o t, i, l) = WriteDepth(s, i, l)
         /\ \A i \in 1..(Len(t) + 1) :
              /\ ReadDepth(s \o t, Len(s) + i, l) = ReadDepth(t, i, l)
              /\ WriteDepth(s \o t, Len(s) + i, l) = WriteDepth(t, i, l)
<1>1. ASSUME NEW i \in 1..(Len(s) + 1)
      PROVE  ReadDepth(s \o t, i, l) = ReadDepth(s, i, l) /\ WriteDepth(s \o t, i, l) = WriteDepth(s, i, l)
  BY BeforeInFirst DEF ReadDepth, WriteDepth
<1>2. ASSUME NEW i \in 1..(Len(t) + 1)
      PROVE  /\ ReadDepth(s \o t, Len(s) + i, l) = ReadDepth(t, i, l)
             /\ WriteDepth(s \o t, Len(s) + i, l) = WriteDepth(t, i, l)
  <2> DEFINE n == Len(s) + 1
  <2>1. \A kind \in {"RLock", "RUnlock", "Lock", "Unlock"} :
                  /\ Before(s \o t, Len(s) + i, kind, l) = Before(s, n, kind, l) + Before(t, i, kind, l)
                  /\ Before(s, n, kind, l) \in Nat /\ Before(t, i, kind, l) \in Nat
    BY BeforeInSecond
  <2>2. /\ Before(s, n, "RLock", l) - Before(s, n, "RUnlock", l) = 0
        /\ Before(s, n, "Lock", l) - Before(s, n, "Unlock", l) = 0
    BY DEF WellLocked, ReadDepth, WriteDepth
  <2> HIDE DEF n
  <2>3. Before(s \o t, Len(s) + i, "RLock", l) - Before(s \o t, Len(s) + i, "RUnlock", l)
          = Before(t, i, "RLock", l) - Before(t, i, "RUnlock", l)
    <3>1. /\ Before(s \o t, Len(s) + i, "RLock", l) = Before(s, n, "RLock", l) + Before(t, i, "RLock", l)
          /\ Before(s \o t, Len(s) + i, "RUnlock", l) = Before(s, n, "RUnlock", l) + Before(t, i, "RUnlock", l)
          /\ Before(s, n, "RLock", l) \in Nat /\ Before(t, i, "RLock", l) \in Nat
          /\ Before(s, n, "RUnlock", l) \in Nat /\ Before(t, i, "RUnlock", l) \in Nat
      BY <2>1
    <3> QED BY <3>1, <2>2
  <2>4. Before(s \o t, Len(s) + i, "Lock", l) - Before(s \o t, Len(s) + i, "Unlock", l)
          = Before(t, i, "Lock", l) - Before(t, i, "Unlock", l)
    <3>1. /\ Before(s \o t, Len(s) + i, "Lock", l) = Before(s, n, "Lock", l) + Before(t, i, "Lock", l)
          /\ Before(s \o t, Len(s) + i, "Unlock", l) = Before(s, n, "Unlock", l) + Before(t, i, "Unlock", l)
          /\ Before(s, n, "Lock", l) \in Nat /\ Before(t, i, "Lock", l) \in Nat
          /\ Before(s, n, "Unlock", l) \in Nat /\ Before(t, i, "Unlock", l) \in Nat
      BY <2>1
    <3> QED BY <3>1, <2>2
  <2> QED BY <2>3, <2>4 DEF ReadDepth, WriteDepth
<1> QED BY <1>1, <1>2

(* One correct program after another is one.                               *)
LEMMA Composed ==
  ASSUME NEW s, NEW t, WellLocked(s), WellLocked(t)
  PROVE  /\ WellLocked(s \o t)
         /\ Ordered(s) /\ Ordered(t) => Ordered(s \o t)
         /\ OrderedButRereading(s) /\ OrderedButRereading(t) => OrderedButRereading(s \o t)
<1> DEFINE P == s \o t
           Inside(i, prog, k) ==
             /\ P[i] = prog[k]
             /\ \A l \in Locks : ReadDepth(P, i, l) = ReadDepth(prog, k, l) /\ WriteDepth(P, i, l) = WriteDepth(prog, k, l)
<1>1. s \in Seq(Operation) /\ t \in Seq(Operation) /\ Len(s) \in Nat /\ Len(t) \in Nat
  BY DEF WellLocked
<1>2. P \in Seq(Operation) /\ Len(P) = Len(s) + Len(t)
  BY <1>1, ConcatProperties
<1>3. \A i \in 1..Len(s) : Inside(i, s, i)
  <2> TAKE i \in 1..Len(s)
  <2>1. P[i] = s[i]
    BY <1>1, ConcatProperties
  <2>2. i \in 1..(Len(s) + 1)
    BY <1>1
  <2> HIDE DEF P
  <2> QED BY <1>1, <2>1, <2>2, DepthsComposed DEF P
<1>4. \A k \in 1..Len(t) : Inside(Len(s) + k, t, k)
  <2> TAKE k \in 1..Len(t)
  <2>1. P[Len(s) + k] = t[k]
    BY <1>1, ConcatProperties
  <2>2. k \in 1..(Len(t) + 1)
    BY <1>1
  <2> HIDE DEF P
  <2> QED BY <1>1, <2>1, <2>2, DepthsComposed DEF P
<1>5. \A l \in Locks : /\ ReadDepth(P, Len(P) + 1, l) = ReadDepth(t, Len(t) + 1, l)
                       /\ WriteDepth(P, Len(P) + 1, l) = WriteDepth(t, Len(t) + 1, l)
  <2>1. Len(t) + 1 \in 1..(Len(t) + 1) /\ Len(P) + 1 = Len(s) + (Len(t) + 1)
    BY <1>1, <1>2
  <2>2. \A l \in Locks : /\ ReadDepth(P, Len(s) + (Len(t) + 1), l) = ReadDepth(t, Len(t) + 1, l)
                         /\ WriteDepth(P, Len(s) + (Len(t) + 1), l) = WriteDepth(t, Len(t) + 1, l)
    BY <1>1, <2>1, DepthsComposed
  <2> HIDE DEF P
  <2> QED BY <2>1, <2>2
<1>6. \A i \in 1..Len(P) : \/ i \in 1..Len(s) /\ Inside(i, s, i)
                           \/ \E k \in 1..Len(t) : Inside(i, t, k)
  <2> TAKE i \in 1..Len(P)
  <2>1. CASE i <= Len(s)
    BY <1>1, <1>2, <1>3, <2>1
  <2>2. CASE i > Len(s)
    <3>1. i - Len(s) \in 1..Len(t) /\ Len(s) + (i - Len(s)) = i
      BY <1>1, <1>2, <2>2
    <3>2. Inside(Len(s) + (i - Len(s)), t, i - Len(s))
      BY <1>4, <3>1
    <3> QED BY <3>1, <3>2
  <2> QED BY <1>1, <1>2, <2>1, <2>2
<1> HIDE DEF P
<1>7. ASSUME NEW i \in 1..Len(P)
      PROVE  /\ \A l \in Locks : ReadDepth(P, i, l) >= 0 /\ WriteDepth(P, i, l) \in {0, 1}
             /\ \A x \in P[i].uses : \/ WriteDepth(P, i, GuardOf(x.structure)) = 1
                                     \/ ~x.write /\ ReadDepth(P, i, GuardOf(x.structure)) > 0
             /\ Ordered(s) /\ Ordered(t) =>
                  (P[i].op \in {"RLock", "Lock"} =>
                     \A l \in {P[i].lock} \cup (IF P[i].lock = "cache" THEN {"labels"} ELSE {}) :
                       ReadDepth(P, i, l) = 0 /\ WriteDepth(P, i, l) = 0)
  <2>1. ASSUME NEW prog \in {s, t}, NEW k \in 1..Len(prog), Inside(i, prog, k)
        PROVE  /\ \A l \in Locks : ReadDepth(P, i, l) >= 0 /\ WriteDepth(P, i, l) \in {0, 1}
               /\ \A x \in P[i].uses : \/ WriteDepth(P, i, GuardOf(x.structure)) = 1
                                       \/ ~x.write /\ ReadDepth(P, i, GuardOf(x.structure)) > 0
               /\ Ordered(prog) =>
                    (P[i].op \in {"RLock", "Lock"} =>
                       \A l \in {P[i].lock} \cup (IF P[i].lock = "cache" THEN {"labels"} ELSE {}) :
                         ReadDepth(P, i, l) = 0 /\ WriteDepth(P, i, l) = 0)
    <3>1. /\ WellLocked(prog) /\ prog \in Seq(Operation) /\ Len(prog) \in Nat
          /\ k \in 1..(Len(prog) + 1) /\ prog[k] \in Operation
      BY <1>1
    <3>2. \A l \in Locks : ReadDepth(prog, k, l) >= 0 /\ WriteDepth(prog, k, l) \in {0, 1}
      BY <3>1 DEF WellLocked
    <3>3. \A x \in prog[k].uses : \/ WriteDepth(prog, k, GuardOf(x.structure)) = 1
                                  \/ ~x.write /\ ReadDepth(prog, k, GuardOf(x.structure)) > 0
      BY <3>1 DEF WellLocked
    <3>4. \A x : GuardOf(x) \in Locks
      BY DEF GuardOf, Locks
    <3>5. Ordered(prog) => (prog[k].op \in {"RLock", "Lock"} =>
            \A l \in {prog[k].lock} \cup (IF prog[k].lock = "cache" THEN {"labels"} ELSE {}) :
              ReadDepth(prog, k, l) = 0 /\ WriteDepth(prog, k, l) = 0)
      BY DEF Ordered
    <3>6. \A l \in {prog[k].lock} \cup (IF prog[k].lock = "cache" THEN {"labels"} ELSE {}) : l \in Locks
      BY <3>1 DEF Operation, Locks
    <3> QED BY <2>1, <3>2, <3>3, <3>4, <3>5, <3>6
  <2>2. CASE i \in 1..Len(s) /\ Inside(i, s, i)
    <3> HIDE DEF Inside
    <3> QED BY <2>1, <2>2
  <2>3. CASE \E k \in 1..Len(t) : Inside(i, t, k)
    <3> HIDE DEF Inside
    <3> QED BY <2>1, <2>3
  <2> QED BY <1>6, <2>2, <2>3
<1>8. WellLocked(P)
  <2>1. \A l \in Locks : ReadDepth(P, Len(P) + 1, l) = 0 /\ WriteDepth(P, Len(P) + 1, l) = 0
    BY <1>5 DEF WellLocked
  <2>2. \A i \in 1..(Len(P) + 1) : i = Len(P) + 1 \/ i \in 1..Len(P)
    BY <1>1, <1>2
  <2>3. \A i \in 1..(Len(P) + 1), l \in Locks : ReadDepth(P, i, l) >= 0 /\ WriteDepth(P, i, l) \in {0, 1}
    <3> TAKE i \in 1..(Len(P) + 1), l \in Locks
    <3>1. CASE i = Len(P) + 1
      BY <2>1, <3>1
    <3>2. CASE i \in 1..Len(P)
      BY <1>7, <3>2
    <3> QED BY <2>2, <3>1, <3>2
  <2>4. \A i \in 1..Len(P) : \A x \in P[i].uses :
          \/ WriteDepth(P, i, GuardOf(x.structure)) = 1
          \/ ~x.write /\ ReadDepth(P, i, GuardOf(x.structure)) > 0
    BY <1>7
  <2> QED BY <1>2, <2>1, <2>3, <2>4 DEF WellLocked
<1>9. Ordered(s) /\ Ordered(t) => Ordered(P)
  BY <1>7 DEF Ordered
<1>10. ASSUME OrderedButRereading(s), OrderedButRereading(t) PROVE OrderedButRereading(P)
  <2> SUFFICES ASSUME NEW i \in 1..Len(P), P[i].op \in {"RLock", "Lock"}, ~Rereads(P, i)
               PROVE  \A l \in {P[i].lock} \cup (IF P[i].lock = "cache" THEN {"labels"} ELSE {}) :
                        ReadDepth(P, i, l) = 0 /\ WriteDepth(P, i, l) = 0
    BY DEF OrderedButRereading
  <2>1. ASSUME NEW prog \in {s, t}, NEW k \in 1..Len(prog), Inside(i, prog, k)
        PROVE  \A l \in {P[i].lock} \cup (IF P[i].lock = "cache" THEN {"labels"} ELSE {}) :
                 ReadDepth(P, i, l) = 0 /\ WriteDepth(P, i, l) = 0
    <3>1. prog[k] \in Operation
      BY <1>1
    <3>2. ~Rereads(prog, k)
      <4>1. "cache" \in Locks
        BY DEF Locks
      <4> QED BY <2>1, <4>1 DEF Rereads
    <3>3. \A l \in {prog[k].lock} \cup (IF prog[k].lock = "cache" THEN {"labels"} ELSE {}) :
            ReadDepth(prog, k, l) = 0 /\ WriteDepth(prog, k, l) = 0
      BY <1>10, <2>1, <3>2 DEF OrderedButRereading
    <3>4. \A l \in {prog[k].lock} \cup (IF prog[k].lock = "cache" THEN {"labels"} ELSE {}) : l \in Locks
      BY <3>1 DEF Operation, Locks
    <3> QED BY <2>1, <3>3, <3>4
  <2> HIDE DEF Inside
  <2> QED BY <1>6, <2>1
<1> QED BY <1>8, <1>9, <1>10 DEF P

LEMMA EmptyProgram == WellLocked(<<>>) /\ Ordered(<<>>) /\ OrderedButRereading(<<>>)
<1>1. PICK prog : prog = <<>>
  OBVIOUS
<1>2. prog \in Seq(Operation) /\ Len(prog) = 0
  BY <1>1
<1>3. \A i \in 1..(Len(prog) + 1) : i = 1
  BY <1>2
<1>4. WellLocked(prog)
  BY <1>2, <1>3, DepthsFirst DEF WellLocked
<1>5. Ordered(prog) /\ OrderedButRereading(prog)
  BY <1>2 DEF Ordered, OrderedButRereading
<1> QED BY <1>1, <1>4, <1>5

(* The functions of handlers.go, labels.go and protected.go.               *)
LEMMA ReadersCorrect ==
  /\ Correct(GetAppStatusCache) /\ Correct(GetLocationCache) /\ Correct(IsAppStatusCacheEmpty)
  /\ Correct(FindAppsByLabels) /\ Correct(convertToHandlersLocation) /\ Correct(GetLabelsWithAuthz)
<1>1. /\ \A x \in {"appStatusCache"} : GuardOf(x) = "cache"
      /\ \A x \in {"locationCache"} : GuardOf(x) = "cache"
      /\ \A x \in {"appsByField"} : GuardOf(x) = "labels"
  BY DEF GuardOf
<1>2. /\ Correct(ReadSection("cache", {"appStatusCache"})) /\ Correct(ReadSection("cache", {"locationCache"}))
      /\ Correct(ReadSection("labels", {"appsByField"}))
  BY <1>1, LocksAndStructures, ReadSectionCorrect
<1> QED BY <1>2 DEF GetAppStatusCache, GetLocationCache, IsAppStatusCacheEmpty, FindAppsByLabels,
                    convertToHandlersLocation, GetLabelsWithAuthz

(* GetLocationsWithStatus has its read lock twice for a while, which is    *)
(* well locked and out of order.                                           *)
LEMMA GetLocationsWithStatusWellLocked ==
  WellLocked(GetLocationsWithStatus) /\ OrderedButRereading(GetLocationsWithStatus)
<1> DEFINE P == GetLocationsWithStatus
           apps == Reads({"appStatusCache"})
           places == Reads({"locationCache"})
           o1 == Op("RLock", "cache", {})
           o2 == Op("RUnlock", "cache", apps)
           o3 == Op("RUnlock", "cache", places)
<1>1. P = <<o1>> \o <<o1, o2>> \o <<o3>>
  BY DEF GetLocationsWithStatus, GetAppStatusCache, ReadSection
<1>2. o1 \in Operation /\ o2 \in Operation /\ o3 \in Operation
  BY OperationsOf, UsesOf, NothingUsed, LocksAndStructures
<1> HIDE DEF o1, o2, o3, P
<1>3. PICK first : first = <<o1>> \o <<o1, o2>>
  OBVIOUS
<1>4. PICK last : last = <<o3>>
  OBVIOUS
<1>5. /\ first \in Seq(Operation) /\ Len(first) = 3
      /\ first[1] = o1 /\ first[2] = o1 /\ first[3] = o2
  <2>1. PICK inner : inner = <<o1, o2>>
    OBVIOUS
  <2>2. inner \in Seq(Operation) /\ Len(inner) = 2 /\ inner[1] = o1 /\ inner[2] = o2
    BY <1>2, <2>1
  <2>3. first = <<o1>> \o inner
    BY <1>3, <2>1
  <2>4. /\ first \in Seq(Operation) /\ Len(first) = 3 /\ first[1] = o1
        /\ first[1 + 1] = inner[1] /\ first[2 + 1] = inner[2]
    BY <1>2, <2>2, <2>3, FirstOf
  <2> QED BY <2>2, <2>4
<1>6. /\ P \in Seq(Operation) /\ Len(P) = 4
      /\ P[1] = o1 /\ P[2] = o1 /\ P[3] = o2 /\ P[4] = o3
  <2>1. last \in Seq(Operation) /\ Len(last) = 1 /\ last[1] = o3
    BY <1>2, <1>4
  <2>2. P = first \o last
    BY <1>1, <1>3, <1>4
  <2>3. /\ P \in Seq(Operation) /\ Len(P) = Len(first) + Len(last)
        /\ \A i \in 1..(Len(first) + Len(last)) : P[i] = IF i <= Len(first) THEN first[i] ELSE last[i - Len(first)]
    BY <1>5, <2>1, <2>2, ConcatProperties
  <2>4. Len(first) + Len(last) = 4 /\ 4 - Len(first) = 1
    BY <1>5, <2>1
  <2> QED BY <1>5, <2>1, <2>3, <2>4
<1>7. /\ P[1].op = "RLock" /\ P[1].lock = "cache" /\ P[1].uses = {}
      /\ P[2].op = "RLock" /\ P[2].lock = "cache" /\ P[2].uses = {}
      /\ P[3].op = "RUnlock" /\ P[3].lock = "cache" /\ P[3].uses = apps
      /\ P[4].op = "RUnlock" /\ P[4].lock = "cache" /\ P[4].uses = places
  BY <1>6 DEF Op, o1, o2, o3
<1>8. Depths(P, 1, "cache", 0, 0) /\ Depths(P, 1, "labels", 0, 0)
  BY DepthsStart
<1>9. Depths(P, 2, "cache", 1, 0) /\ Depths(P, 2, "labels", 0, 0)
  <2>1. P[1].op = "RLock" /\ P[1].lock = "cache"
    BY <1>7
  <2>2. Depths(P, 2, "cache", 1, 0)
    BY <1>8, <2>1, DepthsStep
  <2>3. Depths(P, 2, "labels", 0, 0)
    BY <1>8, <2>1, DepthsStep
  <2> QED BY <2>2, <2>3
<1>10. Depths(P, 3, "cache", 2, 0) /\ Depths(P, 3, "labels", 0, 0)
  <2>1. P[2].op = "RLock" /\ P[2].lock = "cache"
    BY <1>7
  <2>2. Depths(P, 3, "cache", 2, 0)
    BY <1>9, <2>1, DepthsStep
  <2>3. Depths(P, 3, "labels", 0, 0)
    BY <1>9, <2>1, DepthsStep
  <2> QED BY <2>2, <2>3
<1>11. Depths(P, 4, "cache", 1, 0) /\ Depths(P, 4, "labels", 0, 0)
  <2>1. P[3].op = "RUnlock" /\ P[3].lock = "cache"
    BY <1>7
  <2>2. Depths(P, 4, "cache", 1, 0)
    BY <1>10, <2>1, DepthsStep
  <2>3. Depths(P, 4, "labels", 0, 0)
    BY <1>10, <2>1, DepthsStep
  <2> QED BY <2>2, <2>3
<1>12. Depths(P, 5, "cache", 0, 0) /\ Depths(P, 5, "labels", 0, 0)
  <2>1. P[4].op = "RUnlock" /\ P[4].lock = "cache"
    BY <1>7
  <2>2. Depths(P, 5, "cache", 0, 0)
    BY <1>11, <2>1, DepthsStep
  <2>3. Depths(P, 5, "labels", 0, 0)
    BY <1>11, <2>1, DepthsStep
  <2> QED BY <2>2, <2>3
<1>13. \A i \in 1..(Len(P) + 1) : i \in {1, 2, 3, 4, 5}
  BY <1>6
<1>14. \A i \in 1..(Len(P) + 1), m \in Locks : ReadDepth(P, i, m) >= 0 /\ WriteDepth(P, i, m) \in {0, 1}
  BY <1>8, <1>9, <1>10, <1>11, <1>12, <1>13 DEF Depths, Locks
<1>15. \A m \in Locks : ReadDepth(P, Len(P) + 1, m) = 0 /\ WriteDepth(P, Len(P) + 1, m) = 0
  BY <1>6, <1>12 DEF Depths, Locks
<1>16. \A x \in apps \cup places : ~x.write /\ GuardOf(x.structure) = "cache"
  BY DEF Reads, GuardOf
<1>17. \A i \in 1..Len(P) : \A x \in P[i].uses : i \in {3, 4} /\ ~x.write /\ GuardOf(x.structure) = "cache"
  <2> HIDE DEF apps, places
  <2>1. \A i \in 1..Len(P) : i \in {1, 2, 3, 4}
    BY <1>6
  <2> QED BY <1>7, <1>16, <2>1
<1>18. \A i \in 1..Len(P) : \A x \in P[i].uses :
         \/ WriteDepth(P, i, GuardOf(x.structure)) = 1
         \/ ~x.write /\ ReadDepth(P, i, GuardOf(x.structure)) > 0
  BY <1>10, <1>11, <1>17 DEF Depths
<1>19. OrderedButRereading(P)
  <2>1. \A i \in 1..Len(P) : P[i].op \in {"RLock", "Lock"} => i = 1 \/ i = 2
    BY <1>6, <1>7, <1>13
  <2>2. Rereads(P, 2)
    BY <1>7, <1>9 DEF Rereads, Depths
  <2>3. \A l \in {"cache", "labels"} : ReadDepth(P, 1, l) = 0 /\ WriteDepth(P, 1, l) = 0
    BY <1>8 DEF Depths
  <2> QED BY <1>7, <2>1, <2>2, <2>3 DEF OrderedButRereading
<1> QED BY <1>6, <1>14, <1>15, <1>18, <1>19 DEF WellLocked, P

(* With a lookup in the index, or without.                                 *)
LEMMA FilteringCorrect == \A f \in filterApps : Correct(f)
<1>1. Correct(FindAppsByLabels)
  BY ReadersCorrect
<1>2. Correct(<<>>)
  BY EmptyProgram DEF Correct
<1> QED BY <1>1, <1>2 DEF filterApps

LEMMA ServerPrograms ==
  \A prog \in ScraperPrograms \cup HandlerPrograms :
    WellLocked(prog) /\ OrderedButRereading(prog) /\ (prog \notin LocationsPrograms => Ordered(prog))
<1>1. Correct(UpdateAppStatus \o UpdateLocationCache)
  BY UpdateAppStatusCorrect, UpdateLocationCacheCorrect, Composed DEF Correct
<1>2. ASSUME NEW f \in filterApps PROVE Correct(GetAppsWithAuthz(f))
  <2>1. Correct(GetAppStatusCache) /\ Correct(f)
    BY FilteringCorrect, ReadersCorrect
  <2> QED BY <2>1, Composed DEF Correct, GetAppsWithAuthz
<1>3. ASSUME NEW f \in filterApps PROVE Correct(HandleSyncRequest(f))
  <2>1. Correct(GetAppStatusCache \o GetLocationCache)
    BY ReadersCorrect, Composed DEF Correct
  <2>2. Correct(f)
    BY FilteringCorrect
  <2>3. Correct((GetAppStatusCache \o GetLocationCache) \o f)
    BY <2>1, <2>2, Composed DEF Correct
  <2> QED BY <2>3, ReadersCorrect, Composed DEF Correct, HandleSyncRequest
<1>0. \A prog : Ordered(prog) => OrderedButRereading(prog)
  BY DEF Ordered, OrderedButRereading
<1>4. ASSUME NEW f \in filterApps
      PROVE  WellLocked(GetLocationsWithAuthz(f)) /\ OrderedButRereading(GetLocationsWithAuthz(f))
  <2>1. WellLocked(GetAppStatusCache \o f) /\ OrderedButRereading(GetAppStatusCache \o f)
    BY <1>0, FilteringCorrect, ReadersCorrect, Composed DEF Correct
  <2>2. /\ WellLocked((GetAppStatusCache \o f) \o GetLocationsWithStatus)
        /\ OrderedButRereading((GetAppStatusCache \o f) \o GetLocationsWithStatus)
    BY <2>1, GetLocationsWithStatusWellLocked, Composed
  <2>3. WellLocked(convertToHandlersLocation) /\ OrderedButRereading(convertToHandlersLocation)
    BY <1>0, ReadersCorrect DEF Correct
  <2> QED BY <2>2, <2>3, Composed DEF GetLocationsWithAuthz
<1>5. \A prog \in LocationsPrograms : WellLocked(prog) /\ OrderedButRereading(prog)
  BY <1>4 DEF LocationsPrograms
<1>6. \A prog \in OtherPrograms : Correct(prog)
  BY <1>2, <1>3, ReadersCorrect DEF OtherPrograms
<1>7. \A prog \in ScraperPrograms : Correct(prog)
  BY <1>1 DEF ScraperPrograms
<1> QED BY <1>0, <1>5, <1>6, <1>7 DEF Correct, HandlerPrograms

(* A program, or none.                                                     *)
LEMMA Programmed ==
  ASSUME LockAssumption, NEW p \in Procs, NEW prog \in Programs[p] \cup {<<>>}
  PROVE  WellLocked(prog)
<1>1. CASE prog \in Programs[p]
  BY <1>1, ServerPrograms DEF LockAssumption
<1>2. CASE prog = <<>>
  BY <1>2, EmptyProgram
<1> QED BY <1>1, <1>2

-----------------------------------------------------------------------------
(* Lemmas about a goroutine in its program.                                *)

Positioned(p) ==
  \E prog \in Programs[p] \cup {<<>>} : \E i \in 1..(Len(prog) + 1) : Place(p, prog, i)

AtOperation(p, prog, i, kind, l) ==
  /\ WellLocked(prog) /\ Place(p, prog, i)
  /\ i + 1 \in 1..(Len(prog) + 1) /\ i \in Nat \ {0}
  /\ prog[i] \in Operation /\ prog[i].op = kind /\ prog[i].lock = l
  /\ Tail(todo[p]) = Rest(prog, i + 1)

(* A goroutine at a lock operation is at one of its program's.             *)
LEMMA AtPosition ==
  ASSUME LockAssumption, LockInv, NEW p \in Procs, NEW kind, NEW l \in Locks, HeadIs(todo[p], kind, l)
  PROVE  \E prog \in Programs[p] \cup {<<>>} : \E i \in 1..Len(prog) : AtOperation(p, prog, i, kind, l)
<1> PICK prog \in Programs[p] \cup {<<>>} : \E i \in 1..(Len(prog) + 1) : Place(p, prog, i)
  BY DEF LockInv, Placed
<1> PICK i \in 1..(Len(prog) + 1) : Place(p, prog, i)
  OBVIOUS
<1>1. WellLocked(prog) /\ prog \in Seq(Operation)
  BY Programmed DEF WellLocked
<1>2. todo[p] = Rest(prog, i) /\ Rest(prog, i) # <<>>
  BY DEF Place, HeadIs
<1>3. i <= Len(prog) /\ i \in Nat \ {0} /\ i \in 1..Len(prog)
  BY <1>1, <1>2, RestNext
<1>4. /\ i + 1 \in 1..(Len(prog) + 1) /\ prog[i] \in Operation
      /\ Head(todo[p]) = prog[i] /\ Tail(todo[p]) = Rest(prog, i + 1)
  BY <1>1, <1>2, <1>3, RestNext
<1>5. AtOperation(p, prog, i, kind, l)
  BY <1>1, <1>3, <1>4 DEF HeadIs, AtOperation
<1> QED BY <1>3, <1>5

(* Read locks are counted from zero.                                       *)
LEMMA HoldsNat ==
  ASSUME LockAssumption, LockInv, NEW p \in Procs, NEW l \in Locks
  PROVE  holds[l][p] \in Nat
<1> PICK prog \in Programs[p] \cup {<<>>} : \E i \in 1..(Len(prog) + 1) : Place(p, prog, i)
  BY DEF LockInv, Placed
<1> PICK i \in 1..(Len(prog) + 1) : Place(p, prog, i)
  OBVIOUS
<1>1. ReadDepth(prog, i, l) >= 0
  BY Programmed DEF WellLocked
<1>2. holds[l][p] = ReadDepth(prog, i, l) /\ holds[l][p] \in Int
  BY DEF Place, LockInv, LockTypeOK
<1> QED BY <1>1, <1>2

(* Who releases a lock has it, and nobody takes a write lock twice.        *)
LEMMA HoldsAtOperation ==
  ASSUME LockAssumption, LockInv, NEW p \in Procs, NEW l \in Locks
  PROVE  /\ HeadIs(todo[p], "RUnlock", l) => holds[l][p] > 0
         /\ HeadIs(todo[p], "Lock", l) => ~WritesUnder(p, l)
         /\ HeadIs(todo[p], "Unlock", l) => WritesUnder(p, l)
<1>1. ASSUME NEW kind \in {"RUnlock", "Lock", "Unlock"}, HeadIs(todo[p], kind, l)
      PROVE  /\ kind = "RUnlock" => holds[l][p] > 0
             /\ kind = "Lock" => ~WritesUnder(p, l)
             /\ kind = "Unlock" => WritesUnder(p, l)
  <2> PICK prog \in Programs[p] \cup {<<>>} : \E i \in 1..Len(prog) : AtOperation(p, prog, i, kind, l)
    BY <1>1, AtPosition
  <2> PICK i \in 1..Len(prog) : AtOperation(p, prog, i, kind, l)
    OBVIOUS
  <2>   /\ WellLocked(prog) /\ Place(p, prog, i)
        /\ i + 1 \in 1..(Len(prog) + 1) /\ i \in Nat \ {0}
        /\ prog[i] \in Operation /\ prog[i].op = kind /\ prog[i].lock = l
        /\ Tail(todo[p]) = Rest(prog, i + 1)
    BY DEF AtOperation
  <2>1. prog \in Seq(Operation) /\ Len(prog) \in Nat /\ i \in 1..(Len(prog) + 1)
    BY DEF WellLocked
  <2>2. /\ ReadDepth(prog, i, l) >= 0 /\ WriteDepth(prog, i, l) \in {0, 1}
        /\ ReadDepth(prog, i + 1, l) >= 0 /\ WriteDepth(prog, i + 1, l) \in {0, 1}
    BY <2>1 DEF WellLocked
  <2>3. /\ ReadDepth(prog, i, l) \in Int
        /\ kind = "RUnlock" => ReadDepth(prog, i + 1, l) = ReadDepth(prog, i, l) - 1
        /\ kind = "Lock" => WriteDepth(prog, i + 1, l) = WriteDepth(prog, i, l) + 1
        /\ kind = "Unlock" => WriteDepth(prog, i + 1, l) = WriteDepth(prog, i, l) - 1
    BY DepthsNext DEF Operation
  <2>4. /\ kind = "RUnlock" => ReadDepth(prog, i, l) > 0
        /\ kind = "Lock" => WriteDepth(prog, i, l) = 0
        /\ kind = "Unlock" => WriteDepth(prog, i, l) = 1
    BY <2>2, <2>3
  <2> QED BY <2>4 DEF Place
<1> QED BY <1>1

(* A goroutine that does its operation moves to the next position, if its  *)
(* locks move with it ...                                                  *)
LEMMA Advances ==
  ASSUME LockAssumption, LockInv, NEW p \in Procs, NEW l \in Locks,
         NEW kind \in {"RLock", "RUnlock", "Lock", "Unlock"}, HeadIs(todo[p], kind, l),
         todo'[p] = Tail(todo[p]),
         \A m \in Locks : m # l => holds'[m][p] = holds[m][p] /\ (WritesUnder(p, m)' <=> WritesUnder(p, m)),
         holds'[l][p] = holds[l][p]
           + (CASE kind = "RLock" -> 1 [] kind = "RUnlock" -> -1 [] OTHER -> 0),
         WritesUnder(p, l)' <=> (kind = "Lock" \/ (kind # "Unlock" /\ WritesUnder(p, l)))
  PROVE  Positioned(p)'
<1> PICK prog \in Programs[p] \cup {<<>>} : \E i \in 1..Len(prog) : AtOperation(p, prog, i, kind, l)
  BY AtPosition
<1> PICK i \in 1..Len(prog) : AtOperation(p, prog, i, kind, l)
  OBVIOUS
<1>   /\ WellLocked(prog) /\ Place(p, prog, i)
      /\ i + 1 \in 1..(Len(prog) + 1) /\ i \in Nat \ {0}
      /\ prog[i] \in Operation /\ prog[i].op = kind /\ prog[i].lock = l
      /\ Tail(todo[p]) = Rest(prog, i + 1)
  BY DEF AtOperation
<1>1. prog \in Seq(Operation) /\ Len(prog) \in Nat /\ i \in 1..(Len(prog) + 1)
  BY DEF WellLocked
<1>2. \A m \in Locks : WriteDepth(prog, i, m) \in {0, 1} /\ WriteDepth(prog, i + 1, m) \in {0, 1}
  BY <1>1 DEF WellLocked
<1>3. \A m \in Locks : m # l =>
        /\ ReadDepth(prog, i + 1, m) = ReadDepth(prog, i, m)
        /\ WriteDepth(prog, i + 1, m) = WriteDepth(prog, i, m)
  BY DepthsNext
<1>4. /\ ReadDepth(prog, i + 1, l) = ReadDepth(prog, i, l)
           + (CASE kind = "RLock" -> 1 [] kind = "RUnlock" -> -1 [] OTHER -> 0)
      /\ WriteDepth(prog, i + 1, l) = WriteDepth(prog, i, l)
           + (CASE kind = "Lock" -> 1 [] kind = "Unlock" -> -1 [] OTHER -> 0)
  BY DepthsNext
<1>5. \A m \in Locks : holds'[m][p] = ReadDepth(prog, i + 1, m)
  BY <1>3, <1>4 DEF Place
<1>6. WriteDepth(prog, i + 1, l) = 1 <=> (kind = "Lock" \/ (kind # "Unlock" /\ WriteDepth(prog, i, l) = 1))
  BY <1>2, <1>4
<1>7. \A m \in Locks : WriteDepth(prog, i + 1, m) = 1 <=> WritesUnder(p, m)'
  <2> TAKE m \in Locks
  <2>1. WriteDepth(prog, i, m) = 1 <=> WritesUnder(p, m)
    BY DEF Place
  <2>2. CASE m = l
    BY <1>6, <2>1, <2>2
  <2>3. CASE m # l
    BY <1>3, <2>1, <2>3
  <2> QED BY <2>2, <2>3
<1>8. Place(p, prog, i + 1)'
  BY <1>5, <1>7 DEF Place
<1> QED BY <1>8 DEF Positioned

(* ... and one whose locks stay where they are stays.                      *)
LEMMA Remains ==
  ASSUME LockInv, NEW p \in Procs, todo'[p] = todo[p],
         \A m \in Locks : holds'[m][p] = holds[m][p] /\ (WritesUnder(p, m)' <=> WritesUnder(p, m))
  PROVE  Positioned(p)'
<1> PICK prog \in Programs[p] \cup {<<>>} : \E i \in 1..(Len(prog) + 1) : Place(p, prog, i)
  BY DEF LockInv, Placed
<1> PICK i \in 1..(Len(prog) + 1) : Place(p, prog, i)
  OBVIOUS
<1>1. Place(p, prog, i)'
  BY DEF Place
<1> QED BY <1>1 DEF Positioned

(* The rest of a program is one of its operations shorter.                 *)
LEMMA TailTyped ==
  ASSUME LockTypeOK, NEW p \in Procs, todo[p] # <<>>
  PROVE  Tail(todo[p]) \in Seq(Operation)
BY DEF LockTypeOK

-----------------------------------------------------------------------------
(* Every step keeps the invariant.                                         *)

LEMMA StartPreserves ==
  ASSUME LockAssumption, LockInv, NEW p \in Procs, Start(p)
  PROVE  LockInv'
<1> PICK prog \in Programs[p] : todo' = [todo EXCEPT ![p] = prog]
  BY DEF Start
<1>1. todo[p] = <<>> /\ UNCHANGED <<holds, waiting, announced, writing>>
  BY DEF Start
<1>2. WellLocked(prog) /\ prog \in Seq(Operation)
  BY Programmed DEF WellLocked
<1>3. \A q \in Procs : todo'[q] = IF q = p THEN prog ELSE todo[q]
  BY DEF LockInv, LockTypeOK
<1>4. LockTypeOK'
  BY <1>1, <1>2 DEF LockInv, LockTypeOK
<1>5. ASSUME NEW q \in Procs, q # p PROVE Positioned(q)'
  BY <1>1, <1>3, <1>5, Remains DEF WritesUnder
<1>6. Positioned(p)'
  <2> PICK before \in Programs[p] \cup {<<>>} : \E i \in 1..(Len(before) + 1) : Place(p, before, i)
    BY DEF LockInv, Placed
  <2> PICK i \in 1..(Len(before) + 1) : Place(p, before, i)
    OBVIOUS
  <2>1. WellLocked(before) /\ before \in Seq(Operation) /\ Len(before) \in Nat
    BY Programmed DEF WellLocked
  <2>2. i = Len(before) + 1
    <3>1. ~(i <= Len(before))
      BY <1>1, <2>1, RestNext DEF Place
    <3> QED BY <2>1, <3>1
  <2>3. \A l \in Locks : holds[l][p] = 0 /\ ~WritesUnder(p, l)
    BY <2>1, <2>2 DEF WellLocked, Place
  <2>4. \A l \in Locks : ReadDepth(prog, 1, l) = 0 /\ WriteDepth(prog, 1, l) = 0
    <3> TAKE l \in Locks
    <3>1. \A kind : {j \in 1..(1 - 1) : prog[j].op = kind /\ prog[j].lock = l} = {}
      OBVIOUS
    <3>2. \A kind : Before(prog, 1, kind, l) = 0
      BY <3>1, FS_EmptySet DEF Before
    <3> QED BY <3>2 DEF ReadDepth, WriteDepth
  <2>5. Rest(prog, 1) = prog
    BY <1>2 DEF Rest
  <2>6. 1 \in 1..(Len(prog) + 1)
    BY <1>2
  <2>7. \A l \in Locks : holds'[l][p] = 0 /\ ~WritesUnder(p, l)'
    BY <1>1, <2>3 DEF WritesUnder
  <2>8. Place(p, prog, 1)'
    BY <1>3, <2>4, <2>5, <2>7 DEF Place
  <2> QED BY <2>6, <2>8 DEF Positioned
<1>7. Placed'
  BY <1>5, <1>6 DEF Placed, Positioned
<1>8. \A q \in Procs : \A kind, l : HeadIs(todo[q], kind, l) => HeadIs(todo'[q], kind, l)
  BY <1>1, <1>3 DEF HeadIs
<1>9. WriterAlone' /\ AnnouncedAtLock' /\ WaitingAtRLock'
  BY <1>1, <1>8 DEF LockInv, WriterAlone, AnnouncedAtLock, WaitingAtRLock
<1> QED BY <1>4, <1>7, <1>9 DEF LockInv

LEMMA RLockPreserves ==
  ASSUME LockAssumption, LockInv, NEW p \in Procs, NEW l \in Locks, RLock(p, l)
  PROVE  LockInv'
<1>1. HeadIs(todo[p], "RLock", l) /\ announced[l] = NoProc /\ UNCHANGED <<waiting, announced, writing>>
  BY DEF RLock, At, HeadIs
<1>2. \A m \in Locks, q \in Procs :
        holds'[m][q] = IF m = l /\ q = p THEN holds[m][q] + 1 ELSE holds[m][q]
  BY DEF RLock, LockInv, LockTypeOK
<1>3. \A q \in Procs : todo'[q] = IF q = p THEN Tail(todo[q]) ELSE todo[q]
  BY DEF RLock, Advance
<1>4. ~writing[l]
  BY <1>1 DEF LockInv, WriterAlone, LockAssumption
<1>5. LockTypeOK'
  <2>1. Tail(todo[p]) \in Seq(Operation)
    BY <1>1, TailTyped DEF HeadIs, LockInv
  <2>2. todo' \in [Procs -> Seq(Operation)]
    BY <2>1 DEF RLock, Advance, LockInv, LockTypeOK
  <2>3. holds' \in [Locks -> [Procs -> Int]]
    <3>1. holds[l] \in [Procs -> Int] /\ [holds[l] EXCEPT ![p] = @ + 1] \in [Procs -> Int]
      BY DEF LockInv, LockTypeOK
    <3>2. holds' = [holds EXCEPT ![l] = [holds[l] EXCEPT ![p] = @ + 1]]
      BY DEF RLock
    <3> QED BY <3>1, <3>2 DEF LockInv, LockTypeOK
  <2> QED BY <1>1, <2>2, <2>3 DEF LockInv, LockTypeOK
<1>6. Placed'
  <2>1. \A m \in Locks, q \in Procs : WritesUnder(q, m)' <=> WritesUnder(q, m)
    BY <1>1 DEF WritesUnder
  <2>2. ASSUME NEW q \in Procs, q # p PROVE Positioned(q)'
    BY <1>2, <1>3, <2>1, <2>2, Remains
  <2>3. Positioned(p)'
    <3>1. holds'[l][p] = holds[l][p] + 1 /\ todo'[p] = Tail(todo[p])
      BY <1>2, <1>3
    <3>2. \A m \in Locks : m # l => holds'[m][p] = holds[m][p]
      BY <1>2
    <3> QED BY <1>1, <2>1, <3>1, <3>2, Advances
  <2> QED BY <2>2, <2>3 DEF Placed, Positioned
<1>7. WriterAlone'
  BY <1>1, <1>2, <1>4 DEF LockInv, WriterAlone
<1>8. AnnouncedAtLock' /\ WaitingAtRLock'
  BY <1>1, <1>3 DEF LockInv, AnnouncedAtLock, WaitingAtRLock, HeadIs, RLock, At
<1> QED BY <1>5, <1>6, <1>7, <1>8 DEF LockInv

LEMMA RLockWaitsPreserves ==
  ASSUME LockAssumption, LockInv, NEW p \in Procs, NEW l \in Locks, RLockWaits(p, l)
  PROVE  LockInv'
<1>1. HeadIs(todo[p], "RLock", l) /\ announced[l] # NoProc /\ UNCHANGED <<todo, holds, announced, writing>>
  BY DEF RLockWaits, At, HeadIs
<1>2. waiting' \in [Locks -> SUBSET Procs]
      /\ \A m \in Locks : waiting'[m] = IF m = l THEN waiting[l] \cup {p} ELSE waiting[m]
  BY DEF RLockWaits, LockInv, LockTypeOK
<1>3. LockTypeOK'
  BY <1>1, <1>2 DEF LockInv, LockTypeOK
<1>4. Placed'
  BY <1>1 DEF LockInv, Placed, Place, WritesUnder
<1>5. WriterAlone' /\ AnnouncedAtLock'
  BY <1>1 DEF LockInv, WriterAlone, AnnouncedAtLock
<1>6. WaitingAtRLock'
  BY <1>1, <1>2 DEF LockInv, LockTypeOK, WaitingAtRLock
<1> QED BY <1>3, <1>4, <1>5, <1>6 DEF LockInv

LEMMA RUnlockPreserves ==
  ASSUME LockAssumption, LockInv, NEW p \in Procs, NEW l \in Locks, RUnlock(p, l)
  PROVE  LockInv'
<1>1. HeadIs(todo[p], "RUnlock", l) /\ UNCHANGED <<waiting, announced, writing>>
  BY DEF RUnlock, At, HeadIs
<1>2. \A m \in Locks, q \in Procs :
        holds'[m][q] = IF m = l /\ q = p THEN holds[m][q] - 1 ELSE holds[m][q]
  BY DEF RUnlock, LockInv, LockTypeOK
<1>3. \A q \in Procs : todo'[q] = IF q = p THEN Tail(todo[q]) ELSE todo[q]
  BY DEF RUnlock, Advance
<1>4. ~writing[l]
  <2>1. holds[l][p] > 0 /\ holds[l][p] # 0
    BY <1>1, HoldsAtOperation, HoldsNat
  <2> QED BY <2>1 DEF LockInv, WriterAlone
<1>5. LockTypeOK'
  <2>1. Tail(todo[p]) \in Seq(Operation)
    BY <1>1, TailTyped DEF HeadIs, LockInv
  <2>2. todo' \in [Procs -> Seq(Operation)]
    BY <2>1 DEF RUnlock, Advance, LockInv, LockTypeOK
  <2>3. holds' \in [Locks -> [Procs -> Int]]
    <3>1. holds[l] \in [Procs -> Int] /\ [holds[l] EXCEPT ![p] = @ - 1] \in [Procs -> Int]
      BY DEF LockInv, LockTypeOK
    <3>2. holds' = [holds EXCEPT ![l] = [holds[l] EXCEPT ![p] = @ - 1]]
      BY DEF RUnlock
    <3> QED BY <3>1, <3>2 DEF LockInv, LockTypeOK
  <2> QED BY <1>1, <2>2, <2>3 DEF LockInv, LockTypeOK
<1>6. Placed'
  <2>1. \A m \in Locks, q \in Procs : WritesUnder(q, m)' <=> WritesUnder(q, m)
    BY <1>1 DEF WritesUnder
  <2>2. ASSUME NEW q \in Procs, q # p PROVE Positioned(q)'
    BY <1>2, <1>3, <2>1, <2>2, Remains
  <2>3. Positioned(p)'
    <3>1. holds'[l][p] = holds[l][p] + (-1) /\ todo'[p] = Tail(todo[p])
      BY <1>2, <1>3, HoldsNat
    <3>2. \A m \in Locks : m # l => holds'[m][p] = holds[m][p]
      BY <1>2
    <3> QED BY <1>1, <2>1, <3>1, <3>2, Advances
  <2> QED BY <2>2, <2>3 DEF Placed, Positioned
<1>7. WriterAlone'
  BY <1>1, <1>2, <1>4 DEF LockInv, WriterAlone
<1>8. AnnouncedAtLock' /\ WaitingAtRLock'
  BY <1>1, <1>3 DEF LockInv, AnnouncedAtLock, WaitingAtRLock, HeadIs, RUnlock, At
<1> QED BY <1>5, <1>6, <1>7, <1>8 DEF LockInv

LEMMA AnnouncePreserves ==
  ASSUME LockAssumption, LockInv, NEW p \in Procs, NEW l \in Locks, Announce(p, l)
  PROVE  LockInv'
<1>1. HeadIs(todo[p], "Lock", l) /\ announced[l] = NoProc /\ UNCHANGED <<todo, holds, waiting, writing>>
  BY DEF Announce, At, HeadIs
<1>2. announced' \in [Locks -> Procs \cup {NoProc}]
      /\ \A m \in Locks : announced'[m] = IF m = l THEN p ELSE announced[m]
  BY DEF Announce, LockInv, LockTypeOK
<1>3. ~writing[l]
  BY <1>1 DEF LockInv, WriterAlone, LockAssumption
<1>4. LockTypeOK'
  BY <1>1, <1>2 DEF LockInv, LockTypeOK
<1>5. \A m \in Locks, q \in Procs : WritesUnder(q, m)' <=> WritesUnder(q, m)
  BY <1>1, <1>2, <1>3 DEF WritesUnder
<1>6. Placed'
  BY <1>1, <1>5, Remains DEF Placed, Positioned
<1>7. WriterAlone' /\ AnnouncedAtLock' /\ WaitingAtRLock'
  BY <1>1, <1>2, <1>3 DEF LockInv, WriterAlone, AnnouncedAtLock, WaitingAtRLock
<1> QED BY <1>4, <1>6, <1>7 DEF LockInv

LEMMA LockPreserves ==
  ASSUME LockAssumption, LockInv, NEW p \in Procs, NEW l \in Locks, Lock(p, l)
  PROVE  LockInv'
<1>1. /\ HeadIs(todo[p], "Lock", l) /\ announced[l] = p /\ \A q \in Procs : holds[l][q] = 0
      /\ UNCHANGED <<holds, waiting, announced>>
  BY DEF Lock, At, HeadIs
<1>2. /\ writing' \in [Locks -> BOOLEAN]
      /\ \A m \in Locks : writing'[m] = IF m = l THEN TRUE ELSE writing[m]
  BY DEF Lock, LockInv, LockTypeOK
<1>3. \A q \in Procs : todo'[q] = IF q = p THEN Tail(todo[q]) ELSE todo[q]
  BY DEF Lock, Advance
<1>4. ~writing[l]
  BY <1>1, HoldsAtOperation DEF WritesUnder
<1>5. LockTypeOK'
  <2>1. Tail(todo[p]) \in Seq(Operation)
    BY <1>1, TailTyped DEF HeadIs, LockInv
  <2>2. todo' \in [Procs -> Seq(Operation)]
    BY <2>1 DEF Lock, Advance, LockInv, LockTypeOK
  <2> QED BY <1>1, <1>2, <2>2 DEF LockInv, LockTypeOK
<1>6. Placed'
  <2>1. \A m \in Locks, q \in Procs : m # l => (WritesUnder(q, m)' <=> WritesUnder(q, m))
    BY <1>1, <1>2 DEF WritesUnder
  <2>2. \A q \in Procs : q # p => (WritesUnder(q, l)' <=> WritesUnder(q, l))
    BY <1>1 DEF WritesUnder
  <2>3. ASSUME NEW q \in Procs, q # p PROVE Positioned(q)'
    BY <1>1, <1>3, <2>1, <2>2, <2>3, Remains
  <2>4. Positioned(p)'
    <3>1. WritesUnder(p, l)'
      BY <1>1, <1>2 DEF WritesUnder
    <3>2. todo'[p] = Tail(todo[p]) /\ holds'[l][p] = holds[l][p] + 0
      BY <1>1, <1>3, HoldsNat
    <3>3. \A m \in Locks : m # l => holds'[m][p] = holds[m][p]
      BY <1>1
    <3> QED BY <1>1, <2>1, <3>1, <3>2, <3>3, Advances
  <2> QED BY <2>3, <2>4 DEF Placed, Positioned
<1>7. WriterAlone'
  BY <1>1, <1>2 DEF LockInv, WriterAlone
<1>8. AnnouncedAtLock'
  <2> SUFFICES ASSUME NEW m \in Locks, NEW q \in Procs, announced'[m] = q, ~writing'[m]
               PROVE  HeadIs(todo'[q], "Lock", m)
    BY DEF AnnouncedAtLock
  <2>1. m # l /\ announced[m] = q /\ ~writing[m]
    BY <1>1, <1>2
  <2>2. HeadIs(todo[q], "Lock", m)
    BY <2>1 DEF LockInv, AnnouncedAtLock
  <2>3. q # p
    BY <1>1, <2>1, <2>2 DEF HeadIs
  <2> QED BY <1>3, <2>2, <2>3
<1>9. WaitingAtRLock'
  BY <1>1, <1>3 DEF LockInv, WaitingAtRLock, HeadIs
<1> QED BY <1>5, <1>6, <1>7, <1>8, <1>9 DEF LockInv

(* The writer leaves, and every reader that waited for it enters.          *)
LEMMA UnlockPreserves ==
  ASSUME LockAssumption, LockInv, NEW p \in Procs, NEW l \in Locks, Unlock(p, l)
  PROVE  LockInv'
<1>1. /\ HeadIs(todo[p], "Unlock", l) /\ p \notin waiting[l]
      /\ waiting[l] \subseteq Procs
  BY DEF Unlock, At, HeadIs, LockInv, LockTypeOK
<1>2. /\ writing' \in [Locks -> BOOLEAN]
      /\ \A m \in Locks : writing'[m] = IF m = l THEN FALSE ELSE writing[m]
      /\ announced' \in [Locks -> Procs \cup {NoProc}]
      /\ \A m \in Locks : announced'[m] = IF m = l THEN NoProc ELSE announced[m]
      /\ waiting' \in [Locks -> SUBSET Procs]
      /\ \A m \in Locks : waiting'[m] = IF m = l THEN {} ELSE waiting[m]
  BY DEF Unlock, LockInv, LockTypeOK
<1>3. \A m \in Locks, q \in Procs :
        holds'[m][q] = IF m = l /\ q \in waiting[l] THEN holds[m][q] + 1 ELSE holds[m][q]
  BY DEF Unlock, LockInv, LockTypeOK
<1>4. \A q \in Procs : todo'[q] = IF q = p \/ q \in waiting[l] THEN Tail(todo[q]) ELSE todo[q]
  BY DEF Unlock, Advance
<1>5. \A q \in waiting[l] : HeadIs(todo[q], "RLock", l)
  BY <1>1 DEF LockInv, WaitingAtRLock
<1>6. WritesUnder(p, l)
  BY <1>1, HoldsAtOperation
<1>7. LockTypeOK'
  <2>1. \A q \in Procs : q = p \/ q \in waiting[l] => Tail(todo[q]) \in Seq(Operation)
    BY <1>1, <1>5, TailTyped DEF HeadIs, LockInv
  <2>2. todo' \in [Procs -> Seq(Operation)]
    BY <1>4, <2>1 DEF Unlock, Advance, LockInv, LockTypeOK
  <2>3. holds' \in [Locks -> [Procs -> Int]]
    <3> DEFINE entered == [q \in Procs |-> IF q \in waiting[l] THEN holds[l][q] + 1 ELSE holds[l][q]]
    <3>1. entered \in [Procs -> Int]
      BY DEF LockInv, LockTypeOK
    <3>2. holds' = [holds EXCEPT ![l] = entered]
      BY DEF Unlock
    <3> HIDE DEF entered
    <3> QED BY <3>1, <3>2 DEF LockInv, LockTypeOK
  <2> QED BY <1>2, <2>2, <2>3 DEF LockTypeOK
<1>8. Placed'
  <2>1. \A m \in Locks, q \in Procs : m # l => (WritesUnder(q, m)' <=> WritesUnder(q, m))
    BY <1>2 DEF WritesUnder
  <2>2. \A q \in Procs : ~WritesUnder(q, l)' /\ (q # p => ~WritesUnder(q, l))
    BY <1>2, <1>6 DEF WritesUnder
  <2>3. ASSUME NEW q \in Procs, q # p, q \notin waiting[l] PROVE Positioned(q)'
    <3>1. \A m \in Locks : holds'[m][q] = holds[m][q] /\ todo'[q] = todo[q]
      BY <1>3, <1>4, <2>3
    <3>2. \A m \in Locks : WritesUnder(q, m)' <=> WritesUnder(q, m)
      BY <2>1, <2>2, <2>3
    <3> QED BY <1>4, <2>3, <3>1, <3>2, Remains
  <2>4. ASSUME NEW q \in waiting[l] PROVE Positioned(q)'
    <3>1. q \in Procs /\ q # p
      BY <1>1
    <3>2. holds'[l][q] = holds[l][q] + 1 /\ todo'[q] = Tail(todo[q])
      BY <1>3, <1>4, <3>1
    <3>3. \A m \in Locks : m # l => holds'[m][q] = holds[m][q]
      BY <1>3, <3>1
    <3> QED BY <1>5, <2>1, <2>2, <3>1, <3>2, <3>3, Advances
  <2>5. Positioned(p)'
    <3>1. holds'[l][p] = holds[l][p] + 0 /\ todo'[p] = Tail(todo[p])
      BY <1>1, <1>3, <1>4, HoldsNat
    <3>2. \A m \in Locks : m # l => holds'[m][p] = holds[m][p]
      BY <1>3
    <3> QED BY <1>1, <2>1, <2>2, <3>1, <3>2, Advances
  <2> QED BY <2>3, <2>4, <2>5 DEF Placed, Positioned
<1>9. WriterAlone'
  <2> SUFFICES ASSUME NEW m \in Locks, writing'[m]
               PROVE  announced'[m] \in Procs /\ \A q \in Procs : holds'[m][q] = 0
    BY DEF WriterAlone
  <2>1. m # l /\ writing[m] /\ announced'[m] = announced[m]
    BY <1>2
  <2>2. announced[m] \in Procs /\ \A q \in Procs : holds[m][q] = 0
    BY <2>1 DEF LockInv, WriterAlone
  <2> QED BY <1>3, <2>1, <2>2
<1>10. AnnouncedAtLock'
  <2> SUFFICES ASSUME NEW m \in Locks, NEW q \in Procs, announced'[m] = q, ~writing'[m]
               PROVE  HeadIs(todo'[q], "Lock", m)
    BY DEF AnnouncedAtLock
  <2>1. m # l /\ announced[m] = q /\ ~writing[m]
    BY <1>2 DEF LockAssumption
  <2>2. HeadIs(todo[q], "Lock", m)
    BY <2>1 DEF LockInv, AnnouncedAtLock
  <2>3. q # p /\ q \notin waiting[l]
    BY <1>1, <1>5, <2>2 DEF HeadIs
  <2> QED BY <1>4, <2>2, <2>3
<1>11. WaitingAtRLock'
  BY <1>1, <1>2, <1>4, <1>5 DEF LockInv, WaitingAtRLock, HeadIs
<1> QED BY <1>7, <1>8, <1>9, <1>10, <1>11 DEF LockInv

(* In the beginning nobody runs anything and every lock is free.           *)
LEMMA LockInvInit == ASSUME LockAssumption, Init PROVE LockInv
<1>1. LockTypeOK
  BY DEF Init, LockTypeOK
<1>2. Placed
  <2> SUFFICES ASSUME NEW p \in Procs PROVE Place(p, <<>>, 1)
    <3>1. Len(<<>>) = 0 /\ 1 \in 1..(0 + 1)
      OBVIOUS
    <3> QED BY <3>1 DEF Placed
  <2>1. Rest(<<>>, 1) = <<>>
    BY DEF Rest
  <2>2. \A l \in Locks : ~WritesUnder(p, l) /\ holds[l][p] = 0
    BY DEF Init, WritesUnder
  <2> QED BY <2>1, <2>2, DepthsFirst DEF Init, Place
<1>3. WriterAlone /\ WaitingAtRLock
  BY DEF Init, WriterAlone, WaitingAtRLock
<1>4. AnnouncedAtLock
  BY DEF Init, AnnouncedAtLock, LockAssumption
<1> QED BY <1>1, <1>2, <1>3, <1>4 DEF LockInv

LEMMA LockInvNext ==
  ASSUME LockAssumption, LockInv, [Next]_lockVars
  PROVE  LockInv'
<1>1. CASE UNCHANGED lockVars
  BY <1>1 DEF lockVars, LockInv, LockTypeOK, Placed, Place, WritesUnder, WriterAlone,
              AnnouncedAtLock, WaitingAtRLock
<1>2. ASSUME NEW p \in Procs, Start(p) PROVE LockInv'
  BY <1>2, StartPreserves
<1>3. ASSUME NEW p \in Procs, NEW l \in Locks, RLock(p, l) PROVE LockInv'
  BY <1>3, RLockPreserves
<1>4. ASSUME NEW p \in Procs, NEW l \in Locks, RLockWaits(p, l) PROVE LockInv'
  BY <1>4, RLockWaitsPreserves
<1>5. ASSUME NEW p \in Procs, NEW l \in Locks, RUnlock(p, l) PROVE LockInv'
  BY <1>5, RUnlockPreserves
<1>6. ASSUME NEW p \in Procs, NEW l \in Locks, Announce(p, l) PROVE LockInv'
  BY <1>6, AnnouncePreserves
<1>7. ASSUME NEW p \in Procs, NEW l \in Locks, Lock(p, l) PROVE LockInv'
  BY <1>7, LockPreserves
<1>8. ASSUME NEW p \in Procs, NEW l \in Locks, Unlock(p, l) PROVE LockInv'
  BY <1>8, UnlockPreserves
<1> QED BY <1>1, <1>2, <1>3, <1>4, <1>5, <1>6, <1>7, <1>8 DEF Next, Step

(***************************************************************************)
(* Every goroutine is somewhere in one of its programs, with just the      *)
(* locks of that place, and a writer is alone under its lock (cacheMutex,  *)
(* the label manager's mutex).                                             *)
(***************************************************************************)
THEOREM LockInvCorrect == Spec => []LockInv
BY LockAssumption, LockInvInit, LockInvNext, PTL DEF Spec

-----------------------------------------------------------------------------
(* What a goroutine accesses is covered by the lock of the structure.      *)
LEMMA UsesAreCovered ==
  ASSUME LockAssumption, LockInv, NEW p \in Procs, NEW x \in Using(p)
  PROVE  /\ GuardOf(x.structure) \in Locks
         /\ \/ WritesUnder(p, GuardOf(x.structure))
            \/ ~x.write /\ holds[GuardOf(x.structure)][p] > 0
<1>1. todo[p] # <<>> /\ x \in Head(todo[p]).uses
  BY DEF Using
<1> PICK prog \in Programs[p] \cup {<<>>} : \E i \in 1..(Len(prog) + 1) : Place(p, prog, i)
  BY DEF LockInv, Placed
<1> PICK i \in 1..(Len(prog) + 1) : Place(p, prog, i)
  OBVIOUS
<1>2. WellLocked(prog) /\ prog \in Seq(Operation)
  BY Programmed DEF WellLocked
<1>3. i \in 1..Len(prog) /\ Head(todo[p]) = prog[i]
  BY <1>1, <1>2, RestNext DEF Place
<1>4. GuardOf(x.structure) \in Locks
  BY DEF GuardOf, Locks
<1>5. \/ WriteDepth(prog, i, GuardOf(x.structure)) = 1
      \/ ~x.write /\ ReadDepth(prog, i, GuardOf(x.structure)) > 0
  BY <1>1, <1>2, <1>3 DEF WellLocked
<1> QED BY <1>4, <1>5 DEF Place

(***************************************************************************)
(* NoDataRace, for any number of scrapers and request handlers: nobody     *)
(* accesses a cache or the index while another goroutine writes it         *)
(* (handlers.go, labels.go, protected.go).                                 *)
(***************************************************************************)
THEOREM NoDataRaceCorrect == Spec => []NoDataRace
<1>1. ASSUME LockAssumption, LockInv PROVE NoDataRace
  <2> SUFFICES ASSUME NEW p \in Procs, NEW q \in Procs, p # q,
                      NEW x \in Using(p), NEW y \in Using(q), x.structure = y.structure, x.write
               PROVE  FALSE
    BY <1>1 DEF NoDataRace
  <2> DEFINE g == GuardOf(x.structure)
  <2>1. g \in Locks /\ WritesUnder(p, g)
    BY <1>1, UsesAreCovered
  <2>2. WritesUnder(q, g) \/ holds[g][q] > 0
    BY <1>1, UsesAreCovered
  <2>3. holds[g][q] = 0
    BY <1>1, <2>1 DEF LockInv, WriterAlone, WritesUnder
  <2> QED BY <2>1, <2>2, <2>3 DEF WritesUnder
<1> QED BY LockAssumption, LockInvCorrect, <1>1, PTL

-----------------------------------------------------------------------------
(***************************************************************************)
(* The refinement: who holds a read lock is reading, who is inside with    *)
(* the write lock is writing.                                              *)
(***************************************************************************)
Reading == [l \in Locks |-> {p \in Procs : holds[l][p] > 0}]
Writing == [l \in Locks |-> IF writing[l] THEN {announced[l]} ELSE {}]

\* One lock's readers change, or its writers, and those of the other stay.
LEMMA ReadersOf ==
  ASSUME NEW l \in Locks, NEW ps, Reading'[l] = ps,
         \A m \in Locks, q \in Procs : m # l => holds'[m][q] = holds[m][q]
  PROVE  Reading' = [Reading EXCEPT ![l] = ps]
BY DEF Reading

LEMMA WritersOf ==
  ASSUME NEW l \in Locks, NEW ps, Writing'[l] = ps,
         \A m \in Locks : m # l => announced'[m] = announced[m] /\ writing'[m] = writing[m]
  PROVE  Writing' = [Writing EXCEPT ![l] = ps]
BY DEF Writing

(* A step that takes or releases no lock is a stutter.                     *)
LEMMA SectionsStutter ==
  ASSUME UNCHANGED holds, \A l \in Locks : writing'[l] = writing[l] /\ (writing[l] => announced'[l] = announced[l])
  PROVE  UNCHANGED <<Reading, Writing>>
BY DEF Reading, Writing

LEMMA RLockRefines ==
  ASSUME LockAssumption, LockInv, NEW p \in Procs, NEW l \in Locks, RLock(p, l)
  PROVE  Sections!Next
<1>1. announced[l] = NoProc /\ UNCHANGED <<announced, writing>>
  BY DEF RLock
<1>2. \A m \in Locks, q \in Procs :
        holds'[m][q] = IF m = l /\ q = p THEN holds[m][q] + 1 ELSE holds[m][q]
  BY DEF RLock, LockInv, LockTypeOK
<1>3. ~writing[l]
  BY <1>1 DEF LockInv, WriterAlone, LockAssumption
<1>4. Reading'[l] = Reading[l] \cup {p}
  BY <1>2, HoldsNat DEF Reading
<1>5. Reading' = [Reading EXCEPT ![l] = Reading[l] \cup {p}]
  BY <1>2, <1>4, ReadersOf
<1>6. UNCHANGED Writing /\ Writing[l] = {}
  BY <1>1, <1>3 DEF Writing
<1>7. Sections!BeginRead(l, {p})
  BY <1>5, <1>6 DEF Sections!BeginRead, Reading, Writing
<1> QED BY <1>7 DEF Sections!Next

\* A goroutine that releases the last of its read locks leaves the section.
LEMMA RUnlockRefines ==
  ASSUME LockAssumption, LockInv, NEW p \in Procs, NEW l \in Locks, RUnlock(p, l)
  PROVE  Sections!Next \/ UNCHANGED <<Reading, Writing>>
<1>1. UNCHANGED <<announced, writing>>
  BY DEF RUnlock
<1>2. \A m \in Locks, q \in Procs :
        holds'[m][q] = IF m = l /\ q = p THEN holds[m][q] - 1 ELSE holds[m][q]
  BY DEF RUnlock, LockInv, LockTypeOK
<1>3. holds[l][p] \in Nat /\ holds[l][p] > 0
  BY HoldsNat, HoldsAtOperation DEF RUnlock, At, HeadIs
<1>4. UNCHANGED Writing
  BY <1>1 DEF Writing
<1>5. CASE holds[l][p] = 1
  <2>1. Reading'[l] = Reading[l] \ {p} /\ p \in Reading[l]
    BY <1>2, <1>5, HoldsNat DEF Reading
  <2>2. Reading' = [Reading EXCEPT ![l] = Reading[l] \ {p}]
    BY <1>2, <2>1, ReadersOf
  <2>3. Sections!EndRead(l, p)
    BY <1>4, <2>1, <2>2 DEF Sections!EndRead, Reading, Writing
  <2> QED BY <2>3 DEF Sections!Next
<1>6. CASE holds[l][p] # 1
  <2>1. Reading'[l] = Reading[l]
    BY <1>2, <1>3, <1>6, HoldsNat DEF Reading
  <2>2. Reading' = [Reading EXCEPT ![l] = Reading[l]]
    BY <1>2, <2>1, ReadersOf
  <2> QED BY <1>4, <2>2 DEF Reading
<1> QED BY <1>5, <1>6

LEMMA LockRefines ==
  ASSUME LockAssumption, LockInv, NEW p \in Procs, NEW l \in Locks, Lock(p, l)
  PROVE  Sections!Next
<1>1. announced[l] = p /\ UNCHANGED <<holds, announced>> /\ \A q \in Procs : holds[l][q] = 0
  BY DEF Lock
<1>2. ~writing[l]
  BY <1>1, HoldsAtOperation DEF Lock, At, HeadIs, WritesUnder
<1>3. \A m \in Locks : writing'[m] = IF m = l THEN TRUE ELSE writing[m]
  BY DEF Lock, LockInv, LockTypeOK
<1>4. Reading[l] = {} /\ Writing[l] = {} /\ Writing'[l] = {p}
  <2>1. \A q \in Procs : ~(holds[l][q] > 0)
    BY <1>1
  <2> QED BY <1>1, <1>2, <1>3, <2>1 DEF Reading, Writing
<1>5. Writing' = [Writing EXCEPT ![l] = {p}]
  BY <1>1, <1>3, <1>4, WritersOf
<1>6. UNCHANGED Reading
  BY <1>1 DEF Reading
<1>7. Sections!BeginWrite(l, p)
  BY <1>4, <1>5, <1>6 DEF Sections!BeginWrite, Reading, Writing
<1> QED BY <1>7 DEF Sections!Next

\* The writer was alone, so those it lets in are all that read afterwards.
LEMMA UnlockRefines ==
  ASSUME LockAssumption, LockInv, NEW p \in Procs, NEW l \in Locks, Unlock(p, l)
  PROVE  Sections!Next
<1>1. WritesUnder(p, l) /\ waiting[l] \in SUBSET Procs
  BY HoldsAtOperation DEF Unlock, At, HeadIs, LockInv, LockTypeOK
<1>2. \A q \in Procs : holds[l][q] = 0
  BY <1>1 DEF LockInv, WriterAlone, WritesUnder
<1>3. \A m \in Locks :
        /\ writing'[m] = IF m = l THEN FALSE ELSE writing[m]
        /\ announced'[m] = IF m = l THEN NoProc ELSE announced[m]
  BY DEF Unlock, LockInv, LockTypeOK
<1>4. \A m \in Locks, q \in Procs :
        holds'[m][q] = IF m = l /\ q \in waiting[l] THEN holds[m][q] + 1 ELSE holds[m][q]
  BY DEF Unlock, LockInv, LockTypeOK
<1>5. Reading'[l] = waiting[l]
  <2>1. \A q \in Procs : holds'[l][q] > 0 <=> q \in waiting[l]
    BY <1>2, <1>4
  <2> QED BY <1>1, <2>1 DEF Reading
<1>6. Writing[l] = {p} /\ Writing'[l] = {}
  BY <1>1, <1>3 DEF Writing, WritesUnder
<1>7. Reading' = [Reading EXCEPT ![l] = waiting[l]]
  BY <1>4, <1>5, ReadersOf
<1>8. Writing' = [Writing EXCEPT ![l] = {}]
  BY <1>3, <1>6, WritersOf
<1> PICK ps \in SUBSET Procs : ps = waiting[l]
  BY <1>1
<1>9. Sections!EndWrite(l, p, ps)
  BY <1>6, <1>7, <1>8 DEF Sections!EndWrite, Reading, Writing
<1> QED BY <1>9 DEF Sections!Next

LEMMA AnnounceStutters ==
  ASSUME LockAssumption, LockInv, NEW p \in Procs, NEW l \in Locks, Announce(p, l)
  PROVE  UNCHANGED <<Reading, Writing>>
<1>1. UNCHANGED <<holds, writing>> /\ announced[l] = NoProc
  BY DEF Announce
<1>2. ~writing[l]
  BY <1>1 DEF LockInv, WriterAlone, LockAssumption
<1>3. \A m \in Locks : m # l => announced'[m] = announced[m]
  BY DEF Announce, LockInv, LockTypeOK
<1> QED BY <1>1, <1>2, <1>3, SectionsStutter

(***************************************************************************)
(* The refinement, for any number of scrapers and handlers: what the       *)
(* two RWMutexes let happen is what the code relies on, several readers or *)
(* one writer, also when a reader of a mutex takes it again.               *)
(***************************************************************************)
THEOREM ImplementsReadWriteLockCorrect == Spec => ImplementsReadWriteLock
<1>1. Init => Sections!Init
  <2> SUFFICES ASSUME Init PROVE Sections!Init
    OBVIOUS
  <2>1. Reading = [l \in Locks |-> {}]
    BY DEF Init, Reading
  <2>2. Writing = [l \in Locks |-> {}]
    BY DEF Init, Writing
  <2> QED BY <2>1, <2>2 DEF Sections!Init, Reading, Writing
<1>2. ASSUME LockAssumption, LockInv, [Next]_lockVars
      PROVE  Sections!Next \/ UNCHANGED <<Reading, Writing>>
  <2>1. CASE UNCHANGED lockVars
    BY <2>1 DEF lockVars, Reading, Writing
  <2>2. ASSUME NEW p \in Procs, Start(p) PROVE UNCHANGED <<Reading, Writing>>
    BY <2>2 DEF Start, Reading, Writing
  <2>3. ASSUME NEW p \in Procs, NEW l \in Locks, RLockWaits(p, l) PROVE UNCHANGED <<Reading, Writing>>
    BY <2>3 DEF RLockWaits, Reading, Writing
  <2> QED BY <1>2, <2>1, <2>2, <2>3, RLockRefines, RUnlockRefines, LockRefines, UnlockRefines,
             AnnounceStutters DEF Next, Step
<1>3. LockAssumption /\ LockInv /\ [Next]_lockVars
        => [Sections!Next]_<<[l \in Locks |-> {p \in Procs : holds[l][p] > 0}],
                             [l \in Locks |-> IF writing[l] THEN {announced[l]} ELSE {}]>>
  BY <1>2 DEF Reading, Writing
<1> QED BY LockAssumption, LockInvCorrect, <1>1, <1>3, PTL DEF Spec, ImplementsReadWriteLock, Sections!Spec

-----------------------------------------------------------------------------
(***************************************************************************)
(* Deadlock.  Whoever is blocked on a lock takes it in order, so he holds  *)
(* neither that lock nor one that comes after it; but for                  *)
(* GetLocationsWithStatus.                                                 *)
(***************************************************************************)
\* No goroutine waits for one that waits for it: whenever one is running, one can
\* take its next lock operation (a reader that finds a writer announced, by
\* starting to wait).
CanMove(p) ==
  \E l \in Locks :
    \/ At(p, "RLock", l) \/ At(p, "RUnlock", l) \/ At(p, "Unlock", l)
    \/ At(p, "Lock", l) /\ announced[l] = NoProc
    \/ At(p, "Lock", l) /\ announced[l] = p /\ \A q \in Procs : holds[l][q] = 0
NeverStuck == (\E p \in Procs : todo[p] # <<>>) => \E p \in Procs : CanMove(p)

NoLocationsRequest == \A p \in Procs : Programs[p] \cap LocationsPrograms = {}

\* The reader that waits for a writer that waits for this reader: in
\* GetLocationsWithStatus, where it has cacheMutex and asks for it again.
WaitsForItself(p) == p \in waiting["cache"] /\ holds["cache"][p] > 0
StuckOnlyInLocations ==
  (\E p \in Procs : todo[p] # <<>>) =>
    \/ \E p \in Procs : CanMove(p)
    \/ \E p \in Procs : WaitsForItself(p) /\ Programs[p] \cap LocationsPrograms # {}

(* Who asks for a lock has neither it nor one after it, or rereads.        *)
LEMMA HeldInOrder ==
  ASSUME LockAssumption, LockInv, NEW p \in Procs, NEW l \in Locks,
         NEW kind \in {"RLock", "Lock"}, HeadIs(todo[p], kind, l)
  PROVE  \/ /\ holds[l][p] = 0 /\ ~WritesUnder(p, l)
            /\ l = "cache" => holds["labels"][p] = 0 /\ ~WritesUnder(p, "labels")
         \/ /\ kind = "RLock" /\ l = "cache" /\ holds["cache"][p] > 0
            /\ Programs[p] \cap LocationsPrograms # {}
<1> PICK prog \in Programs[p] \cup {<<>>} : \E i \in 1..Len(prog) : AtOperation(p, prog, i, kind, l)
  BY AtPosition
<1> PICK i \in 1..Len(prog) : AtOperation(p, prog, i, kind, l)
  OBVIOUS
<1>1. Place(p, prog, i) /\ prog[i].op = kind /\ prog[i].lock = l
  BY DEF AtOperation
<1>2. Ordered(prog) \/ (OrderedButRereading(prog) /\ prog \in Programs[p] \cap LocationsPrograms)
  <2>1. CASE prog \in Programs[p]
    BY <2>1, ServerPrograms DEF LockAssumption
  <2>2. CASE prog = <<>>
    BY <2>2, EmptyProgram
  <2> QED BY <2>1, <2>2
<1>3. CASE \A m \in {l} \cup (IF l = "cache" THEN {"labels"} ELSE {}) :
             ReadDepth(prog, i, m) = 0 /\ WriteDepth(prog, i, m) = 0
  <2>1. \A m \in {l} \cup (IF l = "cache" THEN {"labels"} ELSE {}) :
          m \in Locks /\ holds[m][p] = 0 /\ ~WritesUnder(p, m)
    BY <1>1, <1>3 DEF Place, Locks
  <2> QED BY <2>1
<1>4. CASE Rereads(prog, i) /\ prog \in Programs[p] \cap LocationsPrograms
  <2>1. kind = "RLock" /\ l = "cache" /\ ReadDepth(prog, i, "cache") > 0
    BY <1>1, <1>4 DEF Rereads
  <2>2. holds["cache"][p] = ReadDepth(prog, i, "cache")
    BY <1>1 DEF Place, Locks
  <2> QED BY <1>4, <2>1, <2>2
<1> QED BY <1>1, <1>2, <1>3, <1>4 DEF Ordered, OrderedButRereading

(* Whoever holds a lock is running, and whoever is running is at one of    *)
(* his lock operations.                                                    *)
LEMMA HolderRuns ==
  ASSUME LockAssumption, LockInv, NEW p \in Procs, NEW l \in Locks,
         holds[l][p] > 0 \/ WritesUnder(p, l)
  PROVE  todo[p] # <<>>
<1> SUFFICES ASSUME todo[p] = <<>> PROVE FALSE
  OBVIOUS
<1> PICK prog \in Programs[p] \cup {<<>>} : \E i \in 1..(Len(prog) + 1) : Place(p, prog, i)
  BY DEF LockInv, Placed
<1> PICK i \in 1..(Len(prog) + 1) : Place(p, prog, i)
  OBVIOUS
<1>1. WellLocked(prog) /\ prog \in Seq(Operation) /\ Len(prog) \in Nat
  BY Programmed DEF WellLocked
<1>2. ~(i <= Len(prog))
  BY <1>1, RestNext DEF Place
<1>3. i = Len(prog) + 1
  BY <1>1, <1>2
<1> QED BY <1>1, <1>3 DEF WellLocked, Place

LEMMA RunsAtOperation ==
  ASSUME LockTypeOK, NEW p \in Procs, todo[p] # <<>>
  PROVE  \E kind \in {"RLock", "RUnlock", "Lock", "Unlock"} : \E l \in Locks : HeadIs(todo[p], kind, l)
<1>1. Head(todo[p]) \in Operation
  BY DEF LockTypeOK
<1> QED BY <1>1 DEF Operation, HeadIs

\* Blocked on l: nothing else keeps a running goroutine from moving.
Blocked(p, l) == (HeadIs(todo[p], "RLock", l) \/ HeadIs(todo[p], "Lock", l)) /\ ~CanMove(p)

LEMMA RunsOrIsBlocked ==
  ASSUME LockInv, NEW p \in Procs, todo[p] # <<>>, ~CanMove(p)
  PROVE  \E l \in Locks : Blocked(p, l)
<1> PICK kind \in {"RLock", "RUnlock", "Lock", "Unlock"} : \E l \in Locks : HeadIs(todo[p], kind, l)
  BY RunsAtOperation DEF LockInv
<1> PICK l \in Locks : HeadIs(todo[p], kind, l)
  OBVIOUS
<1>1. ASSUME kind \in {"RUnlock", "Unlock"} PROVE FALSE
  <2>1. p \notin waiting[l]
    BY <1>1 DEF LockInv, WaitingAtRLock, HeadIs
  <2> QED BY <1>1, <2>1 DEF CanMove, At, HeadIs
<1> QED BY <1>1 DEF Blocked

(* If somebody is blocked on a lock, then somebody else has it who cannot  *)
(* move, or can.                                                           *)
LEMMA BlockedBySomebody ==
  ASSUME LockAssumption, LockInv, NEW p \in Procs, NEW l \in Locks, Blocked(p, l),
         \A q \in Procs : ~CanMove(q)
  PROVE  \E q \in Procs : holds[l][q] > 0 \/ WritesUnder(q, l)
<1>1. announced[l] \in Procs
  <2>1. CASE HeadIs(todo[p], "RLock", l)
    <3>1. p \in waiting[l]
      BY <2>1 DEF Blocked, CanMove, At, HeadIs
    <3> QED BY <3>1 DEF LockInv, WaitingAtRLock
  <2>2. CASE HeadIs(todo[p], "Lock", l)
    <3>1. p \notin waiting[l]
      BY <2>2 DEF LockInv, WaitingAtRLock, HeadIs
    <3>2. announced[l] # NoProc
      BY <2>2, <3>1 DEF Blocked, CanMove, At, HeadIs
    <3> QED BY <3>2 DEF LockInv, LockTypeOK
  <2> QED BY <2>1, <2>2 DEF Blocked
<1> PICK w \in Procs : announced[l] = w
  BY <1>1
<1>2. CASE writing[l]
  BY <1>2 DEF WritesUnder
<1>3. CASE ~writing[l]
  <2>1. HeadIs(todo[w], "Lock", l)
    BY <1>3 DEF LockInv, AnnouncedAtLock
  <2>2. w \notin waiting[l]
    BY <2>1 DEF LockInv, WaitingAtRLock, HeadIs
  <2>3. ~(\A q \in Procs : holds[l][q] = 0)
    BY <2>1, <2>2 DEF CanMove, At, HeadIs
  <2> QED BY <2>3, HoldsNat
<1> QED BY <1>2, <1>3

(***************************************************************************)
(* The one way to a deadlock, for any number of scrapers and requests: as  *)
(* long as a goroutine is running, one can move, or a request for          *)
(* /api/locations waits in GetLocationsWithStatus for a writer that waits  *)
(* for that request.  Every other function takes cacheMutex before the     *)
(* label manager's lock and neither inside itself.                         *)
(***************************************************************************)
THEOREM StuckOnlyInLocationsCorrect == Spec => []StuckOnlyInLocations
<1>1. ASSUME LockAssumption, LockInv PROVE StuckOnlyInLocations
  <2> SUFFICES ASSUME NEW p \in Procs, todo[p] # <<>>, \A q \in Procs : ~CanMove(q),
                      \A q \in Procs : ~(WaitsForItself(q) /\ Programs[q] \cap LocationsPrograms # {})
               PROVE  FALSE
    BY DEF StuckOnlyInLocations
  \* Who has a lock is blocked on another one that comes after it.
  <2>1. ASSUME NEW q \in Procs, NEW l \in Locks, holds[l][q] > 0 \/ WritesUnder(q, l)
        PROVE  l = "cache" /\ Blocked(q, "labels")
    <3>1. todo[q] # <<>>
      BY <1>1, <2>1, HolderRuns
    <3> PICK m \in Locks : Blocked(q, m)
      BY <1>1, <3>1, RunsOrIsBlocked
    <3>2. /\ holds[m][q] = 0 /\ ~WritesUnder(q, m)
          /\ m = "cache" => holds["labels"][q] = 0 /\ ~WritesUnder(q, "labels")
      <4>1. ASSUME HeadIs(todo[q], "RLock", "cache"), holds["cache"][q] > 0, ~CanMove(q)
            PROVE  WaitsForItself(q)
        BY <4>1 DEF CanMove, At, HeadIs, WaitsForItself, Locks
      <4> PICK kind \in {"RLock", "Lock"} : HeadIs(todo[q], kind, m)
        BY DEF Blocked
      <4>2. \/ /\ holds[m][q] = 0 /\ ~WritesUnder(q, m)
               /\ m = "cache" => holds["labels"][q] = 0 /\ ~WritesUnder(q, "labels")
            \/ /\ kind = "RLock" /\ m = "cache" /\ holds["cache"][q] > 0
               /\ Programs[q] \cap LocationsPrograms # {}
        BY <1>1, HeldInOrder
      <4> QED BY <4>1, <4>2
    <3>3. m # l /\ ~(m = "cache" /\ l = "labels")
      BY <2>1, <3>2
    <3> QED BY <3>3 DEF Locks
  <2>2. ASSUME NEW q \in Procs, Blocked(q, "labels") PROVE FALSE
    <3>1. "labels" \in Locks
      BY DEF Locks
    <3>2. \E r \in Procs : holds["labels"][r] > 0 \/ WritesUnder(r, "labels")
      BY <1>1, <2>2, <3>1, BlockedBySomebody
    <3> QED BY <2>1, <3>1, <3>2
  <2>3. PICK l \in Locks : Blocked(p, l)
    BY <1>1, RunsOrIsBlocked
  <2>4. \E q \in Procs : holds[l][q] > 0 \/ WritesUnder(q, l)
    BY <1>1, <2>3, BlockedBySomebody
  <2> QED BY <2>1, <2>2, <2>4
<1> QED BY LockAssumption, LockInvCorrect, <1>1, PTL

(***************************************************************************)
(* So there is no deadlock as long as nobody requests /api/locations.      *)
(***************************************************************************)
THEOREM NeverStuckCorrect ==
  ASSUME NoLocationsRequest
  PROVE  Spec => []NeverStuck
<1>1. StuckOnlyInLocations => NeverStuck
  BY DEF StuckOnlyInLocations, NeverStuck, NoLocationsRequest
<1> QED BY StuckOnlyInLocationsCorrect, <1>1, PTL

\* It keeps everybody else from writing.
CacheBlockedBy(p) == WaitsForItself(p) /\ ~writing["cache"]

(* The writer that is announced waits for this reader; only a writer that  *)
(* leaves lets the reader in.                                              *)
LEMMA WaitingIsForGood ==
  ASSUME LockAssumption, LockInv, NEW p \in Procs, WaitsForItself(p), [Next]_lockVars
  PROVE  CacheBlockedBy(p)'
<1> USE DEF WaitsForItself
<1>1. /\ p \in waiting["cache"] /\ holds["cache"][p] > 0 /\ "cache" \in Locks
      /\ HeadIs(todo[p], "RLock", "cache")
  BY DEF Locks, LockInv, WaitingAtRLock
<1>2. holds["cache"][p] # 0 /\ ~writing["cache"]
  <2>1. holds["cache"][p] # 0
    BY <1>1
  <2> QED BY <1>1, <2>1 DEF LockInv, WriterAlone
<1>3. \A q \in Procs, l \in Locks : Unlock(q, l) => l # "cache"
  <2> TAKE q \in Procs, l \in Locks
  <2>1. Unlock(q, l) => HeadIs(todo[q], "Unlock", l)
    BY DEF Unlock, At, HeadIs
  <2>2. HeadIs(todo[q], "Unlock", l) => writing[l]
    BY HoldsAtOperation DEF WritesUnder
  <2> QED BY <1>2, <2>1, <2>2
<1>4. CASE UNCHANGED lockVars
  BY <1>1, <1>2, <1>4 DEF lockVars, CacheBlockedBy
<1>5. ASSUME NEW q \in Procs, Start(q) PROVE CacheBlockedBy(p)'
  BY <1>1, <1>2, <1>5 DEF Start, CacheBlockedBy
<1>6. ASSUME NEW q \in Procs, NEW l \in Locks, RLock(q, l) PROVE CacheBlockedBy(p)'
  <2>1. /\ holds'["cache"][p] > 0
    BY <1>1, <1>6, HoldsNat DEF RLock, LockInv, LockTypeOK
  <2> QED BY <1>1, <1>2, <1>6, <2>1 DEF RLock, CacheBlockedBy
<1>7. ASSUME NEW q \in Procs, NEW l \in Locks, RLockWaits(q, l) PROVE CacheBlockedBy(p)'
  BY <1>1, <1>2, <1>7 DEF RLockWaits, CacheBlockedBy, LockInv, LockTypeOK
<1>8. ASSUME NEW q \in Procs, NEW l \in Locks, RUnlock(q, l) PROVE CacheBlockedBy(p)'
  <2>1. l = "cache" => q # p
    BY <1>1, <1>8 DEF RUnlock, At, HeadIs
  <2>2. holds'["cache"][p] = holds["cache"][p]
    BY <1>1, <1>8, <2>1 DEF RUnlock, LockInv, LockTypeOK
  <2> QED BY <1>1, <1>2, <1>8, <2>2 DEF RUnlock, CacheBlockedBy
<1>9. ASSUME NEW q \in Procs, NEW l \in Locks, Announce(q, l) PROVE CacheBlockedBy(p)'
  BY <1>1, <1>2, <1>9 DEF Announce, CacheBlockedBy
<1>10. ASSUME NEW q \in Procs, NEW l \in Locks, Lock(q, l) PROVE CacheBlockedBy(p)'
  <2>1. l # "cache"
    BY <1>1, <1>2, <1>10 DEF Lock
  <2>2. writing'["cache"] = writing["cache"]
    BY <1>10, <1>1, <2>1 DEF Lock, LockInv, LockTypeOK
  <2> QED BY <1>1, <1>2, <1>10, <2>2 DEF Lock, CacheBlockedBy
<1>11. ASSUME NEW q \in Procs, NEW l \in Locks, Unlock(q, l) PROVE CacheBlockedBy(p)'
  <2>1. l # "cache"
    BY <1>3, <1>11
  <2>2. /\ writing'["cache"] = writing["cache"] /\ holds'["cache"] = holds["cache"]
        /\ waiting'["cache"] = waiting["cache"]
    BY <1>11, <1>1, <2>1 DEF Unlock, LockInv, LockTypeOK
  <2> QED BY <1>1, <1>2, <2>2 DEF CacheBlockedBy
<1> QED BY <1>4, <1>5, <1>6, <1>7, <1>8, <1>9, <1>10, <1>11 DEF Next, Step

(***************************************************************************)
(* And that deadlock is for good: a request that waits for itself waits    *)
(* forever, and no scraper takes cacheMutex for writing ever again, so the *)
(* cache keeps what it shows then.                                         *)
(***************************************************************************)
THEOREM WaitsForItselfForever ==
  ASSUME NEW p \in Procs
  PROVE  Spec => [](WaitsForItself(p) => []CacheBlockedBy(p))
<1>1. LockInv /\ WaitsForItself(p) => CacheBlockedBy(p)
  BY DEF LockInv, WriterAlone, CacheBlockedBy, WaitsForItself, Locks
<1>2. LockInv /\ CacheBlockedBy(p) /\ [Next]_lockVars => CacheBlockedBy(p)'
  BY LockAssumption, WaitingIsForGood DEF CacheBlockedBy
<1> QED BY <1>1, <1>2, LockInvCorrect, PTL DEF Spec
=============================================================================
