---------------------------- MODULE ReadWriteLock ----------------------------
(***************************************************************************)
(* What the code relies on a sync.RWMutex for: several readers or one      *)
(* writer.                                                                 *)
(***************************************************************************)
CONSTANTS Locks, Procs

VARIABLES
  reading,  \* [lock] -> goroutines inside a read section
  writing   \* [lock] -> goroutines inside a write section

Init == reading = [l \in Locks |-> {}] /\ writing = [l \in Locks |-> {}]

\* Any set of goroutines may enter together once the writer has left.
BeginRead(l, ps) ==
  /\ ps # {}
  /\ writing[l] = {}
  /\ reading' = [reading EXCEPT ![l] = @ \cup ps]
  /\ UNCHANGED writing

EndRead(l, p) ==
  /\ p \in reading[l]
  /\ reading' = [reading EXCEPT ![l] = @ \ {p}]
  /\ UNCHANGED writing

BeginWrite(l, p) ==
  /\ reading[l] = {} /\ writing[l] = {}
  /\ writing' = [writing EXCEPT ![l] = {p}]
  /\ UNCHANGED reading

\* Readers that waited for the writer enter as it leaves.
EndWrite(l, p, ps) ==
  /\ writing[l] = {p}
  /\ writing' = [writing EXCEPT ![l] = {}]
  /\ reading' = [reading EXCEPT ![l] = ps]

Next ==
  \E l \in Locks :
    \/ \E ps \in SUBSET Procs : BeginRead(l, ps)
    \/ \E p \in Procs : EndRead(l, p) \/ BeginWrite(l, p)
    \/ \E p \in Procs, ps \in SUBSET Procs : EndWrite(l, p, ps)

Spec == Init /\ [][Next]_<<reading, writing>>
=============================================================================
