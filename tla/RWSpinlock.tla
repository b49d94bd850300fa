----------------------------- MODULE RWSpinlock -----------------------------
(***************************************************************************)
(* The readers-writer spinlock of include/atomic.h: the lock every other   *)
(* component of librcd takes around its shared state.  One signed word:    *)
(* 0 is free, n > 0 is n readers, -1 is one writer.  Every acquisition     *)
(* and every release is a load followed by a compare-and-swap that may     *)
(* find the word changed and start over.                                   *)
(*                                                                         *)
(* A step of this module is one memory access of one thread.               *)
(***************************************************************************)
EXTENDS Integers, FiniteSets

CONSTANT Threads          (* the physical threads that contend              *)

ASSUME ThreadsAssumption == IsFiniteSet(Threads) /\ Threads # {}

VARIABLES lock,           (* the lock word, an int32                        *)
          seen,           (* per thread, the word it loaded (rwspinlock_v)  *)
          pc              (* per thread, where it is in its call            *)

vars == <<lock, seen, pc>>

\* The points of the four calls, and the two sections they protect.
Points == {"idle",
           "rlock_load", "rlock_cas", "reading", "urlock_load", "urlock_cas",
           "wlock_cas", "writing", "uwlock_cas"}

Reading == {t \in Threads : pc[t] \in {"reading", "urlock_load", "urlock_cas"}}
Writing == {t \in Threads : pc[t] \in {"writing", "uwlock_cas"}}

TypeOK ==
    /\ lock \in Int /\ lock >= -1
    /\ seen \in [Threads -> Int]
    /\ pc \in [Threads -> Points]

Init ==
    /\ lock = 0
    /\ seen = [t \in Threads |-> 0]
    /\ pc = [t \in Threads |-> "idle"]

-----------------------------------------------------------------------------
Goto(t, from, to) ==
    /\ pc[t] = from
    /\ pc' = [pc EXCEPT ![t] = to]

Load(t, from, to) ==
    /\ Goto(t, from, to)
    /\ seen' = [seen EXCEPT ![t] = lock]
    /\ UNCHANGED lock

\* The caller enters one of the four calls.
Call(t) ==
    /\ \/ Goto(t, "idle", "rlock_load")
       \/ Goto(t, "idle", "wlock_cas")
       \/ Goto(t, "reading", "urlock_load")
       \/ Goto(t, "writing", "uwlock_cas")
    /\ UNCHANGED <<lock, seen>>

\* atomic_spinlock_rlock
RLockLoad(t) == Load(t, "rlock_load", "rlock_cas")

\* Slip: the sign of the loaded word is not tested, a reader joins a writer.
RLockCasUnsigned(t) ==
    /\ lock = seen[t]
    /\ Goto(t, "rlock_cas", "reading")
    /\ lock' = seen[t] + 1
    /\ UNCHANGED seen

RLockCas(t) ==
    \/ /\ seen[t] >= 0
       /\ lock = seen[t]
       /\ Goto(t, "rlock_cas", "reading")
       /\ lock' = seen[t] + 1
       /\ UNCHANGED seen
    \/ /\ seen[t] < 0 \/ lock # seen[t]
       /\ Goto(t, "rlock_cas", "rlock_load")
       /\ UNCHANGED <<lock, seen>>

\* atomic_spinlock_wlock: a failed swap changes nothing and is a stutter.
WLockCas(t) ==
    /\ lock = 0
    /\ Goto(t, "wlock_cas", "writing")
    /\ lock' = -1
    /\ UNCHANGED seen

\* atomic_spinlock_urlock
URLockLoad(t) == Load(t, "urlock_load", "urlock_cas")

\* Slip: the swap is a plain store, a reader that left meanwhile is restored.
URLockStore(t) ==
    /\ Goto(t, "urlock_cas", "idle")
    /\ lock' = seen[t] - 1
    /\ UNCHANGED seen

URLockCas(t) ==
    \/ /\ lock = seen[t]
       /\ Goto(t, "urlock_cas", "idle")
       /\ lock' = seen[t] - 1
       /\ UNCHANGED seen
    \/ /\ lock # seen[t]
       /\ Goto(t, "urlock_cas", "urlock_load")
       /\ UNCHANGED <<lock, seen>>

\* atomic_spinlock_uwlock
\* Slip: the writer leaves by decrementing, like a reader.
UWLockDecrement(t) ==
    /\ lock = -1
    /\ Goto(t, "uwlock_cas", "idle")
    /\ lock' = lock - 1
    /\ UNCHANGED seen

UWLockCas(t) ==
    /\ lock = -1
    /\ Goto(t, "uwlock_cas", "idle")
    /\ lock' = 0
    /\ UNCHANGED seen

Step(t) ==
    \/ Call(t)
    \/ RLockLoad(t)
    \/ RLockCas(t)
    \/ WLockCas(t)
    \/ URLockLoad(t)
    \/ URLockCas(t)
    \/ UWLockCas(t)

Next == \E t \in Threads : Step(t)

Spec == Init /\ [][Next]_vars

\* Every thread that can take its next access eventually takes it.
FairSpec == Spec /\ \A t \in Threads : WF_vars(Step(t))

-----------------------------------------------------------------------------
\* A writer is alone: nobody reads and nobody else writes while it holds the
\* lock (atomic_spinlock_rlock and _wlock taken together).
MutualExclusion ==
    /\ Writing # {} => Reading = {}
    /\ \A t, u \in Writing : t = u

\* The word counts exactly the threads inside, so no interleaving of failed
\* and repeated swaps loses or invents a reader.
WordCountsHolders ==
    \/ lock = -1 /\ Writing # {} /\ Reading = {}
    \/ lock = Cardinality(Reading) /\ Writing = {}

\* The lock is lock-free: whatever swaps fail, some call of some thread keeps
\* completing (a failed swap means that another one succeeded).
Completes(t) ==
    /\ pc[t] \notin {"idle", "reading", "writing"}
    /\ pc'[t] \in {"idle", "reading", "writing"}

SomeCallCompletes == []<><<\E t \in Threads : Completes(t)>>_vars

\* The promise the word implements: readers share, a writer excludes.
Promise == INSTANCE RWLock WITH readers <- Reading, writers <- Writing
ImplementsRWLock == Promise!Spec
=============================================================================
