--------------------------- MODULE AtomicWordProofs ---------------------------
(***************************************************************************)
(* Proofs about the three protocols that are made of compare-and-swaps of  *)
(* one word: the spinlock (RWSpinlock), lwt_once (LwtOnce) and the debug   *)
(* choke (DebugChoke), for any number of threads, callers and executors.   *)
(*                                                                         *)
(* The spinlock: mutual exclusion alone is not inductive; that a failed    *)
(* test of the word keeps a thread out only helps when the word tells who  *)
(* is in.  The strengthening is WordCountsHolders, with the types.         *)
(*                                                                         *)
(* lwt_once: its assertions are not inductive; an assertion of one caller  *)
(* survives a step of another only because no two callers are chosen at    *)
(* one time, and that, in turn, because the word is not "init" while one   *)
(* is.                                                                     *)
(*                                                                         *)
(* The choke: OneIsSpared is not inductive; an executor that is about to   *)
(* add itself compares the count with what it read, and that must have     *)
(* left room.                                                              *)
(***************************************************************************)
EXTENDS RWSpinlock, LwtOnce, DebugChoke, FiniteSetTheorems, TLAPS

-----------------------------------------------------------------------------
(* The spinlock.                                                            *)

\* At most one thread writes: the half of MutualExclusion the word cannot say.
OneWriter == \A t, u \in Writing : t = u

IInv == TypeOK /\ WordCountsHolders /\ OneWriter

\* The readers are finitely many and the word of a lock with readers is their
\* number, so adding or removing one thread changes it by one.
LEMMA CountReaders ==
    /\ IsFiniteSet(Reading)
    /\ Cardinality(Reading) \in Nat
    /\ \A t : Cardinality(Reading \union {t}) =
                IF t \in Reading THEN Cardinality(Reading)
                                 ELSE Cardinality(Reading) + 1
    /\ \A t : Cardinality(Reading \ {t}) =
                IF t \in Reading THEN Cardinality(Reading) - 1
                                 ELSE Cardinality(Reading)
    /\ Cardinality(Reading) = 0 <=> Reading = {}
<1>1. Reading \subseteq Threads
  BY DEF Reading
<1>2. IsFiniteSet(Reading)
  BY <1>1, FS_Subset, ThreadsAssumption
<1>3. QED
  BY <1>2, FS_CardinalityType, FS_AddElement, FS_RemoveElement, FS_EmptySet

\* A step between points that hold nothing leaves both sets of holders alone.
LEMMA HoldersUnchanged ==
    ASSUME TypeOK, NEW t \in Threads,
           NEW from \in Points, NEW to \in Points, Goto(t, from, to),
           (from \in {"reading", "urlock_load", "urlock_cas"})
             <=> (to \in {"reading", "urlock_load", "urlock_cas"}),
           (from \in {"writing", "uwlock_cas"}) <=> (to \in {"writing", "uwlock_cas"})
    PROVE  Reading' = Reading /\ Writing' = Writing
BY DEF TypeOK, Goto, Reading, Writing

LEMMA InitIInv == Init => IInv
<1>1. SUFFICES ASSUME Init PROVE IInv
  OBVIOUS
<1>2. TypeOK
  BY <1>1 DEF Init, TypeOK, Points
<1>3. Reading = {} /\ Writing = {}
  BY <1>1 DEF Init, Reading, Writing
<1>4. Cardinality(Reading) = 0
  BY <1>3, FS_EmptySet
<1>5. QED
  BY <1>1, <1>2, <1>3, <1>4 DEF IInv, Init, WordCountsHolders, OneWriter

LEMMA StepIInv == IInv /\ [Next]_vars => IInv'
<1> SUFFICES ASSUME IInv, [Next]_vars PROVE IInv'
  OBVIOUS
<1> USE DEF IInv
<1>1. CASE UNCHANGED vars
  BY <1>1 DEF vars, TypeOK, WordCountsHolders, OneWriter, Reading, Writing
<1>2. ASSUME NEW t \in Threads, Step(t) PROVE IInv'
  <2>1. CASE Call(t)
    <3>1. TypeOK'
      BY <2>1 DEF Call, Goto, TypeOK, Points
    <3>2. Reading' = Reading /\ Writing' = Writing
      BY <2>1, HoldersUnchanged DEF Call, Points
    <3>3. QED
      BY <2>1, <3>1, <3>2 DEF Call, WordCountsHolders, OneWriter
  <2>2. CASE RLockLoad(t) \/ URLockLoad(t)
    <3>1. TypeOK'
      BY <2>2 DEF RLockLoad, URLockLoad, Load, Goto, TypeOK, Points
    <3>2. Reading' = Reading /\ Writing' = Writing
      BY <2>2, HoldersUnchanged DEF RLockLoad, URLockLoad, Load, Points
    <3>3. QED
      BY <2>2, <3>1, <3>2 DEF RLockLoad, URLockLoad, Load, WordCountsHolders, OneWriter
  <2>3. CASE RLockCas(t)
    <3>1. CASE lock # seen[t] \/ seen[t] < 0
      <4>1. Goto(t, "rlock_cas", "rlock_load") /\ UNCHANGED <<lock, seen>>
        BY <2>3, <3>1 DEF RLockCas, TypeOK
      <4>2. Reading' = Reading /\ Writing' = Writing
        BY <4>1, HoldersUnchanged DEF Points
      <4>3. QED
        BY <4>1, <4>2 DEF Goto, TypeOK, Points, WordCountsHolders, OneWriter
    <3>2. CASE lock = seen[t] /\ seen[t] >= 0
      <4>1. Goto(t, "rlock_cas", "reading") /\ lock' = lock + 1 /\ UNCHANGED seen
        BY <2>3, <3>2 DEF RLockCas, TypeOK
      <4>2. Reading' = Reading \union {t} /\ t \notin Reading /\ Writing' = Writing
        BY <4>1 DEF Goto, TypeOK, Reading, Writing
      <4>3. Cardinality(Reading') = Cardinality(Reading) + 1
        BY <4>2, CountReaders
      <4>4. lock = Cardinality(Reading) /\ Writing = {}
        BY <3>2 DEF WordCountsHolders, TypeOK
      <4>5. QED
        BY <4>1, <4>2, <4>3, <4>4 DEF Goto, TypeOK, Points, WordCountsHolders, OneWriter
    <3>3. QED
      BY <3>1, <3>2 DEF TypeOK
  <2>4. CASE WLockCas(t)
    <3>1. Writing' = Writing \union {t} /\ Reading' = Reading
      BY <2>4 DEF WLockCas, Goto, TypeOK, Reading, Writing
    <3>2. Writing = {} /\ Reading = {}
      BY <2>4, CountReaders DEF WLockCas, WordCountsHolders
    <3>3. QED
      BY <2>4, <3>1, <3>2 DEF WLockCas, Goto, TypeOK, Points, WordCountsHolders, OneWriter
  <2>5. CASE URLockCas(t)
    <3>1. CASE lock # seen[t]
      <4>1. Goto(t, "urlock_cas", "urlock_load") /\ UNCHANGED <<lock, seen>>
        BY <2>5, <3>1 DEF URLockCas
      <4>2. Reading' = Reading /\ Writing' = Writing
        BY <4>1, HoldersUnchanged DEF Points
      <4>3. QED
        BY <4>1, <4>2 DEF Goto, TypeOK, Points, WordCountsHolders, OneWriter
    <3>2. CASE lock = seen[t]
      <4>1. Goto(t, "urlock_cas", "idle") /\ lock' = lock - 1 /\ UNCHANGED seen
        BY <2>5, <3>2 DEF URLockCas
      <4>2. Reading' = Reading \ {t} /\ t \in Reading /\ Writing' = Writing
        BY <4>1 DEF Goto, TypeOK, Reading, Writing
      <4>3. Cardinality(Reading') = Cardinality(Reading) - 1
        BY <4>2, CountReaders
      <4>4. lock = Cardinality(Reading) /\ Writing = {}
        BY <4>2 DEF WordCountsHolders
      <4>5. Cardinality(Reading) \in Nat /\ Cardinality(Reading) # 0
        BY <4>2, CountReaders
      <4>6. QED
        BY <4>1, <4>2, <4>3, <4>4, <4>5
           DEF Goto, TypeOK, Points, WordCountsHolders, OneWriter
    <3>3. QED
      BY <3>1, <3>2
  <2>6. CASE UWLockCas(t)
    <3>1. Writing' = Writing \ {t} /\ t \in Writing /\ Reading' = Reading
      BY <2>6 DEF UWLockCas, Goto, TypeOK, Reading, Writing
    <3>2. Writing' = {}
      BY <3>1 DEF OneWriter
    <3>3. Reading = {}
      BY <3>1 DEF WordCountsHolders
    <3>4. Cardinality(Reading') = 0
      BY <3>1, <3>3, FS_EmptySet
    <3>5. QED
      BY <2>6, <3>1, <3>2, <3>4
         DEF UWLockCas, Goto, TypeOK, Points, WordCountsHolders, OneWriter
  <2>7. QED
    BY <1>2, <2>1, <2>2, <2>3, <2>4, <2>5, <2>6 DEF Step
<1>3. QED
  BY <1>1, <1>2 DEF Next

\* The word always counts the threads inside (atomic.h's one data structure).
THEOREM WordIsExact == Spec => []WordCountsHolders
<1>1. IInv => WordCountsHolders
  BY DEF IInv
<1>2. QED
  BY InitIInv, StepIInv, <1>1, PTL DEF Spec

\* Whatever the number of threads and however their swaps interleave, a writer
\* excludes everyone else.
THEOREM SpinlockExcludes == Spec => []MutualExclusion
<1>1. IInv => MutualExclusion
  <2> SUFFICES ASSUME IInv PROVE MutualExclusion
    OBVIOUS
  <2>1. Writing # {} => Reading = {}
    BY DEF IInv, WordCountsHolders
  <2>2. QED
    BY <2>1 DEF IInv, OneWriter, MutualExclusion
<1>2. QED
  BY InitIInv, StepIInv, <1>1, PTL DEF Spec

-----------------------------------------------------------------------------
\* Every access of the detailed lock is a step of the abstract one or changes
\* nothing the abstract one sees: RWSpinlock implements RWLock.
THEOREM SpinlockImplementsRWLock == Spec => ImplementsRWLock
<1>1. Init => Promise!Init
  BY DEF Init, Promise!Init, Reading, Writing
<1>2. IInv /\ [Next]_vars => [Promise!Next]_(Promise!lockVars)
  <2> SUFFICES ASSUME IInv, [Next]_vars
               PROVE  Promise!Next \/ (Reading' = Reading /\ Writing' = Writing)
    BY DEF Promise!lockVars
  <2>1. CASE UNCHANGED vars
    BY <2>1 DEF vars, Reading, Writing
  <2>2. ASSUME NEW t \in Threads, Step(t)
        PROVE  Promise!Next \/ (Reading' = Reading /\ Writing' = Writing)
    <3>0. TypeOK
      BY DEF IInv
    <3>1. CASE Call(t) \/ RLockLoad(t) \/ URLockLoad(t)
      BY <3>0, <3>1, HoldersUnchanged DEF Call, RLockLoad, URLockLoad, Load, Points
    <3>2. CASE RLockCas(t)
      <4>1. CASE Goto(t, "rlock_cas", "rlock_load")
        BY <3>0, <4>1, HoldersUnchanged DEF Points
      <4>2. CASE Goto(t, "rlock_cas", "reading") /\ seen[t] >= 0 /\ lock = seen[t]
        <5>1. Reading' = Reading \union {t} /\ t \notin Reading /\ Writing' = Writing
          BY <3>0, <4>2 DEF Goto, TypeOK, Reading, Writing
        <5>2. Writing = {}
          BY <3>0, <4>2 DEF IInv, WordCountsHolders, TypeOK
        <5>3. Promise!AcquireRead(t)
          BY <5>1, <5>2 DEF Promise!AcquireRead
        <5>4. QED
          BY <5>3 DEF Promise!Next
      <4>3. QED
        BY <3>2, <4>1, <4>2 DEF RLockCas
    <3>3. CASE WLockCas(t)
      <4>1. Writing' = Writing \union {t} /\ Reading' = Reading
        BY <3>0, <3>3 DEF WLockCas, Goto, TypeOK, Reading, Writing
      <4>2. Writing = {} /\ Reading = {}
        BY <3>3, CountReaders DEF IInv, WLockCas, WordCountsHolders
      <4>3. Promise!AcquireWrite(t)
        BY <4>1, <4>2 DEF Promise!AcquireWrite
      <4>4. QED
        BY <4>3 DEF Promise!Next
    <3>4. CASE URLockCas(t)
      <4>1. CASE Goto(t, "urlock_cas", "urlock_load")
        BY <3>0, <4>1, HoldersUnchanged DEF Points
      <4>2. CASE Goto(t, "urlock_cas", "idle")
        <5>1. Reading' = Reading \ {t} /\ t \in Reading /\ Writing' = Writing
          BY <3>0, <4>2 DEF Goto, TypeOK, Reading, Writing
        <5>2. Promise!ReleaseRead(t)
          BY <5>1 DEF Promise!ReleaseRead
        <5>3. QED
          BY <5>2 DEF Promise!Next
      <4>3. QED
        BY <3>4, <4>1, <4>2 DEF URLockCas
    <3>5. CASE UWLockCas(t)
      <4>1. Writing' = Writing \ {t} /\ t \in Writing /\ Reading' = Reading
        BY <3>0, <3>5 DEF UWLockCas, Goto, TypeOK, Reading, Writing
      <4>2. Promise!ReleaseWrite(t)
        BY <4>1 DEF Promise!ReleaseWrite
      <4>3. QED
        BY <4>2 DEF Promise!Next
    <3>6. QED
      BY <2>2, <3>1, <3>2, <3>3, <3>4, <3>5 DEF Step
  <2>3. QED
    BY <2>1, <2>2 DEF Next
<1>3. QED
  BY <1>1, <1>2, InitIInv, StepIInv, PTL DEF Spec, ImplementsRWLock, Promise!Spec

-----------------------------------------------------------------------------
(* lwt_once.                                                                *)

ChosenPoints == {"spawn", "run"}
OwnerPoints == {"run", "cleanup", "unwind", "join", "unwound"}

OneChosen ==
    \A c, d \in Callers : stage[c] \in ChosenPoints /\ stage[d] \in ChosenPoints => c = d

OwnersKnowFid == \A c \in Callers : stage[c] \in OwnerPoints => fid[c] \in Fids

OnceInv == OnceTypeOK /\ AssertsHold /\ OneChosen /\ OwnersKnowFid /\ EventFibersOwned

LEMMA InitOnceInv == OnceInit => OnceInv
BY DEF OnceInit, OnceInv, OnceTypeOK, AssertsHold, OneChosen, OwnersKnowFid, EventFibersOwned,
       Statuses, OncePoints, ChosenPoints, OwnerPoints

\* While a caller is chosen, the word is neither "init" nor "done".
LEMMA ChosenKeepsBusy ==
    ASSUME OnceInv, NEW c \in Callers, stage[c] \in ChosenPoints
    PROVE  word # "init" /\ word # "done"
BY OnceAssumption DEF OnceInv, AssertsHold, ChosenPoints, Statuses

LEMMA TypesStep == ASSUME OnceInv, [OnceNext]_onceVars PROVE OnceTypeOK'
<1> USE DEF OnceInv, OnceTypeOK, Statuses, OncePoints, OnceGoto
<1>1. ASSUME NEW c \in Callers, Enter(c) PROVE OnceTypeOK'
  BY <1>1 DEF Enter
<1>2. ASSUME NEW c \in Callers, LoadDone(c) PROVE OnceTypeOK'
  BY <1>2 DEF LoadDone
<1>3. ASSUME NEW c \in Callers, LoadInit(c) PROVE OnceTypeOK'
  BY <1>3 DEF LoadInit
<1>4. ASSUME NEW c \in Callers, LoadFid(c) PROVE OnceTypeOK'
  BY <1>4 DEF LoadFid
<1>5. ASSUME NEW c \in Callers, Claim(c) PROVE OnceTypeOK'
  BY <1>5 DEF Claim
<1>6. ASSUME NEW c \in Callers, ClaimFails(c) PROVE OnceTypeOK'
  BY <1>6 DEF ClaimFails
<1>7. ASSUME NEW c \in Callers, Publish(c) PROVE OnceTypeOK'
  BY <1>7 DEF Publish
<1>8. ASSUME NEW c \in Callers, InitReturns(c) PROVE OnceTypeOK'
  BY <1>8 DEF InitReturns
<1>9. ASSUME NEW c \in Callers, InitThrows(c) PROVE OnceTypeOK'
  BY <1>9 DEF InitThrows
<1>10. ASSUME NEW c \in Callers, Destroy(c) PROVE OnceTypeOK'
  BY <1>10 DEF Destroy, OwnersKnowFid, OwnerPoints
<1>11. ASSUME NEW c \in Callers, Destroyed(c) PROVE OnceTypeOK'
  BY <1>11 DEF Destroyed
<1>12. ASSUME NEW c \in Callers, WaitOver(c) PROVE OnceTypeOK'
  BY <1>12 DEF WaitOver
<1>13. ASSUME NEW c \in Callers, WaitCanceled(c) PROVE OnceTypeOK'
  BY <1>13 DEF WaitCanceled
<1>14. ASSUME NEW f \in Fids, EventFiberEnds(f) PROVE OnceTypeOK'
  BY <1>14 DEF EventFiberEnds
<1>15. CASE UNCHANGED onceVars
  BY <1>15 DEF onceVars
<1>16. QED
  BY <1>1, <1>2, <1>3, <1>4, <1>5, <1>6, <1>7, <1>8, <1>9, <1>10, <1>11, <1>12,
     <1>13, <1>14, <1>15 DEF OnceNext, OnceStep, Chosen

\* No two are chosen, and what the chosen one asserts stays true.
LEMMA ChosenStep ==
    ASSUME OnceInv, [OnceNext]_onceVars PROVE AssertsHold' /\ OneChosen' /\ OwnersKnowFid'
<1> DEFINE Goal == AssertsHold' /\ OneChosen' /\ OwnersKnowFid'
<1> USE DEF OnceInv, OnceTypeOK, AssertsHold, OneChosen, OwnersKnowFid, OnceGoto,
            ChosenPoints, OwnerPoints
<1>1. ASSUME NEW c \in Callers, Enter(c) PROVE Goal
  BY <1>1 DEF Enter
<1>2. ASSUME NEW c \in Callers, LoadDone(c) PROVE Goal
  BY <1>2 DEF LoadDone
<1>3. ASSUME NEW c \in Callers, LoadInit(c) PROVE Goal
  BY <1>3 DEF LoadInit
<1>4. ASSUME NEW c \in Callers, LoadFid(c) PROVE Goal
  BY <1>4 DEF LoadFid
<1>5. ASSUME NEW c \in Callers, Claim(c) PROVE Goal
  BY <1>5, ChosenKeepsBusy DEF Claim
<1>6. ASSUME NEW c \in Callers, ClaimFails(c) PROVE Goal
  BY <1>6 DEF ClaimFails
<1>7. ASSUME NEW c \in Callers, Publish(c) PROVE Goal
  BY <1>7 DEF Publish
<1>8. ASSUME NEW c \in Callers, InitReturns(c) PROVE Goal
  BY <1>8 DEF InitReturns
<1>9. ASSUME NEW c \in Callers, InitThrows(c) PROVE Goal
  BY <1>9 DEF InitThrows
<1>10. ASSUME NEW c \in Callers, Destroy(c) PROVE Goal
  BY <1>10 DEF Destroy
<1>11. ASSUME NEW c \in Callers, Destroyed(c) PROVE Goal
  BY <1>11 DEF Destroyed
<1>12. ASSUME NEW c \in Callers, WaitOver(c) PROVE Goal
  BY <1>12 DEF WaitOver
<1>13. ASSUME NEW c \in Callers, WaitCanceled(c) PROVE Goal
  BY <1>13 DEF WaitCanceled
<1>14. ASSUME NEW f \in Fids, EventFiberEnds(f) PROVE Goal
  BY <1>14 DEF EventFiberEnds
<1>15. CASE UNCHANGED onceVars
  BY <1>15 DEF onceVars
<1>16. QED
  BY <1>1, <1>2, <1>3, <1>4, <1>5, <1>6, <1>7, <1>8, <1>9, <1>10, <1>11, <1>12,
     <1>13, <1>14, <1>15 DEF OnceNext, OnceStep, Chosen

\* A parked fiber keeps its owner, or gets one as it is spawned, until it ends.
LEMMA OwnedStep == ASSUME OnceInv, [OnceNext]_onceVars PROVE EventFibersOwned'
<1> USE DEF OnceInv, OnceTypeOK, EventFibersOwned
<1>1. ASSUME NEW c \in Callers,
             \/ Enter(c) \/ LoadDone(c) \/ LoadInit(c) \/ Claim(c) \/ ClaimFails(c)
             \/ WaitOver(c) \/ WaitCanceled(c) \/ InitReturns(c) \/ InitThrows(c)
             \/ Destroy(c)
      PROVE  EventFibersOwned'
  <2>1. parked' = parked /\ fid' = fid
    BY <1>1 DEF Enter, LoadDone, LoadInit, Claim, ClaimFails, WaitOver, WaitCanceled,
                InitReturns, InitThrows, Destroy
  <2>2. \A d \in Callers : stage[d] \in OwnerPoints => stage'[d] \in OwnerPoints
    BY <1>1 DEF Enter, LoadDone, LoadInit, Claim, ClaimFails, WaitOver, WaitCanceled,
                InitReturns, InitThrows, Destroy, OnceGoto, OwnerPoints
  <2>3. QED
    BY <2>1, <2>2 DEF OwnerPoints
<1>2. ASSUME NEW c \in Callers, LoadFid(c) PROVE EventFibersOwned'
  BY <1>2 DEF LoadFid, OnceGoto
<1>3. ASSUME NEW c \in Callers, Publish(c) PROVE EventFibersOwned'
  BY <1>3 DEF Publish, OnceGoto
<1>4. ASSUME NEW c \in Callers, Destroyed(c) PROVE EventFibersOwned'
  BY <1>4 DEF Destroyed, OnceGoto
<1>5. ASSUME NEW f \in Fids, EventFiberEnds(f) PROVE EventFibersOwned'
  BY <1>5 DEF EventFiberEnds
<1>6. CASE UNCHANGED onceVars
  BY <1>6 DEF onceVars
<1>7. QED
  BY <1>1, <1>2, <1>3, <1>4, <1>5, <1>6 DEF OnceNext, OnceStep, Chosen

LEMMA StepOnceInv == OnceInv /\ [OnceNext]_onceVars => OnceInv'
BY TypesStep, ChosenStep, OwnedStep DEF OnceInv

LEMMA AlwaysOnceInv == OnceSpec => []OnceInv
BY InitOnceInv, StepOnceInv, PTL DEF OnceSpec

-----------------------------------------------------------------------------
\* The word, the callers' places and the ids they keep are of their types.
THEOREM OnceTypes == OnceSpec => []OnceTypeOK
<1>1. OnceInv => OnceTypeOK
  BY DEF OnceInv
<1>2. QED
  BY <1>1, AlwaysOnceInv, PTL

\* The assertions in lwt_once never fail: the compare-and-swap of the caller that
\* was chosen finds what it has put there.
THEOREM OnceAssertsHold == OnceSpec => []AssertsHold
<1>1. OnceInv => AssertsHold
  BY DEF OnceInv
<1>2. QED
  BY <1>1, AlwaysOnceInv, PTL

\* No event fiber is left parked by lwt_once, whether init_fn returns or throws.
THEOREM NoEventFiberLeft == OnceSpec => []EventFibersOwned
<1>1. OnceInv => EventFibersOwned
  BY DEF OnceInv
<1>2. QED
  BY <1>1, AlwaysOnceInv, PTL

-----------------------------------------------------------------------------
LEMMA PromiseInit == OnceInit => OncePromise!Init
BY DEF OnceInit, OncePromise!Init

LEMMA PromiseStep == OnceInv /\ [OnceNext]_onceVars => [OncePromise!Next]_OncePromise!vars
<1> SUFFICES ASSUME OnceInv, [OnceNext]_onceVars PROVE [OncePromise!Next]_OncePromise!vars
  OBVIOUS
<1> DEFINE Status == CASE word = "init" -> "fresh"
                       [] word = "done" -> "done"
                       [] OTHER -> "busy"
           CallOf == [c \in Callers |->
                      CASE stage[c] \in {"none", "returned", "threw"} -> stage[c]
                        [] stage[c] \in {"spawn", "run"} -> "initializing"
                        [] stage[c] \in {"unwind", "unwound"} -> "failed"
                        [] OTHER -> "pending"]
<1> USE DEF OnceInv, OnceTypeOK, OnceGoto
\* A caller that changes its point changes its own call and no other.
<1>1. ASSUME NEW c \in Callers, NEW to \in OncePoints,
             stage' = [stage EXCEPT ![c] = to]
      PROVE  CallOf' = [CallOf EXCEPT ![c] =
                        CASE to \in {"none", "returned", "threw"} -> to
                          [] to \in {"spawn", "run"} -> "initializing"
                          [] to \in {"unwind", "unwound"} -> "failed"
                          [] OTHER -> "pending"]
  BY <1>1
<1>2. ASSUME NEW c \in Callers, Enter(c) PROVE OncePromise!Enter(c)
  BY <1>2 DEF Enter, OncePromise!Enter, OncePromise!Step, OncePromise!Outside
<1>3. ASSUME NEW c \in Callers, LoadDone(c) PROVE OncePromise!Return(c)
  BY <1>3 DEF LoadDone, OncePromise!Return, OncePromise!Step
<1>4. ASSUME NEW c \in Callers, LoadInit(c) \/ LoadFid(c) \/ ClaimFails(c) \/ WaitOver(c)
      PROVE  UNCHANGED OncePromise!vars
  BY <1>4 DEF LoadInit, LoadFid, ClaimFails, WaitOver, OncePromise!vars
<1>5. ASSUME NEW c \in Callers, Claim(c) PROVE OncePromise!Begin(c)
  BY <1>5 DEF Claim, OncePromise!Begin, OncePromise!Step
<1>6. ASSUME NEW c \in Callers, Publish(c) PROVE UNCHANGED OncePromise!vars
  <2>1. word = "spin" /\ word' \in Fids
    BY <1>6 DEF Publish, AssertsHold
  <2>2. Status' = Status
    BY <2>1, OnceAssumption DEF Statuses
  <2>3. QED
    BY <1>6, <2>2 DEF Publish, OncePromise!vars
<1>7. ASSUME NEW c \in Callers, InitReturns(c) PROVE OncePromise!Complete(c)
  BY <1>7 DEF InitReturns, OncePromise!Complete, OncePromise!Step
<1>8. ASSUME NEW c \in Callers, InitThrows(c) PROVE OncePromise!Fail(c)
  BY <1>8 DEF InitThrows, OncePromise!Fail, OncePromise!Step
<1>9. ASSUME NEW c \in Callers, Destroy(c) PROVE UNCHANGED OncePromise!vars
  BY <1>9 DEF Destroy, OncePromise!vars
<1>10. ASSUME NEW c \in Callers, Destroyed(c)
       PROVE  OncePromise!Throw(c) \/ UNCHANGED OncePromise!vars
  BY <1>10 DEF Destroyed, OncePromise!Throw, OncePromise!Step, OncePromise!vars
<1>11. ASSUME NEW c \in Callers, WaitCanceled(c) PROVE OncePromise!Throw(c)
  BY <1>11 DEF WaitCanceled, OncePromise!Throw, OncePromise!Step
<1>12. ASSUME NEW f \in Fids, EventFiberEnds(f) PROVE UNCHANGED OncePromise!vars
  BY <1>12 DEF EventFiberEnds, OncePromise!vars
<1>13. CASE UNCHANGED onceVars
  BY <1>13 DEF onceVars, OncePromise!vars
<1>14. QED
  BY <1>2, <1>3, <1>4, <1>5, <1>6, <1>7, <1>8, <1>9, <1>10, <1>11, <1>12, <1>13
  DEF OnceNext, OnceStep, Chosen, OncePromise!Next

\* lwt_once implements Once: one caller at a time attempts the initialization, it
\* completes at most once, and nobody returns before that.
THEOREM LwtOnceImplementsOnce == OnceSpec => ImplementsOnce
BY PromiseInit, PromiseStep, AlwaysOnceInv, PTL DEF OnceSpec, ImplementsOnce, OncePromise!Spec

-----------------------------------------------------------------------------
(* The debug choke.                                                         *)

\* What an executor read before it adds itself left room for one to be spared.
SeenLeavesRoom ==
    \A e \in Executors : at[e] = "cas" => expected[e] < Cardinality(Executors) - 1

\* The inductive invariant.
ChokeInv == OneIsSpared /\ SeenLeavesRoom

\* There is a number of executors, one at least.
LEMMA ExecutorsCount == IsFiniteSet(Executors) /\ Cardinality(Executors) \in Nat \ {0}
BY ChokeAssumption, FS_CardinalityType, FS_EmptySet

\* And of those that are counted as sleeping.
LEMMA CountedFinite == IsFiniteSet(Counted) /\ Cardinality(Counted) \in Nat
BY ChokeAssumption, FS_Subset, FS_CardinalityType DEF Counted

\* At first none sleeps.
LEMMA ChokeInvInit == ChokeInit => ChokeInv
<1> SUFFICES ASSUME ChokeInit PROVE ChokeInv
  OBVIOUS
<1>1. Counted = {}
  BY DEF ChokeInit, Counted
<1>2. Cardinality(Counted) = 0
  BY <1>1, FS_EmptySet
<1>3. 0 \in 0 .. Cardinality(Executors) /\ 0 \in 0 .. MaxQueue
  BY ExecutorsCount, ChokeAssumption
<1>4. ChokeTypeOK
  BY <1>3 DEF ChokeInit, ChokeTypeOK, ChokePoints
<1>5. QED
  BY <1>2, <1>4, ExecutorsCount DEF ChokeInit, ChokeInv, OneIsSpared, SeenLeavesRoom

-----------------------------------------------------------------------------
\* The count is right as long as it follows the executors in and out.
Counts(e, to) ==
    count' = count + (IF to \in {"choke", "choked", "uncount"} THEN 1 ELSE 0)
                   - (IF e \in Counted THEN 1 ELSE 0)

\* One executor moves, and the count follows it.
LEMMA CountFollows ==
    ASSUME ChokeTypeOK, count = Cardinality(Counted), NEW e \in Executors, NEW to \in ChokePoints,
           at' = [at EXCEPT ![e] = to], Counts(e, to)
    PROVE  count' = Cardinality(Counted')
<1> DEFINE in == to \in {"choke", "choked", "uncount"}
<1>1. Counted' = IF in THEN Counted \union {e} ELSE Counted \ {e}
  BY DEF ChokeTypeOK, Counted
<1>2. CASE in
  BY <1>1, <1>2, CountedFinite, FS_AddElement DEF Counts
<1>3. CASE ~in
  BY <1>1, <1>3, CountedFinite, FS_RemoveElement DEF Counts
<1>4. QED
  BY <1>2, <1>3

\* A move that neither enters nor leaves the counted ones, nor adds.
LEMMA MovesApart ==
    ASSUME ChokeInv, NEW e \in Executors, NEW to \in ChokePoints \ {"cas"},
           at' = [at EXCEPT ![e] = to], UNCHANGED <<count, expected>>, ChokeTypeOK',
           e \in Counted <=> to \in {"choke", "choked", "uncount"}
    PROVE  ChokeInv'
<1> USE DEF ChokeInv, OneIsSpared
<1>1. Counts(e, to)
  BY DEF Counts, ChokeTypeOK
<1>2. count' = Cardinality(Counted')
  BY <1>1, CountFollows
<1>3. SeenLeavesRoom'
  BY DEF SeenLeavesRoom, ChokeTypeOK
<1>4. QED
  BY <1>2, <1>3

\* An executor adds itself only if the count is still what it read, which left room.
LEMMA ChokeInvStep == ChokeInv /\ [ChokeNext]_chokeVars => ChokeInv'
<1> SUFFICES ASSUME ChokeInv, [ChokeNext]_chokeVars PROVE ChokeInv'
  OBVIOUS
<1> USE DEF ChokeInv, OneIsSpared, callVars
<1>1. ASSUME NEW e \in Executors, ReadChokeFutex(e) PROVE ChokeInv'
  <2>1. ChokeTypeOK'
    BY <1>1 DEF ReadChokeFutex, ChokeGoto, ChokeTypeOK, ChokePoints
  <2>2. QED
    BY <1>1, <2>1, MovesApart DEF ReadChokeFutex, ChokeGoto, Counted, ChokePoints
<1>2. ASSUME NEW e \in Executors, TestEnabled(e) PROVE ChokeInv'
  <2>1. ChokeTypeOK'
    BY <1>2 DEF TestEnabled, ChokeGoto, ChokeTypeOK, ChokePoints
  <2>2. QED
    BY <1>2, <2>1, MovesApart DEF TestEnabled, ChokeGoto, Counted, ChokePoints
<1>3. ASSUME NEW e \in Executors, ReadCount(e) PROVE ChokeInv'
  <2> DEFINE to == IF count >= Cardinality(Executors) - 1 THEN "dequeue" ELSE "cas"
  <2>1. ChokeTypeOK'
    BY <1>3 DEF ReadCount, ChokeGoto, ChokeTypeOK, ChokePoints
  <2>2. Counts(e, to)
    BY <1>3 DEF ReadCount, ChokeGoto, Counts, Counted, ChokeTypeOK
  <2>3. count' = Cardinality(Counted')
    BY <1>3, <2>2, CountFollows DEF ReadCount, ChokeGoto, ChokePoints
  <2>4. SeenLeavesRoom'
    BY <1>3, ExecutorsCount DEF ReadCount, ChokeGoto, SeenLeavesRoom, ChokeTypeOK
  <2>5. QED
    BY <1>3, <2>1, <2>3, <2>4 DEF ReadCount
<1>4. ASSUME NEW e \in Executors, CountIn(e) PROVE ChokeInv'
  <2> DEFINE to == IF count = expected[e] THEN "choke" ELSE "top"
  <2>1. count' <= Cardinality(Executors) - 1
    BY <1>4, ExecutorsCount DEF CountIn, ChokeGoto, SeenLeavesRoom, ChokeTypeOK
  <2>2. ChokeTypeOK'
    BY <1>4, <2>1, ExecutorsCount DEF CountIn, ChokeGoto, ChokeTypeOK, ChokePoints
  <2>3. Counts(e, to)
    BY <1>4 DEF CountIn, ChokeGoto, Counts, Counted, ChokeTypeOK
  <2>4. count' = Cardinality(Counted')
    BY <1>4, <2>3, CountFollows DEF CountIn, ChokeGoto, ChokePoints
  <2>5. SeenLeavesRoom'
    BY <1>4 DEF CountIn, ChokeGoto, SeenLeavesRoom, ChokeTypeOK
  <2>6. QED
    BY <2>1, <2>2, <2>4, <2>5
<1>5. ASSUME NEW e \in Executors, Choke(e) PROVE ChokeInv'
  <2>1. ChokeTypeOK'
    BY <1>5 DEF Choke, ChokeGoto, ChokeTypeOK, ChokePoints
  <2>2. QED
    BY <1>5, <2>1, MovesApart DEF Choke, ChokeGoto, Counted, ChokePoints
<1>6. ASSUME NEW e \in Executors, CountOut(e) PROVE ChokeInv'
  <2>1. e \in Counted
    BY <1>6 DEF CountOut, ChokeGoto, Counted
  <2>2. count >= 1
    BY <2>1, CountedFinite, FS_EmptySet
  <2>3. ChokeTypeOK'
    BY <1>6, <2>2, ExecutorsCount DEF CountOut, ChokeGoto, ChokeTypeOK, ChokePoints
  <2>4. Counts(e, "top")
    BY <1>6, <2>1 DEF CountOut, Counts, ChokeTypeOK
  <2>5. count' = Cardinality(Counted')
    BY <1>6, <2>4, CountFollows DEF CountOut, ChokeGoto, ChokePoints
  <2>6. SeenLeavesRoom'
    BY <1>6 DEF CountOut, ChokeGoto, SeenLeavesRoom, ChokeTypeOK
  <2>7. QED
    BY <1>6, <2>2, <2>3, <2>5, <2>6, ExecutorsCount DEF CountOut, ChokeTypeOK
<1>7. ASSUME NEW e \in Executors, Dequeue(e) PROVE ChokeInv'
  <2>1. ChokeTypeOK'
    BY <1>7, ChokeAssumption DEF Dequeue, ChokeGoto, ChokeTypeOK, ChokePoints
  <2>2. QED
    BY <1>7, <2>1, MovesApart DEF Dequeue, ChokeGoto, Counted, ChokePoints
<1>8. ASSUME NEW e \in Executors, Wait(e) PROVE ChokeInv'
  <2>1. ChokeTypeOK'
    BY <1>8 DEF Wait, ChokeGoto, ChokeTypeOK, ChokePoints
  <2>2. QED
    BY <1>8, <2>1, MovesApart DEF Wait, ChokeGoto, Counted, ChokePoints
<1>9. ASSUME NEW e \in Executors, RunEnds(e) PROVE ChokeInv'
  <2>1. ChokeTypeOK'
    BY <1>9 DEF RunEnds, ChokeGoto, ChokeTypeOK, ChokePoints
  <2>2. QED
    BY <1>9, <2>1, MovesApart DEF RunEnds, ChokeGoto, Counted, ChokePoints
<1>10. ASSUME Enqueue PROVE ChokeInv'
  <2>1. queue' \in 0 .. MaxQueue /\ exec_current' = {}
    BY <1>10, ChokeAssumption DEF Enqueue, ChokeTypeOK
  <2>2. CASE \E e \in Executors : at[e] = "idle"
    <3>1. PICK e \in Executors : ChokeGoto(e, "idle", "top")
      BY <1>10, <2>2 DEF Enqueue
    <3>2. ChokeTypeOK'
      BY <1>10, <2>1, <3>1 DEF Enqueue, ChokeGoto, ChokeTypeOK, ChokePoints
    <3>3. QED
      BY <1>10, <3>1, <3>2, MovesApart DEF Enqueue, ChokeGoto, Counted, ChokePoints
  <2>3. CASE ~ \E e \in Executors : at[e] = "idle"
    BY <1>10, <2>1, <2>3 DEF Enqueue, ChokeTypeOK, Counted, SeenLeavesRoom
  <2>4. QED
    BY <2>2, <2>3
<1>11. ASSUME NEW on \in BOOLEAN, ChokeFibers(on) PROVE ChokeInv'
  BY <1>11 DEF ChokeFibers, ChokeTypeOK, Counted, SeenLeavesRoom
<1>12. CASE Bump
  BY <1>12 DEF Bump, ChokeTypeOK, Counted, SeenLeavesRoom
<1>13. CASE StoreEnabled
  BY <1>13 DEF StoreEnabled, ChokeTypeOK, Counted, SeenLeavesRoom
<1>14. CASE WakeChoked
  <2>1. ChokeTypeOK'
    BY <1>14 DEF WakeChoked, ChokeTypeOK, ChokePoints
  <2>2. Counted' = Counted
    BY <1>14 DEF WakeChoked, ChokeTypeOK, Counted
  <2>3. SeenLeavesRoom'
    BY <1>14 DEF WakeChoked, ChokeTypeOK, SeenLeavesRoom
  <2>4. QED
    BY <1>14, <2>1, <2>2, <2>3 DEF WakeChoked
<1>15. CASE UNCHANGED chokeVars
  BY <1>15 DEF chokeVars, ChokeTypeOK, Counted, SeenLeavesRoom
<1>16. QED
  BY <1>1, <1>2, <1>3, <1>4, <1>5, <1>6, <1>7, <1>8, <1>9, <1>10, <1>11, <1>12, <1>13,
     <1>14, <1>15 DEF ChokeNext, Looks, Calls

\* lwt_debug_choke_fibers(true) leaves one executor to run fibers, whoever calls it and
\* however often, and debug_choke_count is the number of those that it stopped.
THEOREM OneExecutorIsSpared == ChokeSpec => []OneIsSpared
<1>1. ChokeInv => OneIsSpared
  BY DEF ChokeInv
<1>2. QED
  BY <1>1, ChokeInvInit, ChokeInvStep, PTL DEF ChokeSpec

-----------------------------------------------------------------------------
\* A sleeper whose futex has moved on is seen to: inductive with the types.
LEMMA ChokedIsWokenStep ==
    ASSUME ChokeTypeOK, ChokedIsWoken, [ChokeNext]_chokeVars
    PROVE  ChokedIsWoken'
<1> USE DEF ChokedIsWoken, ChokeTypeOK, callVars
<1>1. ASSUME NEW e \in Executors, Looks(e) \/ RunEnds(e) PROVE ChokedIsWoken'
  BY <1>1 DEF Looks, RunEnds, ReadChokeFutex, TestEnabled, ReadCount, CountIn, Choke,
              CountOut, Dequeue, Wait, ChokeGoto
<1>2. CASE Enqueue
  BY <1>2 DEF Enqueue, ChokeGoto
<1>3. ASSUME NEW on \in BOOLEAN, ChokeFibers(on) PROVE ChokedIsWoken'
  BY <1>3 DEF ChokeFibers
<1>4. CASE Calls
  BY <1>4 DEF Calls, Bump, StoreEnabled, WakeChoked
<1>5. CASE UNCHANGED chokeVars
  BY <1>5 DEF chokeVars
<1>6. QED
  BY <1>1, <1>2, <1>3, <1>4, <1>5 DEF ChokeNext

\* An executor that sleeps with a futex value of the past has its wake-up on its way: between
\* the increment and the FUTEX_WAKE of a call, the call is still to wake whoever slept through
\* it.  An executor that sleeps with the present value is not spoken of.
THEOREM StaleSleeperIsWoken == ChokeSpec => []ChokedIsWoken
<1>1. ChokeInit => ChokedIsWoken
  BY DEF ChokeInit, ChokedIsWoken
<1>2. ChokeInv => ChokeTypeOK
  BY DEF ChokeInv, OneIsSpared
<1>3. QED
  BY <1>1, <1>2, ChokedIsWokenStep, ChokeInvInit, ChokeInvStep, PTL DEF ChokeSpec
=============================================================================
