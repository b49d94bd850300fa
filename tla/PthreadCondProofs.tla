--------------------------- MODULE PthreadCondProofs ---------------------------
(***************************************************************************)
(* Proofs about PthreadCond, for any threads and any number of waits.      *)
(*                                                                         *)
(* MutexHeld is not inductive.  A wait gives the mutex up with one unlock, *)
(* so it must be held once where a wait is; and a sub fiber takes the      *)
(* mutex for its thread, so there must be none but where the thread waits  *)
(* for it.                                                                 *)
(***************************************************************************)
EXTENDS PthreadCond, TLAPS

Points == {"idle", "locks", "in", "timed", "registers", "unlocks", "sleeps", "relocks",
           "regains", "cancels", "joins", "unregisters"}
WaitPoints == {"registers", "unlocks", "cancels", "joins", "unregisters"}

MutexType ==
    /\ lock_count \in Nat
    /\ pc \in [Threads -> Points]
    /\ sub \in [Threads -> {"none", "joins", "acquired", "late"}]

\* In a wait that has the mutex it is held once.
WaitHoldsOnce == \A t \in Threads : pc[t] \in WaitPoints => lock_count = 1

\* Only a thread in a timed lock has a sub fiber.
SubWhileTimed == \A t \in Threads : sub[t] # "none" => pc[t] = "timed"

MutexInv == MutexType /\ MutexHeld /\ WaitHoldsOnce /\ SubWhileTimed

LEMMA MutexInvInit == Init => MutexInv
BY DEF Init, MutexInv, MutexType, MutexHeld, WaitHoldsOnce, SubWhileTimed, Owns, Holds,
       Points, WaitPoints

\* While nobody holds the mutex, no thread is where its code takes it to have it.
LEMMA FreeIsNobodys ==
    ASSUME MutexInv, lock_count = 0, NEW t \in Threads
    PROVE  ~Holds(t)
BY DEF MutexInv, MutexHeld, Owns

\* Two threads never hold the mutex.
LEMMA OneHolds ==
    ASSUME MutexInv, NEW t \in Threads, NEW u \in Threads, Holds(t), Holds(u)
    PROVE  t = u
BY DEF MutexInv, MutexHeld, Owns

\* A step of one thread that is not about the mutex.
LEMMA MutexApart ==
    ASSUME MutexInv, NEW t \in Threads, UNCHANGED <<mutexVars, sub>>,
           NEW where \in Points, pc' = [pc EXCEPT ![t] = where],
           where \in WaitPoints \cup {"in"} <=> pc[t] \in WaitPoints \cup {"in"},
           where \in WaitPoints => lock_count = 1,
           pc[t] # "timed" \/ sub[t] = "none"
    PROVE  MutexInv'
<1> USE DEF MutexInv, mutexVars
<1>1. MutexType'
  BY DEF MutexType
<1>2. ASSUME NEW u \in Threads PROVE Owns(u)' <=> Holds(u)'
  <2>1. Owns(u)' = Owns(u)
    BY DEF Owns
  <2>2. Holds(u)' <=> Holds(u)
    BY DEF MutexType, Holds, WaitPoints
  <2> QED BY <2>1, <2>2 DEF MutexHeld
<1>3. WaitHoldsOnce'
  BY DEF MutexType, WaitHoldsOnce
<1>4. SubWhileTimed'
  BY DEF MutexType, SubWhileTimed
<1> QED BY <1>1, <1>2, <1>3, <1>4 DEF MutexHeld

\* A thread takes the free mutex and goes on where it is held once.
LEMMA MutexTaken ==
    ASSUME MutexInv, NEW t \in Threads, LockExclusive(t), UNCHANGED sub,
           NEW where \in WaitPoints \cup {"in"}, pc' = [pc EXCEPT ![t] = where],
           pc[t] # "timed"
    PROVE  MutexInv'
<1> USE DEF MutexInv, LockExclusive
<1>1. MutexType'
  BY DEF MutexType, Points, WaitPoints
<1>2. ASSUME NEW u \in Threads PROVE Owns(u)' <=> Holds(u)'
  <2>1. ~Holds(u)
    BY FreeIsNobodys
  <2>2. Holds(u)' <=> u = t
    BY <2>1 DEF MutexType, Holds, WaitPoints
  <2>3. Owns(u)' <=> u = t
    BY DEF Owns
  <2> QED BY <2>2, <2>3
<1>3. WaitHoldsOnce'
  BY DEF WaitHoldsOnce
<1>4. SubWhileTimed'
  BY DEF MutexType, SubWhileTimed
<1> QED BY <1>1, <1>2, <1>3, <1>4 DEF MutexHeld

\* The mutex, held once, is given up.
LEMMA MutexGivenUp ==
    ASSUME MutexInv, NEW t \in Threads, lock_count = 1, FiberUnlock, UNCHANGED sub,
           pc[t] \in {"in", "unlocks"},
           NEW where \in {"idle", "sleeps"}, pc' = [pc EXCEPT ![t] = where]
    PROVE  MutexInv'
<1> USE DEF MutexInv, FiberUnlock
<1>1. MutexType'
  BY DEF MutexType, Points
<1>2. ASSUME NEW u \in Threads PROVE ~Owns(u)' /\ ~Holds(u)'
  <2>1. Holds(t)
    BY DEF Holds
  <2>2. u # t => ~Holds(u)
    BY <2>1, OneHolds
  <2>3. sub[t] = "none"
    BY DEF MutexType, SubWhileTimed
  <2> QED BY <2>2, <2>3 DEF MutexType, Holds, Owns
<1>3. WaitHoldsOnce'
  BY <1>2 DEF WaitHoldsOnce, Holds, WaitPoints
<1>4. SubWhileTimed'
  BY DEF MutexType, SubWhileTimed
<1> QED BY <1>1, <1>2, <1>3, <1>4 DEF MutexHeld

LEMMA MutexInvStep == MutexInv /\ [Next]_vars => MutexInv'
<1> SUFFICES ASSUME MutexInv, [Next]_vars PROVE MutexInv'
  OBVIOUS
<1> USE DEF Goto, vars
<1>1. ASSUME UNCHANGED <<mutexVars, pc, sub>> PROVE MutexInv'
  BY <1>1 DEF MutexInv, MutexType, MutexHeld, WaitHoldsOnce, SubWhileTimed, Owns, Holds, mutexVars
<1>2. ASSUME NEW t \in Threads, ThreadStep(t) PROVE MutexInv'
  <2>1. pc[t] \in Points /\ lock_count \in Nat
    BY DEF MutexInv, MutexType
  <2>2. (sub[t] # "none" => pc[t] = "timed") /\ (pc[t] \in WaitPoints => lock_count = 1)
    BY DEF MutexInv, SubWhileTimed, WaitHoldsOnce
  <2>3. CASE Lock(t)
    BY <2>2, <2>3, MutexApart DEF Lock, Points, WaitPoints, mutexVars
  <2>4. CASE Locked(t)
    BY <2>4, MutexTaken DEF Locked, WaitPoints
  <2>5. CASE LockAgain(t)
    <3>1. Holds(t)
      BY <2>5 DEF LockAgain, Holds
    <3>2. lock_count > 0 /\ lock_count' = lock_count + 1 /\ UNCHANGED <<locked_fiber, pc, sub>>
      BY <2>5, <3>1 DEF LockAgain, MutexInv, MutexHeld, Owns
    <3>3. \A u \in Threads : pc[u] \notin WaitPoints
      <4> SUFFICES ASSUME NEW u \in Threads, pc[u] \in WaitPoints PROVE FALSE
        OBVIOUS
      <4>1. u = t
        BY <3>1, OneHolds DEF Holds, WaitPoints
      <4> QED BY <2>5, <4>1 DEF LockAgain, WaitPoints
    <3> QED BY <2>1, <3>2, <3>3
            DEF MutexInv, MutexType, MutexHeld, WaitHoldsOnce, SubWhileTimed, Owns, Holds
  <2>6. CASE Unlock(t)
    <3>1. CASE lock_count = 1
      BY <2>6, <3>1, MutexGivenUp DEF Unlock
    <3>2. CASE lock_count # 1
      <4>1. Holds(t)
        BY <2>6 DEF Unlock, Holds
      <4>2. lock_count > 0
        BY <4>1 DEF MutexInv, MutexHeld, Owns
      <4>3. lock_count' > 0 /\ lock_count' \in Nat /\ UNCHANGED <<locked_fiber, pc, sub>>
        BY <2>1, <2>6, <3>2, <4>2 DEF Unlock, FiberUnlock, MutexInv, MutexType
      <4>4. \A u \in Threads : pc[u] \notin WaitPoints
        BY <3>2 DEF MutexInv, WaitHoldsOnce
      <4> QED BY <4>2, <4>3, <4>4
              DEF MutexInv, MutexType, MutexHeld, WaitHoldsOnce, SubWhileTimed, Owns, Holds
    <3> QED BY <3>1, <3>2
  <2>7. CASE Trylock(t)
    BY <2>7, MutexTaken DEF Trylock, WaitPoints
  <2>8. CASE Timedlock(t)
    BY <2>2, <2>8 DEF Timedlock, MutexInv, MutexType, MutexHeld, WaitHoldsOnce, SubWhileTimed,
                      Owns, Holds, Points, WaitPoints, mutexVars
  <2>9. CASE SubLocked(t)
    <3>1. lock_count = 0 /\ lock_count' = 1 /\ locked_fiber' = t /\ UNCHANGED pc
      BY <2>9 DEF SubLocked, LockExclusive
    <3>2. \A u \in Threads : ~Holds(u)
      BY <3>1, FreeIsNobodys
    <3>3. \A u \in Threads : Holds(u)' <=> u = t
      BY <2>9, <3>1, <3>2 DEF SubLocked, Holds, MutexInv, MutexType
    <3> QED BY <2>9, <3>1, <3>3
            DEF SubLocked, MutexInv, MutexType, MutexHeld, WaitHoldsOnce, SubWhileTimed, Owns
  <2>10. CASE SubAlarm(t)
    BY <2>10 DEF SubAlarm, MutexInv, MutexType, MutexHeld, WaitHoldsOnce, SubWhileTimed, Owns,
                 Holds, mutexVars
  <2>11. CASE TimedlockReturns(t)
    BY <2>11 DEF TimedlockReturns, MutexInv, MutexType, MutexHeld, WaitHoldsOnce,
                 SubWhileTimed, Owns, Holds, Points, WaitPoints, mutexVars
  <2>12. CASE Wait(t)
    BY <2>2, <2>12, MutexApart DEF Wait, Points, WaitPoints, mutexVars
  <2>13. CASE Register(t)
    BY <2>2, <2>13, MutexApart DEF Register, Points, WaitPoints, mutexVars
  <2>14. CASE WaitUnlocks(t)
    BY <2>2, <2>14, MutexGivenUp DEF WaitUnlocks, WaitPoints
  <2>15. CASE Wakes(t)
    BY <2>2, <2>15, MutexApart DEF Wakes, Points, WaitPoints, mutexVars
  <2>16. CASE Relocks(t)
    BY <2>16, MutexTaken DEF Relocks, WaitPoints
  <2>17. CASE Thrown(t)
    <3>1. Owns(t) <=> Holds(t)
      BY DEF MutexInv, MutexHeld
    <3>2. sub[t] = "none"
      BY <2>2, <2>17 DEF Thrown
    <3>3. Holds(t) <=> pc[t] = "unlocks"
      BY <2>17, <3>2 DEF Thrown, Holds
    <3> QED BY <2>2, <2>17, <3>1, <3>2, <3>3, MutexApart DEF Thrown, Points, WaitPoints, mutexVars
  <2>18. CASE Regains(t)
    BY <2>18, MutexTaken DEF Regains, WaitPoints
  <2>19. CASE CancelsEvent(t)
    BY <2>2, <2>19, MutexApart DEF CancelsEvent, Points, WaitPoints, mutexVars
  <2>20. CASE JoinsEvent(t)
    BY <2>2, <2>20, MutexApart DEF JoinsEvent, Points, WaitPoints, mutexVars
  <2>21. CASE Unregisters(t)
    BY <2>2, <2>21, MutexApart DEF Unregisters, Points, WaitPoints, mutexVars
  <2>22. CASE WaitCanceled(t) \/ RegisterCanceled(t) \/ Signal(t) \/ Broadcast(t) \/ Cancel(t)
    BY <1>1, <2>22 DEF WaitCanceled, RegisterCanceled, Signal, Broadcast, Cancel
  <2> QED BY <1>2, <2>3, <2>4, <2>5, <2>6, <2>7, <2>8, <2>9, <2>10, <2>11, <2>12, <2>13, <2>14,
             <2>15, <2>16, <2>17, <2>18, <2>19, <2>20, <2>21, <2>22
          DEF ThreadStep, Proceed, Acquire
<1>3. ASSUME NEW e \in Events, EventStep(e) \/ MonitorStep(e) PROVE MutexInv'
  BY <1>1, <1>3 DEF EventStep, EventEnds, EventTimesOut, MonitorStep, MonitorRemoves, MonitorEnds
<1> QED BY <1>1, <1>2, <1>3 DEF Next

\* A thread has the mutex exactly where its code takes it to have it: however a wait ends,
\* it ends with the mutex, and no thread is locked out by a lock that nobody knows of.
THEOREM MutexIsHeld == Spec => []MutexHeld
<1>1. MutexInv => MutexHeld
  BY DEF MutexInv
<1> QED BY <1>1, MutexInvInit, MutexInvStep, PTL DEF Spec

------------------------------------------------------------------------------
(* Who sleeps can be found.  The monitors and the handlers remove entries   *)
(* by key, but only their own; what is left to show is that no two waits    *)
(* share an event fiber, and that an entry is in the map before its thread  *)
(* gives the mutex up.                                                      *)

InWait == {"registers", "unlocks", "sleeps", "relocks", "regains", "cancels", "joins",
           "unregisters"}
EventStates == {"none", "waits", "canceled", "ended"}

WaitType ==
    /\ pc \in [Threads -> Points]
    /\ wait \in [Threads -> Events \cup {0}]
    /\ event \in [Events -> EventStates]
    /\ map = [k \in DOMAIN map |-> map[k]]
    /\ \A k \in DOMAIN map : map[k] \in Events
    /\ \A t \in Threads : pc[t] \in InWait => wait[t] \in Events

\* A thread's event fiber has been started and is no other thread's.
WaitsAreOwn ==
    /\ \A t \in Threads : wait[t] # 0 => event[wait[t]] # "none"
    /\ \A t, u \in Threads : wait[t] = wait[u] /\ wait[t] # 0 => t = u

Indexed == \A t \in Threads :
    pc[t] \in {"unlocks", "sleeps"} /\ event[wait[t]] = "waits" =>
        \E k \in DOMAIN map : map[k] = wait[t]

WaitInv == WaitType /\ WaitsAreOwn /\ Indexed

LEMMA InMapHasKey ==
    ASSUME map = [k \in DOMAIN map |-> map[k]], NEW e
    PROVE  InMap(e) <=> \E k \in DOMAIN map : map[k] = e
BY DEF InMap, Range

LEMMA WaitInvInit == Init => WaitInv
BY DEF Init, WaitInv, WaitType, WaitsAreOwn, Indexed, Events, Points, InWait, EventStates

\* What Unlist leaves.
LEMMA Unlisted ==
    ASSUME NEW keys, Unlist(keys)
    PROVE  /\ DOMAIN map' = DOMAIN map \ keys
           /\ \A k \in DOMAIN map' : map'[k] = map[k]
           /\ map' = [k \in DOMAIN map' |-> map'[k]]
BY DEF Unlist, Restrict

\* A step that starts no event fiber, moves a thread from one point of its wait to another
\* but not to one where it must be in the map, and takes no entry from the map.
LEMMA WaitApart ==
    ASSUME WaitInv, NEW t \in Threads, UNCHANGED <<wait, event, map>>,
           NEW where \in Points, pc' = [pc EXCEPT ![t] = where],
           where \in InWait => pc[t] \in InWait,
           where \in {"unlocks", "sleeps"} => pc[t] \in {"unlocks", "sleeps"}
    PROVE  WaitInv'
<1> USE DEF WaitInv
<1>1. WaitType'
  BY DEF WaitType
<1>2. WaitsAreOwn'
  BY DEF WaitsAreOwn
<1>3. Indexed'
  BY DEF WaitType, Indexed
<1> QED BY <1>1, <1>2, <1>3

\* Event fibers are canceled or end, waits are left, and entries go that are not of one that still waits.
LEMMA WaitEnds ==
    ASSUME WaitInv, UNCHANGED wait, pc' \in [Threads -> Points],
           \A u \in Threads : pc'[u] = pc[u] \/ pc'[u] = "in",
           event' \in [Events -> EventStates],
           \A e \in Events : event'[e] = "waits" => event[e] = "waits",
           \A e \in Events : event[e] # "none" => event'[e] # "none",
           NEW keys, Unlist(keys),
           \A k \in keys \cap DOMAIN map, t \in Threads :
               pc[t] \in {"unlocks", "sleeps"} /\ wait[t] = map[k] => event'[map[k]] # "waits"
    PROVE  WaitInv'
<1> USE DEF WaitInv
<1>1. WaitType'
  BY Unlisted DEF WaitType, InWait
<1>2. WaitsAreOwn'
  BY DEF WaitType, WaitsAreOwn
<1>3. ASSUME NEW t \in Threads, pc'[t] \in {"unlocks", "sleeps"}, event'[wait[t]] = "waits"
      PROVE  \E k \in DOMAIN map' : map'[k] = wait[t]
  <2>1. wait[t] \in Events
    BY <1>3 DEF WaitType, InWait
  <2>2. PICK k \in DOMAIN map : map[k] = wait[t]
    BY <1>3, <2>1 DEF Indexed
  <2>3. k \notin keys
    BY <1>3, <2>2
  <2> QED BY <2>2, <2>3, Unlisted
<1> QED BY <1>1, <1>2, <1>3 DEF Indexed

LEMMA CanceledIsOver ==
    ASSUME NEW state \in EventStates
    PROVE  Canceled(state) \in {"canceled", "ended"}
BY DEF EventStates, Canceled

LEMMA WaitInvStep == WaitInv /\ [Next]_vars => WaitInv'
<1> SUFFICES ASSUME WaitInv, [Next]_vars PROVE WaitInv'
  OBVIOUS
<1> USE DEF Goto, vars
<1>1. ASSUME UNCHANGED <<pc, wait, event, map>> PROVE WaitInv'
  BY <1>1 DEF WaitInv, WaitType, WaitsAreOwn, Indexed
<1>2. ASSUME NEW t \in Threads, ThreadStep(t) PROVE WaitInv'
  <2> USE DEF fiberVars, mapVars
  <2>1. pc[t] \in Points /\ (pc[t] \in InWait => wait[t] \in Events)
    BY DEF WaitInv, WaitType
  <2>2. CASE Lock(t) \/ Locked(t) \/ Unlock(t) \/ Trylock(t) \/ Timedlock(t) \/ TimedlockReturns(t)
    BY <2>2, WaitApart DEF Lock, Locked, Unlock, Trylock, Timedlock, TimedlockReturns, Points, InWait
  <2>3. CASE LockAgain(t) \/ SubLocked(t) \/ SubAlarm(t) \/ WaitCanceled(t) \/ RegisterCanceled(t)
             \/ Cancel(t)
    BY <1>1, <2>3 DEF LockAgain, SubLocked, SubAlarm, WaitCanceled, RegisterCanceled, Cancel
  <2>4. CASE Wait(t)
    <3>1. PICK e \in Events : /\ event[e] = "none"
                              /\ event' = [event EXCEPT ![e] = "waits"]
                              /\ wait' = [wait EXCEPT ![t] = e]
      BY <2>4 DEF Wait
    <3>2. pc' = [pc EXCEPT ![t] = "registers"] /\ UNCHANGED map
      BY <2>4 DEF Wait
    <3>3. WaitType'
      BY <3>1, <3>2 DEF WaitInv, WaitType, Points, InWait, EventStates
    <3>4. \A u \in Threads : wait[u] # e
      BY <3>1 DEF WaitInv, WaitsAreOwn, Events
    <3>5. WaitsAreOwn'
      BY <3>1, <3>4 DEF WaitInv, WaitType, WaitsAreOwn, Events
    <3>6. Indexed'
      <4> SUFFICES ASSUME NEW u \in Threads, pc'[u] \in {"unlocks", "sleeps"},
                          event'[wait'[u]] = "waits"
                   PROVE  \E k \in DOMAIN map' : map'[k] = wait'[u]
        BY DEF Indexed
      <4>1. u # t /\ pc'[u] = pc[u]
        BY <3>2 DEF WaitInv, WaitType
      <4>2. wait'[u] = wait[u] /\ wait[u] \in Events /\ wait[u] # e
        BY <3>1, <3>4, <4>1 DEF WaitInv, WaitType, InWait
      <4>3. event[wait[u]] = "waits"
        BY <3>1, <4>2 DEF WaitInv, WaitType
      <4> QED BY <3>2, <4>1, <4>2, <4>3 DEF WaitInv, Indexed
    <3> QED BY <3>3, <3>5, <3>6 DEF WaitInv
  <2>5. CASE Register(t)
    <3>1. PICK k \in Keys :
              /\ \A j \in DOMAIN map : j < k
              /\ map' = [j \in DOMAIN map \cup {k} |-> IF j = k THEN wait[t] ELSE map[j]]
      BY <2>5 DEF Register, Enqueue
    <3>2. pc[t] = "registers" /\ pc' = [pc EXCEPT ![t] = "unlocks"] /\ UNCHANGED <<wait, event>>
      BY <2>5 DEF Register
    <3>3. k \notin DOMAIN map
      BY <3>1 DEF Keys
    <3>4. DOMAIN map' = DOMAIN map \cup {k} /\ map'[k] = wait[t]
      BY <3>1
    <3>5. \A j \in DOMAIN map : map'[j] = map[j]
      BY <3>1, <3>3
    <3>6. WaitType'
      BY <2>1, <3>1, <3>2 DEF WaitInv, WaitType, Points, InWait
    <3>7. WaitsAreOwn'
      BY <3>2 DEF WaitInv, WaitsAreOwn
    <3>8. Indexed'
      BY <3>2, <3>4, <3>5 DEF WaitInv, WaitType, Indexed
    <3> QED BY <3>6, <3>7, <3>8 DEF WaitInv
  <2>6. CASE WaitUnlocks(t) \/ Wakes(t) \/ Relocks(t) \/ Thrown(t) \/ Regains(t) \/ JoinsEvent(t)
    BY <2>6, WaitApart
       DEF WaitUnlocks, Wakes, Relocks, Thrown, Regains, JoinsEvent, Points, InWait
  <2>7. CASE CancelsEvent(t)
    <3>1. /\ pc[t] = "cancels" /\ pc' = [pc EXCEPT ![t] = "joins"] /\ UNCHANGED <<wait, map>>
          /\ event' = [event EXCEPT ![wait[t]] = Canceled(event[wait[t]])]
          /\ wait[t] \in Events
      BY <2>1, <2>7 DEF CancelsEvent, InWait
    <3>2. event[wait[t]] \in EventStates
      BY <3>1 DEF WaitInv, WaitType
    <3>3. WaitType'
      BY <3>1, <3>2, CanceledIsOver DEF WaitInv, WaitType, Points, InWait, EventStates
    <3>4. WaitsAreOwn'
      BY <3>1, <3>2, CanceledIsOver DEF WaitInv, WaitType, WaitsAreOwn, EventStates
    <3>5. Indexed'
      BY <3>1, <3>2, CanceledIsOver DEF WaitInv, WaitType, Indexed, InWait
    <3> QED BY <3>3, <3>4, <3>5 DEF WaitInv
  <2>8. CASE Unregisters(t)
    <3>1. /\ pc[t] = "unregisters" /\ pc' = [pc EXCEPT ![t] = "in"]
          /\ UNCHANGED <<wait, event>> /\ Unlist(Removed(wait[t]))
      BY <2>8 DEF Unregisters
    <3>2. wait[t] \in Events /\ wait[t] # 0
      BY <2>1, <3>1 DEF InWait, Events
    <3>3. ASSUME NEW k \in Removed(wait[t]), NEW u \in Threads,
                 pc[u] \in {"unlocks", "sleeps"}, wait[u] = map[k]
          PROVE  FALSE
      BY <3>1, <3>2, <3>3 DEF Removed, WaitInv, WaitsAreOwn
    <3>4. pc' \in [Threads -> Points] /\ \A u \in Threads : pc'[u] = pc[u] \/ pc'[u] = "in"
      BY <3>1 DEF WaitInv, WaitType, Points
    <3> QED BY <3>1, <3>3, <3>4, WaitEnds DEF WaitInv, WaitType
  <2>9. CASE Signal(t)
    <3>1. CASE UNCHANGED <<pc, wait, event, map>>
      BY <1>1, <3>1
    <3>2. ASSUME NEW k \in DOMAIN map, Unlist({k}), UNCHANGED <<pc, wait>>,
                 event' = [event EXCEPT ![map[k]] = Canceled(event[map[k]])]
          PROVE  WaitInv'
      <4>1. map[k] \in Events /\ event[map[k]] \in EventStates
        BY DEF WaitInv, WaitType
      <4> QED BY <3>2, <4>1, CanceledIsOver, WaitEnds DEF WaitInv, WaitType, EventStates
    <3> QED BY <2>9, <3>1, <3>2 DEF Signal
  <2>10. CASE Broadcast(t)
    <3> DEFINE listed == Range(map)
    <3>1. /\ event' = [e \in Events |-> IF e \in listed THEN Canceled(event[e]) ELSE event[e]]
          /\ UNCHANGED <<pc, wait>> /\ Unlist(DOMAIN map)
      BY <2>10 DEF Broadcast
    <3>2. \A k \in DOMAIN map : map[k] \in Events /\ map[k] \in listed
      BY DEF WaitInv, WaitType, Range
    <3>3. \A e \in Events : event[e] \in EventStates
      BY DEF WaitInv, WaitType
    <3> HIDE DEF listed
    <3> QED BY <3>1, <3>2, <3>3, CanceledIsOver, WaitEnds DEF WaitInv, WaitType, EventStates
  <2> QED BY <1>2, <2>2, <2>3, <2>4, <2>5, <2>6, <2>7, <2>8, <2>9, <2>10
          DEF ThreadStep, Proceed, Acquire
<1>3. ASSUME NEW e \in Events, EventStep(e) PROVE WaitInv'
  <2>1. event' = [event EXCEPT ![e] = "ended"] /\ UNCHANGED <<pc, wait, map>>
    BY <1>3 DEF EventStep, EventEnds, EventTimesOut, mapVars
  <2>2. WaitType'
    BY <2>1 DEF WaitInv, WaitType, EventStates
  <2>3. WaitsAreOwn'
    BY <2>1 DEF WaitInv, WaitType, WaitsAreOwn
  <2>4. Indexed'
    BY <2>1 DEF WaitInv, WaitType, Indexed, InWait
  <2> QED BY <2>2, <2>3, <2>4 DEF WaitInv
<1>4. ASSUME NEW e \in Events, MonitorRemoves(e) PROVE WaitInv'
  <2>1. event[e] = "ended" /\ Unlist(Removed(e)) /\ UNCHANGED <<pc, wait, event>>
    BY <1>4 DEF MonitorRemoves
  <2>2. \A k \in Removed(e) : event[map[k]] # "waits"
    BY <2>1 DEF Removed
  <2> QED BY <2>1, <2>2, WaitEnds DEF WaitInv, WaitType
<1>5. ASSUME NEW e \in Events, MonitorEnds(e) PROVE WaitInv'
  BY <1>1, <1>5 DEF MonitorEnds, mapVars
<1>6. CASE UNCHANGED vars
  BY <1>1, <1>6 DEF fiberVars, mapVars
<1> QED BY <1>2, <1>3, <1>4, <1>5, <1>6 DEF Next, MonitorStep

\* A sleeping thread can be found by the next signal: no monitor and no handler of another
\* wait takes its entry, although keys are used again.
THEOREM SleepersAreIndexed == Spec => []SleeperIsIndexed
<1>1. WaitInv => SleeperIsIndexed
  BY InMapHasKey DEF WaitInv, WaitType, Indexed, SleeperIsIndexed
<1> QED BY <1>1, WaitInvInit, WaitInvStep, PTL DEF Spec
==============================================================================
