------------------------------ MODULE PthreadCond ------------------------------
(***************************************************************************)
(* The mutexes and condition variables of src/pthread.c, on the fiber map  *)
(* of src/ifc.c.  A mutex, a condition variable and the map of a condition *)
(* variable are each a fiber that accepts calls, so that a call that is    *)
(* accepted is one step (IFC.tla has the calls themselves).                *)
(*                                                                         *)
(* A wait is an event fiber that the waiting thread joins: the map lists   *)
(* it, a signal takes the first listed one and cancels it, a time out ends *)
(* it.  For each entry a monitor fiber waits for the event fiber to end    *)
(* and then removes the entry, by its key, which may be in use again.      *)
(***************************************************************************)
EXTENDS Naturals, Functions

CONSTANTS Threads,        (* the threads, model values                      *)
          Waits,          (* bounds the waits: 1 .. Waits are event fibers  *)
          MaxSignals,     (* bounds the signals and broadcasts              *)
          MaxCount,       (* bounds lock_count; 1 for a normal mutex        *)
          MayTimeOut,     (* whether waits have a time limit                *)
          MayCancel       (* the threads that may be canceled               *)

ASSUME PthreadCondAssumption ==
    /\ Waits \in Nat /\ MaxSignals \in Nat /\ MaxCount \in Nat \ {0}
    /\ MayTimeOut \in BOOLEAN
    /\ MayCancel \subseteq Threads

VARIABLES locked_fiber,   (* the mutex: who holds it, or "none"             *)
          lock_count,     (* and how often                                  *)
          pc,             (* where each thread is                           *)
          sub,            (* of each thread, its timed lock's sub fiber     *)
          canceled,       (* of each thread, "no", "pending" or "thrown"    *)
          wait,           (* of each thread, the event fiber it waits with  *)
          event,          (* the event fibers                               *)
          monitor,        (* the monitor fiber of each one's entry          *)
          key,            (* the key of each one's entry                    *)
          map,            (* cond_event_map: the event fibers, by their key *)
          maps,           (* counts the maps: a broadcast makes a new one   *)
          home,           (* the map that each entry is of                  *)
          signals,        (* counts the signals and broadcasts              *)
          undefined       (* whether an uninitialized variable was used     *)

mutexVars == <<locked_fiber, lock_count>>
fiberVars == <<event, monitor>>
mapVars == <<key, map, maps, home>>
vars == <<mutexVars, pc, sub, canceled, wait, fiberVars, mapVars, signals, undefined>>

Events == 1 .. Waits
Keys == 1 .. Waits

Goto(t, where) == pc' = [pc EXCEPT ![t] = where]

Owns(t) == lock_count > 0 /\ locked_fiber = t

------------------------------------------------------------------------------
(* The mutex.  Its calls are uninterruptible, but for those of a wait.      *)

\* pthread_mutex_fiber_lock_exclusive, which is accepted while nobody holds the mutex.
LockExclusive(t) ==
    /\ lock_count = 0
    /\ locked_fiber' = t
    /\ lock_count' = 1

\* pthread_mutex_fiber_unlock.  The owner is not reset.
FiberUnlock == lock_count' = lock_count - 1 /\ UNCHANGED locked_fiber

\* pthread_mutex_lock of a thread that does not hold the mutex: it has been told so by the
\* first of its two calls.
Lock(t) ==
    /\ pc[t] = "idle"
    /\ Goto(t, "locks")
    /\ UNCHANGED <<mutexVars, sub, canceled, wait, fiberVars, mapVars, signals, undefined>>

Locked(t) ==
    /\ pc[t] = "locks"
    /\ LockExclusive(t)
    /\ Goto(t, "in")
    /\ UNCHANGED <<sub, canceled, wait, fiberVars, mapVars, signals, undefined>>

\* pthread_mutex_fiber_lock_recursive, of a recursive mutex.
LockAgain(t) ==
    /\ pc[t] = "in"
    /\ lock_count < MaxCount
    /\ lock_count' = lock_count + 1
    /\ UNCHANGED <<locked_fiber, pc, sub, canceled, wait, fiberVars, mapVars, signals, undefined>>

\* A try that fails changes nothing.
Trylock(t) ==
    /\ pc[t] = "idle"
    /\ LockExclusive(t)
    /\ Goto(t, "in")
    /\ UNCHANGED <<sub, canceled, wait, fiberVars, mapVars, signals, undefined>>

\* pthread_mutex_timedlock: a sub fiber locks the mutex for the thread, unless its alarm
\* cancels it first.  "sub" is what has become of it.
Timedlock(t) ==
    /\ pc[t] = "idle"
    /\ Goto(t, "timed")
    /\ sub' = [sub EXCEPT ![t] = "joins"]
    /\ UNCHANGED <<mutexVars, canceled, wait, fiberVars, mapVars, signals, undefined>>

SubLocked(t) ==
    /\ sub[t] = "joins"
    /\ LockExclusive(t)
    /\ sub' = [sub EXCEPT ![t] = "acquired"]
    /\ UNCHANGED <<pc, canceled, wait, fiberVars, mapVars, signals, undefined>>

SubAlarm(t) ==
    /\ sub[t] = "joins"
    /\ sub' = [sub EXCEPT ![t] = "late"]
    /\ UNCHANGED <<mutexVars, pc, canceled, wait, fiberVars, mapVars, signals, undefined>>

TimedlockReturns(t) ==
    /\ pc[t] = "timed" /\ sub[t] # "joins"
    /\ Goto(t, IF sub[t] = "acquired" THEN "in" ELSE "idle")
    /\ sub' = [sub EXCEPT ![t] = "none"]
    /\ UNCHANGED <<mutexVars, canceled, wait, fiberVars, mapVars, signals, undefined>>

Unlock(t) ==
    /\ pc[t] = "in"
    /\ FiberUnlock
    /\ Goto(t, IF lock_count = 1 THEN "idle" ELSE "in")
    /\ UNCHANGED <<sub, canceled, wait, fiberVars, mapVars, signals, undefined>>

------------------------------------------------------------------------------
(* The fiber map.                                                           *)

Canceled(state) == IF state = "ended" THEN "ended" ELSE "canceled"

\* ifc_fiber_map_fiber_enqueue: the key is the one after the last, or the first.
Enqueue(e) ==
    /\ \E k \in Keys :
        /\ k - 1 \in DOMAIN map \/ (DOMAIN map = {} /\ k = 1)
        /\ \A j \in DOMAIN map : j < k
        /\ map' = [j \in DOMAIN map \cup {k} |-> IF j = k THEN e ELSE map[j]]
        /\ key' = [key EXCEPT ![e] = k]
    /\ home' = [home EXCEPT ![e] = maps]
    /\ monitor' = [monitor EXCEPT ![e] = "waits"]
    /\ UNCHANGED maps

\* Slip: whatever entry has the key is removed.
Unvalidated(e) == {k \in DOMAIN map : k = key[e]}
\* Slip: the test of the entry is the wrong way round.
OthersOnly(e) == {k \in DOMAIN map : k = key[e] /\ map[k] # e}

\* The entries ifc_fiber_map_fiber_remove takes from the map, for the monitor of e: that
\* with its key, if it is its own (validate_monitor_fid).
Removed(e) == {k \in DOMAIN map : k = key[e] /\ map[k] = e}

Unlist(keys) == map' = Restrict(map, DOMAIN map \ keys)

\* ifc_fiber_map_monitor_fiber.  It may have called when it is canceled.
MonitorRemoves(e) ==
    /\ monitor[e] \in {"waits", "canceled"} /\ event[e] = "ended"
    /\ home[e] = maps
    /\ Unlist(Removed(e))
    /\ monitor' = [monitor EXCEPT ![e] = "ended"]
    /\ UNCHANGED <<mutexVars, pc, sub, canceled, wait, event, key, maps, home, signals, undefined>>

MonitorEnds(e) ==
    /\ monitor[e] = "canceled"
    /\ monitor' = [monitor EXCEPT ![e] = "ended"]
    /\ UNCHANGED <<mutexVars, pc, sub, canceled, wait, event, mapVars, signals, undefined>>

------------------------------------------------------------------------------
(* pthread_cond_timedwait.                                                  *)

\* The fiber is tested for cancellation and the event fiber is started.  A recursive mutex
\* is held once here.
Wait(t) ==
    /\ pc[t] = "in" /\ lock_count = 1
    /\ canceled[t] # "pending"
    /\ \E e \in Events :
        /\ event[e] = "none" /\ (\A f \in 1 .. e - 1 : event[f] # "none")
        /\ event' = [event EXCEPT ![e] = "waits"]
        /\ wait' = [wait EXCEPT ![t] = e]
    /\ Goto(t, "registers")
    /\ UNCHANGED <<mutexVars, sub, canceled, monitor, mapVars, signals, undefined>>

\* The test has thrown: the thread still holds the mutex.
WaitCanceled(t) ==
    /\ pc[t] = "in" /\ canceled[t] = "pending"
    /\ canceled' = [canceled EXCEPT ![t] = "thrown"]
    /\ UNCHANGED <<mutexVars, pc, sub, wait, fiberVars, mapVars, signals, undefined>>

Register(t) ==
    /\ pc[t] = "registers"
    /\ Enqueue(wait[t])
    /\ Goto(t, "unlocks")
    /\ UNCHANGED <<mutexVars, sub, canceled, wait, event, signals, undefined>>

\* The cancellation hits the registering: the handler of the exception will read the key
\* and the monitor id, which have not been written.
RegisterCanceled(t) ==
    /\ pc[t] = "registers" /\ canceled[t] = "pending"
    /\ undefined' = TRUE
    /\ UNCHANGED <<mutexVars, pc, sub, canceled, wait, fiberVars, mapVars, signals>>

WaitUnlocks(t) ==
    /\ pc[t] = "unlocks"
    /\ FiberUnlock
    /\ Goto(t, "sleeps")
    /\ UNCHANGED <<sub, canceled, wait, fiberVars, mapVars, signals, undefined>>

Wakes(t) ==
    /\ pc[t] = "sleeps" /\ event[wait[t]] = "ended"
    /\ Goto(t, "relocks")
    /\ UNCHANGED <<mutexVars, sub, canceled, wait, fiberVars, mapVars, signals, undefined>>

Relocks(t) ==
    /\ pc[t] = "relocks"
    /\ LockExclusive(t)
    /\ Goto(t, "in")
    /\ UNCHANGED <<sub, canceled, wait, fiberVars, mapVars, signals, undefined>>

\* Slip: the handler does not test whether it has the mutex.
ThrownAsHeld(t) ==
    /\ pc[t] \in {"unlocks", "sleeps", "relocks"} /\ canceled[t] = "pending"
    /\ canceled' = [canceled EXCEPT ![t] = "thrown"]
    /\ Goto(t, "cancels")
    /\ UNCHANGED <<mutexVars, sub, wait, fiberVars, mapVars, signals, undefined>>

\* The wait is canceled in one of its calls, and the handler tests the mutex.
Thrown(t) ==
    /\ pc[t] \in {"unlocks", "sleeps", "relocks"} /\ canceled[t] = "pending"
    /\ canceled' = [canceled EXCEPT ![t] = "thrown"]
    /\ Goto(t, IF Owns(t) THEN "cancels" ELSE "regains")
    /\ UNCHANGED <<mutexVars, sub, wait, fiberVars, mapVars, signals, undefined>>

Regains(t) ==
    /\ pc[t] = "regains"
    /\ LockExclusive(t)
    /\ Goto(t, "cancels")
    /\ UNCHANGED <<sub, canceled, wait, fiberVars, mapVars, signals, undefined>>

\* Slip: the event fiber is joined, but not canceled.
JoinsAtOnce(t) ==
    /\ pc[t] = "cancels"
    /\ Goto(t, "joins")
    /\ UNCHANGED <<mutexVars, sub, canceled, wait, fiberVars, mapVars, signals, undefined>>

CancelsEvent(t) ==
    /\ pc[t] = "cancels"
    /\ event' = [event EXCEPT ![wait[t]] = Canceled(@)]
    /\ Goto(t, "joins")
    /\ UNCHANGED <<mutexVars, sub, canceled, wait, monitor, mapVars, signals, undefined>>

JoinsEvent(t) ==
    /\ pc[t] = "joins" /\ event[wait[t]] = "ended"
    /\ Goto(t, "unregisters")
    /\ UNCHANGED <<mutexVars, sub, canceled, wait, fiberVars, mapVars, signals, undefined>>

\* pthread_cond_fiber_unregister, in the map there is now.
Unregisters(t) ==
    /\ pc[t] = "unregisters"
    /\ Unlist(Removed(wait[t]))
    /\ monitor' = [monitor EXCEPT ![wait[t]] =
                        IF Removed(wait[t]) = {} THEN @ ELSE Canceled(@)]
    /\ Goto(t, "in")
    /\ UNCHANGED <<mutexVars, sub, canceled, wait, event, key, maps, home, signals, undefined>>

\* pthread_cond_event_fiber.  A time limit may be far off: nothing says that this happens.
EventTimesOut(e) ==
    /\ MayTimeOut
    /\ event[e] \in {"waits", "canceled"}
    /\ event' = [event EXCEPT ![e] = "ended"]
    /\ UNCHANGED <<mutexVars, pc, sub, canceled, wait, monitor, mapVars, signals, undefined>>

EventEnds(e) ==
    /\ event[e] = "canceled"
    /\ event' = [event EXCEPT ![e] = "ended"]
    /\ UNCHANGED <<mutexVars, pc, sub, canceled, wait, monitor, mapVars, signals, undefined>>

------------------------------------------------------------------------------
(* Signals.                                                                 *)

\* pthread_cond_fiber_signal: ifc_fiber_map_fiber_dequeue, which cancels the monitor, and
\* the event fiber is canceled.
Signal(t) ==
    /\ pc[t] \in {"idle", "in"}
    /\ signals < MaxSignals
    /\ signals' = signals + 1
    /\ \/ DOMAIN map = {} /\ UNCHANGED <<map, event, monitor>>
       \/ \E k \in DOMAIN map : LET e == map[k] IN
            /\ \A j \in DOMAIN map : k <= j
            /\ Unlist({k})
            /\ event' = [event EXCEPT ![e] = Canceled(@)]
            /\ monitor' = [monitor EXCEPT ![e] = Canceled(@)]
    /\ UNCHANGED <<mutexVars, pc, sub, canceled, wait, key, maps, home, undefined>>

\* pthread_cond_fiber_broadcast: the map is freed, which cancels the fibers of all entries
\* (auto_cancel), and there is a new one.
Broadcast(t) ==
    /\ pc[t] \in {"idle", "in"}
    /\ signals < MaxSignals
    /\ signals' = signals + 1
    /\ LET listed == Range(map) IN
        /\ event' = [e \in Events |-> IF e \in listed THEN Canceled(event[e]) ELSE event[e]]
        /\ monitor' = [e \in Events |-> IF e \in listed THEN Canceled(monitor[e]) ELSE monitor[e]]
    /\ Unlist(DOMAIN map)
    /\ maps' = maps + 1
    /\ UNCHANGED <<mutexVars, pc, sub, canceled, wait, key, home, undefined>>

Cancel(t) ==
    /\ t \in MayCancel /\ canceled[t] = "no"
    /\ canceled' = [canceled EXCEPT ![t] = "pending"]
    /\ UNCHANGED <<mutexVars, pc, sub, wait, fiberVars, mapVars, signals, undefined>>

------------------------------------------------------------------------------
Init ==
    /\ locked_fiber = "none" /\ lock_count = 0
    /\ pc = [t \in Threads |-> "idle"]
    /\ sub = [t \in Threads |-> "none"]
    /\ canceled = [t \in Threads |-> "no"]
    /\ wait = [t \in Threads |-> 0]
    /\ event = [e \in Events |-> "none"]
    /\ monitor = [e \in Events |-> "none"]
    /\ key = [e \in Events |-> 0] /\ home = [e \in Events |-> 0]
    /\ map = [k \in {} |-> 0] /\ maps = 0
    /\ signals = 0
    /\ undefined = FALSE

\* What a thread does once it has begun a call.
Proceed(t) ==
    \/ TimedlockReturns(t) \/ Register(t) \/ WaitUnlocks(t) \/ Wakes(t)
    \/ Thrown(t) \/ CancelsEvent(t) \/ JoinsEvent(t) \/ Unregisters(t)

\* A program unlocks what it has locked, and its critical section ends.
Leaves(t) == lock_count = 1 /\ Unlock(t)

\* What waits for the mutex, which serves its callers in the order of their calls.
Acquire(t) == Locked(t) \/ Relocks(t) \/ Regains(t)

ThreadStep(t) ==
    \/ Proceed(t) \/ Acquire(t)
    \/ Lock(t) \/ LockAgain(t) \/ Unlock(t) \/ Trylock(t) \/ Timedlock(t) \/ SubLocked(t) \/ SubAlarm(t)
    \/ Wait(t) \/ WaitCanceled(t) \/ RegisterCanceled(t)
    \/ Signal(t) \/ Broadcast(t) \/ Cancel(t)

EventStep(e) == EventEnds(e) \/ EventTimesOut(e)
MonitorStep(e) == MonitorRemoves(e) \/ MonitorEnds(e)

Next ==
    \/ ~undefined /\ \E t \in Threads : ThreadStep(t)
    \/ ~undefined /\ \E e \in Events : EventStep(e) \/ MonitorStep(e)

Fairness ==
    /\ \A t \in Threads :
        /\ WF_vars(Proceed(t)) /\ SF_vars(Acquire(t)) /\ WF_vars(SubAlarm(t))
        /\ WF_vars(Unlock(t)) /\ SF_vars(Leaves(t))
    /\ \A e \in Events : WF_vars(EventEnds(e)) /\ WF_vars(MonitorStep(e))

Spec == Init /\ [][Next]_vars /\ Fairness

------------------------------------------------------------------------------
(* Properties.                                                              *)

\* A thread has the mutex exactly where its code takes it to have it: after a lock, a try or
\* a timed lock that succeeded, and after a wait however it ended, by a signal, a time out
\* or a cancellation, whose handlers run with the mutex held.
Holds(t) ==
    \/ pc[t] \in {"in", "registers", "unlocks", "cancels", "joins", "unregisters"}
    \/ sub[t] = "acquired"

MutexHeld == \A t \in Threads : Owns(t) <=> Holds(t)

\* A thread that sleeps can be found by the next signal, unless its event fiber has been
\* canceled or has ended.  Entries are removed by keys that are used again: by monitors of
\* older waits, by monitors of older maps, and by threads whose wait was canceled.
InMap(e) == e \in Range(map)

SleeperIsIndexed == \A t \in Threads :
    pc[t] = "sleeps" /\ event[wait[t]] = "waits" => InMap(wait[t])

\* A wait that was signaled, that timed out or that was canceled returns.
WaitReturns == \A t \in Threads :
    (pc[t] = "sleeps" /\ (event[wait[t]] # "waits" \/ canceled[t] = "pending"))
        ~> (pc[t] = "in" \/ undefined)

\* The entry of an event fiber that has ended is removed.
EntryLeaves == \A e \in Events : (event[e] = "ended") ~> (~InMap(e) \/ undefined)

\* When a wait has been left, by whatever path, its entry is in the map no more: src/pthread.c:551
\* has it that the event must be "removed in a race-free manner so it does not remain
\* indexed and possibly consumes an additional cond signal".
LeftIsUnregistered == \A t \in Threads :
    pc[t] \in {"idle", "in"} /\ wait[t] # 0 => ~InMap(wait[t])

\* No handler reads a variable that has not been written.
NothingUndefined == ~undefined
==============================================================================
