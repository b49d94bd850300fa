----------------------------- MODULE FiberSched -----------------------------
(***************************************************************************)
(* The fiber scheduler of src/lwthreads.c: physical executor threads that  *)
(* take fibers from one queue, sleep on a futex when it is empty, run a    *)
(* fiber until it defers, yields or ends, and put it to sleep unless a     *)
(* reason to stay awake arrived meanwhile.                                 *)
(*                                                                         *)
(* One action is one section under shared_fiber_mem.rwlock (RWSpinlock     *)
(* shows that such sections exclude each other), or one unlocked step      *)
(* between two of them.  What a fiber waits for is another component's     *)
(* business: here it is a party outside, which holds a pointer to the      *)
(* fiber (waker) and completes the wait once.  Stacklets, heaps, stack     *)
(* switching and the longjmp requests other than switch, yield and         *)
(* teardown are left out.                                                  *)
(***************************************************************************)
EXTENDS FiberCtrl, Integers, Sequences, FiniteSets

CONSTANTS Fibers,         (* the fiber structs                              *)
          Executors,      (* the physical executor threads                  *)
          Root,           (* the fiber of lwt_program_main                  *)
          None            (* no fiber                                       *)

ASSUME SchedAssumption ==
    /\ Root \in Fibers
    /\ None \notin Fibers
    /\ Executors # {} /\ IsFiniteSet(Executors)

VARIABLES ctrl,           (* per fiber, its control block                   *)
          fiber_map,      (* the fibers indexed by id: others can reach them*)
          at,             (* per fiber, where it is in its code             *)
          waker,          (* the fibers some party still has to wake        *)
          newborn,        (* per fiber, the fiber it is creating            *)
          queue,          (* exec_block_queue                               *)
          stale,          (* executors whose futex value is out of date     *)
          thread,         (* per executor, where it is in its loop          *)
          current         (* per executor, the fiber it has                 *)

fiberVars == <<ctrl, fiber_map, at, waker, newborn>>
execVars == <<queue, stale, thread, current>>
vars == <<fiberVars, execVars>>

\* free: no fiber in this struct; mitosis: being created; ready: enqueued for
\* its first run; user: runs its own code; defer, yield: in
\* lwt_scheduler_fiber_defer; parked: its deferred event waits for a resume;
\* woken: resumed; ended: its main function returned.
FiberPoints == {"free", "mitosis", "ready", "user", "defer", "yield", "parked",
                "woken", "ended"}

\* dequeue: about to dequeue; wait: found nothing, about to call FUTEX_WAIT;
\* asleep: in the kernel; run: runs its fiber; switch: the fiber jumped back to
\* defer or yield; teardown: it ended; unindexed: it left the map.
ThreadPoints == {"dequeue", "wait", "asleep", "run", "switch", "teardown", "unindexed"}

TypeOK ==
    /\ ctrl \in [Fibers -> Ctrl]
    /\ fiber_map \subseteq Fibers
    /\ at \in [Fibers -> FiberPoints]
    /\ waker \subseteq Fibers
    /\ newborn \in [Fibers -> Fibers \union {None}]
    /\ queue \in Seq(Fibers)
    /\ stale \subseteq Executors
    /\ thread \in [Executors -> ThreadPoints]
    /\ current \in [Executors -> Fibers \union {None}]

Init ==
    /\ ctrl = [f \in Fibers |-> NewCtrl]
    /\ fiber_map = {Root}
    /\ at = [f \in Fibers |-> IF f = Root THEN "ready" ELSE "free"]
    /\ waker = {}
    /\ newborn = [f \in Fibers |-> None]
    /\ queue = <<Root>>
    /\ stale = {}
    /\ thread = [e \in Executors |-> "dequeue"]
    /\ current = [e \in Executors |-> None]

-----------------------------------------------------------------------------
\* Executor e has fiber f on it and runs its code, which has come to point p.
Runs(e, f, p) == thread[e] = "run" /\ current[e] = f /\ at[f] = p

Running(f, p) == \E e \in Executors : Runs(e, f, p)

Move(f, p) == at' = [at EXCEPT ![f] = p]

SetCtrl(f, c) == ctrl' = [ctrl EXCEPT ![f] = c]

\* FUTEX_WAKE of one thread: the kernel picks one that sleeps, if any does.
WakeOne(threads) ==
    LET sleeping == {e \in Executors : threads[e] = "asleep"}
    IN IF sleeping = {} THEN {threads}
       ELSE {[threads EXCEPT ![e] = "dequeue"] : e \in sleeping}

\* lwt_scheduler_exec_block_enqueue: the futex word is incremented, so every
\* value read before is out of date, the fiber is appended, one thread is woken.
\* The word is not kept: only a wrap of its 32 bits between the read and
\* the FUTEX_WAIT of one executor could make two values compare equal.
\* Slip: FUTEX_WAKE is forgotten.
EnqueueSilently(f, threads) ==
    /\ queue' = Append(queue, f)
    /\ stale' = {e \in Executors : threads[e] = "wait"}
    /\ thread' = threads

\* Slip: the futex word is not incremented.
EnqueueUncounted(f, threads) ==
    /\ queue' = Append(queue, f)
    /\ UNCHANGED stale
    /\ thread' \in WakeOne(threads)

Enqueue(f, threads) ==
    /\ queue' = Append(queue, f)
    /\ stale' = {e \in Executors : threads[e] = "wait"}
    /\ thread' \in WakeOne(threads)

\* Fiber f gets control block c; it is enqueued when this ends its deferral.
Rouse(f, c) ==
    /\ SetCtrl(f, c)
    /\ IF ctrl[f].deferred /\ ~c.deferred
       THEN Enqueue(f, thread)
       ELSE UNCHANGED <<queue, stale, thread>>

-----------------------------------------------------------------------------
(* The executor's loop: lwt_physical_executor_thread.                      *)

\* lwt_scheduler_exec_block_dequeue, the section under the lock: read the futex
\* word and take the first fiber, start it or resume it.
Dequeue(e) ==
    /\ thread[e] = "dequeue"
    /\ stale' = stale \ {e}
    /\ \/ /\ queue = <<>>
          /\ thread' = [thread EXCEPT ![e] = "wait"]
          /\ UNCHANGED <<ctrl, at, queue, current>>
       \/ /\ queue # <<>>
          /\ LET f == Head(queue) IN
                /\ queue' = Tail(queue)
                /\ current' = [current EXCEPT ![e] = f]
                /\ thread' = [thread EXCEPT ![e] = "run"]
                /\ Move(f, IF ctrl[f].started THEN "woken" ELSE "user")
                /\ SetCtrl(f, [ctrl[f] EXCEPT !.started = TRUE])
    /\ UNCHANGED <<fiber_map, waker, newborn>>

\* FUTEX_WAIT returns at once (EWOULDBLOCK) if the word is no longer the one read.
FutexWait(e) ==
    /\ thread[e] = "wait"
    /\ thread' = [thread EXCEPT ![e] = IF e \in stale THEN "dequeue" ELSE "asleep"]
    /\ stale' = stale \ {e}
    /\ UNCHANGED <<fiberVars, queue, current>>

\* FUTEX_WAIT is interrupted (EINTR).
FutexInterrupted(e) ==
    /\ thread[e] = "asleep"
    /\ thread' = [thread EXCEPT ![e] = "dequeue"]
    /\ UNCHANGED <<fiberVars, queue, stale, current>>

\* Slip: a fiber that yields is marked deferred as well as enqueued.
SwitchDeferredYield(e) ==
    LET f == current[e] IN
    /\ thread[e] = "switch"
    /\ ~Bounces(ctrl[f])
    /\ Move(f, "parked")
    /\ current' = [current EXCEPT ![e] = None]
    /\ SetCtrl(f, [ctrl[f] EXCEPT !.deferred = TRUE])
    /\ IF at[f] = "yield"
       THEN Enqueue(f, [thread EXCEPT ![e] = "dequeue"])
       ELSE /\ thread' = [thread EXCEPT ![e] = "dequeue"]
            /\ UNCHANGED <<queue, stale>>
    /\ UNCHANGED <<fiber_map, waker, newborn>>

\* The fiber jumped back to sleep or to yield: under the lock it is resumed at
\* once when it has a reason to be awake, and leaves the executor otherwise.
SwitchBounce(e) ==
    LET f == current[e] IN
    /\ thread[e] = "switch"
    /\ Bounces(ctrl[f])
    /\ thread' = [thread EXCEPT ![e] = "run"]
    /\ Move(f, "woken")
    /\ UNCHANGED <<ctrl, fiber_map, waker, newborn, queue, stale, current>>

SwitchAway(e) ==
    LET f == current[e] IN
    /\ thread[e] = "switch"
    /\ ~Bounces(ctrl[f])
    /\ Move(f, "parked")
    /\ current' = [current EXCEPT ![e] = None]
    /\ IF at[f] = "yield"
       THEN Enqueue(f, [thread EXCEPT ![e] = "dequeue"]) /\ UNCHANGED ctrl
       ELSE /\ SetCtrl(f, [ctrl[f] EXCEPT !.deferred = TRUE])
            /\ thread' = [thread EXCEPT ![e] = "dequeue"]
            /\ UNCHANGED <<queue, stale>>
    /\ UNCHANGED <<fiber_map, waker, newborn>>

\* Teardown, first section: nobody can reach the fiber any more.
Unindex(e) ==
    /\ thread[e] = "teardown"
    /\ thread' = [thread EXCEPT ![e] = "unindexed"]
    /\ fiber_map' = fiber_map \ {current[e]}
    /\ UNCHANGED <<ctrl, at, waker, newborn, queue, stale, current>>

\* Teardown, the rest: a pending cancellation and the struct are freed (its
\* memory holds nothing any more, here NewCtrl).
FreeFiber(e) ==
    LET f == current[e] IN
    /\ thread[e] = "unindexed"
    /\ thread' = [thread EXCEPT ![e] = "dequeue"]
    /\ current' = [current EXCEPT ![e] = None]
    /\ Move(f, "free")
    /\ SetCtrl(f, NewCtrl)
    /\ UNCHANGED <<fiber_map, waker, newborn, queue, stale>>

-----------------------------------------------------------------------------
(* What a running fiber does.                                              *)

\* Slip: the fiber is reachable for its waker before it forgets old wake-ups.
BeginWaitLateReset(f) ==
    /\ Running(f, "user")
    /\ ~Interrupted(ctrl[f])
    /\ waker' = waker \union {f}
    /\ Move(f, "defer")
    /\ UNCHANGED <<ctrl, fiber_map, newborn, execVars>>

\* A blocking operation begins (lwt_io_block is one): it is a cancellation point,
\* then, under the lock of the party that will complete the wait, the fiber is
\* made known to that party and forgets the wake-ups of earlier waits.
BeginWait(f) ==
    /\ Running(f, "user")
    /\ ~Interrupted(ctrl[f])
    /\ waker' = waker \union {f}
    /\ SetCtrl(f, [ctrl[f] EXCEPT !.done = FALSE])
    /\ Move(f, "defer")
    /\ UNCHANGED <<fiber_map, newborn, execVars>>

\* lwt_yield, when the (unlocked) look at the queue finds somebody waiting.
Yield(f) ==
    /\ Running(f, "user")
    /\ ~Interrupted(ctrl[f])
    /\ queue # <<>>
    /\ SetCtrl(f, [ctrl[f] EXCEPT !.done = FALSE])
    /\ Move(f, "yield")
    /\ UNCHANGED <<fiber_map, waker, newborn, execVars>>

\* lwt_scheduler_fiber_defer: without the lock, return if there is a reason to,
\* else jump to the executor.
Defer(f) ==
    \E e \in Executors, p \in {"defer", "yield"} :
        /\ Runs(e, f, p)
        /\ IF Bounces(ctrl[f])
           THEN Move(f, "woken") /\ UNCHANGED thread
           ELSE thread' = [thread EXCEPT ![e] = "switch"] /\ UNCHANGED at
        /\ UNCHANGED <<ctrl, fiber_map, waker, newborn, queue, stale, current>>

\* The blocking operation ends: the fiber withdraws from the party that should
\* have completed the wait, and throws what is pending.
EndWait(f) ==
    /\ Running(f, "woken")
    /\ waker' = waker \ {f}
    /\ SetCtrl(f, CancellationPoint(ctrl[f]))
    /\ Move(f, "user")
    /\ UNCHANGED <<fiber_map, newborn, execVars>>

\* The cancellation point at the start of a blocking operation throws.
Throw(f) ==
    /\ Running(f, "user")
    /\ Interrupted(ctrl[f])
    /\ SetCtrl(f, CancellationPoint(ctrl[f]))
    /\ UNCHANGED <<fiber_map, at, waker, newborn, execVars>>

\* An uninterruptible block is entered, or left.
SetUnintr(f, new_state) ==
    /\ Running(f, "user")
    /\ SetCtrl(f, [ctrl[f] EXCEPT !.unintr = new_state])
    /\ UNCHANGED <<fiber_map, at, waker, newborn, execVars>>

\* __lwt_fiber_stack_push_mitosis: the new fiber is indexed but does not run yet.
PushMitosis(f, g) ==
    /\ Running(f, "user")
    /\ newborn[f] = None
    /\ at[g] = "free"
    /\ fiber_map' = fiber_map \union {g}
    /\ SetCtrl(g, NewCtrl)
    /\ Move(g, "mitosis")
    /\ newborn' = [newborn EXCEPT ![f] = g]
    /\ UNCHANGED <<waker, execVars>>

\* __lwt_fiber_stack_pop_mitosis (an aborted mitosis starts a zombie main).
PopMitosis(f) ==
    /\ Running(f, "user")
    /\ newborn[f] # None
    /\ Move(newborn[f], "ready")
    /\ newborn' = [newborn EXCEPT ![f] = None]
    /\ Enqueue(newborn[f], thread)
    /\ UNCHANGED <<ctrl, fiber_map, waker, current>>

\* lwt_cancel_fiber_id: no effect on a fiber that does not exist any more.
CancelFiber(f, g) ==
    /\ Running(f, "user")
    /\ g \in fiber_map
    /\ Rouse(g, Cancel(ctrl[g]))
    /\ UNCHANGED <<fiber_map, at, waker, newborn, current>>

\* lwt_exclusive_cancel_fiber_id: throw an own pending cancellation instead.
ExclusiveCancelFiber(f, g) ==
    /\ Running(f, "user")
    /\ IF ctrl[f].canceled
       THEN SetCtrl(f, [ctrl[f] EXCEPT !.canceled = FALSE])
            /\ UNCHANGED <<queue, stale, thread>>
       ELSE g \in fiber_map /\ Rouse(g, Cancel(ctrl[g]))
    /\ UNCHANGED <<fiber_map, at, waker, newborn, current>>

\* lwt_scheduler_fiber_wake_join_race_raw, called by a fiber that leaves an
\* accept or by the teardown of a server.
RaceFiber(g) ==
    /\ g \in fiber_map
    /\ Rouse(g, WakeJoinRace(ctrl[g]))
    /\ UNCHANGED <<fiber_map, at, waker, newborn, current>>

\* The main function returned: lwt_fiber_finalize jumps to the teardown.
Finalize(f) ==
    \E e \in Executors :
        /\ Runs(e, f, "user")
        /\ newborn[f] = None
        /\ Move(f, "ended")
        /\ thread' = [thread EXCEPT ![e] = "teardown"]
        /\ UNCHANGED <<ctrl, fiber_map, waker, newborn, queue, stale, current>>

-----------------------------------------------------------------------------
\* The party that f waits for completes the wait, whatever f is doing.
\* Slip: the fiber it finds awake gets no mark.
CompleteUnmarked(f) ==
    /\ f \in waker
    /\ waker' = waker \ {f}
    /\ Rouse(f, [ctrl[f] EXCEPT !.deferred = FALSE])
    /\ UNCHANGED <<fiber_map, at, newborn, current>>

Complete(f) ==
    /\ f \in waker
    /\ waker' = waker \ {f}
    /\ Rouse(f, WakeDone(ctrl[f]))
    /\ UNCHANGED <<fiber_map, at, newborn, current>>

-----------------------------------------------------------------------------
ExecutorStep(e) ==
    \/ Dequeue(e)
    \/ FutexWait(e)
    \/ SwitchBounce(e)
    \/ SwitchAway(e)
    \/ Unindex(e)
    \/ FreeFiber(e)

FiberStep(f) ==
    \/ BeginWait(f)
    \/ Yield(f)
    \/ EndWait(f)
    \/ Throw(f)
    \/ \E b \in BOOLEAN : SetUnintr(f, b)
    \/ \E g \in Fibers : PushMitosis(f, g)
    \/ PopMitosis(f)
    \/ \E g \in Fibers : CancelFiber(f, g)
    \/ \E g \in Fibers : ExclusiveCancelFiber(f, g)
    \/ Finalize(f)

Next ==
    \/ \E e \in Executors : ExecutorStep(e)
    \/ \E e \in Executors : FutexInterrupted(e)
    \/ \E f \in Fibers : FiberStep(f)
    \/ \E f \in Fibers : Defer(f)
    \/ \E f \in Fibers : RaceFiber(f)
    \/ \E f \in Fibers : Complete(f)

Spec == Init /\ [][Next]_vars

\* The executors are threads the kernel runs, and the code of
\* lwt_scheduler_fiber_defer has no loop.  What a fiber's own code does next, and
\* whether what it waits for ever completes, is nobody's promise.
FairSpec ==
    /\ Spec
    /\ \A e \in Executors : WF_vars(ExecutorStep(e))
    /\ \A f \in Fibers : WF_vars(Defer(f))

-----------------------------------------------------------------------------
\* ctrl.deferred never holds together with a reason to be awake: not with done,
\* not with an interrupt that counts (the comments at lwt_fiber.ctrl).
DeferredHasNoReason == \A f \in Fibers : ctrl[f].deferred => ~Bounces(ctrl[f])

\* No wake-up is lost: a fiber that sleeps still has a party that will wake it,
\* or only sleeps because it is uninterruptible.
DeferredHasWaker == \A f \in Fibers : ctrl[f].deferred => f \in waker

\* A wait returns for a cause: it was completed, or an interrupt that counts is
\* pending.  (The caller of a join treats anything else as a fatal scheduler
\* error: "client woke up without any satisfied preconditions".)
WokenForCause ==
    \A f \in Fibers :
        at[f] = "woken" /\ f \in waker => Interrupted(ctrl[f])

InQueue(f) == \E i \in 1..Len(queue) : queue[i] = f

OnExecutor(f) == \E e \in Executors : current[e] = f

\* Every fiber that exists is in one place only, and is not lost: under creation,
\* in the queue (once), asleep, or on one executor.  So two executors never run
\* one fiber on its one stack, and no fiber is left where nothing looks for it.
OnePlace ==
    /\ \A i, j \in 1..Len(queue) : queue[i] = queue[j] => i = j
    /\ \A d, e \in Executors : current[d] = current[e] /\ current[e] # None => d = e
    /\ \A f \in Fibers :
        /\ ~(InQueue(f) /\ OnExecutor(f))
        /\ ctrl[f].deferred => ~InQueue(f) /\ ~OnExecutor(f)
        /\ at[f] \in {"free", "mitosis"} <=>
                ~InQueue(f) /\ ~OnExecutor(f) /\ ~ctrl[f].deferred

\* As long as an executor sleeps (or is about to, its futex value still good),
\* at least as many executors are on their way to the queue as fibers are in it:
\* no fiber waits for an executor that nothing will wake.
OnTheirWay == {e \in Executors : thread[e] = "dequeue" \/ e \in stale}
Sleepers == {e \in Executors : thread[e] \in {"asleep", "wait"} /\ e \notin stale}

WorkConserving == Sleepers # {} => Cardinality(OnTheirWay) >= Len(queue)

\* A fiber that was enqueued gets an executor, provided there are as many
\* executors as fibers (the run that checks it has), whatever running fibers do.
EnqueuedRuns ==
    \A f \in Fibers : InQueue(f) ~> OnExecutor(f)

\* The scheduler keeps the promise its callers rely on.
WakeState(f) ==
    CASE at[f] = "free" -> "free"
      [] ctrl[f].deferred -> "parked"
      [] OTHER -> "runnable"

WakeReasons(f) ==
    {r \in {"done", "canceled", "join_race"} : ctrl[f][r]}

Promise == INSTANCE FiberWake WITH
    state <- [f \in Fibers |-> WakeState(f)],
    reasons <- [f \in Fibers |-> WakeReasons(f)],
    masked <- {f \in Fibers : ctrl[f].unintr}

ImplementsFiberWake == Promise!Spec
=============================================================================
