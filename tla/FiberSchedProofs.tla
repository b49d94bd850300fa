-------------------------- MODULE FiberSchedProofs --------------------------
(***************************************************************************)
(* Proofs about FiberSched, for any fibers and executors.                  *)
(*                                                                         *)
(* Neither "a deferred fiber has a waker" nor "a fiber is in one place" is *)
(* inductive alone: that a wake-up is not lost depends on where in its     *)
(* wait the fiber is, that depends on no second executor moving it, and    *)
(* that on the queue holding each fiber once and only resumable ones.  The *)
(* strengthening IInv says all of it per fiber and per executor.           *)
(***************************************************************************)
EXTENDS FiberSched, SequenceTheorems, FiniteSetTheorems, TLAPS

Idle == {"dequeue", "wait", "asleep"}

\* What an executor has, by where it is in its loop.
ExecutorInv(e) ==
    /\ thread[e] \in Idle => current[e] = None
    /\ thread[e] \notin Idle => current[e] \in Fibers
    /\ thread[e] = "run" => at[current[e]] \in {"user", "defer", "yield", "woken"}
    /\ thread[e] = "switch" => at[current[e]] \in {"defer", "yield"}
    /\ thread[e] \in {"teardown", "unindexed"} => at[current[e]] = "ended"

\* Where a fiber is, and what it can expect, by where it is in its code.
PlaceInv(f) ==
    /\ InQueue(f) <=> at[f] = "ready" \/ (at[f] = "parked" /\ ~ctrl[f].deferred)
    /\ OnExecutor(f) <=> at[f] \in {"user", "defer", "yield", "woken", "ended"}
    /\ ctrl[f].deferred => at[f] = "parked"
    /\ ctrl[f].started <=> at[f] \notin {"free", "mitosis", "ready"}

WakeInv(f) ==
    /\ ctrl[f].deferred => f \in waker /\ ~Bounces(ctrl[f])
    /\ f \in waker => at[f] \in {"defer", "parked", "woken"} /\ ~ctrl[f].done
    /\ at[f] = "defer" => f \in waker \/ ctrl[f].done
    /\ at[f] \in {"parked", "woken"} /\ f \in waker /\ ~ctrl[f].deferred
         => Interrupted(ctrl[f])

QueueOnce == \A i, j \in 1..Len(queue) : queue[i] = queue[j] => i = j

OneExecutor ==
    \A d, e \in Executors : current[d] = current[e] /\ current[e] # None => d = e

NewbornInv ==
    \A f \in Fibers : newborn[f] # None =>
        /\ at[newborn[f]] = "mitosis"
        /\ \A g \in Fibers : newborn[g] = newborn[f] => g = f

IInv ==
    /\ TypeOK
    /\ QueueOnce
    /\ OneExecutor
    /\ NewbornInv
    /\ \A e \in Executors : ExecutorInv(e)
    /\ \A f \in Fibers : PlaceInv(f)
    /\ \A f \in Fibers : WakeInv(f)

-----------------------------------------------------------------------------
\* A wake-up touches sleeping executors only.
OnlyWakes(threads) ==
    \A e \in Executors :
        \/ thread'[e] = threads[e]
        \/ threads[e] = "asleep" /\ thread'[e] = "dequeue"

\* FUTEX_WAKE wakes sleepers only.
LEMMA WakeOneWakes ==
    ASSUME NEW threads \in [Executors -> ThreadPoints], thread' \in WakeOne(threads)
    PROVE  thread' \in [Executors -> ThreadPoints] /\ OnlyWakes(threads)
BY DEF WakeOne, OnlyWakes, ThreadPoints

\* Enqueueing a fiber that is not in the queue adds it once.
LEMMA EnqueueAdds ==
    ASSUME queue \in Seq(Fibers), QueueOnce, NEW f \in Fibers, ~InQueue(f),
           NEW threads \in [Executors -> ThreadPoints], Enqueue(f, threads)
    PROVE  /\ queue' \in Seq(Fibers)
           /\ QueueOnce'
           /\ \A g \in Fibers : InQueue(g)' <=> InQueue(g) \/ g = f
           /\ stale' \subseteq Executors
           /\ thread' \in [Executors -> ThreadPoints]
           /\ OnlyWakes(threads)
<1>1. queue' = Append(queue, f)
  BY DEF Enqueue
<1>2. queue' \in Seq(Fibers) /\ Len(queue') = Len(queue) + 1 /\ Len(queue) \in Nat
  BY <1>1, AppendProperties, LenProperties
<1>3. /\ \A i \in 1..Len(queue) : queue'[i] = queue[i]
      /\ queue'[Len(queue) + 1] = f
  BY <1>1, AppendProperties
<1>4. QueueOnce'
  BY <1>2, <1>3 DEF QueueOnce, InQueue
<1>5. \A g \in Fibers : InQueue(g)' <=> InQueue(g) \/ g = f
  BY <1>2, <1>3 DEF InQueue
<1>6. QED
  BY <1>2, <1>4, <1>5, WakeOneWakes DEF Enqueue

\* Dequeueing takes the first fiber out of the queue.
LEMMA DequeueTakes ==
    ASSUME queue \in Seq(Fibers), QueueOnce, queue # <<>>, queue' = Tail(queue)
    PROVE  /\ Head(queue) \in Fibers
           /\ InQueue(Head(queue))
           /\ queue' \in Seq(Fibers)
           /\ QueueOnce'
           /\ \A g \in Fibers : InQueue(g)' <=> InQueue(g) /\ g # Head(queue)
<1>1. /\ Head(queue) = queue[1] /\ Len(queue) \in Nat /\ Len(queue) >= 1
      /\ Head(queue) \in Fibers
      /\ queue' \in Seq(Fibers) /\ Len(queue') = Len(queue) - 1
      /\ \A i \in 1..Len(queue') : queue'[i] = queue[i + 1]
  BY HeadTailProperties, LenProperties, EmptySeq
<1>2. QueueOnce'
  <2>1. SUFFICES ASSUME NEW i \in 1..Len(queue'), NEW j \in 1..Len(queue'),
                        queue'[i] = queue'[j]
                 PROVE  i = j
    BY DEF QueueOnce
  <2>2. i + 1 \in 1..Len(queue) /\ j + 1 \in 1..Len(queue)
    BY <1>1
  <2>3. i + 1 = j + 1
    BY <1>1, <2>1, <2>2 DEF QueueOnce
  <2>4. QED
    BY <1>1, <2>3
<1>3. ASSUME NEW g \in Fibers PROVE InQueue(g)' <=> InQueue(g) /\ g # Head(queue)
  <2>1. ASSUME InQueue(g)' PROVE InQueue(g) /\ g # Head(queue)
    <3>1. PICK i \in 1..Len(queue') : queue'[i] = g
      BY <2>1 DEF InQueue
    <3>2. i + 1 \in 1..Len(queue) /\ queue[i + 1] = g /\ i + 1 # 1 /\ 1 \in 1..Len(queue)
      BY <1>1, <3>1
    <3>3. QED
      BY <1>1, <3>2 DEF InQueue, QueueOnce
  <2>2. ASSUME InQueue(g), g # Head(queue) PROVE InQueue(g)'
    <3>1. PICK i \in 1..Len(queue) : queue[i] = g
      BY <2>2 DEF InQueue
    <3>2. i - 1 \in 1..Len(queue') /\ queue'[i - 1] = queue[(i - 1) + 1] /\ (i - 1) + 1 = i
      BY <1>1, <2>2, <3>1
    <3>3. QED
      BY <3>1, <3>2 DEF InQueue
  <2>3. QED
    BY <2>1, <2>2
<1>4. InQueue(Head(queue))
  BY <1>1 DEF InQueue
<1>5. QED
  BY <1>1, <1>2, <1>3, <1>4

-----------------------------------------------------------------------------
\* A fiber that runs is on that executor only, is not deferred, and has run.
LEMMA RunsFacts ==
    ASSUME IInv, NEW e \in Executors, NEW f \in Fibers,
           current[e] = f, at[f] \in {"user", "defer", "yield", "woken", "ended"}
    PROVE  /\ ~ctrl[f].deferred /\ ctrl[f].started
           /\ ~InQueue(f)
           /\ OnExecutor(f)
           /\ \A d \in Executors : current[d] = f => d = e
BY SchedAssumption DEF IInv, PlaceInv, OneExecutor, OnExecutor, TypeOK

\* The executors that a wake-up leaves alone, or wakes, keep their invariant.
LEMMA ExecutorsKept ==
    ASSUME IInv, OnlyWakes(thread), UNCHANGED <<at, current>>
    PROVE  \A e \in Executors : ExecutorInv(e)'
BY DEF IInv, OnlyWakes, ExecutorInv, Idle

\* Rousing a fiber whose deferral can only end enqueues it when it does end.
LEMMA RouseAdds ==
    ASSUME IInv, NEW f \in Fibers, NEW c \in Ctrl, Rouse(f, c)
    PROVE  /\ ctrl' = [ctrl EXCEPT ![f] = c]
           /\ queue' \in Seq(Fibers)
           /\ QueueOnce'
           /\ \A g \in Fibers :
                InQueue(g)' <=> InQueue(g) \/ (g = f /\ ctrl[f].deferred /\ ~c.deferred)
           /\ stale' \subseteq Executors
           /\ thread' \in [Executors -> ThreadPoints]
           /\ OnlyWakes(thread)
<1>1. ctrl' = [ctrl EXCEPT ![f] = c]
  BY DEF Rouse, SetCtrl
<1>2. CASE ctrl[f].deferred /\ ~c.deferred
  <2>1. ~InQueue(f)
    BY <1>2 DEF IInv, PlaceInv
  <2>2. Enqueue(f, thread) /\ thread \in [Executors -> ThreadPoints]
        /\ queue \in Seq(Fibers) /\ QueueOnce
    BY <1>2 DEF Rouse, IInv, TypeOK
  <2>3. QED
    BY <1>1, <1>2, <2>1, <2>2, EnqueueAdds
<1>3. CASE ~(ctrl[f].deferred /\ ~c.deferred)
  BY <1>1, <1>3 DEF Rouse, IInv, TypeOK, QueueOnce, InQueue, OnlyWakes
<1>4. QED
  BY <1>2, <1>3

\* A section that rouses fiber f, and may take its waker away, keeps the
\* invariant when it keeps the invariant of that fiber's wait.
LEMMA RouseKeeps ==
    ASSUME IInv, NEW f \in Fibers, NEW c \in Ctrl, Rouse(f, c),
           c.started = ctrl[f].started, c.deferred => ctrl[f].deferred,
           waker' = waker \/ waker' = waker \ {f},
           UNCHANGED <<fiber_map, at, newborn, current>>,
           WakeInv(f)'
    PROVE  IInv'
<1>1. /\ ctrl' = [ctrl EXCEPT ![f] = c]
      /\ queue' \in Seq(Fibers)
      /\ QueueOnce'
      /\ \A g \in Fibers :
           InQueue(g)' <=> InQueue(g) \/ (g = f /\ ctrl[f].deferred /\ ~c.deferred)
      /\ stale' \subseteq Executors
      /\ thread' \in [Executors -> ThreadPoints]
      /\ OnlyWakes(thread)
  BY RouseAdds
<1>2. TypeOK'
  BY <1>1 DEF IInv, TypeOK
<1>3. \A e \in Executors : ExecutorInv(e)'
  BY <1>1, ExecutorsKept
<1>4. \A g \in Fibers : OnExecutor(g)' <=> OnExecutor(g)
  BY DEF OnExecutor
<1>5. ctrl'[f] = c /\ \A g \in Fibers : g # f => ctrl'[g] = ctrl[g]
  BY <1>1 DEF IInv, TypeOK
<1>6. ASSUME NEW g \in Fibers PROVE PlaceInv(g)'
  BY <1>1, <1>4, <1>5 DEF IInv, PlaceInv
<1>7. ASSUME NEW g \in Fibers PROVE WakeInv(g)'
  <2>1. CASE g = f
    BY <2>1
  <2>2. CASE g # f
    BY <1>5, <2>2 DEF IInv, WakeInv
  <2>3. QED
    BY <2>1, <2>2
<1>8. OneExecutor' /\ NewbornInv'
  BY DEF IInv, OneExecutor, NewbornInv
<1>9. QED
  BY <1>1, <1>2, <1>3, <1>6, <1>7, <1>8 DEF IInv

\* A step of the code of a running fiber that stays on its executor keeps the
\* invariant when it keeps the invariant of that fiber's wait.
LEMMA LocalKeeps ==
    ASSUME IInv, NEW e \in Executors, NEW f \in Fibers,
           current[e] = f, thread[e] = "run",
           NEW p \in {"user", "defer", "yield", "woken"}, at' = [at EXCEPT ![f] = p],
           NEW c \in Ctrl, ctrl' = [ctrl EXCEPT ![f] = c], ~c.deferred, c.started,
           waker' = waker \/ waker' = waker \union {f} \/ waker' = waker \ {f},
           UNCHANGED <<fiber_map, newborn, queue, stale, thread, current>>,
           WakeInv(f)'
    PROVE  IInv'
<1>1. TypeOK'
  BY DEF IInv, TypeOK, FiberPoints
<1>2. at[f] \in {"user", "defer", "yield", "woken"}
  BY DEF IInv, ExecutorInv
<1>3. ~ctrl[f].deferred /\ ~InQueue(f) /\ OnExecutor(f)
      /\ \A d \in Executors : current[d] = f => d = e
  BY <1>2, RunsFacts
<1>4. /\ \A g \in Fibers : OnExecutor(g)' <=> OnExecutor(g)
      /\ \A g \in Fibers : InQueue(g)' <=> InQueue(g)
  BY DEF OnExecutor, InQueue
<1>5. /\ ctrl'[f] = c /\ at'[f] = p
      /\ \A g \in Fibers : g # f => ctrl'[g] = ctrl[g] /\ at'[g] = at[g]
  BY DEF IInv, TypeOK
<1>6. ASSUME NEW d \in Executors PROVE ExecutorInv(d)'
  BY <1>3, <1>5 DEF IInv, TypeOK, ExecutorInv, Idle
<1>7. ASSUME NEW g \in Fibers PROVE PlaceInv(g)'
  BY <1>3, <1>4, <1>5 DEF IInv, PlaceInv
<1>8. ASSUME NEW g \in Fibers PROVE WakeInv(g)'
  <2>1. CASE g = f
    BY <2>1
  <2>2. CASE g # f
    BY <1>5, <2>2 DEF IInv, WakeInv
  <2>3. QED
    BY <2>1, <2>2
<1>9. NewbornInv'
  BY <1>2, <1>5 DEF IInv, TypeOK, NewbornInv
<1>10. QueueOnce' /\ OneExecutor'
  BY DEF IInv, QueueOnce, OneExecutor
<1>11. QED
  BY <1>1, <1>6, <1>7, <1>8, <1>9, <1>10 DEF IInv

-----------------------------------------------------------------------------
LEMMA InitIInv == Init => IInv
<1> SUFFICES ASSUME Init PROVE IInv
  OBVIOUS
<1>1. Root \in Fibers /\ None \notin Fibers
  BY SchedAssumption
<1>2. TypeOK
  BY <1>1 DEF Init, TypeOK, Ctrl, NewCtrl, FiberPoints, ThreadPoints
<1>3. \A f \in Fibers : InQueue(f) <=> f = Root
  BY <1>1 DEF Init, InQueue
<1>4. \A f \in Fibers : ~OnExecutor(f)
  BY <1>1 DEF Init, OnExecutor
<1>5. \A f \in Fibers : PlaceInv(f)
  BY <1>3, <1>4 DEF Init, PlaceInv, NewCtrl
<1>6. \A f \in Fibers : WakeInv(f)
  BY DEF Init, WakeInv, NewCtrl
<1>7. \A e \in Executors : ExecutorInv(e)
  BY DEF Init, ExecutorInv, Idle
<1>8. QueueOnce /\ OneExecutor /\ NewbornInv
  BY DEF Init, QueueOnce, OneExecutor, NewbornInv
<1>9. QED
  BY <1>2, <1>5, <1>6, <1>7, <1>8 DEF IInv

\* The steps of an executor.
LEMMA DequeueKeeps ==
    ASSUME IInv, NEW e \in Executors, Dequeue(e) PROVE IInv'
<1>1. CASE queue = <<>>
  <2>1. /\ thread' = [thread EXCEPT ![e] = "wait"] /\ stale' = stale \ {e}
        /\ UNCHANGED <<ctrl, fiber_map, at, waker, newborn, queue, current>>
    BY <1>1 DEF Dequeue
  <2>2. TypeOK'
    BY <2>1 DEF IInv, TypeOK, ThreadPoints
  <2>3. \A d \in Executors : ExecutorInv(d)'
    BY <2>1 DEF Dequeue, IInv, TypeOK, ExecutorInv, Idle
  <2>4. \A f \in Fibers : PlaceInv(f)' /\ WakeInv(f)'
    BY <2>1 DEF IInv, PlaceInv, WakeInv, InQueue, OnExecutor
  <2>5. QED
    BY <2>1, <2>2, <2>3, <2>4 DEF IInv, QueueOnce, OneExecutor, NewbornInv
<1>2. CASE queue # <<>>
  <2> DEFINE f == Head(queue)
             p == IF ctrl[f].started THEN "woken" ELSE "user"
             c == [ctrl[f] EXCEPT !.started = TRUE]
  <2>1. /\ thread[e] = "dequeue" /\ thread' = [thread EXCEPT ![e] = "run"]
        /\ queue' = Tail(queue) /\ stale' = stale \ {e}
        /\ current' = [current EXCEPT ![e] = f]
        /\ at' = [at EXCEPT ![f] = p] /\ ctrl' = [ctrl EXCEPT ![f] = c]
        /\ UNCHANGED <<fiber_map, waker, newborn>>
    BY <1>2 DEF Dequeue, Move, SetCtrl
  <2>2. /\ f \in Fibers /\ InQueue(f) /\ queue' \in Seq(Fibers) /\ QueueOnce'
        /\ \A g \in Fibers : InQueue(g)' <=> InQueue(g) /\ g # f
    BY <1>2, <2>1, DequeueTakes DEF IInv, TypeOK
  <2>3. /\ at[f] = "ready" \/ at[f] = "parked"
        /\ ~OnExecutor(f) /\ ~ctrl[f].deferred
        /\ at[f] = "parked" <=> ctrl[f].started
    BY <2>2 DEF IInv, PlaceInv
  <2> HIDE DEF f
  <2>4. /\ ctrl[f] \in Ctrl /\ c \in Ctrl /\ c.started
        /\ c.deferred = ctrl[f].deferred /\ c.done = ctrl[f].done
        /\ Interrupted(c) = Interrupted(ctrl[f])
    BY <2>2 DEF IInv, TypeOK, Ctrl, Interrupted
  <2> HIDE DEF c
  <2>5. /\ ctrl'[f] = c /\ at'[f] = p /\ current'[e] = f /\ thread'[e] = "run"
        /\ \A g \in Fibers : g # f => ctrl'[g] = ctrl[g] /\ at'[g] = at[g]
        /\ \A d \in Executors : d # e => current'[d] = current[d] /\ thread'[d] = thread[d]
    BY <2>1, <2>2 DEF IInv, TypeOK
  <2>6. TypeOK'
    BY <2>1, <2>2, <2>4 DEF IInv, TypeOK, ThreadPoints, FiberPoints
  <2>7. \A d \in Executors : ExecutorInv(d)'
    BY <2>2, <2>3, <2>5 DEF IInv, ExecutorInv, OnExecutor, Idle
  <2>8. current[e] = None
    BY <2>1 DEF IInv, ExecutorInv, Idle
  <2>9. \A g \in Fibers : OnExecutor(g)' <=> OnExecutor(g) \/ g = f
    BY <2>2, <2>5, <2>8, SchedAssumption DEF OnExecutor
  <2>10. \A g \in Fibers : PlaceInv(g)'
    BY <2>2, <2>3, <2>4, <2>5, <2>9 DEF IInv, PlaceInv
  <2>11. ASSUME NEW g \in Fibers PROVE WakeInv(g)'
    <3>1. CASE g = f
      BY <2>1, <2>3, <2>4, <2>5, <3>1 DEF IInv, WakeInv
    <3>2. CASE g # f
      BY <2>1, <2>5, <3>2 DEF IInv, WakeInv
    <3>3. QED
      BY <3>1, <3>2
  <2>12. OneExecutor'
    BY <2>2, <2>3, <2>5 DEF IInv, OneExecutor, OnExecutor
  <2>13. NewbornInv'
    BY <2>1, <2>3, <2>5 DEF IInv, TypeOK, NewbornInv
  <2>14. QED
    BY <2>2, <2>6, <2>7, <2>10, <2>11, <2>12, <2>13 DEF IInv
<1>3. QED
  BY <1>1, <1>2

LEMMA FutexKeeps ==
    ASSUME IInv, NEW e \in Executors, FutexWait(e) \/ FutexInterrupted(e)
    PROVE  IInv'
<1>1. PICK p \in {"dequeue", "asleep"} : thread' = [thread EXCEPT ![e] = p]
  BY DEF FutexWait, FutexInterrupted
<1>2. /\ thread[e] \in {"wait", "asleep"} /\ stale' \subseteq stale
      /\ UNCHANGED <<ctrl, fiber_map, at, waker, newborn, queue, current>>
  BY DEF FutexWait, FutexInterrupted, fiberVars
<1>3. TypeOK'
  BY <1>1, <1>2 DEF IInv, TypeOK, ThreadPoints
<1>4. \A d \in Executors : ExecutorInv(d)'
  BY <1>1, <1>2 DEF IInv, TypeOK, ExecutorInv, Idle
<1>5. \A f \in Fibers : PlaceInv(f)' /\ WakeInv(f)'
  BY <1>2 DEF IInv, PlaceInv, WakeInv, InQueue, OnExecutor
<1>6. QED
  BY <1>2, <1>3, <1>4, <1>5 DEF IInv, QueueOnce, OneExecutor, NewbornInv

\* The fiber that an executor takes off itself: what its last step there keeps.
LEMMA LeaveKeeps ==
    ASSUME IInv, NEW e \in Executors, NEW f \in Fibers,
           thread[e] \in {"switch", "unindexed"}, current[e] = f,
           current' = [current EXCEPT ![e] = None],
           NEW p \in {"parked", "free"}, at' = [at EXCEPT ![f] = p],
           NEW c \in Ctrl, ctrl' = [ctrl EXCEPT ![f] = c],
           thread' \in [Executors -> ThreadPoints],
           OnlyWakes([thread EXCEPT ![e] = "dequeue"]),
           UNCHANGED <<waker, newborn>>, fiber_map' \subseteq Fibers,
           queue' \in Seq(Fibers), QueueOnce', stale' \subseteq Executors,
           \A g \in Fibers :
                InQueue(g)' <=> InQueue(g) \/ (g = f /\ p = "parked" /\ ~c.deferred),
           c.deferred => p = "parked", p = "parked" <=> c.started,
           WakeInv(f)'
    PROVE  IInv'
<1>1. TypeOK'
  BY DEF IInv, TypeOK, FiberPoints
<1>2. at[f] \in {"defer", "yield", "ended"}
  BY DEF IInv, ExecutorInv
<1>3. ~ctrl[f].deferred /\ ~InQueue(f) /\ OnExecutor(f)
      /\ \A d \in Executors : current[d] = f => d = e
  BY <1>2, RunsFacts
<1>4. /\ ctrl'[f] = c /\ at'[f] = p /\ current'[e] = None /\ thread'[e] = "dequeue"
      /\ \A g \in Fibers : g # f => ctrl'[g] = ctrl[g] /\ at'[g] = at[g]
      /\ \A d \in Executors : d # e => current'[d] = current[d]
      /\ \A d \in Executors : d # e =>
            \/ thread'[d] = thread[d]
            \/ thread[d] = "asleep" /\ thread'[d] = "dequeue"
  BY DEF IInv, TypeOK, OnlyWakes
<1>5. \A g \in Fibers : OnExecutor(g)' <=> OnExecutor(g) /\ g # f
  BY <1>3, <1>4, SchedAssumption DEF OnExecutor
<1>6. ASSUME NEW d \in Executors PROVE ExecutorInv(d)'
  BY <1>3, <1>4 DEF IInv, ExecutorInv, Idle
<1>7. ASSUME NEW g \in Fibers PROVE PlaceInv(g)'
  BY <1>3, <1>4, <1>5 DEF IInv, PlaceInv
<1>8. ASSUME NEW g \in Fibers PROVE WakeInv(g)'
  <2>1. CASE g = f
    BY <2>1
  <2>2. CASE g # f
    BY <1>4, <2>2 DEF IInv, WakeInv
  <2>3. QED
    BY <2>1, <2>2
<1>9. OneExecutor'
  BY <1>4 DEF IInv, OneExecutor
<1>10. NewbornInv'
  BY <1>2, <1>4 DEF IInv, TypeOK, NewbornInv
<1>11. QED
  BY <1>1, <1>6, <1>7, <1>8, <1>9, <1>10 DEF IInv

LEMMA SwitchBounceKeeps ==
    ASSUME IInv, NEW e \in Executors, SwitchBounce(e) PROVE IInv'
<1> DEFINE f == current[e]
<1>1. /\ thread[e] = "switch" /\ thread' = [thread EXCEPT ![e] = "run"]
      /\ Bounces(ctrl[f]) /\ at' = [at EXCEPT ![f] = "woken"]
      /\ UNCHANGED <<ctrl, fiber_map, waker, newborn, queue, stale, current>>
  BY DEF SwitchBounce, Move
<1>2. f \in Fibers /\ at[f] \in {"defer", "yield"}
  BY <1>1 DEF IInv, ExecutorInv, Idle
<1>3. ~ctrl[f].deferred /\ ~InQueue(f) /\ OnExecutor(f)
      /\ \A d \in Executors : current[d] = f => d = e
  BY <1>2, RunsFacts
<1> HIDE DEF f
<1>4. /\ at'[f] = "woken" /\ thread'[e] = "run"
      /\ \A g \in Fibers : g # f => at'[g] = at[g]
      /\ \A d \in Executors : d # e => thread'[d] = thread[d]
  BY <1>1, <1>2 DEF IInv, TypeOK
<1>5. TypeOK'
  BY <1>1, <1>2 DEF IInv, TypeOK, FiberPoints, ThreadPoints
<1>6. /\ \A g \in Fibers : OnExecutor(g)' <=> OnExecutor(g)
      /\ \A g \in Fibers : InQueue(g)' <=> InQueue(g)
  BY <1>1 DEF OnExecutor, InQueue
<1>7. ASSUME NEW d \in Executors PROVE ExecutorInv(d)'
  <2>1. CASE d = e
    BY <1>1, <1>2, <1>4, <2>1 DEF ExecutorInv, Idle, f
  <2>2. CASE d # e
    BY <1>1, <1>3, <1>4, <2>2 DEF IInv, ExecutorInv, Idle
  <2>3. QED
    BY <2>1, <2>2
<1>8. ASSUME NEW g \in Fibers PROVE PlaceInv(g)'
  BY <1>1, <1>2, <1>3, <1>4, <1>6 DEF IInv, PlaceInv
<1>9. ASSUME NEW g \in Fibers PROVE WakeInv(g)'
  <2>1. CASE g = f
    BY <1>1, <1>2, <1>3, <1>4, <2>1 DEF IInv, WakeInv, Bounces
  <2>2. CASE g # f
    BY <1>1, <1>4, <2>2 DEF IInv, WakeInv
  <2>3. QED
    BY <2>1, <2>2
<1>10. QueueOnce' /\ OneExecutor' /\ NewbornInv'
  BY <1>1, <1>2, <1>4 DEF IInv, TypeOK, QueueOnce, OneExecutor, NewbornInv
<1>11. QED
  BY <1>5, <1>7, <1>8, <1>9, <1>10 DEF IInv

LEMMA SwitchAwayKeeps ==
    ASSUME IInv, NEW e \in Executors, SwitchAway(e) PROVE IInv'
<1>0. PICK f \in Fibers : f = current[e]
  BY DEF SwitchAway, IInv, ExecutorInv, Idle
<1> DEFINE threads == [thread EXCEPT ![e] = "dequeue"]
<1>1. /\ thread[e] = "switch" /\ ~Bounces(ctrl[f])
      /\ current' = [current EXCEPT ![e] = None]
      /\ at' = [at EXCEPT ![f] = "parked"]
      /\ UNCHANGED <<fiber_map, waker, newborn>>
  BY <1>0 DEF SwitchAway, Move
<1>2. at[f] \in {"defer", "yield"} /\ threads \in [Executors -> ThreadPoints]
  BY <1>0, <1>1 DEF IInv, TypeOK, ExecutorInv, Idle, ThreadPoints
<1>3. ~ctrl[f].deferred /\ ~InQueue(f) /\ ctrl[f].started /\ ctrl[f] \in Ctrl
  BY <1>0, <1>2, RunsFacts DEF IInv, PlaceInv, TypeOK
<1>4. fiber_map' \subseteq Fibers
  BY <1>1 DEF IInv, TypeOK
<1>5. CASE at[f] = "yield"
  <2>1. Enqueue(f, threads) /\ ctrl' = ctrl
    BY <1>0, <1>5 DEF SwitchAway
  <2>2. /\ queue' \in Seq(Fibers) /\ QueueOnce' /\ stale' \subseteq Executors
        /\ \A g \in Fibers : InQueue(g)' <=> InQueue(g) \/ g = f
        /\ thread' \in [Executors -> ThreadPoints] /\ OnlyWakes(threads)
    BY <1>2, <1>3, <2>1, EnqueueAdds DEF IInv, TypeOK
  <2>3. ctrl' = [ctrl EXCEPT ![f] = ctrl[f]]
    BY <1>2, <2>1 DEF IInv, TypeOK
  <2>4. WakeInv(f)'
    BY <1>1, <1>2, <1>3, <1>5, <2>1 DEF IInv, TypeOK, WakeInv
  <2>5. QED
    BY <1>0, <1>1, <1>2, <1>3, <1>4, <2>2, <2>3, <2>4, LeaveKeeps
<1>6. CASE at[f] # "yield"
  <2> DEFINE c == [ctrl[f] EXCEPT !.deferred = TRUE]
  <2>1. /\ ctrl' = [ctrl EXCEPT ![f] = c] /\ thread' = threads
        /\ UNCHANGED <<queue, stale>>
    BY <1>0, <1>6 DEF SwitchAway, SetCtrl
  <2>2. /\ c \in Ctrl /\ c.deferred /\ c.started /\ ~Bounces(c)
        /\ ~ctrl[f].done /\ ~c.done
    BY <1>1, <1>2, <1>3 DEF IInv, TypeOK, Ctrl, Bounces, Interrupted
  <2>3. /\ queue' \in Seq(Fibers) /\ QueueOnce' /\ stale' \subseteq Executors
        /\ \A g \in Fibers : InQueue(g)' <=> InQueue(g)
        /\ thread' \in [Executors -> ThreadPoints] /\ OnlyWakes(threads)
    BY <1>2, <2>1 DEF IInv, TypeOK, QueueOnce, InQueue, OnlyWakes
  <2>4. WakeInv(f)'
    <3>1. f \in waker
      BY <1>2, <1>6, <2>2 DEF IInv, WakeInv
    <3>2. at'[f] = "parked" /\ ctrl'[f] = c /\ waker' = waker
      BY <1>1, <1>2, <2>1 DEF IInv, TypeOK
    <3> HIDE DEF c
    <3>3. QED
      BY <2>2, <3>1, <3>2 DEF WakeInv
  <2> HIDE DEF c
  <2>5. QED
    BY <1>0, <1>1, <1>2, <1>4, <2>1, <2>2, <2>3, <2>4, LeaveKeeps
<1>7. QED
  BY <1>5, <1>6

LEMMA TeardownKeeps ==
    ASSUME IInv, NEW e \in Executors, Unindex(e) \/ FreeFiber(e) PROVE IInv'
<1>1. CASE Unindex(e)
  <2>1. /\ thread[e] = "teardown" /\ thread' = [thread EXCEPT ![e] = "unindexed"]
        /\ fiber_map' \subseteq fiber_map
        /\ UNCHANGED <<ctrl, at, waker, newborn, queue, stale, current>>
    BY <1>1 DEF Unindex
  <2>2. TypeOK'
    BY <2>1 DEF IInv, TypeOK, ThreadPoints
  <2>3. \A d \in Executors : ExecutorInv(d)'
    BY <2>1 DEF IInv, TypeOK, ExecutorInv, Idle
  <2>4. \A f \in Fibers : PlaceInv(f)' /\ WakeInv(f)'
    BY <2>1 DEF IInv, PlaceInv, WakeInv, InQueue, OnExecutor
  <2>5. QED
    BY <2>1, <2>2, <2>3, <2>4 DEF IInv, QueueOnce, OneExecutor, NewbornInv
<1>2. CASE FreeFiber(e)
  <2>0. PICK f \in Fibers : f = current[e]
    BY <1>2 DEF FreeFiber, IInv, ExecutorInv, Idle
  <2>1. /\ thread[e] = "unindexed" /\ thread' = [thread EXCEPT ![e] = "dequeue"]
        /\ current' = [current EXCEPT ![e] = None]
        /\ at' = [at EXCEPT ![f] = "free"] /\ ctrl' = [ctrl EXCEPT ![f] = NewCtrl]
        /\ UNCHANGED <<fiber_map, waker, newborn, queue, stale>>
    BY <1>2, <2>0 DEF FreeFiber, Move, SetCtrl
  <2>2. at[f] = "ended"
    BY <2>0, <2>1 DEF IInv, ExecutorInv, Idle
  <2>3. f \notin waker
    BY <2>2 DEF IInv, WakeInv
  <2>4. NewCtrl \in Ctrl /\ ~NewCtrl.deferred /\ ~NewCtrl.started
    BY DEF NewCtrl, Ctrl
  <2>5. /\ queue' \in Seq(Fibers) /\ QueueOnce' /\ stale' \subseteq Executors
        /\ \A g \in Fibers : InQueue(g)' <=> InQueue(g)
        /\ fiber_map' \subseteq Fibers
        /\ thread' \in [Executors -> ThreadPoints]
        /\ OnlyWakes([thread EXCEPT ![e] = "dequeue"])
    BY <2>1 DEF IInv, TypeOK, QueueOnce, InQueue, OnlyWakes, ThreadPoints
  <2>6. WakeInv(f)'
    BY <2>1, <2>2, <2>3, <2>4 DEF IInv, TypeOK, WakeInv
  <2>7. QED
    BY <2>0, <2>1, <2>4, <2>5, <2>6, LeaveKeeps
<1>3. QED
  BY <1>1, <1>2

-----------------------------------------------------------------------------
(* The steps of a running fiber.                                           *)

\* What Running says, with the facts every step of a fiber starts from.
LEMMA RunningFacts ==
    ASSUME IInv, NEW f \in Fibers, NEW p \in {"user", "defer", "yield", "woken"},
           Running(f, p)
    PROVE  /\ at[f] = p /\ ctrl[f] \in Ctrl /\ ~ctrl[f].deferred /\ ctrl[f].started
           /\ WakeInv(f)
           /\ \E e \in Executors : current[e] = f /\ thread[e] = "run"
<1>1. PICK e \in Executors : Runs(e, f, p)
  BY DEF Running
<1>2. at[f] = p /\ current[e] = f /\ thread[e] = "run"
  BY <1>1 DEF Runs
<1>3. QED
  BY <1>2, RunsFacts DEF IInv, TypeOK

\* A fiber that runs its own code and goes to point p with control block c.
LEMMA UserKeeps ==
    ASSUME IInv, NEW f \in Fibers, NEW q \in {"user", "woken"}, Running(f, q),
           NEW p \in {"user", "defer", "yield", "woken"}, at' = [at EXCEPT ![f] = p],
           NEW c \in Ctrl, ctrl' = [ctrl EXCEPT ![f] = c], ~c.deferred, c.started,
           waker' = waker \/ waker' = waker \union {f} \/ waker' = waker \ {f},
           UNCHANGED <<fiber_map, newborn, queue, stale, thread, current>>,
           WakeInv(f)'
    PROVE  IInv'
<1>1. PICK e \in Executors : current[e] = f /\ thread[e] = "run"
  BY RunningFacts
<1>2. QED
  BY <1>1, LocalKeeps

LEMMA WaitKeeps ==
    ASSUME IInv, NEW f \in Fibers,
           BeginWait(f) \/ Yield(f) \/ EndWait(f) \/ Throw(f)
             \/ \E b \in BOOLEAN : SetUnintr(f, b)
    PROVE  IInv'
<1>1. PICK q \in {"user", "woken"} : Running(f, q)
  BY DEF BeginWait, Yield, EndWait, Throw, SetUnintr
<1>2. /\ at[f] = q /\ ctrl[f] \in Ctrl /\ ~ctrl[f].deferred /\ ctrl[f].started
      /\ WakeInv(f)
  BY <1>1, RunningFacts
<1>3. UNCHANGED <<fiber_map, newborn, queue, stale, thread, current>>
  BY DEF BeginWait, Yield, EndWait, Throw, SetUnintr, execVars
<1> DEFINE Goes(p, c) ==
              at' = [at EXCEPT ![f] = p] /\ ctrl' = [ctrl EXCEPT ![f] = c]
<1>4. at = [at EXCEPT ![f] = at[f]] /\ ctrl = [ctrl EXCEPT ![f] = ctrl[f]]
  BY DEF IInv, TypeOK
<1>5. CASE BeginWait(f)
  <2> DEFINE c == [ctrl[f] EXCEPT !.done = FALSE]
  <2>1. c \in Ctrl /\ ~c.deferred /\ c.started /\ ~c.done
    BY <1>2 DEF Ctrl
  <2>2. at' = [at EXCEPT ![f] = "defer"] /\ ctrl' = [ctrl EXCEPT ![f] = c]
        /\ waker' = waker \union {f}
    BY <1>5 DEF BeginWait, Move, SetCtrl
  <2>3. WakeInv(f)'
    BY <2>1, <2>2 DEF IInv, TypeOK, WakeInv
  <2> HIDE DEF c
  <2>4. QED
    BY <1>1, <1>3, <2>1, <2>2, <2>3, UserKeeps
<1>6. CASE Yield(f)
  <2> DEFINE c == [ctrl[f] EXCEPT !.done = FALSE]
  <2>1. c \in Ctrl /\ ~c.deferred /\ c.started /\ ~c.done
    BY <1>2 DEF Ctrl
  <2>2. at' = [at EXCEPT ![f] = "yield"] /\ ctrl' = [ctrl EXCEPT ![f] = c]
        /\ waker' = waker
    BY <1>6 DEF Yield, Move, SetCtrl
  <2>3. f \notin waker
    BY <1>2, <1>6, RunningFacts DEF Yield, WakeInv
  <2>4. WakeInv(f)'
    BY <2>1, <2>2, <2>3 DEF IInv, TypeOK, WakeInv
  <2> HIDE DEF c
  <2>5. QED
    BY <1>1, <1>3, <2>1, <2>2, <2>4, UserKeeps
<1>7. CASE EndWait(f) \/ Throw(f) \/ \E b \in BOOLEAN : SetUnintr(f, b)
  <2>1. PICK c \in Ctrl : /\ ~c.deferred /\ c.started
                          /\ ctrl' = [ctrl EXCEPT ![f] = c]
    <3>1. ASSUME NEW b \in BOOLEAN, SetUnintr(f, b)
          PROVE  \E c \in Ctrl : /\ ~c.deferred /\ c.started
                                 /\ ctrl' = [ctrl EXCEPT ![f] = c]
      BY <1>2, <3>1 DEF SetUnintr, SetCtrl, Ctrl
    <3>2. /\ CancellationPoint(ctrl[f]) \in Ctrl
          /\ ~CancellationPoint(ctrl[f]).deferred
          /\ CancellationPoint(ctrl[f]).started
      BY <1>2 DEF CancellationPoint, Ctrl
    <3>3. QED
      BY <1>7, <3>1, <3>2 DEF EndWait, Throw, SetCtrl
  <2>2. at' = [at EXCEPT ![f] = "user"]
    BY <1>4, <1>7, RunningFacts DEF EndWait, Throw, SetUnintr, Move
  <2>3. f \notin waker' /\ (waker' = waker \/ waker' = waker \ {f})
    BY <1>7, RunningFacts DEF EndWait, Throw, SetUnintr, WakeInv
  <2>4. WakeInv(f)'
    BY <2>1, <2>2, <2>3 DEF IInv, TypeOK, WakeInv
  <2>5. QED
    BY <1>1, <1>3, <2>1, <2>2, <2>3, <2>4, UserKeeps
<1>8. QED
  BY <1>5, <1>6, <1>7

LEMMA DeferKeeps ==
    ASSUME IInv, NEW f \in Fibers, Defer(f) PROVE IInv'
<1>1. PICK e \in Executors, p \in {"defer", "yield"} :
        /\ Runs(e, f, p)
        /\ IF Bounces(ctrl[f])
           THEN Move(f, "woken") /\ UNCHANGED thread
           ELSE thread' = [thread EXCEPT ![e] = "switch"] /\ UNCHANGED at
        /\ UNCHANGED <<ctrl, fiber_map, waker, newborn, queue, stale, current>>
  BY DEF Defer
<1>2. at[f] = p /\ current[e] = f /\ thread[e] = "run"
  BY <1>1 DEF Runs
<1>3. /\ ~ctrl[f].deferred /\ ctrl[f].started /\ ctrl[f] \in Ctrl
      /\ \A d \in Executors : current[d] = f => d = e
      /\ WakeInv(f)
  BY <1>2, RunsFacts DEF IInv, TypeOK
<1>4. CASE Bounces(ctrl[f])
  <2>1. at' = [at EXCEPT ![f] = "woken"] /\ UNCHANGED thread
    BY <1>1, <1>4 DEF Move
  <2>2. ctrl' = [ctrl EXCEPT ![f] = ctrl[f]]
    BY <1>1 DEF IInv, TypeOK
  <2>3. WakeInv(f)'
    BY <1>1, <1>2, <1>3, <1>4, <2>1 DEF IInv, TypeOK, WakeInv, Bounces
  <2>4. QED
    BY <1>1, <1>2, <1>3, <2>1, <2>2, <2>3, LocalKeeps
<1>5. CASE ~Bounces(ctrl[f])
  <2>1. thread' = [thread EXCEPT ![e] = "switch"] /\ UNCHANGED at
    BY <1>1, <1>5
  <2>2. TypeOK'
    BY <1>1, <2>1 DEF IInv, TypeOK, ThreadPoints
  <2>3. \A d \in Executors : ExecutorInv(d)'
    BY <1>1, <1>2, <2>1 DEF IInv, TypeOK, ExecutorInv, Idle
  <2>4. \A g \in Fibers : PlaceInv(g)' /\ WakeInv(g)'
    BY <1>1, <2>1 DEF IInv, PlaceInv, WakeInv, InQueue, OnExecutor
  <2>5. QED
    BY <1>1, <2>1, <2>2, <2>3, <2>4 DEF IInv, QueueOnce, OneExecutor, NewbornInv
<1>6. QED
  BY <1>4, <1>5

LEMMA FinalizeKeeps ==
    ASSUME IInv, NEW f \in Fibers, Finalize(f) PROVE IInv'
<1>1. PICK e \in Executors :
        /\ Runs(e, f, "user") /\ newborn[f] = None
        /\ at' = [at EXCEPT ![f] = "ended"]
        /\ thread' = [thread EXCEPT ![e] = "teardown"]
        /\ UNCHANGED <<ctrl, fiber_map, waker, newborn, queue, stale, current>>
  BY DEF Finalize, Move
<1>2. at[f] = "user" /\ current[e] = f /\ thread[e] = "run"
  BY <1>1 DEF Runs
<1>3. /\ ~ctrl[f].deferred /\ ctrl[f].started /\ ~InQueue(f) /\ OnExecutor(f)
      /\ \A d \in Executors : current[d] = f => d = e
  BY <1>2, RunsFacts
<1>4. /\ at'[f] = "ended" /\ thread'[e] = "teardown"
      /\ \A g \in Fibers : g # f => at'[g] = at[g]
      /\ \A d \in Executors : d # e => thread'[d] = thread[d]
  BY <1>1 DEF IInv, TypeOK
<1>5. TypeOK'
  BY <1>1 DEF IInv, TypeOK, FiberPoints, ThreadPoints
<1>6. /\ \A g \in Fibers : OnExecutor(g)' <=> OnExecutor(g)
      /\ \A g \in Fibers : InQueue(g)' <=> InQueue(g)
  BY <1>1 DEF OnExecutor, InQueue
<1>7. ASSUME NEW d \in Executors PROVE ExecutorInv(d)'
  BY <1>1, <1>2, <1>3, <1>4 DEF IInv, ExecutorInv, Idle
<1>8. \A g \in Fibers : PlaceInv(g)'
  BY <1>1, <1>2, <1>3, <1>4, <1>6 DEF IInv, PlaceInv
<1>9. \A g \in Fibers : WakeInv(g)'
  BY <1>1, <1>2, <1>4 DEF IInv, WakeInv
<1>10. QueueOnce' /\ OneExecutor' /\ NewbornInv'
  BY <1>1, <1>2, <1>4 DEF IInv, TypeOK, QueueOnce, OneExecutor, NewbornInv
<1>11. QED
  BY <1>5, <1>7, <1>8, <1>9, <1>10 DEF IInv

LEMMA PushMitosisKeeps ==
    ASSUME IInv, NEW f \in Fibers, NEW g \in Fibers, PushMitosis(f, g) PROVE IInv'
<1>1. /\ Running(f, "user") /\ newborn[f] = None /\ at[g] = "free"
      /\ fiber_map' = fiber_map \union {g}
      /\ ctrl' = [ctrl EXCEPT ![g] = NewCtrl]
      /\ at' = [at EXCEPT ![g] = "mitosis"]
      /\ newborn' = [newborn EXCEPT ![f] = g]
      /\ UNCHANGED <<waker, queue, stale, thread, current>>
  BY DEF PushMitosis, SetCtrl, Move, execVars
<1>2. /\ NewCtrl \in Ctrl /\ ~NewCtrl.deferred /\ ~NewCtrl.started /\ ~NewCtrl.done
  BY DEF NewCtrl, Ctrl
<1>3. ~OnExecutor(g) /\ ~InQueue(g) /\ g \notin waker
  BY <1>1 DEF IInv, PlaceInv, WakeInv
<1>4. /\ ctrl'[g] = NewCtrl /\ at'[g] = "mitosis"
      /\ \A h \in Fibers : h # g => ctrl'[h] = ctrl[h] /\ at'[h] = at[h]
  BY <1>1 DEF IInv, TypeOK
<1>5. TypeOK'
  BY <1>1, <1>2 DEF IInv, TypeOK, FiberPoints
<1>6. /\ \A h \in Fibers : OnExecutor(h)' <=> OnExecutor(h)
      /\ \A h \in Fibers : InQueue(h)' <=> InQueue(h)
  BY <1>1 DEF OnExecutor, InQueue
<1>7. ASSUME NEW d \in Executors PROVE ExecutorInv(d)'
  BY <1>1, <1>3, <1>4 DEF IInv, ExecutorInv, OnExecutor, Idle
<1>8. \A h \in Fibers : PlaceInv(h)'
  BY <1>1, <1>2, <1>3, <1>4, <1>6 DEF IInv, PlaceInv
<1>9. ASSUME NEW h \in Fibers PROVE WakeInv(h)'
  <2>1. CASE h = g
    BY <1>1, <1>2, <1>3, <1>4, <2>1 DEF WakeInv
  <2>2. CASE h # g
    BY <1>1, <1>4, <2>2 DEF IInv, WakeInv
  <2>3. QED
    BY <2>1, <2>2
<1>10. NewbornInv'
  BY <1>1, <1>4 DEF IInv, TypeOK, NewbornInv
<1>11. QueueOnce' /\ OneExecutor'
  BY <1>1 DEF IInv, QueueOnce, OneExecutor
<1>12. QED
  BY <1>5, <1>7, <1>8, <1>9, <1>10, <1>11 DEF IInv

LEMMA PopMitosisKeeps ==
    ASSUME IInv, NEW f \in Fibers, PopMitosis(f) PROVE IInv'
<1>1. PICK g \in Fibers : g = newborn[f]
  BY DEF PopMitosis, IInv, TypeOK
<1>2. /\ at' = [at EXCEPT ![g] = "ready"]
      /\ newborn' = [newborn EXCEPT ![f] = None]
      /\ Enqueue(g, thread)
      /\ UNCHANGED <<ctrl, fiber_map, waker, current>>
  BY <1>1 DEF PopMitosis, Move
<1>3. /\ at[g] = "mitosis" /\ \A h \in Fibers : newborn[h] = g => h = f
  BY <1>1, SchedAssumption DEF IInv, NewbornInv
<1>4. ~OnExecutor(g) /\ ~InQueue(g) /\ ~ctrl[g].started /\ ~ctrl[g].deferred
  BY <1>3 DEF IInv, PlaceInv
<1>5. /\ queue' \in Seq(Fibers) /\ QueueOnce' /\ stale' \subseteq Executors
      /\ \A h \in Fibers : InQueue(h)' <=> InQueue(h) \/ h = g
      /\ thread' \in [Executors -> ThreadPoints] /\ OnlyWakes(thread)
  BY <1>2, <1>4, EnqueueAdds DEF IInv, TypeOK
<1>6. at'[g] = "ready" /\ \A h \in Fibers : h # g => at'[h] = at[h]
  BY <1>2 DEF IInv, TypeOK
<1>7. TypeOK'
  BY <1>2, <1>5 DEF IInv, TypeOK, FiberPoints
<1>8. \A h \in Fibers : OnExecutor(h)' <=> OnExecutor(h)
  BY <1>2 DEF OnExecutor
<1>9. ASSUME NEW d \in Executors PROVE ExecutorInv(d)'
  BY <1>2, <1>4, <1>5, <1>6 DEF IInv, ExecutorInv, OnExecutor, OnlyWakes, Idle
<1>10. \A h \in Fibers : PlaceInv(h)'
  BY <1>2, <1>4, <1>5, <1>6, <1>8 DEF IInv, PlaceInv
<1>11. \A h \in Fibers : WakeInv(h)'
  BY <1>2, <1>3, <1>6 DEF IInv, WakeInv
<1>12. NewbornInv'
  BY <1>2, <1>3, <1>6 DEF IInv, TypeOK, NewbornInv
<1>13. OneExecutor'
  BY <1>2 DEF IInv, OneExecutor
<1>14. QED
  BY <1>5, <1>7, <1>9, <1>10, <1>11, <1>12, <1>13 DEF IInv

\* What cancelling or racing a fiber does to its control block.
LEMMA InterruptFacts ==
    ASSUME NEW b \in Ctrl, NEW c \in {Cancel(b), WakeJoinRace(b)}
    PROVE  /\ c \in Ctrl /\ c.started = b.started /\ c.done = b.done
           /\ c.unintr = b.unintr
           /\ b.canceled => c.canceled
           /\ b.join_race => c.join_race
           /\ c.deferred => b.deferred
           /\ b.deferred /\ ~c.deferred => Interrupted(c)
           /\ b.deferred /\ c.deferred /\ ~Bounces(b) => ~Bounces(c)
<1>1. CASE c = Cancel(b)
  BY <1>1 DEF Cancel, Ctrl, Interrupted, Bounces
<1>2. CASE c = WakeJoinRace(b)
  BY <1>2 DEF WakeJoinRace, Ctrl, Interrupted, Bounces
<1>3. QED
  BY <1>1, <1>2

LEMMA InterruptKeeps ==
    ASSUME IInv, NEW f \in Fibers, NEW c \in {Cancel(ctrl[f]), WakeJoinRace(ctrl[f])},
           Rouse(f, c), UNCHANGED <<fiber_map, at, waker, newborn, current>>
    PROVE  IInv'
<1>1. ctrl[f] \in Ctrl /\ WakeInv(f)
  BY DEF IInv, TypeOK
<1>2. /\ c \in Ctrl /\ c.started = ctrl[f].started /\ c.done = ctrl[f].done
      /\ c.deferred => ctrl[f].deferred
      /\ ctrl[f].deferred /\ ~c.deferred => Interrupted(c)
      /\ ctrl[f].deferred /\ c.deferred /\ ~Bounces(ctrl[f]) => ~Bounces(c)
      /\ Interrupted(ctrl[f]) => Interrupted(c)
  BY <1>1, InterruptFacts DEF Interrupted
<1>3. ctrl'[f] = c
  BY <1>2, RouseAdds DEF IInv, TypeOK
<1>4. WakeInv(f)'
  BY <1>1, <1>2, <1>3 DEF WakeInv
<1>5. QED
  BY <1>2, <1>4, RouseKeeps

LEMMA CompleteKeeps ==
    ASSUME IInv, NEW f \in Fibers, Complete(f) PROVE IInv'
<1> DEFINE c == WakeDone(ctrl[f])
<1>1. ctrl[f] \in Ctrl /\ WakeInv(f) /\ PlaceInv(f)
  BY DEF IInv, TypeOK
<1>2. /\ c \in Ctrl /\ c.started = ctrl[f].started /\ ~c.deferred
      /\ ~ctrl[f].deferred => c.done
  BY <1>1 DEF WakeDone, Ctrl
<1> HIDE DEF c
<1>3. /\ Rouse(f, c) /\ f \in waker /\ waker' = waker \ {f}
      /\ UNCHANGED <<fiber_map, at, newborn, current>>
  BY DEF Complete, c
<1>4. ctrl'[f] = c
  BY <1>2, <1>3, RouseAdds DEF IInv, TypeOK
<1>5. WakeInv(f)'
  BY <1>1, <1>2, <1>3, <1>4 DEF WakeInv, PlaceInv
<1>6. QED
  BY <1>2, <1>3, <1>5, RouseKeeps

LEMMA CancelKeeps ==
    ASSUME IInv, NEW f \in Fibers, NEW g \in Fibers,
           CancelFiber(f, g) \/ ExclusiveCancelFiber(f, g)
    PROVE  IInv'
<1>1. CASE Rouse(g, Cancel(ctrl[g]))
  BY <1>1, InterruptKeeps DEF CancelFiber, ExclusiveCancelFiber
<1>2. CASE ~Rouse(g, Cancel(ctrl[g]))
  <2> DEFINE c == [ctrl[f] EXCEPT !.canceled = FALSE]
  <2>1. /\ Running(f, "user") /\ ctrl' = [ctrl EXCEPT ![f] = c]
        /\ UNCHANGED <<fiber_map, at, waker, newborn, queue, stale, thread, current>>
    BY <1>2 DEF CancelFiber, ExclusiveCancelFiber, SetCtrl
  <2>2. at[f] = "user" /\ ctrl[f] \in Ctrl /\ ~ctrl[f].deferred /\ ctrl[f].started
        /\ WakeInv(f)
    BY <2>1, RunningFacts
  <2>3. c \in Ctrl /\ ~c.deferred /\ c.started
    BY <2>2 DEF Ctrl
  <2>4. at' = [at EXCEPT ![f] = "user"]
    BY <2>1, <2>2 DEF IInv, TypeOK
  <2>5. WakeInv(f)'
    BY <2>1, <2>2, <2>3 DEF IInv, TypeOK, WakeInv
  <2> HIDE DEF c
  <2>6. QED
    BY <2>1, <2>3, <2>4, <2>5, UserKeeps
<1>3. QED
  BY <1>1, <1>2

LEMMA StepIInv == IInv /\ [Next]_vars => IInv'
<1> SUFFICES ASSUME IInv, [Next]_vars PROVE IInv'
  OBVIOUS
<1>1. CASE UNCHANGED vars
  BY <1>1 DEF vars, fiberVars, execVars, IInv, TypeOK, QueueOnce, OneExecutor, NewbornInv,
              ExecutorInv, PlaceInv, WakeInv, InQueue, OnExecutor
<1>2. ASSUME NEW e \in Executors, ExecutorStep(e) \/ FutexInterrupted(e) PROVE IInv'
  BY <1>2, DequeueKeeps, FutexKeeps, SwitchBounceKeeps, SwitchAwayKeeps, TeardownKeeps
     DEF ExecutorStep
<1>3. ASSUME NEW f \in Fibers, FiberStep(f) PROVE IInv'
  <2>1. CASE BeginWait(f) \/ Yield(f) \/ EndWait(f) \/ Throw(f)
               \/ \E b \in BOOLEAN : SetUnintr(f, b)
    BY <2>1, WaitKeeps
  <2>2. CASE PopMitosis(f) \/ \E g \in Fibers : PushMitosis(f, g)
    BY <2>2, PopMitosisKeeps, PushMitosisKeeps
  <2>3. CASE \E g \in Fibers : CancelFiber(f, g) \/ ExclusiveCancelFiber(f, g)
    BY <2>3, CancelKeeps
  <2>4. CASE Finalize(f)
    BY <2>4, FinalizeKeeps
  <2>5. QED
    BY <1>3, <2>1, <2>2, <2>3, <2>4 DEF FiberStep
<1>4. ASSUME NEW f \in Fibers, Defer(f) \/ RaceFiber(f) \/ Complete(f) PROVE IInv'
  <2>1. CASE RaceFiber(f)
    BY <2>1, InterruptKeeps DEF RaceFiber
  <2>2. QED
    BY <1>4, <2>1, DeferKeeps, CompleteKeeps
<1>5. QED
  BY <1>1, <1>2, <1>3, <1>4 DEF Next

LEMMA SpecIInv == Spec => []IInv
BY InitIInv, StepIInv, PTL DEF Spec

\* Every variable has its type, in all executions, with any number of fibers and
\* executors.
THEOREM SchedulerTypes == Spec => []TypeOK
<1>1. IInv => TypeOK
  BY DEF IInv
<1>2. QED
  BY <1>1, SpecIInv, PTL

\* A fiber that sleeps has no reason to be awake: switch_fiber's test under the
\* lock and the wake-ups' tests of ctrl.deferred cannot miss each other.
THEOREM SleepersHaveNoReason == Spec => []DeferredHasNoReason
<1>1. IInv => DeferredHasNoReason
  BY DEF IInv, WakeInv, DeferredHasNoReason
<1>2. QED
  BY <1>1, SpecIInv, PTL

\* A fiber that sleeps will be found by the party it waits for: ctrl.done keeps
\* the wake-up that comes before the fiber sleeps.
THEOREM SleepersHaveWakers == Spec => []DeferredHasWaker
<1>1. IInv => DeferredHasWaker
  BY DEF IInv, WakeInv, DeferredHasWaker
<1>2. QED
  BY <1>1, SpecIInv, PTL

\* lwt_scheduler_fiber_defer returns for a cause only: no wake-up of an earlier
\* wait ends a later one.
THEOREM WaitsEndForCause == Spec => []WokenForCause
<1>1. IInv => WokenForCause
  BY DEF IInv, PlaceInv, WakeInv, WokenForCause
<1>2. QED
  BY <1>1, SpecIInv, PTL

\* A fiber is on one executor, or once in the queue, or asleep, never two of
\* them and never none.
THEOREM FibersInOnePlace == Spec => []OnePlace
<1>1. IInv => OnePlace
  <2>1. SUFFICES ASSUME IInv PROVE OnePlace
    OBVIOUS
  <2>2. \A f \in Fibers : at[f] \in FiberPoints
    BY <2>1 DEF IInv, TypeOK
  <2>3. QED
    BY <2>1, <2>2 DEF IInv, OnePlace, PlaceInv, QueueOnce, OneExecutor, FiberPoints
<1>2. QED
  BY <1>1, SpecIInv, PTL

-----------------------------------------------------------------------------
(* Work is conserved.  That needs, besides WorkConserving itself, that only  *)
(* an executor about to call FUTEX_WAIT has a value that can be out of date. *)

StaleWaits == \A e \in stale : thread[e] = "wait"

AwakeInv == StaleWaits /\ WorkConserving

\* The executors on their way to the queue are finitely many.
LEMMA OnTheirWayFinite == IsFiniteSet(OnTheirWay) /\ IsFiniteSet(Executors)
BY SchedAssumption, FS_Subset DEF OnTheirWay

\* When none falls asleep, none leaves its way to the queue, and the queue does not
\* grow, work stays conserved.
LEMMA AwakeFrame ==
    ASSUME AwakeInv, IInv,
           Sleepers' \subseteq Sleepers, OnTheirWay \subseteq OnTheirWay',
           queue' = queue
    PROVE  WorkConserving'
<1>1. OnTheirWay' \subseteq Executors
  BY DEF OnTheirWay
<1>2. IsFiniteSet(OnTheirWay')
  BY <1>1, SchedAssumption, FS_Subset
<1>3. Cardinality(OnTheirWay) <= Cardinality(OnTheirWay')
  BY <1>2, FS_Subset
<1>4. Cardinality(OnTheirWay) \in Nat /\ Cardinality(OnTheirWay') \in Nat
  BY <1>2, OnTheirWayFinite, FS_CardinalityType
<1>5. Len(queue) \in Nat
  BY LenProperties DEF IInv, TypeOK
<1>6. ASSUME Sleepers' # {} PROVE Cardinality(OnTheirWay') >= Len(queue')
  <2>1. Cardinality(OnTheirWay) >= Len(queue)
    BY <1>6 DEF AwakeInv, WorkConserving
  <2>2. QED
    BY <1>3, <1>4, <1>5, <2>1
<1>7. QED
  BY <1>6 DEF WorkConserving

\* An executor's step in its loop or a fiber's on it, as far as the queue is concerned:
\* nobody comes to sleep, and nobody leaves the queue's side.
LEMMA QuietKeepsAwake ==
    ASSUME AwakeInv, IInv, queue' = queue, stale' = stale,
           \A e \in Executors :
              \/ thread'[e] = thread[e]
              \/ thread[e] \notin {"dequeue", "wait"} /\ thread'[e] \notin {"wait", "asleep"}
    PROVE  AwakeInv'
<1>1. stale \subseteq Executors
  BY DEF IInv, TypeOK
<1>2. StaleWaits'
  BY <1>1 DEF AwakeInv, StaleWaits
<1>3. Sleepers' \subseteq Sleepers
  BY DEF Sleepers
<1>4. OnTheirWay \subseteq OnTheirWay'
  BY DEF OnTheirWay
<1>5. WorkConserving'
  BY <1>3, <1>4, AwakeFrame
<1>6. QED
  BY <1>2, <1>5 DEF AwakeInv

\* The fiber that is enqueued finds the executors that were about to sleep out of date,
\* and one that slept woken if any slept.
LEMMA EnqueueKeepsAwake ==
    ASSUME AwakeInv, IInv, NEW f, NEW threads \in [Executors -> ThreadPoints],
           Enqueue(f, threads),
           \A e \in Executors : \/ threads[e] = thread[e]
                                \/ thread[e] = "switch" /\ threads[e] = "dequeue"
    PROVE  AwakeInv'
<1>1. /\ stale' = {e \in Executors : threads[e] = "wait"}
      /\ thread' \in WakeOne(threads)
      /\ queue' = Append(queue, f)
  BY DEF Enqueue
<1>2. OnlyWakes(threads)
  BY <1>1, WakeOneWakes
<1>3. StaleWaits'
  BY <1>1, <1>2 DEF StaleWaits, OnlyWakes
<1>4. Len(queue) \in Nat /\ Len(queue') = Len(queue) + 1
  BY <1>1, LenProperties DEF IInv, TypeOK
<1>5. ASSUME Sleepers' # {} PROVE Cardinality(OnTheirWay') >= Len(queue')
  <2>1. PICK d \in Executors : thread'[d] = "asleep"
    <3>1. PICK d \in Executors : thread'[d] \in {"asleep", "wait"} /\ d \notin stale'
      BY <1>5 DEF Sleepers
    <3>2. thread'[d] # "wait"
      BY <1>1, <1>2, <3>1 DEF OnlyWakes
    <3>3. QED
      BY <3>1, <3>2
  <2>2. threads[d] = "asleep"
    BY <1>2, <2>1 DEF OnlyWakes
  <2>3. PICK e \in Executors : threads[e] = "asleep" /\ thread' = [threads EXCEPT ![e] = "dequeue"]
    BY <1>1, <2>2 DEF WakeOne
  <2>4. thread[e] = "asleep" /\ e \notin stale
    BY <2>3 DEF AwakeInv, StaleWaits
  <2>5. e \in Sleepers /\ e \notin OnTheirWay
    BY <2>4 DEF Sleepers, OnTheirWay
  <2>6. Cardinality(OnTheirWay) >= Len(queue)
    BY <2>5 DEF AwakeInv, WorkConserving
  <2>7. OnTheirWay \union {e} \subseteq OnTheirWay'
    <3>1. e \in OnTheirWay'
      BY <2>3 DEF OnTheirWay
    <3>2. ASSUME NEW x \in OnTheirWay PROVE x \in OnTheirWay'
      <4>1. x \in Executors /\ thread[x] \in {"dequeue", "wait"}
        BY DEF OnTheirWay, AwakeInv, StaleWaits
      <4>2. threads[x] \in {"dequeue", "wait"}
        BY <4>1
      <4>3. thread'[x] = threads[x]
        BY <2>3, <4>1, <4>2
      <4>4. QED
        BY <1>1, <4>1, <4>2, <4>3 DEF OnTheirWay
    <3>3. QED
      BY <3>1, <3>2
  <2>8. IsFiniteSet(OnTheirWay')
    <3>1. OnTheirWay' \subseteq Executors
      BY DEF OnTheirWay
    <3>2. QED
      BY <3>1, SchedAssumption, FS_Subset
  <2>9. /\ IsFiniteSet(OnTheirWay \union {e})
        /\ Cardinality(OnTheirWay \union {e}) = Cardinality(OnTheirWay) + 1
    BY <2>5, OnTheirWayFinite, FS_AddElement
  <2>10. Cardinality(OnTheirWay \union {e}) <= Cardinality(OnTheirWay')
    BY <2>7, <2>8, FS_Subset
  <2>11. Cardinality(OnTheirWay) \in Nat /\ Cardinality(OnTheirWay') \in Nat
    BY <2>8, OnTheirWayFinite, FS_CardinalityType
  <2>12. QED
    BY <1>4, <2>6, <2>9, <2>10, <2>11
<1>6. QED
  BY <1>3, <1>5 DEF AwakeInv, WorkConserving

\* An executor that finds the queue empty may sleep; one that takes a fiber is one
\* less, and so is the fiber.
LEMMA DequeueKeepsAwake ==
    ASSUME AwakeInv, IInv, NEW e \in Executors, Dequeue(e)
    PROVE  AwakeInv'
<1>1. /\ thread[e] = "dequeue" /\ stale' = stale \ {e} /\ stale \subseteq Executors
      /\ thread \in [Executors -> ThreadPoints] /\ queue \in Seq(Fibers)
  BY DEF Dequeue, IInv, TypeOK
<1>2. stale' = stale /\ e \notin stale
  BY <1>1 DEF AwakeInv, StaleWaits
<1>3. CASE queue = <<>>
  <2>1. queue' = <<>> /\ thread' = [thread EXCEPT ![e] = "wait"]
    BY <1>3 DEF Dequeue
  <2>2. StaleWaits'
    BY <1>1, <1>2, <2>1 DEF AwakeInv, StaleWaits
  <2>3. Len(queue') = 0
    BY <2>1, EmptySeq
  <2>4. IsFiniteSet(OnTheirWay')
    <3>1. OnTheirWay' \subseteq Executors
      BY DEF OnTheirWay
    <3>2. QED
      BY <3>1, SchedAssumption, FS_Subset
  <2>5. Cardinality(OnTheirWay') \in Nat
    BY <2>4, FS_CardinalityType
  <2>6. QED
    BY <2>2, <2>3, <2>5 DEF AwakeInv, WorkConserving
<1>4. CASE queue # <<>>
  <2>1. queue' = Tail(queue) /\ thread' = [thread EXCEPT ![e] = "run"]
    BY <1>4 DEF Dequeue
  <2>2. StaleWaits'
    BY <1>1, <1>2, <2>1 DEF AwakeInv, StaleWaits
  <2>3. Len(queue') = Len(queue) - 1 /\ Len(queue) \in Nat
    BY <1>1, <1>4, <2>1, HeadTailProperties, LenProperties
  <2>4. Sleepers' = Sleepers
    BY <1>1, <1>2, <2>1 DEF Sleepers
  <2>5. OnTheirWay' = OnTheirWay \ {e} /\ e \in OnTheirWay
    BY <1>1, <1>2, <2>1 DEF OnTheirWay
  <2>6. Cardinality(OnTheirWay') = Cardinality(OnTheirWay) - 1
    BY <2>5, OnTheirWayFinite, FS_RemoveElement
  <2>7. Cardinality(OnTheirWay) \in Nat
    BY OnTheirWayFinite, FS_CardinalityType
  <2>8. QED
    BY <2>2, <2>3, <2>4, <2>6, <2>7 DEF AwakeInv, WorkConserving
<1>5. QED
  BY <1>3, <1>4

\* FUTEX_WAIT sends an executor whose value is out of date back to the queue, and only
\* another to sleep.
LEMMA FutexWaitKeepsAwake ==
    ASSUME AwakeInv, IInv, NEW e \in Executors, FutexWait(e)
    PROVE  AwakeInv'
<1>1. /\ thread[e] = "wait" /\ stale' = stale \ {e} /\ stale \subseteq Executors
      /\ thread \in [Executors -> ThreadPoints] /\ queue' = queue
      /\ thread' = [thread EXCEPT ![e] = IF e \in stale THEN "dequeue" ELSE "asleep"]
  BY DEF FutexWait, IInv, TypeOK
<1>2. StaleWaits'
  BY <1>1 DEF AwakeInv, StaleWaits
<1>3. Sleepers' \subseteq Sleepers
  BY <1>1 DEF Sleepers
<1>4. OnTheirWay \subseteq OnTheirWay'
  BY <1>1 DEF OnTheirWay
<1>5. WorkConserving'
  BY <1>1, <1>3, <1>4, AwakeFrame
<1>6. QED
  BY <1>2, <1>5 DEF AwakeInv

\* A wake-up enqueues a fiber or leaves the executors alone.
LEMMA RouseKeepsAwake ==
    ASSUME AwakeInv, IInv, NEW f, NEW c, Rouse(f, c)
    PROVE  AwakeInv'
<1>1. thread \in [Executors -> ThreadPoints]
  BY DEF IInv, TypeOK
<1>2. CASE Enqueue(f, thread)
  BY <1>1, <1>2, EnqueueKeepsAwake
<1>3. CASE UNCHANGED <<queue, stale, thread>>
  BY <1>3, QuietKeepsAwake
<1>4. QED
  BY <1>2, <1>3 DEF Rouse

LEMMA ExecutorKeepsAwake ==
    ASSUME AwakeInv, IInv, NEW e \in Executors, ExecutorStep(e) \/ FutexInterrupted(e)
    PROVE  AwakeInv'
<1>1. thread \in [Executors -> ThreadPoints]
  BY DEF IInv, TypeOK
<1>2. CASE Dequeue(e)
  BY <1>2, DequeueKeepsAwake
<1>3. CASE FutexWait(e)
  BY <1>3, FutexWaitKeepsAwake
<1>4. CASE SwitchAway(e)
  <2>1. thread[e] = "switch" /\ [thread EXCEPT ![e] = "dequeue"] \in [Executors -> ThreadPoints]
    BY <1>1, <1>4 DEF SwitchAway, ThreadPoints
  <2>2. CASE at[current[e]] = "yield"
    <3>1. Enqueue(current[e], [thread EXCEPT ![e] = "dequeue"])
      BY <1>4, <2>2 DEF SwitchAway
    <3>2. QED
      BY <1>1, <2>1, <3>1, EnqueueKeepsAwake
  <2>3. CASE at[current[e]] # "yield"
    <3>1. thread' = [thread EXCEPT ![e] = "dequeue"] /\ UNCHANGED <<queue, stale>>
      BY <1>4, <2>3 DEF SwitchAway
    <3>2. QED
      BY <1>1, <2>1, <3>1, QuietKeepsAwake
  <2>4. QED
    BY <2>2, <2>3
<1>5. CASE SwitchBounce(e) \/ Unindex(e) \/ FreeFiber(e) \/ FutexInterrupted(e)
  <2>1. UNCHANGED <<queue, stale>>
    BY <1>5 DEF SwitchBounce, Unindex, FreeFiber, FutexInterrupted
  <2>2. \E p \in {"run", "unindexed", "dequeue"} :
            thread[e] \notin {"dequeue", "wait"} /\ thread' = [thread EXCEPT ![e] = p]
    BY <1>5 DEF SwitchBounce, Unindex, FreeFiber, FutexInterrupted
  <2>3. QED
    BY <1>1, <2>1, <2>2, QuietKeepsAwake
<1>6. QED
  BY <1>2, <1>3, <1>4, <1>5 DEF ExecutorStep

LEMMA FiberKeepsAwake ==
    ASSUME AwakeInv, IInv, NEW f \in Fibers, FiberStep(f) \/ Defer(f)
    PROVE  AwakeInv'
<1>1. thread \in [Executors -> ThreadPoints]
  BY DEF IInv, TypeOK
<1>2. CASE \/ BeginWait(f) \/ Yield(f) \/ EndWait(f) \/ Throw(f)
           \/ \E b \in BOOLEAN : SetUnintr(f, b)
           \/ \E g \in Fibers : PushMitosis(f, g)
  <2>1. UNCHANGED <<queue, stale, thread>>
    BY <1>2 DEF BeginWait, Yield, EndWait, Throw, SetUnintr, PushMitosis, execVars
  <2>2. QED
    BY <2>1, QuietKeepsAwake
<1>3. CASE PopMitosis(f)
  BY <1>1, <1>3, EnqueueKeepsAwake DEF PopMitosis
<1>4. ASSUME NEW g \in Fibers, CancelFiber(f, g) \/ ExclusiveCancelFiber(f, g)
      PROVE  AwakeInv'
  <2>1. CASE UNCHANGED <<queue, stale, thread>>
    BY <2>1, QuietKeepsAwake
  <2>2. CASE Rouse(g, Cancel(ctrl[g]))
    BY <2>2, RouseKeepsAwake
  <2>3. QED
    BY <1>4, <2>1, <2>2 DEF CancelFiber, ExclusiveCancelFiber
<1>5. CASE Finalize(f) \/ Defer(f)
  <2>1. /\ UNCHANGED <<queue, stale>>
        /\ \/ UNCHANGED thread
           \/ \E e \in Executors, p \in {"teardown", "switch"} :
                thread[e] = "run" /\ thread' = [thread EXCEPT ![e] = p]
    BY <1>5 DEF Finalize, Defer, Runs
  <2>2. QED
    BY <1>1, <2>1, QuietKeepsAwake
<1>6. QED
  BY <1>2, <1>3, <1>4, <1>5 DEF FiberStep

LEMMA StepAwakeInv == IInv /\ AwakeInv /\ [Next]_vars => AwakeInv'
<1> SUFFICES ASSUME IInv, AwakeInv, [Next]_vars PROVE AwakeInv'
  OBVIOUS
<1>1. CASE UNCHANGED vars
  BY <1>1, QuietKeepsAwake DEF vars, execVars
<1>2. ASSUME NEW f \in Fibers, RaceFiber(f) \/ Complete(f) PROVE AwakeInv'
  BY <1>2, RouseKeepsAwake DEF RaceFiber, Complete
<1>3. QED
  BY <1>1, <1>2, ExecutorKeepsAwake, FiberKeepsAwake DEF Next

\* No fiber waits in the queue for an executor that sleeps and that nothing will wake:
\* an executor reads the futex word under the lock before it looks at the queue, so that
\* every fiber it did not see makes its FUTEX_WAIT return or wakes it.
THEOREM NoneSleepsOnWork == Spec => []WorkConserving
<1>1. Init => AwakeInv
  BY DEF Init, AwakeInv, StaleWaits, WorkConserving, Sleepers
<1>2. AwakeInv => WorkConserving
  BY DEF AwakeInv
<1>3. QED
  BY <1>1, <1>2, InitIInv, StepIInv, StepAwakeInv, PTL DEF Spec

-----------------------------------------------------------------------------
(* The scheduler keeps its promise, FiberWake.                             *)

\* The abstract variables, as they are read off the control blocks.
States == [f \in Fibers |-> WakeState(f)]
ReasonSets == [f \in Fibers |-> WakeReasons(f)]
Masked == {f \in Fibers : ctrl[f].unintr}

\* A pending reason is in the set it is read into, and no other is.
LEMMA ReasonsRead ==
    ASSUME NEW f \in Fibers, ctrl[f] \in Ctrl
    PROVE  /\ WakeReasons(f) \subseteq {"done", "canceled", "join_race"}
           /\ "done" \in WakeReasons(f) <=> ctrl[f].done
           /\ "canceled" \in WakeReasons(f) <=> ctrl[f].canceled
           /\ "join_race" \in WakeReasons(f) <=> ctrl[f].join_race
BY DEF WakeReasons, Ctrl

\* A step that touches one fiber changes the abstract variables there only.
LEMMA OneFiberMaps ==
    ASSUME IInv, IInv', NEW f \in Fibers,
           \A g \in Fibers : g # f => ctrl'[g] = ctrl[g] /\ at'[g] = at[g]
    PROVE  /\ States' = [States EXCEPT ![f] = WakeState(f)']
           /\ ReasonSets' = [ReasonSets EXCEPT ![f] = WakeReasons(f)']
           /\ ctrl'[f].unintr => Masked' = Masked \union {f}
           /\ ~ctrl'[f].unintr => Masked' = Masked \ {f}
<1>1. \A g \in Fibers : g # f =>
        /\ WakeState(g)' = WakeState(g)
        /\ WakeReasons(g)' = WakeReasons(g)
        /\ ctrl'[g].unintr = ctrl[g].unintr
  BY DEF WakeState, WakeReasons
<1>2. States' = [States EXCEPT ![f] = WakeState(f)']
  BY <1>1 DEF States
<1>3. ReasonSets' = [ReasonSets EXCEPT ![f] = WakeReasons(f)']
  BY <1>1 DEF ReasonSets
<1>4. /\ ctrl'[f].unintr => Masked' = Masked \union {f}
      /\ ~ctrl'[f].unintr => Masked' = Masked \ {f}
  BY <1>1 DEF Masked
<1>5. QED
  BY <1>2, <1>3, <1>4

\* A step that changes no reason, no mask and no state is a stutter.
LEMMA Stutters ==
    ASSUME IInv, IInv',
           \A g \in Fibers :
             /\ WakeState(g)' = WakeState(g)
             /\ WakeReasons(g)' = WakeReasons(g)
             /\ ctrl'[g].unintr = ctrl[g].unintr
    PROVE  UNCHANGED Promise!wakeVars
BY DEF Promise!wakeVars

LEMMA InitMaps == Init => Promise!Init
BY DEF Init, Promise!Init, WakeState, WakeReasons, NewCtrl

\* A step that leaves what counts of every control block alone, and creates and
\* ends no fiber, is a stutter.
LEMMA QuietMaps ==
    ASSUME IInv, IInv',
           \A g \in Fibers :
             /\ at'[g] = "free" <=> at[g] = "free"
             /\ \A field \in {"deferred", "done", "canceled", "join_race", "unintr"} :
                    ctrl'[g][field] = ctrl[g][field]
    PROVE  UNCHANGED Promise!wakeVars
<1>1. ASSUME NEW g \in Fibers
      PROVE  /\ WakeState(g)' = WakeState(g)
             /\ WakeReasons(g)' = WakeReasons(g)
             /\ ctrl'[g].unintr = ctrl[g].unintr
  <2>1. WakeReasons(g)' = WakeReasons(g)
    BY DEF WakeReasons
  <2>2. ctrl'[g].deferred = ctrl[g].deferred /\ ctrl'[g].unintr = ctrl[g].unintr
    OBVIOUS
  <2>3. QED
    BY <2>1, <2>2 DEF WakeState
<1>2. QED
  BY <1>1, Stutters

\* A fiber that stays awake and loses at most one reason forgets it.
LEMMA ForgetMaps ==
    ASSUME IInv, IInv', NEW f \in Fibers, at[f] # "free", at'[f] # "free",
           ~ctrl[f].deferred, ~ctrl'[f].deferred,
           ctrl'[f].unintr = ctrl[f].unintr,
           NEW r \in {"done", "canceled", "join_race"},
           WakeReasons(f)' = WakeReasons(f) \ {r},
           \A g \in Fibers : g # f => ctrl'[g] = ctrl[g] /\ at'[g] = at[g]
    PROVE  Promise!Next
<1>1. /\ States' = [States EXCEPT ![f] = WakeState(f)']
      /\ ReasonSets' = [ReasonSets EXCEPT ![f] = WakeReasons(f)']
      /\ ctrl'[f].unintr => Masked' = Masked \union {f}
      /\ ~ctrl'[f].unintr => Masked' = Masked \ {f}
  BY OneFiberMaps
<1>2. WakeState(f) = "runnable" /\ WakeState(f)' = "runnable"
  BY DEF WakeState
<1>3. States' = States
  BY <1>1, <1>2 DEF States
<1>4. Masked' = Masked
  BY <1>1 DEF Masked
<1>5. ReasonSets' = [ReasonSets EXCEPT ![f] = @ \ {r}]
  BY <1>1 DEF ReasonSets
<1>6. Promise!Forget(f)
  BY <1>2, <1>3, <1>4, <1>5
     DEF Promise!Forget, Promise!Reasons, Promise!Interrupts, States, ReasonSets, Masked
<1>7. QED
  BY <1>6 DEF Promise!Next

\* An interrupt that comes to a fiber is the promise's interrupt.
LEMMA InterruptMaps ==
    ASSUME IInv, IInv', NEW f \in Fibers, NEW r \in {"canceled", "join_race"},
           at[f] # "free", UNCHANGED at,
           ~ctrl[f][r],
           ctrl' = [ctrl EXCEPT ![f] = [ctrl[f] EXCEPT ![r] = TRUE,
                                        !.deferred = @ /\ ctrl[f].unintr]]
    PROVE  Promise!Next
<1>1. ctrl[f] \in Ctrl /\ ctrl \in [Fibers -> Ctrl]
  BY DEF IInv, TypeOK
<1>2. /\ ctrl'[f] = [ctrl[f] EXCEPT ![r] = TRUE, !.deferred = @ /\ ctrl[f].unintr]
      /\ \A g \in Fibers : g # f => ctrl'[g] = ctrl[g] /\ at'[g] = at[g]
  BY <1>1
<1>3. /\ ctrl'[f].unintr = ctrl[f].unintr
      /\ ctrl'[f].deferred = (ctrl[f].deferred /\ ctrl[f].unintr)
      /\ \A field \in {"done", "canceled", "join_race"} :
            ctrl'[f][field] = (field = r \/ ctrl[f][field])
  BY <1>1, <1>2 DEF Ctrl
<1>4. WakeReasons(f)' = WakeReasons(f) \union {r}
  BY <1>3 DEF WakeReasons
<1>5. /\ States' = [States EXCEPT ![f] = WakeState(f)']
      /\ ReasonSets' = [ReasonSets EXCEPT ![f] = WakeReasons(f)']
      /\ ctrl'[f].unintr => Masked' = Masked \union {f}
      /\ ~ctrl'[f].unintr => Masked' = Masked \ {f}
  BY <1>2, OneFiberMaps
<1>6. Masked' = Masked
  BY <1>3, <1>5 DEF Masked
<1>7. /\ WakeState(f) # "free"
      /\ WakeState(f)' = IF f \in Masked THEN WakeState(f) ELSE "runnable"
  BY <1>3 DEF WakeState, Masked
<1>8. ReasonSets' = [ReasonSets EXCEPT ![f] = @ \union {r}]
  BY <1>4, <1>5 DEF ReasonSets
<1>9. States' = [States EXCEPT ![f] = IF f \in Masked THEN @ ELSE "runnable"]
  BY <1>5, <1>7 DEF States
<1>10. Promise!Interrupt(f, r)
  BY <1>6, <1>7, <1>8, <1>9 DEF Promise!Interrupt, States, ReasonSets, Masked
<1>11. QED
  BY <1>10 DEF Promise!Next, Promise!Interrupts

\* A fiber that goes to sleep parks.
LEMMA ParkMaps ==
    ASSUME IInv, IInv', NEW f \in Fibers, ~Bounces(ctrl[f]), at[f] # "free",
           ~ctrl[f].deferred, at' = [at EXCEPT ![f] = "parked"],
           ctrl' = [ctrl EXCEPT ![f] = [ctrl[f] EXCEPT !.deferred = TRUE]]
    PROVE  Promise!Next
<1>1. ctrl[f] \in Ctrl /\ ctrl \in [Fibers -> Ctrl] /\ at \in [Fibers -> FiberPoints]
  BY DEF IInv, TypeOK
<1>2. /\ at'[f] = "parked" /\ ctrl'[f] = [ctrl[f] EXCEPT !.deferred = TRUE]
      /\ \A g \in Fibers : g # f => ctrl'[g] = ctrl[g] /\ at'[g] = at[g]
  BY <1>1
<1>3. /\ ctrl'[f].unintr = ctrl[f].unintr /\ ctrl'[f].deferred
      /\ \A field \in {"done", "canceled", "join_race"} : ctrl'[f][field] = ctrl[f][field]
  BY <1>1, <1>2 DEF Ctrl
<1>4. WakeReasons(f)' = WakeReasons(f)
  BY <1>3 DEF WakeReasons
<1>5. /\ States' = [States EXCEPT ![f] = WakeState(f)']
      /\ ReasonSets' = [ReasonSets EXCEPT ![f] = WakeReasons(f)']
      /\ ctrl'[f].unintr => Masked' = Masked \union {f}
      /\ ~ctrl'[f].unintr => Masked' = Masked \ {f}
  BY <1>2, OneFiberMaps
<1>6. Masked' = Masked
  BY <1>3, <1>5 DEF Masked
<1>7. ReasonSets' = ReasonSets
  BY <1>4, <1>5 DEF ReasonSets
<1>8. WakeState(f) = "runnable" /\ WakeState(f)' = "parked"
  BY <1>2, <1>3 DEF WakeState
<1>9. WakeReasons(f) \ (IF f \in Masked THEN {"canceled", "join_race"} ELSE {}) = {}
  BY <1>1, ReasonsRead DEF Masked, Bounces, Interrupted
<1>10. Promise!Park(f)
  BY <1>5, <1>6, <1>7, <1>8, <1>9
     DEF Promise!Park, Promise!Counting, Promise!Interrupts, States, ReasonSets, Masked
<1>11. QED
  BY <1>10 DEF Promise!Next

\* A struct that gets a fresh control block is created, or finished.
LEMMA FreshMaps ==
    ASSUME IInv, IInv', NEW f \in Fibers, ~ctrl[f].deferred,
           NEW p \in {"free", "mitosis"}, (p = "free") # (at[f] = "free"),
           at' = [at EXCEPT ![f] = p], ctrl' = [ctrl EXCEPT ![f] = NewCtrl]
    PROVE  Promise!Next
<1>1. ctrl \in [Fibers -> Ctrl] /\ at \in [Fibers -> FiberPoints]
  BY DEF IInv, TypeOK
<1>2. /\ at'[f] = p /\ ctrl'[f] = NewCtrl
      /\ \A g \in Fibers : g # f => ctrl'[g] = ctrl[g] /\ at'[g] = at[g]
  BY <1>1
<1>3. /\ ~ctrl'[f].unintr /\ ~ctrl'[f].deferred
      /\ \A field \in {"done", "canceled", "join_race"} : ~ctrl'[f][field]
  BY <1>2 DEF NewCtrl
<1>4. WakeReasons(f)' = {}
  BY <1>3 DEF WakeReasons
<1>5. /\ States' = [States EXCEPT ![f] = WakeState(f)']
      /\ ReasonSets' = [ReasonSets EXCEPT ![f] = {}]
      /\ Masked' = Masked \ {f}
  BY <1>2, <1>3, <1>4, OneFiberMaps
<1>6. /\ WakeState(f) = IF at[f] = "free" THEN "free" ELSE "runnable"
      /\ WakeState(f)' = IF p = "free" THEN "free" ELSE "runnable"
  BY <1>2, <1>3 DEF WakeState
<1>7. Promise!Create(f) \/ Promise!Finish(f)
  BY <1>5, <1>6 DEF Promise!Create, Promise!Finish, States, ReasonSets, Masked
<1>8. QED
  BY <1>7 DEF Promise!Next

\* Entering and leaving an uninterruptible block is masking.
LEMMA MaskMaps ==
    ASSUME IInv, IInv', NEW f \in Fibers, NEW b \in BOOLEAN, SetUnintr(f, b)
    PROVE  Promise!Next
<1>1. /\ at[f] = "user" /\ ~ctrl[f].deferred /\ UNCHANGED at
      /\ ctrl' = [ctrl EXCEPT ![f] = [ctrl[f] EXCEPT !.unintr = b]]
  BY RunningFacts DEF SetUnintr, SetCtrl
<1>2. ctrl[f] \in Ctrl /\ ctrl \in [Fibers -> Ctrl]
  BY DEF IInv, TypeOK
<1>3. /\ ctrl'[f] = [ctrl[f] EXCEPT !.unintr = b]
      /\ \A g \in Fibers : g # f => ctrl'[g] = ctrl[g] /\ at'[g] = at[g]
  BY <1>1, <1>2
<1>4. /\ ~ctrl'[f].deferred
      /\ \A field \in {"done", "canceled", "join_race"} : ctrl'[f][field] = ctrl[f][field]
  BY <1>1, <1>2, <1>3 DEF Ctrl
<1>5. WakeReasons(f)' = WakeReasons(f) /\ WakeState(f) = "runnable" /\ WakeState(f)' = "runnable"
  BY <1>1, <1>4 DEF WakeReasons, WakeState
<1>6. /\ States' = [States EXCEPT ![f] = WakeState(f)']
      /\ ReasonSets' = [ReasonSets EXCEPT ![f] = WakeReasons(f)']
      /\ Masked' \in {Masked \union {f}, Masked \ {f}}
  BY <1>3, OneFiberMaps
<1>7. States' = States /\ ReasonSets' = ReasonSets
  BY <1>5, <1>6 DEF States, ReasonSets
<1>8. Promise!Mask(f)
  BY <1>5, <1>6, <1>7 DEF Promise!Mask, States, ReasonSets, Masked
<1>9. QED
  BY <1>8 DEF Promise!Next

\* The completion of a wait is the promise's completion.
LEMMA CompleteMaps ==
    ASSUME IInv, IInv', NEW f \in Fibers, Complete(f)
    PROVE  Promise!Next
<1>1. /\ at[f] # "free" /\ UNCHANGED at
      /\ ctrl' = [ctrl EXCEPT ![f] = WakeDone(ctrl[f])]
      /\ ctrl[f] \in Ctrl /\ ctrl \in [Fibers -> Ctrl]
  BY DEF Complete, Rouse, SetCtrl, IInv, WakeInv, TypeOK
<1>2. /\ ctrl'[f] = WakeDone(ctrl[f])
      /\ \A g \in Fibers : g # f => ctrl'[g] = ctrl[g] /\ at'[g] = at[g]
  BY <1>1
<1>3. /\ ~ctrl'[f].deferred /\ ctrl'[f].unintr = ctrl[f].unintr
      /\ \A field \in {"canceled", "join_race"} : ctrl'[f][field] = ctrl[f][field]
      /\ ctrl'[f].done = (ctrl[f].done \/ ~ctrl[f].deferred)
  BY <1>1, <1>2 DEF Ctrl, WakeDone
<1>4. WakeReasons(f)' = IF ctrl[f].deferred THEN WakeReasons(f)
                                            ELSE WakeReasons(f) \union {"done"}
  <2>1. ctrl'[f]["done"] = (ctrl[f]["done"] \/ ~ctrl[f].deferred)
    BY <1>3
  <2>2. QED
    BY <1>3, <2>1 DEF WakeReasons
<1>5. /\ States' = [States EXCEPT ![f] = WakeState(f)']
      /\ ReasonSets' = [ReasonSets EXCEPT ![f] = WakeReasons(f)']
      /\ ctrl'[f].unintr => Masked' = Masked \union {f}
      /\ ~ctrl'[f].unintr => Masked' = Masked \ {f}
  BY <1>2, OneFiberMaps
<1>6. Masked' = Masked
  BY <1>3, <1>5 DEF Masked
<1>7. /\ WakeState(f) = IF ctrl[f].deferred THEN "parked" ELSE "runnable"
      /\ WakeState(f)' = "runnable"
  BY <1>1, <1>3 DEF WakeState
<1>8. States' = [States EXCEPT ![f] = "runnable"]
  BY <1>5, <1>7
<1>9. ReasonSets' = IF States[f] = "parked" THEN ReasonSets
                    ELSE [ReasonSets EXCEPT ![f] = @ \union {"done"}]
  <2>1. CASE ctrl[f].deferred
    BY <1>4, <1>5, <1>7, <2>1 DEF ReasonSets, States
  <2>2. CASE ~ctrl[f].deferred
    BY <1>4, <1>5, <1>7, <2>2 DEF ReasonSets, States
  <2>3. QED
    BY <2>1, <2>2
<1>10. Promise!Complete(f)
  BY <1>6, <1>7, <1>8, <1>9 DEF Promise!Complete, States, ReasonSets, Masked
<1>11. QED
  BY <1>10 DEF Promise!Next

\* The fiber's own steps forget a reason, or do nothing the promise speaks of.
LEMMA ClearMaps ==
    ASSUME IInv, IInv', NEW f \in Fibers, at[f] # "free", ~ctrl[f].deferred,
           NEW p \in FiberPoints \ {"free"}, at' = [at EXCEPT ![f] = p],
           NEW r \in {"done", "canceled", "join_race"},
           ctrl' = [ctrl EXCEPT ![f] = [ctrl[f] EXCEPT ![r] = FALSE]]
    PROVE  Promise!Next
<1>1. ctrl[f] \in Ctrl /\ ctrl \in [Fibers -> Ctrl] /\ at \in [Fibers -> FiberPoints]
  BY DEF IInv, TypeOK
<1>2. /\ at'[f] # "free" /\ ctrl'[f] = [ctrl[f] EXCEPT ![r] = FALSE]
      /\ \A g \in Fibers : g # f => ctrl'[g] = ctrl[g] /\ at'[g] = at[g]
  BY <1>1
<1>3. /\ ctrl'[f].unintr = ctrl[f].unintr /\ ~ctrl'[f].deferred
      /\ \A field \in {"done", "canceled", "join_race"} :
            ctrl'[f][field] = (ctrl[f][field] /\ field # r)
  BY <1>1, <1>2 DEF Ctrl
<1>4. WakeReasons(f)' = WakeReasons(f) \ {r}
  BY <1>3 DEF WakeReasons
<1>5. QED
  BY <1>2, <1>3, <1>4, ForgetMaps

LEMMA CancellationPointClears ==
    ASSUME NEW c \in Ctrl
    PROVE  \/ CancellationPoint(c) = c
           \/ \E r \in {"canceled", "join_race"} : CancellationPoint(c) = [c EXCEPT ![r] = FALSE]
BY DEF CancellationPoint

LEMMA WaitMaps ==
    ASSUME IInv, IInv', NEW f \in Fibers,
           BeginWait(f) \/ Yield(f) \/ EndWait(f) \/ Throw(f)
    PROVE  [Promise!Next]_(Promise!wakeVars)
<1>1. /\ at[f] # "free" /\ ~ctrl[f].deferred /\ ctrl[f] \in Ctrl
      /\ ctrl \in [Fibers -> Ctrl] /\ at \in [Fibers -> FiberPoints]
  BY RunningFacts DEF BeginWait, Yield, EndWait, Throw, IInv, TypeOK
<1>2. PICK p \in {"defer", "yield", "user"} : at' = [at EXCEPT ![f] = p]
  <2>1. CASE Throw(f)
    <3>1. at' = [at EXCEPT ![f] = "user"]
      BY <1>1, <2>1, RunningFacts DEF Throw
    <3>2. QED
      BY <3>1
  <2>2. CASE BeginWait(f) \/ Yield(f) \/ EndWait(f)
    BY <2>2 DEF BeginWait, Yield, EndWait, Move
  <2>3. QED
    BY <2>1, <2>2
<1>3. p \in FiberPoints \ {"free"}
  BY DEF FiberPoints
<1>4. CASE BeginWait(f) \/ Yield(f)
  <2>1. ctrl' = [ctrl EXCEPT ![f] = [ctrl[f] EXCEPT !["done"] = FALSE]]
    BY <1>4 DEF BeginWait, Yield, SetCtrl
  <2>2. QED
    BY <1>1, <1>2, <1>3, <2>1, ClearMaps
<1>5. CASE EndWait(f) \/ Throw(f)
  <2>1. ctrl' = [ctrl EXCEPT ![f] = CancellationPoint(ctrl[f])]
    BY <1>5 DEF EndWait, Throw, SetCtrl
  <2>2. CASE CancellationPoint(ctrl[f]) = ctrl[f]
    <3>1. ctrl' = ctrl
      BY <1>1, <2>1, <2>2
    <3>2. \A g \in Fibers : at'[g] = "free" <=> at[g] = "free"
      BY <1>1, <1>2
    <3>3. QED
      BY <3>1, <3>2, QuietMaps
  <2>3. ASSUME NEW r \in {"canceled", "join_race"},
               CancellationPoint(ctrl[f]) = [ctrl[f] EXCEPT ![r] = FALSE]
        PROVE  Promise!Next
    BY <1>1, <1>2, <1>3, <2>1, <2>3, ClearMaps
  <2>4. QED
    BY <1>1, <2>2, <2>3, CancellationPointClears
<1>6. QED
  BY <1>4, <1>5

\* What wakes a fiber from outside, or cancels it.
LEMMA CancelMaps ==
    ASSUME IInv, IInv', NEW g \in Fibers, at[g] # "free", UNCHANGED at,
           Rouse(g, Cancel(ctrl[g])) \/ Rouse(g, WakeJoinRace(ctrl[g]))
    PROVE  [Promise!Next]_(Promise!wakeVars)
<1>1. ctrl[g] \in Ctrl /\ ctrl \in [Fibers -> Ctrl]
  BY DEF IInv, TypeOK
<1>2. ASSUME NEW c, c = ctrl[g], Rouse(g, c)
      PROVE  UNCHANGED Promise!wakeVars
  <2>1. ctrl' = ctrl
    BY <1>1, <1>2 DEF Rouse, SetCtrl
  <2>2. QED
    BY <2>1, QuietMaps
<1>3. ASSUME NEW r \in {"canceled", "join_race"}, ~ctrl[g][r],
             Rouse(g, [ctrl[g] EXCEPT ![r] = TRUE, !.deferred = @ /\ ctrl[g].unintr])
      PROVE  Promise!Next
  BY <1>3, InterruptMaps DEF Rouse, SetCtrl
<1>4. CASE Rouse(g, Cancel(ctrl[g]))
  <2>1. CASE ctrl[g].canceled \/ ctrl[g].hidden_cancel
    BY <1>2, <1>4, <2>1 DEF Cancel
  <2>2. CASE ~(ctrl[g].canceled \/ ctrl[g].hidden_cancel)
    <3>1. Rouse(g, [ctrl[g] EXCEPT !["canceled"] = TRUE, !.deferred = @ /\ ctrl[g].unintr])
      BY <1>4, <2>2 DEF Cancel
    <3>2. QED
      BY <1>3, <2>2, <3>1
  <2>3. QED
    BY <2>1, <2>2
<1>5. CASE Rouse(g, WakeJoinRace(ctrl[g]))
  <2>1. CASE ctrl[g].join_race
    BY <1>2, <1>5, <2>1 DEF WakeJoinRace
  <2>2. CASE ~ctrl[g].join_race
    <3>1. Rouse(g, [ctrl[g] EXCEPT !["join_race"] = TRUE, !.deferred = @ /\ ctrl[g].unintr])
      BY <1>5, <2>2 DEF WakeJoinRace
    <3>2. QED
      BY <1>3, <2>2, <3>1
  <2>3. QED
    BY <2>1, <2>2
<1>6. QED
  BY <1>4, <1>5

\* A fiber that can be reached by its id exists; teardown unindexes it first.
IndexInv ==
    /\ \A f \in fiber_map : at[f] # "free"
    /\ \A e \in Executors : thread[e] = "unindexed" => current[e] \notin fiber_map

\* Steps that index no fiber, free none and take no executor to the end of a
\* teardown keep it.
LEMMA IndexFrame ==
    ASSUME IndexInv, fiber_map' = fiber_map,
           \A f \in Fibers : at'[f] = "free" => at[f] = "free",
           fiber_map \subseteq Fibers,
           \A e \in Executors : thread'[e] = "unindexed" =>
                thread[e] = "unindexed" /\ current'[e] = current[e]
    PROVE  IndexInv'
BY DEF IndexInv

LEMMA EnqueueFrame ==
    ASSUME NEW f, NEW threads \in [Executors -> ThreadPoints], Enqueue(f, threads)
    PROVE  \A e \in Executors : thread'[e] = "unindexed" => threads[e] = "unindexed"
BY WakeOneWakes DEF Enqueue, OnlyWakes

LEMMA StepIndexInv == IInv /\ IInv' /\ IndexInv /\ [Next]_vars => IndexInv'
<1> SUFFICES ASSUME IInv, IInv', IndexInv, [Next]_vars PROVE IndexInv'
  OBVIOUS
<1>0. /\ fiber_map \subseteq Fibers /\ at \in [Fibers -> FiberPoints]
      /\ thread \in [Executors -> ThreadPoints]
      /\ current \in [Executors -> Fibers \union {None}]
  BY DEF IInv, TypeOK
<1>1. CASE UNCHANGED vars
  BY <1>1 DEF vars, fiberVars, execVars, IndexInv
<1>2. ASSUME NEW e \in Executors, ExecutorStep(e) \/ FutexInterrupted(e) PROVE IndexInv'
  <2>1. CASE Unindex(e)
    BY <1>0, <2>1 DEF Unindex, IndexInv, IInv, OneExecutor, ExecutorInv, Idle
  <2>2. CASE FreeFiber(e)
    <3>1. PICK f \in Fibers : f = current[e]
      BY <2>2 DEF FreeFiber, IInv, ExecutorInv, Idle
    <3>2. /\ f \notin fiber_map /\ fiber_map' = fiber_map
          /\ at' = [at EXCEPT ![f] = "free"]
          /\ thread' = [thread EXCEPT ![e] = "dequeue"]
          /\ current' = [current EXCEPT ![e] = None]
      BY <2>2, <3>1 DEF FreeFiber, Move, IndexInv
    <3>3. QED
      BY <1>0, <3>2 DEF IndexInv
  <2>3. CASE Dequeue(e) \/ FutexWait(e) \/ FutexInterrupted(e) \/ SwitchBounce(e)
    <3>1. /\ fiber_map' = fiber_map
          /\ \A d \in Executors : thread'[d] = "unindexed" =>
                thread[d] = "unindexed" /\ current'[d] = current[d]
      BY <1>0, <2>3 DEF Dequeue, FutexWait, FutexInterrupted, SwitchBounce, fiberVars
    <3>2. \A g \in Fibers : at'[g] = "free" => at[g] = "free"
      BY <1>0, <2>3
         DEF Dequeue, FutexWait, FutexInterrupted, SwitchBounce, fiberVars, Move
    <3>3. QED
      BY <1>0, <3>1, <3>2, IndexFrame
  <2>4. CASE SwitchAway(e)
    <3> DEFINE threads == [thread EXCEPT ![e] = "dequeue"]
    <3>1. /\ fiber_map' = fiber_map /\ at' = [at EXCEPT ![current[e]] = "parked"]
          /\ current' = [current EXCEPT ![e] = None]
          /\ threads \in [Executors -> ThreadPoints]
      BY <1>0, <2>4 DEF SwitchAway, Move, ThreadPoints
    <3>2. \A d \in Executors : thread'[d] = "unindexed" => threads[d] = "unindexed"
      <4>1. CASE Enqueue(current[e], threads)
        BY <3>1, <4>1, EnqueueFrame
      <4>2. CASE thread' = threads
        BY <4>2
      <4>3. QED
        BY <2>4, <4>1, <4>2 DEF SwitchAway
    <3>3. \A d \in Executors : threads[d] = "unindexed" => thread[d] = "unindexed" /\ d # e
      BY <1>0
    <3> HIDE DEF threads
    <3>4. \A d \in Executors : thread'[d] = "unindexed" =>
            thread[d] = "unindexed" /\ current'[d] = current[d]
      BY <1>0, <3>1, <3>2, <3>3
    <3>5. QED
      BY <1>0, <3>1, <3>4, IndexFrame
  <2>5. QED
    BY <1>2, <2>1, <2>2, <2>3, <2>4 DEF ExecutorStep
<1>3. ASSUME NEW f \in Fibers, NEW g \in Fibers, PushMitosis(f, g) PROVE IndexInv'
  <2>1. /\ at[g] = "free" /\ at' = [at EXCEPT ![g] = "mitosis"]
        /\ fiber_map' = fiber_map \union {g} /\ UNCHANGED <<thread, current>>
    BY <1>3 DEF PushMitosis, Move, execVars
  <2>2. \A e \in Executors : thread[e] = "unindexed" => current[e] # g
    BY <2>1 DEF IInv, ExecutorInv
  <2>3. QED
    BY <1>0, <2>1, <2>2 DEF IndexInv
<1>4. ASSUME NEW f \in Fibers, PopMitosis(f) PROVE IndexInv'
  BY <1>0, <1>4, IndexFrame, EnqueueFrame DEF PopMitosis, Move
<1>5. ASSUME NEW f \in Fibers,
             BeginWait(f) \/ Yield(f) \/ EndWait(f) \/ Throw(f) \/ Defer(f) \/ Finalize(f)
               \/ \E b \in BOOLEAN : SetUnintr(f, b)
      PROVE  IndexInv'
  <2>1. fiber_map' = fiber_map /\ current' = current
    BY <1>5 DEF BeginWait, Yield, EndWait, Throw, Defer, Finalize, SetUnintr, execVars
  <2>2. \A d \in Executors : thread'[d] = "unindexed" => thread[d] = "unindexed"
    BY <1>0, <1>5 DEF BeginWait, Yield, EndWait, Throw, Defer, Finalize, SetUnintr, execVars
  <2>3. \A g \in Fibers : at'[g] = "free" => at[g] = "free"
    BY <1>0, <1>5 DEF BeginWait, Yield, EndWait, Throw, Defer, Finalize, SetUnintr, Move
  <2>4. QED
    BY <1>0, <2>1, <2>2, <2>3, IndexFrame
<1>6. ASSUME NEW f \in Fibers, NEW c, Rouse(f, c),
             UNCHANGED <<fiber_map, at, current>>
      PROVE  IndexInv'
  BY <1>0, <1>6, IndexFrame, EnqueueFrame DEF Rouse
<1>7. ASSUME NEW f \in Fibers, NEW g \in Fibers,
             CancelFiber(f, g) \/ ExclusiveCancelFiber(f, g)
      PROVE  IndexInv'
  <2>1. UNCHANGED <<fiber_map, at, current>>
    BY <1>7 DEF CancelFiber, ExclusiveCancelFiber
  <2>2. CASE UNCHANGED thread
    BY <1>0, <2>1, <2>2, IndexFrame
  <2>3. QED
    BY <1>6, <1>7, <2>1, <2>2 DEF CancelFiber, ExclusiveCancelFiber
<1>8. QED
  BY <1>1, <1>2, <1>3, <1>4, <1>5, <1>6, <1>7
     DEF Next, FiberStep, RaceFiber, Complete

LEMMA StepMaps ==
    IInv /\ IInv' /\ IndexInv /\ [Next]_vars => [Promise!Next]_(Promise!wakeVars)
<1> SUFFICES ASSUME IInv, IInv', IndexInv, [Next]_vars
             PROVE  [Promise!Next]_(Promise!wakeVars)
  OBVIOUS
<1>0. /\ ctrl \in [Fibers -> Ctrl] /\ at \in [Fibers -> FiberPoints]
      /\ fiber_map \subseteq Fibers
  BY DEF IInv, TypeOK
<1>1. CASE UNCHANGED vars
  BY <1>1, QuietMaps DEF vars, fiberVars
<1>2. ASSUME NEW e \in Executors, ExecutorStep(e) \/ FutexInterrupted(e)
      PROVE  [Promise!Next]_(Promise!wakeVars)
  <2>1. CASE Dequeue(e)
    <3>1. CASE queue = <<>>
      BY <2>1, <3>1, QuietMaps DEF Dequeue
    <3>2. CASE queue # <<>>
      <4>1. PICK f \in Fibers : f = Head(queue) /\ InQueue(f)
        BY <2>1, <3>2, DequeueTakes DEF Dequeue, IInv, TypeOK
      <4>2. PICK p \in {"woken", "user"} : at' = [at EXCEPT ![f] = p]
        BY <2>1, <3>2, <4>1 DEF Dequeue, Move
      <4>3. ctrl' = [ctrl EXCEPT ![f] = [ctrl[f] EXCEPT !.started = TRUE]]
        BY <2>1, <3>2, <4>1 DEF Dequeue, SetCtrl
      <4>4. at[f] # "free"
        BY <4>1 DEF IInv, PlaceInv
      <4>5. /\ \A g \in Fibers : at'[g] = "free" <=> at[g] = "free"
            /\ \A g \in Fibers :
                 \A field \in {"deferred", "done", "canceled", "join_race", "unintr"} :
                    ctrl'[g][field] = ctrl[g][field]
        BY <1>0, <4>2, <4>3, <4>4 DEF Ctrl
      <4>6. QED
        BY <4>5, QuietMaps
    <3>3. QED
      BY <3>1, <3>2
  <2>2. CASE FutexWait(e) \/ FutexInterrupted(e) \/ Unindex(e)
    BY <2>2, QuietMaps DEF FutexWait, FutexInterrupted, Unindex, fiberVars
  <2>3. ASSUME SwitchBounce(e) \/ SwitchAway(e) \/ FreeFiber(e)
        PROVE  [Promise!Next]_(Promise!wakeVars)
    <3>1. PICK f \in Fibers : f = current[e]
      BY <2>3 DEF SwitchBounce, SwitchAway, FreeFiber, IInv, ExecutorInv, Idle
    <3>2. /\ at[f] \in {"defer", "yield", "ended"}
          /\ FreeFiber(e) => at[f] = "ended"
      BY <2>3, <3>1 DEF SwitchBounce, SwitchAway, FreeFiber, IInv, ExecutorInv
    <3>3. ~ctrl[f].deferred
      BY <3>1, <3>2, RunsFacts
    <3>4. CASE SwitchBounce(e) \/ (SwitchAway(e) /\ at[f] = "yield")
      <4>1. ctrl' = ctrl /\ \E p \in {"woken", "parked"} : at' = [at EXCEPT ![f] = p]
        BY <3>1, <3>4 DEF SwitchBounce, SwitchAway, Move
      <4>2. \A g \in Fibers : at'[g] = "free" <=> at[g] = "free"
        BY <1>0, <3>2, <4>1
      <4>3. QED
        BY <4>1, <4>2, QuietMaps
    <3>5. CASE SwitchAway(e) /\ at[f] # "yield"
      BY <3>1, <3>2, <3>3, <3>5, ParkMaps DEF SwitchAway, Move, SetCtrl
    <3>6. CASE FreeFiber(e)
      BY <3>1, <3>2, <3>3, <3>6, FreshMaps DEF FreeFiber, Move, SetCtrl
    <3>7. QED
      BY <2>3, <3>4, <3>5, <3>6
  <2>4. QED
    BY <1>2, <2>1, <2>2, <2>3 DEF ExecutorStep
<1>3. ASSUME NEW f \in Fibers, FiberStep(f)
      PROVE  [Promise!Next]_(Promise!wakeVars)
  <2>1. CASE BeginWait(f) \/ Yield(f) \/ EndWait(f) \/ Throw(f)
    BY <2>1, WaitMaps
  <2>2. ASSUME NEW b \in BOOLEAN, SetUnintr(f, b) PROVE Promise!Next
    BY <2>2, MaskMaps
  <2>3. ASSUME NEW g \in Fibers, PushMitosis(f, g) PROVE Promise!Next
    <3>1. at[g] = "free" /\ at' = [at EXCEPT ![g] = "mitosis"]
          /\ ctrl' = [ctrl EXCEPT ![g] = NewCtrl]
      BY <2>3 DEF PushMitosis, Move, SetCtrl
    <3>2. ~ctrl[g].deferred
      BY <3>1 DEF IInv, PlaceInv
    <3>3. QED
      BY <3>1, <3>2, FreshMaps
  <2>4. CASE PopMitosis(f)
    <3>1. PICK g \in Fibers : g = newborn[f] /\ at[g] = "mitosis"
      BY <2>4, SchedAssumption DEF PopMitosis, IInv, TypeOK, NewbornInv
    <3>2. ctrl' = ctrl /\ at' = [at EXCEPT ![g] = "ready"]
      BY <2>4, <3>1 DEF PopMitosis, Move
    <3>3. \A h \in Fibers : at'[h] = "free" <=> at[h] = "free"
      BY <1>0, <3>1, <3>2
    <3>4. QED
      BY <3>2, <3>3, QuietMaps
  <2>5. ASSUME NEW g \in Fibers, CancelFiber(f, g) \/ ExclusiveCancelFiber(f, g)
        PROVE  [Promise!Next]_(Promise!wakeVars)
    <3>1. CASE g \in fiber_map /\ Rouse(g, Cancel(ctrl[g]))
      BY <2>5, <3>1, CancelMaps DEF CancelFiber, ExclusiveCancelFiber, IndexInv
    <3>2. CASE ~(g \in fiber_map /\ Rouse(g, Cancel(ctrl[g])))
      <4>1. /\ Running(f, "user") /\ UNCHANGED at
            /\ ctrl' = [ctrl EXCEPT ![f] = [ctrl[f] EXCEPT !["canceled"] = FALSE]]
        BY <2>5, <3>2 DEF CancelFiber, ExclusiveCancelFiber, SetCtrl
      <4>2. at[f] = "user" /\ ~ctrl[f].deferred
        BY <4>1, RunningFacts
      <4>3. at' = [at EXCEPT ![f] = "user"]
        BY <1>0, <4>1, <4>2
      <4>4. QED
        BY <4>1, <4>2, <4>3, ClearMaps DEF FiberPoints
    <3>3. QED
      BY <3>1, <3>2
  <2>6. CASE Finalize(f)
    <3>1. ctrl' = ctrl /\ at[f] = "user" /\ at' = [at EXCEPT ![f] = "ended"]
      BY <2>6 DEF Finalize, Runs, Move
    <3>2. \A h \in Fibers : at'[h] = "free" <=> at[h] = "free"
      BY <1>0, <3>1
    <3>3. QED
      BY <3>1, <3>2, QuietMaps
  <2>7. QED
    BY <1>3, <2>1, <2>2, <2>3, <2>4, <2>5, <2>6 DEF FiberStep
<1>4. ASSUME NEW f \in Fibers, Defer(f) PROVE UNCHANGED Promise!wakeVars
  <2>1. ctrl' = ctrl /\ at[f] # "free" /\ (at' = at \/ at' = [at EXCEPT ![f] = "woken"])
    BY <1>4 DEF Defer, Runs, Move
  <2>2. \A h \in Fibers : at'[h] = "free" <=> at[h] = "free"
    BY <1>0, <2>1
  <2>3. QED
    BY <2>1, <2>2, QuietMaps
<1>5. ASSUME NEW f \in Fibers, RaceFiber(f)
      PROVE  [Promise!Next]_(Promise!wakeVars)
  BY <1>5, CancelMaps DEF RaceFiber, IndexInv
<1>6. ASSUME NEW f \in Fibers, Complete(f) PROVE Promise!Next
  BY <1>6, CompleteMaps
<1>7. QED
  BY <1>1, <1>2, <1>3, <1>4, <1>5, <1>6 DEF Next

\* The scheduler implements FiberWake: whatever the interleaving of executors,
\* cancellations, join races and completions, a reason that counts wakes the
\* fiber and none is forgotten but by the fiber itself.
THEOREM SchedulerKeepsPromise == Spec => ImplementsFiberWake
<1>1. Init => IndexInv
  BY SchedAssumption DEF Init, IndexInv
<1>2. Spec => [](IInv /\ IndexInv)
  BY <1>1, InitIInv, StepIInv, StepIndexInv, PTL DEF Spec
<1>3. QED
  BY <1>2, InitMaps, StepMaps, PTL DEF Spec, ImplementsFiberWake, Promise!Spec
=============================================================================
