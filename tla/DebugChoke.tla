------------------------------ MODULE DebugChoke ------------------------------
(***************************************************************************)
(* The debug choke, src/lwthreads.c: lwt_debug_choke_fibers(true) makes    *)
(* every executor but one sleep on a futex the next time it looks for a    *)
(* fiber to run, and lwt_debug_choke_fibers(false) lets them go.           *)
(*                                                                         *)
(* An executor looks for work in two loops: the choke, then the dequeue    *)
(* under the scheduler's lock, which has a futex of its own.  One action   *)
(* is one access to shared memory that is not under the lock, one section  *)
(* under it, or one system call.                                           *)
(*                                                                         *)
(* A futex word is only ever incremented, and only compared with what was  *)
(* read of it before; so it is the set of the executors for which the two  *)
(* are equal.  (It is equal again after 2^32 increments; that is left out.)*)
(***************************************************************************)
EXTENDS Naturals, FiniteSets

CONSTANTS Executors,      (* the executor threads                           *)
          MaxQueue,       (* bounds the fibers in the queue                 *)
          Caller          (* a thread that is no executor, as a debugger's  *)

ASSUME ChokeAssumption ==
    /\ IsFiniteSet(Executors) /\ Executors # {}
    /\ MaxQueue \in Nat
    /\ Caller \notin Executors

VARIABLES at,             (* per executor, where it is                      *)
          queue,          (* length of exec_block_queue                     *)
          exec_current,   (* those whose read of exec_block_futex is up to  *)
                          (* date                                           *)
          choke_current,  (* same for debug_choke_futex                     *)
          enabled,        (* debug_choke_enabled                            *)
          count,          (* debug_choke_count                              *)
          expected,       (* per executor, the count it has read, 0 if none *)
          calling,        (* the call of lwt_debug_choke_fibers: where      *)
          trigger         (* and its argument                               *)

callVars == <<calling, trigger>>
chokeVars == <<at, queue, exec_current, choke_current, enabled, count, expected, callVars>>

\* top: about to read the choke futex; test: the flag; limit: the count; cas: about
\* to add itself; choke: about to sleep; choked: asleep; uncount: about to subtract
\* itself; dequeue: about to take the lock; wait, idle: about to sleep, and asleep,
\* for want of a fiber; run: runs one.
ChokePoints == {"top", "test", "limit", "cas", "choke", "choked", "uncount", "dequeue",
           "wait", "idle", "run"}

\* The executors that debug_choke_count counts.
Counted == {e \in Executors : at[e] \in {"choke", "choked", "uncount"}}

ChokeTypeOK ==
    /\ at \in [Executors -> ChokePoints]
    /\ queue \in 0 .. MaxQueue
    /\ exec_current \subseteq Executors
    /\ choke_current \subseteq Executors
    /\ enabled \in BOOLEAN
    /\ count \in 0 .. Cardinality(Executors)
    /\ expected \in [Executors -> 0 .. Cardinality(Executors)]
    /\ calling \in {"no", "bump", "store", "wake"}
    /\ trigger \in BOOLEAN

ChokeInit ==
    /\ at = [e \in Executors |-> "top"]
    /\ queue = 0
    /\ exec_current = {}
    /\ choke_current = {}
    /\ enabled = FALSE
    /\ count = 0
    /\ expected = [e \in Executors |-> 0]
    /\ calling = "no"
    /\ trigger = FALSE

ChokeGoto(e, from, to) ==
    /\ at[e] = from
    /\ at' = [at EXCEPT ![e] = to]

-----------------------------------------------------------------------------
(* The choke.                                                              *)

ReadChokeFutex(e) ==
    /\ ChokeGoto(e, "top", "test")
    /\ choke_current' = choke_current \union {e}
    /\ UNCHANGED <<queue, exec_current, enabled, count, expected, callVars>>

TestEnabled(e) ==
    /\ ChokeGoto(e, "test", IF enabled THEN "limit" ELSE "dequeue")
    /\ UNCHANGED <<queue, exec_current, choke_current, enabled, count, expected, callVars>>

\* Slip: the last executor is choked too.
ReadCountLoosely(e) ==
    /\ ChokeGoto(e, "limit", IF count >= Cardinality(Executors) THEN "dequeue" ELSE "cas")
    /\ expected' = [expected EXCEPT ![e] = count]
    /\ UNCHANGED <<queue, exec_current, choke_current, enabled, count, callVars>>

\* All but one may be choked.
ReadCount(e) ==
    /\ ChokeGoto(e, "limit", IF count >= Cardinality(Executors) - 1 THEN "dequeue" ELSE "cas")
    /\ expected' = [expected EXCEPT ![e] = count]
    /\ UNCHANGED <<queue, exec_current, choke_current, enabled, count, callVars>>

\* Slip: the sum is stored.
CountInStore(e) ==
    /\ ChokeGoto(e, "cas", "choke")
    /\ count' = expected[e] + 1
    /\ expected' = [expected EXCEPT ![e] = 0]
    /\ UNCHANGED <<queue, exec_current, choke_current, enabled, callVars>>

\* Compare-and-swap; from the top again if the count has changed.
CountIn(e) ==
    /\ ChokeGoto(e, "cas", IF count = expected[e] THEN "choke" ELSE "top")
    /\ count' = IF count = expected[e] THEN count + 1 ELSE count
    /\ expected' = [expected EXCEPT ![e] = 0]
    /\ UNCHANGED <<queue, exec_current, choke_current, enabled, callVars>>

\* Slip: the executor sleeps without a comparison.
ChokeBlindly(e) ==
    /\ ChokeGoto(e, "choke", "choked")
    /\ UNCHANGED <<queue, exec_current, choke_current, enabled, count, expected, callVars>>

\* FUTEX_WAIT: the thread sleeps only if the futex is what it read.
Choke(e) ==
    /\ ChokeGoto(e, "choke", IF e \in choke_current THEN "choked" ELSE "uncount")
    /\ UNCHANGED <<queue, exec_current, choke_current, enabled, count, expected, callVars>>

\* It subtracts itself (the loop of compare-and-swap is one step: nothing else is
\* read in it), and starts again.
CountOut(e) ==
    /\ ChokeGoto(e, "uncount", "top")
    /\ count' = count - 1
    /\ UNCHANGED <<queue, exec_current, choke_current, enabled, expected, callVars>>

-----------------------------------------------------------------------------
(* The dequeue, and the enqueue of a fiber by anyone who wakes it.         *)

Dequeue(e) ==
    /\ ChokeGoto(e, "dequeue", IF queue > 0 THEN "run" ELSE "wait")
    /\ exec_current' = exec_current \union {e}
    /\ queue' = IF queue > 0 THEN queue - 1 ELSE queue
    /\ UNCHANGED <<choke_current, enabled, count, expected, callVars>>

Wait(e) ==
    /\ ChokeGoto(e, "wait", IF e \in exec_current THEN "idle" ELSE "top")
    /\ UNCHANGED <<queue, exec_current, choke_current, enabled, count, expected, callVars>>

\* The fiber yields or waits, or ends.
RunEnds(e) ==
    /\ ChokeGoto(e, "run", "top")
    /\ UNCHANGED <<queue, exec_current, choke_current, enabled, count, expected, callVars>>

\* The queue and the futex change, and one idle executor is woken.
Enqueue ==
    /\ queue < MaxQueue
    /\ queue' = queue + 1
    /\ exec_current' = {}
    /\ IF \E e \in Executors : at[e] = "idle"
       THEN \E e \in Executors : ChokeGoto(e, "idle", "top")
       ELSE UNCHANGED at
    /\ UNCHANGED <<choke_current, enabled, count, expected, callVars>>

-----------------------------------------------------------------------------
(* lwt_debug_choke_fibers.                                                 *)

ChokeFibers(on) ==
    /\ calling = "no"
    /\ calling' = "bump"
    /\ trigger' = on
    /\ UNCHANGED <<at, queue, exec_current, choke_current, enabled, count, expected>>

Bump ==
    /\ calling = "bump"
    /\ calling' = "store"
    /\ choke_current' = {}
    /\ UNCHANGED <<at, queue, exec_current, enabled, count, expected, trigger>>

StoreEnabled ==
    /\ calling = "store"
    /\ calling' = "wake"
    /\ enabled' = trigger
    /\ UNCHANGED <<at, queue, exec_current, choke_current, count, expected, trigger>>

\* FUTEX_WAKE of all that sleep.
WakeChoked ==
    /\ calling = "wake"
    /\ calling' = "no"
    /\ at' = [e \in Executors |-> IF at[e] = "choked" THEN "uncount" ELSE at[e]]
    /\ UNCHANGED <<queue, exec_current, choke_current, enabled, count, expected, trigger>>

-----------------------------------------------------------------------------
Looks(e) ==
    \/ ReadChokeFutex(e) \/ TestEnabled(e) \/ ReadCount(e) \/ CountIn(e)
    \/ Choke(e) \/ CountOut(e)
    \/ Dequeue(e) \/ Wait(e)

Calls == Bump \/ StoreEnabled \/ WakeChoked

ChokeNext ==
    \/ \E e \in Executors : Looks(e) \/ RunEnds(e)
    \/ Enqueue
    \/ \E on \in BOOLEAN : ChokeFibers(on)
    \/ Calls

ChokeSpec == ChokeInit /\ [][ChokeNext]_chokeVars

\* The kernel runs every thread that does not sleep, and fibers do not run forever.
FairChokeSpec ==
    /\ ChokeSpec
    /\ \A e \in Executors : WF_chokeVars(Looks(e) \/ RunEnds(e))
    /\ WF_chokeVars(Calls)

-----------------------------------------------------------------------------
\* At most all but one are choked (the comment at debug_choke_count), and the count
\* is their number: it cannot drift, over any number of calls.
OneIsSpared ==
    /\ ChokeTypeOK
    /\ count = Cardinality(Counted)
    /\ count <= Cardinality(Executors) - 1

\* An executor that sleeps in the choke though the futex has moved on will be woken:
\* the call that moved it is not over.
ChokedIsWoken ==
    \A e \in Executors :
        at[e] = "choked" /\ e \notin choke_current => calling \in {"store", "wake"}

\* What the comments promise: debug_choke_futex is incremented every time the flag
\* changes, for the executors to notice, and they block until it is disabled.
\* Unless it is enabled again, an executor does not stay choked.
ChokedIsReleased ==
    \A e \in Executors : at[e] = "choked" ~> at[e] # "choked" \/ enabled

=============================================================================
