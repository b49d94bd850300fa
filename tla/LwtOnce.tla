------------------------------- MODULE LwtOnce -------------------------------
(***************************************************************************)
(* lwt_once, src/lwthreads.c: a 128 bit word that holds a status or the id *)
(* of an event fiber, which parks for as long as the initialization runs;  *)
(* the other callers wait for that fiber to end.                           *)
(*                                                                         *)
(* One action is one atomic operation on the word, or one step of a fiber  *)
(* between two of them.  Spawning the event fiber is joined to the         *)
(* compare-and-swap that publishes its id: nobody knows it before.         *)
(***************************************************************************)
EXTENDS FiniteSets

CONSTANTS Callers,        (* the fibers that call lwt_once                  *)
          Fids            (* ids of event fibers: bounds the attempts       *)

Statuses == {"init", "spin", "done"}

ASSUME OnceAssumption == Fids \cap Statuses = {}

VARIABLES word,           (* once_ctrl->v                                   *)
          stage,          (* per caller, where it is                        *)
          fid,            (* per caller, its once_event_fid                 *)
          parked,         (* the event fibers that live                     *)
          canceled        (* those that have been canceled                  *)

onceVars == <<word, stage, fid, parked, canceled>>

\* look: about to load the word; claim: saw init; spawn: the chosen one; run: in
\* init_fn; cleanup, unwind: destroys the event fiber, after init_fn returned and
\* after it threw; join, unwound: waits for its end; wait: in ifc_wait.
OncePoints == {"none", "look", "claim", "spawn", "run", "cleanup", "join", "unwind",
           "unwound", "wait", "returned", "threw"}

NoFid == "none"

OnceTypeOK ==
    /\ word \in Statuses \union Fids
    /\ stage \in [Callers -> OncePoints]
    /\ fid \in [Callers -> Fids \union {NoFid}]
    /\ parked \subseteq Fids
    /\ canceled \subseteq Fids

OnceInit ==
    /\ word = "init"
    /\ stage = [c \in Callers |-> "none"]
    /\ fid = [c \in Callers |-> NoFid]
    /\ parked = {}
    /\ canceled = {}

-----------------------------------------------------------------------------
OnceGoto(c, from, to) ==
    /\ stage[c] = from
    /\ stage' = [stage EXCEPT ![c] = to]

Enter(c) ==
    /\ \E from \in {"none", "returned", "threw"} : OnceGoto(c, from, "look")
    /\ UNCHANGED <<word, fid, parked, canceled>>

\* The word is loaded; spin: it is loaded again.
LoadDone(c) ==
    /\ word = "done"
    /\ OnceGoto(c, "look", "returned")
    /\ UNCHANGED <<word, fid, parked, canceled>>

LoadInit(c) ==
    /\ word = "init"
    /\ OnceGoto(c, "look", "claim")
    /\ UNCHANGED <<word, fid, parked, canceled>>

LoadFid(c) ==
    /\ word \in Fids
    /\ OnceGoto(c, "look", "wait")
    /\ fid' = [fid EXCEPT ![c] = word]
    /\ UNCHANGED <<word, parked, canceled>>

\* Slip: the word is stored, not compared and swapped.
ClaimBlindly(c) ==
    /\ OnceGoto(c, "claim", "spawn")
    /\ word' = "spin"
    /\ UNCHANGED <<fid, parked, canceled>>

\* Compare-and-swap from init to spin.
Claim(c) ==
    /\ word = "init"
    /\ OnceGoto(c, "claim", "spawn")
    /\ word' = "spin"
    /\ UNCHANGED <<fid, parked, canceled>>

\* Another caller was chosen.
ClaimFails(c) ==
    /\ word # "init"
    /\ OnceGoto(c, "claim", "look")
    /\ UNCHANGED <<word, fid, parked, canceled>>

\* An event fiber is spawned under an id that was never used, and published.
Publish(c) ==
    /\ OnceGoto(c, "spawn", "run")
    /\ \E f \in Fids \ (parked \union canceled) :
        /\ word' = f
        /\ fid' = [fid EXCEPT ![c] = f]
        /\ parked' = parked \union {f}
    /\ UNCHANGED canceled

\* init_fn returns.
InitReturns(c) ==
    /\ OnceGoto(c, "run", "cleanup")
    /\ word' = "done"
    /\ UNCHANGED <<fid, parked, canceled>>

\* Slip: the exception leaves without the destructors run.
InitThrowsThrough(c) ==
    /\ OnceGoto(c, "run", "threw")
    /\ word' = "init"
    /\ UNCHANGED <<fid, parked, canceled>>

\* init_fn throws, while there is an id left for another attempt.
InitThrows(c) ==
    /\ Fids # parked \union canceled
    /\ OnceGoto(c, "run", "unwind")
    /\ word' = "init"
    /\ UNCHANGED <<fid, parked, canceled>>

\* Slip: join without cancel.
DestroyUncanceled(c) ==
    /\ OnceGoto(c, "cleanup", "join") \/ OnceGoto(c, "unwind", "unwound")
    /\ UNCHANGED <<word, fid, parked, canceled>>

\* lwt_sub_fiber_destructor: cancel, ...
Destroy(c) ==
    /\ OnceGoto(c, "cleanup", "join") \/ OnceGoto(c, "unwind", "unwound")
    /\ canceled' = canceled \union {fid[c]}
    /\ UNCHANGED <<word, fid, parked>>

\* ... and join uninterruptibly until the fiber is no more.  The exception goes on;
\* without one the caller looks at the word once more.
Destroyed(c) ==
    /\ fid[c] \notin parked
    /\ OnceGoto(c, "join", "look") \/ OnceGoto(c, "unwound", "threw")
    /\ UNCHANGED <<word, fid, parked, canceled>>

\* lwt_once_event_fiber: it parks until canceled, and ends.
EventFiberEnds(f) ==
    /\ f \in parked \cap canceled
    /\ parked' = parked \ {f}
    /\ UNCHANGED <<word, stage, fid, canceled>>

\* Slip: who wakes up need not look again.
WaitOverTrusting(c) ==
    /\ OnceGoto(c, "wait", "returned")
    /\ UNCHANGED <<word, fid, parked, canceled>>

\* ifc_wait returns: the event fiber has ended, or a join race that was pending for
\* another reason has ended the wait (a server it is joined with was canceled).
WaitOver(c) ==
    /\ OnceGoto(c, "wait", "look")
    /\ UNCHANGED <<word, fid, parked, canceled>>

\* ifc_wait throws a cancellation of the caller.
WaitCanceled(c) ==
    /\ OnceGoto(c, "wait", "threw")
    /\ UNCHANGED <<word, fid, parked, canceled>>

Chosen(c) == Publish(c) \/ InitReturns(c) \/ InitThrows(c)

OnceStep(c) ==
    \/ LoadDone(c) \/ LoadInit(c) \/ LoadFid(c)
    \/ Claim(c) \/ ClaimFails(c) \/ Chosen(c)
    \/ Destroy(c) \/ Destroyed(c)

OnceNext ==
    \/ \E c \in Callers : Enter(c) \/ OnceStep(c) \/ WaitOver(c) \/ WaitCanceled(c)
    \/ \E f \in Fids : EventFiberEnds(f)

OnceSpec == OnceInit /\ [][OnceNext]_onceVars

\* Runnable fibers run, init_fn ends, and who waits for a fiber that has ended is
\* woken.
FairOnceSpec ==
    /\ OnceSpec
    /\ \A c \in Callers : WF_onceVars(OnceStep(c))
    /\ \A c \in Callers : WF_onceVars(fid[c] \notin parked /\ WaitOver(c))
    /\ \A f \in Fids : WF_onceVars(EventFiberEnds(f))

-----------------------------------------------------------------------------
\* The three assertions in lwt_once: no one changes the word behind the back of the
\* caller that was chosen.
AssertsHold ==
    \A c \in Callers :
        /\ stage[c] = "spawn" => word = "spin"
        /\ stage[c] = "run" => word = fid[c] /\ fid[c] \in Fids

\* Every event fiber that is parked has an owner that has yet to destroy it, however
\* the initialization ends: nobody waits for a fiber that was left behind.
EventFibersOwned ==
    \A f \in parked :
        \E c \in Callers :
            /\ fid[c] = f
            /\ stage[c] \in {"run", "cleanup", "unwind", "join", "unwound"}

\* Who calls lwt_once gets out of it.
CallsEnd ==
    \A c \in Callers :
        stage[c] = "look" ~> stage[c] \in {"returned", "threw"}

\* lwt_once keeps its promise.
OncePromise == INSTANCE Once WITH
    status <- CASE word = "init" -> "fresh"
                [] word = "done" -> "done"
                [] OTHER -> "busy",
    call <- [c \in Callers |->
                CASE stage[c] \in {"none", "returned", "threw"} -> stage[c]
                  [] stage[c] \in {"spawn", "run"} -> "initializing"
                  [] stage[c] \in {"unwind", "unwound"} -> "failed"
                  [] OTHER -> "pending"]

ImplementsOnce == OncePromise!Spec
=============================================================================
