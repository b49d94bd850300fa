------------------------------ MODULE FiberWake ------------------------------
(***************************************************************************)
(* What the scheduler promises the code that blocks fibers.                *)
(*                                                                         *)
(* A fiber is runnable or parked.  It has reasons to be awake: the event   *)
(* it waits for is done, it is canceled, it has a join race; the last two  *)
(* do not count while it is masked (uninterruptible).  A fiber with a      *)
(* reason that counts is never parked, whatever the order in which the     *)
(* reason and the parking come.                                            *)
(***************************************************************************)
CONSTANT Fibers

VARIABLES state,          (* per fiber: free, runnable or parked            *)
          reasons,        (* per fiber: the reasons to be awake             *)
          masked          (* the fibers that are uninterruptible            *)

wakeVars == <<state, reasons, masked>>

Interrupts == {"canceled", "join_race"}
Reasons == Interrupts \union {"done"}

\* The reasons that count for f.
Counting(f) == reasons[f] \ (IF f \in masked THEN Interrupts ELSE {})

Init ==
    /\ state \in [Fibers -> {"free", "runnable"}]
    /\ reasons = [f \in Fibers |-> {}]
    /\ masked = {}

Create(f) ==
    /\ state[f] = "free"
    /\ state' = [state EXCEPT ![f] = "runnable"]
    /\ reasons' = [reasons EXCEPT ![f] = {}]
    /\ masked' = masked \ {f}

Finish(f) ==
    /\ state[f] = "runnable"
    /\ state' = [state EXCEPT ![f] = "free"]
    /\ reasons' = [reasons EXCEPT ![f] = {}]
    /\ masked' = masked \ {f}

Park(f) ==
    /\ state[f] = "runnable"
    /\ Counting(f) = {}
    /\ state' = [state EXCEPT ![f] = "parked"]
    /\ UNCHANGED <<reasons, masked>>

\* An interrupt is remembered, and wakes a parked fiber that is not masked.
Interrupt(f, r) ==
    /\ state[f] # "free"
    /\ reasons' = [reasons EXCEPT ![f] = @ \union {r}]
    /\ state' = [state EXCEPT ![f] = IF f \in masked THEN @ ELSE "runnable"]
    /\ UNCHANGED masked

\* A completion wakes a parked fiber, and is remembered by one that is awake.
Complete(f) ==
    /\ state[f] # "free"
    /\ state' = [state EXCEPT ![f] = "runnable"]
    /\ reasons' = IF state[f] = "parked" THEN reasons
                  ELSE [reasons EXCEPT ![f] = @ \union {"done"}]
    /\ UNCHANGED masked

\* A fiber that is awake forgets reasons, and enters and leaves masked blocks.
Forget(f) ==
    /\ state[f] = "runnable"
    /\ \E r \in Reasons : reasons' = [reasons EXCEPT ![f] = @ \ {r}]
    /\ UNCHANGED <<state, masked>>

Mask(f) ==
    /\ state[f] = "runnable"
    /\ masked' \in {masked \union {f}, masked \ {f}}
    /\ UNCHANGED <<state, reasons>>

Next ==
    \E f \in Fibers :
        \/ Create(f)
        \/ Finish(f)
        \/ Park(f)
        \/ \E r \in Interrupts : Interrupt(f, r)
        \/ Complete(f)
        \/ Forget(f)
        \/ Mask(f)

Spec == Init /\ [][Next]_wakeVars
=============================================================================
