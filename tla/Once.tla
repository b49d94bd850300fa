-------------------------------- MODULE Once --------------------------------
(***************************************************************************)
(* What lwt_once promises its callers: the initialization runs to its end  *)
(* at most once, one caller at a time attempts it, a failed attempt leaves *)
(* things as they were, and nobody returns before it is complete.          *)
(***************************************************************************)
CONSTANT Callers

VARIABLES status,         (* "fresh", "busy" or "done"                      *)
          call            (* per caller: outside, "pending", "initializing" *)
                          (* or "failed"                                    *)

vars == <<status, call>>

Outside == {"none", "returned", "threw"}

Init ==
    /\ status = "fresh"
    /\ call = [c \in Callers |-> "none"]

Step(c, from, to) ==
    /\ call[c] = from
    /\ call' = [call EXCEPT ![c] = to]

\* A caller comes.
Enter(c) ==
    /\ \E from \in Outside : Step(c, from, "pending")
    /\ UNCHANGED status

\* It is the one that initializes.
Begin(c) ==
    /\ status = "fresh"
    /\ Step(c, "pending", "initializing")
    /\ status' = "busy"

Complete(c) ==
    /\ Step(c, "initializing", "pending")
    /\ status' = "done"

\* The initialization throws.
Fail(c) ==
    /\ Step(c, "initializing", "failed")
    /\ status' = "fresh"

Return(c) ==
    /\ status = "done"
    /\ Step(c, "pending", "returned")
    /\ UNCHANGED status

\* The call throws: what the initialization threw, or a cancellation.
Throw(c) ==
    /\ Step(c, "failed", "threw") \/ Step(c, "pending", "threw")
    /\ UNCHANGED status

Next ==
    \E c \in Callers :
        Enter(c) \/ Begin(c) \/ Complete(c) \/ Fail(c) \/ Return(c) \/ Throw(c)

Spec == Init /\ [][Next]_vars
=============================================================================
