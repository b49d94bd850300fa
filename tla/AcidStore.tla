----------------------------- MODULE AcidStore -----------------------------
(***************************************************************************)
(* What an acid store promises (include/acid.h): memory that can be stored *)
(* to, and of which snapshots become durable, one after the other, each in *)
(* one step.  A crash takes the memory back to what is durable, and what  *)
(* was becoming durable when it crashed is so or is lost.                  *)
(***************************************************************************)
EXTENDS Integers

CONSTANT Pages

VARIABLES memory,         (* per page, what a program reads                 *)
          snapshot,       (* what is becoming durable                       *)
          durable         (* what is durable                                *)

storeVars == <<memory, snapshot, durable>>

Init ==
    /\ memory = [p \in Pages |-> 0]
    /\ snapshot = memory
    /\ durable = memory

\* Stores are numbered: a page holds its last.
Store(p) ==
    /\ memory' = [memory EXCEPT ![p] = memory'[p]]
    /\ \A q \in Pages : memory'[p] > memory[q]
    /\ UNCHANGED <<snapshot, durable>>

TakeSnapshot ==
    /\ snapshot = durable
    /\ snapshot' = memory
    /\ UNCHANGED <<memory, durable>>

Commit ==
    /\ durable' = snapshot
    /\ UNCHANGED <<memory, snapshot>>

Crash ==
    /\ memory' = durable
    /\ UNCHANGED <<snapshot, durable>>

\* The snapshot that was about to be durable is, or is lost.
Recover ==
    /\ memory = durable
    /\ durable' \in {durable, snapshot}
    /\ memory' = durable'
    /\ snapshot' = durable'

Next == (\E p \in Pages : Store(p)) \/ TakeSnapshot \/ Commit \/ Crash \/ Recover

Spec == Init /\ [][Next]_storeVars
=============================================================================
