------------------------------- MODULE RWLock -------------------------------
(***************************************************************************)
(* What a readers-writer lock promises its users, with no word about how:  *)
(* any number of readers, or one writer, never both.                       *)
(* RWSpinlock implements it with one 32 bit word and compare-and-swap.     *)
(***************************************************************************)
CONSTANT Threads          (* the physical threads that contend              *)

VARIABLES readers,        (* the threads that hold the lock for reading     *)
          writers         (* the threads that hold the lock for writing     *)

lockVars == <<readers, writers>>

Init ==
    /\ readers = {}
    /\ writers = {}

AcquireRead(t) ==
    /\ t \notin readers
    /\ writers = {}
    /\ readers' = readers \union {t}
    /\ UNCHANGED writers

ReleaseRead(t) ==
    /\ t \in readers
    /\ readers' = readers \ {t}
    /\ UNCHANGED writers

AcquireWrite(t) ==
    /\ readers = {}
    /\ writers = {}
    /\ writers' = {t}
    /\ UNCHANGED readers

ReleaseWrite(t) ==
    /\ t \in writers
    /\ writers' = writers \ {t}
    /\ UNCHANGED readers

Next ==
    \E t \in Threads :
        \/ AcquireRead(t)
        \/ ReleaseRead(t)
        \/ AcquireWrite(t)
        \/ ReleaseWrite(t)

Spec == Init /\ [][Next]_lockVars
=============================================================================
