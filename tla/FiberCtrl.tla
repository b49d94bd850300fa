------------------------------ MODULE FiberCtrl ------------------------------
(***************************************************************************)
(* The control block of a fiber (struct lwt_fiber, field ctrl) and what    *)
(* the scheduler's primitives do to it.  These are pure operators on the   *)
(* record: the modules that own a control block apply them.                *)
(*                                                                         *)
(* The pending cancellation, an exception object, is a BOOLEAN: only       *)
(* whether there is one matters.                                           *)
(***************************************************************************)
Ctrl == [canceled : BOOLEAN,        (* a cancellation is pending            *)
         hidden_cancel : BOOLEAN,   (* one was taken over by an accept      *)
         done : BOOLEAN,            (* wake-up that found the fiber awake   *)
         unintr : BOOLEAN,          (* inside an uninterruptible block      *)
         join_race : BOOLEAN,       (* a join race is pending               *)
         deferred : BOOLEAN,        (* off every executor, waiting          *)
         started : BOOLEAN]         (* has run                              *)

\* What a new fiber starts with.
NewCtrl == [canceled |-> FALSE, hidden_cancel |-> FALSE, done |-> FALSE,
            unintr |-> FALSE, join_race |-> FALSE, deferred |-> FALSE,
            started |-> FALSE]

\* A cancellation point would throw here.
Interrupted(c) == ~c.unintr /\ (c.canceled \/ c.join_race)

\* The fiber must not be put to sleep.
Bounces(c) == Interrupted(c) \/ c.done

\* A cancellation point: cancellation is thrown before a join race, and
\* throwing one clears it.  Nothing is thrown in an uninterruptible block.
CancellationPoint(c) ==
    IF ~Interrupted(c) THEN c
    ELSE IF c.canceled THEN [c EXCEPT !.canceled = FALSE]
    ELSE [c EXCEPT !.join_race = FALSE]

\* What it waited for is complete.  The caller enqueues a fiber it finds
\* deferred, here and below.
WakeDone(c) ==
    IF c.deferred THEN [c EXCEPT !.deferred = FALSE]
                  ELSE [c EXCEPT !.done = TRUE]

WakeJoinRace(c) ==
    IF c.join_race THEN c
    ELSE [c EXCEPT !.join_race = TRUE, !.deferred = @ /\ c.unintr]

\* Slip: a canceled fiber is woken in an uninterruptible block too.
CancelUnmasked(c) ==
    IF c.canceled \/ c.hidden_cancel THEN c
    ELSE [c EXCEPT !.canceled = TRUE, !.deferred = FALSE]

Cancel(c) ==
    IF c.canceled \/ c.hidden_cancel THEN c
    ELSE [c EXCEPT !.canceled = TRUE, !.deferred = @ /\ c.unintr]
=============================================================================
