------------------------------- MODULE IOBlock -------------------------------
(***************************************************************************)
(* Blocking on file descriptors, src/lwthreads.c: a fiber whose system     *)
(* call said EWOULDBLOCK registers with the descriptor's tracking struct   *)
(* and defers; one I/O monitor thread harvests edge triggered events from  *)
(* a shared epoll and wakes the fiber that is registered, or leaves a mark *)
(* for the next one that comes.                                            *)
(*                                                                         *)
(* One action is one section under shared_bfd_mem.rwlock, one system call, *)
(* or one unlocked step.  Waking takes the scheduler's lock inside, and    *)
(* putting the fiber to sleep is one step (FiberSched).  The kernel's      *)
(* epoll is external: it lists a registered descriptor when something new  *)
(* arrives on it and reports all that is available when it is harvested.   *)
(* The second look at descriptors that are epolls themselves is left out.  *)
(***************************************************************************)
EXTENDS FiberCtrl, FiniteSets

CONSTANTS Fibers,         (* the fibers                                     *)
          Fds,            (* the descriptor numbers                         *)
          Programs,       (* what the code that runs in the fibers may do   *)
          None            (* no fiber                                       *)

Events == {"read", "write"}

\* A program: the <<fiber, fd, event>> that fibers may wait for, whether two may wait
\* for the same at one time, the descriptors epoll has no room for (ENOSPC), and the
\* fibers that may be canceled and that may be uninterruptible.
ASSUME IOAssumption ==
    /\ \A p \in Programs :
        /\ p.uses \subseteq Fibers \X Fds \X Events
        /\ p.contend \in BOOLEAN
        /\ p.full \subseteq Fds
        /\ p.canceled \union p.masked \subseteq Fibers
    /\ None \notin Fibers /\ None \notin Fds \X Events

VARIABLES program,        (* the program that runs, for good                *)
          ctrl,           (* per fiber, its control block                   *)
          at,             (* per fiber, where it is in its code             *)
          use,            (* per fiber, the <<fd, event>> it wants          *)
          tracked,        (* the descriptors in blocking_fd_map             *)
          bfd,            (* per descriptor, its lwt_blocking_fd_t          *)
          closing,        (* descriptors being closed                       *)
          available,      (* kernel: per descriptor, what would not block   *)
          registered,     (* kernel: the descriptors in the epoll           *)
          listed,         (* kernel: those with news to report              *)
          harvested       (* monitor: events it has not looked at yet       *)

fiberVars == <<ctrl, at, use>>
kernelVars == <<available, registered, listed>>
vars == <<program, fiberVars, tracked, bfd, closing, kernelVars, harvested>>

\* user: own code; again: told EWOULDBLOCK; add: about to call EPOLL_CTL_ADD;
\* defer: about to defer; woken: back from it; ended: main has returned.
Points == {"user", "again", "add", "defer", "woken", "ended"}

BlockingFd == [ready : SUBSET Events,                    (* read_, write_ready *)
               fiber : [Events -> Fibers \union {None}]] (* read_, write_fiber *)

NewBlockingFd == [ready |-> {}, fiber |-> [ev \in Events |-> None]]

TypeOK ==
    /\ program \in Programs
    /\ ctrl \in [Fibers -> Ctrl]
    /\ at \in [Fibers -> Points]
    /\ use \in [Fibers -> (Fds \X Events) \union {None}]
    /\ tracked \subseteq Fds
    /\ bfd \in [Fds -> BlockingFd]
    /\ \A fd \in Fds \ tracked : bfd[fd] = NewBlockingFd
    /\ closing \subseteq Fds
    /\ available \in [Fds -> SUBSET Events]
    /\ registered \subseteq Fds
    /\ listed \subseteq registered
    /\ harvested \subseteq Fds \X SUBSET Events

Init ==
    /\ program \in Programs
    /\ ctrl = [f \in Fibers |-> [NewCtrl EXCEPT !.started = TRUE]]
    /\ at = [f \in Fibers |-> "user"]
    /\ use = [f \in Fibers |-> None]
    /\ tracked = {}
    /\ bfd = [fd \in Fds |-> NewBlockingFd]
    /\ closing = {}
    /\ available = [fd \in Fds |-> {}]
    /\ registered = {}
    /\ listed = {}
    /\ harvested = {}

-----------------------------------------------------------------------------
\* The fiber can run, and goes on in its code.
Goto(f, from, to) ==
    /\ at[f] = from
    /\ ~ctrl[f].deferred
    /\ at' = [at EXCEPT ![f] = to]

SetCtrl(f, c) == ctrl' = [ctrl EXCEPT ![f] = c]

Fd(f) == use[f][1]
Event(f) == use[f][2]

\* The fibers that are in the middle of using descriptor fd.
UsersOf(fd) == {f \in Fibers : use[f] # None /\ Fd(f) = fd}

\* A system call would have to block.
WouldBlock(f, fd, ev) ==
    /\ Goto(f, "user", "again")
    /\ fd \notin closing
    /\ ev \notin available[fd]
    /\ program.contend \/ \A g \in UsersOf(fd) : Event(g) # ev
    /\ use' = [use EXCEPT ![f] = <<fd, ev>>]
    /\ UNCHANGED <<ctrl, tracked, bfd, closing, kernelVars, harvested>>

\* Or it succeeds, and uses up what was available.
Succeed(f, fd, ev) ==
    /\ Goto(f, "user", "user")
    /\ fd \notin closing
    /\ ev \in available[fd]
    /\ available' = [available EXCEPT ![fd] = @ \ {ev}]
    /\ UNCHANGED <<ctrl, use, tracked, bfd, closing, registered, listed, harvested>>

-----------------------------------------------------------------------------
(* lwt_io_block.                                                           *)

\* The fiber leaves lwt_io_block: to try again, or with an exception.
Return(f, from, c) ==
    /\ Goto(f, from, "user")
    /\ use' = [use EXCEPT ![f] = None]
    /\ SetCtrl(f, c)

Forgetful(f) == [ctrl[f] EXCEPT !.done = FALSE]

\* The cancellation point at the start throws.
BlockInterrupted(f) ==
    /\ Return(f, "again", CancellationPoint(ctrl[f]))
    /\ Interrupted(ctrl[f])
    /\ UNCHANGED <<tracked, bfd, closing, kernelVars, harvested>>

\* The first fiber that waits for the descriptor starts its tracking.
BlockFirst(f) ==
    /\ Goto(f, "again", "add")
    /\ ~Interrupted(ctrl[f])
    /\ Fd(f) \notin tracked
    /\ tracked' = tracked \union {Fd(f)}
    /\ bfd' = [bfd EXCEPT ![Fd(f)] = [NewBlockingFd EXCEPT !.fiber[Event(f)] = f]]
    /\ SetCtrl(f, Forgetful(f))
    /\ UNCHANGED <<use, closing, kernelVars, harvested>>

\* The event came meanwhile and left a mark.
BlockReady(f) ==
    /\ Return(f, "again", Forgetful(f))
    /\ ~Interrupted(ctrl[f])
    /\ Fd(f) \in tracked
    /\ Event(f) \in bfd[Fd(f)].ready
    /\ bfd' = [bfd EXCEPT ![Fd(f)].ready = @ \ {Event(f)}]
    /\ UNCHANGED <<tracked, closing, kernelVars, harvested>>

\* Slip: the mark is not looked at.
BlockHastily(f) ==
    /\ Goto(f, "again", "defer")
    /\ ~Interrupted(ctrl[f])
    /\ Fd(f) \in tracked
    /\ bfd[Fd(f)].fiber[Event(f)] = None
    /\ bfd' = [bfd EXCEPT ![Fd(f)].fiber[Event(f)] = f]
    /\ SetCtrl(f, Forgetful(f))
    /\ UNCHANGED <<use, tracked, closing, kernelVars, harvested>>

\* The fiber registers for the event.
BlockLater(f) ==
    /\ Goto(f, "again", "defer")
    /\ ~Interrupted(ctrl[f])
    /\ Fd(f) \in tracked
    /\ Event(f) \notin bfd[Fd(f)].ready
    /\ bfd[Fd(f)].fiber[Event(f)] = None
    /\ bfd' = [bfd EXCEPT ![Fd(f)].fiber[Event(f)] = f]
    /\ SetCtrl(f, Forgetful(f))
    /\ UNCHANGED <<use, tracked, closing, kernelVars, harvested>>

\* Another fiber is registered for it: an I/O exception.
BlockTaken(f) ==
    /\ Return(f, "again", ctrl[f])
    /\ ~Interrupted(ctrl[f])
    /\ Fd(f) \in tracked
    /\ Event(f) \notin bfd[Fd(f)].ready
    /\ bfd[Fd(f)].fiber[Event(f)] # None
    /\ UNCHANGED <<tracked, bfd, closing, kernelVars, harvested>>

\* EPOLL_CTL_ADD: what is available by now is news.
Add(f) ==
    /\ Goto(f, "add", "defer")
    /\ Fd(f) \notin program.full
    /\ registered' = registered \union {Fd(f)}
    /\ listed' = IF available[Fd(f)] = {} THEN listed ELSE listed \union {Fd(f)}
    /\ UNCHANGED <<ctrl, use, tracked, bfd, closing, available, harvested>>

\* It fails: an I/O exception, from here.
AddFailed(f) ==
    /\ Return(f, "add", ctrl[f])
    /\ Fd(f) \in program.full
    /\ UNCHANGED <<tracked, bfd, closing, kernelVars, harvested>>

\* lwt_scheduler_fiber_defer
Defer(f) ==
    /\ Goto(f, "defer", "woken")
    /\ SetCtrl(f, [ctrl[f] EXCEPT !.deferred = ~Bounces(ctrl[f])])
    /\ UNCHANGED <<use, tracked, bfd, closing, kernelVars, harvested>>

\* Slip: the fiber trusts the monitor to have unregistered it.
UnblockAttached(f) ==
    /\ Return(f, "woken", CancellationPoint(ctrl[f]))
    /\ UNCHANGED <<tracked, bfd, closing, kernelVars, harvested>>

\* The fiber unregisters if it still is registered (it was interrupted), and
\* throws what is pending.
Unblock(f) ==
    /\ Return(f, "woken", CancellationPoint(ctrl[f]))
    /\ bfd' = [bfd EXCEPT ![Fd(f)].fiber[Event(f)] = IF @ = f THEN None ELSE @]
    /\ UNCHANGED <<tracked, closing, kernelVars, harvested>>

-----------------------------------------------------------------------------
(* lwt_io_monitor_thread.                                                  *)

\* epoll_wait
Harvest ==
    /\ harvested = {}
    /\ listed # {}
    /\ harvested' = {<<fd, available[fd]>> : fd \in {d \in listed : available[d] # {}}}
    /\ listed' = {}
    /\ UNCHANGED <<fiberVars, tracked, bfd, closing, available, registered>>

\* Slip: an event that finds no fiber leaves no mark.
ToldUnmarked(b, evs) ==
    [b EXCEPT !.fiber = [ev \in Events |-> IF ev \in evs THEN None ELSE @[ev]]]

\* A tracking struct when the events were told: the fibers registered for them are
\* not any more, and there is a mark for those that had none.
Told(b, evs) ==
    [b EXCEPT !.ready = @ \union {ev \in evs : b.fiber[ev] = None},
              !.fiber = [ev \in Events |-> IF ev \in evs THEN None ELSE @[ev]]]

\* Slip: the monitor does not care whether the descriptor is tracked.
IsTrackedAssumed(fd) == TRUE

IsTracked(fd) == fd \in tracked

\* One event, under the lock: wake the fibers registered for it, or leave a mark;
\* nothing if the descriptor is not tracked.
Deliver(fd, evs) ==
    /\ <<fd, evs>> \in harvested
    /\ harvested' = harvested \ {<<fd, evs>>}
    /\ LET waiting == {f \in Fibers : IsTracked(fd) /\ \E ev \in evs : bfd[fd].fiber[ev] = f}
       IN ctrl' = [f \in Fibers |-> IF f \in waiting THEN WakeDone(ctrl[f]) ELSE ctrl[f]]
    /\ bfd' = IF IsTracked(fd) THEN [bfd EXCEPT ![fd] = Told(@, evs)] ELSE bfd
    /\ UNCHANGED <<at, use, tracked, closing, kernelVars>>

-----------------------------------------------------------------------------
\* lwt_io_free_fd_tracking, before the descriptor is closed by whoever owns it
\* (rio.c does both where a handle is destructed, which nobody uses any more).
FreeFdTracking(fd) ==
    /\ fd \notin closing
    /\ UsersOf(fd) = {}
    /\ closing' = closing \union {fd}
    /\ tracked' = tracked \ {fd}
    /\ bfd' = [bfd EXCEPT ![fd] = NewBlockingFd]
    /\ UNCHANGED <<fiberVars, kernelVars, harvested>>

\* close() takes the descriptor out of the epoll; the number is used again by the
\* next file, while the monitor may still hold an event of the last one.
Close(fd) ==
    /\ fd \in closing
    /\ closing' = closing \ {fd}
    /\ available' = [available EXCEPT ![fd] = {}]
    /\ registered' = registered \ {fd}
    /\ listed' = listed \ {fd}
    /\ UNCHANGED <<fiberVars, tracked, bfd, harvested>>

\* The other end sends, makes room or hangs up.
Arrive(fd, evs) ==
    /\ available' = [available EXCEPT ![fd] = @ \union evs]
    /\ listed' = IF fd \in registered THEN listed \union {fd} ELSE listed
    /\ UNCHANGED <<fiberVars, tracked, bfd, closing, registered, harvested>>

CancelFiber(f) ==
    /\ at[f] # "ended"
    /\ SetCtrl(f, Cancel(ctrl[f]))
    /\ UNCHANGED <<at, use, tracked, bfd, closing, kernelVars, harvested>>

SetUnintr(f) ==
    /\ Goto(f, "user", "user")
    /\ SetCtrl(f, [ctrl[f] EXCEPT !.unintr = ~@])
    /\ UNCHANGED <<use, tracked, bfd, closing, kernelVars, harvested>>

\* The fiber ends, and its control block is freed.
End(f) ==
    /\ Goto(f, "user", "ended")
    /\ SetCtrl(f, NewCtrl)
    /\ UNCHANGED <<use, tracked, bfd, closing, kernelVars, harvested>>

-----------------------------------------------------------------------------
\* What the code of librcd does without being asked.
FiberStep(f) ==
    \/ BlockInterrupted(f) \/ BlockFirst(f) \/ BlockReady(f) \/ BlockLater(f)
    \/ BlockTaken(f)
    \/ Add(f) \/ AddFailed(f) \/ Defer(f) \/ Unblock(f)

MonitorStep ==
    \/ Harvest
    \/ \E e \in harvested : Deliver(e[1], e[2])

UserStep ==
    \/ \E u \in program.uses : WouldBlock(u[1], u[2], u[3]) \/ Succeed(u[1], u[2], u[3])
    \/ \E u \in program.uses : FreeFdTracking(u[2]) \/ Close(u[2])
    \/ \E u \in program.uses, evs \in SUBSET Events \ {{}} : Arrive(u[2], evs)
    \/ \E f \in program.canceled : CancelFiber(f)
    \/ \E f \in program.masked : SetUnintr(f)
    \/ \E f \in Fibers : End(f)

Next ==
    /\ (\E f \in Fibers : FiberStep(f)) \/ MonitorStep \/ UserStep
    /\ UNCHANGED program

Spec == Init /\ [][Next]_vars

\* The monitor is a thread of its own that only waits in epoll_wait, and the
\* executors run every fiber that is not deferred.
FairSpec ==
    /\ Spec
    /\ WF_vars(MonitorStep /\ UNCHANGED program)
    /\ \A f \in Fibers : WF_vars(FiberStep(f) /\ UNCHANGED program)

-----------------------------------------------------------------------------
\* The fiber that is registered for an event is inside lwt_io_block for it, and there
\* is no mark.
Registered(fd, ev) ==
    LET f == bfd[fd].fiber[ev]
    IN f # None => /\ at[f] \in {"add", "defer", "woken"}
                   /\ use[f] = <<fd, ev>>
                   /\ ev \notin bfd[fd].ready

\* The tracking structs name only fibers that are inside lwt_io_block for that
\* event, so the monitor never wakes a fiber for something it no longer waits for,
\* or that is gone; a mark and a fiber exclude each other.  With room in the epoll.
RegisteredFiberBlocks ==
    /\ TypeOK
    /\ \A fd \in Fds \ program.full, ev \in Events : Registered(fd, ev)

\* The comments at lwt_blocking_fd: the fibers are those that wait for read or write.
\* The same where EPOLL_CTL_ADD fails.
FailedAddUnregisters == \A fd \in Fds, ev \in Events : Registered(fd, ev)

\* Something that will be told to the monitor, or by it, about an event.
Pending(fd, ev) ==
    \/ fd \in listed
    \/ \E e \in harvested : e[1] = fd /\ ev \in e[2]
    \/ \E f \in UsersOf(fd) : at[f] = "add"

\* A fiber sleeps for what it could have, and no other contends with it for that.
\* (The comment at lwt_blocking_fd: one fiber at a time may wait for an event.)
\* With room in the epoll, without which nothing is told of the descriptor.
Overlooked(f) ==
    /\ ctrl[f].deferred
    /\ Event(f) \in available[Fd(f)]
    /\ ~program.contend /\ Fd(f) \notin program.full

\* Readiness is not lost between the system call that would have blocked and the
\* sleep: if what a fiber sleeps for is available, news of it are on their way.
ReadinessNotLost ==
    \A f \in Fibers : Overlooked(f) => Pending(Fd(f), Event(f))

\* And so it is woken, unless another fiber uses up what it waits for.
WaiterWoken ==
    \A f \in Fibers : Overlooked(f) ~> ~Overlooked(f)
=============================================================================
