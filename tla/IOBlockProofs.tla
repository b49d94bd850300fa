----------------------------- MODULE IOBlockProofs -----------------------------
(***************************************************************************)
(* Proofs about IOBlock, for any fibers, descriptors and programs.         *)
(*                                                                         *)
(* RegisteredFiberBlocks needs to know what a fiber inside lwt_io_block    *)
(* wants.  ReadinessNotLost needs the whole protocol: a fiber that was not *)
(* told is registered; a descriptor that is tracked is in the epoll, or    *)
(* about to be; and what became available while a fiber was on its way to  *)
(* sleep is on its way to it, or left a mark for it.                       *)
(***************************************************************************)
EXTENDS IOBlock, TLAPS

\* The fibers inside lwt_io_block, and only they, want something.
Blocking == {"again", "add", "defer", "woken"}

Wants == \A f \in Fibers : IF at[f] \in Blocking THEN use[f] \in Fds \X Events
                                                ELSE use[f] = None

\* Who sleeps waits for the event.
SleepsInDefer == \A f \in Fibers : ctrl[f].deferred => at[f] = "woken"

\* The fiber has not been told of its event, and would sleep, or sleeps.
Untold(f) ==
    \/ at[f] \in {"add", "defer"} /\ ~ctrl[f].done
    \/ ctrl[f].deferred

\* Who was not told of it is registered for it.
UntoldIsRegistered ==
    \A f \in Fibers : Untold(f) => bfd[Fd(f)].fiber[Event(f)] = f

\* Nobody uses, or tracks, a descriptor that is being closed.
ClosingIsUnused == \A fd \in closing : fd \notin tracked /\ UsersOf(fd) = {}

\* Somebody is about to put the descriptor in the epoll.
Adding(fd) == \E f \in UsersOf(fd) : at[f] = "add"

\* A descriptor that is tracked is in the epoll, or about to be.
TrackedIsRegistered ==
    \A fd \in tracked \ program.full : fd \in registered \/ Adding(fd)

\* Without contention no two fibers want the same.
OneWants ==
    program.contend \/ \A f \in Fibers, g \in Fibers :
                           at[f] \in Blocking /\ use[g] = use[f] => f = g

\* What became available since the system call of fiber f that would have blocked, if
\* it has not been told, is on its way, or left a mark.
Awaits(f) ==
    /\ at[f] \in Blocking
    /\ Fd(f) \in tracked \ program.full
    /\ Event(f) \in available[Fd(f)]
    /\ at[f] = "again" \/ bfd[Fd(f)].fiber[Event(f)] = f

\* The mark it left, or what is pending in the epoll.
HasNews(f) ==
    \/ at[f] = "again" /\ Event(f) \in bfd[Fd(f)].ready
    \/ Pending(Fd(f), Event(f))

NewsArrives == program.contend \/ \A f \in Fibers : Awaits(f) => HasNews(f)

\* The invariant: whom the tracking structs name, the path of an event from the epoll
\* to the fiber, and what is on that path.
BlockInv == RegisteredFiberBlocks /\ Wants
PathInv == SleepsInDefer /\ UntoldIsRegistered /\ ClosingIsUnused /\ TrackedIsRegistered
NewsInv == OneWants /\ NewsArrives

-----------------------------------------------------------------------------
(* What the primitives do to a control block, and to a tracking struct.    *)

\* The operations on control blocks return control blocks, and wake, or do not.
LEMMA CtrlOps ==
    ASSUME NEW c \in Ctrl
    PROVE  /\ CancellationPoint(c) \in Ctrl /\ WakeDone(c) \in Ctrl /\ Cancel(c) \in Ctrl
           /\ CancellationPoint(c).deferred = c.deferred
           /\ ~WakeDone(c).deferred
           /\ WakeDone(c).done \/ c.deferred
           /\ Cancel(c).deferred => c.deferred
           /\ Cancel(c).done = c.done
BY DEF Ctrl, CancellationPoint, Interrupted, WakeDone, Cancel

Deferring(c) == [c EXCEPT !.deferred = ~Bounces(c)]
Masking(c) == [c EXCEPT !.unintr = ~@]

\* So do going to sleep and masking.
LEMMA CtrlSets ==
    ASSUME NEW c \in Ctrl
    PROVE  /\ Deferring(c) \in Ctrl /\ Deferring(c).done = c.done
           /\ Deferring(c).deferred => ~c.done
           /\ Masking(c) \in Ctrl /\ Masking(c).deferred = c.deferred
           /\ Masking(c).done = c.done
           /\ NewCtrl \in Ctrl /\ ~NewCtrl.deferred
BY DEF Ctrl, NewCtrl, Deferring, Masking, Bounces, Interrupted

\* A fiber that begins a wait forgets an earlier wake-up.
LEMMA Forgets ==
    ASSUME NEW f \in Fibers, ctrl[f] \in Ctrl
    PROVE  /\ Forgetful(f) \in Ctrl /\ Forgetful(f).deferred = ctrl[f].deferred
           /\ ~Forgetful(f).done
BY DEF Ctrl, Forgetful

\* A new tracking struct names nobody and holds no mark.
LEMMA NewBlockingFdTyped ==
    /\ NewBlockingFd \in BlockingFd
    /\ NewBlockingFd.ready = {}
    /\ \A ev \in Events : NewBlockingFd.fiber[ev] = None
BY DEF NewBlockingFd, BlockingFd

\* A fiber registers, or is unregistered.
Assigns(fd, ev, who) == bfd' = [bfd EXCEPT ![fd].fiber[ev] = who]

\* One slot of one tracking struct changes.
LEMMA SetFiber ==
    ASSUME bfd \in [Fds -> BlockingFd], NEW fd \in Fds, NEW ev \in Events,
           NEW who \in Fibers \union {None}, Assigns(fd, ev, who)
    PROVE  /\ bfd' \in [Fds -> BlockingFd]
           /\ \A d \in Fds \ {fd} : bfd'[d] = bfd[d]
           /\ bfd'[fd].ready = bfd[fd].ready
           /\ \A e \in Events : bfd'[fd].fiber[e] = IF e = ev THEN who ELSE bfd[fd].fiber[e]
BY DEF BlockingFd, Assigns

\* A mark is taken.
TakesMark(fd, ev) == bfd' = [bfd EXCEPT ![fd].ready = @ \ {ev}]

\* One mark goes.
LEMMA TakeMark ==
    ASSUME bfd \in [Fds -> BlockingFd], NEW fd \in Fds, NEW ev \in Events, TakesMark(fd, ev)
    PROVE  /\ bfd' \in [Fds -> BlockingFd]
           /\ \A d \in Fds \ {fd} : bfd'[d] = bfd[d]
           /\ bfd'[fd].ready = bfd[fd].ready \ {ev}
           /\ bfd'[fd].fiber = bfd[fd].fiber
BY DEF BlockingFd, TakesMark

\* The first fiber of a descriptor registers.
StartsTracking(fd, ev, f) ==
    bfd' = [bfd EXCEPT ![fd] = [NewBlockingFd EXCEPT !.fiber[ev] = f]]

\* The new tracking struct names that fiber alone.
LEMMA FirstFiber ==
    ASSUME bfd \in [Fds -> BlockingFd], NEW fd \in Fds, NEW ev \in Events, NEW f \in Fibers,
           StartsTracking(fd, ev, f)
    PROVE  /\ bfd' \in [Fds -> BlockingFd]
           /\ \A d \in Fds \ {fd} : bfd'[d] = bfd[d]
           /\ bfd'[fd].ready = {}
           /\ \A e \in Events : bfd'[fd].fiber[e] = IF e = ev THEN f ELSE None
<1> DEFINE new == [NewBlockingFd EXCEPT !.fiber[ev] = f]
<1>1. new \in BlockingFd /\ new.ready = {}
  BY DEF NewBlockingFd, BlockingFd
<1>2. \A e \in Events : new.fiber[e] = IF e = ev THEN f ELSE None
  BY DEF NewBlockingFd, BlockingFd
<1>3. bfd' = [bfd EXCEPT ![fd] = new]
  BY DEF StartsTracking
<1> HIDE DEF new
<1>4. QED
  BY <1>1, <1>2, <1>3

\* Events are told.
LEMMA ToldEvents ==
    ASSUME NEW b \in BlockingFd, NEW evs \in SUBSET Events
    PROVE  /\ Told(b, evs) \in BlockingFd
           /\ \A e \in Events :
                 /\ e \in Told(b, evs).ready <=> e \in b.ready \/ (e \in evs /\ b.fiber[e] = None)
                 /\ Told(b, evs).fiber[e] = IF e \in evs THEN None ELSE b.fiber[e]
<1> DEFINE marks == {ev \in evs : b.fiber[ev] = None}
           fiber == [ev \in Events |-> IF ev \in evs THEN None ELSE b.fiber[ev]]
<1>1. Told(b, evs).ready = b.ready \union marks
  BY DEF Told, BlockingFd
<1>2. Told(b, evs).fiber = fiber
  BY DEF Told, BlockingFd
<1>3. marks \in SUBSET Events /\ b.ready \union marks \in SUBSET Events
  BY DEF BlockingFd
<1>4. fiber \in [Events -> Fibers \union {None}]
  BY DEF BlockingFd
<1>5. \A r \in SUBSET Events, w \in [Events -> Fibers \union {None}] :
          [b EXCEPT !.ready = r, !.fiber = w] \in BlockingFd
  BY DEF BlockingFd
<1>6. Told(b, evs) = [b EXCEPT !.ready = b.ready \union marks, !.fiber = fiber]
  BY Zenon DEF Told
<1>7. Told(b, evs) \in BlockingFd
  BY <1>3, <1>4, <1>5, <1>6, Zenon
<1>8. QED
  BY <1>1, <1>2, <1>7

-----------------------------------------------------------------------------
(* RegisteredFiberBlocks.                                                  *)

\* What a program may do is typed.
LEMMA ProgramUses ==
    ASSUME TypeOK
    PROVE  /\ \A u \in program.uses : u[1] \in Fibers /\ u[2] \in Fds /\ u[3] \in Events
           /\ program.full \subseteq Fds
           /\ program.canceled \subseteq Fibers /\ program.masked \subseteq Fibers
BY IOAssumption DEF TypeOK

\* Where a fiber blocks, it is for an event of a descriptor.
LEMMA WantsEvent ==
    ASSUME Wants, NEW f \in Fibers, at[f] \in Blocking
    PROVE  Fd(f) \in Fds /\ Event(f) \in Events /\ use[f] = <<Fd(f), Event(f)>>
BY DEF Wants, Fd, Event

Attached == \A fd \in Fds \ program.full, ev \in Events : Registered(fd, ev)

\* A fiber goes on inside lwt_io_block, and the tracking structs stay as they are.
LEMMA GoesOn ==
    ASSUME BlockInv, UNCHANGED <<program, bfd, use>>, NEW f \in Fibers,
           NEW to \in {"defer", "woken"}, at[f] \in Blocking, at' = [at EXCEPT ![f] = to]
    PROVE  Wants' /\ Attached'
BY DEF BlockInv, RegisteredFiberBlocks, TypeOK, Points, Wants, Blocking, Attached, Registered,
       BlockingFd

\* A fiber that is not registered leaves lwt_io_block.
LEMMA Leaves ==
    ASSUME BlockInv, UNCHANGED program, NEW f \in Fibers,
           at[f] \in Blocking, at' = [at EXCEPT ![f] = "user"], use' = [use EXCEPT ![f] = None],
           \A fd \in Fds \ program.full, ev \in Events :
               /\ bfd'[fd].fiber[ev] # f
               /\ bfd'[fd].fiber[ev] \in {bfd[fd].fiber[ev], None}
               /\ bfd'[fd].ready \subseteq bfd[fd].ready
    PROVE  Wants' /\ Attached'
<1> USE DEF BlockInv, RegisteredFiberBlocks, TypeOK, Points, Blocking
<1>1. Wants'
  BY DEF Wants
<1>2. ASSUME NEW fd \in Fds \ program.full, NEW ev \in Events PROVE Registered(fd, ev)'
  BY DEF Registered, BlockingFd
<1>3. QED
  BY <1>1, <1>2 DEF Attached

\* A fiber that is in nobody's way registers.
LEMMA Registers ==
    ASSUME BlockInv, UNCHANGED <<program, use>>, NEW f \in Fibers,
           at[f] = "again", NEW to \in {"add", "defer"}, at' = [at EXCEPT ![f] = to],
           \A fd \in Fds, ev \in Events :
               /\ fd # Fd(f) => bfd'[fd] = bfd[fd]
               /\ bfd'[Fd(f)].fiber[ev] = IF ev = Event(f) THEN f ELSE bfd[Fd(f)].fiber[ev]
               /\ bfd'[Fd(f)].ready = bfd[Fd(f)].ready,
           Event(f) \notin bfd[Fd(f)].ready
    PROVE  Wants' /\ Attached'
<1> USE DEF BlockInv, RegisteredFiberBlocks, TypeOK, Points, Blocking
<1>1. Wants'
  BY DEF Wants
<1>2. ASSUME NEW fd \in Fds \ program.full, NEW ev \in Events PROVE Registered(fd, ev)'
  <2>1. Registered(fd, ev)
    OBVIOUS
  <2>2. use[f] = <<Fd(f), Event(f)>> /\ Fd(f) \in Fds /\ Event(f) \in Events
    BY WantsEvent
  <2>3. CASE fd = Fd(f) /\ ev = Event(f)
    BY <2>2, <2>3 DEF Registered
  <2>4. CASE ~(fd = Fd(f) /\ ev = Event(f))
    <3>1. bfd'[fd].fiber[ev] = bfd[fd].fiber[ev] /\ bfd'[fd].ready = bfd[fd].ready
      BY <2>2, <2>4
    <3>2. bfd[fd].fiber[ev] \in Fibers \union {None}
      BY DEF BlockingFd
    <3>3. QED
      BY <2>1, <3>1, <3>2 DEF Registered
  <2>5. QED
    BY <2>3, <2>4
<1>3. QED
  BY <1>1, <1>2 DEF Attached

\* A step of a fiber keeps the names right.
LEMMA BlockInvFiber ==
    ASSUME BlockInv, UNCHANGED program, NEW f \in Fibers, FiberStep(f)
    PROVE  BlockInv'
<1> USE DEF fiberVars, kernelVars
<1>0. TypeOK /\ (TypeOK' /\ Wants' /\ Attached' => BlockInv')
  BY DEF BlockInv, RegisteredFiberBlocks, Attached
<1>1. CASE BlockInterrupted(f)
  <2>1. TypeOK'
    BY <1>0, <1>1, CtrlOps DEF BlockInterrupted, Return, Goto, SetCtrl, TypeOK, Points
  <2>2. \A fd \in Fds \ program.full, ev \in Events : bfd'[fd].fiber[ev] # f
    BY <1>0, <1>1, IOAssumption DEF BlockInterrupted, Return, Goto, BlockInv, RegisteredFiberBlocks, Registered,
                      TypeOK
  <2>3. QED
    BY <1>0, <1>1, <2>1, <2>2, Leaves DEF BlockInterrupted, Return, Goto, Blocking
<1>2. CASE BlockFirst(f)
  <2>1. Fd(f) \in Fds /\ Event(f) \in Events
    BY <1>2, WantsEvent DEF BlockInv, BlockFirst, Goto, Blocking
  <2>2. StartsTracking(Fd(f), Event(f), f)
    BY <1>2 DEF BlockFirst, StartsTracking
  <2>3. TypeOK'
    BY <1>0, <1>2, <2>1, <2>2, Forgets, FirstFiber
    DEF BlockFirst, Goto, SetCtrl, TypeOK, Points
  <2>4. bfd[Fd(f)] = NewBlockingFd
    BY <1>0, <1>2, <2>1 DEF BlockFirst, TypeOK
  <2>5. \A fd \in Fds, ev \in Events :
          /\ fd # Fd(f) => bfd'[fd] = bfd[fd]
          /\ bfd'[Fd(f)].fiber[ev] = IF ev = Event(f) THEN f ELSE bfd[Fd(f)].fiber[ev]
          /\ bfd'[Fd(f)].ready = bfd[Fd(f)].ready
    BY <1>0, <2>1, <2>2, <2>4, FirstFiber, NewBlockingFdTyped DEF TypeOK
  <2>6. Event(f) \notin bfd[Fd(f)].ready
    BY <2>4, NewBlockingFdTyped
  <2>7. QED
    BY <1>0, <1>2, <2>3, <2>5, <2>6, Registers DEF BlockFirst, Goto
<1>3. CASE BlockReady(f)
  <2>1. Fd(f) \in Fds /\ Event(f) \in Events
    BY <1>3, WantsEvent DEF BlockInv, BlockReady, Return, Goto, Blocking
  <2>2. TakesMark(Fd(f), Event(f))
    BY <1>3 DEF BlockReady, TakesMark
  <2>3. TypeOK'
    BY <1>0, <1>3, <2>1, <2>2, Forgets, TakeMark
    DEF BlockReady, Return, Goto, SetCtrl, TypeOK, Points
  <2>4. \A fd \in Fds : bfd'[fd].fiber = bfd[fd].fiber /\ bfd'[fd].ready \subseteq bfd[fd].ready
    BY <1>0, <2>1, <2>2, TakeMark DEF TypeOK
  <2>5. \A fd \in Fds \ program.full, ev \in Events : bfd'[fd].fiber[ev] # f
    BY <1>0, <1>3, <2>4, IOAssumption DEF BlockReady, Return, Goto, BlockInv, RegisteredFiberBlocks, Registered,
                            TypeOK
  <2>6. QED
    BY <1>0, <1>3, <2>3, <2>4, <2>5, Leaves DEF BlockReady, Return, Goto, Blocking
<1>4. CASE BlockLater(f)
  <2>1. Fd(f) \in Fds /\ Event(f) \in Events
    BY <1>4, WantsEvent DEF BlockInv, BlockLater, Goto, Blocking
  <2>2. Assigns(Fd(f), Event(f), f)
    BY <1>4 DEF BlockLater, Assigns
  <2>3. TypeOK'
    BY <1>0, <1>4, <2>1, <2>2, Forgets, SetFiber
    DEF BlockLater, Goto, SetCtrl, TypeOK, Points
  <2>4. \A fd \in Fds, ev \in Events :
          /\ fd # Fd(f) => bfd'[fd] = bfd[fd]
          /\ bfd'[Fd(f)].fiber[ev] = IF ev = Event(f) THEN f ELSE bfd[Fd(f)].fiber[ev]
          /\ bfd'[Fd(f)].ready = bfd[Fd(f)].ready
    BY <1>0, <2>1, <2>2, SetFiber DEF TypeOK
  <2>5. QED
    BY <1>0, <1>4, <2>3, <2>4, Registers DEF BlockLater, Goto
<1>5. CASE BlockTaken(f)
  <2>1. TypeOK'
    BY <1>0, <1>5 DEF BlockTaken, Return, Goto, SetCtrl, TypeOK, Points
  <2>2. \A fd \in Fds \ program.full, ev \in Events : bfd'[fd].fiber[ev] # f
    BY <1>0, <1>5, IOAssumption DEF BlockTaken, Return, Goto, BlockInv, RegisteredFiberBlocks, Registered,
                      TypeOK
  <2>3. QED
    BY <1>0, <1>5, <2>1, <2>2, Leaves DEF BlockTaken, Return, Goto, Blocking
<1>6. CASE Add(f)
  <2>1. Fd(f) \in Fds
    BY <1>6, WantsEvent DEF BlockInv, Add, Goto, Blocking
  <2>2. TypeOK'
    BY <1>0, <1>6, <2>1 DEF Add, Goto, TypeOK, Points
  <2>3. QED
    BY <1>0, <1>6, <2>2, GoesOn DEF Add, Goto, Blocking
<1>7. CASE AddFailed(f)
  <2>1. TypeOK'
    BY <1>0, <1>7 DEF AddFailed, Return, Goto, SetCtrl, TypeOK, Points
  <2>2. use[f] = <<Fd(f), Event(f)>> /\ Fd(f) \in program.full
    BY <1>7, WantsEvent DEF BlockInv, AddFailed, Return, Goto, Blocking
  <2>3. \A fd \in Fds \ program.full, ev \in Events : bfd'[fd].fiber[ev] # f
    BY <1>0, <1>7, <2>2, IOAssumption DEF AddFailed, Return, Goto, BlockInv, RegisteredFiberBlocks, Registered,
                      TypeOK
  <2>4. QED
    BY <1>0, <1>7, <2>1, <2>3, Leaves DEF AddFailed, Return, Goto, Blocking
<1>8. CASE Defer(f)
  <2>1. ctrl' = [ctrl EXCEPT ![f] = Deferring(ctrl[f])]
    BY <1>8 DEF Defer, SetCtrl, Deferring
  <2>3. TypeOK'
    BY <1>0, <1>8, <2>1, CtrlSets DEF Defer, Goto, TypeOK, Points
  <2>2. QED
    BY <1>0, <1>8, <2>3, GoesOn DEF Defer, Goto, Blocking
<1>9. CASE Unblock(f)
  <2> DEFINE who == IF bfd[Fd(f)].fiber[Event(f)] = f THEN None ELSE bfd[Fd(f)].fiber[Event(f)]
  <2>1. Fd(f) \in Fds /\ Event(f) \in Events /\ use[f] = <<Fd(f), Event(f)>>
    BY <1>9, WantsEvent DEF BlockInv, Unblock, Return, Goto, Blocking
  <2>2. Assigns(Fd(f), Event(f), who) /\ who \in Fibers \union {None}
    BY <1>0, <1>9, <2>1 DEF Unblock, Assigns, TypeOK, BlockingFd
  <2> HIDE DEF who
  <2>3. /\ bfd' \in [Fds -> BlockingFd]
        /\ \A d \in Fds \ {Fd(f)} : bfd'[d] = bfd[d]
        /\ bfd'[Fd(f)].ready = bfd[Fd(f)].ready
        /\ \A e \in Events : bfd'[Fd(f)].fiber[e] =
                                 IF e = Event(f) THEN who ELSE bfd[Fd(f)].fiber[e]
    BY <1>0, <2>1, <2>2, SetFiber DEF TypeOK
  <2>4. Fd(f) \notin tracked => bfd'[Fd(f)] = NewBlockingFd
    <3> SUFFICES ASSUME Fd(f) \notin tracked PROVE bfd'[Fd(f)] = NewBlockingFd
      OBVIOUS
    <3>1. bfd[Fd(f)] = NewBlockingFd
      BY <1>0, <2>1 DEF TypeOK
    <3>2. who = None
      BY <2>1, <3>1, NewBlockingFdTyped DEF who
    <3>3. [NewBlockingFd EXCEPT !.fiber[Event(f)] = None] = NewBlockingFd
      BY <2>1 DEF NewBlockingFd
    <3>4. QED
      BY <1>0, <2>1, <2>2, <3>1, <3>2, <3>3 DEF Assigns, TypeOK
  <2>5. TypeOK'
    BY <1>0, <1>9, <2>3, <2>4, CtrlOps DEF Unblock, Return, Goto, SetCtrl, TypeOK, Points
  <2>6. ASSUME NEW fd \in Fds \ program.full, NEW ev \in Events
        PROVE  /\ bfd'[fd].fiber[ev] # f
               /\ bfd'[fd].fiber[ev] \in {bfd[fd].fiber[ev], None}
               /\ bfd'[fd].ready \subseteq bfd[fd].ready
    <3>1. Registered(fd, ev)
      BY DEF BlockInv, RegisteredFiberBlocks
    <3>2. CASE fd = Fd(f) /\ ev = Event(f)
      BY <2>1, <2>3, <3>2, IOAssumption DEF who
    <3>3. CASE ~(fd = Fd(f) /\ ev = Event(f))
      BY <2>1, <2>3, <3>1, <3>3, IOAssumption DEF Registered
    <3>4. QED
      BY <3>2, <3>3
  <2>7. QED
    BY <1>0, <1>9, <2>5, <2>6, Leaves DEF Unblock, Return, Goto, Blocking
<1>10. QED
  BY <1>1, <1>2, <1>3, <1>4, <1>5, <1>6, <1>7, <1>8, <1>9 DEF FiberStep

\* Only tracking structs change, and nobody is registered who was not.
LEMMA Unregisters ==
    ASSUME BlockInv, UNCHANGED <<program, at, use>>,
           \A fd \in Fds \ program.full, ev \in Events :
               \/ bfd'[fd].fiber[ev] = None
               \/ /\ bfd'[fd].fiber[ev] = bfd[fd].fiber[ev]
                  /\ ev \in bfd'[fd].ready => ev \in bfd[fd].ready
    PROVE  Wants' /\ Attached'
<1>1. Wants'
  BY DEF BlockInv, Wants
<1>2. ASSUME NEW fd \in Fds \ program.full, NEW ev \in Events PROVE Registered(fd, ev)'
  BY DEF BlockInv, RegisteredFiberBlocks, Registered
<1>3. QED
  BY <1>1, <1>2 DEF Attached

\* One descriptor's events are told.
LEMMA DeliverEffect ==
    ASSUME TypeOK, NEW fd \in Fds, NEW evs \in SUBSET Events, Deliver(fd, evs)
    PROVE  /\ bfd' \in [Fds -> BlockingFd]
           /\ \A d \in Fds : d # fd \/ d \notin tracked => bfd'[d] = bfd[d]
           /\ fd \in tracked =>
                 \A e \in Events :
                     /\ e \in bfd'[fd].ready <=>
                           e \in bfd[fd].ready \/ (e \in evs /\ bfd[fd].fiber[e] = None)
                     /\ bfd'[fd].fiber[e] = IF e \in evs THEN None ELSE bfd[fd].fiber[e]
<1>1. bfd[fd] \in BlockingFd
  BY DEF TypeOK
<1>2. bfd' = IF fd \in tracked THEN [bfd EXCEPT ![fd] = Told(bfd[fd], evs)] ELSE bfd
  BY DEF Deliver, IsTracked
<1>3. QED
  BY <1>1, <1>2, ToldEvents DEF TypeOK

\* And the fibers that are registered for them are woken.
LEMMA DeliverWakes ==
    ASSUME TypeOK, NEW fd \in Fds, NEW evs \in SUBSET Events, Deliver(fd, evs), NEW f \in Fibers
    PROVE  /\ ctrl'[f] \in {ctrl[f], WakeDone(ctrl[f])}
           /\ (fd \in tracked /\ \E ev \in evs : bfd[fd].fiber[ev] = f) =>
                  ctrl'[f] = WakeDone(ctrl[f])
           /\ ctrl' \in [Fibers -> Ctrl]
BY CtrlOps DEF TypeOK, Deliver, IsTracked

\* So does the epoll monitor.
LEMMA BlockInvMonitor ==
    ASSUME BlockInv, UNCHANGED program, MonitorStep
    PROVE  BlockInv'
<1> USE DEF fiberVars, kernelVars
<1>0. TypeOK /\ (TypeOK' /\ Wants' /\ Attached' => BlockInv')
  BY DEF BlockInv, RegisteredFiberBlocks, Attached
<1>1. CASE Harvest
  <2>1. TypeOK'
    BY <1>0, <1>1 DEF Harvest, TypeOK
  <2>2. QED
    BY <1>0, <1>1, <2>1, Unregisters DEF Harvest
<1>2. ASSUME NEW e \in harvested, Deliver(e[1], e[2])
      PROVE  BlockInv'
  <2>1. e[1] \in Fds /\ e[2] \in SUBSET Events
    BY <1>0 DEF TypeOK
  <2>2. bfd' \in [Fds -> BlockingFd] /\ \A fd \in Fds \ tracked : bfd'[fd] = bfd[fd]
    BY <1>0, <1>2, <2>1, DeliverEffect
  <2>3. ctrl' \in [Fibers -> Ctrl]
    BY <1>0, <1>2, <2>1, CtrlOps DEF TypeOK, Deliver
  <2>4. TypeOK'
    BY <1>0, <1>2, <2>2, <2>3 DEF Deliver, TypeOK
  <2>5. \A fd \in Fds, ev \in Events :
          \/ bfd'[fd].fiber[ev] = None
          \/ /\ bfd'[fd].fiber[ev] = bfd[fd].fiber[ev]
             /\ ev \in bfd'[fd].ready => ev \in bfd[fd].ready
    BY <1>0, <1>2, <2>1, DeliverEffect
  <2>6. QED
    BY <1>0, <1>2, <2>4, <2>5, Unregisters DEF Deliver
<1>3. QED
  BY <1>1, <1>2 DEF MonitorStep

\* And what the program and the descriptors do.
LEMMA BlockInvUser ==
    ASSUME BlockInv, UNCHANGED program, UserStep
    PROVE  BlockInv'
<1> USE DEF fiberVars, kernelVars
<1>0. TypeOK /\ (TypeOK' /\ Wants' /\ Attached' => BlockInv')
  BY DEF BlockInv, RegisteredFiberBlocks, Attached
<1>1. ASSUME NEW f \in Fibers, NEW fd \in Fds, NEW ev \in Events, WouldBlock(f, fd, ev)
      PROVE  BlockInv'
  <2>1. TypeOK'
    BY <1>0, <1>1 DEF WouldBlock, Goto, TypeOK, Points
  <2>2. Wants'
    BY <1>0, <1>1 DEF WouldBlock, Goto, TypeOK, Wants, Blocking, BlockInv
  <2>3. Attached'
    BY <1>0, <1>1 DEF WouldBlock, Goto, TypeOK, Attached, Registered, BlockInv,
                      RegisteredFiberBlocks, BlockingFd
  <2>4. QED
    BY <1>0, <2>1, <2>2, <2>3
<1>2. ASSUME NEW f \in Fibers, NEW fd \in Fds, NEW ev \in Events, Succeed(f, fd, ev)
      PROVE  BlockInv'
  <2>1. TypeOK' /\ at' = at
    BY <1>0, <1>2 DEF Succeed, Goto, TypeOK
  <2>2. QED
    BY <1>0, <1>2, <2>1, Unregisters DEF Succeed
<1>3. ASSUME NEW fd \in Fds, FreeFdTracking(fd)
      PROVE  BlockInv'
  <2>1. TypeOK'
    BY <1>0, <1>3, NewBlockingFdTyped DEF FreeFdTracking, TypeOK
  <2>2. \A d \in Fds, ev \in Events :
          bfd'[d].fiber[ev] = None \/ bfd'[d] = bfd[d]
    BY <1>0, <1>3, NewBlockingFdTyped DEF FreeFdTracking, TypeOK
  <2>3. QED
    BY <1>0, <1>3, <2>1, <2>2, Unregisters DEF FreeFdTracking
<1>4. ASSUME NEW fd \in Fds, Close(fd)
      PROVE  BlockInv'
  <2>1. TypeOK'
    BY <1>0, <1>4 DEF Close, TypeOK
  <2>2. QED
    BY <1>0, <1>4, <2>1, Unregisters DEF Close
<1>5. ASSUME NEW fd \in Fds, NEW evs \in SUBSET Events, Arrive(fd, evs)
      PROVE  BlockInv'
  <2>1. TypeOK'
    BY <1>0, <1>5 DEF Arrive, TypeOK
  <2>2. QED
    BY <1>0, <1>5, <2>1, Unregisters DEF Arrive
<1>6. ASSUME NEW f \in Fibers, CancelFiber(f)
      PROVE  BlockInv'
  <2>1. TypeOK'
    BY <1>0, <1>6, CtrlOps DEF CancelFiber, SetCtrl, TypeOK
  <2>2. QED
    BY <1>0, <1>6, <2>1, Unregisters DEF CancelFiber
<1>7. ASSUME NEW f \in Fibers, SetUnintr(f)
      PROVE  BlockInv'
  <2>1. ctrl' = [ctrl EXCEPT ![f] = Masking(ctrl[f])]
    BY <1>7 DEF SetUnintr, SetCtrl, Masking
  <2>2. TypeOK' /\ at' = at
    BY <1>0, <1>7, <2>1, CtrlSets DEF SetUnintr, Goto, TypeOK
  <2>3. QED
    BY <1>0, <1>7, <2>2, Unregisters DEF SetUnintr
<1>8. ASSUME NEW f \in Fibers, End(f)
      PROVE  BlockInv'
  <2>1. NewCtrl \in Ctrl
    BY DEF NewCtrl, Ctrl
  <2>2. TypeOK'
    BY <1>0, <1>8, <2>1 DEF End, Goto, SetCtrl, TypeOK, Points
  <2>3. Wants'
    BY <1>0, <1>8 DEF End, Goto, TypeOK, Wants, Blocking, BlockInv
  <2>4. Attached'
    BY <1>0, <1>8 DEF End, Goto, TypeOK, Attached, Registered, BlockInv,
                      RegisteredFiberBlocks, BlockingFd
  <2>5. QED
    BY <1>0, <2>2, <2>3, <2>4
<1>9. QED
  BY <1>0, <1>1, <1>2, <1>3, <1>4, <1>5, <1>6, <1>7, <1>8, ProgramUses DEF UserStep

\* At first nobody blocks.
LEMMA BlockInvInit == Init => BlockInv
<1> SUFFICES ASSUME Init PROVE BlockInv
  OBVIOUS
<1>1. [NewCtrl EXCEPT !.started = TRUE] \in Ctrl
  BY DEF NewCtrl, Ctrl
<1>2. TypeOK
  BY <1>1, NewBlockingFdTyped DEF Init, TypeOK, Points
<1>3. QED
  BY <1>2, NewBlockingFdTyped DEF Init, BlockInv, RegisteredFiberBlocks, Registered, Wants, Blocking

\* Every step keeps the names right.
LEMMA BlockInvStep == BlockInv /\ [Next]_vars => BlockInv'
<1> SUFFICES ASSUME BlockInv, [Next]_vars PROVE BlockInv'
  OBVIOUS
<1>1. CASE Next
  BY <1>1, BlockInvFiber, BlockInvMonitor, BlockInvUser DEF Next
<1>2. CASE UNCHANGED vars
  BY <1>2 DEF vars, fiberVars, kernelVars, BlockInv, RegisteredFiberBlocks, TypeOK, Registered,
              Wants
<1>3. QED
  BY <1>1, <1>2

\* The tracking structs name only fibers that are inside lwt_io_block for that event: the
\* monitor wakes no fiber for what it no longer waits for, and none that is gone.
THEOREM TrackingNamesBlockers == Spec => []RegisteredFiberBlocks
<1>1. BlockInv => RegisteredFiberBlocks
  BY DEF BlockInv
<1>2. QED
  BY <1>1, BlockInvInit, BlockInvStep, PTL DEF Spec

-----------------------------------------------------------------------------
(* The way to sleep: PathInv.                                              *)

\* What a step of a fiber inside lwt_io_block does to the fibers.
LEMMA FiberMoves ==
    ASSUME BlockInv, NEW f \in Fibers, FiberStep(f)
    PROVE  /\ at[f] \in Blocking /\ ~ctrl[f].deferred
           /\ \A g \in Fibers \ {f} : at'[g] = at[g] /\ use'[g] = use[g] /\ ctrl'[g] = ctrl[g]
           /\ use'[f] \in {use[f], None}
           /\ use'[f] = use[f] \/ at'[f] = "user"
           /\ ctrl'[f].deferred => Defer(f) /\ ~ctrl[f].done
           /\ closing' = closing
           /\ tracked' = tracked \/ BlockFirst(f)
<1> USE DEF kernelVars, Blocking, Goto, SetCtrl
<1>1. /\ ctrl \in [Fibers -> Ctrl] /\ at \in [Fibers -> Points]
      /\ use \in [Fibers -> (Fds \X Events) \union {None}]
  BY DEF BlockInv, RegisteredFiberBlocks, TypeOK
<1>2. CASE BlockInterrupted(f)
  BY <1>1, <1>2, CtrlOps DEF BlockInterrupted, Return
<1>3. CASE BlockFirst(f)
  BY <1>1, <1>3, Forgets DEF BlockFirst
<1>4. CASE BlockReady(f)
  BY <1>1, <1>4, Forgets DEF BlockReady, Return
<1>5. CASE BlockLater(f)
  BY <1>1, <1>5, Forgets DEF BlockLater
<1>6. CASE BlockTaken(f)
  BY <1>1, <1>6 DEF BlockTaken, Return
<1>7. CASE Add(f)
  BY <1>1, <1>7 DEF Add
<1>8. CASE AddFailed(f)
  BY <1>1, <1>8 DEF AddFailed, Return
<1>9. CASE Defer(f)
  <2>1. ctrl' = [ctrl EXCEPT ![f] = Deferring(ctrl[f])]
    BY <1>9 DEF Defer, Deferring
  <2>2. QED
    BY <1>1, <1>9, <2>1, CtrlSets DEF Defer
<1>10. CASE Unblock(f)
  BY <1>1, <1>10, CtrlOps DEF Unblock, Return
<1>11. QED
  BY <1>2, <1>3, <1>4, <1>5, <1>6, <1>7, <1>8, <1>9, <1>10 DEF FiberStep

\* A fiber that is not the one that moves remains registered.
LEMMA StaysRegistered ==
    ASSUME BlockInv, NEW f \in Fibers, FiberStep(f), NEW g \in Fibers \ {f},
           NEW fd \in Fds, NEW ev \in Events, bfd[fd].fiber[ev] = g
    PROVE  bfd'[fd].fiber[ev] = g
<1> USE DEF kernelVars, fiberVars
<1>1. TypeOK
  BY DEF BlockInv, RegisteredFiberBlocks
<1>2. at[f] \in Blocking
  BY FiberMoves
<1>3. Fd(f) \in Fds /\ Event(f) \in Events
  BY <1>2, WantsEvent DEF BlockInv
<1>4. CASE BlockFirst(f)
  <2>1. StartsTracking(Fd(f), Event(f), f) /\ Fd(f) \notin tracked
    BY <1>4 DEF BlockFirst, StartsTracking
  <2>2. fd # Fd(f)
    BY <1>1, <2>1, NewBlockingFdTyped, IOAssumption DEF TypeOK
  <2>3. QED
    BY <1>1, <1>3, <2>1, <2>2, FirstFiber DEF TypeOK
<1>5. CASE BlockReady(f)
  <2>1. TakesMark(Fd(f), Event(f))
    BY <1>5 DEF BlockReady, TakesMark
  <2>2. QED
    BY <1>1, <1>3, <2>1, TakeMark DEF TypeOK
<1>6. CASE BlockLater(f)
  <2>1. Assigns(Fd(f), Event(f), f) /\ bfd[Fd(f)].fiber[Event(f)] = None
    BY <1>6 DEF BlockLater, Assigns
  <2>2. QED
    BY <1>1, <1>3, <2>1, SetFiber, IOAssumption DEF TypeOK
<1>7. CASE Unblock(f)
  <2> DEFINE who == IF bfd[Fd(f)].fiber[Event(f)] = f THEN None ELSE bfd[Fd(f)].fiber[Event(f)]
  <2>1. Assigns(Fd(f), Event(f), who) /\ who \in Fibers \union {None}
    BY <1>1, <1>3, <1>7 DEF Unblock, Assigns, TypeOK, BlockingFd
  <2>2. fd = Fd(f) /\ ev = Event(f) => who = g
    OBVIOUS
  <2> HIDE DEF who
  <2>3. QED
    BY <1>1, <1>3, <2>1, <2>2, SetFiber DEF TypeOK
<1>8. CASE UNCHANGED bfd
  BY <1>8
<1>9. QED
  BY <1>4, <1>5, <1>6, <1>7, <1>8
  DEF FiberStep, BlockInterrupted, BlockTaken, Add, AddFailed, Defer

\* A step of a fiber keeps the path to it.
LEMMA PathInvFiber ==
    ASSUME BlockInv, PathInv, UNCHANGED program, NEW f \in Fibers, FiberStep(f)
    PROVE  PathInv'
<1> USE DEF kernelVars, fiberVars
<1>1. TypeOK /\ Wants
  BY DEF BlockInv, RegisteredFiberBlocks
<1>2. Fd(f) \in Fds /\ Event(f) \in Events /\ at[f] \in Blocking
  BY <1>1, WantsEvent, FiberMoves
<1>3. SleepsInDefer'
  BY <1>1, FiberMoves DEF Defer, Goto, PathInv, SleepsInDefer, TypeOK
<1>4. UntoldIsRegistered'
  <2> SUFFICES ASSUME NEW g \in Fibers, Untold(g)' PROVE (bfd[Fd(g)].fiber[Event(g)] = g)'
    BY DEF UntoldIsRegistered
  <2>1. CASE g # f
    <3>1. Untold(g) /\ use'[g] = use[g]
      BY <2>1, FiberMoves DEF Untold
    <3>2. at[g] \in Blocking
      BY <3>1 DEF PathInv, SleepsInDefer, Untold, Blocking
    <3>3. Fd(g) \in Fds /\ Event(g) \in Events /\ bfd[Fd(g)].fiber[Event(g)] = g
      BY <1>1, <3>1, <3>2, WantsEvent DEF PathInv, UntoldIsRegistered
    <3>4. bfd'[Fd(g)].fiber[Event(g)] = g
      BY <2>1, <3>3, StaysRegistered
    <3>5. QED
      BY <3>1, <3>4 DEF Fd, Event
  <2>2. CASE g = f
    <3>1. at'[f] \in {"add", "defer", "woken"}
      BY <1>3, <2>2 DEF Untold, SleepsInDefer
    <3>2. use'[f] = use[f]
      BY <3>1, FiberMoves
    <3>3. CASE BlockFirst(f)
      <4>1. StartsTracking(Fd(f), Event(f), f)
        BY <3>3 DEF BlockFirst, StartsTracking
      <4>2. bfd'[Fd(f)].fiber[Event(f)] = f
        BY <1>1, <1>2, <4>1, FirstFiber DEF TypeOK
      <4>3. QED
        BY <2>2, <3>2, <4>2 DEF Fd, Event
    <3>4. CASE BlockLater(f)
      <4>1. Assigns(Fd(f), Event(f), f)
        BY <3>4 DEF BlockLater, Assigns
      <4>2. bfd'[Fd(f)].fiber[Event(f)] = f
        BY <1>1, <1>2, <4>1, SetFiber DEF TypeOK
      <4>3. QED
        BY <2>2, <3>2, <4>2 DEF Fd, Event
    <3>5. CASE Add(f)
      <4>1. Untold(f) /\ bfd' = bfd
        BY <1>1, <2>2, <3>5 DEF Add, Goto, Untold, TypeOK
      <4>2. QED
        BY <2>2, <3>2, <4>1 DEF PathInv, UntoldIsRegistered, Fd, Event
    <3>6. CASE Defer(f)
      <4>1. ctrl'[f].deferred
        BY <1>1, <2>2, <3>6 DEF Untold, Defer, Goto, TypeOK
      <4>2. Untold(f) /\ bfd' = bfd
        BY <3>6, <4>1, FiberMoves DEF Defer, Goto, Untold
      <4>3. QED
        BY <2>2, <3>2, <4>2 DEF PathInv, UntoldIsRegistered, Fd, Event
    <3>7. QED
      BY <1>1, <3>1, <3>3, <3>4, <3>5, <3>6
      DEF FiberStep, BlockInterrupted, BlockReady, BlockTaken, AddFailed, Unblock, Return, Goto,
          TypeOK
  <2>3. QED
    BY <2>1, <2>2
<1>5. \A fd \in Fds : UsersOf(fd)' \subseteq UsersOf(fd)
  BY FiberMoves DEF UsersOf, Fd
<1>6. ClosingIsUnused'
  <2>1. Fd(f) \notin closing
    BY <1>1, <1>2, IOAssumption DEF PathInv, ClosingIsUnused, UsersOf, TypeOK, Wants
  <2>2. tracked' \subseteq tracked \union {Fd(f)} /\ closing' = closing
    BY FiberMoves DEF BlockFirst
  <2>3. QED
    BY <1>1, <1>5, <2>1, <2>2 DEF PathInv, ClosingIsUnused, TypeOK
<1>7. TrackedIsRegistered'
  <2> SUFFICES ASSUME NEW fd \in tracked' \ program.full
               PROVE  fd \in registered' \/ Adding(fd)'
    BY DEF TrackedIsRegistered
  <2>1. registered \subseteq registered'
    BY DEF FiberStep, BlockInterrupted, BlockFirst, BlockReady, BlockLater, BlockTaken, Add,
           AddFailed, Defer, Unblock
  <2>2. CASE fd \in tracked /\ ~ \E g \in UsersOf(fd) \ {f} : at[g] = "add"
    <3>1. fd \in registered \/ (at[f] = "add" /\ Fd(f) = fd)
      BY <2>2 DEF PathInv, TrackedIsRegistered, Adding, UsersOf
    <3>2. CASE at[f] = "add" /\ Fd(f) = fd
      BY <2>2, <3>2
      DEF FiberStep, BlockInterrupted, BlockFirst, BlockReady, BlockLater, BlockTaken, Add,
          AddFailed, Defer, Unblock, Return, Goto
    <3>3. QED
      BY <2>1, <3>1, <3>2
  <2>3. CASE \E g \in UsersOf(fd) \ {f} : at[g] = "add"
    BY <2>3, FiberMoves DEF Adding, UsersOf, Fd
  <2>4. CASE fd \notin tracked
    <3>1. BlockFirst(f) /\ fd = Fd(f)
      BY <2>4, FiberMoves DEF BlockFirst
    <3>2. at'[f] = "add" /\ use' = use /\ use[f] # None
      BY <1>1, <1>2, <3>1, IOAssumption DEF BlockFirst, Goto, TypeOK, Wants
    <3>3. QED
      BY <3>1, <3>2 DEF Adding, UsersOf, Fd
  <2>5. QED
    BY <2>2, <2>3, <2>4
<1>8. QED
  BY <1>3, <1>4, <1>6, <1>7 DEF PathInv

\* A step that moves no fiber.
LEMMA PathInvApart ==
    ASSUME BlockInv, PathInv, UNCHANGED <<program, at, use>>,
           \A f \in Fibers : /\ ctrl'[f].deferred => ctrl[f].deferred
                             /\ Untold(f)' => bfd'[Fd(f)].fiber[Event(f)] = bfd[Fd(f)].fiber[Event(f)],
           closing' \subseteq closing, tracked' \subseteq tracked,
           \A fd \in tracked' : fd \in registered => fd \in registered',
           \A f \in Fibers : ctrl'[f].done \/ ~ctrl[f].done \/ at[f] \notin {"add", "defer"}
    PROVE  PathInv'
<1>1. SleepsInDefer'
  BY DEF PathInv, SleepsInDefer
<1>2. \A f \in Fibers : Untold(f)' => Untold(f)
  BY DEF Untold
<1>3. UntoldIsRegistered'
  BY <1>2 DEF PathInv, UntoldIsRegistered, Fd, Event
<1>4. ClosingIsUnused'
  BY DEF PathInv, ClosingIsUnused, UsersOf, Fd
<1>5. TrackedIsRegistered'
  BY DEF PathInv, TrackedIsRegistered, Adding, UsersOf, Fd
<1>6. QED
  BY <1>1, <1>3, <1>4, <1>5 DEF PathInv

\* Who was not told is named by the tracking struct.
LEMMA UntoldWants ==
    ASSUME BlockInv, PathInv, NEW f \in Fibers, Untold(f)
    PROVE  /\ Fd(f) \in Fds /\ Event(f) \in Events /\ use[f] # None
           /\ bfd[Fd(f)].fiber[Event(f)] = f
<1>1. at[f] \in Blocking
  BY DEF PathInv, SleepsInDefer, Untold, Blocking
<1>2. Fd(f) \in Fds /\ Event(f) \in Events
  BY <1>1, WantsEvent DEF BlockInv
<1>3. QED
  BY <1>1, <1>2, IOAssumption DEF BlockInv, Wants, PathInv, UntoldIsRegistered

\* So does the epoll monitor.
LEMMA PathInvMonitor ==
    ASSUME BlockInv, PathInv, UNCHANGED program, MonitorStep
    PROVE  PathInv'
<1> USE DEF kernelVars, fiberVars
<1>1. CASE Harvest
  BY <1>1, PathInvApart DEF Harvest
<1>2. ASSUME NEW e \in harvested, Deliver(e[1], e[2])
      PROVE  PathInv'
  <2> DEFINE fd == e[1]
             evs == e[2]
  <2>1. TypeOK /\ fd \in Fds /\ evs \in SUBSET Events
    BY DEF TypeOK, BlockInv, RegisteredFiberBlocks
  <2>2. \A f \in Fibers : ctrl'[f] \in {ctrl[f], WakeDone(ctrl[f])}
    BY <1>2, <2>1, DeliverWakes
  <2>3. ASSUME NEW f \in Fibers
        PROVE  /\ ctrl'[f].deferred => ctrl[f].deferred
               /\ ctrl'[f].done \/ ~ctrl[f].done
    BY <2>1, <2>2 DEF WakeDone, TypeOK, Ctrl
  <2>4. ASSUME NEW f \in Fibers, Untold(f)'
        PROVE  bfd'[Fd(f)].fiber[Event(f)] = bfd[Fd(f)].fiber[Event(f)]
    <3>1. Untold(f)
      BY <1>2, <2>3, <2>4 DEF Untold, Deliver
    <3>2. Fd(f) \in Fds /\ Event(f) \in Events /\ bfd[Fd(f)].fiber[Event(f)] = f
      BY <3>1, UntoldWants
    <3>3. CASE fd = Fd(f) /\ fd \in tracked /\ Event(f) \in evs
      <4>1. ctrl'[f] = WakeDone(ctrl[f])
        BY <1>2, <2>1, <3>2, <3>3, DeliverWakes
      <4>2. ~Untold(f)'
        <5>1. ctrl[f] \in Ctrl /\ at' = at
          BY <1>2, <2>1 DEF Deliver, TypeOK
        <5>2. at[f] \in {"add", "defer"} => ~ctrl[f].deferred
          BY DEF PathInv, SleepsInDefer
        <5>3. QED
          BY <4>1, <5>1, <5>2, CtrlOps DEF Untold
      <4>3. QED
        BY <2>4, <4>2
    <3>4. CASE ~(fd = Fd(f) /\ fd \in tracked /\ Event(f) \in evs)
      BY <1>2, <2>1, <3>2, <3>4, DeliverEffect
    <3>5. QED
      BY <3>3, <3>4
  <2>5. QED
    BY <1>2, <2>3, <2>4, PathInvApart DEF Deliver
<1>3. QED
  BY <1>1, <1>2 DEF MonitorStep

\* And what the program and the descriptors do.
LEMMA PathInvUser ==
    ASSUME BlockInv, PathInv, UNCHANGED program, UserStep
    PROVE  PathInv'
<1> USE DEF kernelVars, fiberVars
<1>0. TypeOK /\ Wants
  BY DEF BlockInv, RegisteredFiberBlocks
<1>1. ASSUME NEW f \in Fibers, NEW fd \in Fds, NEW ev \in Events, WouldBlock(f, fd, ev)
      PROVE  PathInv'
  <2>1. /\ at[f] = "user" /\ at' = [at EXCEPT ![f] = "again"] /\ ~ctrl[f].deferred
        /\ use' = [use EXCEPT ![f] = <<fd, ev>>] /\ UNCHANGED <<ctrl, bfd, closing, tracked>>
        /\ registered' = registered /\ fd \notin closing
    BY <1>1 DEF WouldBlock, Goto
  <2>2. SleepsInDefer'
    BY <1>0, <2>1 DEF PathInv, SleepsInDefer, TypeOK
  <2>3. UntoldIsRegistered'
    BY <1>0, <2>1 DEF PathInv, UntoldIsRegistered, Untold, TypeOK, Fd, Event
  <2>4. ClosingIsUnused'
    BY <1>0, <2>1 DEF PathInv, ClosingIsUnused, UsersOf, TypeOK, Fd
  <2>5. TrackedIsRegistered'
    BY <1>0, <2>1 DEF PathInv, TrackedIsRegistered, Adding, UsersOf, TypeOK, Fd
  <2>6. QED
    BY <2>2, <2>3, <2>4, <2>5 DEF PathInv
<1>2. ASSUME NEW f \in Fibers, NEW fd \in Fds, NEW ev \in Events, Succeed(f, fd, ev)
      PROVE  PathInv'
  <2>1. at' = at
    BY <1>0, <1>2 DEF Succeed, Goto, TypeOK
  <2>2. QED
    BY <1>2, <2>1, PathInvApart DEF Succeed
<1>3. ASSUME NEW fd \in Fds, FreeFdTracking(fd)
      PROVE  PathInv'
  <2>1. SleepsInDefer'
    BY <1>3 DEF FreeFdTracking, PathInv, SleepsInDefer
  <2>2. UntoldIsRegistered'
    <3> SUFFICES ASSUME NEW f \in Fibers, Untold(f)' PROVE (bfd[Fd(f)].fiber[Event(f)] = f)'
      BY DEF UntoldIsRegistered
    <3>1. Untold(f)
      BY <1>3 DEF FreeFdTracking, Untold
    <3>2. Fd(f) \in Fds \ {fd} /\ bfd[Fd(f)].fiber[Event(f)] = f
      BY <1>3, <3>1, UntoldWants DEF FreeFdTracking, UsersOf
    <3>3. QED
      BY <1>0, <1>3, <3>2 DEF FreeFdTracking, Fd, Event, TypeOK
  <2>3. ClosingIsUnused'
    BY <1>3 DEF FreeFdTracking, PathInv, ClosingIsUnused, UsersOf, Fd
  <2>4. TrackedIsRegistered'
    BY <1>3 DEF FreeFdTracking, PathInv, TrackedIsRegistered, Adding, UsersOf, Fd
  <2>5. QED
    BY <2>1, <2>2, <2>3, <2>4 DEF PathInv
<1>4. ASSUME NEW fd \in Fds, Close(fd)
      PROVE  PathInv'
  <2>1. fd \notin tracked
    BY <1>4 DEF Close, PathInv, ClosingIsUnused
  <2>2. QED
    BY <1>4, <2>1, PathInvApart DEF Close
<1>5. ASSUME NEW fd \in Fds, NEW evs \in SUBSET Events, Arrive(fd, evs)
      PROVE  PathInv'
  BY <1>5, PathInvApart DEF Arrive
<1>6. ASSUME NEW f \in Fibers, CancelFiber(f)
      PROVE  PathInv'
  <2>1. \A g \in Fibers : (ctrl'[g].deferred => ctrl[g].deferred) /\ ctrl'[g].done = ctrl[g].done
    BY <1>0, <1>6, CtrlOps DEF CancelFiber, SetCtrl, TypeOK
  <2>2. QED
    BY <1>6, <2>1, PathInvApart DEF CancelFiber
<1>7. ASSUME NEW f \in Fibers, SetUnintr(f)
      PROVE  PathInv'
  <2>1. ctrl' = [ctrl EXCEPT ![f] = Masking(ctrl[f])]
    BY <1>7 DEF SetUnintr, SetCtrl, Masking
  <2>2. \A g \in Fibers : ctrl'[g].deferred = ctrl[g].deferred /\ ctrl'[g].done = ctrl[g].done
    BY <1>0, <2>1, CtrlSets DEF TypeOK
  <2>3. at' = at
    BY <1>0, <1>7 DEF SetUnintr, Goto, TypeOK
  <2>4. QED
    BY <1>7, <2>2, <2>3, PathInvApart DEF SetUnintr
<1>8. ASSUME NEW f \in Fibers, End(f)
      PROVE  PathInv'
  <2>1. /\ at[f] = "user" /\ at' = [at EXCEPT ![f] = "ended"] /\ ctrl' = [ctrl EXCEPT ![f] = NewCtrl]
        /\ UNCHANGED <<use, bfd, closing, tracked, registered>> /\ ~NewCtrl.deferred
    BY <1>8 DEF End, Goto, SetCtrl, NewCtrl
  <2>2. SleepsInDefer'
    BY <1>0, <2>1 DEF PathInv, SleepsInDefer, TypeOK
  <2>3. UntoldIsRegistered'
    BY <1>0, <2>1 DEF PathInv, UntoldIsRegistered, Untold, TypeOK, Fd, Event
  <2>4. ClosingIsUnused'
    BY <1>0, <2>1 DEF PathInv, ClosingIsUnused, UsersOf, TypeOK, Fd
  <2>5. TrackedIsRegistered'
    BY <1>0, <2>1 DEF PathInv, TrackedIsRegistered, Adding, UsersOf, TypeOK, Fd
  <2>6. QED
    BY <2>2, <2>3, <2>4, <2>5 DEF PathInv
<1>9. QED
  BY <1>0, <1>1, <1>2, <1>3, <1>4, <1>5, <1>6, <1>7, <1>8, ProgramUses DEF UserStep

\* Every step keeps the path.
LEMMA PathInvStep == BlockInv /\ PathInv /\ [Next]_vars => PathInv'
<1> SUFFICES ASSUME BlockInv, PathInv, [Next]_vars PROVE PathInv'
  OBVIOUS
<1>1. CASE Next
  BY <1>1, PathInvFiber, PathInvMonitor, PathInvUser DEF Next
<1>2. CASE UNCHANGED vars
  BY <1>2, PathInvApart DEF vars, fiberVars, kernelVars
<1>3. QED
  BY <1>1, <1>2

\* There is no path at first.
LEMMA PathInvInit == Init => PathInv
BY DEF Init, PathInv, SleepsInDefer, UntoldIsRegistered, Untold, ClosingIsUnused,
       TrackedIsRegistered, NewCtrl

-----------------------------------------------------------------------------
(* ReadinessNotLost: NewsInv.                                              *)

\* What is on its way when a fiber inside lwt_io_block moves still is.
LEMMA PendingLasts ==
    ASSUME BlockInv, NEW f \in Fibers, FiberStep(f), UNCHANGED program,
           NEW fd \in Fds \ program.full, NEW ev \in available[fd], Pending(fd, ev)
    PROVE  Pending(fd, ev)'
<1>1. harvested' = harvested /\ listed \subseteq listed'
  BY DEF FiberStep, BlockInterrupted, BlockFirst, BlockReady, BlockLater, BlockTaken, Add,
         AddFailed, Defer, Unblock, kernelVars
<1>2. CASE fd \in listed \/ \E e \in harvested : e[1] = fd /\ ev \in e[2]
  BY <1>1, <1>2 DEF Pending
<1>3. ASSUME NEW g \in UsersOf(fd), at[g] = "add"
      PROVE  Pending(fd, ev)'
  <2>1. CASE g # f
    BY <1>3, <2>1, FiberMoves DEF Pending, UsersOf, Fd
  <2>2. CASE g = f
    <3>1. Fd(f) = fd
      BY <2>2 DEF UsersOf
    <3>2. Add(f)
      BY <1>3, <2>2, <3>1
      DEF FiberStep, BlockInterrupted, BlockFirst, BlockReady, BlockLater, BlockTaken,
          AddFailed, Defer, Unblock, Return, Goto
    <3>3. QED
      BY <3>1, <3>2 DEF Add, Pending
  <2>3. QED
    BY <2>1, <2>2
<1>4. QED
  BY <1>2, <1>3 DEF Pending

\* A fiber that moves does not register another, and takes a mark only for itself.
LEMMA OthersInTracking ==
    ASSUME BlockInv, NEW f \in Fibers, FiberStep(f), NEW g \in Fibers \ {f},
           NEW fd \in tracked, NEW ev \in Events
    PROVE  /\ bfd'[fd].fiber[ev] = g => bfd[fd].fiber[ev] = g
           /\ (ev \in bfd[fd].ready /\ use[f] # <<fd, ev>>) => ev \in bfd'[fd].ready
<1> USE DEF kernelVars, fiberVars
<1>1. TypeOK /\ fd \in Fds /\ at[f] \in Blocking
  BY FiberMoves DEF BlockInv, RegisteredFiberBlocks, TypeOK
<1>3. Fd(f) \in Fds /\ Event(f) \in Events /\ use[f] = <<Fd(f), Event(f)>>
  BY <1>1, WantsEvent DEF BlockInv
<1>4. CASE BlockFirst(f)
  <2>1. StartsTracking(Fd(f), Event(f), f) /\ Fd(f) # fd
    BY <1>4 DEF BlockFirst, StartsTracking
  <2>2. QED
    BY <1>1, <1>3, <2>1, FirstFiber DEF TypeOK
<1>5. CASE BlockReady(f)
  <2>1. TakesMark(Fd(f), Event(f))
    BY <1>5 DEF BlockReady, TakesMark
  <2>2. QED
    BY <1>1, <1>3, <2>1, TakeMark DEF TypeOK
<1>6. CASE BlockLater(f)
  <2>1. Assigns(Fd(f), Event(f), f)
    BY <1>6 DEF BlockLater, Assigns
  <2>2. QED
    BY <1>1, <1>3, <2>1, SetFiber DEF TypeOK
<1>7. CASE Unblock(f)
  <2> DEFINE who == IF bfd[Fd(f)].fiber[Event(f)] = f THEN None ELSE bfd[Fd(f)].fiber[Event(f)]
  <2>1. Assigns(Fd(f), Event(f), who) /\ who \in Fibers \union {None}
    BY <1>1, <1>3, <1>7 DEF Unblock, Assigns, TypeOK, BlockingFd
  <2>2. who = g => bfd[Fd(f)].fiber[Event(f)] = g
    BY IOAssumption
  <2> HIDE DEF who
  <2>3. QED
    BY <1>1, <1>3, <2>1, <2>2, SetFiber DEF TypeOK
<1>8. CASE UNCHANGED bfd
  BY <1>8
<1>9. QED
  BY <1>4, <1>5, <1>6, <1>7, <1>8
  DEF FiberStep, BlockInterrupted, BlockTaken, Add, AddFailed, Defer

\* A step of a fiber keeps the news of it, or it goes on.
LEMMA NewsInvFiber ==
    ASSUME BlockInv, PathInv, NewsInv, UNCHANGED program, NEW f \in Fibers, FiberStep(f)
    PROVE  NewsInv'
<1> USE DEF kernelVars, fiberVars
<1>1. TypeOK /\ Wants
  BY DEF BlockInv, RegisteredFiberBlocks
<1>2. Fd(f) \in Fds /\ Event(f) \in Events /\ at[f] \in Blocking
  BY <1>1, WantsEvent, FiberMoves
<1>3. available' = available /\ tracked \subseteq tracked'
  BY DEF FiberStep, BlockInterrupted, BlockFirst, BlockReady, BlockLater, BlockTaken, Add,
         AddFailed, Defer, Unblock
<1>4. CASE program.contend
  BY <1>4 DEF NewsInv, OneWants, NewsArrives
<1>5. CASE ~program.contend
  <2>1. \A g \in Fibers, h \in Fibers : at[g] \in Blocking /\ use[h] = use[g] => g = h
    BY <1>5 DEF NewsInv, OneWants
  <2>2. OneWants'
    <3> SUFFICES ASSUME NEW g \in Fibers, NEW h \in Fibers, at'[g] \in Blocking, use'[h] = use'[g]
                 PROVE  g = h
      BY DEF OneWants
    <3>1. use'[g] = use[g] /\ at[g] \in Blocking /\ use[g] # None
      BY <1>1, <1>2, FiberMoves, IOAssumption DEF Wants, Blocking
    <3>2. use'[h] = use[h]
      BY <3>1, FiberMoves
    <3>3. QED
      BY <2>1, <3>1, <3>2
  <2>3. ASSUME NEW g \in Fibers, Awaits(g)' PROVE HasNews(g)'
    <3> DEFINE fd == Fd(g)
               ev == Event(g)
    <3>0. /\ Awaits(g) => HasNews(g)
          /\ at'[g] \in Blocking /\ fd' \in tracked' \ program.full /\ ev' \in available'[fd']
          /\ at'[g] = "again" \/ bfd'[fd'].fiber[ev'] = g
      BY <1>5, <2>3 DEF NewsInv, NewsArrives, Awaits
    <3>1. use'[g] = use[g] /\ fd' = fd /\ ev' = ev
      BY <3>0, FiberMoves DEF Blocking, Fd, Event
    <3>2. at[g] \in Blocking
      BY <1>2, <3>0, FiberMoves
    <3>3. fd \in Fds /\ ev \in Events /\ use[g] = <<fd, ev>> /\ use[g] # None
      BY <1>1, <3>2, WantsEvent, IOAssumption DEF Wants
    <3>4. ASSUME Pending(fd, ev) PROVE Pending(fd, ev)'
      BY <1>3, <3>0, <3>1, <3>3, <3>4, PendingLasts
    <3>5. CASE fd \notin tracked
      <4>1. BlockFirst(f) /\ fd = Fd(f)
        BY <3>0, <3>1, <3>5, FiberMoves DEF BlockFirst
      <4>2. at'[f] = "add" /\ use'[f] = use[f] /\ use[f] # None
        BY <1>1, <1>2, <4>1, IOAssumption DEF BlockFirst, Goto, TypeOK, Wants
      <4>3. f \in UsersOf(fd)' /\ at'[f] = "add"
        BY <3>1, <4>1, <4>2 DEF UsersOf, Fd
      <4>4. QED
        BY <3>1, <4>3 DEF HasNews, Pending
    <3>6. CASE fd \in tracked /\ g # f
      <4>1. at'[g] = at[g] /\ use[f] # <<fd, ev>>
        BY <2>1, <3>2, <3>3, <3>6, FiberMoves
      <4>2. at[g] = "again" \/ bfd[fd].fiber[ev] = g
        BY <3>0, <3>1, <3>3, <3>6, <4>1, OthersInTracking
      <4>3. (at[g] = "again" /\ ev \in bfd[fd].ready) \/ Pending(fd, ev)
        BY <1>3, <3>0, <3>1, <3>2, <3>6, <4>2 DEF Awaits, HasNews
      <4>4. QED
        BY <3>1, <3>3, <3>4, <3>6, <4>1, <4>3, OthersInTracking DEF HasNews
    <3>7. CASE fd \in tracked /\ g = f
      <4>1. CASE BlockLater(f)
        <5>1. at[f] = "again" /\ ev \notin bfd[fd].ready
          BY <3>7, <4>1 DEF BlockLater, Goto
        <5>2. QED
          BY <1>3, <3>0, <3>1, <3>2, <3>4, <3>7, <5>1 DEF Awaits, HasNews
      <4>2. CASE Add(f)
        BY <1>3, <3>0, <3>1, <3>7, <4>2 DEF Add, HasNews, Pending
      <4>3. CASE Defer(f)
        <5>1. at[f] = "defer" /\ bfd[fd].fiber[ev] = f
          BY <1>1, <3>0, <3>1, <3>7, <4>3 DEF Defer, Goto, TypeOK
        <5>2. QED
          BY <1>3, <3>0, <3>1, <3>2, <3>4, <3>7, <5>1 DEF Awaits, HasNews
      <4>4. QED
        BY <1>1, <3>0, <3>7, <4>1, <4>2, <4>3
        DEF FiberStep, BlockInterrupted, BlockFirst, BlockReady, BlockTaken, AddFailed, Unblock,
            Return, Goto, TypeOK, Blocking
    <3>8. QED
      BY <3>5, <3>6, <3>7
  <2>4. QED
    BY <2>2, <2>3 DEF NewsInv, NewsArrives
<1>6. QED
  BY <1>4, <1>5

\* A step that moves no fiber.
LEMMA NewsInvApart ==
    ASSUME NewsInv, UNCHANGED <<program, at, use>>,
           ASSUME ~program.contend, NEW f \in Fibers, Awaits(f)', Awaits(f) => HasNews(f)
           PROVE  HasNews(f)'
    PROVE  NewsInv'
BY DEF NewsInv, OneWants, NewsArrives

\* The epoll monitor hands it on.
LEMMA NewsInvMonitor ==
    ASSUME BlockInv, PathInv, NewsInv, UNCHANGED program, MonitorStep
    PROVE  NewsInv'
<1> USE DEF kernelVars, fiberVars
<1>0. TypeOK /\ Wants
  BY DEF BlockInv, RegisteredFiberBlocks
<1>1. CASE Harvest
  <2>1. UNCHANGED <<program, at, use, tracked, bfd, available>>
    BY <1>1 DEF Harvest
  <2>2. ASSUME NEW fd \in Fds, NEW ev \in available[fd], Pending(fd, ev)
        PROVE  Pending(fd, ev)'
    <3>1. CASE fd \in listed
      <4>1. <<fd, available[fd]>> \in harvested'
        BY <1>1, <3>1 DEF Harvest
      <4>2. QED
        BY <4>1 DEF Pending
    <3>2. CASE \E f \in UsersOf(fd) : at[f] = "add"
      BY <2>1, <3>2 DEF Pending, UsersOf, Fd
    <3>3. QED
      BY <1>1, <2>2, <3>1, <3>2 DEF Harvest, Pending
  <2>3. ASSUME NEW f \in Fibers, Awaits(f)', Awaits(f) => HasNews(f) PROVE HasNews(f)'
    BY <1>0, <2>1, <2>2, <2>3 DEF TypeOK, Awaits, HasNews, Fd, Event
  <2>4. QED
    BY <2>1, <2>3, NewsInvApart
<1>2. ASSUME NEW e \in harvested, Deliver(e[1], e[2])
      PROVE  NewsInv'
  <2> DEFINE fd == e[1]
             evs == e[2]
  <2>1. fd \in Fds /\ evs \in SUBSET Events /\ e = <<fd, evs>>
    BY <1>0 DEF TypeOK
  <2>2. UNCHANGED <<at, use, tracked, available, listed>> /\ harvested' = harvested \ {e}
    BY <1>2, <2>1 DEF Deliver
  <2>3. ASSUME ~program.contend, NEW f \in Fibers, Awaits(f)', Awaits(f) => HasNews(f)
        PROVE  HasNews(f)'
    <3>1. /\ at[f] \in Blocking /\ Fd(f) \in tracked \ program.full
          /\ Event(f) \in available[Fd(f)]
          /\ at[f] = "again" \/ bfd'[Fd(f)].fiber[Event(f)] = f
      BY <2>2, <2>3 DEF Awaits, Fd, Event
    <3>2. Fd(f) \in Fds /\ Event(f) \in Events /\ use[f] = <<Fd(f), Event(f)>>
      BY <1>0, <3>1, WantsEvent
    <3>3. /\ bfd'[Fd(f)].fiber[Event(f)] \in {None, bfd[Fd(f)].fiber[Event(f)]}
          /\ Event(f) \in bfd[Fd(f)].ready => Event(f) \in bfd'[Fd(f)].ready
      BY <1>0, <1>2, <2>1, <3>1, <3>2, DeliverEffect
    <3>4. Awaits(f)
      BY <3>1, <3>3, IOAssumption DEF Awaits
    <3>5. CASE fd = Fd(f) /\ Event(f) \in evs
      <4>1. bfd'[Fd(f)].fiber[Event(f)] = None
        BY <1>0, <1>2, <2>1, <3>1, <3>2, <3>5, DeliverEffect
      <4>2. at[f] = "again"
        BY <3>1, <4>1, IOAssumption
      <4>3. bfd[Fd(f)].fiber[Event(f)] = None
        <5> SUFFICES ASSUME bfd[Fd(f)].fiber[Event(f)] # None PROVE FALSE
          OBVIOUS
        <5> DEFINE g == bfd[Fd(f)].fiber[Event(f)]
        <5>1. g \in Fibers
          BY <1>0, <3>2 DEF TypeOK, BlockingFd
        <5>2. use[g] = <<Fd(f), Event(f)>> /\ at[g] # "again"
          BY <3>1, <3>2 DEF BlockInv, RegisteredFiberBlocks, Registered
        <5>3. f = g
          BY <2>3, <3>1, <3>2, <5>1, <5>2 DEF NewsInv, OneWants
        <5>4. QED
          BY <4>2, <5>2, <5>3
      <4>4. Event(f) \in bfd'[Fd(f)].ready
        BY <1>0, <1>2, <2>1, <3>1, <3>2, <3>5, <4>3, DeliverEffect
      <4>5. QED
        BY <2>2, <4>2, <4>4 DEF HasNews, Fd, Event
    <3>6. CASE ~(fd = Fd(f) /\ Event(f) \in evs)
      <4>1. CASE \E d \in harvested : d[1] = Fd(f) /\ Event(f) \in d[2]
        <5>1. PICK d \in harvested : d[1] = Fd(f) /\ Event(f) \in d[2]
          BY <4>1
        <5>2. d \in harvested'
          BY <2>2, <3>6, <5>1
        <5>3. QED
          BY <2>2, <5>1, <5>2 DEF HasNews, Pending, Fd, Event
      <4>2. CASE Fd(f) \in listed \/ \E g \in UsersOf(Fd(f)) : at[g] = "add"
        BY <2>2, <4>2 DEF HasNews, Pending, UsersOf, Fd
      <4>3. CASE at[f] = "again" /\ Event(f) \in bfd[Fd(f)].ready
        BY <2>2, <3>3, <4>3 DEF HasNews, Fd, Event
      <4>4. QED
        BY <2>3, <3>4, <4>1, <4>2, <4>3 DEF HasNews, Pending
    <3>7. QED
      BY <3>5, <3>6
  <2>4. QED
    BY <2>2, <2>3, NewsInvApart
<1>3. QED
  BY <1>1, <1>2 DEF MonitorStep

\* What becomes available makes news.
LEMMA NewsInvUser ==
    ASSUME BlockInv, PathInv, NewsInv, UNCHANGED program, UserStep
    PROVE  NewsInv'
<1> USE DEF kernelVars, fiberVars
<1>0. TypeOK /\ Wants
  BY DEF BlockInv, RegisteredFiberBlocks
<1>1. ASSUME NEW f \in Fibers, NEW fd \in Fds, NEW ev \in Events, WouldBlock(f, fd, ev)
      PROVE  NewsInv'
  <2>1. /\ at[f] = "user" /\ at' = [at EXCEPT ![f] = "again"] /\ ev \notin available[fd]
        /\ use[f] = None /\ use' = [use EXCEPT ![f] = <<fd, ev>>]
        /\ program.contend \/ \A g \in UsersOf(fd) : Event(g) # ev
        /\ UNCHANGED <<tracked, bfd, available, listed, harvested>>
    BY <1>0, <1>1 DEF WouldBlock, Goto, Wants, Blocking
  <2>2. ASSUME ~program.contend, NEW g \in Fibers \ {f} PROVE use[g] # <<fd, ev>>
    <3>1. <<fd, ev>> # None
      BY IOAssumption
    <3>2. use[g] = <<fd, ev>> => g \in UsersOf(fd) /\ Event(g) = ev
      BY <3>1 DEF UsersOf, Fd, Event
    <3>3. QED
      BY <2>1, <2>2, <3>2
  <2>3. OneWants'
    <3> SUFFICES ASSUME ~program.contend, NEW g \in Fibers, NEW h \in Fibers,
                        at'[g] \in Blocking, use'[h] = use'[g]
                 PROVE  g = h
      BY DEF OneWants
    <3>1. CASE g # f /\ h # f
      BY <1>0, <2>1, <3>1 DEF NewsInv, OneWants, TypeOK
    <3>2. CASE g = f \/ h = f
      BY <1>0, <2>1, <2>2, <3>2 DEF TypeOK
    <3>3. QED
      BY <3>1, <3>2
  <2>4. ASSUME ~program.contend, NEW g \in Fibers, Awaits(g)' PROVE HasNews(g)'
    <3>1. g # f
      BY <1>0, <2>1, <2>4 DEF Awaits, Fd, Event, TypeOK
    <3>2. at'[g] = at[g] /\ use'[g] = use[g]
      BY <1>0, <2>1, <3>1 DEF TypeOK
    <3>3. Awaits(g)
      BY <2>1, <2>4, <3>2 DEF Awaits, Fd, Event
    <3>4. HasNews(g)
      BY <2>4, <3>3 DEF NewsInv, NewsArrives
    <3>5. ASSUME NEW h \in UsersOf(Fd(g)), at[h] = "add" PROVE h \in UsersOf(Fd(g))' /\ at'[h] = "add"
      BY <1>0, <2>1, <3>2, <3>5 DEF UsersOf, Fd, TypeOK
    <3>6. QED
      BY <2>1, <3>2, <3>4, <3>5 DEF HasNews, Pending, Fd, Event
  <2>5. QED
    BY <2>3, <2>4 DEF NewsInv, NewsArrives
<1>2. ASSUME NEW f \in Fibers, NEW fd \in Fds, NEW ev \in Events, Succeed(f, fd, ev)
      PROVE  NewsInv'
  <2>1. at' = at /\ \A d \in Fds : available'[d] \subseteq available[d]
    BY <1>0, <1>2 DEF Succeed, Goto, TypeOK
  <2>2. ASSUME NEW g \in Fibers, Awaits(g)', Awaits(g) => HasNews(g) PROVE HasNews(g)'
    BY <1>0, <1>2, <2>1, <2>2 DEF Succeed, Awaits, HasNews, Pending, UsersOf, Fd, Event, TypeOK
  <2>3. QED
    BY <1>2, <2>1, <2>2, NewsInvApart DEF Succeed
<1>3. ASSUME NEW fd \in Fds, FreeFdTracking(fd)
      PROVE  NewsInv'
  <2>1. ASSUME NEW g \in Fibers, Awaits(g)', Awaits(g) => HasNews(g) PROVE HasNews(g)'
    <3>1. Fd(g) \in Fds \ {fd} /\ UNCHANGED <<at, use, available, listed, harvested>>
      BY <1>0, <1>3, <2>1 DEF FreeFdTracking, Awaits, Fd, TypeOK
    <3>2. bfd'[Fd(g)] = bfd[Fd(g)] /\ tracked' \subseteq tracked
      BY <1>0, <1>3, <3>1 DEF FreeFdTracking, TypeOK
    <3>3. QED
      BY <2>1, <3>1, <3>2 DEF Awaits, HasNews, Pending, UsersOf, Fd, Event
  <2>2. QED
    BY <1>3, <2>1, NewsInvApart DEF FreeFdTracking
<1>4. ASSUME NEW fd \in Fds, Close(fd)
      PROVE  NewsInv'
  <2>1. ASSUME NEW g \in Fibers, Awaits(g)', Awaits(g) => HasNews(g) PROVE HasNews(g)'
    <3>1. UNCHANGED <<at, use, tracked, bfd, harvested>>
      BY <1>4 DEF Close
    <3>2. Fd(g) \in tracked
      BY <2>1, <3>1 DEF Awaits, Fd
    <3>3. Fd(g) \in Fds \ {fd}
      BY <1>0, <1>4, <3>2 DEF Close, PathInv, ClosingIsUnused, TypeOK
    <3>4. /\ available'[Fd(g)] = available[Fd(g)]
          /\ Fd(g) \in listed' <=> Fd(g) \in listed
      BY <1>0, <1>4, <3>3 DEF Close, TypeOK
    <3>5. QED
      BY <2>1, <3>1, <3>4 DEF Awaits, HasNews, Pending, UsersOf, Fd, Event
  <2>2. QED
    BY <1>4, <2>1, NewsInvApart DEF Close
<1>5. ASSUME NEW fd \in Fds, NEW evs \in SUBSET Events, Arrive(fd, evs)
      PROVE  NewsInv'
  <2>1. UNCHANGED <<at, use, tracked, bfd, registered, harvested>> /\ listed \subseteq listed'
    BY <1>5 DEF Arrive
  <2>2. ASSUME NEW g \in Fibers, Awaits(g)', Awaits(g) => HasNews(g) PROVE HasNews(g)'
    <3>1. CASE Fd(g) = fd
      <4>1. Fd(g) \in tracked \ program.full
        BY <1>5, <2>1, <2>2 DEF Arrive, Awaits, Fd
      <4>2. CASE Fd(g) \in registered
        BY <1>5, <2>1, <3>1, <4>2 DEF Arrive, HasNews, Pending, Fd
      <4>3. CASE Adding(Fd(g))
        BY <2>1, <4>3 DEF Adding, HasNews, Pending, UsersOf, Fd
      <4>4. QED
        BY <4>1, <4>2, <4>3 DEF PathInv, TrackedIsRegistered
    <3>2. CASE Fd(g) # fd
      <4>1. Fd(g) \in Fds /\ UNCHANGED program
        BY <1>0, <2>1, <2>2 DEF Awaits, Fd, TypeOK
      <4>2. available'[Fd(g)] = available[Fd(g)]
        BY <1>0, <1>5, <3>2, <4>1 DEF Arrive, TypeOK
      <4>3. QED
        BY <2>1, <2>2, <4>1, <4>2 DEF Awaits, HasNews, Pending, UsersOf, Fd, Event
    <3>3. QED
      BY <3>1, <3>2
  <2>3. QED
    BY <2>1, <2>2, NewsInvApart
<1>6. ASSUME NEW f \in Fibers, CancelFiber(f) \/ SetUnintr(f)
      PROVE  NewsInv'
  <2>1. UNCHANGED <<at, use, tracked, bfd, available, listed, harvested>>
    BY <1>0, <1>6 DEF CancelFiber, SetUnintr, Goto, TypeOK
  <2>2. ASSUME NEW g \in Fibers, Awaits(g)', Awaits(g) => HasNews(g) PROVE HasNews(g)'
    BY <2>1, <2>2 DEF Awaits, HasNews, Pending, UsersOf, Fd, Event
  <2>3. QED
    BY <2>1, <2>2, NewsInvApart
<1>7. ASSUME NEW f \in Fibers, End(f)
      PROVE  NewsInv'
  <2>1. /\ at[f] = "user" /\ at' = [at EXCEPT ![f] = "ended"]
        /\ UNCHANGED <<use, tracked, bfd, available, listed, harvested>>
    BY <1>7 DEF End, Goto
  <2>2. OneWants'
    BY <1>0, <2>1 DEF NewsInv, OneWants, Blocking, TypeOK
  <2>3. ASSUME ~program.contend, NEW g \in Fibers, Awaits(g)' PROVE HasNews(g)'
    <3>1. at'[g] = at[g] /\ Awaits(g)
      BY <1>0, <2>1, <2>3 DEF Awaits, Blocking, Fd, Event, TypeOK
    <3>2. HasNews(g)
      BY <2>3, <3>1 DEF NewsInv, NewsArrives
    <3>3. \A h \in Fibers : at[h] = "add" => at'[h] = "add"
      BY <1>0, <2>1 DEF TypeOK
    <3>4. QED
      BY <2>1, <3>1, <3>2, <3>3 DEF HasNews, Pending, UsersOf, Fd, Event
  <2>4. QED
    BY <2>2, <2>3 DEF NewsInv, NewsArrives
<1>8. QED
  BY <1>0, <1>1, <1>2, <1>3, <1>4, <1>5, <1>6, <1>7, ProgramUses DEF UserStep

\* Every step keeps the news.
LEMMA NewsInvStep == BlockInv /\ PathInv /\ NewsInv /\ [Next]_vars => NewsInv'
<1> SUFFICES ASSUME BlockInv, PathInv, NewsInv, [Next]_vars PROVE NewsInv'
  OBVIOUS
<1>1. CASE Next
  BY <1>1, NewsInvFiber, NewsInvMonitor, NewsInvUser DEF Next
<1>2. CASE UNCHANGED vars
  <2>1. UNCHANGED <<program, at, use, tracked, bfd, available, listed, harvested>>
    BY <1>2 DEF vars, fiberVars, kernelVars
  <2>2. ASSUME NEW g \in Fibers, Awaits(g)', Awaits(g) => HasNews(g) PROVE HasNews(g)'
    BY <2>1, <2>2 DEF Awaits, HasNews, Pending, UsersOf, Fd, Event
  <2>3. QED
    BY <2>1, <2>2, NewsInvApart
<1>3. QED
  BY <1>1, <1>2

\* At first nobody awaits any.
LEMMA NewsInvInit == Init => NewsInv
BY DEF Init, NewsInv, OneWants, NewsArrives, Awaits, Blocking

\* A fiber that sleeps was not told, so it is registered and there is no mark for it.
LEMMA SleeperHasNews ==
    ASSUME BlockInv, PathInv, NewsInv PROVE ReadinessNotLost
<1> SUFFICES ASSUME NEW f \in Fibers, Overlooked(f) PROVE Pending(Fd(f), Event(f))
  BY DEF ReadinessNotLost
<1>1. TypeOK /\ Untold(f) /\ at[f] = "woken"
  BY DEF Overlooked, Untold, PathInv, SleepsInDefer, BlockInv, RegisteredFiberBlocks
<1>2. Fd(f) \in Fds /\ Event(f) \in Events /\ bfd[Fd(f)].fiber[Event(f)] = f
  BY <1>1, UntoldWants
<1>3. Fd(f) \in tracked
  BY <1>1, <1>2, NewBlockingFdTyped, IOAssumption DEF TypeOK
<1>4. Awaits(f)
  BY <1>1, <1>2, <1>3 DEF Overlooked, Awaits, Blocking
<1>5. QED
  BY <1>1, <1>4 DEF Overlooked, NewsInv, NewsArrives, HasNews

\* Readiness is not lost between the system call that would have blocked and the sleep:
\* if what a fiber sleeps for is available, the monitor will hear of it, or has.
THEOREM ReadinessIsNotLost == Spec => []ReadinessNotLost
BY BlockInvInit, BlockInvStep, PathInvInit, PathInvStep, NewsInvInit, NewsInvStep,
   SleeperHasNews, PTL DEF Spec
=============================================================================
