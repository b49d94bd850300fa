--------------------------------- MODULE IFC ---------------------------------
(***************************************************************************)
(* Inter-fiber calls, the second half of src/lwthreads.c: a fiber accepts  *)
(* (becomes a server: it blocks and lends its state to clients), and other *)
(* fibers join it, for exclusive (locked) or shared use, execute in the    *)
(* join and leave it.  Joins nest, servers are canceled while clients are  *)
(* inside, and server fibers end while clients wait for them.              *)
(*                                                                         *)
(* One action is one section under shared_fiber_mem.rwlock, or one         *)
(* unlocked step between two of them.  Putting a fiber to sleep is one     *)
(* step here (Defer): FiberSched shows that nothing gets in between.  A    *)
(* fiber whose ctrl.deferred is FALSE can run.  Fiber ids are not reused,  *)
(* so a fiber that ended stays ended.                                      *)
(***************************************************************************)
EXTENDS FiberCtrl, Integers, FiniteSets, SequencesExt

CONSTANTS Fibers,         (* the fibers                                     *)
          Fns,            (* the functions that can be joined               *)
          Programs,       (* what the code that runs in the fibers may do   *)
          MaxDepth,       (* bound: how deep the joins of a fiber nest      *)
          None            (* no fiber                                       *)

CallTypes == {"lock", "shared"}

\* A program: who may accept on which functions, who may join whom, who may accept
\* on the id of a server it joined, and which fibers may be canceled, may enter
\* uninterruptible blocks and may return from their main function.
ASSUME IFCAssumption ==
    /\ \A p \in Programs :
        /\ p.accepts \subseteq Fibers \X ((SUBSET Fns) \ {{}})
        /\ p.joins \subseteq Fibers \X Fibers \X Fns \X CallTypes
        /\ p.serverSide \union p.canceled \union p.masked \union p.ending \subseteq Fibers
    /\ MaxDepth \in Nat
    /\ IsFiniteSet(Fibers)
    /\ None \notin Fibers

VARIABLES program,        (* the program that runs, for good                *)
          ctrl,           (* per fiber, its control block                   *)
          fiber_map,      (* the fibers that can be reached by their id     *)
          at,             (* per fiber, where it is in its code             *)
          joins,          (* per fiber, its lwt_ifc_client_t, innermost last*)
          server,         (* per fiber, the lwt_ifc_server_t on its stack   *)
          waiting,        (* the waiting clients of all queues, by call_id  *)
          queues,         (* the function queues that are allocated         *)
          refs            (* per function queue, the servers it refers to   *)

vars == <<program, ctrl, fiber_map, at, joins, server, waiting, queues, refs>>

\* A function queue belongs to the fiber that is joined and a function.
Queues == Fibers \X Fns

\* user: runs its own code, or code in its innermost join.
\* missing: the fiber to join does not exist; join_defer, join_woken: waits for a
\* server; join_lock: woken without one; join_failed: left the queue; joined: has
\* a server, about to enter the join.
\* accept_*, cancel_*: in __lwt_ifc_accept.  unindexed, dead: teardown.
JoinPoints == {"missing", "join_defer", "join_woken", "join_lock", "join_failed", "joined"}
AcceptPoints == {"accept", "accept_defer", "accept_woken",
                 "cancel", "cancel_defer", "cancel_woken", "restore", "cleanup"}
Points == {"user", "scheduler_error", "unindexed", "dead"} \union JoinPoints \union AcceptPoints

Clients == [type : CallTypes, fiber_id : Fibers, fn : Fns,
            server : Fibers \union {None},   (* None while server_state is 0 *)
            live_join_race : BOOLEAN]

Servers == [listening : BOOLEAN,             (* server_state is not 0        *)
            read_locked : BOOLEAN,
            running : SUBSET (Fibers \X (1..MaxDepth)),
            accepting : Fibers \union {None}, (* whose queues; None: no accept *)
            fns : SUBSET Fns,
            auto_reaccept : BOOLEAN,
            pending_canceled : BOOLEAN,
            pending_join_race : BOOLEAN]

NoServer == [listening |-> FALSE, read_locked |-> FALSE, running |-> {},
             accepting |-> None, fns |-> {}, auto_reaccept |-> FALSE,
             pending_canceled |-> FALSE, pending_join_race |-> FALSE]

NoRefs == [count |-> 0, freeish |-> <<>>, sharedish |-> <<>>]

TypeOK ==
    /\ program \in Programs
    /\ ctrl \in [Fibers -> Ctrl]
    /\ fiber_map \subseteq Fibers
    /\ at \in [Fibers -> Points]
    /\ joins \in [Fibers -> Seq(Clients)]
    /\ server \in [Fibers -> Servers]
    /\ waiting \in Seq(Fibers)
    /\ queues \subseteq Queues
    /\ refs \in [Queues -> [count : Nat, freeish : Seq(Fibers), sharedish : Seq(Fibers)]]

Init ==
    /\ program \in Programs
    /\ ctrl = [f \in Fibers |-> [NewCtrl EXCEPT !.started = TRUE]]
    /\ fiber_map = Fibers
    /\ at = [f \in Fibers |-> "user"]
    /\ joins = [f \in Fibers |-> <<>>]
    /\ server = [f \in Fibers |-> NoServer]
    /\ waiting = <<>>
    /\ queues = {}
    /\ refs = [q \in Queues |-> NoRefs]

-----------------------------------------------------------------------------
Goto(f, from, to) ==
    /\ at[f] = from
    /\ ~ctrl[f].deferred
    /\ at' = [at EXCEPT ![f] = to]

\* Where fiber f is in its innermost join, and how deep.
Depth(f) == Len(joins[f])
Client(f) == joins[f][Depth(f)]
QueueOf(f) == <<Client(f).fiber_id, Client(f).fn>>
QueuesOf(s) == {server[s].accepting} \X server[s].fns

\* Some join of f, other than the innermost n, has a live join race.
LiveBelow(f, n) == \E i \in 1..(Depth(f) - n) : joins[f][i].live_join_race

Listening == {s \in Fibers : server[s].listening}

\* The list from its first wanted element on, or nothing.
From(list, wanted) ==
    LET i == SelectInSeq(list, LAMBDA x : x \in wanted)
    IN IF i = 0 THEN <<>> ELSE SubSeq(list, i, Len(list))

\* The list without some elements, the others in the order they were in.  (What
\* SelectSeq returns, which is a recursive definition; this one is not.)
Without(list, gone) ==
    LET Kept(last) == {i \in 1..last : list[i] \notin gone}
        kept == Kept(Len(list))
    IN [n \in 1..Cardinality(kept) |->
            list[CHOOSE i \in kept : Cardinality(Kept(i)) = n]]

\* deref_ifc_fn_queue: a queue nobody refers to or waits in is freed.
Deref(qs, alive, count, clients) ==
    alive \ {q \in qs : /\ count[q].count = 0
                        /\ \A i \in 1..Len(clients) : QueueOf(clients[i]) # q}

-----------------------------------------------------------------------------
(* Joining: __lwt_fiber_stack_push_ifc_call_join.                          *)

\* The references a client finds in its queue, r, once it searched for a server,
\* and the server it found (None when it has to wait).  References to servers
\* that stopped listening are dropped on the way, those found read locked move
\* to the shared list.
\* Slip: only the shared list is searched.
FindSharedOnly(r) ==
    LET sharedish == From(r.sharedish, Listening)
    IN [refs |-> [r EXCEPT !.sharedish = sharedish],
        server |-> IF sharedish = <<>> THEN None ELSE Head(sharedish)]

FindShared(r) ==
    LET sharedish == From(r.sharedish, Listening)
        freeish == From(r.freeish, Listening)
        s == Head(freeish)
    IN IF sharedish # <<>>
       THEN [refs |-> [r EXCEPT !.sharedish = sharedish], server |-> Head(sharedish)]
       ELSE IF freeish = <<>>
       THEN [refs |-> [r EXCEPT !.sharedish = <<>>, !.freeish = <<>>], server |-> None]
       ELSE [refs |-> IF server[s].read_locked
                      THEN [r EXCEPT !.sharedish = <<s>>, !.freeish = Tail(freeish)]
                      ELSE [r EXCEPT !.sharedish = <<>>, !.freeish = freeish],
             server |-> s]

FindFree(r) ==
    LET freeish == From(r.freeish, {s \in Listening : ~server[s].read_locked})
        passed == SubSeq(r.freeish, 1, Len(r.freeish) - Len(freeish))
    IN [refs |-> [r EXCEPT !.freeish = freeish,
                           !.sharedish = @ \o Without(passed, Fibers \ Listening)],
        server |-> IF freeish = <<>> THEN None ELSE Head(freeish)]

\* Slip: the locked client leaves them all listening.
StarveNone(r) == [refs |-> r, server |-> None]

\* A locked client that has to wait stops one shared server, the first that
\* listens, from letting in more shared clients (and so from starving it).
Starve(r) ==
    LET sharedish == From(r.sharedish, Listening)
    IN IF sharedish = <<>>
       THEN [refs |-> [r EXCEPT !.sharedish = <<>>], server |-> None]
       ELSE [refs |-> [r EXCEPT !.sharedish = Tail(sharedish)], server |-> Head(sharedish)]

\* The fiber to join does not exist.
JoinMissing(f, t) ==
    /\ Goto(f, "user", "missing")
    /\ ~Interrupted(ctrl[f])
    /\ t \notin fiber_map
    /\ UNCHANGED <<ctrl, fiber_map, joins, server, waiting, queues, refs>>

\* The client attaches to a server that listens, or goes to the waiting clients.
Join(f, t, fn, type) ==
    LET q == <<t, fn>>
        found == IF type = "shared" THEN FindShared(refs[q]) ELSE FindFree(refs[q])
        s == found.server
        closed == Starve(found.refs)
        client == [type |-> type, fiber_id |-> t, fn |-> fn, server |-> s,
                   live_join_race |-> FALSE]
    IN /\ Goto(f, "user", IF s = None THEN "join_defer" ELSE "joined")
       /\ ~Interrupted(ctrl[f])
       /\ t \in fiber_map
       /\ Depth(f) < MaxDepth
       /\ queues' = queues \union {q}
       /\ joins' = [joins EXCEPT ![f] = Append(@, client)]
       /\ \/ /\ s # None
             /\ refs' = [refs EXCEPT ![q] = found.refs]
             /\ server' = [server EXCEPT
                    ![s].running = @ \union {<<f, Depth(f) + 1>>},
                    ![s].read_locked = @ \/ type = "shared",
                    ![s].listening = type = "shared"]
             /\ UNCHANGED <<ctrl, waiting>>
          \/ /\ s = None
             /\ waiting' = Append(waiting, f)
             /\ ctrl' = [ctrl EXCEPT ![f].done = FALSE]
             /\ refs' = [refs EXCEPT ![q] = IF type = "lock" THEN closed.refs ELSE found.refs]
             /\ server' = IF type = "lock" /\ closed.server # None
                          THEN [server EXCEPT ![closed.server].listening = FALSE]
                          ELSE server
       /\ UNCHANGED fiber_map

\* lwt_scheduler_fiber_defer: go on at once if there is a reason to be awake.
Defer(f) ==
    /\ \/ Goto(f, "join_defer", "join_woken")
       \/ Goto(f, "accept_defer", "accept_woken")
       \/ Goto(f, "cancel_defer", "cancel_woken")
    /\ ctrl' = [ctrl EXCEPT ![f].deferred = ~Bounces(ctrl[f])]
    /\ UNCHANGED <<fiber_map, joins, server, waiting, queues, refs>>

\* Back from the wait, without the lock: is there a server, or what else happened?
JoinWoken(f) ==
    /\ Goto(f, "join_woken",
            IF Client(f).server # None THEN "joined"
            ELSE IF ctrl[f].unintr \/ ctrl[f].canceled \/ ctrl[f].join_race THEN "join_lock"
            ELSE "scheduler_error")
    /\ UNCHANGED <<ctrl, fiber_map, joins, server, waiting, queues, refs>>

\* Slip: the server is not looked for again under the lock.
StepOutUnchecked(f) ==
    /\ Goto(f, "join_lock", "join_failed")
    /\ waiting' = Without(waiting, {f})
    /\ queues' = Deref({QueueOf(f)}, queues, refs, waiting')
    /\ UNCHANGED <<ctrl, fiber_map, joins, server, refs>>

\* The same under the lock, and out of the queue if there is still none.
StepOut(f) ==
    /\ \/ /\ Goto(f, "join_lock", "joined")
          /\ Client(f).server # None
          /\ UNCHANGED <<waiting, queues>>
       \/ /\ Goto(f, "join_lock", "join_failed")
          /\ Client(f).server = None
          /\ waiting' = Without(waiting, {f})
          /\ queues' = Deref({QueueOf(f)}, queues, refs, waiting')
    /\ UNCHANGED <<ctrl, fiber_map, joins, server, refs>>

\* The failed join throws: no such fiber in an uninterruptible block, otherwise
\* the cancellation or the join race that is pending.
JoinFailed(f) ==
    /\ Goto(f, "join_failed", "user")
    /\ joins' = [joins EXCEPT ![f] = Front(@)]
    /\ ctrl' = [ctrl EXCEPT ![f] = CancellationPoint(@)]
    /\ UNCHANGED <<fiber_map, server, waiting, queues, refs>>

\* So does the join that found no fiber; its join race clears a pending one.
ThrowMissing(f) ==
    /\ Goto(f, "missing", "user")
    /\ ctrl' = [ctrl EXCEPT ![f].join_race = @ /\ ctrl[f].unintr]
    /\ UNCHANGED <<fiber_map, joins, server, waiting, queues, refs>>

\* The join is entered, which is a cancellation point.
Enter(f) ==
    /\ Goto(f, "joined", "user")
    /\ ctrl' = [ctrl EXCEPT ![f] = CancellationPoint(@)]
    /\ UNCHANGED <<fiber_map, joins, server, waiting, queues, refs>>

\* Slip: the last client does not wake the server.
LeftSilently(c, running) == c

\* The server's control block when a client has left and these still run.
Left(c, running) == IF running = {} THEN WakeDone(c) ELSE c

\* __lwt_fiber_stack_pop_ifc_call_join: the last client ends the sharing and wakes
\* the server; a join race that was only meant for this join is defused.
Leave(f) ==
    LET s == Client(f).server
        running == server[s].running \ {<<f, Depth(f)>>}
    IN /\ Goto(f, "user", "user")
       /\ joins[f] # <<>>
       /\ joins' = [joins EXCEPT ![f] = Front(@)]
       /\ server' = [server EXCEPT ![s].running = running,
                                   ![s].listening = @ /\ running # {}]
       /\ ctrl' = [ctrl EXCEPT
            ![s] = Left(@, running),
            ![f].join_race = @ /\ (Client(f).live_join_race => LiveBelow(f, 1))]
       /\ UNCHANGED <<fiber_map, waiting, queues, refs>>

-----------------------------------------------------------------------------
(* Accepting: __lwt_ifc_accept.                                            *)

\* Slip: the server is not counted by the queue.
Uncounted(r) == r

\* The references of a queue with one server more.
Referenced(r) == [r EXCEPT !.count = @ + 1]

\* A cancellation point, then the function queues are allocated and referenced.
\* A server side accept is reached by the id of the server that is joined.
Accept(s, fns, auto, server_side) ==
    LET id == IF server_side THEN Client(s).server ELSE s
        qs == {id} \X fns
    IN /\ Goto(s, "user", "accept")
       /\ ~Interrupted(ctrl[s])
       /\ server' = [server EXCEPT ![s] = [NoServer EXCEPT
                        !.accepting = id, !.fns = fns, !.auto_reaccept = auto]]
       /\ queues' = queues \union qs
       /\ refs' = [q \in Queues |-> IF q \in qs THEN Referenced(refs[q]) ELSE refs[q]]
       /\ UNCHANGED <<ctrl, fiber_map, joins, waiting>>

\* Slip: a reference that is in a list stays there.
ReconnectOnce(s, read_locked) ==
    [q \in Queues |->
        IF q \notin QueuesOf(s) \/ Contains(refs[q].sharedish \o refs[q].freeish, s)
        THEN refs[q]
        ELSE IF read_locked THEN [refs[q] EXCEPT !.sharedish = <<s>> \o @]
        ELSE [refs[q] EXCEPT !.freeish = <<s>> \o @]]

\* The references of a listening server are put (back) into the lists where
\* clients will find it.
Reconnect(s, read_locked) ==
    [q \in Queues |->
        IF q \notin QueuesOf(s) THEN refs[q]
        ELSE IF read_locked /\ ~Contains(refs[q].sharedish, s)
        THEN [refs[q] EXCEPT !.freeish = Without(@, {s}), !.sharedish = <<s>> \o @]
        ELSE IF ~read_locked /\ ~Contains(refs[q].freeish, s)
        THEN [refs[q] EXCEPT !.sharedish = Without(@, {s}), !.freeish = <<s>> \o @]
        ELSE refs[q]]

\* Where clients wait for the server in the list, in which the longest wait is first.
WaitingFor(s) == {i \in DOMAIN waiting : QueueOf(waiting[i]) \in QueuesOf(s)}

Shared(f) == Client(f).type = "shared"

\* Slip: the locked client behind shared ones is let in with them.
TakenAll(places) ==
    {waiting[i] : i \in {i \in places :
        \A j \in places : j >= i \/ Shared(waiting[j])}}

\* Whom it lets in: the first of them, and with a shared one all shared ones up to
\* the first locked one.
Taken(places) ==
    {waiting[i] : i \in {i \in places :
        \/ \A j \in places : j >= i
        \/ \A j \in places : j =< i => Shared(waiting[j])}}

\* Attach the clients that wait, or listen for the next.
Attach(s) ==
    LET places == WaitingFor(s)
        taken == Taken(places)
        listening == \A i \in places : waiting[i] \in taken /\ Shared(waiting[i])
    IN /\ Goto(s, "accept", "accept_defer")
       /\ waiting' = Without(waiting, taken)
       /\ joins' = [f \in Fibers |->
            IF f \in taken THEN [joins[f] EXCEPT ![Depth(f)].server = s] ELSE joins[f]]
       /\ server' = [server EXCEPT
            ![s].running = @ \union {<<f, Depth(f)>> : f \in taken},
            ![s].listening = listening,
            ![s].read_locked = IF listening THEN taken # {} ELSE @]
       /\ refs' = IF listening THEN Reconnect(s, taken # {}) ELSE refs
       /\ ctrl' = [f \in Fibers |-> IF f = s THEN [ctrl[s] EXCEPT !.done = FALSE]
                                    ELSE IF f \in taken THEN WakeDone(ctrl[f])
                                    ELSE ctrl[f]]
       /\ UNCHANGED <<fiber_map, queues>>

\* Back from the wait: canceled or raced, or the clients are done.
AcceptWoken(s) ==
    /\ Goto(s, "accept_woken", IF Interrupted(ctrl[s]) THEN "cancel"
                               ELSE IF server[s].auto_reaccept THEN "accept"
                               ELSE "cleanup")
    /\ UNCHANGED <<ctrl, fiber_map, joins, server, waiting, queues, refs>>

\* Slip: clients can still attach to the canceled server.
ListeningOn(r, c) ==
    [r EXCEPT !.pending_canceled = @ \/ c.canceled, !.pending_join_race = @ \/ c.join_race]

\* What a server keeps of what interrupted it, when it stops listening.
Interruption(r, c) ==
    [r EXCEPT !.pending_canceled = @ \/ c.canceled, !.pending_join_race = @ \/ c.join_race,
              !.listening = FALSE]

\* The server cannot leave while clients run: it takes over what interrupted it,
\* stops listening, gives every running client a join race and waits for them.
CancelAccept(s) ==
    LET consumed == [ctrl[s] EXCEPT
            !.canceled = @ /\ server[s].pending_canceled,
            !.hidden_cancel = @ \/ (ctrl[s].canceled /\ ~server[s].pending_canceled),
            !.join_race = FALSE]
        clients == server[s].running
    IN /\ Goto(s, "cancel", IF clients = {} THEN "restore" ELSE "cancel_defer")
       /\ server' = [server EXCEPT ![s] = Interruption(@, ctrl[s])]
       /\ joins' = [f \in Fibers |-> [i \in DOMAIN joins[f] |->
            IF <<f, i>> \in clients THEN [joins[f][i] EXCEPT !.live_join_race = TRUE]
                                    ELSE joins[f][i]]]
       /\ ctrl' = [f \in Fibers |->
            IF f = s THEN [consumed EXCEPT !.done = @ /\ clients = {}]
            ELSE IF \E i \in DOMAIN joins[f] : <<f, i>> \in clients
            THEN WakeJoinRace(ctrl[f])
            ELSE ctrl[f]]
       /\ UNCHANGED <<fiber_map, waiting, queues, refs>>

CancelWoken(s) ==
    /\ Goto(s, "cancel_woken", "cancel")
    /\ UNCHANGED <<ctrl, fiber_map, joins, server, waiting, queues, refs>>

\* Slip: only the join race is.
RestoreRace(s) ==
    /\ Goto(s, "restore", "cleanup")
    /\ ctrl' = [ctrl EXCEPT ![s].join_race = server[s].pending_join_race]
    /\ UNCHANGED <<fiber_map, joins, server, waiting, queues, refs>>

\* What interrupted the server is pending again.
Restore(s) ==
    /\ Goto(s, "restore", "cleanup")
    /\ ctrl' = [ctrl EXCEPT
            ![s].canceled = @ \/ server[s].pending_canceled,
            ![s].hidden_cancel = @ /\ ~server[s].pending_canceled,
            ![s].join_race = server[s].pending_join_race]
    /\ UNCHANGED <<fiber_map, joins, server, waiting, queues, refs>>

\* Slip: the server stays in the lists.
Discounted(r, s) == [r EXCEPT !.count = @ - 1]

\* The references of a queue without those of server s.
Dereferenced(r, s) ==
    [count |-> r.count - 1, freeish |-> Without(r.freeish, {s}),
     sharedish |-> Without(r.sharedish, {s})]

\* The references and the server struct go, then the cancellation point.
Cleanup(s) ==
    LET counted == [q \in Queues |->
            IF q \in QueuesOf(s) THEN Dereferenced(refs[q], s) ELSE refs[q]]
    IN /\ Goto(s, "cleanup", "user")
       /\ refs' = counted
       /\ queues' = Deref(QueuesOf(s), queues, counted, waiting)
       /\ server' = [server EXCEPT ![s] = NoServer]
       /\ ctrl' = [ctrl EXCEPT ![s] = CancellationPoint(@)]
       /\ UNCHANGED <<fiber_map, joins, waiting>>

-----------------------------------------------------------------------------
(* The rest of a fiber's life.                                             *)

\* A cancellation point of other code throws, or lwt_test_live_join_race does.
Throw(f) ==
    /\ Goto(f, "user", "user")
    /\ \/ /\ Interrupted(ctrl[f])
          /\ ctrl' = [ctrl EXCEPT ![f] = CancellationPoint(@)]
       \/ /\ LiveBelow(f, 0)
          /\ ctrl' = [ctrl EXCEPT ![f].join_race = FALSE]
    /\ UNCHANGED <<fiber_map, joins, server, waiting, queues, refs>>

SetUnintr(f) ==
    /\ Goto(f, "user", "user")
    /\ ctrl' = [ctrl EXCEPT ![f].unintr = ~@]
    /\ UNCHANGED <<fiber_map, joins, server, waiting, queues, refs>>

\* lwt_cancel_fiber_id, by any fiber (waking is ending the deferral).
CancelFiber(f) ==
    /\ f \in fiber_map
    /\ ctrl' = [ctrl EXCEPT ![f] = Cancel(@)]
    /\ UNCHANGED <<fiber_map, at, joins, server, waiting, queues, refs>>

\* The main function has returned (so the joins are popped): teardown begins.
Unindex(f) ==
    /\ Goto(f, "user", "unindexed")
    /\ joins[f] = <<>>
    /\ fiber_map' = fiber_map \ {f}
    /\ UNCHANGED <<ctrl, joins, server, waiting, queues, refs>>

\* Slip: the waiting clients are left to themselves.
TeardownSilently(f) ==
    /\ Goto(f, "unindexed", "dead")
    /\ UNCHANGED <<ctrl, fiber_map, joins, server, waiting, queues, refs>>

\* The clients that still wait for the fiber are woken, those that cannot be
\* interrupted by a plain wake-up; the queues are left to them.
Teardown(f) ==
    /\ Goto(f, "unindexed", "dead")
    /\ ctrl' = [g \in Fibers |->
            IF ~(Contains(waiting, g) /\ Client(g).fiber_id = f) THEN ctrl[g]
            ELSE IF ctrl[g].unintr THEN WakeDone(ctrl[g])
            ELSE WakeJoinRace(ctrl[g])]
    /\ UNCHANGED <<fiber_map, joins, server, waiting, queues, refs>>

-----------------------------------------------------------------------------
\* What the code of librcd does without being asked.
SystemStep(f) ==
    \/ Defer(f)
    \/ JoinWoken(f) \/ StepOut(f) \/ JoinFailed(f) \/ ThrowMissing(f) \/ Enter(f)
    \/ Attach(f) \/ AcceptWoken(f) \/ CancelAccept(f) \/ CancelWoken(f)
    \/ Restore(f) \/ Cleanup(f)
    \/ Teardown(f)

\* What a program asks it to do.
UserStep(f) ==
    \/ \E j \in program.joins : j[1] = f /\ (JoinMissing(f, j[2]) \/ Join(f, j[2], j[3], j[4]))
    \/ Leave(f)
    \/ \E a \in program.accepts, auto \in BOOLEAN : a[1] = f /\ Accept(f, a[2], auto, FALSE)
    \/ \E a \in program.accepts, auto \in BOOLEAN :
          a[1] = f /\ f \in program.serverSide /\ joins[f] # <<>> /\ Accept(f, a[2], auto, TRUE)
    \/ Throw(f)
    \/ f \in program.masked /\ SetUnintr(f)
    \/ f \in program.canceled /\ CancelFiber(f)
    \/ f \in program.ending /\ Unindex(f)

Next ==
    /\ \E f \in Fibers : SystemStep(f) \/ UserStep(f)
    /\ UNCHANGED program

Spec == Init /\ [][Next]_vars

\* The executors run every fiber that is not deferred (FiberSched), and code in a
\* join is expected to return, whatever it joins or accepts meanwhile.
Fairness ==
    /\ \A f \in Fibers : WF_vars(SystemStep(f) /\ UNCHANGED program)
    /\ \A f \in Fibers : SF_vars(Leave(f) /\ UNCHANGED program)

FairSpec == Spec /\ Fairness

\* What the comment on lwt_test_live_join_race asks of code that catches a join
\* race: to unwind, and not to block again in a join that is still raced.
UnwindingStep(f) ==
    at[f] = "user" /\ LiveBelow(f, 0) => at'[f] = "user"

UnwindingSpec ==
    /\ Init
    /\ [][Next /\ \A f \in Fibers : UnwindingStep(f)]_vars
    /\ Fairness

-----------------------------------------------------------------------------
Accepting(s) == server[s].accepting # None

Waits(f) == Contains(waiting, f)

\* A client that runs in a join runs in the join of a server that is (still) in
\* accept, and the server counts it: it never uses a server's stack or heap that
\* the server took back.  A client without a server is waiting, once.
ClientsAttached ==
    /\ \A f, s \in Fibers :
        {i \in DOMAIN joins[f] : joins[f][i].server = s}
            = {i \in 1..MaxDepth : <<f, i>> \in server[s].running}
    /\ \A s \in Fibers : server[s].running # {} => Accepting(s)
    /\ \A f \in Fibers : \A i \in DOMAIN joins[f] : joins[f][i].server = None
        => i = Depth(f) /\ (at[f] # "join_failed" => Waits(f))
    /\ \A i, j \in DOMAIN waiting : waiting[i] = waiting[j] => i = j
    /\ \A f \in Fibers : Waits(f) => Client(f).server = None

\* The references in a queue are of servers that are in accept on that queue, none
\* twice, and the queue is allocated exactly as long as somebody refers to it or
\* waits in it.
ReferencesLive ==
    /\ \A q \in Queues :
        LET listed == refs[q].freeish \o refs[q].sharedish
        IN /\ \A i \in DOMAIN listed : q \in QueuesOf(listed[i])
           /\ \A i, j \in DOMAIN listed : listed[i] = listed[j] => i = j
           /\ refs[q].count = Cardinality({s \in Fibers : q \in QueuesOf(s)})
    /\ queues = {q \in Queues : refs[q].count > 0}
                  \union {QueueOf(f) : f \in ToSet(waiting)}

\* The two fatal errors of the code are not reached: the lists tell read locked
\* servers and free ones apart (lwt_ifc_trigger_free_sharedish_error), and a
\* client does not wake up with nothing to go on.
NoSchedulerError ==
    /\ \A q \in Queues, s \in Fibers :
        Contains(refs[q].sharedish, s) /\ server[s].listening => server[s].read_locked
    /\ \A f \in Fibers : at[f] # "scheduler_error"

\* No client waits for a function on which a server it could join is listening.
NoMissedServer ==
    \A f, s \in Fibers :
        Waits(f) /\ server[s].listening /\ QueueOf(f) \in QueuesOf(s)
            => Client(f).type = "lock" /\ server[s].read_locked

\* Whoever sleeps will be woken: a server has clients inside or is listening, a
\* client waits for a fiber that has not finished its teardown.
SleepersExpected ==
    \A f \in Fibers : ctrl[f].deferred =>
        \/ at[f] = "join_woken" /\ Waits(f) /\ at[Client(f).fiber_id] # "dead"
        \/ at[f] = "accept_woken" /\ (server[f].running # {} \/ server[f].listening)
        \/ at[f] = "cancel_woken" /\ server[f].running # {}

\* The types, the clients of the servers and the references to them fit together: what
\* accept, join, leave and the teardown of a fiber keep up at every unlock.
BooksAgree == TypeOK /\ ClientsAttached /\ ReferencesLive

\* Nobody sleeps for what will not come, misses a server, or wakes up for nothing,
\* however joins, steps out, servers that come and go and teardowns interleave.
NobodyForgotten == NoSchedulerError /\ NoMissedServer /\ SleepersExpected

\* An interrupted server lets nobody in, tells all clients inside, and leaves only
\* when they have.  And no fiber ends while others accept on its id.
CanceledServerCloses ==
    \A s \in Fibers :
        /\ at[s] \in {"cancel_defer", "cancel_woken"} =>
             /\ ~server[s].listening
             /\ \A c \in server[s].running : joins[c[1]][c[2]].live_join_race
        /\ at[s] \in {"restore", "cleanup"} => server[s].running = {} /\ ~server[s].listening
        /\ at[s] \in {"unindexed", "dead"} => \A fn \in Fns : refs[<<s, fn>>].count = 0

\* rcd.h, on join_locked: the server cancellation is deferred until all clients
\* have exited.  It is not lost on the way: a fiber stays canceled until it throws
\* the cancellation at a cancellation point of its own.
CancellationKept ==
    [][\A f \in Fibers :
        ctrl[f].canceled \/ server[f].pending_canceled
            => \/ ctrl'[f].canceled \/ server'[f].pending_canceled
               \/ ctrl[f].canceled /\ ~ctrl[f].unintr /\ at'[f] = "user"]_vars

\* A server that is interrupted leaves the accept, if its clients return.
CanceledServerLeaves ==
    \A s \in Fibers : Accepting(s) /\ Interrupted(ctrl[s]) ~> ~Accepting(s)

\* A client does not wait for ever on a fiber that ended.
DeadServerReleases ==
    \A f \in Fibers :
        Waits(f) /\ Client(f).fiber_id \notin fiber_map ~> ~Waits(f)

\* An end of a server, by an interrupt or for good, lets go all that it held.
ServersRelease == CanceledServerLeaves /\ DeadServerReleases

\* A client is let in while servers stay that accept what it waits for, however
\* the other clients come and go.
NotStarved ==
    \A f \in Fibers : LET Served == Waits(f) /\ refs[QueueOf(f)].count > 0
                      IN Served ~> ~Served

\* The comment in __lwt_ifc_accept: restore cancel/join race and leave accept.  A
\* join race that comes while the server leaves stays pending.
RestoreKeepsRace ==
    [][\A s \in Fibers :
        at[s] = "restore" /\ ctrl[s].join_race => ctrl'[s].join_race]_vars

\* The server's state is used under readers-writer discipline.
Use == INSTANCE IFCUse WITH
    offered <- {s \in Fibers : Accepting(s)},
    users <- [s \in Fibers |->
        {<<c, joins[c[1]][c[2]].type>> : c \in server[s].running}],
    Clients <- Fibers \X (1..MaxDepth)

ImplementsIFCUse == Use!Spec
=============================================================================
