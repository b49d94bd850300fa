------------------------------- MODULE FiberHeap -------------------------------
(***************************************************************************)
(* The region heaps of a fiber: src/vm.c (vm_heap_...) and their use in    *)
(* src/lwthreads.c.  A heap is a list of allocations that are freed with   *)
(* it.  sub_heap nests a heap in the current one and marks that one as in  *)
(* use; switch_heap makes another heap the current one for a block; an     *)
(* alternative heap is owned by a handle, an allocation whose destructor   *)
(* releases it; an exception has a heap of its own that survives the       *)
(* blocks the exception unwinds, for one that is thrown out of an emitosis *)
(* block the heap of that block; the heap of a fiber in mitosis is current *)
(* in a block and then that fiber's.                                       *)
(*                                                                         *)
(* A fiber is sequential, so an action is a whole call, but for the        *)
(* release of a heap, a loop that runs destructors, and for the unwinding, *)
(* which are left in steps: "frames" is the stack of releases under way.   *)
(***************************************************************************)
EXTENDS Naturals, Sequences, FiniteSets, SequencesExt, FiniteSetsExt

CONSTANTS MaxHeap,        (* the heaps are 1 .. MaxHeap, the first the     *)
                          (* fiber's, the second the global heap            *)
          MaxAlloc,       (* the allocations are 1 .. MaxAlloc              *)
          MaxDepth,       (* bounds the nesting of blocks                   *)
          EscapesOuter    (* whether the program escapes an allocation of a *)
                          (* heap that a sub heap is nested in              *)

ASSUME FiberHeapAssumption ==
    /\ MaxHeap \in Nat \ {0, 1} /\ MaxAlloc \in Nat /\ MaxDepth \in Nat
    /\ EscapesOuter \in BOOLEAN

VARIABLES live,           (* the heaps that exist                           *)
          parent,         (* of each heap, the heap it is nested in, or 0   *)
          in_use,         (* the heaps whose in use bit is set              *)
          allocs,         (* alloc_headers, of each heap                    *)
          kind,           (* of each allocation, "free" if there is none    *)
          heap,           (* its header's heap, 0 once it is cleared        *)
          handle,         (* of a handle, its vm_heap, or 0                 *)
          current,        (* fiber->current_heap                            *)
          events,         (* the event stack of the fiber, innermost first  *)
          thrown,         (* the heap of the exception that unwinds, or 0   *)
          frames,         (* the releases under way, innermost first        *)
          away,           (* the global heap and those of spawned fibers    *)
          ended           (* "no", or how the fiber has ended               *)

allocVars == <<allocs, kind, heap, handle>>
vars == <<live, parent, in_use, allocVars, current, events, thrown, frames, away, ended>>

Heaps == 1 .. MaxHeap
Allocs == 1 .. MaxAlloc
Root == 1
Global == 2

FreeHeaps == Heaps \ live
FreeAllocs == {a \in Allocs : kind[a] = "free"}
Allocated == Allocs \ FreeAllocs

\* The program's own code runs: nothing is being released and nothing unwinds.
Runs == ended = "no" /\ frames = <<>> /\ thrown = 0

\* The heaps that are found from "starts" along pairs of heaps.
Found(starts, pairs) ==
    LET found[n \in 0 .. MaxHeap] ==
            IF n = 0 THEN starts
            ELSE LET before == found[n - 1]
                 IN  before \cup {e[2] : e \in {d \in pairs : d[1] \in before}}
    IN  found[MaxHeap] \ {0}

\* What vm_require_heap walks: the heap and those it is nested in.
Chain(h) == Found({h}, {<<x, parent[x]>> : x \in Heaps})

\* The heaps whose blocks the program is inside of.
Inside ==
    LET outer == {events[i].prev : i \in {j \in DOMAIN events : events[j].prev # 0}}
    IN  UNION {Chain(h) : h \in (outer \cup {current})}

\* The heaps that end with those of "heaps".
ReachOf(heaps) == Found(heaps, {<<heap[a], handle[a]>> : a \in Allocated})

Reach(h) == ReachOf({h})

\* What others release: this fiber does not touch it any more.
Elsewhere == ReachOf(away)
Mine == LET others == Elsewhere IN {a \in Allocated : heap[a] \notin others}

\* The handles a program may free, move or consume: none of their heaps is being used.
Handles ==
    LET inside == Inside
    IN  {a \in Mine : kind[a] = "handle" /\ Reach(handle[a]) \cap inside = {}}
Movable == LET movable == Handles IN {a \in Mine : kind[a] = "handle" => a \in movable}

------------------------------------------------------------------------------
(* Allocation.                                                              *)

\* vm_heap_create, nested in p or, if p is 0, in none.
Create(h, p) ==
    /\ live' = live \cup {h}
    /\ parent' = [parent EXCEPT ![h] = p]
    /\ in_use' = (in_use \ {h}) \cup ({p} \ {0})

\* vm_heap_alloc_destructable in heap h; a handle is one of heap x.
Insert(a, h, k, x) ==
    /\ allocs' = [allocs EXCEPT ![h] = Append(@, a)]
    /\ kind' = [kind EXCEPT ![a] = k]
    /\ heap' = [heap EXCEPT ![a] = h]
    /\ handle' = [handle EXCEPT ![a] = x]

\* An "object" has a destructor, which allocates.
Alloc ==
    /\ Runs
    /\ FreeAllocs # {}
    /\ \E k \in {"plain", "object"} : Insert(Min(FreeAllocs), current, k, 0)
    /\ UNCHANGED <<live, parent, in_use, current, events, thrown, frames, ended>>

AllocHeap ==
    /\ Runs
    /\ FreeAllocs # {} /\ FreeHeaps # {}
    /\ Create(Min(FreeHeaps), 0)
    /\ Insert(Min(FreeAllocs), current, "handle", Min(FreeHeaps))
    /\ UNCHANGED <<current, events, thrown, frames, ended>>

\* lwt_import_heap: a new handle, in the current heap, takes the heap over.
ImportHeap ==
    /\ Runs
    /\ FreeAllocs # {}
    /\ \E a \in Handles : LET b == Min(FreeAllocs) IN
        /\ handle[a] # 0
        /\ allocs' = [allocs EXCEPT ![current] = Append(@, b)]
        /\ kind' = [kind EXCEPT ![b] = "handle"]
        /\ heap' = [heap EXCEPT ![b] = current]
        /\ handle' = [handle EXCEPT ![b] = handle[a], ![a] = 0]
    /\ UNCHANGED <<live, parent, in_use, current, events, thrown, frames, ended>>

------------------------------------------------------------------------------
(* Moving allocations between heaps.                                        *)

\* The list of a heap without an allocation.
Unlisted(list, a) == RemoveAt(list, CHOOSE i \in DOMAIN list : list[i] = a)

Move(a, h) ==
    LET lists == [allocs EXCEPT ![heap[a]] = Unlisted(@, a)] IN
    /\ allocs' = [lists EXCEPT ![h] = Append(@, a)]
    /\ heap' = [heap EXCEPT ![a] = h]

\* lwt_alloc_escape.  The parent is read with its in use bit: if that is set, what is
\* written to is no heap.
Escape ==
    /\ Runs
    /\ \E a \in Mine : LET h == heap[a] IN
        /\ h \in in_use => EscapesOuter
        /\ IF h \notin in_use /\ parent[h] # 0
           THEN Move(a, parent[h]) /\ UNCHANGED ended
           ELSE /\ ended' = IF h \in in_use THEN "corrupt" ELSE "fatal"
                /\ UNCHANGED <<allocs, heap>>
    /\ UNCHANGED <<live, parent, in_use, kind, handle, current, events, thrown, frames>>

Import ==
    /\ Runs
    /\ \E a \in Movable : heap[a] # current /\ Move(a, current)
    /\ UNCHANGED <<live, parent, in_use, kind, handle, current, events, thrown, frames, ended>>

------------------------------------------------------------------------------
(* Releasing.                                                               *)

\* vm_heap_release begins, on top of the releases "under"; it fails on a heap in use.
Release(h, under, leaves) ==
    IF h \in in_use
    THEN ended' = "core" /\ UNCHANGED <<in_use, frames>>
    ELSE /\ in_use' = in_use \cup {h}
         /\ frames' = <<[heap |-> h, batch |-> <<>>, leaves |-> leaves]>> \o under
         /\ UNCHANGED ended

\* vm_heap_free_raw: the destructor, then the memory.  "lists" is without the allocation.
\* What an object's destructor allocates, here in the memory of the object, is in the
\* current heap, which may be the one that is being released.
Destroy(a, lists, under) ==
    /\ kind' = [kind EXCEPT ![a] = IF @ = "object" THEN "plain" ELSE "free"]
    /\ heap' = [heap EXCEPT ![a] = IF kind[a] = "object" THEN current ELSE 0]
    /\ handle' = [handle EXCEPT ![a] = 0]
    /\ allocs' = IF kind[a] = "object" THEN [lists EXCEPT ![current] = Append(@, a)] ELSE lists
    /\ IF handle[a] = 0
       THEN frames' = under /\ UNCHANGED <<in_use, ended>>
       ELSE Release(handle[a], under, FALSE)

\* lwt_alloc_free.
Free ==
    /\ Runs
    /\ \E a \in Movable :
        IF heap[a] \in Chain(current)
        THEN Destroy(a, [allocs EXCEPT ![heap[a]] = Unlisted(@, a)], frames)
        ELSE ended' = "fatal" /\ UNCHANGED <<in_use, allocVars, frames>>
    /\ UNCHANGED <<live, parent, current, events, thrown>>

\* vm_heap_import_all of the heap of handle a, then lwt_alloc_free of the handle.
TakeAll(a, dst) ==
    LET src == handle[a]
        lists == [allocs EXCEPT ![dst] = @ \o allocs[src], ![src] = <<>>] IN
    /\ allocs' = [lists EXCEPT ![heap[a]] = Unlisted(@, a)]
    /\ kind' = [kind EXCEPT ![a] = "free"]
    /\ heap' = [b \in Allocs |-> IF b = a THEN 0 ELSE IF heap[b] = src THEN dst ELSE heap[b]]
    /\ handle' = [handle EXCEPT ![a] = 0]
    /\ Release(src, frames, FALSE)

\* lwt_consume_heap, of a handle the program may free here.
Consume ==
    /\ Runs
    /\ \E a \in Handles :
        /\ handle[a] # 0 /\ heap[a] \in Chain(current)
        /\ TakeAll(a, current)
    /\ UNCHANGED <<live, parent, current, events, thrown>>

\* __rcd_escape_sh_txn: a sub_heap_txn block is left in order; its handle is in its sub heap.
EscapeTxn ==
    /\ Runs
    /\ events # <<>> /\ events[1].type = "sub"
    /\ \E a \in Handles :
        /\ handle[a] # 0 /\ heap[a] = current
        /\ TakeAll(a, parent[current])
    /\ UNCHANGED <<live, parent, current, events, thrown>>

\* __rcd_escape_gh_txn: a global_heap block, which is a sub heap and a heap switched to, is
\* left in order.  A heap without allocations goes with the sub heap.
EscapeGlobal ==
    /\ Runs
    /\ events # <<>> /\ events[1].type = "sub"
    /\ \E a \in Handles :
        /\ handle[a] # 0 /\ heap[a] = current
        /\ allocs[handle[a]] # <<>>
        /\ Move(a, Global)
    /\ UNCHANGED <<live, parent, in_use, kind, handle, current, events, thrown, frames, ended>>

Releasing == ended = "no" /\ frames # <<>>

\* Slip: what the destructors have added is not looked at.
DrainedOnce(f) == f.batch = <<>>
\* Both the list being freed and the one destructors have added to are empty.
Drained(f) == f.batch = <<>> /\ allocs[f.heap] = <<>>

\* The next allocation of the list that is being freed.
ReleaseNext ==
    /\ Releasing
    /\ LET f == Head(frames) IN
        /\ f.batch # <<>>
        /\ Destroy(Head(f.batch), allocs, <<[f EXCEPT !.batch = Tail(@)]>> \o Tail(frames))
    /\ UNCHANGED <<live, parent, current, events, thrown>>

\* The list has been freed and the heap has got another one from the destructors.
ReleaseAgain ==
    /\ Releasing
    /\ LET f == Head(frames) IN
        /\ f.batch = <<>> /\ allocs[f.heap] # <<>>
        /\ frames' = [frames EXCEPT ![1].batch = allocs[f.heap]]
        /\ allocs' = [allocs EXCEPT ![f.heap] = <<>>]
    /\ UNCHANGED <<live, parent, in_use, kind, heap, handle, current, events, thrown, ended>>

\* The heap is returned; the heap it was nested in may be used again.
ReleaseEnds ==
    /\ Releasing
    /\ LET f == Head(frames)  p == parent[f.heap] IN
        /\ Drained(f)
        /\ IF p # 0 /\ p \notin in_use
           THEN ended' = "core" /\ UNCHANGED <<live, parent, in_use, frames, current>>
           ELSE /\ live' = live \ {f.heap}
                /\ parent' = [parent EXCEPT ![f.heap] = 0]
                /\ in_use' = in_use \ {f.heap, p}
                /\ frames' = Tail(frames)
                /\ current' = IF f.leaves THEN p ELSE current
                /\ ended' = IF f.heap = Root THEN "done" ELSE "no"
    /\ UNCHANGED <<allocVars, events, thrown>>

------------------------------------------------------------------------------
(* Blocks.                                                                  *)

\* A block that switches heaps knows the one to go back to, a mitosis and an emitosis also
\* the one they made.
PushEvent(type, prev, new) ==
    /\ Len(events) < MaxDepth
    /\ events' = <<[type |-> type, prev |-> prev, new |-> new]>> \o events

PopEvent(type) ==
    /\ events # <<>> /\ events[1].type = type
    /\ events' = Tail(events)

\* vm_heap_create fails, before there is an event, if the current heap is in use: the fiber
\* is inside of a sub heap of it already and has switched back.
PushSubHeap ==
    /\ Runs
    /\ IF current \in in_use
       THEN ended' = "in use" /\ UNCHANGED <<live, parent, in_use, current, events>>
       ELSE /\ FreeHeaps # {}
            /\ PushEvent("sub", 0, 0)
            /\ Create(Min(FreeHeaps), current)
            /\ current' = Min(FreeHeaps)
            /\ UNCHANGED ended
    /\ UNCHANGED <<allocVars, thrown, frames>>

\* Nothing stops a program from switching to a heap that it is inside of already.
PushSwitchHeap ==
    /\ Runs
    /\ PushEvent("switch", current, 0)
    /\ \E a \in Mine : kind[a] = "handle" /\ handle[a] # 0 /\ current' = handle[a]
    /\ UNCHANGED <<live, parent, in_use, allocVars, thrown, frames, ended>>

\* An emitosis block: lwt_alloc_heap, then a switch to the heap.
PushEmitosis ==
    /\ Runs
    /\ FreeAllocs # {} /\ FreeHeaps # {}
    /\ PushEvent("emitosis", current, Min(FreeHeaps))
    /\ Create(Min(FreeHeaps), 0)
    /\ Insert(Min(FreeAllocs), current, "handle", Min(FreeHeaps))
    /\ current' = Min(FreeHeaps)
    /\ UNCHANGED <<thrown, frames, ended>>

\* The heap of a fiber in mitosis is current until the fiber is started.
PushMitosis ==
    /\ Runs
    /\ FreeHeaps # {}
    /\ PushEvent("mitosis", current, Min(FreeHeaps))
    /\ Create(Min(FreeHeaps), 0)
    /\ current' = Min(FreeHeaps)
    /\ UNCHANGED <<allocVars, thrown, frames, ended>>

PushTry ==
    /\ Runs
    /\ PushEvent("try", 0, 0)
    /\ UNCHANGED <<live, parent, in_use, allocVars, current, thrown, frames, ended>>

\* The pops, of a block that is left in order or unwound.
PopsBlock == ended = "no" /\ frames = <<>>

PopSubHeap ==
    /\ PopsBlock
    /\ PopEvent("sub")
    /\ Release(current, frames, TRUE)
    /\ UNCHANGED <<live, parent, allocVars, current, thrown>>

PopSwitchHeap ==
    /\ PopsBlock
    /\ PopEvent("switch")
    /\ current' = events[1].prev
    /\ UNCHANGED <<live, parent, in_use, allocVars, thrown, frames, ended>>

\* The switch of an emitosis block is only unwound: left in order, the block asserts.
PopEmitosis ==
    /\ PopsBlock
    /\ PopEvent("emitosis")
    /\ current' = events[1].prev
    /\ ended' = IF thrown = 0 THEN "fatal" ELSE "no"
    /\ UNCHANGED <<live, parent, in_use, allocVars, thrown, frames>>

\* The fiber is started with its heap; unwound, as a zombie that returns at once.
PopMitosis ==
    /\ PopsBlock
    /\ PopEvent("mitosis")
    /\ away' = away \cup {events[1].new}
    /\ current' = events[1].prev
    /\ UNCHANGED <<live, parent, in_use, allocVars, thrown, frames, ended>>

\* A try block is left in order, or unwound for it does not catch the exception and
\* another does.
PopTry ==
    /\ PopsBlock
    /\ PopEvent("try")
    /\ thrown # 0 => \E i \in DOMAIN Tail(events) : Tail(events)[i].type = "try"
    /\ UNCHANGED <<live, parent, in_use, allocVars, current, thrown, frames, ended>>

------------------------------------------------------------------------------
(* Exceptions.  One that no block catches is fatal.                         *)

IsCaught == \E i \in DOMAIN events : events[i].type = "try"

\* lwt_throw_new_exception: the handle it makes is freed before the first event is popped.
Throw ==
    /\ Runs
    /\ FreeHeaps # {} /\ FreeAllocs # {}
    /\ IF IsCaught
       THEN Create(Min(FreeHeaps), 0) /\ thrown' = Min(FreeHeaps) /\ UNCHANGED ended
       ELSE ended' = "fatal" /\ UNCHANGED <<live, parent, in_use, thrown>>
    /\ UNCHANGED <<allocVars, current, events, frames>>

\* Slip: the handle keeps the heap.
KeepActive(a) == UNCHANGED allocVars

\* lwt_throw_exception deactivates the handle and frees it, which does nothing, unnoticed,
\* if the handle is in no heap the current one is nested in.
Deactivate(a) ==
    LET freed == heap[a] \in Chain(current) IN
    /\ handle' = [handle EXCEPT ![a] = 0]
    /\ kind' = [kind EXCEPT ![a] = IF freed THEN "free" ELSE @]
    /\ heap' = [heap EXCEPT ![a] = IF freed THEN 0 ELSE @]
    /\ allocs' = IF freed THEN [allocs EXCEPT ![heap[a]] = Unlisted(@, a)] ELSE allocs

\* lwt_throw_exception, of an exception in the heap of handle a.
ThrowHeap(a) ==
    IF IsCaught
    THEN Deactivate(a) /\ thrown' = handle[a] /\ UNCHANGED ended
    ELSE ended' = "fatal" /\ UNCHANGED <<allocVars, thrown>>

\* An exception that was caught is thrown again, or forwarded by one that shares its heap.
Rethrow ==
    /\ Runs
    /\ FreeAllocs # {}
    /\ \E a \in Handles : handle[a] # 0 /\ ThrowHeap(a)
    /\ UNCHANGED <<live, parent, in_use, current, events, frames>>

\* throw_em: the heap of the innermost emitosis block, which the fiber is inside of, is that of
\* the exception.
ThrowEm ==
    /\ Runs
    /\ FreeAllocs # {}
    /\ \E i \in DOMAIN events, a \in Allocated :
        /\ events[i].type = "emitosis"
        /\ \A j \in 1 .. i - 1 : events[j].type \notin {"emitosis", "try"}
        /\ handle[a] = events[i].new
        /\ ThrowHeap(a)
    /\ UNCHANGED <<live, parent, in_use, current, events, frames>>

\* forward_exception: the catching block is popped, and a handle in its heap takes over.
Catch ==
    /\ PopsBlock
    /\ thrown # 0
    /\ PopEvent("try")
    /\ Insert(Min(FreeAllocs), current, "handle", thrown)
    /\ thrown' = 0
    /\ UNCHANGED <<live, parent, in_use, current, frames, ended>>

\* lwt_fiber_finalize: the fiber's main returns and the root heap is released.
Finalize ==
    /\ Runs
    /\ events = <<>>
    /\ Release(current, frames, FALSE)
    /\ UNCHANGED <<live, parent, allocVars, current, events, thrown>>

------------------------------------------------------------------------------
Init ==
    /\ live = {Root, Global} /\ away = {Global}
    /\ parent = [h \in Heaps |-> 0]
    /\ in_use = {}
    /\ allocs = [h \in Heaps |-> <<>>]
    /\ kind = [a \in Allocs |-> "free"]
    /\ heap = [a \in Allocs |-> 0]
    /\ handle = [a \in Allocs |-> 0]
    /\ current = Root
    /\ events = <<>>
    /\ thrown = 0
    /\ frames = <<>>
    /\ ended = "no"

Ended == ended # "no" /\ UNCHANGED vars

Calls ==
    \/ Alloc \/ AllocHeap \/ ImportHeap \/ Escape \/ Import \/ Free \/ Consume
    \/ EscapeTxn \/ EscapeGlobal
    \/ ReleaseNext \/ ReleaseAgain \/ ReleaseEnds
    \/ PushSubHeap \/ PushSwitchHeap \/ PushEmitosis \/ PushTry
    \/ PopSubHeap \/ PopSwitchHeap \/ PopEmitosis \/ PopTry
    \/ Throw \/ Rethrow \/ ThrowEm \/ Catch \/ Finalize

Next ==
    \/ Calls /\ UNCHANGED away
    \/ PushMitosis /\ UNCHANGED away
    \/ PopMitosis
    \/ Ended

Spec == Init /\ [][Next]_vars

------------------------------------------------------------------------------
(* Properties.                                                              *)

Broken == ended \notin {"no", "done"}

\* Who releases heap h in the end: the fiber, the block the heap is nested by, a handle,
\* the exception that unwinds, a fiber in mitosis, another fiber, or the release that is
\* under way.
Owners(h) ==
    {<<"fiber", 0>> : x \in {Root} \cap {h}}
    \cup {<<"block", x>> : x \in {parent[h]} \ {0}}
    \cup {<<"handle", a>> : a \in {b \in Allocated : handle[b] = h}}
    \cup {<<"other", x>> : x \in away \cap {h}}
    \cup {<<"mitosis", i>> : i \in {j \in DOMAIN events :
                                        events[j].type = "mitosis" /\ events[j].new = h}}
    \cup {<<"exception", 0>> : x \in {thrown} \cap {h}}
    \cup {<<"release", i>> : i \in {j \in DOMAIN frames :
                                        frames[j].heap = h /\ h # Root /\ parent[h] = 0}}

\* Whatever the blocks, the destructors and the exceptions do, every heap has one owner and
\* no owner has a heap that is gone: no heap is released twice and none is lost.
HeapsOwnedOnce ==
    Broken \/ /\ \A h \in live : Cardinality(Owners(h)) = 1
              /\ \A a \in Allocated : handle[a] \in live \cup {0}
              /\ thrown \in live \cup {0}
              /\ ended = "no" => current \in live

\* The program is inside of a heap that is nested in the current one: from there it has
\* switched to this one a second time.
Reentered ==
    \E i \in DOMAIN events : LET prev == events[i].prev IN
        prev \notin {0, current} /\ current \in Chain(prev)

\* A fiber ends with every allocation and every heap freed that it has not given away, also
\* those destructors made in a heap that was being released.  No release finds its heap in
\* use, and a sub_heap finds the current heap in use only if the program has switched to it
\* from inside of a heap that is nested in it.
EndsInOrder ==
    /\ ended \notin {"core", "corrupt"}
    /\ ended = "in use" => Reentered
    /\ ended = "done" => live \subseteq Elsewhere /\ Mine = {}
==============================================================================
