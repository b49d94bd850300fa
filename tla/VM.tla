---------------------------------- MODULE VM ----------------------------------
(***************************************************************************)
(* The virtual memory allocator and its janitor thread, src/vm.c up to the *)
(* heaps.  Chunks of 2^(c-1) lines are kept in a free list per class c and *)
(* split on demand; chunks of a page or more that are given back are dirty *)
(* until the janitor has returned their pages to the system, and may be    *)
(* reused as they are until then.                                          *)
(*                                                                         *)
(* A free chunk smaller than a page holds its own list node; a larger one  *)
(* needs a node of its own (an index), and when there is none the first    *)
(* page of the chunk becomes a page of indexes for good.                   *)
(*                                                                         *)
(* One action is one section under dirty_mmaps_lock, one under the list    *)
(* lock with the sections under the index lock that it leads to, one       *)
(* system call or one access outside them.                                 *)
(***************************************************************************)
EXTENDS VMChunk, Sequences, FiniteSets, SequencesExt, FiniteSetsExt, Functions

CONSTANTS Threads,        (* the threads that call the allocator            *)
          Lines,          (* the lines of the address space                 *)
          PageClass,      (* the class of a page                            *)
          InitEnd,        (* the initial pool_mmap_end_2e                   *)
          MaxClass,       (* the largest class of the model                 *)
          PerPage,        (* the indexes a page is divided into             *)
          Requests,       (* the classes that are asked for                 *)
          MaxCalls,       (* bounds the calls that are made                 *)
          MaxShrink,      (* the classes a reallocation may shrink by       *)
          HolesTaken      (* whether the system may place a mapping in the  *)
                          (* range a reallocation unmaps for a moment       *)

Janitor == "janitor"
Nowhere == -1

ASSUME VMAssumption ==
    /\ IsFiniteSet(Threads) /\ Janitor \notin Threads
    /\ {Lines, PerPage, MaxCalls, MaxShrink} \subseteq Nat /\ PerPage >= MaxClass - PageClass /\ PerPage > 0
    /\ PageClass \in 2 .. MaxClass
    /\ InitEnd \in Nat /\ Requests \subseteq 1 .. MaxClass - 1
    /\ MaxClass \in Nat /\ Lines < LinesIn(MaxClass + 1)
    /\ HolesTaken \in BOOLEAN

VARIABLES mapped,         (* the lines that are mapped                      *)
          free,           (* free_vm_list: per class, addresses             *)
          indexes,        (* the length of free_map_ranges                  *)
          indexPages,     (* the pages that were made indexes               *)
          end,            (* pool_mmap_end_2e                               *)
          new,            (* new_dirty_mmap_queue, of chunks                *)
          old,            (* old_dirty_mmap_queue                           *)
          sizes,          (* dirty_mmap_sizes: per class, addresses         *)
          waitState,      (* janitor_wait_state                             *)
          alarm,          (* SIGALRM is pending for the janitor             *)
          owned,          (* the class of each chunk a caller holds         *)
          lost,           (* lines a reallocation that shrank left behind   *)
          pc,             (* per thread, where it is                        *)
          hand,           (* per thread, the chunk it works on              *)
          moving,         (* per thread, the chunk it reallocates           *)
          calls,          (* the calls made so far                          *)
          down            (* out of memory: the program has been ended      *)

listVars == <<free, indexes, indexPages>>
dirtyVars == <<new, old, sizes>>
poolVars == <<mapped, listVars, end>>
callVars == <<owned, lost, moving>>
vars == <<poolVars, dirtyVars, waitState, alarm, callVars, pc, hand, calls, down>>

Procs == Threads \cup {Janitor}
Classes == 1 .. MaxClass

Chunk(a, c) == [at |-> a, class |-> c]
NoChunk == Chunk(Nowhere, 1)

\* Slip: all the parts begin where the first part ends.
HalvesOverlapping(a, large, c) ==
    [i \in 1 .. large - c |-> Chunk(a + LinesIn(c), large - i)]

\* What is left of the chunk at a when its first part, of class c, is split off: one
\* chunk of each class from c up to large - 1, in the order they are pushed.
Halves(a, large, c) ==
    [i \in 1 .. large - c |-> Chunk(a + LinesIn(large - i), large - i)]

Queued == ToSet(new) \cup ToSet(old)

------------------------------------------------------------------------------
(* Kernel mappings.                                                         *)

\* The lines a reallocation has unmapped and will map again.
Hole ==
    (UNION {Span(hand[t].at, hand[t].class) : t \in {u \in Threads : pc[u] = "hole"}})
    \cup (UNION {Span(moving[t], owned[moving[t]]) : t \in {u \in Threads : pc[u] = "refill"}})

\* Where the system places a mapping of that many lines: as high as it fits.
Places(n) ==
    {a \in 0 .. Lines - n :
        (a .. a + n - 1) \cap (mapped \cup (IF HolesTaken THEN {} ELSE Hole)) = {}}

------------------------------------------------------------------------------
(* The end of a reservation, and vm_free_list_push.                         *)

At(p, point) == pc' = [pc EXCEPT ![p] = point]

\* The chunk is the caller's, or a reallocation goes on with it.
Deliver(t, a, c, expanding) ==
    IF ~expanding
    THEN /\ owned' = [b \in DOMAIN owned \cup {a} |-> IF b = a THEN c ELSE owned[b]]
         /\ hand' = [hand EXCEPT ![t] = NoChunk]
         /\ At(t, "idle")
    ELSE /\ hand' = [hand EXCEPT ![t] = Chunk(a, c)]
         /\ At(t, "move")
         /\ UNCHANGED owned

\* Slip: the chunk gets no index.
LinkedUncounted(pool, c) == [pool EXCEPT !.free[c.class] = <<c.at>> \o @]

\* A chunk is put first in the list of its class, with an index if it needs one.
Linked(pool, c) ==
    [free |-> [pool.free EXCEPT ![c.class] = <<c.at>> \o @],
     indexes |-> IF c.class < PageClass THEN pool.indexes ELSE pool.indexes - 1,
     pages |-> pool.pages]

\* Without an index for it, its first page becomes indexes and the rest is linked: a
\* chunk of each class from that of a page on.
PushOne(pool, c) ==
    IF c.class < PageClass \/ pool.indexes > 0
    THEN Linked(pool, c)
    ELSE [free |-> [k \in Classes |->
                      IF k \in PageClass .. c.class - 1 THEN <<c.at + LinesIn(k)>> \o pool.free[k]
                      ELSE pool.free[k]],
          indexes |-> PerPage - (c.class - PageClass),
          pages |-> pool.pages \cup {c.at}]

\* The pool after the chunks are pushed one after the other.
Pushed(pool, chunks) ==
    LET after[i \in 0 .. Len(chunks)] ==
            IF i = 0 THEN pool ELSE PushOne(after[i - 1], chunks[i])
    IN  after[Len(chunks)]

\* The chunks are pushed when the lists are "lists" already.
PushAll(lists, freeIndexes, chunks) ==
    LET pool == Pushed([free |-> lists, indexes |-> freeIndexes, pages |-> indexPages], chunks)
    IN  /\ free' = pool.free
        /\ indexes' = pool.indexes
        /\ indexPages' = pool.pages

\* The push at the end of vm_mmap_unreserve, and the janitor's.
Push(p, from, to) ==
    /\ ~down
    /\ pc[p] = from
    /\ PushAll(free, indexes, <<hand[p]>>)
    /\ hand' = [hand EXCEPT ![p] = NoChunk]
    /\ At(p, to)
    /\ UNCHANGED <<mapped, end, dirtyVars, waitState, alarm, callVars, down>>

------------------------------------------------------------------------------
(* vm_mmap_reserve and vm_free_list_pop.                                    *)

Except(queue, a) == RemoveAt(queue, CHOOSE i \in DOMAIN queue : queue[i].at = a)

\* The section under dirty_mmaps_lock, for a page or more: the chunk is unlinked from
\* the list of its class and from the queue that its is_new names.
PopDirty(t, c, expanding) ==
    IF c >= PageClass /\ sizes[c] # <<>>
    THEN LET a == Head(sizes[c])
             d == CHOOSE x \in Queued : x.at = a
         IN  /\ new' = IF d.is_new THEN Except(new, a) ELSE new
             /\ old' = IF d.is_new THEN old ELSE Except(old, a)
             /\ sizes' = [sizes EXCEPT ![c] = Tail(@)]
             /\ Deliver(t, a, c, expanding)
    ELSE /\ hand' = [hand EXCEPT ![t] = Chunk(Nowhere, c)]
         /\ At(t, "list")
         /\ UNCHANGED <<owned, dirtyVars>>

Reserve(t) ==
    /\ ~down
    /\ pc[t] = "idle"
    /\ \E c \in Requests : PopDirty(t, c, FALSE)
    /\ UNCHANGED <<poolVars, waitState, alarm, lost, moving, down>>

\* A free chunk of that class or else the smallest larger one below "end", or 0.
Fitting(c) ==
    LET fits == {d \in Classes : d >= c /\ free[d] # <<>> /\ (d = c \/ d < end)}
    IN  IF fits = {} THEN 0 ELSE Min(fits)

\* The class that is asked of the system when no chunk fits.
GrowClass(c) == IF end > c + 1 THEN end ELSE c + 1

\* The section under free_vm_list_lock: a chunk of the pool, whose index becomes free,
\* or a new mapping twice as large as the last.  The caller has its first part, and the
\* rest is pushed.
PopFree(t) ==
    LET c == hand[t].class  d == Fitting(c) IN
    /\ ~down
    /\ pc[t] = "list" /\ d # 0
    /\ LET a == Head(free[d]) IN
        /\ PushAll([free EXCEPT ![d] = Tail(@)],
                   IF d < PageClass THEN indexes ELSE indexes + 1, Halves(a, d, c))
        /\ Deliver(t, a, c, moving[t] # Nowhere)
    /\ UNCHANGED <<mapped, end, dirtyVars, waitState, alarm, lost, moving, down>>

Grow(t) ==
    LET c == hand[t].class  large == GrowClass(c)  places == Places(LinesIn(large)) IN
    /\ ~down
    /\ pc[t] = "list" /\ Fitting(c) = 0
    /\ IF places # {}
       THEN LET a == Max(places) IN
            /\ mapped' = mapped \cup Span(a, large)
            /\ end' = large + 1
            /\ PushAll(free, indexes, Halves(a, large, c))
            /\ Deliver(t, a, c, moving[t] # Nowhere)
            /\ UNCHANGED down
       ELSE /\ down' = TRUE
            /\ UNCHANGED <<mapped, listVars, end, owned, pc, hand>>
    /\ UNCHANGED <<dirtyVars, waitState, alarm, lost, moving>>

------------------------------------------------------------------------------
(* vm_mmap_unreserve.                                                       *)

\* Slip: the janitor is not told.
NoticedNot == waitState

\* The wait state once a dirty chunk is queued.
Noticed == IF waitState = 1 THEN 0 ELSE waitState

\* The chunk is queued as dirty and the janitor is woken, or it is pushed: a chunk of
\* page class whose size is less than a page is not given to the janitor.
GiveBack(t, a, c) ==
    \/ /\ c >= PageClass
       /\ new' = Append(new, [at |-> a, class |-> c, is_new |-> TRUE])
       /\ sizes' = [sizes EXCEPT ![c] = <<a>> \o @]
       /\ waitState' = Noticed
       /\ pc' = [pc EXCEPT ![t] = "idle",
                           ![Janitor] = IF waitState = 1 /\ @ = "asleep" THEN "look" ELSE @]
       /\ hand' = [hand EXCEPT ![t] = NoChunk]
       /\ UNCHANGED old
    \/ /\ c <= PageClass
       /\ hand' = [hand EXCEPT ![t] = Chunk(a, c)]
       /\ At(t, "give")
       /\ UNCHANGED <<dirtyVars, waitState>>

\* The chunks callers may pass: nobody is reallocating them.
Settled == {a \in DOMAIN owned : \A t \in Threads : moving[t] # a}

Unreserve(t) ==
    /\ ~down
    /\ pc[t] = "idle"
    /\ \E a \in Settled :
        /\ owned' = Restrict(owned, DOMAIN owned \ {a})
        /\ GiveBack(t, a, owned[a])
    /\ UNCHANGED <<poolVars, alarm, lost, moving, down>>

------------------------------------------------------------------------------
(* vm_mmap_realloc.                                                         *)

\* Expanding: a new chunk is reserved first.
Expand(t) ==
    /\ ~down
    /\ pc[t] = "idle"
    /\ \E a \in Settled : \E c \in {r \in Requests : r > owned[a]} :
        /\ moving' = [moving EXCEPT ![t] = a]
        /\ PopDirty(t, c, TRUE)
    /\ UNCHANGED <<poolVars, waitState, alarm, lost, down>>

\* The caller's chunk is the new one from here on, and the old one is given back.
Exchange(t) ==
    LET a == moving[t]  c == hand[t] IN
    /\ owned' = [b \in (DOMAIN owned \ {a}) \cup {c.at} |->
                    IF b = c.at THEN c.class ELSE owned[b]]
    /\ moving' = [moving EXCEPT ![t] = Nowhere]
    /\ GiveBack(t, a, owned[a])

\* The content is copied.
Copy(t) ==
    /\ ~down
    /\ pc[t] = "move" /\ owned[moving[t]] < PageClass
    /\ Exchange(t)
    /\ UNCHANGED <<poolVars, alarm, lost, down>>

\* munmap of the new chunk, then mremap of the old pages to it, then mmap of the hole
\* that leaves.
Unmap(t) ==
    /\ ~down
    /\ pc[t] = "move" /\ owned[moving[t]] >= PageClass
    /\ mapped' = mapped \ Span(hand[t].at, hand[t].class)
    /\ At(t, "hole")
    /\ UNCHANGED <<listVars, end, dirtyVars, waitState, alarm, callVars, hand,
                   down>>

Remap(t) ==
    /\ ~down
    /\ pc[t] = "hole"
    /\ mapped' = (mapped \ Span(moving[t], owned[moving[t]]))
                    \cup Span(hand[t].at, hand[t].class)
    /\ At(t, "refill")
    /\ UNCHANGED <<listVars, end, dirtyVars, waitState, alarm, callVars, hand,
                   down>>

Refill(t) ==
    /\ ~down
    /\ pc[t] = "refill"
    /\ mapped' = mapped \cup Span(moving[t], owned[moving[t]])
    /\ Exchange(t)
    /\ UNCHANGED <<listVars, end, alarm, lost, down>>

\* Shrinking by n classes: a chunk of class n is given back, whatever the lines that
\* are not needed.
Shrink(t) ==
    /\ ~down
    /\ pc[t] = "idle"
    /\ \E a \in Settled : \E n \in 1 .. MaxShrink :
        LET c == owned[a] - n IN
        /\ c > 0
        /\ owned' = [owned EXCEPT ![a] = c]
        /\ lost' = lost \cup
                    (Span(a, c + n) \ (Span(a, c) \cup Span(a + LinesIn(c), n)))
        /\ GiveBack(t, a + LinesIn(c), n)
    /\ UNCHANGED <<poolVars, alarm, moving, down>>

------------------------------------------------------------------------------
(* vm_wait_for_janitor.                                                     *)

BeginWait(t) ==
    /\ ~down
    /\ pc[t] = "idle"
    /\ At(t, "wait")
    /\ UNCHANGED <<poolVars, dirtyVars, waitState, alarm, callVars, hand, down>>

\* The test of the loop; then the section that forces the janitor out of its nap.
TestWait(t) ==
    /\ ~down
    /\ pc[t] = "wait"
    /\ At(t, IF waitState = 1 THEN "idle" ELSE "force")
    /\ UNCHANGED <<poolVars, dirtyVars, waitState, alarm, callVars, hand, down>>

ForceJanitor(t) ==
    /\ ~down
    /\ pc[t] = "force"
    /\ At(t, "wait")
    /\ waitState' = IF waitState = 0 THEN -1 ELSE waitState
    /\ alarm' = (alarm \/ waitState = 0)
    /\ UNCHANGED <<poolVars, dirtyVars, callVars, hand, down>>

------------------------------------------------------------------------------
(* vm_janitor_thread.                                                       *)

janitorOnly == <<mapped, listVars, end, callVars, down>>

\* The list of a class without a chunk.
Unlisted(list, a) == RemoveAt(list, CHOOSE i \in DOMAIN list : list[i] = a)

\* The oldest chunk goes back to the system with madvise and then to the pool.  The
\* assertion that it begins at a page, and madvise failing, which is fatal, are left out.
Fetch ==
    /\ ~down
    /\ pc[Janitor] = "fetch"
    /\ IF old # <<>>
       THEN /\ old' = Tail(old)
            /\ sizes' = [sizes EXCEPT ![old[1].class] = Unlisted(@, old[1].at)]
            /\ UNCHANGED new
            /\ hand' = [hand EXCEPT ![Janitor] = Chunk(old[1].at, old[1].class)]
            /\ At(Janitor, "push")
       ELSE /\ At(Janitor, "age")
            /\ UNCHANGED <<dirtyVars, hand>>
    /\ UNCHANGED <<janitorOnly, waitState, alarm>>

\* Slip: a janitor that was forced does not say that it is done.
RestingUnforced == IF waitState = 0 THEN 1 ELSE waitState

\* The wait state once there is nothing left to do.
Resting == 1

\* The chunks queued since the last time are old now; with none there is nothing to do.
Age ==
    /\ ~down
    /\ pc[Janitor] = "age"
    /\ IF new = <<>>
       THEN waitState' = Resting /\ UNCHANGED <<old, new>>
       ELSE /\ old' = [i \in DOMAIN new |-> [new[i] EXCEPT !.is_new = FALSE]]
            /\ new' = <<>>
            /\ UNCHANGED waitState
    /\ At(Janitor, "look")
    /\ UNCHANGED <<janitorOnly, sizes, alarm, hand>>

\* Slip: the janitor does not look whether there is work.
LookBlindly ==
    /\ ~down
    /\ pc[Janitor] = "look"
    /\ At(Janitor, "asleep")
    /\ UNCHANGED <<janitorOnly, dirtyVars, waitState, alarm, hand>>

\* The futex wait, which the system refuses if the word is not 1.
Look ==
    /\ ~down
    /\ pc[Janitor] = "look"
    /\ At(Janitor, IF waitState = 1 THEN "asleep" ELSE "late")
    /\ UNCHANGED <<janitorOnly, dirtyVars, waitState, alarm, hand>>

\* Low priority work waits for sigtimedwait, forced work does not.
Late ==
    /\ ~down
    /\ pc[Janitor] = "late"
    /\ At(Janitor, IF waitState = 0 THEN "nap" ELSE "fetch")
    /\ UNCHANGED <<janitorOnly, dirtyVars, waitState, alarm, hand>>

\* The pending signal is consumed, or else the time is over.
NapEnds ==
    /\ ~down
    /\ pc[Janitor] = "nap"
    /\ alarm' = FALSE
    /\ At(Janitor, "fetch")
    /\ UNCHANGED <<janitorOnly, dirtyVars, waitState, hand>>

------------------------------------------------------------------------------
Init ==
    /\ mapped = {} /\ lost = {} /\ indexPages = {}
    /\ free = [c \in Classes |-> <<>>]
    /\ sizes = [c \in Classes |-> <<>>]
    /\ indexes = 0
    /\ end = InitEnd
    /\ new = <<>> /\ old = <<>>
    /\ waitState = 0 /\ alarm = FALSE
    /\ owned = [a \in {} |-> 0]
    /\ pc = [p \in Procs |-> IF p = Janitor THEN "fetch" ELSE "idle"]
    /\ hand = [p \in Procs |-> NoChunk]
    /\ moving = [t \in Threads |-> Nowhere]
    /\ calls = 0 /\ down = FALSE

\* What a thread does once it is in a call.
InCall(t) ==
    /\ UNCHANGED calls
    /\ \/ Push(t, "give", "idle") \/ PopFree(t) \/ Grow(t)
       \/ Copy(t) \/ Unmap(t) \/ Remap(t) \/ Refill(t) \/ TestWait(t) \/ ForceJanitor(t)

Call(t) ==
    /\ calls < MaxCalls
    /\ calls' = calls + 1
    /\ Reserve(t) \/ Unreserve(t) \/ Expand(t) \/ Shrink(t) \/ BeginWait(t)

JanitorStep ==
    /\ UNCHANGED calls
    /\ Push(Janitor, "push", "fetch") \/ Fetch \/ Age \/ Look \/ Late \/ NapEnds

\* The program has been ended, or all the calls are over and the janitor sleeps.
Ended ==
    /\ \/ down
       \/ /\ calls = MaxCalls /\ pc[Janitor] = "asleep"
          /\ \A t \in Threads : pc[t] = "idle"
    /\ UNCHANGED vars

Next ==
    \/ \E t \in Threads : Call(t) \/ InCall(t)
    \/ JanitorStep
    \/ Ended

\* The threads run; nobody has to call the allocator.
Fairness ==
    /\ \A t \in Threads : WF_vars(InCall(t))
    /\ WF_vars(JanitorStep)

Spec == Init /\ [][Next]_vars /\ Fairness

------------------------------------------------------------------------------
(* Properties.                                                              *)

\* A thread's chunk is in no list and not the caller's yet.
Holding == {"move", "hole", "refill", "give", "push"}

Part(place, a, c) == [place |-> place, at |-> a, class |-> c]
LinesOf(x) == Span(x.at, x.class)

\* The chunks, each with the place it is in.
Parts ==
    {Part(<<"owned">>, a, owned[a]) : a \in DOMAIN owned}
    \cup {Part(<<"index">>, a, PageClass) : a \in indexPages}
    \cup (UNION {{Part(<<"free">>, a, c) : a \in ToSet(free[c])} : c \in Classes})
    \cup {Part(<<"new">>, d.at, d.class) : d \in ToSet(new)}
    \cup {Part(<<"old">>, d.at, d.class) : d \in ToSet(old)}
    \cup {Part(<<"hand", p>>, hand[p].at, hand[p].class) : p \in {q \in Procs : pc[q] \in Holding}}

\* What the system has mapped, or will have when the reallocations are over.
Pool == mapped \cup Hole

\* Every line of the pool is in exactly one chunk: a caller's, a free one, a dirty one,
\* one that a thread or the janitor is moving between these, a page of indexes, or what
\* a reallocation that shrank left behind.  No chunk is given twice or forgotten
\* (vm_free_list_push, vm_free_list_pop, vm_mmap_unreserve, vm_mmap_realloc and the
\* janitor).
Accounted ==
    /\ (UNION {LinesOf(x) : x \in Parts}) \cup lost = Pool
    /\ \A x, y \in Parts : x # y => LinesOf(x) \cap LinesOf(y) = {}
    /\ \A x \in Parts : LinesOf(x) \cap lost = {}
    /\ IsInjective(new) /\ IsInjective(old) /\ \A c \in Classes : IsInjective(free[c])

\* What a caller holds is available to it alone.  include/vm.h:51 says of
\* vm_mmap_reserve: "This function will always return available memory".
MemoryIsAvailable ==
    \A a, b \in DOMAIN owned : a # b => Span(a, owned[a]) \cap Span(b, owned[b]) = {}

\* The lists agree with one another: each index is free or holds a chunk, and a dirty
\* chunk is in the list of its class and in the queue its is_new names, however the
\* callers that reuse it and the janitor that cleans it take turns.
ListsAgree ==
    /\ PerPage * Cardinality(indexPages)
         = indexes + Cardinality({x \in Parts : x.place = <<"free">> /\ x.class >= PageClass})
    /\ \A c \in Classes : ToSet(sizes[c]) = {d.at : d \in {x \in Queued : x.class = c}}
    /\ \A d \in ToSet(new) : d.is_new
    /\ \A d \in ToSet(old) : ~d.is_new

\* No chunk is given twice or forgotten, and the lists know the chunks they hold.
PoolConsistent == Accounted /\ ListsAgree

\* When the wait state says that the janitor is waiting, all the memory that was given
\* back to it has been returned to the system: no chunk is dirty and it works on none.
\* vm_wait_for_janitor returns on this word alone, and the janitor sleeps on it.
WaitingIsClean ==
    waitState = 1 => /\ Queued = {}
                     /\ pc[Janitor] \in {"look", "asleep"}

Dirty == {d.at : d \in Queued}

\* A dirty chunk does not stay dirty: it is reused, or the janitor returns its pages to
\* the system (include/vm.h: "guaranteed to be returned to the system").  The janitor
\* is not left asleep when a chunk is queued.
DirtyIsReclaimed ==
    \A a \in {b \in 0 .. Lines - 1 : b % LinesIn(PageClass) = 0} :
        []<>(a \notin Dirty \/ down)

\* A thread that waits for the janitor returns, if from some time on no chunk becomes
\* dirty.  The signal that ends the janitor's nap may come before the nap.
QueuesDirty == Len(new') > Len(new)

WaitReturns ==
    \A t \in Threads :
        <>[][~QueuesDirty]_vars
            => []<>(pc[t] \notin {"wait", "force"} \/ down)

\* The allocator keeps the promise of VMAlloc, the chunks held being the callers'.
Alloc == INSTANCE VMAlloc WITH held <- owned
ImplementsVMAlloc == Alloc!Spec
==============================================================================
