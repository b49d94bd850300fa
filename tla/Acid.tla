-------------------------------- MODULE Acid --------------------------------
(***************************************************************************)
(* The journaled store of src/acid.c: memory that is mapped privately from *)
(* a data file, a fault handler that notes which pages get dirty, callers  *)
(* that ask for a sync and wait, and one sync thread that takes snapshots, *)
(* writes them to the journal and then copies the journal to the data      *)
(* file.  acid_open replays a journal that was left.                       *)
(*                                                                         *)
(* One action is one section under ilock, plock or ctrl.lock with the wait *)
(* fibers that are canceled right after it, one system call, or one page.  *)
(* A store to a page is one step, of any thread, and is not under any      *)
(* lock.  Store values are numbers, a page holds the last.  The hash is    *)
(* the contents it is taken of.                                            *)
(***************************************************************************)
EXTENDS DiskFile, FiniteSets, SequencesExt

CONSTANTS Callers,        (* fibers that ask for syncs                      *)
          Programs        (* what the program that uses the store may do    *)

Kinds == {"snapshot", "commit", "sync"}

\* async: acid_fsync_async, and a wait for the fiber it returns.
Functions == {"fsync", "fsync_journal", "snapshot", "async", "close"}

\* A program: what the callers may call, who may be canceled, the lengths it opens (0: any will do) and
\* expands the store with, what may happen to it, "kill" or "power", and the bounds
\* on its stores and crashes.
ASSUME AcidAssumption ==
    /\ IsFiniteSet(Pages) /\ Pages # {} /\ Pages = 1..Cardinality(Pages)
    /\ \A p \in Programs :
        /\ p.asks \subseteq Callers \X Functions /\ p.canceled \subseteq Callers
        /\ p.opens \subseteq Pages \union {0} /\ p.expands \subseteq Pages
        /\ p.failures \subseteq {"kill", "power"}
        /\ p.stores \in Nat /\ p.crashes \in Nat

\* An open never makes the store shorter, so that no page of it is thrown away.
Grows(programs) ==
    \A p \in programs : \A n \in p.opens \ {0} : \A m \in p.opens \union p.expands : m <= n

\* A process that was killed leaves what it wrote in the caches: the power does not fail too.
OneFailure(programs) == \A p \in programs : ~({"kill", "power"} \subseteq p.failures)

VARIABLES data, journal,  (* the files (external)                           *)
          main,           (* where acid_open and acid_close are             *)
          length,         (* data_length                                    *)
          expanding,      (* acid_expand has ilock                          *)
          private,        (* per page, its private copy, or Unmodified      *)
          writable,       (* the pages that can be stored to                *)
          dirty,          (* dpage_index                                    *)
          npages,         (* npage_index: pages of the snapshot             *)
          cow,            (* per page of it, new_page_cow or Unmodified     *)
          jbuffered,      (* those that are in the journal's cache          *)
          plock,          (* those of which the sync thread has the lock    *)
          sync,           (* where the sync thread is                       *)
          vec,            (* the pages still to do, by it or by acid_open   *)
          hashed,         (* the contents of the pages it has hashed        *)
          op, op_futex, in_sync,  (* ctrl                                   *)
          waits,          (* per kind, the callers of ctrl's wait fiber     *)
          taken,          (* per kind, those of the sync thread's           *)
          at,             (* per caller, "idle", "kick" or "wait"           *)
          waits_for,      (* per caller, the kind it waits for              *)
          program, stores, crashes,
          asked,          (* ghost: per caller, the memory when it asked    *)
          snapshot,       (* ghost: the memory at the last snapshot         *)
          durable         (* ghost: that which a crash cannot undo any more *)

files == <<data, journal>>
memoryVars == <<private, writable, dirty>>
commitVars == <<npages, cow, jbuffered, plock, vec, hashed>>
ctrlVars == <<op, op_futex, in_sync, waits, taken>>
callers == <<at, waits_for, asked>>
bounds == <<program, stores, crashes>>
ghosts == <<snapshot, durable>>
vars == <<files, main, length, expanding, memoryVars, commitVars, sync, ctrlVars,
          callers, bounds, ghosts>>

Unmodified == -2

\* replay to map: in acid_open.  mapped: in use.  closing to exiting: in acid_close.
OpenPoints == {"replay", "replay_sync", "truncate", "resize", "resize_sync", "map"}
MainPoints == OpenPoints \union {"mapped", "closing", "quit_kick", "exiting", "closed"}

\* loop to fsync: until the snapshot is in the journal; persisted to done: after.
SyncPoints == {"none", "loop", "futex", "sleep", "snapshot", "prepare", "page", "hashed", "index",
               "fsync", "persisted", "verify", "copy", "remap", "fsync_data", "discard",
               "done", "exited"}

Reset == [p \in Pages |-> Unmodified]
NoCallers == [k \in Kinds |-> {}]

TypeOK ==
    /\ program \in Programs
    /\ main \in MainPoints /\ sync \in SyncPoints
    /\ length \in 0..Cardinality(Pages) /\ expanding \in BOOLEAN
    /\ \A p \in Pages : {private[p], cow[p]} \subseteq {Unmodified, Torn} \union 0..program.stores
    /\ writable = dirty /\ dirty \subseteq Pages
    /\ plock \subseteq npages /\ jbuffered \subseteq npages /\ npages \subseteq Pages
    /\ ToSet(vec) \subseteq Pages /\ Len(hashed) <= Cardinality(Pages)
    /\ op \in {"none", "commit", "quit"} /\ op_futex \in {0, 1} /\ in_sync \in BOOLEAN
    /\ waits \in [Kinds -> SUBSET Callers] /\ taken \in [Kinds -> SUBSET Callers]
    /\ at \in [Callers -> {"idle", "kick", "wait"}] /\ waits_for \in [Callers -> Kinds]

\* Where the process starts from.
Volatile ==
    /\ expanding = FALSE
    /\ private = Reset /\ writable = {} /\ dirty = {}
    /\ npages = {} /\ cow = Reset /\ jbuffered = {} /\ plock = {} /\ vec = <<>> /\ hashed = <<>>
    /\ sync = "none"
    /\ op = "none" /\ op_futex = 0 /\ in_sync = FALSE
    /\ waits = NoCallers /\ taken = NoCallers
    /\ at = [f \in Callers |-> "idle"]
    /\ waits_for = [f \in Callers |-> "sync"]
    /\ asked = [f \in Callers |-> EmptyPages]

\* And what it loses when it ends.
Lose ==
    /\ expanding' = FALSE
    /\ private' = Reset /\ writable' = {} /\ dirty' = {}
    /\ npages' = {} /\ cow' = Reset /\ jbuffered' = {} /\ plock' = {} /\ vec' = <<>> /\ hashed' = <<>>
    /\ sync' = "none"
    /\ op' = "none" /\ op_futex' = 0 /\ in_sync' = FALSE
    /\ waits' = NoCallers /\ taken' = NoCallers
    /\ at' = [f \in Callers |-> "idle"]
    /\ waits_for' = [f \in Callers |-> "sync"]
    /\ asked' = [f \in Callers |-> EmptyPages]

Init ==
    /\ data = NewFile(1) /\ journal = NewFile(0)
    /\ main = "closed" /\ length = 0
    /\ Volatile
    /\ program \in Programs /\ stores = 0 /\ crashes = 0
    /\ snapshot = EmptyPages /\ durable = EmptyPages

-----------------------------------------------------------------------------
\* What a program reads: its private copy or, through the map, the data file.
Memory == [p \in Pages |-> IF private[p] = Unmodified THEN data.now.page[p] ELSE private[p]]

\* journ_verify, of a journal whose size is in pages after its index.
Verify(j, data_size) ==
    /\ j.index # Blank
    /\ j.size = Len(j.index.ids)
    /\ \A i \in 1..j.size : j.index.ids[i] <= data_size /\ j.page[i] = j.index.hash[i]

\* What acid_open makes of these files.
Recovered(d, j) ==
    [p \in Pages |->
        IF Verify(j, d.size) /\ Contains(j.index.ids, p)
        THEN j.page[SelectInSeq(j.index.ids, LAMBDA id : id = p)]
        ELSE d.page[p]]

\* What may be left after a crash.
Outcomes ==
    (IF "kill" \in program.failures THEN {<<data.now, journal.now>>} ELSE {})
        \union (IF "power" \in program.failures THEN data.may \X journal.may ELSE {})

\* The pages in their order.
SortedPages(pages) ==
    [i \in 1..Cardinality(pages) |->
        CHOOSE p \in pages : Cardinality({q \in pages : q <= p}) = i]

-----------------------------------------------------------------------------
(* The program's stores, and acid_rsig_segv.                               *)

InUse == main = "mapped"

Store(p) ==
    /\ InUse
    /\ p \in writable
    /\ stores < program.stores
    /\ stores' = stores + 1
    /\ private' = [private EXCEPT ![p] = stores']
    /\ UNCHANGED <<files, main, length, expanding, writable, dirty, commitVars, sync, ctrlVars,
                   callers, program, crashes, ghosts>>

\* Slip: no copy is taken.
CopiedNot(p) == cow

\* A page of the snapshot that is not in the journal yet is copied, once.
Copied(p) ==
    IF p \in npages \ jbuffered /\ cow[p] = Unmodified
    THEN [cow EXCEPT ![p] = Memory[p]] ELSE cow

\* A store to a protected page: under ilock and the page's lock it is copied if need
\* be, then it can be stored to.  mprotect may say ENOMEM, to try again later.  (A
\* fault of a thread that comes second finds the page dirty and changes nothing.)
Fault(p) ==
    /\ InUse
    /\ p <= length /\ p \notin writable
    /\ stores < program.stores
    /\ ~expanding /\ p \notin plock
    /\ cow' = Copied(p)
    /\ \/ writable' = writable \union {p} /\ dirty' = dirty \union {p}
       \/ UNCHANGED <<writable, dirty>>
    /\ UNCHANGED <<files, main, length, expanding, private, npages, jbuffered, plock, vec, hashed,
                   sync, ctrlVars, callers, bounds, ghosts>>

-----------------------------------------------------------------------------
(* acid_fsync, acid_fsync_journal, acid_fsync_async.                       *)

\* The kinds of fibers that the caller of a function waits for, and the first.
KindsOf(fn) == CASE fn \in {"fsync", "close"} -> {"sync"} [] fn = "fsync_journal" -> {"commit"}
                 [] fn = "snapshot" -> {"snapshot"} [] fn = "async" -> {"snapshot", "sync"}
FirstOf(fn) == CASE fn \in {"fsync", "close"} -> "sync" [] fn = "fsync_journal" -> "commit"
                 [] OTHER -> "snapshot"

\* Under ctrl.lock: a commit is ordered unless one is.
Ask(f, fn) ==
    /\ at[f] = "idle"
    /\ op # "quit"
    /\ op' = "commit"
    /\ waits' = [k \in Kinds |-> IF k \in KindsOf(fn) THEN waits[k] \union {f} ELSE waits[k]]
    /\ waits_for' = [waits_for EXCEPT ![f] = FirstOf(fn)]
    /\ asked' = [asked EXCEPT ![f] = Memory]
    /\ at' = [at EXCEPT ![f] = IF op = "none" THEN "kick" ELSE "wait"]
    /\ UNCHANGED <<files, length, expanding, memoryVars, commitVars, sync, op_futex, in_sync, taken,
                   bounds, ghosts>>

\* acid_snapshot and acid_fsync_async do nothing while a commit is going on.
Call(f, fn) ==
    /\ InUse
    /\ fn # "close"
    /\ fn \in {"snapshot", "async"} => ~in_sync
    /\ Ask(f, fn)
    /\ UNCHANGED main

\* Whoever ordered the commit wakes the sync thread.
WakeSync ==
    /\ op_futex' = 1
    /\ sync' = IF sync = "sleep" THEN "loop" ELSE sync

Kick(f) ==
    /\ at[f] = "kick"
    /\ WakeSync
    /\ at' = [at EXCEPT ![f] = "wait"]
    /\ UNCHANGED <<files, main, length, expanding, memoryVars, commitVars, op, in_sync, waits, taken,
                   waits_for, asked, bounds, ghosts>>

\* The fiber it waits for is gone.
WaitOver(f) == at[f] = "wait" /\ \A w \in {waits, taken} : f \notin w[waits_for[f]]

\* The caller comes back; nobody looks at its request any more.
Back(f) ==
    /\ at' = [at EXCEPT ![f] = "idle"]
    /\ waits_for' = [waits_for EXCEPT ![f] = "sync"]
    /\ asked' = [asked EXCEPT ![f] = EmptyPages]

\* Or waits for the next fiber it was given.
Return(f) ==
    /\ WaitOver(f)
    /\ IF waits_for[f] = "snapshot" /\ f \in waits["sync"] \union taken["sync"]
       THEN waits_for' = [waits_for EXCEPT ![f] = "sync"] /\ UNCHANGED <<at, asked>>
       ELSE Back(f)
    /\ UNCHANGED <<files, main, length, expanding, memoryVars, commitVars, sync, ctrlVars,
                   bounds, ghosts>>

\* The wait is canceled.  (Not that of acid_close.)
Abort(f) ==
    /\ InUse
    /\ at[f] = "wait" /\ ~WaitOver(f)
    /\ Back(f)
    /\ waits' = [k \in Kinds |-> waits[k] \ {f}]
    /\ taken' = [k \in Kinds |-> taken[k] \ {f}]
    /\ UNCHANGED <<files, main, length, expanding, memoryVars, commitVars, sync, op, op_futex,
                   in_sync, bounds, ghosts>>

-----------------------------------------------------------------------------
(* acid_expand.                                                            *)

ExpandGrow(n) ==
    /\ InUse
    /\ ~expanding /\ length < n
    /\ expanding' = TRUE
    /\ data' = Truncate(data, n)
    /\ UNCHANGED <<journal, main, length, memoryVars, commitVars, sync, ctrlVars, callers, bounds,
                   ghosts>>

ExpandSync ==
    /\ expanding
    /\ expanding' = FALSE
    /\ data' = Sync(data)
    /\ length' = data.now.size
    /\ UNCHANGED <<journal, main, memoryVars, commitVars, sync, ctrlVars, callers, bounds, ghosts>>

-----------------------------------------------------------------------------
(* acid_sync_thread and acid_sync_commit.                                  *)

\* The sync thread takes a step, and what else does not change in any.
SyncStepTo(from, to) ==
    /\ sync = from /\ sync' = to
    /\ UNCHANGED <<main, length, expanding, callers, bounds>>

SyncLoop ==
    /\ SyncStepTo("loop", CASE op = "none" -> "futex" [] op = "commit" -> "snapshot"
                            [] op = "quit" -> "exited")
    /\ op_futex' = 0
    /\ UNCHANGED <<files, memoryVars, commitVars, op, in_sync, waits, taken, ghosts>>

FutexWait ==
    /\ SyncStepTo("futex", IF op_futex = 0 THEN "sleep" ELSE "loop")
    /\ UNCHANGED <<files, memoryVars, commitVars, ctrlVars, ghosts>>

\* Slip: the pages are not protected.
ProtectedNot == writable

Protected == {}

\* Under ilock all pages are protected and the dirty ones become those of the
\* snapshot; those who asked so far wait for it, and a later one for the next.
TakeSnapshot ==
    /\ SyncStepTo("snapshot", "prepare")
    /\ ~expanding /\ dirty # {}
    /\ writable' = Protected /\ dirty' = {}
    /\ npages' = dirty /\ cow' = Reset /\ jbuffered' = {}
    /\ vec' = SortedPages(dirty) /\ hashed' = <<>>
    /\ op' = "none" /\ in_sync' = TRUE
    /\ waits' = NoCallers
    /\ taken' = [waits EXCEPT !["snapshot"] = {}]
    /\ snapshot' = Memory
    /\ UNCHANGED <<files, private, plock, op_futex, durable>>

\* Slip: nothing is dirty, it looks at nothing else.
SkipEarly ==
    /\ SyncStepTo("snapshot", "loop")
    /\ ~expanding /\ dirty = {}
    /\ UNCHANGED <<files, memoryVars, commitVars, ctrlVars, ghosts>>

\* Nothing is dirty, nobody waits.
SkipSnapshot ==
    /\ SyncStepTo("snapshot", "loop")
    /\ ~expanding /\ dirty = {}
    /\ op' = "none" /\ in_sync' = FALSE
    /\ waits' = NoCallers
    /\ UNCHANGED <<files, memoryVars, commitVars, op_futex, taken, ghosts>>

PrepareJournal ==
    /\ SyncStepTo("prepare", "page")
    /\ journal' = Truncate(journal, Cardinality(npages))
    /\ UNCHANGED <<data, memoryVars, commitVars, ctrlVars, ghosts>>

\* A page that was copied is hashed and written without the lock.
JournalCow(p) ==
    /\ SyncStepTo("page", "page")
    /\ cow[p] # Unmodified
    /\ hashed' = Append(hashed, cow[p])
    /\ journal' = WritePage(journal, Len(hashed'), cow[p])
    /\ vec' = Tail(vec)
    /\ UNCHANGED <<data, memoryVars, npages, cow, jbuffered, plock, ctrlVars, ghosts>>

\* One that was not is hashed and written from memory, under its lock.
HashPage(p) ==
    /\ SyncStepTo("page", "hashed")
    /\ cow[p] = Unmodified
    /\ plock' = {p}
    /\ hashed' = Append(hashed, Memory[p])
    /\ UNCHANGED <<files, memoryVars, npages, cow, jbuffered, vec, ctrlVars, ghosts>>

JournalPage(p) ==
    /\ SyncStepTo("hashed", "page")
    /\ journal' = WritePage(journal, Len(hashed), Memory[p])
    /\ jbuffered' = jbuffered \union {p}
    /\ plock' = {}
    /\ vec' = Tail(vec)
    /\ UNCHANGED <<data, memoryVars, npages, cow, hashed, ctrlVars, ghosts>>

JournalIndex ==
    /\ SyncStepTo("page", "fsync")
    /\ vec = <<>>
    /\ journal' = WriteIndex(journal, [ids |-> SortedPages(npages), hash |-> hashed])
    /\ UNCHANGED <<data, memoryVars, commitVars, ctrlVars, ghosts>>

\* Slip: the journal is not synced.
JournalSyncedNot == journal

JournalSynced == Sync(journal)

FsyncJournal ==
    /\ SyncStepTo("fsync", "persisted")
    /\ journal' = JournalSynced
    /\ durable' = snapshot
    /\ UNCHANGED <<data, memoryVars, commitVars, ctrlVars, snapshot>>

\* Slip: whoever waits for a commit is told, not only those who asked in time.
ToldAll(k) ==
    taken' = [taken EXCEPT ![k] = {}] /\ waits' = [waits EXCEPT ![k] = {}]

\* The fiber that callers wait for is canceled.
Told(k) == taken' = [taken EXCEPT ![k] = {}] /\ UNCHANGED waits

\* The handler need not mind the pages of the snapshot any more.
Persisted ==
    /\ SyncStepTo("persisted", "verify")
    /\ ~expanding
    /\ npages' = {} /\ cow' = Reset /\ jbuffered' = {} /\ hashed' = <<>>
    /\ Told("commit")
    /\ UNCHANGED <<files, memoryVars, plock, vec, op, op_futex, in_sync, ghosts>>

\* assert(journ_verify(...)): it is JournalVerifies that the assertion holds.
VerifyJournal ==
    /\ SyncStepTo("verify", "copy")
    /\ vec' = journal.now.index.ids
    /\ UNCHANGED <<files, memoryVars, npages, cow, jbuffered, plock, hashed, ctrlVars, ghosts>>

\* One page of journ_commit: from the map of the journal to the data file.
CopyPage ==
    LET ids == journal.now.index.ids
    IN /\ vec # <<>>
       /\ vec' = Tail(vec)
       /\ data' = WritePage(data, Head(vec), journal.now.page[Len(ids) - Len(vec) + 1])

CommitPage ==
    /\ SyncStepTo("copy", "copy")
    /\ CopyPage
    /\ UNCHANGED <<journal, memoryVars, npages, cow, jbuffered, plock, hashed, ctrlVars, ghosts>>

CommitEnd ==
    /\ SyncStepTo("copy", "remap")
    /\ vec = <<>>
    /\ vec' = journal.now.index.ids
    /\ UNCHANGED <<files, memoryVars, npages, cow, jbuffered, plock, hashed, ctrlVars, ghosts>>

\* Slip: the page is not looked up.
CleanAnyhow(p) == TRUE

Clean(p) == p \notin dirty

\* The private copy of a page is discarded unless the page is dirty again.
Remap(p) ==
    /\ SyncStepTo("remap", "remap")
    /\ ~expanding
    /\ private' = IF Clean(p) THEN [private EXCEPT ![p] = Unmodified] ELSE private
    /\ vec' = Tail(vec)
    /\ UNCHANGED <<files, writable, dirty, npages, cow, jbuffered, plock, hashed, ctrlVars, ghosts>>

FsyncData ==
    /\ SyncStepTo("remap", "discard")
    /\ vec = <<>>
    /\ data' = Sync(data)
    /\ UNCHANGED <<journal, memoryVars, commitVars, ctrlVars, ghosts>>

DiscardJournal ==
    /\ SyncStepTo("discard", "done")
    /\ journal' = Truncate(journal, 0)
    /\ UNCHANGED <<data, memoryVars, commitVars, ctrlVars, ghosts>>

Done ==
    /\ SyncStepTo("done", "loop")
    /\ in_sync' = FALSE
    /\ Told("sync")
    /\ UNCHANGED <<files, memoryVars, commitVars, op, op_futex, ghosts>>

SyncStep ==
    \/ SyncLoop \/ FutexWait \/ TakeSnapshot \/ SkipSnapshot \/ PrepareJournal
    \/ vec # <<>> /\ LET p == Head(vec)
                     IN JournalCow(p) \/ HashPage(p) \/ JournalPage(p) \/ Remap(p)
    \/ JournalIndex \/ FsyncJournal \/ Persisted \/ VerifyJournal
    \/ CommitPage \/ CommitEnd \/ FsyncData \/ DiscardJournal \/ Done

-----------------------------------------------------------------------------
(* acid_open and acid_close.                                               *)

MainStepTo(from, to) ==
    /\ main = from /\ main' = to
    /\ UNCHANGED <<expanding, bounds>>

unstarted == <<memoryVars, npages, cow, jbuffered, plock, hashed, sync, ctrlVars, callers>>

Open ==
    LET left == Verify(journal.now, data.now.size)
    IN /\ MainStepTo("closed", IF left THEN "replay" ELSE "truncate")
       /\ length' = data.now.size
       /\ vec' = IF left THEN journal.now.index.ids ELSE <<>>
       /\ UNCHANGED <<files, unstarted, ghosts>>

ReplayPage ==
    /\ MainStepTo("replay", "replay")
    /\ CopyPage
    /\ UNCHANGED <<journal, length, unstarted, ghosts>>

ReplaySync ==
    /\ MainStepTo("replay", "truncate")
    /\ vec = <<>>
    /\ data' = Sync(data)
    /\ UNCHANGED <<journal, length, vec, unstarted, ghosts>>

OpenTruncate ==
    /\ MainStepTo("truncate", "resize")
    /\ journal' = Truncate(journal, 0)
    /\ UNCHANGED <<data, length, vec, unstarted, ghosts>>

OpenResize(new_length) ==
    /\ MainStepTo("resize", IF new_length \in {0, length} THEN "map" ELSE "resize_sync")
    /\ data' = IF new_length \in {0, length} THEN data ELSE Truncate(data, new_length)
    /\ UNCHANGED <<journal, length, vec, unstarted, ghosts>>

OpenResizeSync ==
    /\ MainStepTo("resize_sync", "map")
    /\ data' = Sync(data)
    /\ length' = data.now.size
    /\ UNCHANGED <<journal, vec, unstarted, ghosts>>

\* The map is there, and the sync thread.
Map ==
    /\ MainStepTo("map", "mapped")
    /\ sync' = "loop"
    /\ durable' = Memory /\ snapshot' = Memory
    /\ UNCHANGED <<files, length, memoryVars, commitVars, ctrlVars, callers>>

AllIdle == ~expanding /\ \A f \in Callers : at[f] = "idle"

\* acid_close syncs.  Nobody else uses the store by then.
Close(f) ==
    /\ main = "mapped" /\ main' = "closing"
    /\ AllIdle
    /\ <<f, "close">> \in program.asks /\ Ask(f, "close")

\* And orders the sync thread to quit (it throws if it is ordered something else).
CloseQuit ==
    /\ MainStepTo("closing", "quit_kick")
    /\ AllIdle
    /\ op = "none" /\ op' = "quit"
    /\ UNCHANGED <<files, length, memoryVars, commitVars, sync, op_futex, in_sync, waits, taken,
                   callers, ghosts>>

CloseKick ==
    /\ MainStepTo("quit_kick", "exiting")
    /\ WakeSync
    /\ UNCHANGED <<files, length, memoryVars, commitVars, op, in_sync, waits, taken, callers, ghosts>>

\* It throws if there is a page left to be written.
CloseEnd ==
    /\ main = "exiting" /\ main' = "closed"
    /\ sync = "exited"
    /\ dirty = {} /\ npages = {}
    /\ length' = 0
    /\ Lose
    /\ UNCHANGED <<files, bounds, ghosts>>

MainStep ==
    \/ Open \/ ReplayPage \/ ReplaySync \/ OpenTruncate
    \/ (\E n \in program.opens : OpenResize(n)) \/ OpenResizeSync \/ Map
    \/ CloseQuit \/ CloseKick \/ CloseEnd

-----------------------------------------------------------------------------
\* The process is killed: the files are as they are.  The power fails: they are
\* what the disk holds.
Crash ==
    /\ crashes < program.crashes /\ crashes' = crashes + 1
    /\ main' = "closed" /\ length' = 0 /\ Lose
    /\ \/ "kill" \in program.failures /\ UNCHANGED files
       \/ /\ "power" \in program.failures
          /\ \E d \in data.may, j \in journal.may :
                data' = Durable(d) /\ journal' = Durable(j)
    /\ UNCHANGED <<program, stores, ghosts>>

CallerStep(f) == Kick(f) \/ Return(f)

UserStep ==
    \/ \E p \in Pages : Store(p) \/ Fault(p)
    \/ \E a \in program.asks : Call(a[1], a[2])
    \/ (\E f \in program.canceled : Abort(f)) \/ (\E f \in Callers : Close(f))
    \/ \E n \in program.expands : ExpandGrow(n)

Next ==
    \/ SyncStep \/ MainStep \/ ExpandSync
    \/ \E f \in Callers : CallerStep(f)
    \/ UserStep
    \/ Crash

Spec == Init /\ [][Next]_vars

\* The sync thread is a thread of its own, and calls that began go on.
FairSpec ==
    /\ Spec
    /\ WF_vars(SyncStep) /\ WF_vars(ExpandSync)
    /\ \A f \in Callers : WF_vars(CallerStep(f))

-----------------------------------------------------------------------------
\* Whenever it stops, acid_open will find all of the last snapshot that is durable,
\* or all of the one that was becoming so: no page of another, no torn page.
CrashSafe ==
    \A o \in Outcomes : Recovered(o[1], o[2]) \in {durable, snapshot}

\* acid.h:42, of a session that did not end well: "the journal will be automatically
\* committed".  So it is whenever acid_open itself is stopped: what it has begun to
\* copy, the next one finds all of.
ReplayIsSafe ==
    main = "replay" => \A o \in Outcomes : Recovered(o[1], o[2]) \in {durable, snapshot}

\* A caller whose wait is over finds durable (or in the snapshot, if it asked for no
\* more) everything that was stored before it asked.
SyncedIsDurable ==
    \A f \in Callers : WaitOver(f) =>
        LET promised == IF waits_for[f] = "snapshot" THEN snapshot ELSE durable
        IN \A p \in Pages : asked[f][p] <= promised[p]

\* The assertion in acid_sync_commit, and the fatal checks of acid_close.
JournalVerifies ==
    /\ TypeOK
    /\ sync = "verify" => Verify(journal.now, length)
    /\ main = "closing" /\ AllIdle => op = "none"
    /\ sync = "exited" => dirty = {} /\ npages = {}

\* A caller comes back.
FsyncReturns == \A f \in Callers : at[f] # "idle" ~> at[f] = "idle"

Promise == INSTANCE AcidStore WITH
    memory <- IF main \in {"mapped", "closing", "quit_kick", "exiting"} THEN Memory ELSE durable

ImplementsAcidStore == Promise!Spec
=============================================================================
