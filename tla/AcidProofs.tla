----------------------------- MODULE AcidProofs -----------------------------
(***************************************************************************)
(* Proofs about Acid, for any finite number of pages and of callers and    *)
(* any programs.                                                           *)
(*                                                                         *)
(* SessionInv says what the memory, the snapshot, the journal and the data *)
(* file have to do with each other at each point of the sync thread, and   *)
(* what the callers may count on.  It needs no hypothesis.  DiskInv says   *)
(* it of each image that the disk may hold of the two files: in a session, *)
(* that the data file on the disk is what is durable but for pages that    *)
(* the journal lists, and that a journal on the disk is one to use, or one *)
(* of which a page is missing that can never be written any more.  From it *)
(* follows what acid_open makes of the files whenever the process stops,   *)
(* and that it does so again when it is stopped itself.                    *)
(***************************************************************************)
EXTENDS Acid, FiniteSetTheorems, SequenceTheorems, TLAPS

N == Cardinality(Pages)

\* What a page may hold so far.
Val == {Torn} \union 0..stores

Images == [size : 0..N, kept : 0..N, index : [ids : Seq(Pages), hash : Seq(Val)],
           page : [Pages -> Val]]

\* Of an image: its index has as many hashes as pages, and beyond its size there is nothing.
Sound(im) ==
    /\ im.kept <= im.size
    /\ Len(im.index.hash) = Len(im.index.ids) /\ Len(im.index.ids) <= N
    /\ \A p \in Pages : p > im.size => im.page[p] = 0

FileOK(file) ==
    /\ DOMAIN file = {"now", "may"}
    /\ file.now \in file.may /\ file.now.kept = file.now.size
    /\ \A im \in file.may : im \in Images /\ Sound(im)

-----------------------------------------------------------------------------
(* The files.                                                              *)

(* Pages are numbered from 1, and there is one.                            *)
LEMMA PagesAre ==
    /\ N \in Nat \ {0} /\ Pages = 1..N /\ 1 \in Pages
    /\ IsFiniteSet(Pages)
BY AcidAssumption, FS_CardinalityType, FS_EmptySet DEF N

(* A sync leaves what the file holds, and makes that the only thing it may *)
(* hold.                                                                   *)
LEMMA SyncIs ==
    ASSUME NEW file, FileOK(file)
    PROVE  /\ FileOK(Sync(file)) /\ Sync(file).now = file.now
           /\ Sync(file).may = {file.now}
<1>1. file.now \in Images /\ file.now.kept = file.now.size
  BY DEF FileOK
<1>2. [file.now EXCEPT !.kept = file.now.size] = file.now
  BY <1>1 DEF Images
<1> QED
  BY <1>1, <1>2 DEF FileOK, Sync, Durable

(* The file that is left of an image holds the image, and nothing else.    *)
LEMMA DurableIs ==
    ASSUME NEW im \in Images, Sound(im)
    PROVE  /\ FileOK(Durable(im))
           /\ Durable(im).now = [im EXCEPT !.kept = im.size]
           /\ Durable(im).now.size = im.size /\ Durable(im).now.index = im.index
           /\ Durable(im).now.page = im.page
           /\ Durable(im).may = {Durable(im).now}
BY PagesAre DEF FileOK, Durable, Images, Sound

(* A page that is written is that page of the file, if the file has it.    *)
LEMMA WritePageIs ==
    ASSUME NEW file, FileOK(file), NEW p \in Pages, NEW v \in Val
    PROVE  LET new == WritePage(file, p, v)
           IN /\ FileOK(new)
              /\ new.now.size = file.now.size /\ new.now.index = file.now.index
              /\ new.now.kept = file.now.kept
              /\ new.now.page = IF p <= file.now.size THEN [file.now.page EXCEPT ![p] = v]
                                ELSE file.now.page
<1> DEFINE Put(im, w) == IF p <= im.kept THEN [im EXCEPT !.page[p] = w] ELSE im
           new == WritePage(file, p, v)
<1>1. /\ new.now = Put(file.now, v)
      /\ new.may = UNION {{im, Put(im, v), Put(im, Torn)} : im \in file.may}
      /\ DOMAIN new = {"now", "may"}
  BY DEF WritePage
<1>2. ASSUME NEW im \in Images, Sound(im), NEW w \in Val
      PROVE  /\ Put(im, w) \in Images /\ Sound(Put(im, w))
             /\ Put(im, w).size = im.size /\ Put(im, w).index = im.index
             /\ Put(im, w).kept = im.kept
             /\ Put(im, w).page = IF p <= im.kept THEN [im.page EXCEPT ![p] = w] ELSE im.page
  <2>1. CASE p <= im.kept
    <3> DEFINE pg == [im.page EXCEPT ![p] = w]
    <3>1. pg \in [Pages -> Val] /\ \A q \in Pages : q # p => pg[q] = im.page[q]
      BY DEF Images
    <3>2. Put(im, w) = [im EXCEPT !.page = pg]
      BY <2>1
    <3>3. p <= im.size /\ im.size \in Nat
      BY <1>2, <2>1, PagesAre DEF Images, Sound
    <3> HIDE DEF pg, Put
    <3>4. /\ Put(im, w) \in Images
          /\ Put(im, w).size = im.size /\ Put(im, w).index = im.index
          /\ Put(im, w).kept = im.kept /\ Put(im, w).page = pg
      BY <3>1, <3>2 DEF Images
    <3>5. Sound(Put(im, w))
      BY <1>2, <3>1, <3>3, <3>4, PagesAre DEF Sound
    <3> QED
      BY <2>1, <3>4, <3>5 DEF pg
  <2>2. CASE ~(p <= im.kept)
    BY <1>2, <2>2
  <2> QED
    BY <2>1, <2>2
<1>3. Torn \in Val
  BY DEF Val
<1>4. \A im \in file.may : im \in Images /\ Sound(im)
  BY DEF FileOK
<1> HIDE DEF Put, new
<1>5. \A im \in new.may : im \in Images /\ Sound(im)
  <2> SUFFICES ASSUME NEW im \in new.may
               PROVE  im \in Images /\ Sound(im)
    OBVIOUS
  <2>1. PICK old \in file.may : im \in {old, Put(old, v), Put(old, Torn)}
    BY <1>1
  <2> QED
    BY <1>2, <1>3, <1>4, <2>1
<1>6. file.now \in file.may /\ file.now.kept = file.now.size
  BY DEF FileOK
<1>7. new.now \in new.may
  BY <1>1, <1>6
<1>8. /\ new.now.size = file.now.size /\ new.now.index = file.now.index
      /\ new.now.kept = file.now.kept
      /\ new.now.page = IF p <= file.now.kept THEN [file.now.page EXCEPT ![p] = v]
                        ELSE file.now.page
  BY <1>1, <1>2, <1>4, <1>6
<1>9. FileOK(new)
  BY <1>1, <1>5, <1>6, <1>7, <1>8 DEF FileOK
<1> QED
  BY <1>6, <1>8, <1>9 DEF new

(* An index that is written is that of the file.                           *)
LEMMA WriteIndexIs ==
    ASSUME NEW file, FileOK(file), NEW ix \in [ids : Seq(Pages), hash : Seq(Val)],
           Len(ix.ids) <= N, Len(ix.hash) = Len(ix.ids)
    PROVE  LET new == WriteIndex(file, ix)
           IN /\ FileOK(new)
              /\ new.now.size = file.now.size /\ new.now.index = ix
              /\ new.now.kept = file.now.kept /\ new.now.page = file.now.page
<1> DEFINE Put(im, i) == [im EXCEPT !.index = i]
           new == WriteIndex(file, ix)
<1>1. /\ new.now = Put(file.now, ix)
      /\ new.may = UNION {{im, Put(im, ix), Put(im, Blank)} : im \in file.may}
      /\ DOMAIN new = {"now", "may"}
  BY DEF WriteIndex
<1>2. ASSUME NEW im \in Images, Sound(im), NEW i \in [ids : Seq(Pages), hash : Seq(Val)],
             Len(i.ids) <= N, Len(i.hash) = Len(i.ids)
      PROVE  /\ Put(im, i) \in Images /\ Sound(Put(im, i))
             /\ Put(im, i).size = im.size /\ Put(im, i).index = i
             /\ Put(im, i).kept = im.kept /\ Put(im, i).page = im.page
  BY <1>2, PagesAre DEF Images, Sound
<1>3. Blank \in [ids : Seq(Pages), hash : Seq(Val)] /\ Len(Blank.ids) <= N
      /\ Len(Blank.hash) = Len(Blank.ids)
  BY PagesAre DEF Blank
<1>4. \A im \in file.may : im \in Images /\ Sound(im)
  BY DEF FileOK
<1> HIDE DEF Put, new
<1>5. \A im \in new.may : im \in Images /\ Sound(im)
  BY <1>1, <1>2, <1>3, <1>4
<1>6. file.now \in file.may /\ file.now.kept = file.now.size
  BY DEF FileOK
<1>7. new.now \in new.may
  BY <1>1, <1>6
<1>8. /\ new.now.size = file.now.size /\ new.now.index = ix
      /\ new.now.kept = file.now.kept /\ new.now.page = file.now.page
  BY <1>1, <1>2, <1>4, <1>6
<1>9. FileOK(new)
  BY <1>1, <1>5, <1>6, <1>7, <1>8 DEF FileOK
<1> QED
  BY <1>6, <1>8, <1>9 DEF new

(* A file whose size is changed has the pages up to it, and zeroes.        *)
LEMMA TruncateIs ==
    ASSUME NEW file, FileOK(file), NEW n \in 0..N, stores \in Nat
    PROVE  LET new == Truncate(file, n)
           IN /\ FileOK(new)
              /\ new.now.size = n /\ new.now.index = file.now.index /\ new.now.kept = n
              /\ new.now.page = [p \in Pages |-> IF p <= n THEN file.now.page[p] ELSE 0]
<1> DEFINE Cut(im) == [im EXCEPT !.size = n, !.kept = n,
                                 !.page = [p \in Pages |-> IF p <= n THEN @[p] ELSE 0]]
           Old(im) == [im EXCEPT !.kept = IF n < @ THEN n ELSE @]
           current == {im \in file.may : {im.size, im.kept} = {file.now.size}}
           new == Truncate(file, n)
<1>1. /\ new.now = Cut(file.now)
      /\ new.may = {Cut(im) : im \in current} \union {Old(im) : im \in file.may}
      /\ DOMAIN new = {"now", "may"}
  BY DEF Truncate
<1>2. ASSUME NEW im \in Images, Sound(im)
      PROVE  /\ Cut(im) \in Images /\ Sound(Cut(im))
             /\ Cut(im).size = n /\ Cut(im).index = im.index /\ Cut(im).kept = n
             /\ Cut(im).page = [p \in Pages |-> IF p <= n THEN im.page[p] ELSE 0]
  <2> DEFINE pg == [p \in Pages |-> IF p <= n THEN im.page[p] ELSE 0]
  <2>1. pg \in [Pages -> Val] /\ \A p \in Pages : p > n => pg[p] = 0
    BY PagesAre DEF Images, Val
  <2>2. Cut(im) = [im EXCEPT !.size = n, !.kept = n, !.page = pg]
    BY DEF Images
  <2> HIDE DEF pg, Cut
  <2>3. /\ Cut(im) \in Images
        /\ Cut(im).size = n /\ Cut(im).index = im.index /\ Cut(im).kept = n
        /\ Cut(im).page = pg
    BY <2>1, <2>2 DEF Images
  <2>4. Sound(Cut(im))
    BY <1>2, <2>1, <2>3 DEF Sound
  <2> QED
    BY <2>3, <2>4 DEF pg
<1>3. ASSUME NEW im \in Images, Sound(im)
      PROVE  Old(im) \in Images /\ Sound(Old(im))
  <2> DEFINE k == IF n < im.kept THEN n ELSE im.kept
  <2>1. k \in 0..N /\ k <= im.kept
    BY PagesAre DEF Images
  <2>2. Old(im) = [im EXCEPT !.kept = k]
    BY DEF Images
  <2> HIDE DEF k, Old
  <2>3. /\ Old(im) \in Images /\ Old(im).size = im.size
        /\ Old(im).index = im.index /\ Old(im).kept = k /\ Old(im).page = im.page
    BY <2>1, <2>2 DEF Images
  <2> QED
    BY <1>3, <2>1, <2>3, PagesAre DEF Sound, Images
<1>4. \A im \in file.may : im \in Images /\ Sound(im)
  BY DEF FileOK
<1>5. file.now \in file.may /\ file.now.kept = file.now.size
  BY DEF FileOK
<1>6. file.now \in current
  BY <1>5
<1>7. \A im \in current : im \in file.may
  OBVIOUS
<1> HIDE DEF Cut, Old, current, new
<1>8. \A im \in new.may : im \in Images /\ Sound(im)
  BY <1>1, <1>2, <1>3, <1>4, <1>7
<1>9. new.now \in new.may
  BY <1>1, <1>6
<1>10. /\ new.now.size = n /\ new.now.index = file.now.index /\ new.now.kept = n
       /\ new.now.page = [p \in Pages |-> IF p <= n THEN file.now.page[p] ELSE 0]
  BY <1>1, <1>2, <1>4, <1>5
<1>11. FileOK(new)
  BY <1>1, <1>8, <1>9, <1>10 DEF FileOK
<1> QED
  BY <1>10, <1>11 DEF new

-----------------------------------------------------------------------------
(* The pages in their order.                                               *)

\* The pages of a set up to p: their number is the rank of p.
Upto(pages, p) == {q \in pages : q <= p}

(* The pages of a set have the ranks from 1 on, each one rank.             *)
LEMMA RanksAre ==
    ASSUME NEW pages \in SUBSET Pages
    PROVE  /\ IsFiniteSet(pages) /\ Cardinality(pages) \in 0..N
           /\ \A k \in 1..Cardinality(pages) :
                \E p \in pages : Cardinality(Upto(pages, p)) = k
           /\ \A p \in pages : Cardinality(Upto(pages, p)) \in 1..Cardinality(pages)
           /\ \A p, q \in pages :
                Cardinality(Upto(pages, p)) = Cardinality(Upto(pages, q)) => p = q
<1> DEFINE ranks == 1..Cardinality(pages)
           Rank(p) == Cardinality(Upto(pages, p))
           rank == [p \in pages |-> Rank(p)]
<1>1. IsFiniteSet(pages) /\ Cardinality(pages) \in 0..N
  BY PagesAre, FS_Subset, FS_CardinalityType DEF N
<1>2. \A p \in pages : IsFiniteSet(Upto(pages, p)) /\ Rank(p) \in ranks
  <2> TAKE p \in pages
  <2>1. Upto(pages, p) \subseteq pages /\ p \in Upto(pages, p)
    BY PagesAre DEF Upto
  <2>2. IsFiniteSet(Upto(pages, p)) /\ Rank(p) <= Cardinality(pages) /\ Rank(p) \in Nat
    BY <1>1, <2>1, FS_Subset, FS_CardinalityType
  <2>3. Rank(p) # 0
    BY <2>1, <2>2, FS_EmptySet
  <2> QED
    BY <1>1, <2>2, <2>3, PagesAre
<1>3. ASSUME NEW p \in pages, NEW q \in pages, p < q
      PROVE  Rank(p) # Rank(q)
  <2>1. q \in Upto(pages, q) /\ q \notin Upto(pages, p)
    BY <1>3, PagesAre DEF Upto
  <2>2. Upto(pages, p) \subseteq Upto(pages, q)
    <3> SUFFICES ASSUME NEW r \in pages, r <= p
                 PROVE  r <= q
      BY DEF Upto
    <3>1. r \in Nat /\ p \in Nat /\ q \in Nat
      BY PagesAre
    <3> QED
      BY <1>3, <3>1
  <2> QED
    BY <1>2, <2>1, <2>2, FS_Subset
<1>4. \A p, q \in pages : Rank(p) = Rank(q) => p = q
  BY <1>3, PagesAre
<1>5. rank \in Injection(pages, ranks)
  BY <1>2, <1>4 DEF Injection, IsInjective
<1>6. IsFiniteSet(ranks) /\ Cardinality(ranks) = Cardinality(pages)
  BY <1>1, FS_Interval, PagesAre
<1>7. rank \in Surjection(pages, ranks)
  BY <1>1, <1>5, <1>6, FS_Injection
<1>8. \A k \in ranks : \E p \in pages : Rank(p) = k
  BY <1>7 DEF Surjection
<1> QED
  BY <1>1, <1>2, <1>4, <1>8

(* SortedPages lists each page of the set once.                            *)
LEMMA SortedPagesAre ==
    ASSUME NEW pages \in SUBSET Pages
    PROVE  LET idx == SortedPages(pages)
           IN /\ idx \in Seq(Pages)
              /\ Len(idx) = Cardinality(pages) /\ Len(idx) \in 0..N
              /\ \A i \in 1..Len(idx) : idx[i] \in pages
              /\ \A i, j \in 1..Len(idx) : idx[i] = idx[j] => i = j
              /\ \A p \in pages : \E i \in 1..Len(idx) : idx[i] = p
              /\ pages # {} => Len(idx) > 0
<1> DEFINE m == Cardinality(pages)
           Rank(p) == Cardinality(Upto(pages, p))
           Of(i) == CHOOSE p \in pages : Cardinality({q \in pages : q <= p}) = i
           idx == SortedPages(pages)
<1>1. /\ m \in 0..N
      /\ \A k \in 1..m : \E p \in pages : Rank(p) = k
      /\ \A p \in pages : Rank(p) \in 1..m
      /\ \A p, q \in pages : Rank(p) = Rank(q) => p = q
  BY RanksAre
<1>2. idx = [i \in 1..m |-> Of(i)]
  BY DEF SortedPages
<1>3. \A i \in 1..m : Of(i) \in pages /\ Rank(Of(i)) = i
  <2> TAKE i \in 1..m
  <2>1. \E p \in pages : Cardinality({q \in pages : q <= p}) = i
    BY <1>1 DEF Upto
  <2> QED
    BY <2>1 DEF Upto
<1> HIDE DEF m, Of, idx, Rank
<1>4. idx \in [1..m -> Pages] /\ \A i \in 1..m : idx[i] = Of(i)
  BY <1>2, <1>3
<1>5. idx \in Seq(Pages) /\ Len(idx) = m
  <2>1. m \in Nat
    BY <1>1, PagesAre
  <2>2. idx \in Seq(Pages)
    BY <1>4, <2>1, SeqDef
  <2> QED
    BY <1>4, <2>1, <2>2, LenProperties
<1>6. \A p \in pages : Rank(p) \in 1..m /\ idx[Rank(p)] = p
  BY <1>1, <1>3, <1>4
<1>7. pages # {} => m > 0
  BY <1>1
<1> QED
  BY <1>1, <1>3, <1>4, <1>5, <1>6, <1>7 DEF idx, m

-----------------------------------------------------------------------------
(* The invariant of a session.                                             *)

\* The store is mapped, and there is a sync thread.
InSession == main \in {"mapped", "closing", "quit_kick", "exiting"}

MainTypes ==
    /\ program \in Programs /\ stores \in 0..program.stores /\ crashes \in Nat
    /\ main \in MainPoints /\ length \in 0..N /\ expanding \in BOOLEAN

PageTypes ==
    /\ private \in [Pages -> Val \union {Unmodified}]
    /\ cow \in [Pages -> Val \union {Unmodified}]
    /\ writable = dirty /\ dirty \subseteq Pages
    /\ plock \subseteq npages /\ jbuffered \subseteq npages /\ npages \subseteq Pages

SyncTypes ==
    /\ sync \in SyncPoints /\ vec \in Seq(Pages)
    /\ hashed \in Seq(Val) /\ Len(hashed) <= N

CtrlTypes ==
    /\ op \in {"none", "commit", "quit"} /\ op_futex \in {0, 1} /\ in_sync \in BOOLEAN
    /\ waits \in [Kinds -> SUBSET Callers] /\ taken \in [Kinds -> SUBSET Callers]
    /\ at \in [Callers -> {"idle", "kick", "wait"}] /\ waits_for \in [Callers -> Kinds]
    /\ asked \in [Callers -> [Pages -> Val]]

StoreTypes ==
    /\ snapshot \in [Pages -> Val] /\ durable \in [Pages -> Val]
    /\ FileOK(data) /\ FileOK(journal)

Types == MainTypes /\ PageTypes /\ SyncTypes /\ CtrlTypes /\ StoreTypes

Ids == journal.now.index.ids

\* Before and after a session there is only what the files hold.
Outside ==
    /\ private = Reset /\ cow = Reset /\ dirty = {} /\ npages = {} /\ hashed = <<>>
    /\ sync = "none" /\ op = "none" /\ ~expanding
    /\ waits = NoCallers /\ taken = NoCallers /\ \A f \in Callers : at[f] = "idle"
    /\ main \in {"replay", "truncate", "resize", "map"} => length = data.now.size
    /\ main = "replay" => Len(vec) <= Len(Ids)
    /\ main \in {"resize", "resize_sync", "map"} => journal.now.size = 0

\* The pages in use are those of the data file, but while it grows.
Lengths ==
    /\ length <= data.now.size /\ (~expanding => length = data.now.size)
    /\ dirty \subseteq 1..length /\ npages \subseteq 1..length
    /\ expanding => main = "mapped"

Below(c, d) == \A p \in Pages : c[p] <= d[p]

\* A page that is not dirty is that of the last snapshot, and a page that has no
\* private copy comes from the data file.
MemoryInv ==
    /\ \A p \in Pages \ dirty : Memory[p] = snapshot[p]
    /\ \A p \in Pages : private[p] = Unmodified => data.now.page[p] = snapshot[p]
    /\ Below(durable, snapshot) /\ Below(snapshot, Memory)

Journaling == {"prepare", "page", "hashed", "fsync"}
Copying == {"persisted", "verify", "copy", "remap"}

\* Between two commits the last snapshot is in the data file.
IdleInv ==
    sync \notin Journaling \union Copying =>
        /\ sync # "none"
        /\ durable = snapshot /\ data.now.page = snapshot
        /\ npages = {}
        /\ sync # "discard" => journal.now.size = 0

\* While a snapshot is journaled the one before is in the data file, and the fault
\* handler has kept what is not in the journal yet and may change.
JournalingInv ==
    sync \in Journaling =>
        /\ npages # {}
        /\ data.now.page = durable
        /\ \A p \in Pages \ npages : durable[p] = snapshot[p]
        /\ \A p \in npages : cow[p] \in {Unmodified, snapshot[p]}
        /\ \A p \in npages \ jbuffered : p \in dirty => cow[p] = snapshot[p]

\* How many pages are in the journal.
Journaled == IF sync = "hashed" THEN Len(hashed) - 1 ELSE Len(hashed)

\* Those that are, and those still to do, are the pages of the snapshot in order.
ProgressInv ==
    sync \in {"prepare", "page", "hashed"} =>
        LET idx == SortedPages(npages)
        IN /\ Journaled >= 0 /\ Journaled + Len(vec) = Len(idx)
           /\ \A i \in 1..Len(vec) : vec[i] = idx[Journaled + i]
           /\ \A i \in 1..Len(hashed) : hashed[i] = snapshot[idx[i]]
           /\ \A p \in jbuffered : \E i \in 1..Journaled : p = idx[i]
           /\ sync = "prepare" => hashed = <<>>
           /\ sync # "prepare" =>
                /\ journal.now.size = Len(idx)
                /\ \A i \in 1..Journaled : journal.now.page[i] = snapshot[idx[i]]

\* The sync thread has the lock of the page that it hashed, so nobody makes it dirty.
LockInv ==
    IF sync = "hashed" THEN vec # <<>> /\ plock = {Head(vec)} /\ Head(vec) \notin dirty
    ELSE plock = {}

\* A journal that has all of the snapshot.
Complete(j) ==
    /\ Len(j.index.ids) > 0 /\ j.size = Len(j.index.ids)
    /\ \A i \in 1..j.size :
        /\ j.index.ids[i] \in 1..length
        /\ j.page[i] = snapshot[j.index.ids[i]]
        /\ j.index.hash[i] = snapshot[j.index.ids[i]]

Listed(p) == \E i \in 1..Len(Ids) : Ids[i] = p

\* From the sync of the journal on, the pages it lists are copied from it.
CopyingInv ==
    /\ sync \in Copying \union {"fsync"} => Complete(journal.now)
    /\ sync = "fsync" => \A p \in npages : Listed(p)
    /\ sync \in Copying => durable = snapshot
    /\ sync \in Copying \ {"persisted"} => npages = {}
    /\ sync \in {"persisted", "verify"} =>
         \A p \in Pages : ~Listed(p) => data.now.page[p] = snapshot[p]
    /\ sync = "copy" =>
         /\ Len(vec) <= Len(Ids)
         /\ \A i \in 1..Len(vec) : vec[i] = Ids[Len(Ids) - Len(vec) + i]
         /\ \A p \in Pages : data.now.page[p] = snapshot[p]
                                \/ \E i \in 1..Len(vec) : p = vec[i]
    /\ sync = "remap" => data.now.page = snapshot

\* Who is in a wait fiber waits for it, or will.
MemberInv ==
    \A f \in Callers, k \in Kinds : f \in waits[k] \union taken[k] =>
        /\ at[f] # "idle"
        /\ k = waits_for[f] \/ (k = "sync" /\ waits_for[f] = "snapshot")

\* What a caller asked for is in the memory, in the snapshot once its wait fiber was
\* taken, and durable once that was canceled.
AskedInv ==
    \A f \in Callers : at[f] # "idle" =>
        /\ Below(asked[f], Memory)
        /\ f \notin waits[waits_for[f]] => Below(asked[f], snapshot)
        /\ f \notin waits[waits_for[f]] \union taken[waits_for[f]] =>
                waits_for[f] = "snapshot" \/ Below(asked[f], durable)

\* acid_close leaves nothing dirty before it lets the sync thread quit.
CloseInv ==
    /\ main \in {"quit_kick", "exiting"} <=> op = "quit"
    /\ main = "closing" => \/ op = "commit" /\ waits["sync"] # {}
                           \/ op = "none" /\ dirty = {}
    /\ op = "quit" => dirty = {}
    /\ sync = "exited" => op = "quit"
    /\ sync = "snapshot" => op = "commit"

CommitInv == IdleInv /\ JournalingInv /\ ProgressInv /\ LockInv /\ CopyingInv
CallerInv == MemberInv /\ AskedInv
During == Lengths /\ MemoryInv /\ CommitInv /\ CallerInv /\ CloseInv

SessionInv == Types /\ (IF InSession THEN During ELSE Outside)

-----------------------------------------------------------------------------
(* The steps.                                                              *)

\* A step of the sync thread about the first page that is still to do.
PageStep ==
    /\ vec # <<>>
    /\ \/ JournalCow(Head(vec)) \/ HashPage(Head(vec)) \/ JournalPage(Head(vec))
       \/ Remap(Head(vec))

\* One that is not about pages or files, and one that is.
ThreadStep == SyncLoop \/ FutexWait \/ SkipSnapshot \/ Done
CommitStep ==
    \/ TakeSnapshot \/ PrepareJournal \/ PageStep \/ JournalIndex \/ FsyncJournal \/ Persisted
    \/ VerifyJournal \/ CommitPage \/ CommitEnd \/ FsyncData \/ DiscardJournal

\* The callers, and acid_close.
RequestStep ==
    \/ \E a \in program.asks : Call(a[1], a[2])
    \/ \E f \in program.canceled : Abort(f)
    \/ \E f \in Callers : Close(f) \/ Kick(f) \/ Return(f)
    \/ CloseQuit \/ CloseKick

ExpandStep == ExpandSync \/ \E n \in program.expands : ExpandGrow(n)

MemoryStep == \E p \in Pages : Store(p) \/ Fault(p)

SessionStep == ThreadStep \/ CommitStep \/ RequestStep \/ ExpandStep \/ MemoryStep

OpenStep ==
    \/ Open \/ ReplayPage \/ ReplaySync \/ OpenTruncate
    \/ (\E n \in program.opens : OpenResize(n)) \/ OpenResizeSync

(* A program says what is called by whom, and how long the store may get.  *)
LEMMA ProgramIs ==
    ASSUME MainTypes
    PROVE  /\ program.canceled \subseteq Callers /\ program.expands \subseteq Pages
           /\ program.opens \subseteq Pages \union {0} /\ program.stores \in Nat
           /\ \A a \in program.asks : a[1] \in Callers /\ a[2] \in Functions
BY AcidAssumption DEF MainTypes

(* What the sync thread leaves alone.                                      *)
LEMMA SyncLeaves ==
    ASSUME CtrlTypes, ThreadStep \/ CommitStep
    PROVE  /\ sync \in SyncPoints \ {"none"} /\ sync' \in SyncPoints \ {"none"}
           /\ UNCHANGED <<main, length, expanding, callers, bounds>>
<1>1. CASE ThreadStep
  BY <1>1 DEF ThreadStep, SyncLoop, FutexWait, SkipSnapshot, Done, SyncStepTo, SyncPoints,
     CtrlTypes
<1>2. CASE PageStep
  BY <1>2 DEF PageStep, JournalCow, HashPage, JournalPage, Remap, SyncStepTo, SyncPoints
<1>3. CASE CommitStep /\ ~PageStep
  BY <1>3 DEF CommitStep, TakeSnapshot, PrepareJournal, JournalIndex, FsyncJournal, Persisted,
     VerifyJournal, CommitPage, CommitEnd, FsyncData, DiscardJournal, SyncStepTo, SyncPoints
<1> QED
  BY <1>1, <1>2, <1>3

(* Which steps there are, in a session and out of it.                      *)
LEMMA StepCases ==
    ASSUME SessionInv, Next
    PROVE  \/ InSession /\ InSession' /\ SessionStep
           \/ ~InSession /\ ~InSession' /\ OpenStep
           \/ ~InSession /\ InSession' /\ Map
           \/ InSession /\ ~InSession' /\ CloseEnd
           \/ ~InSession' /\ Crash
<1>1. ~InSession => /\ sync = "none" /\ ~expanding
                    /\ \A f \in Callers : at[f] = "idle"
  BY DEF SessionInv, Outside
<1>2. CASE SyncStep
  <2>1. ThreadStep \/ CommitStep
    BY <1>2 DEF SyncStep, ThreadStep, CommitStep, PageStep
  <2>2. sync # "none" /\ main' = main
    BY <2>1, SyncLeaves DEF SessionInv, Types
  <2> QED
    BY <1>1, <2>1, <2>2 DEF SessionStep, InSession
<1>3. CASE CloseQuit \/ CloseKick
  <2>1. InSession /\ InSession'
    BY <1>3 DEF CloseQuit, CloseKick, MainStepTo, InSession
  <2> QED
    BY <1>3, <2>1 DEF SessionStep, RequestStep
<1>4. CASE MainStep /\ ~(CloseQuit \/ CloseKick)
  <2>1. OpenStep \/ Map \/ CloseEnd
    BY <1>4 DEF MainStep, OpenStep
  <2>2. OpenStep => ~InSession /\ ~InSession'
    BY DEF OpenStep, Open, ReplayPage, ReplaySync, OpenTruncate, OpenResize, OpenResizeSync,
       MainStepTo, InSession
  <2>3. Map => ~InSession /\ InSession'
    BY DEF Map, MainStepTo, InSession
  <2>4. CloseEnd => InSession /\ ~InSession'
    BY DEF CloseEnd, InSession
  <2> QED
    BY <2>1, <2>2, <2>3, <2>4
<1>5. CASE ExpandSync
  <2>1. expanding /\ main' = main
    BY <1>5 DEF ExpandSync
  <2> QED
    BY <1>1, <1>5, <2>1 DEF SessionStep, ExpandStep, InSession
<1>6. CASE \E f \in Callers : CallerStep(f)
  <2>1. PICK f \in Callers : Kick(f) \/ Return(f)
    BY <1>6 DEF CallerStep
  <2>2. at[f] # "idle" /\ main' = main
    BY <2>1 DEF Kick, Return, WaitOver
  <2> QED
    BY <1>1, <2>1, <2>2 DEF SessionStep, RequestStep, InSession
<1>7. CASE UserStep
  <2>1. MemoryStep \/ RequestStep \/ ExpandStep
    BY <1>7 DEF UserStep, MemoryStep, RequestStep, ExpandStep
  <2>2. main = "mapped" /\ main' \in {"mapped", "closing"}
    BY <1>7 DEF UserStep, Store, Fault, Call, Abort, Close, ExpandGrow, InUse
  <2> QED
    BY <2>1, <2>2 DEF SessionStep, InSession
<1>8. CASE Crash
  BY <1>8 DEF Crash, InSession
<1> QED
  BY <1>2, <1>3, <1>4, <1>5, <1>6, <1>7, <1>8 DEF Next

-----------------------------------------------------------------------------
(* What a session does to the data file and to the memory.                 *)

(* The first of the pages to do is a page, and the others are behind it.   *)
LEMMA VecIs ==
    ASSUME SyncTypes, vec # <<>>
    PROVE  /\ Head(vec) \in Pages /\ Head(vec) = vec[1] /\ Len(vec) \in Nat \ {0}
           /\ Tail(vec) \in Seq(Pages) /\ Len(Tail(vec)) = Len(vec) - 1
           /\ \A i \in 1..Len(vec) - 1 : Tail(vec)[i] = vec[i + 1]
<1>1. vec \in Seq(Pages)
  BY DEF SyncTypes
<1>2. /\ Head(vec) \in Pages /\ Tail(vec) \in Seq(Pages) /\ Len(Tail(vec)) = Len(vec) - 1
      /\ \A i \in 1..Len(Tail(vec)) : Tail(vec)[i] = vec[i + 1]
  BY <1>1, HeadTailProperties
<1>3. Len(vec) \in Nat \ {0} /\ Head(vec) = vec[1]
  BY <1>1
<1> QED
  BY <1>2, <1>3

(* What a file holds now.                                                  *)
LEMMA NowIs ==
    ASSUME NEW file, FileOK(file)
    PROVE  /\ file.now \in Images /\ Sound(file.now) /\ file.now.size \in 0..N
           /\ file.now.page \in [Pages -> Val] /\ file.now.kept = file.now.size
           /\ file.now.index.ids \in Seq(Pages) /\ file.now.index.hash \in Seq(Val)
           /\ Len(file.now.index.ids) \in 0..N
           /\ Len(file.now.index.hash) = Len(file.now.index.ids)
<1>1. file.now \in Images /\ Sound(file.now) /\ file.now.kept = file.now.size
  BY DEF FileOK
<1>2. file.now.index.ids \in Seq(Pages) /\ Len(file.now.index.ids) <= N
  BY <1>1 DEF Images, Sound
<1>3. Len(file.now.index.ids) \in 0..N
  BY <1>2, PagesAre
<1> QED
  BY <1>1, <1>2, <1>3 DEF Images, Sound

(* acid_expand makes the data file longer, and no page of it another.      *)
LEMMA GrowIs ==
    ASSUME Types, Lengths, NEW n \in Pages, ExpandGrow(n)
    PROVE  /\ FileOK(data') /\ data'.now.size = n /\ data'.now.size > data.now.size
           /\ data'.now.page = data.now.page
<1>1. FileOK(data) /\ stores \in Nat
  BY ProgramIs DEF Types, StoreTypes, MainTypes
<1>2. length = data.now.size /\ length < n /\ n \in 0..N
  BY PagesAre DEF ExpandGrow, Lengths
<1>3. data' = Truncate(data, n)
  BY DEF ExpandGrow
<1>4. /\ FileOK(data') /\ data'.now.size = n
      /\ data'.now.page = [p \in Pages |-> IF p <= n THEN data.now.page[p] ELSE 0]
  BY <1>1, <1>2, <1>3, TruncateIs
<1>5. data.now.page \in [Pages -> Val] /\ Sound(data.now) /\ data.now.size \in 0..N
  BY <1>1, NowIs
<1>6. ASSUME NEW p \in Pages, ~(p <= n)
      PROVE  data.now.page[p] = 0
  BY <1>2, <1>5, <1>6, PagesAre DEF Sound
<1>7. data'.now.page = data.now.page
  BY <1>4, <1>5, <1>6
<1> QED
  BY <1>2, <1>4, <1>5, <1>7

(* One page of journ_commit becomes, in the data file, that of the         *)
(* snapshot.                                                               *)
LEMMA CommitPageIs ==
    ASSUME Types, Lengths, CopyingInv, CommitPage
    PROVE  /\ FileOK(data') /\ data'.now.size = data.now.size
           /\ data'.now.page = [data.now.page EXCEPT ![Head(vec)] = snapshot[Head(vec)]]
           /\ Listed(Head(vec)) /\ Head(vec) \in Pages
<1> DEFINE k == Len(Ids) - Len(vec) + 1
<1>1. /\ vec # <<>> /\ sync = "copy"
      /\ data' = WritePage(data, Head(vec), journal.now.page[k])
  BY DEF CommitPage, CopyPage, SyncStepTo, Ids
<1>2. /\ Complete(journal.now) /\ Len(vec) <= Len(Ids)
      /\ \A i \in 1..Len(vec) : vec[i] = Ids[Len(Ids) - Len(vec) + i]
  BY <1>1 DEF CopyingInv, Copying
<1>3. Head(vec) \in Pages /\ Head(vec) = vec[1] /\ Len(vec) \in Nat \ {0}
  BY <1>1, VecIs DEF Types
<1>4. FileOK(data) /\ FileOK(journal) /\ Len(Ids) \in 0..N
  BY NowIs DEF Types, StoreTypes, Ids
<1>5. k \in 1..Len(Ids) /\ Head(vec) = Ids[k]
  BY <1>2, <1>3, <1>4, PagesAre
<1>6. journal.now.page[k] = snapshot[Head(vec)] /\ Head(vec) <= length
  BY <1>2, <1>5 DEF Complete, Ids
<1>7. snapshot[Head(vec)] \in Val /\ Head(vec) <= data.now.size
  BY <1>3, <1>4, <1>6, NowIs, PagesAre DEF Types, StoreTypes, MainTypes, Lengths
<1> QED
  BY <1>1, <1>3, <1>4, <1>5, <1>6, <1>7, WritePageIs DEF Listed

(* In any other step what the data file holds now stays.                   *)
LEMMA DataStays ==
    ASSUME Types, SessionStep, ~CommitPage, \A n \in Pages : ~ExpandGrow(n)
    PROVE  FileOK(data') /\ data'.now = data.now /\ data' \in {data, Sync(data)}
<1>1. FileOK(data)
  BY DEF Types, StoreTypes
<1>2. data' \in {data, Sync(data)}
  <2>1. CASE ThreadStep
    BY <2>1 DEF ThreadStep, SyncLoop, FutexWait, SkipSnapshot, Done, files
  <2>2. CASE PageStep
    BY <2>2 DEF PageStep, JournalCow, HashPage, JournalPage, Remap, files
  <2>3. CASE CommitStep /\ ~PageStep
    BY <2>3 DEF CommitStep, TakeSnapshot, PrepareJournal, JournalIndex, FsyncJournal, Persisted,
       VerifyJournal, CommitEnd, FsyncData, DiscardJournal, files
  <2>4. CASE RequestStep
    BY <2>4 DEF RequestStep, Call, Ask, Abort, Close, Kick, Return, CloseQuit, CloseKick, files
  <2>5. CASE ExpandStep
    BY <2>5, ProgramIs DEF ExpandStep, ExpandSync, Types
  <2>6. CASE MemoryStep
    BY <2>6 DEF MemoryStep, Store, Fault, files
  <2> QED
    BY <2>1, <2>2, <2>3, <2>4, <2>5, <2>6 DEF SessionStep
<1> QED
  BY <1>1, <1>2, SyncIs

\* So a page stays, or becomes that of the snapshot.
LEMMA DataSteps ==
    ASSUME Types, Lengths, CopyingInv, SessionStep
    PROVE  /\ FileOK(data') /\ data'.now.size \in 0..N /\ data'.now.size >= data.now.size
           /\ data'.now.page \in [Pages -> Val]
           /\ ~CommitPage => data'.now.page = data.now.page
           /\ \A p \in Pages : data'.now.page[p] \in {data.now.page[p], snapshot[p]}
           /\ (\A n \in Pages : ~ExpandGrow(n)) => data'.now.size = data.now.size
<1>1. /\ data.now.page \in [Pages -> Val] /\ data.now.size \in 0..N
      /\ snapshot \in [Pages -> Val]
  BY NowIs DEF Types, StoreTypes
<1>2. CASE CommitPage
  <2>1. /\ FileOK(data') /\ data'.now.size = data.now.size /\ Head(vec) \in Pages
        /\ data'.now.page = [data.now.page EXCEPT ![Head(vec)] = snapshot[Head(vec)]]
    BY <1>2, CommitPageIs
  <2>2. data'.now.page \in [Pages -> Val]
    BY <2>1, <1>1
  <2> QED
    BY <1>1, <1>2, <2>1, <2>2, PagesAre
<1>3. CASE \E n \in Pages : ExpandGrow(n)
  <2>1. PICK n \in Pages : ExpandGrow(n)
    BY <1>3
  <2>2. /\ FileOK(data') /\ data'.now.size = n /\ data'.now.size > data.now.size
        /\ data'.now.page = data.now.page
    BY <2>1, GrowIs
  <2> QED
    BY <1>1, <1>3, <2>2, PagesAre
<1>4. CASE ~CommitPage /\ \A n \in Pages : ~ExpandGrow(n)
  BY <1>1, <1>4, DataStays, PagesAre
<1> QED
  BY <1>2, <1>3, <1>4

\* Where the sync thread has nothing to do with pages.
Waiting == {"loop", "futex", "sleep", "snapshot", "done", "exited"}

(* The steps that only order, wait and wake leave all pages and files      *)
(* alone.                                                                  *)
LEMMA QuietLeaves ==
    ASSUME Types, ThreadStep \/ RequestStep
    PROVE  /\ UNCHANGED <<data, journal, private, writable, dirty, npages, cow, jbuffered, plock,
                          vec, hashed, snapshot, durable, length, expanding, program, stores,
                          crashes>>
           /\ sync' # sync => sync \in Waiting /\ sync' \in Waiting
<1>1. CASE ThreadStep
  BY <1>1 DEF ThreadStep, SyncLoop, FutexWait, SkipSnapshot, Done, SyncStepTo, Waiting,
     files, memoryVars, commitVars, ghosts, bounds, Types, CtrlTypes
<1>2. CASE RequestStep
  BY <1>2 DEF RequestStep, Call, Ask, Abort, Close, Kick, Return, CloseQuit, CloseKick, MainStepTo,
     WakeSync, Waiting, files, memoryVars, commitVars, ghosts, bounds
<1> QED
  BY <1>1, <1>2

(* acid_expand changes the data file and its length, nothing else.         *)
LEMMA ExpandLeaves ==
    ASSUME Types, ExpandStep
    PROVE  /\ UNCHANGED <<journal, main, private, writable, dirty, npages, cow, jbuffered, plock,
                          vec, hashed, sync, op, op_futex, in_sync, waits, taken, at, waits_for,
                          asked, program, stores, crashes, snapshot, durable>>
           /\ \/ ExpandSync /\ expanding' = FALSE /\ length' = data.now.size
              \/ /\ \E n \in Pages : ExpandGrow(n)
                 /\ expanding' = TRUE /\ length' = length /\ main = "mapped" /\ ~expanding
BY ProgramIs DEF ExpandStep, ExpandSync, ExpandGrow, InUse, memoryVars, commitVars, ctrlVars, callers,
   bounds, ghosts, Types

(* A store, and the fault before it, change the pages and nothing else.    *)
LEMMA MemoryLeaves ==
    ASSUME MemoryStep
    PROVE  UNCHANGED <<data, journal, main, length, expanding, npages, jbuffered, plock, vec, hashed,
                       sync, op, op_futex, in_sync, waits, taken, at, waits_for, asked, program,
                       crashes, snapshot, durable>>
BY DEF MemoryStep, Store, Fault, files, commitVars, ctrlVars, callers, bounds, ghosts

(* The sync thread does not change what callers do, nor the length.        *)
LEMMA CommitLeaves ==
    ASSUME Types, CommitStep
    PROVE  UNCHANGED <<main, length, expanding, op_futex, at, waits_for, asked, program, stores,
                       crashes>>
<1>1. UNCHANGED <<main, length, expanding, callers, bounds>>
  BY SyncLeaves DEF Types
<1>2. op_futex' = op_futex
  BY DEF CommitStep, TakeSnapshot, PrepareJournal, PageStep, JournalCow, HashPage, JournalPage, Remap,
     JournalIndex, FsyncJournal, Persisted, VerifyJournal, CommitPage, CommitEnd, FsyncData,
     DiscardJournal, ctrlVars
<1> QED
  BY <1>1, <1>2 DEF callers, bounds

(* What a program reads is always a value.                                 *)
LEMMA MemoryIs ==
    ASSUME PageTypes, FileOK(data)
    PROVE  Memory \in [Pages -> Val]
BY NowIs DEF PageTypes, Memory

(* What a program reads changes only by its stores.                        *)
LEMMA MemorySteps ==
    ASSUME Types, During, SessionStep
    PROVE  \/ stores' = stores /\ Memory' = Memory /\ \A p \in Pages : ~Store(p)
           \/ \E p \in dirty : /\ Store(p) /\ stores' = stores + 1
                               /\ Memory' = [Memory EXCEPT ![p] = stores + 1]
<1>1. stores \in Nat /\ private \in [Pages -> Val \union {Unmodified}]
  BY ProgramIs DEF Types, MainTypes, PageTypes
<1>2. MemoryInv /\ CommitInv /\ Lengths
  BY DEF During
<1>3. \A p \in Pages : private[p] = Unmodified => data.now.page[p] = snapshot[p]
  BY <1>2 DEF MemoryInv
<1>4. CASE \E p \in Pages : Store(p)
  <2>1. PICK p \in Pages : Store(p)
    BY <1>4
  <2>2. /\ p \in dirty /\ stores' = stores + 1 /\ data' = data
        /\ private' = [private EXCEPT ![p] = stores + 1]
    BY <2>1 DEF Store, files, Types, PageTypes
  <2>3. Memory' = [Memory EXCEPT ![p] = stores + 1]
    <3> DEFINE new == [Memory EXCEPT ![p] = stores + 1]
    <3>1. Memory' = [q \in Pages |-> IF private'[q] = Unmodified THEN data.now.page[q]
                                     ELSE private'[q]]
      BY <2>2 DEF Memory
    <3>2. new = [q \in Pages |-> IF q = p THEN stores + 1 ELSE Memory[q]]
      BY DEF Memory
    <3>3. ASSUME NEW q \in Pages
          PROVE  (IF private'[q] = Unmodified THEN data.now.page[q] ELSE private'[q])
                    = IF q = p THEN stores + 1 ELSE Memory[q]
      BY <1>1, <2>2 DEF Memory, Unmodified
    <3> QED
      BY <3>1, <3>2, <3>3
  <2> QED
    BY <2>1, <2>2, <2>3
<1>5. CASE vec # <<>> /\ Remap(Head(vec))
  <2>1. /\ sync = "remap" /\ data' = data /\ stores' = stores
        /\ private' = IF Head(vec) \notin dirty THEN [private EXCEPT ![Head(vec)] = Unmodified]
                      ELSE private
    BY <1>5 DEF Remap, SyncStepTo, Clean, files, bounds
  <2>2. data.now.page = snapshot
    BY <1>2, <2>1 DEF CommitInv, CopyingInv
  <2>3. \A p \in Pages \ dirty : Memory[p] = snapshot[p]
    BY <1>2 DEF MemoryInv
  <2>4. Memory' = Memory
    BY <1>1, <2>1, <2>2, <2>3 DEF Memory
  <2>5. \A p \in Pages : ~Store(p)
    BY <1>1, <2>1 DEF Store
  <2> QED
    BY <2>1, <2>4, <2>5
<1>6. CASE ~(vec # <<>> /\ Remap(Head(vec))) /\ \A p \in Pages : ~Store(p)
  <2>1. private' = private /\ stores' = stores
    <3>1. CASE ThreadStep \/ RequestStep
      BY <3>1, QuietLeaves
    <3>2. CASE ExpandStep
      BY <3>2, ExpandLeaves
    <3>3. CASE MemoryStep
      BY <1>6, <3>3 DEF MemoryStep, Fault, bounds
    <3>4. CASE CommitStep
      <4>1. stores' = stores
        BY <3>4, CommitLeaves
      <4>2. private' = private
        BY <1>6, <3>4 DEF CommitStep, TakeSnapshot, PrepareJournal, PageStep, JournalCow, HashPage,
           JournalPage, JournalIndex, FsyncJournal, Persisted, VerifyJournal, CommitPage, CommitEnd,
           FsyncData, DiscardJournal, memoryVars
      <4> QED
        BY <4>1, <4>2
    <3> QED
      BY <3>1, <3>2, <3>3, <3>4 DEF SessionStep
  <2>2. \A p \in Pages : data'.now.page[p] \in {data.now.page[p], snapshot[p]}
    BY <1>2, DataSteps DEF CommitInv
  <2>3. Memory' = Memory
    BY <1>3, <2>1, <2>2 DEF Memory
  <2> QED
    BY <1>6, <2>1, <2>3
<1> QED
  BY <1>4, <1>5, <1>6

\* So it only grows.
LEMMA MemoryGrows ==
    ASSUME Types, During, SessionStep
    PROVE  \A p \in Pages : Memory'[p] >= Memory[p]
<1>1. Memory \in [Pages -> Val] /\ stores \in Nat
  BY MemoryIs, ProgramIs DEF Types, StoreTypes, MainTypes
<1>2. \A p \in Pages : Memory[p] \in Int /\ Memory[p] <= stores
  BY <1>1 DEF Val, Torn
<1> QED
  BY <1>1, <1>2, MemorySteps

-----------------------------------------------------------------------------
(* What the sync thread does to the journal.                               *)

(* The next page is that after those which are in the journal.             *)
LEMMA NextPageIs ==
    ASSUME Types, During, vec # <<>>, sync \in {"prepare", "page", "hashed"}
    PROVE  LET idx == SortedPages(npages)
               k == Journaled + 1
           IN /\ k \in 1..Len(idx) /\ k \in Pages /\ Journaled \in Nat
              /\ Head(vec) = idx[k] /\ Head(vec) \in npages /\ Head(vec) \in Pages
              /\ Len(vec) = Len(idx) - Journaled
<1> DEFINE idx == SortedPages(npages)
           k == Journaled + 1
<1>1. /\ Journaled >= 0 /\ Journaled + Len(vec) = Len(idx)
      /\ \A i \in 1..Len(vec) : vec[i] = idx[Journaled + i]
  BY DEF During, CommitInv, ProgressInv
<1>2. Head(vec) = vec[1] /\ Len(vec) \in Nat \ {0}
  BY VecIs DEF Types
<1>3. npages \in SUBSET Pages
  BY DEF Types, PageTypes
<1>4. Len(idx) \in 0..N /\ \A i \in 1..Len(idx) : idx[i] \in npages
  BY <1>3, SortedPagesAre
<1>5. Journaled \in Int
  BY DEF Journaled, Types, SyncTypes
<1> HIDE DEF idx
<1>6. k \in 1..Len(idx) /\ Head(vec) = idx[k]
  BY <1>1, <1>2, <1>4, <1>5
<1>7. k \in Pages /\ Journaled \in Nat
  BY <1>1, <1>4, <1>5, <1>6, PagesAre
<1>8. Head(vec) \in npages /\ Head(vec) \in Pages
  BY <1>3, <1>4, <1>6
<1>9. Len(vec) = Len(idx) - Journaled
  BY <1>1, <1>2, <1>5
<1> QED
  BY <1>6, <1>7, <1>8, <1>9 DEF idx

(* A hash that is appended is the last.                                    *)
LEMMA HashedGrows ==
    ASSUME SyncTypes, NEW v \in Val, hashed' = Append(hashed, v)
    PROVE  /\ hashed' \in Seq(Val) /\ Len(hashed') = Len(hashed) + 1 /\ Len(hashed) \in Nat
           /\ \A i \in 1..Len(hashed) : hashed'[i] = hashed[i]
           /\ hashed'[Len(hashed) + 1] = v
<1>1. hashed \in Seq(Val)
  BY DEF SyncTypes
<1> QED
  BY <1>1, AppendProperties

(* The journal is made as long as the snapshot has pages.                  *)
LEMMA PrepareIs ==
    ASSUME Types, PrepareJournal
    PROVE  /\ FileOK(journal') /\ journal'.now.index = journal.now.index
           /\ journal'.now.size = Len(SortedPages(npages))
<1>1. FileOK(journal) /\ stores \in Nat /\ npages \in SUBSET Pages
  BY ProgramIs DEF Types, StoreTypes, MainTypes, PageTypes
<1>2. Len(SortedPages(npages)) = Cardinality(npages) /\ Cardinality(npages) \in 0..N
  BY <1>1, SortedPagesAre
<1> QED
  BY <1>1, <1>2, TruncateIs DEF PrepareJournal

(* The next page of the snapshot is written behind the others.             *)
LEMMA PageWrittenIs ==
    ASSUME Types, During, vec # <<>>, sync \in {"page", "hashed"}, NEW v,
           v = snapshot[Head(vec)],
           journal' = WritePage(journal, Journaled + 1, v)
    PROVE  /\ FileOK(journal') /\ journal'.now.index = journal.now.index
           /\ journal'.now.size = Len(SortedPages(npages))
           /\ LET idx == SortedPages(npages)
              IN \A i \in 1..Journaled + 1 : journal'.now.page[i] = snapshot[idx[i]]
<1> DEFINE idx == SortedPages(npages)
           k == Journaled + 1
<1>1. /\ k \in 1..Len(idx) /\ k \in Pages /\ Journaled \in Nat
      /\ Head(vec) = idx[k] /\ Head(vec) \in Pages
  BY NextPageIs
<1>2. FileOK(journal) /\ v \in Val
  BY <1>1 DEF Types, StoreTypes
<1>3. /\ journal.now.size = Len(idx)
      /\ \A i \in 1..Journaled : journal.now.page[i] = snapshot[idx[i]]
  BY DEF During, CommitInv, ProgressInv
<1>4. /\ FileOK(journal') /\ journal'.now.index = journal.now.index
      /\ journal'.now.size = journal.now.size
      /\ journal'.now.page = IF k <= journal.now.size THEN [journal.now.page EXCEPT ![k] = v]
                             ELSE journal.now.page
  BY <1>1, <1>2, WritePageIs
<1>5. journal.now.page \in [Pages -> Val]
  BY <1>2, NowIs
<1> HIDE DEF idx
<1>6. journal'.now.page = [journal.now.page EXCEPT ![k] = v]
  BY <1>1, <1>3, <1>4
<1>7. ASSUME NEW i \in 1..k
      PROVE  journal'.now.page[i] = snapshot[idx[i]]
  BY <1>1, <1>3, <1>5, <1>6, PagesAre
<1> QED
  BY <1>3, <1>4, <1>7 DEF idx

(* A page that was copied, before it changed, is that of the snapshot: so  *)
(* it is hashed and written.                                               *)
LEMMA JournalCowIs ==
    ASSUME Types, During, vec # <<>>, JournalCow(Head(vec))
    PROVE  /\ cow[Head(vec)] = snapshot[Head(vec)] /\ snapshot[Head(vec)] \in Val
           /\ hashed' = Append(hashed, snapshot[Head(vec)])
           /\ journal' = WritePage(journal, Journaled + 1, snapshot[Head(vec)])
<1>1. /\ sync = "page" /\ cow[Head(vec)] # Unmodified
      /\ hashed' = Append(hashed, cow[Head(vec)])
      /\ journal' = WritePage(journal, Len(hashed'), cow[Head(vec)])
  BY DEF JournalCow, SyncStepTo
<1>2. Head(vec) \in npages /\ Head(vec) \in Pages
  BY <1>1, NextPageIs
<1>3. cow[Head(vec)] = snapshot[Head(vec)]
  BY <1>1, <1>2 DEF During, CommitInv, JournalingInv, Journaling
<1>4. snapshot[Head(vec)] \in Val
  BY <1>2 DEF Types, StoreTypes
<1>5. Len(hashed') = Journaled + 1
  BY <1>1, <1>3, <1>4, HashedGrows DEF Types, Journaled
<1> QED
  BY <1>1, <1>3, <1>4, <1>5

(* A page that was not copied has not been stored to since the snapshot.   *)
LEMMA HashPageIs ==
    ASSUME Types, During, vec # <<>>, HashPage(Head(vec))
    PROVE  /\ Head(vec) \notin dirty /\ snapshot[Head(vec)] \in Val /\ Head(vec) \in npages
           /\ hashed' = Append(hashed, snapshot[Head(vec)])
<1> DEFINE p == Head(vec)
           idx == SortedPages(npages)
<1>1. sync = "page" /\ cow[p] = Unmodified /\ hashed' = Append(hashed, Memory[p])
  BY DEF HashPage, SyncStepTo
<1>2. /\ p \in npages /\ p \in Pages /\ p = idx[Journaled + 1] /\ Journaled \in Nat
      /\ Journaled + 1 \in 1..Len(idx)
  BY <1>1, NextPageIs
<1>3. \A q \in jbuffered : \E i \in 1..Journaled : q = idx[i]
  BY <1>1 DEF During, CommitInv, ProgressInv
<1>4. Len(idx) \in 0..N /\ \A i, j \in 1..Len(idx) : idx[i] = idx[j] => i = j
  BY SortedPagesAre DEF Types, PageTypes
<1> HIDE DEF idx
<1>5. p \notin jbuffered
  BY <1>2, <1>3, <1>4
<1>6. snapshot[p] \in Val
  BY <1>2 DEF Types, StoreTypes
<1>7. p \notin dirty
  <2>1. p \in dirty => cow[p] = snapshot[p]
    BY <1>1, <1>2, <1>5 DEF During, CommitInv, JournalingInv, Journaling
  <2>2. Unmodified \notin Val
    BY ProgramIs DEF Val, Unmodified, Torn, Types, MainTypes
  <2> QED
    BY <1>1, <1>6, <2>1, <2>2
<1>8. Memory[p] = snapshot[p]
  BY <1>2, <1>7 DEF During, MemoryInv
<1> QED
  BY <1>1, <1>2, <1>6, <1>7, <1>8

(* A page that is written from memory is that of the snapshot too: the     *)
(* sync thread has its lock since it was hashed.                           *)
LEMMA JournalPageIs ==
    ASSUME Types, During, vec # <<>>, JournalPage(Head(vec))
    PROVE  /\ Head(vec) \in npages
           /\ journal' = WritePage(journal, Journaled + 1, snapshot[Head(vec)])
<1>1. /\ sync = "hashed"
      /\ journal' = WritePage(journal, Len(hashed), Memory[Head(vec)])
  BY DEF JournalPage, SyncStepTo
<1>2. Head(vec) \in npages /\ Head(vec) \in Pages
  BY <1>1, NextPageIs
<1>3. Head(vec) \notin dirty
  BY <1>1 DEF During, CommitInv, LockInv
<1>4. Memory[Head(vec)] = snapshot[Head(vec)]
  BY <1>2, <1>3 DEF During, MemoryInv
<1>5. Journaled + 1 = Len(hashed)
  BY <1>1 DEF Journaled, Types, SyncTypes
<1> QED
  BY <1>1, <1>2, <1>4, <1>5

(* Once all are written, the index that is written lists them.             *)
LEMMA JournalIndexIs ==
    ASSUME Types, During, JournalIndex
    PROVE  /\ FileOK(journal') /\ Complete(journal'.now)
           /\ journal'.now.index = [ids |-> SortedPages(npages), hash |-> hashed]
           /\ journal'.now.size = journal.now.size /\ journal'.now.page = journal.now.page
           /\ \A p \in npages : \E i \in 1..Len(SortedPages(npages)) : SortedPages(npages)[i] = p
<1> DEFINE idx == SortedPages(npages)
           ix == [ids |-> idx, hash |-> hashed]
<1>1. sync = "page" /\ vec = <<>> /\ journal' = WriteIndex(journal, ix)
  BY DEF JournalIndex, SyncStepTo
<1>2. /\ Journaled + Len(vec) = Len(idx) /\ journal.now.size = Len(idx)
      /\ \A i \in 1..Len(hashed) : hashed[i] = snapshot[idx[i]]
      /\ \A i \in 1..Journaled : journal.now.page[i] = snapshot[idx[i]]
  BY <1>1 DEF During, CommitInv, ProgressInv
<1>3. hashed \in Seq(Val) /\ Len(vec) = 0 /\ Journaled = Len(hashed)
  BY <1>1 DEF Types, SyncTypes, Journaled
<1>4. Len(hashed) = Len(idx)
  BY <1>2, <1>3
<1>5. npages \in SUBSET Pages /\ npages # {}
  BY <1>1 DEF Types, PageTypes, During, CommitInv, JournalingInv, Journaling
<1>6. /\ idx \in Seq(Pages) /\ Len(idx) \in 0..N /\ Len(idx) > 0
      /\ \A i \in 1..Len(idx) : idx[i] \in npages
      /\ \A p \in npages : \E i \in 1..Len(idx) : idx[i] = p
  BY <1>5, SortedPagesAre
<1>7. npages \subseteq 1..length
  BY DEF During, Lengths
<1> HIDE DEF idx
<1>8. /\ ix \in [ids : Seq(Pages), hash : Seq(Val)] /\ ix.ids = idx /\ ix.hash = hashed
      /\ Len(ix.ids) <= N /\ Len(ix.hash) = Len(ix.ids)
  BY <1>3, <1>4, <1>6
<1>9. FileOK(journal)
  BY DEF Types, StoreTypes
<1> HIDE DEF ix
<1>10. /\ FileOK(journal') /\ journal'.now.index = ix
       /\ journal'.now.size = journal.now.size /\ journal'.now.page = journal.now.page
  BY <1>1, <1>8, <1>9, WriteIndexIs
<1>11. ASSUME NEW i \in 1..Len(idx)
       PROVE  /\ idx[i] \in 1..length /\ journal.now.page[i] = snapshot[idx[i]]
              /\ hashed[i] = snapshot[idx[i]]
  BY <1>2, <1>3, <1>4, <1>6, <1>7
<1>12. Complete(journal'.now)
  BY <1>2, <1>6, <1>8, <1>10, <1>11 DEF Complete
<1> QED
  BY <1>6, <1>10, <1>12 DEF idx, ix

-----------------------------------------------------------------------------
(* A step of a session keeps the types.                                    *)

(* The values that pages may hold get more, never less.                    *)
LEMMA ValGrows ==
    ASSUME Types, During, SessionStep
    PROVE  /\ stores \in Nat /\ stores' \in {stores, stores + 1}
           /\ Val \subseteq Val' /\ (stores' = stores => Val' = Val)
           /\ Seq(Val) \subseteq Seq(Val')
<1>1. stores \in Nat
  BY ProgramIs DEF Types, MainTypes
<1>2. stores' \in {stores, stores + 1}
  BY MemorySteps
<1>3. Val \subseteq Val' /\ (stores' = stores => Val' = Val)
  BY <1>1, <1>2 DEF Val
<1> QED
  BY <1>1, <1>2, <1>3, SeqMonotonic

(* So a file of values before is one of values after.                      *)
LEMMA FilesGrow ==
    ASSUME Val \subseteq Val', Seq(Val) \subseteq Seq(Val'), FileOK(data'), FileOK(journal')
    PROVE  FileOK(data)' /\ FileOK(journal)'
<1>1. Images \subseteq Images'
  <2> SUFFICES ASSUME NEW im \in Images
               PROVE  im \in Images'
    OBVIOUS
  <2>1. im = [size |-> im.size, kept |-> im.kept, index |-> im.index, page |-> im.page]
    BY DEF Images
  <2>2. im.index = [ids |-> im.index.ids, hash |-> im.index.hash]
    BY DEF Images
  <2>3. /\ im.size \in 0..N /\ im.kept \in 0..N /\ im.index.ids \in Seq(Pages)
        /\ im.index.hash \in Seq(Val') /\ im.page \in [Pages -> Val']
    BY DEF Images
  <2>4. im.index \in [ids : Seq(Pages), hash : Seq(Val')]
    BY <2>2, <2>3
  <2> QED
    BY <2>1, <2>3, <2>4 DEF Images, N
<1> QED
  BY <1>1 DEF FileOK

(* Of the lengths and the bounds.                                          *)
LEMMA MainTypesKept ==
    ASSUME Types, During, SessionStep
    PROVE  MainTypes'
<1>1. MainTypes /\ data.now.size \in 0..N
  BY NowIs DEF Types, StoreTypes
<1>2. CASE ThreadStep \/ RequestStep
  <2>1. UNCHANGED <<length, expanding, program, stores, crashes>>
    BY <1>2, QuietLeaves
  <2>2. main' \in MainPoints
    <3>1. CASE ThreadStep
      BY <1>1, <3>1, SyncLeaves DEF Types, MainTypes
    <3>2. CASE RequestStep
      BY <1>1, <3>2 DEF RequestStep, Call, Ask, Abort, Close, Kick, Return, CloseQuit, CloseKick,
         MainStepTo, MainTypes, MainPoints
    <3> QED
      BY <1>2, <3>1, <3>2
  <2> QED
    BY <1>1, <2>1, <2>2 DEF MainTypes
<1>3. CASE ExpandStep
  BY <1>1, <1>3, ExpandLeaves DEF MainTypes
<1>4. CASE CommitStep
  BY <1>1, <1>4, CommitLeaves DEF MainTypes
<1>5. CASE MemoryStep
  <2>1. UNCHANGED <<program, crashes, main, length, expanding>>
    BY <1>5, MemoryLeaves
  <2>2. stores' \in 0..program.stores
    BY <1>1, <1>5, ProgramIs DEF MemoryStep, Store, Fault, bounds, MainTypes
  <2> QED
    BY <1>1, <2>1, <2>2 DEF MainTypes
<1> QED
  BY <1>2, <1>3, <1>4, <1>5 DEF SessionStep

(* Of the pages, their copies and the sets they are in.                    *)
LEMMA PageTypesKept ==
    ASSUME Types, During, SessionStep
    PROVE  PageTypes'
<1>1. PageTypes /\ Val \subseteq Val'
  BY ValGrows DEF Types
<1>2. CASE ThreadStep \/ RequestStep
  BY <1>1, <1>2, QuietLeaves DEF PageTypes
<1>3. CASE ExpandStep
  BY <1>1, <1>3, ExpandLeaves DEF PageTypes
<1>4. CASE MemoryStep
  <2>1. UNCHANGED <<npages, jbuffered, plock>>
    BY <1>4, MemoryLeaves
  <2>2. PICK p \in Pages : Store(p) \/ Fault(p)
    BY <1>4 DEF MemoryStep
  <2>3. CASE Store(p)
    <3>1. /\ UNCHANGED <<writable, dirty, cow>> /\ stores' = stores + 1
          /\ private' = [private EXCEPT ![p] = stores']
      BY <2>3 DEF Store, commitVars
    <3>2. stores' \in Val'
      BY <3>1, ValGrows DEF Val
    <3> QED
      BY <1>1, <2>1, <3>1, <3>2 DEF PageTypes
  <2>4. CASE Fault(p)
    <3>1. Memory[p] \in Val
      BY MemoryIs DEF Types, StoreTypes
    <3>2. cow' \in [Pages -> Val \union {Unmodified}]
      BY <1>1, <2>4, <3>1 DEF Fault, Copied, PageTypes
    <3>3. private' = private /\ writable' = dirty' /\ dirty' \subseteq Pages
      BY <1>1, <2>4 DEF Fault, PageTypes
    <3> QED
      BY <1>1, <2>1, <3>2, <3>3 DEF PageTypes
  <2> QED
    BY <2>2, <2>3, <2>4
<1>5. CASE PageStep
  <2>1. UNCHANGED <<cow, writable, dirty, npages>> /\ vec # <<>>
    BY <1>5 DEF PageStep, JournalCow, HashPage, JournalPage, Remap, memoryVars
  <2>2. Head(vec) \in Pages
    BY <2>1, VecIs DEF Types
  <2>3. private' \in [Pages -> Val \union {Unmodified}]
    BY <1>1, <1>5, <2>2 DEF PageStep, JournalCow, HashPage, JournalPage, Remap, memoryVars, PageTypes
  <2>4. plock' \subseteq npages /\ jbuffered' \subseteq npages
    BY <1>1, <1>5, <2>1, HashPageIs, JournalPageIs DEF PageStep, JournalCow, HashPage, JournalPage,
       Remap, PageTypes
  <2> QED
    BY <1>1, <2>1, <2>3, <2>4 DEF PageTypes
<1>6. CASE TakeSnapshot
  <2>1. /\ writable' = {} /\ dirty' = {} /\ npages' = dirty /\ cow' = Reset /\ jbuffered' = {}
        /\ private' = private /\ plock' = plock /\ sync = "snapshot"
    BY <1>6 DEF TakeSnapshot, Protected, SyncStepTo
  <2>2. plock = {}
    BY <1>1, <2>1 DEF During, CommitInv, IdleInv, Journaling, Copying, PageTypes
  <2> QED
    BY <1>1, <2>1, <2>2 DEF PageTypes, Reset
<1>7. CASE Persisted
  <2>1. /\ UNCHANGED <<private, writable, dirty, plock>> /\ sync = "persisted"
        /\ npages' = {} /\ cow' = Reset /\ jbuffered' = {}
    BY <1>7 DEF Persisted, SyncStepTo, memoryVars
  <2>2. plock = {}
    BY <2>1 DEF During, CommitInv, LockInv, Copying, Journaling
  <2> QED
    BY <1>1, <2>1, <2>2 DEF PageTypes, Reset
<1>8. CASE CommitStep /\ ~PageStep /\ ~TakeSnapshot /\ ~Persisted
  <2>1. UNCHANGED <<private, writable, dirty, plock, npages, cow, jbuffered>>
    BY <1>8 DEF CommitStep, PrepareJournal, JournalIndex, FsyncJournal, VerifyJournal, CommitPage,
       CommitEnd, FsyncData, DiscardJournal, memoryVars, commitVars
  <2> QED
    BY <1>1, <2>1 DEF PageTypes
<1> QED
  BY <1>2, <1>3, <1>4, <1>5, <1>6, <1>7, <1>8 DEF SessionStep

(* Of the pages that the sync thread has to do, and their hashes.          *)
LEMMA SyncTypesKept ==
    ASSUME Types, During, SessionStep
    PROVE  SyncTypes'
<1>1. SyncTypes /\ CtrlTypes /\ Seq(Val) \subseteq Seq(Val')
  BY ValGrows DEF Types
<1>2. CASE ThreadStep
  <2>1. vec' = vec /\ hashed' = hashed
    BY <1>2, QuietLeaves
  <2>2. sync' \in SyncPoints
    BY <1>1, <1>2, SyncLeaves
  <2> QED
    BY <1>1, <2>1, <2>2 DEF SyncTypes
<1>3. CASE RequestStep
  <2>1. vec' = vec /\ hashed' = hashed
    BY <1>3, QuietLeaves
  <2>2. sync' \in SyncPoints
    BY <1>1, <1>3, QuietLeaves DEF SyncTypes, Waiting, SyncPoints
  <2> QED
    BY <1>1, <2>1, <2>2 DEF SyncTypes
<1>4. CASE ExpandStep
  BY <1>1, <1>4, ExpandLeaves DEF SyncTypes
<1>5. CASE MemoryStep
  BY <1>1, <1>5, MemoryLeaves DEF SyncTypes
<1>6. CASE CommitStep
  <2>1. sync' \in SyncPoints
    BY <1>1, <1>6, SyncLeaves
  <2>2. vec' \in Seq(Pages)
    <3>1. CASE PageStep
      <4>1. vec # <<>> /\ vec' \in {vec, Tail(vec)}
        BY <3>1 DEF PageStep, JournalCow, HashPage, JournalPage, Remap
      <4> QED
        BY <1>1, <4>1, VecIs DEF SyncTypes
    <3>2. CASE TakeSnapshot
      BY <3>2, SortedPagesAre DEF TakeSnapshot, Types, PageTypes
    <3>3. CASE VerifyJournal \/ CommitEnd
      BY <3>3, NowIs DEF VerifyJournal, CommitEnd, Types, StoreTypes
    <3>4. CASE CommitPage
      <4>1. vec # <<>> /\ vec' = Tail(vec)
        BY <3>4 DEF CommitPage, CopyPage
      <4> QED
        BY <1>1, <4>1, VecIs DEF SyncTypes
    <3>5. CASE PrepareJournal \/ JournalIndex \/ FsyncJournal \/ Persisted \/ FsyncData
               \/ DiscardJournal
      BY <1>1, <3>5 DEF PrepareJournal, JournalIndex, FsyncJournal, Persisted, FsyncData,
         DiscardJournal, commitVars, SyncTypes
    <3> QED
      BY <1>6, <3>1, <3>2, <3>3, <3>4, <3>5 DEF CommitStep
  <2>3. hashed' \in Seq(Val) /\ Len(hashed') <= N
    <3>1. CASE PageStep
      <4>1. CASE JournalCow(Head(vec)) \/ HashPage(Head(vec))
        <5>1. vec # <<>> /\ sync = "page"
          BY <3>1, <4>1 DEF PageStep, JournalCow, HashPage, SyncStepTo
        <5>2. snapshot[Head(vec)] \in Val /\ hashed' = Append(hashed, snapshot[Head(vec)])
          BY <4>1, <5>1, JournalCowIs, HashPageIs
        <5>3. hashed' \in Seq(Val) /\ Len(hashed') = Len(hashed) + 1 /\ Len(hashed) \in Nat
          BY <1>1, <5>2, HashedGrows
        <5>4. Journaled + 1 \in Pages
          BY <5>1, NextPageIs
        <5>5. Journaled = Len(hashed)
          BY <5>1 DEF Journaled
        <5> QED
          BY <5>3, <5>4, <5>5, PagesAre
      <4>2. CASE JournalPage(Head(vec)) \/ Remap(Head(vec))
        BY <1>1, <4>2 DEF JournalPage, Remap, SyncTypes
      <4> QED
        BY <3>1, <4>1, <4>2 DEF PageStep
    <3>2. CASE TakeSnapshot \/ Persisted
      <4>1. hashed' = <<>>
        BY <3>2 DEF TakeSnapshot, Persisted
      <4> QED
        BY <4>1, PagesAre
    <3>3. CASE CommitStep /\ ~PageStep /\ ~TakeSnapshot /\ ~Persisted
      BY <1>1, <3>3 DEF CommitStep, PrepareJournal, JournalIndex, FsyncJournal, VerifyJournal,
         CommitPage, CommitEnd, FsyncData, DiscardJournal, commitVars, SyncTypes
    <3> QED
      BY <1>6, <3>1, <3>2, <3>3
  <2> QED
    BY <1>1, <2>1, <2>2, <2>3 DEF SyncTypes
<1> QED
  BY <1>2, <1>3, <1>4, <1>5, <1>6 DEF SessionStep

(* What the requests do to ctrl keeps its types.                           *)
LEMMA CtrlTypesKept ==
    ASSUME Types, During, SessionStep
    PROVE  CtrlTypes'
<1>1. CtrlTypes /\ Val \subseteq Val'
  BY ValGrows DEF Types
<1>2. asked \in [Callers -> [Pages -> Val']]
  BY <1>1 DEF CtrlTypes
<1>3. Memory \in [Pages -> Val] /\ EmptyPages \in [Pages -> Val]
  BY MemoryIs, ValGrows DEF Types, StoreTypes, EmptyPages, Val
<1>4. CASE ThreadStep \/ CommitStep
  <2>1. UNCHANGED <<at, waits_for, asked>>
    BY <1>1, <1>4, SyncLeaves DEF callers
  <2>2. op' \in {"none", "commit", "quit"} /\ op_futex' \in {0, 1} /\ in_sync' \in BOOLEAN
    BY <1>1, <1>4 DEF ThreadStep, CommitStep, SyncLoop, FutexWait, SkipSnapshot, Done, TakeSnapshot,
       PrepareJournal, PageStep, JournalCow, HashPage, JournalPage, Remap, JournalIndex, FsyncJournal,
       Persisted, VerifyJournal, CommitPage, CommitEnd, FsyncData, DiscardJournal, ctrlVars, CtrlTypes
  <2>3. waits' \in [Kinds -> SUBSET Callers] /\ taken' \in [Kinds -> SUBSET Callers]
    BY <1>1, <1>4 DEF ThreadStep, CommitStep, SyncLoop, FutexWait, SkipSnapshot, Done, TakeSnapshot,
       PrepareJournal, PageStep, JournalCow, HashPage, JournalPage, Remap, JournalIndex, FsyncJournal,
       Persisted, VerifyJournal, CommitPage, CommitEnd, FsyncData, DiscardJournal, ctrlVars, CtrlTypes,
       NoCallers, Told
  <2> QED
    BY <1>1, <1>2, <2>1, <2>2, <2>3 DEF CtrlTypes
<1>5. CASE ExpandStep
  BY <1>1, <1>2, <1>5, ExpandLeaves DEF CtrlTypes
<1>6. CASE MemoryStep
  BY <1>1, <1>2, <1>6, MemoryLeaves DEF CtrlTypes
<1>7. ASSUME NEW f \in Callers, NEW fn \in Functions, Ask(f, fn)
      PROVE  CtrlTypes'
  <2>1. /\ op' = "commit" /\ op_futex' = op_futex /\ in_sync' = in_sync /\ taken' = taken
        /\ waits' = [k \in Kinds |-> IF k \in KindsOf(fn) THEN waits[k] \union {f} ELSE waits[k]]
        /\ waits_for' = [waits_for EXCEPT ![f] = FirstOf(fn)]
        /\ asked' = [asked EXCEPT ![f] = Memory]
        /\ at' = [at EXCEPT ![f] = IF op = "none" THEN "kick" ELSE "wait"]
    BY <1>7 DEF Ask
  <2>2. FirstOf(fn) \in Kinds
    BY DEF FirstOf, Kinds, Functions
  <2>3. asked' \in [Callers -> [Pages -> Val']]
    BY <1>2, <1>3, <2>1, <1>1
  <2>4. waits' \in [Kinds -> SUBSET Callers]
    BY <1>1, <2>1 DEF CtrlTypes
  <2> QED
    BY <1>1, <2>1, <2>2, <2>3, <2>4 DEF CtrlTypes
<1>8. ASSUME NEW f \in Callers, Return(f) \/ Abort(f)
      PROVE  CtrlTypes'
  <2>1. /\ op' = op /\ op_futex' = op_futex /\ in_sync' = in_sync
        /\ at' \in {at, [at EXCEPT ![f] = "idle"]}
        /\ waits_for' = [waits_for EXCEPT ![f] = "sync"]
        /\ asked' \in {asked, [asked EXCEPT ![f] = EmptyPages]}
    BY <1>8 DEF Return, Abort, Back, ctrlVars
  <2>2. asked' \in [Callers -> [Pages -> Val']]
    BY <1>2, <1>3, <2>1, <1>1
  <2>3. waits' \in [Kinds -> SUBSET Callers] /\ taken' \in [Kinds -> SUBSET Callers]
    BY <1>1, <1>8 DEF Return, Abort, ctrlVars, CtrlTypes
  <2>4. "sync" \in Kinds
    BY DEF Kinds
  <2> QED
    BY <1>1, <2>1, <2>2, <2>3, <2>4 DEF CtrlTypes
<1>9. CASE CloseQuit \/ CloseKick \/ \E f \in Callers : Kick(f)
  BY <1>1, <1>2, <1>9 DEF CloseQuit, CloseKick, Kick, WakeSync, callers, CtrlTypes
<1>10. CASE RequestStep
  <2>1. \A a \in program.asks : a[1] \in Callers /\ a[2] \in Functions
    BY ProgramIs DEF Types
  <2>2. program.canceled \subseteq Callers
    BY ProgramIs DEF Types
  <2>3. CASE \E a \in program.asks : Call(a[1], a[2])
    BY <1>7, <2>1, <2>3 DEF Call
  <2>4. CASE \E f \in program.canceled : Abort(f)
    BY <1>8, <2>2, <2>4
  <2>5. CASE \E f \in Callers : Close(f)
    BY <1>7, <2>5 DEF Close, Functions
  <2>6. CASE \E f \in Callers : Return(f)
    BY <1>8, <2>6
  <2> QED
    BY <1>9, <1>10, <2>3, <2>4, <2>5, <2>6 DEF RequestStep
<1> QED
  BY <1>4, <1>5, <1>6, <1>10 DEF SessionStep

(* Of the files and the ghosts.                                            *)
LEMMA StoreTypesKept ==
    ASSUME Types, During, SessionStep
    PROVE  StoreTypes'
<1>1. /\ StoreTypes /\ Val \subseteq Val' /\ Seq(Val) \subseteq Seq(Val')
      /\ snapshot \in [Pages -> Val'] /\ durable \in [Pages -> Val']
  BY ValGrows DEF Types, StoreTypes
<1>2. FileOK(data')
  BY DataSteps DEF During, CommitInv
<1>3. FileOK(journal')
  <2>1. CASE ~CommitStep
    BY <1>1, <2>1, QuietLeaves, ExpandLeaves, MemoryLeaves DEF SessionStep, StoreTypes
  <2>2. CASE PageStep
    <3>1. CASE JournalCow(Head(vec)) \/ JournalPage(Head(vec))
      <4>1. vec # <<>> /\ sync \in {"page", "hashed"}
        BY <2>2, <3>1 DEF PageStep, JournalCow, JournalPage, SyncStepTo
      <4>2. journal' = WritePage(journal, Journaled + 1, snapshot[Head(vec)])
        BY <3>1, <4>1, JournalCowIs, JournalPageIs
      <4> QED
        BY <4>1, <4>2, PageWrittenIs
    <3>2. CASE HashPage(Head(vec)) \/ Remap(Head(vec))
      BY <1>1, <3>2 DEF HashPage, Remap, files, StoreTypes
    <3> QED
      BY <2>2, <3>1, <3>2 DEF PageStep
  <2>3. CASE PrepareJournal
    BY <2>3, PrepareIs
  <2>4. CASE JournalIndex
    BY <2>4, JournalIndexIs
  <2>5. CASE FsyncJournal
    BY <1>1, <2>5, SyncIs DEF FsyncJournal, JournalSynced, StoreTypes
  <2>6. CASE DiscardJournal
    <3>1. 0 \in 0..N /\ stores \in Nat
      BY PagesAre, ValGrows
    <3> QED
      BY <1>1, <2>6, <3>1, TruncateIs DEF DiscardJournal, StoreTypes
  <2>7. CASE TakeSnapshot \/ Persisted \/ VerifyJournal \/ CommitPage \/ CommitEnd \/ FsyncData
    BY <1>1, <2>7 DEF TakeSnapshot, Persisted, VerifyJournal, CommitPage, CommitEnd, FsyncData,
       files, StoreTypes
  <2> QED
    BY <2>1, <2>2, <2>3, <2>4, <2>5, <2>6, <2>7 DEF CommitStep
<1>4. FileOK(data)' /\ FileOK(journal)'
  BY <1>1, <1>2, <1>3, FilesGrow
<1>5. snapshot' \in [Pages -> Val'] /\ durable' \in [Pages -> Val']
  <2>1. CASE ~CommitStep
    BY <1>1, <2>1, QuietLeaves, ExpandLeaves, MemoryLeaves DEF SessionStep
  <2>2. CASE CommitStep
    <3>1. snapshot' \in {snapshot, Memory} /\ durable' \in {durable, snapshot}
      BY <2>2 DEF CommitStep, TakeSnapshot, PrepareJournal, PageStep, JournalCow, HashPage,
         JournalPage, Remap, JournalIndex, FsyncJournal, Persisted, VerifyJournal, CommitPage,
         CommitEnd, FsyncData, DiscardJournal, ghosts
    <3>2. Memory \in [Pages -> Val']
      BY <1>1, MemoryIs DEF Types, StoreTypes
    <3> QED
      BY <1>1, <3>1, <3>2
  <2> QED
    BY <2>1, <2>2
<1> QED
  BY <1>4, <1>5 DEF StoreTypes

(* Of all.                                                                 *)
LEMMA TypesKept ==
    ASSUME Types, During, SessionStep
    PROVE  Types'
BY MainTypesKept, PageTypesKept, SyncTypesKept, CtrlTypesKept, StoreTypesKept DEF Types

-----------------------------------------------------------------------------
(* A step of a session keeps what is said of the memory.                   *)

(* What becomes dirty, and what the pages of the snapshot are.             *)
LEMMA DirtySteps ==
    ASSUME Types, SessionStep
    PROVE  /\ \/ dirty' = dirty
              \/ TakeSnapshot /\ dirty' = {}
              \/ \E p \in Pages \ dirty : Fault(p) /\ dirty' = dirty \union {p}
           /\ \/ npages' = npages
              \/ TakeSnapshot /\ npages' = dirty
              \/ Persisted /\ npages' = {}
           /\ \/ snapshot' = snapshot
              \/ TakeSnapshot /\ snapshot' = Memory
           /\ \/ durable' = durable
              \/ FsyncJournal /\ durable' = snapshot
<1>1. CASE ThreadStep \/ RequestStep
  BY <1>1, QuietLeaves
<1>2. CASE ExpandStep
  BY <1>2, ExpandLeaves
<1>3. CASE MemoryStep
  <2>1. PICK p \in Pages : Store(p) \/ Fault(p)
    BY <1>3 DEF MemoryStep
  <2>2. dirty' = dirty \/ (Fault(p) /\ dirty' = dirty \union {p} /\ p \notin dirty)
    BY <2>1 DEF Store, Fault, Types, PageTypes
  <2> QED
    BY <1>3, <2>2, MemoryLeaves
<1>4. CASE CommitStep
  BY <1>4 DEF CommitStep, TakeSnapshot, PrepareJournal, PageStep, JournalCow, HashPage, JournalPage,
     Remap, JournalIndex, FsyncJournal, Persisted, VerifyJournal, CommitPage, CommitEnd, FsyncData,
     DiscardJournal, memoryVars, commitVars, ghosts
<1> QED
  BY <1>1, <1>2, <1>3, <1>4 DEF SessionStep

(* The mapped length only grows, within the data file, which is as long as *)
(* the mapping unless acid_expand is between its ftruncate and its sync.   *)
LEMMA LengthsKept ==
    ASSUME Types, During, SessionStep
    PROVE  Lengths'
<1>1. Lengths /\ CopyingInv
  BY DEF During, CommitInv
<1>2. data'.now.size \in 0..N /\ data'.now.size >= data.now.size
  BY <1>1, DataSteps
<1>3. data.now.size \in 0..N /\ length \in 0..N
  BY NowIs DEF Types, StoreTypes, MainTypes
<1>4. length' \in 0..N /\ length' >= length /\ length' <= data'.now.size
      /\ (~expanding' => length' = data'.now.size) /\ (expanding' => main' = "mapped")
  <2>1. CASE ExpandStep
    <3>1. main' = main
      BY <2>1, ExpandLeaves
    <3>2. CASE ExpandSync /\ expanding' = FALSE /\ length' = data.now.size
      <4>1. data' = Sync(data)
        BY <3>2 DEF ExpandSync
      <4>2. data'.now.size = data.now.size
        BY <4>1, SyncIs DEF Types, StoreTypes
      <4> QED
        BY <1>1, <1>3, <3>2, <4>2 DEF Lengths
    <3>3. CASE expanding' = TRUE /\ length' = length /\ main = "mapped"
      BY <1>1, <1>2, <1>3, <3>1, <3>3, PagesAre DEF Lengths
    <3> QED
      BY <2>1, <3>2, <3>3, ExpandLeaves
  <2>2. CASE ~ExpandStep
    <3>1. length' = length /\ expanding' = expanding
      BY <2>2, QuietLeaves, MemoryLeaves, CommitLeaves DEF SessionStep
    <3>2. data'.now.size = data.now.size
      <4>1. \A n \in Pages : ~ExpandGrow(n)
        <5> SUFFICES ASSUME NEW n \in Pages, ExpandGrow(n)
                     PROVE  FALSE
          OBVIOUS
        <5>1. expanding' = TRUE /\ expanding = FALSE
          BY DEF ExpandGrow, Types, MainTypes
        <5> QED
          BY <3>1, <5>1
      <4> QED
        BY <1>1, <4>1, DataSteps
    <3>3. expanding' => main' = "mapped"
      <4>1. CASE RequestStep
        BY <1>1, <3>1, <4>1 DEF RequestStep, Call, Ask, Abort, Close, Kick, Return, CloseQuit,
           CloseKick, MainStepTo, AllIdle, Lengths
      <4>2. CASE ~RequestStep
        <5>1. main' = main
          BY <2>2, <4>2, SyncLeaves, MemoryLeaves DEF SessionStep, Types
        <5> QED
          BY <1>1, <3>1, <5>1 DEF Lengths
      <4> QED
        BY <4>1, <4>2
    <3> QED
      BY <1>1, <1>3, <3>1, <3>2, <3>3 DEF Lengths
  <2> QED
    BY <2>1, <2>2
<1>5. 1..length \subseteq 1..length'
  BY <1>3, <1>4
<1>6. dirty' \subseteq 1..length'
  <2>1. CASE \E p \in Pages \ dirty : Fault(p) /\ dirty' = dirty \union {p}
    <3>1. PICK p \in Pages \ dirty : Fault(p) /\ dirty' = dirty \union {p}
      BY <2>1
    <3>2. p \in 1..length
      BY <1>3, <3>1, PagesAre DEF Fault
    <3> QED
      BY <1>1, <1>5, <3>1, <3>2 DEF Lengths
  <2>2. CASE dirty' \subseteq dirty
    BY <1>1, <1>5, <2>2 DEF Lengths
  <2> QED
    BY <2>1, <2>2, DirtySteps
<1>7. npages' \subseteq 1..length'
  BY <1>1, <1>5, DirtySteps DEF Lengths
<1> QED
  BY <1>4, <1>6, <1>7 DEF Lengths

(* The private copy of a page is discarded only when the data file has the *)
(* same, so a program reads what it stored.                                *)
LEMMA MemoryInvKept ==
    ASSUME Types, During, SessionStep
    PROVE  MemoryInv'
<1>1. /\ MemoryInv /\ Memory \in [Pages -> Val] /\ snapshot \in [Pages -> Val]
      /\ durable \in [Pages -> Val] /\ private \in [Pages -> Val \union {Unmodified}]
  BY MemoryIs DEF During, Types, StoreTypes, PageTypes
<1>2. \A p \in Pages : Memory[p] \in Int /\ snapshot[p] \in Int /\ durable[p] \in Int
  BY <1>1, ValGrows DEF Val, Torn
<1>3. CASE TakeSnapshot
  <2>1. /\ private' = private /\ data' = data /\ dirty' = {} /\ snapshot' = Memory
        /\ durable' = durable
    BY <1>3 DEF TakeSnapshot, files
  <2>2. Memory' = Memory
    BY <2>1 DEF Memory
  <2>3. \A p \in Pages : private'[p] = Unmodified => data'.now.page[p] = snapshot'[p]
    BY <2>1 DEF Memory
  <2>4. Below(durable', snapshot') /\ Below(snapshot', Memory')
    BY <1>1, <1>2, <2>1, <2>2 DEF Below, MemoryInv
  <2> QED
    BY <2>1, <2>2, <2>3, <2>4 DEF MemoryInv, Below
<1>4. CASE ~TakeSnapshot
  <2>1. snapshot' = snapshot /\ durable' \in {durable, snapshot} /\ dirty \subseteq dirty'
    BY <1>4, DirtySteps
  <2>2. \A p \in Pages \ dirty' : Memory'[p] = snapshot[p]
    <3>1. \A p \in Pages \ dirty : Memory'[p] = Memory[p]
      BY <1>1, MemorySteps
    <3> QED
      BY <1>1, <2>1, <3>1 DEF MemoryInv
  <2>3. \A p \in Pages : private'[p] = Unmodified => data'.now.page[p] = snapshot[p]
    <3>1. \A p \in Pages : private[p] = Unmodified => data'.now.page[p] = snapshot[p]
      BY <1>1, DataSteps DEF During, CommitInv, MemoryInv
    <3>2. CASE \E p \in dirty : Store(p)
      <4>1. PICK p \in dirty : Store(p)
        BY <3>2
      <4>2. p \in Pages /\ private' = [private EXCEPT ![p] = stores + 1]
        BY <4>1 DEF Store, Types, PageTypes
      <4>3. stores + 1 # Unmodified
        BY ValGrows DEF Unmodified
      <4> QED
        BY <1>1, <3>1, <4>2, <4>3
    <3>3. CASE vec # <<>> /\ Remap(Head(vec))
      <4>1. sync = "remap" /\ data' = data
        BY <3>3 DEF Remap, SyncStepTo, files
      <4> QED
        BY <4>1 DEF During, CommitInv, CopyingInv
    <3>4. CASE ~(vec # <<>> /\ Remap(Head(vec))) /\ ~\E p \in dirty : Store(p)
      <4>1. private' = private
        <5>1. CASE ThreadStep \/ RequestStep
          BY <5>1, QuietLeaves
        <5>2. CASE ExpandStep
          BY <5>2, ExpandLeaves
        <5>3. CASE MemoryStep
          BY <3>4, <5>3 DEF MemoryStep, Store, Fault, Types, PageTypes
        <5>4. CASE CommitStep
          BY <3>4, <5>4 DEF CommitStep, TakeSnapshot, PrepareJournal, PageStep, JournalCow,
             HashPage, JournalPage, JournalIndex, FsyncJournal, Persisted, VerifyJournal,
             CommitPage, CommitEnd, FsyncData, DiscardJournal, memoryVars
        <5> QED
          BY <5>1, <5>2, <5>3, <5>4 DEF SessionStep
      <4> QED
        BY <3>1, <4>1
    <3> QED
      BY <3>2, <3>3, <3>4
  <2>4. Below(durable', snapshot') /\ Below(snapshot', Memory')
    <3>1. \A p \in Pages : Memory'[p] >= Memory[p] /\ Memory'[p] \in Int
      BY <1>1, <1>2, MemoryGrows, MemorySteps, ValGrows
    <3> QED
      BY <1>1, <1>2, <2>1, <3>1 DEF Below, MemoryInv
  <2> QED
    BY <2>1, <2>2, <2>3, <2>4 DEF MemoryInv, Below
<1> QED
  BY <1>3, <1>4

-----------------------------------------------------------------------------
(* And what is said of a commit.                                           *)

(* Only the sync thread comes to another point of it.                      *)
LEMMA OthersLeave ==
    ASSUME Types, During, SessionStep, ~CommitStep
    PROVE  /\ UNCHANGED <<journal, npages, jbuffered, plock, vec, hashed, snapshot, durable>>
           /\ data'.now.page = data.now.page
           /\ sync' # sync => sync \in Waiting /\ sync' \in Waiting
<1>1. data'.now.page = data.now.page
  BY DataSteps DEF During, CommitInv, CommitStep
<1> QED
  BY <1>1, QuietLeaves, ExpandLeaves, MemoryLeaves DEF SessionStep

(* A commit ends with its snapshot in the data file and no journal.        *)
LEMMA IdleInvKept ==
    ASSUME Types, During, SessionStep
    PROVE  IdleInv'
<1>1. IdleInv /\ CopyingInv
  BY DEF During, CommitInv
<1>2. CASE ~CommitStep
  <2>1. /\ UNCHANGED <<journal, npages, snapshot, durable>>
        /\ data'.now.page = data.now.page
        /\ sync' # sync => sync \in Waiting /\ sync' \in Waiting
    BY <1>2, OthersLeave
  <2> QED
    BY <1>1, <2>1 DEF IdleInv, Waiting, Journaling, Copying
<1>3. CASE FsyncData
  <2>1. /\ sync = "remap" /\ sync' = "discard" /\ npages' = npages
        /\ durable' = durable /\ snapshot' = snapshot
    BY <1>3 DEF FsyncData, SyncStepTo, commitVars, ghosts
  <2>2. data'.now.page = data.now.page
    BY <1>1, <1>3, <2>1, DataSteps DEF During, CommitPage, SyncStepTo
  <2> QED
    BY <1>1, <2>1, <2>2 DEF IdleInv, CopyingInv, Copying
<1>4. CASE DiscardJournal
  <2>1. /\ sync = "discard" /\ sync' = "done" /\ npages' = npages
        /\ durable' = durable /\ snapshot' = snapshot /\ data' = data
        /\ journal' = Truncate(journal, 0)
    BY <1>4 DEF DiscardJournal, SyncStepTo, commitVars, ghosts
  <2>2. journal'.now.size = 0
    <3>1. 0 \in 0..N /\ stores \in Nat /\ FileOK(journal)
      BY PagesAre, ValGrows DEF Types, StoreTypes
    <3> QED
      BY <2>1, <3>1, TruncateIs
  <2> QED
    BY <1>1, <2>1, <2>2 DEF IdleInv, Journaling, Copying
<1>5. CASE CommitStep /\ ~FsyncData /\ ~DiscardJournal
  <2>1. sync' \in Journaling \union Copying
    BY <1>5 DEF CommitStep, TakeSnapshot, PrepareJournal, PageStep, JournalCow, HashPage, JournalPage,
       Remap, JournalIndex, FsyncJournal, Persisted, VerifyJournal, CommitPage, CommitEnd, SyncStepTo,
       Journaling, Copying
  <2> QED
    BY <2>1 DEF IdleInv, Journaling, Copying
<1> QED
  BY <1>2, <1>3, <1>4, <1>5

(* The fault handler copies a page of the snapshot before it may change,   *)
(* unless it is in the journal already.                                    *)
LEMMA JournalingInvKept ==
    ASSUME Types, During, SessionStep
    PROVE  JournalingInv'
<1>1. JournalingInv /\ IdleInv /\ MemoryInv /\ PageTypes
  BY DEF During, CommitInv, Types
<1>2. CASE ~CommitStep
  <2>1. /\ UNCHANGED <<npages, jbuffered, snapshot, durable>>
        /\ data'.now.page = data.now.page
        /\ sync' # sync => sync \in Waiting /\ sync' \in Waiting
    BY <1>2, OthersLeave
  <2>2. CASE ~MemoryStep
    <3>1. cow' = cow /\ dirty' = dirty
      BY <1>2, <2>2, QuietLeaves, ExpandLeaves DEF SessionStep
    <3> QED
      BY <1>1, <2>1, <3>1 DEF JournalingInv, Journaling, Waiting
  <2>3. CASE MemoryStep
    <3>1. PICK p \in Pages : Store(p) \/ Fault(p)
      BY <2>3 DEF MemoryStep
    <3>2. CASE Store(p)
      <4>1. cow' = cow /\ dirty' = dirty
        BY <3>2 DEF Store, commitVars
      <4> QED
        BY <1>1, <2>1, <4>1 DEF JournalingInv, Journaling, Waiting
    <3>3. CASE Fault(p)
      <4>1. p \notin dirty /\ cow' = Copied(p) /\ dirty' \subseteq dirty \union {p}
        BY <1>1, <3>3 DEF Fault, PageTypes
      <4>2. Memory[p] = snapshot[p]
        BY <1>1, <4>1 DEF MemoryInv
      <4>3. \A q \in npages : cow'[q] = IF q = p /\ p \notin jbuffered /\ cow[p] = Unmodified
                                        THEN snapshot[p] ELSE cow[q]
        BY <1>1, <4>1, <4>2 DEF Copied, PageTypes
      <4> QED
        BY <1>1, <2>1, <4>1, <4>3 DEF JournalingInv, Journaling, Waiting
    <3> QED
      BY <3>1, <3>2, <3>3
  <2> QED
    BY <2>2, <2>3
<1>3. CASE TakeSnapshot
  <2>1. /\ sync = "snapshot" /\ npages' = dirty /\ dirty # {} /\ dirty' = {} /\ cow' = Reset
        /\ snapshot' = Memory /\ durable' = durable /\ data' = data
    BY <1>3 DEF TakeSnapshot, SyncStepTo, files
  <2>2. durable = snapshot /\ data.now.page = snapshot
    BY <1>1, <2>1 DEF IdleInv, Journaling, Copying
  <2>3. \A p \in Pages : cow'[p] = Unmodified
    BY <2>1 DEF Reset
  <2> QED
    BY <1>1, <2>1, <2>2, <2>3 DEF JournalingInv, MemoryInv, PageTypes
<1>4. CASE PrepareJournal \/ PageStep \/ JournalIndex
  <2>1. CASE sync' \in Journaling
    <3>1. /\ UNCHANGED <<npages, snapshot, durable, dirty, cow, data>> /\ sync \in Journaling
          /\ jbuffered \subseteq jbuffered'
      BY <1>4, <2>1 DEF PrepareJournal, PageStep, JournalCow, HashPage, JournalPage, Remap,
         JournalIndex, SyncStepTo, files, memoryVars, commitVars, ghosts, Journaling
    <3> QED
      BY <1>1, <3>1 DEF JournalingInv
  <2> QED
    BY <2>1 DEF JournalingInv, Journaling
<1>5. CASE CommitStep /\ ~(TakeSnapshot \/ PrepareJournal \/ PageStep \/ JournalIndex)
  <2>1. sync' \notin Journaling
    BY <1>5 DEF CommitStep, FsyncJournal, Persisted, VerifyJournal, CommitPage, CommitEnd, FsyncData,
       DiscardJournal, SyncStepTo, Journaling
  <2> QED
    BY <2>1 DEF JournalingInv, Journaling
<1> QED
  BY <1>2, <1>3, <1>4, <1>5

(* Between its hash and its write the sync thread has the lock of a page,  *)
(* so it does not become dirty.                                            *)
LEMMA LockInvKept ==
    ASSUME Types, During, SessionStep
    PROVE  LockInv'
<1>1. LockInv /\ PageTypes
  BY DEF During, CommitInv, Types
<1>2. CASE ~CommitStep
  <2>1. /\ plock' = plock /\ vec' = vec
        /\ sync' # sync => sync \in Waiting /\ sync' \in Waiting
    BY <1>2, OthersLeave
  <2>2. dirty' = dirty \/ \E p \in Pages : Fault(p) /\ dirty' = dirty \union {p}
    BY <1>2, DirtySteps DEF CommitStep
  <2>3. \A p \in Pages : Fault(p) => p \notin plock
    BY DEF Fault
  <2> QED
    BY <1>1, <2>1, <2>2, <2>3 DEF LockInv, Waiting
<1>3. CASE PageStep
  <2>1. CASE HashPage(Head(vec))
    <3>1. /\ vec # <<>> /\ sync' = "hashed" /\ plock' = {Head(vec)} /\ vec' = vec /\ dirty' = dirty
      BY <1>3, <2>1 DEF PageStep, HashPage, SyncStepTo, memoryVars
    <3>2. Head(vec) \notin dirty
      BY <2>1, <3>1, HashPageIs
    <3> QED
      BY <3>1, <3>2 DEF LockInv
  <2>2. CASE JournalCow(Head(vec)) \/ JournalPage(Head(vec)) \/ Remap(Head(vec))
    <3>1. sync' # "hashed" /\ plock' = {}
      BY <1>1, <2>2 DEF JournalCow, JournalPage, Remap, SyncStepTo, LockInv
    <3> QED
      BY <3>1 DEF LockInv
  <2> QED
    BY <1>3, <2>1, <2>2 DEF PageStep
<1>4. CASE CommitStep /\ ~PageStep
  <2>1. sync # "hashed" /\ sync' # "hashed" /\ plock' = plock
    BY <1>4 DEF CommitStep, TakeSnapshot, PrepareJournal, JournalIndex, FsyncJournal, Persisted,
       VerifyJournal, CommitPage, CommitEnd, FsyncData, DiscardJournal, SyncStepTo, commitVars
  <2> QED
    BY <1>1, <2>1 DEF LockInv
<1> QED
  BY <1>2, <1>3, <1>4

(* The pages are journaled in the order of the index, each as it was in    *)
(* the snapshot.                                                           *)
LEMMA ProgressInvKept ==
    ASSUME Types, During, SessionStep
    PROVE  ProgressInv'
<1> DEFINE idx == SortedPages(npages)
           points == {"prepare", "page", "hashed"}
<1>1. /\ ProgressInv /\ Len(hashed) \in Nat /\ Len(vec) \in Nat
      /\ Len(idx) \in Nat
  BY SortedPagesAre, PagesAre DEF During, CommitInv, Types, SyncTypes, PageTypes
<1>2. CASE ~CommitStep
  <2>1. /\ UNCHANGED <<journal, npages, jbuffered, vec, hashed, snapshot>>
        /\ sync' # sync => sync \in Waiting /\ sync' \in Waiting
    BY <1>2, OthersLeave
  <2>2. CASE sync' # sync
    BY <2>1, <2>2 DEF ProgressInv, Waiting
  <2>3. CASE sync' = sync
    BY <1>1, <2>1, <2>3 DEF ProgressInv, Journaled
  <2> QED
    BY <2>2, <2>3
<1>3. CASE TakeSnapshot
  <2>1. /\ sync' = "prepare" /\ npages' = dirty /\ vec' = SortedPages(dirty) /\ hashed' = <<>>
        /\ jbuffered' = {}
    BY <1>3 DEF TakeSnapshot, SyncStepTo
  <2>2. Len(vec') \in Nat
    BY <2>1, SortedPagesAre, PagesAre DEF Types, PageTypes
  <2>3. Journaled' = 0 /\ Len(hashed') = 0
    BY <2>1 DEF Journaled
  <2> QED
    BY <2>1, <2>2, <2>3 DEF ProgressInv
<1>4. CASE PrepareJournal
  <2>1. /\ sync = "prepare" /\ sync' = "page"
        /\ UNCHANGED <<npages, jbuffered, vec, hashed, snapshot>>
    BY <1>4 DEF PrepareJournal, SyncStepTo, commitVars, ghosts
  <2>2. journal'.now.size = Len(idx)
    BY <1>4, PrepareIs
  <2>3. Journaled' = Journaled /\ Journaled = Len(hashed) /\ hashed = <<>>
    BY <1>1, <2>1 DEF Journaled, ProgressInv
  <2>4. Len(hashed) = 0
    BY <2>3
  <2> QED
    BY <1>1, <2>1, <2>2, <2>3, <2>4 DEF ProgressInv
<1>5. CASE PageStep
  <2>1. vec # <<>>
    BY <1>5 DEF PageStep
  <2>2. /\ Len(Tail(vec)) = Len(vec) - 1
        /\ \A i \in 1..Len(vec) - 1 : Tail(vec)[i] = vec[i + 1]
    BY <2>1, VecIs DEF Types
  <2>3. /\ npages' = npages /\ snapshot' = snapshot
    BY <1>5 DEF PageStep, JournalCow, HashPage, JournalPage, Remap, commitVars, ghosts
  <2>4. CASE JournalCow(Head(vec))
    <3>1. sync = "page" /\ sync' = "page" /\ vec' = Tail(vec) /\ jbuffered' = jbuffered
      BY <2>4 DEF JournalCow, SyncStepTo
    <3>2. /\ snapshot[Head(vec)] \in Val /\ hashed' = Append(hashed, snapshot[Head(vec)])
          /\ journal' = WritePage(journal, Journaled + 1, snapshot[Head(vec)])
      BY <2>1, <2>4, JournalCowIs
    <3>3. /\ journal'.now.size = Len(idx)
          /\ \A i \in 1..Journaled + 1 : journal'.now.page[i] = snapshot[idx[i]]
      BY <2>1, <3>1, <3>2, PageWrittenIs
    <3>4. /\ Len(hashed') = Len(hashed) + 1
          /\ \A i \in 1..Len(hashed) : hashed'[i] = hashed[i]
          /\ hashed'[Len(hashed) + 1] = snapshot[Head(vec)]
      BY <3>2, HashedGrows DEF Types
    <3>5. Journaled = Len(hashed) /\ Journaled' = Journaled + 1
      BY <3>1, <3>4 DEF Journaled
    <3>6. Head(vec) = idx[Journaled + 1]
      BY <2>1, <3>1, NextPageIs
    <3>7. /\ Journaled >= 0 /\ Journaled + Len(vec) = Len(idx)
          /\ \A i \in 1..Len(vec) : vec[i] = idx[Journaled + i]
          /\ \A i \in 1..Len(hashed) : hashed[i] = snapshot[idx[i]]
          /\ \A p \in jbuffered : \E i \in 1..Journaled : p = idx[i]
      BY <1>1, <3>1 DEF ProgressInv
    <3> HIDE DEF idx
    <3>8. Journaled' >= 0 /\ Journaled' + Len(vec') = Len(idx)
      <4>1. Len(vec') = Len(vec) - 1 /\ Journaled \in Nat /\ Journaled' = Journaled + 1
        BY <1>1, <2>2, <3>1, <3>5
      <4>2. Journaled + Len(vec) = Len(idx) /\ Len(vec) \in Nat
        BY <1>1, <3>7
      <4> QED
        BY <4>1, <4>2
    <3>9. \A i \in 1..Len(vec') : vec'[i] = idx[Journaled' + i]
      <4> SUFFICES ASSUME NEW i \in 1..Len(vec')
                   PROVE  vec'[i] = idx[Journaled' + i]
        OBVIOUS
      <4>1. i \in 1..Len(vec) - 1 /\ i + 1 \in 1..Len(vec)
        BY <1>1, <2>2, <3>1
      <4>2. vec'[i] = idx[Journaled + (i + 1)]
        BY <2>2, <3>1, <3>7, <4>1
      <4>3. Journaled + (i + 1) = Journaled' + i
        BY <1>1, <3>5, <4>1
      <4> QED
        BY <4>2, <4>3
    <3>10. \A i \in 1..Len(hashed') : hashed'[i] = snapshot[idx[i]]
      BY <1>1, <3>4, <3>5, <3>6, <3>7
    <3>11. \A p \in jbuffered' : \E i \in 1..Journaled' : p = idx[i]
      BY <1>1, <3>1, <3>5, <3>7
    <3> QED
      BY <2>3, <3>1, <3>3, <3>5, <3>8, <3>9, <3>10, <3>11 DEF ProgressInv, idx
  <2>5. CASE HashPage(Head(vec))
    <3>1. /\ sync = "page" /\ sync' = "hashed" /\ vec' = vec /\ jbuffered' = jbuffered
          /\ journal' = journal
      BY <2>5 DEF HashPage, SyncStepTo, files
    <3>2. snapshot[Head(vec)] \in Val /\ hashed' = Append(hashed, snapshot[Head(vec)])
      BY <2>1, <2>5, HashPageIs
    <3>3. /\ Len(hashed') = Len(hashed) + 1
          /\ \A i \in 1..Len(hashed) : hashed'[i] = hashed[i]
          /\ hashed'[Len(hashed) + 1] = snapshot[Head(vec)]
      BY <3>2, HashedGrows DEF Types
    <3>4. Journaled = Len(hashed) /\ Journaled' = Journaled
      BY <1>1, <3>1, <3>3 DEF Journaled
    <3>5. Head(vec) = idx[Journaled + 1]
      BY <2>1, <3>1, NextPageIs
    <3>6. \A i \in 1..Len(hashed) : hashed[i] = snapshot[idx[i]]
      BY <1>1, <3>1 DEF ProgressInv
    <3>7. \A i \in 1..Len(hashed') : hashed'[i] = snapshot[idx[i]]
      BY <1>1, <3>3, <3>4, <3>5, <3>6
    <3> QED
      BY <1>1, <2>3, <3>1, <3>4, <3>7 DEF ProgressInv
  <2>6. CASE JournalPage(Head(vec))
    <3>1. /\ sync = "hashed" /\ sync' = "page" /\ vec' = Tail(vec) /\ hashed' = hashed
          /\ jbuffered' = jbuffered \union {Head(vec)}
      BY <2>6 DEF JournalPage, SyncStepTo
    <3>2. journal' = WritePage(journal, Journaled + 1, snapshot[Head(vec)])
      BY <2>1, <2>6, JournalPageIs
    <3>3. /\ journal'.now.size = Len(idx)
          /\ \A i \in 1..Journaled + 1 : journal'.now.page[i] = snapshot[idx[i]]
      BY <2>1, <3>1, <3>2, PageWrittenIs
    <3>4. Journaled = Len(hashed) - 1 /\ Journaled' = Journaled + 1
      BY <1>1, <3>1 DEF Journaled
    <3>5. Head(vec) = idx[Journaled + 1]
      BY <2>1, <3>1, NextPageIs
    <3>6. /\ Journaled >= 0 /\ Journaled + Len(vec) = Len(idx)
          /\ \A i \in 1..Len(vec) : vec[i] = idx[Journaled + i]
          /\ \A i \in 1..Len(hashed) : hashed[i] = snapshot[idx[i]]
          /\ \A p \in jbuffered : \E i \in 1..Journaled : p = idx[i]
      BY <1>1, <3>1 DEF ProgressInv
    <3> HIDE DEF idx
    <3>7. Journaled' >= 0 /\ Journaled' + Len(vec') = Len(idx)
      BY <1>1, <2>2, <3>1, <3>4, <3>6
    <3>8. \A i \in 1..Len(vec') : vec'[i] = idx[Journaled' + i]
      <4> SUFFICES ASSUME NEW i \in 1..Len(vec')
                   PROVE  vec'[i] = idx[Journaled' + i]
        OBVIOUS
      <4>1. i \in 1..Len(vec) - 1 /\ i + 1 \in 1..Len(vec)
        BY <1>1, <2>2, <3>1
      <4>2. vec'[i] = idx[Journaled + (i + 1)]
        BY <2>2, <3>1, <3>6, <4>1
      <4>3. Journaled + (i + 1) = Journaled' + i
        BY <1>1, <3>4, <4>1
      <4> QED
        BY <4>2, <4>3
    <3>9. \A p \in jbuffered' : \E i \in 1..Journaled' : p = idx[i]
      <4> SUFFICES ASSUME NEW p \in jbuffered'
                   PROVE  \E i \in 1..Journaled' : p = idx[i]
        OBVIOUS
      <4>1. Journaled \in Nat /\ Journaled + 1 \in 1..Journaled'
        BY <1>1, <3>4, <3>6
      <4>2. 1..Journaled \subseteq 1..Journaled'
        BY <3>4, <4>1
      <4>3. CASE p \in jbuffered
        BY <3>6, <4>2, <4>3
      <4>4. CASE p = Head(vec)
        BY <3>5, <4>1, <4>4
      <4> QED
        BY <3>1, <4>3, <4>4
    <3>10. \A i \in 1..Journaled' : journal'.now.page[i] = snapshot[idx[i]]
      BY <3>3, <3>4
    <3> QED
      BY <2>3, <3>1, <3>3, <3>6, <3>7, <3>8, <3>9, <3>10 DEF ProgressInv, idx
  <2>7. CASE Remap(Head(vec))
    BY <2>7 DEF Remap, SyncStepTo, ProgressInv
  <2> QED
    BY <1>5, <2>4, <2>5, <2>6, <2>7 DEF PageStep
<1>6. CASE CommitStep /\ ~(TakeSnapshot \/ PrepareJournal \/ PageStep)
  <2>1. sync' \notin points
    BY <1>6 DEF CommitStep, JournalIndex, FsyncJournal, Persisted, VerifyJournal, CommitPage, CommitEnd,
       FsyncData, DiscardJournal, SyncStepTo
  <2> QED
    BY <2>1 DEF ProgressInv
<1> QED
  BY <1>2, <1>3, <1>4, <1>5, <1>6

(* From the index on the journal is all there, and the data file gets page *)
(* after page of it.                                                       *)
LEMMA CopyingInvKept ==
    ASSUME Types, During, SessionStep
    PROVE  CopyingInv'
<1> DEFINE points == Copying \union {"fsync"}
<1>1. /\ CopyingInv /\ Lengths /\ JournalingInv
      /\ Len(Ids) \in 0..N /\ Len(vec) \in Nat /\ length \in 0..N /\ data.now.size \in 0..N
      /\ data.now.page \in [Pages -> Val] /\ snapshot \in [Pages -> Val]
      /\ journal.now.size \in 0..N
  BY NowIs DEF During, CommitInv, Types, SyncTypes, StoreTypes, MainTypes, Ids
<1>2. CASE ~CommitStep
  <2>1. /\ UNCHANGED <<journal, npages, vec, snapshot, durable>>
        /\ data'.now.page = data.now.page
        /\ sync' # sync => sync \in Waiting /\ sync' \in Waiting
    BY <1>2, OthersLeave
  <2>2. length' = length \/ length' = data.now.size
    BY <1>2, QuietLeaves, ExpandLeaves, MemoryLeaves DEF SessionStep
  <2>3. 1..length \subseteq 1..length'
    BY <1>1, <2>2, PagesAre DEF Lengths
  <2>4. CASE sync' # sync
    BY <2>1, <2>4 DEF CopyingInv, Waiting, Copying
  <2>5. CASE sync' = sync
    <3>1. Complete(journal.now) => Complete(journal.now)'
      BY <2>1, <2>3 DEF Complete
    <3>2. Ids' = Ids /\ \A p \in Pages : Listed(p) <=> Listed(p)'
      BY <2>1 DEF Ids, Listed
    <3> QED
      BY <1>1, <2>1, <2>5, <3>1, <3>2 DEF CopyingInv, PageTypes, Types
  <2> QED
    BY <2>4, <2>5
<1>3. CASE JournalIndex
  <2>1. sync' = "fsync" /\ UNCHANGED <<npages, snapshot, length>>
    BY <1>3, CommitLeaves DEF JournalIndex, SyncStepTo, commitVars, ghosts, CommitStep
  <2>2. /\ Complete(journal'.now) /\ journal'.now.index.ids = SortedPages(npages)
        /\ \A p \in npages : \E i \in 1..Len(SortedPages(npages)) : SortedPages(npages)[i] = p
    BY <1>3, JournalIndexIs
  <2>3. Complete(journal.now)'
    BY <2>1, <2>2 DEF Complete
  <2>4. \A p \in npages : Listed(p)'
    BY <2>2 DEF Listed, Ids
  <2> QED
    BY <2>1, <2>3, <2>4 DEF CopyingInv, Copying
<1>4. CASE FsyncJournal \/ Persisted \/ VerifyJournal \/ CommitPage \/ CommitEnd
           \/ (PageStep /\ sync = "remap")
  <2>1. /\ UNCHANGED <<snapshot, length>> /\ sync \in points /\ sync' \in Copying
        /\ journal' \in {journal, Sync(journal)}
    BY <1>4, CommitLeaves DEF FsyncJournal, Persisted, VerifyJournal, CommitPage, CommitEnd, PageStep,
       JournalCow, HashPage, JournalPage, Remap, SyncStepTo, Copying, ghosts, CommitStep, files,
       JournalSynced
  <2>2. journal'.now = journal.now
    BY <2>1, SyncIs DEF Types, StoreTypes
  <2>3. Complete(journal.now)'
    BY <1>1, <2>1, <2>2 DEF Complete, CopyingInv
  <2>4. Ids' = Ids /\ \A p \in Pages : Listed(p) <=> Listed(p)'
    BY <2>2 DEF Ids, Listed
  <2>5. CASE FsyncJournal
    <3>1. /\ sync = "fsync" /\ sync' = "persisted" /\ durable' = snapshot /\ data' = data
      BY <2>5 DEF FsyncJournal, SyncStepTo
    <3>2. \A p \in Pages : ~Listed(p) => data.now.page[p] = snapshot[p]
      BY <1>1, <3>1 DEF CopyingInv, JournalingInv, Journaling
    <3> QED
      BY <2>1, <2>3, <2>4, <3>1, <3>2 DEF CopyingInv, Copying
  <2>6. CASE Persisted
    <3>1. /\ sync = "persisted" /\ sync' = "verify" /\ durable' = durable /\ data' = data
          /\ npages' = {}
      BY <2>6 DEF Persisted, SyncStepTo, files, ghosts
    <3> QED
      BY <1>1, <2>1, <2>3, <2>4, <3>1 DEF CopyingInv, Copying
  <2>7. CASE VerifyJournal
    <3>1. /\ sync = "verify" /\ sync' = "copy" /\ durable' = durable /\ data' = data
          /\ npages' = npages /\ vec' = Ids
      BY <2>7 DEF VerifyJournal, SyncStepTo, files, ghosts, Ids
    <3>2. \A p \in Pages : data.now.page[p] = snapshot[p] \/ \E i \in 1..Len(vec') : p = vec'[i]
      BY <1>1, <3>1 DEF CopyingInv, Listed
    <3>3. \A i \in 1..Len(vec') : vec'[i] = Ids[Len(Ids) - Len(vec') + i]
      BY <1>1, <3>1
    <3> QED
      BY <1>1, <2>1, <2>3, <2>4, <3>1, <3>2, <3>3 DEF CopyingInv, Copying
  <2>8. CASE CommitPage
    <3>1. /\ sync = "copy" /\ sync' = "copy" /\ vec # <<>> /\ vec' = Tail(vec)
          /\ durable' = durable /\ npages' = npages
      BY <2>8 DEF CommitPage, CopyPage, SyncStepTo, ghosts
    <3>2. data'.now.page = [data.now.page EXCEPT ![Head(vec)] = snapshot[Head(vec)]]
      BY <1>1, <2>8, CommitPageIs
    <3>3. /\ Head(vec) = vec[1] /\ Head(vec) \in Pages /\ Len(Tail(vec)) = Len(vec) - 1
          /\ \A i \in 1..Len(vec) - 1 : Tail(vec)[i] = vec[i + 1]
          /\ Len(vec) \in Nat \ {0}
      BY <3>1, VecIs DEF Types
    <3>4. /\ Len(vec) <= Len(Ids)
          /\ \A i \in 1..Len(vec) : vec[i] = Ids[Len(Ids) - Len(vec) + i]
          /\ \A p \in Pages : data.now.page[p] = snapshot[p] \/ \E i \in 1..Len(vec) : p = vec[i]
      BY <1>1, <3>1 DEF CopyingInv
    <3>5. \A i \in 1..Len(vec') : vec'[i] = Ids[Len(Ids) - Len(vec') + i]
      <4> SUFFICES ASSUME NEW i \in 1..Len(vec')
                   PROVE  vec'[i] = Ids[Len(Ids) - Len(vec') + i]
        OBVIOUS
      <4>1. i + 1 \in 1..Len(vec) /\ vec'[i] = vec[i + 1]
        BY <3>1, <3>3
      <4>2. vec'[i] = Ids[Len(Ids) - Len(vec) + (i + 1)]
        BY <3>4, <4>1
      <4>3. Len(Ids) - Len(vec) + (i + 1) = Len(Ids) - Len(vec') + i
        BY <1>1, <3>1, <3>3
      <4> QED
        BY <4>2, <4>3
    <3>6. \A p \in Pages : data'.now.page[p] = snapshot[p] \/ \E i \in 1..Len(vec') : p = vec'[i]
      <4> SUFFICES ASSUME NEW p \in Pages, data'.now.page[p] # snapshot[p]
                   PROVE  \E i \in 1..Len(vec') : p = vec'[i]
        OBVIOUS
      <4>1. p # Head(vec) /\ data.now.page[p] # snapshot[p]
        BY <1>1, <3>2, <3>3
      <4>2. PICK i \in 1..Len(vec) : p = vec[i]
        BY <3>4, <4>1
      <4>3. i # 1 /\ i \in Nat
        BY <3>3, <4>1, <4>2
      <4>4. i - 1 \in 1..Len(vec') /\ vec'[i - 1] = vec[i]
        <5>1. i - 1 \in 1..Len(vec) - 1 /\ (i - 1) + 1 = i
          BY <3>3, <4>2, <4>3
        <5> QED
          BY <3>1, <3>3, <5>1
      <4> QED
        BY <4>2, <4>4
    <3>7. Len(vec') <= Len(Ids)
      BY <1>1, <3>1, <3>3, <3>4
    <3> QED
      BY <1>1, <2>1, <2>3, <2>4, <3>1, <3>5, <3>6, <3>7 DEF CopyingInv, Copying
  <2>9. CASE CommitEnd
    <3>1. /\ sync = "copy" /\ sync' = "remap" /\ vec = <<>> /\ durable' = durable
          /\ npages' = npages /\ data' = data
      BY <2>9 DEF CommitEnd, SyncStepTo, files, ghosts
    <3>2. \A p \in Pages : data.now.page[p] = snapshot[p]
      BY <1>1, <3>1 DEF CopyingInv
    <3>3. data.now.page = snapshot
      BY <1>1, <3>2
    <3> QED
      BY <1>1, <2>1, <2>3, <2>4, <3>1, <3>3 DEF CopyingInv, Copying
  <2>10. CASE PageStep /\ sync = "remap"
    <3>1. /\ sync' = "remap" /\ durable' = durable /\ npages' = npages /\ data' = data
      BY <2>10 DEF PageStep, JournalCow, HashPage, JournalPage, Remap, SyncStepTo, files, ghosts
    <3> QED
      BY <1>1, <2>1, <2>3, <2>4, <2>10, <3>1 DEF CopyingInv, Copying
  <2> QED
    BY <1>4, <2>5, <2>6, <2>7, <2>8, <2>9, <2>10
<1>5. CASE TakeSnapshot \/ PrepareJournal \/ (PageStep /\ sync # "remap") \/ FsyncData
           \/ DiscardJournal
  <2>1. sync' \notin points
    BY <1>5 DEF TakeSnapshot, PrepareJournal, PageStep, JournalCow, HashPage, JournalPage, Remap,
       FsyncData, DiscardJournal, SyncStepTo, Copying
  <2> QED
    BY <2>1 DEF CopyingInv, Copying
<1> QED
  BY <1>2, <1>3, <1>4, <1>5 DEF CommitStep

-----------------------------------------------------------------------------
(* And of those who wait.                                                  *)

(* What the sync thread does to the wait fibers: it lets go of some, or    *)
(* takes those that were asked for.                                        *)
LEMMA WaitersStep ==
    ASSUME Types, ThreadStep \/ CommitStep
    PROVE  \/ UNCHANGED <<waits, taken>>
           \/ SkipSnapshot /\ waits' = NoCallers /\ taken' = taken
           \/ Done /\ waits' = waits /\ taken' = [taken EXCEPT !["sync"] = {}]
           \/ TakeSnapshot /\ waits' = NoCallers /\ taken' = [waits EXCEPT !["snapshot"] = {}]
           \/ Persisted /\ waits' = waits /\ taken' = [taken EXCEPT !["commit"] = {}]
<1>1. CASE ThreadStep
  BY <1>1 DEF ThreadStep, SyncLoop, FutexWait, SkipSnapshot, Done, Told, ctrlVars
<1>2. CASE CommitStep
  BY <1>2 DEF CommitStep, TakeSnapshot, PrepareJournal, PageStep, JournalCow, HashPage, JournalPage,
     Remap, JournalIndex, FsyncJournal, Persisted, VerifyJournal, CommitPage, CommitEnd, FsyncData,
     DiscardJournal, Told, ctrlVars
<1> QED
  BY <1>1, <1>2

(* A caller asks, is woken, or comes back; the others are left alone.      *)
LEMMA RequestSteps ==
    ASSUME Types, RequestStep
    PROVE  \/ \E f \in Callers, fn \in Functions : Ask(f, fn)
           \/ \E f \in Callers : Kick(f) \/ Return(f) \/ Abort(f)
           \/ CloseQuit \/ CloseKick
<1>1. /\ program.canceled \subseteq Callers
      /\ \A a \in program.asks : a[1] \in Callers /\ a[2] \in Functions
  BY ProgramIs DEF Types
<1>2. CASE \E a \in program.asks : Call(a[1], a[2])
  BY <1>1, <1>2 DEF Call
<1>3. CASE \E f \in Callers : Close(f)
  BY <1>3 DEF Close, Functions
<1> QED
  BY <1>1, <1>2, <1>3 DEF RequestStep

(* A caller is in the wait fibers that it waits for, until they are        *)
(* canceled.                                                               *)
LEMMA MemberInvKept ==
    ASSUME Types, During, SessionStep
    PROVE  MemberInv'
<1>1. MemberInv /\ CtrlTypes
  BY DEF During, CallerInv, Types
<1>2. CASE ExpandStep \/ MemoryStep
  BY <1>1, <1>2, ExpandLeaves, MemoryLeaves DEF MemberInv
<1>3. CASE ThreadStep \/ CommitStep
  <2>1. at' = at /\ waits_for' = waits_for
    BY <1>1, <1>3, SyncLeaves DEF callers
  <2>2. \A k \in Kinds : waits'[k] \union taken'[k] \subseteq waits[k] \union taken[k]
    BY <1>1, <1>3, WaitersStep DEF CtrlTypes, NoCallers
  <2> QED
    BY <1>1, <2>1, <2>2 DEF MemberInv
<1>4. ASSUME NEW f \in Callers, NEW fn \in Functions, Ask(f, fn)
      PROVE  MemberInv'
  <2>1. /\ at[f] = "idle" /\ taken' = taken
        /\ waits' = [k \in Kinds |-> IF k \in KindsOf(fn) THEN waits[k] \union {f} ELSE waits[k]]
        /\ waits_for' = [waits_for EXCEPT ![f] = FirstOf(fn)]
        /\ at' = [at EXCEPT ![f] = IF op = "none" THEN "kick" ELSE "wait"]
    BY <1>4 DEF Ask
  <2>2. \A k \in KindsOf(fn) : k = FirstOf(fn) \/ (k = "sync" /\ FirstOf(fn) = "snapshot")
    BY DEF KindsOf, FirstOf, Functions
  <2>3. at'[f] # "idle" /\ waits_for'[f] = FirstOf(fn)
    BY <1>1, <2>1 DEF CtrlTypes
  <2>4. \A k \in Kinds : f \notin waits[k] \union taken[k]
    BY <1>1, <2>1 DEF MemberInv
  <2>5. \A k \in Kinds : f \in waits'[k] \union taken'[k] => k \in KindsOf(fn)
    BY <2>1, <2>4
  <2>6. ASSUME NEW g \in Callers, g # f
        PROVE  /\ at'[g] = at[g] /\ waits_for'[g] = waits_for[g]
               /\ \A k \in Kinds : g \in waits'[k] \union taken'[k] => g \in waits[k] \union taken[k]
    BY <1>1, <2>1, <2>6 DEF CtrlTypes
  <2> QED
    BY <1>1, <2>2, <2>3, <2>5, <2>6 DEF MemberInv
<1>5. ASSUME NEW f \in Callers, Kick(f)
      PROVE  MemberInv'
  <2>1. waits' = waits /\ taken' = taken /\ waits_for' = waits_for
        /\ \A g \in Callers : at'[g] # "idle" \/ at'[g] = at[g]
    BY <1>1, <1>5 DEF Kick, CtrlTypes
  <2> QED
    BY <1>1, <2>1 DEF MemberInv
<1>6. ASSUME NEW f \in Callers, Return(f) \/ Abort(f)
      PROVE  MemberInv'
  <2>1. ASSUME NEW g \in Callers, g # f
        PROVE  /\ at'[g] = at[g] /\ waits_for'[g] = waits_for[g]
               /\ \A k \in Kinds : g \in waits'[k] \union taken'[k] => g \in waits[k] \union taken[k]
    BY <1>1, <1>6, <2>1 DEF Return, Abort, Back, ctrlVars, CtrlTypes
  <2>2. ASSUME NEW k \in Kinds, f \in waits'[k] \union taken'[k]
        PROVE  at'[f] # "idle" /\ (k = waits_for'[f] \/ (k = "sync" /\ waits_for'[f] = "snapshot"))
    <3>1. CASE Abort(f)
      BY <2>2, <3>1 DEF Abort
    <3>2. CASE Return(f)
      <4>1. /\ WaitOver(f) /\ waits' = waits /\ taken' = taken
        BY <3>2 DEF Return, ctrlVars
      <4>2. f \notin waits[waits_for[f]] /\ f \notin taken[waits_for[f]]
        BY <4>1 DEF WaitOver
      <4>3. at[f] # "idle" /\ k = "sync" /\ waits_for[f] = "snapshot"
        BY <1>1, <2>2, <4>1, <4>2 DEF MemberInv
      <4>4. at' = at /\ waits_for' = [waits_for EXCEPT ![f] = "sync"]
        BY <2>2, <3>2, <4>1, <4>3 DEF Return
      <4> QED
        BY <1>1, <4>3, <4>4 DEF CtrlTypes
    <3> QED
      BY <1>6, <3>1, <3>2
  <2> QED
    BY <1>1, <2>1, <2>2 DEF MemberInv
<1>7. CASE CloseQuit \/ CloseKick
  BY <1>1, <1>7 DEF CloseQuit, CloseKick, callers, MemberInv
<1>8. CASE RequestStep
  BY <1>4, <1>5, <1>6, <1>7, <1>8, RequestSteps DEF Types
<1> QED
  BY <1>2, <1>3, <1>8 DEF SessionStep

(* What a caller asked for gets into the next snapshot and, before the     *)
(* fiber it waits for is canceled, becomes durable.                        *)
LEMMA AskedInvKept ==
    ASSUME Types, During, SessionStep
    PROVE  AskedInv'
<1>1. /\ AskedInv /\ CtrlTypes /\ IdleInv /\ CopyingInv /\ MemoryInv /\ MemberInv
  BY DEF During, CallerInv, CommitInv, Types
<1>2. /\ asked \in [Callers -> [Pages -> Val]] /\ snapshot \in [Pages -> Val]
      /\ durable \in [Pages -> Val] /\ Memory \in [Pages -> Val]
  BY MemoryIs DEF Types, CtrlTypes, StoreTypes
<1>3. \A v \in Val : v \in Int
  BY ValGrows DEF Val, Torn
<1>4. \A p \in Pages : Memory'[p] \in Int /\ Memory'[p] >= Memory[p]
  BY <1>2, <1>3, MemoryGrows, MemorySteps, ValGrows
<1>5. ASSUME NEW f \in Callers, Below(asked[f], Memory)
      PROVE  Below(asked[f], Memory')
  BY <1>2, <1>3, <1>4, <1>5 DEF Below
<1>6. CASE ExpandStep \/ MemoryStep
  <2>1. UNCHANGED <<at, waits_for, asked, waits, taken, snapshot, durable>>
    BY <1>6, ExpandLeaves, MemoryLeaves
  <2> QED
    BY <1>1, <1>5, <2>1 DEF AskedInv, Below
<1>7. CASE ThreadStep \/ CommitStep
  <2>1. at' = at /\ waits_for' = waits_for /\ asked' = asked
    BY <1>1, <1>7, SyncLeaves DEF callers
  <2>2. SUFFICES ASSUME NEW f \in Callers, at[f] # "idle"
                 PROVE  /\ f \notin waits'[waits_for[f]] => Below(asked[f], snapshot')
                        /\ f \notin waits'[waits_for[f]] \union taken'[waits_for[f]] =>
                              waits_for[f] = "snapshot" \/ Below(asked[f], durable')
    <3>1. \A f \in Callers : at[f] # "idle" => Below(asked[f], Memory')
      BY <1>1, <1>5 DEF AskedInv
    <3> QED
      BY <2>1, <3>1 DEF AskedInv, Below
  <2>3. /\ Below(asked[f], Memory)
        /\ f \notin waits[waits_for[f]] => Below(asked[f], snapshot)
        /\ f \notin waits[waits_for[f]] \union taken[waits_for[f]] =>
              waits_for[f] = "snapshot" \/ Below(asked[f], durable)
        /\ waits_for[f] \in Kinds
    BY <1>1, <2>2 DEF AskedInv, CtrlTypes
  <2>4. CASE TakeSnapshot
    <3>1. snapshot' = Memory /\ durable' = durable /\ sync = "snapshot"
      BY <2>4 DEF TakeSnapshot, SyncStepTo
    <3>2. durable = snapshot
      BY <1>1, <3>1 DEF IdleInv, Journaling, Copying
    <3>3. taken' = [waits EXCEPT !["snapshot"] = {}]
      BY <2>4 DEF TakeSnapshot
    <3>4. f \notin taken'[waits_for[f]] =>
            waits_for[f] = "snapshot" \/ f \notin waits[waits_for[f]]
      BY <1>1, <2>3, <3>3 DEF CtrlTypes
    <3> QED
      BY <2>3, <3>1, <3>2, <3>4
  <2>5. CASE SkipSnapshot
    <3>1. /\ snapshot' = snapshot /\ durable' = durable /\ sync = "snapshot" /\ dirty = {}
      BY <2>5 DEF SkipSnapshot, SyncStepTo, ghosts
    <3>2. durable = snapshot /\ \A p \in Pages : Memory[p] = snapshot[p]
      BY <1>1, <3>1 DEF IdleInv, Journaling, Copying, MemoryInv
    <3>3. Below(asked[f], snapshot)
      BY <2>3, <3>2 DEF Below
    <3> QED
      BY <3>1, <3>2, <3>3
  <2>6. CASE Done \/ Persisted
    <3>1. /\ snapshot' = snapshot /\ durable' = durable /\ waits' = waits
          /\ sync \in {"done", "persisted"}
      BY <2>6 DEF Done, Persisted, SyncStepTo, ghosts, Told
    <3>2. durable = snapshot
      BY <1>1, <3>1 DEF IdleInv, CopyingInv, Journaling, Copying
    <3> QED
      BY <2>3, <3>1, <3>2
  <2>7. CASE ~TakeSnapshot /\ ~SkipSnapshot /\ ~Done /\ ~Persisted
    <3>1. UNCHANGED <<waits, taken>>
      BY <1>7, <2>7, WaitersStep
    <3>2. snapshot' = snapshot /\ durable' \in {durable, snapshot}
      BY <2>7, DirtySteps
    <3> QED
      BY <2>3, <3>1, <3>2
  <2> QED
    BY <2>4, <2>5, <2>6, <2>7
<1>8. CASE RequestStep
  <2>1. snapshot' = snapshot /\ durable' = durable /\ Memory' = Memory
    BY <1>8, QuietLeaves DEF Memory
  <2>2. ASSUME NEW f \in Callers, NEW fn \in Functions, Ask(f, fn)
        PROVE  AskedInv'
    <3>1. /\ at[f] = "idle" /\ taken' = taken
          /\ waits' = [k \in Kinds |-> IF k \in KindsOf(fn) THEN waits[k] \union {f} ELSE waits[k]]
          /\ waits_for' = [waits_for EXCEPT ![f] = FirstOf(fn)]
          /\ at' = [at EXCEPT ![f] = IF op = "none" THEN "kick" ELSE "wait"]
          /\ asked' = [asked EXCEPT ![f] = Memory]
      BY <2>2 DEF Ask
    <3>2. FirstOf(fn) \in KindsOf(fn) /\ FirstOf(fn) \in Kinds
      BY DEF KindsOf, FirstOf, Functions, Kinds
    <3>3. f \in waits'[waits_for'[f]] /\ Below(asked'[f], Memory')
      BY <1>1, <1>2, <1>3, <2>1, <3>1, <3>2 DEF CtrlTypes, Below
    <3>4. ASSUME NEW g \in Callers, g # f
          PROVE  /\ at'[g] = at[g] /\ waits_for'[g] = waits_for[g] /\ asked'[g] = asked[g]
                 /\ \A k \in Kinds : /\ g \in waits'[k] <=> g \in waits[k]
                                     /\ taken'[k] = taken[k]
                 /\ waits_for[g] \in Kinds
      BY <1>1, <3>1, <3>4 DEF CtrlTypes
    <3> QED
      BY <1>1, <2>1, <3>3, <3>4 DEF AskedInv, Below
  <2>3. ASSUME NEW f \in Callers, Kick(f)
        PROVE  AskedInv'
    <3>1. /\ waits' = waits /\ taken' = taken /\ waits_for' = waits_for /\ asked' = asked
          /\ \A g \in Callers : at'[g] # "idle" => at[g] # "idle"
      BY <1>1, <2>3 DEF Kick, CtrlTypes
    <3> QED
      BY <1>1, <2>1, <3>1 DEF AskedInv, Below
  <2>4. ASSUME NEW f \in Callers, Return(f) \/ Abort(f)
        PROVE  AskedInv'
    <3>1. ASSUME NEW g \in Callers, g # f
          PROVE  /\ at'[g] = at[g] /\ waits_for'[g] = waits_for[g] /\ asked'[g] = asked[g]
                 /\ \A k \in Kinds : /\ g \in waits'[k] <=> g \in waits[k]
                                     /\ g \in taken'[k] <=> g \in taken[k]
                 /\ waits_for[g] \in Kinds
      BY <1>1, <2>4, <3>1 DEF Return, Abort, Back, ctrlVars, CtrlTypes
    <3>2. ASSUME at'[f] # "idle"
          PROVE  /\ Below(asked'[f], Memory')
                 /\ Below(asked'[f], snapshot')
                 /\ f \in waits'[waits_for'[f]] \union taken'[waits_for'[f]]
      <4>1. /\ Return(f) /\ WaitOver(f) /\ waits_for[f] = "snapshot"
            /\ f \in waits["sync"] \union taken["sync"]
            /\ at' = at /\ asked' = asked /\ waits' = waits /\ taken' = taken
            /\ waits_for' = [waits_for EXCEPT ![f] = "sync"]
        BY <1>1, <2>4, <3>2 DEF Return, Abort, Back, ctrlVars, CtrlTypes
      <4>2. f \notin waits[waits_for[f]] /\ at[f] # "idle"
        BY <4>1 DEF WaitOver
      <4>3. Below(asked[f], Memory) /\ Below(asked[f], snapshot)
        BY <1>1, <4>2 DEF AskedInv
      <4>4. waits_for'[f] = "sync"
        BY <1>1, <4>1 DEF CtrlTypes
      <4> QED
        BY <2>1, <4>1, <4>3, <4>4
    <3> QED
      BY <1>1, <2>1, <3>1, <3>2 DEF AskedInv, Below
  <2>5. CASE CloseQuit \/ CloseKick
    BY <1>1, <2>1, <2>5 DEF CloseQuit, CloseKick, callers, AskedInv, Below
  <2> QED
    BY <1>8, <2>2, <2>3, <2>4, <2>5, RequestSteps
<1> QED
  BY <1>6, <1>7, <1>8 DEF SessionStep

(* acid_close orders the sync thread to quit when nothing is dirty, and    *)
(* nothing becomes dirty again.                                            *)
LEMMA CloseInvKept ==
    ASSUME Types, During, SessionStep
    PROVE  CloseInv'
<1>1. CloseInv /\ CtrlTypes /\ IdleInv
  BY DEF During, CommitInv, Types
<1>2. CASE ExpandStep
  BY <1>1, <1>2, ExpandLeaves DEF CloseInv
<1>3. CASE MemoryStep
  <2>1. UNCHANGED <<main, op, waits, sync>>
    BY <1>3, MemoryLeaves
  <2>2. main = "mapped"
    BY <1>3 DEF MemoryStep, Store, Fault, InUse
  <2> QED
    BY <1>1, <2>1, <2>2 DEF CloseInv
<1>4. CASE ThreadStep
  <2>1. main' = main /\ dirty' = dirty
    BY <1>1, <1>4, SyncLeaves, QuietLeaves DEF Types
  <2>2. CASE SkipSnapshot
    <3>1. sync = "snapshot" /\ sync' = "loop" /\ op' = "none" /\ dirty = {}
      BY <2>2 DEF SkipSnapshot, SyncStepTo
    <3> QED
      BY <1>1, <2>1, <3>1 DEF CloseInv
  <2>3. CASE SyncLoop \/ FutexWait \/ Done
    <3>1. op' = op /\ waits' = waits
      BY <2>3 DEF SyncLoop, FutexWait, Done, Told, ctrlVars
    <3>2. /\ sync' = "exited" => op = "quit"
          /\ sync' = "snapshot" => op = "commit"
      BY <1>1, <2>3 DEF SyncLoop, FutexWait, Done, SyncStepTo, CtrlTypes
    <3> QED
      BY <1>1, <2>1, <3>1, <3>2 DEF CloseInv
  <2> QED
    BY <1>4, <2>2, <2>3 DEF ThreadStep
<1>5. CASE CommitStep
  <2>1. main' = main /\ sync' # "exited" /\ sync' # "snapshot"
    BY <1>5, CommitLeaves DEF CommitStep, TakeSnapshot, PrepareJournal, PageStep, JournalCow,
       HashPage, JournalPage, Remap, JournalIndex, FsyncJournal, Persisted, VerifyJournal, CommitPage,
       CommitEnd, FsyncData, DiscardJournal, SyncStepTo
  <2>2. CASE TakeSnapshot
    <3>1. sync = "snapshot" /\ op' = "none" /\ dirty' = {}
      BY <2>2 DEF TakeSnapshot, SyncStepTo
    <3> QED
      BY <1>1, <2>1, <3>1 DEF CloseInv
  <2>3. CASE ~TakeSnapshot
    <3>1. op' = op /\ waits' = waits /\ dirty' = dirty
      BY <1>5, <2>3 DEF CommitStep, PrepareJournal, PageStep, JournalCow, HashPage, JournalPage, Remap,
         JournalIndex, FsyncJournal, Persisted, VerifyJournal, CommitPage, CommitEnd, FsyncData,
         DiscardJournal, ctrlVars, memoryVars, Told
    <3> QED
      BY <1>1, <2>1, <3>1 DEF CloseInv
  <2> QED
    BY <2>2, <2>3
<1>6. CASE RequestStep
  <2>1. dirty' = dirty /\ (sync' # sync => sync' \in Waiting)
    BY <1>6, QuietLeaves
  <2>2. /\ program.canceled \subseteq Callers
        /\ \A a \in program.asks : a[1] \in Callers /\ a[2] \in Functions
    BY ProgramIs DEF Types
  <2>3. CASE \E a \in program.asks : Call(a[1], a[2])
    <3>1. main = "mapped" /\ main' = "mapped" /\ op' = "commit" /\ sync' = sync
      BY <2>3 DEF Call, Ask, InUse
    <3> QED
      BY <1>1, <2>1, <3>1 DEF CloseInv
  <2>4. CASE \E f \in Callers : Close(f)
    <3>1. PICK f \in Callers : Close(f)
      BY <2>4
    <3>2. /\ main = "mapped" /\ main' = "closing" /\ op' = "commit" /\ sync' = sync
          /\ waits' = [k \in Kinds |-> IF k \in KindsOf("close") THEN waits[k] \union {f}
                                       ELSE waits[k]]
      BY <3>1 DEF Close, Ask
    <3>3. "sync" \in KindsOf("close") /\ "sync" \in Kinds
      BY DEF KindsOf, Kinds
    <3>4. waits'["sync"] # {}
      BY <3>2, <3>3
    <3> QED
      BY <1>1, <2>1, <3>2, <3>4 DEF CloseInv
  <2>5. CASE \E f \in program.canceled : Abort(f)
    <3>1. main = "mapped" /\ main' = "mapped" /\ op' = op /\ sync' = sync
      BY <2>5 DEF Abort, InUse
    <3> QED
      BY <1>1, <2>1, <3>1 DEF CloseInv
  <2>6. CASE \E f \in Callers : Kick(f) \/ Return(f)
    <3>1. main' = main /\ op' = op /\ waits' = waits /\ sync' \in {sync, "loop"}
      BY <2>6 DEF Kick, Return, WakeSync, ctrlVars
    <3> QED
      BY <1>1, <2>1, <3>1 DEF CloseInv
  <2>7. CASE CloseQuit
    <3>1. main = "closing" /\ main' = "quit_kick" /\ op = "none" /\ op' = "quit" /\ sync' = sync
      BY <2>7 DEF CloseQuit, MainStepTo
    <3> QED
      BY <1>1, <2>1, <3>1 DEF CloseInv
  <2>8. CASE CloseKick
    <3>1. /\ main = "quit_kick" /\ main' = "exiting" /\ op' = op /\ waits' = waits
          /\ sync' \in {sync, "loop"}
      BY <2>8 DEF CloseKick, MainStepTo, WakeSync
    <3> QED
      BY <1>1, <2>1, <3>1 DEF CloseInv
  <2> QED
    BY <1>6, <2>3, <2>4, <2>5, <2>6, <2>7, <2>8 DEF RequestStep
<1> QED
  BY <1>2, <1>3, <1>4, <1>5, <1>6 DEF SessionStep

(* The parts of the invariant together.                                    *)
LEMMA DuringKept ==
    ASSUME Types, During, SessionStep
    PROVE  During'
BY LengthsKept, MemoryInvKept, IdleInvKept, JournalingInvKept, ProgressInvKept, LockInvKept,
   CopyingInvKept, MemberInvKept, AskedInvKept, CloseInvKept DEF During, CommitInv, CallerInv

-----------------------------------------------------------------------------
(* Out of a session.                                                       *)

(* It holds of an empty data file and no journal.                          *)
LEMMA InitIsSound ==
    ASSUME Init
    PROVE  SessionInv
<1>1. \A p \in Programs : p.stores \in Nat
  BY AcidAssumption
<1>2. Val = {Torn, 0}
  BY DEF Init, Val
<1>3. FileOK(NewFile(0)) /\ FileOK(NewFile(1))
  <2>1. ASSUME NEW n \in {0, 1}
        PROVE  FileOK(NewFile(n))
    <3> DEFINE im == [size |-> n, kept |-> n, index |-> Blank, page |-> EmptyPages]
    <3>1. EmptyPages \in [Pages -> Val] /\ Blank \in [ids : Seq(Pages), hash : Seq(Val)]
      BY <1>2 DEF EmptyPages, Blank
    <3>2. n \in 0..N
      BY PagesAre
    <3>3. im \in Images
      BY <3>1, <3>2 DEF Images
    <3>4. Sound(im)
      BY PagesAre DEF Sound, EmptyPages, Blank
    <3> HIDE DEF im
    <3>5. FileOK(Durable(im))
      BY <3>3, <3>4, DurableIs
    <3> QED
      BY <3>5 DEF NewFile, im
  <2> QED
    BY <2>1
<1>4. EmptyPages \in [Pages -> Val] /\ <<>> \in Seq(Pages) /\ <<>> \in Seq(Val)
  BY <1>2 DEF EmptyPages
<1>5. MainTypes
  <2>1. /\ program \in Programs /\ stores = 0 /\ crashes = 0 /\ main = "closed" /\ length = 0
        /\ expanding = FALSE
    BY DEF Init, Volatile
  <2>2. program.stores \in Nat /\ 0 \in 0..N
    BY <1>1, <2>1, PagesAre
  <2>3. stores \in 0..program.stores /\ crashes \in Nat
    BY <2>1, <2>2
  <2>4. expanding \in BOOLEAN
    BY <2>1
  <2> QED
    BY <2>1, <2>2, <2>3, <2>4 DEF MainTypes, MainPoints
<1>6. PageTypes /\ SyncTypes
  BY <1>4, PagesAre DEF Init, Volatile, PageTypes, SyncTypes, Reset, SyncPoints
<1>7. CtrlTypes /\ StoreTypes
  BY <1>3, <1>4 DEF Init, Volatile, CtrlTypes, StoreTypes, NoCallers, Kinds
<1>8. Outside
  BY DEF Init, Volatile, Outside
<1>9. ~InSession
  BY DEF Init, InSession
<1> QED
  BY <1>5, <1>6, <1>7, <1>8, <1>9 DEF SessionInv, Types

(* What a process loses when it ends.                                      *)
LEMMA LoseIs ==
    ASSUME Types, Lose, UNCHANGED <<stores>>
    PROVE  PageTypes' /\ SyncTypes' /\ CtrlTypes' /\ (main' = "closed" => Outside')
<1>1. stores \in Nat /\ Val' = Val
  BY ProgramIs DEF Types, MainTypes, Val
<1>2. EmptyPages \in [Pages -> Val] /\ <<>> \in Seq(Pages) /\ <<>> \in Seq(Val)
  BY <1>1 DEF EmptyPages, Val
<1>3. PageTypes'
  BY DEF Lose, PageTypes, Reset
<1>4. SyncTypes'
  BY <1>1, <1>2, PagesAre DEF Lose, SyncTypes, SyncPoints
<1>5. CtrlTypes'
  BY <1>1, <1>2 DEF Lose, CtrlTypes, NoCallers, Kinds
<1>6. main' = "closed" => Outside'
  BY DEF Lose, Outside
<1> QED
  BY <1>3, <1>4, <1>5, <1>6

(* When nothing is stored, a file of values is one afterwards.             *)
LEMMA FilesStay ==
    ASSUME stores' = stores, FileOK(data'), FileOK(journal')
    PROVE  FileOK(data)' /\ FileOK(journal)'
<1>1. Val' = Val
  BY DEF Val
<1> QED
  BY <1>1, FilesGrow

(* A process that ends, or stops anywhere, leaves two files.               *)
LEMMA EndIsSound ==
    ASSUME Types, CloseEnd \/ Crash
    PROVE  SessionInv'
<1>1. /\ main' = "closed" /\ length' = 0 /\ Lose /\ crashes' \in {crashes, crashes + 1}
      /\ UNCHANGED <<program, stores, snapshot, durable>>
  BY DEF CloseEnd, Crash, bounds, ghosts
<1>2. FileOK(data) /\ FileOK(journal)
  BY DEF Types, StoreTypes
<1>3. FileOK(data') /\ FileOK(journal')
  <2>1. CASE UNCHANGED files
    BY <1>2, <2>1 DEF files
  <2>2. CASE \E d \in data.may, j \in journal.may : data' = Durable(d) /\ journal' = Durable(j)
    <3>1. PICK d \in data.may, j \in journal.may : data' = Durable(d) /\ journal' = Durable(j)
      BY <2>2
    <3>2. d \in Images /\ Sound(d) /\ j \in Images /\ Sound(j)
      BY <1>2 DEF FileOK
    <3> QED
      BY <3>1, <3>2, DurableIs
  <2> QED
    BY <2>1, <2>2 DEF CloseEnd, Crash
<1>4. FileOK(data)' /\ FileOK(journal)'
  BY <1>1, <1>3, FilesStay
<1>5. StoreTypes'
  BY <1>1, <1>4 DEF Types, StoreTypes, Val
<1>6. MainTypes'
  <2>1. crashes' \in Nat /\ 0 \in 0..N
    BY <1>1, PagesAre DEF Types, MainTypes
  <2>2. expanding' = FALSE
    BY <1>1 DEF Lose
  <2> QED
    BY <1>1, <2>1, <2>2 DEF Types, MainTypes, MainPoints
<1>7. PageTypes' /\ SyncTypes' /\ CtrlTypes' /\ Outside'
  BY <1>1, LoseIs
<1>8. ~InSession'
  BY <1>1 DEF InSession
<1> QED
  BY <1>5, <1>6, <1>7, <1>8 DEF SessionInv, Types

(* One page of a journal that is replayed.                                 *)
LEMMA ReplayPageIs ==
    ASSUME Types, Outside, ReplayPage
    PROVE  /\ FileOK(data') /\ data'.now.size = data.now.size
           /\ data'.now.index = data.now.index
           /\ Head(vec) \in Pages /\ Len(Ids) - Len(vec) + 1 \in Pages
           /\ journal.now.page[Len(Ids) - Len(vec) + 1] \in Val
           /\ data'.now.page = IF Head(vec) <= data.now.size
                THEN [data.now.page EXCEPT ![Head(vec)] =
                        journal.now.page[Len(Ids) - Len(vec) + 1]]
                ELSE data.now.page
<1> DEFINE k == Len(Ids) - Len(vec) + 1
<1>1. /\ main = "replay" /\ vec # <<>>
      /\ data' = WritePage(data, Head(vec), journal.now.page[k])
  BY DEF ReplayPage, CopyPage, MainStepTo, Ids
<1>2. Head(vec) \in Pages /\ Len(vec) \in Nat \ {0}
  BY <1>1, VecIs DEF Types
<1>3. /\ FileOK(data) /\ Len(Ids) \in 0..N /\ journal.now.page \in [Pages -> Val]
  BY NowIs DEF Types, StoreTypes, Ids
<1>4. Len(vec) <= Len(Ids)
  BY <1>1 DEF Outside
<1>5. k \in Pages
  BY <1>2, <1>3, <1>4, PagesAre
<1>6. journal.now.page[k] \in Val
  BY <1>3, <1>5
<1> HIDE DEF k
<1>7. /\ FileOK(data') /\ data'.now.size = data.now.size /\ data'.now.index = data.now.index
      /\ data'.now.page = IF Head(vec) <= data.now.size
                          THEN [data.now.page EXCEPT ![Head(vec)] = journal.now.page[k]]
                          ELSE data.now.page
  BY <1>1, <1>2, <1>3, <1>6, WritePageIs
<1> QED
  BY <1>2, <1>5, <1>6, <1>7 DEF k

(* acid_open has the files and nothing else, until it maps them.           *)
LEMMA OpenIsSound ==
    ASSUME Types, Outside, OpenStep
    PROVE  Types' /\ Outside'
<1>1. /\ UNCHANGED <<expanding, program, stores, crashes, private, writable, dirty, npages, cow,
                     jbuffered, plock, hashed, sync, op, op_futex, in_sync, waits, taken, at,
                     waits_for, asked, snapshot, durable>>
      /\ main' \in OpenPoints
  BY DEF OpenStep, Open, ReplayPage, ReplaySync, OpenTruncate, OpenResize, OpenResizeSync, MainStepTo,
     OpenPoints, unstarted, memoryVars, ctrlVars, callers, bounds, ghosts
<1>2. /\ FileOK(data) /\ FileOK(journal) /\ Len(Ids) \in Nat /\ data.now.size \in 0..N
      /\ Ids \in Seq(Pages) /\ vec \in Seq(Pages) /\ length \in 0..N /\ stores \in Nat
  BY NowIs, ProgramIs DEF Types, StoreTypes, SyncTypes, MainTypes, Ids
<1>3. Val' = Val
  BY <1>1 DEF Val
<1>4. CtrlTypes' /\ PageTypes'
  BY <1>1, <1>3 DEF Types, CtrlTypes, PageTypes
<1>5. ASSUME FileOK(data'), FileOK(journal'), vec' \in Seq(Pages), length' \in 0..N,
             main' \in {"replay", "truncate", "resize", "map"} => length' = data'.now.size,
             main' = "replay" => Len(vec') <= Len(Ids'),
             main' \in {"resize", "resize_sync", "map"} => journal'.now.size = 0
      PROVE  Types' /\ Outside'
  <2>1. FileOK(data)' /\ FileOK(journal)'
    BY <1>1, <1>5, FilesStay
  <2>2. StoreTypes' /\ SyncTypes' /\ MainTypes'
    BY <1>1, <1>3, <1>5, <2>1 DEF Types, StoreTypes, SyncTypes, MainTypes, MainPoints
  <2>3. Outside'
    BY <1>1, <1>5 DEF Outside, Reset
  <2> QED
    BY <1>4, <2>2, <2>3 DEF Types
<1>6. CASE Open
  <2>1. /\ data' = data /\ journal' = journal /\ length' = data.now.size
        /\ \/ main' = "replay" /\ vec' = Ids
           \/ main' = "truncate" /\ vec' = <<>>
    BY <1>6 DEF Open, MainStepTo, files, Ids
  <2>2. Ids' = Ids
    BY <2>1 DEF Ids
  <2>3. vec' \in Seq(Pages) /\ (main' = "replay" => Len(vec') <= Len(Ids'))
    <3>1. CASE main' = "replay" /\ vec' = Ids
      BY <1>2, <2>2, <3>1
    <3>2. CASE main' = "truncate" /\ vec' = <<>>
      BY <3>2
    <3> QED
      BY <2>1, <3>1, <3>2
  <2>4. main' \in {"replay", "truncate"}
    BY <2>1
  <2> QED
    BY <1>2, <1>5, <2>1, <2>3, <2>4
<1>7. CASE ReplayPage
  <2>1. /\ main = "replay" /\ main' = "replay" /\ journal' = journal /\ length' = length
        /\ vec # <<>> /\ vec' = Tail(vec)
    BY <1>7 DEF ReplayPage, CopyPage, MainStepTo
  <2>2. FileOK(data') /\ data'.now.size = data.now.size
    BY <1>7, ReplayPageIs
  <2>3. Tail(vec) \in Seq(Pages) /\ Len(Tail(vec)) = Len(vec) - 1 /\ Len(vec) \in Nat
    BY <2>1, VecIs DEF Types
  <2>4. length = data.now.size /\ Len(vec) <= Len(Ids) /\ Ids' = Ids
    BY <2>1 DEF Outside, Ids
  <2> QED
    BY <1>2, <1>5, <2>1, <2>2, <2>3, <2>4
<1>8. CASE ReplaySync
  <2>1. /\ main = "replay" /\ main' = "truncate" /\ journal' = journal /\ length' = length
        /\ vec' = vec /\ data' = Sync(data)
    BY <1>8 DEF ReplaySync, MainStepTo
  <2>2. FileOK(data') /\ data'.now = data.now
    BY <1>2, <2>1, SyncIs
  <2> QED
    BY <1>2, <1>5, <2>1, <2>2 DEF Outside
<1>9. CASE OpenTruncate
  <2>1. /\ main = "truncate" /\ main' = "resize" /\ length' = length
        /\ vec' = vec /\ data' = data /\ journal' = Truncate(journal, 0)
    BY <1>9 DEF OpenTruncate, MainStepTo
  <2>2. 0 \in 0..N
    BY PagesAre
  <2>3. FileOK(journal') /\ journal'.now.size = 0
    BY <1>2, <2>1, <2>2, TruncateIs
  <2> QED
    BY <1>2, <1>5, <2>1, <2>3 DEF Outside
<1>10. CASE \E n \in program.opens : OpenResize(n)
  <2>1. PICK n \in program.opens : OpenResize(n)
    BY <1>10
  <2>2. /\ main = "resize" /\ length' = length /\ journal' = journal /\ vec' = vec
        /\ IF n \in {0, length} THEN main' = "map" /\ data' = data
           ELSE main' = "resize_sync" /\ data' = Truncate(data, n)
    BY <2>1 DEF OpenResize, MainStepTo
  <2>3. n \in 0..N
    BY <2>1, ProgramIs, PagesAre DEF Types
  <2>4. FileOK(Truncate(data, n))
    BY <1>2, <2>3, TruncateIs
  <2> QED
    BY <1>2, <1>5, <2>2, <2>4 DEF Outside
<1>11. CASE OpenResizeSync
  <2>1. /\ main = "resize_sync" /\ main' = "map" /\ length' = data.now.size /\ journal' = journal
        /\ vec' = vec /\ data' = Sync(data)
    BY <1>11 DEF OpenResizeSync, MainStepTo
  <2>2. FileOK(data') /\ data'.now = data.now
    BY <1>2, <2>1, SyncIs
  <2> QED
    BY <1>2, <1>5, <2>1, <2>2 DEF Outside
<1> QED
  BY <1>6, <1>7, <1>8, <1>9, <1>10, <1>11 DEF OpenStep

(* A session begins with the last snapshot durable, and nobody waiting.    *)
LEMMA MapIsSound ==
    ASSUME Types, Outside, Map
    PROVE  Types' /\ During'
<1>1. /\ main = "map" /\ main' = "mapped" /\ sync' = "loop" /\ durable' = Memory /\ snapshot' = Memory
      /\ UNCHANGED <<data, journal, length, private, writable, dirty, npages, cow, jbuffered, plock,
                     vec, hashed, op, op_futex, in_sync, waits, taken, at, waits_for, asked,
                     expanding, program, stores, crashes>>
  BY DEF Map, MainStepTo, files, memoryVars, commitVars, ctrlVars, callers, bounds
<1>2. /\ private = Reset /\ dirty = {} /\ npages = {} /\ op = "none" /\ ~expanding
      /\ waits = NoCallers /\ taken = NoCallers /\ \A f \in Callers : at[f] = "idle"
      /\ length = data.now.size /\ journal.now.size = 0
  BY <1>1 DEF Outside
<1>3. /\ FileOK(data) /\ FileOK(journal) /\ Memory \in [Pages -> Val]
      /\ data.now.page \in [Pages -> Val]
  BY MemoryIs, NowIs DEF Types, StoreTypes
<1>4. Memory = data.now.page
  <2>1. \A p \in Pages : Memory[p] = data.now.page[p]
    BY <1>2 DEF Memory, Reset
  <2> QED
    BY <1>3, <2>1
<1>5. Val' = Val /\ Memory' = Memory
  BY <1>1 DEF Val, Memory
<1>6. FileOK(data)' /\ FileOK(journal)'
  BY <1>1, <1>3, FilesStay
<1>7. StoreTypes' /\ SyncTypes' /\ MainTypes'
  BY <1>1, <1>3, <1>5, <1>6 DEF Types, StoreTypes, SyncTypes, MainTypes, MainPoints, SyncPoints
<1>8. CtrlTypes' /\ PageTypes'
  BY <1>1, <1>5 DEF Types, CtrlTypes, PageTypes
<1>9. Lengths'
  BY <1>1, <1>2, NowIs, PagesAre DEF Types, StoreTypes, Lengths
<1>10. Below(Memory, Memory)
  <2>1. \A v \in Val : v <= v
    BY ProgramIs DEF Val, Torn, Types, MainTypes
  <2> QED
    BY <1>3, <2>1 DEF Below
<1>11. MemoryInv'
  BY <1>1, <1>4, <1>5, <1>10 DEF MemoryInv, Below
<1>12. IdleInv' /\ JournalingInv' /\ ProgressInv' /\ CopyingInv'
  BY <1>1, <1>2, <1>4 DEF IdleInv, JournalingInv, ProgressInv, CopyingInv, Journaling, Copying
<1>13. LockInv'
  BY <1>1, <1>2 DEF LockInv, Types, PageTypes
<1>14. MemberInv' /\ AskedInv'
  BY <1>1, <1>2 DEF MemberInv, AskedInv, NoCallers, Below
<1>15. CloseInv'
  BY <1>1, <1>2 DEF CloseInv
<1> QED
  BY <1>7, <1>8, <1>9, <1>11, <1>12, <1>13, <1>14, <1>15 DEF Types, During, CommitInv, CallerInv

(* In every reachable state the invariant of a session holds, or that of   *)
(* the time between two: of all variables of Acid, for any program, with   *)
(* any failures.                                                           *)
THEOREM SessionIsSound == Spec => []SessionInv
<1>1. Init => SessionInv
  BY InitIsSound
<1>2. SessionInv /\ [Next]_vars => SessionInv'
  <2>1. ASSUME SessionInv, Next
        PROVE  SessionInv'
    <3>1. Types /\ (InSession => During) /\ (~InSession => Outside)
      BY <2>1 DEF SessionInv
    <3>2. CASE InSession /\ InSession' /\ SessionStep
      BY <3>1, <3>2, TypesKept, DuringKept DEF SessionInv
    <3>3. CASE ~InSession /\ ~InSession' /\ OpenStep
      BY <3>1, <3>3, OpenIsSound DEF SessionInv
    <3>4. CASE ~InSession /\ InSession' /\ Map
      BY <3>1, <3>4, MapIsSound DEF SessionInv
    <3>5. CASE CloseEnd \/ Crash
      BY <3>1, <3>5, EndIsSound
    <3> QED
      BY <2>1, <3>2, <3>3, <3>4, <3>5, StepCases
  <2>2. ASSUME SessionInv, UNCHANGED vars
        PROVE  SessionInv'
    <3>1. UNCHANGED <<data, journal, main, length, expanding, private, writable, dirty, npages, cow,
                      jbuffered, plock, vec, hashed, sync, op, op_futex, in_sync, waits, taken, at,
                      waits_for, asked, program, stores, crashes, snapshot, durable>>
      BY <2>2 DEF vars, files, memoryVars, commitVars, ctrlVars, callers, bounds, ghosts
    <3>2. Val' = Val /\ Images' = Images /\ Memory' = Memory /\ Journaled' = Journaled /\ Ids' = Ids
      BY <3>1 DEF Val, Images, Memory, Journaled, Ids
    <3>3. Types'
      <4>1. FileOK(data)' /\ FileOK(journal)'
        BY <2>2, <3>1, FilesStay DEF SessionInv, Types, StoreTypes
      <4> QED
        BY <2>2, <3>1, <3>2, <4>1 DEF SessionInv, Types, MainTypes, PageTypes, SyncTypes, CtrlTypes,
           StoreTypes
    <3>4. InSession => During'
      BY <2>2, <3>1, <3>2 DEF SessionInv, During, Lengths, MemoryInv, CommitInv, IdleInv,
         JournalingInv, ProgressInv, LockInv, CopyingInv, Complete, Listed, CallerInv, MemberInv,
         AskedInv, Below, CloseInv
    <3>5. ~InSession => Outside'
      BY <2>2, <3>1, <3>2 DEF SessionInv, Outside
    <3> QED
      BY <3>1, <3>3, <3>4, <3>5 DEF SessionInv, InSession
  <2> QED
    BY <2>1, <2>2
<1> QED
  BY <1>1, <1>2, PTL DEF Spec

(* When the sync thread reads the journal back, it verifies: the assertion *)
(* of acid_sync_commit cannot fail, nor can the fatal checks of acid_close *)
(* that no commit is ordered and no page is left.                          *)
THEOREM JournalAlwaysVerifies == Spec => []JournalVerifies
<1>1. SessionInv => JournalVerifies
  <2> SUFFICES ASSUME SessionInv
               PROVE  JournalVerifies
    OBVIOUS
  <2>1. Types /\ (InSession => During) /\ (~InSession => Outside)
    BY DEF SessionInv
  <2>2. TypeOK
    <3>1. Val \subseteq {Torn} \union 0..program.stores
      BY <2>1, ProgramIs DEF Types, MainTypes, Val
    <3>2. \A p \in Pages : {private[p], cow[p]} \subseteq {Unmodified, Torn} \union 0..program.stores
      BY <2>1, <3>1 DEF Types, PageTypes
    <3>3. ToSet(vec) \subseteq Pages
      <4>1. vec \in Seq(Pages)
        BY <2>1 DEF Types, SyncTypes
      <4> QED
        BY <4>1, ElementOfSeq DEF ToSet
    <3> QED
      BY <2>1, <3>2, <3>3 DEF TypeOK, Types, MainTypes, PageTypes, SyncTypes, CtrlTypes, N
  <2>3. sync = "verify" => Verify(journal.now, length)
    <3> SUFFICES ASSUME sync = "verify"
                 PROVE  Verify(journal.now, length)
      OBVIOUS
    <3>1. InSession /\ Complete(journal.now)
      BY <2>1 DEF Outside, During, CommitInv, CopyingInv, Copying
    <3>2. journal.now.index # Blank
      <4>1. Len(Blank.ids) = 0
        BY DEF Blank
      <4> QED
        BY <3>1, <4>1 DEF Complete
    <3>3. length \in Nat /\ \A i \in 1..length : i <= length
      BY <2>1, PagesAre DEF Types, MainTypes
    <3> QED
      BY <3>1, <3>2, <3>3 DEF Complete, Verify
  <2>4. main = "closing" /\ AllIdle => op = "none"
    <3> SUFFICES ASSUME main = "closing", AllIdle
                 PROVE  op = "none"
      OBVIOUS
    <3>1. InSession
      BY DEF InSession
    <3>2. \A f \in Callers : f \notin waits["sync"]
      BY <2>1, <3>1 DEF During, CallerInv, MemberInv, AllIdle, Kinds
    <3>3. waits["sync"] \subseteq Callers
      BY <2>1 DEF Types, CtrlTypes, Kinds
    <3> QED
      BY <2>1, <3>1, <3>2, <3>3 DEF During, CloseInv
  <2>5. sync = "exited" => dirty = {} /\ npages = {}
    BY <2>1 DEF Outside, During, CloseInv, CommitInv, IdleInv, Journaling, Copying
  <2> QED
    BY <2>2, <2>3, <2>4, <2>5 DEF JournalVerifies
<1> QED
  BY <1>1, SessionIsSound, PTL

(* Who comes back from acid_fsync, acid_fsync_journal or acid_close finds  *)
(* all that was stored before the call durable; from acid_snapshot, in the *)
(* snapshot.                                                               *)
THEOREM SyncedStaysDurable == Spec => []SyncedIsDurable
<1>1. SessionInv => SyncedIsDurable
  <2> SUFFICES ASSUME SessionInv, NEW f \in Callers, WaitOver(f)
               PROVE  LET promised == IF waits_for[f] = "snapshot" THEN snapshot ELSE durable
                      IN \A p \in Pages : asked[f][p] <= promised[p]
    BY DEF SyncedIsDurable
  <2>1. at[f] = "wait" /\ f \notin waits[waits_for[f]] /\ f \notin taken[waits_for[f]]
    BY DEF WaitOver
  <2>2. InSession /\ AskedInv
    BY <2>1 DEF SessionInv, Outside, During, CallerInv
  <2>3. /\ Below(asked[f], snapshot)
        /\ waits_for[f] = "snapshot" \/ Below(asked[f], durable)
    BY <2>1, <2>2 DEF AskedInv
  <2> QED
    BY <2>3 DEF Below
<1> QED
  BY <1>1, SessionIsSound, PTL

-----------------------------------------------------------------------------
(* What acid_open makes of what it finds.                                  *)

\* The index of a journal says what is in c.
Faithful(j, c) == \A i \in 1..Len(j.index.ids) : j.index.hash[i] = c[j.index.ids[i]]

\* The pages of a journal are those its index was made for.
Matches(j) == j.size = Len(j.index.ids) /\ \A i \in 1..j.size : j.page[i] = j.index.hash[i]

\* No page of a journal is beyond a size.
Fits(j, size) == \A i \in 1..Len(j.index.ids) : j.index.ids[i] <= size

Lists(j, p) == \E i \in 1..Len(j.index.ids) : j.index.ids[i] = p

SameAs(j, k) == j.size = k.size /\ j.index = k.index /\ j.page = k.page

(* The first place of a page in an index is a place of it.                 *)
LEMMA FirstIs ==
    ASSUME NEW s \in Seq(Pages), Len(s) <= N, NEW p, NEW k \in 1..Len(s), s[k] = p
    PROVE  LET i == SelectInSeq(s, LAMBDA id : id = p)
           IN i \in 1..Len(s) /\ s[i] = p
<1> DEFINE I == {i \in 1..Len(s) : s[i] = p}
<1>1. Len(s) \in 0..N /\ I \in SUBSET Pages /\ k \in I
  BY PagesAre
<1>2. \E i \in I : \A j \in I : i <= j
  <2>1. /\ \A r \in 1..Cardinality(I) : \E i \in I : Cardinality(Upto(I, i)) = r
        /\ \A i \in I : Cardinality(Upto(I, i)) \in 1..Cardinality(I)
        /\ \A i, j \in I : Cardinality(Upto(I, i)) = Cardinality(Upto(I, j)) => i = j
        /\ IsFiniteSet(I)
    BY <1>1, RanksAre
  <2>2. Cardinality(I) \in Nat
    BY <2>1, FS_CardinalityType
  <2>3. 1 \in 1..Cardinality(I)
    <3> HIDE DEF I
    <3>1. Cardinality(Upto(I, k)) \in 1..Cardinality(I)
      BY <1>1, <2>1
    <3> QED
      BY <2>2, <3>1
  <2>4. PICK i \in I : Cardinality(Upto(I, i)) = 1
    BY <2>1, <2>3
  <2>5. ASSUME NEW j \in I, ~(i <= j)
        PROVE  FALSE
    <3> HIDE DEF I
    <3>1. i \in Nat /\ j \in Nat
      BY <1>1, PagesAre
    <3>2. Upto(I, j) \subseteq Upto(I, i)
      <4> SUFFICES ASSUME NEW r \in I, r <= j
                   PROVE  r <= i
        BY DEF Upto
      <4>1. r \in Nat
        BY <1>1, PagesAre
      <4> QED
        BY <2>5, <3>1, <4>1
    <3>3. IsFiniteSet(Upto(I, i))
      BY <2>1, FS_Subset DEF Upto
    <3>4. Cardinality(Upto(I, j)) <= 1
      BY <2>4, <3>2, <3>3, FS_Subset
    <3>5. Cardinality(Upto(I, j)) = 1
      BY <2>1, <2>2, <3>4
    <3>6. i = j
      BY <2>1, <2>4, <3>5
    <3> QED
      BY <2>5, <3>1, <3>6
  <2> QED
    BY <2>5
<1>3. SelectInSeq(s, LAMBDA id : id = p) \in I
  BY <1>1, <1>2 DEF SelectInSeq, Min
<1> QED
  BY <1>3

(* A journal that does not verify leaves the data file as it is.           *)
LEMMA NothingRecovered ==
    ASSUME NEW d \in Images, NEW j, ~Verify(j, d.size)
    PROVE  Recovered(d, j) = d.page
BY DEF Recovered, Images

(* One that verifies is all there, and brings back its pages.              *)
LEMMA VerifiedIs ==
    ASSUME NEW j \in Images, Sound(j), NEW size \in Nat
    PROVE  /\ Verify(j, size) => Matches(j) /\ Fits(j, size) /\ Len(j.index.ids) > 0
           /\ Matches(j) /\ Fits(j, size) /\ Len(j.index.ids) > 0 => Verify(j, size)
<1>1. /\ j.index.ids \in Seq(Pages) /\ j.index.hash \in Seq(Val)
      /\ j.index = [ids |-> j.index.ids, hash |-> j.index.hash]
      /\ Len(j.index.hash) = Len(j.index.ids) /\ Len(j.index.ids) \in Nat
  BY DEF Images, Sound
<1>2. Len(j.index.ids) = 0 => j.index = Blank
  BY <1>1 DEF Blank
<1>3. Len(Blank.ids) = 0
  BY DEF Blank
<1>4. j.index # Blank <=> Len(j.index.ids) > 0
  BY <1>1, <1>2, <1>3
<1> QED
  BY <1>4 DEF Verify, Matches, Fits

(* So if it was made of c, and the other pages of the data file are those  *)
(* of c, acid_open makes c of them.                                        *)
LEMMA AllRecovered ==
    ASSUME NEW d \in Images, NEW j \in Images, Sound(j), Verify(j, d.size),
           NEW c \in [Pages -> Val], Faithful(j, c),
           \A p \in Pages : ~Lists(j, p) => d.page[p] = c[p]
    PROVE  Recovered(d, j) = c
<1>1. d.size \in Nat
  BY PagesAre DEF Images
<1>2. Matches(j)
  BY <1>1, VerifiedIs
<1>3. j.index.ids \in Seq(Pages) /\ Len(j.index.ids) <= N
  BY DEF Images, Sound
<1>4. ASSUME NEW p \in Pages
      PROVE  Recovered(d, j)[p] = c[p]
  <2> DEFINE i == SelectInSeq(j.index.ids, LAMBDA id : id = p)
  <2>1. CASE Lists(j, p)
    <3>1. Contains(j.index.ids, p)
      BY <2>1 DEF Lists, Contains
    <3>2. i \in 1..Len(j.index.ids) /\ j.index.ids[i] = p
      BY <1>3, <2>1, FirstIs DEF Lists
    <3>3. Recovered(d, j)[p] = j.page[i]
      BY <3>1 DEF Recovered
    <3> HIDE DEF i
    <3>4. j.page[i] = c[p]
      BY <1>2, <3>2 DEF Matches, Faithful
    <3> QED
      BY <3>3, <3>4
  <2>2. CASE ~Lists(j, p)
    <3>1. ~Contains(j.index.ids, p)
      BY <2>2 DEF Lists, Contains
    <3> QED
      BY <2>2, <3>1 DEF Recovered
  <2> QED
    BY <2>1, <2>2
<1>5. Recovered(d, j) = [p \in Pages |-> Recovered(d, j)[p]]
  BY DEF Recovered
<1> QED
  BY <1>4, <1>5

\* A page that it does not list is that of the data file.
LEMMA OthersRecovered ==
    ASSUME NEW d, NEW j, NEW p \in Pages, ~Lists(j, p)
    PROVE  Recovered(d, j)[p] = d.page[p]
BY DEF Recovered, Lists, Contains

(* What else may be on the disk of a file does not matter.                 *)
LEMMA RecoveredSame ==
    ASSUME NEW d, NEW j, NEW e, NEW k, d.size = e.size, d.page = e.page, SameAs(j, k)
    PROVE  Recovered(d, j) = Recovered(e, k) /\ (Verify(j, d.size) <=> Verify(k, e.size))
BY DEF Recovered, SameAs, Verify

-----------------------------------------------------------------------------
(* What the disk may hold of a file, if the power may fail.                *)

Imgs(file) == IF "power" \in program.failures THEN file.may ELSE {file.now}

(* They are images, and what the file holds now is one.                    *)
LEMMA ImgsAre ==
    ASSUME NEW file, FileOK(file)
    PROVE  /\ file.now \in Imgs(file)
           /\ \A im \in Imgs(file) :
                /\ im \in Images /\ Sound(im) /\ im.size \in 0..N /\ im.kept \in 0..N
                /\ im.kept <= im.size /\ im.page \in [Pages -> Val]
                /\ Len(im.index.ids) \in 0..N /\ Len(im.index.hash) = Len(im.index.ids)
                /\ im.index.ids \in Seq(Pages) /\ im.index.hash \in Seq(Val)
<1>1. file.now \in Imgs(file) /\ Imgs(file) \subseteq file.may
  BY DEF FileOK, Imgs
<1>2. ASSUME NEW im \in Imgs(file)
      PROVE  /\ im \in Images /\ Sound(im) /\ im.size \in 0..N /\ im.kept \in 0..N
             /\ im.kept <= im.size /\ im.page \in [Pages -> Val]
             /\ Len(im.index.ids) \in 0..N /\ Len(im.index.hash) = Len(im.index.ids)
             /\ im.index.ids \in Seq(Pages) /\ im.index.hash \in Seq(Val)
  <2>1. im \in Images /\ Sound(im)
    BY <1>1 DEF FileOK
  <2>2. im.index.ids \in Seq(Pages) /\ Len(im.index.ids) <= N
    BY <2>1 DEF Images, Sound
  <2> QED
    BY <2>1, <2>2, PagesAre DEF Images, Sound
<1> QED
  BY <1>1, <1>2

(* After a sync that is all.                                               *)
LEMMA SyncImgs ==
    ASSUME NEW file, FileOK(file)
    PROVE  Imgs(Sync(file)) = {file.now}
BY SyncIs DEF Imgs

(* A written page is there, torn, or not there.                            *)
LEMMA WritePageImgs ==
    ASSUME NEW file, FileOK(file), NEW p \in Pages, NEW v \in Val,
           NEW im \in Imgs(WritePage(file, p, v))
    PROVE  \E old \in Imgs(file) :
              /\ im.size = old.size /\ im.index = old.index /\ im.kept = old.kept
              /\ \A q \in Pages : q # p => im.page[q] = old.page[q]
              /\ im.page[p] \in {old.page[p], v, Torn}
              /\ ~(p <= old.kept) => im.page = old.page
<1> DEFINE Put(i, w) == IF p <= i.kept THEN [i EXCEPT !.page[p] = w] ELSE i
<1>1. \E old \in Imgs(file), w \in {v, Torn} : im = old \/ im = Put(old, w)
  <2> HIDE DEF Put
  <2>1. /\ WritePage(file, p, v).now = Put(file.now, v)
        /\ WritePage(file, p, v).may =
              UNION {{i, Put(i, v), Put(i, Torn)} : i \in file.may}
    BY DEF WritePage, Put
  <2>2. CASE "power" \in program.failures
    <3>1. PICK i \in file.may : im \in {i, Put(i, v), Put(i, Torn)}
      BY <2>1, <2>2 DEF Imgs
    <3>2. i \in Imgs(file)
      BY <2>2 DEF Imgs
    <3> QED
      BY <3>1, <3>2
  <2>3. CASE "power" \notin program.failures
    BY <2>1, <2>3 DEF Imgs
  <2> QED
    BY <2>2, <2>3
<1>2. PICK old \in Imgs(file), w \in {v, Torn} : im = old \/ im = Put(old, w)
  BY <1>1
<1>3. old \in Images
  BY ImgsAre
<1>4. CASE im = old
  BY <1>4
<1>5. CASE im = Put(old, w) /\ p <= old.kept
  <2>1. im = [old EXCEPT !.page[p] = w]
    BY <1>5
  <2>2. /\ im.size = old.size /\ im.index = old.index /\ im.kept = old.kept
        /\ im.page = [old.page EXCEPT ![p] = w]
    BY <1>3, <2>1 DEF Images
  <2>3. old.page \in [Pages -> Val]
    BY <1>3 DEF Images
  <2> HIDE DEF Put
  <2> QED
    BY <1>5, <2>2, <2>3
<1>6. CASE im = Put(old, w) /\ ~(p <= old.kept)
  BY <1>6
<1> QED
  BY <1>2, <1>4, <1>5, <1>6

(* An index that is written is there, makes no sense, or is not there.     *)
LEMMA WriteIndexImgs ==
    ASSUME NEW file, FileOK(file), NEW ix, NEW im \in Imgs(WriteIndex(file, ix))
    PROVE  \E old \in Imgs(file) :
              /\ im.size = old.size /\ im.page = old.page /\ im.kept = old.kept
              /\ im.index \in {old.index, ix, Blank}
<1> DEFINE Put(i, x) == [i EXCEPT !.index = x]
<1>1. \E old \in Imgs(file), x \in {ix, Blank} : im = old \/ im = Put(old, x)
  <2> HIDE DEF Put
  <2>1. /\ WriteIndex(file, ix).now = Put(file.now, ix)
        /\ WriteIndex(file, ix).may =
              UNION {{i, Put(i, ix), Put(i, Blank)} : i \in file.may}
    BY DEF WriteIndex, Put
  <2>2. CASE "power" \in program.failures
    <3>1. PICK i \in file.may : im \in {i, Put(i, ix), Put(i, Blank)}
      BY <2>1, <2>2 DEF Imgs
    <3>2. i \in Imgs(file)
      BY <2>2 DEF Imgs
    <3> QED
      BY <3>1, <3>2
  <2>3. CASE "power" \notin program.failures
    BY <2>1, <2>3 DEF Imgs
  <2> QED
    BY <2>2, <2>3
<1>2. PICK old \in Imgs(file), x \in {ix, Blank} : im = old \/ im = Put(old, x)
  BY <1>1
<1>3. old \in Images
  BY ImgsAre
<1>4. /\ Put(old, x).size = old.size /\ Put(old, x).page = old.page
      /\ Put(old, x).kept = old.kept /\ Put(old, x).index = x
  BY <1>3 DEF Images
<1> QED
  BY <1>2, <1>4

(* A file whose size was changed has it, or has its old one and less that  *)
(* still is part of it.                                                    *)
LEMMA TruncateImgs ==
    ASSUME NEW file, FileOK(file), NEW n \in 0..N, NEW im \in Imgs(Truncate(file, n))
    PROVE  \E old \in Imgs(file) :
              /\ im.index = old.index
              /\ \/ /\ im.size = n /\ im.kept = n
                    /\ old.size = file.now.size /\ old.kept = file.now.size
                    /\ \A p \in Pages : im.page[p] = IF p <= n THEN old.page[p] ELSE 0
                 \/ /\ im.size = old.size /\ im.page = old.page
                    /\ im.kept = IF n < old.kept THEN n ELSE old.kept
<1> DEFINE Cut(i) == [i EXCEPT !.size = n, !.kept = n,
                               !.page = [p \in Pages |-> IF p <= n THEN @[p] ELSE 0]]
           Old(i) == [i EXCEPT !.kept = IF n < @ THEN n ELSE @]
           current == {i \in file.may : {i.size, i.kept} = {file.now.size}}
<1>1. \E old \in Imgs(file) : \/ im = Cut(old) /\ {old.size, old.kept} = {file.now.size}
                              \/ im = Old(old)
  <2> HIDE DEF Cut, Old
  <2>1. /\ Truncate(file, n).now = Cut(file.now)
        /\ Truncate(file, n).may = {Cut(i) : i \in current} \union {Old(i) : i \in file.may}
    BY DEF Truncate, Cut, Old
  <2>2. \A i \in current : i \in file.may /\ {i.size, i.kept} = {file.now.size}
    OBVIOUS
  <2> HIDE DEF current
  <2>5. {file.now.size, file.now.kept} = {file.now.size}
    BY DEF FileOK
  <2>3. CASE "power" \in program.failures
    BY <2>1, <2>2, <2>3 DEF Imgs
  <2>4. CASE "power" \notin program.failures
    BY <2>1, <2>4, <2>5 DEF Imgs
  <2> QED
    BY <2>3, <2>4
<1>2. PICK old \in Imgs(file) : \/ im = Cut(old) /\ {old.size, old.kept} = {file.now.size}
                                \/ im = Old(old)
  BY <1>1
<1>3. old \in Images
  BY ImgsAre
<1>4. CASE im = Cut(old) /\ {old.size, old.kept} = {file.now.size}
  <2> DEFINE pg == [p \in Pages |-> IF p <= n THEN old.page[p] ELSE 0]
  <2>1. im = [old EXCEPT !.size = n, !.kept = n, !.page = pg]
    BY <1>3, <1>4 DEF Images
  <2> HIDE DEF pg, Cut
  <2>2. im.index = old.index /\ im.size = n /\ im.kept = n /\ im.page = pg
    BY <1>3, <2>1 DEF Images
  <2> QED
    BY <1>4, <2>2 DEF pg
<1>5. CASE im = Old(old)
  <2> DEFINE k == IF n < old.kept THEN n ELSE old.kept
  <2>1. im = [old EXCEPT !.kept = k]
    BY <1>3, <1>5 DEF Images
  <2> HIDE DEF k, Old
  <2>2. im.index = old.index /\ im.size = old.size /\ im.kept = k /\ im.page = old.page
    BY <1>3, <2>1 DEF Images
  <2> QED
    BY <2>2 DEF k
<1> QED
  BY <1>2, <1>4, <1>5

-----------------------------------------------------------------------------
(* The invariant of the disk.                                              *)

\* The values that were stored and are nowhere any more, in a session.
Gone ==
    {v \in 1..stores : \A p \in Pages : v # durable[p] /\ v # snapshot[p] /\ v # Memory[p]}

\* A journal that acid_open may use: of what is durable, or of the whole snapshot.
Useful(j) ==
    \/ Faithful(j, durable)
    \/ Faithful(j, snapshot) /\ \A p \in Pages : ~Lists(j, p) => durable[p] = snapshot[p]

\* One that it never will: a page that the index lists is not there, and what it held
\* is in no page that can still be written to it.  Loose: its pages are cut off next.
Void(j, gone, loose) ==
    /\ ~Matches(j)
    /\ \E i \in 1..Len(j.index.ids) :
          /\ j.index.hash[i] \in gone
          /\ loose \/ j.kept = 0 \/ j.page[i] # j.index.hash[i]

\* The data file has all the pages that are in use and that a journal lists.
SizesInv ==
    /\ \A d \in Imgs(data) :
          /\ d.size \in {1} \union program.opens \union program.expands /\ d.size # 0
          /\ InSession => length <= d.size
          /\ ~InSession /\ main # "resize_sync" => data.now.size <= d.size
    /\ \A d \in Imgs(data), j \in Imgs(journal) : Fits(j, d.size)

\* What is new in a snapshot, or in the memory since, is newer than all before.
FreshInv ==
    /\ \A p \in Pages : durable[p] >= 0 /\ snapshot[p] >= 0
    /\ \A p, q \in Pages : snapshot[p] # durable[p] => snapshot[p] > durable[q]
    /\ InSession => \A p, q \in Pages : Memory[p] # snapshot[p] => Memory[p] > snapshot[q]

\* In a session: the data file on the disk is what is durable, but for the pages that
\* are copied from a journal that is on the disk.
DataInv ==
    \A d \in Imgs(data), p \in Pages :
        IF sync \in Copying THEN Listed(p) \/ d.page[p] = snapshot[p] ELSE d.page[p] = durable[p]

JournalInv ==
    /\ sync \in Copying => \A j \in Imgs(journal) : SameAs(j, journal.now)
    /\ \A j \in Imgs(journal) : Useful(j) \/ Void(j, Gone, FALSE)

\* What acid_open makes, or has made, of the files.
Restored ==
    IF main \in {"closed", "replay"} THEN Recovered(data.now, journal.now) ELSE data.now.page

Lost == {v \in 1..stores : \A p \in Pages : v # Restored[p]}

\* It is about to replay a journal, or does.
Replays == main \in {"closed", "replay"} /\ Verify(journal.now, data.now.size)

\* Between sessions: so it finds the same whatever is on the disk.
OpenInv ==
    /\ Restored \in {durable, snapshot}
    /\ \A j \in Imgs(journal) :
          Faithful(j, Restored) \/ Void(j, Lost, main \in {"closed", "truncate"})
    /\ \A d \in Imgs(data), p \in Pages :
          d.page[p] = Restored[p] \/ (Replays /\ Listed(p))
    /\ Replays => \A j \in Imgs(journal) : SameAs(j, journal.now)
    /\ main = "replay" =>
          /\ Replays
          /\ Len(vec) <= Len(Ids)
          /\ \A i \in 1..Len(vec) : vec[i] = Ids[Len(Ids) - Len(vec) + i]
          /\ \A p \in Pages : data.now.page[p] = Restored[p] \/ \E i \in 1..Len(vec) : p = vec[i]

DiskInv ==
    SizesInv /\ FreshInv /\ (IF InSession THEN DataInv /\ JournalInv ELSE OpenInv)

(* Images of the data file in a session: the pages are those of an image   *)
(* before, but for the one that is copied; the size is too, or it grows.   *)
LEMMA DataImgs ==
    ASSUME Types, During, SessionStep, NEW im \in Imgs(data')
    PROVE  \E old \in Imgs(data) :
              /\ \/ im.size = old.size
                 \/ im.size \in program.expands /\ im.size > data.now.size
                    /\ old.size = data.now.size
              /\ \A p \in Pages : im.page[p] = old.page[p] \/ (CommitPage /\ p = Head(vec))
<1>1. FileOK(data) /\ FileOK(journal) /\ stores \in Nat
  BY ProgramIs DEF Types, StoreTypes, MainTypes
<1>2. data.now \in Imgs(data)
  BY <1>1, ImgsAre
<1>3. CASE CommitPage
  <2> DEFINE k == Len(Ids) - Len(vec) + 1
  <2>1. /\ vec # <<>> /\ sync = "copy"
        /\ data' = WritePage(data, Head(vec), journal.now.page[k])
    BY <1>3 DEF CommitPage, CopyPage, SyncStepTo, Ids
  <2>2. /\ Len(vec) <= Len(Ids)
    BY <2>1 DEF During, CommitInv, CopyingInv, Copying
  <2>3. Head(vec) \in Pages /\ Len(vec) \in Nat \ {0}
    BY <2>1, VecIs DEF Types
  <2>4. Len(Ids) \in 0..N /\ journal.now.page \in [Pages -> Val]
    BY <1>1, NowIs DEF Ids
  <2>5. k \in Pages
    BY <2>2, <2>3, <2>4, PagesAre
  <2>6. journal.now.page[k] \in Val
    BY <2>4, <2>5
  <2> HIDE DEF k
  <2>7. \E old \in Imgs(data) :
              /\ im.size = old.size
              /\ \A q \in Pages : q # Head(vec) => im.page[q] = old.page[q]
    BY <1>1, <2>1, <2>3, <2>6, WritePageImgs
  <2> QED
    BY <1>3, <2>7
<1>4. CASE \E n \in program.expands : ExpandGrow(n)
  <2>1. PICK n \in program.expands : ExpandGrow(n)
    BY <1>4
  <2>2. n \in Pages /\ n \in 0..N
    BY ProgramIs, PagesAre DEF Types
  <2>3. data' = Truncate(data, n) /\ n > data.now.size
    BY <2>1, <2>2, GrowIs DEF ExpandGrow, Types, During
  <2>4. PICK old \in Imgs(data) :
              \/ /\ im.size = n /\ im.kept = n
                 /\ old.size = data.now.size /\ old.kept = data.now.size
                 /\ \A p \in Pages : im.page[p] = IF p <= n THEN old.page[p] ELSE 0
              \/ /\ im.size = old.size /\ im.page = old.page
    BY <1>1, <2>2, <2>3, TruncateImgs
  <2>5. Sound(old) /\ old.size \in 0..N /\ data.now.size \in 0..N
    BY <1>1, ImgsAre, NowIs
  <2>6. ASSUME NEW p \in Pages, ~(p <= n), old.size = data.now.size
        PROVE  old.page[p] = 0
    BY <2>2, <2>3, <2>5, <2>6, PagesAre DEF Sound
  <2>7. \A p \in Pages : im.page[p] = old.page[p]
    BY <2>4, <2>6
  <2> QED
    BY <2>1, <2>3, <2>4, <2>7
<1>5. CASE ~CommitPage /\ \A n \in program.expands : ~ExpandGrow(n)
  <2>1. data' \in {data, Sync(data)}
    <3>1. CASE \A n \in Pages : ~ExpandGrow(n)
      BY <1>5, <3>1, DataStays
    <3>2. CASE ExpandStep
      BY <1>5, <3>2 DEF ExpandStep, ExpandSync
    <3>3. CASE ~ExpandStep
      <4>1. SessionStep => ThreadStep \/ CommitStep \/ RequestStep \/ MemoryStep
        BY <3>3 DEF SessionStep
      <4>2. CASE CommitStep
        BY <1>5, <4>2 DEF CommitStep, PageStep, JournalCow, HashPage, JournalPage, Remap,
           TakeSnapshot, PrepareJournal, JournalIndex, FsyncJournal, Persisted,
           VerifyJournal, CommitEnd, FsyncData, DiscardJournal, files
      <4>3. CASE ThreadStep \/ RequestStep
        BY <4>3, QuietLeaves
      <4>4. CASE MemoryStep
        BY <4>4, MemoryLeaves
      <4> QED
        BY <4>1, <4>2, <4>3, <4>4
    <3> QED
      BY <3>2, <3>3
  <2>2. CASE data' = data
    BY <2>2
  <2>3. CASE data' = Sync(data)
    BY <1>1, <1>2, <2>3, SyncImgs
  <2> QED
    BY <2>1, <2>2, <2>3
<1> QED
  BY <1>3, <1>4, <1>5

(* Those of the journal: of one before, or the index is new, or a page of  *)
(* the snapshot is; or it was synced.                                      *)
LEMMA JournalImgs ==
    ASSUME Types, During, SessionStep, NEW im \in Imgs(journal')
    PROVE  \/ FsyncJournal /\ im = journal.now
           \/ \E old \in Imgs(journal) :
                \/ im = old
                \/ /\ PrepareJournal \/ DiscardJournal
                   /\ im.index = old.index
                   /\ \/ /\ old.size = old.kept
                         /\ \A p \in Pages : im.page[p] \in {old.page[p], 0}
                      \/ /\ im.size = old.size /\ im.page = old.page
                         /\ old.kept = 0 => im.kept = 0
                \/ /\ sync \in Journaling /\ sync' \in Journaling
                   /\ im.index = old.index /\ im.size = old.size /\ im.kept = old.kept
                   /\ \A p \in Pages : \/ im.page[p] \in {old.page[p], Torn}
                                       \/ \E q \in Pages : im.page[p] = snapshot[q]
                   /\ old.kept = 0 => im.page = old.page
                \/ /\ JournalIndex
                   /\ im.size = old.size /\ im.page = old.page /\ im.kept = old.kept
                   /\ im.index \in {old.index, journal'.now.index, Blank}
<1>1. FileOK(journal) /\ stores \in Nat /\ snapshot \in [Pages -> Val]
  BY ProgramIs DEF Types, StoreTypes, MainTypes
<1>2. \A old \in Imgs(journal) : /\ old.size \in 0..N /\ old.kept \in 0..N /\ Sound(old)
                                 /\ old.page \in [Pages -> Val]
  BY <1>1, ImgsAre
<1>3. CASE PrepareJournal \/ DiscardJournal
  <2> DEFINE n == IF PrepareJournal THEN Cardinality(npages) ELSE 0
  <2>1. journal' = Truncate(journal, n)
    BY <1>3 DEF PrepareJournal, DiscardJournal
  <2>2. n \in 0..N
    <3>1. Cardinality(npages) \in 0..N
      BY SortedPagesAre DEF Types, PageTypes
    <3> QED
      BY <3>1, PagesAre
  <2> HIDE DEF n
  <2>3. PICK old \in Imgs(journal) :
          /\ im.index = old.index
          /\ \/ /\ im.size = n /\ im.kept = n
                /\ old.size = journal.now.size /\ old.kept = journal.now.size
                /\ \A p \in Pages : im.page[p] = IF p <= n THEN old.page[p] ELSE 0
             \/ /\ im.size = old.size /\ im.page = old.page
                /\ im.kept = IF n < old.kept THEN n ELSE old.kept
    BY <1>1, <2>1, <2>2, TruncateImgs
  <2>4. CASE im.size = old.size /\ im.page = old.page /\ im.kept = IF n < old.kept THEN n ELSE old.kept
    <3>1. old.kept = 0 => im.kept = 0
      BY <1>2, <2>2, <2>4, PagesAre
    <3> QED
      BY <1>3, <2>3, <2>4, <3>1
  <2>5. CASE /\ old.size = journal.now.size /\ old.kept = journal.now.size
             /\ \A p \in Pages : im.page[p] = IF p <= n THEN old.page[p] ELSE 0
    BY <1>3, <2>3, <2>5
  <2> QED
    BY <2>3, <2>4, <2>5
<1>4. CASE PageStep /\ (JournalCow(Head(vec)) \/ JournalPage(Head(vec)))
  <2>1. /\ vec # <<>> /\ sync \in {"page", "hashed"} /\ sync' = "page"
    BY <1>4 DEF PageStep, JournalCow, JournalPage, SyncStepTo
  <2>2. journal' = WritePage(journal, Journaled + 1, snapshot[Head(vec)])
    BY <1>4, <2>1, JournalCowIs, JournalPageIs
  <2>3. Journaled + 1 \in Pages /\ Head(vec) \in Pages
    BY <2>1, NextPageIs
  <2>4. snapshot[Head(vec)] \in Val
    BY <1>1, <2>3
  <2>5. PICK old \in Imgs(journal) :
              /\ im.size = old.size /\ im.index = old.index /\ im.kept = old.kept
              /\ \A q \in Pages : q # Journaled + 1 => im.page[q] = old.page[q]
              /\ im.page[Journaled + 1] \in {old.page[Journaled + 1], snapshot[Head(vec)], Torn}
              /\ ~(Journaled + 1 <= old.kept) => im.page = old.page
    BY <1>1, <2>2, <2>3, <2>4, WritePageImgs
  <2>6. old.kept = 0 => im.page = old.page
    BY <2>3, <2>5, PagesAre
  <2>7. sync \in Journaling /\ sync' \in Journaling
    BY <2>1 DEF Journaling
  <2>8. \A p \in Pages : \/ im.page[p] \in {old.page[p], Torn}
                         \/ \E q \in Pages : im.page[p] = snapshot[q]
    BY <2>3, <2>5
  <2> QED
    BY <2>5, <2>6, <2>7, <2>8
<1>5. CASE JournalIndex
  <2> DEFINE ix == [ids |-> SortedPages(npages), hash |-> hashed]
  <2>1. journal' = WriteIndex(journal, ix) /\ journal'.now.index = ix
    BY <1>5, JournalIndexIs DEF JournalIndex
  <2> HIDE DEF ix
  <2>2. \E old \in Imgs(journal) :
              /\ im.size = old.size /\ im.page = old.page /\ im.kept = old.kept
              /\ im.index \in {old.index, ix, Blank}
    BY <1>1, <2>1, WriteIndexImgs
  <2> QED
    BY <1>5, <2>1, <2>2
<1>6. CASE FsyncJournal
  <2>1. journal' = Sync(journal)
    BY <1>6 DEF FsyncJournal, JournalSynced
  <2> QED
    BY <1>1, <1>6, <2>1, SyncImgs
<1>7. CASE ~(PrepareJournal \/ DiscardJournal \/ JournalIndex \/ FsyncJournal)
           /\ ~(PageStep /\ (JournalCow(Head(vec)) \/ JournalPage(Head(vec))))
  <2>1. journal' = journal
    <3>1. CASE CommitStep
      BY <1>7, <3>1 DEF CommitStep, PageStep, HashPage, Remap, TakeSnapshot, Persisted,
         VerifyJournal, CommitPage, CommitEnd, FsyncData, files
    <3>2. CASE ThreadStep \/ RequestStep
      BY <3>2, QuietLeaves
    <3>3. CASE ExpandStep
      BY <3>3, ExpandLeaves
    <3>4. CASE MemoryStep
      BY <3>4, MemoryLeaves
    <3> QED
      BY <3>1, <3>2, <3>3, <3>4 DEF SessionStep
  <2> QED
    BY <2>1
<1> QED
  BY <1>3, <1>4, <1>5, <1>6, <1>7

(* What becomes of the snapshot and of what is durable.                    *)
LEMMA PhaseSteps ==
    ASSUME Types, During, SessionStep
    PROVE  \/ /\ TakeSnapshot /\ sync = "snapshot" /\ sync' = "prepare"
              /\ durable = snapshot /\ snapshot' = Memory /\ durable' = durable
           \/ /\ FsyncJournal /\ sync = "fsync" /\ sync' = "persisted"
              /\ snapshot' = snapshot /\ durable' = snapshot
           \/ /\ FsyncData /\ sync = "remap" /\ sync' = "discard"
              /\ snapshot' = snapshot /\ durable' = durable
           \/ /\ ~FsyncJournal /\ snapshot' = snapshot /\ durable' = durable
              /\ sync \in Copying <=> sync' \in Copying
<1>1. CASE TakeSnapshot
  <2>1. sync = "snapshot" /\ sync' = "prepare" /\ snapshot' = Memory /\ durable' = durable
    BY <1>1 DEF TakeSnapshot, SyncStepTo
  <2>2. durable = snapshot
    BY <2>1 DEF During, CommitInv, IdleInv, Journaling, Copying
  <2> QED
    BY <1>1, <2>1, <2>2
<1>2. CASE FsyncJournal
  BY <1>2 DEF FsyncJournal, SyncStepTo
<1>3. CASE FsyncData
  BY <1>3 DEF FsyncData, SyncStepTo, ghosts
<1>4. CASE PageStep
  BY <1>4 DEF PageStep, JournalCow, HashPage, JournalPage, Remap, FsyncJournal, SyncStepTo, ghosts,
     Copying
<1>5. CASE CommitStep /\ ~(PageStep \/ TakeSnapshot \/ FsyncJournal \/ FsyncData)
  BY <1>5 DEF CommitStep, PrepareJournal, JournalIndex, Persisted,
     VerifyJournal, CommitPage, CommitEnd, DiscardJournal, SyncStepTo, ghosts, Copying
<1>6. CASE ThreadStep \/ RequestStep
  <2>1. snapshot' = snapshot /\ durable' = durable /\ journal' = journal
        /\ (sync' # sync => sync \in Waiting /\ sync' \in Waiting)
    BY <1>6, QuietLeaves
  <2>2. sync \in Copying <=> sync' \in Copying
    BY <2>1 DEF Waiting, Copying
  <2>3. ~FsyncJournal
    BY <2>1 DEF FsyncJournal, SyncStepTo, Waiting
  <2> QED
    BY <2>1, <2>2, <2>3
<1>7. CASE ExpandStep
  <2>1. snapshot' = snapshot /\ durable' = durable /\ sync' = sync
    BY <1>7, ExpandLeaves
  <2>2. ~FsyncJournal
    BY <2>1 DEF FsyncJournal, SyncStepTo
  <2> QED
    BY <2>1, <2>2
<1>8. CASE MemoryStep
  <2>1. snapshot' = snapshot /\ durable' = durable /\ sync' = sync
    BY <1>8, MemoryLeaves
  <2>2. ~FsyncJournal
    BY <2>1 DEF FsyncJournal, SyncStepTo
  <2> QED
    BY <2>1, <2>2
<1> QED
  BY <1>1, <1>2, <1>3, <1>4, <1>5, <1>6, <1>7, <1>8 DEF SessionStep, CommitStep

-----------------------------------------------------------------------------
(* A step of a session keeps the invariant of the disk.                    *)

(* A value that is nowhere does not come back.                             *)
LEMMA GoneStays ==
    ASSUME Types, During, SessionStep
    PROVE  Gone \subseteq Gone'
<1> SUFFICES ASSUME NEW v \in Gone
             PROVE  v \in Gone'
  OBVIOUS
<1>1. v \in 1..stores /\ \A p \in Pages : v # durable[p] /\ v # snapshot[p] /\ v # Memory[p]
  BY DEF Gone
<1>2. stores \in Nat /\ stores' \in {stores, stores + 1}
  BY ValGrows
<1>3. v \in 1..stores' /\ v # stores + 1
  BY <1>1, <1>2
<1>4. \A p \in Pages : v # Memory'[p]
  <2>1. Memory \in [Pages -> Val]
    BY MemoryIs DEF Types, StoreTypes
  <2> QED
    BY <1>1, <1>3, <2>1, MemorySteps
<1>5. \A p \in Pages : v # durable'[p] /\ v # snapshot'[p]
  BY <1>1, PhaseSteps
<1> QED
  BY <1>3, <1>4, <1>5 DEF Gone

(* What was stored since is newer than what was there.                     *)
LEMMA FreshKept ==
    ASSUME Types, During, SessionStep, InSession, FreshInv
    PROVE  FreshInv'
<1>1. /\ stores \in Nat /\ Memory \in [Pages -> Val]
      /\ snapshot \in [Pages -> Val] /\ durable \in [Pages -> Val]
  BY MemoryIs, ProgramIs DEF Types, StoreTypes, MainTypes
<1>2. /\ \A p \in Pages : durable[p] >= 0 /\ snapshot[p] >= 0
      /\ \A p, q \in Pages : snapshot[p] # durable[p] => snapshot[p] > durable[q]
      /\ \A p, q \in Pages : Memory[p] # snapshot[p] => Memory[p] > snapshot[q]
  BY DEF FreshInv
<1>3. /\ \A p \in Pages : Memory[p] \in Int /\ snapshot[p] \in Int /\ durable[p] \in Int
      /\ \A p \in Pages : Memory[p] <= stores /\ snapshot[p] <= stores
  BY <1>1 DEF Val, Torn
<1>4. \A p \in Pages : Memory[p] >= 0
  <2> TAKE p \in Pages
  <2>1. snapshot[p] <= Memory[p]
    BY DEF During, MemoryInv, Below
  <2> QED
    BY <1>2, <1>3, <2>1
<1>5. CASE TakeSnapshot
  <2>1. durable = snapshot /\ snapshot' = Memory /\ durable' = durable
    BY <1>5 DEF TakeSnapshot, SyncStepTo, During, CommitInv, IdleInv, Journaling, Copying
  <2>2. Memory' = Memory
    <3>1. stores' = stores
      BY <1>5, CommitLeaves DEF CommitStep
    <3> QED
      BY <1>1, <3>1, MemorySteps
  <2> QED
    BY <1>2, <1>4, <2>1, <2>2 DEF FreshInv
<1>6. CASE ~TakeSnapshot
  <2>1. snapshot' = snapshot /\ durable' \in {durable, snapshot}
    BY <1>6, PhaseSteps
  <2>2. \A p, q \in Pages : Memory'[p] # snapshot[p] => Memory'[p] > snapshot[q]
    <3>1. CASE Memory' = Memory
      BY <1>2, <3>1
    <3>2. CASE \E p \in dirty : Memory' = [Memory EXCEPT ![p] = stores + 1]
      <4>1. PICK r \in dirty : Memory' = [Memory EXCEPT ![r] = stores + 1]
        BY <3>2
      <4>2. \A q \in Pages : stores + 1 > snapshot[q]
        BY <1>1, <1>3
      <4>3. \A p \in Pages : Memory'[p] = IF p = r THEN stores + 1 ELSE Memory[p]
        BY <1>1, <4>1
      <4> QED
        BY <1>2, <4>2, <4>3
    <3> QED
      BY <3>1, <3>2, MemorySteps
  <2>3. \A p, q \in Pages : snapshot'[p] # durable'[p] => snapshot'[p] > durable'[q]
    BY <1>2, <2>1
  <2>4. \A p \in Pages : durable'[p] >= 0 /\ snapshot'[p] >= 0
    BY <1>2, <2>1
  <2> QED
    BY <2>1, <2>2, <2>3, <2>4 DEF FreshInv
<1> QED
  BY <1>5, <1>6

(* The data file on the disk has all pages in use and those a journal has. *)
LEMMA SizesKept ==
    ASSUME Types, During, SessionStep, InSession, InSession', SizesInv
    PROVE  SizesInv'
<1>1. /\ FileOK(data) /\ FileOK(journal) /\ length \in 0..N /\ program \in Programs
      /\ program.expands \subseteq Pages /\ npages \subseteq 1..length
      /\ length <= data.now.size
  BY ProgramIs DEF Types, StoreTypes, MainTypes, During, Lengths
<1>2. program' = program /\ Imgs(data)' = Imgs(data') /\ Imgs(journal)' = Imgs(journal')
  <2>1. program' = program
    BY CommitLeaves, QuietLeaves, ExpandLeaves, MemoryLeaves DEF SessionStep
  <2> QED
    BY <2>1 DEF Imgs
<1>3. \A d \in Imgs(data) : d.size \in 0..N /\ data.now.size \in 0..N
  BY <1>1, ImgsAre, NowIs
<1>4. \A d \in Imgs(data) :
        /\ d.size \in {1} \union program.opens \union program.expands /\ d.size # 0
        /\ length <= d.size
  <2> SUFFICES ASSUME NEW d \in Imgs(data)
               PROVE  /\ d.size \in {1} \union program.opens \union program.expands /\ d.size # 0
                      /\ length <= d.size
    OBVIOUS
  <2>1. /\ d.size \in {1} \union program.opens \union program.expands /\ d.size # 0
        /\ InSession => length <= d.size
    BY DEF SizesInv
  <2> QED
    BY <2>1
<1>5. \A d \in Imgs(data), j \in Imgs(journal) : \A i \in 1..Len(j.index.ids) : j.index.ids[i] <= d.size
  BY DEF SizesInv, Fits
<1>6. \A d \in Imgs(data') : \E old \in Imgs(data) :
        \/ d.size = old.size
        \/ d.size \in program.expands /\ d.size > data.now.size /\ old.size = data.now.size
  BY DataImgs
<1>7. ASSUME NEW d \in Imgs(data')
      PROVE  /\ d.size \in {1} \union program.opens \union program.expands /\ d.size # 0
             /\ length' <= d.size
             /\ \A j \in Imgs(journal) : \A i \in 1..Len(j.index.ids) : j.index.ids[i] <= d.size
  <2>1. PICK old \in Imgs(data) :
        \/ d.size = old.size
        \/ d.size \in program.expands /\ d.size > data.now.size /\ old.size = data.now.size
    BY <1>6
  <2>2. old.size <= d.size /\ d.size \in Nat
    BY <1>1, <1>3, <2>1, PagesAre
  <2>3. d.size \in {1} \union program.opens \union program.expands /\ d.size # 0
    BY <1>1, <1>4, <2>1, PagesAre
  <2>4. \A j \in Imgs(journal) : \A i \in 1..Len(j.index.ids) : j.index.ids[i] <= d.size
    <3> SUFFICES ASSUME NEW j \in Imgs(journal), NEW i \in 1..Len(j.index.ids)
                 PROVE  j.index.ids[i] <= d.size
      OBVIOUS
    <3>1. j.index.ids[i] <= old.size
      BY <1>5
    <3>2. j.index.ids[i] \in Pages
      <4>1. j.index.ids \in Seq(Pages)
        BY <1>1, ImgsAre
      <4> QED
        BY <4>1, ElementOfSeq
    <3>3. j.index.ids[i] \in Nat /\ old.size \in Nat
      BY <1>3, <3>2, PagesAre
    <3> QED
      BY <2>2, <3>1, <3>3
  <2>5. length' <= d.size
    <3>1. CASE ExpandSync
      <4>1. data' = Sync(data) /\ length' = data.now.size
        BY <3>1 DEF ExpandSync
      <4>2. d = data.now
        BY <1>1, <4>1, SyncImgs
      <4> QED
        BY <1>3, <2>1, <4>1, <4>2
    <3>2. CASE ~ExpandSync
      <4>1. length' = length
        BY <3>2, CommitLeaves, QuietLeaves, ExpandLeaves, MemoryLeaves DEF SessionStep
      <4> QED
        BY <1>1, <1>3, <1>4, <2>2, <4>1, PagesAre
    <3> QED
      BY <3>1, <3>2
  <2> QED
    BY <2>3, <2>4, <2>5
<1>8. ASSUME NEW j \in Imgs(journal')
      PROVE  \/ \E old \in Imgs(journal) : j.index = old.index
             \/ j.index = Blank
             \/ /\ \A i \in 1..Len(j.index.ids) : j.index.ids[i] \in npages
                /\ length' = length
  <2>1. CASE JournalIndex /\ j.index = journal'.now.index
    <3>1. j.index.ids = SortedPages(npages)
      BY <2>1, JournalIndexIs
    <3>2. \A i \in 1..Len(j.index.ids) : j.index.ids[i] \in npages
      BY <3>1, SortedPagesAre DEF Types, PageTypes
    <3>3. length' = length
      BY <2>1, CommitLeaves DEF CommitStep
    <3> QED
      BY <3>2, <3>3
  <2>2. CASE ~(JournalIndex /\ j.index = journal'.now.index)
    <3>1. journal.now \in Imgs(journal)
      BY <1>1, ImgsAre
    <3> QED
      BY <2>2, <3>1, JournalImgs
  <2> QED
    BY <2>1, <2>2
<1>9. ASSUME NEW d \in Imgs(data'), NEW j \in Imgs(journal'), NEW i \in 1..Len(j.index.ids)
      PROVE  j.index.ids[i] <= d.size
  <2>1. CASE \E old \in Imgs(journal) : j.index = old.index
    BY <1>7, <2>1
  <2>2. CASE j.index = Blank
    BY <2>2 DEF Blank
  <2>3. CASE j.index.ids[i] \in npages /\ length' = length
    <3>1. j.index.ids[i] \in 1..length /\ length <= d.size
      BY <1>1, <1>7, <2>3
    <3>2. d.size \in Nat /\ length \in Nat
      BY <1>1, <1>7, <1>3, <1>6, PagesAre
    <3> QED
      BY <3>1, <3>2
  <2> QED
    BY <1>8, <2>1, <2>2, <2>3
<1> QED
  BY <1>2, <1>7, <1>9 DEF SizesInv, Fits

(* The program stays the same, and with it what is known of the disk.      *)
LEMMA ImgsNext ==
    ASSUME Types, SessionStep
    PROVE  program' = program /\ Imgs(data)' = Imgs(data') /\ Imgs(journal)' = Imgs(journal')
<1>1. program' = program
  BY CommitLeaves, QuietLeaves, ExpandLeaves, MemoryLeaves DEF SessionStep
<1> QED
  BY <1>1 DEF Imgs

(* While it is copied, the journal is left alone.                          *)
LEMMA JournalStays ==
    ASSUME Types, SessionStep, sync \in Copying
    PROVE  journal' = journal
<1>1. CASE CommitStep
  BY <1>1 DEF CommitStep, PageStep, JournalCow, HashPage, JournalPage, Remap, TakeSnapshot,
     PrepareJournal, JournalIndex, FsyncJournal, Persisted, VerifyJournal, CommitPage, CommitEnd,
     FsyncData, DiscardJournal, SyncStepTo, Copying, files
<1>2. CASE ThreadStep \/ RequestStep
  BY <1>2, QuietLeaves
<1>3. CASE ExpandStep
  BY <1>3, ExpandLeaves
<1>4. CASE MemoryStep
  BY <1>4, MemoryLeaves
<1> QED
  BY <1>1, <1>2, <1>3, <1>4 DEF SessionStep

(* The data file on the disk is that of before, or being copied to.        *)
LEMMA DataInvKept ==
    ASSUME Types, During, SessionStep, DataInv
    PROVE  DataInv'
<1>1. FileOK(data) /\ FileOK(journal) /\ CopyingInv /\ JournalingInv
  BY DEF Types, StoreTypes, During, CommitInv
<1>2. Imgs(data)' = Imgs(data')
  BY ImgsNext
<1>3. ASSUME NEW d \in Imgs(data'), NEW p \in Pages
      PROVE  IF sync' \in Copying THEN Listed(p)' \/ d.page[p] = snapshot'[p]
             ELSE d.page[p] = durable'[p]
  <2>1. PICK old \in Imgs(data) :
              \A q \in Pages : d.page[q] = old.page[q] \/ (CommitPage /\ q = Head(vec))
    BY DataImgs
  <2>2. IF sync \in Copying THEN Listed(p) \/ old.page[p] = snapshot[p]
        ELSE old.page[p] = durable[p]
    BY DEF DataInv
  <2>3. CommitPage => sync = "copy" /\ Listed(Head(vec))
    BY <1>1, CommitPageIs DEF CommitPage, SyncStepTo, During
  <2>4. CASE TakeSnapshot /\ sync = "snapshot" /\ sync' = "prepare" /\ durable' = durable
    BY <2>1, <2>2, <2>3, <2>4 DEF Copying
  <2>5. CASE FsyncJournal /\ sync = "fsync" /\ sync' = "persisted" /\ snapshot' = snapshot
    <3>1. journal'.now = journal.now
      BY <1>1, <2>5, SyncIs DEF FsyncJournal, JournalSynced
    <3>2. Listed(p) => Listed(p)'
      BY <3>1 DEF Listed, Ids
    <3>3. d.page[p] = durable[p]
      BY <2>1, <2>2, <2>3, <2>5 DEF Copying
    <3>4. Listed(p) \/ durable[p] = snapshot[p]
      BY <1>1, <2>5 DEF CopyingInv, JournalingInv, Journaling
    <3> QED
      BY <2>5, <3>2, <3>3, <3>4 DEF Copying
  <2>6. CASE FsyncData /\ sync = "remap" /\ sync' = "discard" /\ durable' = durable
    <3>1. data' = Sync(data)
      BY <2>6 DEF FsyncData
    <3>2. d = data.now
      BY <1>1, <3>1, SyncImgs
    <3>3. data.now.page = snapshot /\ durable = snapshot
      BY <1>1, <2>6 DEF CopyingInv, Copying
    <3> QED
      BY <2>6, <3>2, <3>3 DEF Copying
  <2>7. CASE snapshot' = snapshot /\ durable' = durable /\ (sync \in Copying <=> sync' \in Copying)
    <3>1. CASE sync \in Copying
      <4>1. journal' = journal
        BY <3>1, JournalStays
      <4>2. Listed(p) => Listed(p)'
        BY <4>1 DEF Listed, Ids
      <4> QED
        BY <2>1, <2>2, <2>3, <2>7, <3>1, <4>2
    <3>2. CASE sync \notin Copying
      <4>1. ~CommitPage
        BY <2>3, <3>2 DEF Copying
      <4> QED
        BY <2>1, <2>2, <2>7, <3>2, <4>1
    <3> QED
      BY <3>1, <3>2
  <2> QED
    BY <2>4, <2>5, <2>6, <2>7, PhaseSteps
<1> QED
  BY <1>2, <1>3 DEF DataInv

(* A value that is nowhere is no page that is written.                     *)
LEMMA GoneIs ==
    ASSUME Types, NEW v \in Gone
    PROVE  v # 0 /\ v # Torn /\ \A q \in Pages : v # snapshot[q] /\ v # durable[q]
<1>1. stores \in Nat
  BY ProgramIs DEF Types, MainTypes
<1> QED
  BY <1>1 DEF Gone, Torn

(* So a journal of which a page is not there does not get it.              *)
LEMMA VoidIs ==
    ASSUME Types, During, SessionStep, NEW im \in Imgs(journal'), NEW old \in Imgs(journal),
           Void(old, Gone, FALSE), im.index = old.index,
           \/ /\ old.size = old.kept
              /\ \A p \in Pages : im.page[p] \in {old.page[p], 0}
           \/ /\ im.size = old.size /\ im.page = old.page
              /\ old.kept = 0 => im.kept = 0
           \/ /\ im.size = old.size /\ im.kept = old.kept
              /\ \A p \in Pages : \/ im.page[p] \in {old.page[p], Torn}
                                  \/ \E q \in Pages : im.page[p] = snapshot[q]
              /\ old.kept = 0 => im.page = old.page
    PROVE  Void(im, Gone, FALSE)
<1>1. FileOK(journal)
  BY DEF Types, StoreTypes
<1>2. /\ old.size \in 0..N /\ old.kept \in 0..N /\ Sound(old)
      /\ Len(old.index.ids) \in 0..N
  BY <1>1, ImgsAre
<1>3. PICK i \in 1..Len(old.index.ids) :
        old.index.hash[i] \in Gone /\ (old.kept = 0 \/ old.page[i] # old.index.hash[i])
  BY DEF Void
<1>4. ~Matches(old)
  BY DEF Void
<1> DEFINE h == old.index.hash[i]
<1>5. /\ h # 0 /\ h # Torn /\ \A q \in Pages : h # snapshot[q]
  BY <1>3, GoneIs
<1>6. i \in Pages /\ i > 0
  BY <1>2, PagesAre
<1> HIDE DEF h
<1>7. ASSUME im.page[i] # h
      PROVE  Void(im, Gone, FALSE)
  <2>1. ~Matches(im)
    BY <1>7 DEF Matches, h
  <2> QED
    BY <1>3, <1>7, <2>1 DEF Void, h
<1>8. CASE im.size = old.size /\ im.page = old.page /\ (old.kept = 0 => im.kept = 0)
  <2>1. ~Matches(im)
    BY <1>4, <1>8 DEF Matches
  <2> QED
    BY <1>3, <1>8, <2>1 DEF Void
<1>9. CASE old.size = old.kept /\ \A p \in Pages : im.page[p] \in {old.page[p], 0}
  <2>1. CASE old.kept = 0
    <3>1. old.page[i] = 0
      BY <1>2, <1>6, <1>9, <2>1, PagesAre DEF Sound
    <3> QED
      BY <1>5, <1>6, <1>7, <1>9, <3>1
  <2>2. CASE old.page[i] # h
    BY <1>5, <1>6, <1>7, <1>9, <2>2
  <2> QED
    BY <1>3, <2>1, <2>2 DEF h
<1>10. CASE /\ im.size = old.size /\ im.kept = old.kept
            /\ \A p \in Pages : \/ im.page[p] \in {old.page[p], Torn}
                                \/ \E q \in Pages : im.page[p] = snapshot[q]
            /\ old.kept = 0 => im.page = old.page
  <2>1. CASE old.kept = 0
    BY <1>8, <1>10, <2>1
  <2>2. CASE old.page[i] # h
    BY <1>5, <1>6, <1>7, <1>10, <2>2
  <2> QED
    BY <1>3, <2>1, <2>2 DEF h
<1> QED
  BY <1>8, <1>9, <1>10

(* A journal on the disk can be used, or never will.                       *)
LEMMA JournalInvKept ==
    ASSUME Types, During, SessionStep, JournalInv
    PROVE  JournalInv'
<1>1. FileOK(journal) /\ CopyingInv /\ JournalingInv
  BY DEF Types, StoreTypes, During, CommitInv
<1>2. Imgs(journal)' = Imgs(journal')
  BY ImgsNext
<1>3. \A j \in Imgs(journal) : Useful(j) \/ Void(j, Gone, FALSE)
  BY DEF JournalInv
<1>4. ASSUME ~FsyncJournal, NEW j, Useful(j) \/ Void(j, Gone, FALSE)
      PROVE  Useful(j)' \/ Void(j, Gone', FALSE)
  <2>1. CASE Void(j, Gone, FALSE)
    BY <2>1, GoneStays DEF Void
  <2>2. CASE Useful(j) /\ durable = snapshot /\ durable' = durable
    <3>1. Faithful(j, durable)
      BY <2>2 DEF Useful
    <3> QED
      BY <2>2, <3>1 DEF Useful
  <2>3. CASE Useful(j) /\ snapshot' = snapshot /\ durable' = durable
    BY <2>3 DEF Useful
  <2> QED
    BY <1>4, <2>1, <2>2, <2>3, PhaseSteps
<1>5. ASSUME NEW im \in Imgs(journal')
      PROVE  Useful(im)' \/ Void(im, Gone', FALSE)
  <2>1. CASE FsyncJournal
    <3>1. sync = "fsync" /\ durable' = snapshot /\ journal' = Sync(journal)
      BY <2>1 DEF FsyncJournal, SyncStepTo, JournalSynced
    <3>4. im = journal.now
      BY <1>1, <3>1, SyncImgs
    <3>2. Complete(journal.now)
      BY <1>1, <3>1 DEF CopyingInv
    <3>3. Faithful(im, snapshot)
      BY <3>2, <3>4 DEF Faithful, Complete
    <3> QED
      BY <3>1, <3>3 DEF Useful
  <2>2. ASSUME NEW old \in Imgs(journal), ~FsyncJournal, Useful(old), im.index = old.index
        PROVE  Useful(im)
    BY <2>2 DEF Useful, Faithful, Lists
  <2>3. CASE ~FsyncJournal
    <3>1. PICK old \in Imgs(journal) :
                \/ im = old
                \/ /\ PrepareJournal \/ DiscardJournal
                   /\ im.index = old.index
                   /\ \/ /\ old.size = old.kept
                         /\ \A p \in Pages : im.page[p] \in {old.page[p], 0}
                      \/ /\ im.size = old.size /\ im.page = old.page
                         /\ old.kept = 0 => im.kept = 0
                \/ /\ sync \in Journaling /\ sync' \in Journaling
                   /\ im.index = old.index /\ im.size = old.size /\ im.kept = old.kept
                   /\ \A p \in Pages : \/ im.page[p] \in {old.page[p], Torn}
                                       \/ \E q \in Pages : im.page[p] = snapshot[q]
                   /\ old.kept = 0 => im.page = old.page
                \/ /\ JournalIndex
                   /\ im.size = old.size /\ im.page = old.page /\ im.kept = old.kept
                   /\ im.index \in {old.index, journal'.now.index, Blank}
      BY <2>3, JournalImgs
    <3>2. Useful(old) \/ Void(old, Gone, FALSE)
      BY <1>3
    <3>3. CASE im = old
      BY <1>4, <2>3, <3>2, <3>3
    <3>4. CASE /\ im.index = old.index
               /\ \/ /\ old.size = old.kept
                     /\ \A p \in Pages : im.page[p] \in {old.page[p], 0}
                  \/ /\ im.size = old.size /\ im.page = old.page
                     /\ old.kept = 0 => im.kept = 0
                  \/ /\ im.size = old.size /\ im.kept = old.kept
                     /\ \A p \in Pages : \/ im.page[p] \in {old.page[p], Torn}
                                         \/ \E q \in Pages : im.page[p] = snapshot[q]
                     /\ old.kept = 0 => im.page = old.page
      <4>1. Useful(old) => Useful(im)
        BY <2>2, <2>3, <3>4
      <4>2. Void(old, Gone, FALSE) => Void(im, Gone, FALSE)
        <5> SUFFICES ASSUME Void(old, Gone, FALSE)
                     PROVE  Void(im, Gone, FALSE)
          OBVIOUS
        <5> QED
          BY <3>4, VoidIs
      <4> QED
        BY <1>4, <2>3, <3>2, <4>1, <4>2
    <3>5. CASE JournalIndex /\ im.index = old.index /\ im.size = old.size /\ im.page = old.page
               /\ im.kept = old.kept
      <4>1. Useful(old) => Useful(im)
        BY <2>2, <2>3, <3>5
      <4>2. Void(old, Gone, FALSE) => Void(im, Gone, FALSE)
        BY <3>5 DEF Void, Matches
      <4> QED
        BY <1>4, <2>3, <3>2, <4>1, <4>2
    <3>6. CASE JournalIndex /\ im.index = Blank
      <4>1. Useful(im)
        BY <3>6 DEF Useful, Faithful, Blank
      <4> QED
        BY <1>4, <2>3, <4>1
    <3>7. CASE JournalIndex /\ im.index = journal'.now.index
      <4> DEFINE idx == SortedPages(npages)
      <4>1. /\ im.index = [ids |-> idx, hash |-> hashed] /\ Complete(journal'.now)
            /\ \A p \in npages : \E i \in 1..Len(idx) : idx[i] = p
        BY <3>7, JournalIndexIs
      <4> HIDE DEF idx
      <4>2. Faithful(im, snapshot)
        BY <3>7, <4>1 DEF Complete, Faithful
      <4>3. \A p \in npages : Lists(im, p)
        BY <4>1 DEF Lists
      <4>4. sync = "page"
        BY <3>7 DEF JournalIndex, SyncStepTo
      <4>5. \A p \in Pages \ npages : durable[p] = snapshot[p]
        BY <1>1, <4>4 DEF JournalingInv, Journaling
      <4>6. Useful(im)
        BY <4>2, <4>3, <4>5 DEF Useful
      <4> QED
        BY <1>4, <2>3, <4>6
    <3> QED
      BY <3>1, <3>3, <3>4, <3>5, <3>6, <3>7
  <2> QED
    BY <2>1, <2>3
<1>6. sync' \in Copying => \A j \in Imgs(journal') : SameAs(j, journal'.now)
  <2>1. CASE FsyncJournal
    <3>1. journal' = Sync(journal)
      BY <2>1 DEF FsyncJournal, JournalSynced
    <3>2. journal'.now = journal.now /\ Imgs(journal') = {journal.now}
      BY <1>1, <3>1, SyncIs, SyncImgs
    <3> QED
      BY <3>2 DEF SameAs
  <2>2. CASE sync \in Copying /\ sync' \in Copying
    <3>1. journal' = journal
      BY <2>2, JournalStays
    <3> QED
      BY <2>2, <3>1 DEF JournalInv
  <2> QED
    BY <2>1, <2>2, PhaseSteps DEF Copying
<1> QED
  BY <1>2, <1>5, <1>6 DEF JournalInv

-----------------------------------------------------------------------------
(* What acid_open finds.                                                   *)

\* All of what is durable or of what was becoming so; and a journal of the same, or
\* one that is not used.
Recovers(d, j) ==
    LET found == Recovered(d, j)
    IN /\ found \in {durable, snapshot}
       /\ Faithful(j, found) \/ Void(j, {v \in 1..stores : \A p \in Pages : v # found[p]}, TRUE)

(* So it is wherever a session ends.                                       *)
LEMMA SessionRecovers ==
    ASSUME Types, During, InSession, SizesInv, FreshInv, DataInv, JournalInv,
           NEW d \in Imgs(data), NEW j \in Imgs(journal)
    PROVE  Recovers(d, j)
<1>1. /\ FileOK(data) /\ FileOK(journal) /\ CopyingInv /\ stores \in Nat
      /\ durable \in [Pages -> Val] /\ snapshot \in [Pages -> Val]
  BY ProgramIs DEF Types, StoreTypes, MainTypes, During, CommitInv
<1>2. /\ d \in Images /\ d.size \in 0..N /\ d.page \in [Pages -> Val]
      /\ j \in Images /\ Sound(j) /\ Len(j.index.ids) \in 0..N
      /\ j.index.ids \in Seq(Pages)
  BY <1>1, ImgsAre
<1>3. Fits(j, d.size)
  BY DEF SizesInv
<1>4. d.size \in Nat
  BY <1>2, PagesAre
<1>5. ASSUME NEW c \in {durable, snapshot}, Recovered(d, j) = c, Faithful(j, c)
      PROVE  Recovers(d, j)
  BY <1>5 DEF Recovers
<1>6. CASE sync \in Copying
  <2>1. SameAs(j, journal.now) /\ Complete(journal.now)
    BY <1>1, <1>6 DEF JournalInv, CopyingInv
  <2>2. Matches(j) /\ Faithful(j, snapshot) /\ Len(j.index.ids) > 0
    BY <2>1 DEF SameAs, Complete, Matches, Faithful
  <2>3. Verify(j, d.size)
    BY <1>2, <1>3, <1>4, <2>2, VerifiedIs
  <2>4. \A p \in Pages : ~Lists(j, p) => d.page[p] = snapshot[p]
    BY <1>6, <2>1 DEF DataInv, Lists, Listed, Ids, SameAs
  <2>5. Recovered(d, j) = snapshot
    BY <1>1, <1>2, <2>2, <2>3, <2>4, AllRecovered
  <2> QED
    BY <1>5, <2>2, <2>5
<1>7. CASE sync \notin Copying
  <2>1. d.page = durable
    <3>1. \A p \in Pages : d.page[p] = durable[p]
      BY <1>7 DEF DataInv
    <3> QED
      BY <1>1, <1>2, <3>1
  <2>2. ~Verify(j, d.size) => Recovered(d, j) = durable
    BY <1>2, <2>1, NothingRecovered
  <2>3. Verify(j, d.size) => Matches(j)
    BY <1>2, <1>4, VerifiedIs
  <2>4. CASE Faithful(j, durable)
    <3>1. Recovered(d, j) = durable
      BY <1>1, <1>2, <2>1, <2>2, <2>4, AllRecovered
    <3> QED
      BY <1>5, <2>4, <3>1
  <2>5. CASE Verify(j, d.size) /\ Useful(j) /\ ~Faithful(j, durable)
    <3>1. Faithful(j, snapshot) /\ \A p \in Pages : ~Lists(j, p) => d.page[p] = snapshot[p]
      BY <2>1, <2>5 DEF Useful
    <3>2. Recovered(d, j) = snapshot
      BY <1>1, <1>2, <2>5, <3>1, AllRecovered
    <3> QED
      BY <1>5, <3>1, <3>2
  <2>6. CASE ~Verify(j, d.size) /\ Useful(j) /\ ~Faithful(j, durable)
    <3>1. Recovered(d, j) = durable
      BY <2>2, <2>6
    <3>2. PICK i \in 1..Len(j.index.ids) : j.index.hash[i] # durable[j.index.ids[i]]
      BY <2>6 DEF Faithful
    <3> DEFINE q == j.index.ids[i]
    <3>3. q \in Pages
      BY <1>2, ElementOfSeq
    <3>4. j.index.hash[i] = snapshot[q]
      BY <2>6 DEF Useful, Faithful
    <3> HIDE DEF q
    <3>5. \A r \in Pages : snapshot[q] > durable[r]
      BY <3>2, <3>3, <3>4 DEF FreshInv, q
    <3>6. durable[q] >= 0 /\ durable[q] \in Int /\ snapshot[q] \in Int /\ snapshot[q] <= stores
      BY <1>1, <3>3 DEF FreshInv, Val, Torn
    <3>7. snapshot[q] \in 1..stores
      BY <1>1, <3>3, <3>5, <3>6
    <3>8. ASSUME NEW r \in Pages
          PROVE  snapshot[q] # durable[r]
      <4>1. durable[r] \in Int
        BY <1>1 DEF Val, Torn
      <4>2. snapshot[q] > durable[r] /\ snapshot[q] \in Int
        BY <3>5, <3>6
      <4> QED
        BY <4>1, <4>2
    <3>9. ~Matches(j)
      <4>1. Len(j.index.ids) > 0
        BY <1>2
      <4> QED
        BY <1>2, <1>3, <1>4, <2>6, <4>1, VerifiedIs
    <3>10. Void(j, {v \in 1..stores : \A p \in Pages : v # durable[p]}, TRUE)
      BY <3>4, <3>7, <3>8, <3>9 DEF Void
    <3> QED
      BY <3>1, <3>10 DEF Recovers
  <2>7. CASE Void(j, Gone, FALSE)
    <3>1. ~Matches(j)
      BY <2>7 DEF Void
    <3>2. Recovered(d, j) = durable
      BY <2>2, <2>3, <3>1
    <3>3. Gone \subseteq {v \in 1..stores : \A p \in Pages : v # durable[p]}
      BY DEF Gone
    <3>4. Void(j, {v \in 1..stores : \A p \in Pages : v # durable[p]}, TRUE)
      BY <2>7, <3>3 DEF Void
    <3> QED
      BY <3>2, <3>4 DEF Recovers
  <2> QED
    BY <2>4, <2>5, <2>6, <2>7 DEF JournalInv
<1> QED
  BY <1>6, <1>7

(* And whenever acid_open itself stops: it is the same each time.          *)
LEMMA OpenRecovers ==
    ASSUME Types, SizesInv, OpenInv,
           NEW d \in Imgs(data), NEW j \in Imgs(journal)
    PROVE  Recovered(d, j) = Restored /\ Recovers(d, j)
<1>1. /\ FileOK(data) /\ FileOK(journal)
      /\ durable \in [Pages -> Val] /\ snapshot \in [Pages -> Val]
  BY DEF Types, StoreTypes
<1>2. /\ d \in Images /\ d.size \in 0..N /\ d.page \in [Pages -> Val]
      /\ j \in Images /\ Sound(j) /\ Len(j.index.ids) \in 0..N
      /\ journal.now \in Images /\ Sound(journal.now) /\ data.now.size \in 0..N
      /\ journal.now \in Imgs(journal)
  BY <1>1, ImgsAre, NowIs
<1>3. Fits(j, d.size)
  BY DEF SizesInv
<1>4. d.size \in Nat /\ data.now.size \in Nat
  BY <1>2, PagesAre
<1>5. Restored \in {durable, snapshot} /\ Restored \in [Pages -> Val]
  BY <1>1 DEF OpenInv
<1>6. Faithful(j, Restored) \/ Void(j, Lost, TRUE)
  BY DEF OpenInv, Void
<1>7. Recovered(d, j) = Restored
  <2>1. CASE Replays
    <3>1. Verify(journal.now, data.now.size) /\ SameAs(j, journal.now)
      BY <2>1 DEF Replays, OpenInv
    <3>2. Matches(journal.now) /\ Len(journal.now.index.ids) > 0
      BY <1>2, <1>4, <3>1, VerifiedIs
    <3>3. Matches(j) /\ Len(j.index.ids) > 0
      BY <3>1, <3>2 DEF SameAs, Matches
    <3>4. Verify(j, d.size)
      BY <1>2, <1>3, <1>4, <3>3, VerifiedIs
    <3>5. Faithful(j, Restored)
      BY <1>6, <3>3 DEF Void
    <3>6. \A p \in Pages : ~Lists(j, p) => d.page[p] = Restored[p]
      BY <3>1 DEF OpenInv, Lists, Listed, Ids, SameAs
    <3> QED
      BY <1>2, <1>5, <3>4, <3>5, <3>6, AllRecovered
  <2>2. CASE ~Replays
    <3>1. \A p \in Pages : d.page[p] = Restored[p]
      BY <2>2 DEF OpenInv
    <3>2. d.page = Restored
      BY <1>2, <1>5, <3>1
    <3>3. CASE Verify(j, d.size)
      <4>1. Matches(j)
        BY <1>2, <1>4, <3>3, VerifiedIs
      <4>2. Faithful(j, Restored)
        BY <1>6, <4>1 DEF Void
      <4> QED
        BY <1>2, <1>5, <3>1, <3>3, <4>2, AllRecovered
    <3>4. CASE ~Verify(j, d.size)
      BY <1>2, <3>2, <3>4, NothingRecovered
    <3> QED
      BY <3>3, <3>4
  <2> QED
    BY <2>1, <2>2
<1> QED
  BY <1>5, <1>6, <1>7 DEF Recovers, Lost

(* Whatever files are left, all that is durable is found.                  *)
LEMMA AllRecover ==
    ASSUME SessionInv, DiskInv, NEW d \in Imgs(data), NEW j \in Imgs(journal)
    PROVE  Recovers(d, j)
<1>1. CASE InSession
  BY <1>1, SessionRecovers DEF SessionInv, DiskInv
<1>2. CASE ~InSession
  <2>1. Types /\ SizesInv /\ OpenInv
    BY <1>2 DEF SessionInv, DiskInv
  <2> QED
    BY <2>1, OpenRecovers
<1> QED
  BY <1>1, <1>2

-----------------------------------------------------------------------------
(* The invariant of the disk, when a session ends.                         *)

(* A process that stopped leaves files of which the next one makes this.   *)
LEMMA StoppedIs ==
    ASSUME Types, SizesInv, FreshInv, NEW d \in Imgs(data), NEW j \in Imgs(journal),
           Recovers(d, j), main' = "closed", UNCHANGED <<program, stores, durable, snapshot>>,
           data'.now.size = d.size, data'.now.page = d.page, SameAs(journal'.now, j),
           Imgs(data)' = {data'.now}, Imgs(journal)' = {journal'.now}
    PROVE  DiskInv'
<1> DEFINE e == data'.now
           k == journal'.now
           found == Recovered(d, j)
<1>1. /\ FileOK(data) /\ FileOK(journal)
  BY DEF Types, StoreTypes
<1>2. d \in Images
  BY <1>1, ImgsAre
<1>3. e.size = d.size /\ e.page = d.page /\ SameAs(k, j)
  OBVIOUS
<1>4. Recovered(e, k) = found /\ (Verify(k, e.size) <=> Verify(j, d.size))
  BY <1>3, RecoveredSame
<1>5. Restored' = found /\ (Replays' <=> Verify(j, d.size)) /\ ~InSession'
  BY <1>4 DEF Restored, Replays, InSession
<1>6. found \in {durable, snapshot}
      /\ (Faithful(j, found) \/ Void(j, {v \in 1..stores : \A p \in Pages : v # found[p]}, TRUE))
  BY DEF Recovers
<1> HIDE DEF found, e, k
<1>7. Lost' = {v \in 1..stores : \A p \in Pages : v # found[p]}
  BY <1>5 DEF Lost
<1>8. Faithful(k, Restored') \/ Void(k, Lost', TRUE)
  BY <1>3, <1>5, <1>6, <1>7 DEF Faithful, Void, SameAs, Matches
<1>9. ASSUME NEW p \in Pages
      PROVE  e.page[p] = Restored'[p] \/ (Replays' /\ Listed(p)')
  <2>1. CASE ~Verify(j, d.size)
    BY <1>2, <1>3, <1>5, <2>1, NothingRecovered DEF found
  <2>2. CASE ~Lists(j, p)
    BY <1>3, <1>5, <2>2, OthersRecovered DEF found
  <2>3. CASE Verify(j, d.size) /\ Lists(j, p)
    <3>1. Ids' = j.index.ids
      BY <1>3 DEF Ids, SameAs, k
    <3> QED
      BY <1>5, <2>3, <3>1 DEF Listed, Lists
  <2> QED
    BY <2>1, <2>2, <2>3
<1>10. OpenInv'
  <2>1. Restored' \in {durable', snapshot'}
    BY <1>5, <1>6
  <2>2. \A i \in Imgs(journal)' : Faithful(i, Restored') \/ Void(i, Lost', main' \in {"closed", "truncate"})
    BY <1>8 DEF k
  <2>3. \A i \in Imgs(data)' : \A p \in Pages : i.page[p] = Restored'[p] \/ (Replays' /\ Listed(p)')
    BY <1>9 DEF e
  <2>4. \A i \in Imgs(journal)' : SameAs(i, journal'.now)
    BY DEF SameAs
  <2> QED
    BY <2>1, <2>2, <2>3, <2>4 DEF OpenInv
<1>11. SizesInv'
  <2>1. e.size \in {1} \union program.opens \union program.expands /\ e.size # 0
    BY <1>3 DEF SizesInv
  <2>2. Fits(k, e.size)
    BY <1>3 DEF SizesInv, Fits, SameAs
  <2>3. e.size <= e.size
    <3>1. d.size \in 0..N
      BY <1>1, ImgsAre
    <3> QED
      BY <1>3, <3>1, PagesAre
  <2> QED
    BY <1>5, <2>1, <2>2, <2>3 DEF SizesInv, e, k
<1>12. FreshInv'
  BY <1>5 DEF FreshInv
<1> QED
  BY <1>5, <1>10, <1>11, <1>12 DEF DiskInv

(* Killed, it leaves what it wrote; without power, one of the images of    *)
(* each file. Both at once would be something else (see ReplayIsSafe).     *)
LEMMA CrashKept ==
    ASSUME SessionInv, DiskInv, OneFailure(Programs), Crash
    PROVE  DiskInv'
<1>1. Types /\ SizesInv /\ FreshInv
  BY DEF SessionInv, DiskInv
<1>2. FileOK(data) /\ FileOK(journal) /\ program \in Programs
  BY <1>1 DEF Types, StoreTypes, MainTypes
<1>3. main' = "closed" /\ UNCHANGED <<program, stores, durable, snapshot>>
  BY DEF Crash, ghosts
<1>4. CASE "kill" \in program.failures /\ UNCHANGED files
  <2>1. "power" \notin program.failures
    BY <1>2, <1>4 DEF OneFailure
  <2>2. Imgs(data)' = {data'.now} /\ Imgs(journal)' = {journal'.now}
    BY <1>3, <2>1 DEF Imgs
  <2>3. data.now \in Imgs(data) /\ journal.now \in Imgs(journal)
    BY <1>2, ImgsAre
  <2>4. Recovers(data.now, journal.now)
    BY <2>3, AllRecover
  <2>5. data' = data /\ journal' = journal
    BY <1>4 DEF files
  <2>6. SameAs(journal'.now, journal.now)
    BY <2>5 DEF SameAs
  <2> QED
    BY <1>1, <1>3, <2>2, <2>3, <2>4, <2>5, <2>6, StoppedIs
<1>5. CASE /\ "power" \in program.failures
           /\ \E d \in data.may, j \in journal.may : data' = Durable(d) /\ journal' = Durable(j)
  <2>1. PICK d \in data.may, j \in journal.may : data' = Durable(d) /\ journal' = Durable(j)
    BY <1>5
  <2>2. d \in Imgs(data) /\ j \in Imgs(journal)
    BY <1>5 DEF Imgs
  <2>3. d \in Images /\ Sound(d) /\ j \in Images /\ Sound(j)
    BY <1>2 DEF FileOK
  <2>4. /\ data'.now.size = d.size /\ data'.now.page = d.page /\ data'.may = {data'.now}
    BY <2>1, <2>3, DurableIs
  <2>5. /\ journal'.now.index = j.index /\ journal'.now.size = j.size /\ journal'.now.page = j.page
        /\ journal'.may = {journal'.now}
    BY <2>1, <2>3, DurableIs
  <2>6. Recovers(d, j)
    BY <2>2, AllRecover
  <2>7. Imgs(data)' = {data'.now} /\ Imgs(journal)' = {journal'.now}
    BY <2>4, <2>5 DEF Imgs
  <2>8. SameAs(journal'.now, j)
    BY <2>5 DEF SameAs
  <2> QED
    BY <1>1, <1>3, <2>2, <2>4, <2>6, <2>7, <2>8, StoppedIs
<1> QED
  BY <1>4, <1>5 DEF Crash

(* A session that ends well leaves no journal.                             *)
LEMMA CloseKept ==
    ASSUME SessionInv, InSession, DiskInv, CloseEnd
    PROVE  DiskInv'
<1>1. /\ Types /\ During /\ SizesInv /\ FreshInv /\ DataInv /\ JournalInv
  BY DEF SessionInv, DiskInv
<1>2. /\ FileOK(data) /\ FileOK(journal) /\ durable \in [Pages -> Val]
  BY <1>1 DEF Types, StoreTypes
<1>3. /\ main = "exiting" /\ sync = "exited" /\ main' = "closed"
      /\ UNCHANGED <<program, stores, durable, snapshot, data, journal>>
  BY DEF CloseEnd, files, ghosts, bounds
<1>4. /\ durable = snapshot /\ data.now.page = snapshot /\ journal.now.size = 0
      /\ sync \notin Copying /\ length = data.now.size
  BY <1>1, <1>3 DEF During, CommitInv, IdleInv, Lengths, Journaling, Copying
<1>5. ~Verify(journal.now, data.now.size)
  <2>1. journal.now \in Images /\ Sound(journal.now) /\ data.now.size \in Nat
    BY <1>2, NowIs, PagesAre
  <2>2. Verify(journal.now, data.now.size) => Matches(journal.now) /\ Len(journal.now.index.ids) > 0
    BY <2>1, VerifiedIs
  <2> QED
    BY <1>4, <2>2 DEF Matches
<1>6. Recovered(data.now, journal.now) = durable
  <2>1. data.now \in Images
    BY <1>2, NowIs
  <2> QED
    BY <1>4, <1>5, <2>1, NothingRecovered
<1>7. Restored' = durable /\ ~Replays' /\ ~InSession'
  BY <1>3, <1>5, <1>6 DEF Restored, Replays, InSession
<1>8. Imgs(data)' = Imgs(data) /\ Imgs(journal)' = Imgs(journal)
  BY <1>3 DEF Imgs
<1>9. Lost' = {v \in 1..stores : \A p \in Pages : v # durable[p]}
  BY <1>3, <1>7 DEF Lost
<1>10. ASSUME NEW j \in Imgs(journal)
       PROVE  Faithful(j, durable) \/ Void(j, Lost', TRUE)
  <2>1. Useful(j) \/ Void(j, Gone, FALSE)
    BY <1>1 DEF JournalInv
  <2>2. Useful(j) => Faithful(j, durable)
    BY <1>4 DEF Useful
  <2>3. Gone \subseteq Lost'
    BY <1>9 DEF Gone
  <2> QED
    BY <2>1, <2>2, <2>3 DEF Void
<1>11. OpenInv'
  <2>1. \A d \in Imgs(data), p \in Pages : d.page[p] = durable[p]
    BY <1>1, <1>4 DEF DataInv
  <2>2. \A j \in Imgs(journal)' : Faithful(j, Restored') \/ Void(j, Lost', main' \in {"closed", "truncate"})
    BY <1>3, <1>7, <1>8, <1>10
  <2> QED
    BY <1>3, <1>7, <1>8, <2>1, <2>2 DEF OpenInv
<1>12. SizesInv'
  BY <1>1, <1>3, <1>4, <1>7, <1>8 DEF SizesInv, InSession
<1>13. FreshInv'
  BY <1>1, <1>3, <1>7 DEF FreshInv
<1> QED
  BY <1>7, <1>11, <1>12, <1>13 DEF DiskInv

(* At first there is nothing to find.                                      *)
LEMMA InitDisk ==
    ASSUME Init
    PROVE  DiskInv
<1>1. Types
  BY InitIsSound DEF SessionInv
<1>2. /\ data = NewFile(1) /\ journal = NewFile(0) /\ main = "closed"
      /\ snapshot = EmptyPages /\ durable = EmptyPages /\ stores = 0
  BY DEF Init
<1>3. /\ data.now.size = 1 /\ data.now.page = EmptyPages /\ data.may = {data.now}
      /\ journal.now.index = Blank /\ journal.may = {journal.now}
  BY <1>2 DEF NewFile, Durable
<1>4. Imgs(data) = {data.now} /\ Imgs(journal) = {journal.now}
  BY <1>3 DEF Imgs
<1>5. ~Verify(journal.now, data.now.size)
  BY <1>3 DEF Verify
<1>6. Recovered(data.now, journal.now) = EmptyPages
  <2>1. data.now \in Images
    BY <1>1, NowIs DEF Types, StoreTypes
  <2> QED
    BY <1>3, <1>5, <2>1, NothingRecovered
<1>7. Restored = EmptyPages /\ ~Replays /\ ~InSession
  BY <1>2, <1>5, <1>6 DEF Restored, Replays, InSession
<1>8. Len(journal.now.index.ids) = 0
  BY <1>3 DEF Blank
<1>9. Faithful(journal.now, Restored) /\ Fits(journal.now, data.now.size)
  BY <1>8 DEF Faithful, Fits
<1>10. OpenInv
  BY <1>2, <1>3, <1>4, <1>7, <1>9 DEF OpenInv
<1>11. SizesInv
  BY <1>2, <1>3, <1>4, <1>7, <1>9 DEF SizesInv
<1>12. FreshInv
  BY <1>2, <1>7, PagesAre DEF FreshInv, EmptyPages
<1> QED
  BY <1>7, <1>10, <1>11, <1>12 DEF DiskInv

-----------------------------------------------------------------------------
(* And when the store is opened.                                           *)

(* acid_open stores nothing, and takes nothing for durable before it maps. *)
LEMMA OpenLeaves ==
    ASSUME OpenStep, FreshInv
    PROVE  /\ UNCHANGED <<program, stores, durable, snapshot, private>>
           /\ ~InSession /\ ~InSession' /\ FreshInv'
           /\ Imgs(data)' = Imgs(data') /\ Imgs(journal)' = Imgs(journal')
<1>1. /\ UNCHANGED <<program, stores, durable, snapshot, private>> /\ ~InSession /\ ~InSession'
  BY DEF OpenStep, Open, ReplayPage, ReplaySync, OpenTruncate, OpenResize, OpenResizeSync, MainStepTo,
     unstarted, memoryVars, bounds, ghosts, InSession
<1> QED
  BY <1>1 DEF FreshInv, Imgs

(* It looks for a journal, and will replay it.                             *)
LEMMA OpenKept ==
    ASSUME SessionInv, DiskInv, Open
    PROVE  DiskInv'
<1>1. OpenStep
  BY DEF OpenStep
<1>2. /\ main = "closed" /\ length' = data.now.size /\ data' = data /\ journal' = journal
      /\ \/ Verify(journal.now, data.now.size) /\ main' = "replay" /\ vec' = Ids
         \/ ~Verify(journal.now, data.now.size) /\ main' = "truncate"
  BY DEF Open, MainStepTo, files, Ids
<1>3. Types /\ SizesInv /\ FreshInv /\ OpenInv
  BY <1>2 DEF SessionInv, DiskInv, InSession
<1>4. /\ UNCHANGED <<program, stores, durable, snapshot>>
      /\ ~InSession' /\ FreshInv' /\ Imgs(data)' = Imgs(data) /\ Imgs(journal)' = Imgs(journal)
  BY <1>1, <1>2, <1>3, OpenLeaves
<1>5. FileOK(data) /\ FileOK(journal)
  BY <1>3 DEF Types, StoreTypes
<1>6. data.now \in Images /\ data.now \in Imgs(data) /\ Len(Ids) \in Nat
  BY <1>5, NowIs, ImgsAre, PagesAre DEF Ids
<1>7. Restored = Recovered(data.now, journal.now)
  BY <1>2 DEF Restored
<1>8. SizesInv'
  BY <1>2, <1>3, <1>4 DEF SizesInv, InSession
<1>9. CASE main' = "replay" /\ Verify(journal.now, data.now.size) /\ vec' = Ids
  <2>1. Restored' = Restored /\ Replays /\ Replays'
    BY <1>2, <1>7, <1>9 DEF Restored, Replays
  <2>2. Ids' = Ids /\ Lost' = Lost
    BY <1>2, <1>4, <2>1 DEF Ids, Lost
  <2>3. \A j \in Imgs(journal) : Faithful(j, Restored)
    <3> SUFFICES ASSUME NEW j \in Imgs(journal)
                 PROVE  Faithful(j, Restored)
      OBVIOUS
    <3>1. SameAs(j, journal.now)
      BY <1>3, <2>1 DEF OpenInv
    <3>2. Matches(j)
      BY <1>9, <3>1 DEF Matches, SameAs, Verify
    <3> QED
      BY <1>3, <3>2 DEF OpenInv, Void
  <2>4. \A i \in 1..Len(vec') : vec'[i] = Ids[Len(Ids) - Len(vec') + i]
    BY <1>6, <1>9
  <2>5. \A p \in Pages : data.now.page[p] = Restored[p] \/ \E i \in 1..Len(vec') : p = vec'[i]
    BY <1>3, <1>6, <1>9 DEF OpenInv, Listed
  <2>6. Len(vec') <= Len(Ids)
    BY <1>6, <1>9
  <2>7. Restored \in {durable, snapshot} /\ \A d \in Imgs(data), p \in Pages :
            d.page[p] = Restored[p] \/ Listed(p)
    BY <1>3 DEF OpenInv
  <2>8. \A j \in Imgs(journal) : SameAs(j, journal.now)
    BY <1>3, <2>1 DEF OpenInv
  <2>9. OpenInv'
    BY <1>2, <1>4, <2>1, <2>2, <2>3, <2>4, <2>5, <2>6, <2>7, <2>8 DEF OpenInv, Listed
  <2> QED
    BY <1>4, <1>8, <2>9 DEF DiskInv
<1>10. CASE main' = "truncate" /\ ~Verify(journal.now, data.now.size)
  <2>1. Restored' = Restored /\ ~Replays /\ ~Replays'
    <3>1. Recovered(data.now, journal.now) = data.now.page
      BY <1>6, <1>10, NothingRecovered
    <3> QED
      BY <1>2, <1>7, <1>10, <3>1 DEF Restored, Replays
  <2>2. Lost' = Lost
    BY <1>4, <2>1 DEF Lost
  <2>3. OpenInv'
    BY <1>2, <1>3, <1>4, <1>10, <2>1, <2>2 DEF OpenInv
  <2> QED
    BY <1>4, <1>8, <2>3 DEF DiskInv
<1> QED
  BY <1>2, <1>9, <1>10

(* A page that is replayed is that which would be found anyway.            *)
LEMMA ReplayKept ==
    ASSUME SessionInv, DiskInv, ReplayPage
    PROVE  DiskInv'
<1> DEFINE k == Len(Ids) - Len(vec) + 1
           h == Head(vec)
<1>1. OpenStep
  BY DEF OpenStep
<1>2. /\ main = "replay" /\ main' = "replay" /\ journal' = journal /\ length' = length
      /\ vec # <<>> /\ vec' = Tail(vec)
      /\ data' = WritePage(data, h, journal.now.page[k])
  BY DEF ReplayPage, MainStepTo, CopyPage, Ids
<1>3. Types /\ Outside /\ SizesInv /\ FreshInv /\ OpenInv
  BY <1>2 DEF SessionInv, DiskInv, InSession
<1>4. /\ UNCHANGED <<program, stores, durable, snapshot>>
      /\ ~InSession' /\ FreshInv' /\ Imgs(data)' = Imgs(data') /\ Imgs(journal)' = Imgs(journal)
  BY <1>1, <1>2, <1>3, OpenLeaves
<1>5. /\ FileOK(data) /\ FileOK(journal)
      /\ durable \in [Pages -> Val] /\ snapshot \in [Pages -> Val]
  BY <1>3 DEF Types, StoreTypes
<1>6. /\ FileOK(data') /\ data'.now.size = data.now.size
      /\ h \in Pages /\ k \in Pages /\ journal.now.page[k] \in Val
      /\ data'.now.page = IF h <= data.now.size
           THEN [data.now.page EXCEPT ![h] = journal.now.page[k]] ELSE data.now.page
  BY <1>3, ReplayPageIs
<1>7. /\ data.now \in Images /\ data.now.size \in Nat /\ journal.now \in Images
      /\ data'.now \in Images /\ Sound(journal.now)
      /\ data.now.page \in [Pages -> Val] /\ journal.now \in Imgs(journal)
      /\ data.now \in Imgs(data) /\ Len(Ids) \in 0..N
  BY <1>5, <1>6, NowIs, ImgsAre, PagesAre DEF Ids
<1>8. /\ Replays /\ Len(vec) <= Len(Ids)
      /\ \A i \in 1..Len(vec) : vec[i] = Ids[Len(Ids) - Len(vec) + i]
      /\ \A p \in Pages : data.now.page[p] = Restored[p] \/ \E i \in 1..Len(vec) : p = vec[i]
      /\ \A j \in Imgs(journal) : SameAs(j, journal.now)
      /\ Restored \in {durable, snapshot}
      /\ \A d \in Imgs(data), p \in Pages : d.page[p] = Restored[p] \/ Listed(p)
  BY <1>2, <1>3 DEF OpenInv
<1>9. h = vec[1] /\ Len(vec) \in Nat \ {0} /\ Len(Tail(vec)) = Len(vec) - 1
      /\ \A i \in 1..Len(vec) - 1 : Tail(vec)[i] = vec[i + 1]
  BY <1>2, <1>3, VecIs DEF Types
<1>10. k \in 1..Len(Ids) /\ h = Ids[k]
  BY <1>7, <1>8, <1>9, PagesAre
<1>11. Verify(journal.now, data.now.size)
  BY <1>8 DEF Replays
<1>12. Matches(journal.now)
  BY <1>7, <1>11, VerifiedIs
<1>13. \A j \in Imgs(journal) : Faithful(j, Restored)
  <2> SUFFICES ASSUME NEW j \in Imgs(journal)
               PROVE  Faithful(j, Restored)
    OBVIOUS
  <2>1. SameAs(j, journal.now)
    BY <1>8
  <2>2. Matches(j)
    BY <1>12, <2>1 DEF Matches, SameAs
  <2> QED
    BY <1>3, <2>2 DEF OpenInv, Void
<1>14. Listed(h) /\ h <= data.now.size /\ journal.now.page[k] = Restored[h]
  <2>1. Faithful(journal.now, Restored) /\ Fits(journal.now, data.now.size)
    BY <1>3, <1>7, <1>13 DEF SizesInv
  <2>2. journal.now.size = Len(Ids)
    BY <1>12 DEF Matches, Ids
  <2> HIDE DEF k
  <2> QED
    BY <1>10, <1>12, <2>1, <2>2 DEF Listed, Fits, Faithful, Matches, Ids
<1> HIDE DEF k, h
<1>15. \A p \in Pages : data'.now.page[p] = IF p = h THEN Restored[h] ELSE data.now.page[p]
  BY <1>6, <1>7, <1>14
<1>16. Restored \in [Pages -> Val]
  BY <1>5, <1>8
<1>17. Recovered(data'.now, journal.now) = Restored
  <2>1. Verify(journal.now, data'.now.size)
    BY <1>6, <1>11
  <2>2. \A p \in Pages : ~Lists(journal.now, p) => data'.now.page[p] = Restored[p]
    BY <1>7, <1>8, <1>15 DEF Lists, Listed, Ids
  <2> QED
    BY <1>7, <1>13, <1>16, <2>1, <2>2, AllRecovered
<1>18. Restored' = Restored /\ Replays' /\ Ids' = Ids
  BY <1>2, <1>6, <1>11, <1>17 DEF Restored, Replays, Ids
<1>19. Lost' = Lost
  BY <1>4, <1>18 DEF Lost
<1>20. ASSUME NEW d \in Imgs(data')
       PROVE  \E old \in Imgs(data) : d.size = old.size
                /\ \A p \in Pages : p # h => d.page[p] = old.page[p]
  BY <1>2, <1>5, <1>6, WritePageImgs
<1>21. \A d \in Imgs(data'), p \in Pages : d.page[p] = Restored[p] \/ Listed(p)
  <2> SUFFICES ASSUME NEW d \in Imgs(data'), NEW p \in Pages, p # h
               PROVE  d.page[p] = Restored[p] \/ Listed(p)
    BY <1>14
  <2> QED
    BY <1>8, <1>20
<1>22. Len(vec') <= Len(Ids) /\ \A i \in 1..Len(vec') : vec'[i] = Ids[Len(Ids) - Len(vec') + i]
  <2>1. Len(vec') = Len(vec) - 1 /\ Len(vec') <= Len(Ids)
    BY <1>2, <1>7, <1>8, <1>9, PagesAre
  <2>2. ASSUME NEW i \in 1..Len(vec')
        PROVE  vec'[i] = Ids[Len(Ids) - Len(vec') + i]
    <3>1. i + 1 \in 1..Len(vec) /\ vec'[i] = vec[i + 1]
      BY <1>2, <1>9, <2>1
    <3>2. vec[i + 1] = Ids[Len(Ids) - Len(vec) + (i + 1)]
      BY <1>8, <3>1
    <3>3. Len(Ids) - Len(vec) + (i + 1) = Len(Ids) - Len(vec') + i
      BY <1>7, <1>9, <2>1, PagesAre
    <3> QED
      BY <3>1, <3>2, <3>3
  <2> QED
    BY <2>1, <2>2
<1>23. ASSUME NEW p \in Pages
       PROVE  data'.now.page[p] = Restored[p] \/ \E i \in 1..Len(vec') : p = vec'[i]
  <2>1. CASE p = h
    BY <1>15, <2>1
  <2>2. CASE p # h /\ data.now.page[p] = Restored[p]
    BY <1>15, <2>2
  <2>3. CASE p # h /\ \E i \in 1..Len(vec) : p = vec[i]
    <3>1. PICK i \in 1..Len(vec) : p = vec[i]
      BY <2>3
    <3>2. i # 1
      BY <1>9, <2>3, <3>1
    <3>3. i - 1 \in 1..Len(vec) - 1
      BY <1>9, <3>2
    <3>4. vec'[i - 1] = vec[i] /\ i - 1 \in 1..Len(vec')
      BY <1>2, <1>9, <3>3
    <3> QED
      BY <3>1, <3>4
  <2> QED
    BY <1>8, <2>1, <2>2, <2>3
<1>24. OpenInv'
  BY <1>2, <1>4, <1>8, <1>13, <1>18, <1>19, <1>21, <1>22, <1>23 DEF OpenInv, Listed
<1>25. SizesInv'
  <2>1. \A d \in Imgs(data) :
            /\ d.size \in {1} \union program.opens \union program.expands /\ d.size # 0
            /\ data.now.size <= d.size
            /\ \A j \in Imgs(journal) : Fits(j, d.size)
    BY <1>2, <1>3 DEF SizesInv, InSession
  <2> QED
    BY <1>2, <1>4, <1>6, <1>20, <2>1 DEF SizesInv
<1> QED
  BY <1>4, <1>24, <1>25 DEF DiskInv

(* Once all are, it does not need the journal any more.                    *)
LEMMA ReplaySyncKept ==
    ASSUME SessionInv, DiskInv, ReplaySync
    PROVE  DiskInv'
<1>1. OpenStep
  BY DEF OpenStep
<1>2. /\ main = "replay" /\ main' = "truncate" /\ journal' = journal /\ length' = length
      /\ vec = <<>> /\ data' = Sync(data)
  BY DEF ReplaySync, MainStepTo
<1>3. Types /\ SizesInv /\ FreshInv /\ OpenInv
  BY <1>2 DEF SessionInv, DiskInv, InSession
<1>4. /\ UNCHANGED <<program, stores, durable, snapshot>>
      /\ ~InSession' /\ FreshInv' /\ Imgs(data)' = Imgs(data') /\ Imgs(journal)' = Imgs(journal)
  BY <1>1, <1>2, <1>3, OpenLeaves
<1>5. /\ FileOK(data) /\ durable \in [Pages -> Val] /\ snapshot \in [Pages -> Val]
  BY <1>3 DEF Types, StoreTypes
<1>6. data'.now = data.now /\ Imgs(data') = {data.now}
  BY <1>2, <1>5, SyncIs, SyncImgs
<1>7. data.now \in Imgs(data) /\ data.now.page \in [Pages -> Val] /\ data.now.size \in Nat
  BY <1>5, ImgsAre, NowIs, PagesAre
<1>8. data.now.page = Restored
  <2>1. \A p \in Pages : data.now.page[p] = Restored[p]
    BY <1>2, <1>3 DEF OpenInv
  <2>2. Restored \in [Pages -> Val]
    BY <1>3, <1>5 DEF OpenInv
  <2> QED
    BY <1>7, <2>1, <2>2
<1>9. Restored' = Restored /\ ~Replays'
  BY <1>2, <1>6, <1>8 DEF Restored, Replays
<1>10. Lost' = Lost
  BY <1>4, <1>9 DEF Lost
<1>11. \A j \in Imgs(journal) : Faithful(j, Restored) \/ Void(j, Lost, TRUE)
  BY <1>3 DEF OpenInv, Void
<1>12. OpenInv'
  BY <1>2, <1>3, <1>4, <1>6, <1>8, <1>9, <1>10, <1>11 DEF OpenInv
<1>13. SizesInv'
  BY <1>2, <1>3, <1>4, <1>6, <1>7 DEF SizesInv
<1> QED
  BY <1>4, <1>12, <1>13 DEF DiskInv

(* So that is discarded.                                                   *)
LEMMA OpenTruncateKept ==
    ASSUME SessionInv, DiskInv, OpenTruncate
    PROVE  DiskInv'
<1>1. OpenStep
  BY DEF OpenStep
<1>2. /\ main = "truncate" /\ main' = "resize" /\ data' = data /\ length' = length
      /\ journal' = Truncate(journal, 0)
  BY DEF OpenTruncate, MainStepTo
<1>3. Types /\ SizesInv /\ FreshInv /\ OpenInv
  BY <1>2 DEF SessionInv, DiskInv, InSession
<1>4. /\ UNCHANGED <<program, stores, durable, snapshot>>
      /\ ~InSession' /\ FreshInv' /\ Imgs(data)' = Imgs(data) /\ Imgs(journal)' = Imgs(journal')
  BY <1>1, <1>2, <1>3, OpenLeaves
<1>5. FileOK(journal) /\ 0 \in 0..N
  BY <1>3, PagesAre DEF Types, StoreTypes
<1>6. \A j \in Imgs(journal) : /\ j.kept \in 0..N /\ j.kept <= j.size /\ j.size \in 0..N
                               /\ Len(j.index.ids) \in 0..N
  BY <1>5, ImgsAre
<1>7. Restored' = Restored /\ ~Replays /\ ~Replays'
  BY <1>2 DEF Restored, Replays
<1>8. Lost' = Lost
  BY <1>4, <1>7 DEF Lost
<1>9. ASSUME NEW im \in Imgs(journal')
      PROVE  \E old \in Imgs(journal) :
                /\ im.index = old.index /\ im.kept = 0
                /\ im.size = 0 \/ (im.size = old.size /\ im.page = old.page)
  <2>1. PICK old \in Imgs(journal) :
          /\ im.index = old.index
          /\ \/ /\ im.size = 0 /\ im.kept = 0
             \/ /\ im.size = old.size /\ im.page = old.page
                /\ im.kept = IF 0 < old.kept THEN 0 ELSE old.kept
    BY <1>2, <1>5, TruncateImgs
  <2>2. im.kept = 0
    <3>1. old.kept \in Nat
      BY <1>6, PagesAre
    <3> QED
      BY <2>1, <3>1
  <2> QED
    BY <2>1, <2>2
<1>10. ASSUME NEW im \in Imgs(journal')
       PROVE  Faithful(im, Restored) \/ Void(im, Lost, FALSE)
  <2>1. PICK old \in Imgs(journal) :
                /\ im.index = old.index /\ im.kept = 0
                /\ im.size = 0 \/ (im.size = old.size /\ im.page = old.page)
    BY <1>9
  <2>2. CASE Faithful(old, Restored)
    BY <2>1, <2>2 DEF Faithful
  <2>3. CASE Void(old, Lost, TRUE)
    <3>1. PICK i \in 1..Len(old.index.ids) : old.index.hash[i] \in Lost
      BY <2>3 DEF Void
    <3>2. ~Matches(im)
      <4>1. CASE im.size = 0
        <5>1. Len(old.index.ids) # 0
          BY <1>6, <3>1
        <5> QED
          BY <2>1, <4>1, <5>1 DEF Matches
      <4>2. CASE im.size = old.size /\ im.page = old.page
        BY <2>1, <2>3, <4>2 DEF Void, Matches
      <4> QED
        BY <2>1, <4>1, <4>2
    <3> QED
      BY <2>1, <3>1, <3>2 DEF Void
  <2>4. Faithful(old, Restored) \/ Void(old, Lost, TRUE)
    BY <1>3 DEF OpenInv, Void
  <2> QED
    BY <2>2, <2>3, <2>4
<1>11. OpenInv'
  <2>1. \A j \in Imgs(journal') :
            Faithful(j, Restored') \/ Void(j, Lost', main' \in {"closed", "truncate"})
    BY <1>2, <1>7, <1>8, <1>10 DEF Void
  <2> QED
    BY <1>2, <1>3, <1>4, <1>7, <1>8, <2>1 DEF OpenInv
<1>12. SizesInv'
  <2>1. \A d \in Imgs(data), j \in Imgs(journal') : Fits(j, d.size)
    BY <1>3, <1>9 DEF SizesInv, Fits
  <2> QED
    BY <1>2, <1>3, <1>4, <2>1 DEF SizesInv, InSession
<1> QED
  BY <1>4, <1>11, <1>12 DEF DiskInv

(* The data file may grow.                                                 *)
LEMMA OpenResizeKept ==
    ASSUME SessionInv, DiskInv, Grows(Programs), NEW n \in program.opens, OpenResize(n)
    PROVE  DiskInv'
<1>1. OpenStep
  BY DEF OpenStep
<1>2. /\ main = "resize" /\ length' = length /\ journal' = journal
      /\ \/ n \in {0, length} /\ main' = "map" /\ data' = data
         \/ n \notin {0, length} /\ main' = "resize_sync" /\ data' = Truncate(data, n)
  BY DEF OpenResize, MainStepTo
<1>3. Types /\ Outside /\ SizesInv /\ FreshInv /\ OpenInv
  BY <1>2 DEF SessionInv, DiskInv, InSession
<1>4. /\ UNCHANGED <<program, stores, durable, snapshot>>
      /\ ~InSession' /\ FreshInv' /\ Imgs(data)' = Imgs(data') /\ Imgs(journal)' = Imgs(journal)
  BY <1>1, <1>2, <1>3, OpenLeaves
<1>5. FileOK(data) /\ FileOK(journal) /\ program \in Programs /\ n \in 0..N /\ length = data.now.size
      /\ stores \in Nat
  BY <1>2, <1>3, ProgramIs, PagesAre DEF Types, StoreTypes, MainTypes, Outside
<1>6. \A d \in Imgs(data) : d.size \in Nat /\ d.page \in [Pages -> Val] /\ Sound(d)
                            /\ data.now.size \in Nat /\ data.now \in Imgs(data)
  BY <1>5, ImgsAre, NowIs, PagesAre
<1>7. ~Replays /\ ~Replays'
  BY <1>2 DEF Replays
<1>8. ASSUME data' = data
      PROVE  DiskInv'
  <2>1. main' = "map" \/ main' = "resize_sync"
    BY <1>2
  <2>2. Restored' = Restored
    BY <1>2, <1>8, <2>1 DEF Restored
  <2>3. Lost' = Lost
    BY <1>4, <2>2 DEF Lost
  <2>4. OpenInv'
    BY <1>2, <1>3, <1>4, <1>7, <1>8, <2>1, <2>2, <2>3 DEF OpenInv
  <2>5. SizesInv'
    BY <1>2, <1>3, <1>4, <1>8 DEF SizesInv, InSession
  <2> QED
    BY <1>4, <2>4, <2>5 DEF DiskInv
<1>9. CASE n \notin {0, length} /\ main' = "resize_sync" /\ data' = Truncate(data, n)
  <2>1. n > data.now.size
    <3>1. data.now.size \in {1} \union program.opens \union program.expands /\ data.now \in Imgs(data)
      <4>1. data.now \in Imgs(data)
        BY <1>5, ImgsAre
      <4> QED
        BY <1>3, <4>1 DEF SizesInv
    <3>2. \A m \in program.opens \union program.expands : m <= n
      BY <1>5, <1>9 DEF Grows
    <3>3. n \in Nat /\ data.now.size \in Nat /\ n # 0 /\ n # data.now.size
      BY <1>5, <1>6, <1>9, <3>1, PagesAre
    <3>4. data.now.size <= n
      BY <3>1, <3>2, <3>3
    <3> QED
      BY <3>3, <3>4
  <2>2. ASSUME NEW im \in Imgs(data')
        PROVE  \E old \in Imgs(data) :
                  /\ im.size = old.size \/ (im.size = n /\ old.size = data.now.size)
                  /\ \A p \in Pages : im.page[p] = old.page[p]
    <3>1. PICK old \in Imgs(data) :
              \/ /\ im.size = n /\ old.size = data.now.size
                 /\ \A p \in Pages : im.page[p] = IF p <= n THEN old.page[p] ELSE 0
              \/ /\ im.size = old.size /\ im.page = old.page
      BY <1>5, <1>9, TruncateImgs
    <3>2. ASSUME NEW p \in Pages, ~(p <= n), old.size = data.now.size
          PROVE  old.page[p] = 0
      <4>1. p \in Nat /\ n \in Nat /\ Sound(old) /\ old.size \in Nat
        BY <1>5, <1>6, PagesAre
      <4>2. p > old.size
        BY <2>1, <3>2, <4>1
      <4> QED
        BY <4>1, <4>2 DEF Sound
    <3>3. \A p \in Pages : im.page[p] = old.page[p]
      BY <3>1, <3>2
    <3> QED
      BY <3>1, <3>3
  <2>3. data'.now.page = data.now.page
    <3>1. data'.now.page = [p \in Pages |-> IF p <= n THEN data.now.page[p] ELSE 0]
      BY <1>5, <1>9, TruncateIs
    <3>2. data.now.page \in [Pages -> Val] /\ Sound(data.now) /\ data.now.size \in Nat /\ n \in Nat
      BY <1>5, NowIs, PagesAre
    <3>3. ASSUME NEW p \in Pages, ~(p <= n)
          PROVE  data.now.page[p] = 0
      <4>1. p \in Nat
        BY PagesAre
      <4>2. p > data.now.size
        BY <2>1, <3>2, <3>3, <4>1
      <4> QED
        BY <3>2, <4>2 DEF Sound
    <3> QED
      BY <3>1, <3>2, <3>3
  <2>4. Restored' = Restored
    BY <1>2, <1>9, <2>3 DEF Restored
  <2>5. Lost' = Lost
    BY <1>4, <2>4 DEF Lost
  <2>6. \A d \in Imgs(data') : \A p \in Pages : d.page[p] = Restored[p]
    BY <1>3, <1>7, <2>2 DEF OpenInv
  <2>7. OpenInv'
    BY <1>2, <1>3, <1>4, <1>7, <1>9, <2>4, <2>5, <2>6 DEF OpenInv
  <2>8. ASSUME NEW d \in Imgs(data')
        PROVE  /\ d.size \in {1} \union program.opens \union program.expands /\ d.size # 0
               /\ \A j \in Imgs(journal) : Fits(j, d.size)
    <3>1. PICK old \in Imgs(data) : d.size = old.size \/ (d.size = n /\ old.size = data.now.size)
      BY <2>2
    <3>2. old.size <= d.size /\ old.size \in Nat /\ d.size \in Nat
      BY <1>5, <1>6, <2>1, <3>1, PagesAre
    <3>3. d.size \in {1} \union program.opens \union program.expands /\ d.size # 0
      BY <1>3, <1>9, <3>1 DEF SizesInv
    <3>4. ASSUME NEW j \in Imgs(journal), NEW i \in 1..Len(j.index.ids)
          PROVE  j.index.ids[i] <= d.size
      <4>1. j.index.ids[i] <= old.size
        BY <1>3 DEF SizesInv, Fits
      <4>2. j.index.ids \in Seq(Pages)
        BY <1>5, ImgsAre
      <4>3. j.index.ids[i] \in Nat
        BY <4>2, ElementOfSeq, PagesAre
      <4> QED
        BY <3>2, <4>1, <4>3
    <3> QED
      BY <3>3, <3>4 DEF Fits
  <2>9. SizesInv'
    BY <1>4, <1>9, <2>8 DEF SizesInv
  <2> QED
    BY <1>4, <2>7, <2>9 DEF DiskInv
<1> QED
  BY <1>2, <1>8, <1>9

(* And is synced before it is mapped.                                      *)
LEMMA OpenResizeSyncKept ==
    ASSUME SessionInv, DiskInv, OpenResizeSync
    PROVE  DiskInv'
<1>1. OpenStep
  BY DEF OpenStep
<1>2. /\ main = "resize_sync" /\ main' = "map" /\ journal' = journal /\ data' = Sync(data)
  BY DEF OpenResizeSync, MainStepTo
<1>3. Types /\ SizesInv /\ FreshInv /\ OpenInv
  BY <1>2 DEF SessionInv, DiskInv, InSession
<1>4. /\ UNCHANGED <<program, stores, durable, snapshot>>
      /\ ~InSession' /\ FreshInv' /\ Imgs(data)' = Imgs(data') /\ Imgs(journal)' = Imgs(journal)
  BY <1>1, <1>2, <1>3, OpenLeaves
<1>5. FileOK(data)
  BY <1>3 DEF Types, StoreTypes
<1>6. data'.now = data.now /\ Imgs(data') = {data.now}
  BY <1>2, <1>5, SyncIs, SyncImgs
<1>7. data.now \in Imgs(data) /\ data.now.size \in Nat
  BY <1>5, ImgsAre, NowIs, PagesAre
<1>8. Restored' = Restored /\ ~Replays /\ ~Replays'
  BY <1>2, <1>6 DEF Restored, Replays
<1>9. Lost' = Lost
  BY <1>4, <1>8 DEF Lost
<1>10. OpenInv'
  BY <1>2, <1>3, <1>4, <1>6, <1>7, <1>8, <1>9 DEF OpenInv
<1>11. SizesInv'
  BY <1>2, <1>3, <1>4, <1>6, <1>7 DEF SizesInv
<1> QED
  BY <1>4, <1>10, <1>11 DEF DiskInv

(* What was found is durable, and the session begins with it.              *)
LEMMA MapKept ==
    ASSUME SessionInv, DiskInv, Map
    PROVE  /\ DiskInv' /\ Memory = Restored /\ Memory' = Memory
           /\ Restored \in {durable, snapshot}
<1>1. /\ main = "map" /\ main' = "mapped" /\ sync' = "loop" /\ durable' = Memory /\ snapshot' = Memory
      /\ UNCHANGED <<data, journal, length, private, program, stores>>
  BY DEF Map, MainStepTo, files, memoryVars, bounds
<1>2. Types /\ Outside /\ SizesInv /\ FreshInv /\ OpenInv
  BY <1>1 DEF SessionInv, DiskInv, InSession
<1>3. /\ FileOK(data) /\ durable \in [Pages -> Val] /\ snapshot \in [Pages -> Val]
      /\ length = data.now.size /\ private = Reset
  BY <1>1, <1>2 DEF Types, StoreTypes, Outside
<1>4. data.now.page \in [Pages -> Val]
  BY <1>3, NowIs
<1>5. Restored = data.now.page /\ ~Replays
  BY <1>1 DEF Restored, Replays
<1>6. Memory = Restored /\ Memory' = Memory
  <2>1. \A p \in Pages : Memory[p] = data.now.page[p]
    BY <1>3 DEF Memory, Reset
  <2>2. Memory = [p \in Pages |-> Memory[p]]
    BY DEF Memory
  <2>3. Memory' = Memory
    BY <1>1 DEF Memory
  <2> QED
    BY <1>4, <1>5, <2>1, <2>2, <2>3
<1>7. Imgs(data)' = Imgs(data) /\ Imgs(journal)' = Imgs(journal) /\ InSession'
  BY <1>1 DEF Imgs, InSession
<1>8. Restored \in {durable, snapshot}
  BY <1>2 DEF OpenInv
<1>9. durable' = Restored /\ snapshot' = Restored /\ Memory' = Restored
  BY <1>1, <1>6
<1>10. DataInv'
  BY <1>1, <1>2, <1>5, <1>7, <1>9 DEF DataInv, OpenInv, Copying
<1>11. Gone' = Lost
  BY <1>1, <1>9 DEF Gone, Lost
<1>12. JournalInv'
  <2>1. \A j \in Imgs(journal) : Faithful(j, Restored) \/ Void(j, Lost, FALSE)
    BY <1>1, <1>2 DEF OpenInv, Void
  <2>2. \A j \in Imgs(journal) : Useful(j)' \/ Void(j, Gone', FALSE)
    BY <1>9, <1>11, <2>1 DEF Useful
  <2>3. sync' \notin Copying
    BY <1>1 DEF Copying
  <2> QED
    BY <1>7, <2>2, <2>3 DEF JournalInv
<1>13. FreshInv'
  BY <1>2, <1>8, <1>9 DEF FreshInv
<1>14. SizesInv'
  <2>1. \A d \in Imgs(data) : length <= d.size
    BY <1>1, <1>2, <1>3 DEF SizesInv, InSession
  <2> QED
    BY <1>1, <1>2, <1>7, <2>1 DEF SizesInv
<1> QED
  BY <1>6, <1>7, <1>8, <1>10, <1>12, <1>13, <1>14 DEF DiskInv

(* In a session, the parts together.                                       *)
LEMMA SessionDisk ==
    ASSUME SessionInv, DiskInv, InSession, InSession', SessionStep
    PROVE  DiskInv'
<1>1. Types /\ During /\ SizesInv /\ FreshInv /\ DataInv /\ JournalInv
  BY DEF SessionInv, DiskInv
<1>2. SizesInv' /\ FreshInv' /\ DataInv' /\ JournalInv'
  BY <1>1, SizesKept, FreshKept, DataInvKept, JournalInvKept
<1> QED
  BY <1>2 DEF DiskInv

(* In every reachable state the invariant of the disk holds, for programs  *)
(* that never open a store shorter than it was and that have one sort of   *)
(* failure: of killed processes or of the power, but any number of them,   *)
(* at any step, of acid_open too.                                          *)
THEOREM DiskIsSound ==
    ASSUME Grows(Programs), OneFailure(Programs)
    PROVE  Spec => []DiskInv
<1>1. Init => DiskInv
  BY InitDisk
<1>2. SessionInv /\ DiskInv /\ [Next]_vars => DiskInv'
  <2> SUFFICES ASSUME SessionInv, DiskInv, [Next]_vars
               PROVE  DiskInv'
    OBVIOUS
  <2>1. CASE UNCHANGED vars
    <3>1. /\ UNCHANGED <<data, journal, main, length, private, npages, sync, vec, program, stores,
                         snapshot, durable>>
      BY <2>1 DEF vars, files, memoryVars, commitVars, bounds, ghosts
    <3>2. UNCHANGED <<Imgs(data), Imgs(journal), Memory, Ids, Restored, Replays, InSession>>
      BY <3>1 DEF Imgs, Memory, Ids, Restored, Replays, InSession
    <3>3. UNCHANGED <<Gone, Lost>>
      BY <3>1, <3>2 DEF Gone, Lost
    <3>4. SizesInv <=> SizesInv'
      BY <3>1, <3>2 DEF SizesInv
    <3>5. FreshInv <=> FreshInv'
      BY <3>1, <3>2 DEF FreshInv
    <3>6. DataInv <=> DataInv'
      BY <3>1, <3>2 DEF DataInv, Listed
    <3>7. JournalInv <=> JournalInv'
      BY <3>1, <3>2, <3>3 DEF JournalInv, Useful
    <3>8. OpenInv <=> OpenInv'
      BY <3>1, <3>2, <3>3 DEF OpenInv, Listed
    <3> QED
      BY <3>2, <3>4, <3>5, <3>6, <3>7, <3>8 DEF DiskInv
  <2>2. CASE Next
    <3>1. CASE InSession /\ InSession' /\ SessionStep
      BY <3>1, SessionDisk
    <3>2. CASE OpenStep
      BY <3>2, OpenKept, ReplayKept, ReplaySyncKept, OpenTruncateKept, OpenResizeKept,
         OpenResizeSyncKept DEF OpenStep
    <3>3. CASE Map
      BY <3>3, MapKept
    <3>4. CASE InSession /\ CloseEnd
      BY <3>4, CloseKept
    <3>5. CASE Crash
      BY <3>5, CrashKept
    <3> QED
      BY <2>2, <3>1, <3>2, <3>3, <3>4, <3>5, StepCases
  <2> QED
    BY <2>1, <2>2
<1> QED
  BY <1>1, <1>2, SessionIsSound, PTL DEF Spec

(* Wherever it stops, and whatever of the unsynced writes is then on the   *)
(* disk, whole, torn or not, acid_open finds all pages of what is durable, *)
(* or all of the snapshot that was becoming so: never a mixture.           *)
THEOREM ReopenedIsWhole ==
    ASSUME Grows(Programs), OneFailure(Programs)
    PROVE  Spec => []CrashSafe
<1>1. SessionInv /\ DiskInv => CrashSafe
  <2> SUFFICES ASSUME SessionInv, DiskInv, NEW o \in Outcomes
               PROVE  Recovered(o[1], o[2]) \in {durable, snapshot}
    BY DEF CrashSafe
  <2>1. FileOK(data) /\ FileOK(journal)
    BY DEF SessionInv, Types, StoreTypes
  <2>2. o[1] \in Imgs(data) /\ o[2] \in Imgs(journal)
    <3>1. CASE o = <<data.now, journal.now>>
      BY <2>1, <3>1, ImgsAre
    <3>2. CASE "power" \in program.failures /\ o \in data.may \X journal.may
      BY <3>2 DEF Imgs
    <3> QED
      BY <3>1, <3>2 DEF Outcomes
  <2>3. Recovers(o[1], o[2])
    BY <2>2, AllRecover
  <2> QED
    BY <2>3 DEF Recovers
<1> QED
  BY <1>1, DiskIsSound, SessionIsSound, PTL

-----------------------------------------------------------------------------
(* An acid store is the store that is promised.                            *)

(* The journaled store implements the one that is promised, in which a     *)
(* snapshot becomes durable in one step and a crash takes the memory back  *)
(* to it.                                                                  *)
THEOREM StoreKeepsPromise ==
    ASSUME Grows(Programs), OneFailure(Programs)
    PROVE  Spec => ImplementsAcidStore
<1> DEFINE M == IF main \in {"mapped", "closing", "quit_kick", "exiting"} THEN Memory ELSE durable
<1>1. Init => Promise!Init
  BY DEF Init, Promise!Init, EmptyPages
<1>2. SessionInv /\ DiskInv /\ [Next]_vars => [Promise!Next]_(Promise!storeVars)
  <2> SUFFICES ASSUME SessionInv, DiskInv, [Next]_vars
               PROVE  Promise!Next \/ UNCHANGED Promise!storeVars
    OBVIOUS
  <2>1. /\ InSession => M = Memory
        /\ ~InSession => M = durable
        /\ InSession' => M' = Memory'
        /\ ~InSession' => M' = durable'
    BY DEF InSession
  <2>2. ASSUME M' = M, UNCHANGED <<snapshot, durable>>
        PROVE  UNCHANGED Promise!storeVars
    BY <2>2 DEF Promise!storeVars
  <2>3. ASSUME M' = durable, UNCHANGED <<snapshot, durable>>
        PROVE  Promise!Next
    BY <2>3 DEF Promise!Next, Promise!Crash
  <2>4. ASSUME durable = snapshot, snapshot' = M, M' = M, durable' = durable
        PROVE  Promise!Next
    BY <2>4 DEF Promise!Next, Promise!TakeSnapshot
  <2>5. ASSUME durable' = snapshot, M' = M, snapshot' = snapshot
        PROVE  Promise!Next
    BY <2>5 DEF Promise!Next, Promise!Commit
  <2>6. ASSUME M = durable, durable' \in {durable, snapshot}, M' = durable', snapshot' = durable'
        PROVE  Promise!Next
    BY <2>6 DEF Promise!Next, Promise!Recover
  <2>7. ASSUME NEW p \in Pages, M' = [M EXCEPT ![p] = M'[p]], \A q \in Pages : M'[p] > M[q],
               UNCHANGED <<snapshot, durable>>
        PROVE  Promise!Next
    BY <2>7 DEF Promise!Next, Promise!Store
  <2> HIDE DEF M
  <2>8. CASE UNCHANGED vars
    <3>1. UNCHANGED <<data, main, private, snapshot, durable>>
      BY <2>8 DEF vars, files, memoryVars, ghosts
    <3>2. UNCHANGED <<Memory, InSession>>
      BY <3>1 DEF Memory, InSession
    <3> QED
      BY <2>1, <2>2, <3>1, <3>2
  <2>9. CASE InSession /\ InSession' /\ SessionStep
    <3>1. Types /\ During
      BY <2>9 DEF SessionInv
    <3>2. M = Memory /\ M' = Memory'
      BY <2>1, <2>9
    <3>3. CASE \E p \in dirty : Store(p) /\ Memory' = [Memory EXCEPT ![p] = stores + 1]
      <4>1. PICK p \in dirty : Store(p) /\ Memory' = [Memory EXCEPT ![p] = stores + 1]
        BY <3>3
      <4>2. p \in Pages /\ stores \in Nat /\ Memory \in [Pages -> Val]
        BY <3>1, MemoryIs, ProgramIs DEF Types, PageTypes, MainTypes, StoreTypes
      <4>3. Memory'[p] = stores + 1
        BY <4>1, <4>2
      <4>4. \A q \in Pages : stores + 1 > Memory[q]
        <5>1. \A q \in Pages : Memory[q] \in Int /\ Memory[q] <= stores
          BY <4>2 DEF Val, Torn
        <5> QED
          BY <4>2, <5>1
      <4>5. UNCHANGED <<snapshot, durable>>
        BY <4>1, <4>2, MemoryLeaves DEF MemoryStep
      <4> QED
        BY <2>7, <3>2, <4>1, <4>2, <4>3, <4>4, <4>5
    <3>4. CASE Memory' = Memory
      <4>1. CASE durable = snapshot /\ snapshot' = Memory /\ durable' = durable
        BY <2>4, <3>2, <3>4, <4>1
      <4>2. CASE snapshot' = snapshot /\ durable' = snapshot
        BY <2>5, <3>2, <3>4, <4>2
      <4>3. CASE snapshot' = snapshot /\ durable' = durable
        BY <2>2, <3>2, <3>4, <4>3
      <4> QED
        BY <2>9, <3>1, <4>1, <4>2, <4>3, PhaseSteps
    <3> QED
      BY <2>9, <3>1, <3>3, <3>4, MemorySteps
  <2>10. CASE ~InSession /\ ~InSession' /\ OpenStep
    <3>1. FreshInv
      BY DEF DiskInv
    <3>2. UNCHANGED <<snapshot, durable>>
      BY <2>10, <3>1, OpenLeaves
    <3> QED
      BY <2>1, <2>2, <2>10, <3>2
  <2>11. CASE ~InSession /\ InSession' /\ Map
    <3>1. /\ durable' = Memory /\ snapshot' = Memory
      BY <2>11 DEF Map
    <3>2. /\ Memory = Restored /\ Memory' = Memory /\ Restored \in {durable, snapshot}
      BY <2>11, MapKept
    <3> QED
      BY <2>1, <2>6, <2>11, <3>1, <3>2
  <2>12. CASE ~InSession' /\ (CloseEnd \/ Crash)
    <3>1. UNCHANGED <<snapshot, durable>>
      BY <2>12 DEF CloseEnd, Crash, ghosts
    <3> QED
      BY <2>1, <2>3, <2>12, <3>1
  <2> QED
    BY <2>8, <2>9, <2>10, <2>11, <2>12, StepCases
<1> QED
  BY <1>1, <1>2, DiskIsSound, SessionIsSound, PTL DEF Spec, ImplementsAcidStore, Promise!Spec
=============================================================================
