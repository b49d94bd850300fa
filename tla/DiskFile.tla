------------------------------ MODULE DiskFile ------------------------------
(***************************************************************************)
(* The kernel's files, as src/acid.c uses them: an optional index block    *)
(* and pages 1..size, written to the cache with pwrite and ftruncate, and  *)
(* durable once fsync returns.  What was not synced is on the disk, is not *)
(* yet, or is torn, each block for itself.  What is done to its size comes *)
(* to the disk in order, and a page that was cut off is not used again     *)
(* before that is durable.                                                 *)
(*                                                                         *)
(* A file holds its image now, and the images that the disk may hold; only *)
(* the first pages of such an image, kept, still are pages of the file.    *)
(* Blank is an index that makes no sense, Torn a page that does not.       *)
(***************************************************************************)
EXTENDS Integers

CONSTANT Pages            (* the pages a file may have, 1..n                *)

Blank == [ids |-> <<>>, hash |-> <<>>]
Torn == -1

EmptyPages == [p \in Pages |-> 0]

\* The file of which an image is all there is, and durable.
Durable(image) ==
    LET here == [image EXCEPT !.kept = image.size] IN [now |-> here, may |-> {here}]

NewFile(n) == Durable([size |-> n, kept |-> n, index |-> Blank, page |-> EmptyPages])

\* What is written may have come to the disk, whole or torn.
WriteIndex(file, ix) ==
    LET Put(image, i) == [image EXCEPT !.index = i]
    IN [now |-> Put(file.now, ix),
        may |-> UNION {{image, Put(image, ix), Put(image, Blank)} : image \in file.may}]

WritePage(file, p, v) ==
    LET Put(image, w) == IF p <= image.kept THEN [image EXCEPT !.page[p] = w] ELSE image
    IN [now |-> Put(file.now, v),
        may |-> UNION {{image, Put(image, v), Put(image, Torn)} : image \in file.may}]

\* Pages that are cut off, and pages that are added, are zero.
Truncate(file, n) ==
    LET current == {image \in file.may : {image.size, image.kept} = {file.now.size}}
        Cut(image) == [image EXCEPT !.size = n, !.kept = n,
                                    !.page = [p \in Pages |-> IF p <= n THEN @[p] ELSE 0]]
        Old(image) == [image EXCEPT !.kept = IF n < @ THEN n ELSE @]
    IN [now |-> Cut(file.now),
        may |-> {Cut(image) : image \in current} \union {Old(image) : image \in file.may}]

Sync(file) == Durable(file.now)
=============================================================================
