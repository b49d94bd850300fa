------------------------------- MODULE VMAlloc -------------------------------
(***************************************************************************)
(* What the virtual memory allocator promises its callers, include/vm.h:   *)
(* a chunk is memory nobody else has been given, from the moment it is     *)
(* reserved to the moment it is given back; a reallocation exchanges a     *)
(* chunk for another, or a part of it, of the size that was asked for.     *)
(***************************************************************************)
EXTENDS VMChunk, FiniteSets, Functions

CONSTANTS Lines,          (* the lines of the address space                 *)
          MaxClass        (* the largest class                              *)

VARIABLE held             (* the class of each chunk that is held, by the   *)
                          (* first of its lines                             *)

\* The lines of the chunks of a function from addresses to classes.
Covered(chunks) == UNION {Span(a, chunks[a]) : a \in DOMAIN chunks}

Init == held = [a \in {} |-> 0]

Without(a) == Restrict(held, DOMAIN held \ {a})

\* The chunk [a, c] is given to somebody, and "kept" is what was held besides.
Grant(kept, a, c) ==
    /\ Span(a, c) \cap Covered(kept) = {}
    /\ held' = [b \in DOMAIN kept \cup {a} |-> IF b = a THEN c ELSE kept[b]]

Reserve == \E a \in 0 .. Lines - 1, c \in 1 .. MaxClass : Grant(held, a, c)

Unreserve == \E a \in DOMAIN held : held' = Without(a)

Exchange ==
    \E b \in DOMAIN held, a \in 0 .. Lines - 1, c \in 1 .. MaxClass :
        /\ c # held[b]
        /\ Grant(Without(b), a, c)
        /\ a # b => Span(a, c) \cap Span(b, held[b]) = {}

Next == Reserve \/ Unreserve \/ Exchange

Spec == Init /\ [][Next]_held
==============================================================================
