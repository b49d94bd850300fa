CONSTANTS
    MaxHeap = 4
    MaxAlloc = 3
    MaxDepth = 4
    EscapesOuter = FALSE
SPECIFICATION Spec
INVARIANT HeapsOwnedOnce
INVARIANT EndsInOrder
