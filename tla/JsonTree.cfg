SPECIFICATION Spec
CONSTANTS
    Item = {i1, i2, i3, i4}
    NULL = NULL
    Str = {s1}
    Key = {"ip"}
    Val = {"x"}
    Fold <- MCFold
    Kind = {"String", "Object"}
    MaxHeld = 2
    MaxRef = 1
SYMMETRY MCHeapSymmetry
INVARIANTS
    WellLinked
    MemorySafe
    NoLeak
    
    EditsAtIndex
PROPERTIES
    ImplementsLists
