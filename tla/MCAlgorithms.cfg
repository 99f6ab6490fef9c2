SPECIFICATION MCSpec
CONSTANTS
    i1 = i1  i2 = i2  i3 = i3  i4 = i4  i5 = i5
    Ids <- MCIds
    Times <- MCTimes
    Capacity = 5
    OutMax = 2
    Never = 3
    MaxRange = 6
    MaxText = 5
    MaxSample = 5
    MaxNodes = 3
    MaxDirected = 3
    MaxUndirected = 5
SYMMETRY IdSymmetry
INVARIANTS
    HeapOrder
    TopIsEarliest
    PopMatchesStore
    
    
    
    
CHECK_DEADLOCK FALSE
