\* Ranges of seventeen elements, past the insertion sort of quick_sort.
SPECIFICATION LongRangesSpec
CONSTANTS
    i1 = i1  i2 = i2  i3 = i3  i4 = i4  i5 = i5
    Ids <- MCIds
    Times <- MCTimes
    Capacity = 5
    OutMax = 2
    Never = 3
    MaxRange = 17
    MaxText = 0
    MaxSample = 0
    MaxNodes = 0
    MaxDirected = 0
    MaxUndirected = 0
INVARIANTS
    SortSorts
CHECK_DEADLOCK FALSE
