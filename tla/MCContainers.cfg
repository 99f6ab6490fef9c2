SPECIFICATION MCSpec
CONSTANTS
    Keys <- MCKeys
    Nil = Nil
    o1 = o1
    o2 = o2
INVARIANTS
    RedBlack
    IterationMatches
    SequencesMatch
    TablesMatch
