SPECIFICATION MCSpec
CONSTANTS
    nodeA = nodeA  nodeB = nodeB
    r1 = r1  r2 = r2  observer = observer
    nextA = nextA  nextB = nextB  prevA = prevA  prevB = prevB
    Variables = {v1, v2}  Arrays = {x1, x2}  Nodes = {n1, n2}  Blocks = {k}
    Deleters = {plain, arena}  DefaultDelete = plain
    Wrappers = {h1, h2}  Values = {1, 2}
    MAX_DEPTH = 3  TextSize = 3  Reasons = {1}
    Threads = {t1, t2}  LineSize = 4  RingSize = 5  MaxSinks = 2  MaxRecords = 2
    Messages <- MCMessages
    FLUSH_SIZE = 2  MaxFile = 5
    Null = Null
    Objects <- MCObjects
    StrongSlots <- MCStrong
    WeakSlots <- MCWeak
    MembersOf <- MCMembersOf
INVARIANTS
    CountsMatch
    NoDangling
    OnlyCyclesLeak
    OwnersMatch
    
CHECK_DEADLOCK FALSE
