\* Programs with two states: two promises and two futures; two promises, a
\* future and a shared future; a promise, a future and two shared futures.
\* The properties hold up to the first fault, where the program stops.
SPECIFICATION FairSpec
CONSTANTS
    Null = Null
    None = None
    Promises = {p1, p2}
    Futures = {f1, f2}
    Shareds = {s1, s2}
    Programs = {{p1, p2, f1, f2}, {p1, p2, f1, s1}, {p1, f1, s1, s2}}
    States = {x1, x2}
INVARIANTS
    
    SharedKeepAlive
PROPERTIES
    ResultIsFinal
    WaitersReturn
CHECK_DEADLOCK FALSE
