\* A promise and its future, both destroyed by their owners.
SPECIFICATION Spec
CONSTANTS
    Null = Null
    None = None
    Promises = {p1, p2}
    Futures = {f1, f2}
    Shareds = {s1, s2}
    Programs = {{p1, p2, f1, f2}, {p1, p2, f1, s1}, {p1, f1, s1, s2}}
    States = {x1, x2}
INVARIANTS
    NoUseAfterFree
CHECK_DEADLOCK FALSE
