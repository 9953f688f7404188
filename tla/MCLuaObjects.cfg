SPECIFICATION Spec
CONSTANTS
    Objects = {o1, o2}
    Values <- MCValues
    Nil = Nil
    None = None
    MaxRef = 2
    Workers = {w1, w2}
    Callers = {c1}
    Finalizer = fin
    Names = {g}
    Nobody = Nobody
    MaxArgs = 2
    MaxErrors = 1
CHECK_DEADLOCK FALSE
INVARIANTS StackFramed LeftoversExact ObjectsRight
PROPERTIES NothingAfterFree
