SPECIFICATION FairSpec
CONSTANTS
    Objects = {o1, o2, o3}
    Values <- MCValues
    Nil = Nil
    None = None
    MaxRef = 3
    Workers = {w1, w2}
    Callers = {}
    Finalizer = fin
    Names = {g}
    Nobody = Nobody
    MaxArgs = 2
    MaxErrors = 1
CHECK_DEADLOCK FALSE
INVARIANTS ObjectsRight
PROPERTIES MethodsReturn DroppedReleased
