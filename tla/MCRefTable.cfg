SPECIFICATION Spec
CONSTANTS
    Objects = {o1, o2, o3, o4}
    v1 = v1
    Values <- MCValues
    Nil = Nil
    None = None
    MaxRef = 4
INVARIANTS RefsExclusive NoKeyLost
PROPERTIES ImplementsCells
