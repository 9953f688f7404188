SPECIFICATION Spec
CONSTANTS
    Threads = {main, t1, t2}
    Main = main
    States = {s1, s2}
    Wrappers = {w1}
    Uses <- PlainAndMore
    MaxDepth = 4
SYMMETRY Symmetry
CHECK_DEADLOCK FALSE
INVARIANTS OneInLuaByCalls NoDeadlockByCalls JavaSerialized
