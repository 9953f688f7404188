SPECIFICATION Spec
CONSTANTS
    o1 = o1 o2 = o2 o3 = o3
    Objects = {o1, o2, o3}
    Main = Main Nil = Nil
    Plans <- MCPlans
    MaxStack = 2
INVARIANTS Safe TriColour RefsLiveByUse ReleasedOnce
CHECK_DEADLOCK FALSE
