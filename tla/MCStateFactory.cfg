SPECIFICATION Spec
CONSTANTS
    Wrappers = {w1, w2, w3, w4, w5}
    Ptrs = {p1, p2, p3}
    Null = Null
    Shifting = FALSE
    Coroutines = TRUE
SYMMETRY Symmetry
CHECK_DEADLOCK FALSE
INVARIANTS RightState ThreadsAdopted IdsInRange
