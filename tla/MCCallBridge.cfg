SPECIFICATION Spec
CONSTANTS
    Exceptions = {e1, e2}
    Main = main
    Coroutines = {co1, co2}
    MaxDepth = 7
    Uses <- MCUses
INVARIANTS ErrorsBecomeExceptionsByCalls ResumedOnce
PROPERTIES ImplementsNested
