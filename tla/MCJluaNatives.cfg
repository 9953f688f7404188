SPECIFICATION NativeSpec
CONSTANTS
    Cap = 10
    TabIds = {1, 2, 3, 4, 5, 6, 7, 8}
    Boxes = {11, 12, 13, 14, 15, 16}
    Keys <- MCKeys
    Numbers = {0, 1, 2, 3}
    MinStack = 8
    MaxTagLoop = 3
    JavaValues <- MCJavaValues
    Names = {"a", "f"}
    Scripts <- MCScripts
    Starts <- MCStarts
    MaxArgs = 2
    MaxSteps = 1
    Methods <- MCMethods
    Refused = {"forbidden"}
    JintRange = 8
INVARIANTS LooksOnly
PROPERTIES SlotsAreSequence FacadeKeepsStack FacadeMeans StringsReleased JavaSeenFromLua ThrownIsRaised ThroughJava
CHECK_DEADLOCK FALSE
