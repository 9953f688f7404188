CONSTANTS MaxIndexRK = 3
 FieldsPerFlush = 2
 MaxArgC = 2
 MaxStack = 50
 StackSize = 60
 MaxTagLoop = 5
 Programs <- MCPrograms
 Compiler <- MCCompiler
 Loader <- MCLoader
 Machine <- MCMachine
 Reference <- MCReference
SPECIFICATION Spec
INVARIANTS RunsAsWritten CodeChecked FramesKept
CHECK_DEADLOCK FALSE
