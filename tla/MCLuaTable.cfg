CONSTANTS
  Numbers <- Ints
  Strings = {"a", "__newindex"}
  Events = {"__newindex"}
  HashOf <- Hashes
  Sizes = {0, 1, 2}
SPECIFICATION Spec
INVARIANTS FindsStored VisitsEach LengthIsBorder AbsentRemembered
