CONSTANTS
  IntBits = 3
  LongBits = 4
  LLongBits = 4
  CharBits = 2
  PtrBits = 4
  CharSigned = TRUE
  Given <- MCGiven
SPECIFICATION CallSpec
INVARIANTS PointersMoveAsInC
\* a program does not go on after undefined behaviour
CHECK_DEADLOCK FALSE
