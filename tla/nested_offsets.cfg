CONSTANTS
  Scalars <- MCScalars
  Pointer <- MCPointer
  Counts = {3}
  MaxTypes = 6
  MaxFields = 3
SPECIFICATION RecordSpec
INVARIANTS TransparentMembers
CHECK_DEADLOCK FALSE
