CONSTANTS
  MaxDepth = 3
  MaxMembers = 2
  Scalars <- MCScalars
  Pointer <- MCPointer
  Counts = {3}
  MaxTypes = 6
  MaxFields = 3
  Initializers <- MCInitializers
  Contents <- MCContents
  Types <- MCConverted
  Nesting <- MCNesting
  ParamLists = {1, 4, 6}
SPECIFICATION Spec
INVARIANTS DeclaresAsWritten TypedefsStay NamesReadBack LayoutAsInC
           ConversionsFit ValuesReturn InitializersShow InitializersStayInside
\* a sample is derived to its full depth
CHECK_DEADLOCK FALSE
