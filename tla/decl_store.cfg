CONSTANTS
  RecTags = {S}
  EnumTags = {E}
  Idents = {x}
  MaxObj = 2
  MaxDepth = 3
SPECIFICATION Spec
INVARIANTS TypeOK StoresAgree AnonFresh
PROPERTIES FirstDefinitionStays
