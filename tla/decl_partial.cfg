CONSTANTS
  RecTags = {S}
  EnumTags = {}
  Idents = {x}
  MaxObj = 3
  MaxDepth = 1
SPECIFICATION Spec
PROPERTIES NoPartialDeclarations
