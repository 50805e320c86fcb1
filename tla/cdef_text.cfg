CONSTANTS
  IntBits = 3
  LongBits = 4
  LLongBits = 4
  CharBits = 2
  PtrBits = 4
  CharSigned = TRUE
  Keyword = {}
  MaxText = 5
  MaxTokens = 5
  Operands <- MCOperands
  MaxTerms = 3
  MaxEnumerators = 2
  Given <- MCGiven
SPECIFICATION Spec
INVARIANTS ParsesLikeC CommentsLikeC LiteralsLikeC
           EvaluatesLikeC ConstantsKeepValues BoxedArithmetic 
\* a sample is read to its end; a program stops after undefined behaviour
CHECK_DEADLOCK FALSE
