CONSTANTS
  Texts <- MCTexts
SPECIFICATION Spec
INVARIANTS
  TypeOK
  TreeOfText
  AcceptedExactly
  CallOfProgram
  BlamesFirstMisfit
