CONSTANTS
  Programs <- MCPrograms
  NodesOf <- MCNodesOf
  MaxLambdas = 16
  StackSize = 64
  MaxArgs = 4
  IntMax = 127
  Addresses <- MCAddresses
  Texts <- MCTexts
  Decimal <- MCDecimal
  Content <- MCContent
SPECIFICATION Spec
INVARIANTS
  MeaningPreserved
  MeaningfulRuns
