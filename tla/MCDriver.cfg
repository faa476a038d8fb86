CONSTANTS
  Sources <- MCSources
  ChunkBufferSize = 16
  NodesOf <- MCNodesOf
  MaxLambdas = 16
  StackSize = 64
  MaxArgs = 4
  IntMax = 127
  Addresses <- MCAddresses
  Texts <- MCTexts
  Decimal <- MCDecimal
SPECIFICATION FairSpec
INVARIANTS
  PrintsAsWritten
  OutputIsC
  MisfitShown
PROPERTIES
  Answers
