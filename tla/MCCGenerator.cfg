CONSTANTS
  Programs <- MCPrograms
  NodesOf <- MCNodesOf
  MaxLambdas = 16
  MaxArgs = 4
  IntMax = 127
  Texts <- MCTexts
SPECIFICATION FairSpec
INVARIANTS
  TypeOK
  TablesLargeEnough
  BindingsFit
  UnboundExactly
  LayoutSound
  OutputWhole
  OutputAsExpected
PROPERTIES
  Terminates
