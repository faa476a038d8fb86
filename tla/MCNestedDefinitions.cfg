CONSTANTS
  Programs <- MCNested
  NodesOf <- MCNodesOf
  MaxLambdas = 16
  MaxArgs = 4
  IntMax = 127
  Texts <- MCTexts
SPECIFICATION Spec
INVARIANTS
  DefinitionAddsBinding
