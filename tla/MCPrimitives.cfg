CONSTANTS
  Codes <- MCPrimitives
  StackSize = 4
  MaxArgs = 4
  IntMax = 127
  Addresses <- MCAddresses
  Texts <- MCTexts
  Decimal <- MCDecimal
SPECIFICATION Spec
PROPERTIES
  PrimitivesExact
  ObjectsAreTrue
