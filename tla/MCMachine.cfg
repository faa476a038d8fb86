CONSTANTS
  Codes <- MCPrograms
  StackSize = 96
  MaxArgs = 4
  IntMax = 127
  Addresses <- MCAddresses
  Texts <- MCTexts
  Decimal <- MCDecimal
SPECIFICATION FairSpec
INVARIANTS
  TypeOK
  LexicalScope
  ClosuresKeepScope
  OwnEnvironment
  ScanOnPath
  FrameChain
  DepthKept
  NoFrameFault
PROPERTIES
  ReturnRestoresCaller
  CallersUntouched
  Halts
  ImplementsActivations
