CONSTANTS
  Sources <- MCSources
  ChunkBufferSize = 3
  IntMax = 127
SPECIFICATION FairSpec
INVARIANTS
  TypeOK
  TokensOfText
  StopsForAReason
PROPERTIES
  LexerEnds
