CONSTANTS
  Sources <- MCSources
  MaxChunkSize = 3
  MaxStringSize = 2
  IntMax = 11
SPECIFICATION Spec
INVARIANTS
  NodesOfText
  ListsOnly
  StopsForTheSameReasons
