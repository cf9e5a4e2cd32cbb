SPECIFICATION FairSpec
CONSTANTS
  Names = {f, g}
  NoName = NoName
  MAX_FILE_NUM = 2
  NUM_BLOCKS = 3
  BLOCK_SIZE = 2
  MAX_DATA = 5
CONSTRAINT Named
INVARIANTS
  ChainIntegrity
  NoLostBlocks
  ReadInBounds
PROPERTIES
  ImplementsStore
  CommandTerminates
