SPECIFICATION Spec
CONSTANTS
  Names = {f, g}
  NoName = NoName
  MAX_FILE_NUM = 2
  NUM_BLOCKS = 3
  BLOCK_SIZE = 2
  MAX_DATA = 3
INVARIANT FreeMeansNotUsed
