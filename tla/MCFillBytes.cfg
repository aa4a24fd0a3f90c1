SPECIFICATION FairSpec
CONSTANTS
  g1 = g1
  g2 = g2
  Files <- MCFiles
  Inodes <- MCInodes
  Contents <- MCContents
  CmdlineIndexes = {1}
  Depths = {0}
  OptionSets <- MCOptions
  ReadsMayFail = TRUE
  MaxTouched = 1
  BufferSize = 2
  Hash <- MCHash
  HashBound = 128
INVARIANTS TypeOK ChecksumHasSeenTheBytesRead
PROPERTIES ImplementsRdutil Termination
