SPECIFICATION MCSpec
CONSTANTS
  f1 = f1
  f2 = f2
  f3 = f3
  Files <- MCThreeFiles
  Inodes <- MCInodes
  Contents <- MCPipelineContents
  CmdlineIndexes = {1, 2}
  Depths = {0, 1}
  OptionSets <- MCPipelineOptions
  Digest <- MCDigest
  ReadsMayFail = TRUE
  MaxTouched = 1
INVARIANTS
  TypeOK
  ListIsReadyToMark
  BuffersHoldTheirSlice
  DuplicatesAreEqual
  OriginalIsHighestRanked
  OriginalLeadsItsGroup
  EqualFilesAreFound
