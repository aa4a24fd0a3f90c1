SPECIFICATION Spec
CONSTANTS
  f1 = f1
  f2 = f2
  f3 = f3
  Files <- MCThreeFiles
  Inodes <- MCInodes
  Contents <- MCSameLastBytes
  CmdlineIndexes = {1}
  Depths = {0}
  OptionSets <- MCTwoStages
  Digest <- MCDigest
  ReadsMayFail = TRUE
  MaxTouched = 0
SYMMETRY MCSymmetry
INVARIANTS OnlyEqualFilesRemain
