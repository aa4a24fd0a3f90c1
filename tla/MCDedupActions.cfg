SPECIFICATION Spec
CONSTANTS
  a = a
  b = b
  c = c
  x = x
  i1 = i1
  i2 = i2
  i3 = i3
  i4 = i4
  NoEntry = NoEntry
  Dirents <- MCDirents
  Inodes <- MCInodes
  Content <- MCContent
  Lists <- MCLists
  OptionSets <- MCActionOptions
  RelativeNames = {a, b}
  OutsideCwd = {c}
  CwdIsLong = FALSE
  LinksAreRelative = TRUE
  SyscallsMayFail = TRUE
  CrashesMayHappen = TRUE
  MaxRemovals = 1
SYMMETRY MCSymmetry
INVARIANTS TypeOK OriginalsStayReadable OthersStayReadable AllOrNothing AllIsDone
PROPERTY HardlinksKeepContents
