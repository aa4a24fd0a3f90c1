SPECIFICATION Spec
CONSTANTS
  a = a
  b = b
  c = c
  x = x
  i1 = i1
  i2 = i2
  i3 = i3
  i4 = i4
  NoEntry = NoEntry
  Dirents <- MCDirents
  Inodes <- MCInodes
  Content <- MCContent
  Lists <- MCSameTwice
  OptionSets <- MCNotCollapsed
  RelativeNames = {}
  OutsideCwd = {}
  CwdIsLong = FALSE
  LinksAreRelative = FALSE
  SyscallsMayFail = FALSE
  CrashesMayHappen = FALSE
  MaxRemovals = 0
INVARIANTS OriginalsStayReadable
