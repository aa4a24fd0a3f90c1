SPECIFICATION FairSpec
CONSTANTS
  a = a
  b = b
  c = c
  r = r
  t = t
  i1 = i1
  i2 = i2
  i3 = i3
  i4 = i4
  i5 = i5
  NoFile = NoFile
  Nothing = Nothing
  Names <- MCNames
  ResultsFile = r
  Temporaries = {t}
  Inodes <- MCInodes
  Contents <- MCContents
  Empty = ""
  Reports = {"report"}
  Size <- MCSize
  Rank <- MCRank
  OptionSets <- MCOptions
  FileSystems <- MCFileSystems
  Disks <- MCDisks
  MaxFailures = 1
  MaxEdits = 1
INVARIANTS TypeOK SavesWhatIsAnnounced
PROPERTIES KeepsItsPromise RunningAgainSolvesIt
