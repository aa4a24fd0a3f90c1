SPECIFICATION FairSpec
CONSTANTS
  Entries <- MCEntries
  Parent <- MCParent
  FileSystems <- MCFileSystems
  Size <- MCSize
  ArgumentLists <- MCArgumentLists
  OptionSets <- MCOptionSets
  NameLess <- MCNameLess
  MaxDepth = 2
  MaxFailures = 1
  MaxTouched = 1
INVARIANTS TypeOK EveryFileIsFound OnlyFilesAskedFor ListIsInScanOrder
PROPERTY Termination
