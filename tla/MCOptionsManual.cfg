SPECIFICATION Spec
CONSTANTS
  CommandLines <- MCCommandLines
  DashWords <- MCDashWords
  NumberIn <- MCNumberIn
  NotANumber = NotANumber
  MaxFileSize = 2147483647
  HaveXxhash = FALSE
  Stripped <- MCStripped
INVARIANTS IgnoreEmptyIsAMinsize
