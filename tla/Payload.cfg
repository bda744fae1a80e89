CONSTANTS
  Base = 4
  Width = 2
  Half = 1
  Size = 4
  Padding = 1
  Published <- Mixed
  MaxWaiting = 1
SPECIFICATION Spec
INVARIANTS
  TypeOK
  NumbersExact
  StringsFollowed
  EnoughIsSent
