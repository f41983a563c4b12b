SPECIFICATION Spec
CONSTANTS
  Base = 4
  MaxLen = 6
  AddressSums <- MCAddressSums
  NextHeader = 1
INVARIANTS TypeOK NoOverflow ChecksumCompletes OneZero FoldsTwice
CHECK_DEADLOCK FALSE
