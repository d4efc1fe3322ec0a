SPECIFICATION Spec
CONSTANTS
  NumBlocks = 2
  MaxRestarts = 0
  Space = {imp}
  Imported = {imp}
  ImportedSpace = imp
  NameOf <- MCNameOf
  MaxSpaces = 5
  MaxPolls = 1
INVARIANT ImportIsWhole
CHECK_DEADLOCK FALSE
