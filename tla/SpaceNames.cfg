SPECIFICATION Spec
CONSTANTS
  NumBlocks = 1
  MaxRestarts = 0
  Space = {imp, own}
  Imported = {imp}
  ImportedSpace = imp
  NameOf <- MCNameOf
  MaxSpaces = 5
  MaxPolls = 0
INVARIANT NamesAreUnique
CHECK_DEADLOCK FALSE
