SPECIFICATION Spec
CONSTANTS
  NumBlocks = 3
  MaxRestarts = 1
  Space = {imp, own}
  Imported = {imp}
  ImportedSpace = imp
  NameOf <- MCNameOf
  MaxSpaces = 5
  MaxPolls = 2
INVARIANTS TypeOK BufferIsInOrder CompleteIsWhole VisibleImportIsWhole DoneIsUsable
CHECK_DEADLOCK FALSE
