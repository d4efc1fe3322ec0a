SPECIFICATION FairSpec
CONSTANTS
  Gadget = {g, h}
  Hash = {x, y}
  FirstHash = x
  MaxEdits = 2
  MaxSaves = 2
  MaxFailures = 1
  MaxNavigations = 2
INVARIANTS TypeOK UnsavedIsOnTheList SavingIsTrue
PROPERTIES GoingOnLosesNothing LastNavigationGoesOn WaitingEnds
CHECK_DEADLOCK FALSE
