SPECIFICATION Spec
CONSTANTS
  N = 4
  Joiners = {9}
  Leavers = {}
  Guides = {0}
  Lossy = {}
  JoinTimed = {}
  LeaveTimed = {}
  Syncers = {9}
  Crashers = {}
  MaxHeight = 1
  MaxTerm = 0
  MaxCrash = 0
  None = None
INVARIANT VotesElect
CHECK_DEADLOCK FALSE
