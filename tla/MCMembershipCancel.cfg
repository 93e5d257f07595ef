SPECIFICATION FairSpec
CONSTANTS
  N = 3
  Joiners = {}
  Leavers = {2}
  Guides = {}
  Lossy = {}
  JoinTimed = {}
  LeaveTimed = {0, 1}
  Syncers = {}
  Crashers = {}
  MaxHeight = 1
  MaxTerm = 3
  MaxCrash = 0
  None = None
PROPERTY RequestsAreSettled
CHECK_DEADLOCK FALSE
