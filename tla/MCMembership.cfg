SPECIFICATION Spec
CONSTANTS
  N = 3
  Joiners = {9}
  Leavers = {2}
  Guides = {1}
  Lossy = {2}
  JoinTimed = {2}
  LeaveTimed = {1}
  Syncers = {0}
  Crashers = {0}
  MaxHeight = 2
  MaxTerm = 3
  MaxCrash = 1
  None = None
VIEW WithoutVotie
INVARIANTS TypeOK SizesFitList PeersFitList QuorumsOverlap KnowsFormer
CHECK_DEADLOCK FALSE
