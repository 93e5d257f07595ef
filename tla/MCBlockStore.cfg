SPECIFICATION FairSpec
CONSTANTS
  n1 = n1
  n4 = n4
  Node = {n1, n2, n3, n4}
  Self = n1
  MaxTerm = 1
  MaxCrash = 1
  None = None
  Inboxes <- BothInboxes
INVARIANTS TypeOK QuorumBehind CommitHasVotie
PROPERTIES AllReceivedIsResolved AccusesAreResolved
CHECK_DEADLOCK FALSE
