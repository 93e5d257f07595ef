SPECIFICATION Spec
CONSTANTS
  MaxTerm = 2
  MaxHeight = 1
  None = None
INVARIANTS TypeOK VoteCoversCommits SleepsOnlyWithoutNeed
PROPERTY KeepsVoting
CHECK_DEADLOCK FALSE
