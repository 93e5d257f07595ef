SPECIFICATION Spec
CONSTANTS
  n1 = n1
  n4 = n4
  Node = {n1, n2, n3, n4, n5, n6, n7}
  Self = n1
  MaxTerm = 0
  MaxCrash = 0
  None = None
  Inboxes <- OneInbox
SYMMETRY Symmetric
INVARIANT IgnoredWhenPrepared
CHECK_DEADLOCK FALSE
