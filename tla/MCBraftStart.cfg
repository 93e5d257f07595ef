SPECIFICATION Spec
CONSTANTS
  n1 = n1
  n2 = n2
  n3 = n3
  n4 = n4
  None = None
  Payload = {p1, p2}
  MaxHeight = 1
  MaxTerm = 1
  Node = {n1, n2, n3, n4}
  Crashers = {n1}
  Syncers = {n2}
  NodeList <- MCNodeList
  Block <- MCBlock
  Genesis <- MCGenesis
  PrevBlockId <- MCPrevBlockId
  Height <- MCHeight
SYMMETRY Symmetric
INVARIANTS TypeOK CommittedIsChosen OneBlockPerTermHeight VoteCoversCommits Agreement
CHECK_DEADLOCK FALSE
