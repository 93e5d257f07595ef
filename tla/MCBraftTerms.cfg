SPECIFICATION SpecAtTerm1
CONSTANTS
  n1 = n1
  n2 = n2
  n3 = n3
  n4 = n4
  None = None
  p1 = p1
  p2 = p2
  Payload = {p1, p2}
  MaxHeight = 1
  MaxTerm = 2
  Node = {n1, n2, n3, n4}
  Crashers = {}
  Syncers = {}
  NodeList <- MCNodeList
  Block <- FirstBlocks
  Genesis <- MCGenesis
  PrevBlockId <- MCPrevBlockId
  Height <- MCHeight
PROPERTY ImplementsLedger
CHECK_DEADLOCK FALSE
