SPECIFICATION SpecAtHeight1
CONSTANTS
  n1 = n1
  n2 = n2
  n3 = n3
  n4 = n4
  None = None
  p1 = p1
  p2 = p2
  Payload = {p1, p2}
  MaxHeight = 2
  MaxTerm = 1
  Node = {n1, n2, n3, n4}
  Crashers = {}
  Syncers = {n1}
  NodeList <- MCNodeList
  Block <- SecondBlocks
  Genesis <- MCGenesis
  PrevBlockId <- MCPrevBlockId
  Height <- MCHeight
INVARIANT ChosenIsKept
PROPERTY TakesLedgerSteps
CHECK_DEADLOCK FALSE
