SPECIFICATION Spec
CONSTANTS
  N = 4
  Dead = {0}
  AccuseInterval = 90
  AccuseAvailable = 30
  Tolerance = 30
  MaxTolerance = 90
  StartPause = 10
  Pauses = {0, 18, 36, 54, 72, 90}
  Tolerances = {30, 60, 90}
  ElectionTime = 30
  TxAccusers = {1, 2, 3}
  TxInterval = 5
  MaxOutage = 180
  None = None
INVARIANTS TypeOK OutageEnds LiveLeaderStays
CHECK_DEADLOCK FALSE
