SPECIFICATION SpecSent
CONSTANTS
  N = 4
  MaxTerm = 0
  MaxNewly = 2
  MaxCrash = 0
  MaxEvents = 2
  MaxSigning = 1
  Receivers = {0}
  Watchers = {}
  Kinds = {"coin"}
  Faults = {}
  None = None
INVARIANT NoDoublePayment
CHECK_DEADLOCK FALSE
