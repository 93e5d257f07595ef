SPECIFICATION Spec
CONSTANTS
  N = 2
  MaxTerm = 1
  MaxNewly = 2
  MaxCrash = 1
  MaxEvents = 2
  MaxSigning = 1
  Receivers = {0}
  Watchers = {0}
  Kinds = {"coin", "xin", "eos", "eth", "transfer", "distribution"}
  Faults = {"check", "sign", "send", "keystore"}
  None = None
INVARIANTS TypeOK NothingForgotten LedgerOnlyPaid PaidOnlySigned
CHECK_DEADLOCK FALSE
