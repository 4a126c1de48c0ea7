CONSTANTS
  N = 2
  MaxRuns = 3
  MaxSignals = 2
SPECIFICATION Spec
INVARIANTS ReadyIsListening NoneLeft SummaryMatchesCaptures ReportedExits
CHECK_DEADLOCK FALSE
