\* Two transactions of the first of two days with one round each, one process that
\* reconciles, one failure, repetition or request by hand.
SPECIFICATION Spec
CONSTANTS
  Txns = {a, b}
  DayOf <- OneDay
  RoundOf <- OneRound
  LastDay = 2
  LastRound = 1
  MaxExtra = 1
  Procs = {p1}
VIEW NoDone
SYMMETRY Symmetry
INVARIANTS FoundWhereLooked ReconciledAgrees
PROPERTIES HistoryStays
CHECK_DEADLOCK FALSE
