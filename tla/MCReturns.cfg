\* One return, one process after another; four serials: two legs and their reversals.
SPECIFICATION ReturnSpec
CONSTANTS
  Procs = {p1, p2}
  Main = tpa
  Side = tpb
  Fee = fee
  Keys = {tpa, tpb, fee}
  InCredit = {}
  Foreign = {}
  Kinds = {"debit"}
  MaxSerial = 4
ACTION_CONSTRAINT OneByOne
VIEW MCView
SYMMETRY ProcSymmetry
INVARIANTS FirstUndoneLast ReturnAnswer FlaggedWasReturned
CHECK_DEADLOCK FALSE
