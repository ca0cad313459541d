\* One credit, one process, a booking and its reversal.
SPECIFICATION OutSpec
CONSTANTS
  Procs = {p1}
  Main = main
  Side = side
  Fee = fee
  Keys = {main, side, fee}
  InCredit = {}
  Foreign = {}
  Kinds = {"credit"}
  MaxSerial = 2
INVARIANT LostIsNotFailed
CHECK_DEADLOCK FALSE
