\* Two processes, every kind of transaction, every request; two serials: two
\* legs, or a booking and its reversal.
SPECIFICATION InSpec
CONSTANTS
  Procs = {p1, p2}
  First = first
  Main = main
  Chk = chk
  Keys = {first, main, chk}
  InCredit = {main}
  Foreign = {}
  Kinds = {"credit", "fs", "debit", "hold"}
  Requests = {"0006", "0010", "0111", "0113", "1609"}
  MaxSerial = 2
SYMMETRY ProcSymmetry
VIEW Relevant
INVARIANTS RequestedOnce ConfirmedWasSuspended DebitAnsweredTruly ResultToldTruly
CHECK_DEADLOCK FALSE
