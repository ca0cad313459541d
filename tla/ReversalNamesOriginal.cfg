\* One process, one leg: enough for the reversal of a second attempt.
SPECIFICATION Spec
CONSTANTS
  Procs = {p1}
  Keys = {leg}
  InCredit = {}
  Foreign = {}
  MaxSerial = 3
INVARIANT ReversalNamesOriginal
CHECK_DEADLOCK FALSE
