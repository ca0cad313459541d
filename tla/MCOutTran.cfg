\* Every kind of transaction; three serials: the fee, the second and the main leg
\* of a cash debit, or a booking and two reversals.
SPECIFICATION OutSpec
CONSTANTS
  Procs = {p1, p2}
  Main = main
  Side = side
  Fee = fee
  Keys = {main, side, fee}
  InCredit = {}
  Foreign = {}
  Kinds = {"credit", "person", "old", "debit", "fee", "cash", "feecash"}
  MaxSerial = 3
ACTION_CONSTRAINT BoundedStep
VIEW MCView
SYMMETRY ProcSymmetry
INVARIANTS DebitedBeforeAsked CreditedAfterSettled SettledIsCleared
           ReversalJustified AnswerTellsOutcome
CHECK_DEADLOCK FALSE
