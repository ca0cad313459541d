\* Two processes, one leg that the core system may suspend, one leg in a foreign
\* currency; three serials: booking, retry, reversal.
SPECIFICATION Spec
CONSTANTS
  Procs = {p1, p2}
  Keys = {leg, fx}
  InCredit = {leg}
  Foreign = {fx}
  MaxSerial = 3
SYMMETRY ProcSymmetry
INVARIANTS SinglePosting BookedWasPosted ReversalHasTarget
PROPERTIES DoubtNeedsAnswer ImplementsBookOnce
CHECK_DEADLOCK FALSE
