SPECIFICATION Spec
CONSTANTS
  p1 = p1
  p2 = p2
  Procs = {p1, p2}
  Rows <- MCRows
  Early <- MCEarly
  Other <- MCOther
  Requests <- MCRequests
  PresProxy <- MCProxy
  AcptProxy <- MCProxy
  Level1 = {"A"}
  NoteNames <- MCNoteNames
  PageLines = 2
  LastArchive = 1
  LastSecond = 1
SYMMETRY Symmetry
ACTION_CONSTRAINT Apart
CHECK_DEADLOCK FALSE
INVARIANTS MarksTellPrints ReportComplete EveryRowPrinted OwnFile
