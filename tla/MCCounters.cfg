\* Serial: three processes, a counter of three numbers, enough calls to go round.
\* Gateway: three connections where one may serve, one child that dies by itself.
SPECIFICATION CountersSpec
CONSTANTS
  Procs = {p1, p2, p3}
  Min = 1
  Max = 3
  Empty = Empty
  NoProc = NoProc
  MaxCalls = 4
  Children = {c1, c2, c3}
  gimaxProcNums = 1
  MaxConns = 3
  MaxKills = 1
INVARIANTS SerialsDistinct CountTells
PROPERTIES LockReleased UpdatesEnd
CHECK_DEADLOCK FALSE
