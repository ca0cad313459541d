SPECIFICATION KeysSpec
CONSTANTS
  Callers = {p1, p2}
  Testers = {t}
  SVR_MAX = 3
  Count = 2
  FirstId = 0
  Tries = 2
INVARIANT RefusedNoneNormal
PROPERTY WorkingComeBack
