\* Two processes for every part; one debit, one fee beside a free transaction, two
\* sums of which one is nothing, one agreement with the center and two without, two
\* moves of the center, two tables of two lines in two versions, two passwords.
SPECIFICATION BackSpec
CONSTANTS
  Procs = {p1, p2}
  Keys <- MCKeys
  InCredit = {}
  Foreign <- MCForeign
  MaxSerial = 2
  Debits = {1}
  St <- MCSt
  Rt <- MCRt
  RoundOf <- MCRoundOf
  WorkDateOf <- MCDateOf
  WorkRoundOf <- MCNumber
  ExchDateOf <- MCDateOf
  ExchRoundOf <- MCNumber
  MaxClock = 4
  Trans <- MCTrans
  Free <- MCFree
  Leg <- MCLeg
  LastDay = 1
  Clerks = {p1, p2}
  Types = {1, 2}
  Nothing = {2}
  MaxTransfer = 2
  Ids = {"a", "b", "c"}
  Joint = {"a"}
  Tellers = {p1, p2}
  Handlers = {p1, p2}
  LastTick = 4
  Tables <- MCTables
  Lines = 2
  LastVersion = 2
  Desks = {p1, p2}
  Secrets = {"blank", "secret"}
  Blank = "blank"
  Txns = {"a", "b", "c"}
  TxnRound <- MCRound
  KindOf <- MCKind
  CurOf <- MCCur
  Kinds = {"in", "out"}
  Curs = {1, 2}
  LastRound = 2
  Settlers = {p1, p2}
  MaxExtra = 1
ACTION_CONSTRAINT BoundedStep
VIEW BackView
SYMMETRY Symmetric
INVARIANTS DebitEndsOnce FeesComplete ClearedOnce AgreementsAgree OneLocalAgreement
           SyncRepairs TablesWhole CancelledStays ReceiptIsTrue DifferencesListed
CHECK_DEADLOCK FALSE
