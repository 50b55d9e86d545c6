SPECIFICATION Spec
CONSTANTS
  Block = {b1, b2, b3, b4}
  Grow = 2
  Run = {1, 2, 3}
  Fun = {0, 1}
  MaxNum = 2
  UniqueMax = 2
  Word = 16
  Faults = TRUE
  REDEEM_CODE_LEN = 4
  CharBits = 2
  FUN_ID_BIT_LEN = 2
  SIGN_BIT_LEN = 2
  MaxText = 5
  Att = {a1, a2, a3}
  MaxFd = 2
  setsize = 2
  NoAtt = NoAtt
  MaxReplies = 2
  DiscardAt = 6
  MaxDepth = 2
  MaxPieces = 3
  FormatRoom = 5
  Second = 3
  TIMER_MILLISECONDS = 5
  MaxClock = 14
  MaxBusy = 1
INVARIANTS
  DataTypeOK BlocksConserved HistoryExact CodesExact LayersAgree RepliesExact
  CommandsExact
PROPERTIES
  CallbacksCurrent TimerOnTime
CHECK_DEADLOCK FALSE
