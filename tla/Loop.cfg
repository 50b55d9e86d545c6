SPECIFICATION Spec
CONSTANTS
  Timer = {t1, t2}
  Event = {e1, e2}
  NoTimer = NoTimer
  NoEvent = NoEvent
  Client = {p1, p2}
  Conn = {c1, c2}
  Owner = {o1}
  NoClient = NoClient
  NoConn = NoConn
  NoOwner = NoOwner
  Repeats = FALSE
  OwnersGo = FALSE
  Proc = {q1, q2, q3}
  Stopper = {s1, s2}
  NoProc = NoProc
INVARIANTS
  PartsTypeOK EventsExact ConnectionsOwned AnsweredOnce OnlyOne
PROPERTIES
  LoopServes FreedOnceTold RequestsEnd ToldLeaves
CHECK_DEADLOCK FALSE
