\* Five desks that call the server.
SPECIFICATION AllSpec
CONSTANTS
  a1 = a1
  a2 = a2
  a3 = a3
  a4 = a4
  k1 = k1
  k2 = k2
  body = body
  other = other
  m1 = m1
  m2 = m2
  Attempt = {a1, a2, a3, a4}
  Key = {k1, k2}
  Body = {body, other}
  NoBody = NoBody
  KeyOf <- Keys
  BodyOf <- Bodies
  MaxCrashes = 2
  FailsAfterCommit = FALSE
  Request = {w1, w2}
  Write = {w1, w2}
  RetrySafe = {w2}
  AppRetries = 1
  AppTokens = 2
  AppFaults = 2
  NumEvents = 2
  Stall = {m1, m2}
  Req = {q1, q2}
  NoStall = nostall
  EdgeRetries = 2
  EdgeFaults = 2
  EdgeMoves = 2
  Good = {g1, g2}
  TillOrders = 2
  TillCalls = 2
  Together <- Setups
  TillFaults = 1
  Login = {1, 2, 3}
  OpenId = {m1, m2}
  Old = {m2}
INVARIANTS AtMostOnce AnswersAreTrue WritesArriveOnce AnswersAreHeeded
PROPERTIES QueuedIsKept WaitingEnds
CHECK_DEADLOCK FALSE
