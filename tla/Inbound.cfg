\* Two webhooks that share a message, and two messages seen by the reader.
SPECIFICATION MCInboundSpec
CONSTANTS
  m1 = m1
  m2 = m2
  m3 = m3
  v1 = v1
  v2 = v2
  a1 = a1
  p1 = p1
  p2 = p2
  l1 = l1
  Hooks <- MCTwoHooks
  Pollers = {p1, p2}
  Listeners = {l1}
  Messages = {m1, m2, m3}
  WebMessages = {v1, v2}
  Phones = {a1}
  Carries <- MCOverlapping
  From <- MCFrom
  Old = {v1}
  Malformed = {m3}
  BatchLimit = 1
  NoHook = NoHook
INVARIANTS UnreadMatches ProcessedIsStored
PROPERTIES EventuallyStored
CHECK_DEADLOCK FALSE
