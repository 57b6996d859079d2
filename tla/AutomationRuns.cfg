\* Two runners, one execution of two actions, three attempts.
SPECIFICATION MCEngineSpec
CONSTANTS
  Events = {1}
  Processes = {w1}
  BatchLimit = 1
  Rules = {r1}
  ActionCount = 2
  Deduplicated = {2}
  NoExecution = NoExecution
  MaxAttempts = 3
  Runners = {p1, p2}
  Automations = {y1, y2}
  Actions = {b1, b2, b3, b4, b5}
  Place <- MCPlace
  Does <- MCDoes
  Configured <- MCUser
  Drafts <- MCDrafts
  Signals = {z1, z2}
  Hearers = {v2}
  Editors = {j1, j2}
  People = {ann, bob}
  Author = ann
  Letters = {l1}
  Texts = {x1, x2}
  Needs <- MCNeeds
  Scans = {n1, n2}
  Deadlines = {g7, g8}
  Renewable = {g8}
  LastDate = 1
  Nobody = Nobody
  NoLetter = NoLetter
  NoSignal = NoSignal
  NoRule = NoRule
  NoKey = NoKey
  y1 = y1
  y2 = y2
  b1 = b1
  b2 = b2
  b3 = b3
  b4 = b4
  b5 = b5
  z1 = z1
  z2 = z2
  l1 = l1
  ann = ann
  bob = bob
  x1 = x1
  x2 = x2
  g8 = g8
SYMMETRY Symmetric
INVARIANTS ActionsInOrder EmitsOnce RunsStand
CHECK_DEADLOCK FALSE
