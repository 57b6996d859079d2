\* Two runners, one execution of an action, redelivery and liveness under
\* fairness.
SPECIFICATION FairAutomationSpec
CONSTANTS
  Events = {1}
  Processes = {w1}
  BatchLimit = 1
  Rules = {r1}
  ActionCount = 1
  Deduplicated = {}
  NoExecution = NoExecution
  MaxAttempts = 2
  Runners = {p1, p2}
PROPERTIES RedeliveryHarmless TriedToTheEnd
CHECK_DEADLOCK FALSE
