\* The listener under redelivery, with two rules for the event.
SPECIFICATION FairAutomationSpec
CONSTANTS
  Events = {1}
  Processes = {w1}
  BatchLimit = 1
  Rules = {r1, r2}
  ActionCount = 1
  Deduplicated = {}
  NoExecution = NoExecution
  MaxAttempts = 1
  Runners = {}
PROPERTIES RedeliveryHarmless
CHECK_DEADLOCK FALSE
