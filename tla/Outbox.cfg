\* Two events and two processes that claim one row at a time: there is always
\* more to do than one batch holds.
SPECIFICATION FairOutboxSpec
CONSTANTS
  Events = {1, 2}
  Processes = {w1, w2}
  BatchLimit = 1
INVARIANTS ExclusiveUntilStale
PROPERTIES KeepsPromise EventuallyProcessed
CHECK_DEADLOCK FALSE
