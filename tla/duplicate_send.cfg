\* One task, one worker slot; a database or Redis call may be rejected.
CONSTANTS
  NoTask = NoTask
  Tasks = {t1}
  Workers = {w1}
  MaxAttempts = 5
  MaxStalled = 1
  Faults = {"reject"}
SPECIFICATION DeliverySpec
INVARIANT NotifiedOnce
