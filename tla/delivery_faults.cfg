\* One task and every kind of failure.  Two worker slots: a job whose lock was
\* lost twice is never fetched again, so no more than two of its runs overlap.
CONSTANTS
  NoTask = NoTask
  Tasks = {t1}
  Workers = {w1, w2}
  MaxAttempts = 5
  MaxStalled = 1
  Faults = {"crash", "reject", "timeout", "stall"}
SPECIFICATION DeliveryFairSpec
INVARIANTS
  DeliveryTypeOK
  AttemptsBounded
  DeliveriesCounted
  SentWasDelivered
  DeliveryInv
PROPERTIES
  KeepsPromise
  ClosesTasks
