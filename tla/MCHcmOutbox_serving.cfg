\* Three rows in batches of two, two resets, a client that always answers.
SPECIFICATION FairOutboxSpec
CONSTANTS
  BatchSize = 2
  MaxAttempts = 3
  MaxRows = 3
  MaxResets = 2
INVARIANTS
  OutboxTypeOK
  DeadIffExhausted
  HeldIsLive
  InflightIsHeld
PROPERTIES
  OldestFirst
  EveryRowIsServed
CHECK_DEADLOCK FALSE
