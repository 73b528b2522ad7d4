SPECIFICATION FairSpec
CONSTANTS
  CN = {1}
  Mandatory = {1}
  AsyncOnly = {}
  Dated = {1}
  Managed = {1}
  Mismatch = {1}
  Faulty = {1}
  Faults = {"Crash", "CycleError", "LoseAnswer", "LateReady"}
  MaxFaults = 1
  QueueBound = 3
INVARIANTS TypeOK SignalAgrees NobodyForgotten
PROPERTIES BootCompletes
CHECK_DEADLOCK FALSE
