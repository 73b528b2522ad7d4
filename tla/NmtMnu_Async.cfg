SPECIFICATION FairSpec
CONSTANTS
  CN = {1}
  Mandatory = {}
  AsyncOnly = {1}
  Dated = {}
  Managed = {}
  Mismatch = {}
  Faulty = {}
  Faults = {}
  MaxFaults = 0
  QueueBound = 2
PROPERTIES AsyncBoots
CHECK_DEADLOCK FALSE
