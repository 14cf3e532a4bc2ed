SPECIFICATION FairSpec
CONSTANTS
  Null = Null
  Devices = {d1}
  Active = {d1}
  Requests = {q1}
  Handlers = {h1, h2}
  MaxRequests = 1
  MaxFaults = 0
  MaxDrops = 2
  MaxUp = 2
CHECK_DEADLOCK FALSE
PROPERTIES
  PendingJobsEnd
