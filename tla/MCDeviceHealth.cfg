SPECIFICATION FairSpec
CONSTANTS
  Null = Null
  Devices = {d1, d2}
  LastTtl = 10
  Thresholds = {4, 10}
  CronPeriod = 5
  Stamps <- AnyStamp
  MaxMsgs = 2
  MaxFaults = 1
INVARIANTS
  TypeOK
PROPERTIES
  OfflineIsJustified
  SilentGoesOffline
