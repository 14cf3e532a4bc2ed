SPECIFICATION FairSpec
CONSTANTS
  Null = Null
  MaxVoltage = 140
  MinVoltage = 90
  ThresholdNum = 15
  ThresholdDen = 100
  VoltBand = 5
  AmpBand = 5
  WattBand = 50
  Devices = {d1, d2}
  Samples <- MixedSamples
  Handlers = {h1}
  Runs = {r1}
  BufferCap = 1
  MaxMsgs = 2
  MaxFaults = 1
INVARIANTS
  OnlyKnownDevicesLeaveTraces
PROPERTY
  EventsAreTaken
