SPECIFICATION FlowSpec
CONSTANTS
  Null = Null
  MaxVoltage = 140
  MinVoltage = 90
  ThresholdNum = 15
  ThresholdDen = 100
  VoltBand = 5
  AmpBand = 5
  WattBand = 50
  Devices = {d1}
  Samples <- LimitSamples
  Handlers = {h1, h2}
  Runs = {r1}
  BufferCap = 1
  MaxMsgs = 3
  MaxFaults = 0
SYMMETRY ProcessSymmetry
INVARIANTS
  TypeOK
  BufferBounded
  BaselineNeverCritical
PROPERTIES
  EventsLeaveAccounted
  ImplementsFlow
