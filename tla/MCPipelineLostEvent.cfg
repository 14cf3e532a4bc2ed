SPECIFICATION Spec
CONSTANTS
  Null = Null
  MaxVoltage = 140
  MinVoltage = 90
  ThresholdNum = 15
  ThresholdDen = 100
  VoltBand = 5
  AmpBand = 5
  WattBand = 50
  Devices = {d1}
  Samples <- SpikeSamples
  Handlers = {h1}
  Runs = {r1}
  BufferCap = 2
  MaxMsgs = 2
  MaxFaults = 0
PROPERTIES
  ClearedEventsPersisted
