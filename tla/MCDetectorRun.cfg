SPECIFICATION StreamSpec
CONSTANTS
  Null = Null
  MaxVoltage = 140
  MinVoltage = 90
  ThresholdNum = 15
  ThresholdDen = 100
  VoltBand = 5
  AmpBand = 5
  WattBand = 50
  Blocks <- MCBlocks
INVARIANTS
  StreamTypeOK
  VerdictMatchesBands
PROPERTIES
  DriftStaysInLimits
