--------------------------- MODULE MCDetectorRun ---------------------------
EXTENDS DetectorRun

\* Values on both sides of every comparison: the limits, the dead bands, the
\* threshold of 15 % seen from 100 V and from 20 units, zero, and null; and a
\* reading without block.
MCBlocks ==
  [voltaje_v   : {Null, 89, 90, 100, 115, 116, 140, 141},
   corriente_a : {Null, 0, 4, 5, 20, 24},
   potencia_w  : {0, 50, 400, 460, 461}] \union {Null}
=============================================================================
