--------------------------- MODULE SpikeDetector ---------------------------
(***************************************************************************)
(* Anomaly detection on one telemetry reading                              *)
(* (src/src/modules/telemetry/spike-detector.service.ts).                  *)
(*                                                                         *)
(* The electrical magnitudes are integers in a fixed unit; the relative    *)
(* threshold (0.15 by default) is the fraction ThresholdNum/ThresholdDen,  *)
(* so that diff / base > threshold is compared by cross multiplication.    *)
(* Null stands for a null magnitude, and for an absent `electricas` block. *)
(***************************************************************************)
EXTENDS Integers

CONSTANTS
  Null,           \* a null field, an absent object
  MaxVoltage,     \* TELEMETRY_VOLTAGE_MAX
  MinVoltage,     \* TELEMETRY_VOLTAGE_MIN
  ThresholdNum,   \* TELEMETRY_SPIKE_THRESHOLD = ThresholdNum / ThresholdDen
  ThresholdDen,
  VoltBand,       \* absolute dead bands of calculateChange: 5 V, 0.5 A, 50 W
  AmpBand,
  WattBand

ASSUME DetectorAssumption ==
  /\ Null \notin Int
  /\ MaxVoltage \in Int /\ MinVoltage \in Int /\ MinVoltage =< MaxVoltage
  /\ ThresholdNum \in Nat \ {0} /\ ThresholdDen \in Nat /\ ThresholdNum < ThresholdDen
  /\ VoltBand \in Nat \ {0} /\ AmpBand \in Nat \ {0} /\ WattBand \in Nat \ {0}

Magnitude == Int \union {Null}

\* The `electricas` block of a reading that reaches the detector.
Electricas == [voltaje_v : Magnitude, corriente_a : Magnitude, potencia_w : Magnitude]

ASSUME NullIsNoElectricas == Null \notin Electricas

Verdicts == {"NONE", "SPIKE", "LIMIT"}

Abs(n) == IF n < 0 THEN -n ELSE n

\* The absolute limits: only a voltage that is present is compared.
OutOfLimits(cur) ==
  /\ cur.voltaje_v # Null
  /\ cur.voltaje_v > MaxVoltage \/ cur.voltaje_v < MinVoltage

\* Variant: the dead band compared without the value that equals it.
ChangesTooMuch_StrictBand(curr, base, minDiff) ==
  /\ curr # Null /\ base # Null /\ Abs(curr - base) > minDiff
  /\ \/ base = 0 /\ curr > 0
     \/ base > 0 /\ Abs(curr - base) * ThresholdDen > ThresholdNum * base

\* calculateChange(curr, base, minDiff) > threshold.  The base 0 branch answers
\* 1 for a positive value and 0 otherwise, and a threshold is below 1; a
\* negative base makes the quotient negative.
ChangesTooMuch(curr, base, minDiff) ==
  /\ curr # Null
  /\ base # Null
  /\ Abs(curr - base) >= minDiff
  /\ \/ base = 0 /\ curr > 0
     \/ base > 0 /\ Abs(curr - base) * ThresholdDen > ThresholdNum * base

IsSpike(cur, base) ==
  \/ ChangesTooMuch(cur.voltaje_v, base.voltaje_v, VoltBand)
  \/ ChangesTooMuch(cur.corriente_a, base.corriente_a, AmpBand)
  \/ ChangesTooMuch(cur.potencia_w, base.potencia_w, WattBand)

\* Variants: a verdict that no consumer knows; the limits judged only when there
\* is no baseline to compare with.
DetectAnomaly_OtherVerdict(cur, base) ==
  IF cur # Null /\ OutOfLimits(cur) THEN "HIGH" ELSE "NONE"
DetectAnomaly_RelativeFirst(cur, base) ==
  IF cur = Null THEN "NONE"
  ELSE IF base # Null THEN (IF IsSpike(cur, base) THEN "SPIKE" ELSE "NONE")
  ELSE IF OutOfLimits(cur) THEN "LIMIT" ELSE "NONE"

\* detectAnomaly(current, baseline), on the two `electricas` blocks: the limits
\* are judged before the baseline is looked at.
DetectAnomaly(cur, base) ==
  IF cur = Null THEN "NONE"
  ELSE IF OutOfLimits(cur) THEN "LIMIT"
  ELSE IF base # Null /\ IsSpike(cur, base) THEN "SPIKE" ELSE "NONE"
-----------------------------------------------------------------------------
\* What the detector promises, as bands instead of quotients: a magnitude is
\* quiet when it moved less than the dead band, or stayed between
\* base * (1 - threshold) and base * (1 + threshold).
Quiet(curr, b, minDiff) ==
  \/ curr = Null \/ b = Null
  \/ b - minDiff < curr /\ curr < b + minDiff
  \/ b < 0
  \/ b = 0 /\ curr =< 0
  \/ /\ b > 0
     /\ curr * ThresholdDen =< b * (ThresholdDen + ThresholdNum)
     /\ curr * ThresholdDen >= b * (ThresholdDen - ThresholdNum)

AllQuiet(c, b) == /\ Quiet(c.voltaje_v, b.voltaje_v, VoltBand)
                  /\ Quiet(c.corriente_a, b.corriente_a, AmpBand)
                  /\ Quiet(c.potencia_w, b.potencia_w, WattBand)
=============================================================================
