---------------------------- MODULE DetectorRun ----------------------------
(***************************************************************************)
(* The detector applied to a stream of readings, the way handleTelemetry   *)
(* feeds it: a reading is judged only against a baseline that has an       *)
(* `electricas` block, and one that is not critical becomes the baseline   *)
(* of the next, whether it has a block or not.  Null is an absent block,   *)
(* and a baseline without one or no longer cached.  Nothing here is        *)
(* concurrent (see TelemetryPipeline for that); the module exists to check *)
(* the arithmetic of the detector against an independent definition.       *)
(***************************************************************************)
EXTENDS SpikeDetector

CONSTANT Blocks      \* what the devices send: an `electricas` block or none

ASSUME BlocksAssumption == Blocks \subseteq Electricas \union {Null}

VARIABLES
  sample,       \* the reading judged last
  reference,    \* the block of the baseline it was judged against
  verdict       \* and what the handler made of it
stream == <<sample, reference, verdict>>

\* isBaselineValid ? detectAnomaly(data, baseline) : NONE.
JudgeBlock(cur, base) == IF base # Null THEN DetectAnomaly(cur, base) ELSE "NONE"

StreamInit ==
  /\ sample \in Blocks
  /\ reference = Null
  /\ verdict = JudgeBlock(sample, reference)

\* The baseline the last verdict left.
Adopted == IF verdict = "NONE" THEN sample ELSE reference

\* The next reading, judged against that baseline or, when the key expired in
\* between, against none.
NextReading(b) ==
  /\ sample' = b
  /\ reference' \in {Adopted, Null}
  /\ verdict' = JudgeBlock(b, reference')

StreamNext == \E b \in Blocks : NextReading(b)

StreamSpec == StreamInit /\ [][StreamNext]_stream
-----------------------------------------------------------------------------
(* Properties *)

StreamTypeOK ==
  /\ sample \in Blocks
  /\ reference \in Blocks \union {Null}
  /\ verdict \in Verdicts

\* Between two blocks the verdict of detectAnomaly is the one the bands give: LIMIT
\* outside the absolute limits whatever the baseline, otherwise SPIKE exactly when
\* some magnitude leaves its band.  (spike-detector.service.ts:33-122)
VerdictMatchesBands ==
  sample # Null /\ reference # Null =>
    /\ verdict = "LIMIT" <=> OutOfLimits(sample)
    /\ verdict = "SPIKE" <=> ~OutOfLimits(sample) /\ ~AllQuiet(sample, reference)

\* However slowly the readings drift, one outside the limits becomes the baseline
\* only where there was none with a block to judge it against: the first reading,
\* and the one after a reading without block or after the key expired.  That one
\* is stored unjudged.  (mqtt.service.ts:172-192, spike-detector.service.ts:43-59)
DriftStaysInLimits ==
  [][reference' \notin {reference, Null} /\ OutOfLimits(reference')
       => reference = Null]_stream
=============================================================================
