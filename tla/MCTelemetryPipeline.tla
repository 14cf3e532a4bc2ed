----------------------- MODULE MCTelemetryPipeline -----------------------
EXTENDS TelemetryPipeline, TLC

\* Handlers are interchangeable, and so are runs.  Safety runs only.
ProcessSymmetry == Permutations(Handlers) \union Permutations(Runs)

Block(v) == [voltaje_v |-> v, corriente_a |-> Null, potencia_w |-> Null]

\* A quiet block, one that is a spike against it, one outside the limits, with a
\* timestamp that is a date or not, and a message without `electricas`.
Sent(e)   == [electricas |-> e, dated |-> TRUE]
Normal    == Sent(Block(110))
Spike     == Sent(Block(135))
Over      == Sent(Block(150))
OverBadly == [Over EXCEPT !.dated = FALSE]

SpikeSamples == {Normal, Spike}
MixedSamples == {Over, OverBadly, Sent(Null)}
=============================================================================
