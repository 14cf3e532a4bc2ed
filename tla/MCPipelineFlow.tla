--------------------------- MODULE MCPipelineFlow ---------------------------
EXTENDS PipelineFlow, TLC

\* Handlers are interchangeable, and so are runs.
ProcessSymmetry == Permutations(Handlers) \union Permutations(Runs)

\* A quiet block and one outside the limits.
Block(v)     == [voltaje_v |-> v, corriente_a |-> Null, potencia_w |-> Null]
LimitSamples == {[electricas |-> Block(v), dated |-> TRUE] : v \in {110, 150}}
=============================================================================
