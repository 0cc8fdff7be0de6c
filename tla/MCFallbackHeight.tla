-------------------------- MODULE MCFallbackHeight --------------------------
EXTENDS FallbackHeight
ThreeConfigs == 1 .. 3
UnitWeights == [c \in ThreeConfigs |-> 1]
=============================================================================
