-------------------------- MODULE MC_LoopDetection --------------------------
EXTENDS LoopDetection

MCSchedule == {{2, 4, 6}}

MCLoopThreshold == [w \in Workflow |-> 1]
=============================================================================
