---------------------------- MODULE MCQueueCounts ----------------------------
(* Instances of QueueCounts for TLC.                                       *)
EXTENDS QueueCounts, TLC

CONSTANTS e1, r1, r2

OneFlow == <<"FLOW_A">>
InFlowA == [e \in Events |-> "FLOW_A"]
=============================================================================
