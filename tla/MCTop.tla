------------------------------- MODULE MCTop --------------------------------
(* TopBlock for two application threads.                                   *)
EXTENDS TopBlock, TLC

CONSTANTS c1, c2, g1, g2, broken

AllCalls == {"start", "stop", "wait", "lock"}
EachAll == [c \in {c1, c2} |-> AllCalls]
TwoCallers == {c1, c2}
ThreeGraphs == {g1, g2, broken}
TwoValid == {g1, g2}
=============================================================================
