------------------------- MODULE MCExecutionServer -------------------------
(* Instances of ExecutionServer for TLC.                                   *)
EXTENDS ExecutionServer, TLC

CONSTANTS e1, e2
Both == {e1, e2}
One == {e1}
Nothing == {}
=============================================================================
