------------------------- MODULE MCHandoffWorkflow -------------------------
(***************************************************************************)
(* Small instances of HandoffWorkflow for TLC.                             *)
(***************************************************************************)
EXTENDS HandoffWorkflow, TLC

Symmetry == Permutations(Run)

\* Of safety runs in which the sessions and the two plans are alike, too.
Alike == Symmetry \cup Permutations(Process) \cup Permutations(Plan)
=============================================================================
