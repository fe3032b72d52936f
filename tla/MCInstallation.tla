--------------------------- MODULE MCInstallation ---------------------------
(* Instances of Installation for TLC: the commands are alike, and so are   *)
(* the modes.                                                              *)
EXTENDS Installation, TLC

Alike ==
  {f @@ g : f \in Permutations(Process), g \in Permutations(Mode)}
=============================================================================
