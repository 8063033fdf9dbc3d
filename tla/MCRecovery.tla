----------------------------- MODULE MCRecovery -----------------------------
(* Recovery.tla for TLC.  OperationIds is given in the .cfg files as a set of *)
(* model values; its size bounds how many applied commands are admitted       *)
(* (refused commands use no ID up).                                           *)
EXTENDS RecoverySafety, TLC

Symmetry == Permutations(OperationIds)
=============================================================================
