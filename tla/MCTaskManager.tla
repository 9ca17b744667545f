--------------------------- MODULE MCTaskManager ---------------------------
(***************************************************************************)
(* Instances of TaskManager for TLC.  Ids are interchangeable.             *)
(***************************************************************************)
EXTENDS TaskManager, TLC

IdSymmetry == Permutations(Ids)

============================================================================
