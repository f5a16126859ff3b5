---------------------------- MODULE MCWorkspaceFiles ----------------------------
(* WorkspaceFiles on small instances.                                      *)
EXTENDS WorkspaceFiles, TLC

ActorSymmetry == Permutations(Connections) \cup Permutations(RuntimeTasks)
FileSymmetry == ActorSymmetry \cup Permutations(Files)
================================================================================
