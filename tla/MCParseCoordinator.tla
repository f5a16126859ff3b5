------------------------ MODULE MCParseCoordinator ------------------------
(* Instances of ParseCoordinator for TLC.                                  *)
EXTENDS ParseCoordinator, TLC

\* Connections, tasks, windows and modes are interchangeable.
Symmetry ==
    UNION {Permutations(Clients), Permutations(Tasks), Permutations(Windows), Permutations(Modes)}
=============================================================================
