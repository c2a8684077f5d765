--------------------------- MODULE MCInstallQueue ---------------------------
(* InstallQueue on small instances. *)
EXTENDS InstallQueue, TLC

(* Request slots are interchangeable, and so are configurations: they are  *)
(* stored and compared for equality, never told apart otherwise.           *)
Symmetry == Permutations(Procs) \cup Permutations(Configs)
=============================================================================
