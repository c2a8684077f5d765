--------------------------- MODULE MCQueueHistory ---------------------------
(* InstallQueue with its history variables on small instances. *)
EXTENDS QueueHistory, TLC

(* Request slots are interchangeable. *)
Symmetry == Permutations(Procs)
=============================================================================
