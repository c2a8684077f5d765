----------------------------- MODULE MCIsoLibrary -----------------------------
(* IsoLibrary on small instances. *)
EXTENDS IsoLibrary, TLC

(* Neither requests, names nor images are compared but for equality. *)
Symmetry == Permutations(Procs) \cup Permutations(Names) \cup Permutations(Images)
=============================================================================
