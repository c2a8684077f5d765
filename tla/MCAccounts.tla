----------------------------- MODULE MCAccounts -----------------------------
(* Accounts on small instances. *)
EXTENDS AccountsHistory, TLC

(* Requests are interchangeable, and so are passwords. *)
Symmetry == Permutations(Procs) \cup Permutations(Passwords)
=============================================================================
