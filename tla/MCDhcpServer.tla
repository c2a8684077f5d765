---------------------------- MODULE MCDhcpServer ----------------------------
(* DhcpServer on small instances. *)
EXTENDS DhcpServer, TLC

(* Handlers are interchangeable; clients are not (see Waiting). *)
Symmetry == Permutations(Handlers)
=============================================================================
