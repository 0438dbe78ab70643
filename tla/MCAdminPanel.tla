---------------------------- MODULE MCAdminPanel ----------------------------
(* Two clients, so that one could be taken for the other, and two attempts a *)
(* window, so that one of them can be the other client's.                     *)
EXTENDS AdminPanel, TLC

Symmetry == Permutations(Clients) \cup Permutations(Tokens) \cup Permutations(Handlers)
=============================================================================
