--------------------------- MODULE MCProxyRequest ---------------------------
(* Two requests share the switch and the token.  The longest body            *)
(* exceeds the limit by more than the one chunk the reader looks ahead.      *)
EXTENDS ProxyRequest, TLC

Symmetry == Permutations(Requests)
=============================================================================
