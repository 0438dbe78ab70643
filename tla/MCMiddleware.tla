---------------------------- MODULE MCMiddleware ----------------------------
(* Two requests and one scrape: enough for a request to end between two      *)
(* visits of the scrape while the other is being served.                     *)
EXTENDS Middleware, TLC

MCCodes == {200, 404, 500}

Symmetry == Permutations(Requests)
=============================================================================
