----------------------------- MODULE MCGateway -----------------------------
(* Goroutines are interchangeable. *)
EXTENDS Gateway, TLC

RequestSymmetry == Permutations(Requests)
=============================================================================
