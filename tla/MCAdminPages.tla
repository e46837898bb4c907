---------------------------- MODULE MCAdminPages ----------------------------
(* Browsers are interchangeable. *)
EXTENDS AdminPages, TLC

BrowserSymmetry == Permutations(Browsers)
=============================================================================
