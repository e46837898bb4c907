----------------------------- MODULE MCAccounts -----------------------------
(* Goroutines and addresses are interchangeable. *)
EXTENDS Accounts, TLC

AccountsSymmetry == Permutations(Requests) \cup Permutations(Emails)
=============================================================================
