----------------------------- MODULE MCAccounts -----------------------------
(* Two account requests and one administrator at a time. *)
EXTENDS Accounts, TLC

Alike == Permutations(Reqs)
=============================================================================
