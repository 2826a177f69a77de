----------------------------- MODULE MCAccounts -----------------------------
(* An instance of Accounts for TLC: one user and that user's pager.          *)
EXTENDS Accounts, TLC

CONSTANTS ann, n5, s1, s2

Pagers == (ann :> n5)
Alike == Permutations(Sessions)
=============================================================================
