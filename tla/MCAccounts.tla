----------------------------- MODULE MCAccounts -----------------------------
EXTENDS Accounts, TLC

Symmetric == Permutations(Requests)
=============================================================================
