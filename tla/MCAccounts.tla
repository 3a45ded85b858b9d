------------------------------- MODULE MCAccounts -------------------------------
EXTENDS AccountsProps, TLC

Symmetry == Permutations(Requests)
===============================================================================
