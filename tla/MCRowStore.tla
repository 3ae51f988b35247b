----------------------------- MODULE MCRowStore -----------------------------
EXTENDS RowStore, TLC

Perms == Permutations(UniqueVals)
=============================================================================
