--------------------------- MODULE MCWalletReceive ---------------------------
EXTENDS WalletReceive, TLC

Symmetry == Permutations(SlateIds)
=============================================================================
