------------------------- MODULE MCTransactionBuilder -------------------------
EXTENDS TransactionBuilder, TLC

Symmetry == Permutations(Receiver) \cup Permutations(Amount)
===============================================================================
