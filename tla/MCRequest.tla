------------------------------- MODULE MCRequest -------------------------------
EXTENDS Request, TLC

Symmetry == Permutations(Arg)
===============================================================================
