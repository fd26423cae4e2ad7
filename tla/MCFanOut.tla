------------------------------ MODULE MCFanOut ------------------------------
EXTENDS FanOut, TLC

Symmetry == Permutations(Clients)
=============================================================================
