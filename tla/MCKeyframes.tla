----------------------------- MODULE MCKeyframes -----------------------------
EXTENDS Keyframes, TLC

Symmetry == Permutations(Requesters)
=============================================================================
