----------------------------- MODULE MCRecycler -----------------------------
EXTENDS Recycler, TLC
CONSTANTS cls, a, b, c
Symmetry == Permutations({a, b, c})
==============================================================================
