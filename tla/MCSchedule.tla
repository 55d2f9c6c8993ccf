----------------------------- MODULE MCSchedule -----------------------------
EXTENDS Schedule, TLC

CONSTANTS h1, h2, r1, r2

Symmetry == Permutations(Handlers) \union Permutations(Runs)
=============================================================================
