------------------------------ MODULE MCFleet ------------------------------
EXTENDS Fleet, TLC

CONSTANTS u1, u2, m1, m2, h1, h2

MCUsers == {u1, u2}
MCMachines == {m1, m2}
MCHandlers == {h1, h2}
MCSymmetry == Permutations(MCUsers) \union Permutations(MCHandlers)
=============================================================================
