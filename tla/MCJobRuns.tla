----------------------------- MODULE MCJobRuns ------------------------------
(***************************************************************************)
(* JobRuns for TLC: two recoveries and two clicks of install, one of them  *)
(* on another server, and one manual backup; any two of them may start.    *)
(***************************************************************************)
EXTENDS JobRuns

CONSTANTS i1, i2, r1, r2, b1, s1, s2

MCServerOf == [j \in {i1, i2, r1, r2, b1} |-> IF j = i2 THEN s2 ELSE s1]

=============================================================================
