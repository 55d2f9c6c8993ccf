--------------------------- MODULE MCLiveProgress ---------------------------
EXTENDS LiveProgress, TLC

CONSTANTS q1, q2

MCPolls == {q1, q2}
=============================================================================
