---------------------------- MODULE MCScheduledSync ----------------------------
(***************************************************************************)
(* ScheduledSync for TLC: two configs on one server, one on another, the   *)
(* loop and one click.                                                     *)
(***************************************************************************)
EXTENDS ScheduledSync

CONSTANTS c1, c2, c3, v1, v2, k1

MCServerOf == [c \in {c1, c2, c3} |-> IF c = c3 THEN v2 ELSE v1]
=============================================================================
