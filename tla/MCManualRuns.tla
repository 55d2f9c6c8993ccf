----------------------------- MODULE MCManualRuns -----------------------------
(* ManualRuns for TLC: three runs on one server, interchangeable. *)
EXTENDS ManualRuns

CONSTANTS r1, r2, r3
=============================================================================
