------------------------------ MODULE DiskClaim ------------------------------
(***************************************************************************)
(* What the jobs that rebuild one server owe each other, though no lock    *)
(* keeps them apart.  The system disk changes only under a job that is     *)
(* alone on the machine, in the rescue system it asked for itself; the job *)
(* wipes the disk first and puts its own OS on it in the same session, so  *)
(* an OS is never laid over another one or over half of one, and a disk    *)
(* left wiped does not boot.  ServerRebuild is shown to implement this     *)
(* module.                                                                 *)
(***************************************************************************)

CONSTANT Jobs   \* the jobs that open sessions on the server

VARIABLES
  content,  \* what the disk holds: the original OS, none, or a job's
  system,   \* what the machine runs: its disk, or the rescue of an asker
  inside,   \* the jobs with an open session
  claim     \* the job that wiped the disk in the session it still has, if any

vars == <<content, system, inside, claim>>

Init ==
  /\ content = "original"
  /\ system = "disk"
  /\ inside = {}
  /\ claim = {}

\* Many may work in the installed OS, one in its own rescue system.
Enter(j) ==
  /\ j \notin inside
  /\ system = "disk" \/ (system = j /\ inside = {})
  /\ inside' = inside \union {j}
  /\ UNCHANGED <<content, system, claim>>

Wipe(j) ==
  /\ system = j /\ inside = {j} /\ claim = {}
  /\ content' = "wiped"
  /\ claim' = {j}
  /\ UNCHANGED <<system, inside>>

\* With its OS on the disk, the job stays for the boot files or leaves.
Build(j) ==
  /\ system = j /\ inside = {j} /\ claim = {j}
  /\ content = "wiped"
  /\ content' = j
  /\ claim' = {}
  /\ inside' \in {{j}, {}}
  /\ UNCHANGED system

Exit(j) ==
  /\ j \in inside
  /\ inside' = inside \ {j}
  /\ claim' = claim \ {j}
  /\ UNCHANGED <<content, system>>

GoDown ==
  /\ system' = "booting"
  /\ inside' = {}
  /\ claim' = {}
  /\ UNCHANGED content

ComeUp ==
  /\ system = "booting" /\ inside = {}
  /\ system' \in Jobs \union {"operator", "disk", "nothing"}
  /\ system' = "disk" => content # "wiped"
  /\ UNCHANGED <<content, inside, claim>>

\* The panel process dies, and every session with it.
Abandon ==
  /\ inside' = {}
  /\ claim' = {}
  /\ UNCHANGED <<content, system>>

Next ==
  \/ \E j \in Jobs : Enter(j) \/ Wipe(j) \/ Build(j) \/ Exit(j)
  \/ GoDown \/ ComeUp \/ Abandon

Spec == Init /\ [][Next]_vars

=============================================================================
