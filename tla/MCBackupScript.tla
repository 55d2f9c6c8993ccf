---------------------------- MODULE MCBackupScript ----------------------------
(* BackupScript for TLC, with the number of destinations given by the cfg. *)
EXTENDS BackupScript
=============================================================================
