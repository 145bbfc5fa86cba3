----------------------------- MODULE MCBackupFile ------------------------------
(***************************************************************************)
(* Three profiles, of which some are in the file already.                  *)
(***************************************************************************)
EXTENDS BackupFile

MCProfiles == 1 .. 3
=============================================================================
