------------------------------ MODULE MCBackup ------------------------------
(* Instances of Backup.tla for TLC.                                       *)
EXTENDS Backup

CONSTANTS scheduler, sync, restorer
=============================================================================
