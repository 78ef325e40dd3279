------------------------ MODULE MCMaintenanceWorker ------------------------
(* Instances of MaintenanceWorker for TLC. *)
EXTENDS MaintenanceWorker

=============================================================================
