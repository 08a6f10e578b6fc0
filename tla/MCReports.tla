----------------------------- MODULE MCReports -----------------------------
(* Values for Reports: one warning of each level the start and the hook can have. *)
EXTENDS Reports, TLC

MCWarnings == {"UpdaterStoragePruneFailure"}
MCHookFailures == {"HookQuarantineBlocked", "HookRepairFailure"}
=============================================================================
