------------------------ MODULE MCWorkerSupervision ------------------------
(* Instances of WorkerSupervision for TLC. The liveness properties are     *)
(* checked together with the invariants, so no symmetry is declared.       *)
EXTENDS WorkerSupervision
=============================================================================
