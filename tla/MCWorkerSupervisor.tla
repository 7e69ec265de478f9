------------------------ MODULE MCWorkerSupervisor ------------------------
(* Small instances of WorkerSupervisor.  Three inodes are enough for two   *)
(* runners: at most two are open and unlinked when a third is created.     *)
EXTENDS WorkerSupervisor, TLC

MCSymmetry == Permutations(Runners) \cup Permutations(Pids)
===========================================================================
