--------------------------- MODULE MCEventWorker ---------------------------
(* Small instances of EventWorker for TLC.                                 *)
EXTENDS EventWorker, TLC

Symmetry == Permutations(Event) \cup Permutations(Worker)
=============================================================================
