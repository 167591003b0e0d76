--------------------------- MODULE MCQueueServer ---------------------------
(* Instances of QueueServer for TLC.                                       *)
EXTENDS QueueServer, TLC

\* Processes and jobs are interchangeable in the safety runs.
Symmetry == Permutations(Procs) \cup Permutations(Jobs)
=============================================================================
