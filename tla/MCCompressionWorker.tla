------------------------- MODULE MCCompressionWorker -------------------------
(***************************************************************************)
(* Small instances of CompressionWorker for TLC.                           *)
(***************************************************************************)
EXTENDS CompressionWorker, TLC

CONSTANTS j1, j2, m1, m2

\* One delivery for each job.
OneDeliveryEach == [m \in Messages |-> IF m = m1 THEN j1 ELSE j2]

\* Every delivery carries job j1.
AllForOneJob == [m \in Messages |-> j1]

\* All jobs read the same source.
SharedSource == [j \in Jobs |-> CHOOSE s \in Sources : TRUE]

WorkerSymmetry == Permutations(Workers)
=============================================================================
