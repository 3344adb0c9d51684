----------------------------- MODULE MCSimpleJob -----------------------------
(***************************************************************************)
(* Small instances of SimpleJob for TLC: every delivery carries one job.   *)
(***************************************************************************)
EXTENDS SimpleJob

CONSTANT j1

AllForOneJob == [m \in Messages |-> j1]
=============================================================================
