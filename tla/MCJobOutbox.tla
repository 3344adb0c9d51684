----------------------------- MODULE MCJobOutbox -----------------------------
(***************************************************************************)
(* Small instances of JobOutbox for TLC: one job, whose events and stream  *)
(* entries are numbered.                                                   *)
(***************************************************************************)
EXTENDS JobOutbox

CONSTANT j1

EventsOfOneJob  == [e \in Events |-> j1]
EntriesOfOneJob == [m \in Messages |-> j1]
=============================================================================
