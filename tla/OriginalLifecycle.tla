-------------------------- MODULE OriginalLifecycle --------------------------
(***************************************************************************)
(* The life of an uploaded original: kept until a job that read it has     *)
(* completed, then for the retention time, from then on due for deletion,  *)
(* and in the end deleted.  No sweep, claim or retry is left.              *)
(*                                                                         *)
(* CompressionWorker deletes originals by this specification, and          *)
(* SourceRetention, the sweep itself, implements it.                       *)
(***************************************************************************)
CONSTANT Sources

VARIABLE original   \* "kept", "waiting", "due" or "deleted"

Init == original = [s \in Sources |-> "kept"]

\* delete_after is set; a retention of zero seconds makes it due at once.
Schedule(s) ==
    /\ original[s] = "kept"
    /\ \E o \in {"waiting", "due"} : original' = [original EXCEPT ![s] = o]

BecomeDue(s) ==
    /\ original[s] = "waiting"
    /\ original' = [original EXCEPT ![s] = "due"]

Delete(s) ==
    /\ original[s] = "due"
    /\ original' = [original EXCEPT ![s] = "deleted"]

Next == \E s \in Sources : Schedule(s) \/ BecomeDue(s) \/ Delete(s)

Spec == Init /\ [][Next]_original
=============================================================================
