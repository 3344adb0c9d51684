----------------------------- MODULE JobContract -----------------------------
(***************************************************************************)
(* What a client is promised of a compression job, whatever workers,       *)
(* retries and crashes are behind it.  A job is one thing with one verdict *)
(* here: no delivery, no candidate, no attempt in progress.                *)
(*                                                                         *)
(* CompressionWorker implements this specification where handlers of one   *)
(* job are kept apart.                                                     *)
(***************************************************************************)
EXTENDS Naturals

CONSTANTS
    Jobs,
    Originals,   \* uploaded source objects
    OriginalOf,  \* the original of each job
    MaxStarts    \* how often a job may be started

VARIABLES
    submitted,   \* jobs that were handed to the workers
    verdict,     \* "open", "completed", "failed" or "cancelled"
    starts,      \* how often the job was started
    announced,   \* how often its completion was announced
    original     \* "kept", "due" (may be deleted) or "deleted"

vars == <<submitted, verdict, starts, announced, original>>

Init ==
    /\ submitted = {}
    /\ verdict = [j \in Jobs |-> "open"]
    /\ starts = [j \in Jobs |-> 0]
    /\ announced = [j \in Jobs |-> 0]
    /\ original = [s \in Originals |-> "kept"]

Submit(j) ==
    /\ submitted' = submitted \union {j}
    /\ UNCHANGED <<verdict, starts, announced, original>>

Start(j) ==
    /\ j \in submitted /\ verdict[j] = "open" /\ starts[j] < MaxStarts
    /\ starts' = [starts EXCEPT ![j] = @ + 1]
    /\ UNCHANGED <<submitted, verdict, announced, original>>

\* The result, its announcement and the end of the original's retention are
\* one step.
Complete(j) ==
    /\ verdict[j] = "open" /\ starts[j] > 0
    /\ verdict' = [verdict EXCEPT ![j] = "completed"]
    /\ announced' = [announced EXCEPT ![j] = @ + 1]
    /\ original' = [original EXCEPT
            ![OriginalOf[j]] = IF @ = "kept" THEN "due" ELSE @]
    /\ UNCHANGED <<submitted, starts>>

\* A job that was cancelled while a worker had it in hand may still fail with
\* that run.
Fail(j) ==
    /\ j \in submitted /\ verdict[j] \in {"open", "cancelled"}
    /\ verdict' = [verdict EXCEPT ![j] = "failed"]
    /\ UNCHANGED <<submitted, starts, announced, original>>

Cancel(j) ==
    /\ verdict[j] = "open"
    /\ verdict' = [verdict EXCEPT ![j] = "cancelled"]
    /\ UNCHANGED <<submitted, starts, announced, original>>

\* ... or be taken up again by a retry that had read it before.
Reopen(j) ==
    /\ j \in submitted /\ verdict[j] = "cancelled"
    /\ verdict' = [verdict EXCEPT ![j] = "open"]
    /\ UNCHANGED <<submitted, starts, announced, original>>

Delete(s) ==
    /\ original[s] = "due"
    /\ original' = [original EXCEPT ![s] = "deleted"]
    /\ UNCHANGED <<submitted, verdict, starts, announced>>

Next ==
    \/ \E j \in Jobs :
        Submit(j) \/ Start(j) \/ Complete(j) \/ Fail(j) \/ Cancel(j) \/ Reopen(j)
    \/ \E s \in Originals : Delete(s)

SafeSpec == Init /\ [][Next]_vars

\* A job the workers were given gets its verdict.
Settles == \A j \in Jobs : j \in submitted ~> verdict[j] # "open"

Spec == SafeSpec /\ Settles
=============================================================================
