------------------------------ MODULE JobOutbox ------------------------------
(***************************************************************************)
(* The way from a committed job row to a delivery in the stream: the       *)
(* transactional outbox, the publishers (one in each API process) that     *)
(* claim its events with a lease, send them and mark them published, and   *)
(* the reconciliation that sends a job again when Valkey has lost its      *)
(* delivery marker.  The workers are those of DeliveryHandling, reduced to *)
(* what they do to a job row and its delivery.                             *)
(*                                                                         *)
(* Wall-clock conditions become explicit steps: a claim's lease lapses, a  *)
(* published event turns from recent to stale.                             *)
(***************************************************************************)
EXTENDS JobStream

CONSTANTS
    Publishers,   \* API processes that run a JobOutboxPublisher
    Events,       \* rows outbox_events can hold
    EventJob,     \* outbox_events.aggregate_id
    MaxFaults,    \* bound: failed calls, restarts and overrun leases
    MaxLosses,    \* bound: losses of Valkey's data
    Nobody        \* NULL claim_token, and "nothing in hand"

ASSUME OutboxAssumption ==
    /\ EventJob \in [Events -> Jobs]
    /\ MaxFaults \in Nat
    /\ MaxLosses \in Nat
    /\ IsFiniteSet(Publishers)
    /\ Jobs \intersect Events = {}
    /\ Nobody \notin Publishers \union Events \union Jobs

VARIABLES
    \* PostgreSQL
    job,          \* "absent", "open" (PENDING, FAILED_RETRYABLE), "active", "settled"
    created,      \* outbox events that exist
    published,    \* published_at: "no", "recent" or older than the stale limit
    claim,        \* claim_token; one publisher has one token at a time
    lapsed,       \* claimed_at is more than five minutes ago
    attempt,      \* outbox_events.attempt
    \* publisher processes
    pc,           \* "idle", "reconcile", "enqueue", "claim", "publish", ...
    candidates,   \* jobs the reconciliation query returned, not yet handled
    batch,        \* claimed events still to publish
    current,      \* the candidate or event in hand
    \* workers
    held,         \* deliveries some worker has in hand
    \* history and bounds
    sentFor,      \* XADDs executed for the event
    faults,
    losses

rowVars   == <<job, created, published, claim, lapsed, attempt>>
localVars == <<pc, candidates, batch, current>>
bounds    == <<faults, losses>>
vars == <<streamVars, rowVars, localVars, held, sentFor, bounds>>

JobState == {"absent", "open", "active", "settled"}

TypeOK ==
    /\ StreamTypeOK
    /\ job \in [Jobs -> JobState]
    /\ created \subseteq Events
    /\ published \in [Events -> {"no", "recent", "stale"}]
    /\ claim \in [Events -> Publishers \union {Nobody}]
    /\ lapsed \in [Events -> BOOLEAN]
    /\ attempt \in [Events -> Nat]
    /\ pc \in [Publishers -> {"idle", "reconcile", "enqueue", "claim",
                              "publish", "complete", "fail"}]
    /\ candidates \in [Publishers -> SUBSET Jobs]
    /\ batch \in [Publishers -> SUBSET Events]
    /\ current \in [Publishers -> Events \union Jobs \union {Nobody}]
    /\ held \subseteq Messages
    /\ sentFor \in [Events -> Nat]
    /\ faults \in 0..MaxFaults
    /\ losses \in 0..MaxLosses
    /\ \A p \in Publishers :
         /\ pc[p] = "enqueue" <=> current[p] \in Jobs
         /\ pc[p] \in {"complete", "fail"} <=> current[p] \in Events

Init ==
    /\ StreamInit
    /\ job = [j \in Jobs |-> "absent"]
    /\ created = {}
    /\ published = [e \in Events |-> "no"]
    /\ claim = [e \in Events |-> Nobody]
    /\ lapsed = [e \in Events |-> FALSE]
    /\ attempt = [e \in Events |-> 0]
    /\ pc = [p \in Publishers |-> "idle"]
    /\ candidates = [p \in Publishers |-> {}]
    /\ batch = [p \in Publishers |-> {}]
    /\ current = [p \in Publishers |-> Nobody]
    /\ held = {}
    /\ sentFor = [e \in Events |-> 0]
    /\ faults = 0
    /\ losses = 0

EventsOf(j)  == {e \in created : EventJob[e] = j}
Unpublished  == {e \in created : published[e] = "no"}
Goto(p, op)  == pc' = [pc EXCEPT ![p] = op]
Fault        == faults < MaxFaults /\ faults' = faults + 1 /\ UNCHANGED losses

\* One INSERT into outbox_events for job j.  Which unused row it takes is
\* immaterial, so it is a fixed one.
InsertEvent(j) ==
    LET unused == {e \in Events \ created : EventJob[e] = j}
    IN  /\ unused # {}
        /\ created' = created \union {CHOOSE e \in unused : TRUE}

\* createCompressionJob: the row and its event commit together.
CreateJob(j) ==
    /\ job[j] = "absent"
    /\ job' = [job EXCEPT ![j] = "open"]
    /\ InsertEvent(j)
    /\ UNCHANGED <<streamVars, published, claim, lapsed, attempt, localVars,
                   held, sentFor, bounds>>

\* cancelCompressionJob
CancelJob(j) ==
    /\ job[j] \in {"open", "active"}
    /\ job' = [job EXCEPT ![j] = "settled"]
    /\ UNCHANGED <<streamVars, created, published, claim, lapsed, attempt,
                   localVars, held, sentFor, bounds>>
-----------------------------------------------------------------------------
(* reconcile: find candidates, look for a marker, insert again.            *)

NothingUnpublished(j) == EventsOf(j) \intersect Unpublished = {}

\* Faulty variant: whatever was published once counts as recent.
NothingRecentEver(j) == \A e \in EventsOf(j) : published[e] = "no"

NothingRecent(j) == \A e \in EventsOf(j) : published[e] # "recent"

\* findJobOutboxReconciliationCandidates
Candidate(j) ==
    /\ job[j] = "open"
    /\ \E e \in EventsOf(j) : published[e] = "stale"
    /\ NothingUnpublished(j)
    /\ NothingRecent(j)

FindCandidates(p) ==
    /\ pc[p] = "idle"
    /\ candidates' = [candidates EXCEPT ![p] = {j \in Jobs : Candidate(j)}]
    /\ Goto(p, "reconcile")
    /\ UNCHANGED <<streamVars, rowVars, batch, current, held, sentFor, bounds>>

\* Faulty variant: the marker is not consulted.
MarkerIgnored(j) == FALSE

\* hasJobDelivery for one candidate.
MarkerFound(j) == HasJobDelivery(j)

CheckMarker(p) ==
    /\ pc[p] = "reconcile"
    /\ \E j \in candidates[p] :
         /\ candidates' = [candidates EXCEPT ![p] = @ \ {j}]
         /\ IF MarkerFound(j)
            THEN UNCHANGED <<pc, current>>
            ELSE /\ current' = [current EXCEPT ![p] = j]
                 /\ Goto(p, "enqueue")
    /\ UNCHANGED <<streamVars, rowVars, batch, held, sentFor, bounds>>

\* Faulty variant: the insert trusts what the candidate query saw.
MayEnqueueUnchecked(j) == TRUE

\* The re-check inside the transaction, under the advisory lock; neither the
\* marker nor the status of the job is looked at again.
MayEnqueue(j) == NothingUnpublished(j) /\ NothingRecent(j)

\* enqueueReconciledJobOutboxEvent
Enqueue(p) ==
    /\ pc[p] = "enqueue"
    /\ IF MayEnqueue(current[p]) THEN InsertEvent(current[p])
                                 ELSE UNCHANGED created
    /\ current' = [current EXCEPT ![p] = Nobody]
    /\ Goto(p, "reconcile")
    /\ UNCHANGED <<streamVars, job, published, claim, lapsed, attempt,
                   candidates, batch, held, sentFor, bounds>>

\* The poll goes on to its claims.
EndReconcile(p) ==
    /\ pc[p] = "reconcile"
    /\ candidates[p] = {}
    /\ Goto(p, "claim")
    /\ UNCHANGED <<streamVars, rowVars, candidates, batch, current, held,
                   sentFor, bounds>>
-----------------------------------------------------------------------------
(* poll: claim events with a lease, publish them one after the other.      *)

\* Faulty variant: claims never expire.
ClaimableNever == {e \in Unpublished : claim[e] = Nobody}

Claimable == {e \in Unpublished : claim[e] = Nobody \/ lapsed[e]}

\* claimJobOutboxEvents; a poll need not reconcile first.  Rows that are not
\* due yet (next_attempt_at) or locked by another publisher are passed over.
ClaimEvents(p) ==
    /\ pc[p] \in {"idle", "claim"}
    /\ \E found \in SUBSET Claimable :
         /\ found = {} => Claimable = {} /\ pc[p] = "claim"
         /\ claim' = [e \in Events |-> IF e \in found THEN p ELSE claim[e]]
         /\ lapsed' = [e \in Events |-> lapsed[e] /\ e \notin found]
         /\ attempt' = [e \in Events |->
                IF e \in found THEN attempt[e] + 1 ELSE attempt[e]]
         /\ batch' = [batch EXCEPT ![p] = found]
         /\ Goto(p, IF found = {} THEN "idle" ELSE "publish")
    /\ UNCHANGED <<streamVars, job, created, published, candidates, current,
                   held, sentFor, bounds>>

\* Faulty variant: nothing reaches the stream.
SendNothing(e) == UNCHANGED <<streamVars, sentFor>>

\* The XADD and SADD script for event e.
Send(e) ==
    LET unused == {m \in Messages \ sent : JobOf[m] = EventJob[e]}
    IN  /\ unused # {}
        /\ XAdd(CHOOSE m \in unused : TRUE)
        /\ sentFor' = [sentFor EXCEPT ![e] = @ + 1]

\* publishCompression and its siblings; an error may hide a success.
Publish(p) ==
    /\ pc[p] = "publish"
    /\ \E e \in batch[p] :
         /\ current' = [current EXCEPT ![p] = e]
         /\ batch' = [batch EXCEPT ![p] = @ \ {e}]
         /\ \/ Send(e) /\ Goto(p, "complete") /\ UNCHANGED bounds
            \/ Send(e) /\ Goto(p, "fail") /\ Fault
            \/ UNCHANGED <<streamVars, sentFor>> /\ Goto(p, "fail") /\ Fault
    /\ UNCHANGED <<rowVars, candidates, held>>

\* What follows one event of a batch.
NextEvent(p) ==
    /\ current' = [current EXCEPT ![p] = Nobody]
    /\ Goto(p, IF batch[p] = {} THEN "idle" ELSE "publish")

MarkPublished(e) ==
    /\ published' = [published EXCEPT ![e] = "recent"]
    /\ claim' = [claim EXCEPT ![e] = Nobody]
    /\ lapsed' = [lapsed EXCEPT ![e] = FALSE]

\* Faulty variant: the token is not part of the WHERE clause.
HoldsAnyClaim(p, e) == TRUE

\* WHERE id = ... AND claim_token = ...
HoldsClaim(p, e) == claim[e] = p

\* completeJobOutboxEvent.  An exception (whether or not the UPDATE was
\* committed) goes on to failJobOutboxEvent.
Complete(p) ==
    /\ pc[p] = "complete"
    /\ \/ /\ IF HoldsClaim(p, current[p])
             THEN MarkPublished(current[p])
             ELSE UNCHANGED <<published, claim, lapsed>>
          /\ \/ NextEvent(p) /\ UNCHANGED bounds
             \/ Goto(p, "fail") /\ UNCHANGED current /\ Fault
       \/ /\ UNCHANGED <<published, claim, lapsed, current>>
          /\ Goto(p, "fail") /\ Fault
    /\ UNCHANGED <<streamVars, job, created, attempt, candidates, batch, held,
                   sentFor>>

\* failJobOutboxEvent: the claim is given back; the backoff only delays when
\* the event is due again.
Fail(p) ==
    /\ pc[p] = "fail"
    /\ IF HoldsClaim(p, current[p]) /\ published[current[p]] = "no"
       THEN /\ claim' = [claim EXCEPT ![current[p]] = Nobody]
            /\ lapsed' = [lapsed EXCEPT ![current[p]] = FALSE]
       ELSE UNCHANGED <<claim, lapsed>>
    /\ NextEvent(p)
    /\ UNCHANGED <<streamVars, job, created, published, attempt, candidates,
                   batch, held, sentFor, bounds>>

\* The poll throws, or the API process restarts: what it claimed stays claimed.
AbortPoll(p) ==
    /\ pc[p] # "idle"
    /\ Fault
    /\ candidates' = [candidates EXCEPT ![p] = {}]
    /\ batch' = [batch EXCEPT ![p] = {}]
    /\ current' = [current EXCEPT ![p] = Nobody]
    /\ Goto(p, "idle")
    /\ UNCHANGED <<streamVars, rowVars, held, sentFor>>

AtWork(p, e) == e \in batch[p] \union {current[p]}

\* Five minutes pass.  While the claimant is still at work on the event this
\* takes a slow batch, and counts against the bound.
LeaseLapses(e) ==
    /\ claim[e] # Nobody /\ ~lapsed[e]
    /\ lapsed' = [lapsed EXCEPT ![e] = TRUE]
    /\ IF AtWork(claim[e], e) THEN Fault ELSE UNCHANGED bounds
    /\ UNCHANGED <<streamVars, job, created, published, claim, attempt,
                   localVars, held, sentFor>>

\* JOB_OUTBOX_STALE_MS pass since published_at.
TurnStale(e) ==
    /\ published[e] = "recent"
    /\ published' = [published EXCEPT ![e] = "stale"]
    /\ UNCHANGED <<streamVars, job, created, claim, lapsed, attempt, localVars,
                   held, sentFor, bounds>>
-----------------------------------------------------------------------------
(* The workers and Valkey.                                                 *)

Worker == INSTANCE DeliveryHandling

WorkerUnchanged ==
    UNCHANGED <<created, published, claim, lapsed, attempt, localVars, sentFor>>

\* A step that moves a row back to open, or gives a delivery back, leads to a
\* retry: it counts against the bound.
Deliver(m) == Worker!Deliver(m) /\ UNCHANGED bounds /\ WorkerUnchanged

WorkOn(m) ==
    /\ Worker!Work(m)
    /\ IF job'[JobOf[m]] = "open" THEN Fault ELSE UNCHANGED bounds
    /\ WorkerUnchanged

GiveBack(m) == Worker!GiveBack(m) /\ Fault /\ WorkerUnchanged

Acknowledge(m) == Worker!Acknowledge(m) /\ UNCHANGED bounds /\ WorkerUnchanged

\* XGROUP CREATE ... 0 MKSTREAM, only when a worker process starts.
EnsureGroups ==
    /\ group' = TRUE
    /\ UNCHANGED <<sent, entries, pending, markers>>

\* A worker process ends and is started again.
RestartWorker ==
    /\ Fault
    /\ \E dropped \in {{}} \union {{m} : m \in held} : held' = held \ dropped
    /\ EnsureGroups
    /\ UNCHANGED job
    /\ WorkerUnchanged

\* Valkey comes back empty: streams, consumer groups and markers are gone.
LoseValkey ==
    /\ losses < MaxLosses
    /\ losses' = losses + 1
    /\ entries' = {} /\ pending' = {} /\ markers' = {} /\ group' = FALSE
    /\ UNCHANGED <<sent, job, held, faults>>
    /\ WorkerUnchanged
-----------------------------------------------------------------------------
PollStep(p) ==
    \/ FindCandidates(p) \/ CheckMarker(p) \/ Enqueue(p) \/ EndReconcile(p)
    \/ ClaimEvents(p) \/ Publish(p) \/ Complete(p) \/ Fail(p)

Next ==
    \/ \E j \in Jobs : CreateJob(j) \/ CancelJob(j)
    \/ \E p \in Publishers : PollStep(p) \/ AbortPoll(p)
    \/ \E e \in Events : LeaseLapses(e) \/ TurnStale(e)
    \/ \E m \in Messages :
        Deliver(m) \/ WorkOn(m) \/ GiveBack(m) \/ Acknowledge(m)
    \/ RestartWorker
    \/ LoseValkey

Spec == Init /\ [][Next]_vars

\* Every API process polls on a timer and reconciles whenever its interval is
\* over, so a poll in progress goes on and every idle publisher comes back to
\* both; leases and stale limits run out; workers loop over the streams.
FairSpec ==
    /\ Spec
    /\ \A p \in Publishers :
         /\ WF_vars(PollStep(p))
         /\ SF_vars(FindCandidates(p))
    /\ \A e \in Events :
         /\ WF_vars(LeaseLapses(e) /\ ~AtWork(claim[e], e))
         /\ WF_vars(TurnStale(e))
    /\ \A m \in Messages :
         /\ WF_vars(Deliver(m))
         /\ WF_vars(WorkOn(m) \/ Acknowledge(m))
-----------------------------------------------------------------------------
(* Safety.                                                                 *)

InStream(j) == \E m \in entries : JobOf[m] = j

\* As long as Valkey keeps its data, a job that is not settled always has
\* something that will bring it to a worker: an event still to be published
\* or an entry in the stream.  (publish before completeJobOutboxEvent;
\* acknowledgement only after a terminal state.)
UnsettledJobIsCovered ==
    losses = 0 =>
        \A j \in Jobs :
            job[j] \in {"open", "active"} =>
                InStream(j) \/ ~NothingUnpublished(j)

\* Several API processes reconcile at once, yet a job never has two events
\* waiting to be published (the re-check under the advisory lock).
OneEventWaiting ==
    \A j \in Jobs : \A e, f \in EventsOf(j) \intersect Unpublished : e = f

\* Without a failure, an overrun lease or a loss of Valkey, an unsettled job
\* is never in the stream twice: claims and markers keep publishers apart.
DeliveredOnceWithoutFault ==
    faults = 0 /\ losses = 0 =>
        \A j \in Jobs : job[j] \in {"open", "active"} =>
            \A m, n \in entries : JobOf[m] = j /\ JobOf[n] = j => m = n

\* A claim buys at most one send, and an event counts as published only after
\* a send: every duplicate is paid for by an attempt.
SendsMatchClaims ==
    \A e \in Events :
        /\ sentFor[e] <= attempt[e]
        /\ published[e] # "no" => sentFor[e] > 0

\* A claim whose lease has not run out is given up by its holder only: a slow
\* publisher does not release or complete an event somebody else has taken.
ClaimsRespected ==
    [][\A e \in Events :
          claim[e] # Nobody /\ ~lapsed[e] /\ claim'[e] # claim[e] =>
              \E p \in Publishers : claim[e] = p /\ current[p] = e]_vars

-----------------------------------------------------------------------------
(* Liveness.                                                               *)

\* A created job is settled, whatever publishers and workers go through, as
\* long as Valkey loses nothing.
SettledUnlessValkeyLost ==
    \A j \in Jobs :
        (job[j] # "absent" /\ [](losses = 0)) ~> (job[j] = "settled")

\* A job that is pending or retryable and has lost its delivery gets into the
\* stream again by reconciliation.
LostDeliveryIsReplaced ==
    \A j \in Jobs :
        (job[j] = "open" /\ ~InStream(j)) ~> (InStream(j) \/ job[j] # "open")

\* deployment.md on the loss of the stream: work is delayed, no more.  Stated
\* for pending and retryable jobs, the ones reconciliation looks at.
LossOnlyDelays ==
    \A j \in Jobs : job[j] = "open" ~> job[j] # "open"
=============================================================================
